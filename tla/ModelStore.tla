------------------------------ MODULE ModelStore ------------------------------
(***************************************************************************)
(* How app.js keeps the trained model: the one record db.js stores it in,  *)
(* the save at the end of a run (saveModel), the autosaves during one      *)
(* (autosave, its pending slot and its retried export), and what replaces  *)
(* the project around them: New Project, Import Project, and a tab that    *)
(* goes away and comes back.                                               *)
(*                                                                         *)
(* A model is the project it belongs to, the steps it was trained for, and *)
(* the project its Adam moments come from.  The worker's side is reduced   *)
(* to steps, and to the one guard an export has to have.                   *)
(***************************************************************************)
EXTENDS Naturals, Sequences

CONSTANTS None,
          MaxStep,      \* bound on the steps a model is trained for
          MaxProject,   \* bound on the projects started
          MaxMail,      \* bound on exports posted and not yet heard
          Replacements  \* the ways a project may be replaced: "new", "import"

Projects == 1 .. MaxProject
Steps == 0 .. MaxStep
Model == [project : Projects, steps : Steps, moments : Projects \cup {None}]
Bytes == [project : Projects, steps : Steps]

ASSUME StoreAssumption ==
    /\ MaxStep \in Nat /\ MaxProject \in Nat \ {0} /\ MaxMail \in Nat \ {0}
    /\ Replacements \subseteq {"new", "import"}
    /\ None \notin Nat /\ None \notin Model /\ None \notin Bytes

VARIABLES
    project,    \* whose sources and history are stored
    model,      \* the worker's model, or None
    known,      \* app.js: `model` is set
    store,      \* the 'current' record of MODELS_STORE, or None
    run,        \* the Train click: where it is
    saving,     \* what saveModel has exported
    saver,      \* autosave: where the one in flight is, and what it holds
    pending,    \* autosavePending: <<>>, or the bytes given, None to export
    mail,       \* train-autosave messages on their way to the page
    clearing,   \* New Project: where it is
    posted,     \* history: steps in the last autosave of this run
    heard,      \* history: the weights the last autosave was asked for
    missed      \* history: the last autosave did not get to write

page == <<run, saving, saver, pending, mail>>
history == <<posted, heard, missed>>
vars == <<project, model, known, store, page, clearing, history>>

Saves == [at : {"idle", "asking", "exporting", "reading", "putting", "writing"},
          bytes : Bytes \cup {None}, moments : Projects \cup {None}]
Weights(m) == [project |-> m.project, steps |-> m.steps]

Idle == [at |-> "idle", bytes |-> None, moments |-> None]

TypeOK ==
    /\ project \in Projects
    /\ model \in Model \cup {None} /\ known \in BOOLEAN /\ store \in Model \cup {None}
    /\ run \in {"idle", "running", "ending", "exporting", "putting"}
    /\ saving \in Model \cup {None}
    /\ saver \in Saves /\ pending \in {<<>>} \cup {<<bytes>> : bytes \in Bytes \cup {None}}
    /\ mail \in Seq(Bytes) /\ Len(mail) <= MaxMail
    /\ clearing \in {"no", "sources", "cleared"}
    /\ posted \in Steps \cup {None}
    /\ heard \in Bytes \cup {None} /\ missed \in BOOLEAN

Init ==
    /\ project = 1 /\ model = None /\ known = FALSE /\ store = None
    /\ run = "idle" /\ saving = None /\ saver = Idle /\ pending = <<>> /\ mail = <<>>
    /\ clearing = "no"
    /\ posted = None /\ heard = None /\ missed = FALSE

----------------------------------------------------------------------------
(* A run.                                                                  *)

\* An export has the model's guard from its start to its end.
Exporting == saver.at = "exporting" \/ run = "exporting"

PressTrain ==
    /\ run = "idle" /\ run' = "running"
    /\ model' = IF known THEN model ELSE [project |-> project, steps |-> 0, moments |-> None]
    /\ known' = TRUE
    /\ posted' = None
    /\ UNCHANGED <<project, store, saving, saver, pending, mail, clearing, heard, missed>>

TrainStep ==
    /\ run = "running" /\ ~Exporting
    /\ model.steps < MaxStep
    /\ model' = [model EXCEPT !.steps = @ + 1,
                              !.moments = IF @ = None THEN model.project ELSE @]
    /\ UNCHANGED <<project, known, store, page, clearing, history>>

\* The worker exports between slices and hands the bytes over.
PostAutosave ==
    /\ run = "running" /\ ~Exporting
    /\ posted # model.steps /\ Len(mail) < MaxMail
    /\ mail' = Append(mail, Weights(model)) /\ posted' = model.steps
    /\ UNCHANGED <<project, model, known, store, run, saving, saver, pending, clearing, heard, missed>>

\* One that fails is not saved.
RunEnds ==
    /\ run = "running" /\ run' \in {"ending", "idle"}
    /\ UNCHANGED <<project, model, known, store, saving, saver, pending, mail, clearing, history>>

\* The page hears of it after everything the worker had posted.  saveModel
\* asks once; refused, the model is not saved, and the page says so.
SaveModel ==
    /\ run = "ending" /\ mail = <<>>
    /\ run' = IF Exporting THEN "idle" ELSE "exporting"
    /\ known' = TRUE
    /\ UNCHANGED <<project, model, store, saving, saver, pending, mail, clearing, history>>

\* Checkpoint, then moments: missing moments are stored as none, a missing
\* checkpoint ends the save.
SaveModelExported ==
    /\ run = "exporting"
    /\ \/ run' = "putting" /\ saving' \in {model, [model EXCEPT !.moments = None]}
       \/ run' = "idle" /\ UNCHANGED saving
    /\ UNCHANGED <<project, model, known, store, saver, pending, mail, clearing, history>>

SaveModelPut ==
    /\ run = "putting" /\ run' = "idle"
    /\ \/ store' = saving
       \/ UNCHANGED store           \* storage full or denied
    /\ saving' = None
    /\ UNCHANGED <<project, model, known, saver, pending, mail, clearing, posted, heard, missed>>

----------------------------------------------------------------------------
(* autosave(step, { force, bytes }).                                       *)

\* Up to its first await: with bytes given it goes on to read the stored
\* moments, without it asks the worker for an export.
Start(bytes) ==
    saver' = [at |-> IF bytes = None THEN "asking" ELSE "reading",
              bytes |-> bytes, moments |-> None]

\* Mutant of Autosave: the first that comes during a save is remembered.
AutosaveKeepsFirst(bytes) ==
    IF saver.at = "idle" THEN Start(bytes) /\ UNCHANGED pending
    ELSE pending' = (IF pending = <<>> THEN <<bytes>> ELSE pending) /\ UNCHANGED saver

\* One at a time; the latest that came during one is remembered.
Autosave(bytes) ==
    IF saver.at = "idle" THEN Start(bytes) /\ UNCHANGED pending
    ELSE pending' = <<bytes>> /\ UNCHANGED saver

HearAutosave ==
    /\ mail # <<>> /\ mail' = Tail(mail)
    /\ Autosave(Head(mail))
    /\ heard' = Head(mail)
    /\ UNCHANGED <<project, model, known, store, run, saving, clearing, posted, missed>>

\* The tab is hidden (never during a run or a save), or an autosave file
\* was chosen (at any time).
ForceAutosave(hidden) ==
    /\ known
    /\ hidden => run = "idle" /\ saver.at = "idle"
    /\ Autosave(None)
    /\ heard' = Weights(model)
    /\ UNCHANGED <<project, model, known, store, run, saving, mail, clearing, posted, missed>>

\* Mutant of Finish: what came meanwhile is not caught up with.
FinishAlone(failed) == missed' = failed /\ saver' = Idle /\ UNCHANGED pending

\* The `finally`: one catch-up save for whatever came last.
Finish(failed) ==
    /\ missed' = failed /\ pending' = <<>>
    /\ IF pending = <<>> THEN saver' = Idle ELSE Start(pending[1])

GoOn(at) == saver' = [saver EXCEPT !.at = at] /\ UNCHANGED <<pending, missed>>

\* Mutant of Ask: it does not ask for the guard.
AskAnyway ==
    /\ saver.at = "asking"
    /\ GoOn("exporting") \/ (Exporting /\ Finish(TRUE))
    /\ UNCHANGED <<project, model, known, store, run, saving, mail, clearing, posted, heard>>

\* Each attempt is refused while another export has the guard, and a step
\* may have it too; after six it gives up.
Ask ==
    /\ saver.at = "asking"
    /\ \/ ~Exporting /\ GoOn("exporting")
       \/ (Exporting \/ run = "running") /\ Finish(TRUE)
    /\ UNCHANGED <<project, model, known, store, run, saving, mail, clearing, posted, heard>>

Exported ==
    /\ saver.at = "exporting"
    /\ \/ /\ saver' = [saver EXCEPT !.at = "reading", !.bytes = Weights(model)]
          /\ UNCHANGED <<pending, missed>>
       \/ Finish(TRUE)
    /\ UNCHANGED <<project, model, known, store, run, saving, mail, clearing, posted, heard>>

Read ==
    /\ saver.at = "reading"
    /\ saver' = [saver EXCEPT !.at = "putting",
                              !.moments = IF store = None THEN None ELSE store.moments]
    /\ UNCHANGED <<project, model, known, store, run, saving, pending, mail, clearing, history>>

Put ==
    /\ saver.at = "putting"
    /\ \/ /\ store' = [project |-> saver.bytes.project, steps |-> saver.bytes.steps,
                       moments |-> saver.moments]
          /\ GoOn("writing") \/ Finish(FALSE)      \* with a file chosen, or without
       \/ Finish(TRUE) /\ UNCHANGED store
    /\ UNCHANGED <<project, model, known, run, saving, mail, clearing, posted, heard>>

\* The project file; failing it is a failed save, but the record is stored.
Written ==
    /\ saver.at = "writing"
    /\ Finish(FALSE)
    /\ UNCHANGED <<project, model, known, store, run, saving, mail, clearing, posted, heard>>

Saver == Ask \/ Exported \/ Read \/ Put \/ Written

----------------------------------------------------------------------------
(* What replaces the model.                                                *)

\* The tab goes away, and restoreModel loads what is stored.
Reload ==
    /\ model' = store /\ known' = (store # None)
    /\ run' = "idle" /\ saving' = None /\ saver' = Idle /\ pending' = <<>> /\ mail' = <<>>
    /\ clearing' = "no"
    /\ posted' = None /\ heard' = None /\ missed' = FALSE
    /\ UNCHANGED <<project, store>>

\* New Project: sources and history, then the model, then a reload.
NewProject ==
    /\ "new" \in Replacements
    /\ clearing = "no" /\ clearing' = "sources"
    /\ project < MaxProject /\ project' = project + 1
    /\ UNCHANGED <<model, known, store, page, history>>

ClearModels ==
    /\ clearing = "sources" /\ clearing' = "cleared"
    /\ store' = None /\ heard' = None
    /\ UNCHANGED <<project, model, known, page, posted, missed>>

\* Import Project replaces sources and history, then the model; the two are
\* one step here, so a tab that goes away between them is not seen.
Import ==
    /\ "import" \in Replacements
    /\ clearing = "no"
    /\ project < MaxProject /\ project' = project + 1

\* A file with a checkpoint in it: it goes to the worker.  One that trains
\* answers with an error, which the page takes for a model; one that exports
\* throws.
ImportProject(steps, moments) ==
    /\ Import
    /\ known' = (known \/ run = "running" \/ ~Exporting)
    /\ IF run = "running" \/ Exporting
       THEN UNCHANGED model
       ELSE model' = [project |-> project', steps |-> steps,
                      moments |-> IF moments THEN project' ELSE None]
    /\ heard' = None
    /\ UNCHANGED <<store, page, clearing, posted, missed>>

\* A file without one: the page forgets its model, and saveModel fails on
\* that between its export and its put.  The worker keeps the model.
ImportNoModel ==
    /\ Import
    /\ store' = None /\ heard' = None
    /\ known' = FALSE
    /\ run' = IF run = "exporting" THEN "idle" ELSE run
    /\ UNCHANGED <<model, saving, saver, pending, mail, clearing, posted, missed>>

----------------------------------------------------------------------------
Train == PressTrain \/ TrainStep \/ PostAutosave \/ RunEnds
EndOfRun == SaveModel \/ SaveModelExported \/ SaveModelPut

Next ==
    \/ Train \/ EndOfRun \/ Saver \/ HearAutosave
    \/ \E hidden \in BOOLEAN : ForceAutosave(hidden)
    \/ Reload \/ NewProject \/ ClearModels \/ ImportNoModel
    \/ \E steps \in Steps, moments \in BOOLEAN : ImportProject(steps, moments)

\* What the page has started goes on; training and clicks need not.
Fairness == WF_vars(Saver) /\ WF_vars(EndOfRun) /\ WF_vars(HearAutosave)

Spec == Init /\ [][Next]_vars /\ Fairness

----------------------------------------------------------------------------
(* Properties.                                                             *)

\* Two exports are never stacked: "the exact thing that exhausted the heap".
OneExportAtATime == ~(saver.at = "exporting" /\ run = "exporting")

\* However slow the writes and however fast the saves come, once the page
\* has caught up, what is stored is no older than the weights the last
\* autosave was asked for, unless that very autosave failed.
SaverCatchesUp ==
    saver.at = "idle" /\ ~missed /\ heard # None /\ store # None /\ store.project = heard.project
    => store.steps >= heard.steps

\* An autosave comes to its end, and so does the one that waited for it,
\* whichever of them fails.
SaverComesToRest ==
    saver.at # "idle" /\ pending # <<>> ~> pending = <<>>

----------------------------------------------------------------------------
(* Why they hold: an invariant every step preserves.                       *)

Holding == {"reading", "putting", "writing"}   \* autosave has bytes to store

\* w is not newer than the worker's model.
NotAhead(w) ==
    /\ w.project <= model.project
    /\ w.project = model.project => w.steps <= model.steps

\* Storing w does what the last autosave was asked for, at least.
Covers(w) == heard # None /\ heard.project = w.project => w.steps >= heard.steps

\* Whoever is about to use a model or its bytes has them.
Present ==
    /\ known \/ run # "idle" \/ saver.at # "idle" => model # None
    /\ model = None => mail = <<>> /\ heard = None
    /\ saver.at = "idle" => pending = <<>>
    /\ saver.at \in Holding => saver.bytes # None
    /\ run = "putting" => saving # None
    /\ run \in {"exporting", "putting"} => mail = <<>>

\* Nothing is of a project not begun yet; what was posted or heard is not
\* ahead of the model; and a model the page has forgotten is of an earlier
\* project than the next one it begins.
Begun(w) == w # None => w.project <= project
Ordered ==
    /\ Begun(model) /\ Begun(store) /\ Begun(saving) /\ Begun(saver.bytes)
    /\ pending # <<>> => Begun(pending[1])
    /\ model # None /\ ~known => model.project < project
    /\ \A i \in DOMAIN mail : NotAhead(mail[i])
    /\ heard # None => NotAhead(heard)

\* Every write still to come covers what the last autosave was asked for:
\* saveModel's, which is as new as the model besides, the autosave in flight
\* if nothing waits behind it, and what waits.  The two writers are not
\* ordered by this: an autosave may store less than saveModel just has.
Covered ==
    /\ run = "putting" =>
          Covers(saving) /\ (saving.project = model.project => saving.steps >= model.steps)
    /\ saver.at \in Holding /\ pending = <<>> => Covers(saver.bytes)
    /\ pending # <<>> /\ pending[1] # None => Covers(pending[1])
    /\ saver.at = "writing" /\ pending = <<>> /\ store # None => Covers(store)
    /\ SaverCatchesUp

\* The inductive invariant: whoever is about to export or to store has what
\* it needs, nothing is of a project not begun, and no write is to come that
\* would leave the last autosave asked for undone (app.js saveModel, autosave
\* with its `finally`, importProject, newProject, restoreModel).
StoreInv == TypeOK /\ Present /\ Ordered /\ Covered /\ OneExportAtATime
=============================================================================
