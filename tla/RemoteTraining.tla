---------------------------- MODULE RemoteTraining ----------------------------
(***************************************************************************)
(* Pages that train on a TrainingServer: each page's RemoteBackend         *)
(* (frontend/backend/remote-backend.js), the Train and Stop buttons of     *)
(* app.js, and the HTTP requests and answers between them, which arrive    *)
(* in any order.                                                           *)
(***************************************************************************)
EXTENDS TrainingServer

CONSTANTS MaxRuns,   \* bound on the times Train is pressed
          SyncEvery  \* autosaveFrequencySteps

ASSUME PagesAssumption == MaxRuns \in Nat /\ SyncEvery \in Nat \ {0}

VARIABLES
    page,      \* where each page's run is
    session,   \* RemoteBackend.sessionId
    limit,     \* Planned steps, as read when Train was pressed
    lastSync,  \* RemoteBackend.lastSyncStep
    stopped,   \* Stop was pressed; its button stays disabled until the run ends
    local,     \* checkpoint of the page's own model
    wire,      \* requests on their way to the server
    presses    \* times Train was pressed

pageVars == <<page, session, limit, lastSync, stopped, local, wire, presses>>
vars == <<serverVars, pageVars>>

\* What a page awaits in each phase; "streaming" and "deaf" await nothing.
Awaits == [creating |-> "create", starting |-> "start", undoing |-> "undo",
           connecting |-> "events", pulling |-> "final"]
Waiting == DOMAIN Awaits
Phases == Waiting \cup {"idle", "streaming", "deaf"}

\* Phases in which the page says a run is going and shows the Stop button.
SaysTraining(c) == page[c] # "idle"

TypeOK ==
    /\ ServerTypeOK
    /\ page \in [Pages -> Phases]
    /\ session \in [Pages -> Ids \cup {None}]
    /\ limit \in [Pages -> Limits \cup {0}]
    /\ lastSync \in [Pages -> Steps]
    /\ stopped \in [Pages -> BOOLEAN]
    /\ local \in [Pages -> Checkpoint]
    /\ wire \subseteq Request
    /\ presses \in 0 .. MaxRuns

Init ==
    /\ ServerInit
    /\ page = [c \in Pages |-> "idle"]
    /\ session = [c \in Pages |-> None]
    /\ limit = [c \in Pages |-> 0]
    /\ lastSync = [c \in Pages |-> 0]
    /\ stopped = [c \in Pages |-> FALSE]
    /\ local = [c \in Pages |-> Blank(c)]
    /\ wire = {} /\ presses = 0

----------------------------------------------------------------------------
Ask(c, kind, id) ==
    [page |-> c, kind |-> kind, session |-> id, live |-> TRUE,
     checkpoint |-> IF kind = "create" THEN local[c] ELSE Blank(c),
     limit |-> IF kind = "start" THEN limit[c] ELSE 0]

Send(requests) == wire' = wire \cup requests
GoTo(c, phase) == page' = [page EXCEPT ![c] = phase]

\* Train: startTraining with the page's own checkpoint.
PressTrain(c, steps) ==
    /\ page[c] = "idle" /\ presses < MaxRuns
    /\ presses' = presses + 1
    /\ GoTo(c, "creating")
    /\ limit' = [limit EXCEPT ![c] = steps]
    /\ lastSync' = [lastSync EXCEPT ![c] = 0]
    /\ stopped' = [stopped EXCEPT ![c] = FALSE]
    /\ Send({Ask(c, "create", None)})
    /\ UNCHANGED <<serverVars, session, local>>

\* Mutant of PressStop: the page takes the run for ended as soon as it asks.
PressStopAndLeave(c) ==
    /\ SaysTraining(c) /\ ~stopped[c]
    /\ stopped' = [stopped EXCEPT ![c] = TRUE]
    /\ Send(IF session[c] = None THEN {} ELSE {Ask(c, "stop", session[c])})
    /\ GoTo(c, "idle")
    /\ UNCHANGED <<serverVars, session, limit, lastSync, local, presses>>

\* Stop: the button is disabled whatever stopTraining finds.
PressStop(c) ==
    /\ SaysTraining(c) /\ ~stopped[c]
    /\ stopped' = [stopped EXCEPT ![c] = TRUE]
    /\ Send(IF session[c] = None THEN {} ELSE {Ask(c, "stop", session[c])})
    /\ UNCHANGED <<serverVars, page, session, limit, lastSync, local, presses>>

----------------------------------------------------------------------------
(* Answers.  A page takes one off `replies` and goes on.                   *)

Receive(r) ==
    /\ replies' = replies \ {r}
    /\ UNCHANGED <<sessions, nextId, run, queue, registry, streams, faults>>

CreateReplied(r) ==
    LET c == r.page IN
    /\ r.kind = "create" /\ Receive(r)
    /\ IF r.ok
       THEN /\ session' = [session EXCEPT ![c] = r.session]
            /\ GoTo(c, "starting") /\ Send({Ask(c, "start", r.session)})
       ELSE GoTo(c, "idle") /\ UNCHANGED <<session, wire>>
    /\ UNCHANGED <<limit, lastSync, stopped, local, presses>>

\* Mutant of StartReplied: a refused start leaves its session behind.
StartRepliedNoUndo(r) ==
    LET c == r.page IN
    /\ r.kind = "start" /\ Receive(r)
    /\ GoTo(c, IF r.ok THEN "connecting" ELSE "idle")
    /\ Send(IF r.ok THEN {Ask(c, "events", session[c])} ELSE {})
    /\ UNCHANGED <<session, limit, lastSync, stopped, local, presses>>

StartReplied(r) ==
    LET c == r.page IN
    /\ r.kind = "start" /\ Receive(r)
    /\ GoTo(c, IF r.ok THEN "connecting" ELSE "undoing")
    /\ Send({Ask(c, IF r.ok THEN "events" ELSE "undo", session[c])})
    /\ UNCHANGED <<session, limit, lastSync, stopped, local, presses>>

\* The failed start's session is given up whatever the answer.
UndoReplied(r) ==
    LET c == r.page IN
    /\ r.kind = "undo" /\ Receive(r)
    /\ session' = [session EXCEPT ![c] = None]
    /\ GoTo(c, "idle")
    /\ UNCHANGED <<limit, lastSync, stopped, local, wire, presses>>

\* Mutant of EventsReplied: a refusal is not noticed.
EventsRepliedIfOk(r) ==
    /\ r.kind = "events" /\ r.ok /\ Receive(r)
    /\ GoTo(r.page, "streaming")
    /\ UNCHANGED <<session, limit, lastSync, stopped, local, wire, presses>>

\* A stream that could not be opened is reported, and nothing else.
EventsReplied(r) ==
    /\ r.kind = "events" /\ Receive(r)
    /\ GoTo(r.page, IF r.ok THEN "streaming" ELSE "deaf")
    /\ UNCHANGED <<session, limit, lastSync, stopped, local, wire, presses>>

\* remote-checkpoint: import it, which a local model that is busy refuses.
ImportIfOk(r) ==
    \/ r.ok /\ local' = [local EXCEPT ![r.page] = r.checkpoint]
    \/ UNCHANGED local

PullReplied(r) ==
    /\ r.kind = "pull" /\ Receive(r)
    /\ ImportIfOk(r)
    /\ UNCHANGED <<page, session, limit, lastSync, stopped, wire, presses>>

\* The rest of handleStopped: train-stopped, stop listening, delete.
FinalReplied(r) ==
    LET c == r.page IN
    /\ r.kind = "final"
    /\ replies' = replies \ {r}
    /\ ImportIfOk(r)
    /\ GoTo(c, "idle")
    /\ streams' = [streams EXCEPT ![c] = None]
    /\ Send({Ask(c, "delete", r.session)})
    /\ UNCHANGED <<sessions, nextId, run, queue, registry, faults,
                   session, limit, lastSync, stopped, presses>>

DeleteReplied(r) ==
    /\ r.kind = "delete" /\ Receive(r)
    /\ session' = [session EXCEPT ![r.page] = IF @ = r.session THEN None ELSE @]
    /\ UNCHANGED <<page, limit, lastSync, stopped, local, wire, presses>>

Replied(c) == \E r \in replies :
    /\ r.page = c
    /\ \/ CreateReplied(r) \/ StartReplied(r) \/ UndoReplied(r) \/ EventsReplied(r)
       \/ PullReplied(r) \/ FinalReplied(r) \/ DeleteReplied(r)

----------------------------------------------------------------------------
(* Events.                                                                 *)

NextEvent(c, type) ==
    /\ page[c] = "streaming"
    /\ streams[c] # None /\ streams[c].unread # <<>>
    /\ Head(streams[c].unread).type = type
    /\ streams' = [streams EXCEPT ![c].unread = Tail(@)]
    /\ UNCHANGED <<sessions, nextId, run, queue, registry, replies, faults>>

\* handleProgress: every SyncEvery steps, pull a checkpoint, not awaited.
HandleProgress(c) ==
    LET step == Head(streams[c].unread).step
        due == step >= lastSync[c] + SyncEvery
    IN
    /\ NextEvent(c, "progress")
    /\ lastSync' = [lastSync EXCEPT ![c] = IF due THEN step ELSE @]
    /\ Send(IF due THEN {Ask(c, "pull", streams[c].session)} ELSE {})
    /\ UNCHANGED <<page, session, limit, stopped, local, presses>>

\* handleStopped up to its await of the final checkpoint.
HandleStopped(c) ==
    /\ NextEvent(c, "stopped")
    /\ GoTo(c, "pulling")
    /\ Send({Ask(c, "final", streams[c].session)})
    /\ UNCHANGED <<session, limit, lastSync, stopped, local, presses>>

Listen(c) == HandleProgress(c) \/ HandleStopped(c)

----------------------------------------------------------------------------
(* The network.                                                            *)

Deliver(c) == \E m \in wire :
    /\ m.page = c
    /\ wire' = wire \ {m}
    /\ Subscribe(m) \/ Enqueue(m)
    /\ UNCHANGED <<page, session, limit, lastSync, stopped, local, presses>>

\* A request that never arrives fails at the page.
LoseRequest(m) ==
    /\ Fault
    /\ wire' = wire \ {m}
    /\ IF m.kind = "stop" THEN UNCHANGED replies ELSE Refuse(m)
    /\ UNCHANGED <<sessions, nextId, run, queue, registry, streams,
                   page, session, limit, lastSync, stopped, local, presses>>

\* An answer that never arrives is a failure to the page.
LoseReply(r) ==
    /\ Fault /\ r.ok
    /\ replies' = (replies \ {r}) \cup {[r EXCEPT !.ok = FALSE]}
    /\ UNCHANGED <<sessions, nextId, run, queue, registry, streams, pageVars>>

\* A stream that breaks is reported and not opened again.
LoseStream(c) ==
    /\ Fault
    /\ page[c] = "streaming"
    /\ streams' = [streams EXCEPT ![c] = None]
    /\ GoTo(c, "deaf")
    /\ UNCHANGED <<sessions, nextId, run, queue, registry, replies,
                   session, limit, lastSync, stopped, local, wire, presses>>

ServerCrash ==
    /\ Crash
    /\ page' = [c \in Pages |-> IF page[c] = "streaming" THEN "deaf" ELSE page[c]]
    /\ UNCHANGED <<session, limit, lastSync, stopped, local, wire, presses>>

Faulty ==
    \/ \E m \in wire : LoseRequest(m)
    \/ \E i \in DOMAIN queue : Disconnect(i) /\ UNCHANGED pageVars
    \/ \E r \in replies : LoseReply(r)
    \/ \E c \in Pages : LoseStream(c)
    \/ ServerCrash

----------------------------------------------------------------------------
Press(c) == PressStop(c) \/ \E steps \in Limits : PressTrain(c, steps)
Work == Actor /\ UNCHANGED pageVars

Next ==
    \/ Work
    \/ TrainStepFailed /\ UNCHANGED pageVars
    \/ \E c \in Pages : Press(c) \/ Replied(c) \/ Listen(c) \/ Deliver(c)
    \/ Faulty

\* The actor thread, the network and the pages' event loops keep going;
\* nobody has to press anything, and no step has to fail: a run without a
\* limit may go on for ever.
Fairness ==
    /\ WF_vars(Work)
    /\ \A c \in Pages : WF_vars(Deliver(c)) /\ WF_vars(Replied(c)) /\ WF_vars(Listen(c))

Spec == Init /\ [][Next]_vars /\ Fairness

----------------------------------------------------------------------------
(* Properties.                                                             *)

\* Whatever a checkpoint claims in its header, its weights have been through
\* exactly that many steps.  During a run the session's step advances while
\* its own copy of the weights stands still, so this rests on the refusal of
\* every checkpoint request until the run has pulled its weights back.
CheckpointsCarryTheirStep ==
    \A r \in replies : r.ok => r.checkpoint.weights = r.checkpoint.step

\* A run on the server belongs to a page that says it is training: no page
\* is told its run is over, or may start another, while it still holds the
\* GPU.
NoOrphanRun ==
    run # None => \E c \in Pages : SaysTraining(c) /\ session[c] = run.session

\* As long as the server is not restarted, which makes it hand out the same
\* session names again, no page ends up with the model of another.
OwnModel == \A c \in Pages : local[c].page = c

\* When every page is done and nothing is on its way, the server holds no
\* session any more, as long as nothing has failed.
Quiet == run = None /\ queue = <<>> /\ wire = {} /\ replies = {}
SessionsFreed ==
    Quiet /\ faults = 0 /\ (\A c \in Pages : page[c] = "idle")
    => \A id \in Ids : sessions[id] = None

\* However late a pull of a run is answered, and whatever fails, it does not
\* take the local copy back to before the run's result.  It holds of the
\* first run: a pull of it answered after a second one's result would.
NeverBack ==
    [][presses' <= 1 => \A c \in Pages : local'[c].weights >= local[c].weights]_vars

\* Every call a page awaits comes back to it, as an answer or as a failure,
\* whatever is lost, broken or restarted and whatever the GPU thread refuses.
EveryCallAnswered ==
    \A c \in Pages : page[c] \in Waiting ~> page[c] \notin Waiting

\* A stop that reaches the server while its run is going ends that run.
StopIsHeeded ==
    \A id \in Ids :
        run # None /\ run.session = id /\ (\E i \in DOMAIN queue :
                queue[i].kind = "stop" /\ queue[i].session = id)
        ~> run = None \/ run.session # id

\* A page whose stream was open while its run was going gets to the end of
\* it, if the run has one, however many reports it missed.
Training(c) == run # None /\ run.session = session[c]
HeardToTheEnd ==
    \A c \in Pages :
        page[c] = "streaming" /\ Training(c) ~> page[c] = "idle" \/ []Training(c)

----------------------------------------------------------------------------
(* Why they hold: invariants every step preserves.                         *)

Queued == {queue[i] : i \in DOMAIN queue}
Requests == wire \cup Queued
Messages == Requests \cup replies

\* No copy of the weights is ahead of its step counter, and a run has a
\* session with a trainer.
NotAhead(copy) == copy.weights <= copy.step
Sound ==
    /\ \A c \in Pages : NotAhead(local[c])
    /\ \A m \in Messages : NotAhead(m.checkpoint)
    /\ \A id \in Ids : sessions[id] # None =>
          /\ NotAhead(sessions[id])
          /\ sessions[id].device # None => sessions[id].device <= sessions[id].step
    /\ run # None => sessions[run.session] # None /\ sessions[run.session].device # None

\* The server has given this name out, and to this page if it still uses it.
Belongs(id, c) == id # None => id < nextId /\ (sessions[id] # None => sessions[id].page = c)

\* Until a restart, every page, stream, request and answer names sessions
\* of its own page only, and carries that page's model.
Owned ==
    /\ \A c \in Pages :
          /\ local[c].page = c /\ Belongs(session[c], c)
          /\ streams[c] # None => Belongs(streams[c].session, c)
    /\ \A m \in Messages : m.checkpoint.page = m.page /\ Belongs(m.session, m.page)

\* Until a download fails, every copy that may be handed out has been
\* through the steps it claims; during a run it is the device's copy.
Trained ==
    /\ \A c \in Pages : local[c].weights = local[c].step
    /\ \A m \in Messages : m.checkpoint.weights = m.checkpoint.step
    /\ \A id \in Ids : sessions[id] # None =>
          /\ sessions[id].device # None => sessions[id].device = sessions[id].step
          /\ run = None \/ run.session # id => sessions[id].weights = sessions[id].step

\* A page awaits one call at a time, and that one is on its way exactly once.
Awaited == {"create", "start", "undo", "events", "final"}
SameCall(a, b) == a.page = b.page /\ a.kind \in Awaited /\ b.kind \in Awaited
OneCall ==
    /\ \A a, b \in wire : SameCall(a, b) => a = b
    /\ \A i, j \in DOMAIN queue : SameCall(queue[i], queue[j]) => i = j
    /\ \A a, b \in replies : SameCall(a, b) => a = b
    /\ \A a \in wire, b \in Queued : ~SameCall(a, b)
    /\ \A a \in Requests, b \in replies : ~SameCall(a, b)

\* It is the call the page's phase awaits, about the page's session; and a
\* session being deleted is not the one of a run.
Fits(m) ==
    /\ m.kind \in Awaited => page[m.page] \in Waiting /\ Awaits[page[m.page]] = m.kind
    /\ m.kind \in Awaited \ {"create"} => m.session = session[m.page]
    /\ m.kind = "delete" =>
          page[m.page] \in {"idle", "creating"} \/ m.session # session[m.page]

\* A new session's name is not that of one being deleted.
FreshNames ==
    \A r \in replies, m \in Messages :
        r.kind = "create" /\ r.ok /\ m.kind = "delete" /\ m.page = r.page
        => m.session # r.session

\* A stream is that of the page's session.
StreamFits ==
    \A c \in Pages : streams[c] # None =>
        /\ page[c] \in {"connecting", "streaming", "deaf", "pulling"}
        /\ streams[c].session = session[c]

\* The page a run belongs to has been told, or is about to be, that it
\* started, and nothing it has still to hear says that it is over.
RunsFor(c) ==
    /\ session[c] = run.session
    /\ page[c] \in {"starting", "connecting", "streaming", "deaf"}
    /\ \A m \in Requests : m.page = c => m.kind # "start"
    /\ \A r \in replies : r.page = c /\ r.kind = "start" => r.ok
    /\ streams[c] # None =>
          \A i \in DOMAIN streams[c].unread : streams[c].unread[i].type # "stopped"

\* As long as nothing fails.
Orderly ==
    /\ OneCall /\ FreshNames /\ StreamFits
    /\ \A m \in Messages : Fits(m)
    /\ \A m \in Requests : m.live
    /\ run # None => \E c \in Pages : RunsFor(c)

\* A session that is there has somebody who will see to its deletion.
Uses == {"starting", "undoing", "connecting", "streaming", "deaf", "pulling"}
Held(id) ==
    \/ \E c \in Pages : page[c] \in Uses /\ session[c] = id
    \/ \E r \in replies : r.kind = "create" /\ r.ok /\ r.session = id
    \/ \E m \in Requests : m.kind \in {"delete", "undo"} /\ m.session = id

\* During the first run: nobody else is there to have a deletion refused.
Tidy ==
    /\ \A id \in Ids : sessions[id] # None => Held(id)
    /\ \A r \in replies : r.kind \in {"delete", "undo"} /\ r.session \in Ids
          => sessions[r.session] = None
    /\ \A c, d \in Pages : page[c] # "idle" /\ page[d] # "idle" => c = d
    /\ \A m \in Messages : m.kind = "delete" => \A c \in Pages : page[c] = "idle"
    /\ presses = 0 => Messages = {} /\ \A c \in Pages : page[c] = "idle"

\* The inductive invariant (gpu_actor.rs, remote-backend.js).
RemoteInv ==
    /\ TypeOK /\ Sound
    /\ faults = 0 => Owned /\ Trained /\ Orderly /\ (presses <= 1 => Tidy)
=============================================================================
