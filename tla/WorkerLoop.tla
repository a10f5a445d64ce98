------------------------------ MODULE WorkerLoop ------------------------------
(***************************************************************************)
(* frontend/worker.js: the training loop, and the messages it shares the   *)
(* worker's event loop, its stop flag and the model's GPU guard with.      *)
(*                                                                         *)
(* The loop gives up control only where it awaits (a step, a measurement,  *)
(* a save, a sample on the GPU, the pause between slices), so a stretch    *)
(* from one await to the next is one action.  Weights are abstracted to    *)
(* the step they are at.  Guarded calls are GpuSession's; here a call      *)
(* either takes the guard for a while or is told "already busy".           *)
(***************************************************************************)
EXTENDS Naturals, Sequences

CONSTANTS Calls,      \* messages of the page that may be in flight at once
          None,
          Settings,   \* what the page's controls may say: records of the
                      \* step limit and the three intervals, 0 for off
          MaxStep,    \* bound on the model's step counter
          MaxClicks   \* bound on the times Train is pressed

ASSUME LoopAssumption ==
    /\ MaxStep \in Nat /\ MaxClicks \in Nat
    /\ Settings \subseteq [max : Nat, sample : Nat, save : Nat \ {0}, validate : Nat \ {0}]
    /\ None \notin Nat \cup {"loop", "sample"}
    /\ Calls \cap {None, "loop", "sample"} = {}

VARIABLES
    training,       \* worker.js: a run is going
    stopRequested,  \* worker.js: somebody pressed a Stop
    live,           \* the settings in force
    loop,           \* what train() is awaiting
    steps,          \* steps of this run
    next,           \* nextValidateAt, nextAutosaveAt, nextSampleAt
    guard,          \* who holds the model's `busy`
    step,           \* llm.step()
    host,           \* step the host copy of the weights is at
    calls,          \* the page's other calls: what each is doing
    samples,        \* CPU samples the loop started and did not wait for
    pageTraining,   \* app.js: `training`, and with it the Stop button
    preparing,      \* Train clicks that have not sent their message yet
    asked,          \* Stop was pressed for a run, its button now disabled
    inbox,          \* what the worker has told the page about its runs
    clicks,         \* history: times Train was pressed
    sampling        \* history: the interval nextSampleAt was set with, and
                    \* whether a step reached a point of it and is owed a sample

page == <<pageTraining, preparing, asked, clicks>>
model == <<guard, step, host>>
core == <<training, stopRequested, live, loop, steps, next, model, calls, samples, page, inbox>>
vars == <<core, sampling>>

Steps == 0 .. MaxStep
Interval == UNION {{s.sample, s.save, s.validate} : s \in Settings}
Grid == {i + k : i \in Steps, k \in Interval} \cup {None}
Awaiting == {"step", "measure", "save", "sample", "pause"}
Holders == Calls \cup {"loop", "sample", None}
Doing == {"nothing", "opening", "exporting", "profiling", "decoding", "writing"}

TypeOK ==
    /\ training \in BOOLEAN /\ stopRequested \in BOOLEAN
    /\ live \in Settings
    /\ loop \in Awaiting \cup {"idle"}
    /\ steps \in Steps
    /\ next \in [validate : Grid, save : Grid, sample : Grid]
    /\ guard \in Holders /\ step \in Steps /\ host \in Steps
    /\ calls \in [Calls -> Doing]
    /\ samples \subseteq [at : Steps, weights : Steps \cup {None}]
    /\ pageTraining \in BOOLEAN /\ asked \in BOOLEAN
    /\ preparing \in 0 .. MaxClicks /\ clicks \in 0 .. MaxClicks
    /\ inbox \in Seq({"train-stopped", "settled"})
    /\ sampling \in [every : Nat, owed : BOOLEAN]

Init ==
    /\ training = FALSE /\ stopRequested = FALSE
    /\ live \in Settings
    /\ loop = "idle" /\ steps = 0
    /\ next = [validate |-> None, save |-> None, sample |-> None]
    /\ guard = None /\ step = 0 /\ host = 0
    /\ calls = [c \in Calls |-> "nothing"]
    /\ samples = {}
    /\ pageTraining = FALSE /\ asked = FALSE
    /\ preparing = 0 /\ clicks = 0
    /\ inbox = <<>>
    /\ sampling = [every |-> 0, owed |-> FALSE]

----------------------------------------------------------------------------
(* One stretch of the loop.  Each stage hands what it changed of `next` to *)
(* the one after it, down to the await that ends the stretch; `s` is the   *)
(* step the model is at.  The loop's own hold of the guard is over when a  *)
(* stretch starts, and nobody else gets a turn during it.                  *)

Free == guard \in {None, "loop"}

\* Mutants of NextOnGrid: it skips a point of the grid; it counts an
\* interval from where it is called.
NextOnGridSkips(s, interval) ==
    IF interval = 0 THEN None ELSE ((s \div interval) + 2) * interval
NextOnGridFromHere(s, interval) == IF interval = 0 THEN None ELSE s + interval

NextOnGrid(s, interval) ==
    IF interval = 0 THEN None ELSE ((s \div interval) + 1) * interval
Due(s, at) == at # None /\ s >= at

AwaitHolding(what, n) == loop' = what /\ guard' = "loop" /\ next' = n
LetGo == guard' = IF guard = "loop" THEN None ELSE guard

\* Asked for the CPU: unawaited; sync the host copy if the guard is free,
\* then write.
StartCpuSample(s) ==
    IF Free /\ host # s
    THEN guard' = "sample" /\ samples' = samples \cup {[at |-> s, weights |-> None]}
    ELSE LetGo /\ samples' = samples \cup {[at |-> s, weights |-> host]}

Pause(n) == loop' = "pause" /\ LetGo /\ next' = n /\ UNCHANGED samples

\* Asked for the GPU: awaited, or refused at once, which leaves an empty
\* sample on the record.
Sample(s, n) ==
    LET moved == [n EXCEPT !.sample = NextOnGrid(s, live.sample)] IN
    IF live.sample = 0 \/ ~Due(s, n.sample) THEN Pause(n)
    ELSE \/ /\ StartCpuSample(s)
            /\ loop' = "pause" /\ next' = moved
         \/ /\ Free /\ AwaitHolding("sample", moved) /\ UNCHANGED samples
         \/ /\ ~Free /\ loop' = "pause" /\ next' = moved
            /\ UNCHANGED <<guard, samples>>

Save(s, n) ==
    LET moved == [n EXCEPT !.save = NextOnGrid(s, live.save)] IN
    IF ~Due(s, n.save) THEN Sample(s, n)
    ELSE IF Free THEN AwaitHolding("save", moved) /\ UNCHANGED samples
    ELSE Sample(s, moved)

Measure(s, n) ==
    LET moved == [n EXCEPT !.validate = NextOnGrid(s, live.validate)] IN
    IF ~Due(s, n.validate) THEN Save(s, n)
    ELSE IF Free THEN AwaitHolding("measure", moved) /\ UNCHANGED samples
    ELSE Save(s, moved)

\* Mutant of Step: a step that finds the guard taken waits for it.
StepWaits(s, n) ==
    /\ loop' = "step" /\ next' = n /\ guard' = IF Free THEN "loop" ELSE guard
    /\ UNCHANGED samples

\* A step refused because the GPU is busy ends the slice, not the run.
Step(s, n) ==
    IF Free THEN AwaitHolding("step", n) /\ UNCHANGED samples
    ELSE Measure(s, n)

\* Mutant of EndRun: a way out that keeps the guard.
EndRunHolding(news) ==
    /\ training' = FALSE /\ loop' = "idle" /\ UNCHANGED guard
    /\ inbox' = inbox \o news
    /\ UNCHANGED <<next, samples>>

EndRun(news) ==
    /\ training' = FALSE /\ loop' = "idle" /\ LetGo
    /\ inbox' = inbox \o news
    /\ UNCHANGED <<next, samples>>

Planned(s) == live.max > 0 /\ s >= live.max

----------------------------------------------------------------------------
(* The run.                                                                *)

\* Mutant of TrainMessage: it does not ask whether a run is going.
TrainMessageAnyway(settings) ==
    /\ preparing > 0 /\ preparing' = preparing - 1
    /\ live' = settings /\ stopRequested' = FALSE /\ training' = TRUE /\ steps' = 0
    /\ loop' = "step" /\ guard' = "loop"
    /\ next' = [validate |-> NextOnGrid(step, settings.validate),
                save |-> NextOnGrid(step, settings.save),
                sample |-> NextOnGrid(step, settings.sample)]
    /\ UNCHANGED <<step, host, calls, samples, pageTraining, asked, clicks, inbox>>

\* The `train` handler and train() up to its first await: refused while a
\* run is going, without a device, or without the text to fill a context.
TrainMessage(settings) ==
    /\ preparing > 0 /\ preparing' = preparing - 1
    /\ \/ /\ inbox' = Append(inbox, "settled")
          /\ UNCHANGED <<training, stopRequested, live, loop, steps, next, guard, samples>>
       \/ /\ ~training /\ \A c \in Calls : calls[c] # "opening"
          /\ live' = settings /\ stopRequested' = FALSE
          /\ training' = TRUE /\ steps' = 0
          /\ LET n == [validate |-> NextOnGrid(step, settings.validate),
                       save |-> NextOnGrid(step, settings.save),
                       sample |-> NextOnGrid(step, settings.sample)]
             IN IF Free
                THEN AwaitHolding("step", n) /\ UNCHANGED samples
                ELSE Pause(n)      \* refused; nothing is due yet
          /\ UNCHANGED inbox
    /\ UNCHANGED <<step, host, calls, pageTraining, asked, clicks>>

\* Mutant of SliceOver: without the stop flag.
SliceOverDeaf(s, k) == Planned(k) \/ (live.sample > 0 /\ Due(s, next.sample))

\* What ends a slice before its time is up.
SliceOver(s, k) ==
    stopRequested \/ Planned(k) \/ (live.sample > 0 /\ Due(s, next.sample))

\* At the bound the counters stand still and the run goes on.
Up(n) == IF n < MaxStep THEN n + 1 ELSE n

Stepped ==
    LET s == Up(step)  k == Up(steps) IN
    /\ loop = "step" /\ guard = "loop"
    /\ step' = s /\ steps' = k
    /\ \/ /\ ~SliceOver(s, k)
          /\ AwaitHolding("step", next) /\ UNCHANGED samples
       \/ Measure(s, next)
    /\ UNCHANGED <<training, stopRequested, live, host, calls, page, inbox>>

\* Too little text for a batch: the run returns.
OutOfText ==
    /\ loop = "step" /\ guard = "loop"
    /\ EndRun(<<"settled">>)
    /\ UNCHANGED <<stopRequested, live, steps, step, host, calls, page>>

\* A step that fails, or a report of it: said twice, on the stream and as
\* the answer to `train`.
StepFailed ==
    /\ loop = "step" /\ guard = "loop"
    /\ EndRun(<<"train-stopped", "settled">>)
    /\ UNCHANGED <<stopRequested, live, steps, step, host, calls, page>>

\* Measured or saved, or failed to.  A save syncs the host copy first.
Measured ==
    /\ loop = "measure"
    /\ Save(step, next)
    /\ UNCHANGED <<training, stopRequested, live, steps, step, host, calls, page, inbox>>

Saved ==
    /\ loop = "save"
    /\ host' \in {host, step}
    /\ Sample(step, next)
    /\ UNCHANGED <<training, stopRequested, live, steps, step, calls, page, inbox>>

\* generate synced the weights, decoded, and the text was recorded.
Sampled ==
    /\ loop = "sample"
    /\ loop' = "pause" /\ LetGo
    /\ host' = step
    /\ UNCHANGED <<training, stopRequested, live, steps, next, step, calls, samples, page,
                   inbox>>

\* Mutant of Paused: only the step limit ends the run.
PausedDeaf ==
    /\ loop = "pause"
    /\ IF Planned(steps)
       THEN EndRun(<<"settled">>)
       ELSE Step(step, next) /\ UNCHANGED <<training, inbox>>
    /\ UNCHANGED <<stopRequested, live, steps, step, host, calls, page>>

\* The pause is over: the `while` condition.
Paused ==
    /\ loop = "pause"
    /\ IF stopRequested \/ Planned(steps)
       THEN EndRun(<<"settled">>)
       ELSE Step(step, next) /\ UNCHANGED <<training, inbox>>
    /\ UNCHANGED <<stopRequested, live, steps, step, host, calls, page>>

Loop == Stepped \/ OutOfText \/ StepFailed \/ Measured \/ Saved \/ Sampled \/ Paused

----------------------------------------------------------------------------
(* CPU samples on their own.                                               *)

SampleSynced(e) ==
    /\ e.weights = None
    /\ host' \in {host, step}
    /\ guard' = None
    /\ samples' = (samples \ {e}) \cup {[e EXCEPT !.weights = host']}
    /\ UNCHANGED <<training, stopRequested, live, loop, steps, next, step, calls, page,
                   inbox>>

\* Decoded on the CPU from the host copy, and recorded.
SampleWritten(e) ==
    /\ e.weights # None
    /\ samples' = samples \ {e}
    /\ UNCHANGED <<training, stopRequested, live, loop, steps, next, model, calls, page, inbox>>

----------------------------------------------------------------------------
(* Other messages.                                                         *)

Begin(c, doing) == calls[c] = "nothing" /\ calls' = [calls EXCEPT ![c] = doing]
BeginHolding(c, doing) == guard = None /\ guard' = c /\ Begin(c, doing)

\* generate: whatever comes of it, the stop flag is cleared first.
GenerateMessage(c) ==
    /\ calls[c] = "nothing"
    /\ stopRequested' = FALSE
    /\ \/ BeginHolding(c, "decoding")
       \/ Begin(c, "writing") /\ UNCHANGED guard
       \/ guard # None /\ UNCHANGED <<calls, guard>>
    /\ UNCHANGED <<training, live, loop, steps, next, step, host, samples, page, inbox>>

\* export-checkpoint, export-optimizer.
ExportMessage(c) ==
    /\ BeginHolding(c, "exporting")
    /\ UNCHANGED <<training, stopRequested, live, loop, steps, next, step, host, samples,
                   page, inbox>>

\* profile and benchmark are refused while a run is going.
ProfileMessage(c) ==
    /\ ~training
    /\ BeginHolding(c, "profiling")
    /\ UNCHANGED <<training, stopRequested, live, loop, steps, next, step, host, samples,
                   page, inbox>>

\* import-checkpoint, and the device its model asks for: until it has one,
\* the model cannot train.
ImportMessage(c, s) ==
    /\ ~training
    /\ BeginHolding(c, "opening")
    /\ step' = s /\ host' = s
    /\ UNCHANGED <<training, stopRequested, live, loop, steps, next, samples, page, inbox>>

\* The end of a call; one step of a profile may be followed by another.
Answered(c) ==
    /\ calls[c] # "nothing"
    /\ step' = IF calls[c] = "profiling" THEN Up(step) ELSE step
    /\ host' \in IF calls[c] \in {"exporting", "decoding"} THEN {host, step} ELSE {host}
    /\ \/ calls' = [calls EXCEPT ![c] = "nothing"] /\ guard' = IF guard = c THEN None ELSE guard
       \/ calls[c] = "profiling" /\ step' # step /\ UNCHANGED <<calls, guard>>
    /\ UNCHANGED <<training, stopRequested, live, loop, steps, next, samples, page, inbox>>

\* update-training-settings, through applyLiveSettings.
SettingsMessage(settings) ==
    /\ live' = settings /\ settings # live
    /\ UNCHANGED <<training, stopRequested, loop, steps, next, model, calls, samples, page,
                   inbox>>

----------------------------------------------------------------------------
(* The page.                                                               *)

PressTrain ==
    /\ ~pageTraining /\ clicks < MaxClicks
    /\ clicks' = clicks + 1
    /\ pageTraining' = TRUE /\ asked' = FALSE
    /\ preparing' = preparing + 1
    /\ UNCHANGED <<training, stopRequested, live, loop, steps, next, model, calls, samples,
                   inbox>>

\* The Stop button of a run; the button of a generation.  Both are the same
\* message to the worker.
PressStop ==
    /\ pageTraining /\ ~asked
    /\ asked' = TRUE /\ stopRequested' = TRUE
    /\ UNCHANGED <<training, live, loop, steps, next, model, calls, samples, pageTraining,
                   preparing, clicks, inbox>>

StopGenerating ==
    /\ \E c \in Calls : calls[c] \in {"decoding", "writing"}
    /\ stopRequested' = TRUE
    /\ UNCHANGED <<training, live, loop, steps, next, model, calls, samples, page, inbox>>

\* Either way of hearing that a run is over gives the buttons back.
HearEnd ==
    /\ inbox # <<>> /\ inbox' = Tail(inbox)
    /\ pageTraining' = FALSE
    /\ UNCHANGED <<training, stopRequested, live, loop, steps, next, model, calls, samples,
                   preparing, asked, clicks>>

Press ==
    \/ PressTrain \/ PressStop \/ StopGenerating
    \/ \E settings \in Settings : SettingsMessage(settings)
    \/ \E c \in Calls : GenerateMessage(c) \/ ExportMessage(c) \/ ProfileMessage(c)
    \/ \E c \in Calls, s \in Steps : ImportMessage(c, s)

Train == \E settings \in Settings : TrainMessage(settings)
Samples == \E e \in samples : SampleSynced(e) \/ SampleWritten(e)

Moves == Loop \/ Train \/ Samples \/ Press \/ HearEnd \/ \E c \in Calls : Answered(c)

\* What the history notes of a move: a step of the run reached a point of
\* the samples' grid; a sample of the step the model is at was begun.  A
\* run's start and a sample set nextSampleAt with the interval in force;
\* nothing is owed once samples are switched off.
Reached ==
    loop = "step" /\ step' # step /\ sampling.every > 0 /\ step' % sampling.every = 0
Taken == loop' = "sample" \/ \E e \in samples' : e.at = step'
Noted ==
    sampling' = [every |-> IF loop = "idle" \/ next'.sample # next.sample
                           THEN live'.sample ELSE sampling.every,
                 owed |-> (sampling.owed \/ Reached) /\ ~Taken /\ live'.sample > 0]

Next == Moves /\ Noted

\* The device answers, timers fire, messages arrive; a person need not act.
Fairness ==
    /\ WF_core(Loop) /\ WF_core(Train) /\ WF_core(HearEnd)
    /\ WF_core(Samples) /\ \A c \in Calls : WF_core(Answered(c))

Spec == Init /\ [][Next]_vars /\ Fairness

----------------------------------------------------------------------------
(* Properties.                                                             *)

\* The guard is set for exactly as long as somebody is at work behind it:
\* a step, a measurement, a save or a sample of the loop, a CPU sample's
\* sync, or one of the page's calls; nobody is left holding it.
GuardIsAtWork ==
    /\ guard = "loop" <=> loop \in {"step", "measure", "save", "sample"}
    /\ guard = "sample" <=> \E e \in samples : e.weights = None
    /\ \A c \in Calls : guard = c <=> calls[c] \notin {"nothing", "writing"}

\* Two runs never share the model: a Train that reaches the worker while a
\* run is going, because the page took that one for over, leaves it alone.
OneRunAtATime ==
    [][Train /\ loop # "idle" => UNCHANGED <<loop, steps, next, training>>]_vars

\* What starts a step, be it a run, a slice or the step before.
StepBegins == loop' = "step" /\ (loop # "step" \/ steps' # steps)

\* Whatever is changed or asked while the loop awaits something, no step is
\* started once Stop was pressed or the steps asked for are done.
NoStepTooMany ==
    [][StepBegins => ~stopRequested' /\ (live'.max = 0 \/ steps' < live'.max)]_vars

\* Samples keep to their grid: when a step of a run reaches a multiple of the
\* interval they were last set by, wherever the run began and whatever was
\* measured, saved, sampled or asked for on the way, a sample of that very
\* step is begun before the run takes another step or ends, unless samples
\* are switched off first.
SamplesKept == sampling.owed => loop \in {"measure", "save"}

\* Neither a collision on the guard nor a failed save or measurement keeps a
\* run with a planned end from it, as long as the page leaves the plan and
\* the model alone in the end.
RunsEnd ==
    <>[](live.max > 0 /\ \A c \in Calls : calls[c] = "nothing") => (training ~> ~training)

\* A stop the worker has noted ends the run, unless something clears it.
StopIsHeard == training /\ stopRequested ~> ~training \/ ~stopRequested

----------------------------------------------------------------------------
(* Why they hold: an invariant every step preserves.                       *)

\* Only one CPU sample at a time waits for the weights.
OneSync == \A e, f \in samples : e.weights = None /\ f.weights = None => e = f

\* nextSampleAt skips no point of its grid, and it has come where a sample
\* is owed.
Ahead(s, at, interval) == at # None /\ \A g \in s + 1 .. at - 1 : g % interval # 0
GridAhead ==
    /\ loop # "idle" /\ sampling.every > 0 => Ahead(step, next.sample, sampling.every)
    /\ sampling.owed => Due(step, next.sample)

\* worker.js says a run is going exactly while train() awaits something, and
\* the guard is where the work is.
WorkInv ==
    /\ TypeOK
    /\ training <=> loop # "idle"
    /\ preparing <= clicks
    /\ OneSync
    /\ GuardIsAtWork

\* The inductive invariant.
LoopInv == WorkInv /\ SamplesKept /\ GridAhead
=============================================================================
