--------------------------- MODULE WorkerLoopProofs ---------------------------
(***************************************************************************)
(* The loop and the calls it shares the worker with, for any settings, any *)
(* calls of the page and any number of clicks.                             *)
(***************************************************************************)
EXTENDS WorkerLoop, TLAPS

USE LoopAssumption

Cadences == [validate : Grid, save : Grid, sample : Grid]

\* What a stretch of the loop does with the guard: it keeps it for an await,
\* gives it to a CPU sample, or lets go of it.
Keeps == /\ Free /\ guard' = "loop" /\ samples' = samples
         /\ loop' \in {"step", "measure", "save", "sample"}
Lends(s) == /\ Free /\ guard' = "sample" /\ loop' = "pause"
            /\ samples' = samples \cup {[at |-> s, weights |-> None]}
LetsGo(s) == /\ guard' = (IF guard = "loop" THEN None ELSE guard) /\ loop' = "pause"
             /\ samples' \in {samples, samples \cup {[at |-> s, weights |-> host]}}
Handed(s) == Keeps \/ Lends(s) \/ LetsGo(s)

\* The history keeps its type.
NotedRight == sampling' \in [every : Nat, owed : BOOLEAN]
USE DEF NotedRight

\* The next point of a cadence is on the grid.
LEMMA OnGrid ==
    ASSUME NEW s \in Steps, NEW k \in Interval
    PROVE  NextOnGrid(s, k) \in Grid
<1>1. k \in Nat
  BY DEF Interval
<1>2. CASE k = 0
  BY <1>2 DEF NextOnGrid, Grid
<1>3. CASE k # 0
  <2>1. s \in Nat /\ s <= MaxStep
    BY DEF Steps
  <2>2. (s \div k) \in Nat /\ (s \div k) * k <= s
    BY <1>1, <1>3, <2>1
  <2>3. (s \div k) * k \in Nat
    BY <1>1, <2>2
  <2>4. (s \div k) * k \in Steps
    BY <2>1, <2>2, <2>3 DEF Steps
  <2>5. ((s \div k) + 1) * k = (s \div k) * k + k
    BY <1>1, <2>2
  <2> QED
    BY <1>3, <2>4, <2>5 DEF NextOnGrid, Grid
<1> QED
  BY <1>2, <1>3

\* The three intervals of a page's settings are among the intervals.
LEMMA Intervals ==
    ASSUME NEW x \in Settings
    PROVE  x.sample \in Interval /\ x.save \in Interval /\ x.validate \in Interval /\ x.max \in Nat
BY DEF Interval

\* Moving one cadence on leaves three cadences.
LEMMA Moved ==
    ASSUME NEW n \in Cadences, NEW g \in Grid
    PROVE  /\ [n EXCEPT !.sample = g] \in Cadences
           /\ [n EXCEPT !.save = g] \in Cadences
           /\ [n EXCEPT !.validate = g] \in Cadences
BY DEF Cadences

\* The end of a stretch at Pause, and at each stage before it.
LEMMA PauseHands ==
    ASSUME NEW s \in Steps, NEW n \in Cadences, Pause(n)
    PROVE  Handed(s) /\ next' \in Cadences /\ loop' # "step"
BY DEF Pause, LetGo, Handed, LetsGo

\* A sample that is due is awaited, or what follows it is handed on.
LEMMA SampleHands ==
    ASSUME live \in Settings, NEW s \in Steps, NEW n \in Cadences, Sample(s, n)
    PROVE  Handed(s) /\ next' \in Cadences /\ loop' # "step"
<1> DEFINE moved == [n EXCEPT !.sample = NextOnGrid(s, live.sample)]
<1>1. moved \in Cadences
  BY Intervals, OnGrid, Moved
<1> HIDE DEF moved
<1>2. CASE Pause(n)
  BY <1>2, PauseHands
<1>3. CASE StartCpuSample(s) /\ loop' = "pause" /\ next' = moved
  BY <1>1, <1>3 DEF StartCpuSample, LetGo, Handed, Lends, LetsGo
<1>4. CASE Free /\ AwaitHolding("sample", moved) /\ samples' = samples
  BY <1>1, <1>4 DEF AwaitHolding, Handed, Keeps
<1>5. CASE ~Free /\ loop' = "pause" /\ next' = moved /\ guard' = guard /\ samples' = samples
  BY <1>1, <1>5 DEF Free, Handed, LetsGo
<1> QED
  BY <1>2, <1>3, <1>4, <1>5 DEF Sample, moved

\* So is a save.
LEMMA SaveHands ==
    ASSUME live \in Settings, NEW s \in Steps, NEW n \in Cadences, Save(s, n)
    PROVE  Handed(s) /\ next' \in Cadences /\ loop' # "step"
<1> DEFINE moved == [n EXCEPT !.save = NextOnGrid(s, live.save)]
<1>1. moved \in Cadences
  BY Intervals, OnGrid, Moved
<1> HIDE DEF moved
<1>2. CASE Sample(s, n) \/ Sample(s, moved)
  BY <1>1, <1>2, SampleHands
<1>3. CASE Free /\ AwaitHolding("save", moved) /\ samples' = samples
  BY <1>1, <1>3 DEF AwaitHolding, Handed, Keeps
<1> QED
  BY <1>2, <1>3 DEF Save, moved

\* And a measurement.
LEMMA MeasureHands ==
    ASSUME live \in Settings, NEW s \in Steps, NEW n \in Cadences, Measure(s, n)
    PROVE  Handed(s) /\ next' \in Cadences /\ loop' # "step"
<1> DEFINE moved == [n EXCEPT !.validate = NextOnGrid(s, live.validate)]
<1>1. moved \in Cadences
  BY Intervals, OnGrid, Moved
<1> HIDE DEF moved
<1>2. CASE Save(s, n) \/ Save(s, moved)
  BY <1>1, <1>2, SaveHands
<1>3. CASE Free /\ AwaitHolding("measure", moved) /\ samples' = samples
  BY <1>1, <1>3 DEF AwaitHolding, Handed, Keeps
<1> QED
  BY <1>2, <1>3 DEF Measure, moved

\* A stretch that goes on to a step.
LEMMA StepHands ==
    ASSUME NEW s \in Steps, NEW n \in Cadences, AwaitHolding("step", n), Free, UNCHANGED samples
    PROVE  Handed(s) /\ next' \in Cadences
BY DEF AwaitHolding, Handed, Keeps

\* However the guard is handed on, it is where the work is.
LEMMA HandedKeeps ==
    ASSUME WorkInv, NEW s \in Steps, host' \in Steps, UNCHANGED calls,
           Handed(s) \/ (loop' = "idle" /\ LetGo /\ UNCHANGED samples)
    PROVE  /\ GuardIsAtWork' /\ OneSync' /\ guard' \in Holders
           /\ samples' \subseteq [at : Steps, weights : Steps \cup {None}]
<1> DEFINE waiting == [at |-> s, weights |-> None]
           ready == [at |-> s, weights |-> host]
<1>1. /\ waiting \in [at : Steps, weights : Steps \cup {None}] /\ waiting.weights = None
      /\ ready \in [at : Steps, weights : Steps \cup {None}] /\ ready.weights # None
  BY DEF WorkInv, TypeOK, Steps
<1> HIDE DEF waiting, ready
<1>2. CASE Keeps
  BY <1>2 DEF Keeps, Free, WorkInv, TypeOK, OneSync, GuardIsAtWork, Holders
<1>3. CASE Lends(s)
  <2>1. guard' = "sample" /\ loop' = "pause" /\ samples' = samples \cup {waiting}
    BY <1>3 DEF Lends, waiting
  <2>2. \A e \in samples : e.weights # None
    BY <1>3 DEF Lends, Free, WorkInv, GuardIsAtWork
  <2>3. \A c \in Calls : calls'[c] \in {"nothing", "writing"} /\ guard' # c
    BY <1>3 DEF Lends, Free, WorkInv, GuardIsAtWork
  <2>4. GuardIsAtWork'
    BY <1>1, <2>1, <2>2, <2>3 DEF GuardIsAtWork
  <2>5. OneSync'
    BY <2>1, <2>2 DEF OneSync
  <2> QED
    BY <1>1, <2>1, <2>4, <2>5 DEF WorkInv, TypeOK, Holders
<1>4. CASE LetsGo(s)
  BY <1>1, <1>4 DEF LetsGo, WorkInv, TypeOK, OneSync, GuardIsAtWork, Holders, ready
<1>5. CASE loop' = "idle" /\ LetGo /\ UNCHANGED samples
  BY <1>5 DEF LetGo, WorkInv, TypeOK, OneSync, GuardIsAtWork, Holders
<1> QED
  BY <1>2, <1>3, <1>4, <1>5 DEF Handed

\* Every initial state satisfies the inductive invariant.
LEMMA InitLoopInv == Init => LoopInv
<1> SUFFICES ASSUME Init PROVE LoopInv
  OBVIOUS
<1>1. TypeOK
  <2>1. 0 \in Steps /\ None \in Grid /\ 0 \in 0 .. MaxClicks
    BY DEF Steps, Grid
  <2>2. next \in [validate : Grid, save : Grid, sample : Grid]
    BY <2>1 DEF Init
  <2>3. calls \in [Calls -> Doing]
    BY DEF Init, Doing
  <2>4. /\ steps \in Steps /\ step \in Steps /\ host \in Steps
        /\ preparing \in 0 .. MaxClicks /\ clicks \in 0 .. MaxClicks
    BY <2>1 DEF Init
  <2>5. sampling \in [every : Nat, owed : BOOLEAN]
    BY DEF Init
  <2>6. inbox \in Seq({"train-stopped", "settled"}) /\ samples = {}
    BY DEF Init
  <2> QED
    BY <2>2, <2>3, <2>4, <2>5, <2>6 DEF Init, TypeOK, Holders
<1>2. OneSync /\ GuardIsAtWork
  BY DEF Init, OneSync, GuardIsAtWork
<1>3. SamplesKept /\ GridAhead
  BY DEF Init, SamplesKept, GridAhead
<1> QED
  BY <1>1, <1>2, <1>3 DEF Init, LoopInv, WorkInv

\* A counter stays within its bound.
LEMMA UpStays == \A n \in Steps : Up(n) \in Steps
BY DEF Up, Steps

\* The message to start a run.
LEMMA TrainKeeps ==
    ASSUME WorkInv, NotedRight, NEW x \in Settings, TrainMessage(x)
    PROVE  WorkInv'
<1>1. preparing' \in 0 .. MaxClicks /\ preparing' <= clicks'
  BY DEF TrainMessage, WorkInv, TypeOK
<1>2. CASE /\ inbox' = Append(inbox, "settled")
           /\ UNCHANGED <<training, stopRequested, live, loop, steps, next, guard, samples>>
  BY <1>1, <1>2 DEF TrainMessage, WorkInv, TypeOK, OneSync, GuardIsAtWork
<1>3. CASE ~(inbox' = Append(inbox, "settled")
             /\ UNCHANGED <<training, stopRequested, live, loop, steps, next, guard, samples>>)
  <2> DEFINE n == [validate |-> NextOnGrid(step, x.validate),
                   save |-> NextOnGrid(step, x.save), sample |-> NextOnGrid(step, x.sample)]
  <2>1. step \in Steps /\ 0 \in Steps
    BY DEF WorkInv, TypeOK, Steps
  <2>2. n \in Cadences
    BY <2>1, Intervals, OnGrid DEF Cadences
  <2> HIDE DEF n
  <2>3. (Free /\ AwaitHolding("step", n) /\ UNCHANGED samples) \/ Pause(n)
    BY <1>3 DEF TrainMessage, n
  <2>4. Handed(step) /\ next' \in Cadences
    BY <2>1, <2>2, <2>3, PauseHands, StepHands
  <2>5. /\ live' \in Settings /\ stopRequested' = FALSE /\ training' = TRUE /\ steps' = 0
        /\ UNCHANGED <<step, host, calls, pageTraining, asked, clicks, inbox>>
    BY <1>3 DEF TrainMessage
  <2>6. host' \in Steps /\ UNCHANGED calls
    BY <2>5 DEF WorkInv, TypeOK
  <2>7. /\ GuardIsAtWork' /\ OneSync' /\ guard' \in Holders
        /\ samples' \subseteq [at : Steps, weights : Steps \cup {None}]
    BY <2>1, <2>4, <2>6, HandedKeeps
  <2>8. loop' \in Awaiting /\ loop' # "idle"
    BY <2>4 DEF Handed, Keeps, Lends, LetsGo, Awaiting
  <2> QED
    BY <1>1, <2>1, <2>4, <2>5, <2>7, <2>8 DEF WorkInv, TypeOK, Cadences
<1> QED
  BY <1>2, <1>3

\* A stretch of the loop that ends at another await.
LEMMA StretchKeeps ==
    ASSUME WorkInv, NotedRight, loop # "idle", NEW s \in Steps, Handed(s), next' \in Cadences,
           step' \in Steps, steps' \in Steps, host' \in Steps,
           UNCHANGED <<training, stopRequested, live, calls, page, inbox>>
    PROVE  WorkInv'
<1>1. /\ GuardIsAtWork' /\ OneSync' /\ guard' \in Holders
      /\ samples' \subseteq [at : Steps, weights : Steps \cup {None}]
  BY HandedKeeps
<1>2. loop' \in Awaiting /\ loop' # "idle"
  BY DEF Handed, Keeps, Lends, LetsGo, Awaiting
<1> QED
  BY <1>1, <1>2 DEF WorkInv, TypeOK, Cadences, page

\* The end of a run.
LEMMA EndKeeps ==
    ASSUME WorkInv, NotedRight, NEW news \in Seq({"train-stopped", "settled"}), EndRun(news),
           UNCHANGED <<stopRequested, live, steps, step, host, calls, page>>
    PROVE  WorkInv'
<1>1. 0 \in Steps /\ host' \in Steps
  BY DEF WorkInv, TypeOK, Steps
<1>2. loop' = "idle" /\ LetGo /\ UNCHANGED samples
  BY DEF EndRun
<1>3. /\ GuardIsAtWork' /\ OneSync' /\ guard' \in Holders
      /\ samples' \subseteq [at : Steps, weights : Steps \cup {None}]
  BY <1>1, <1>2, HandedKeeps
<1>4. inbox' \in Seq({"train-stopped", "settled"})
  BY DEF EndRun, WorkInv, TypeOK
<1> QED
  BY <1>3, <1>4 DEF EndRun, WorkInv, TypeOK, page

\* Every step of the loop.
LEMMA LoopKeeps ==
    ASSUME WorkInv, NotedRight, Loop
    PROVE  WorkInv'
<1>1. /\ step \in Steps /\ steps \in Steps /\ host \in Steps /\ live \in Settings
      /\ next \in Cadences
  BY DEF WorkInv, TypeOK, Cadences
<1>2. <<"settled">> \in Seq({"train-stopped", "settled"})
      /\ <<"train-stopped", "settled">> \in Seq({"train-stopped", "settled"})
  OBVIOUS
<1>3. CASE Stepped
  <2>1. /\ loop # "idle" /\ step' \in Steps /\ steps' \in Steps /\ host' \in Steps
        /\ UNCHANGED <<training, stopRequested, live, calls, page, inbox>>
    BY <1>1, <1>3, UpStays DEF Stepped
  <2>2. (Free /\ AwaitHolding("step", next) /\ UNCHANGED samples) \/ Measure(step', next)
    BY <1>3 DEF Stepped, Free
  <2>3. Handed(step') /\ next' \in Cadences
    BY <1>1, <2>1, <2>2, StepHands, MeasureHands
  <2> QED
    BY <2>1, <2>3, StretchKeeps
<1>4. CASE OutOfText
  BY <1>2, <1>4, EndKeeps DEF OutOfText
<1>5. CASE StepFailed
  BY <1>2, <1>5, EndKeeps DEF StepFailed
<1>6. CASE Measured
  <2>1. /\ loop # "idle" /\ UNCHANGED <<step, steps, host>>
        /\ UNCHANGED <<training, stopRequested, live, calls, page, inbox>>
    BY <1>6 DEF Measured
  <2>2. Handed(step) /\ next' \in Cadences
    BY <1>1, <1>6, SaveHands DEF Measured
  <2> QED
    BY <1>1, <2>1, <2>2, StretchKeeps
<1>7. CASE Saved
  <2>1. /\ loop # "idle" /\ UNCHANGED <<step, steps>> /\ host' \in Steps
        /\ UNCHANGED <<training, stopRequested, live, calls, page, inbox>>
    BY <1>1, <1>7 DEF Saved
  <2>2. Handed(step) /\ next' \in Cadences
    BY <1>1, <1>7, SampleHands DEF Saved
  <2> QED
    BY <1>1, <2>1, <2>2, StretchKeeps
<1>8. CASE Sampled
  <2>1. /\ loop # "idle" /\ UNCHANGED <<step, steps, next>> /\ host' \in Steps
        /\ UNCHANGED <<training, stopRequested, live, calls, page, inbox>>
    BY <1>1, <1>8 DEF Sampled
  <2>2. Handed(step)
    BY <1>8 DEF Sampled, LetGo, Handed, LetsGo
  <2> QED
    BY <1>1, <2>1, <2>2, StretchKeeps
<1>9. CASE Paused
  <2>1. CASE EndRun(<<"settled">>)
    BY <1>2, <1>9, <2>1, EndKeeps DEF Paused
  <2>2. CASE Step(step, next) /\ UNCHANGED <<training, inbox>>
    <3>1. /\ loop # "idle" /\ UNCHANGED <<step, steps, host>>
          /\ UNCHANGED <<training, stopRequested, live, calls, page, inbox>>
      BY <1>9, <2>2 DEF Paused
    <3>2. Handed(step) /\ next' \in Cadences
      BY <1>1, <2>2, StepHands, MeasureHands DEF Step
    <3> QED
      BY <1>1, <3>1, <3>2, StretchKeeps
  <2> QED
    BY <1>9, <2>1, <2>2 DEF Paused
<1> QED
  BY <1>3, <1>4, <1>5, <1>6, <1>7, <1>8, <1>9 DEF Loop

\* A CPU sample that has its weights, and one that is written.
LEMMA SamplesKeep ==
    ASSUME WorkInv, NotedRight, NEW e \in samples, SampleSynced(e) \/ SampleWritten(e)
    PROVE  WorkInv'
<1>1. e \in [at : Steps, weights : Steps \cup {None}]
  BY DEF WorkInv, TypeOK
<1>2. CASE SampleSynced(e)
  <2> DEFINE written == [e EXCEPT !.weights = host']
  <2>1. host' \in Steps /\ host' # None
    BY <1>2 DEF SampleSynced, WorkInv, TypeOK, Steps
  <2>2. written \in [at : Steps, weights : Steps \cup {None}] /\ written.weights # None
    BY <1>1, <2>1
  <2>3. /\ guard = "sample" /\ guard' = None /\ e.weights = None
        /\ samples' = (samples \ {e}) \cup {written}
        /\ UNCHANGED <<training, stopRequested, live, loop, steps, next, step, calls, page, inbox>>
    BY <1>2 DEF SampleSynced, WorkInv, GuardIsAtWork
  <2> HIDE DEF written
  <2>4. \A f \in samples' : f.weights # None
    BY <2>2, <2>3 DEF WorkInv, OneSync
  <2>5. OneSync'
    BY <2>4 DEF OneSync
  <2>6. GuardIsAtWork'
    BY <2>3, <2>4 DEF WorkInv, GuardIsAtWork
  <2>7. TypeOK'
    BY <2>1, <2>2, <2>3 DEF WorkInv, TypeOK, Holders, page
  <2> QED
    BY <2>3, <2>5, <2>6, <2>7 DEF WorkInv, page
<1>3. CASE SampleWritten(e)
  BY <1>3 DEF SampleWritten, WorkInv, TypeOK, OneSync, GuardIsAtWork, model, page
<1> QED
  BY <1>2, <1>3

\* One call's state changes, and the guard with it.
LEMMA CallKeeps ==
    ASSUME WorkInv, NEW c \in Calls, NEW doing \in Doing, calls' = [calls EXCEPT ![c] = doing],
           \/ guard' = c /\ guard \in {None, c} /\ doing \notin {"nothing", "writing"}
           \/ guard' = guard /\ guard # c /\ doing \in {"nothing", "writing"}
           \/ guard' = None /\ guard = c /\ doing = "nothing",
           UNCHANGED <<loop, samples>>
    PROVE  GuardIsAtWork' /\ OneSync' /\ guard' \in Holders /\ calls' \in [Calls -> Doing]
<1>1. calls' \in [Calls -> Doing] /\ calls'[c] = doing /\ \A d \in Calls \ {c} : calls'[d] = calls[d]
  BY DEF WorkInv, TypeOK
<1>2. guard' \in Holders
  BY DEF WorkInv, TypeOK, Holders
<1>3. guard' = "loop" <=> guard = "loop"
  OBVIOUS
<1>4. guard' = "sample" <=> guard = "sample"
  OBVIOUS
<1>5. \A d \in Calls : guard' = d <=> calls'[d] \notin {"nothing", "writing"}
  <2> TAKE d \in Calls
  <2>1. CASE d = c
    BY <1>1, <2>1
  <2>2. CASE d # c
    BY <1>1, <2>2 DEF WorkInv, GuardIsAtWork
  <2> QED
    BY <2>1, <2>2
<1>6. GuardIsAtWork'
  BY <1>3, <1>4, <1>5 DEF WorkInv, GuardIsAtWork
<1> QED
  BY <1>1, <1>2, <1>6 DEF WorkInv, OneSync

\* A message that begins a call, and the end of one.
LEMMA CallsKeep ==
    ASSUME WorkInv, NotedRight, NEW c \in Calls, NEW s \in Steps,
           \/ GenerateMessage(c) \/ ExportMessage(c) \/ ProfileMessage(c)
           \/ ImportMessage(c, s) \/ Answered(c)
    PROVE  WorkInv'
<1>1. {"nothing", "opening", "exporting", "profiling", "decoding", "writing"} = Doing
  BY DEF Doing
<1>2. calls[c] \in Doing /\ step \in Steps /\ host \in Steps
  BY DEF WorkInv, TypeOK
<1>3. guard = c <=> calls[c] \notin {"nothing", "writing"}
  BY DEF WorkInv, GuardIsAtWork
<1>4. CASE GenerateMessage(c)
  <2>1. GuardIsAtWork' /\ OneSync' /\ guard' \in Holders /\ calls' \in [Calls -> Doing]
    <3>1. CASE UNCHANGED <<calls, guard>>
      BY <1>4, <3>1 DEF GenerateMessage, WorkInv, TypeOK, OneSync, GuardIsAtWork
    <3>2. CASE BeginHolding(c, "decoding")
      BY <1>1, <1>4, <3>2, CallKeeps DEF GenerateMessage, BeginHolding, Begin
    <3>3. CASE Begin(c, "writing") /\ UNCHANGED guard
      BY <1>1, <1>3, <1>4, <3>3, CallKeeps DEF GenerateMessage, Begin
    <3> QED
      BY <1>4, <3>1, <3>2, <3>3 DEF GenerateMessage
  <2> QED
    BY <1>4, <2>1 DEF GenerateMessage, WorkInv, TypeOK, page
<1>5. CASE ExportMessage(c)
  <2>1. GuardIsAtWork' /\ OneSync' /\ guard' \in Holders /\ calls' \in [Calls -> Doing]
    BY <1>1, <1>5, CallKeeps DEF ExportMessage, BeginHolding, Begin
  <2> QED
    BY <1>5, <2>1 DEF ExportMessage, WorkInv, TypeOK, page
<1>6. CASE ProfileMessage(c)
  <2>1. GuardIsAtWork' /\ OneSync' /\ guard' \in Holders /\ calls' \in [Calls -> Doing]
    BY <1>1, <1>6, CallKeeps DEF ProfileMessage, BeginHolding, Begin
  <2> QED
    BY <1>6, <2>1 DEF ProfileMessage, WorkInv, TypeOK, page
<1>7. CASE ImportMessage(c, s)
  <2>1. GuardIsAtWork' /\ OneSync' /\ guard' \in Holders /\ calls' \in [Calls -> Doing]
    BY <1>1, <1>7, CallKeeps DEF ImportMessage, BeginHolding, Begin
  <2> QED
    BY <1>7, <2>1 DEF ImportMessage, WorkInv, TypeOK, page
<1>8. CASE Answered(c)
  <2>1. GuardIsAtWork' /\ OneSync' /\ guard' \in Holders /\ calls' \in [Calls -> Doing]
    <3>1. CASE UNCHANGED <<calls, guard>>
      BY <1>8, <3>1 DEF Answered, WorkInv, TypeOK, OneSync, GuardIsAtWork
    <3>2. CASE calls' = [calls EXCEPT ![c] = "nothing"] /\ guard' = IF guard = c THEN None ELSE guard
      BY <1>1, <1>8, <3>2, CallKeeps DEF Answered
    <3> QED
      BY <1>8, <3>1, <3>2 DEF Answered
  <2>2. step' \in Steps /\ host' \in Steps
    BY <1>2, <1>8, UpStays DEF Answered
  <2> QED
    BY <1>8, <2>1, <2>2 DEF Answered, WorkInv, TypeOK, page
<1> QED
  BY <1>4, <1>5, <1>6, <1>7, <1>8

\* The page's controls touch neither the guard nor the loop.
LEMMA PageKeeps ==
    ASSUME WorkInv, NotedRight, PressTrain \/ PressStop \/ StopGenerating \/ HearEnd
                    \/ \E x \in Settings : SettingsMessage(x)
    PROVE  WorkInv'
<1>1. UNCHANGED <<loop, training, guard, calls, samples>> /\ OneSync' /\ GuardIsAtWork'
  BY DEF PressTrain, PressStop, StopGenerating, HearEnd, SettingsMessage, model, WorkInv,
         OneSync, GuardIsAtWork
<1>2. CASE PressTrain
  <2>1. preparing' \in 0 .. MaxClicks /\ clicks' \in 0 .. MaxClicks /\ preparing' <= clicks'
    BY <1>2 DEF PressTrain, WorkInv, TypeOK
  <2>2. TypeOK'
    BY <1>2, <2>1 DEF PressTrain, WorkInv, TypeOK, model
  <2> QED
    BY <1>1, <1>2, <2>1, <2>2 DEF WorkInv
<1>3. CASE PressStop
  BY <1>1, <1>3 DEF PressStop, WorkInv, TypeOK, model
<1>4. CASE StopGenerating
  BY <1>1, <1>4 DEF StopGenerating, WorkInv, TypeOK, model, page
<1>5. CASE HearEnd
  <2>1. Tail(inbox) \in Seq({"train-stopped", "settled"})
    BY <1>5 DEF HearEnd, WorkInv, TypeOK
  <2>2. TypeOK'
    BY <1>5, <2>1 DEF HearEnd, WorkInv, TypeOK, model
  <2> QED
    BY <1>1, <1>5, <2>2 DEF HearEnd, WorkInv
<1>6. CASE \E x \in Settings : SettingsMessage(x)
  BY <1>1, <1>6 DEF SettingsMessage, WorkInv, TypeOK, model, page
<1> QED
  BY <1>2, <1>3, <1>4, <1>5, <1>6

\* A move keeps the guard where the work is.
LEMMA MovesKeep ==
    ASSUME WorkInv, NotedRight, Moves
    PROVE  WorkInv'
<1>1. CASE Loop
  BY <1>1, LoopKeeps
<1>2. CASE Train
  BY <1>2, TrainKeeps DEF Train
<1>3. CASE Samples
  BY <1>3, SamplesKeep DEF Samples
<1>4. CASE \E c \in Calls : Answered(c)
  <2>1. 0 \in Steps
    BY DEF Steps
  <2> QED
    BY <1>4, <2>1, CallsKeep
<1>5. CASE Press
  <2>1. 0 \in Steps
    BY DEF Steps
  <2> QED
    BY <1>5, <2>1, CallsKeep, PageKeeps DEF Press
<1>6. CASE HearEnd
  BY <1>6, PageKeeps
<1> QED
  BY <1>1, <1>2, <1>3, <1>4, <1>5, <1>6 DEF Moves

----------------------------------------------------------------------------
(* The samples' grid.                                                      *)

\* A smaller number is as small a multiple.
LEMMA MultiplesRise ==
    ASSUME NEW k \in Nat, NEW a \in Nat, NEW b \in Nat, a <= b
    PROVE  a * k <= b * k
<1>1. b - a \in Nat
  OBVIOUS
<1> PICK d \in Nat : d = b - a
  BY <1>1
<1>2. d * k >= 0 /\ b = a + d
  OBVIOUS
<1>3. b * k = a * k + d * k
  BY <1>2
<1> QED
  BY <1>2, <1>3

\* The next point of a cadence is the first one ahead.
LEMMA NextIsFirst ==
    ASSUME NEW s \in Steps, NEW k \in Interval, k > 0
    PROVE  Ahead(s, NextOnGrid(s, k), k)
<1>1. s \in Nat /\ k \in Nat \ {0}
  BY DEF Steps, Interval
<1> PICK q : q = s \div k
  OBVIOUS
<1>2. q \in Nat /\ q * k <= s
  BY <1>1
<1> PICK at : at = (q + 1) * k
  OBVIOUS
<1>3. NextOnGrid(s, k) = at /\ at \in Nat
  BY <1>1, <1>2 DEF NextOnGrid
<1>4. ASSUME NEW g \in s + 1 .. at - 1, g % k = 0 PROVE FALSE
  <2>1. g \in Nat /\ s < g /\ g < at
    BY <1>1, <1>3
  <2> PICK m : m = g \div k
    OBVIOUS
  <2>2. m \in Nat /\ g = m * k
    BY <1>1, <1>4, <2>1
  <2>3. CASE m <= q
    <3>1. m * k <= q * k
      BY <1>1, <1>2, <2>2, <2>3, MultiplesRise
    <3> QED
      BY <1>1, <1>2, <2>1, <2>2, <3>1
  <2>4. CASE q + 1 <= m
    <3>1. (q + 1) * k <= m * k
      BY <1>1, <1>2, <2>2, <2>4, MultiplesRise
    <3>2. at <= g
      BY <2>2, <3>1
    <3> QED
      BY <1>3, <2>1, <3>2
  <2> QED
    BY <1>2, <2>2, <2>3, <2>4
<1> QED
  BY <1>3, <1>4 DEF Ahead

\* What a stretch does with a sample that is due: it begins one of the step
\* the model is at, or goes into a measurement or a save first.
Owing(s, n) == live.sample > 0 /\ Due(s, n.sample)
Begun(s) == loop' = "sample" \/ \E e \in samples' : e.at = s
Dealt(s, n) ==
    /\ next'.sample \in {n.sample, NextOnGrid(s, live.sample)}
    /\ Free /\ Owing(s, n) => Begun(s) \/ (loop' \in {"measure", "save"} /\ next'.sample = n.sample)

\* At the sample itself, and at the stages before it.
LEMMA SampleDeals ==
    ASSUME NEW s \in Steps, NEW n \in Cadences, Sample(s, n)
    PROVE  Dealt(s, n)
<1> PICK moved : moved = [n EXCEPT !.sample = NextOnGrid(s, live.sample)]
  OBVIOUS
<1>1. moved.sample = NextOnGrid(s, live.sample)
  BY DEF Cadences
<1>2. CASE ~Owing(s, n) /\ Pause(n)
  BY <1>2 DEF Pause, Dealt
<1>3. CASE StartCpuSample(s) /\ loop' = "pause" /\ next' = moved
  <2> PICK e : e \in samples' /\ e \in {[at |-> s, weights |-> None], [at |-> s, weights |-> host]}
    BY <1>3 DEF StartCpuSample
  <2>1. e.at = s
    OBVIOUS
  <2> QED
    BY <1>1, <1>3, <2>1 DEF Dealt, Begun
<1>4. CASE Free /\ AwaitHolding("sample", moved)
  BY <1>1, <1>4 DEF AwaitHolding, Dealt, Begun
<1>5. CASE ~Free /\ next' = moved
  BY <1>1, <1>5 DEF Dealt
<1> QED
  <2>1. live.sample = 0 \/ ~Due(s, n.sample) => ~Owing(s, n)
    BY DEF Owing
  <2> QED
    BY <1>2, <1>3, <1>4, <1>5, <2>1 DEF Sample

\* A save.
LEMMA SaveDeals ==
    ASSUME NEW s \in Steps, live \in Settings, NEW n \in Cadences, Save(s, n)
    PROVE  Dealt(s, n)
<1> PICK moved : moved = [n EXCEPT !.save = NextOnGrid(s, live.save)]
  OBVIOUS
<1>1. moved \in Cadences /\ moved.sample = n.sample
  <2>1. moved \in Cadences
    BY Intervals, OnGrid, Moved
  <2> QED
    BY <2>1 DEF Cadences
<1>2. CASE Sample(s, n)
  BY <1>2, SampleDeals
<1>3. CASE Sample(s, moved)
  <2>1. Dealt(s, moved)
    BY <1>1, <1>3, SampleDeals
  <2> QED
    BY <1>1, <2>1 DEF Dealt, Owing
<1>4. CASE AwaitHolding("save", moved)
  BY <1>1, <1>4 DEF AwaitHolding, Dealt
<1> QED
  BY <1>2, <1>3, <1>4 DEF Save

\* A measurement.
LEMMA MeasureDeals ==
    ASSUME NEW s \in Steps, live \in Settings, NEW n \in Cadences, Measure(s, n)
    PROVE  Dealt(s, n)
<1> PICK moved : moved = [n EXCEPT !.validate = NextOnGrid(s, live.validate)]
  OBVIOUS
<1>1. moved \in Cadences /\ moved.sample = n.sample
  <2>1. moved \in Cadences
    BY Intervals, OnGrid, Moved
  <2> QED
    BY <2>1 DEF Cadences
<1>2. CASE Save(s, n)
  BY <1>2, SaveDeals
<1>3. CASE Save(s, moved)
  <2>1. Dealt(s, moved)
    BY <1>1, <1>3, SaveDeals
  <2> QED
    BY <1>1, <2>1 DEF Dealt, Owing
<1>4. CASE AwaitHolding("measure", moved)
  BY <1>1, <1>4 DEF AwaitHolding, Dealt
<1> QED
  BY <1>2, <1>3, <1>4 DEF Measure

\* What the other messages leave alone, and how far the model goes meanwhile.
LEMMA OthersMove ==
    ASSUME WorkInv, Samples \/ Press \/ HearEnd \/ \E c \in Calls : Answered(c)
    PROVE  /\ loop' = loop /\ next' = next
           /\ loop # "idle" => step' \in Nat /\ step' >= step
           /\ loop \in {"step", "measure", "save"} => step' = step
<1>1. step \in Nat /\ step <= Up(step) /\ Up(step) \in Nat
  BY DEF WorkInv, TypeOK, Steps, Up
<1>2. CASE Samples
  BY <1>1, <1>2 DEF Samples, SampleSynced, SampleWritten, model
<1>3. CASE HearEnd
  BY <1>1, <1>3 DEF HearEnd, model
<1>4. CASE \E c \in Calls : Answered(c)
  <2> PICK c \in Calls : Answered(c)
    BY <1>4
  <2>1. loop \in {"step", "measure", "save"} => calls[c] # "profiling"
    BY DEF WorkInv, GuardIsAtWork
  <2> QED
    BY <1>1, <2>1 DEF Answered
<1>5. CASE Press
  BY <1>1, <1>5 DEF Press, PressTrain, PressStop, StopGenerating, SettingsMessage, GenerateMessage,
       ExportMessage, ProfileMessage, ImportMessage, model, WorkInv
<1> QED
  BY <1>2, <1>3, <1>4, <1>5

\* A stretch of the loop takes the model no further back, moves the next
\* sample on to the grid or leaves it, and deals with a sample that is owed
\* in the states where one can be.
LEMMA LoopDeals ==
    ASSUME WorkInv, Loop
    PROVE  /\ step' \in Steps /\ step' >= step /\ live' = live
           /\ next'.sample \in {next.sample, NextOnGrid(step', live.sample)}
           /\ loop \in {"measure", "save"} => step' = step /\ Dealt(step, next)
           /\ loop = "step" /\ step' # step =>
                 step' = step + 1 /\ Stepped /\ (SliceOver(step', steps') => Dealt(step', next))
<1>1. step \in Steps /\ step \in Nat /\ steps \in Steps /\ live \in Settings /\ next \in Cadences
  BY DEF WorkInv, TypeOK, Cadences, Steps
<1>2. CASE Stepped
  <2>1. step' = Up(step) /\ steps' = Up(steps) /\ live' = live
    BY <1>2 DEF Stepped
  <2>2. step' \in Steps /\ step' >= step /\ (step' # step => step' = step + 1)
    BY <1>1, <2>1 DEF Up, Steps
  <2>3. CASE ~SliceOver(step', steps') /\ next' = next
    BY <1>2, <2>1, <2>2, <2>3 DEF Stepped
  <2>4. CASE Measure(step', next)
    <3>1. Dealt(step', next)
      BY <1>1, <2>2, <2>4, MeasureDeals
    <3> QED
      BY <1>2, <2>1, <2>2, <3>1 DEF Dealt, Stepped
  <2> QED
    BY <1>2, <2>1, <2>3, <2>4 DEF Stepped, AwaitHolding
<1>3. CASE OutOfText \/ StepFailed
  BY <1>1, <1>3 DEF OutOfText, StepFailed, EndRun
<1>4. CASE Measured
  <2>1. Dealt(step, next) /\ step' = step /\ live' = live
    BY <1>1, <1>4, SaveDeals DEF Measured
  <2> QED
    BY <1>1, <1>4, <2>1 DEF Dealt, Measured
<1>5. CASE Saved
  <2>1. Dealt(step, next) /\ step' = step /\ live' = live
    BY <1>1, <1>5, SampleDeals DEF Saved
  <2> QED
    BY <1>1, <1>5, <2>1 DEF Dealt, Saved
<1>6. CASE Sampled
  BY <1>1, <1>6 DEF Sampled
<1>7. CASE Paused
  <2>1. step' = step /\ live' = live /\ loop = "pause"
    BY <1>7 DEF Paused
  <2>2. next' = next \/ Measure(step, next)
    BY <1>7 DEF Paused, EndRun, Step, AwaitHolding
  <2>3. next'.sample \in {next.sample, NextOnGrid(step, live.sample)}
    BY <1>1, <2>2, MeasureDeals DEF Dealt
  <2> QED
    BY <1>1, <2>1, <2>3
<1> QED
  BY <1>2, <1>3, <1>4, <1>5, <1>6, <1>7 DEF Loop

\* The next sample is set ahead, or stays ahead while the model goes on.
LEMMA StaysAhead ==
    ASSUME NEW s \in Nat, NEW t \in Nat, s <= t, NEW at \in Grid, NEW k \in Nat, Ahead(s, at, k)
    PROVE  Ahead(t, at, k)
<1>1. at \in Nat
  <2>1. at \in Nat \cup {None} /\ at # None
    BY DEF Grid, Steps, Interval, Ahead
  <2> QED
    BY <2>1
<1>2. \A g \in t + 1 .. at - 1 : g \in s + 1 .. at - 1
  BY <1>1
<1> QED
  BY <1>2 DEF Ahead

\* The samples keep to their grid.
LEMMA MovesKeepSamples ==
    ASSUME LoopInv, WorkInv', Moves, Noted
    PROVE  SamplesKept' /\ GridAhead'
<1>1. WorkInv /\ SamplesKept /\ GridAhead
  BY DEF LoopInv
<1>2. /\ step \in Steps /\ step \in Nat /\ live \in Settings /\ next \in Cadences
      /\ sampling.every \in Nat /\ sampling.owed \in BOOLEAN /\ next.sample \in Grid
      /\ step' \in Steps /\ step' \in Nat /\ live' \in Settings /\ next'.sample \in Grid
  BY <1>1 DEF WorkInv, TypeOK, Cadences, Steps
<1>3. /\ sampling'.every = IF loop = "idle" \/ next'.sample # next.sample
                           THEN live'.sample ELSE sampling.every
      /\ sampling'.owed = ((sampling.owed \/ Reached) /\ ~Taken /\ live'.sample > 0)
  BY DEF Noted
<1>4. CASE loop = "idle"
  <2>1. ~sampling'.owed
    BY <1>1, <1>3, <1>4 DEF SamplesKept, Reached
  <2>2. ASSUME loop' # "idle", sampling'.every > 0
        PROVE  Ahead(step', next'.sample, sampling'.every)
    <3>1. ~Loop
      BY <1>4 DEF Loop, Stepped, OutOfText, StepFailed, Measured, Saved, Sampled, Paused
    <3>2. PICK x \in Settings : TrainMessage(x)
      BY <1>1, <1>4, <2>2, <3>1, OthersMove DEF Moves, Train
    <3>3. live' = x /\ step' = step /\ next'.sample = NextOnGrid(step, x.sample)
      BY <1>4, <2>2, <3>2 DEF TrainMessage, AwaitHolding, Pause
    <3>4. sampling'.every = x.sample /\ x.sample \in Interval
      BY <1>3, <1>4, <3>3, Intervals
    <3> QED
      BY <1>2, <2>2, <3>3, <3>4, NextIsFirst
  <2> QED
    BY <2>1, <2>2 DEF SamplesKept, GridAhead
<1>5. CASE loop # "idle"
  <2>1. \/ Loop
        \/ /\ loop' = loop /\ next' = next /\ step' >= step
           /\ loop \in {"step", "measure", "save"} => step' = step
    <3>1. CASE Train
      <4>1. training
        BY <1>1, <1>5 DEF WorkInv
      <4> QED
        BY <1>2, <3>1, <4>1 DEF Train, TrainMessage
    <3>2. CASE ~Train /\ ~Loop
      BY <1>1, <1>5, <3>2, OthersMove DEF Moves
    <3> QED
      BY <3>1, <3>2
  <2>2. /\ step' >= step
        /\ \/ next'.sample = next.sample
           \/ next'.sample = NextOnGrid(step', live'.sample)
    BY <1>1, <2>1, LoopDeals
  <2>3. ASSUME sampling'.every > 0 PROVE Ahead(step', next'.sample, sampling'.every)
    <3>1. CASE next'.sample = next.sample
      <4>1. Ahead(step, next.sample, sampling.every) /\ sampling'.every = sampling.every
        BY <1>1, <1>3, <1>5, <2>3, <3>1 DEF GridAhead
      <4> QED
        BY <1>2, <2>2, <3>1, <4>1, StaysAhead
    <3>2. CASE next'.sample # next.sample
      <4>1. sampling'.every = live'.sample /\ live'.sample \in Interval
        BY <1>2, <1>3, <3>2, Intervals
      <4> QED
        BY <1>2, <2>2, <2>3, <3>2, <4>1, NextIsFirst
    <3> QED
      BY <3>1, <3>2
  <2>4. ASSUME sampling'.owed PROVE loop' \in {"measure", "save"} /\ Due(step', next'.sample)
    <3>1. (sampling.owed \/ Reached) /\ ~Taken /\ live'.sample > 0
      BY <1>3, <2>4
    <3>2. CASE Loop
      <4>0. live' = live /\ ~Begun(step')
        BY <1>1, <3>1, <3>2, LoopDeals DEF Taken, Begun
      <4>1. CASE sampling.owed
        <5>1. loop \in {"measure", "save"} /\ Due(step, next.sample)
          BY <1>1, <4>1 DEF SamplesKept, GridAhead
        <5>2. step' = step /\ Dealt(step, next)
          BY <1>1, <3>2, <5>1, LoopDeals
        <5>3. Free /\ Owing(step, next)
          BY <1>1, <3>1, <4>0, <5>1 DEF WorkInv, GuardIsAtWork, Free, Owing
        <5> QED
          BY <4>0, <5>1, <5>2, <5>3 DEF Dealt
      <4>2. CASE Reached
        <5>1. loop = "step" /\ step' # step /\ sampling.every > 0 /\ step' % sampling.every = 0
          BY <4>2 DEF Reached
        <5>2. step' = step + 1 /\ Stepped /\ (SliceOver(step', steps') => Dealt(step', next))
          BY <1>1, <3>2, <5>1, LoopDeals
        <5>3. Due(step', next.sample)
          <6>1. Ahead(step, next.sample, sampling.every)
            BY <1>1, <5>1 DEF GridAhead
          <6>2. next.sample # None /\ next.sample \in Nat
            BY <1>2, <6>1 DEF Ahead, Grid, Steps, Interval
          <6>3. ~(step + 1 \in step + 1 .. next.sample - 1)
            BY <5>1, <5>2, <6>1 DEF Ahead
          <6> QED
            BY <1>2, <5>2, <6>2, <6>3 DEF Due
        <5>4. Free /\ Owing(step', next) /\ SliceOver(step', steps')
          BY <1>1, <3>1, <4>0, <5>1, <5>3 DEF WorkInv, GuardIsAtWork, Free, Owing, SliceOver
        <5> QED
          BY <4>0, <5>2, <5>3, <5>4 DEF Dealt
      <4> QED
        BY <3>1, <4>1, <4>2
    <3>3. CASE ~Loop
      <4>1. /\ loop' = loop /\ next' = next /\ step' >= step
            /\ loop \in {"step", "measure", "save"} => step' = step
        BY <2>1, <3>3
      <4>2. sampling.owed
        BY <3>1, <4>1 DEF Reached
      <4>3. loop \in {"measure", "save"} /\ Due(step, next.sample)
        BY <1>1, <4>2 DEF SamplesKept, GridAhead
      <4> QED
        BY <4>1, <4>3
    <3> QED
      BY <3>2, <3>3
  <2> QED
    BY <2>3, <2>4 DEF SamplesKept, GridAhead
<1> QED
  BY <1>4, <1>5

\* Every step preserves the inductive invariant.
LEMMA NextLoopInv == LoopInv /\ [Next]_vars => LoopInv'
<1> SUFFICES ASSUME LoopInv, [Next]_vars PROVE LoopInv'
  OBVIOUS
<1>1. CASE Next
  <2>1. Moves /\ Noted /\ WorkInv
    BY <1>1 DEF Next, LoopInv
  <2>2. NotedRight
    <3>1. live'.sample \in Nat
      <4>1. live' \in Settings
        BY <2>1 DEF Moves, Loop, Stepped, OutOfText, StepFailed, Measured, Saved, Sampled, Paused,
             Train, TrainMessage, Samples, SampleSynced, SampleWritten, Press, PressTrain, PressStop,
             StopGenerating, SettingsMessage, GenerateMessage, ExportMessage, ProfileMessage,
             ImportMessage, HearEnd, Answered, WorkInv, TypeOK
      <4> QED
        BY <4>1
    <3>2. sampling.every \in Nat
      BY <2>1 DEF WorkInv, TypeOK
    <3>3. ((sampling.owed \/ Reached) /\ ~Taken /\ live'.sample > 0) \in BOOLEAN
      OBVIOUS
    <3> QED
      BY <2>1, <3>1, <3>2, <3>3 DEF Noted
  <2>3. WorkInv'
    BY <2>1, <2>2, MovesKeep
  <2>4. SamplesKept' /\ GridAhead'
    BY <2>1, <2>3, MovesKeepSamples
  <2> QED
    BY <2>3, <2>4 DEF LoopInv
<1>2. CASE UNCHANGED vars
  <2>1. UNCHANGED <<core, sampling>>
    BY <1>2 DEF vars
  <2>2. WorkInv'
    BY <2>1 DEF core, model, page, LoopInv, WorkInv, TypeOK, OneSync, GuardIsAtWork
  <2>3. SamplesKept' /\ GridAhead'
    BY <2>1 DEF core, model, LoopInv, SamplesKept, GridAhead, Ahead, Due
  <2> QED
    BY <2>2, <2>3 DEF LoopInv
<1> QED
  BY <1>1, <1>2

----------------------------------------------------------------------------
(* What the specification promises.                                        *)

\* The invariant holds throughout (worker.js train, wasm-app acquire).
THEOREM LoopHolds == Spec => []LoopInv
<1>1. Init => LoopInv
  BY InitLoopInv
<1>2. LoopInv /\ [Next]_vars => LoopInv'
  BY NextLoopInv
<1> QED
  BY <1>1, <1>2, PTL DEF Spec

\* Every variable keeps its type; `next` stays on the grid of its cadence.
THEOREM LoopTypeCorrect == Spec => []TypeOK
<1>1. LoopInv => TypeOK
  BY DEF LoopInv, WorkInv
<1> QED
  BY <1>1, LoopHolds, PTL

\* The model's guard is held exactly while somebody works behind it, on
\* every way out of a step, a save, a sample or a call (wasm-app lib.rs
\* acquire and release, worker.js train).
THEOREM GuardNeverLeftHeld == Spec => []GuardIsAtWork
<1>1. LoopInv => GuardIsAtWork
  BY DEF LoopInv, WorkInv
<1> QED
  BY <1>1, LoopHolds, PTL

\* A second `train` that reaches the worker during a run leaves the run as
\* it is (worker.js, the `training` test of the handler).
THEOREM RunsNeverShare == Spec => OneRunAtATime
<1>1. LoopInv /\ [Next]_vars => [Train /\ loop # "idle" => UNCHANGED <<loop, steps, next, training>>]_vars
  <2> SUFFICES ASSUME LoopInv, Train, loop # "idle"
               PROVE  UNCHANGED <<loop, steps, next, training>>
    OBVIOUS
  <2>1. training
    BY DEF LoopInv, WorkInv
  <2> QED
    BY <2>1 DEF Train, TrainMessage
<1> QED
  BY <1>1, LoopHolds, PTL DEF Spec, OneRunAtATime

\* Where a step is begun: by the message, from the pause, or from a step
\* when nothing ends the slice.
LEMMA WhereStepsBegin ==
    ASSUME WorkInv, Moves, StepBegins
    PROVE  \/ \E x \in Settings : TrainMessage(x) /\ ~training
           \/ Paused /\ ~stopRequested /\ ~Planned(steps) /\ steps' = steps
              /\ UNCHANGED <<stopRequested, live>>
           \/ Stepped /\ ~SliceOver(step', steps') /\ UNCHANGED <<stopRequested, live>>
<1>1. /\ step \in Steps /\ live \in Settings /\ next \in Cadences
  BY DEF WorkInv, TypeOK, Cadences
<1>2. ASSUME Stepped PROVE ~SliceOver(step', steps')
  <2>1. step' \in Steps
    BY <1>1, <1>2, UpStays DEF Stepped
  <2>2. ~Measure(step', next)
    BY <1>1, <2>1, MeasureHands DEF StepBegins
  <2> QED
    BY <1>2, <2>2 DEF Stepped
<1>3. ASSUME Paused PROVE ~stopRequested /\ ~Planned(steps)
  BY <1>3 DEF Paused, EndRun, StepBegins
<1>4. ~OutOfText /\ ~StepFailed
  BY DEF OutOfText, StepFailed, EndRun, StepBegins
<1>5. ~Measured
  BY <1>1, SaveHands DEF Measured, StepBegins
<1>6. ~Saved
  BY <1>1, SampleHands DEF Saved, StepBegins
<1>7. ~Sampled
  BY DEF Sampled, StepBegins
<1>8. ASSUME Train PROVE \E x \in Settings : TrainMessage(x) /\ ~training
  BY <1>8 DEF Train, TrainMessage, StepBegins
<1>9. ~Samples /\ ~Press /\ ~HearEnd /\ ~\E c \in Calls : Answered(c)
  BY DEF StepBegins, Samples, SampleSynced, SampleWritten, Press, PressTrain, PressStop,
         StopGenerating, SettingsMessage, GenerateMessage, ExportMessage, ProfileMessage,
         ImportMessage, HearEnd, Answered
<1> QED
  BY <1>2, <1>3, <1>4, <1>5, <1>6, <1>7, <1>8, <1>9 DEF Moves, Loop, Stepped, Paused

\* No step is started once Stop was pressed or the steps asked for are done,
\* whatever changed while the loop awaited (worker.js train, the two `while`
\* conditions).
THEOREM StopsAtTheStep == Spec => NoStepTooMany
<1>1. LoopInv /\ [Next]_vars
      => [StepBegins => ~stopRequested' /\ (live'.max = 0 \/ steps' < live'.max)]_vars
  <2> SUFFICES ASSUME LoopInv, Next, StepBegins
               PROVE  ~stopRequested' /\ (live'.max = 0 \/ steps' < live'.max)
    BY DEF StepBegins
  <2>1. live.max \in Nat /\ steps \in Nat
    BY Intervals DEF LoopInv, WorkInv, TypeOK, Steps
  <2>2. CASE \E x \in Settings : TrainMessage(x) /\ ~training
    <3>1. PICK x \in Settings : TrainMessage(x) /\ ~training
      BY <2>2
    <3>2. live' = x /\ stopRequested' = FALSE /\ steps' = 0
      BY <3>1 DEF TrainMessage, StepBegins, LoopInv, WorkInv
    <3> QED
      BY <3>2, Intervals
  <2>3. CASE Paused /\ ~stopRequested /\ ~Planned(steps) /\ steps' = steps
             /\ UNCHANGED <<stopRequested, live>>
    BY <2>1, <2>3 DEF Planned
  <2>4. CASE Stepped /\ ~SliceOver(step', steps') /\ UNCHANGED <<stopRequested, live>>
    <3>1. steps' \in Nat
      BY <2>4, UpStays DEF Stepped, LoopInv, WorkInv, TypeOK, Steps
    <3> QED
      BY <2>1, <2>4, <3>1 DEF SliceOver, Planned
  <2> QED
    BY <2>2, <2>3, <2>4, WhereStepsBegin DEF Next, LoopInv
<1> QED
  BY <1>1, LoopHolds, PTL DEF Spec, NoStepTooMany

\* A step that reaches the samples' grid is sampled before the run takes
\* another or ends, wherever it began (worker.js nextOnGrid, train).
THEOREM SamplesStayOnGrid == Spec => []SamplesKept
<1>1. LoopInv => SamplesKept
  BY DEF LoopInv
<1> QED
  BY <1>1, LoopHolds, PTL
=============================================================================
