------------------------- MODULE RemoteTrainingProofs -------------------------
(***************************************************************************)
(* Pages and their server, for any number of pages, runs, sessions, steps  *)
(* and faults, and any capacity of the event channel.                      *)
(***************************************************************************)
EXTENDS RemoteTraining, TLAPS

USE ServerAssumption, PagesAssumption, SessionAssumption

Refusal(m) == [page |-> m.page, kind |-> m.kind, session |-> m.session, ok |-> FALSE,
               checkpoint |-> Blank(m.page)]

----------------------------------------------------------------------------
(* The data.                                                               *)

\* A request's fields.
LEMMA RequestFields ==
    ASSUME NEW m \in Request
    PROVE  /\ m.page \in Pages /\ m.kind \in Kinds /\ m.session \in Ids \cup {None}
           /\ m.checkpoint \in Checkpoint /\ m.limit \in Limits \cup {0} /\ m.live \in BOOLEAN
BY DEF Request

\* An answer's fields.
LEMMA ReplyFields ==
    ASSUME NEW r \in Reply
    PROVE  /\ r.page \in Pages /\ r.kind \in Kinds /\ r.session \in Ids \cup {None}
           /\ r.checkpoint \in Checkpoint /\ r.ok \in BOOLEAN
BY DEF Reply

\* A checkpoint's fields.
LEMMA CheckpointFields ==
    ASSUME NEW k \in Checkpoint
    PROVE  k.page \in Pages /\ k.step \in Steps /\ k.weights \in Steps
BY DEF Checkpoint

\* A session's fields; no session is no value.
LEMMA SessionFields ==
    ASSUME NEW s \in Session
    PROVE  /\ s.page \in Pages /\ s.step \in Steps /\ s.weights \in Steps
           /\ s.device \in Steps \cup {None} /\ s # None
BY DEF Session

\* Nothing trained yet.
LEMMA BlankFields ==
    ASSUME NEW c \in Pages
    PROVE  /\ Blank(c) \in Checkpoint /\ Blank(c).page = c
           /\ Blank(c).step = 0 /\ Blank(c).weights = 0
BY DEF Blank, Checkpoint, Steps

\* What a page asks.
LEMMA AskFields ==
    ASSUME TypeOK, NEW c \in Pages, NEW kind \in Kinds, NEW id \in Ids \cup {None}
    PROVE  /\ Ask(c, kind, id) \in Request
           /\ Ask(c, kind, id).page = c /\ Ask(c, kind, id).kind = kind
           /\ Ask(c, kind, id).session = id /\ Ask(c, kind, id).live = TRUE
           /\ Ask(c, kind, id).checkpoint \in {Blank(c), local[c]}
<1>1. (IF kind = "create" THEN local[c] ELSE Blank(c)) \in Checkpoint
  BY BlankFields DEF TypeOK
<1>2. (IF kind = "start" THEN limit[c] ELSE 0) \in Limits \cup {0}
  BY DEF TypeOK
<1> QED
  BY <1>1, <1>2 DEF Ask, Request

\* An answer, and that of a command whose page still listens.
LEMMA AnswerFields ==
    ASSUME NEW m \in Request, NEW ok \in BOOLEAN, NEW id \in Ids \cup {None},
           NEW k \in Checkpoint, replies \subseteq Reply, Answer(m, ok, id, k)
    PROVE  /\ replies' \subseteq Reply
           /\ replies \subseteq replies'
           /\ \A r \in replies' \ replies :
                 m.live /\ r.page = m.page /\ r.kind = m.kind /\ r.session = id /\ r.ok = ok
                 /\ r.checkpoint = k
           /\ replies' \subseteq replies \cup
                 {[page |-> m.page, kind |-> m.kind, session |-> id, ok |-> ok, checkpoint |-> k]}
<1>1. [page |-> m.page, kind |-> m.kind, session |-> id, ok |-> ok, checkpoint |-> k] \in Reply
  BY RequestFields DEF Reply
<1> QED
  BY <1>1 DEF Answer

\* What is queued when the head of the queue is taken.
LEMMA Taken ==
    ASSUME queue \in Seq(Request), Take
    PROVE  /\ Head(queue) \in Request /\ Head(queue) \in Queued
           /\ queue' \in Seq(Request) /\ Queued' \subseteq Queued
           /\ Head(queue) = queue[1] /\ 1 \in DOMAIN queue
           /\ \A i \in DOMAIN queue' : i + 1 \in DOMAIN queue /\ queue'[i] = queue[i + 1] /\ i >= 1
<1>1. /\ Head(queue) = queue[1] /\ 1 \in DOMAIN queue
      /\ \A i \in DOMAIN Tail(queue) : i + 1 \in DOMAIN queue /\ Tail(queue)[i] = queue[i + 1] /\ i >= 1
  BY DEF Take
<1>2. Head(queue) \in Request /\ Tail(queue) \in Seq(Request)
  BY DEF Take
<1> QED
  BY <1>1, <1>2 DEF Take, Queued

\* And when a command is put at its end.
LEMMA Appended ==
    ASSUME queue \in Seq(Request), NEW m \in Request, queue' = Append(queue, m)
    PROVE  /\ queue' \in Seq(Request) /\ Queued' = Queued \cup {m}
           /\ DOMAIN queue' = DOMAIN queue \cup {Len(queue) + 1}
           /\ \A i \in DOMAIN queue : queue'[i] = queue[i] /\ i # Len(queue) + 1
           /\ queue'[Len(queue) + 1] = m
<1>1. /\ queue' \in Seq(Request)
      /\ DOMAIN queue' = DOMAIN queue \cup {Len(queue) + 1}
      /\ \A i \in DOMAIN queue : queue'[i] = queue[i] /\ i # Len(queue) + 1
      /\ queue'[Len(queue) + 1] = m
  OBVIOUS
<1> QED
  BY <1>1 DEF Queued

\* Everything on its way is a request or a reply.
LEMMA MessageTypes ==
    ASSUME TypeOK
    PROVE  /\ Queued \subseteq Request /\ Requests \subseteq Request
           /\ \A m \in Messages : m.page \in Pages /\ m.checkpoint \in Checkpoint
                                  /\ m.session \in Ids \cup {None} /\ m.kind \in Kinds
<1>1. Queued \subseteq Request
  BY DEF TypeOK, ServerTypeOK, Queued
<1>2. wire \subseteq Request /\ replies \subseteq Reply
  BY DEF TypeOK, ServerTypeOK
<1> QED
  BY <1>1, <1>2, RequestFields, ReplyFields DEF Requests, Messages

\* A channel with one more event in it, and the oldest dropped if it is full.
LEMMA Overflows ==
    ASSUME NEW u \in Seq(Event), NEW e \in Event, Len(u) <= Capacity
    PROVE  LET v == Overflow(Append(u, e)) IN
           /\ v \in Seq(Event) /\ Len(v) <= Capacity
           /\ \A i \in DOMAIN v : v[i] = e \/ \E j \in DOMAIN u : v[i] = u[j]
<1> DEFINE a == Append(u, e)
<1>1. /\ a \in Seq(Event) /\ Len(a) = Len(u) + 1
      /\ \A i \in DOMAIN a : a[i] = e \/ (i \in DOMAIN u /\ a[i] = u[i])
  OBVIOUS
<1> HIDE DEF a
<1>2. CASE Len(a) > Capacity
  <2>1. a # <<>> /\ Tail(a) \in Seq(Event) /\ Len(Tail(a)) = Len(u)
    BY <1>1, <1>2
  <2>2. \A i \in DOMAIN Tail(a) : i + 1 \in DOMAIN a /\ Tail(a)[i] = a[i + 1]
    BY <1>1, <2>1
  <2> QED
    BY <1>1, <1>2, <2>1, <2>2 DEF Overflow, a
<1>3. CASE ~(Len(a) > Capacity)
  BY <1>1, <1>3 DEF Overflow, a
<1> QED
  BY <1>2, <1>3

\* A stream with other events unread.
LEMMA StreamFields ==
    ASSUME NEW s \in [session : Ids, unread : Seq(Event)], NEW u \in Seq(Event)
    PROVE  /\ [s EXCEPT !.unread = u] \in [session : Ids, unread : Seq(Event)]
           /\ [s EXCEPT !.unread = u].session = s.session
           /\ [s EXCEPT !.unread = u].unread = u
           /\ s.session \in Ids /\ s.unread \in Seq(Event)
OBVIOUS

\* What the pages hear of an event.
LEMMA Told ==
    ASSUME TypeOK, NEW id \in Ids, NEW e \in Event, Broadcast(id, e)
    PROVE  /\ streams' \in [Pages -> [session : Ids, unread : Seq(Event)] \cup {None}]
           /\ \A c \in Pages : streams'[c] # None =>
                 /\ Len(streams'[c].unread) <= Capacity
                 /\ streams[c] # None /\ streams'[c].session = streams[c].session
                 /\ \A i \in DOMAIN streams'[c].unread :
                       \/ streams'[c].unread[i] = e
                       \/ \E j \in DOMAIN streams[c].unread : streams'[c].unread[i] = streams[c].unread[j]
<1> DEFINE next(c) == IF streams[c] # None /\ streams[c].session = id
                      THEN [streams[c] EXCEPT !.unread = Overflow(Append(@, e))]
                      ELSE streams[c]
<1>1. streams' = [c \in Pages |-> next(c)]
  BY DEF Broadcast
<1>2. ASSUME NEW c \in Pages
      PROVE  /\ next(c) \in [session : Ids, unread : Seq(Event)] \cup {None}
             /\ next(c) # None =>
                  /\ Len(next(c).unread) <= Capacity
                  /\ streams[c] # None /\ next(c).session = streams[c].session
                  /\ \A i \in DOMAIN next(c).unread :
                       \/ next(c).unread[i] = e
                       \/ \E j \in DOMAIN streams[c].unread : next(c).unread[i] = streams[c].unread[j]
  <2>1. CASE streams[c] # None /\ streams[c].session = id
    <3>1. /\ streams[c] \in [session : Ids, unread : Seq(Event)]
          /\ Len(streams[c].unread) <= Capacity
      BY <2>1 DEF TypeOK, ServerTypeOK
    <3>2. PICK v : v = Overflow(Append(streams[c].unread, e))
      OBVIOUS
    <3>3. /\ v \in Seq(Event) /\ Len(v) <= Capacity
          /\ \A i \in DOMAIN v : v[i] = e \/ \E j \in DOMAIN streams[c].unread : v[i] = streams[c].unread[j]
      BY <3>1, <3>2, StreamFields, Overflows
    <3>4. next(c) = [streams[c] EXCEPT !.unread = v]
      BY <2>1, <3>2
    <3> QED
      BY <2>1, <3>1, <3>3, <3>4, StreamFields
  <2>2. CASE ~(streams[c] # None /\ streams[c].session = id)
    BY <2>2 DEF TypeOK, ServerTypeOK
  <2> QED
    BY <2>1, <2>2
<1> HIDE DEF next
<1> QED
  BY <1>1, <1>2

----------------------------------------------------------------------------
(* What a step does to a session.                                          *)

\* A run has ended and its weights could not be read back from the device.
DownloadFails == run # None /\ run' = None /\ sessions' = sessions /\ faults' # faults

Same(id) ==
    /\ sessions'[id] = sessions[id]
    /\ run # None /\ run.session = id => run' = run \/ DownloadFails
    /\ run' # None /\ run'.session = id => run' = run
Made(id) ==
    /\ id = nextId /\ nextId' = nextId + 1 /\ run' = None
    /\ \E m \in Queued : sessions'[id] =
          [page |-> m.page, step |-> m.checkpoint.step, weights |-> m.checkpoint.weights,
           device |-> None]
Begun(id) ==
    /\ run = None /\ sessions[id] # None /\ sessions'[id] = WithTrainer(sessions[id])
Further(id) ==
    /\ run # None /\ run.session = id /\ run' = run
    /\ sessions[id].step + 1 \in Steps
    /\ sessions'[id] = [page |-> sessions[id].page, step |-> sessions[id].step + 1,
                        weights |-> sessions[id].weights, device |-> sessions[id].device + 1]
PulledBack(id) ==
    /\ run # None /\ run.session = id /\ run' = None
    /\ sessions'[id] = [page |-> sessions[id].page, step |-> sessions[id].step,
                        weights |-> sessions[id].device, device |-> sessions[id].device]
Changes(id) == Same(id) \/ Made(id) \/ Begun(id) \/ Further(id) \/ PulledBack(id)

\* A trainer holds the session's weights.
LEMMA TrainerFields ==
    ASSUME NEW s \in Session
    PROVE  /\ WithTrainer(s) \in Session
           /\ WithTrainer(s) = [page |-> s.page, step |-> s.step, weights |-> s.weights,
                                device |-> IF s.device = None THEN s.weights ELSE s.device]
<1>1. CASE s.device = None
  <2>1. WithTrainer(s) = [page |-> s.page, step |-> s.step, weights |-> s.weights, device |-> s.weights]
    BY <1>1 DEF WithTrainer, Session
  <2> QED
    BY <1>1, <2>1 DEF Session
<1>2. CASE s.device # None
  BY <1>2 DEF WithTrainer, Session
<1> QED
  BY <1>1, <1>2

\* The end of a run.
LEMMA EndRunChanges ==
    ASSUME TypeOK, Sound, run # None, EndRun
    PROVE  /\ \A id \in Ids : Same(id) \/ PulledBack(id)
           /\ sessions' \in [Ids -> Session \cup {None}]
           /\ run' = None /\ faults' \in 0 .. MaxFaults
           /\ Broadcast(run.session, [type |-> "stopped", step |-> sessions[run.session].step])
<1>1. /\ run.session \in Ids /\ sessions[run.session] \in Session
      /\ sessions[run.session].device \in Steps
  BY SessionFields DEF TypeOK, ServerTypeOK, Sound
<1>2. CASE sessions' = [sessions EXCEPT ![run.session].weights = sessions[run.session].device]
           /\ faults' = faults
  <2> DEFINE s == sessions[run.session]
  <2>1. [s EXCEPT !.weights = s.device]
        = [page |-> s.page, step |-> s.step, weights |-> s.device, device |-> s.device]
    BY <1>1 DEF Session
  <2>2. [page |-> s.page, step |-> s.step, weights |-> s.device, device |-> s.device] \in Session
    BY <1>1, SessionFields DEF Session
  <2>3. sessions' = [sessions EXCEPT ![run.session] =
                       [page |-> s.page, step |-> s.step, weights |-> s.device, device |-> s.device]]
    BY <1>2, <2>1
  <2> HIDE DEF s
  <2>4. sessions' \in [Ids -> Session \cup {None}]
    BY <2>2, <2>3 DEF TypeOK, ServerTypeOK
  <2>5. ASSUME NEW id \in Ids PROVE Same(id) \/ PulledBack(id)
    <3>1. CASE id = run.session
      BY <1>1, <2>3, <3>1 DEF EndRun, PulledBack, TypeOK, ServerTypeOK, s
    <3>2. CASE id # run.session
      BY <1>1, <2>3, <3>2 DEF EndRun, Same, TypeOK, ServerTypeOK
    <3> QED
      BY <3>1, <3>2
  <2> QED
    BY <1>2, <2>4, <2>5 DEF EndRun, TypeOK, ServerTypeOK
<1>3. CASE Fault /\ sessions' = sessions
  BY <1>3 DEF EndRun, Fault, Same, DownloadFails, TypeOK, ServerTypeOK
<1> QED
  BY <1>2, <1>3 DEF EndRun

\* A step of a run.
LEMMA StepChanges ==
    ASSUME TypeOK, Sound, NEW reported \in BOOLEAN, TrainStep(reported)
    PROVE  /\ run.session \in Ids /\ Further(run.session)
           /\ sessions'[run.session] \in Session
           /\ \A id \in Ids : Same(id) \/ Further(id)
           /\ sessions' \in [Ids -> Session \cup {None}]
<1> DEFINE id == run.session
           s == sessions[id]
           new == [page |-> s.page, step |-> s.step + 1, weights |-> s.weights,
                   device |-> s.device + 1]
<1>1. /\ id \in Ids /\ s \in Session /\ s.device \in Steps /\ s.step + 1 \in Steps
      /\ s.step \in Nat /\ s.device + 1 \in Steps
      /\ sessions \in [Ids -> Session \cup {None}]
  <2>1. sessions \in [Ids -> Session \cup {None}] /\ run # None /\ s.step + 1 <= MaxStep
    BY DEF TypeOK, ServerTypeOK, TrainStep
  <2>2. id \in Ids /\ s # None /\ s.device # None
    BY <2>1 DEF TypeOK, ServerTypeOK, Sound
  <2>3. s \in Session /\ s.device <= s.step
    BY <2>1, <2>2 DEF Sound
  <2>4. s.step \in Steps /\ s.device \in Steps
    BY <2>2, <2>3, SessionFields
  <2> HIDE DEF s, id
  <2>5. s.step \in Nat /\ s.device \in Nat /\ MaxStep \in Nat
    BY <2>4 DEF Steps
  <2>6. s.step + 1 \in Steps /\ s.device + 1 \in Steps
    BY ONLY <2>1, <2>3, <2>5 DEF Steps
  <2> QED
    BY <2>1, <2>2, <2>3, <2>4, <2>5, <2>6
<1>2. new \in Session
  BY <1>1, SessionFields DEF Session
<1>3. [[s EXCEPT !.step = s.step + 1] EXCEPT !.device = s.device + 1] = new
  <2>1. [s EXCEPT !.step = s.step + 1]
        = [page |-> s.page, step |-> s.step + 1, weights |-> s.weights, device |-> s.device]
    BY <1>1 DEF Session
  <2>2. [[page |-> s.page, step |-> s.step + 1, weights |-> s.weights, device |-> s.device]
          EXCEPT !.device = s.device + 1] = new
    OBVIOUS
  <2> QED
    BY <2>1, <2>2
<1>4. sessions' = [sessions EXCEPT ![id] = new]
  BY <1>1, <1>3 DEF TrainStep
<1> HIDE DEF new, id
<1>5. sessions' \in [Ids -> Session \cup {None}] /\ sessions'[id] = new
  BY <1>1, <1>2, <1>4
<1>6. Further(id)
  BY <1>1, <1>5 DEF TrainStep, Further, new, id
<1>7. ASSUME NEW other \in Ids, other # id PROVE Same(other)
  BY <1>1, <1>4, <1>7 DEF TrainStep, Same
<1> QED
  BY <1>1, <1>2, <1>5, <1>6, <1>7 DEF id

\* A session is given out, trained, read back or forgotten; whatever else
\* happens leaves it as it is.
LEMMA SessionsChange ==
    ASSUME TypeOK, Sound, Next
    PROVE  /\ sessions' \in [Ids -> Session \cup {None}]
           /\ \A id \in Ids : sessions'[id] # None => Changes(id)
<1> DEFINE Goal == /\ sessions' \in [Ids -> Session \cup {None}]
                   /\ \A id \in Ids : sessions'[id] # None => Changes(id)
<1>1. sessions \in [Ids -> Session \cup {None}] /\ queue \in Seq(Request)
  BY DEF TypeOK, ServerTypeOK
<1>2. ASSUME sessions' = sessions, run' = run PROVE Goal
  BY <1>1, <1>2 DEF Changes, Same
<1>3. CASE CreateSession
  <2> DEFINE m == Head(queue)
             new == [page |-> m.page, step |-> m.checkpoint.step,
                     weights |-> m.checkpoint.weights, device |-> None]
  <2>1. m \in Request /\ m \in Queued
    BY <1>1, <1>3, Taken DEF CreateSession
  <2>2. new \in Session
    BY <2>1, RequestFields, CheckpointFields DEF Session
  <2>3. CASE nextId \in Ids /\ sessions' = [sessions EXCEPT ![nextId] = new] /\ nextId' = nextId + 1
    <3> HIDE DEF new
    <3>1. sessions' \in [Ids -> Session \cup {None}]
      BY <1>1, <2>2, <2>3
    <3>2. ASSUME NEW id \in Ids, id # nextId PROVE Same(id)
      BY <1>1, <1>3, <2>3, <3>2 DEF CreateSession, Same
    <3>3. Made(nextId)
      BY <1>1, <1>3, <2>1, <2>3 DEF CreateSession, Made, new
    <3> QED
      BY <3>1, <3>2, <3>3 DEF Changes
  <2> QED
    BY <1>2, <1>3, <2>3 DEF CreateSession
<1>4. CASE DeleteSession
  BY <1>1, <1>4 DEF DeleteSession, Changes, Same
<1>5. CASE StartTraining
  <2> DEFINE id == Head(queue).session
  <2>1. CASE Known(id) /\ sessions' = [sessions EXCEPT ![id] = WithTrainer(@)]
    <3>1. id \in Ids /\ sessions[id] \in Session
      BY <1>1, <2>1 DEF Known
    <3> HIDE DEF id
    <3>2. sessions' \in [Ids -> Session \cup {None}]
      BY <1>1, <2>1, <3>1, TrainerFields
    <3>3. Begun(id)
      BY <1>1, <1>5, <2>1, <3>1 DEF StartTraining, Begun, Known
    <3>4. ASSUME NEW other \in Ids, other # id PROVE Same(other)
      <4>1. run = None /\ (run' = None \/ run'.session = id)
        <5>1. run = None /\ run' \in {None, [session |-> Head(queue).session, limit |-> Head(queue).limit]}
          BY <1>5 DEF StartTraining
        <5> QED
          BY <5>1 DEF id
      <4>2. sessions'[other] = sessions[other]
        BY <1>1, <2>1, <3>1, <3>4
      <4> QED
        BY <3>4, <4>1, <4>2 DEF Same
    <3> QED
      BY <3>2, <3>3, <3>4 DEF Changes
  <2>2. CASE UNCHANGED <<sessions, run>>
    BY <1>2, <2>2
  <2> QED
    BY <1>5, <2>1, <2>2 DEF StartTraining
<1>6. ASSUME RunFinished \/ TrainStepFailed \/ (run # None /\ EndRun) PROVE Goal
  BY <1>6, EndRunChanges DEF RunFinished, TrainStepFailed, Changes
<1>7. CASE Drain
  BY <1>2, <1>6, <1>7 DEF Drain
<1>8. ASSUME NEW reported \in BOOLEAN, TrainStep(reported) PROVE Goal
  BY <1>8, StepChanges DEF Changes
<1>9. CASE ServerCrash
  BY <1>9 DEF ServerCrash, Crash
<1> QED
  BY <1>2, <1>3, <1>4, <1>5, <1>6, <1>7, <1>8, <1>9
  DEF Next, Work, Actor, Press, Replied, Listen, Deliver, Faulty, GetCheckpoint, StopOutsideRun,
      PressTrain, PressStop, CreateReplied, StartReplied, UndoReplied, EventsReplied, PullReplied,
      FinalReplied, DeleteReplied, Receive, HandleProgress, HandleStopped, NextEvent, Subscribe,
      Enqueue, LoseRequest, Disconnect, LoseReply, LoseStream, serverVars

----------------------------------------------------------------------------
(* What a step puts on its way.                                            *)

\* What is on its way after a step was so before, or answers a request with
\* no more than it brought, or with a new session, or with a session's
\* checkpoint; or it is asked by a page.
Given(x) ==
    \E m \in Messages : /\ x.page = m.page /\ x.session = m.session
                       /\ x.checkpoint \in {Blank(m.page), m.checkpoint}
Created(x) ==
    /\ x.session = nextId /\ nextId' = nextId + 1
    /\ \E m \in Queued : /\ x.page = m.page /\ x.checkpoint = m.checkpoint
                        /\ sessions'[nextId].page = m.page
Served(x) ==
    /\ run = None /\ x.session \in Ids /\ sessions[x.session] # None
    /\ \E m \in Queued : x.page = m.page /\ x.session = m.session
    /\ x.checkpoint = CheckpointOf(x.session)
Asked(x) ==
    /\ x.page \in Pages /\ x.checkpoint \in {Blank(x.page), local[x.page]}
    /\ \/ x.session = None \/ x.session = session[x.page]
       \/ streams[x.page] # None /\ x.session = streams[x.page].session
       \/ \E r \in replies : x.page = r.page /\ x.session = r.session
Accounted(x) == Given(x) \/ Created(x) \/ Served(x) \/ Asked(x)

MessagesOK == wire \subseteq Request /\ replies \subseteq Reply /\ queue \in Seq(Request)

\* What was on its way still is as it was.
LEMMA StillGiven ==
    ASSUME NEW x \in Messages
    PROVE  Given(x)
BY DEF Given

\* A refusal, and an answer that says no more than the request.
LEMMA AnswerGives ==
    ASSUME TypeOK, NEW m \in Requests, NEW ok \in BOOLEAN, NEW k \in {Blank(m.page), m.checkpoint},
           Answer(m, ok, m.session, k)
    PROVE  replies' \subseteq Reply /\ \A r \in replies' : Given(r)
<1>1. m \in Request /\ m \in Messages /\ replies \subseteq Reply
  BY MessageTypes DEF TypeOK, ServerTypeOK, Messages
<1>2. m.session \in Ids \cup {None} /\ k \in Checkpoint
  BY <1>1, RequestFields, BlankFields
<1>3. \A r \in replies' \ replies : Given(r)
  BY <1>1, <1>2, AnswerFields DEF Given
<1>4. \A r \in replies : Given(r)
  BY StillGiven DEF Messages
<1> QED
  BY <1>1, <1>2, <1>3, <1>4, AnswerFields

\* Requests a step only takes away leave what there was.
LEMMA FewerGiven ==
    ASSUME Requests' \subseteq Requests, \A r \in replies' : Accounted(r)
    PROVE  \A x \in Messages' : Accounted(x)
BY StillGiven DEF Messages, Accounted

\* A page asks one thing, or nothing.
LEMMA AskGives ==
    ASSUME TypeOK, NEW c \in Pages, NEW kind \in Kinds, NEW id \in Ids \cup {None},
           \/ id = None \/ id = session[c]
           \/ streams[c] # None /\ id = streams[c].session
           \/ \E r \in replies : c = r.page /\ id = r.session,
           wire' = wire \cup {Ask(c, kind, id)}, queue' = queue, replies' \subseteq replies
    PROVE  MessagesOK' /\ \A x \in Messages' : Accounted(x)
<1>1. Asked(Ask(c, kind, id)) /\ Ask(c, kind, id) \in Request
  <2> DEFINE x == Ask(c, kind, id)
  <2>1. x \in Request /\ x.checkpoint \in {Blank(c), local[c]}
    BY AskFields
  <2>2. x.page = c /\ x.session = id
    BY DEF Ask
  <2> HIDE DEF x
  <2>3. Asked(x)
    BY <2>1, <2>2 DEF Asked
  <2> QED
    BY <2>1, <2>3 DEF x
<1>2. Requests' = Requests \cup {Ask(c, kind, id)}
  BY DEF Requests, Queued
<1> QED
  BY <1>1, <1>2, StillGiven DEF Messages, Accounted, MessagesOK, TypeOK, ServerTypeOK

\* Every step puts on its way only what can be accounted for.
LEMMA MessagesChange ==
    ASSUME TypeOK, Next
    PROVE  MessagesOK' /\ \A x \in Messages' : Accounted(x)
<1> DEFINE Goal == MessagesOK' /\ \A x \in Messages' : Accounted(x)
<1>1. MessagesOK
  BY DEF MessagesOK, TypeOK, ServerTypeOK
<1>2. ASSUME wire' \subseteq wire, queue' = queue, replies' \subseteq replies PROVE Goal
  <2>1. Requests' \subseteq Requests
    BY <1>2 DEF Requests, Queued
  <2> QED
    BY <1>1, <1>2, <2>1, StillGiven, FewerGiven DEF MessagesOK, Messages, Accounted
<1>3. ASSUME wire' = wire, Take, replies' = replies PROVE Goal
  <2>1. Requests' \subseteq Requests /\ queue' \in Seq(Request)
    BY <1>1, <1>3, Taken DEF Requests, MessagesOK
  <2> QED
    BY <1>1, <1>3, <2>1, StillGiven, FewerGiven DEF MessagesOK, Messages, Accounted
<1>4. ASSUME wire' = wire, Take, NEW ok \in BOOLEAN,
             NEW k \in {Blank(Head(queue).page), Head(queue).checkpoint},
             Answer(Head(queue), ok, Head(queue).session, k)
      PROVE  Goal
  <2>1. Requests' \subseteq Requests /\ queue' \in Seq(Request) /\ Head(queue) \in Requests
    BY <1>1, <1>4, Taken DEF Requests, MessagesOK
  <2>2. replies' \subseteq Reply /\ \A r \in replies' : Given(r)
    BY <1>4, <2>1, AnswerGives
  <2> QED
    BY <1>1, <1>4, <2>1, <2>2, FewerGiven DEF MessagesOK, Accounted
<1>5. ASSUME wire' = wire, Take, Refuse(Head(queue)) PROVE Goal
  BY <1>4, <1>5 DEF Refuse
<1>6. CASE CreateSession /\ UNCHANGED pageVars
  <2> DEFINE m == Head(queue)
  <2>1. Requests' \subseteq Requests /\ queue' \in Seq(Request) /\ m \in Request /\ m \in Queued
    BY <1>1, <1>6, Taken DEF Requests, MessagesOK, CreateSession, pageVars
  <2>2. CASE /\ nextId \in Ids /\ nextId' = nextId + 1
             /\ sessions' = [sessions EXCEPT ![nextId] =
                   [page |-> m.page, step |-> m.checkpoint.step,
                    weights |-> m.checkpoint.weights, device |-> None]]
             /\ Answer(m, TRUE, nextId, m.checkpoint)
    <3> HIDE DEF m
    <3>1. replies' \subseteq Reply /\ \A r \in replies' \ replies :
             r.page = m.page /\ r.session = nextId /\ r.checkpoint = m.checkpoint
      <4>1. nextId \in Ids \cup {None} /\ m.checkpoint \in Checkpoint /\ replies \subseteq Reply
        BY <1>1, <2>1, <2>2, RequestFields DEF MessagesOK
      <4>2. Answer(m, TRUE, nextId, m.checkpoint)
        BY <2>2
      <4> DEFINE a == [page |-> m.page, kind |-> m.kind, session |-> nextId, ok |-> TRUE,
                       checkpoint |-> m.checkpoint]
      <4>3. a \in Reply
        BY <2>1, <4>1, RequestFields DEF Reply
      <4>4. replies' \subseteq replies \cup {a}
        BY <4>2 DEF Answer
      <4>5. a.page = m.page /\ a.session = nextId /\ a.checkpoint = m.checkpoint
        OBVIOUS
      <4> HIDE DEF a
      <4> QED
        BY <4>1, <4>3, <4>4, <4>5
    <3>2. sessions'[nextId].page = m.page
      BY <2>2 DEF TypeOK, ServerTypeOK
    <3>3. \A r \in replies' : Accounted(r)
      BY <2>1, <2>2, <3>1, <3>2, StillGiven DEF Messages, Accounted, Created
    <3> QED
      BY <1>1, <1>6, <2>1, <3>1, <3>3, FewerGiven DEF MessagesOK, pageVars
  <2> QED
    BY <1>5, <1>6, <2>2 DEF CreateSession, pageVars
<1>7. CASE GetCheckpoint /\ UNCHANGED pageVars
  <2> DEFINE m == Head(queue)
  <2>1. Requests' \subseteq Requests /\ queue' \in Seq(Request) /\ m \in Request /\ m \in Queued
    BY <1>1, <1>7, Taken DEF Requests, MessagesOK, GetCheckpoint, pageVars
  <2>2. CASE Known(m.session) /\ Answer(m, TRUE, m.session, CheckpointOf(m.session))
    <3> HIDE DEF m
    <3>1. m.session \in Ids /\ CheckpointOf(m.session) \in Checkpoint
      BY <2>2, SessionFields DEF TypeOK, ServerTypeOK, Known, CheckpointOf, Checkpoint
    <3>2. replies' \subseteq Reply /\ \A r \in replies' \ replies :
             r.page = m.page /\ r.session = m.session /\ r.checkpoint = CheckpointOf(m.session)
      <4>1. Answer(m, TRUE, m.session, CheckpointOf(m.session)) /\ replies \subseteq Reply
        BY <1>1, <2>2 DEF MessagesOK
      <4> DEFINE a == [page |-> m.page, kind |-> m.kind, session |-> m.session, ok |-> TRUE,
                       checkpoint |-> CheckpointOf(m.session)]
      <4>2. a \in Reply
        BY <2>1, <3>1, RequestFields DEF Reply
      <4>3. replies' \subseteq replies \cup {a}
        BY <4>1 DEF Answer
      <4>4. a.page = m.page /\ a.session = m.session /\ a.checkpoint = CheckpointOf(m.session)
        OBVIOUS
      <4> HIDE DEF a
      <4> QED
        BY <4>1, <4>2, <4>3, <4>4
    <3>3. \A r \in replies' : Accounted(r)
      BY <1>7, <2>1, <2>2, <3>1, <3>2, StillGiven DEF Messages, Accounted, Served, Known, GetCheckpoint
    <3> QED
      BY <1>1, <1>7, <2>1, <3>2, <3>3, FewerGiven DEF MessagesOK, pageVars
  <2> QED
    BY <1>5, <1>7, <2>2 DEF GetCheckpoint, GiveCheckpoint, pageVars
<1>8. CASE (DeleteSession \/ StopOutsideRun \/ StartTraining \/ Drain) /\ UNCHANGED pageVars
  BY <1>3, <1>4, <1>5, <1>8 DEF DeleteSession, StopOutsideRun, StartTraining, Drain, Reject, pageVars
<1>9. ASSUME NEW m \in wire, Subscribe(m), wire' = wire \ {m} PROVE Goal
  <2>1. Requests' \subseteq Requests /\ m \in Requests
    BY <1>9 DEF Requests, Queued, Subscribe
  <2>2. replies' \subseteq Reply /\ \A r \in replies' : Given(r)
    <3> DEFINE a == [page |-> m.page, kind |-> m.kind, session |-> m.session,
                     ok |-> m.session \in registry, checkpoint |-> Blank(m.page)]
    <3>1. m \in Request /\ m \in Messages
      BY <2>1, MessageTypes DEF Messages
    <3>2. a \in Reply /\ Given(a)
      BY <3>1, RequestFields, BlankFields DEF Reply, Given
    <3>3. replies' \subseteq replies \cup {a}
      BY <1>9 DEF Subscribe, Answer
    <3> QED
      BY <1>1, <3>2, <3>3, StillGiven DEF MessagesOK, Messages
  <2> QED
    BY <1>1, <1>9, <2>1, <2>2, FewerGiven DEF MessagesOK, Accounted, Subscribe
<1>10. ASSUME NEW m \in wire, Enqueue(m), wire' = wire \ {m} PROVE Goal
  <2>1. Requests' \subseteq Requests /\ queue' \in Seq(Request)
    BY <1>1, <1>10, Appended DEF Requests, Enqueue, MessagesOK
  <2> QED
    BY <1>1, <1>10, <2>1, FewerGiven, StillGiven DEF MessagesOK, Accounted, Messages, Enqueue
<1>11. ASSUME NEW m \in wire, LoseRequest(m) PROVE Goal
  <2>1. Requests' \subseteq Requests /\ m \in Requests
    BY <1>11 DEF Requests, Queued, LoseRequest
  <2>2. CASE Refuse(m)
    <3>1. replies' \subseteq Reply /\ \A r \in replies' : Given(r)
      BY <2>1, <2>2, AnswerGives DEF Refuse
    <3> QED
      BY <1>1, <1>11, <2>1, <3>1, FewerGiven DEF MessagesOK, Accounted, LoseRequest
  <2> QED
    BY <1>2, <1>11, <2>2 DEF LoseRequest
<1>12. ASSUME NEW i \in DOMAIN queue, Disconnect(i), UNCHANGED pageVars PROVE Goal
  <2> DEFINE m == queue[i]
  <2>1. m \in Request /\ m \in Requests /\ [m EXCEPT !.live = FALSE] \in Request
        /\ Given([m EXCEPT !.live = FALSE])
    <3>1. m \in Request /\ m \in Requests /\ m \in Messages
      BY <1>1 DEF MessagesOK, Requests, Queued, Messages
    <3>2. /\ [m EXCEPT !.live = FALSE] \in Request
          /\ [m EXCEPT !.live = FALSE].page = m.page /\ [m EXCEPT !.live = FALSE].session = m.session
          /\ [m EXCEPT !.live = FALSE].checkpoint = m.checkpoint
      BY <3>1 DEF Request
    <3> QED
      BY <3>1, <3>2 DEF Given
  <2>2. queue' = [queue EXCEPT ![i] = [m EXCEPT !.live = FALSE]] /\ wire' = wire
    BY <1>1, <1>12 DEF Disconnect, MessagesOK, pageVars
  <2>3. replies' \subseteq Reply /\ \A r \in replies' : Given(r)
    BY <1>12, <2>1, AnswerGives DEF Disconnect, Refuse
  <2> HIDE DEF m
  <2>4. queue' \in Seq(Request) /\ Queued' \subseteq Queued \cup {[m EXCEPT !.live = FALSE]}
    BY <1>1, <2>1, <2>2 DEF MessagesOK, Queued
  <2>5. \A x \in Requests' : Given(x)
    BY <2>1, <2>2, <2>4, StillGiven DEF Requests, Messages
  <2> QED
    BY <1>1, <2>2, <2>3, <2>4, <2>5 DEF MessagesOK, Messages, Accounted
<1>13. ASSUME NEW r \in replies, LoseReply(r) PROVE Goal
  <2>1. [r EXCEPT !.ok = FALSE] \in Reply /\ Given([r EXCEPT !.ok = FALSE])
    <3>1. /\ [r EXCEPT !.ok = FALSE] \in Reply
          /\ [r EXCEPT !.ok = FALSE].page = r.page /\ [r EXCEPT !.ok = FALSE].session = r.session
          /\ [r EXCEPT !.ok = FALSE].checkpoint = r.checkpoint
      BY <1>1 DEF MessagesOK, Reply
    <3> QED
      BY <3>1 DEF Given, Messages
  <2>2. Requests' = Requests /\ replies' = (replies \ {r}) \cup {[r EXCEPT !.ok = FALSE]}
    BY <1>13 DEF LoseReply, Requests, Queued, pageVars
  <2> QED
    BY <1>1, <1>13, <2>1, <2>2, StillGiven DEF MessagesOK, Messages, Accounted, LoseReply, pageVars
<1>14. CASE ServerCrash
  <2>1. \A m \in Queued : Refusal(m) \in Reply /\ Given(Refusal(m))
    <3> TAKE m \in Queued
    <3>1. m \in Request /\ m \in Messages
      BY MessageTypes DEF Messages, Requests
    <3> QED
      BY <3>1, RequestFields, BlankFields DEF Refusal, Reply, Given
  <2>2. queue' = <<>> /\ wire' = wire /\ replies' \subseteq replies \cup {Refusal(m) : m \in Queued}
    BY <1>14 DEF ServerCrash, Crash, Refusal, Queued
  <2>3. queue' \in Seq(Request) /\ Requests' \subseteq Requests
    BY <2>2 DEF Requests, Queued
  <2>4. \A r \in replies' : Given(r)
    BY <2>1, <2>2, StillGiven DEF Messages
  <2> QED
    BY <1>1, <2>1, <2>2, <2>3, <2>4, FewerGiven DEF MessagesOK, Accounted
<1>15. ASSUME NEW c \in Pages, Press(c) PROVE Goal
  <2>1. CASE PressStop(c)
    <3>1. session[c] \in Ids \cup {None} /\ "stop" \in Kinds
      BY DEF TypeOK, Kinds
    <3>2. CASE wire' = wire \cup {Ask(c, "stop", session[c])}
      BY <2>1, <3>1, <3>2, AskGives DEF PressStop, serverVars
    <3> QED
      BY <1>2, <2>1, <3>2 DEF PressStop, Send, serverVars
  <2>2. ASSUME NEW steps \in Limits, PressTrain(c, steps) PROVE Goal
    <3>1. "create" \in Kinds
      BY DEF Kinds
    <3> QED
      BY <2>2, <3>1, AskGives DEF PressTrain, Send, serverVars
  <2> QED
    BY <1>15, <2>1, <2>2 DEF Press
<1>16. ASSUME NEW r \in replies, r.page \in Pages,
              CreateReplied(r) \/ StartReplied(r) \/ FinalReplied(r)
       PROVE  Goal
  <2>1. r.session \in Ids \cup {None} /\ session[r.page] \in Ids \cup {None}
        /\ {"start", "events", "undo", "delete"} \subseteq Kinds
    BY <1>1, ReplyFields DEF MessagesOK, TypeOK, Kinds
  <2>2. CASE CreateReplied(r)
    BY <1>2, <1>16, <2>1, <2>2, AskGives DEF CreateReplied, Receive, Send
  <2>3. CASE StartReplied(r)
    BY <1>16, <2>1, <2>3, AskGives DEF StartReplied, Receive, Send
  <2>4. CASE FinalReplied(r)
    BY <1>16, <2>1, <2>4, AskGives DEF FinalReplied, Send
  <2> QED
    BY <1>16, <2>2, <2>3, <2>4
<1>17. ASSUME NEW r \in replies,
              UndoReplied(r) \/ EventsReplied(r) \/ PullReplied(r) \/ DeleteReplied(r)
       PROVE  Goal
  BY <1>2, <1>17 DEF UndoReplied, EventsReplied, PullReplied, DeleteReplied, Receive
<1>18. ASSUME NEW c \in Pages, Listen(c) PROVE Goal
  <2>1. streams[c] # None
    BY <1>18 DEF Listen, HandleProgress, HandleStopped, NextEvent
  <2>2. streams[c].session \in Ids /\ {"pull", "final"} \subseteq Kinds
    BY <2>1 DEF TypeOK, ServerTypeOK, Kinds
  <2> QED
    BY <1>2, <1>18, <2>1, <2>2, AskGives DEF Listen, HandleProgress, HandleStopped, NextEvent, Send
<1>19. ASSUME wire' = wire, queue' = queue, replies' = replies PROVE Goal
  BY <1>2, <1>19
<1>20. ASSUME NEW c \in Pages, Replied(c) PROVE Goal
  BY <1>16, <1>17, <1>20 DEF Replied
<1>21. ASSUME NEW c \in Pages, Deliver(c) PROVE Goal
  BY <1>9, <1>10, <1>21 DEF Deliver
<1>22. CASE Faulty
  BY <1>11, <1>12, <1>13, <1>14, <1>19, <1>22 DEF Faulty, LoseStream
<1>23. CASE Work \/ (TrainStepFailed /\ UNCHANGED pageVars)
  BY <1>6, <1>7, <1>8, <1>19, <1>23 DEF Work, Actor, RunFinished, TrainStep, TrainStepFailed, pageVars
<1> QED
  BY <1>15, <1>18, <1>20, <1>21, <1>22, <1>23 DEF Next

----------------------------------------------------------------------------
(* What a step does to the actor's registers, the pages and the streams.   *)

ActorOK ==
    /\ nextId \in 1 .. MaxId + 1
    /\ run \in [session : Ids, limit : Limits \cup {0}] \cup {None}
    /\ registry \subseteq Ids
    /\ faults \in 0 .. MaxFaults

PagesOK ==
    /\ page \in [Pages -> Phases]
    /\ session \in [Pages -> Ids \cup {None}]
    /\ limit \in [Pages -> Limits \cup {0}]
    /\ lastSync \in [Pages -> Steps]
    /\ stopped \in [Pages -> BOOLEAN]
    /\ local \in [Pages -> Checkpoint]
    /\ presses \in 0 .. MaxRuns

StreamsOK ==
    /\ streams \in [Pages -> [session : Ids, unread : Seq(Event)] \cup {None}]
    /\ \A c \in Pages : streams[c] # None => Len(streams[c].unread) <= Capacity

\* A run's session has a trainer.
Ready == run # None => sessions[run.session] # None /\ sessions[run.session].device # None

\* A start takes the session it names, and only if it has it.
LEMMA StartChanges ==
    ASSUME TypeOK, StartTraining
    PROVE  ActorOK' /\ Ready' /\ nextId' = nextId
<1> DEFINE m == Head(queue)
<1>1. m \in Request /\ run = None /\ sessions \in [Ids -> Session \cup {None}]
  BY Taken DEF TypeOK, ServerTypeOK, StartTraining
<1>2. CASE /\ Known(m.session)
           /\ sessions' = [sessions EXCEPT ![m.session] = WithTrainer(@)]
           /\ registry' = registry \cup {m.session}
           /\ run' = IF m.live THEN [session |-> m.session, limit |-> m.limit] ELSE None
  <2>1. m.session \in Ids /\ m.limit \in Limits \cup {0} /\ sessions[m.session] \in Session
    BY <1>1, <1>2, RequestFields DEF Known
  <2>2. sessions'[m.session] # None /\ sessions'[m.session].device # None
    <3>1. sessions'[m.session] = WithTrainer(sessions[m.session])
      BY <1>1, <1>2, <2>1
    <3>2. /\ WithTrainer(sessions[m.session]) # None
          /\ WithTrainer(sessions[m.session]).device # None
      BY <2>1, SessionFields, TrainerFields DEF Steps
    <3> QED
      BY <3>1, <3>2
  <2> HIDE DEF m
  <2>3. run' = None \/ (run' \in [session : Ids, limit : Limits \cup {0}] /\ run'.session = m.session)
    BY <1>2, <2>1
  <2> QED
    BY <1>1, <1>2, <2>1, <2>2, <2>3 DEF StartTraining, ActorOK, Ready, TypeOK, ServerTypeOK
<1>3. CASE UNCHANGED <<sessions, registry, run>>
  BY <1>1, <1>3 DEF StartTraining, ActorOK, Ready, TypeOK, ServerTypeOK
<1> QED
  BY <1>2, <1>3 DEF StartTraining

\* The actor's registers keep their types, a run its trainer, and a number
\* is handed out once.
LEMMA ActorChanges ==
    ASSUME TypeOK, Sound, Next
    PROVE  ActorOK' /\ Ready' /\ (nextId' = nextId \/ nextId' = nextId + 1 \/ ServerCrash)
<1> DEFINE Goal == ActorOK' /\ Ready' /\ (nextId' = nextId \/ nextId' = nextId + 1 \/ ServerCrash)
<1>1. ActorOK /\ Ready
  BY DEF ActorOK, Ready, TypeOK, ServerTypeOK, Sound
<1>2. ASSUME UNCHANGED <<sessions, nextId, run, registry>>,
             faults' = faults \/ Fault
      PROVE  Goal
  BY <1>1, <1>2 DEF ActorOK, Ready, Fault
<1>3. CASE CreateSession
  <2>1. CASE nextId' = nextId + 1 /\ nextId \in Ids
    BY <1>1, <1>3, <2>1 DEF CreateSession, ActorOK, Ready, Ids
  <2> QED
    BY <1>2, <1>3, <2>1 DEF CreateSession
<1>4. CASE DeleteSession
  BY <1>1, <1>4 DEF DeleteSession, ActorOK, Ready
<1>5. ASSUME run # None, EndRun, nextId' = nextId, registry' = registry PROVE Goal
  BY <1>1, <1>5, EndRunChanges DEF ActorOK, Ready
<1>6. ASSUME NEW reported \in BOOLEAN, TrainStep(reported) PROVE Goal
  <2>1. /\ run' = run /\ nextId' = nextId /\ registry' = registry /\ faults' = faults
        /\ sessions'[run.session] # None /\ sessions'[run.session].device # None
    <3>1. sessions'[run.session] \in Session /\ sessions[run.session].device + 1 # None
      <4>1. run # None /\ run.session \in Ids /\ sessions[run.session] \in Session
        BY <1>1, <1>6 DEF TrainStep, Ready, ActorOK, TypeOK, ServerTypeOK
      <4>2. sessions[run.session].device \in Steps
        BY <1>1, <4>1, SessionFields DEF Ready
      <4> QED
        BY <1>6, <4>2, StepChanges DEF Steps
    <3>2. sessions'[run.session].device = sessions[run.session].device + 1
      BY <1>6, StepChanges DEF Further
    <3> QED
      BY <1>6, <3>1, <3>2, SessionFields DEF TrainStep
  <2> QED
    BY <1>1, <2>1 DEF ActorOK, Ready
<1>7. ASSUME NEW c \in Pages, Press(c) \/ Replied(c) \/ Listen(c) \/ Deliver(c) PROVE Goal
  BY <1>2, <1>7
  DEF Press, Replied, Listen, Deliver, PressTrain, PressStop, CreateReplied, StartReplied,
      UndoReplied, EventsReplied, PullReplied, FinalReplied, DeleteReplied, Receive,
      HandleProgress, HandleStopped, NextEvent, Subscribe, Enqueue, serverVars
<1>8. CASE Drain
  BY <1>2, <1>5, <1>8 DEF Drain
<1>9. CASE ServerCrash
  BY <1>1, <1>9 DEF ServerCrash, Crash, ActorOK, Ready, Fault
<1>10. CASE Work \/ TrainStepFailed
  BY <1>2, <1>3, <1>4, <1>5, <1>6, <1>8, <1>10, StartChanges
  DEF Work, Actor, GetCheckpoint, StopOutsideRun, RunFinished, TrainStepFailed
<1> QED
  BY <1>2, <1>7, <1>9, <1>10
  DEF Next, Faulty, LoseRequest, Disconnect, LoseReply, LoseStream

\* A page takes what an answer brings it, or keeps what it has.
LEMMA PagesChange ==
    ASSUME TypeOK, Next
    PROVE  /\ PagesOK'
           /\ \A c \in Pages :
                /\ \/ local'[c] = local[c]
                   \/ \E r \in replies : r.page = c /\ r.ok /\ local'[c] = r.checkpoint
                /\ \/ session'[c] \in {session[c], None}
                   \/ \E r \in replies : r.page = c /\ session'[c] = r.session
<1> DEFINE Goal ==
       /\ PagesOK'
       /\ \A c \in Pages :
            /\ \/ local'[c] = local[c]
               \/ \E r \in replies : r.page = c /\ r.ok /\ local'[c] = r.checkpoint
            /\ \/ session'[c] \in {session[c], None}
               \/ \E r \in replies : r.page = c /\ session'[c] = r.session
<1>1. PagesOK
  BY DEF PagesOK, TypeOK
<1>2. ASSUME UNCHANGED pageVars \/ UNCHANGED <<page, session, limit, lastSync, stopped, local, presses>>
      PROVE  Goal
  BY <1>1, <1>2 DEF PagesOK, pageVars
<1>3. ASSUME NEW c \in Pages, NEW steps \in Limits, PressTrain(c, steps) PROVE Goal
  BY <1>1, <1>3 DEF PagesOK, PressTrain, GoTo, Phases, Waiting, Awaits, Steps
<1>4. ASSUME NEW c \in Pages, PressStop(c) PROVE Goal
  BY <1>1, <1>4 DEF PagesOK, PressStop
<1>5. ASSUME NEW r \in replies,
             UNCHANGED <<limit, lastSync, stopped, presses>>,
             page' = page \/ \E phase \in Phases : GoTo(r.page, phase),
             local' = local \/ (r.ok /\ local' = [local EXCEPT ![r.page] = r.checkpoint]),
             \/ session' = session
             \/ \E id \in {r.session, None} : session' = [session EXCEPT ![r.page] = id]
      PROVE  Goal
  <2>1. r.page \in Pages /\ r.checkpoint \in Checkpoint /\ r.session \in Ids \cup {None}
    BY ReplyFields DEF TypeOK, ServerTypeOK
  <2> QED
    BY <1>1, <1>5, <2>1 DEF PagesOK, GoTo
<1>6. {"idle", "starting", "connecting", "undoing", "streaming", "deaf", "pulling"} \subseteq Phases
  BY DEF Phases, Waiting, Awaits
<1>7. ASSUME NEW c \in Pages, Replied(c) PROVE Goal
  <2>1. PICK r \in replies :
           /\ r.page = c
           /\ \/ CreateReplied(r) \/ StartReplied(r) \/ UndoReplied(r) \/ EventsReplied(r)
              \/ PullReplied(r) \/ FinalReplied(r) \/ DeleteReplied(r)
    BY <1>7 DEF Replied
  <2>2. CASE DeleteReplied(r)
    <3>1. session' = session \/ session' = [session EXCEPT ![r.page] = None]
      BY <1>1, <2>2 DEF DeleteReplied, PagesOK
    <3> QED
      BY <1>5, <2>2, <3>1 DEF DeleteReplied
  <2> QED
    BY <1>5, <1>6, <2>1, <2>2
    DEF CreateReplied, StartReplied, UndoReplied, EventsReplied, PullReplied, FinalReplied, ImportIfOk
<1>8. ASSUME NEW c \in Pages, Listen(c) PROVE Goal
  <2>1. /\ streams[c] \in [session : Ids, unread : Seq(Event)] /\ streams[c].unread # <<>>
    BY <1>8 DEF Listen, HandleProgress, HandleStopped, NextEvent, TypeOK, ServerTypeOK
  <2>2. Head(streams[c].unread) \in Event
    BY <2>1
  <2>3. Head(streams[c].unread).step \in Steps
    BY <2>2 DEF Event
  <2> QED
    BY <1>1, <1>6, <1>8, <2>3 DEF PagesOK, Listen, HandleProgress, HandleStopped, GoTo
<1>9. ASSUME NEW c \in Pages, LoseStream(c) PROVE Goal
  BY <1>1, <1>6, <1>9 DEF PagesOK, LoseStream, GoTo
<1>10. CASE ServerCrash
  BY <1>1, <1>6, <1>10 DEF PagesOK, ServerCrash
<1> QED
  BY <1>2, <1>3, <1>4, <1>7, <1>8, <1>9, <1>10
  DEF Next, Work, Press, Deliver, Faulty, LoseRequest, LoseReply

\* A stream goes on, or is opened for a request that asks for it.
LEMMA StreamsChange ==
    ASSUME TypeOK, Sound, Next
    PROVE  /\ StreamsOK'
           /\ \A c \in Pages : streams'[c] # None =>
                 \/ streams[c] # None /\ streams'[c].session = streams[c].session
                 \/ \E m \in wire : m.page = c /\ m.kind = "events" /\ streams'[c].session = m.session
<1> DEFINE Goal ==
       /\ StreamsOK'
       /\ \A c \in Pages : streams'[c] # None =>
             \/ streams[c] # None /\ streams'[c].session = streams[c].session
             \/ \E m \in wire : m.page = c /\ m.kind = "events" /\ streams'[c].session = m.session
<1>1. StreamsOK
  BY DEF StreamsOK, TypeOK, ServerTypeOK
<1>2. ASSUME UNCHANGED streams PROVE Goal
  BY <1>1, <1>2 DEF StreamsOK
<1>3. ASSUME NEW c \in Pages, streams' = [streams EXCEPT ![c] = None] PROVE Goal
  BY <1>1, <1>3 DEF StreamsOK
<1>4. ASSUME NEW id \in Ids, NEW e \in Event, Broadcast(id, e) PROVE Goal
  BY <1>4, Told DEF StreamsOK
<1>5. ASSUME run # None, EndRun PROVE Goal
  <2>1. run.session \in Ids /\ sessions[run.session] \in Session
    BY <1>5 DEF TypeOK, ServerTypeOK, Sound
  <2>2. [type |-> "stopped", step |-> sessions[run.session].step] \in Event
    BY <2>1, SessionFields DEF Event
  <2> QED
    BY <1>4, <1>5, <2>1, <2>2 DEF EndRun
<1>6. ASSUME NEW reported \in BOOLEAN, TrainStep(reported) PROVE Goal
  <2>1. run.session \in Ids /\ sessions[run.session].step + 1 \in Steps
    BY <1>6, StepChanges DEF Further
  <2>2. [type |-> "progress", step |-> sessions[run.session].step + 1] \in Event
    BY <2>1 DEF Event
  <2> QED
    BY <1>2, <1>4, <1>6, <2>1, <2>2 DEF TrainStep
<1>7. ASSUME NEW m \in wire, Subscribe(m) PROVE Goal
  <2>1. m \in Request /\ m.page \in Pages
    BY RequestFields DEF TypeOK
  <2>2. CASE m.session \in registry
    <3>1. streams' = [streams EXCEPT ![m.page] = [session |-> m.session, unread |-> <<>>]]
      BY <1>7, <2>2 DEF Subscribe
    <3>2. [session |-> m.session, unread |-> <<>>] \in [session : Ids, unread : Seq(Event)]
      BY <2>2 DEF TypeOK, ServerTypeOK
    <3> DEFINE new == [session |-> m.session, unread |-> <<>>]
    <3>3. new.session = m.session /\ Len(new.unread) = 0
      OBVIOUS
    <3> HIDE DEF new
    <3>4. streams' = [streams EXCEPT ![m.page] = new] /\ new \in [session : Ids, unread : Seq(Event)]
      BY <3>1, <3>2 DEF new
    <3> QED
      BY <1>1, <1>7, <2>1, <3>3, <3>4 DEF StreamsOK, Subscribe
  <2>3. CASE m.session \notin registry
    BY <1>1, <1>2, <1>7, <2>1, <2>3 DEF Subscribe, StreamsOK
  <2> QED
    BY <2>2, <2>3
<1>8. ASSUME NEW c \in Pages, Listen(c) PROVE Goal
  <2>1. streams' = [streams EXCEPT ![c].unread = Tail(@)]
        /\ streams[c] # None /\ streams[c].unread # <<>>
    BY <1>8 DEF Listen, HandleProgress, HandleStopped, NextEvent
  <2>2. /\ streams[c] \in [session : Ids, unread : Seq(Event)] /\ Len(streams[c].unread) <= Capacity
        /\ streams \in [Pages -> [session : Ids, unread : Seq(Event)] \cup {None}]
    BY <2>1 DEF TypeOK, ServerTypeOK
  <2> DEFINE u == Tail(streams[c].unread)
  <2>3. u \in Seq(Event) /\ Len(u) <= Capacity
    BY <2>1, <2>2
  <2>4. streams' = [streams EXCEPT ![c] = [streams[c] EXCEPT !.unread = u]]
    BY <2>1
  <2> HIDE DEF u
  <2> DEFINE new == [streams[c] EXCEPT !.unread = u]
  <2>5. /\ new \in [session : Ids, unread : Seq(Event)]
        /\ new.session = streams[c].session /\ new.unread = u
    BY <2>2, <2>3, StreamFields
  <2> HIDE DEF new
  <2>6. streams' = [streams EXCEPT ![c] = new]
    BY <2>4 DEF new
  <2> QED
    BY <1>1, <2>1, <2>2, <2>3, <2>5, <2>6 DEF StreamsOK
<1>9. CASE ServerCrash
  BY <1>9 DEF ServerCrash, Crash, StreamsOK
<1>10. ASSUME NEW r \in replies,
              \/ CreateReplied(r) \/ StartReplied(r) \/ UndoReplied(r) \/ EventsReplied(r)
              \/ PullReplied(r) \/ FinalReplied(r) \/ DeleteReplied(r)
       PROVE  Goal
  <2>1. r.page \in Pages
    BY ReplyFields DEF TypeOK, ServerTypeOK
  <2> QED
    BY <1>2, <1>3, <1>10, <2>1
    DEF CreateReplied, StartReplied, UndoReplied, EventsReplied, PullReplied, FinalReplied,
        DeleteReplied, Receive
<1>11. ASSUME NEW c \in Pages, Press(c) \/ Replied(c) \/ Deliver(c) PROVE Goal
  BY <1>2, <1>7, <1>10, <1>11
  DEF Press, Replied, Deliver, PressTrain, PressStop, Enqueue, serverVars
<1>12. CASE Work \/ TrainStepFailed
  BY <1>2, <1>5, <1>6, <1>12
  DEF Work, Actor, CreateSession, GetCheckpoint, DeleteSession, StopOutsideRun, StartTraining,
      RunFinished, Drain, TrainStepFailed
<1>13. CASE Faulty
  BY <1>2, <1>3, <1>9, <1>13 DEF Faulty, LoseRequest, Disconnect, LoseReply, LoseStream
<1> QED
  BY <1>8, <1>11, <1>12, <1>13 DEF Next

----------------------------------------------------------------------------
(* Whatever fails: types, and no copy ahead of its step.                   *)

\* The sessions after a step are sound.
LEMMA SessionsSound ==
    ASSUME TypeOK, Sound, Next, NEW id \in Ids, sessions'[id] # None
    PROVE  /\ sessions'[id].weights <= sessions'[id].step
           /\ sessions'[id].device # None => sessions'[id].device <= sessions'[id].step
<1> DEFINE s == sessions[id]
           t == sessions'[id]
<1>1. Changes(id)
  BY SessionsChange
<1>2. s # None => /\ s \in Session /\ s.step \in Nat /\ s.weights \in Nat
                 /\ s.device \in Nat \cup {None}
                 /\ s.weights <= s.step /\ (s.device # None => s.device <= s.step)
  <2>1. s # None => s \in Session
    BY DEF TypeOK, ServerTypeOK
  <2> QED
    BY <2>1, SessionFields DEF Sound, NotAhead, Steps
<1>3. CASE Same(id)
  BY <1>2, <1>3 DEF Same
<1>4. CASE Made(id)
  <2>1. PICK m \in Queued : t = [page |-> m.page, step |-> m.checkpoint.step,
                                 weights |-> m.checkpoint.weights, device |-> None]
    BY <1>4 DEF Made
  <2>2. m.checkpoint.weights <= m.checkpoint.step
    BY DEF Sound, NotAhead, Messages, Requests
  <2> QED
    BY <2>1, <2>2
<1>5. CASE Begun(id)
  <2>1. s \in Session
    BY <1>2, <1>5 DEF Begun
  <2>2. t = [page |-> s.page, step |-> s.step, weights |-> s.weights,
             device |-> IF s.device = None THEN s.weights ELSE s.device]
    BY <1>5, <2>1, TrainerFields DEF Begun
  <2> QED
    BY <1>2, <1>5, <2>2 DEF Begun
<1>6. ASSUME Further(id) \/ PulledBack(id)
      PROVE  s # None /\ s.device # None
  BY <1>6 DEF Further, PulledBack, Sound
<1>7. CASE Further(id)
  BY <1>2, <1>6, <1>7 DEF Further
<1>8. CASE PulledBack(id)
  BY <1>2, <1>6, <1>8 DEF PulledBack
<1> QED
  BY <1>1, <1>3, <1>4, <1>5, <1>7, <1>8 DEF Changes

\* And so is everything on its way.
LEMMA MessagesSound ==
    ASSUME TypeOK, Sound, Next, NEW x \in Messages'
    PROVE  x.checkpoint.weights <= x.checkpoint.step
<1>1. Accounted(x)
  BY MessagesChange
<1>2. \A c \in Pages : Blank(c).weights <= Blank(c).step /\ local[c].weights <= local[c].step
  BY BlankFields DEF Sound, NotAhead
<1>3. \A m \in Messages : m.page \in Pages /\ m.checkpoint.weights <= m.checkpoint.step
  BY MessageTypes DEF Sound, NotAhead
<1>4. CASE Given(x) \/ Asked(x)
  BY <1>2, <1>3, <1>4 DEF Given, Asked
<1>5. CASE Created(x)
  BY <1>3, <1>5 DEF Created, Messages, Requests
<1>6. CASE Served(x)
  BY <1>6 DEF Served, CheckpointOf, Sound, NotAhead
<1> QED
  BY <1>1, <1>4, <1>5, <1>6 DEF Accounted

\* Types and soundness together are preserved by every step.
LEMMA SoundStep ==
    ASSUME TypeOK, Sound, [Next]_vars
    PROVE  TypeOK' /\ Sound'
<1>1. CASE Next
  <2>1. TypeOK'
    BY <1>1, SessionsChange, MessagesChange, ActorChanges, PagesChange, StreamsChange
    DEF TypeOK, ServerTypeOK, MessagesOK, ActorOK, PagesOK, StreamsOK
  <2>2. \A c \in Pages : local'[c].weights <= local'[c].step
    BY <1>1, PagesChange DEF Sound, NotAhead, Messages
  <2>3. run' # None => sessions'[run'.session] # None /\ sessions'[run'.session].device # None
    BY <1>1, ActorChanges DEF Ready
  <2> QED
    BY <1>1, <2>1, <2>2, <2>3, SessionsSound, MessagesSound DEF Sound, NotAhead
<1>2. CASE UNCHANGED vars
  BY <1>2 DEF vars, serverVars, pageVars, TypeOK, ServerTypeOK, Sound, NotAhead, Messages,
              Requests, Queued
<1> QED
  BY <1>1, <1>2

\* At the beginning nothing runs and nothing is on its way.
LEMMA InitSound == Init => TypeOK /\ Sound
<1> SUFFICES ASSUME Init PROVE TypeOK /\ Sound
  OBVIOUS
<1>1. Requests = {} /\ Messages = {}
  BY DEF Init, ServerInit, Started, Queued, Requests, Messages
<1>2. \A c \in Pages : Blank(c) \in Checkpoint /\ Blank(c).weights <= Blank(c).step
  <2> TAKE c \in Pages
  <2>1. Blank(c) \in Checkpoint /\ Blank(c).weights = 0 /\ Blank(c).step = 0
    BY BlankFields
  <2> QED
    BY <2>1
<1>3. TypeOK
  BY <1>2 DEF Init, ServerInit, Started, TypeOK, ServerTypeOK, Phases, Steps, Ids
<1> QED
  BY <1>1, <1>2, <1>3 DEF Init, ServerInit, Started, Sound, NotAhead, Ids

\* No variable of the pages or the server ever leaves its type, whatever
\* fails and however often; and no copy of the weights is ahead of the step
\* its header claims (gpu_actor.rs, remote-backend.js).
THEOREM RemoteTypeCorrect == Spec => [](TypeOK /\ Sound)
<1>1. TypeOK /\ Sound /\ [Next]_vars => (TypeOK /\ Sound)'
  BY SoundStep
<1> QED
  BY <1>1, InitSound, PTL DEF Spec
----------------------------------------------------------------------------
(* Until the server is restarted: every page keeps its own model.          *)

\* What belongs to a page still does after a step.
Kept(id, c) == id # None => id < nextId' /\ (sessions'[id] # None => sessions'[id].page = c)

\* A session's name is handed out once, and its page never changes.
LEMMA StillBelongs ==
    ASSUME TypeOK, Sound, Next, ~ServerCrash, NEW c \in Pages, NEW id \in Ids \cup {None},
           Belongs(id, c)
    PROVE  Kept(id, c)
<1>1. (nextId' = nextId \/ nextId' = nextId + 1) /\ nextId \in Nat
  BY ActorChanges DEF TypeOK, ServerTypeOK
<1>2. ASSUME id # None, sessions'[id] # None PROVE sessions'[id].page = c
  <2>1. id \in Ids /\ Changes(id) /\ id # nextId
    BY <1>1, <1>2, SessionsChange DEF Belongs, Ids
  <2>2. sessions[id] # None => sessions[id].page = c /\ sessions[id] \in Session
    BY <1>2, <2>1 DEF Belongs, TypeOK, ServerTypeOK
  <2>3. CASE Same(id)
    BY <1>2, <2>2, <2>3 DEF Same
  <2>4. CASE Begun(id)
    BY <2>2, <2>4, TrainerFields DEF Begun
  <2>5. CASE Further(id) \/ PulledBack(id)
    BY <2>2, <2>5 DEF Further, PulledBack, Sound
  <2> QED
    BY <2>1, <2>3, <2>4, <2>5 DEF Changes, Made
<1>3. id # None => id < nextId'
  BY <1>1 DEF Belongs, Ids
<1> QED
  BY <1>2, <1>3 DEF Kept

\* Whatever a step puts on its way belongs to the page it goes to or comes from.
LEMMA MessagesOwned ==
    ASSUME TypeOK, Sound, Owned, Next, ~ServerCrash, NEW x \in Messages'
    PROVE  x.checkpoint.page = x.page /\ Kept(x.session, x.page)
<1>1. Accounted(x)
  BY MessagesChange
<1>2. ASSUME NEW m \in Messages
      PROVE  /\ m.page \in Pages /\ m.checkpoint.page = m.page /\ Blank(m.page).page = m.page
             /\ Belongs(m.session, m.page) /\ Kept(m.session, m.page)
  BY MessageTypes, StillBelongs, BlankFields DEF Owned
<1>3. Queued \subseteq Messages
  BY DEF Messages, Requests
<1>4. CASE Given(x)
  BY <1>2, <1>4 DEF Given
<1>5. CASE Created(x)
  <2>1. nextId < nextId + 1
    BY DEF TypeOK, ServerTypeOK
  <2> QED
    BY <1>2, <1>3, <1>5, <2>1 DEF Created, Kept
<1>6. CASE Served(x)
  <2>1. PICK m \in Queued : x.page = m.page /\ x.session = m.session
    BY <1>6 DEF Served
  <2>2. sessions[x.session].page = x.page
    BY <1>2, <1>3, <1>6, <2>1 DEF Served, Belongs, Ids
  <2> QED
    BY <1>2, <1>3, <1>6, <2>1, <2>2 DEF Served, CheckpointOf
<1>7. CASE Asked(x)
  <2>1. x.checkpoint.page = x.page
    BY <1>7, BlankFields DEF Asked, Owned
  <2>2. CASE x.session = None
    BY <2>1, <2>2 DEF Kept
  <2>3. CASE x.session = session[x.page]
    BY <1>7, <2>1, <2>3, StillBelongs DEF Asked, Owned, TypeOK
  <2>4. CASE streams[x.page] # None /\ x.session = streams[x.page].session
    BY <1>7, <2>1, <2>4, StillBelongs DEF Asked, Owned, TypeOK, ServerTypeOK
  <2>5. CASE \E r \in replies : x.page = r.page /\ x.session = r.session
    BY <1>2, <2>1, <2>5 DEF Messages
  <2> QED
    BY <1>7, <2>1, <2>2, <2>3, <2>4, <2>5 DEF Asked
<1> QED
  BY <1>1, <1>4, <1>5, <1>6, <1>7 DEF Accounted

\* So ownership survives every step but a restart.
LEMMA OwnedStep ==
    ASSUME TypeOK, Sound, Owned, Next, ~ServerCrash
    PROVE  Owned'
<1>1. ASSUME NEW c \in Pages
      PROVE  local'[c].page = c
  <2>1. CASE local'[c] = local[c]
    BY <2>1 DEF Owned
  <2>2. ASSUME NEW r \in replies, r.page = c, local'[c] = r.checkpoint PROVE local'[c].page = c
    BY <2>2 DEF Owned, Messages
  <2> QED
    BY <2>1, <2>2, PagesChange
<1>2. ASSUME NEW m \in Messages PROVE Kept(m.session, m.page)
  BY MessageTypes, StillBelongs DEF Owned
<1>3. ASSUME NEW c \in Pages PROVE Kept(session'[c], c)
  <2>1. Kept(session[c], c) /\ Kept(None, c)
    BY StillBelongs DEF Owned, TypeOK, Kept
  <2> QED
    BY <1>2, <2>1, PagesChange DEF Messages
<1>4. ASSUME NEW c \in Pages, streams'[c] # None PROVE Kept(streams'[c].session, c)
  <2>1. streams[c] # None => Kept(streams[c].session, c)
    BY StillBelongs DEF Owned, TypeOK, ServerTypeOK
  <2> QED
    BY <1>2, <1>4, <2>1, StreamsChange DEF Messages, Requests
<1> QED
  BY <1>1, <1>3, <1>4, MessagesOwned DEF Owned, Belongs, Kept

\* It holds at the beginning, when nothing has been named.
LEMMA InitOwned == Init => Owned
<1> SUFFICES ASSUME Init PROVE Owned
  OBVIOUS
<1>1. Messages = {}
  BY DEF Init, ServerInit, Started, Queued, Requests, Messages
<1> QED
  BY <1>1, BlankFields DEF Init, ServerInit, Owned, Belongs

\* As long as the server is not restarted, and whatever else fails, no page
\* ends up with the model of another (remote-backend.js, handlers/training.rs).
THEOREM PagesKeepTheirModel == Spec /\ [][~ServerCrash]_vars => []OwnModel
<1> DEFINE I == TypeOK /\ Sound /\ Owned
<1>1. Init => I
  BY InitSound, InitOwned
<1>2. I /\ [Next]_vars /\ [~ServerCrash]_vars => I'
  <2> SUFFICES ASSUME I, [Next]_vars, [~ServerCrash]_vars PROVE I'
    OBVIOUS
  <2>1. TypeOK' /\ Sound'
    BY SoundStep
  <2>2. CASE Next /\ ~ServerCrash
    BY <2>1, <2>2, OwnedStep
  <2>3. CASE UNCHANGED vars
    BY <2>1, <2>3 DEF vars, serverVars, pageVars, Owned, Belongs, Messages, Requests, Queued
  <2> QED
    BY <2>2, <2>3
<1>3. I => OwnModel
  BY DEF Owned, OwnModel
<1> QED
  BY <1>1, <1>2, <1>3, PTL DEF Spec

----------------------------------------------------------------------------
(* Until a download fails: checkpoints hold what they claim.               *)

\* The sessions after a step are as trained as they claim.
LEMMA SessionsTrained ==
    ASSUME TypeOK, Sound, Trained, Next, ~DownloadFails, NEW id \in Ids, sessions'[id] # None
    PROVE  /\ sessions'[id].device # None => sessions'[id].device = sessions'[id].step
           /\ run' = None \/ run'.session # id => sessions'[id].weights = sessions'[id].step
<1> DEFINE s == sessions[id]
           t == sessions'[id]
<1>1. Changes(id)
  BY SessionsChange
<1>2. s # None => /\ s \in Session
                 /\ (s.device # None => s.device = s.step)
                 /\ (run = None \/ run.session # id => s.weights = s.step)
  BY DEF TypeOK, ServerTypeOK, Trained
<1>3. CASE Same(id)
  BY <1>2, <1>3 DEF Same
<1>4. CASE Made(id)
  <2>1. PICK m \in Queued : t = [page |-> m.page, step |-> m.checkpoint.step,
                                 weights |-> m.checkpoint.weights, device |-> None]
    BY <1>4 DEF Made
  <2>2. m.checkpoint.weights = m.checkpoint.step
    BY DEF Trained, Messages, Requests
  <2> QED
    BY <2>1, <2>2
<1>5. CASE Begun(id)
  <2>1. s \in Session /\ s.weights = s.step
    BY <1>2, <1>5 DEF Begun
  <2>2. t = [page |-> s.page, step |-> s.step, weights |-> s.weights,
             device |-> IF s.device = None THEN s.weights ELSE s.device]
    BY <1>5, <2>1, TrainerFields DEF Begun
  <2> QED
    BY <1>2, <1>5, <2>1, <2>2 DEF Begun
<1>6. ASSUME Further(id) \/ PulledBack(id)
      PROVE  s # None /\ s.device # None
  BY <1>6 DEF Further, PulledBack, Sound
<1>7. CASE Further(id)
  BY <1>2, <1>6, <1>7 DEF Further
<1>8. CASE PulledBack(id)
  BY <1>2, <1>6, <1>8 DEF PulledBack
<1> QED
  BY <1>1, <1>3, <1>4, <1>5, <1>7, <1>8 DEF Changes

\* And everything on its way.
LEMMA MessagesTrained ==
    ASSUME TypeOK, Trained, Next, NEW x \in Messages'
    PROVE  x.checkpoint.weights = x.checkpoint.step
<1>1. Accounted(x)
  BY MessagesChange
<1>2. \A c \in Pages : Blank(c).weights = Blank(c).step /\ local[c].weights = local[c].step
  BY BlankFields DEF Trained
<1>3. \A m \in Messages : m.page \in Pages /\ m.checkpoint.weights = m.checkpoint.step
  BY MessageTypes DEF Trained
<1>4. CASE Given(x) \/ Asked(x)
  BY <1>2, <1>3, <1>4 DEF Given, Asked
<1>5. CASE Created(x)
  BY <1>3, <1>5 DEF Created, Messages, Requests
<1>6. CASE Served(x)
  BY <1>6 DEF Served, CheckpointOf, Trained
<1> QED
  BY <1>1, <1>4, <1>5, <1>6 DEF Accounted

\* So this survives every step but a failed download.
LEMMA TrainedStep ==
    ASSUME TypeOK, Sound, Trained, Next, ~DownloadFails
    PROVE  Trained'
<1>1. ASSUME NEW c \in Pages PROVE local'[c].weights = local'[c].step
  BY PagesChange DEF Trained, Messages
<1> QED
  BY <1>1, SessionsTrained, MessagesTrained DEF Trained

\* It holds at the beginning.
LEMMA InitTrained == Init => Trained
<1> SUFFICES ASSUME Init PROVE Trained
  OBVIOUS
<1>1. Messages = {}
  BY DEF Init, ServerInit, Started, Queued, Requests, Messages
<1> QED
  BY <1>1, BlankFields DEF Init, ServerInit, Started, Trained

\* As long as every run's weights can be read back from the device, and
\* whatever else fails, the weights of a checkpoint have been through exactly
\* the steps its header claims (gpu_actor.rs: the loop's checkpoint requests
\* are refused, and the run ends by pulling the weights).
THEOREM CheckpointsAreTrue ==
    Spec /\ [][~DownloadFails]_vars => []CheckpointsCarryTheirStep
<1> DEFINE I == TypeOK /\ Sound /\ Trained
<1>1. Init => I
  BY InitSound, InitTrained
<1>2. I /\ [Next]_vars /\ [~DownloadFails]_vars => I'
  <2> SUFFICES ASSUME I, [Next]_vars, [~DownloadFails]_vars PROVE I'
    OBVIOUS
  <2>1. TypeOK' /\ Sound'
    BY SoundStep
  <2>2. CASE Next /\ ~DownloadFails
    BY <2>1, <2>2, TrainedStep
  <2>3. CASE UNCHANGED vars
    BY <2>1, <2>3 DEF vars, serverVars, pageVars, Trained, Messages, Requests, Queued
  <2> QED
    BY <2>2, <2>3
<1>3. I => CheckpointsCarryTheirStep
  BY DEF Trained, Messages, CheckpointsCarryTheirStep
<1> QED
  BY <1>1, <1>2, <1>3, PTL DEF Spec
----------------------------------------------------------------------------
(* As long as nothing fails: one call at a time, about the page's session. *)

OthersSame(c) == \A d \in Pages \ {c} : page'[d] = page[d] /\ session'[d] = session[d]
AllFit == \A m \in Messages : Fits(m)
AllLive == \A m \in Requests : m.live

\* No call of this page that it awaits is among these.
NoneAwaited(S, c) == \A m \in S : m.page = c => m.kind \notin Awaited

\* The call each phase awaits.
LEMMA AwaitsValues ==
    /\ Waiting = {"creating", "starting", "undoing", "connecting", "pulling"}
    /\ Awaits["creating"] = "create" /\ Awaits["starting"] = "start"
    /\ Awaits["undoing"] = "undo" /\ Awaits["connecting"] = "events"
    /\ Awaits["pulling"] = "final"
BY DEF Waiting, Awaits

\* A page that awaits nothing has no call on its way that it would await.
LEMMA Silent ==
    ASSUME AllFit, NEW c, page[c] \notin Waiting
    PROVE  NoneAwaited(Messages, c)
BY DEF AllFit, Fits, NoneAwaited

\* And one whose answer is there has no other.
LEMMA SilentBut ==
    ASSUME AllFit, OneCall, NEW r \in replies, r.kind \in Awaited
    PROVE  /\ NoneAwaited(Requests \cup (replies \ {r}), r.page)
           /\ page[r.page] \in Waiting /\ Awaits[page[r.page]] = r.kind
           /\ r.kind # "create" => r.session = session[r.page]
<1>1. /\ page[r.page] \in Waiting /\ Awaits[page[r.page]] = r.kind
      /\ r.kind # "create" => r.session = session[r.page]
  BY DEF AllFit, Fits, Messages
<1>2. \A m \in Requests \cup (replies \ {r}) : m.page = r.page => m.kind \notin Awaited
  BY DEF OneCall, SameCall
<1> QED
  BY <1>1, <1>2 DEF NoneAwaited

\* What a page does with an answer or of its own, asking for one thing at
\* most, leaves the calls in order.
LEMMA PageKeepsOrder ==
    ASSUME Orderly, NEW c \in Pages, NEW y, y.page = c, y.live = TRUE, OthersSame(c),
           \A m \in Messages : m.page \in Pages,
           wire' = wire \/ wire' = wire \cup {y}, queue' = queue, replies' \subseteq replies,
           y.kind \in Awaited => NoneAwaited(Requests \cup replies', c),
           y.kind = "delete" => \A r \in replies' : r.page = c => r.kind # "create",
           \A m \in Requests \cup replies' : m.page = c => Fits(m)',
           Fits(y)'
    PROVE  (OneCall /\ FreshNames /\ AllFit /\ AllLive)'
<1>1. Requests' \subseteq Requests \cup {y} /\ Messages' \subseteq Requests \cup replies' \cup {y}
  BY DEF Requests, Messages, Queued
<1>2. Queued' = Queued /\ Queued \subseteq Requests /\ wire \subseteq Requests
      /\ Requests \subseteq Messages /\ replies \subseteq Messages
  BY DEF Queued, Requests, Messages
<1>3. OneCall'
  <2>1. \A m \in Requests \cup replies' : ~SameCall(m, y) /\ ~SameCall(y, m)
    BY <1>2 DEF SameCall, NoneAwaited
  <2>2. \A a, b \in wire' : SameCall(a, b) => a = b
    BY <1>2, <2>1 DEF Orderly, OneCall
  <2>3. \A i, j \in DOMAIN queue' : SameCall(queue'[i], queue'[j]) => i = j
    BY DEF Orderly, OneCall
  <2>4. \A a, b \in replies' : SameCall(a, b) => a = b
    BY DEF Orderly, OneCall
  <2>5. \A a \in wire', b \in Queued' : ~SameCall(a, b)
    BY <1>2, <2>1 DEF Orderly, OneCall
  <2>6. \A a \in Requests', b \in replies' : ~SameCall(a, b)
    BY <1>1, <1>2, <2>1 DEF Orderly, OneCall
  <2> QED
    BY <2>2, <2>3, <2>4, <2>5, <2>6 DEF OneCall, SameCall
<1>4. FreshNames'
  BY <1>1, <1>2 DEF Orderly, FreshNames
<1>5. AllFit'
  <2>1. ASSUME NEW m \in Messages', m # y PROVE Fits(m)'
    <3>1. m \in Requests \cup replies' /\ m \in Messages
      BY <1>1, <1>2, <2>1
    <3>2. CASE m.page # c
      BY <3>1, <3>2 DEF Orderly, Fits, OthersSame
    <3> QED
      BY <3>1, <3>2
  <2> QED
    BY <2>1 DEF AllFit
<1>6. AllLive'
  BY <1>1 DEF Orderly, AllLive
<1> QED
  BY <1>3, <1>4, <1>5, <1>6

\* What an answer has in common with its request.
Passes(x, m) ==
    /\ x.page = m.page /\ x.kind = m.kind
    /\ m.kind # "create" => x.session = m.session
    /\ m.kind = "create" /\ x.ok => x.session = nextId

\* A call goes a place further, or is answered, or vanishes; or none does.
Moved(m, x) ==
    \/ /\ wire' = wire /\ Take /\ m = Head(queue)
       /\ replies' = replies \/ replies' = replies \cup {x}
    \/ /\ m \in wire /\ wire' = wire \ {m} /\ queue' = queue
       /\ replies' = replies \/ replies' = replies \cup {x}
    \/ /\ m \in wire /\ wire' = wire \ {m} /\ queue' = Append(queue, m) /\ replies' = replies
Moves ==
    /\ UNCHANGED <<page, session>>
    /\ UNCHANGED <<wire, queue, replies>> \/ \E m, x : Passes(x, m) /\ Moved(m, x)

\* Which leaves at most one of each call as well.
LEMMA MovesOneCall ==
    ASSUME TypeOK, OneCall, NEW m, NEW x, Passes(x, m), Moved(m, x)
    PROVE  OneCall' /\ Requests' \subseteq Requests /\ m \in Requests
           /\ replies' \subseteq replies \cup {x}
<1>1. queue \in Seq(Request) /\ wire \subseteq Request
  BY DEF TypeOK, ServerTypeOK
<1>2. \A a : /\ SameCall(x, a) <=> SameCall(m, a)
             /\ SameCall(a, x) <=> SameCall(a, m)
  BY DEF Passes, SameCall
<1>3. \A a, b : SameCall(a, b) => SameCall(b, a)
  BY DEF SameCall
<1>4. wire \subseteq Requests /\ Queued \subseteq Requests /\ \A i \in DOMAIN queue : queue[i] \in Queued
  BY DEF Requests, Queued
<1>5. CASE wire' = wire /\ Take /\ m = Head(queue)
           /\ (replies' = replies \/ replies' = replies \cup {x})
  <2>1. /\ m \in Queued /\ Queued' \subseteq Queued /\ m = queue[1] /\ 1 \in DOMAIN queue
        /\ \A i \in DOMAIN queue' : i + 1 \in DOMAIN queue /\ queue'[i] = queue[i + 1] /\ i >= 1
        /\ queue' \in Seq(Request)
    BY <1>1, <1>5, Taken
  <2>2. \A i, j \in DOMAIN queue' : SameCall(queue'[i], queue'[j]) => i = j
    BY <2>1 DEF OneCall
  <2>3. \A b \in Queued' : ~SameCall(m, b)
    <3>1. \A i \in DOMAIN queue' : ~SameCall(queue[1], queue'[i])
      BY <2>1 DEF OneCall
    <3> QED
      BY <2>1, <3>1 DEF Queued
  <2>4. \A a \in wire : ~SameCall(m, a)
    BY <1>3, <2>1 DEF OneCall
  <2>5. \A a \in replies : ~SameCall(m, a)
    BY <1>4, <2>1 DEF OneCall
  <2>6. Requests' \subseteq Requests /\ \A a \in Requests' : ~SameCall(m, a)
    BY <1>5, <2>1, <2>3, <2>4 DEF Requests
  <2>7. \A a, b \in replies' : SameCall(a, b) => a = b
    BY <1>2, <1>3, <1>5, <2>5 DEF OneCall
  <2>8. \A a \in Requests', b \in replies' : ~SameCall(a, b)
    BY <1>2, <1>3, <1>5, <2>6 DEF OneCall
  <2>9. \A a, b \in wire' : SameCall(a, b) => a = b
    BY <1>5 DEF OneCall
  <2>10. \A a \in wire', b \in Queued' : ~SameCall(a, b)
    BY <1>5, <2>1 DEF OneCall
  <2> QED
    BY <1>4, <1>5, <2>1, <2>2, <2>6, <2>7, <2>8, <2>9, <2>10 DEF OneCall, SameCall
<1>6. CASE m \in wire /\ wire' = wire \ {m} /\ queue' = queue
           /\ (replies' = replies \/ replies' = replies \cup {x})
  <2>1. Queued' = Queued /\ Requests' \subseteq Requests /\ m \in Requests
    BY <1>6 DEF Requests, Queued
  <2>2. \A a \in replies : ~SameCall(m, a)
    BY <2>1 DEF OneCall
  <2>3. \A a \in Requests' : ~SameCall(m, a)
    BY <1>6, <2>1 DEF OneCall, Requests
  <2>4. \A a, b \in replies' : SameCall(a, b) => a = b
    BY <1>2, <1>3, <1>6, <2>2 DEF OneCall
  <2>5. \A a \in Requests', b \in replies' : ~SameCall(a, b)
    BY <1>2, <1>3, <1>6, <2>1, <2>3 DEF OneCall
  <2>6. \A a, b \in wire' : SameCall(a, b) => a = b
    BY <1>6 DEF OneCall
  <2>7. \A i, j \in DOMAIN queue' : SameCall(queue'[i], queue'[j]) => i = j
    BY <1>6 DEF OneCall
  <2>8. \A a \in wire', b \in Queued' : ~SameCall(a, b)
    BY <1>6, <2>1 DEF OneCall
  <2> QED
    BY <1>6, <2>1, <2>4, <2>5, <2>6, <2>7, <2>8 DEF OneCall, SameCall
<1>7. CASE m \in wire /\ wire' = wire \ {m} /\ queue' = Append(queue, m) /\ replies' = replies
  <2>1. /\ queue' \in Seq(Request) /\ Queued' = Queued \cup {m}
        /\ DOMAIN queue' = DOMAIN queue \cup {Len(queue) + 1}
        /\ \A i \in DOMAIN queue : queue'[i] = queue[i] /\ i # Len(queue) + 1
        /\ queue'[Len(queue) + 1] = m
    BY <1>1, <1>7, Appended
  <2>2. Requests' \subseteq Requests /\ m \in Requests
    BY <1>7, <2>1 DEF Requests
  <2>3. \A i \in DOMAIN queue : ~SameCall(m, queue[i]) /\ ~SameCall(queue[i], m)
    BY <1>3, <1>4, <1>7 DEF OneCall
  <2>4. \A i, j \in DOMAIN queue' : SameCall(queue'[i], queue'[j]) => i = j
    BY <2>1, <2>3 DEF OneCall
  <2>5. \A a \in wire', b \in Queued' : ~SameCall(a, b)
    BY <1>3, <1>7, <2>1 DEF OneCall
  <2>6. \A a \in Requests', b \in replies' : ~SameCall(a, b)
    BY <1>7, <2>2 DEF OneCall
  <2>7. /\ \A a, b \in wire' : SameCall(a, b) => a = b
        /\ \A a, b \in replies' : SameCall(a, b) => a = b
    BY <1>7 DEF OneCall
  <2> QED
    BY <1>7, <2>2, <2>4, <2>5, <2>6, <2>7 DEF OneCall, SameCall
<1> QED
  BY <1>5, <1>6, <1>7 DEF Moved

\* What the network and the server do leaves the calls in order.
LEMMA MovesKeepOrder ==
    ASSUME TypeOK, Owned, Orderly, Moves
    PROVE  (OneCall /\ FreshNames /\ AllFit /\ AllLive)'
<1>1. CASE UNCHANGED <<wire, queue, replies>>
  BY <1>1 DEF Moves, Orderly, OneCall, SameCall, FreshNames, AllFit, AllLive, Fits, Messages,
              Requests, Queued
<1>2. ASSUME NEW m, NEW x, Passes(x, m), Moved(m, x)
      PROVE  (OneCall /\ FreshNames /\ AllFit /\ AllLive)'
  <2>1. /\ OneCall' /\ Requests' \subseteq Requests /\ m \in Requests
        /\ replies' \subseteq replies \cup {x}
    BY <1>2, MovesOneCall DEF Orderly
  <2>2. Messages' \subseteq Messages \cup {x} /\ Requests \subseteq Messages /\ m \in Messages
        /\ replies \subseteq Messages
    BY <2>1 DEF Messages
  <2>3. AllLive'
    BY <2>1 DEF AllLive, Orderly
  <2>4. AllFit'
    <3>1. \A a \in Messages : Fits(a)'
      BY DEF Moves, Orderly, Fits
    <3>2. Fits(x)'
      BY <1>2, <2>2, <3>1 DEF Passes, Fits, Awaited
    <3> QED
      BY <2>2, <3>1, <3>2 DEF AllFit
  <2>5. FreshNames'
    <3>1. \A a \in Messages : a.session # nextId
      <4> TAKE a \in Messages
      <4>1. Belongs(a.session, a.page)
        BY DEF Owned
      <4> QED
        BY <4>1 DEF Belongs, TypeOK, ServerTypeOK
    <3>2. ASSUME NEW r \in replies', NEW a \in Messages', r.kind = "create", r.ok, a.kind = "delete",
                 a.page = r.page
          PROVE  a.session # r.session
      <4>1. CASE a \in Messages /\ r \in replies
        BY <3>2, <4>1 DEF Orderly, FreshNames
      <4>2. CASE r = x
        <5>1. r.session = nextId /\ a # x
          BY <1>2, <3>2, <4>2 DEF Passes
        <5> QED
          BY <2>2, <3>1, <5>1
      <4>3. CASE a = x /\ r \in replies
        BY <1>2, <2>2, <3>2, <4>3 DEF Passes, Orderly, FreshNames
      <4> QED
        BY <2>1, <2>2, <4>1, <4>2, <4>3
    <3> QED
      BY <3>2 DEF FreshNames
  <2> QED
    BY <2>1, <2>3, <2>4, <2>5
<1> QED
  BY <1>1, <1>2 DEF Moves
\* The server's steps and the network move calls on.
LEMMA StepsMove ==
    ASSUME TypeOK, Orderly,
           \/ Work
           \/ TrainStepFailed /\ UNCHANGED pageVars
           \/ \E c \in Pages : Deliver(c)
    PROVE  Moves
<1>1. ASSUME NEW m, NEW ok, NEW id, NEW k, Answer(m, ok, id, k),
             m.kind # "create" \/ ~ok => id = m.session,
             m.kind = "create" /\ ok => id = nextId
      PROVE  \E x : Passes(x, m) /\ (replies' = replies \/ replies' = replies \cup {x})
  <2> DEFINE x == [page |-> m.page, kind |-> m.kind, session |-> id, ok |-> ok, checkpoint |-> k]
  <2>1. Passes(x, m)
    BY <1>1 DEF Passes
  <2>2. replies' = replies \/ replies' = replies \cup {x}
    BY <1>1 DEF Answer
  <2> QED
    BY <2>1, <2>2
<1>2. ASSUME NEW m, replies' = replies \/ Refuse(m)
      PROVE  \E x : Passes(x, m) /\ (replies' = replies \/ replies' = replies \cup {x})
  <2>1. CASE replies' = replies
    <3>1. Passes([page |-> m.page, kind |-> m.kind, session |-> m.session, ok |-> FALSE], m)
      BY DEF Passes
    <3> QED
      BY <2>1, <3>1
  <2>2. CASE Refuse(m)
    BY <1>1, <2>2 DEF Refuse
  <2> QED
    BY <1>2, <2>1, <2>2
<1>3. ASSUME UNCHANGED pageVars, Take,
             \E x : Passes(x, Head(queue)) /\ (replies' = replies \/ replies' = replies \cup {x})
      PROVE  Moves
  BY <1>3 DEF Moves, Moved, pageVars
<1>4. ASSUME UNCHANGED pageVars, UNCHANGED <<queue, replies>> PROVE Moves
  BY <1>4 DEF Moves, pageVars
<1>5. ASSUME CreateSession, UNCHANGED pageVars PROVE Moves
  BY <1>1, <1>2, <1>3, <1>5 DEF CreateSession
<1>6. ASSUME GetCheckpoint, UNCHANGED pageVars PROVE Moves
  BY <1>1, <1>2, <1>3, <1>6 DEF GetCheckpoint, GiveCheckpoint
<1>7. ASSUME DeleteSession \/ StartTraining, UNCHANGED pageVars PROVE Moves
  BY <1>1, <1>2, <1>3, <1>7 DEF DeleteSession, StartTraining
<1>8. ASSUME Drain \/ StopOutsideRun, UNCHANGED pageVars PROVE Moves
  BY <1>2, <1>3, <1>8 DEF Drain, Reject, StopOutsideRun
<1>9. ASSUME NEW c \in Pages, Deliver(c) PROVE Moves
  <2>1. PICK m \in wire : /\ wire' = wire \ {m} /\ UNCHANGED <<page, session>>
                          /\ Subscribe(m) \/ Enqueue(m)
    BY <1>9 DEF Deliver
  <2>2. CASE Enqueue(m)
    <3>1. Passes(m, m) \/ m.kind = "create"
      BY DEF Passes
    <3>2. \E x : Passes(x, m)
      BY <1>2, <2>2 DEF Enqueue
    <3> QED
      BY <2>1, <2>2, <3>2 DEF Moves, Moved, Enqueue
  <2>3. CASE Subscribe(m)
    <3>1. \E x : Passes(x, m) /\ (replies' = replies \/ replies' = replies \cup {x})
      BY <1>1, <2>3 DEF Subscribe
    <3> QED
      BY <2>1, <2>3, <3>1 DEF Moves, Moved, Subscribe
  <2> QED
    BY <2>1, <2>2, <2>3
<1> QED
  BY <1>4, <1>5, <1>6, <1>7, <1>8, <1>9
  DEF Work, Actor, TrainStepFailed, RunFinished, TrainStep

\* The buttons do.
LEMMA ButtonsKeepOrder ==
    ASSUME TypeOK, Orderly, NEW c \in Pages, Press(c)
    PROVE  (OneCall /\ FreshNames /\ AllFit /\ AllLive)'
<1>1. \A m \in Messages : m.page \in Pages
  BY MessageTypes
<1>2. replies \subseteq Messages /\ Requests \cup replies = Messages
  BY DEF Messages
<1>3. page \in [Pages -> Phases] /\ session \in [Pages -> Ids \cup {None}]
  BY DEF TypeOK
<1>4. ASSUME NEW steps \in Limits, PressTrain(c, steps)
      PROVE  (OneCall /\ FreshNames /\ AllFit /\ AllLive)'
  <2>0. PICK y : y = Ask(c, "create", None)
    OBVIOUS
  <2>1. y.page = c /\ y.live = TRUE /\ y.kind = "create"
    BY <2>0 DEF Ask
  <2>2. /\ wire' = wire \cup {y} /\ queue' = queue /\ replies' = replies /\ session' = session
        /\ page[c] = "idle" /\ page' = [page EXCEPT ![c] = "creating"]
    BY <2>0, <1>4 DEF PressTrain, Send, GoTo, serverVars
  <2>3. NoneAwaited(Messages, c)
    BY <2>2, Silent, AwaitsValues DEF Orderly, AllFit
  <2>4. \A m \in Messages : m.page = c => Fits(m)'
    BY <1>3, <2>2, <2>3 DEF Fits, NoneAwaited, Orderly
  <2>5. Fits(y)'
    BY <1>3, <2>1, <2>2, AwaitsValues DEF Fits, Awaited
  <2>6. OthersSame(c)
    BY <1>3, <2>2 DEF OthersSame
  <2> QED
    BY <1>1, <1>2, <2>1, <2>2, <2>3, <2>4, <2>5, <2>6, PageKeepsOrder
<1>5. CASE PressStop(c)
  <2>0. PICK y : y = Ask(c, "stop", session[c])
    OBVIOUS
  <2>1. y.page = c /\ y.live = TRUE /\ y.kind = "stop"
    BY <2>0 DEF Ask
  <2>2. /\ wire' = wire \/ wire' = wire \cup {y}
        /\ queue' = queue /\ replies' = replies /\ session' = session /\ page' = page
    BY <2>0, <1>5 DEF PressStop, Send, serverVars
  <2>3. \A m \in Messages : m.page = c => Fits(m)'
    BY <2>2 DEF Fits, Orderly
  <2>4. Fits(y)' /\ y.kind \notin Awaited
    BY <2>1 DEF Fits, Awaited
  <2>5. OthersSame(c)
    BY <2>2 DEF OthersSame
  <2> QED
    BY <1>1, <1>2, <2>1, <2>2, <2>3, <2>4, <2>5, PageKeepsOrder
<1> QED
  BY <1>4, <1>5 DEF Press

\* And what a page does with an event.
LEMMA EventsKeepOrder ==
    ASSUME TypeOK, Orderly, NEW c \in Pages, Listen(c)
    PROVE  (OneCall /\ FreshNames /\ AllFit /\ AllLive)'
<1>1. \A m \in Messages : m.page \in Pages
  BY MessageTypes
<1>2. replies \subseteq Messages /\ Requests \cup replies = Messages
  BY DEF Messages
<1>3. page \in [Pages -> Phases] /\ session \in [Pages -> Ids \cup {None}]
  BY DEF TypeOK
<1>4. page[c] = "streaming" /\ queue' = queue /\ replies' = replies /\ session' = session
      /\ streams[c].session = session[c]
  BY <1>3 DEF Listen, HandleProgress, HandleStopped, NextEvent, Orderly, StreamFits
<1>5. NoneAwaited(Messages, c)
  BY <1>4, Silent, AwaitsValues DEF Orderly, AllFit
<1>6. CASE HandleProgress(c)
  <2>0. PICK y : y = Ask(c, "pull", streams[c].session)
    OBVIOUS
  <2>1. y.page = c /\ y.live = TRUE /\ y.kind = "pull"
    BY <2>0 DEF Ask
  <2>2. (wire' = wire \/ wire' = wire \cup {y}) /\ page' = page
    BY <2>0, <1>6 DEF HandleProgress, Send
  <2>3. \A m \in Messages : m.page = c => Fits(m)'
    BY <1>4, <2>2 DEF Fits, Orderly
  <2>4. Fits(y)' /\ y.kind \notin Awaited
    BY <2>1 DEF Fits, Awaited
  <2>5. OthersSame(c)
    BY <1>4, <2>2 DEF OthersSame
  <2> QED
    BY <1>1, <1>2, <1>4, <2>1, <2>2, <2>3, <2>4, <2>5, PageKeepsOrder
<1>7. CASE HandleStopped(c)
  <2>0. PICK y : y = Ask(c, "final", streams[c].session)
    OBVIOUS
  <2>1. y.page = c /\ y.live = TRUE /\ y.kind = "final" /\ y.session = session[c]
    BY <2>0, <1>4 DEF Ask
  <2>2. wire' = wire \cup {y} /\ page' = [page EXCEPT ![c] = "pulling"]
    BY <2>0, <1>7 DEF HandleStopped, Send, GoTo
  <2>3. \A m \in Messages : m.page = c => Fits(m)'
    BY <1>3, <1>4, <1>5, <2>2 DEF Fits, Orderly, NoneAwaited
  <2>4. Fits(y)'
    BY <1>3, <1>4, <2>1, <2>2, AwaitsValues DEF Fits, Awaited
  <2>5. OthersSame(c)
    BY <1>3, <1>4, <2>2 DEF OthersSame
  <2> QED
    BY <1>1, <1>2, <1>4, <1>5, <2>1, <2>2, <2>3, <2>4, <2>5, PageKeepsOrder
<1> QED
  BY <1>6, <1>7 DEF Listen

\* And with an answer.
LEMMA AnswersKeepOrder ==
    ASSUME TypeOK, Orderly, NEW r \in replies,
           \/ CreateReplied(r) \/ StartReplied(r) \/ UndoReplied(r) \/ EventsReplied(r)
           \/ PullReplied(r) \/ FinalReplied(r) \/ DeleteReplied(r)
    PROVE  (OneCall /\ FreshNames /\ AllFit /\ AllLive)'
<1> DEFINE c == r.page
<1>1. \A m \in Messages : m.page \in Pages
  BY MessageTypes
<1>2. /\ Requests \subseteq Messages /\ replies \subseteq Messages /\ c \in Pages
      /\ AllFit /\ OneCall
  BY <1>1 DEF Messages, Orderly, AllFit
<1>3. page \in [Pages -> Phases] /\ session \in [Pages -> Ids \cup {None}]
  BY DEF TypeOK
<1>4. replies' = replies \ {r} /\ queue' = queue
  BY DEF CreateReplied, StartReplied, UndoReplied, EventsReplied, PullReplied, FinalReplied,
         DeleteReplied, Receive
<1>5. r.kind \in Awaited =>
        /\ NoneAwaited(Requests \cup replies', c)
        /\ page[c] \in Waiting /\ Awaits[page[c]] = r.kind
        /\ r.kind # "create" => r.session = session[c]
  BY <1>2, <1>4, SilentBut
<1>6. Requests \cup replies' \subseteq Messages
  BY <1>2, <1>4
<1> HIDE DEF c
<1>7. ASSUME NEW y, y.page = c, y.live = TRUE, OthersSame(c),
             wire' = wire \/ wire' = wire \cup {y},
             y.kind \in Awaited => NoneAwaited(Requests \cup replies', c),
             y.kind = "delete" => NoneAwaited(Requests \cup replies', c),
             \A m \in Requests \cup replies' : m.page = c => Fits(m)',
             Fits(y)'
      PROVE  (OneCall /\ FreshNames /\ AllFit /\ AllLive)'
  <2>1. y.kind = "delete" => \A q \in replies' : q.page = c => q.kind # "create"
    BY <1>7 DEF NoneAwaited, Awaited
  <2>2. replies' \subseteq replies
    BY <1>4
  <2> QED
    BY <1>1, <1>2, <1>4, <1>7, <2>1, <2>2, PageKeepsOrder
<1>8. ASSUME wire' = wire, OthersSame(c),
             \A m \in Requests \cup replies' : m.page = c => Fits(m)'
      PROVE  (OneCall /\ FreshNames /\ AllFit /\ AllLive)'
  <2> DEFINE y == [page |-> c, live |-> TRUE, kind |-> "stop"]
  <2>1. y.page = c /\ y.live = TRUE /\ y.kind = "stop"
    OBVIOUS
  <2> HIDE DEF y
  <2>2. Fits(y)' /\ y.kind \notin Awaited
    BY <2>1 DEF Fits, Awaited
  <2> QED
    BY <1>7, <1>8, <2>1, <2>2
<1>9. CASE CreateReplied(r)
  <2>1. page[c] = "creating" /\ NoneAwaited(Requests \cup replies', c) /\ r.kind = "create"
    BY <1>5, <1>9, AwaitsValues DEF CreateReplied, Awaited
  <2>2. CASE r.ok
    <3>0. PICK y : y = Ask(c, "start", r.session)
      OBVIOUS
    <3>1. y.page = c /\ y.live = TRUE /\ y.kind = "start" /\ y.session = r.session
      BY <3>0 DEF Ask
    <3>2. wire' = wire \cup {y} /\ page' = [page EXCEPT ![c] = "starting"]
          /\ session' = [session EXCEPT ![c] = r.session]
      BY <3>0, <1>9, <2>2 DEF CreateReplied, Send, GoTo, c
    <3>3. \A m \in Requests \cup replies' : m.page = c /\ m.kind = "delete" => m.session # r.session
      BY <1>6, <2>1, <2>2 DEF Orderly, FreshNames, c
    <3>4. \A m \in Requests \cup replies' : m.page = c => Fits(m)'
      BY <1>2, <1>3, <2>1, <3>2, <3>3 DEF Fits, NoneAwaited
    <3>5. Fits(y)'
      BY <1>2, <1>3, <3>1, <3>2, AwaitsValues DEF Fits, Awaited
    <3>6. OthersSame(c)
      BY <1>3, <3>2 DEF OthersSame
    <3> QED
      BY <1>7, <2>1, <3>1, <3>2, <3>4, <3>5, <3>6
  <2>3. CASE ~r.ok
    <3>1. wire' = wire /\ page' = [page EXCEPT ![c] = "idle"] /\ session' = session
      BY <1>9, <2>3 DEF CreateReplied, GoTo, c
    <3>2. \A m \in Requests \cup replies' : m.page = c => Fits(m)'
      BY <1>2, <1>3, <2>1, <3>1 DEF Fits, NoneAwaited
    <3>3. OthersSame(c)
      BY <1>3, <3>1 DEF OthersSame
    <3> QED
      BY <1>8, <3>1, <3>2, <3>3
  <2> QED
    BY <2>2, <2>3
<1>10. CASE StartReplied(r)
  <2>1. page[c] = "starting" /\ NoneAwaited(Requests \cup replies', c)
    BY <1>5, <1>10, AwaitsValues DEF StartReplied, Awaited
  <2>0. PICK y : y = Ask(c, IF r.ok THEN "events" ELSE "undo", session[c])
    OBVIOUS
  <2>2. y.page = c /\ y.live = TRUE /\ y.kind = (IF r.ok THEN "events" ELSE "undo")
        /\ y.session = session[c]
    BY <2>0 DEF Ask
  <2>3. wire' = wire \cup {y} /\ page' = [page EXCEPT ![c] = IF r.ok THEN "connecting" ELSE "undoing"]
        /\ session' = session
    BY <2>0, <1>10 DEF StartReplied, Send, GoTo, c
  <2>4. \A m \in Requests \cup replies' : m.page = c => Fits(m)'
    BY <1>2, <1>3, <1>6, <2>1, <2>3 DEF Fits, NoneAwaited, AllFit
  <2>5. Fits(y)'
    BY <1>2, <1>3, <2>2, <2>3, AwaitsValues DEF Fits, Awaited
  <2>6. OthersSame(c)
    BY <1>3, <2>3 DEF OthersSame
  <2> QED
    BY <1>7, <2>1, <2>2, <2>3, <2>4, <2>5, <2>6
<1>11. CASE UndoReplied(r)
  <2>1. NoneAwaited(Requests \cup replies', c)
    BY <1>5, <1>11 DEF UndoReplied, Awaited
  <2>2. wire' = wire /\ page' = [page EXCEPT ![c] = "idle"] /\ session' = [session EXCEPT ![c] = None]
    BY <1>11 DEF UndoReplied, GoTo, c
  <2>3. \A m \in Requests \cup replies' : m.page = c => Fits(m)'
    BY <1>2, <1>3, <2>1, <2>2 DEF Fits, NoneAwaited
  <2>4. OthersSame(c)
    BY <1>3, <2>2 DEF OthersSame
  <2> QED
    BY <1>8, <2>2, <2>3, <2>4
<1>12. CASE EventsReplied(r)
  <2>1. page[c] = "connecting" /\ NoneAwaited(Requests \cup replies', c)
    BY <1>5, <1>12, AwaitsValues DEF EventsReplied, Awaited
  <2>2. wire' = wire /\ page' = [page EXCEPT ![c] = IF r.ok THEN "streaming" ELSE "deaf"]
        /\ session' = session
    BY <1>12 DEF EventsReplied, GoTo, c
  <2>3. \A m \in Requests \cup replies' : m.page = c => Fits(m)'
    BY <1>2, <1>3, <1>6, <2>1, <2>2 DEF Fits, NoneAwaited, AllFit
  <2>4. OthersSame(c)
    BY <1>3, <2>2 DEF OthersSame
  <2> QED
    BY <1>8, <2>2, <2>3, <2>4
<1>13. CASE PullReplied(r)
  <2>1. wire' = wire /\ page' = page /\ session' = session
    BY <1>13 DEF PullReplied
  <2>2. \A m \in Requests \cup replies' : m.page = c => Fits(m)'
    BY <1>2, <1>6, <2>1 DEF Fits, AllFit
  <2>3. OthersSame(c)
    BY <2>1 DEF OthersSame
  <2> QED
    BY <1>8, <2>1, <2>2, <2>3
<1>14. CASE FinalReplied(r)
  <2>1. NoneAwaited(Requests \cup replies', c)
    BY <1>5, <1>14 DEF FinalReplied, Awaited
  <2>0. PICK y : y = Ask(c, "delete", r.session)
    OBVIOUS
  <2>2. y.page = c /\ y.live = TRUE /\ y.kind = "delete"
    BY <2>0 DEF Ask
  <2>3. wire' = wire \cup {y} /\ page' = [page EXCEPT ![c] = "idle"] /\ session' = session
    BY <2>0, <1>14 DEF FinalReplied, Send, GoTo, c
  <2>4. \A m \in Requests \cup replies' : m.page = c => Fits(m)'
    BY <1>2, <1>3, <2>1, <2>3 DEF Fits, NoneAwaited
  <2>5. Fits(y)'
    BY <1>2, <1>3, <2>2, <2>3 DEF Fits, Awaited
  <2>6. OthersSame(c)
    BY <1>3, <2>3 DEF OthersSame
  <2> QED
    BY <1>7, <2>1, <2>2, <2>3, <2>4, <2>5, <2>6
<1>15. CASE DeleteReplied(r)
  <2>1. wire' = wire /\ page' = page
        /\ session' = [session EXCEPT ![c] = IF @ = r.session THEN None ELSE @]
    BY <1>15 DEF DeleteReplied, c
  <2>2. session[c] = r.session => page[c] \in {"idle", "creating"}
    BY <1>2, <1>15 DEF DeleteReplied, AllFit, Fits, c
  <2>3. \A m \in Requests \cup replies' : m.page = c => Fits(m)'
    <3>1. CASE session[c] = r.session
      <4>1. page[c] \in {"idle", "creating"}
        BY <2>2, <3>1
      <4>2. \A m \in Requests \cup replies' : m.page = c => m.kind \notin Awaited \ {"create"}
        BY <1>2, <1>6, <4>1, AwaitsValues DEF AllFit, Fits, Awaited
      <4> QED
        BY <1>2, <1>3, <1>6, <2>1, <4>1, <4>2 DEF Fits, AllFit
    <3>2. CASE session[c] # r.session
      <4>1. session' = session
        BY <1>2, <1>3, <2>1, <3>2
      <4> QED
        BY <1>2, <1>6, <2>1, <4>1 DEF Fits, AllFit
    <3> QED
      BY <3>1, <3>2
  <2>4. OthersSame(c)
    BY <1>3, <2>1 DEF OthersSame
  <2> QED
    BY <1>8, <2>1, <2>3, <2>4
<1> QED
  BY <1>9, <1>10, <1>11, <1>12, <1>13, <1>14, <1>15
----------------------------------------------------------------------------
(* As long as nothing fails: streams, and the page a run belongs to.       *)

\* A stream goes on being that of the page's session.
LEMMA StreamsStillFit ==
    ASSUME TypeOK, Sound, Orderly, Next, ~Faulty
    PROVE  StreamFits'
<1>1. page \in [Pages -> Phases] /\ session \in [Pages -> Ids \cup {None}]
      /\ streams \in [Pages -> [session : Ids, unread : Seq(Event)] \cup {None}]
  BY DEF TypeOK, ServerTypeOK
<1>2. ASSUME NEW d \in Pages, page'[d] = page[d], session'[d] = session[d], streams'[d] # None
      PROVE  /\ page'[d] \in {"connecting", "streaming", "deaf", "pulling"}
             /\ streams'[d].session = session'[d]
  <2>1. CASE streams[d] # None /\ streams'[d].session = streams[d].session
    BY <1>2, <2>1 DEF Orderly, StreamFits
  <2>2. ASSUME NEW m \in wire, m.page = d, m.kind = "events", streams'[d].session = m.session
        PROVE  page[d] = "connecting" /\ m.session = session[d]
    <3>1. Fits(m)
      BY DEF Orderly, Messages, Requests
    <3> QED
      BY <1>1, <2>2, <3>1, AwaitsValues DEF Fits, Awaited
  <2> QED
    BY <1>2, <2>1, <2>2, StreamsChange
<1>3. ASSUME UNCHANGED <<page, session>> PROVE StreamFits'
  BY <1>2, <1>3 DEF StreamFits
<1>4. ASSUME NEW c \in Pages, OthersSame(c),
             streams'[c] # None =>
                 /\ page'[c] \in {"connecting", "streaming", "deaf", "pulling"}
                 /\ streams'[c].session = session'[c]
      PROVE  StreamFits'
  BY <1>2, <1>4 DEF StreamFits, OthersSame
<1>5. ASSUME NEW c \in Pages, Press(c) PROVE StreamFits'
  <2>1. ASSUME NEW steps \in Limits, PressTrain(c, steps) PROVE StreamFits'
    <3>1. OthersSame(c)
      BY <1>1, <2>1 DEF PressTrain, GoTo, OthersSame
    <3>2. streams'[c] = None
      BY <2>1 DEF PressTrain, serverVars, Orderly, StreamFits
    <3> QED
      BY <1>4, <3>1, <3>2
  <2> QED
    BY <1>3, <1>5, <2>1 DEF Press, PressStop
<1>6. ASSUME NEW c \in Pages, Listen(c) PROVE StreamFits'
  <2>1. CASE HandleStopped(c)
    <3>1. OthersSame(c) /\ page'[c] = "pulling" /\ session'[c] = session[c]
      BY <1>1, <2>1 DEF HandleStopped, GoTo, OthersSame
    <3>2. streams[c] # None /\ streams'[c].session = streams[c].session
      <4>1. streams[c] # None /\ streams' = [streams EXCEPT ![c].unread = Tail(@)]
        BY <2>1 DEF HandleStopped, NextEvent
      <4> QED
        BY <1>1, <4>1
    <3> QED
      BY <1>4, <3>1, <3>2 DEF Orderly, StreamFits
  <2> QED
    BY <1>3, <1>6, <2>1 DEF Listen, HandleProgress
<1>7. ASSUME NEW c \in Pages, Replied(c) PROVE StreamFits'
  <2>1. PICK r \in replies :
           /\ r.page = c
           /\ \/ CreateReplied(r) \/ StartReplied(r) \/ UndoReplied(r) \/ EventsReplied(r)
              \/ PullReplied(r) \/ FinalReplied(r) \/ DeleteReplied(r)
    BY <1>7 DEF Replied
  <2>2. Fits(r)
    BY DEF Orderly, Messages
  <2>3. OthersSame(c)
    BY <1>1, <2>1 DEF CreateReplied, StartReplied, UndoReplied, EventsReplied, PullReplied,
                      FinalReplied, DeleteReplied, GoTo, OthersSame
  <2>4. CASE CreateReplied(r) \/ StartReplied(r) \/ UndoReplied(r)
    <3>1. page[c] \in {"creating", "starting", "undoing"} /\ streams' = streams
      BY <2>1, <2>2, <2>4, AwaitsValues
      DEF CreateReplied, StartReplied, UndoReplied, Receive, Fits, Awaited
    <3>2. streams'[c] = None
      BY <3>1 DEF Orderly, StreamFits
    <3> QED
      BY <1>4, <2>3, <3>2
  <2>5. CASE EventsReplied(r)
    <3>1. page'[c] \in {"streaming", "deaf"} /\ session' = session /\ streams' = streams
      BY <1>1, <2>1, <2>5 DEF EventsReplied, Receive, GoTo
    <3> QED
      BY <1>4, <2>3, <3>1 DEF Orderly, StreamFits
  <2>6. CASE FinalReplied(r)
    <3>1. streams'[c] = None
      BY <1>1, <2>1, <2>6 DEF FinalReplied
    <3> QED
      BY <1>4, <2>3, <3>1
  <2>7. CASE DeleteReplied(r)
    <3>1. page' = page /\ streams' = streams
          /\ session' = [session EXCEPT ![c] = IF @ = r.session THEN None ELSE @]
      BY <2>1, <2>7 DEF DeleteReplied, Receive
    <3>2. CASE session[c] = r.session
      <4>1. page[c] \in {"idle", "creating"}
        BY <2>1, <2>2, <2>7, <3>2 DEF DeleteReplied, Fits
      <4>2. streams'[c] = None
        BY <3>1, <4>1 DEF Orderly, StreamFits
      <4> QED
        BY <1>4, <2>3, <4>2
    <3>3. CASE session[c] # r.session
      <4>1. session'[c] = session[c]
        BY <1>1, <3>1, <3>3
      <4> QED
        BY <1>4, <2>3, <3>1, <4>1 DEF Orderly, StreamFits
    <3> QED
      BY <3>2, <3>3
  <2>8. CASE PullReplied(r)
    BY <1>3, <2>8 DEF PullReplied
  <2> QED
    BY <2>1, <2>4, <2>5, <2>6, <2>7, <2>8
<1> QED
  BY <1>3, <1>5, <1>6, <1>7 DEF Next, Work, Deliver, pageVars

\* What leaves a run's page its page.
LEMMA RunsOn ==
    ASSUME NEW c \in Pages, RunsFor(c), run' = run, session'[c] = session[c],
           page'[c] \in {"starting", "connecting", "streaming", "deaf"},
           \A m \in Requests' : m.page = c /\ m.kind = "start" => m \in Requests,
           \A r \in replies' : r.page = c /\ r.kind = "start" => r \in replies,
           streams'[c] # None =>
              \A i \in DOMAIN streams'[c].unread :
                 \/ streams'[c].unread[i].type # "stopped"
                 \/ /\ streams[c] # None
                    /\ \E j \in DOMAIN streams[c].unread : streams'[c].unread[i] = streams[c].unread[j]
    PROVE  RunsFor(c)'
<1>1. streams'[c] # None =>
         \A i \in DOMAIN streams'[c].unread : streams'[c].unread[i].type # "stopped"
  BY DEF RunsFor
<1>2. \A m \in Requests' : m.page = c => m.kind # "start"
  BY DEF RunsFor
<1>3. \A r \in replies' : r.page = c /\ r.kind = "start" => r.ok
  BY DEF RunsFor
<1> QED
  BY <1>1, <1>2, <1>3 DEF RunsFor

\* A run begins for the page that asked for it, which waits to be told.
LEMMA StartForPage ==
    ASSUME TypeOK, Orderly, StartTraining, UNCHANGED pageVars, run' # None
    PROVE  \E c \in Pages : RunsFor(c)'
<1> DEFINE m == Head(queue)
           c == m.page
<1>1. /\ m \in Request /\ m \in Queued /\ m = queue[1] /\ 1 \in DOMAIN queue
      /\ Queued' \subseteq Queued /\ queue' \in Seq(Request)
      /\ \A i \in DOMAIN queue' : i + 1 \in DOMAIN queue /\ queue'[i] = queue[i + 1] /\ i >= 1
  BY Taken DEF StartTraining, TypeOK, ServerTypeOK
<1>2. m \in Requests /\ m \in Messages /\ m.kind = "start" /\ c \in Pages
  BY <1>1, RequestFields DEF StartTraining, Requests, Messages
<1>3. page[c] = "starting" /\ m.session = session[c] /\ m.live
  <2>1. Fits(m) /\ m.live
    BY <1>2 DEF Orderly
  <2>2. page[c] \in Phases
    BY <1>2 DEF TypeOK
  <2> QED
    BY <1>2, <2>1, <2>2, AwaitsValues DEF Fits, Awaited
<1>4. run' = [session |-> m.session, limit |-> m.limit] /\ Answer(m, TRUE, m.session, Blank(m.page))
  BY <1>3 DEF StartTraining
<1>5. \A a \in Requests' : a.page = c => a.kind # "start"
  <2>1. \A a \in wire : a.page = c => a.kind # "start"
    BY <1>1, <1>2 DEF Orderly, OneCall, SameCall, Awaited
  <2>2. \A i \in DOMAIN queue' : queue'[i].page = c => queue'[i].kind # "start"
    <3> TAKE i \in DOMAIN queue'
    <3>1. i + 1 \in DOMAIN queue /\ queue'[i] = queue[i + 1] /\ i + 1 # 1
      BY <1>1
    <3> QED
      BY <1>1, <1>2, <3>1 DEF Orderly, OneCall, SameCall, Awaited
  <2> QED
    BY <2>1, <2>2 DEF Requests, Queued, pageVars
<1>6. \A r \in replies' : r.page = c /\ r.kind = "start" => r.ok
  <2>1. \A r \in replies : ~(r.page = c /\ r.kind = "start")
    BY <1>2 DEF Orderly, OneCall, SameCall, Awaited
  <2> QED
    BY <1>4, <2>1 DEF Answer
<1>7. streams'[c] = None
  BY <1>2, <1>3 DEF StartTraining, Orderly, StreamFits
<1>8. session'[c] = run'.session /\ page'[c] = "starting"
  BY <1>3, <1>4 DEF pageVars
<1> HIDE DEF c, m
<1>9. PICK d \in Pages : d = c
  BY <1>2
<1>10. RunsFor(d)'
  BY <1>5, <1>6, <1>7, <1>8, <1>9 DEF RunsFor
<1> QED
  BY <1>10

\* And it stays that page's run until it ends.
LEMMA RunStaysWithPage ==
    ASSUME TypeOK, Sound, Orderly, Next, ~Faulty, run' # None
    PROVE  \E c \in Pages : RunsFor(c)'
<1> DEFINE Goal == \E c \in Pages : RunsFor(c)'
<1>1. CASE run = None
  BY <1>1, StartForPage
  DEF Next, Work, Actor, CreateSession, GetCheckpoint, DeleteSession, StopOutsideRun, RunFinished,
      Drain, TrainStep, TrainStepFailed, Press, PressTrain, PressStop, Replied, CreateReplied,
      StartReplied, UndoReplied, EventsReplied, PullReplied, FinalReplied, DeleteReplied, Receive,
      Listen, HandleProgress, HandleStopped, NextEvent, Deliver, Subscribe, Enqueue, serverVars
<1>2. CASE run # None
  <2>1. PICK c \in Pages : RunsFor(c)
    BY <1>2 DEF Orderly
  <2>2. page \in [Pages -> Phases] /\ session \in [Pages -> Ids \cup {None}]
        /\ streams \in [Pages -> [session : Ids, unread : Seq(Event)] \cup {None}]
        /\ queue \in Seq(Request)
    BY DEF TypeOK, ServerTypeOK
  <2>3. page[c] \in {"starting", "connecting", "streaming", "deaf"}
    BY <2>1 DEF RunsFor
  <2>4. ASSUME run' = run, session'[c] = session[c], page'[c] = page[c],
               Requests' \subseteq Requests, streams' = streams,
               \A r \in replies' : r.page = c /\ r.kind = "start" => r \in replies
        PROVE  RunsFor(c)'
    BY <2>1, <2>3, <2>4, RunsOn
  <2>5. ASSUME run' = run, session'[c] = session[c], streams'[c] = streams[c],
               page'[c] \in {"starting", "connecting", "streaming", "deaf"}, NEW y,
               y.page # c \/ y.kind # "start",
               wire' = wire \/ wire' = wire \cup {y}, queue' = queue, replies' \subseteq replies
        PROVE  RunsFor(c)'
    <3>1. Requests' \subseteq Requests \cup {y}
      BY <2>5 DEF Requests, Queued
    <3> QED
      BY <2>1, <2>5, <3>1, RunsOn
  <2>6. CASE Work \/ (TrainStepFailed /\ UNCHANGED pageVars)
    <3>1. CASE Drain /\ run' = run /\ streams' = streams /\ UNCHANGED pageVars
      <4>1. Requests' \subseteq Requests /\ Head(queue) \in Requests
        BY <2>2, <3>1, Taken DEF Drain, Requests, pageVars
      <4>2. \A r \in replies' : r \in replies \/ (r.page = Head(queue).page /\ r.kind = Head(queue).kind)
        BY <3>1 DEF Drain, Reject, Refuse, Answer
      <4>3. ~(Head(queue).page = c /\ Head(queue).kind = "start")
        BY <2>1, <4>1 DEF RunsFor
      <4> QED
        BY <2>4, <3>1, <4>1, <4>2, <4>3 DEF pageVars
    <3>2. ASSUME NEW reported \in BOOLEAN, TrainStep(reported), UNCHANGED pageVars PROVE RunsFor(c)'
      <4>1. Requests' = Requests /\ replies' = replies /\ run' = run
        BY <3>2 DEF TrainStep, Requests, Queued, pageVars
      <4>2. CASE streams' = streams
        BY <2>4, <3>2, <4>1, <4>2 DEF pageVars
      <4>3. CASE Broadcast(run.session, [type |-> "progress", step |-> sessions[run.session].step + 1])
        <5> DEFINE e == [type |-> "progress", step |-> sessions[run.session].step + 1]
        <5>1. run.session \in Ids /\ sessions[run.session].step + 1 \in Steps
          BY <3>2, StepChanges DEF Further
        <5>2. e \in Event /\ e.type # "stopped"
          BY <5>1 DEF Event
        <5> HIDE DEF e
        <5>3. streams'[c] # None =>
                 /\ streams[c] # None
                 /\ \A i \in DOMAIN streams'[c].unread :
                       \/ streams'[c].unread[i] = e
                       \/ \E j \in DOMAIN streams[c].unread : streams'[c].unread[i] = streams[c].unread[j]
          BY <4>3, <5>1, <5>2, Told DEF e
        <5> QED
          BY <2>1, <2>3, <3>2, <4>1, <5>2, <5>3, RunsOn DEF pageVars
      <4> QED
        BY <3>2, <4>2, <4>3 DEF TrainStep
    <3> QED
      BY <1>2, <2>6, <3>1, <3>2
      DEF Work, Actor, CreateSession, GetCheckpoint, DeleteSession, StopOutsideRun, StartTraining,
          RunFinished, EndRun, Drain, TrainStepFailed
  <2>7. ASSUME NEW d \in Pages, Press(d) PROVE RunsFor(c)'
    <3>1. ASSUME NEW steps \in Limits, PressTrain(d, steps) PROVE RunsFor(c)'
      <4>0. PICK y : y = Ask(d, "create", None)
        OBVIOUS
      <4>1. y.kind # "start"
        BY <4>0 DEF Ask
      <4> QED
        BY <2>2, <2>3, <2>5, <3>1, <4>0, <4>1 DEF PressTrain, GoTo, Send, serverVars
    <3>2. CASE PressStop(d)
      <4>0. PICK y : y = Ask(d, "stop", session[d])
        OBVIOUS
      <4>1. y.kind # "start"
        BY <4>0 DEF Ask
      <4> QED
        BY <2>3, <2>5, <3>2, <4>0, <4>1 DEF PressStop, Send, serverVars
    <3> QED
      BY <2>7, <3>1, <3>2 DEF Press
  <2>8. ASSUME NEW d \in Pages, Listen(d) PROVE RunsFor(c)'
    <3>1. /\ streams' = [streams EXCEPT ![d].unread = Tail(@)] /\ run' = run /\ queue' = queue
          /\ replies' = replies /\ session' = session
          /\ streams[d] # None /\ streams[d].unread # <<>>
      BY <2>8 DEF Listen, HandleProgress, HandleStopped, NextEvent
    <3>2. PICK y : y.kind # "start" /\ (wire' = wire \/ wire' = wire \cup {y})
      <4>1. \A kind \in {"pull", "final"} : Ask(d, kind, streams[d].session).kind # "start"
        BY DEF Ask
      <4> QED
        BY <2>8, <4>1 DEF Listen, HandleProgress, HandleStopped, Send
    <3>3. streams'[c] # None =>
             /\ streams[c] # None
             /\ \A i \in DOMAIN streams'[c].unread :
                   \E j \in DOMAIN streams[c].unread : streams'[c].unread[i] = streams[c].unread[j]
      <4>1. CASE d # c
        BY <2>2, <3>1, <4>1
      <4>2. CASE d = c
        <5>1. streams[c].unread \in Seq(Event) /\ streams[c] \in [session : Ids, unread : Seq(Event)]
          BY <2>2, <3>1, <4>2
        <5>2. streams'[c].unread = Tail(streams[c].unread)
          BY <2>2, <3>1, <4>2
        <5>3. \A i \in DOMAIN Tail(streams[c].unread) :
                 /\ i + 1 \in DOMAIN streams[c].unread
                 /\ Tail(streams[c].unread)[i] = streams[c].unread[i + 1]
          BY <3>1, <4>2, <5>1
        <5> QED
          BY <3>1, <4>2, <5>2, <5>3
      <4> QED
        BY <4>1, <4>2
    <3>4. page'[c] = page[c]
      <4>1. CASE HandleProgress(d)
        BY <4>1 DEF HandleProgress
      <4>2. CASE HandleStopped(d)
        <5>1. d # c
          <6>1. CASE d = c
            <7>1. streams[c].unread \in Seq(Event) /\ streams[c].unread # <<>>
              BY <2>2, <3>1, <6>1
            <7>2. 1 \in DOMAIN streams[c].unread /\ Head(streams[c].unread) = streams[c].unread[1]
              BY <7>1
            <7> QED
              BY <2>1, <3>1, <4>2, <6>1, <7>2 DEF HandleStopped, NextEvent, RunsFor
          <6> QED
            BY <6>1
        <5> QED
          BY <2>2, <4>2, <5>1 DEF HandleStopped, GoTo
      <4> QED
        BY <2>8, <4>1, <4>2 DEF Listen
    <3>5. Requests' \subseteq Requests \cup {y}
      BY <3>1, <3>2 DEF Requests, Queued
    <3>6. /\ session'[c] = session[c]
          /\ page'[c] \in {"starting", "connecting", "streaming", "deaf"}
          /\ \A m \in Requests' : m.page = c /\ m.kind = "start" => m \in Requests
          /\ \A r \in replies' : r.page = c /\ r.kind = "start" => r \in replies
      BY <2>3, <3>1, <3>2, <3>4, <3>5
    <3>7. streams'[c] # None =>
             \A i \in DOMAIN streams'[c].unread :
                /\ streams[c] # None
                /\ \E j \in DOMAIN streams[c].unread : streams'[c].unread[i] = streams[c].unread[j]
      BY <3>3
    <3> QED
      BY <2>1, <3>1, <3>6, <3>7, RunsOn
  <2>9. ASSUME NEW d \in Pages, Deliver(d) PROVE RunsFor(c)'
    <3>1. PICK m \in wire : /\ wire' = wire \ {m} /\ UNCHANGED <<page, session>>
                            /\ Subscribe(m) \/ Enqueue(m)
      BY <2>9 DEF Deliver
    <3>2. CASE Enqueue(m)
      <4>1. Queued' = Queued \cup {m}
        BY <2>2, <3>1, <3>2, Appended DEF Enqueue, TypeOK
      <4>2. Requests' \subseteq Requests
        BY <3>1, <4>1 DEF Requests
      <4> QED
        BY <2>4, <3>1, <3>2, <4>2 DEF Enqueue
    <3>3. CASE Subscribe(m)
      <4>1. Requests' \subseteq Requests /\ run' = run
            /\ \A r \in replies' : r \in replies \/ r.kind = "events"
        BY <3>1, <3>3 DEF Subscribe, Answer, Requests, Queued
      <4>2. streams'[c] = streams[c] \/ streams'[c] = [session |-> m.session, unread |-> <<>>]
        BY <2>2, <3>3 DEF Subscribe
      <4>3. streams'[c] # None => \A i \in DOMAIN streams'[c].unread :
               streams[c] # None
               /\ \E j \in DOMAIN streams[c].unread : streams'[c].unread[i] = streams[c].unread[j]
        BY <4>2
      <4> QED
        BY <2>1, <2>3, <3>1, <4>1, <4>3, RunsOn
    <3> QED
      BY <3>1, <3>2, <3>3
  <2>10. ASSUME NEW d \in Pages, Replied(d) PROVE RunsFor(c)'
    <3>1. PICK r \in replies :
             /\ r.page = d
             /\ \/ CreateReplied(r) \/ StartReplied(r) \/ UndoReplied(r) \/ EventsReplied(r)
                \/ PullReplied(r) \/ FinalReplied(r) \/ DeleteReplied(r)
      BY <2>10 DEF Replied
    <3>2. run' = run /\ queue' = queue /\ replies' \subseteq replies
      BY <3>1 DEF CreateReplied, StartReplied, UndoReplied, EventsReplied, PullReplied,
                  FinalReplied, DeleteReplied, Receive
    <3>3. \E y : (wire' = wire \/ wire' = wire \cup {y}) /\ (y.page # c \/ y.kind # "start")
      <4>1. CASE CreateReplied(r)
        <5>1. d # c
          BY <2>3, <3>1, <4>1, AwaitsValues DEF CreateReplied, Orderly, Fits, Messages, Awaited
        <5>2. Ask(d, "start", r.session).page # c
          BY <5>1 DEF Ask
        <5> QED
          BY <3>1, <4>1, <5>2 DEF CreateReplied, Send
      <4>2. CASE StartReplied(r)
        <5>1. Ask(d, IF r.ok THEN "events" ELSE "undo", session[d]).kind # "start"
          BY DEF Ask
        <5> QED
          BY <3>1, <4>2, <5>1 DEF StartReplied, Send
      <4>3. CASE FinalReplied(r)
        <5>1. Ask(d, "delete", r.session).kind # "start"
          BY DEF Ask
        <5> QED
          BY <3>1, <4>3, <5>1 DEF FinalReplied, Send
      <4>4. CASE wire' = wire
        <5>1. \E y : y.kind # "start"
          <6>1. [kind |-> "stop"].kind # "start"
            OBVIOUS
          <6> QED
            BY <6>1
        <5> QED
          BY <4>4, <5>1
      <4> QED
        BY <3>1, <4>1, <4>2, <4>3, <4>4 DEF UndoReplied, EventsReplied, PullReplied, DeleteReplied
    <3>4. CASE d # c
      <4>1. page'[c] = page[c] /\ session'[c] = session[c] /\ streams'[c] = streams[c]
        BY <2>2, <3>1, <3>4
        DEF CreateReplied, StartReplied, UndoReplied, EventsReplied, PullReplied, FinalReplied,
            DeleteReplied, Receive, GoTo
      <4> QED
        BY <2>3, <2>5, <3>2, <3>3, <4>1
    <3>5. CASE d = c
      <4>1. Fits(r)
        BY DEF Orderly, Messages
      <4>2. ~CreateReplied(r) /\ ~UndoReplied(r) /\ ~FinalReplied(r)
        BY <2>3, <3>1, <3>5, <4>1, AwaitsValues
        DEF CreateReplied, UndoReplied, FinalReplied, Fits, Awaited
      <4>3. CASE StartReplied(r)
        <5>1. r.ok
          BY <2>1, <3>1, <3>5, <4>3 DEF RunsFor, StartReplied
        <5>2. page'[c] = "connecting" /\ session' = session /\ streams' = streams
          BY <2>2, <3>1, <3>5, <4>3, <5>1 DEF StartReplied, GoTo, Receive
        <5> QED
          BY <2>5, <3>2, <3>3, <5>2
      <4>4. CASE EventsReplied(r)
        <5>1. page'[c] \in {"streaming", "deaf"} /\ session' = session /\ streams' = streams
          BY <2>2, <3>1, <3>5, <4>4 DEF EventsReplied, GoTo, Receive
        <5> QED
          BY <2>5, <3>2, <3>3, <5>1
      <4>5. CASE PullReplied(r)
        BY <2>3, <2>5, <3>2, <3>3, <4>5 DEF PullReplied, Receive
      <4>6. CASE DeleteReplied(r)
        <5>1. session[c] # r.session
          BY <2>3, <3>1, <3>5, <4>1, <4>6 DEF DeleteReplied, Fits
        <5>2. session'[c] = session[c] /\ page' = page /\ streams' = streams
          BY <2>2, <3>1, <3>5, <4>6, <5>1 DEF DeleteReplied, Receive
        <5> QED
          BY <2>3, <2>5, <3>2, <3>3, <5>2
      <4> QED
        BY <3>1, <4>2, <4>3, <4>4, <4>5, <4>6
    <3> QED
      BY <3>4, <3>5
  <2> QED
    BY <2>6, <2>7, <2>8, <2>9, <2>10 DEF Next
<1> QED
  BY <1>1, <1>2
----------------------------------------------------------------------------
(* During the first run: sessions are deleted.                             *)

\* A session that is there was there before, or has just been made.
LEMMA AliveWas ==
    ASSUME TypeOK, Sound, Next, NEW id \in Ids, sessions'[id] # None
    PROVE  sessions[id] # None \/ Made(id)
BY SessionsChange DEF Changes, Same, Begun, Further, PulledBack, Sound

\* A name that has been given up is not used again.
LEMMA GoneForGood ==
    ASSUME TypeOK, Sound, Owned, Next, NEW m \in Messages, m.session \in Ids,
           sessions[m.session] = None
    PROVE  sessions'[m.session] = None
<1>1. m.session < nextId /\ m.session # nextId
  <2>1. Belongs(m.session, m.page)
    BY DEF Owned
  <2> QED
    BY <2>1 DEF Belongs, Ids, TypeOK, ServerTypeOK
<1> QED
  BY <1>1, AliveWas DEF Made

\* Before Train is pressed there is nothing to do.
LEMMA OnlyTrain ==
    ASSUME TypeOK, Orderly, Tidy, Next, ~Faulty, presses = 0
    PROVE  /\ \E c \in Pages, steps \in Limits : PressTrain(c, steps)
           /\ run = None
<1>1. Messages = {} /\ \A c \in Pages : page[c] = "idle"
  BY DEF Tidy
<1>2. wire = {} /\ replies = {} /\ Queued = {}
  BY <1>1 DEF Messages, Requests
<1>3. queue = <<>>
  <2>1. queue \in Seq(Request) /\ \A i \in DOMAIN queue : FALSE
    BY <1>2 DEF Queued, TypeOK, ServerTypeOK
  <2>2. Len(queue) \in Nat /\ DOMAIN queue = 1 .. Len(queue)
    BY <2>1
  <2>3. Len(queue) = 0
    BY <2>1, <2>2
  <2> QED
    BY <2>1, <2>3
<1>4. run = None
  BY <1>1 DEF Orderly, RunsFor
<1> QED
  BY <1>1, <1>2, <1>3, <1>4
  DEF Next, Work, Actor, CreateSession, GetCheckpoint, DeleteSession, StopOutsideRun, StartTraining,
      Take, RunFinished, Drain, TrainStep, TrainStepFailed, Press, PressStop, SaysTraining, Replied,
      Listen, HandleProgress, HandleStopped, NextEvent, Deliver

\* The first press finds the server empty.
LEMMA TidyTrain ==
    ASSUME TypeOK, Orderly, Tidy, presses = 0, NEW c \in Pages, NEW steps \in Limits,
           PressTrain(c, steps)
    PROVE  Tidy'
<1>1. Messages = {} /\ Requests = {} /\ replies = {} /\ \A d \in Pages : page[d] = "idle"
  BY DEF Tidy, Messages
<1>2. PICK y : y = Ask(c, "create", None)
  OBVIOUS
<1>3. y.kind = "create"
  BY <1>2 DEF Ask
<1>4. /\ wire' = wire \cup {y} /\ queue' = queue /\ replies' = replies /\ sessions' = sessions
      /\ page' = [page EXCEPT ![c] = "creating"] /\ presses' = presses + 1
  BY <1>2 DEF PressTrain, Send, GoTo, serverVars
<1>5. Messages' = {y} /\ replies' = {}
  BY <1>1, <1>4 DEF Messages, Requests, Queued
<1>6. \A id \in Ids : sessions[id] = None
  BY <1>1 DEF Tidy, Held, Uses
<1> QED
  BY <1>1, <1>3, <1>4, <1>5, <1>6 DEF Tidy, TypeOK

\* What a step must do to keep the server tidy.
LEMMA TidyStill ==
    ASSUME TypeOK, Sound, Owned, Tidy, Next, presses' = 1,
           \A id \in Ids : sessions'[id] # None => Held(id)',
           \A r \in replies' \ replies : r.kind \in {"delete", "undo"} /\ r.session \in Ids
               => sessions'[r.session] = None,
           \A c \in Pages : page'[c] # "idle" => page[c] # "idle",
           \A m \in Messages' : m.kind = "delete" =>
               \/ \E a \in Messages : a.kind = "delete"
               \/ \A c \in Pages : page'[c] = "idle"
    PROVE  Tidy'
<1>1. \A r \in replies' : r.kind \in {"delete", "undo"} /\ r.session \in Ids
          => sessions'[r.session] = None
  BY GoneForGood DEF Tidy, Messages
<1>2. \A c, d \in Pages : page'[c] # "idle" /\ page'[d] # "idle" => c = d
  BY DEF Tidy
<1>3. \A m \in Messages' : m.kind = "delete" => \A c \in Pages : page'[c] = "idle"
  BY DEF Tidy
<1> QED
  BY <1>1, <1>2, <1>3 DEF Tidy

\* The server makes a session for a page that will hear of it, and during a
\* run it has no deletion to refuse.
LEMMA TidyServer ==
    ASSUME TypeOK, Sound, Owned, Orderly, Tidy, Next, presses' = 1,
           \/ Work
           \/ TrainStepFailed /\ UNCHANGED pageVars
           \/ \E c \in Pages : Deliver(c)
    PROVE  Tidy'
<1>1. UNCHANGED <<page, session>> /\ queue \in Seq(Request)
  BY DEF Work, Deliver, pageVars, TypeOK, ServerTypeOK
<1>2. ASSUME NEW id \in Ids, Held(id), replies \subseteq replies',
             \A m \in Requests : m.kind \in {"delete", "undo"} /\ m.session = id => m \in Requests'
      PROVE  Held(id)'
  BY <1>1, <1>2 DEF Held
<1>3. ASSUME replies \subseteq replies',
             \A m \in Requests : m.kind \in {"delete", "undo"} =>
                m \in Requests' \/ (m.session \in Ids => sessions'[m.session] = None),
             \A id \in Ids : ~Made(id) \/ Held(id)',
             \A r \in replies' \ replies : r.kind \in {"delete", "undo"} /\ r.session \in Ids
                => sessions'[r.session] = None,
             \A m \in Messages' : m.kind = "delete" => \E a \in Messages : a.kind = "delete"
      PROVE  Tidy'
  <2>1. ASSUME NEW id \in Ids, sessions'[id] # None PROVE Held(id)'
    <3>1. CASE sessions[id] # None
      <4>1. Held(id)
        BY <3>1 DEF Tidy
      <4> QED
        BY <1>2, <1>3, <2>1, <4>1
    <3> QED
      BY <1>3, <2>1, <3>1, AliveWas
  <2> QED
    BY <1>1, <1>3, <2>1, TidyStill
<1>4. ASSUME wire' = wire, Take, NEW x, x.kind = Head(queue).kind,
             replies' = replies \/ replies' = replies \cup {x},
             Head(queue).kind \in {"delete", "undo"} =>
                /\ x.session = Head(queue).session
                /\ Head(queue).session \in Ids => sessions'[Head(queue).session] = None,
             \A id \in Ids : ~Made(id) \/ Held(id)'
      PROVE  Tidy'
  <2>1. /\ Head(queue) \in Queued /\ Queued' \subseteq Queued /\ Queued \subseteq Queued' \cup {Head(queue)}
    <3>1. /\ Head(queue) \in Queued /\ Queued' \subseteq Queued /\ Head(queue) = queue[1]
      BY <1>1, <1>4, Taken
    <3>2. \A i \in DOMAIN queue : i = 1 \/ (i - 1 \in DOMAIN Tail(queue) /\ queue[i] = Tail(queue)[i - 1])
      BY <1>1, <1>4 DEF Take
    <3>3. ASSUME NEW i \in DOMAIN queue PROVE queue[i] \in Queued' \cup {Head(queue)}
      <4>1. CASE i = 1
        BY <3>1, <4>1
      <4>2. CASE i - 1 \in DOMAIN queue' /\ queue[i] = queue'[i - 1]
        BY <4>2 DEF Queued
      <4> QED
        BY <1>4, <3>2, <4>1, <4>2 DEF Take
    <3> QED
      BY <3>1, <3>3 DEF Queued
  <2>2. Requests \subseteq Requests' \cup {Head(queue)} /\ Requests' \subseteq Requests
        /\ Head(queue) \in Requests
    BY <1>4, <2>1 DEF Requests
  <2>3. \A m \in Messages' : m.kind = "delete" => \E a \in Messages : a.kind = "delete"
    BY <1>4, <2>2 DEF Messages
  <2> QED
    BY <1>3, <1>4, <2>2, <2>3
<1>5. ASSUME UNCHANGED <<wire, queue, replies>>, nextId' = nextId PROVE Tidy'
  <2>1. Requests' = Requests /\ Messages' = Messages /\ nextId \in Nat
    BY <1>5 DEF Requests, Messages, Queued, TypeOK, ServerTypeOK
  <2> QED
    BY <1>3, <1>5, <2>1 DEF Made
<1>6. nextId' = nextId => \A id \in Ids : ~Made(id)
  BY DEF Made, TypeOK, ServerTypeOK
<1>7. CASE CreateSession /\ UNCHANGED pageVars
  <2> DEFINE m == Head(queue)
  <2>1. m \in Requests /\ m.kind = "create" /\ m.live
    BY <1>1, <1>7, Taken DEF CreateSession, Orderly, Requests
  <2>2. CASE nextId' = nextId + 1 /\ Answer(m, TRUE, nextId, m.checkpoint)
    <3> DEFINE x == [page |-> m.page, kind |-> m.kind, session |-> nextId, ok |-> TRUE,
                     checkpoint |-> m.checkpoint]
    <3>0. PICK z : z = x
      OBVIOUS
    <3>1. replies' = replies \cup {z} /\ z.kind = "create" /\ z.ok /\ z.session = nextId
      BY <2>1, <2>2, <3>0 DEF Answer
    <3>2. \A id \in Ids : ~Made(id) \/ Held(id)'
      BY <3>1 DEF Made, Held
    <3> QED
      BY <1>4, <1>7, <2>1, <3>1, <3>2 DEF CreateSession, pageVars
  <2>3. CASE Refuse(m) /\ nextId' = nextId
    <3>0. PICK z : z = Refusal(m)
      OBVIOUS
    <3>1. z.kind = m.kind /\ replies' = replies \cup {z}
      BY <2>1, <2>3, <3>0 DEF Refusal, Refuse, Answer
    <3> QED
      BY <1>4, <1>6, <1>7, <2>1, <2>3, <3>1 DEF CreateSession, pageVars
  <2> QED
    BY <1>7, <2>2, <2>3 DEF CreateSession
<1>8. ASSUME UNCHANGED pageVars, Take, nextId' = nextId, NEW ok, NEW id, NEW k,
             Answer(Head(queue), ok, id, k),
             Head(queue).kind \in {"delete", "undo"} =>
                /\ id = Head(queue).session
                /\ Head(queue).session \in Ids => sessions'[Head(queue).session] = None
      PROVE  Tidy'
  <2>0. PICK z : z = [page |-> Head(queue).page, kind |-> Head(queue).kind, session |-> id,
                      ok |-> ok, checkpoint |-> k]
    OBVIOUS
  <2>1. z.kind = Head(queue).kind /\ z.session = id
        /\ (replies' = replies \/ replies' = replies \cup {z})
    BY <1>8, <2>0 DEF Answer
  <2> QED
    BY <1>4, <1>6, <1>8, <2>1 DEF pageVars
<1>9. ASSUME UNCHANGED pageVars, Take, nextId' = nextId, replies' = replies,
             Head(queue).kind \notin {"delete", "undo"}
      PROVE  Tidy'
  <2>0. PICK z : z = Head(queue)
    OBVIOUS
  <2> QED
    BY <1>4, <1>6, <1>9, <2>0 DEF pageVars
<1>10. CASE GetCheckpoint /\ UNCHANGED pageVars
  BY <1>8, <1>10 DEF GetCheckpoint, GiveCheckpoint, Refuse
<1>11. CASE DeleteSession /\ UNCHANGED pageVars
  <2>1. Head(queue).session \in Ids => sessions'[Head(queue).session] = None
    BY <1>11 DEF DeleteSession
  <2> QED
    BY <1>8, <1>11, <2>1 DEF DeleteSession
<1>12. CASE (StopOutsideRun \/ StartTraining) /\ UNCHANGED pageVars
  BY <1>8, <1>9, <1>12 DEF StopOutsideRun, StartTraining, Refuse
<1>13. CASE Drain /\ UNCHANGED pageVars
  <2>1. Head(queue) \in Requests /\ Head(queue) \in Messages
    BY <1>1, <1>13, Taken DEF Drain, Requests, Messages
  <2>2. PICK c \in Pages : RunsFor(c)
    BY <1>13 DEF Drain, Orderly
  <2>3. page[c] # "idle" /\ page[c] # "undoing"
    BY <2>2 DEF RunsFor
  <2>4. Head(queue).kind # "delete"
    BY <2>1, <2>3 DEF Tidy
  <2>5. Head(queue).kind # "undo"
    <3>1. Head(queue).page \in Pages /\ Fits(Head(queue)) /\ page[Head(queue).page] \in Phases
      BY <2>1, MessageTypes DEF Orderly, TypeOK
    <3>2. Head(queue).kind = "undo" => page[Head(queue).page] = "undoing"
      BY <3>1, AwaitsValues DEF Fits, Awaited
    <3> QED
      BY <2>3, <3>1, <3>2 DEF Tidy
  <2> QED
    BY <1>8, <1>9, <1>13, <2>4, <2>5 DEF Drain, Reject, Refuse
<1>14. ASSUME NEW c \in Pages, Deliver(c) PROVE Tidy'
  <2>1. PICK m \in wire : wire' = wire \ {m} /\ (Subscribe(m) \/ Enqueue(m))
    BY <1>14 DEF Deliver
  <2>2. CASE Enqueue(m)
    <3>1. Queued' = Queued \cup {m} /\ replies' = replies /\ nextId' = nextId
      BY <1>1, <2>1, <2>2, Appended DEF Enqueue, TypeOK
    <3>2. Requests' = Requests /\ Messages' = Messages
      BY <2>1, <3>1 DEF Requests, Messages
    <3> QED
      BY <1>3, <1>6, <3>1, <3>2
  <2>3. CASE Subscribe(m)
    <3>1. m.kind = "events" /\ queue' = queue /\ nextId' = nextId /\ replies \subseteq replies'
          /\ \A r \in replies' \ replies : r.kind = "events"
      BY <2>3 DEF Subscribe, Answer
    <3>2. Requests' \subseteq Requests /\ Requests \subseteq Requests' \cup {m}
      BY <2>1, <3>1 DEF Requests, Queued
    <3>3. \A a \in Messages' : a.kind = "delete" => a \in Messages
      BY <3>1, <3>2 DEF Messages
    <3> QED
      BY <1>3, <1>6, <3>1, <3>2, <3>3
  <2> QED
    BY <2>1, <2>2, <2>3
<1> QED
  BY <1>5, <1>7, <1>10, <1>11, <1>12, <1>13, <1>14
  DEF Work, Actor, RunFinished, TrainStep, TrainStepFailed, pageVars

\* A page sees to the deletion of its session before it forgets it.
LEMMA TidyPages ==
    ASSUME TypeOK, Sound, Owned, Orderly, Tidy, Next, presses' = 1, presses = 1, NEW c \in Pages,
           PressStop(c) \/ Replied(c) \/ Listen(c)
    PROVE  Tidy'
<1>1. page \in [Pages -> Phases] /\ session \in [Pages -> Ids \cup {None}]
  BY DEF TypeOK
<1>2. sessions' = sessions /\ queue' = queue /\ replies' \subseteq replies /\ Queued' = Queued
  BY DEF PressStop, Replied, CreateReplied, StartReplied, UndoReplied, EventsReplied, PullReplied,
         FinalReplied, DeleteReplied, Receive, Listen, HandleProgress, HandleStopped, NextEvent,
         serverVars, Queued
<1>3. ASSUME NEW y, wire' = wire \/ wire' = wire \cup {y},
             y.kind = "delete" => \A d \in Pages : page'[d] = "idle",
             \A d \in Pages : page'[d] # "idle" => page[d] # "idle",
             \A id \in Ids : sessions[id] # None /\ Held(id) => Held(id)'
      PROVE  Tidy'
  <2>1. Requests' \subseteq Requests \cup {y} /\ Messages' \subseteq Messages \cup {y}
    BY <1>2, <1>3 DEF Requests, Messages
  <2>2. \A id \in Ids : sessions'[id] # None => Held(id)'
    BY <1>2, <1>3 DEF Tidy
  <2>3. \A m \in Messages' : m.kind = "delete" =>
           (\E a \in Messages : a.kind = "delete") \/ \A d \in Pages : page'[d] = "idle"
    BY <1>3, <2>1
  <2> QED
    BY <1>2, <1>3, <2>2, <2>3, TidyStill
<1>4. ASSUME wire \subseteq wire', NEW id \in Ids, Held(id),
             \A r \in replies : r.kind = "create" /\ r.ok => r \in replies',
             \A d \in Pages : page[d] \in Uses => page'[d] \in Uses /\ session'[d] = session[d]
      PROVE  Held(id)'
  <2>1. Requests \subseteq Requests'
    BY <1>2, <1>4 DEF Requests
  <2> QED
    BY <1>4, <2>1 DEF Held
<1>5. CASE PressStop(c)
  <2>0. PICK y : y = Ask(c, "stop", session[c])
    OBVIOUS
  <2>1. y.kind # "delete" /\ (wire' = wire \/ wire' = wire \cup {y})
    BY <1>5, <2>0 DEF PressStop, Ask, Send
  <2>2. replies' = replies /\ page' = page /\ session' = session
    BY <1>5 DEF PressStop, serverVars
  <2> QED
    BY <1>3, <1>4, <2>1, <2>2
<1>6. CASE Listen(c)
  <2>1. PICK y : y.kind # "delete" /\ (wire' = wire \/ wire' = wire \cup {y})
    <3>1. \A kind \in {"pull", "final"} : Ask(c, kind, streams[c].session).kind # "delete"
      BY DEF Ask
    <3> QED
      BY <1>6, <3>1 DEF Listen, HandleProgress, HandleStopped, Send
  <2>2. /\ replies' = replies /\ session' = session
        /\ page[c] = "streaming" /\ (page' = page \/ page' = [page EXCEPT ![c] = "pulling"])
    BY <1>6 DEF Listen, HandleProgress, HandleStopped, NextEvent, GoTo
  <2>3. \A d \in Pages : /\ page[d] \in Uses => page'[d] \in Uses
                         /\ page'[d] # "idle" => page[d] # "idle"
    BY <1>1, <2>2 DEF Uses
  <2> QED
    BY <1>3, <1>4, <2>1, <2>2, <2>3
<1>7. CASE Replied(c)
  <2>1. PICK r \in replies :
           /\ r.page = c
           /\ \/ CreateReplied(r) \/ StartReplied(r) \/ UndoReplied(r) \/ EventsReplied(r)
              \/ PullReplied(r) \/ FinalReplied(r) \/ DeleteReplied(r)
    BY <1>7 DEF Replied
  <2>2. Fits(r) /\ r \in Messages /\ page[c] \in Phases
    BY <1>1 DEF Orderly, Messages
  <2>3. replies' = replies \ {r}
    BY <2>1 DEF CreateReplied, StartReplied, UndoReplied, EventsReplied, PullReplied, FinalReplied,
                DeleteReplied, Receive
  <2>4. PICK z : z.kind = "stop"
    <3>1. [kind |-> "stop"].kind = "stop"
      OBVIOUS
    <3> QED
      BY <3>1
  <2>5. CASE CreateReplied(r)
    <3>1. page[c] = "creating"
      BY <2>1, <2>2, <2>5, AwaitsValues DEF CreateReplied, Fits, Awaited
    <3>2. CASE r.ok
      <4>0. PICK y : y = Ask(c, "start", r.session)
        OBVIOUS
      <4>1. /\ y.kind # "delete" /\ wire' = wire \cup {y}
            /\ page' = [page EXCEPT ![c] = "starting"] /\ session' = [session EXCEPT ![c] = r.session]
        BY <2>1, <2>5, <3>2, <4>0 DEF CreateReplied, Send, GoTo, Ask
      <4>2. \A d \in Pages : page'[d] # "idle" => page[d] # "idle"
        BY <1>1, <3>1, <4>1
      <4>3. ASSUME NEW id \in Ids, Held(id) PROVE Held(id)'
        <5>1. CASE id = r.session
          <6>1. page'[c] = "starting" /\ session'[c] = id
            BY <1>1, <4>1, <5>1
          <6> QED
            BY <6>1 DEF Held, Uses
        <5>2. CASE id # r.session
          <6>1. \A d \in Pages : page[d] \in Uses => page'[d] = page[d] /\ session'[d] = session[d]
            BY <1>1, <3>1, <4>1 DEF Uses
          <6>2. Requests \subseteq Requests'
            BY <1>2, <4>1 DEF Requests
          <6> QED
            BY <2>3, <4>3, <5>2, <6>1, <6>2 DEF Held
        <5> QED
          BY <5>1, <5>2
      <4> QED
        BY <1>3, <4>1, <4>2, <4>3
    <3>3. CASE ~r.ok
      <4>1. wire' = wire /\ page' = [page EXCEPT ![c] = "idle"] /\ session' = session
        BY <2>1, <2>5, <3>3 DEF CreateReplied, GoTo
      <4>2. \A d \in Pages : /\ page'[d] # "idle" => page[d] # "idle"
                             /\ page[d] \in Uses => page'[d] \in Uses
        BY <1>1, <3>1, <4>1 DEF Uses
      <4> QED
        BY <1>3, <1>4, <2>3, <2>4, <3>3, <4>1, <4>2
    <3> QED
      BY <3>2, <3>3
  <2>6. CASE StartReplied(r)
    <3>1. page[c] = "starting"
      BY <2>1, <2>2, <2>6, AwaitsValues DEF StartReplied, Fits, Awaited
    <3>0. PICK y : y = Ask(c, IF r.ok THEN "events" ELSE "undo", session[c])
      OBVIOUS
    <3>2. /\ y.kind # "delete" /\ wire' = wire \cup {y} /\ session' = session
          /\ page' = [page EXCEPT ![c] = IF r.ok THEN "connecting" ELSE "undoing"]
      BY <2>1, <2>6, <3>0 DEF StartReplied, Send, GoTo, Ask
    <3>3. \A d \in Pages : /\ page'[d] # "idle" => page[d] # "idle"
                           /\ page[d] \in Uses => page'[d] \in Uses
      BY <1>1, <3>1, <3>2 DEF Uses
    <3> QED
      BY <1>3, <1>4, <2>3, <2>6, <3>2, <3>3 DEF StartReplied
  <2>7. CASE UndoReplied(r)
    <3>1. r.session = session[c] /\ r.kind = "undo"
      BY <2>1, <2>2, <2>7 DEF UndoReplied, Fits, Awaited
    <3>2. /\ wire' = wire /\ session' = [session EXCEPT ![c] = None]
          /\ page' = [page EXCEPT ![c] = "idle"]
      BY <2>1, <2>7 DEF UndoReplied, GoTo
    <3>3. \A d \in Pages : page'[d] # "idle" => page[d] # "idle"
      BY <1>1, <3>2
    <3>4. ASSUME NEW id \in Ids, sessions[id] # None, Held(id) PROVE Held(id)'
      <4>1. id # session[c]
        BY <3>1, <3>4 DEF Tidy
      <4>2. Requests' = Requests
        BY <1>2, <3>2 DEF Requests
      <4>3. \A d \in Pages : d # c => page'[d] = page[d] /\ session'[d] = session[d]
        BY <1>1, <3>2
      <4> QED
        BY <2>3, <3>1, <3>4, <4>1, <4>2, <4>3 DEF Held
    <3> QED
      BY <1>3, <2>4, <3>2, <3>3, <3>4
  <2>8. CASE EventsReplied(r)
    <3>1. page[c] = "connecting"
      BY <2>1, <2>2, <2>8, AwaitsValues DEF EventsReplied, Fits, Awaited
    <3>2. /\ wire' = wire /\ session' = session
          /\ page' = [page EXCEPT ![c] = IF r.ok THEN "streaming" ELSE "deaf"]
      BY <2>1, <2>8 DEF EventsReplied, GoTo
    <3>3. \A d \in Pages : /\ page'[d] # "idle" => page[d] # "idle"
                           /\ page[d] \in Uses => page'[d] \in Uses
      BY <1>1, <3>1, <3>2 DEF Uses
    <3> QED
      BY <1>3, <1>4, <2>3, <2>4, <2>8, <3>2, <3>3 DEF EventsReplied
  <2>9. CASE PullReplied(r)
    BY <1>3, <1>4, <2>3, <2>4, <2>9 DEF PullReplied
  <2>10. CASE FinalReplied(r)
    <3>1. page[c] = "pulling" /\ r.session = session[c]
      BY <2>1, <2>2, <2>10, AwaitsValues DEF FinalReplied, Fits, Awaited
    <3>0. PICK y : y = Ask(c, "delete", r.session)
      OBVIOUS
    <3>2. /\ y.kind = "delete" /\ y.session = session[c]
          /\ wire' = wire \cup {y} /\ session' = session /\ page' = [page EXCEPT ![c] = "idle"]
      BY <2>1, <2>10, <3>0, <3>1 DEF FinalReplied, Send, GoTo, Ask
    <3>3. \A d \in Pages : page'[d] = "idle"
      BY <1>1, <3>1, <3>2 DEF Tidy
    <3>4. ASSUME NEW id \in Ids, Held(id) PROVE Held(id)'
      <4>1. CASE id = session[c]
        <5>1. y \in Requests'
          BY <3>2 DEF Requests
        <5> QED
          BY <3>2, <4>1, <5>1 DEF Held
      <4>2. CASE id # session[c]
        <5>1. Requests \subseteq Requests'
          BY <1>2, <3>2 DEF Requests
        <5>2. \A d \in Pages : d # c => page'[d] = page[d] /\ session'[d] = session[d]
          BY <1>1, <3>2
        <5> QED
          BY <2>3, <2>10, <3>4, <4>2, <5>1, <5>2 DEF Held, FinalReplied
      <4> QED
        BY <4>1, <4>2
    <3> QED
      BY <1>3, <3>2, <3>3, <3>4
  <2>11. CASE DeleteReplied(r)
    <3>1. \A d \in Pages : page[d] = "idle"
      BY <2>2, <2>11 DEF DeleteReplied, Tidy
    <3>2. wire' = wire /\ page' = page
      BY <2>11 DEF DeleteReplied
    <3>3. \A d \in Pages : page[d] \notin Uses
      BY <3>1 DEF Uses
    <3> QED
      BY <1>3, <1>4, <2>3, <2>4, <2>11, <3>2, <3>3 DEF DeleteReplied
  <2> QED
    BY <2>1, <2>5, <2>6, <2>7, <2>8, <2>9, <2>10, <2>11
<1> QED
  BY <1>5, <1>6, <1>7

\* So as long as Train has been pressed once at most, the server is tidy.
LEMMA TidyStep ==
    ASSUME TypeOK, Sound, Owned, Orderly, presses <= 1 => Tidy, Next, ~Faulty, presses' <= 1
    PROVE  Tidy'
<1>1. presses \in Nat
  BY DEF TypeOK
<1>2. \/ presses' = presses
      \/ presses' = presses + 1 /\ \E c \in Pages, steps \in Limits : PressTrain(c, steps)
  <2>1. ASSUME NEW c \in Pages, Press(c)
        PROVE  \/ presses' = presses
               \/ presses' = presses + 1 /\ \E steps \in Limits : PressTrain(c, steps)
    BY <2>1 DEF Press, PressTrain, PressStop
  <2>2. ASSUME NEW c \in Pages, Replied(c) \/ Listen(c) \/ Deliver(c)
        PROVE  presses' = presses
    BY <2>2 DEF Replied, CreateReplied, StartReplied, UndoReplied, EventsReplied, PullReplied,
                FinalReplied, DeleteReplied, Listen, HandleProgress, HandleStopped, Deliver
  <2> QED
    BY <2>1, <2>2 DEF Next, Work, pageVars
<1>3. presses \in {0, 1} /\ Tidy
  BY <1>1, <1>2
<1>4. CASE presses = 0
  BY <1>3, <1>4, OnlyTrain, TidyTrain
<1>5. CASE presses = 1
  <2>1. ASSUME NEW c \in Pages, NEW steps \in Limits, PressTrain(c, steps) PROVE FALSE
    <3>1. presses' = 2
      BY <1>5, <2>1 DEF PressTrain
    <3> QED
      BY <3>1
  <2>2. presses' = 1
    BY <1>2, <1>5, <2>1
  <2> QED
    BY <1>3, <1>5, <2>1, <2>2, TidyServer, TidyPages DEF Next, Press
<1> QED
  BY <1>3, <1>4, <1>5

----------------------------------------------------------------------------
(* The invariant.                                                          *)

\* Failures are counted and none is forgotten.
LEMMA FaultsCounted ==
    ASSUME TypeOK, Sound, Next
    PROVE  /\ faults \in Nat
           /\ faults' = faults \/ faults' = faults + 1
           /\ Faulty => faults' = faults + 1
<1>1. run # None => run.session \in Ids
  BY DEF TypeOK, ServerTypeOK
<1>2. Faulty => faults' = faults + 1
  BY SMTT(60) DEF Faulty, LoseRequest, Disconnect, LoseReply, LoseStream, ServerCrash, Crash, Fault
<1>3. ~Faulty => faults' = faults \/ faults' = faults + 1
  BY DEF Next, Work, Actor, CreateSession, GetCheckpoint, DeleteSession, StopOutsideRun,
         StartTraining, RunFinished, EndRun, Fault, Drain, TrainStep, TrainStepFailed, Press,
         PressTrain, PressStop, Replied, CreateReplied, StartReplied, UndoReplied, EventsReplied,
         PullReplied, FinalReplied, DeleteReplied, Receive, Listen, HandleProgress, HandleStopped,
         NextEvent, Deliver, Subscribe, Enqueue, serverVars
<1> QED
  BY <1>2, <1>3 DEF TypeOK, ServerTypeOK

\* As long as nothing fails, everything stays in order.
LEMMA OrderlyStep ==
    ASSUME TypeOK, Sound, Owned, Orderly, Next, ~Faulty
    PROVE  Orderly'
<1>1. (OneCall /\ FreshNames /\ AllFit /\ AllLive)'
  <2>1. ASSUME NEW c \in Pages, Replied(c) PROVE (OneCall /\ FreshNames /\ AllFit /\ AllLive)'
    BY <2>1, AnswersKeepOrder DEF Replied
  <2> QED
    BY <2>1, StepsMove, MovesKeepOrder, ButtonsKeepOrder, EventsKeepOrder DEF Next
<1> QED
  BY <1>1, StreamsStillFit, RunStaysWithPage DEF Orderly, AllFit, AllLive

\* At the beginning everything is in order.
LEMMA InitOrderly == Init => Orderly
<1> SUFFICES ASSUME Init PROVE Orderly
  OBVIOUS
<1>1. /\ wire = {} /\ queue = <<>> /\ Queued = {} /\ replies = {} /\ Requests = {} /\ Messages = {}
      /\ run = None /\ streams = [c \in Pages |-> None]
  BY DEF Init, ServerInit, Started, Queued, Requests, Messages
<1> QED
  BY <1>1 DEF Orderly, OneCall, FreshNames, StreamFits

\* And there is no session.
LEMMA InitTidy == Init => Tidy
<1> SUFFICES ASSUME Init PROVE Tidy
  OBVIOUS
<1>1. Messages = {} /\ replies = {}
  BY DEF Init, ServerInit, Started, Queued, Requests, Messages
<1> QED
  BY <1>1 DEF Init, ServerInit, Started, Tidy

\* The inductive invariant of the pages and their server.
THEOREM RemoteHolds == Spec => []RemoteInv
<1>1. Init => RemoteInv
  BY InitSound, InitOwned, InitTrained, InitOrderly, InitTidy DEF RemoteInv
<1>2. RemoteInv /\ [Next]_vars => RemoteInv'
  <2> SUFFICES ASSUME RemoteInv, [Next]_vars PROVE RemoteInv'
    OBVIOUS
  <2>1. TypeOK /\ Sound /\ TypeOK' /\ Sound'
    BY SoundStep DEF RemoteInv
  <2>2. CASE Next
    <3> SUFFICES ASSUME faults' = 0 PROVE Owned' /\ Trained' /\ Orderly' /\ (presses' <= 1 => Tidy')
      BY <2>1 DEF RemoteInv
    <3>1. faults = 0 /\ ~Faulty /\ faults' = faults
      BY <2>1, <2>2, FaultsCounted
    <3>2. ~ServerCrash /\ ~DownloadFails
      BY <3>1 DEF Faulty, DownloadFails
    <3>3. Owned /\ Trained /\ Orderly /\ (presses <= 1 => Tidy)
      BY <3>1 DEF RemoteInv
    <3> QED
      BY <2>1, <2>2, <3>1, <3>2, <3>3, OwnedStep, TrainedStep, OrderlyStep, TidyStep
  <2>3. CASE UNCHANGED vars
    <3>1. faults' = faults /\ (Owned => Owned') /\ (Trained => Trained')
      BY <2>3 DEF vars, serverVars, pageVars, Owned, Belongs, Trained, Messages, Requests, Queued
    <3>2. Orderly => Orderly'
      BY <2>3 DEF vars, serverVars, pageVars, Orderly, OneCall, SameCall, FreshNames, StreamFits,
                  Fits, RunsFor, Messages, Requests, Queued
    <3>3. presses' = presses /\ (Tidy => Tidy')
      BY <2>3 DEF vars, serverVars, pageVars, Tidy, Held, Messages, Requests, Queued
    <3> QED
      BY <2>1, <3>1, <3>2, <3>3 DEF RemoteInv
  <2> QED
    BY <2>2, <2>3
<1> QED
  BY <1>1, <1>2, PTL DEF Spec

\* As long as nothing fails, a run on the server belongs to a page that says
\* it is training: no page is told its run is over, or may start another,
\* while it still holds the GPU (gpu_actor.rs, app.js).
THEOREM NoRunIsOrphaned == Spec => [](faults = 0 => NoOrphanRun)
<1>1. RemoteInv => (faults = 0 => NoOrphanRun)
  BY DEF RemoteInv, Orderly, RunsFor, NoOrphanRun, SaysTraining
<1> QED
  BY <1>1, RemoteHolds, PTL
\* As long as nothing fails, the server holds no session once the only run
\* there has been is over and nothing is on its way (remote-backend.js).
\* With more runs a deletion may be refused during another page's run.
THEOREM SessionsAreFreed == Spec => [](presses <= 1 => SessionsFreed)
<1>1. RemoteInv => (presses <= 1 => SessionsFreed)
  <2> SUFFICES ASSUME RemoteInv, presses <= 1, Quiet, faults = 0, \A c \in Pages : page[c] = "idle",
                      NEW id \in Ids, sessions[id] # None
               PROVE  FALSE
    BY DEF SessionsFreed
  <2>1. Held(id)
    BY DEF RemoteInv, Tidy
  <2>2. Requests = {} /\ replies = {}
    BY DEF Quiet, Requests, Queued
  <2> QED
    BY <2>1, <2>2 DEF Held, Uses
<1> QED
  BY <1>1, RemoteHolds, PTL

----------------------------------------------------------------------------
(* The result of a run, once a page has it, is not taken back by a pull    *)
(* that is answered late.                                                  *)

\* What may still lead to a run: a session to be made, made, or to be
\* started for somebody.
Opens(m) == m.kind = "create" \/ (m.kind = "start" /\ m.live)
Opened(r) == r.kind = "create" /\ r.ok

\* What may reach the page's own model.
Result(r) == r.kind \in {"pull", "final"} /\ r.ok

Alive(id) == sessions[id] # None
NoneOpens == (\A m \in Requests : ~Opens(m)) /\ (\A r \in replies : ~Opened(r))
Unimproved == \A c \in Pages : local[c].weights = 0
Silence == \A c \in Pages : streams[c] = None

\* There is exactly one, and here it is.
AtWire ==
    /\ \E m \in wire : Opens(m) /\ \A n \in wire : Opens(n) => n = m
    /\ \A n \in Queued : ~Opens(n)
    /\ \A r \in replies : ~Opened(r)
AtQueue ==
    /\ \E i \in DOMAIN queue : Opens(queue[i]) /\ \A j \in DOMAIN queue : Opens(queue[j]) => j = i
    /\ \A n \in wire : ~Opens(n)
    /\ \A r \in replies : ~Opened(r)
AtReply ==
    /\ \E r \in replies : Opened(r) /\ \A s \in replies : Opened(s) => s = r
    /\ \A n \in Requests : ~Opens(n)

\* The four stages of the only run: before Train, until the server trains,
\* while it does, and after it, when nothing changes any weights any more
\* and every copy that has been through the run has its weights.
Untouched ==
    /\ Messages = {} /\ run = None /\ Silence /\ Unimproved
    /\ \A id \in Ids : ~Alive(id)
    /\ \A c \in Pages : page[c] = "idle"
Few ==
    /\ \A m \in Requests : m.kind \in {"create", "start", "stop"}
    /\ \A r \in replies : r.kind = "create"
OneAlive == \A a, b \in Ids : Alive(a) /\ Alive(b) => a = b
Unmade == \A m \in Requests : m.kind = "create" => \A id \in Ids : ~Alive(id)
Opening ==
    /\ AtWire \/ AtQueue \/ AtReply
    /\ run = None /\ Silence /\ Unimproved /\ Few /\ OneAlive /\ Unmade
Running ==
    /\ run # None /\ NoneOpens /\ Unimproved
    /\ \A r \in replies : ~Result(r)
    /\ \A id \in Ids : Alive(id) => id = run.session
Agreed(w) ==
    /\ \A id \in Ids : Alive(id) => sessions[id].weights = w
    /\ \A r \in replies : Result(r) => r.checkpoint.weights = w
    /\ \A c \in Pages : local[c].weights \in {0, w}
Settled == run = None /\ NoneOpens /\ \E w \in Steps : Agreed(w)

OneRun ==
    /\ presses = 0 => Untouched
    /\ presses = 1 => Opening \/ Running \/ Settled

----------------------------------------------------------------------------
(* What comes with a step.                                                 *)

\* An answer is the one given.
LEMMA Answered ==
    ASSUME NEW m, NEW ok, NEW id, NEW k, Answer(m, ok, id, k)
    PROVE  \A r \in replies' : \/ r \in replies
                               \/ /\ m.live
                                  /\ r.kind = m.kind /\ r.ok = ok /\ r.session = id /\ r.checkpoint = k
<1>1. PICK a : a = [page |-> m.page, kind |-> m.kind, session |-> id, ok |-> ok, checkpoint |-> k]
  OBVIOUS
<1>2. a.kind = m.kind /\ a.ok = ok /\ a.session = id /\ a.checkpoint = k
  BY <1>1
<1>3. replies' = replies \cup (IF m.live THEN {a} ELSE {})
  BY <1>1 DEF Answer
<1> QED
  BY <1>2, <1>3

\* A refusal is no success.
LEMMA Refused ==
    ASSUME NEW m, Refuse(m)
    PROVE  \A r \in replies' : \/ r \in replies
                               \/ m.live /\ r.kind = m.kind /\ ~r.ok
BY Answered, ZenonT(60) DEF Refuse

\* A request that is new asks for no session, unless Train was pressed, and
\* for no start, unless a session has been made; or it is one whose page has
\* gone.
LEMMA NewRequests ==
    ASSUME TypeOK, Next, presses' = presses
    PROVE  \A m \in Requests' :
              \/ m \in Requests
              \/ ~m.live /\ \E n \in Requests : n.live /\ n.kind = m.kind
              \/ m.kind \notin {"create", "start"}
              \/ \E r \in replies : Opened(r)
<1> DEFINE Fine(m) == \/ m \in Requests
                      \/ ~m.live /\ \E n \in Requests : n.live /\ n.kind = m.kind
                      \/ m.kind \notin {"create", "start"}
                      \/ \E r \in replies : Opened(r)
           Goal == \A m \in Requests' : Fine(m)
<1>1. queue \in Seq(Request)
  BY DEF TypeOK, ServerTypeOK
<1>2. ASSUME wire' \subseteq wire, queue' = queue PROVE Goal
  BY <1>2 DEF Requests, Queued
<1>3. ASSUME wire' = wire, Take PROVE Goal
  BY <1>1, <1>3, Taken DEF Requests
<1>4. ASSUME NEW c, NEW kind, NEW id, kind \notin {"create", "start"} \/ (\E r \in replies : Opened(r)),
             wire' = wire \cup {Ask(c, kind, id)}, queue' = queue
      PROVE  Goal
  <2>1. Ask(c, kind, id).kind = kind
    BY DEF Ask
  <2> QED
    BY <1>4, <2>1 DEF Requests, Queued
<1>5. CASE Work \/ (TrainStepFailed /\ UNCHANGED pageVars)
  BY <1>2, <1>3, <1>5 DEF Work, Actor, CreateSession, GetCheckpoint, DeleteSession, StopOutsideRun,
     StartTraining, RunFinished, Drain, TrainStep, TrainStepFailed, pageVars
<1>6. ASSUME NEW c \in Pages, PressStop(c) PROVE Goal
  BY <1>2, <1>4, <1>6 DEF PressStop, Send, serverVars
<1>7. ASSUME NEW r \in replies, CreateReplied(r) PROVE Goal
  BY <1>2, <1>4, <1>7 DEF CreateReplied, Receive, Send, Opened
<1>8. ASSUME NEW r \in replies, StartReplied(r) PROVE Goal
  BY <1>4, <1>8 DEF StartReplied, Receive, Send
<1>9. ASSUME NEW r \in replies, FinalReplied(r) PROVE Goal
  BY <1>4, <1>9 DEF FinalReplied, Send
<1>10. ASSUME NEW r \in replies,
              UndoReplied(r) \/ EventsReplied(r) \/ PullReplied(r) \/ DeleteReplied(r)
       PROVE  Goal
  BY <1>2, <1>10 DEF UndoReplied, EventsReplied, PullReplied, DeleteReplied, Receive
<1>11. ASSUME NEW c \in Pages, Listen(c) PROVE Goal
  BY <1>2, <1>4, <1>11 DEF Listen, HandleProgress, HandleStopped, NextEvent, Send
<1>12. ASSUME NEW c \in Pages, Deliver(c) PROVE Goal
  <2>1. PICK m \in wire : wire' = wire \ {m} /\ (Subscribe(m) \/ Enqueue(m))
    BY <1>12 DEF Deliver
  <2>2. CASE Enqueue(m)
    <3>1. queue' = Append(queue, m) /\ m \in Request
      BY <2>2 DEF Enqueue, TypeOK
    <3>2. Queued' = Queued \cup {m}
      BY <1>1, <3>1, Appended
    <3> QED
      BY <2>1, <3>2 DEF Requests
  <2> QED
    BY <1>2, <2>1, <2>2 DEF Subscribe
<1>13. ASSUME NEW i \in DOMAIN queue, Disconnect(i), UNCHANGED pageVars PROVE Goal
  <2>1. PICK m : m = queue[i]
    OBVIOUS
  <2>2. m \in Queued /\ m \in Request
    BY <1>1, <2>1 DEF Queued
  <2>3. PICK d : d = [m EXCEPT !.live = FALSE]
    OBVIOUS
  <2>4. d.kind = m.kind /\ ~d.live
    BY <2>2, <2>3 DEF Request
  <2>5. queue' = [queue EXCEPT ![i] = d] /\ m.live
    BY <1>1, <1>13, <2>1, <2>3 DEF Disconnect
  <2>6. Queued' \subseteq Queued \cup {d}
    BY <1>1, <2>5 DEF Queued
  <2> QED
    BY <1>13, <2>2, <2>4, <2>5, <2>6 DEF Requests, pageVars
<1>14. CASE ServerCrash
  <2>1. queue' = <<>> /\ wire' = wire
    BY <1>14 DEF ServerCrash, Crash
  <2> QED
    BY <2>1 DEF Requests, Queued
<1>15. CASE Faulty
  BY <1>2, <1>13, <1>14, <1>15 DEF Faulty, LoseRequest, LoseReply, LoseStream, pageVars
<1>16. ASSUME NEW c \in Pages, Press(c) PROVE Goal
  BY <1>6, <1>16 DEF Press, PressTrain, TypeOK
<1>17. ASSUME NEW c \in Pages, Replied(c) PROVE Goal
  BY <1>7, <1>8, <1>9, <1>10, <1>17 DEF Replied
<1> QED
  BY <1>5, <1>11, <1>12, <1>15, <1>16, <1>17 DEF Next

\* A new answer that says a session was made answers the request for it; one
\* that carries a result has it from a session, between runs.
LEMMA NewReplies ==
    ASSUME TypeOK, Next
    PROVE  \A r \in replies' :
              \/ r \in replies \/ ~r.ok
              \/ r.kind \notin {"create", "pull", "final"}
              \/ r.kind = "create" /\ \E m \in Queued : m.kind = "create"
              \/ /\ run = None /\ r.kind # "create"
                 /\ \E m \in Queued : m.kind = r.kind
                 /\ r.session \in Ids /\ Alive(r.session)
                 /\ r.checkpoint.weights = sessions[r.session].weights
<1> DEFINE Fine(r) == \/ r \in replies \/ ~r.ok
                      \/ r.kind \notin {"create", "pull", "final"}
                      \/ r.kind = "create" /\ \E m \in Queued : m.kind = "create"
                      \/ /\ run = None /\ r.kind # "create"
                         /\ \E m \in Queued : m.kind = r.kind
                         /\ r.session \in Ids /\ Alive(r.session)
                         /\ r.checkpoint.weights = sessions[r.session].weights
           Goal == \A r \in replies' : Fine(r)
<1>1. queue \in Seq(Request)
  BY DEF TypeOK, ServerTypeOK
<1>2. ASSUME replies' \subseteq replies PROVE Goal
  BY <1>2
<1>3. ASSUME NEW m, Refuse(m) PROVE Goal
  BY <1>3, Refused
<1>4. CASE CreateSession
  <2>1. Head(queue).kind = "create" /\ Head(queue) \in Queued
    BY <1>1, <1>4, Taken DEF CreateSession
  <2> QED
    BY <1>3, <1>4, <2>1, Answered, ZenonT(60) DEF CreateSession
<1>5. CASE GetCheckpoint
  <2>1. PICK m : m = Head(queue)
    OBVIOUS
  <2>2. PICK k : k = CheckpointOf(m.session)
    OBVIOUS
  <2>3. /\ m.kind \in {"pull", "final"} /\ run = None /\ m \in Queued
        /\ Refuse(m) \/ (Known(m.session) /\ Answer(m, TRUE, m.session, k))
    BY <1>1, <1>5, <2>1, <2>2, Taken DEF GetCheckpoint, GiveCheckpoint
  <2>4. CASE Known(m.session) /\ Answer(m, TRUE, m.session, k)
    <3>1. m.session \in Ids /\ Alive(m.session) /\ k.weights = sessions[m.session].weights
      BY <2>2, <2>4 DEF Known, Alive, CheckpointOf
    <3>2. \A r \in replies' : \/ r \in replies
                              \/ r.kind = m.kind /\ r.session = m.session /\ r.checkpoint = k
      BY <2>4, Answered, ZenonT(60)
    <3> QED
      BY <2>3, <3>1, <3>2
  <2> QED
    BY <1>3, <2>3, <2>4
<1>6. CASE DeleteSession
  <2>1. PICK m, k : /\ m = Head(queue) /\ m.kind \in {"delete", "undo"}
                    /\ Answer(m, TRUE, m.session, k)
    BY <1>6 DEF DeleteSession
  <2>2. \A r \in replies' : r \in replies \/ r.kind = m.kind
    BY <2>1, Answered
  <2> QED
    BY <2>1, <2>2
<1>7. CASE StartTraining
  <2>1. CASE Answer(Head(queue), TRUE, Head(queue).session, Blank(Head(queue).page))
    <3>1. Head(queue).kind = "start"
      BY <1>7 DEF StartTraining
    <3>2. \A r \in replies' : r \in replies \/ r.kind = Head(queue).kind
      BY <2>1, Answered, ZenonT(60)
    <3> QED
      BY <3>1, <3>2
  <2> QED
    BY <1>3, <1>7, <2>1 DEF StartTraining
<1>8. CASE Work \/ (TrainStepFailed /\ UNCHANGED pageVars)
  BY <1>2, <1>3, <1>4, <1>5, <1>6, <1>7, <1>8
  DEF Work, Actor, StopOutsideRun, RunFinished, Drain, Reject, TrainStep, TrainStepFailed
<1>9. ASSUME NEW c \in Pages, Press(c) PROVE Goal
  BY <1>2, <1>9 DEF Press, PressStop, PressTrain, serverVars
<1>10. ASSUME NEW c \in Pages, Replied(c) PROVE Goal
  BY <1>2, <1>10 DEF Replied, CreateReplied, StartReplied, UndoReplied, EventsReplied, PullReplied,
     FinalReplied, DeleteReplied, Receive
<1>11. ASSUME NEW c \in Pages, Listen(c) PROVE Goal
  BY <1>2, <1>11 DEF Listen, HandleProgress, HandleStopped, NextEvent
<1>12. ASSUME NEW c \in Pages, Deliver(c) PROVE Goal
  <2>1. PICK m \in wire : Subscribe(m) \/ Enqueue(m)
    BY <1>12 DEF Deliver
  <2>2. CASE Subscribe(m)
    <3>1. \A r \in replies' : r \in replies \/ r.kind = "events"
      BY <2>2, Answered DEF Subscribe
    <3> QED
      BY <3>1
  <2> QED
    BY <1>2, <2>1, <2>2 DEF Enqueue
<1>13. ASSUME NEW r \in replies, LoseReply(r) PROVE Goal
  <2>1. [r EXCEPT !.ok = FALSE].ok = FALSE
    BY DEF TypeOK, ServerTypeOK, Reply
  <2> QED
    BY <1>13, <2>1 DEF LoseReply
<1>14. CASE ServerCrash
  <2>1. \A m \in Queued : ~Refusal(m).ok
    BY DEF Refusal
  <2>2. replies' \subseteq replies \cup {Refusal(m) : m \in Queued}
    BY <1>14 DEF ServerCrash, Crash, Refusal, Queued
  <2> QED
    BY <2>1, <2>2
<1>15. CASE Faulty
  BY <1>2, <1>3, <1>13, <1>14, <1>15 DEF Faulty, LoseRequest, Disconnect, LoseStream
<1> QED
  BY <1>8, <1>9, <1>10, <1>11, <1>12, <1>15 DEF Next

\* A page's own model stays as it is, or becomes a result.
LEMMA LocalsChange ==
    ASSUME TypeOK, Next, NEW c \in Pages
    PROVE  \/ local'[c] = local[c]
           \/ \E r \in replies : Result(r) /\ local'[c] = r.checkpoint
<1> DEFINE Goal == \/ local'[c] = local[c]
                   \/ \E r \in replies : Result(r) /\ local'[c] = r.checkpoint
<1>1. ASSUME local' = local PROVE Goal
  BY <1>1
<1>2. ASSUME NEW r \in replies, ImportIfOk(r), r.kind \in {"pull", "final"} PROVE Goal
  BY <1>2 DEF ImportIfOk, Result, TypeOK
<1>3. ASSUME NEW d \in Pages, Replied(d) PROVE Goal
  BY <1>1, <1>2, <1>3 DEF Replied, CreateReplied, StartReplied, UndoReplied, EventsReplied,
     PullReplied, FinalReplied, DeleteReplied
<1> QED
  BY <1>1, <1>3 DEF Next, Work, TrainStepFailed, Press, PressStop, PressTrain, Listen,
     HandleProgress, HandleStopped, Deliver, Faulty, LoseRequest, LoseReply, LoseStream, ServerCrash,
     pageVars

\* After a run, when nothing opens another, no session is made and the
\* weights of none change.
LEMMA WeightsFreeze ==
    ASSUME TypeOK, Sound, Next, run = None, NoneOpens
    PROVE  /\ run' = None
           /\ \A id \in Ids : Alive(id)' => Alive(id) /\ sessions'[id].weights = sessions[id].weights
<1> DEFINE Goal == /\ run' = None
                   /\ \A id \in Ids : Alive(id)' =>
                         Alive(id) /\ sessions'[id].weights = sessions[id].weights
<1>1. queue \in Seq(Request) /\ sessions \in [Ids -> Session \cup {None}]
  BY DEF TypeOK, ServerTypeOK
<1>2. ASSUME run' = run, sessions' = sessions PROVE Goal
  BY <1>2 DEF Alive
<1>3. ASSUME Take PROVE ~Opens(Head(queue))
  BY <1>1, <1>3, Taken DEF NoneOpens, Requests
<1>4. ~CreateSession
  BY <1>3 DEF CreateSession, Opens
<1>5. CASE DeleteSession
  BY <1>5 DEF DeleteSession, Alive
<1>6. CASE StartTraining
  <2>1. ~Head(queue).live
    BY <1>3, <1>6 DEF StartTraining, Opens
  <2>2. run' = None
    BY <1>6, <2>1 DEF StartTraining
  <2>3. CASE Known(Head(queue).session)
             /\ sessions' = [sessions EXCEPT ![Head(queue).session] = WithTrainer(@)]
    <3>1. PICK s : s = Head(queue).session
      OBVIOUS
    <3>2. s \in Ids /\ sessions[s] \in Session
      BY <1>1, <2>3, <3>1 DEF Known
    <3>3. WithTrainer(sessions[s]).weights = sessions[s].weights
      BY <3>2, TrainerFields
    <3>4. \A id \in Ids : sessions'[id] = IF id = s THEN WithTrainer(sessions[s]) ELSE sessions[id]
      BY <1>1, <2>3, <3>1
    <3> QED
      BY <2>2, <2>3, <3>1, <3>2, <3>3, <3>4 DEF Alive, Known
  <2> QED
    BY <1>2, <1>6, <2>3 DEF StartTraining
<1>7. CASE ServerCrash
  BY <1>7 DEF ServerCrash, Crash, Alive
<1>8. CASE Work \/ (TrainStepFailed /\ UNCHANGED pageVars)
  BY <1>2, <1>4, <1>5, <1>6, <1>8 DEF Work, Actor, GetCheckpoint, StopOutsideRun, RunFinished, Drain,
     TrainStep, TrainStepFailed
<1>9. CASE Faulty
  BY <1>2, <1>7, <1>9 DEF Faulty, LoseRequest, Disconnect, LoseReply, LoseStream
<1>10. ASSUME NEW c \in Pages, Press(c) \/ Replied(c) \/ Listen(c) \/ Deliver(c) PROVE Goal
  BY <1>2, <1>10 DEF Press, PressStop, PressTrain, Replied, CreateReplied, StartReplied, UndoReplied,
     EventsReplied, PullReplied, FinalReplied, DeleteReplied, Receive, Listen, HandleProgress,
     HandleStopped, NextEvent, Deliver, Subscribe, Enqueue, serverVars
<1> QED
  BY <1>8, <1>9, <1>10 DEF Next

\* During a run no other begins and no session is made.
LEMMA RunEnds ==
    ASSUME TypeOK, Sound, Next, run # None
    PROVE  /\ run' = run \/ run' = None
           /\ \A id \in Ids : Alive(id)' => Alive(id)
<1> DEFINE Goal == (run' = run \/ run' = None) /\ \A id \in Ids : Alive(id)' => Alive(id)
<1>1. run.session \in Ids /\ Alive(run.session) /\ sessions \in [Ids -> Session \cup {None}]
  BY DEF TypeOK, ServerTypeOK, Sound, Alive
<1>2. ASSUME run' = run \/ run' = None, sessions' = sessions PROVE Goal
  BY <1>2 DEF Alive
<1>3. ASSUME run' = run \/ run' = None, NEW s, sessions' = [sessions EXCEPT ![run.session] = s] PROVE Goal
  BY <1>1, <1>3 DEF Alive
<1>4. ASSUME EndRun PROVE Goal
  <2>1. CASE sessions' = [sessions EXCEPT ![run.session].weights = sessions[run.session].device]
    <3>1. PICK s : s = [sessions[run.session] EXCEPT !.weights = sessions[run.session].device]
      OBVIOUS
    <3>2. sessions' = [sessions EXCEPT ![run.session] = s]
      BY <2>1, <3>1
    <3> QED
      BY <1>3, <1>4, <3>2 DEF EndRun
  <2> QED
    BY <1>2, <1>4, <2>1 DEF EndRun
<1>5. ASSUME NEW reported, TrainStep(reported) PROVE Goal
  <2>1. PICK s : s = [sessions[run.session] EXCEPT !.step = sessions[run.session].step + 1,
                                                   !.device = @ + 1]
    OBVIOUS
  <2>2. sessions' = [sessions EXCEPT ![run.session] = s]
    BY <1>1, <1>5, <2>1 DEF TrainStep
  <2> QED
    BY <1>3, <1>5, <2>2 DEF TrainStep
<1>6. CASE Work \/ (TrainStepFailed /\ UNCHANGED pageVars)
  BY <1>2, <1>4, <1>5, <1>6 DEF Work, Actor, CreateSession, GetCheckpoint, DeleteSession,
     StopOutsideRun, StartTraining, RunFinished, Drain, TrainStepFailed
<1>7. CASE ServerCrash
  BY <1>7 DEF ServerCrash, Crash, Alive
<1>8. CASE Faulty
  BY <1>2, <1>7, <1>8 DEF Faulty, LoseRequest, Disconnect, LoseReply, LoseStream
<1>9. ASSUME NEW c \in Pages, Press(c) \/ Replied(c) \/ Listen(c) \/ Deliver(c) PROVE Goal
  BY <1>2, <1>9 DEF Press, PressStop, PressTrain, Replied, CreateReplied, StartReplied, UndoReplied,
     EventsReplied, PullReplied, FinalReplied, DeleteReplied, Receive, Listen, HandleProgress,
     HandleStopped, NextEvent, Deliver, Subscribe, Enqueue, serverVars
<1> QED
  BY <1>6, <1>8, <1>9 DEF Next

----------------------------------------------------------------------------
(* The stages.                                                             *)

\* Once nothing may lead to a run, nothing does until Train is pressed.
LEMMA StillNoneOpens ==
    ASSUME TypeOK, Next, presses' = presses, NoneOpens
    PROVE  NoneOpens'
<1>1. ASSUME NEW m \in Requests' PROVE ~Opens(m)
  BY <1>1, NewRequests DEF NoneOpens, Opens
<1>2. ASSUME NEW r \in replies' PROVE ~Opened(r)
  <2>1. \A m \in Queued : m.kind # "create"
    BY DEF NoneOpens, Opens, Requests
  <2> QED
    BY <1>2, <2>1, NewReplies DEF NoneOpens, Opened
<1> QED
  BY <1>1, <1>2 DEF NoneOpens

\* With one session at most and no result under way, everything agrees.
LEMMA Settles ==
    ASSUME TypeOK', run' = None, NoneOpens', Unimproved', \A r \in replies' : ~Result(r),
           OneAlive'
    PROVE  Settled'
<1>1. CASE (\E id \in Ids : Alive(id))'
  <2>1. PICK id \in Ids : Alive(id)'
    BY <1>1
  <2>2. sessions'[id].weights \in Steps
    BY <2>1, SessionFields DEF TypeOK, ServerTypeOK, Alive
  <2>3. Agreed(sessions[id].weights)'
    BY <2>1 DEF Agreed, Unimproved, OneAlive
  <2> QED
    BY <2>2, <2>3 DEF Settled
<1>2. CASE (\A id \in Ids : ~Alive(id))'
  <2>1. 0 \in Steps
    BY DEF Steps
  <2>2. Agreed(0)'
    BY <1>2 DEF Agreed, Unimproved
  <2> QED
    BY <2>1, <2>2 DEF Settled
<1> QED
  BY <1>1, <1>2

\* After the run every result is the same.
LEMMA SettledStep ==
    ASSUME TypeOK, Sound, Next, presses' = presses, Settled
    PROVE  Settled' /\ \A c \in Pages : local'[c].weights >= local[c].weights
<1>1. run = None /\ NoneOpens /\ NoneOpens'
  BY StillNoneOpens DEF Settled
<1>2. /\ run' = None
      /\ \A id \in Ids : Alive(id)' => Alive(id) /\ sessions'[id].weights = sessions[id].weights
  BY <1>1, WeightsFreeze
<1>3. PICK w \in Steps : Agreed(w)
  BY DEF Settled
<1>4. \A r \in replies' : Result(r) => r.checkpoint.weights = w
  BY <1>3, NewReplies DEF Agreed, Result
<1>5. \A c \in Pages : local'[c] = local[c] \/ local'[c].weights = w
  BY <1>3, LocalsChange DEF Agreed
<1>6. Agreed(w)'
  BY <1>2, <1>3, <1>4, <1>5 DEF Agreed
<1>7. \A c \in Pages : local[c].weights \in {0, w} /\ w >= 0 /\ w \in Nat
  BY <1>3 DEF Agreed, Steps
<1> QED
  BY <1>1, <1>2, <1>5, <1>6, <1>7 DEF Settled

\* The run ends, or goes on.
LEMMA RunningStep ==
    ASSUME TypeOK, TypeOK', Sound, Next, presses' = presses, Running
    PROVE  (Running' \/ Settled') /\ \A c \in Pages : local'[c] = local[c]
<1>1. run # None /\ NoneOpens'
  BY StillNoneOpens DEF Running
<1>2. (run' = run \/ run' = None) /\ \A id \in Ids : Alive(id)' => Alive(id)
  BY <1>1, RunEnds
<1>3. \A r \in replies' : ~Result(r)
  BY <1>1, NewReplies DEF Running, Result
<1>4. \A c \in Pages : local'[c] = local[c]
  BY LocalsChange DEF Running
<1>5. Unimproved'
  BY <1>4 DEF Running, Unimproved
<1>6. CASE run' = run
  BY <1>1, <1>2, <1>3, <1>4, <1>5, <1>6 DEF Running
<1>7. CASE run' = None
  <2>1. OneAlive'
    BY <1>2 DEF Running, OneAlive
  <2>2. Settled'
    BY <1>1, <1>3, <1>5, <1>7, <2>1, Settles
  <2> QED
    BY <1>4, <2>2
<1> QED
  BY <1>2, <1>6, <1>7

\* Train is pressed.
LEMMA UntouchedStep ==
    ASSUME TypeOK, Next, Untouched
    PROVE  /\ \A c \in Pages : local'[c] = local[c]
           /\ \/ presses' = presses /\ Untouched'
              \/ presses' = presses + 1 /\ Opening'
<1>1. wire = {} /\ replies = {} /\ Queued = {} /\ run = None /\ \A c \in Pages : page[c] = "idle"
  BY DEF Untouched, Messages, Requests
<1>2. queue = <<>>
  <2>1. queue \in Seq(Request) /\ \A i \in DOMAIN queue : FALSE
    BY <1>1 DEF Queued, TypeOK, ServerTypeOK
  <2>2. Len(queue) \in Nat /\ DOMAIN queue = 1 .. Len(queue)
    BY <2>1
  <2>3. Len(queue) = 0
    <3>1. PICK n \in Nat : n = Len(queue)
      BY <2>2
    <3>2. n # 0 => 1 \in 1 .. n
      BY <3>1
    <3> QED
      BY <2>1, <2>2, <3>1, <3>2, SMTT(60)
  <2> QED
    BY <2>1, <2>3
<1>3. ASSUME NEW c \in Pages, NEW steps \in Limits, PressTrain(c, steps)
      PROVE  presses' = presses + 1 /\ Opening' /\ local' = local
  <2>1. PICK y : y = Ask(c, "create", None)
    OBVIOUS
  <2>2. y.kind = "create" /\ Opens(y)
    BY <2>1 DEF Ask, Opens
  <2>3. /\ wire' = wire \cup {y} /\ queue' = queue /\ replies' = replies /\ sessions' = sessions
        /\ run' = run /\ streams' = streams /\ local' = local /\ presses' = presses + 1
    BY <1>3, <2>1 DEF PressTrain, Send, serverVars
  <2>4. wire' = {y} /\ Queued' = {} /\ replies' = {} /\ Requests' = {y} /\ Messages' = {y}
    BY <1>1, <2>3 DEF Queued, Requests, Messages
  <2>5. AtWire'
    BY <2>2, <2>4 DEF AtWire
  <2>6. (Silence /\ Unimproved /\ Few /\ OneAlive /\ Unmade)'
    BY <2>2, <2>3, <2>4 DEF Untouched, Silence, Unimproved, Few, OneAlive, Unmade, Alive
  <2> QED
    BY <1>1, <2>3, <2>5, <2>6 DEF Opening
<1>4. CASE ServerCrash
  <2>1. /\ sessions' = [id \in Ids |-> None] /\ run' = None /\ queue' = <<>>
        /\ streams' = [c \in Pages |-> None] /\ replies' = {} /\ wire' = {}
        /\ page' = [c \in Pages |-> IF page[c] = "streaming" THEN "deaf" ELSE page[c]]
        /\ local' = local /\ presses' = presses
    BY <1>1, <1>2, <1>4 DEF ServerCrash, Crash
  <2>2. Messages' = {}
    BY <2>1 DEF Messages, Requests, Queued
  <2> QED
    BY <1>1, <2>1, <2>2 DEF Untouched, Silence, Unimproved, Alive
<1>5. ~Work /\ ~(TrainStepFailed /\ UNCHANGED pageVars)
  BY <1>1, <1>2 DEF Work, Actor, CreateSession, GetCheckpoint, DeleteSession, StopOutsideRun,
     StartTraining, Take, RunFinished, Drain, TrainStep, TrainStepFailed
<1>6. \A c \in Pages : ~PressStop(c) /\ ~Replied(c) /\ ~Listen(c) /\ ~Deliver(c) /\ ~LoseStream(c)
  BY <1>1 DEF PressStop, SaysTraining, Replied, Listen, HandleProgress, HandleStopped, NextEvent,
     Deliver, LoseStream
<1>7. CASE Faulty
  BY <1>1, <1>2, <1>4, <1>6, <1>7 DEF Faulty
<1> QED
  BY <1>3, <1>5, <1>6, <1>7 DEF Next, Press

----------------------------------------------------------------------------
(* Until the server trains.                                                *)

OneOpens == AtWire \/ AtQueue \/ AtReply

\* The head of the queue is all there was to open a run.
LEMMA TakesOpener ==
    ASSUME TypeOK, OneOpens, wire' = wire, Take, Opens(Head(queue))
    PROVE  (\A m \in Requests' : ~Opens(m)) /\ (\A r \in replies : ~Opened(r))
<1>1. /\ Head(queue) \in Queued /\ Head(queue) = queue[1] /\ 1 \in DOMAIN queue
      /\ queue' \in Seq(Request)
      /\ \A i \in DOMAIN queue' : i + 1 \in DOMAIN queue /\ queue'[i] = queue[i + 1] /\ i >= 1
  BY Taken DEF TypeOK, ServerTypeOK
<1>2. AtQueue
  BY <1>1 DEF OneOpens, AtWire, AtReply, Requests
<1>3. \A i \in DOMAIN queue' : i + 1 # 1
  BY <1>1
<1>4. \A i \in DOMAIN queue' : ~Opens(queue'[i])
  BY <1>1, <1>2, <1>3 DEF AtQueue
<1> QED
  BY <1>2, <1>4 DEF AtQueue, Requests, Queued

\* It is something else.
LEMMA LeavesOpener ==
    ASSUME TypeOK, OneOpens, wire' = wire, Take, ~Opens(Head(queue)), replies' = replies
    PROVE  OneOpens'
<1>1. /\ Head(queue) = queue[1] /\ Queued' \subseteq Queued
      /\ \A i \in DOMAIN queue' : i + 1 \in DOMAIN queue /\ queue'[i] = queue[i + 1] /\ i >= 1
  BY Taken DEF TypeOK, ServerTypeOK
<1>2. \A i \in DOMAIN queue : i = 1 \/ (i - 1 \in DOMAIN queue' /\ queue[i] = queue'[i - 1])
  BY DEF TypeOK, ServerTypeOK, Take
<1>3. CASE AtQueue
  <2>1. PICK i \in DOMAIN queue : Opens(queue[i]) /\ \A j \in DOMAIN queue : Opens(queue[j]) => j = i
    BY <1>3 DEF AtQueue
  <2>2. i - 1 \in DOMAIN queue' /\ Opens(queue'[i - 1])
    BY <1>1, <1>2, <2>1
  <2>3. \A j \in DOMAIN queue' : Opens(queue'[j]) => j + 1 = i
    BY <1>1, <2>1
  <2>4. \A j \in DOMAIN queue' : j + 1 = i => j = i - 1
    BY <1>1, <2>1 DEF TypeOK, ServerTypeOK, Take
  <2> QED
    BY <1>3, <2>2, <2>3, <2>4 DEF AtQueue, OneOpens
<1>4. CASE AtWire
  BY <1>1, <1>4 DEF AtWire, OneOpens
<1>5. CASE AtReply
  BY <1>1, <1>5 DEF AtReply, OneOpens, Requests
<1> QED
  BY <1>3, <1>4, <1>5 DEF OneOpens

\* A request goes down the channel.
LEMMA OpenerEnqueued ==
    ASSUME TypeOK, OneOpens, NEW m \in wire, wire' = wire \ {m}, queue' = Append(queue, m),
           replies' = replies
    PROVE  OneOpens' /\ Requests' \subseteq Requests
<1>1. /\ Queued' = Queued \cup {m} /\ m \in Request
      /\ DOMAIN queue' = DOMAIN queue \cup {Len(queue) + 1}
      /\ \A i \in DOMAIN queue : queue'[i] = queue[i] /\ i # Len(queue) + 1
      /\ queue'[Len(queue) + 1] = m
  BY Appended DEF TypeOK, ServerTypeOK
<1>2. Requests' \subseteq Requests
  BY <1>1 DEF Requests
<1>3. CASE AtWire /\ Opens(m)
  <2>1. \A n \in wire' : ~Opens(n)
    BY <1>3 DEF AtWire
  <2>2. \A i \in DOMAIN queue : ~Opens(queue'[i])
    BY <1>1, <1>3 DEF AtWire, Queued
  <2> QED
    BY <1>1, <1>2, <1>3, <2>1, <2>2 DEF AtWire, AtQueue, OneOpens
<1>4. CASE AtWire /\ ~Opens(m)
  BY <1>1, <1>2, <1>4 DEF AtWire, OneOpens
<1>5. CASE AtQueue
  <2>1. ~Opens(m)
    BY <1>5 DEF AtQueue
  <2> QED
    BY <1>1, <1>2, <1>5, <2>1 DEF AtQueue, OneOpens
<1>6. CASE AtReply
  BY <1>2, <1>6 DEF AtReply, OneOpens
<1> QED
  BY <1>3, <1>4, <1>5, <1>6 DEF OneOpens

\* Fewer requests, the same sessions and answers leave the rest as it is.
LEMMA StillOpening ==
    ASSUME Opening, OneOpens', Requests' \subseteq Requests, replies' \subseteq replies, run' = None,
           \A id \in Ids : Alive(id)' => Alive(id), Unimproved', Silence'
    PROVE  Opening'
BY DEF Opening, OneOpens, Few, OneAlive, Unmade

\* The thread makes the session, refuses to, or starts the run.
LEMMA ServerOpens ==
    ASSUME TypeOK, TypeOK', Opening, Unimproved', \A r \in replies' : ~Result(r),
           Work \/ (TrainStepFailed /\ UNCHANGED pageVars)
    PROVE  Opening' \/ Running' \/ Settled'
<1> DEFINE Goal == Opening' \/ Running' \/ Settled'
<1>1. /\ queue \in Seq(Request) /\ sessions \in [Ids -> Session \cup {None}]
      /\ OneOpens /\ run = None /\ wire' = wire /\ Silence
  BY DEF TypeOK, ServerTypeOK, Opening, OneOpens, Work, pageVars
<1>2. ASSUME Take
      PROVE  /\ Head(queue) \in Requests /\ Head(queue).kind \in {"create", "start", "stop"}
             /\ Requests' \subseteq Requests
  BY <1>1, <1>2, Taken DEF Opening, Few, Requests
<1>3. ASSUME Take, ~Opens(Head(queue)), replies' = replies, streams' = streams, run' = None,
             \A id \in Ids : Alive(id)' => Alive(id)
      PROVE  Goal
  <2>1. OneOpens' /\ Requests' \subseteq Requests /\ Silence'
    BY <1>1, <1>2, <1>3, LeavesOpener DEF Silence
  <2> QED
    BY <1>3, <2>1, StillOpening
<1>4. ASSUME Take, Opens(Head(queue)), run' = None, OneAlive', \A r \in replies' : r \in replies \/ ~Opened(r)
      PROVE  Goal
  <2>1. NoneOpens'
    BY <1>1, <1>4, TakesOpener DEF NoneOpens
  <2> QED
    BY <1>4, <2>1, Settles
<1>5. ASSUME Take, Opens(Head(queue)), Refuse(Head(queue)), run' = run, sessions' = sessions PROVE Goal
  <2>1. OneAlive'
    BY <1>5 DEF Opening, OneAlive, Alive
  <2>2. \A r \in replies' : r \in replies \/ ~Opened(r)
    BY <1>5, Refused DEF Opened
  <2> QED
    BY <1>1, <1>4, <1>5, <2>1, <2>2
<1>6. CASE CreateSession
  <2>1. PICK m : m = Head(queue)
    OBVIOUS
  <2>2. Take /\ m.kind = "create" /\ Opens(m) /\ run' = None /\ streams' = streams /\ m \in Requests
    BY <1>1, <1>2, <1>6, <2>1 DEF CreateSession, Opens
  <2>3. CASE /\ nextId \in Ids /\ \A id \in Ids \ {nextId} : sessions'[id] = sessions[id]
             /\ Answer(m, TRUE, nextId, m.checkpoint)
    <3>1. \A id \in Ids : Alive(id)' => id = nextId
      BY <2>2, <2>3 DEF Opening, Unmade, Alive
    <3>2. OneAlive'
      BY <3>1 DEF OneAlive
    <3>3. (\A n \in Requests' : ~Opens(n)) /\ (\A r \in replies : ~Opened(r))
      BY <1>1, <2>1, <2>2, TakesOpener
    <3>4. PICK a : /\ a = [page |-> m.page, kind |-> m.kind, session |-> nextId, ok |-> TRUE,
                           checkpoint |-> m.checkpoint]
                   /\ replies' = replies \cup (IF m.live THEN {a} ELSE {})
      BY <2>3 DEF Answer
    <3>5. Opened(a) /\ a.kind = "create"
      BY <2>2, <3>4 DEF Opened
    <3>6. CASE m.live
      <4>1. AtReply'
        BY <3>3, <3>4, <3>5, <3>6 DEF AtReply
      <4>2. Few' /\ Unmade'
        BY <1>2, <2>2, <3>3, <3>4, <3>5 DEF Opening, Few, Unmade, Opens
      <4>3. Silence'
        BY <1>1, <2>2 DEF Silence
      <4> QED
        BY <2>2, <3>2, <4>1, <4>2, <4>3 DEF Opening
    <3>7. CASE ~m.live
      <4>1. replies' = replies
        BY <3>4, <3>7
      <4> QED
        BY <1>4, <2>1, <2>2, <3>2, <4>1
    <3> QED
      BY <3>6, <3>7
  <2>4. CASE Refuse(m) /\ sessions' = sessions
    BY <1>1, <1>5, <2>1, <2>2, <2>4
  <2> QED
    BY <1>1, <1>6, <2>1, <2>3, <2>4 DEF CreateSession
<1>7. CASE StopOutsideRun
  <2>1. ~Opens(Head(queue))
    BY <1>7 DEF StopOutsideRun, Opens
  <2> QED
    BY <1>1, <1>3, <1>7, <2>1 DEF StopOutsideRun, Alive
<1>8. CASE StartTraining
  <2>1. PICK m : m = Head(queue)
    OBVIOUS
  <2>2. Take /\ m.kind = "start" /\ streams' = streams
    BY <1>8, <2>1 DEF StartTraining
  <2>3. \/ /\ Known(m.session)
           /\ sessions' = [sessions EXCEPT ![m.session] = WithTrainer(@)]
           /\ Answer(m, TRUE, m.session, Blank(m.page))
           /\ run' = IF m.live THEN [session |-> m.session, limit |-> m.limit] ELSE None
        \/ Refuse(m) /\ UNCHANGED <<sessions, run>>
    BY <1>8, <2>1 DEF StartTraining
  <2>4. \A id \in Ids : Alive(id)' => Alive(id)
    BY <1>1, <2>3 DEF Alive, Known
  <2>5. OneAlive'
    BY <2>4 DEF Opening, OneAlive
  <2>6. CASE ~m.live
    <3>1. ~Opens(m) /\ replies' = replies /\ run' = None
      BY <1>1, <2>2, <2>3, <2>6 DEF Opens, Refuse, Answer
    <3> QED
      BY <1>3, <2>1, <2>2, <2>4, <3>1
  <2>7. CASE m.live
    <3>1. Opens(m)
      BY <2>2, <2>7 DEF Opens
    <3>2. \A r \in replies' : r \in replies \/ r.kind = m.kind
      <4>1. PICK ok, k : Answer(m, ok, m.session, k)
        BY <2>3 DEF Refuse
      <4> QED
        BY <4>1, Answered
    <3>3. \A r \in replies' : r \in replies \/ ~Opened(r)
      BY <2>2, <3>2 DEF Opened
    <3>4. CASE run' = None
      BY <1>4, <2>1, <2>2, <2>5, <3>1, <3>3, <3>4
    <3>5. CASE run' # None
      <4>1. Known(m.session) /\ run'.session = m.session
        <5>1. PICK x : x = [session |-> m.session, limit |-> m.limit]
          OBVIOUS
        <5>2. x.session = m.session
          BY <5>1
        <5>3. Known(m.session) /\ run' = x
          BY <1>1, <2>3, <2>7, <3>5, <5>1
        <5> QED
          BY <5>2, <5>3
      <4>2. \A id \in Ids : Alive(id)' => id = run'.session
        BY <2>4, <4>1 DEF Known, Alive, Opening, OneAlive
      <4>3. NoneOpens'
        BY <1>1, <2>1, <2>2, <3>1, <3>3, TakesOpener DEF NoneOpens
      <4> QED
        BY <3>5, <4>2, <4>3 DEF Running
    <3> QED
      BY <3>4, <3>5
  <2> QED
    BY <2>6, <2>7
<1>9. ~GetCheckpoint /\ ~DeleteSession
  BY <1>2 DEF GetCheckpoint, DeleteSession
<1> QED
  BY <1>1, <1>6, <1>7, <1>8, <1>9 DEF Work, Actor, RunFinished, Drain, TrainStep, TrainStepFailed

\* The page asks to stop, hears that the session is made, or that it is not.
LEMMA PageOpens ==
    ASSUME TypeOK, TypeOK', Opening, Unimproved', presses' = presses, NEW c \in Pages,
           Press(c) \/ Replied(c) \/ Listen(c)
    PROVE  Opening'
<1>1. /\ OneOpens /\ run = None /\ Silence
      /\ \A r \in replies : r.kind = "create"
  BY DEF Opening, OneOpens, Few
<1>2. run' = run /\ sessions' = sessions /\ queue' = queue
  BY DEF Press, PressStop, PressTrain, Replied, CreateReplied, StartReplied, UndoReplied,
     EventsReplied, PullReplied, FinalReplied, DeleteReplied, Receive, Listen, HandleProgress,
     HandleStopped, NextEvent, serverVars
<1>3. ~Listen(c)
  BY <1>1 DEF Silence, Listen, HandleProgress, HandleStopped, NextEvent
<1>4. ASSUME Press(c) PROVE Opening'
  <2>1. PressStop(c)
    BY <1>4 DEF Press, PressTrain, TypeOK
  <2>2. PICK y : y = Ask(c, "stop", session[c])
    OBVIOUS
  <2>3. y.kind = "stop" /\ ~Opens(y)
    BY <2>2 DEF Ask, Opens
  <2>4. /\ wire' = wire \/ wire' = wire \cup {y}
        /\ replies' = replies /\ streams' = streams
    BY <2>1, <2>2 DEF PressStop, Send, serverVars
  <2>5. Queued' = Queued
    BY <1>2 DEF Queued
  <2>6. Requests' \subseteq Requests \cup {y}
    BY <2>4, <2>5 DEF Requests
  <2>7. OneOpens'
    <3>1. AtWire => AtWire'
      BY <2>3, <2>4, <2>5 DEF AtWire
    <3>2. AtQueue => AtQueue'
      BY <1>2, <2>3, <2>4 DEF AtQueue
    <3>3. AtReply => AtReply'
      BY <2>3, <2>4, <2>6 DEF AtReply
    <3> QED
      BY <1>1, <3>1, <3>2, <3>3 DEF OneOpens
  <2>8. (Few /\ OneAlive /\ Unmade /\ Silence)'
    BY <1>2, <2>3, <2>4, <2>6 DEF Opening, Few, OneAlive, Unmade, Alive, Silence
  <2> QED
    BY <1>1, <1>2, <2>7, <2>8 DEF Opening, OneOpens
<1>5. ASSUME Replied(c) PROVE Opening'
  <2>1. PICK r \in replies : r.page = c /\ CreateReplied(r)
    BY <1>1, <1>5 DEF Replied, StartReplied, UndoReplied, EventsReplied, PullReplied, FinalReplied,
       DeleteReplied
  <2>2. replies' = replies \ {r} /\ streams' = streams
    BY <2>1 DEF CreateReplied, Receive
  <2>3. Queued' = Queued /\ Silence'
    BY <1>1, <1>2, <2>2 DEF Queued, Silence
  <2>4. CASE r.ok
    <3>1. PICK y : y = Ask(c, "start", r.session)
      OBVIOUS
    <3>2. y.kind = "start" /\ Opens(y)
      BY <3>1 DEF Ask, Opens
    <3>3. wire' = wire \cup {y}
      BY <2>1, <2>4, <3>1 DEF CreateReplied, Send
    <3>4. Opened(r)
      BY <1>1, <2>4 DEF Opened
    <3>5. (\A s \in replies' : ~Opened(s)) /\ (\A n \in Requests : ~Opens(n))
      <4>1. AtReply
        BY <1>1, <3>4 DEF OneOpens, AtWire, AtQueue
      <4> QED
        BY <2>2, <3>4, <4>1 DEF AtReply
    <3>6. Requests' = Requests \cup {y}
      BY <2>3, <3>3 DEF Requests
    <3>7. AtWire'
      BY <2>3, <3>2, <3>3, <3>5 DEF AtWire, Requests
    <3>8. (Few /\ OneAlive /\ Unmade)'
      BY <1>2, <2>2, <3>2, <3>5, <3>6 DEF Opening, Few, OneAlive, Unmade, Alive, Opens
    <3> QED
      BY <1>1, <1>2, <2>3, <3>7, <3>8 DEF Opening
  <2>5. CASE ~r.ok
    <3>1. wire' = wire /\ ~Opened(r)
      BY <2>1, <2>5 DEF CreateReplied, Opened
    <3>2. Requests' = Requests
      BY <2>3, <3>1 DEF Requests
    <3>3. OneOpens'
      BY <1>1, <1>2, <2>2, <2>3, <3>1, <3>2 DEF OneOpens, AtWire, AtQueue, AtReply
    <3> QED
      BY <1>1, <1>2, <2>2, <2>3, <3>2, <3>3, StillOpening DEF Alive
  <2> QED
    BY <2>4, <2>5
<1> QED
  BY <1>3, <1>4, <1>5

\* The network delivers a request.
LEMMA NetworkOpens ==
    ASSUME TypeOK, Opening, Unimproved', NEW c \in Pages, Deliver(c)
    PROVE  Opening'
<1>1. PICK m \in wire : wire' = wire \ {m} /\ (Subscribe(m) \/ Enqueue(m))
  BY DEF Deliver
<1>2. m.kind # "events"
  BY DEF Opening, Few, Requests
<1>3. /\ queue' = Append(queue, m) /\ sessions' = sessions /\ run' = run /\ streams' = streams
      /\ replies' = replies
  BY <1>1, <1>2 DEF Subscribe, Enqueue
<1>4. OneOpens' /\ Requests' \subseteq Requests
  BY <1>1, <1>3, OpenerEnqueued DEF Opening, OneOpens
<1> QED
  BY <1>3, <1>4, StillOpening DEF Opening, Alive, Silence

\* A failure takes what there was to open a run away, or leaves it.
LEMMA FaultOpens ==
    ASSUME TypeOK, TypeOK', Opening, Unimproved', \A r \in replies' : ~Result(r), Faulty
    PROVE  Opening' \/ Settled'
<1> DEFINE Goal == Opening' \/ Settled'
<1>1. /\ queue \in Seq(Request) /\ wire \subseteq Request /\ replies \subseteq Reply
      /\ OneOpens /\ run = None /\ Silence
      /\ \A r \in replies : r.kind = "create"
      /\ \A m \in Requests : m.kind \in {"create", "start", "stop"}
  BY DEF TypeOK, ServerTypeOK, Opening, OneOpens, Few
<1>2. ASSUME NoneOpens', run' = None, OneAlive' PROVE Goal
  BY <1>2, Settles
<1>3. ASSUME sessions' = sessions PROVE OneAlive' /\ \A id \in Ids : Alive(id)' => Alive(id)
  BY <1>3 DEF Opening, OneAlive, Alive
<1>4. ASSUME NEW m \in wire, LoseRequest(m) PROVE Goal
  <2>1. /\ wire' = wire \ {m} /\ queue' = queue /\ sessions' = sessions /\ run' = run
        /\ streams' = streams
        /\ IF m.kind = "stop" THEN replies' = replies ELSE Refuse(m)
    BY <1>4 DEF LoseRequest
  <2>2. Queued' = Queued /\ Silence' /\ Requests' \subseteq Requests /\ m \in Requests
    BY <1>1, <2>1 DEF Queued, Silence, Requests
  <2>3. \A r \in replies' : r \in replies \/ ~Opened(r)
    BY <2>1, Refused DEF Opened
  <2>4. CASE Opens(m)
    <3>1. AtWire
      BY <1>1, <2>4 DEF OneOpens, AtQueue, AtReply, Requests
    <3>2. NoneOpens'
      BY <2>1, <2>2, <2>3, <2>4, <3>1 DEF AtWire, NoneOpens, Requests
    <3> QED
      BY <1>1, <1>2, <1>3, <2>1, <3>2
  <2>5. CASE ~Opens(m)
    <3>1. replies' = replies
      <4>1. m.kind = "stop" \/ ~m.live
        BY <1>1, <2>2, <2>5 DEF Opens
      <4> QED
        BY <2>1, <4>1 DEF Refuse, Answer
    <3>2. OneOpens'
      BY <1>1, <2>1, <2>2, <2>5, <3>1 DEF OneOpens, AtWire, AtQueue, AtReply
    <3> QED
      BY <1>1, <1>3, <2>1, <2>2, <3>1, <3>2, StillOpening
  <2> QED
    BY <2>4, <2>5
<1>5. ASSUME NEW i \in DOMAIN queue, Disconnect(i), UNCHANGED pageVars PROVE Goal
  <2>1. PICK m : m = queue[i]
    OBVIOUS
  <2>2. PICK d : d = [m EXCEPT !.live = FALSE]
    OBVIOUS
  <2>3. m \in Request /\ m \in Queued /\ m \in Requests
    BY <1>1, <2>1 DEF Queued, Requests
  <2>4. d.kind = m.kind /\ ~d.live
    BY <2>2, <2>3 DEF Request
  <2>5. /\ m.live /\ m.kind # "stop" /\ Refuse(m) /\ queue' = [queue EXCEPT ![i] = d]
        /\ wire' = wire /\ sessions' = sessions /\ run' = run /\ streams' = streams
    BY <1>1, <1>5, <2>1, <2>2 DEF Disconnect, pageVars
  <2>6. Opens(m)
    BY <1>1, <2>3, <2>5 DEF Opens
  <2>7. /\ \A j \in DOMAIN queue : Opens(queue[j]) => j = i
        /\ \A n \in wire : ~Opens(n)
        /\ \A r \in replies : ~Opened(r)
    <3>1. AtQueue
      BY <1>1, <2>3, <2>6 DEF OneOpens, AtWire, AtReply
    <3> QED
      BY <2>1, <2>6, <3>1 DEF AtQueue
  <2>8. /\ DOMAIN queue' = DOMAIN queue /\ queue'[i] = d
        /\ \A j \in DOMAIN queue : j # i => queue'[j] = queue[j]
        /\ Queued' \subseteq Queued \cup {d}
    BY <1>1, <2>5 DEF Queued
  <2>9. \A r \in replies' : r \in replies \/ (r.kind = m.kind /\ ~r.ok)
    BY <2>5, Refused
  <2>10. \A r \in replies' : ~Opened(r)
    BY <2>7, <2>9 DEF Opened
  <2>11. CASE m.kind = "start"
    <3>1. ~Opens(d)
      BY <2>4, <2>11 DEF Opens
    <3>2. \A j \in DOMAIN queue' : ~Opens(queue'[j])
      BY <2>7, <2>8, <3>1
    <3>3. NoneOpens'
      BY <2>5, <2>7, <2>10, <3>2 DEF NoneOpens, Requests, Queued
    <3> QED
      BY <1>1, <1>2, <1>3, <2>5, <3>3
  <2>12. CASE m.kind = "create"
    <3>1. Opens(d)
      BY <2>4, <2>12 DEF Opens
    <3>2. AtQueue'
      BY <2>5, <2>7, <2>8, <2>10, <3>1 DEF AtQueue
    <3>3. Requests' \subseteq Requests \cup {d}
      BY <2>5, <2>8 DEF Requests
    <3>4. Few' /\ Unmade' /\ Silence'
      BY <1>1, <2>3, <2>4, <2>5, <2>9, <2>12, <3>3 DEF Few, Unmade, Silence, Opening, Alive
    <3> QED
      BY <1>1, <1>3, <2>5, <3>2, <3>4 DEF Opening
  <2> QED
    BY <2>6, <2>11, <2>12 DEF Opens
<1>6. ASSUME NEW r \in replies, LoseReply(r) PROVE Goal
  <2>1. PICK d : d = [r EXCEPT !.ok = FALSE]
    OBVIOUS
  <2>2. ~Opened(d)
    BY <1>1, <2>1 DEF Reply, Opened
  <2>3. /\ r.ok /\ replies' = (replies \ {r}) \cup {d} /\ queue' = queue /\ wire' = wire
        /\ sessions' = sessions /\ run' = run
    BY <1>6, <2>1 DEF LoseReply, pageVars
  <2>4. Opened(r) /\ Requests' = Requests
    BY <1>1, <2>3 DEF Opened, Requests, Queued
  <2>5. AtReply
    BY <1>1, <2>4 DEF OneOpens, AtWire, AtQueue
  <2>6. NoneOpens'
    BY <2>2, <2>3, <2>4, <2>5 DEF AtReply, NoneOpens
  <2> QED
    BY <1>1, <1>2, <1>3, <2>3, <2>6
<1>7. ASSUME NEW c \in Pages, LoseStream(c) PROVE Goal
  <2>1. /\ replies' = replies /\ queue' = queue /\ wire' = wire /\ sessions' = sessions /\ run' = run
        /\ streams' = [streams EXCEPT ![c] = None]
    BY <1>7 DEF LoseStream
  <2>2. Requests' = Requests /\ Queued' = Queued /\ Silence'
    BY <1>1, <2>1 DEF Requests, Queued, Silence, TypeOK, ServerTypeOK
  <2>3. OneOpens'
    BY <1>1, <2>1, <2>2 DEF OneOpens, AtWire, AtQueue, AtReply
  <2> QED
    BY <1>1, <1>3, <2>1, <2>2, <2>3, StillOpening
<1>8. CASE ServerCrash
  <2>1. /\ run' = None /\ queue' = <<>> /\ wire' = wire /\ sessions' = [id \in Ids |-> None]
        /\ streams' = [c \in Pages |-> None]
    BY <1>8 DEF ServerCrash, Crash
  <2>2. Queued' = {} /\ Requests' = wire /\ wire \subseteq Requests /\ Silence'
    BY <2>1 DEF Queued, Requests, Silence
  <2>3. OneAlive' /\ \A id \in Ids : ~Alive(id)'
    BY <2>1 DEF OneAlive, Alive
  <2>4. \A q \in replies' : q \in replies \/ (~q.ok /\ \E n \in Queued : n.live /\ n.kind # "stop")
    <3>1. PICK Q : Q = {queue[i] : i \in {j \in DOMAIN queue : queue[j].live /\ queue[j].kind # "stop"}}
      OBVIOUS
    <3>2. \A n \in Q : n \in Queued /\ n.live /\ n.kind # "stop"
      BY <3>1 DEF Queued
    <3>3. replies' = replies \cup {Refusal(n) : n \in Q}
      BY <1>8, <3>1 DEF ServerCrash, Crash, Refusal
    <3>4. \A n : ~Refusal(n).ok
      BY DEF Refusal
    <3> QED
      BY <3>2, <3>3, <3>4
  <2>5. CASE AtQueue
    <3>1. NoneOpens'
      BY <2>2, <2>4, <2>5 DEF AtQueue, NoneOpens, Opened, Opens
    <3> QED
      BY <1>2, <2>1, <2>3, <3>1
  <2>6. CASE ~AtQueue
    <3>1. \A n \in Queued : ~Opens(n)
      BY <1>1, <2>6 DEF OneOpens, AtWire, AtReply, Requests
    <3>2. replies \subseteq replies' /\ \A q \in replies' : q \in replies
      <4>1. \A n \in Queued : ~n.live \/ n.kind = "stop"
        BY <1>1, <3>1 DEF Opens, Requests
      <4> QED
        BY <1>8, <2>4, <4>1 DEF ServerCrash, Crash
    <3>3. replies' = replies
      BY <3>2
    <3>4. OneOpens'
      BY <1>1, <2>1, <2>2, <2>6, <3>3 DEF OneOpens, AtWire, AtReply
    <3> QED
      BY <2>1, <2>2, <2>3, <3>3, <3>4, StillOpening
  <2> QED
    BY <2>5, <2>6
<1> QED
  BY <1>4, <1>5, <1>6, <1>7, <1>8 DEF Faulty

\* The stage before the run leads to it, or past it.
LEMMA OpeningStep ==
    ASSUME TypeOK, TypeOK', Next, presses' = presses, Opening
    PROVE  (Opening' \/ Running' \/ Settled') /\ \A c \in Pages : local'[c] = local[c]
<1>1. \A c \in Pages : local'[c] = local[c]
  BY LocalsChange DEF Opening, Few, Result
<1>2. Unimproved'
  BY <1>1 DEF Opening, Unimproved
<1>3. \A r \in replies' : ~Result(r)
  BY NewReplies DEF Opening, Few, Result, Requests
<1> QED
  BY <1>1, <1>2, <1>3, ServerOpens, PageOpens, NetworkOpens, FaultOpens DEF Next

----------------------------------------------------------------------------
(* The invariant, and what it is for.                                      *)

\* A step presses Train once at most.
LEMMA PressesCounted ==
    ASSUME TypeOK, Next
    PROVE  presses \in Nat /\ (presses' = presses \/ presses' = presses + 1)
<1>1. presses \in Nat
  BY DEF TypeOK
<1> QED
  BY <1>1 DEF Next, Work, TrainStepFailed, Press, PressStop, PressTrain, Replied, CreateReplied,
     StartReplied, UndoReplied, EventsReplied, PullReplied, FinalReplied, DeleteReplied, Listen,
     HandleProgress, HandleStopped, Deliver, Faulty, LoseRequest, LoseReply, LoseStream,
     ServerCrash, pageVars

\* Every step of the only run keeps its stage or goes to a later one, and
\* makes no page's model older.
LEMMA OneRunStep ==
    ASSUME TypeOK, TypeOK', Sound, Next, presses' <= 1, OneRun
    PROVE  OneRun' /\ \A c \in Pages : local'[c].weights >= local[c].weights
<1>1. presses \in Nat /\ (presses' = presses \/ presses' = presses + 1)
  BY PressesCounted
<1>2. \A c \in Pages : local[c].weights \in Nat
  BY CheckpointFields DEF TypeOK, Steps
<1>3. \A c \in Pages : local'[c] = local[c] => local'[c].weights >= local[c].weights
  BY <1>2
<1>4. CASE presses = 0
  <2>1. /\ \A c \in Pages : local'[c] = local[c]
        /\ \/ presses' = presses /\ Untouched'
           \/ presses' = presses + 1 /\ Opening'
    BY <1>4, UntouchedStep DEF OneRun
  <2> QED
    BY <1>3, <1>4, <2>1 DEF OneRun
<1>5. CASE presses = 1 /\ presses' = presses
  <2>1. CASE Opening
    BY <1>3, <1>5, <2>1, OpeningStep DEF OneRun
  <2>2. CASE Running
    BY <1>3, <1>5, <2>2, RunningStep DEF OneRun
  <2>3. CASE Settled
    BY <1>5, <2>3, SettledStep DEF OneRun
  <2> QED
    BY <1>5, <2>1, <2>2, <2>3 DEF OneRun
<1> QED
  BY <1>1, <1>4, <1>5

\* Before anything has happened, nothing is on its way.
LEMMA InitOneRun == Init => OneRun
<1> SUFFICES ASSUME Init PROVE OneRun
  OBVIOUS
<1>1. Messages = {}
  BY DEF Init, ServerInit, Started, Queued, Requests, Messages
<1>2. \A c \in Pages : local[c].weights = 0
  BY BlankFields DEF Init
<1> QED
  BY <1>1, <1>2 DEF Init, ServerInit, Started, OneRun, Untouched, Silence, Unimproved, Alive

\* However late a pull of a run is answered, whatever else is pressed,
\* arrives or fails meanwhile, no page's own model goes back to weights from
\* before the run's result (remote-backend.js, where the answer of a pull is
\* imported whenever it comes; gpu_actor.rs, which refuses it during a run).
THEOREM ResultsStay == Spec => NeverBack
<1> DEFINE Inv == presses <= 1 => OneRun
           Forward == presses' <= 1 => \A c \in Pages : local'[c].weights >= local[c].weights
<1>1. Init => Inv
  BY InitOneRun
<1>2. TypeOK /\ Sound /\ TypeOK' /\ Inv /\ [Next]_vars => Inv' /\ [Forward]_vars
  <2> SUFFICES ASSUME TypeOK, Sound, TypeOK', Inv, [Next]_vars PROVE Inv' /\ [Forward]_vars
    OBVIOUS
  <2>1. CASE UNCHANGED vars
    <3>1. OneRun => OneRun'
      BY <2>1 DEF vars, serverVars, pageVars, OneRun, Untouched, Opening, Running, Settled, Agreed,
         AtWire, AtQueue, AtReply, NoneOpens, Few, OneAlive, Unmade, Unimproved, Silence, Alive,
         Messages, Requests, Queued
    <3> QED
      BY <2>1, <3>1 DEF vars, pageVars
  <2>2. CASE Next
    <3>1. presses' <= 1 => presses <= 1
      BY <2>2, PressesCounted
    <3> QED
      BY <2>2, <3>1, OneRunStep
  <2> QED
    BY <2>1, <2>2
<1>3. Spec => [](TypeOK /\ Sound)
  BY RemoteTypeCorrect
<1> QED
  BY <1>1, <1>2, <1>3, PTL DEF Spec, NeverBack
=============================================================================
