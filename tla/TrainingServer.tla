---------------------------- MODULE TrainingServer ----------------------------
(***************************************************************************)
(* llm-server: the one thread that owns the GPU (gpu_actor.rs), the        *)
(* channel of commands in front of it, and the registry of event senders   *)
(* HTTP handlers subscribe through.  The pages that talk to it are in      *)
(* RemoteTraining, which adds their state to these actions.                *)
(*                                                                         *)
(* A page's weights are abstracted to the number of optimizer steps in     *)
(* them, so a checkpoint says in `step` what its header claims and in      *)
(* `weights` what it really holds.  `page` is history: whose model it is.  *)
(***************************************************************************)
EXTENDS Naturals, Sequences

CONSTANTS Pages,
          None,
          MaxStep,   \* bound on the step counter; an unlimited run trains on
                     \* beyond it uncounted
          MaxId,     \* bound on the session numbers handed out
          Limits,    \* the max_steps a page may ask for; 0 is no limit
          Capacity,  \* EVENT_CHANNEL_CAPACITY
          MaxFaults  \* bound on failures of the device, network and process

ASSUME ServerAssumption ==
    /\ MaxStep \in Nat /\ MaxId \in Nat /\ MaxFaults \in Nat
    /\ Limits \subseteq Nat
    /\ Capacity \in Nat \ {0}
    /\ None \notin Nat

VARIABLES
    sessions,  \* session id -> Session, or None
    nextId,    \* next_id
    run,       \* the run in progress: its session and max_steps, or None
    queue,     \* the std_mpsc channel: commands with their reply senders
    registry,  \* session ids that have an event sender
    streams,   \* page -> its event stream: a session and what is unread, or None
    replies,   \* answers on their way back to the pages
    faults     \* failures so far

serverVars == <<sessions, nextId, run, queue, registry, streams, replies, faults>>

Ids == 1 .. MaxId
Steps == 0 .. MaxStep
Checkpoint == [page : Pages, step : Steps, weights : Steps]
Blank(c) == [page |-> c, step |-> 0, weights |-> 0]

Kinds == {"create", "start", "stop", "pull", "final", "delete", "undo", "events"}

\* A request: `checkpoint` matters to create, `limit` to start.  `live` is
\* false once the HTTP connection, and with it the reply's receiver, is gone.
Request == [page : Pages, kind : Kinds, session : Ids \cup {None},
            checkpoint : Checkpoint, limit : Limits \cup {0}, live : BOOLEAN]

Reply == [page : Pages, kind : Kinds, session : Ids \cup {None},
          ok : BOOLEAN, checkpoint : Checkpoint]

\* gpu_actor::Session: `device` is what its GpuTrainer holds, if it has one.
Session == [page : Pages, step : Steps, weights : Steps, device : Steps \cup {None}]

ASSUME SessionAssumption == None \notin Session

Event == [type : {"progress", "stopped"}, step : Steps]

ServerTypeOK ==
    /\ sessions \in [Ids -> Session \cup {None}]
    /\ nextId \in 1 .. MaxId + 1
    /\ run \in [session : Ids, limit : Limits \cup {0}] \cup {None}
    /\ queue \in Seq(Request)
    /\ registry \subseteq Ids
    /\ streams \in [Pages -> [session : Ids, unread : Seq(Event)] \cup {None}]
    /\ \A c \in Pages : streams[c] # None => Len(streams[c].unread) <= Capacity
    /\ replies \subseteq Reply
    /\ faults \in 0 .. MaxFaults

\* A process that has just opened its device.
Started ==
    /\ sessions = [id \in Ids |-> None] /\ nextId = 1
    /\ run = None /\ registry = {} /\ queue = <<>>

ServerInit ==
    /\ Started
    /\ streams = [c \in Pages |-> None]
    /\ replies = {} /\ faults = 0

----------------------------------------------------------------------------
Fault == faults < MaxFaults /\ faults' = faults + 1

\* reply.send: nobody hears it once the receiver is gone.
Answer(m, ok, session, checkpoint) ==
    replies' = replies \cup
        IF m.live THEN {[page |-> m.page, kind |-> m.kind, session |-> session,
                         ok |-> ok, checkpoint |-> checkpoint]}
        ELSE {}

Refuse(m) == Answer(m, FALSE, m.session, Blank(m.page))

Take == queue # <<>> /\ queue' = Tail(queue)

\* Mutants of Overflow: a channel with no bound; one that drops the newest.
OverflowUnbounded(unread) == unread
OverflowDropsNewest(unread) == SubSeq(unread, 1, Capacity)

\* broadcast::Sender::send: every subscriber gets the event; one that is a
\* whole channel behind loses its oldest.
Overflow(unread) == IF Len(unread) > Capacity THEN Tail(unread) ELSE unread

Broadcast(id, event) ==
    streams' = [c \in Pages |->
        IF streams[c] # None /\ streams[c].session = id
        THEN [streams[c] EXCEPT !.unread = Overflow(Append(@, event))]
        ELSE streams[c]]

Known(id) == id \in Ids /\ sessions[id] # None

----------------------------------------------------------------------------
(* Commands handled between runs: `handle`.                                *)

\* Mutant of CreateSession: the next session gets the same name.
CreateSessionAgain ==
    LET m == Head(queue) IN
    /\ run = None /\ Take /\ m.kind = "create"
    /\ sessions' = [sessions EXCEPT ![nextId] =
          [page |-> m.page, step |-> m.checkpoint.step,
           weights |-> m.checkpoint.weights, device |-> None]]
    /\ Answer(m, TRUE, nextId, m.checkpoint)
    /\ UNCHANGED <<nextId, run, registry, streams, faults>>

\* build_session refuses a checkpoint it cannot read.
CreateSession ==
    LET m == Head(queue) IN
    /\ run = None /\ Take /\ m.kind = "create"
    /\ \/ /\ nextId \in Ids
          /\ sessions' = [sessions EXCEPT ![nextId] =
                [page |-> m.page, step |-> m.checkpoint.step,
                 weights |-> m.checkpoint.weights, device |-> None]]
          /\ nextId' = nextId + 1
          /\ Answer(m, TRUE, nextId, m.checkpoint)
       \/ Refuse(m) /\ UNCHANGED <<sessions, nextId>>
    /\ UNCHANGED <<run, registry, streams, faults>>

\* write_checkpoint from the session's own copy of the weights.
CheckpointOf(id) == [page |-> sessions[id].page, step |-> sessions[id].step,
                     weights |-> sessions[id].weights]

GiveCheckpoint(m) ==
    IF Known(m.session)
    THEN Answer(m, TRUE, m.session, CheckpointOf(m.session))
    ELSE Refuse(m)

GetCheckpoint ==
    LET m == Head(queue) IN
    /\ run = None /\ Take /\ m.kind \in {"pull", "final"}
    /\ GiveCheckpoint(m)
    /\ UNCHANGED <<sessions, nextId, run, registry, streams, faults>>

\* Removing the sender would end the streams of those still subscribed; the
\* page only deletes a session it has stopped listening to.
DeleteSession ==
    LET m == Head(queue) IN
    /\ run = None /\ Take /\ m.kind \in {"delete", "undo"}
    /\ sessions' = [id \in Ids |-> IF id = m.session THEN None ELSE sessions[id]]
    /\ registry' = registry \ {m.session}
    /\ Answer(m, TRUE, m.session, Blank(m.page))
    /\ UNCHANGED <<nextId, run, streams, faults>>

\* A stop outside a run is a no-op.
StopOutsideRun ==
    /\ run = None /\ Take /\ Head(queue).kind = "stop"
    /\ UNCHANGED <<sessions, nextId, run, registry, streams, replies, faults>>

\* run_training up to its loop.  The sender is registered before the answer
\* goes out; if nobody is there to hear the answer, nothing runs.
WithTrainer(session) ==
    IF session.device = None THEN [session EXCEPT !.device = session.weights] ELSE session

StartTraining ==
    LET m == Head(queue) IN
    /\ run = None /\ Take /\ m.kind = "start"
    /\ \/ /\ Known(m.session)
          /\ sessions' = [sessions EXCEPT ![m.session] = WithTrainer(@)]
          /\ registry' = registry \cup {m.session}
          /\ Answer(m, TRUE, m.session, Blank(m.page))
          /\ run' = IF m.live THEN [session |-> m.session, limit |-> m.limit] ELSE None
       \/ Refuse(m) /\ UNCHANGED <<sessions, registry, run>>   \* no session, or no trainer
    /\ UNCHANGED <<nextId, streams, faults>>

----------------------------------------------------------------------------
(* The training loop.                                                      *)

Finished == run.limit > 0 /\ sessions[run.session].step >= run.limit

\* After the loop: pull the trained weights into the session's own copy, a
\* failure of which is ignored, and say how it ended.
EndRun ==
    /\ run' = None
    /\ \/ /\ sessions' = [sessions EXCEPT ![run.session].weights = sessions[run.session].device]
          /\ UNCHANGED faults
       \/ Fault /\ UNCHANGED sessions
    /\ Broadcast(run.session, [type |-> "stopped", step |-> sessions[run.session].step])

RunFinished ==
    /\ run # None /\ Finished
    /\ EndRun
    /\ UNCHANGED <<nextId, registry, queue, replies>>

\* Mutant of Reject: checkpoints are served from the middle of a run.
RejectButServe(m) ==
    IF m.kind = "stop" THEN UNCHANGED replies
    ELSE IF m.kind \in {"pull", "final"} THEN GiveCheckpoint(m) ELSE Refuse(m)

\* Between steps whatever arrived is drained: a stop for this session ends
\* the run, everything else is told the GPU is busy.
Reject(m) == IF m.kind = "stop" THEN UNCHANGED replies ELSE Refuse(m)

\* Mutant of Drain: a stop is rejected like anything else.
DrainDeaf ==
    /\ run # None /\ ~Finished /\ Take
    /\ Reject(Head(queue))
    /\ UNCHANGED <<sessions, run, streams, faults, nextId, registry>>

Drain ==
    LET m == Head(queue) IN
    /\ run # None /\ ~Finished /\ Take
    /\ IF m.kind = "stop" /\ m.session = run.session
       THEN EndRun /\ UNCHANGED replies
       ELSE Reject(m) /\ UNCHANGED <<sessions, run, streams, faults>>
    /\ UNCHANGED <<nextId, registry>>

\* One optimizer step, reported if the progress interval has passed.
TrainStep(reported) ==
    LET id == run.session
        step == sessions[id].step + 1
    IN
    /\ run # None /\ ~Finished /\ queue = <<>>
    /\ step <= MaxStep
    /\ sessions' = [sessions EXCEPT ![id].step = step, ![id].device = @ + 1]
    /\ IF reported THEN Broadcast(id, [type |-> "progress", step |-> step])
       ELSE UNCHANGED streams
    /\ UNCHANGED <<nextId, run, queue, registry, replies, faults>>

\* Not enough text for a batch, or a step that failed before its update.
TrainStepFailed ==
    /\ run # None /\ ~Finished /\ queue = <<>>
    /\ EndRun
    /\ UNCHANGED <<nextId, queue, registry, replies>>

----------------------------------------------------------------------------
(* What does not go through the actor.                                     *)

\* GET train/events: a receiver from the registry's sender, which hears
\* what is sent from now on; 404 when nothing has started.
Subscribe(m) ==
    LET known == m.session \in registry IN
    /\ m.kind = "events"
    /\ streams' = [streams EXCEPT ![m.page] =
          IF known THEN [session |-> m.session, unread |-> <<>>] ELSE @]
    /\ Answer(m, known, m.session, Blank(m.page))
    /\ UNCHANGED <<sessions, nextId, run, queue, registry, faults>>

\* Any other request: its handler sends a command down the channel.
Enqueue(m) ==
    /\ m.kind # "events"
    /\ queue' = Append(queue, m)
    /\ UNCHANGED <<sessions, nextId, run, registry, streams, replies, faults>>

\* The connection behind a queued command is lost: the handler is dropped
\* and the page's request fails; the command stays in the channel.
Disconnect(i) ==
    /\ Fault
    /\ queue[i].live /\ queue[i].kind # "stop"
    /\ queue' = [queue EXCEPT ![i].live = FALSE]
    /\ Refuse(queue[i])
    /\ UNCHANGED <<sessions, nextId, run, registry, streams>>

\* The process dies and is started again with nothing: every stream breaks
\* and every request waiting in the channel fails.
Crash ==
    /\ Fault
    /\ sessions' = [id \in Ids |-> None] /\ nextId' = 1
    /\ run' = None /\ registry' = {} /\ queue' = <<>>
    /\ streams' = [c \in Pages |-> None]
    /\ replies' = replies \cup
          {[page |-> m.page, kind |-> m.kind, session |-> m.session, ok |-> FALSE,
            checkpoint |-> Blank(m.page)] :
           m \in {queue[i] : i \in {j \in DOMAIN queue : queue[j].live /\ queue[j].kind # "stop"}}}

\* What the thread does as long as no step of a run fails.
Actor ==
    \/ CreateSession \/ GetCheckpoint \/ DeleteSession \/ StopOutsideRun \/ StartTraining
    \/ RunFinished \/ Drain
    \/ \E reported \in BOOLEAN : TrainStep(reported)
=============================================================================
