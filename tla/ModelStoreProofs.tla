--------------------------- MODULE ModelStoreProofs ---------------------------
(***************************************************************************)
(* Proofs about ModelStore, for any bounds and either way of replacing a   *)
(* project.                                                                *)
(***************************************************************************)
EXTENDS ModelStore, TLAPS

USE StoreAssumption

\* What waits behind an autosave is bytes or a wish for an export.
LEMMA PendingForm ==
    ASSUME TypeOK
    PROVE  pending = <<>> \/ (pending # <<>> /\ pending[1] \in Bytes \cup {None})
BY DEF TypeOK

\* The parts of a model, of its bytes and of what autosave holds.
LEMMA Fields ==
    /\ \A m \in Model : /\ m.project \in Projects /\ m.steps \in Steps
                        /\ m.moments \in Projects \cup {None} /\ Weights(m) \in Bytes
                        /\ Weights(m).project = m.project /\ Weights(m).steps = m.steps
    /\ \A b \in Bytes : b.project \in Projects /\ b.steps \in Steps
    /\ \A s \in Saves : s.bytes \in Bytes \cup {None} /\ s.moments \in Projects \cup {None}
    /\ Projects \subseteq Nat /\ Steps \subseteq Nat
BY DEF Model, Bytes, Weights, Saves, Projects, Steps

\* The projects and steps the state mentions are numbers.
LEMMA Numbers ==
    ASSUME TypeOK
    PROVE  /\ project \in Nat
           /\ model # None => model.project \in Nat /\ model.steps \in Nat
           /\ store # None => store.project \in Nat /\ store.steps \in Nat
           /\ saving # None => saving.project \in Nat /\ saving.steps \in Nat
           /\ heard # None => heard.project \in Nat /\ heard.steps \in Nat
           /\ saver.bytes # None => saver.bytes.project \in Nat /\ saver.bytes.steps \in Nat
           /\ pending # <<>> /\ pending[1] # None => pending[1].project \in Nat /\ pending[1].steps \in Nat
           /\ \A i \in DOMAIN mail : mail[i].project \in Nat /\ mail[i].steps \in Nat
<1>1. \A b \in Bytes : b.project \in Nat /\ b.steps \in Nat
  BY Fields
<1>2. \A m \in Model : m.project \in Nat /\ m.steps \in Nat
  BY Fields
<1>3. pending # <<>> => pending[1] \in Bytes \cup {None}
  BY DEF TypeOK
<1>4. saver.bytes \in Bytes \cup {None}
  BY Fields DEF TypeOK
<1>5. \A i \in DOMAIN mail : mail[i] \in Bytes
  BY DEF TypeOK
<1>6. project \in Nat
  BY Fields DEF TypeOK
<1> QED
  BY <1>1, <1>2, <1>3, <1>4, <1>5, <1>6 DEF TypeOK

\* A model put together from its parts.
LEMMA Parts ==
    ASSUME NEW p \in Projects, NEW n \in Steps, NEW o \in Projects \cup {None}
    PROVE  /\ [project |-> p, steps |-> n, moments |-> o] \in Model
           /\ [project |-> p, steps |-> n, moments |-> o].project = p
           /\ [project |-> p, steps |-> n, moments |-> o].steps = n
BY DEF Model

\* What Start leaves autosave with.
LEMMA Starts ==
    ASSUME NEW b \in Bytes \cup {None}, Start(b)
    PROVE  /\ saver' \in Saves /\ saver'.bytes = b
           /\ saver'.at = IF b = None THEN "asking" ELSE "reading"
BY DEF Start, Saves

\* What the `finally` of autosave leaves.
LEMMA Finishes ==
    ASSUME TypeOK, NEW failed \in BOOLEAN, Finish(failed)
    PROVE  /\ missed' = failed /\ pending' = <<>> /\ saver' \in Saves
           /\ pending = <<>> => saver'.at = "idle" /\ saver'.bytes = None
           /\ pending # <<>> => /\ saver'.bytes = pending[1]
                                /\ saver'.at = IF pending[1] = None THEN "asking" ELSE "reading"
<1>1. CASE pending = <<>>
  BY <1>1 DEF Finish, Idle, Saves
<1>2. CASE pending # <<>>
  BY <1>2, PendingForm, Starts DEF Finish
<1> QED
  BY <1>1, <1>2 DEF Finish

\* A record with some fields replaced, field by field.
LEMMA Updates ==
    /\ \A m \in Model, o \in Projects \cup {None} :
          [m EXCEPT !.moments = o] = [project |-> m.project, steps |-> m.steps, moments |-> o]
    /\ \A s \in Saves, b \in Bytes :
          [s EXCEPT !.at = "reading", !.bytes = b] = [at |-> "reading", bytes |-> b, moments |-> s.moments]
    /\ \A s \in Saves, o \in Projects \cup {None} :
          [s EXCEPT !.at = "putting", !.moments = o] = [at |-> "putting", bytes |-> s.bytes, moments |-> o]
<1>1. ASSUME NEW m \in Model, NEW o \in Projects \cup {None}
      PROVE  [m EXCEPT !.moments = o] = [project |-> m.project, steps |-> m.steps, moments |-> o]
  BY DEF Model
<1>2. ASSUME NEW s \in Saves, NEW b \in Bytes
      PROVE  [s EXCEPT !.at = "reading", !.bytes = b] = [at |-> "reading", bytes |-> b, moments |-> s.moments]
  <2>1. [s EXCEPT !.at = "reading"] = [at |-> "reading", bytes |-> s.bytes, moments |-> s.moments]
    BY DEF Saves
  <2>2. [[at |-> "reading", bytes |-> s.bytes, moments |-> s.moments] EXCEPT !.bytes = b]
        = [at |-> "reading", bytes |-> b, moments |-> s.moments]
    OBVIOUS
  <2> QED
    BY <2>1, <2>2
<1>3. ASSUME NEW s \in Saves, NEW o \in Projects \cup {None}
      PROVE  [s EXCEPT !.at = "putting", !.moments = o] = [at |-> "putting", bytes |-> s.bytes, moments |-> o]
  <2>1. [s EXCEPT !.at = "putting"] = [at |-> "putting", bytes |-> s.bytes, moments |-> s.moments]
    BY DEF Saves
  <2>2. [[at |-> "putting", bytes |-> s.bytes, moments |-> s.moments] EXCEPT !.moments = o]
        = [at |-> "putting", bytes |-> s.bytes, moments |-> o]
    OBVIOUS
  <2> QED
    BY <2>1, <2>2
<1> QED
  BY <1>1, <1>2, <1>3

\* What is left in the mail when the first message is heard.
LEMMA Mail ==
    ASSUME mail \in Seq(Bytes), mail # <<>>
    PROVE  /\ 1 \in DOMAIN mail /\ Head(mail) = mail[1] /\ Head(mail) \in Bytes
           /\ Tail(mail) \in Seq(Bytes) /\ Len(Tail(mail)) = Len(mail) - 1
           /\ \A i \in DOMAIN Tail(mail) : i + 1 \in DOMAIN mail /\ Tail(mail)[i] = mail[i + 1]
OBVIOUS

\* What waits to be heard is bytes.
LEMMA MailFields ==
    ASSUME mail \in Seq(Bytes)
    PROVE  /\ \A i \in DOMAIN mail : mail[i] \in Bytes
           /\ mail = <<>> => DOMAIN mail = {}
OBVIOUS

\* An autosave at rest.
LEMMA Rest == Idle \in Saves /\ Idle.at = "idle" /\ Idle.bytes = None
BY DEF Idle, Saves

\* Going on is a change of phase.
LEMMA GoesOn ==
    ASSUME TypeOK, NEW at \in {"exporting", "writing"}, GoOn(at)
    PROVE  /\ missed' = missed /\ pending' = pending /\ saver' \in Saves
           /\ saver'.at = at /\ saver'.bytes = saver.bytes
BY DEF GoOn, TypeOK, Saves

\* Every initial state satisfies the inductive invariant.
LEMMA InitStoreInv == Init => StoreInv
<1> SUFFICES ASSUME Init PROVE StoreInv
  OBVIOUS
<1>1. <<>> \in Seq(Bytes) /\ Len(<<>>) = 0
  OBVIOUS
<1>2. TypeOK
  <2>1. project \in Projects /\ posted \in Steps \cup {None}
    BY DEF Init, Projects
  <2>2. pending \in {<<>>} \cup {<<bytes>> : bytes \in Bytes \cup {None}}
    BY DEF Init
  <2>3. mail \in Seq(Bytes) /\ Len(mail) <= MaxMail
    BY <1>1 DEF Init
  <2> QED
    BY <2>1, <2>2, <2>3, Rest DEF Init, TypeOK
<1>3. Present /\ Ordered /\ Covered /\ OneExportAtATime
  BY Rest DEF Init, Present, Ordered, Begun, Covered, OneExportAtATime, SaverCatchesUp, Holding
<1> QED
  BY <1>2, <1>3 DEF StoreInv

\* Every step preserves it: one case per action.
LEMMA NextStoreInv == StoreInv /\ [Next]_vars => StoreInv'
<1> SUFFICES ASSUME StoreInv, [Next]_vars PROVE StoreInv'
  OBVIOUS
<1> USE Fields, Numbers, PendingForm DEF StoreInv, page, history, Exporting, Import, Holding
<1>1. ASSUME PressTrain PROVE StoreInv'
  <2>1. /\ run = "idle" /\ run' = "running" /\ known' = TRUE /\ posted' = None
        /\ \/ known /\ model' = model
           \/ ~known /\ model' \in Model /\ model'.project = project
        /\ UNCHANGED <<project, store, saving, saver, pending, mail, clearing, heard, missed>>
    <3>1. CASE known
      BY <1>1, <3>1 DEF PressTrain, TypeOK
    <3>2. CASE ~known
      <4>1. model' = [project |-> project, steps |-> 0, moments |-> None]
        BY <1>1, <3>2 DEF PressTrain
      <4>2. project \in Projects /\ 0 \in Steps
        BY DEF TypeOK, Steps
      <4>3. model' \in Model /\ model'.project = project
        BY <4>1, <4>2, Parts
      <4> QED
        BY <1>1, <3>2, <4>3 DEF PressTrain
    <3> QED
      BY <3>1, <3>2 DEF TypeOK
  <2>2. TypeOK'
    BY <1>1, <2>1 DEF PressTrain, TypeOK
  <2>3. Present'
    BY <2>1 DEF TypeOK, Present
  <2>4. Ordered'
    BY <2>1, MailFields DEF TypeOK, Present, Ordered, Begun, NotAhead
  <2>5. Covered'
    BY <2>1 DEF TypeOK, Present, Ordered, NotAhead, Covered, Covers, SaverCatchesUp
  <2>6. OneExportAtATime'
    BY <2>1 DEF TypeOK, OneExportAtATime
  <2> QED
    BY <2>2, <2>3, <2>4, <2>5, <2>6
<1>2. ASSUME TrainStep PROVE StoreInv'
  <2>1. /\ run = "running" /\ model' \in Model
        /\ model'.project = model.project /\ model'.steps = model.steps + 1
        /\ UNCHANGED <<project, known, store, run, saving, saver, pending, mail, clearing, posted, heard, missed>>
    <3>1. model \in Model /\ model.steps + 1 \in Steps
      BY <1>2 DEF TrainStep, TypeOK, Present, Steps
    <3>2. (IF model.moments = None THEN model.project ELSE model.moments) \in Projects \cup {None}
      BY <3>1
    <3>3. model' = [project |-> model.project, steps |-> model.steps + 1,
                    moments |-> IF model.moments = None THEN model.project ELSE model.moments]
      <4> DEFINE n == model.steps + 1
                 o == IF model.moments = None THEN model.project ELSE model.moments
      <4>1. n \in Steps /\ o \in Projects \cup {None}
        BY <3>1, <3>2
      <4>2. model' = [model EXCEPT !.steps = n, !.moments = o]
        BY <1>2 DEF TrainStep
      <4> HIDE DEF n, o
      <4>3. [model EXCEPT !.steps = n, !.moments = o]
            = [project |-> model.project, steps |-> n, moments |-> o]
        <5>1. [model EXCEPT !.steps = n] = [project |-> model.project, steps |-> n, moments |-> model.moments]
          BY <3>1 DEF Model
        <5>2. [[project |-> model.project, steps |-> n, moments |-> model.moments] EXCEPT !.moments = o]
              = [project |-> model.project, steps |-> n, moments |-> o]
          OBVIOUS
        <5> QED
          BY <5>1, <5>2
      <4> QED
        BY <4>2, <4>3 DEF n, o
    <3>4. model' \in Model /\ model'.project = model.project /\ model'.steps = model.steps + 1
      BY <3>1, <3>2, <3>3, Parts
    <3> QED
      BY <1>2, <3>4 DEF TrainStep
  <2>2. TypeOK'
    BY <1>2, <2>1 DEF TrainStep, TypeOK
  <2>3. Present'
    BY <2>1 DEF TypeOK, Present
  <2>4. Ordered'
    BY <2>1 DEF TypeOK, Present, Ordered, Begun, NotAhead
  <2>5. Covered'
    BY <2>1 DEF TypeOK, Present, Ordered, NotAhead, Covered, Covers, SaverCatchesUp
  <2>6. OneExportAtATime'
    BY <2>1 DEF TypeOK, OneExportAtATime
  <2> QED
    BY <2>2, <2>3, <2>4, <2>5, <2>6
<1>3. ASSUME PostAutosave PROVE StoreInv'
  <2>1. TypeOK'
    BY <1>3 DEF PostAutosave, TypeOK, Present
  <2>2. Present'
    BY <1>3, <2>1 DEF PostAutosave, TypeOK, Present
  <2>3. Ordered'
    BY <1>3, <2>1 DEF PostAutosave, TypeOK, Present, Ordered, Begun, NotAhead, Weights
  <2>4. Covered'
    BY <1>3, <2>1 DEF PostAutosave, TypeOK, Present, Ordered, Begun, NotAhead, Covered, Covers, SaverCatchesUp, Weights
  <2>5. OneExportAtATime'
    BY <1>3 DEF PostAutosave, TypeOK, OneExportAtATime
  <2> QED
    BY <2>1, <2>2, <2>3, <2>4, <2>5
<1>4. ASSUME RunEnds PROVE StoreInv'
  <2>1. TypeOK'
    BY <1>4 DEF RunEnds, TypeOK, Present
  <2>2. Present'
    BY <1>4, <2>1 DEF RunEnds, TypeOK, Present
  <2>3. Ordered'
    BY <1>4, <2>1 DEF RunEnds, TypeOK, Present, Ordered, Begun, NotAhead, Weights
  <2>4. Covered'
    BY <1>4, <2>1 DEF RunEnds, TypeOK, Present, Ordered, Begun, NotAhead, Covered, Covers, SaverCatchesUp, Weights
  <2>5. OneExportAtATime'
    BY <1>4 DEF RunEnds, TypeOK, OneExportAtATime
  <2> QED
    BY <2>1, <2>2, <2>3, <2>4, <2>5
<1>5. ASSUME SaveModel PROVE StoreInv'
  <2>1. TypeOK'
    BY <1>5 DEF SaveModel, TypeOK, Present
  <2>2. Present'
    BY <1>5, <2>1 DEF SaveModel, TypeOK, Present
  <2>3. Ordered'
    BY <1>5, <2>1 DEF SaveModel, TypeOK, Present, Ordered, Begun, NotAhead, Weights
  <2>4. Covered'
    BY <1>5, <2>1 DEF SaveModel, TypeOK, Present, Ordered, Begun, NotAhead, Covered, Covers, SaverCatchesUp, Weights
  <2>5. OneExportAtATime'
    BY <1>5 DEF SaveModel, TypeOK, OneExportAtATime
  <2> QED
    BY <2>1, <2>2, <2>3, <2>4, <2>5
<1>6. ASSUME SaveModelExported PROVE StoreInv'
  <2>1. /\ run = "exporting"
        /\ \/ /\ run' = "putting" /\ saving' \in Model
              /\ saving'.project = model.project /\ saving'.steps = model.steps
           \/ run' = "idle" /\ saving' = saving
        /\ UNCHANGED <<project, model, known, store, saver, pending, mail, clearing, posted, heard, missed>>
    <3>1. run = "exporting" /\ model \in Model
      BY <1>6 DEF SaveModelExported, TypeOK, Present
    <3>2. [model EXCEPT !.moments = None] \in Model
          /\ [model EXCEPT !.moments = None].project = model.project
          /\ [model EXCEPT !.moments = None].steps = model.steps
      <4>1. model.project \in Projects /\ model.steps \in Steps
        BY <3>1
      <4>2. [model EXCEPT !.moments = None]
            = [project |-> model.project, steps |-> model.steps, moments |-> None]
        BY <3>1, Updates
      <4> QED
        BY <4>1, <4>2, Parts
    <3> QED
      BY <1>6, <3>1, <3>2 DEF SaveModelExported
  <2>2. TypeOK'
    BY <1>6, <2>1 DEF SaveModelExported, TypeOK
  <2>3. Present'
    BY <2>1 DEF TypeOK, Present
  <2>4. Ordered'
    BY <2>1 DEF TypeOK, Present, Ordered, Begun, NotAhead
  <2>5. Covered'
    BY <2>1 DEF TypeOK, Present, Ordered, NotAhead, Covered, Covers, SaverCatchesUp
  <2>6. OneExportAtATime'
    BY <2>1 DEF TypeOK, OneExportAtATime
  <2> QED
    BY <2>2, <2>3, <2>4, <2>5, <2>6
<1>7. ASSUME SaveModelPut PROVE StoreInv'
  <2>1. TypeOK'
    BY <1>7 DEF SaveModelPut, TypeOK, Present
  <2>2. Present'
    BY <1>7, <2>1 DEF SaveModelPut, TypeOK, Present
  <2>3. Ordered'
    BY <1>7, <2>1 DEF SaveModelPut, TypeOK, Present, Ordered, Begun, NotAhead, Weights
  <2>4. Covered'
    BY <1>7, <2>1 DEF SaveModelPut, TypeOK, Present, Ordered, Begun, NotAhead, Covered, Covers, SaverCatchesUp, Weights
  <2>5. OneExportAtATime'
    BY <1>7 DEF SaveModelPut, TypeOK, OneExportAtATime
  <2> QED
    BY <2>1, <2>2, <2>3, <2>4, <2>5
<1>8. ASSUME Ask PROVE StoreInv'
  <2>1. TypeOK'
    BY <1>8, Finishes, GoesOn, ZenonT(60) DEF Ask, TypeOK, Present
  <2>2. Present'
    BY <1>8, <2>1, Finishes, GoesOn DEF Ask, TypeOK, Present
  <2>3. Ordered'
    BY <1>8, <2>1, Finishes, GoesOn DEF Ask, TypeOK, Present, Ordered, Begun, NotAhead, Weights
  <2>4. Covered'
    BY <1>8, <2>1, Finishes, GoesOn DEF Ask, TypeOK, Present, Ordered, Begun, NotAhead, Covered, Covers, SaverCatchesUp, Weights
  <2>5. OneExportAtATime'
    BY <1>8, Finishes, GoesOn DEF Ask, TypeOK, OneExportAtATime
  <2> QED
    BY <2>1, <2>2, <2>3, <2>4, <2>5
<1>9. ASSUME Exported PROVE StoreInv'
  <2>1. /\ saver.at = "exporting"
        /\ \/ /\ saver' \in Saves /\ saver'.at = "reading" /\ saver'.bytes = Weights(model)
              /\ pending' = pending /\ missed' = missed
           \/ Finish(TRUE)
        /\ UNCHANGED <<project, model, known, store, run, saving, mail, clearing, posted, heard>>
    <3>1. Weights(model) \in Bytes /\ saver \in Saves
      BY <1>9 DEF Exported, TypeOK, Present
    <3>2. [saver EXCEPT !.at = "reading", !.bytes = Weights(model)]
          = [at |-> "reading", bytes |-> Weights(model), moments |-> saver.moments]
      BY <3>1, Updates
    <3>3. [at |-> "reading", bytes |-> Weights(model), moments |-> saver.moments] \in Saves
      BY <3>1 DEF Saves
    <3> QED
      BY <1>9, <3>2, <3>3 DEF Exported, TypeOK, Finish
  <2>2. TypeOK'
    BY <1>9, <2>1, Finishes, GoesOn, ZenonT(60) DEF TypeOK
  <2>3. Present'
    BY <2>1, Finishes, GoesOn, ZenonT(60) DEF TypeOK, Present
  <2>4. Ordered'
    BY <2>1, Finishes, GoesOn DEF TypeOK, Present, Ordered, Begun, NotAhead
  <2>5. Covered'
    <3>1. run' = run /\ run = "putting" => Covers(saving)' /\ (saving.project = model.project => saving.steps >= model.steps)'
      BY <2>1 DEF Covered, Covers
    <3>2. CASE Finish(TRUE)
      BY <2>1, <3>1, <3>2, Finishes DEF TypeOK, Present, Covered, Covers, SaverCatchesUp
    <3>3. CASE saver'.at = "reading" /\ saver'.bytes = Weights(model) /\ pending' = pending
      BY <2>1, <3>1, <3>3 DEF TypeOK, Present, Ordered, NotAhead, Covered, Covers, SaverCatchesUp
    <3> QED
      BY <2>1, <3>2, <3>3
  <2>6. OneExportAtATime'
    BY <2>1, Finishes, GoesOn DEF TypeOK, OneExportAtATime
  <2> QED
    BY <2>2, <2>3, <2>4, <2>5, <2>6
<1>10. ASSUME Read PROVE StoreInv'
  <2>1. /\ saver.at = "reading"
        /\ saver' \in Saves /\ saver'.at = "putting" /\ saver'.bytes = saver.bytes
        /\ UNCHANGED <<project, model, known, store, run, saving, pending, mail, clearing, posted, heard, missed>>
    BY <1>10, Updates DEF Read, TypeOK, Saves
  <2>2. TypeOK'
    BY <1>10, <2>1 DEF Read, TypeOK
  <2>3. Present'
    BY <2>1 DEF TypeOK, Present
  <2>4. Ordered'
    BY <2>1 DEF TypeOK, Present, Ordered, Begun, NotAhead
  <2>5. Covered'
    BY <2>1 DEF TypeOK, Present, Ordered, NotAhead, Covered, Covers, SaverCatchesUp
  <2>6. OneExportAtATime'
    BY <2>1 DEF TypeOK, OneExportAtATime
  <2> QED
    BY <2>2, <2>3, <2>4, <2>5, <2>6
<1>11. ASSUME Put PROVE StoreInv'
  <2>1. /\ saver.at = "putting" /\ saver.bytes \in Bytes
        /\ \/ /\ store' \in Model
              /\ store'.project = saver.bytes.project /\ store'.steps = saver.bytes.steps
              /\ GoOn("writing") \/ Finish(FALSE)
           \/ store' = store /\ Finish(TRUE)
        /\ UNCHANGED <<project, model, known, run, saving, mail, clearing, posted, heard>>
    <3>1. saver \in Saves /\ saver.bytes \in Bytes
      BY <1>11 DEF Put, TypeOK, Present
    <3>2. store' = [project |-> saver.bytes.project, steps |-> saver.bytes.steps, moments |-> saver.moments]
          => /\ store' \in Model
             /\ store'.project = saver.bytes.project /\ store'.steps = saver.bytes.steps
      BY <3>1, Parts
    <3> QED
      BY <1>11, <3>1, <3>2 DEF Put
  <2>2. TypeOK'
    BY <1>11, <2>1, Finishes, GoesOn, ZenonT(60) DEF TypeOK
  <2>3. Present'
    BY <2>1, Finishes, GoesOn DEF TypeOK, Present
  <2>4. Ordered'
    BY <2>1, Finishes, GoesOn DEF TypeOK, Present, Ordered, Begun, NotAhead
  <2>5. Covered'
    BY <2>1, Finishes, GoesOn DEF TypeOK, Present, Ordered, NotAhead, Covered, Covers, SaverCatchesUp
  <2>6. OneExportAtATime'
    BY <2>1, Finishes, GoesOn DEF TypeOK, OneExportAtATime
  <2> QED
    BY <2>2, <2>3, <2>4, <2>5, <2>6
<1>12. ASSUME Written PROVE StoreInv'
  <2>1. TypeOK'
    BY <1>12, Finishes, GoesOn DEF Written, TypeOK, Present
  <2>2. Present'
    BY <1>12, <2>1, Finishes, GoesOn DEF Written, TypeOK, Present
  <2>3. Ordered'
    BY <1>12, <2>1, Finishes, GoesOn DEF Written, TypeOK, Present, Ordered, Begun, NotAhead, Weights
  <2>4. Covered'
    BY <1>12, <2>1, Finishes, GoesOn DEF Written, TypeOK, Present, Ordered, Begun, NotAhead, Covered, Covers, SaverCatchesUp, Weights
  <2>5. OneExportAtATime'
    BY <1>12, Finishes, GoesOn DEF Written, TypeOK, OneExportAtATime
  <2> QED
    BY <2>1, <2>2, <2>3, <2>4, <2>5
<1>13. ASSUME HearAutosave PROVE StoreInv'
  <2>1. /\ mail # <<>> /\ mail' = Tail(mail) /\ heard' = Head(mail)
        /\ \/ saver.at = "idle" /\ Start(Head(mail)) /\ pending' = pending
           \/ saver.at # "idle" /\ pending' = <<Head(mail)>> /\ saver' = saver
        /\ UNCHANGED <<project, model, known, store, run, saving, clearing, posted, missed>>
    BY <1>13 DEF HearAutosave, Autosave
  <2>2. TypeOK'
    BY <1>13, <2>1, Starts, Mail DEF TypeOK
  <2>3. Present'
    BY <2>1, Starts, Mail, MailFields DEF TypeOK, Present
  <2>4. Ordered'
    BY <2>1, Starts, Mail, MailFields, SMTT(60) DEF TypeOK, Present, Ordered, Begun, NotAhead
  <2>5. Covered'
    <3>1. run' = run /\ run # "putting"
      BY <2>1 DEF Present
    <3>2. Head(mail) \in Bytes /\ Head(mail) # None /\ heard' = Head(mail)
      BY <2>1, Mail DEF TypeOK
    <3>3. CASE Start(Head(mail)) /\ pending' = pending
      BY <2>1, <3>1, <3>2, <3>3, Starts DEF TypeOK, Present, Covered, Covers, SaverCatchesUp
    <3>4. CASE saver.at # "idle" /\ pending' = <<Head(mail)>> /\ saver' = saver
      BY <2>1, <3>1, <3>2, <3>4 DEF TypeOK, Present, Covered, Covers, SaverCatchesUp
    <3> QED
      BY <2>1, <3>3, <3>4
  <2>6. OneExportAtATime'
    BY <2>1, Starts, Mail, MailFields DEF TypeOK, OneExportAtATime
  <2> QED
    BY <2>2, <2>3, <2>4, <2>5, <2>6
<1>14. ASSUME NEW hidden \in BOOLEAN, ForceAutosave(hidden) PROVE StoreInv'
  <2>1. /\ known /\ heard' \in Bytes
        /\ heard'.project = model.project /\ heard'.steps = model.steps
        /\ \/ saver.at = "idle" /\ Start(None) /\ pending' = pending
           \/ saver.at # "idle" /\ pending' = <<None>> /\ saver' = saver
        /\ UNCHANGED <<project, model, known, store, run, saving, mail, clearing, posted, missed>>
    BY <1>14 DEF ForceAutosave, Autosave, TypeOK, Present, Weights
  <2>2. TypeOK'
    BY <1>14, <2>1, Starts, Mail DEF TypeOK
  <2>3. Present'
    BY <2>1, Starts, Mail, MailFields DEF TypeOK, Present
  <2>4. Ordered'
    BY <2>1, Starts, Mail, MailFields DEF TypeOK, Present, Ordered, Begun, NotAhead
  <2>5. Covered'
    BY <2>1, Starts, Mail, MailFields DEF TypeOK, Present, Ordered, NotAhead, Covered, Covers, SaverCatchesUp
  <2>6. OneExportAtATime'
    BY <2>1, Starts, Mail, MailFields DEF TypeOK, OneExportAtATime
  <2> QED
    BY <2>2, <2>3, <2>4, <2>5, <2>6
<1>15. ASSUME Reload PROVE StoreInv'
  <2>1. /\ model' = store /\ known' \in BOOLEAN /\ (known' <=> store # None)
        /\ run' = "idle" /\ saving' = None /\ saver' \in Saves /\ saver'.at = "idle" /\ saver'.bytes = None
        /\ pending' = <<>> /\ mail' = <<>> /\ mail' \in Seq(Bytes) /\ Len(mail') = 0
        /\ clearing' = "no" /\ posted' = None /\ heard' = None /\ missed' = FALSE
        /\ UNCHANGED <<project, store>>
    <3>1. <<>> \in Seq(Bytes) /\ Len(<<>>) = 0
      OBVIOUS
    <3> QED
      BY <1>15, <3>1, Rest DEF Reload
  <2>2. TypeOK'
    <3>1. pending' \in {<<>>} \cup {<<bytes>> : bytes \in Bytes \cup {None}}
      BY <2>1
    <3>2. project' \in Projects /\ model' \in Model \cup {None} /\ store' \in Model \cup {None}
      BY <2>1 DEF TypeOK
    <3>3. mail' \in Seq(Bytes) /\ Len(mail') <= MaxMail
      BY <2>1
    <3> QED
      BY <2>1, <3>1, <3>2, <3>3 DEF TypeOK
  <2>3. Present'
    BY <2>1 DEF TypeOK, Present
  <2>4. Ordered'
    BY <2>1 DEF TypeOK, Present, Ordered, Begun, NotAhead
  <2>5. Covered'
    BY <2>1 DEF TypeOK, Present, Ordered, NotAhead, Covered, Covers, SaverCatchesUp
  <2>6. OneExportAtATime'
    BY <2>1 DEF TypeOK, OneExportAtATime
  <2> QED
    BY <2>2, <2>3, <2>4, <2>5, <2>6
<1>16. ASSUME NewProject PROVE StoreInv'
  <2>1. /\ clearing' = "sources" /\ project' \in Projects /\ project' = project + 1
        /\ UNCHANGED <<model, known, store, run, saving, saver, pending, mail, posted, heard, missed>>
    BY <1>16 DEF NewProject, TypeOK, Projects
  <2>2. TypeOK'
    BY <1>16, <2>1 DEF NewProject, TypeOK
  <2>3. Present'
    BY <2>1 DEF TypeOK, Present
  <2>4. Ordered'
    BY <2>1 DEF TypeOK, Present, Ordered, Begun, NotAhead
  <2>5. Covered'
    BY <2>1 DEF TypeOK, Present, Ordered, NotAhead, Covered, Covers, SaverCatchesUp
  <2>6. OneExportAtATime'
    BY <2>1 DEF TypeOK, OneExportAtATime
  <2> QED
    BY <2>2, <2>3, <2>4, <2>5, <2>6
<1>17. ASSUME ClearModels PROVE StoreInv'
  <2>1. TypeOK'
    BY <1>17 DEF ClearModels, TypeOK, Present
  <2>2. Present'
    BY <1>17, <2>1 DEF ClearModels, TypeOK, Present
  <2>3. Ordered'
    BY <1>17, <2>1 DEF ClearModels, TypeOK, Present, Ordered, Begun, NotAhead, Weights
  <2>4. Covered'
    BY <1>17, <2>1 DEF ClearModels, TypeOK, Present, Ordered, Begun, NotAhead, Covered, Covers, SaverCatchesUp, Weights
  <2>5. OneExportAtATime'
    BY <1>17 DEF ClearModels, TypeOK, OneExportAtATime
  <2> QED
    BY <2>1, <2>2, <2>3, <2>4, <2>5
<1>18. ASSUME ImportNoModel PROVE StoreInv'
  <2>1. /\ project' \in Projects /\ project' = project + 1
        /\ store' = None /\ heard' = None /\ known' = FALSE
        /\ run' = IF run = "exporting" THEN "idle" ELSE run
        /\ UNCHANGED <<model, saving, saver, pending, mail, clearing, posted, missed>>
    BY <1>18 DEF ImportNoModel, TypeOK, Projects
  <2>2. TypeOK'
    BY <1>18, <2>1 DEF ImportNoModel, TypeOK
  <2>3. Present'
    BY <2>1 DEF TypeOK, Present
  <2>4. Ordered'
    BY <2>1 DEF TypeOK, Present, Ordered, Begun, NotAhead
  <2>5. Covered'
    BY <2>1 DEF TypeOK, Present, Ordered, NotAhead, Covered, Covers, SaverCatchesUp
  <2>6. OneExportAtATime'
    BY <2>1 DEF TypeOK, OneExportAtATime
  <2> QED
    BY <2>2, <2>3, <2>4, <2>5, <2>6
<1>19. ASSUME NEW steps \in Steps, NEW moments \in BOOLEAN, ImportProject(steps, moments) PROVE StoreInv'
  <2>1. /\ project' \in Projects /\ project' = project + 1 /\ known' \in BOOLEAN
        /\ heard' = None
        /\ \/ /\ known => known'
              /\ model' = model /\ (run # "idle" \/ saver.at # "idle")
           \/ /\ known'
              /\ model' \in Model /\ model'.project = project + 1
        /\ UNCHANGED <<store, run, saving, saver, pending, mail, clearing, posted, missed>>
    <3>1. project' \in Projects /\ project' = project + 1 /\ heard' = None
      BY <1>19 DEF ImportProject, TypeOK, Projects
    <3>2. CASE run = "running" \/ Exporting
      BY <1>19, <3>1, <3>2 DEF ImportProject, TypeOK
    <3>3. CASE ~(run = "running" \/ Exporting)
      <4>1. model' = [project |-> project', steps |-> steps, moments |-> IF moments THEN project' ELSE None]
        BY <1>19, <3>3 DEF ImportProject
      <4>2. (IF moments THEN project' ELSE None) \in Projects \cup {None}
        BY <3>1
      <4>3. model' \in Model /\ model'.project = project + 1
        BY <1>19, <3>1, <4>1, <4>2, Parts
      <4> QED
        BY <1>19, <3>1, <3>3, <4>3 DEF ImportProject
    <3> QED
      BY <3>2, <3>3
  <2>2. TypeOK'
    BY <1>19, <2>1 DEF ImportProject, TypeOK
  <2>3. Present'
    BY <2>1 DEF TypeOK, Present
  <2>4. Ordered'
    BY <2>1 DEF TypeOK, Present, Ordered, Begun, NotAhead
  <2>5. Covered'
    BY <2>1 DEF TypeOK, Present, Ordered, Begun, NotAhead, Covered, Covers, SaverCatchesUp
  <2>6. OneExportAtATime'
    BY <2>1 DEF TypeOK, OneExportAtATime
  <2> QED
    BY <2>2, <2>3, <2>4, <2>5, <2>6
<1>20. CASE UNCHANGED vars
  BY <1>20 DEF vars, TypeOK, Present, Ordered, Begun, NotAhead, Covered, Covers, SaverCatchesUp, OneExportAtATime
<1> QED
  BY <1>1, <1>2, <1>3, <1>4, <1>5, <1>6, <1>7, <1>8, <1>9, <1>10, <1>11, <1>12, <1>13, <1>14, <1>15, <1>16, <1>17, <1>18, <1>19, <1>20 DEF Next, Train, EndOfRun, Saver

----------------------------------------------------------------------------
(* What the specification promises.                                        *)

\* The invariant holds throughout: whoever is about to export or to store has
\* what it needs, nothing is of a project not begun, and what saveModel, the
\* last autosave in flight and the one waiting behind it will store is no
\* older than the weights the last autosave was asked for (app.js saveModel,
\* autosave, importProject, newProject).
THEOREM StoreHolds == Spec => []StoreInv
<1>1. Init => StoreInv
  BY InitStoreInv
<1>2. StoreInv /\ [Next]_vars => StoreInv'
  BY NextStoreInv
<1> QED
  BY <1>1, <1>2, PTL DEF Spec

\* Every variable keeps its type, the mail its bound.
THEOREM StoreTypeCorrect == Spec => []TypeOK
<1>1. StoreInv => TypeOK
  BY DEF StoreInv
<1> QED
  BY <1>1, StoreHolds, PTL

\* The export of a save and that of an autosave never run at once, whatever
\* order the two are started in (wasm-app lib.rs WasmLLM::acquire, app.js
\* exportCheckpointWithRetry).
THEOREM OneExport == Spec => []OneExportAtATime
<1>1. StoreInv => OneExportAtATime
  BY DEF StoreInv
<1> QED
  BY <1>1, StoreHolds, PTL

\* Once autosave has caught up, what is stored is no older than what the
\* last autosave was asked for, unless that very one failed (app.js autosave:
\* autosavePending and the catch-up in its `finally`).
THEOREM SaverCatches == Spec => []SaverCatchesUp
<1>1. StoreInv => SaverCatchesUp
  BY DEF StoreInv, Covered
<1> QED
  BY <1>1, StoreHolds, PTL
=============================================================================
