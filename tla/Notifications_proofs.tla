------------------------ MODULE Notifications_proofs ------------------------
(***************************************************************************)
(* Proofs about Notifications, for every set of deployments and blocks and *)
(* every value of the bounds.                                              *)
(***************************************************************************)
EXTENDS Notifications, SequenceTheorems, TLAPS

-----------------------------------------------------------------------------
(* Type correctness *)

\* The locals of each stage of a tick.
LEMMA StepFields ==
  ASSUME step \in StepType
  PROVE  /\ step.at = "save" => step.of \in Deployments /\ step.notify \in BOOLEAN
         /\ step.at = "note" => step.of \in Deployments /\ step.message \in Result
         /\ step.at \in {"notify", "clear"} =>
              /\ step.batch \in [Deployments -> MaybeResult]
              /\ step = [at |-> step.at, batch |-> step.batch]
         /\ step.at \in {"rest", "next", "save", "note", "collect", "notify", "clear"}
  BY DEF StepType

\* The locals of each stage make a step.
LEMMA StepMade ==
  /\ Rest \in StepType /\ NextResult \in StepType /\ [at |-> "collect"] \in StepType
  /\ \A d \in Deployments, b \in BOOLEAN :
       [at |-> "save", of |-> d, notify |-> b] \in StepType
  /\ \A d \in Deployments, r \in Result :
       [at |-> "note", of |-> d, message |-> r] \in StepType
  /\ \A n \in [Deployments -> MaybeResult] :
       /\ [at |-> "notify", batch |-> n] \in StepType
       /\ [at |-> "clear", batch |-> n] \in StepType
  BY DEF StepType, Rest, NextResult

LEMMA NothingTyped ==
  /\ Nothing \in [Deployments -> MaybeResult]
  /\ \A d \in Deployments : Nothing[d] = NoResult
  BY DEF Nothing, MaybeResult

LEMMA DropTyped ==
  ASSUME outcome \in [Deployments -> MaybeResult], NEW d \in Deployments, Drop(d)
  PROVE  outcome' \in [Deployments -> MaybeResult]
  BY DEF Drop, MaybeResult

LEMMA MishapTyped ==
  ASSUME mishaps \in 0..MaxMishaps, Mishap
  PROVE  mishaps' \in 0..MaxMishaps
  BY MishapAssumption DEF Mishap

LEMMA TypeInit == Init => TypeOK
  <1> SUFFICES ASSUME Init PROVE TypeOK
    OBVIOUS
  <1>1. changes \in [Deployments -> Seq(Result)] /\ told \in [Deployments -> Seq(Result)]
    BY EmptySeq DEF Init
  <1> QED
    BY <1>1, NothingTyped, StepMade, MishapAssumption DEF Init, TypeOK

\* What was told grows by what the batch holds.
LEMMA NotifyTold ==
  ASSUME TypeOK, step.at = "notify",
         told' = [d \in Deployments |->
                    IF step.batch[d] = NoResult THEN told[d]
                    ELSE Append(told[d], step.batch[d])]
  PROVE  told' \in [Deployments -> Seq(Result)]
  <1>1. step.batch \in [Deployments -> MaybeResult]
    BY StepFields DEF TypeOK
  <1>2. ASSUME NEW d \in Deployments, step.batch[d] # NoResult
        PROVE  Append(told[d], step.batch[d]) \in Seq(Result)
    <2>1. told[d] \in Seq(Result) /\ step.batch[d] \in Result
      BY <1>1, <1>2 DEF TypeOK, MaybeResult
    <2> QED
      BY <2>1, AppendProperties
  <1> QED
    BY <1>2 DEF TypeOK

\* Between the read of the existing result and the save, the result that is
\* handled is still there and the decision to notify is still the right one.
Fresh ==
  step.at = "save" =>
    /\ outcome[step.of] # NoResult
    /\ step.notify = Notable(results[step.of], outcome[step.of])

LEMMA TypeStep == TypeOK /\ Fresh /\ [Next]_vars => TypeOK'
  <1> SUFFICES ASSUME TypeOK, Fresh, [Next]_vars PROVE TypeOK'
    OBVIOUS
  <1>f. /\ outcome \in [Deployments -> MaybeResult]
        /\ step \in StepType
        /\ mishaps \in 0..MaxMishaps
        /\ notes \in [Deployments -> MaybeResult]
    BY DEF TypeOK
  <1>1. CASE Compare
    BY <1>1 DEF Compare, TypeOK
  <1>2. CASE Begin
    BY <1>2, StepMade DEF Begin, TypeOK
  <1>3. CASE CreateNote
    <2>1. step.of \in Deployments /\ step.message \in Result
      BY <1>3, <1>f, StepFields DEF CreateNote
    <2>2. notes' \in [Deployments -> MaybeResult]
      BY <1>3, <1>f, <2>1 DEF CreateNote, InsertNote, MaybeResult
    <2>3. mishaps' \in 0..MaxMishaps
      BY <1>3, <1>f, MishapTyped DEF CreateNote
    <2>4. phase = "results" \/ phase = "notify"
      BY <1>3 DEF CreateNote, TypeOK, Rest
    <2> QED
      BY <1>3, <2>2, <2>3, <2>4, StepMade DEF CreateNote, TypeOK
  <1>4. CASE CollectLive
    <2>1. mishaps' \in 0..MaxMishaps
      BY <1>4, <1>f, MishapTyped DEF CollectLive
    <2>2. step' \in StepType
      BY <1>4, <1>f, StepMade DEF CollectLive, Deliver
    <2>3. step' = Rest \/ phase' = phase
      BY <1>4 DEF CollectLive
    <2>4. phase \in {"results", "notify"}
      BY <1>4 DEF CollectLive, TypeOK, Rest
    <2>5. phase' \in {"idle", "results", "notify"}
      BY <1>4, <2>4 DEF CollectLive
    <2> QED
      BY <1>4, <2>1, <2>2, <2>3, <2>4, <2>5 DEF CollectLive, TypeOK
  <1>5. ASSUME NEW d \in Deployments, ReadExisting(d)
        PROVE  TypeOK'
    <2>1. mishaps' \in 0..MaxMishaps
      BY <1>5, <1>f, MishapTyped DEF ReadExisting
    <2>2. outcome' \in [Deployments -> MaybeResult]
      BY <1>5, <1>f, DropTyped DEF ReadExisting
    <2>3. step' \in StepType
      <3>1. Notable(Existing(d), outcome[d]) \in BOOLEAN
        BY DEF Notable
      <3> QED
        BY <1>5, <1>f, <3>1, StepMade DEF ReadExisting
    <2>4. phase = "results" \/ phase = "notify"
      BY <1>5 DEF ReadExisting, TypeOK, Rest
    <2> QED
      BY <1>5, <2>1, <2>2, <2>3, <2>4 DEF ReadExisting, TypeOK
  <1>6. ASSUME NEW d \in Deployments, SaveResult(d)
        PROVE  TypeOK'
    <2>0. outcome[d] # NoResult
      BY <1>6 DEF SaveResult, Fresh
    <2>1. outcome[d] \in Result
      BY <1>6, <1>f, <2>0 DEF MaybeResult
    <2>2. outcome' \in [Deployments -> MaybeResult]
      BY <1>6, <1>f, DropTyped DEF SaveResult
    <2>3. step' \in StepType
      BY <1>6, <2>1, StepMade DEF SaveResult
    <2>4. changes' \in [Deployments -> Seq(Result)]
      <3>1. changes[d] \in Seq(Result)
        BY DEF TypeOK
      <3>2. Append(changes[d], outcome[d]) \in Seq(Result)
        BY <2>1, <3>1, AppendProperties
      <3> QED
        BY <1>6, <3>2 DEF SaveResult, TypeOK
    <2>5. results' \in [Deployments -> MaybeResult]
      BY <1>6, <1>f DEF SaveResult, TypeOK
    <2>6. phase = "results" \/ phase = "notify"
      BY <1>6 DEF SaveResult, TypeOK, Rest
    <2> QED
      BY <1>6, <2>2, <2>3, <2>4, <2>5, <2>6 DEF SaveResult, TypeOK
  <1>7. ASSUME NEW d \in Deployments, SaveFails(d)
        PROVE  TypeOK'
    <2>1. mishaps' \in 0..MaxMishaps
      BY <1>7, <1>f, MishapTyped DEF SaveFails
    <2>2. outcome' \in [Deployments -> MaybeResult]
      BY <1>7, <1>f, DropTyped DEF SaveFails
    <2>3. phase = "results" \/ phase = "notify"
      BY <1>7 DEF SaveFails, TypeOK, Rest
    <2> QED
      BY <1>7, <2>1, <2>2, <2>3, StepMade DEF SaveFails, TypeOK
  <1>8. CASE Timeout
    <2>1. mishaps' \in 0..MaxMishaps
      BY <1>8, <1>f, MishapTyped DEF Timeout
    <2> QED
      BY <1>8, <2>1, NothingTyped, StepMade DEF Timeout, TypeOK
  <1>9. CASE StartUpdate
    BY <1>9, StepMade DEF StartUpdate, TypeOK
  <1>10. CASE CollectUpdate
    <2>1. mishaps' \in 0..MaxMishaps
      BY <1>10, <1>f, MishapTyped DEF CollectUpdate
    <2>2. step' \in StepType
      BY <1>10, <1>f, StepMade DEF CollectUpdate, Deliver
    <2>3. step' = Rest \/ phase' = phase
      BY <1>10 DEF CollectUpdate
    <2>4. phase \in {"results", "notify"}
      BY <1>10 DEF CollectUpdate, TypeOK, Rest
    <2>5. phase' \in {"idle", "results", "notify"}
      BY <1>10, <2>4 DEF CollectUpdate
    <2> QED
      BY <1>10, <2>1, <2>2, <2>3, <2>4, <2>5 DEF CollectUpdate, TypeOK
  <1>11. CASE Notify
    <2>1. mishaps' \in 0..MaxMishaps
      BY <1>11, <1>f, MishapTyped DEF Notify
    <2>2. told' \in [Deployments -> Seq(Result)]
      BY <1>11, NotifyTold DEF Notify, TypeOK
    <2>3. step' \in StepType
      <3>1. step.batch \in [Deployments -> MaybeResult] /\ step = [at |-> "notify", batch |-> step.batch]
        BY <1>11, <1>f, StepFields DEF Notify
      <3>2. step' = [at |-> "clear", batch |-> step.batch]
        BY <1>11, <3>1 DEF Notify
      <3> QED
        BY <3>1, <3>2, StepMade
    <2>4. phase \in {"results", "notify"}
      BY <1>11 DEF Notify, TypeOK, Rest
    <2> QED
      BY <1>11, <2>1, <2>2, <2>3, <2>4 DEF Notify, TypeOK
  <1>12. CASE Clear
    <2>1. mishaps' \in 0..MaxMishaps
      BY <1>12, <1>f, MishapTyped DEF Clear
    <2> QED
      BY <1>12, <2>1, NothingTyped, StepMade DEF Clear, TypeOK
  <1>13. CASE Restart
    <2>1. crashes' \in 0..MaxCrashes
      BY <1>13, MishapAssumption DEF Restart, TypeOK
    <2> QED
      BY <1>13, <2>1, NothingTyped, StepMade DEF Restart, TypeOK
  <1>14. CASE UNCHANGED vars
    BY <1>14 DEF vars, TypeOK
  <1> QED
    BY <1>1, <1>2, <1>3, <1>4, <1>5, <1>6, <1>7, <1>8, <1>9, <1>10, <1>11, <1>12,
       <1>13, <1>14 DEF Next, ResultStep, DeliveryStep

-----------------------------------------------------------------------------
(* The decision to notify *)

\* Only the task of the results moves between its read and its save: no tick
\* starts, and a timeout or a restart ends it.
LEMMA FreshStep == TypeOK /\ Fresh /\ [Next]_vars => Fresh'
  <1> SUFFICES ASSUME TypeOK, Fresh, [Next]_vars, step'.at = "save"
               PROVE  /\ outcome'[step'.of] # NoResult
                      /\ step'.notify = Notable(results'[step'.of], outcome'[step'.of])
    BY DEF Fresh, Notable
  <1>1. CASE Compare \/ StartUpdate
    BY <1>1 DEF Compare, StartUpdate, TypeOK, Rest
  <1>2. CASE Begin \/ CreateNote
    BY <1>2 DEF Begin, CreateNote, NextResult
  <1>3. CASE CollectLive \/ CollectUpdate
    BY <1>3 DEF CollectLive, CollectUpdate, Deliver, Rest
  <1>4. ASSUME NEW d \in Deployments, ReadExisting(d)
        PROVE  /\ outcome'[step'.of] # NoResult
               /\ step'.notify = Notable(results'[step'.of], outcome'[step'.of])
    <2>1. step'.at # step.at
      BY <1>4 DEF ReadExisting
    <2>2. /\ step' = [at |-> "save", of |-> d, notify |-> Notable(Existing(d), outcome[d])]
          /\ UNCHANGED <<outcome, results>>
      BY <1>4, <2>1 DEF ReadExisting
    <2>3. outcome[d] # NoResult
      BY <1>4 DEF ReadExisting
    <2> QED
      BY <2>2, <2>3 DEF Existing, Notable
  <1>5. ASSUME NEW d \in Deployments, SaveResult(d) \/ SaveFails(d)
        PROVE  FALSE
    BY <1>5 DEF SaveResult, SaveFails, NextResult
  <1>6. CASE Timeout \/ Clear \/ Restart
    BY <1>6 DEF Timeout, Clear, Restart, Rest
  <1>7. CASE Notify
    <2>1. step' = [at |-> "clear", batch |-> step.batch]
      BY <1>7, StepFields DEF Notify, TypeOK
    <2> QED
      BY <2>1
  <1>8. CASE UNCHANGED vars
    BY <1>8 DEF vars, Fresh
  <1> QED
    BY <1>1, <1>2, <1>3, <1>4, <1>5, <1>6, <1>7, <1>8 DEF Next, ResultStep, DeliveryStep

\* Every variable always has its type, and nothing of a tick goes on after it:
\* a timeout drops the task and its locals with it.
THEOREM TypeCorrect == Spec => []TypeOK
  <1>1. Init => Fresh
    BY DEF Init, Fresh, Rest
  <1> QED
    BY <1>1, TypeInit, TypeStep, FreshStep, PTL DEF Spec

LEMMA FreshAlways == Spec => [](TypeOK /\ Fresh)
  <1>1. Init => Fresh
    BY DEF Init, Fresh, Rest
  <1> QED
    BY <1>1, TypeInit, TypeStep, FreshStep, PTL DEF Spec

\* A change of status is recorded exactly when the decision, made on a result
\* read earlier, is the one the saved results call for.
LEMMA DecisionStep ==
  ASSUME TypeOK, Fresh, [Next]_vars,
         NEW d \in Deployments, results'[d] # results[d], results'[d] # NoResult
  PROVE  changes'[d] # changes[d] <=> Notable(results[d], results'[d])
  <1>1. ASSUME NEW c \in Deployments, SaveResult(c)
        PROVE  changes'[d] # changes[d] <=> Notable(results[d], results'[d])
    <2>1. c = d
      BY <1>1 DEF SaveResult, TypeOK
    <2>2. results'[d] = outcome[d]
      BY <1>1, <2>1 DEF SaveResult, TypeOK
    <2>3. step.notify = Notable(results[d], results'[d])
      BY <1>1, <2>1, <2>2 DEF SaveResult, Fresh
    <2>4. CASE step.notify
      <3>1. changes[d] \in Seq(Result) /\ outcome[d] \in Result
        BY <1>1, <2>1 DEF TypeOK, SaveResult, Fresh, MaybeResult
      <3>2. changes'[d] = Append(changes[d], outcome[d])
        BY <1>1, <2>1, <2>4, <3>1 DEF SaveResult, TypeOK
      <3>3. Len(changes'[d]) = Len(changes[d]) + 1 /\ Len(changes[d]) \in Nat
        BY <3>1, <3>2, AppendProperties, LenProperties
      <3>4. changes'[d] # changes[d]
        BY <3>3
      <3> QED
        BY <2>3, <2>4, <3>4
    <2>5. CASE ~step.notify
      BY <1>1, <2>3, <2>5 DEF SaveResult
    <2> QED
      BY <2>4, <2>5
  <1>2. CASE Compare \/ Begin \/ CreateNote \/ CollectLive
    BY <1>2 DEF Compare, Begin, CreateNote, CollectLive
  <1>3. CASE Timeout \/ StartUpdate \/ CollectUpdate \/ Notify \/ Clear
    BY <1>3 DEF Timeout, StartUpdate, CollectUpdate, Notify, Clear
  <1>4. CASE Restart
    BY <1>4, NothingTyped DEF Restart
  <1>5. ASSUME NEW c \in Deployments, ReadExisting(c) \/ SaveFails(c)
        PROVE  FALSE
    BY <1>5 DEF ReadExisting, SaveFails
  <1>6. CASE UNCHANGED vars
    BY <1>6 DEF vars
  <1> QED
    BY <1>1, <1>2, <1>3, <1>4, <1>5, <1>6 DEF Next, ResultStep, DeliveryStep

\* The status a comparison saves is announced as a change exactly when it is
\* one, whatever fails, times out or restarts in between.
THEOREM DecisionStaysRight == Spec => DecisionNotStale
  <1>1. TypeOK /\ Fresh /\ [Next]_vars =>
          [ \A d \in Deployments :
              results'[d] # results[d] /\ results'[d] # NoResult =>
                (changes'[d] # changes[d] <=> Notable(results[d], results'[d])) ]_vars
    BY DecisionStep
  <1> QED
    BY <1>1, FreshAlways, PTL DEF Spec, DecisionNotStale


-----------------------------------------------------------------------------
(* No false alarm *)

LEMMA ToSetAppend ==
  ASSUME NEW S, NEW s \in Seq(S), NEW e \in S
  PROVE  ToSet(Append(s, e)) = ToSet(s) \cup {e}
  <1>1. /\ Append(s, e) \in Seq(S) /\ Len(Append(s, e)) = Len(s) + 1
        /\ \A i \in 1..Len(s) : Append(s, e)[i] = s[i]
        /\ Append(s, e)[Len(s) + 1] = e
        /\ Len(s) \in Nat
    BY AppendProperties, LenProperties
  <1>2. DOMAIN s = 1..Len(s) /\ DOMAIN Append(s, e) = 1..(Len(s) + 1)
    BY <1>1, LenProperties
  <1>3. 1..(Len(s) + 1) = 1..Len(s) \cup {Len(s) + 1}
    BY <1>1
  <1> QED
    BY <1>1, <1>2, <1>3 DEF ToSet

\* What is pending, in the table or in the hands of a tick, is a change too.
Heard ==
  /\ ToldIsAChange
  /\ step.at = "note" => step.message \in ToSet(changes[step.of])
  /\ step.at \in {"notify", "clear"} =>
       \A d \in Deployments :
         step.batch[d] # NoResult => step.batch[d] \in ToSet(changes[d])

LEMMA HeardStep == TypeOK /\ Fresh /\ Heard /\ [Next]_vars => Heard'
  <1> SUFFICES ASSUME TypeOK, Fresh, Heard, [Next]_vars PROVE Heard'
    OBVIOUS
  <1>1. CASE Compare \/ Begin \/ StartUpdate \/ Timeout
    BY <1>1 DEF Compare, Begin, StartUpdate, Timeout, Heard, ToldIsAChange, Rest, NextResult
  <1>2. CASE CreateNote
    <2>1. step.of \in Deployments /\ step.message \in ToSet(changes[step.of])
      BY <1>2, StepFields DEF CreateNote, TypeOK, Heard
    <2>2. ASSUME NEW d \in Deployments, notes'[d] # NoResult
          PROVE  notes'[d] \in ToSet(changes[d])
      BY <1>2, <2>1, <2>2 DEF CreateNote, InsertNote, TypeOK, Heard, ToldIsAChange
    <2> QED
      BY <1>2, <2>2 DEF CreateNote, NextResult, Heard, ToldIsAChange
  <1>3. CASE CollectLive \/ CollectUpdate
    BY <1>3 DEF CollectLive, CollectUpdate, Deliver, Rest, Heard, ToldIsAChange
  <1>4. ASSUME NEW c \in Deployments, ReadExisting(c) \/ SaveFails(c)
        PROVE  Heard'
    BY <1>4 DEF ReadExisting, SaveFails, NextResult, Heard, ToldIsAChange
  <1>5. ASSUME NEW c \in Deployments, SaveResult(c)
        PROVE  Heard'
    <2>1. CASE step.notify
      <3>1. changes[c] \in Seq(Result) /\ outcome[c] \in Result
        BY <1>5 DEF TypeOK, SaveResult, Fresh, MaybeResult
      <3>2. /\ changes'[c] = Append(changes[c], outcome[c])
            /\ \A d \in Deployments : d # c => changes'[d] = changes[d]
        BY <1>5, <2>1 DEF SaveResult, TypeOK
      <3>3. ToSet(changes'[c]) = ToSet(changes[c]) \cup {outcome[c]}
        BY <3>1, <3>2, ToSetAppend
      <3>4. \A d \in Deployments : ToSet(changes[d]) \subseteq ToSet(changes'[d])
        BY <3>2, <3>3
      <3>5. step' = [at |-> "note", of |-> c, message |-> outcome[c]]
        BY <1>5, <2>1 DEF SaveResult
      <3>6. ToldIsAChange'
        BY <1>5, <3>4 DEF SaveResult, Heard, ToldIsAChange
      <3> QED
        BY <3>3, <3>5, <3>6 DEF Heard
    <2>2. CASE ~step.notify
      BY <1>5, <2>2 DEF SaveResult, NextResult, Heard, ToldIsAChange
    <2> QED
      BY <2>1, <2>2
  <1>6. CASE Notify
    <2>1. /\ step.batch \in [Deployments -> MaybeResult]
          /\ step' = [at |-> "clear", batch |-> step.batch]
      BY <1>6, StepFields DEF Notify, TypeOK
    <2>2. ASSUME NEW d \in Deployments
          PROVE  ToSet(told'[d]) \subseteq ToSet(changes[d])
      <3>1. CASE told'[d] = told[d]
        BY <3>1 DEF Heard, ToldIsAChange
      <3>2. CASE step.batch[d] # NoResult /\ told'[d] = Append(told[d], step.batch[d])
        <4>1. told[d] \in Seq(Result) /\ step.batch[d] \in Result
          BY <2>1, <3>2 DEF TypeOK, MaybeResult
        <4>2. ToSet(told'[d]) = ToSet(told[d]) \cup {step.batch[d]}
          BY <3>2, <4>1, ToSetAppend
        <4> QED
          BY <1>6, <3>2, <4>2 DEF Notify, Heard, ToldIsAChange
      <3> QED
        BY <1>6, <3>1, <3>2 DEF Notify
    <2> QED
      BY <1>6, <2>1, <2>2 DEF Notify, Heard, ToldIsAChange
  <1>7. CASE Clear
    BY <1>7, NothingTyped DEF Clear, Rest, Heard, ToldIsAChange
  <1>8. CASE Restart
    BY <1>8, NothingTyped DEF Restart, Rest, Heard, ToldIsAChange
  <1>9. CASE UNCHANGED vars
    BY <1>9 DEF vars, Heard, ToldIsAChange
  <1> QED
    BY <1>1, <1>2, <1>3, <1>4, <1>5, <1>6, <1>7, <1>8, <1>9
       DEF Next, ResultStep, DeliveryStep

\* Whatever fails, times out or restarts, nothing is announced, or waits to be,
\* that was not a change of status saved before.
THEOREM NoFalseAlarm == Spec => []ToldIsAChange
  <1>1. Init => Heard
    BY NothingTyped DEF Init, Heard, ToldIsAChange, Rest, ToSet
  <1>2. Heard => ToldIsAChange
    BY DEF Heard
  <1> QED
    BY <1>1, <1>2, HeardStep, FreshAlways, PTL DEF Spec

-----------------------------------------------------------------------------
(* Nothing is cleared untold *)

\* Nothing is added to the table while its messages are on their way.
Settled ==
  /\ step.at \in {"notify", "clear"} => step.batch = notes
  /\ step.at = "clear" /\ mishaps = 0 =>
       \A d \in Deployments :
         notes[d] # NoResult => told[d] # <<>> /\ Last(told[d]) = notes[d]

LEMMA LastOfAppend ==
  ASSUME NEW S, NEW s \in Seq(S), NEW e \in S
  PROVE  Append(s, e) # <<>> /\ Last(Append(s, e)) = e
  BY AppendProperties DEF Last

LEMMA SettledStep == TypeOK /\ Settled /\ [Next]_vars => Settled'
  <1> SUFFICES ASSUME TypeOK, Settled, [Next]_vars PROVE Settled'
    OBVIOUS
  <1>1. CASE Compare \/ Begin \/ StartUpdate \/ Timeout
    BY <1>1 DEF Compare, Begin, StartUpdate, Timeout, TypeOK, Settled, Rest, NextResult
  <1>2. CASE CreateNote
    BY <1>2 DEF CreateNote, NextResult, Settled
  <1>3. CASE CollectLive \/ CollectUpdate
    BY <1>3 DEF CollectLive, CollectUpdate, Deliver, Rest, Settled
  <1>4. ASSUME NEW c \in Deployments, ReadExisting(c) \/ SaveResult(c) \/ SaveFails(c)
        PROVE  Settled'
    BY <1>4 DEF ReadExisting, SaveResult, SaveFails, NextResult, Settled
  <1>5. CASE Notify
    <2>1. /\ step.batch \in [Deployments -> MaybeResult]
          /\ step' = [at |-> "clear", batch |-> step.batch]
          /\ step.batch = notes
          /\ notes' = notes
      BY <1>5, StepFields DEF Notify, TypeOK, Settled
    <2>2. ASSUME mishaps' = 0, NEW d \in Deployments, notes[d] # NoResult
          PROVE  told'[d] # <<>> /\ Last(told'[d]) = notes[d]
      <3>1. told'[d] = Append(told[d], notes[d])
        BY <1>5, <2>1, <2>2 DEF Notify, Mishap, TypeOK
      <3>2. told[d] \in Seq(Result) /\ notes[d] \in Result
        BY <2>2 DEF TypeOK, MaybeResult
      <3> QED
        BY <3>1, <3>2, LastOfAppend
    <2> QED
      BY <2>1, <2>2 DEF Settled
  <1>6. CASE Clear \/ Restart
    BY <1>6 DEF Clear, Restart, Rest, Settled
  <1>7. CASE UNCHANGED vars
    BY <1>7 DEF vars, Settled
  <1> QED
    BY <1>1, <1>2, <1>3, <1>4, <1>5, <1>6, <1>7 DEF Next, ResultStep, DeliveryStep

\* A row leaves the table only at the clear, or when a restart loses a database
\* in memory.
LEMMA ClearedStep ==
  ASSUME TypeOK, Settled, [Next]_vars, NEW d \in Deployments,
         mishaps' = 0, crashes' = crashes,
         notes[d] # NoResult, notes'[d] = NoResult
  PROVE  told[d] # <<>> /\ Last(told[d]) = notes[d]
  <1>1. CASE Clear
    BY <1>1 DEF Clear, Mishap, TypeOK, Settled
  <1>2. CASE Restart
    BY <1>2, MishapAssumption DEF Restart, TypeOK
  <1>3. CASE CreateNote
    BY <1>3 DEF CreateNote, InsertNote, TypeOK
  <1>4. CASE \/ Compare \/ Begin \/ CollectLive \/ Timeout \/ StartUpdate
             \/ CollectUpdate \/ Notify \/ UNCHANGED vars
    BY <1>4 DEF Compare, Begin, CollectLive, Timeout, StartUpdate, CollectUpdate,
                Notify, vars
  <1>5. ASSUME NEW c \in Deployments, ReadExisting(c) \/ SaveResult(c) \/ SaveFails(c)
        PROVE  FALSE
    BY <1>5 DEF ReadExisting, SaveResult, SaveFails
  <1> QED
    BY <1>1, <1>2, <1>3, <1>4, <1>5 DEF Next, ResultStep, DeliveryStep

\* clear_all_notifications deletes whatever is in the table, and still loses
\* nothing as long as nothing has failed: the messages are those just sent.
THEOREM ClearsOnlyTold == Spec => NothingClearedUntold
  <1>1. Init => Settled
    BY DEF Init, Settled, Rest
  <1>2. TypeOK /\ Settled /\ [Next]_vars =>
          [ \A d \in Deployments :
              /\ mishaps' = 0 /\ crashes' = crashes
              /\ notes[d] # NoResult /\ notes'[d] = NoResult
              => told[d] # <<>> /\ Last(told[d]) = notes[d] ]_vars
    BY ClearedStep
  <1> QED
    BY <1>1, <1>2, SettledStep, TypeCorrect, PTL DEF Spec, NothingClearedUntold

-----------------------------------------------------------------------------
(* The promise to the operator: the live mode without failures *)

\* The change of a deployment that was noted and is not announced yet.
Pending(d) ==
  IF step.at = "note" /\ step.of = d THEN step.message
  ELSE IF step.at = "clear" THEN NoResult ELSE notes[d]

\* No more than one change of a deployment is pending, and while one is the
\* deployment has no further result in this tick; every tick ends with none.
AtMostOnePending ==
  /\ phase # "notify" /\ step.at # "collect"
  /\ \A d \in Deployments :
       /\ Pending(d) = NoResult => changes[d] = told[d]
       /\ Pending(d) # NoResult =>
            /\ changes[d] = Append(told[d], Pending(d))
            /\ outcome[d] = NoResult
  /\ step.at = "rest" => notes = Nothing
  /\ step.at = "notify" => notes # Nothing
  /\ step.at \in {"notify", "clear"} => outcome = Nothing
  /\ step.at = "note" => notes[step.of] = NoResult

LiveInv == TypeOK /\ Fresh /\ Settled /\ AtMostOnePending

NothingFails == MaxMishaps = 0 /\ MaxCrashes = 0 /\ Modes = {"live"}

LEMMA CalmStep ==
  ASSUME NothingFails, TypeOK
  PROVE  /\ ~Mishap /\ ~Restart /\ ~Timeout /\ ~StartUpdate
         /\ \A d \in Deployments : ~SaveFails(d)
         /\ mode = "live"
  BY DEF NothingFails, TypeOK, Mishap, Restart, Timeout, SaveFails, StartUpdate

LEMMA LiveStep ==
  ASSUME NothingFails, LiveInv, [Next]_vars
  PROVE  AtMostOnePending' /\ [Log!Next]_Log!vars
  <1> USE DEF LiveInv
  <1>c. /\ ~Mishap /\ ~Restart /\ ~Timeout /\ ~StartUpdate
        /\ \A d \in Deployments : ~SaveFails(d)
        /\ mode = "live"
    BY CalmStep
  <1>1. CASE Compare
    <2>1. step = Rest /\ notes = Nothing
      BY <1>1 DEF Compare, TypeOK, AtMostOnePending, Rest
    <2>2. \A d \in Deployments : Pending(d) = NoResult /\ Pending(d)' = NoResult
      BY <1>1, <2>1, NothingTyped DEF Compare, Pending, Rest
    <2> QED
      BY <1>1, <2>1, <2>2 DEF Compare, AtMostOnePending, Log!vars, Rest
  <1>2. CASE Begin
    <2>1. \A d \in Deployments : Pending(d)' = Pending(d)
      BY <1>2 DEF Begin, Pending, Rest, NextResult
    <2> QED
      BY <1>2, <2>1 DEF Begin, AtMostOnePending, Log!vars, Rest, NextResult
  <1>3. CASE CreateNote
    <2>1. step.of \in Deployments /\ step.message \in Result
      BY <1>3, StepFields DEF CreateNote, TypeOK
    <2>2. notes' = [notes EXCEPT ![step.of] = step.message]
      BY <1>3, <1>c DEF CreateNote, InsertNote, AtMostOnePending
    <2>3. \A d \in Deployments : Pending(d)' = Pending(d)
      BY <1>3, <2>1, <2>2 DEF CreateNote, Pending, NextResult, TypeOK
    <2> QED
      BY <1>3, <2>3 DEF CreateNote, AtMostOnePending, Log!vars, NextResult
  <1>4. CASE CollectLive
    <2>1. \A d \in Deployments : Pending(d)' = Pending(d)
      BY <1>4 DEF CollectLive, Pending, Deliver, Rest
    <2>2. step'.at \in {"rest", "notify"}
      BY <1>4 DEF CollectLive, Deliver, Rest
    <2>3. step'.at = "rest" => notes = Nothing
      BY <1>4, <1>c DEF CollectLive, Deliver, Rest
    <2>4. step'.at = "notify" => notes # Nothing
      BY <1>4, <1>c DEF CollectLive, Deliver, Rest
    <2>5. outcome = Nothing /\ UNCHANGED <<outcome, results, notes, changes, told>>
      BY <1>4 DEF CollectLive
    <2>6. phase' # "notify"
      BY <1>4 DEF CollectLive, AtMostOnePending
    <2> QED
      BY <2>1, <2>2, <2>3, <2>4, <2>5, <2>6 DEF AtMostOnePending, Log!vars
  <1>5. ASSUME NEW c \in Deployments, ReadExisting(c)
        PROVE  AtMostOnePending' /\ UNCHANGED Log!vars
    <2>1. \A d \in Deployments : Pending(d)' = Pending(d)
      BY <1>5, <1>c DEF ReadExisting, Pending
    <2> QED
      BY <1>5, <1>c, <2>1 DEF ReadExisting, AtMostOnePending, Log!vars
  <1>6. ASSUME NEW c \in Deployments, SaveResult(c)
        PROVE  AtMostOnePending' /\ Log!Next
    <2>1. /\ outcome[c] \in Result
          /\ step.notify = Notable(results[c], outcome[c])
          /\ outcome[c] # NoResult
      BY <1>6 DEF SaveResult, Fresh, TypeOK, MaybeResult
    <2>2. /\ \A d \in Deployments : Pending(d) = notes[d]
          /\ notes[c] = NoResult
      BY <1>6, <2>1 DEF SaveResult, Pending, AtMostOnePending
    <2>3. changes[c] = told[c]
      BY <2>2 DEF AtMostOnePending
    <2>4. /\ outcome' = [outcome EXCEPT ![c] = NoResult]
          /\ UNCHANGED <<phase, notes, told>>
          /\ step.at = "save"
      BY <1>6 DEF SaveResult, Drop
    <2>5. CASE step.notify
      <3>1. /\ step' = [at |-> "note", of |-> c, message |-> outcome[c]]
            /\ changes' = [changes EXCEPT ![c] = Append(@, outcome[c])]
        BY <1>6, <2>5 DEF SaveResult
      <3>2. /\ Pending(c)' = outcome[c]
            /\ \A d \in Deployments : d # c => Pending(d)' = Pending(d)
        BY <2>2, <2>4, <3>1 DEF Pending
      <3>3. changes'[c] = Append(told[c], outcome[c])
        BY <2>3, <3>1 DEF TypeOK
      <3>4. AtMostOnePending'
        BY <2>1, <2>2, <2>4, <3>1, <3>2, <3>3 DEF AtMostOnePending, TypeOK
      <3>5. Log!Observe(c, outcome[c])
        BY <1>6, <2>1, <2>3, <2>4, <2>5, <3>1 DEF SaveResult, Log!Observe
      <3> QED
        BY <2>1, <3>4, <3>5 DEF Log!Next
    <2>6. CASE ~step.notify
      <3>1. step' = NextResult /\ UNCHANGED changes
        BY <1>6, <2>6 DEF SaveResult
      <3>2. \A d \in Deployments : Pending(d)' = Pending(d)
        BY <2>2, <2>4, <3>1 DEF Pending, NextResult
      <3>4. AtMostOnePending'
        BY <2>4, <3>1, <3>2 DEF AtMostOnePending, TypeOK, NextResult
      <3>5. Log!Observe(c, outcome[c])
        BY <1>6, <2>1, <2>3, <2>4, <2>6, <3>1 DEF SaveResult, Log!Observe
      <3> QED
        BY <2>1, <3>4, <3>5 DEF Log!Next
    <2> QED
      BY <2>5, <2>6
  <1>7. CASE Notify
    <2>1. /\ step' = [at |-> "clear", batch |-> step.batch]
          /\ step.batch = notes
          /\ notes # Nothing /\ outcome = Nothing
          /\ UNCHANGED <<phase, outcome, results, notes, changes>>
      BY <1>7, StepFields DEF Notify, TypeOK, Settled, AtMostOnePending
    <2>2. /\ told' = [d \in Deployments |->
                        IF notes[d] = NoResult THEN told[d] ELSE Append(told[d], notes[d])]
          /\ \A d \in Deployments : Pending(d) = notes[d]
      BY <1>7, <1>c, <2>1 DEF Notify, Pending
    <2>3. told' = changes
      BY <2>2 DEF AtMostOnePending, TypeOK
    <2>4. PICK d \in Deployments : notes[d] # NoResult
      BY <2>1 DEF Nothing, TypeOK
    <2>5. changes[d] # told[d]
      <3>1. told[d] \in Seq(Result) /\ notes[d] \in Result
        BY <2>4 DEF TypeOK, MaybeResult
      <3>2. Len(Append(told[d], notes[d])) = Len(told[d]) + 1 /\ Len(told[d]) \in Nat
        BY <3>1, AppendProperties, LenProperties
      <3> QED
        BY <2>2, <2>4, <3>2 DEF AtMostOnePending
    <2>6. Log!Announce
      BY <2>1, <2>3, <2>5 DEF Log!Announce
    <2>7. \A e \in Deployments : Pending(e)' = NoResult
      BY <2>1 DEF Pending
    <2> QED
      BY <2>1, <2>3, <2>6, <2>7 DEF AtMostOnePending, Log!Next
  <1>8. CASE Clear
    <2>1. /\ notes' = Nothing /\ step' = Rest /\ phase' = "idle"
          /\ UNCHANGED <<outcome, results, changes, told>>
          /\ step.at = "clear"
      BY <1>8, <1>c DEF Clear
    <2>2. \A d \in Deployments : Pending(d)' = NoResult /\ Pending(d) = NoResult
      BY <2>1, NothingTyped DEF Pending, Rest
    <2> QED
      BY <2>1, <2>2 DEF AtMostOnePending, Rest, Log!vars
  <1>9. CASE CollectUpdate
    BY <1>9 DEF CollectUpdate, AtMostOnePending
  <1>10. CASE UNCHANGED vars
    BY <1>10 DEF vars, AtMostOnePending, Pending, Log!vars
  <1> QED
    BY <1>c, <1>1, <1>2, <1>3, <1>4, <1>5, <1>6, <1>7, <1>8, <1>9, <1>10
       DEF Next, ResultStep, DeliveryStep

LEMMA LiveInit == Init => LiveInv /\ Log!Init
  <1> SUFFICES ASSUME Init PROVE LiveInv /\ Log!Init
    OBVIOUS
  <1>1. \A d \in Deployments : Pending(d) = NoResult
    BY NothingTyped DEF Init, Pending, Rest
  <1> QED
    BY <1>1, TypeInit
       DEF Init, LiveInv, Fresh, Settled, AtMostOnePending, Log!Init, Rest, Nothing

\* In the mode live, when no statement or webhook fails, nothing times out and
\* the process is not restarted, the notifications keep the promise of
\* ChangeLog: every change of status is announced once, in order, before the
\* status of its deployment changes again.
THEOREM LivePromiseKept == NothingFails /\ Spec => LiveKeepsPromise
  <1>1. NothingFails /\ LiveInv /\ [Next]_vars => LiveInv' /\ [Log!Next]_Log!vars
    BY LiveStep, TypeStep, FreshStep, SettledStep DEF LiveInv
  <1>2. NothingFails => [](NothingFails)
    <2>1. NothingFails => NothingFails'
      BY DEF NothingFails
    <2> QED
      BY <2>1, PTL
  <1> QED
    BY <1>1, <1>2, LiveInit, PTL DEF Spec, LiveKeepsPromise, Log!Spec

\* Under the same conditions a delivery leaves nothing unsaid: when it is done,
\* the last thing told about each deployment is its last change.
THEOREM DeliveryComplete == NothingFails /\ Spec => []DeliveryIsUpToDate
  <1>1. NothingFails /\ LiveInv /\ [Next]_vars => LiveInv'
    BY LiveStep, TypeStep, FreshStep, SettledStep DEF LiveInv
  <1>2. NothingFails => NothingFails'
    BY DEF NothingFails
  <1>3. LiveInv => DeliveryIsUpToDate
    BY DEF LiveInv, AtMostOnePending, Pending, DeliveryIsUpToDate
  <1> QED
    BY <1>1, <1>2, <1>3, LiveInit, PTL DEF Spec
=============================================================================
