------------------------ MODULE RadioOperator_proofs ------------------------
(***************************************************************************)
(* Proofs about RadioOperator, for every set of deployments, senders, POIs *)
(* and blocks, every configuration and every value of the bounds: the two  *)
(* components together behave as CrossCheck says, and the operator only    *)
(* hears of blocks this indexer attested to.                               *)
(***************************************************************************)
EXTENDS RadioOperator, SequenceTheorems, TLAPS

-----------------------------------------------------------------------------
(* Where a tick stands *)

\* The tasks of the gossip and of the comparison live in their own phase, and
\* the stages of the results in theirs.  Results exist from the comparison to
\* the end of their handling, and none is left when messages are delivered.
RStage ==
  /\ task = [d \in Deployments |-> task[d]]
  /\ outcome = [d \in Deployments |-> outcome[d]]
  /\ phase = "gossip" =>
       \A d \in Deployments : task[d].stage \in {"idle", "check", "send", "save"}
  /\ phase = "compare" =>
       \A d \in Deployments :
         task[d].stage \in {"idle", "point", "read", "judge", "join", "clean"}
  /\ phase \notin {"gossip", "compare"} => \A d \in Deployments : task[d] = Idle
  /\ phase \in {"idle", "gossip", "notify"} => outcome = NoOutcome
  /\ phase \in {"idle", "gossip", "compare"} => step = N!Rest
  /\ phase \in {"idle", "gossip", "compare", "results", "notify"}
  /\ step.at \in {"next", "save", "note"} => phase = "results"
  /\ step.at = "collect" => phase = "notify"
  /\ step.at \in {"notify", "clear"} =>
       /\ phase \in {"results", "notify"}
       /\ outcome = NoOutcome
       /\ step = [at |-> step.at, batch |-> step.batch]
  /\ step.at = "save" =>
       step.of \in Deployments /\ outcome[step.of] # NoResult

LEMMA NothingIsNoOutcome == N!Nothing = NoOutcome /\ N!NoResult = NoResult
  BY DEF N!Nothing, NoOutcome, N!NoResult, NoResult

LEMMA StageInit == RInit => RStage
  BY DEF RInit, Init, N!Init, RStage, AllIdle, NoOutcome, N!Rest

\* A task that moves on within its phase.
LEMMA StageGoto ==
  ASSUME RStage, NEW d \in Deployments, NEW t, Goto(d, t),
         UNCHANGED <<phase, step>>, outcome' = [e \in Deployments |-> outcome'[e]],
         \/ phase = "gossip" /\ t.stage \in {"idle", "check", "send", "save"}
              /\ outcome' = outcome
         \/ phase = "compare"
              /\ t.stage \in {"idle", "point", "read", "judge", "join", "clean"}
  PROVE  RStage'
  BY DEF RStage, Goto, N!Rest

\* The phase of a task, read off its stage.
LEMMA PhaseOfTask ==
  ASSUME RStage, NEW d \in Deployments
  PROVE  /\ task[d].stage \in {"check", "send", "save"} => phase = "gossip"
         /\ task[d].stage \in {"point", "read", "judge", "join", "clean"} =>
              phase = "compare"
  BY DEF RStage, Idle

LEMMA StageCheck == RStage /\ CheckStep => RStage'
  <1> SUFFICES ASSUME RStage, CheckStep PROVE RStage'
    OBVIOUS
  <1>s. step' = step
    BY DEF CheckStep
  <1>1. CASE Tick
    BY <1>1, <1>s DEF Tick, RStage
  <1>2. CASE StartGossip
    <2>1. PICK latest \in [Deployments -> Blocks \cup {Unsynced}] :
            task' = [d \in Deployments |->
                       IF latest[d] < head[d] THEN Idle
                       ELSE [stage |-> "check", block |-> head[d]]]
      BY <1>2 DEF StartGossip
    <2>2. \A d \in Deployments : task'[d].stage \in {"idle", "check"}
      BY <2>1 DEF Idle
    <2>3. task' = [d \in Deployments |-> task'[d]]
      BY <2>1
    <2> QED
      BY <1>2, <1>s, <2>2, <2>3 DEF StartGossip, RStage, N!Rest
  <1>3. CASE EndGossip
    BY <1>3, <1>s DEF EndGossip, RStage, N!Rest
  <1>4. CASE StartCompare
    <2>1. PICK ids \in SUBSET Deployments : CompareOf(ids)
      BY <1>4 DEF StartCompare
    <2>2. /\ \A d \in Deployments : task'[d].stage \in {"idle", "point"}
          /\ task' = [d \in Deployments |-> task'[d]]
      BY <2>1 DEF CompareOf, Idle
    <2> QED
      BY <2>1, <2>2, <1>s DEF CompareOf, RStage, N!Rest
  <1>5. CASE EndCompare
    BY <1>5, <1>s DEF EndCompare, RStage, N!Rest
  <1>6. ASSUME NEW d \in Deployments, AdvanceHead(d) \/ Receive(d)
        PROVE  RStage'
    BY <1>6, <1>s DEF AdvanceHead, Receive, RStage
  <1>7. ASSUME NEW d \in Deployments, GossipStep(d)
        PROVE  RStage'
    <2>1. task[d].stage \in {"check", "send", "save"} /\ UNCHANGED <<phase, outcome>>
      BY <1>7 DEF GossipStep, CheckDuplicate, SendPoi, SaveLocal
    <2>2. PICK t : Goto(d, t) /\ t.stage \in {"idle", "check", "send", "save"}
      <3>1. CASE CheckDuplicate(d)
        <4>1. Goto(d, Idle) \/ Goto(d, [stage |-> "send", block |-> task[d].block])
          BY <3>1 DEF CheckDuplicate
        <4>2. Idle.stage = "idle"
          BY DEF Idle
        <4>3. CASE Goto(d, Idle)
          BY <4>2, <4>3
        <4>4. CASE Goto(d, [stage |-> "send", block |-> task[d].block])
          <5> DEFINE t == [stage |-> "send", block |-> task[d].block]
          <5>1. Goto(d, t) /\ t.stage = "send"
            BY <4>4
          <5> HIDE DEF t
          <5> QED
            BY <5>1
        <4> QED
          BY <4>1, <4>3, <4>4
      <3>2. CASE SendPoi(d)
        <4>1. CASE Goto(d, Idle)
          BY <4>1 DEF Idle
        <4>2. CASE ~Goto(d, Idle)
          <5>1. PICK x \in Ppois :
                  Goto(d, [stage |-> "save",
                           row |-> [block |-> task[d].block, ppoi |-> x, time |-> clock]])
            BY <3>2, <4>2 DEF SendPoi
          <5> DEFINE t == [stage |-> "save",
                           row |-> [block |-> task[d].block, ppoi |-> x, time |-> clock]]
          <5>2. Goto(d, t) /\ t.stage = "save"
            BY <5>1
          <5> HIDE DEF t
          <5> QED
            BY <5>2
        <4> QED
          BY <4>1, <4>2
      <3>3. CASE SaveLocal(d)
        BY <3>3 DEF SaveLocal, Idle
      <3> QED
        BY <1>7, <3>1, <3>2, <3>3 DEF GossipStep
    <2>3. phase = "gossip"
      BY <2>1, PhaseOfTask
    <2> QED
      BY <2>1, <2>2, <2>3, <1>s, StageGoto DEF RStage
  <1>8. ASSUME NEW d \in Deployments, CompareStep(d)
        PROVE  RStage'
    <2>1. /\ task[d].stage \in {"point", "read", "judge", "join", "clean"}
          /\ UNCHANGED phase
      BY <1>8 DEF CompareStep, ChoosePoint, ReadRemote, Judge, CleanLocal, CleanRemote
    <2>2. PICK t : /\ Goto(d, t)
                   /\ t.stage \in {"idle", "point", "read", "judge", "join", "clean"}
      <3>1. CASE ChoosePoint(d) \/ ReadRemote(d)
        BY <3>1 DEF ChoosePoint, ReadRemote, Idle
      <3>2. CASE Judge(d)
        BY <3>2 DEF Judge, Idle
      <3>3. CASE CleanLocal(d) \/ CleanRemote(d)
        BY <3>3 DEF CleanLocal, CleanRemote, Idle
      <3> QED
        BY <1>8, <3>1, <3>2, <3>3 DEF CompareStep
    <2>3. phase = "compare"
      BY <2>1, PhaseOfTask
    <2>4. outcome' = [e \in Deployments |-> outcome'[e]]
      <3>1. CASE Judge(d)
        BY <3>1 DEF Judge, RStage
      <3>2. CASE ~Judge(d)
        BY <1>8, <3>2 DEF CompareStep, ChoosePoint, ReadRemote, CleanLocal,
                          CleanRemote, RStage
      <3> QED
        BY <3>1, <3>2
    <2> QED
      BY <2>1, <2>2, <2>3, <2>4, <1>s, StageGoto
  <1> QED
    BY <1>1, <1>2, <1>3, <1>4, <1>5, <1>6, <1>7, <1>8 DEF CheckStep

LEMMA StageNotify == RStage /\ NotifyStep => RStage'
  <1> SUFFICES ASSUME RStage, NotifyStep PROVE RStage'
    OBVIOUS
  <1>t. task' = task
    BY DEF NotifyStep
  <1>1. CASE N!Begin
    BY <1>1, <1>t DEF N!Begin, RStage, N!Rest, N!NextResult
  <1>2. CASE N!CreateNote
    BY <1>2, <1>t DEF N!CreateNote, RStage, N!Rest, N!NextResult
  <1>3. CASE N!CollectLive
    <2>1. /\ phase = "results" /\ outcome = NoOutcome /\ outcome' = outcome
      BY <1>3, NothingIsNoOutcome DEF N!CollectLive, RStage
    <2>2. \/ step' = [at |-> "notify", batch |-> notes] /\ phase' = "results"
          \/ step' = N!Rest /\ phase' = "idle"
      BY <1>3, <2>1 DEF N!CollectLive, N!Deliver
    <2> QED
      BY <1>t, <2>1, <2>2 DEF RStage, N!Rest
  <1>4. ASSUME NEW d \in Deployments, N!ReadExisting(d)
        PROVE  RStage'
    <2>1. /\ phase = "results" /\ phase' = phase
          /\ outcome[d] # NoResult
      BY <1>4, NothingIsNoOutcome DEF N!ReadExisting, RStage
    <2>2. \/ /\ step' = [at |-> "save", of |-> d,
                        notify |-> N!Notable(N!Existing(d), outcome[d])]
             /\ outcome' = outcome
          \/ step' = step /\ outcome' = [outcome EXCEPT ![d] = NoResult]
      BY <1>4, NothingIsNoOutcome DEF N!ReadExisting, N!Drop
    <2>3. step.at = "next"
      BY <1>4 DEF N!ReadExisting
    <2> QED
      BY <1>t, <2>1, <2>2, <2>3 DEF RStage, N!Rest
  <1>5. ASSUME NEW d \in Deployments, N!SaveResult(d) \/ N!SaveFails(d)
        PROVE  RStage'
    <2>1. /\ phase = "results" /\ phase' = phase
          /\ outcome' = [outcome EXCEPT ![d] = NoResult]
          /\ step'.at \in {"next", "note"}
      BY <1>5, NothingIsNoOutcome
         DEF N!SaveResult, N!SaveFails, N!Drop, N!NextResult, RStage
    <2> QED
      BY <1>t, <2>1 DEF RStage, N!Rest
  <1>6. CASE N!Timeout
    BY <1>6, <1>t, NothingIsNoOutcome DEF N!Timeout, RStage, N!Rest, NoOutcome
  <1>7. CASE N!StartUpdate
    BY <1>7, <1>t DEF N!StartUpdate, RStage, N!Rest
  <1>8. CASE N!CollectUpdate
    <2>1. /\ phase = "notify" /\ outcome = NoOutcome /\ outcome' = outcome
      BY <1>8 DEF N!CollectUpdate, RStage
    <2>2. \/ step' = [at |-> "notify", batch |-> notes] /\ phase' = "notify"
          \/ step' = N!Rest /\ phase' = "idle"
      BY <1>8, <2>1 DEF N!CollectUpdate, N!Deliver
    <2> QED
      BY <1>t, <2>1, <2>2 DEF RStage, N!Rest
  <1>9. CASE N!Notify
    <2>1. /\ phase \in {"results", "notify"} /\ phase' = phase
          /\ outcome = NoOutcome /\ outcome' = outcome
          /\ step = [at |-> "notify", batch |-> step.batch]
      BY <1>9 DEF N!Notify, RStage
    <2>2. step' = [at |-> "clear", batch |-> step.batch]
      BY <1>9, <2>1 DEF N!Notify
    <2> QED
      BY <1>t, <2>1, <2>2 DEF RStage, N!Rest
  <1>10. CASE N!Clear
    BY <1>10, <1>t DEF N!Clear, RStage, N!Rest
  <1> QED
    BY <1>1, <1>2, <1>3, <1>4, <1>5, <1>6, <1>7, <1>8, <1>9, <1>10
       DEF NotifyStep, N!ResultStep, N!DeliveryStep

LEMMA StageStep == RStage /\ [RNext]_rvars => RStage'
  <1>1. RRestart => RStage'
    BY DEF RRestart, Restart, N!Restart, RStage, AllIdle, NoOutcome, N!Rest
  <1>2. RStage /\ UNCHANGED rvars => RStage'
    BY DEF rvars, vars, RStage, N!Rest
  <1> QED
    BY <1>1, <1>2, StageCheck, StageNotify DEF RNext

-----------------------------------------------------------------------------
(* The steps of the two components, seen from CrossCheck *)

\* Verdicts do not depend on the phase.
LEMMA VerdictSame == \A x, msgs : Coarse!Verdict(x, msgs) = Verdict(x, msgs)
  <1>1. \A S : Coarse!InRowOrder(S) = InRowOrder(S)
    BY Zenon DEF InRowOrder, Coarse!InRowOrder, RowPlace, Coarse!RowPlace,
                 Cardinality, Coarse!Cardinality
  <1>2. \A x, s : Coarse!compare_attestations(x, s) = compare_attestations(x, s)
    BY Zenon DEF Coarse!compare_attestations, compare_attestations, DecidingIndex,
                 Coarse!DecidingIndex
  <1>3. \A s : Coarse!process_ppoi_message(s) = process_ppoi_message(s)
    BY Zenon DEF FoldLeft, Coarse!FoldLeft, process_ppoi_message,
                 Coarse!process_ppoi_message, MapThenFoldSet, Coarse!MapThenFoldSet,
                 Max, Coarse!Max, Coarse!AddMessage, AddMessage, Update,
                 Coarse!Update, AttestationOf, Coarse!AttestationOf, Contains,
                 Coarse!Contains
  <1> QED
    BY <1>1, <1>2, <1>3 DEF Coarse!Verdict, Verdict

LEMMA GossipSame ==
  ASSUME NEW d \in Deployments, GossipStep(d)
  PROVE  Coarse!GossipStep(d)
  <1> USE DEF Goto, Coarse!Goto, Fault, Coarse!Fault, Idle, Coarse!Idle,
              RowsAt, Coarse!RowsAt
  <1>1. CASE CheckDuplicate(d)
    BY <1>1 DEF CheckDuplicate, Coarse!CheckDuplicate, AlreadySent, Coarse!AlreadySent,
                Coarse!GossipStep
  <1>2. CASE SendPoi(d)
    BY <1>2 DEF SendPoi, Coarse!SendPoi, Coarse!GossipStep
  <1>3. CASE SaveLocal(d)
    BY <1>3 DEF SaveLocal, Coarse!SaveLocal, Coarse!GossipStep
  <1> QED
    BY <1>1, <1>2, <1>3 DEF GossipStep

LEMMA CompareSame ==
  ASSUME NEW d \in Deployments, CompareStep(d)
  PROVE  Coarse!CompareStep(d)
  <1> USE DEF Goto, Coarse!Goto, Fault, Coarse!Fault, Idle, Coarse!Idle,
              RowsAt, Coarse!RowsAt
  <1>1. CASE ChoosePoint(d)
    BY <1>1 DEF ChoosePoint, Coarse!ChoosePoint, Answered, Coarse!Answered,
                ComparisonPoint, Coarse!ComparisonPoint, Coarse!CompareStep
  <1>2. CASE ReadRemote(d)
    BY <1>2 DEF ReadRemote, Coarse!ReadRemote, Heard, Coarse!Heard, Coarse!CompareStep
  <1>3. CASE Judge(d)
    BY <1>3, VerdictSame DEF Judge, Coarse!Judge, Coarse!CompareStep
  <1>o. \A b, c : Coarse!Outdated(b, c) = Outdated(b, c)
    BY Zenon DEF Outdated, Coarse!Outdated, TextLe, Coarse!TextLe, Width, Coarse!Width,
                 MaxWidth, Coarse!MaxWidth
  <1>4. CASE CleanLocal(d)
    BY <1>4, <1>o DEF CleanLocal, Coarse!CleanLocal, DeleteLocal, Coarse!DeleteLocal,
                      Coarse!CompareStep
  <1>5. CASE CleanRemote(d)
    BY <1>5, <1>o DEF CleanRemote, Coarse!CleanRemote, DeleteRemote,
                      Coarse!DeleteRemote, Coarse!CompareStep
  <1> QED
    BY <1>1, <1>2, <1>3, <1>4, <1>5 DEF CompareStep

\* What the other steps are to CrossCheck: the read of an existing result that
\* fails and the save that fails lose a result, the save records one, and the
\* tick ends with the timeout or when there is nothing (more) to deliver.  All
\* that the notification tick does is invisible.
LEMMA CheckRefines ==
  ASSUME CheckStep
  PROVE  Coarse!Next
  <1>1. CASE Tick
    BY <1>1 DEF Tick, Coarse!Tick, Coarse!Next
  <1>2. CASE StartGossip
    BY <1>2 DEF StartGossip, Coarse!StartGossip, Unsynced, Coarse!Unsynced, Idle,
                Coarse!Idle, Coarse!LoopStep, Coarse!Next
  <1>3. CASE EndGossip
    BY <1>3 DEF EndGossip, Coarse!EndGossip, Idle, Coarse!Idle, Coarse!LoopStep,
                Coarse!Next
  <1>4. CASE StartCompare
    BY <1>4 DEF StartCompare, Coarse!StartCompare, CompareOf, Coarse!CompareOf, Idle,
                Coarse!Idle, Coarse!LoopStep, Coarse!Next
  <1>5. CASE EndCompare
    BY <1>5 DEF EndCompare, Coarse!EndCompare, Idle, Coarse!Idle, Coarse!LoopStep,
                Coarse!Next
  <1>6. ASSUME NEW d \in Deployments, AdvanceHead(d)
        PROVE  Coarse!Next
    BY <1>6 DEF AdvanceHead, Coarse!AdvanceHead, Coarse!Next
  <1>7. ASSUME NEW d \in Deployments, Receive(d)
        PROVE  Coarse!Next
    <2>1. Coarse!Receive(d)
      BY <1>7 DEF Receive, Coarse!Receive, IsNextRowid, Coarse!IsNextRowid
    <2> QED
      BY <2>1 DEF Coarse!Next
  <1>8. ASSUME NEW d \in Deployments, GossipStep(d)
        PROVE  Coarse!Next
    BY <1>8, GossipSame DEF Coarse!Next
  <1>9. ASSUME NEW d \in Deployments, CompareStep(d)
        PROVE  Coarse!Next
    BY <1>9, CompareSame DEF Coarse!Next
  <1> QED
    BY <1>1, <1>2, <1>3, <1>4, <1>5, <1>6, <1>7, <1>8, <1>9 DEF CheckStep

LEMMA NotifyRefines ==
  ASSUME RStage, NotifyStep
  PROVE  [Coarse!Next]_Coarse!vars
  <1>u. UNCHANGED <<clock, head, task, local, remote, published, faults>>
    BY DEF NotifyStep
  <1>n. /\ N!Nothing = NoOutcome /\ N!NoResult = NoResult
        /\ Coarse!NoResult = NoResult /\ Coarse!NoOutcome = NoOutcome
    BY NothingIsNoOutcome DEF Coarse!NoResult, NoResult, Coarse!NoOutcome, NoOutcome
  <1>1. CASE N!Begin \/ N!CreateNote \/ N!Notify
    BY <1>1, <1>u DEF N!Begin, N!CreateNote, N!Notify, Coarse!vars
  <1>2. CASE N!StartUpdate
    BY <1>2, <1>u DEF N!StartUpdate, Coarse!vars
  <1>3. CASE N!CollectLive
    <2>1. phase = "results" /\ outcome = NoOutcome
      BY <1>3, <1>n DEF N!CollectLive, RStage
    <2>2. UNCHANGED <<outcome, results, crashes>> /\ phase' \in {"results", "idle"}
      BY <1>3, <2>1 DEF N!CollectLive
    <2>3. CASE phase' = phase
      BY <1>u, <2>2, <2>3 DEF Coarse!vars
    <2>4. CASE phase' = "idle"
      BY <1>u, <1>n, <2>1, <2>2, <2>4 DEF Coarse!EndResults, Coarse!LoopStep, Coarse!Next
    <2> QED
      BY <2>1, <2>2, <2>3, <2>4
  <1>4. ASSUME NEW d \in Deployments, N!ReadExisting(d)
        PROVE  [Coarse!Next]_Coarse!vars
    <2>1. /\ phase = "results" /\ outcome[d] # NoResult
          /\ UNCHANGED <<phase, results, crashes>>
      BY <1>4, <1>n DEF N!ReadExisting, RStage
    <2>2. outcome' = outcome \/ outcome' = [outcome EXCEPT ![d] = NoResult]
      BY <1>4, <1>n DEF N!ReadExisting, N!Drop
    <2>3. CASE outcome' = outcome
      BY <1>u, <2>1, <2>3 DEF Coarse!vars
    <2>4. CASE outcome' = [outcome EXCEPT ![d] = NoResult]
      BY <1>u, <1>n, <2>1, <2>4 DEF Coarse!LoseResult, Coarse!Next
    <2> QED
      BY <2>2, <2>3, <2>4
  <1>5. ASSUME NEW d \in Deployments, N!SaveResult(d)
        PROVE  Coarse!Next
    <2>1. /\ phase = "results" /\ outcome[d] # NoResult
          /\ UNCHANGED <<phase, crashes>>
          /\ outcome' = [outcome EXCEPT ![d] = NoResult]
          /\ results' = [results EXCEPT ![d] = outcome[d]]
      BY <1>5, <1>n DEF N!SaveResult, N!Drop, RStage
    <2> QED
      BY <1>u, <1>n, <2>1 DEF Coarse!RecordResult, Coarse!Next
  <1>6. ASSUME NEW d \in Deployments, N!SaveFails(d)
        PROVE  Coarse!Next
    <2>1. /\ phase = "results" /\ outcome[d] # NoResult
          /\ UNCHANGED <<phase, results, crashes>>
          /\ outcome' = [outcome EXCEPT ![d] = NoResult]
      BY <1>6, <1>n DEF N!SaveFails, N!Drop, RStage
    <2> QED
      BY <1>u, <1>n, <2>1 DEF Coarse!LoseResult, Coarse!Next
  <1>7. CASE N!Timeout
    BY <1>7, <1>u, <1>n DEF N!Timeout, Coarse!EndResults, Coarse!LoopStep, Coarse!Next
  <1>8. CASE N!CollectUpdate
    <2>1. phase = "notify" /\ phase' \in {"notify", "idle"}
      BY <1>8 DEF N!CollectUpdate, RStage
    <2> QED
      BY <1>8, <1>u, <2>1 DEF N!CollectUpdate, Coarse!vars
  <1>9. CASE N!Clear
    <2>1. /\ phase \in {"results", "notify"} /\ outcome = NoOutcome /\ phase' = "idle"
          /\ UNCHANGED <<outcome, results, crashes>>
      BY <1>9 DEF N!Clear, RStage
    <2>2. CASE phase = "notify"
      BY <1>u, <2>1, <2>2 DEF Coarse!vars
    <2>3. CASE phase = "results"
      BY <1>u, <1>n, <2>1, <2>3 DEF Coarse!EndResults, Coarse!LoopStep, Coarse!Next
    <2> QED
      BY <2>1, <2>2, <2>3
  <1> QED
    BY <1>1, <1>2, <1>3, <1>4, <1>5, <1>6, <1>7, <1>8, <1>9
       DEF NotifyStep, N!ResultStep, N!DeliveryStep

LEMMA CoarseInit == RInit => Coarse!Init
  BY DEF RInit, Init, Coarse!Init, AllIdle, Coarse!AllIdle, NoOutcome, Coarse!NoOutcome,
         Idle, Coarse!Idle, NoResult, Coarse!NoResult

LEMMA CoarseStep == RStage /\ [RNext]_rvars => [Coarse!Next]_Coarse!vars
  <1>1. RRestart => Coarse!Next
    BY DEF RRestart, Restart, Coarse!Restart, AllIdle, Coarse!AllIdle, NoOutcome,
           Coarse!NoOutcome, Idle, Coarse!Idle, NoResult, Coarse!NoResult, Coarse!Next
  <1>2. UNCHANGED rvars => UNCHANGED Coarse!vars
    BY DEF rvars, vars, Coarse!vars
  <1> QED
    BY <1>1, <1>2, CheckRefines, NotifyRefines DEF RNext

\* Whatever fails, times out or restarts, the two components together take only
\* the steps of CrossCheck: a result is saved once, or lost, and the delivery
\* and the notification tick touch nothing a comparison reads.
THEOREM CrossCheckImplemented == RSpec => RefinesCrossCheck
  BY CoarseInit, CoarseStep, StageInit, StageStep, PTL
     DEF RSpec, RefinesCrossCheck, Coarse!Spec

-----------------------------------------------------------------------------
(* The theorems about CrossCheck carry over *)

\* CrossCheck as Coarse sees it, with its theorems.  The two copies of its
\* definitions say the same.
Cp == INSTANCE CrossCheck_proofs WITH
  phase <- IF phase = "notify" THEN "idle" ELSE phase

LEMMA CopyVerdict == \A x, msgs : Coarse!Verdict(x, msgs) = Cp!Verdict(x, msgs)
  <1>1. \A S : Coarse!InRowOrder(S) = Cp!InRowOrder(S)
    BY Zenon DEF Cp!InRowOrder, Coarse!InRowOrder, Cp!RowPlace, Coarse!RowPlace,
                 Cp!Cardinality, Coarse!Cardinality
  <1>2. \A x, s : Coarse!compare_attestations(x, s) = Cp!compare_attestations(x, s)
    BY Zenon DEF Coarse!compare_attestations, Cp!compare_attestations,
                 Cp!DecidingIndex, Coarse!DecidingIndex
  <1>3. \A s : Coarse!process_ppoi_message(s) = Cp!process_ppoi_message(s)
    BY Zenon DEF Cp!FoldLeft, Coarse!FoldLeft, Cp!process_ppoi_message,
                 Coarse!process_ppoi_message, Cp!MapThenFoldSet, Coarse!MapThenFoldSet,
                 Cp!Max, Coarse!Max, Coarse!AddMessage, Cp!AddMessage, Cp!Update,
                 Coarse!Update, Cp!AttestationOf, Coarse!AttestationOf, Cp!Contains,
                 Coarse!Contains
  <1> QED
    BY <1>1, <1>2, <1>3 DEF Coarse!Verdict, Cp!Verdict

LEMMA CopyTextLe == \A a, b : Coarse!TextLe(a, b) = Cp!TextLe(a, b)
  BY Zenon DEF Coarse!TextLe, Cp!TextLe, Coarse!Width, Cp!Width, Coarse!MaxWidth,
               Cp!MaxWidth

LEMMA CopyWidth == \A n : Cp!Width(n) = Width(n)
  BY Zenon DEF Cp!Width, Width, Cp!MaxWidth, MaxWidth

LEMMA CopyInit == Coarse!Init => Cp!Init
  BY DEF Coarse!Init, Cp!Init, Coarse!AllIdle, Cp!AllIdle, Coarse!NoOutcome,
         Cp!NoOutcome, Coarse!Idle, Cp!Idle, Coarse!NoResult, Cp!NoResult

LEMMA CopyStep == [Coarse!Next]_Coarse!vars => [Cp!Next]_Cp!vars
  <1> USE DEF Coarse!Fault, Cp!Fault, Coarse!Goto, Cp!Goto, Coarse!Idle, Cp!Idle,
              Coarse!AllIdle, Cp!AllIdle, Coarse!NoResult, Cp!NoResult,
              Coarse!NoOutcome, Cp!NoOutcome, Coarse!RowsAt, Cp!RowsAt
  <1>1. Coarse!Tick => Cp!Tick
    BY DEF Coarse!Tick, Cp!Tick
  <1>2. Coarse!LoopStep => Cp!LoopStep
    BY DEF Coarse!LoopStep, Cp!LoopStep, Coarse!StartGossip, Cp!StartGossip,
           Coarse!EndGossip, Cp!EndGossip, Coarse!StartCompare, Cp!StartCompare,
           Coarse!CompareOf, Cp!CompareOf, Coarse!EndCompare, Cp!EndCompare,
           Coarse!EndResults, Cp!EndResults, Coarse!Unsynced, Cp!Unsynced
  <1>3. Coarse!Restart => Cp!Restart
    BY DEF Coarse!Restart, Cp!Restart
  <1>4. ASSUME NEW d \in Deployments, Coarse!AdvanceHead(d) \/ Coarse!Receive(d)
        PROVE  Cp!AdvanceHead(d) \/ Cp!Receive(d)
    BY <1>4 DEF Coarse!AdvanceHead, Coarse!Receive, Cp!AdvanceHead, Cp!Receive,
                Coarse!IsNextRowid, Cp!IsNextRowid
  <1>5. ASSUME NEW d \in Deployments, Coarse!GossipStep(d)
        PROVE  Cp!GossipStep(d)
    BY <1>5 DEF Coarse!GossipStep, Cp!GossipStep, Coarse!CheckDuplicate,
                Cp!CheckDuplicate, Coarse!SendPoi, Cp!SendPoi, Coarse!SaveLocal,
                Cp!SaveLocal, Coarse!AlreadySent, Cp!AlreadySent
  <1>6. ASSUME NEW d \in Deployments, Coarse!CompareStep(d)
        PROVE  Cp!CompareStep(d)
    <2>1. Coarse!ChoosePoint(d) => Cp!ChoosePoint(d)
      BY DEF Coarse!ChoosePoint, Cp!ChoosePoint, Coarse!ComparisonPoint,
             Cp!ComparisonPoint, Coarse!Answered, Cp!Answered
    <2>2. Coarse!ReadRemote(d) => Cp!ReadRemote(d)
      BY DEF Coarse!ReadRemote, Cp!ReadRemote, Coarse!Heard, Cp!Heard
    <2>3. Coarse!Judge(d) => Cp!Judge(d)
      BY CopyVerdict DEF Coarse!Judge, Cp!Judge
    <2>4. Coarse!CleanLocal(d) => Cp!CleanLocal(d)
      BY CopyTextLe DEF Coarse!CleanLocal, Cp!CleanLocal, Coarse!DeleteLocal,
             Cp!DeleteLocal, Coarse!Outdated, Cp!Outdated
    <2>5. Coarse!CleanRemote(d) => Cp!CleanRemote(d)
      BY CopyTextLe DEF Coarse!CleanRemote, Cp!CleanRemote, Coarse!DeleteRemote,
             Cp!DeleteRemote, Coarse!Outdated, Cp!Outdated
    <2> QED
      BY <1>6, <2>1, <2>2, <2>3, <2>4, <2>5 DEF Coarse!CompareStep, Cp!CompareStep
  <1>7. ASSUME NEW d \in Deployments, Coarse!RecordResult(d) \/ Coarse!LoseResult(d)
        PROVE  Cp!RecordResult(d) \/ Cp!LoseResult(d)
    BY <1>7 DEF Coarse!RecordResult, Coarse!LoseResult, Cp!RecordResult, Cp!LoseResult
  <1>8. UNCHANGED Coarse!vars => UNCHANGED Cp!vars
    BY DEF Coarse!vars, Cp!vars
  <1> QED
    BY <1>1, <1>2, <1>3, <1>4, <1>5, <1>6, <1>7, <1>8 DEF Coarse!Next, Cp!Next

LEMMA CopySpec == RefinesCrossCheck => Cp!Spec
  BY CopyInit, CopyStep, PTL DEF RefinesCrossCheck, Coarse!Spec, Cp!Spec

-----------------------------------------------------------------------------
(* The steps of the two components, seen from Notifications *)

\* Notifications as Handed sees it, with its theorems.
Np == INSTANCE Notifications_proofs WITH
  phase <- IF phase \in {"gossip", "compare"} THEN "idle" ELSE phase,
  outcome <- IF phase = "compare" THEN NoOutcome ELSE outcome,
  MaxChanges <- -1

\* What a step of the ticks is taken to be.
LEMMA HandedPhase ==
  ASSUME RStage
  PROVE  /\ phase \in {"results", "notify"} =>
              /\ (IF phase \in {"gossip", "compare"} THEN "idle" ELSE phase) = phase
              /\ (IF phase = "compare" THEN NoOutcome ELSE outcome) = outcome
         /\ phase \in {"idle", "gossip", "compare"} =>
              /\ (IF phase \in {"gossip", "compare"} THEN "idle" ELSE phase) = "idle"
              /\ (IF phase = "compare" THEN NoOutcome ELSE outcome) = NoOutcome
  BY DEF RStage

LEMMA HandedCheck ==
  ASSUME RStage, RStage', Cp!TypeOK, Np!TypeOK, CheckStep
  PROVE  [Np!Next]_Np!vars
  <1>s. UNCHANGED <<notes, mode, step, changes, told, mishaps>>
    BY DEF CheckStep
  <1>1. CASE EndCompare
    <2> DEFINE S == {d \in Deployments : outcome[d] # NoResult}
    <2>1. S \in SUBSET {d \in Deployments : Len(changes[d]) # -1}
      <3>1. \A d \in Deployments : changes[d] \in Seq(Np!Result)
        BY DEF Np!TypeOK
      <3> QED
        BY <3>1, LenProperties
    <2>2. outcome \in [Deployments -> Np!MaybeResult]
      BY DEF Cp!TypeOK, Np!MaybeResult, Cp!Result, Np!Result, Cp!NoResult, Np!NoResult,
             Cp!ResultType, Np!ResultType
    <2>3. /\ phase = "compare" /\ phase' = "results"
          /\ UNCHANGED <<outcome, results, crashes>>
      BY <1>1 DEF EndCompare
    <2> DEFINE o == IF phase = "compare" THEN NoOutcome ELSE outcome
    <2>4. o' = outcome
      BY <2>3
    <2>5. o' \in {n \in [Deployments -> Np!MaybeResult] :
                    \A d \in Deployments : n[d] = Np!NoResult <=> d \notin S}
      BY <2>2, <2>4 DEF NoResult, Np!NoResult
    <2>6. Np!Compare
      BY <1>s, <2>1, <2>3, <2>5 DEF Np!Compare
    <2> QED
      BY <2>6 DEF Np!Next
  <1>2. CASE ~EndCompare
    <2>1. UNCHANGED <<results, crashes>>
      BY <1>2 DEF CheckStep, Tick, StartGossip, EndGossip, StartCompare, CompareOf,
           AdvanceHead, Receive, GossipStep, CompareStep, CheckDuplicate, SendPoi,
           SaveLocal, ChoosePoint, ReadRemote, Judge, CleanLocal, CleanRemote
    <2>2. \/ phase' = phase /\ outcome' = outcome
          \/ phase' = phase /\ phase = "compare"
          \/ phase \in {"idle", "gossip", "compare"} /\ phase' \in {"idle", "gossip", "compare"}
      <3>1. CASE Tick \/ StartGossip \/ EndGossip
        BY <3>1 DEF Tick, StartGossip, EndGossip
      <3>2. CASE StartCompare
        BY <3>2 DEF StartCompare, CompareOf
      <3>3. ASSUME NEW d \in Deployments, AdvanceHead(d) \/ Receive(d) \/ GossipStep(d)
            PROVE  phase' = phase /\ outcome' = outcome
        BY <3>3 DEF AdvanceHead, Receive, GossipStep, CheckDuplicate, SendPoi, SaveLocal
      <3>4. ASSUME NEW d \in Deployments, CompareStep(d)
            PROVE  phase' = phase /\ phase = "compare"
        BY <3>4, PhaseOfTask
           DEF CompareStep, ChoosePoint, ReadRemote, Judge, CleanLocal, CleanRemote
      <3> QED
        BY <1>2, <3>1, <3>2, <3>3, <3>4 DEF CheckStep
    <2>3. UNCHANGED Np!vars
      BY <1>s, <2>1, <2>2, HandedPhase DEF Np!vars, RStage
    <2> QED
      BY <2>3
  <1> QED
    BY <1>1, <1>2

LEMMA HandedNotify ==
  ASSUME RStage, RStage', NotifyStep
  PROVE  Np!Next
  <1>n. N!Nothing = NoOutcome /\ Np!Nothing = NoOutcome /\ N!NoResult = Np!NoResult
    BY DEF N!Nothing, Np!Nothing, NoOutcome, N!NoResult, Np!NoResult, NoResult
  <1> USE DEF N!Mishap, Np!Mishap, N!Rest, Np!Rest, N!NextResult, Np!NextResult,
              N!Drop, Np!Drop, N!Deliver, Np!Deliver
  <1>1. N!Begin => Np!Begin
    BY DEF N!Begin, Np!Begin
  <1>2. N!CreateNote => Np!CreateNote
    BY <1>n DEF N!CreateNote, Np!CreateNote, N!InsertNote, Np!InsertNote, RStage
  <1>3. N!CollectLive => Np!CollectLive
    BY <1>n DEF N!CollectLive, Np!CollectLive, RStage
  <1>4. ASSUME NEW d \in Deployments
        PROVE  N!ReadExisting(d) => Np!ReadExisting(d)
    BY <1>n DEF N!ReadExisting, Np!ReadExisting, N!Notable, Np!Notable, N!Existing,
             Np!Existing, RStage
  <1>5. ASSUME NEW d \in Deployments
        PROVE  /\ N!SaveResult(d) => Np!SaveResult(d)
               /\ N!SaveFails(d) => Np!SaveFails(d)
    BY <1>n DEF N!SaveResult, Np!SaveResult, N!SaveFails, Np!SaveFails, RStage
  <1>6. N!Timeout => Np!Timeout
    BY <1>n DEF N!Timeout, Np!Timeout
  <1>7. N!StartUpdate => Np!StartUpdate
    BY DEF N!StartUpdate, Np!StartUpdate
  <1>8. N!CollectUpdate => Np!CollectUpdate
    BY <1>n DEF N!CollectUpdate, Np!CollectUpdate, RStage
  <1>9. N!Notify => Np!Notify
    BY <1>n DEF N!Notify, Np!Notify, RStage
  <1>10. N!Clear => Np!Clear
    BY <1>n DEF N!Clear, Np!Clear, RStage
  <1> QED
    BY <1>1, <1>2, <1>3, <1>4, <1>5, <1>6, <1>7, <1>8, <1>9, <1>10
       DEF NotifyStep, N!ResultStep, N!DeliveryStep, Np!Next, Np!ResultStep,
           Np!DeliveryStep

LEMMA HandedRestart == RRestart => Np!Restart
  BY DEF RRestart, Restart, N!Restart, Np!Restart, Np!Nothing, N!Nothing, NoOutcome,
         N!Rest, Np!Rest, N!NoResult, Np!NoResult, NoResult

LEMMA HandedStep ==
  RStage /\ RStage' /\ Cp!TypeOK /\ Np!TypeOK /\ [RNext]_rvars => [Np!Next]_Np!vars
  <1>1. UNCHANGED rvars => UNCHANGED Np!vars
    BY DEF rvars, vars, Np!vars
  <1>2. RRestart => Np!Next
    BY HandedRestart DEF Np!Next
  <1> QED
    BY <1>1, <1>2, HandedCheck, HandedNotify DEF RNext

LEMMA HandedInit == RInit => Np!Init
  BY DEF RInit, Init, N!Init, Np!Init, NoOutcome, NoResult, N!Nothing, Np!Nothing,
         N!NoResult, Np!NoResult, N!Rest, Np!Rest

\* Both components keep the types of their variables, and a result that is to
\* be saved is still there.
RInv == RStage /\ Cp!TypeOK /\ Np!TypeOK /\ Np!Fresh

LEMMA RInvAlways == RSpec => []RInv
  <1>1. RInit => RInv
    <2>1. RInit => Np!TypeOK /\ Np!Fresh
      BY HandedInit, Np!TypeInit, DbAssumption, BoundAssumption, ModesAssumption,
         MishapsAssumption DEF Np!Init, Np!Fresh, Np!Rest
    <2>2. RInit => Cp!TypeOK
      BY CopyInit, CoarseInit, Cp!TypeInit, StakeAssumption, BlocksAssumption,
         WindowAssumption, DbAssumption, BoundAssumption
    <2> QED
      BY <2>1, <2>2, StageInit DEF RInv
  <1>2. RInv /\ [RNext]_rvars => RInv'
    <2> SUFFICES ASSUME RInv, [RNext]_rvars PROVE RInv'
      OBVIOUS
    <2>1. RStage'
      BY StageStep DEF RInv
    <2>2. Cp!TypeOK'
      <3>1. [Cp!Next]_Cp!vars
        BY CoarseStep, CopyStep DEF RInv
      <3> QED
        BY <3>1, Cp!TypeStep, StakeAssumption, BlocksAssumption, WindowAssumption,
           DbAssumption, BoundAssumption DEF RInv
    <2>3. Np!TypeOK' /\ Np!Fresh'
      <3>1. [Np!Next]_Np!vars
        BY <2>1, HandedStep DEF RInv
      <3> QED
        BY <3>1, Np!TypeStep, Np!FreshStep, DbAssumption, BoundAssumption,
           ModesAssumption, MishapsAssumption DEF RInv
    <2> QED
      BY <2>1, <2>2, <2>3 DEF RInv
  <1> QED
    BY <1>1, <1>2, PTL DEF RSpec

LEMMA HandedSpec == RSpec => Np!Spec
  <1>1. RInv /\ RInv' /\ [RNext]_rvars => [Np!Next]_Np!vars
    BY HandedStep DEF RInv
  <1> QED
    BY <1>1, HandedInit, RInvAlways, PTL DEF RSpec, Np!Spec

\* The two components together take only the steps of Notifications: the
\* results a comparison leaves are handed over as they are, and neither the
\* gossip nor a comparison touches what process_comparison_results works on.
THEOREM NotificationsImplemented == RSpec => RefinesNotifications
  <1> USE DEF Np!Mishap, Handed!Mishap, Np!Rest, Handed!Rest, Np!NextResult,
              Handed!NextResult, Np!Drop, Handed!Drop, Np!Deliver, Handed!Deliver,
              Np!Nothing, Handed!Nothing, Np!NoResult, Handed!NoResult
  <1>1. Np!Init => Handed!Init
    BY DEF Np!Init, Handed!Init
  <1>2. Np!Compare => Handed!Compare
    BY DEF Np!Compare, Handed!Compare, Np!MaybeResult, Handed!MaybeResult, Np!Result,
           Handed!Result, Np!ResultType, Handed!ResultType
  <1>3. Np!ResultStep => Handed!ResultStep
    BY DEF Np!ResultStep, Handed!ResultStep, Np!Begin, Handed!Begin, Np!CreateNote,
           Handed!CreateNote, Np!InsertNote, Handed!InsertNote, Np!CollectLive,
           Handed!CollectLive, Np!ReadExisting, Handed!ReadExisting, Np!Existing,
           Handed!Existing, Np!Notable, Handed!Notable, Np!SaveResult,
           Handed!SaveResult, Np!SaveFails, Handed!SaveFails
  <1>4. Np!Timeout => Handed!Timeout
    BY DEF Np!Timeout, Handed!Timeout
  <1>5. Np!StartUpdate => Handed!StartUpdate
    BY DEF Np!StartUpdate, Handed!StartUpdate
  <1>6. Np!DeliveryStep => Handed!DeliveryStep
    BY DEF Np!DeliveryStep, Handed!DeliveryStep, Np!CollectUpdate,
           Handed!CollectUpdate, Np!Notify, Handed!Notify, Np!Clear, Handed!Clear
  <1>7. Np!Restart => Handed!Restart
    BY DEF Np!Restart, Handed!Restart
  <1>8. [Np!Next]_Np!vars => [Handed!Next]_Handed!vars
    BY <1>2, <1>3, <1>4, <1>5, <1>6, <1>7 DEF Np!Next, Handed!Next, Np!vars, Handed!vars
  <1> QED
    BY <1>1, <1>8, HandedSpec, PTL DEF Np!Spec, RefinesNotifications, Handed!Spec

\* What Notifications promises whatever fails holds with the real comparison in
\* the place of its environment: no false alarm, no stale decision to notify,
\* and as long as nothing fails no message is cleared untold.
THEOREM PromisesCarryOver ==
  RSpec => []N!ToldIsAChange /\ N!DecisionNotStale /\ N!NothingClearedUntold
  <1>1. Np!Spec => []Np!ToldIsAChange /\ Np!DecisionNotStale /\ Np!NothingClearedUntold
    BY Np!NoFalseAlarm, Np!DecisionStaysRight, Np!ClearsOnlyTold, DbAssumption,
       BoundAssumption, ModesAssumption, MishapsAssumption
  <1> USE DEF N!NoResult, Np!NoResult
  <1>2. Np!ToldIsAChange => N!ToldIsAChange
    BY DEF Np!ToldIsAChange, N!ToldIsAChange, Np!ToSet, N!ToSet
  <1>3. ASSUME [ \A d \in Deployments :
                   results'[d] # results[d] /\ results'[d] # Np!NoResult =>
                     (changes'[d] # changes[d] <=> Np!Notable(results[d], results'[d]))
                 ]_Np!vars
        PROVE  [ \A d \in Deployments :
                   results'[d] # results[d] /\ results'[d] # N!NoResult =>
                     (changes'[d] # changes[d] <=> N!Notable(results[d], results'[d]))
                 ]_N!vars
    BY <1>3 DEF Np!vars, N!vars, Np!Notable, N!Notable
  <1>4. ASSUME [ \A d \in Deployments :
                   /\ mishaps' = 0 /\ crashes' = crashes
                   /\ notes[d] # Np!NoResult /\ notes'[d] = Np!NoResult
                   => told[d] # <<>> /\ Np!Last(told[d]) = notes[d] ]_Np!vars
        PROVE  [ \A d \in Deployments :
                   /\ mishaps' = 0 /\ crashes' = crashes
                   /\ notes[d] # N!NoResult /\ notes'[d] = N!NoResult
                   => told[d] # <<>> /\ N!Last(told[d]) = notes[d] ]_N!vars
    BY <1>4 DEF Np!vars, N!vars, Np!Last, N!Last
  <1> QED
    BY <1>1, <1>2, <1>3, <1>4, HandedSpec, PTL
       DEF Np!DecisionNotStale, N!DecisionNotStale, Np!NothingClearedUntold,
           N!NothingClearedUntold

\* Every variable keeps its type, and nothing of a tick outlives it.
THEOREM BothTyped == RSpec => []RTypeOK
  <1>1. RInv => N!TypeOK
    <2> SUFFICES ASSUME RInv PROVE N!TypeOK
      OBVIOUS
    <2> USE DEF RInv
    <2>1. /\ outcome \in [Deployments -> N!MaybeResult]
          /\ results \in [Deployments -> N!MaybeResult]
      BY DEF Cp!TypeOK, N!MaybeResult, Cp!Result, N!Result, Cp!NoResult, N!NoResult,
             Cp!ResultType, N!ResultType
    <2>2. /\ notes \in [Deployments -> N!MaybeResult]
          /\ changes \in [Deployments -> Seq(N!Result)]
          /\ told \in [Deployments -> Seq(N!Result)]
          /\ mode \in Modes /\ mishaps \in 0..MaxMishaps /\ crashes \in 0..MaxCrashes
          /\ step \in N!StepType
      BY DEF Np!TypeOK, N!MaybeResult, Np!MaybeResult, Np!Result, N!Result, Np!NoResult,
             N!NoResult, Np!ResultType, N!ResultType, Np!StepType, N!StepType
    <2>3. /\ phase \in {"idle", "gossip", "compare", "results", "notify"}
          /\ phase \notin {"results", "notify"} => step = N!Rest
      BY DEF RStage
    <2> QED
      BY <2>1, <2>2, <2>3 DEF N!TypeOK
  <1>2. RInv => Coarse!TypeOK
    BY DEF RInv, Cp!TypeOK, Coarse!TypeOK, Cp!Idle, Coarse!Idle, Cp!GossipTask,
           Coarse!GossipTask, Cp!CompareTask, Coarse!CompareTask, Cp!Row, Coarse!Row,
           Cp!Message, Coarse!Message, Cp!Result, Coarse!Result, Cp!NoResult,
           Coarse!NoResult, Cp!ResultType, Coarse!ResultType, Cp!AllIdle,
           Coarse!AllIdle, Cp!NoOutcome, Coarse!NoOutcome
  <1> QED
    BY <1>1, <1>2, RInvAlways, PTL DEF RTypeOK

\* In the mode live, without failed statements and webhooks, timeouts and
\* restarts, the operator is told every change once, in order, before the status
\* of the deployment changes again, whatever the queries of the gossip and the
\* comparison do.
THEOREM LivePromiseOfBoth ==
  ASSUME Modes = {"live"}, MaxMishaps = 0, MaxCrashes = 0
  PROVE  RSpec => N!LiveKeepsPromise
  <1>1. Np!Spec => Np!Log!Spec
    BY Np!LivePromiseKept, DbAssumption, BoundAssumption, ModesAssumption,
       MishapsAssumption DEF Np!NothingFails, Np!LiveKeepsPromise
  <1> USE DEF N!NoResult, Np!NoResult, N!Result, Np!Result, N!ResultType, Np!ResultType,
              N!Notable, Np!Notable
  <1>2. Np!Log!Init => N!Log!Init
    BY DEF Np!Log!Init, N!Log!Init
  <1>3. [Np!Log!Next]_Np!Log!vars => [N!Log!Next]_N!Log!vars
    BY DEF Np!Log!Next, N!Log!Next, Np!Log!Observe, N!Log!Observe, Np!Log!Announce,
           N!Log!Announce, Np!Log!vars, N!Log!vars
  <1> QED
    BY <1>1, <1>2, <1>3, HandedSpec, PTL DEF Np!Log!Spec, N!Log!Spec, N!LiveKeepsPromise

-----------------------------------------------------------------------------
(* What was published is kept until it is judged *)

\* Until something fails, times out or restarts, a block this indexer has sent a
\* message for has its local row, or is about to get it, or there is a verdict
\* as new or newer, saved or to be saved.
Kept(d) ==
  faults = 0 /\ mishaps = 0 /\ crashes = 0 =>
    \A b \in published[d] :
      \/ RowsAt(d, b) # {}
      \/ task[d].stage = "save" /\ task[d].row.block = b
      \/ outcome[d] # NoResult /\ b <= outcome[d].block
      \/ b <= results[d].block

AllKept == \A d \in Deployments : Kept(d)

\* The verdicts under way are in order (IOrdered of CrossCheck).
LEMMA VerdictsOrdered ==
  ASSUME RInv, Cp!IOrdered, Cp!IDecided, NEW d \in Deployments, faults = 0
  PROVE  /\ task[d].stage = "judge" => outcome[d] = NoResult
         /\ task[d].stage = "join" =>
              outcome[d] # NoResult /\ outcome[d].block = task[d].block
         /\ outcome[d] # NoResult => results[d].block <= outcome[d].block
         /\ results[d].block \in Nat /\ outcome[d].block \in Nat
         /\ published[d] \subseteq Blocks
         /\ \A r \in local[d] : r.block \in Blocks
  <1>1. Cp!NoResult = NoResult
    BY DEF Cp!NoResult, NoResult
  <1>2. results[d].block \in Nat /\ outcome[d].block \in Nat
    BY Cp!BlockTypes, StakeAssumption, BlocksAssumption, WindowAssumption,
       DbAssumption, BoundAssumption DEF RInv
  <1>3. published[d] \subseteq Blocks /\ \A r \in local[d] : r.block \in Blocks
    BY DEF RInv, Cp!TypeOK, Cp!Row
  <1> QED
    BY <1>1, <1>2, <1>3 DEF Cp!IOrdered, Cp!Ordered, Cp!IDecided, Cp!Decided

\* A step that takes nothing back.
LEMMA KeptGoesOn ==
  ASSUME NEW d \in Deployments, Kept(d),
         faults' = 0 => faults = 0, mishaps' = 0 => mishaps = 0,
         crashes' = 0 => crashes = 0,
         published'[d] = published[d], local[d] \subseteq local'[d],
         task[d].stage = "save" => task'[d] = task[d],
         outcome[d] # NoResult => outcome'[d] = outcome[d],
         results'[d] = results[d]
  PROVE  Kept(d)'
  BY DEF Kept, RowsAt

\* A failure, once counted, stays counted.
LEMMA CalmBefore ==
  ASSUME RInv, [RNext]_rvars
  PROVE  /\ faults' = 0 => faults = 0 /\ ~Fault
         /\ mishaps' = 0 => mishaps = 0 /\ ~N!Mishap
         /\ crashes' = 0 => crashes = 0 /\ ~RRestart
  <1>1. faults \in Nat /\ mishaps \in Nat /\ crashes \in Nat
    BY BoundAssumption, MishapsAssumption DEF RInv, Cp!TypeOK, Np!TypeOK
  <1>2. faults' = faults \/ Fault
    BY DEF RNext, CheckStep, NotifyStep, RRestart, rvars, vars, Tick, StartGossip,
           EndGossip, StartCompare, CompareOf, EndCompare, AdvanceHead, Receive,
           GossipStep, CompareStep, CheckDuplicate, SendPoi, SaveLocal, ChoosePoint,
           ReadRemote, Judge, CleanLocal, CleanRemote, Restart
  <1>3. mishaps' = mishaps \/ N!Mishap
    BY DEF RNext, CheckStep, NotifyStep, RRestart, rvars, N!ResultStep, N!DeliveryStep,
           N!Begin, N!CreateNote, N!CollectLive, N!ReadExisting, N!SaveResult,
           N!SaveFails, N!Timeout, N!StartUpdate, N!CollectUpdate, N!Notify, N!Clear,
           N!Restart
  <1>4. crashes' = crashes \/ RRestart
    BY DEF RNext, CheckStep, NotifyStep, rvars, vars, N!ResultStep, N!DeliveryStep,
           N!Begin, N!CreateNote, N!CollectLive, N!ReadExisting, N!SaveResult,
           N!SaveFails, N!Timeout, N!StartUpdate, N!CollectUpdate, N!Notify, N!Clear,
           Tick, StartGossip, EndGossip, StartCompare, CompareOf, EndCompare,
           AdvanceHead, Receive, GossipStep, CompareStep, CheckDuplicate, SendPoi,
           SaveLocal, ChoosePoint, ReadRemote, Judge, CleanLocal, CleanRemote
  <1> QED
    BY <1>1, <1>2, <1>3, <1>4 DEF Fault, N!Mishap, RRestart, Restart

\* Without failures the tasks of the gossip only lose sight of a block that has
\* its row.
LEMMA KeptGossip ==
  ASSUME RInv, NEW d \in Deployments, Kept(d), GossipStep(d), ~Fault,
         UNCHANGED <<mishaps, crashes>>, faults' = faults
  PROVE  Kept(d)'
  <1>g. \A t : Goto(d, t) => task'[d] = t
    BY DEF RInv, RStage, Goto
  <1>1. CASE CheckDuplicate(d)
    BY <1>1, KeptGoesOn DEF CheckDuplicate
  <1>2. CASE SendPoi(d)
    <2>1. PICK x \in Ppois :
            Goto(d, [stage |-> "save",
                     row |-> [block |-> task[d].block, ppoi |-> x, time |-> clock]])
      BY <1>2 DEF SendPoi
    <2>2. /\ task'[d].stage = "save" /\ task'[d].row.block = task[d].block
          /\ task[d].stage = "send" /\ UNCHANGED <<local, outcome, results>>
      BY <1>2, <1>g, <2>1 DEF SendPoi
    <2>3. published'[d] = published[d] \cup {task[d].block}
      BY <1>2 DEF SendPoi, RInv, Cp!TypeOK
    <2> QED
      BY <2>2, <2>3 DEF Kept, RowsAt
  <1>3. CASE SaveLocal(d)
    <2>1. /\ task[d].stage = "save" /\ task'[d] = Idle
          /\ UNCHANGED <<published, outcome, results>>
      BY <1>3, <1>g DEF SaveLocal
    <2>2. local[d] \subseteq local'[d]
      BY <1>3 DEF SaveLocal, RInv, Cp!TypeOK
    <2>3. \E r \in local'[d] : r.block = task[d].row.block
      <3>1. CASE local' = [local EXCEPT ![d] = @ \cup {task[d].row}]
        BY <3>1 DEF RInv, Cp!TypeOK
      <3>2. CASE \E r \in RowsAt(d, task[d].row.block) : r.ppoi = task[d].row.ppoi
        BY <2>2, <3>2 DEF RowsAt
      <3> QED
        BY <1>3, <3>1, <3>2 DEF SaveLocal
    <2> QED
      BY <2>1, <2>2, <2>3 DEF Kept, RowsAt, Idle
  <1> QED
    BY <1>1, <1>2, <1>3 DEF GossipStep

\* A comparison deletes the rows up to its block with its verdict at hand, and
\* has no other verdict to overwrite.
LEMMA KeptCompare ==
  ASSUME RInv, SameWidth, Cp!IOrdered, Cp!IDecided, faults = 0,
         NEW d \in Deployments, Kept(d), CompareStep(d), ~Fault,
         UNCHANGED <<mishaps, crashes>>, faults' = faults
  PROVE  Kept(d)'
  <1>1. CASE ChoosePoint(d) \/ ReadRemote(d) \/ CleanRemote(d)
    BY <1>1, KeptGoesOn DEF ChoosePoint, ReadRemote, CleanRemote
  <1>2. CASE Judge(d)
    <2>1. task[d].stage = "judge" /\ outcome[d] = NoResult
      BY <1>2, VerdictsOrdered DEF Judge
    <2> QED
      BY <1>2, <2>1, KeptGoesOn DEF Judge
  <1>3. CASE CleanLocal(d)
    <2>1. /\ task[d].stage = "join" /\ UNCHANGED <<published, outcome, results>>
          /\ outcome[d] # NoResult /\ outcome[d].block = task[d].block
      BY <1>3, VerdictsOrdered DEF CleanLocal
    <2>2. local'[d] = {r \in local[d] : ~TextLe(r.block, task[d].block)}
      BY <1>3 DEF CleanLocal, DeleteLocal, Outdated, RInv, Cp!TypeOK
    <2>3. task[d].block \in Blocks
      BY <2>1, Cp!StageOfPhase, Cp!TaskFields, StakeAssumption, BlocksAssumption,
         WindowAssumption, DbAssumption, BoundAssumption DEF RInv
    <2>4. ASSUME NEW r \in local[d], r \notin local'[d]
          PROVE  r.block <= outcome[d].block
      <3>1. TextLe(r.block, task[d].block)
        BY <2>2, <2>4
      <3>2. r.block \in Blocks
        BY VerdictsOrdered
      <3> QED
        BY <2>1, <2>3, <3>1, <3>2 DEF SameWidth, TextLe
    <2> QED
      BY <2>1, <2>4 DEF Kept, RowsAt
  <1> QED
    BY <1>1, <1>2, <1>3 DEF CompareStep

LEMMA KeptCheck ==
  ASSUME RInv, SameWidth, Cp!IOrdered, Cp!IDecided, CheckStep,
         faults = 0, ~Fault, faults' = faults, NEW d \in Deployments, Kept(d)
  PROVE  Kept(d)'
  <1>u. UNCHANGED <<mishaps, crashes>>
    BY DEF CheckStep, Tick, StartGossip, EndGossip, StartCompare, CompareOf, EndCompare,
           AdvanceHead, Receive, GossipStep, CompareStep, CheckDuplicate, SendPoi,
           SaveLocal, ChoosePoint, ReadRemote, Judge, CleanLocal, CleanRemote
  <1>1. CASE Tick \/ EndGossip \/ EndCompare
    BY <1>1, <1>u, KeptGoesOn DEF Tick, EndGossip, EndCompare
  <1>2. CASE StartGossip \/ StartCompare
    <2>1. task[d].stage = "idle"
      BY <1>2 DEF StartGossip, StartCompare, CompareOf, RInv, RStage, Idle
    <2> QED
      BY <1>2, <1>u, <2>1, KeptGoesOn DEF StartGossip, StartCompare, CompareOf
  <1>3. ASSUME NEW e \in Deployments, AdvanceHead(e) \/ Receive(e)
        PROVE  Kept(d)'
    BY <1>3, <1>u, KeptGoesOn DEF AdvanceHead, Receive
  <1>4. ASSUME NEW e \in Deployments, e # d, GossipStep(e) \/ CompareStep(e)
        PROVE  Kept(d)'
    <2>1. /\ task'[d] = task[d] /\ local'[d] = local[d] /\ outcome'[d] = outcome[d]
          /\ published'[d] = published[d] /\ results' = results
      <3>1. CASE GossipStep(e)
        BY <3>1, <1>4 DEF GossipStep, CheckDuplicate, SendPoi, SaveLocal, Goto, RInv,
           RStage, Cp!TypeOK
      <3>2. CASE CompareStep(e)
        BY <3>2, <1>4 DEF CompareStep, ChoosePoint, ReadRemote, Judge, CleanLocal,
           CleanRemote, DeleteLocal, Goto, RInv, RStage, Cp!TypeOK
      <3> QED
        BY <1>4, <3>1, <3>2
    <2> QED
      BY <1>u, <2>1, KeptGoesOn
  <1>5. CASE GossipStep(d)
    BY <1>5, <1>u, KeptGossip
  <1>6. CASE CompareStep(d)
    BY <1>6, <1>u, KeptCompare
  <1> QED
    BY <1>1, <1>2, <1>3, <1>4, <1>5, <1>6 DEF CheckStep

\* A saved result is as new as the one it replaces, and without failures a
\* result is not dropped unsaved.
LEMMA KeptNotify ==
  ASSUME RInv, Cp!IOrdered, Cp!IDecided, NotifyStep, ~N!Mishap, faults = 0,
         mishaps' = 0 => mishaps = 0, crashes' = 0 => crashes = 0,
         NEW d \in Deployments, Kept(d)
  PROVE  Kept(d)'
  <1>u. UNCHANGED <<task, local, published, faults>>
    BY DEF NotifyStep
  <1>1. CASE UNCHANGED <<outcome, results>>
    BY <1>1, <1>u, KeptGoesOn
  <1>2. ASSUME NEW e \in Deployments, N!SaveResult(e)
        PROVE  Kept(d)'
    <2>1. /\ results' = [results EXCEPT ![e] = outcome[e]]
          /\ outcome' = [outcome EXCEPT ![e] = NoResult]
          /\ outcome[e] # NoResult
      BY <1>2, NothingIsNoOutcome DEF N!SaveResult, N!Drop, RInv, RStage
    <2>2. CASE e = d
      <3>1. results'[d] = outcome[d]
        BY <2>1, <2>2 DEF RInv, Cp!TypeOK
      <3>2. /\ results[d].block <= outcome[d].block
            /\ results[d].block \in Nat /\ outcome[d].block \in Nat
        BY <2>1, <2>2, VerdictsOrdered
      <3>3. published[d] \subseteq Nat
        BY VerdictsOrdered, BlocksAssumption
      <3> QED
        BY <1>u, <3>1, <3>2, <3>3 DEF Kept, RowsAt
    <2>3. CASE e # d
      BY <1>u, <2>1, <2>3, KeptGoesOn DEF RInv, RStage, Cp!TypeOK
    <2> QED
      BY <2>2, <2>3
  <1> QED
    BY <1>1, <1>2 DEF NotifyStep, N!ResultStep, N!DeliveryStep, N!Begin, N!CreateNote,
       N!CollectLive, N!ReadExisting, N!SaveFails, N!Timeout, N!StartUpdate,
       N!CollectUpdate, N!Notify, N!Clear

LEMMA KeptStep ==
  ASSUME SameWidth
  PROVE  RInv /\ Cp!IOrdered /\ Cp!IDecided /\ AllKept /\ [RNext]_rvars => AllKept'
  <1> SUFFICES ASSUME RInv, Cp!IOrdered, Cp!IDecided, AllKept, [RNext]_rvars,
                      NEW d \in Deployments, faults' = 0, mishaps' = 0, crashes' = 0
               PROVE  Kept(d)'
    BY DEF AllKept, Kept
  <1>1. /\ faults = 0 /\ ~Fault /\ mishaps = 0 /\ ~N!Mishap
        /\ crashes = 0 /\ ~RRestart
    BY CalmBefore
  <1>2. Kept(d)
    BY DEF AllKept
  <1>3. CASE UNCHANGED rvars
    BY <1>2, <1>3, KeptGoesOn DEF rvars, vars
  <1> QED
    BY <1>1, <1>2, <1>3, KeptCheck, KeptNotify DEF RNext

\* Until something fails, times out or restarts, and with block numbers of one
\* width, no block this indexer sent a message for is forgotten unjudged.
THEOREM NothingForgotten ==
  ASSUME SameWidth
  PROVE  RSpec => []PublishedIsKeptOrJudged
  <1>1. RInit => AllKept
    BY DEF RInit, Init, AllKept, Kept
  <1>2. RSpec => [](Cp!IOrdered /\ Cp!IDecided)
    <2>1. Cp!SameWidth
      BY CopyWidth DEF SameWidth, Cp!SameWidth
    <2>2. Cp!Spec => [](Cp!IOrdered /\ Cp!IDecided)
      BY <2>1, Cp!OrderedAlways, StakeAssumption, BlocksAssumption, WindowAssumption,
         DbAssumption, BoundAssumption, PTL
    <2> QED
      BY <2>2, CrossCheckImplemented, CopySpec
  <1>3. RInv /\ AllKept => PublishedIsKeptOrJudged
    <2> SUFFICES ASSUME RInv, AllKept, phase = "idle", faults = 0, mishaps = 0,
                        crashes = 0, NEW d \in Deployments, NEW b \in published[d]
                 PROVE  RowsAt(d, b) # {} \/ results[d].block >= b
      BY DEF PublishedIsKeptOrJudged
    <2>1. task[d].stage = "idle" /\ outcome[d] = NoResult
      BY DEF RInv, RStage, Idle, NoOutcome
    <2>2. RowsAt(d, b) # {} \/ b <= results[d].block
      BY <2>1 DEF AllKept, Kept
    <2> QED
      BY <2>2
  <1> QED
    BY <1>1, <1>2, <1>3, KeptStep, RInvAlways, PTL DEF RSpec

-----------------------------------------------------------------------------
(* What the operator hears of *)

\* The results about blocks this indexer has published a message for.
Own(d) == [block : published[d], type : ResultType]

\* Published blocks are all that is kept locally, and so all that is judged,
\* saved, noted and told.
OwnBlocksOnly ==
  /\ published = [d \in Deployments |-> published[d]]
  /\ local = [d \in Deployments |-> local[d]]
  /\ notes = [d \in Deployments |-> notes[d]]
  /\ \A d \in Deployments :
       /\ \A r \in local[d] : r.block \in published[d]
       /\ task[d].stage = "save" => task[d].row.block \in published[d]
       /\ outcome[d] # NoResult => outcome[d] \in Own(d)
       /\ notes[d] # NoResult => notes[d] \in Own(d)
       /\ told[d] \in Seq(Own(d))
       /\ step.at = "note" /\ step.of = d => step.message \in Own(d)
       /\ step.at \in {"notify", "clear"} /\ step.batch[d] # NoResult =>
            step.batch[d] \in Own(d)

LEMMA OwnInit == RInit => OwnBlocksOnly
  <1> SUFFICES ASSUME RInit PROVE OwnBlocksOnly
    OBVIOUS
  <1>1. \A d \in Deployments : told[d] \in Seq(Own(d))
    BY EmptySeq DEF RInit, N!Init
  <1> QED
    BY <1>1, NothingIsNoOutcome
       DEF RInit, Init, N!Init, OwnBlocksOnly, N!Rest, NoOutcome, AllIdle, Idle

\* More is published: everything stays a result about a published block.
LEMMA OwnGrows ==
  ASSUME NEW d \in Deployments, published[d] \subseteq published'[d],
         told[d] \in Seq(Own(d))
  PROVE  Own(d) \subseteq Own(d)' /\ told[d] \in Seq(Own(d)')
  <1>1. Own(d) \subseteq Own(d)'
    BY DEF Own
  <1> QED
    BY <1>1

LEMMA VerdictType ==
  ASSUME NEW x, NEW msgs
  PROVE  Verdict(x, msgs) \in ResultType
  BY DEF Verdict, compare_attestations, ResultType

LEMMA OwnCheck == RStage /\ OwnBlocksOnly /\ CheckStep => OwnBlocksOnly'
  <1> SUFFICES ASSUME RStage, OwnBlocksOnly, CheckStep PROVE OwnBlocksOnly'
    OBVIOUS
  <1>s. UNCHANGED <<notes, step, told>>
    BY DEF CheckStep
  <1>1. CASE Tick \/ EndGossip \/ EndCompare
    BY <1>1, <1>s DEF Tick, EndGossip, EndCompare, OwnBlocksOnly, Own
  <1>2. CASE StartGossip
    <2>1. \A d \in Deployments : task'[d].stage # "save"
      BY <1>2 DEF StartGossip, Idle
    <2> QED
      BY <1>2, <1>s, <2>1 DEF StartGossip, OwnBlocksOnly, Own
  <1>3. CASE StartCompare
    <2>1. \A d \in Deployments : task'[d].stage # "save"
      BY <1>3 DEF StartCompare, CompareOf, Idle
    <2> QED
      BY <1>3, <1>s, <2>1 DEF StartCompare, CompareOf, OwnBlocksOnly, Own
  <1>4. ASSUME NEW d \in Deployments, AdvanceHead(d) \/ Receive(d)
        PROVE  OwnBlocksOnly'
    BY <1>4, <1>s DEF AdvanceHead, Receive, OwnBlocksOnly, Own
  <1>5. ASSUME NEW d \in Deployments, CheckDuplicate(d)
        PROVE  OwnBlocksOnly'
    <2>1. \A e \in Deployments : task'[e].stage = "save" => task'[e] = task[e]
      BY <1>5 DEF CheckDuplicate, Goto, Idle, RStage
    <2> QED
      BY <1>5, <1>s, <2>1 DEF CheckDuplicate, OwnBlocksOnly, Own
  <1>6. ASSUME NEW d \in Deployments, SendPoi(d)
        PROVE  OwnBlocksOnly'
    <2>1. UNCHANGED <<local, outcome, notes, step, told>>
      BY <1>6, <1>s DEF SendPoi
    <2>2. /\ published' = [e \in Deployments |-> published'[e]]
          /\ \A e \in Deployments : published[e] \subseteq published'[e]
      BY <1>6 DEF SendPoi, OwnBlocksOnly
    <2>3. \A e \in Deployments :
            Own(e) \subseteq Own(e)' /\ told[e] \in Seq(Own(e)')
      BY <2>2, OwnGrows DEF OwnBlocksOnly
    <2>4. ASSUME NEW e \in Deployments, task'[e].stage = "save"
          PROVE  task'[e].row.block \in published'[e]
      <3>1. CASE e = d
        BY <1>6, <2>4, <3>1 DEF SendPoi, Goto, Idle, RStage, OwnBlocksOnly
      <3>2. CASE e # d
        BY <1>6, <2>2, <2>4, <3>2 DEF SendPoi, Goto, RStage, OwnBlocksOnly
      <3> QED
        BY <3>1, <3>2
    <2> QED
      BY <2>1, <2>2, <2>3, <2>4 DEF OwnBlocksOnly
  <1>7. ASSUME NEW d \in Deployments, SaveLocal(d)
        PROVE  OwnBlocksOnly'
    <2>1. \A e \in Deployments : task'[e].stage = "save" => task'[e] = task[e]
      BY <1>7 DEF SaveLocal, Goto, Idle, RStage
    <2>2. \/ local' = local
          \/ local' = [local EXCEPT ![d] = @ \cup {task[d].row}]
      BY <1>7 DEF SaveLocal
    <2>3. UNCHANGED <<published, outcome>> /\ task[d].stage = "save"
      BY <1>7 DEF SaveLocal
    <2>4. /\ local' = [e \in Deployments |-> local'[e]]
          /\ \A e \in Deployments : \A r \in local'[e] : r.block \in published[e]
      BY <2>2, <2>3 DEF OwnBlocksOnly
    <2> QED
      BY <1>s, <2>1, <2>3, <2>4 DEF OwnBlocksOnly, Own
  <1>8. ASSUME NEW d \in Deployments, ChoosePoint(d) \/ ReadRemote(d)
        PROVE  OwnBlocksOnly'
    <2>1. \A e \in Deployments : task'[e].stage = "save" => task'[e] = task[e]
      BY <1>8 DEF ChoosePoint, ReadRemote, Goto, Idle, RStage
    <2> QED
      BY <1>8, <1>s, <2>1 DEF ChoosePoint, ReadRemote, OwnBlocksOnly, Own
  <1>9. ASSUME NEW d \in Deployments, Judge(d)
        PROVE  OwnBlocksOnly'
    <2>1. \A e \in Deployments : task'[e].stage = "save" => task'[e] = task[e]
      BY <1>9 DEF Judge, Goto, Idle, RStage
    <2>2. ASSUME NEW e \in Deployments, outcome'[e] # NoResult
          PROVE  outcome'[e] \in Own(e)
      <3>1. CASE outcome'[e] = outcome[e]
        BY <2>2, <3>1 DEF OwnBlocksOnly
      <3>2. CASE outcome'[e] # outcome[e]
        <4>1. PICK r \in RowsAt(d, task[d].block) :
                outcome' = [outcome EXCEPT ![d] =
                  [block |-> task[d].block, type |-> Verdict(r.ppoi, task[d].heard)]]
          BY <1>9, <3>2 DEF Judge
        <4>2. e = d
          BY <3>2, <4>1
        <4>3. task[d].block \in published[d]
          BY <4>1 DEF RowsAt, OwnBlocksOnly
        <4>4. outcome'[d] = [block |-> task[d].block,
                             type |-> Verdict(r.ppoi, task[d].heard)]
          BY <4>1 DEF RStage
        <4> QED
          BY <4>2, <4>3, <4>4, VerdictType DEF Own
      <3> QED
        BY <3>1, <3>2
    <2> QED
      BY <1>9, <1>s, <2>1, <2>2 DEF Judge, OwnBlocksOnly, Own
  <1>10. ASSUME NEW d \in Deployments, CleanLocal(d)
         PROVE  OwnBlocksOnly'
    <2>1. \A e \in Deployments : task'[e].stage = "save" => task'[e] = task[e]
      BY <1>10 DEF CleanLocal, Goto, Idle, RStage
    <2>2. /\ local' = [e \in Deployments |-> local'[e]]
          /\ \A e \in Deployments : local'[e] \subseteq local[e]
      BY <1>10 DEF CleanLocal, DeleteLocal, OwnBlocksOnly
    <2> QED
      BY <1>10, <1>s, <2>1, <2>2 DEF CleanLocal, OwnBlocksOnly, Own
  <1>11. ASSUME NEW d \in Deployments, CleanRemote(d)
         PROVE  OwnBlocksOnly'
    <2>1. \A e \in Deployments : task'[e].stage = "save" => task'[e] = task[e]
      BY <1>11 DEF CleanRemote, Goto, Idle, RStage
    <2> QED
      BY <1>11, <1>s, <2>1 DEF CleanRemote, OwnBlocksOnly, Own
  <1> QED
    BY <1>1, <1>2, <1>3, <1>4, <1>5, <1>6, <1>7, <1>8, <1>9, <1>10, <1>11
       DEF CheckStep, GossipStep, CompareStep

LEMMA OwnNotify == RStage /\ OwnBlocksOnly /\ NotifyStep => OwnBlocksOnly'
  <1> SUFFICES ASSUME RStage, OwnBlocksOnly, NotifyStep PROVE OwnBlocksOnly'
    OBVIOUS
  <1>u. UNCHANGED <<task, local, published>>
    BY DEF NotifyStep
  <1>n. N!Nothing = NoOutcome /\ N!NoResult = NoResult
        /\ \A d \in Deployments : NoOutcome[d] = NoResult
    BY NothingIsNoOutcome DEF NoOutcome
  <1>o. \A d \in Deployments : Own(d)' = Own(d)
    BY <1>u DEF Own
  <1>1. CASE N!Begin \/ N!Timeout \/ N!StartUpdate
    <2>1. /\ UNCHANGED <<notes, told>>
          /\ outcome' = outcome \/ outcome' = NoOutcome
          /\ step'.at \in {"next", "rest", "collect"}
      BY <1>1, <1>n DEF N!Begin, N!Timeout, N!StartUpdate, N!Rest, N!NextResult
    <2>2. \A d \in Deployments : outcome'[d] # NoResult => outcome'[d] \in Own(d)
      BY <2>1, <1>n DEF OwnBlocksOnly
    <2> QED
      BY <1>u, <1>o, <2>1, <2>2 DEF OwnBlocksOnly
  <1>2. CASE N!CreateNote
    <2>1. /\ step.at = "note" /\ step'.at = "next" /\ UNCHANGED <<outcome, told>>
          /\ notes' = notes \/ notes' = [notes EXCEPT ![step.of] = step.message]
      BY <1>2 DEF N!CreateNote, N!InsertNote, N!NextResult
    <2>2. /\ notes' = [d \in Deployments |-> notes'[d]]
          /\ \A d \in Deployments : notes'[d] # NoResult => notes'[d] \in Own(d)
      BY <2>1 DEF OwnBlocksOnly
    <2> QED
      BY <1>u, <1>o, <2>1, <2>2 DEF OwnBlocksOnly
  <1>3. CASE N!CollectLive \/ N!CollectUpdate
    <2>1. /\ UNCHANGED <<outcome, notes, told>>
          /\ step'.at = "rest" \/ step' = [at |-> "notify", batch |-> notes]
      BY <1>3 DEF N!CollectLive, N!CollectUpdate, N!Deliver, N!Rest
    <2>2. CASE step'.at = "rest"
      BY <1>u, <1>o, <2>1, <2>2 DEF OwnBlocksOnly
    <2>3. CASE step' = [at |-> "notify", batch |-> notes]
      BY <1>u, <1>o, <2>1, <2>3 DEF OwnBlocksOnly
    <2> QED
      BY <2>1, <2>2, <2>3
  <1>4. ASSUME NEW d \in Deployments, N!ReadExisting(d) \/ N!SaveFails(d)
        PROVE  OwnBlocksOnly'
    <2>1. /\ UNCHANGED <<notes, told>>
          /\ step'.at \in {"next", "save"}
          /\ outcome' = outcome \/ outcome' = [outcome EXCEPT ![d] = NoResult]
      BY <1>4, <1>n DEF N!ReadExisting, N!SaveFails, N!Drop, N!NextResult
    <2>2. \A e \in Deployments : outcome'[e] # NoResult => outcome'[e] \in Own(e)
      BY <2>1 DEF OwnBlocksOnly, RStage
    <2> QED
      BY <1>u, <1>o, <2>1, <2>2 DEF OwnBlocksOnly
  <1>5. ASSUME NEW d \in Deployments, N!SaveResult(d)
        PROVE  OwnBlocksOnly'
    <2>1. /\ UNCHANGED <<notes, told>>
          /\ outcome' = [outcome EXCEPT ![d] = NoResult]
          /\ \/ step'.at = "next"
             \/ step' = [at |-> "note", of |-> d, message |-> outcome[d]]
      BY <1>5, <1>n DEF N!SaveResult, N!Drop, N!NextResult
    <2>2. outcome[d] \in Own(d)
      BY <1>5 DEF N!SaveResult, RStage, OwnBlocksOnly
    <2>3. \A e \in Deployments : outcome'[e] # NoResult => outcome'[e] \in Own(e)
      BY <2>1 DEF OwnBlocksOnly, RStage
    <2>4. CASE step'.at = "next"
      BY <1>u, <1>o, <2>1, <2>3, <2>4 DEF OwnBlocksOnly
    <2>5. CASE step' = [at |-> "note", of |-> d, message |-> outcome[d]]
      BY <1>u, <1>o, <2>1, <2>2, <2>3, <2>5 DEF OwnBlocksOnly
    <2> QED
      BY <2>1, <2>4, <2>5
  <1>6. CASE N!Notify
    <2>1. /\ UNCHANGED <<outcome, notes>>
          /\ step.at = "notify"
          /\ step' = [at |-> "clear", batch |-> step.batch]
      BY <1>6 DEF N!Notify, RStage
    <2>2. ASSUME NEW d \in Deployments
          PROVE  told'[d] \in Seq(Own(d))
      <3>1. CASE told'[d] = told[d]
        BY <3>1 DEF OwnBlocksOnly
      <3>2. CASE step.batch[d] # NoResult /\ told'[d] = Append(told[d], step.batch[d])
        <4>1. told[d] \in Seq(Own(d)) /\ step.batch[d] \in Own(d)
          BY <2>1, <3>2 DEF OwnBlocksOnly
        <4> QED
          BY <3>2, <4>1, AppendProperties
      <3> QED
        BY <1>6, <1>n, <3>1, <3>2 DEF N!Notify
    <2> QED
      BY <1>u, <1>o, <2>1, <2>2 DEF OwnBlocksOnly
  <1>7. CASE N!Clear
    <2>1. notes' = notes \/ notes' = NoOutcome
      BY <1>7, <1>n DEF N!Clear
    <2>2. /\ notes' = [d \in Deployments |-> notes'[d]]
          /\ \A d \in Deployments : notes'[d] # NoResult => notes'[d] \in Own(d)
      BY <2>1, <1>n DEF OwnBlocksOnly, NoOutcome
    <2> QED
      BY <1>7, <1>u, <2>2 DEF N!Clear, N!Rest, OwnBlocksOnly, Own
  <1> QED
    BY <1>1, <1>2, <1>3, <1>4, <1>5, <1>6, <1>7
       DEF NotifyStep, N!ResultStep, N!DeliveryStep

LEMMA OwnStep == RStage /\ OwnBlocksOnly /\ [RNext]_rvars => OwnBlocksOnly'
  <1>1. ASSUME OwnBlocksOnly, RRestart
        PROVE  OwnBlocksOnly'
    <2>1. /\ UNCHANGED <<published, told>>
          /\ step' = N!Rest /\ outcome' = NoOutcome /\ task' = AllIdle
          /\ local' = local \/ local' = [d \in Deployments |-> {}]
          /\ notes' = notes \/ notes' = NoOutcome
      BY <1>1, NothingIsNoOutcome DEF RRestart, Restart, N!Restart
    <2>2. \A d \in Deployments : Own(d)' = Own(d)
      BY <2>1 DEF Own
    <2>3. /\ local' = [d \in Deployments |-> local'[d]]
          /\ \A d \in Deployments : \A r \in local'[d] : r.block \in published[d]
      BY <1>1, <2>1 DEF OwnBlocksOnly
    <2>4. /\ notes' = [d \in Deployments |-> notes'[d]]
          /\ \A d \in Deployments : notes'[d] # NoResult => notes'[d] \in Own(d)
      BY <1>1, <2>1 DEF OwnBlocksOnly, NoOutcome
    <2> QED
      BY <1>1, <2>1, <2>2, <2>3, <2>4
         DEF OwnBlocksOnly, AllIdle, Idle, NoOutcome, N!Rest
  <1>2. OwnBlocksOnly /\ UNCHANGED rvars => OwnBlocksOnly'
    BY DEF rvars, vars, OwnBlocksOnly, Own
  <1> QED
    BY <1>1, <1>2, OwnCheck, OwnNotify DEF RNext

\* Whatever is lost, late or restarted on the way, the operator only hears of
\* blocks this indexer itself has published a message for.
THEOREM OnlyPublishedTold == RSpec => []ToldWasPublished
  <1>1. OwnBlocksOnly => ToldWasPublished
    <2> SUFFICES ASSUME OwnBlocksOnly, NEW d \in Deployments, NEW r \in ToSet(told[d])
                 PROVE  r.block \in published[d]
      BY DEF ToldWasPublished
    <2>1. told[d] \in Seq(Own(d))
      BY DEF OwnBlocksOnly
    <2>2. r \in Own(d)
      BY <2>1 DEF ToSet
    <2> QED
      BY <2>2 DEF Own
  <1> QED
    BY <1>1, OwnInit, OwnStep, StageInit, StageStep, PTL DEF RSpec
=============================================================================
