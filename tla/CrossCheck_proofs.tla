-------------------------- MODULE CrossCheck_proofs --------------------------
(***************************************************************************)
(* Proofs about CrossCheck, for every set of deployments, senders, POIs    *)
(* and blocks, every stake and window, and every value of the bounds.      *)
(***************************************************************************)
EXTENDS CrossCheck, Attestations_proofs

TaskType == {Idle} \cup GossipTask \cup CompareTask

\* What each stage of a task carries, read off the task types.
LEMMA TaskFields ==
  ASSUME NEW t \in TaskType
  PROVE  /\ t.stage \in {"check", "send"} => t \in GossipTask /\ t.block \in Blocks
         /\ t.stage = "save" => t \in GossipTask /\ t.row \in Row
         /\ t.stage = "point" => t \in CompareTask
         /\ t.stage = "read" => t \in CompareTask /\ t.block \in Blocks /\ t.end \in Nat
         /\ t.stage = "judge" => t \in CompareTask /\ t.block \in Blocks
                                   /\ t.heard \in SUBSET Message
         /\ t.stage \in {"join", "clean"} => t \in CompareTask /\ t.block \in Blocks
  BY SMTT(30) DEF TaskType, Idle, GossipTask, CompareTask

\* The tasks the actions build are tasks.
LEMMA TaskForms ==
  /\ Idle \in TaskType
  /\ \A b \in Blocks, st \in {"check", "send"} :
       [stage |-> st, block |-> b] \in GossipTask
  /\ \A r \in Row : [stage |-> "save", row |-> r] \in GossipTask
  /\ [stage |-> "point"] \in CompareTask
  /\ \A b \in Blocks, e \in Nat :
       [stage |-> "read", block |-> b, end |-> e] \in CompareTask
  /\ \A b \in Blocks, h \in SUBSET Message :
       [stage |-> "judge", block |-> b, heard |-> h] \in CompareTask
  /\ \A b \in Blocks, st \in {"join", "clean"} :
       [stage |-> st, block |-> b] \in CompareTask
  BY SMTT(30) DEF TaskType, Idle, GossipTask, CompareTask

\* A verdict is one of the three result types, whatever the attestations.
LEMMA VerdictType ==
  ASSUME NEW x, NEW msgs
  PROVE  Verdict(x, msgs) \in ResultType
  BY DEF Verdict, compare_attestations, ResultType

-----------------------------------------------------------------------------
(* Type correctness *)

LEMMA TypeInit == Init => TypeOK
  <1> SUFFICES ASSUME Init PROVE TypeOK
    OBVIOUS
  <1>1. task \in [Deployments -> TaskType]
    BY DEF Init, AllIdle, TaskType
  <1> QED
    BY <1>1, BoundAssumption
    DEF Init, TypeOK, TaskType, NoOutcome

\* A step that moves the task of one deployment within its own tick, and
\* changes nothing else the types of tasks depend on.
LEMMA GotoTyped ==
  ASSUME TypeOK, NEW d \in Deployments, NEW t,
         Goto(d, t), phase' = phase,
         \/ phase = "gossip" /\ t \in {Idle} \cup GossipTask
         \/ phase = "compare" /\ t \in {Idle} \cup CompareTask
  PROVE  /\ task' \in [Deployments -> {Idle} \cup GossipTask \cup CompareTask]
         /\ phase' = "gossip" =>
              \A o \in Deployments : task'[o] \in {Idle} \cup GossipTask
         /\ phase' = "compare" =>
              \A o \in Deployments : task'[o] \in {Idle} \cup CompareTask
         /\ phase' \notin {"idle", "results"}
  BY DEF TypeOK, Goto

\* The stage of a task tells which tick is under way.
LEMMA StageOfPhase ==
  ASSUME TypeOK, NEW d \in Deployments
  PROVE  /\ task[d] \in TaskType
         /\ task[d].stage \in {"check", "send", "save"} => phase = "gossip"
         /\ task[d].stage \in {"point", "read", "judge", "join", "clean"}
              => phase = "compare"
  <1>1. task[d] \in TaskType
    BY DEF TypeOK, TaskType
  <1>2. \A t \in GossipTask : t.stage \in {"check", "send", "save"}
    BY DEF GossipTask
  <1>3. \A t \in CompareTask : t.stage \in {"point", "read", "judge", "join", "clean"}
    BY DEF CompareTask
  <1>4. Idle.stage = "idle"
    BY DEF Idle
  <1>5. phase \in {"idle", "results"} => task[d] = Idle
    BY DEF TypeOK, AllIdle
  <1>6. phase \in {"idle", "gossip", "compare", "results"}
    BY DEF TypeOK
  <1> QED
    BY <1>1, <1>2, <1>3, <1>4, <1>5, <1>6 DEF TypeOK

LEMMA FaultTyped == TypeOK /\ (Fault \/ UNCHANGED faults) => faults' \in 0..MaxFaults
  BY BoundAssumption DEF TypeOK, Fault

\* The oldest comparable row exists: it is one of the answered rows.
LEMMA PointIsAnswered ==
  ASSUME TypeOK, NEW d \in Deployments, Answered(d) # {}
  PROVE  ComparisonPoint(d) \in Answered(d)
  <1> DEFINE A == Answered(d)
             Bs == {r.block : r \in A}
  <1>1. A \subseteq Row
    BY DEF TypeOK, Answered
  <1>2. \A r \in A : r.block \in Nat /\ r.time \in Nat
    BY <1>1, BlocksAssumption DEF Row
  <1>3. PICK b \in Bs : \A c \in Bs : b <= c
    <2> Bs \in SUBSET Nat /\ Bs # {}
      BY <1>2
    <2> QED
      BY LeastNat
  <1> DEFINE Ts == {r.time : r \in {a \in A : a.block = b}}
  <1>4. PICK t \in Ts : \A u \in Ts : t <= u
    <2> Ts \in SUBSET Nat /\ Ts # {}
      BY <1>2
    <2> QED
      BY LeastNat
  <1>5. PICK r \in A : r.block = b /\ r.time = t
    OBVIOUS
  <1>6. \A o \in A : r.block < o.block \/ (r.block = o.block /\ r.time <= o.time)
    <2> SUFFICES ASSUME NEW o \in A, ~(r.block < o.block)
                 PROVE  r.block = o.block /\ r.time <= o.time
      OBVIOUS
    <2>1. b <= o.block
      BY <1>3
    <2>2. o.block = b
      BY <2>1, <1>2, <1>5
    <2>3. o.time \in Ts
      BY <2>2
    <2> QED
      BY <2>2, <2>3, <1>4, <1>5
  <1> QED
    BY <1>6 DEF ComparisonPoint

-----------------------------------------------------------------------------
LEMMA TypeStep == TypeOK /\ [Next]_vars => TypeOK'
  <1> SUFFICES ASSUME TypeOK, [Next]_vars PROVE TypeOK'
    OBVIOUS
  <1> USE DEF TaskType
  <1>1. CASE Tick
    BY <1>1 DEF Tick, TypeOK, AllIdle, NoOutcome
  <1>2. CASE StartGossip
    <2>1. PICK latest \in [Deployments -> Blocks \cup {Unsynced}] :
            task' = [d \in Deployments |->
                       IF latest[d] < head[d] THEN Idle
                       ELSE [stage |-> "check", block |-> head[d]]]
      BY <1>2 DEF StartGossip
    <2>2. task' \in [Deployments -> {Idle} \cup GossipTask]
      BY <2>1, TaskForms DEF TypeOK
    <2> QED
      BY <1>2, <2>2 DEF StartGossip, TypeOK, NoOutcome
  <1>3. CASE EndGossip
    <2>1. task' = AllIdle
      BY <1>3 DEF EndGossip, AllIdle, TypeOK
    <2> QED
      BY <1>3, <2>1 DEF EndGossip, TypeOK, AllIdle, NoOutcome
  <1>4. CASE StartCompare
    <2>1. task' \in [Deployments -> {Idle} \cup CompareTask]
      BY <1>4, TaskForms DEF StartCompare, CompareOf
    <2> QED
      BY <1>4, <2>1 DEF StartCompare, CompareOf, TypeOK
  <1>5. CASE EndCompare
    <2>1. task' = AllIdle
      BY <1>5 DEF EndCompare, AllIdle, TypeOK
    <2> QED
      BY <1>5, <2>1 DEF EndCompare, TypeOK, AllIdle
  <1>6. CASE EndResults
    BY <1>6 DEF EndResults, TypeOK, AllIdle, NoOutcome
  <1>7. CASE Restart
    <2>1. task' \in [Deployments -> TaskType]
      BY <1>7 DEF Restart, AllIdle
    <2> QED
      BY <1>7, <2>1, BoundAssumption DEF Restart, TypeOK, NoOutcome
  <1>8. ASSUME NEW d \in Deployments, AdvanceHead(d) PROVE TypeOK'
    BY <1>8 DEF AdvanceHead, TypeOK, AllIdle, NoOutcome
  <1>9. ASSUME NEW d \in Deployments, Receive(d) PROVE TypeOK'
    <2>1. remote' \in [Deployments -> SUBSET Message]
      BY <1>9 DEF Receive, TypeOK, Message
    <2> QED
      BY <1>9, <2>1 DEF Receive, TypeOK, AllIdle, NoOutcome
  <1>10. ASSUME NEW d \in Deployments, GossipStep(d) PROVE TypeOK'
    <2>1. CASE CheckDuplicate(d)
      <3>1. phase = "gossip" /\ task[d].block \in Blocks
        BY <2>1, StageOfPhase, TaskFields DEF CheckDuplicate
      <3>2. PICK t \in {Idle} \cup GossipTask : Goto(d, t)
        BY <2>1, <3>1, TaskForms DEF CheckDuplicate
      <3>3. faults' \in 0..MaxFaults
        BY <2>1, FaultTyped DEF CheckDuplicate
      <3> QED
        BY <2>1, <3>1, <3>2, <3>3, GotoTyped DEF CheckDuplicate, TypeOK, NoOutcome
    <2>2. CASE SendPoi(d)
      <3>1. phase = "gossip" /\ task[d].block \in Blocks
        BY <2>2, StageOfPhase, TaskFields DEF SendPoi
      <3>2. PICK t \in {Idle} \cup GossipTask : Goto(d, t)
        <4>1. \A x \in Ppois : [block |-> task[d].block, ppoi |-> x, time |-> clock] \in Row
          BY <3>1 DEF Row, TypeOK
        <4> QED
          BY <2>2, <4>1, TaskForms DEF SendPoi
      <3>3. faults' \in 0..MaxFaults
        BY <2>2, FaultTyped DEF SendPoi
      <3>4. published' \in [Deployments -> SUBSET Blocks]
        BY <2>2, <3>1 DEF SendPoi, TypeOK
      <3> QED
        BY <2>2, <3>1, <3>2, <3>3, <3>4, GotoTyped DEF SendPoi, TypeOK, NoOutcome
    <2>3. CASE SaveLocal(d)
      <3>1. phase = "gossip" /\ task[d].row \in Row
        BY <2>3, StageOfPhase, TaskFields DEF SaveLocal
      <3>2. local' \in [Deployments -> SUBSET Row]
        BY <2>3, <3>1 DEF SaveLocal, TypeOK
      <3>3. faults' \in 0..MaxFaults
        BY <2>3, FaultTyped DEF SaveLocal
      <3> QED
        BY <2>3, <3>1, <3>2, <3>3, GotoTyped DEF SaveLocal, TypeOK, NoOutcome
    <2> QED
      BY <1>10, <2>1, <2>2, <2>3 DEF GossipStep
  <1>11. ASSUME NEW d \in Deployments, CompareStep(d) PROVE TypeOK'
    <2>1. CASE ChoosePoint(d)
      <3>1. phase = "compare"
        BY <2>1, StageOfPhase DEF ChoosePoint
      <3>2. Answered(d) # {} =>
              ComparisonPoint(d).block \in Blocks /\ ComparisonPoint(d).time \in Nat
        BY PointIsAnswered DEF Answered, Row, TypeOK
      <3>3. PICK t \in {Idle} \cup CompareTask : Goto(d, t)
        BY <2>1, <3>2, TaskForms, WindowAssumption DEF ChoosePoint
      <3>4. faults' \in 0..MaxFaults
        BY <2>1, FaultTyped DEF ChoosePoint
      <3> QED
        BY <2>1, <3>1, <3>3, <3>4, GotoTyped DEF ChoosePoint, TypeOK, NoOutcome
    <2>2. CASE ReadRemote(d)
      <3>1. phase = "compare" /\ task[d].block \in Blocks
        BY <2>2, StageOfPhase, TaskFields DEF ReadRemote
      <3>2. Heard(d, task[d].block, task[d].end) \in SUBSET Message
        BY DEF Heard, TypeOK
      <3>3. PICK t \in {Idle} \cup CompareTask : Goto(d, t)
        BY <2>2, <3>1, <3>2, TaskForms DEF ReadRemote
      <3>4. faults' \in 0..MaxFaults
        BY <2>2, FaultTyped DEF ReadRemote
      <3> QED
        BY <2>2, <3>1, <3>3, <3>4, GotoTyped DEF ReadRemote, TypeOK, NoOutcome
    <2>3. CASE Judge(d)
      <3>1. phase = "compare" /\ task[d].block \in Blocks
        BY <2>3, StageOfPhase, TaskFields DEF Judge
      <3>2. outcome' \in [Deployments -> Result \cup {NoResult}]
        <4>1. \A r : [block |-> task[d].block, type |-> Verdict(r, task[d].heard)] \in Result
          BY <3>1, VerdictType DEF Result
        <4> QED
          BY <2>3, <4>1 DEF Judge, TypeOK
      <3>3. PICK t \in {Idle} \cup CompareTask : Goto(d, t)
        BY <2>3, <3>1, TaskForms DEF Judge
      <3>4. faults' \in 0..MaxFaults
        BY <2>3, FaultTyped DEF Judge
      <3> QED
        BY <2>3, <3>1, <3>2, <3>3, <3>4, GotoTyped DEF Judge, TypeOK
    <2>4. CASE CleanLocal(d)
      <3>1. phase = "compare" /\ task[d].block \in Blocks
        BY <2>4, StageOfPhase, TaskFields DEF CleanLocal
      <3>2. local' \in [Deployments -> SUBSET Row]
        BY <2>4 DEF CleanLocal, DeleteLocal, TypeOK
      <3>3. PICK t \in {Idle} \cup CompareTask : Goto(d, t)
        BY <2>4, <3>1, TaskForms DEF CleanLocal
      <3>4. faults' \in 0..MaxFaults
        BY <2>4, FaultTyped DEF CleanLocal
      <3> QED
        BY <2>4, <3>1, <3>2, <3>3, <3>4, GotoTyped DEF CleanLocal, TypeOK
    <2>5. CASE CleanRemote(d)
      <3>1. phase = "compare"
        BY <2>5, StageOfPhase DEF CleanRemote
      <3>2. remote' \in [Deployments -> SUBSET Message]
        BY <2>5 DEF CleanRemote, DeleteRemote, TypeOK
      <3>3. faults' \in 0..MaxFaults
        BY <2>5, FaultTyped DEF CleanRemote
      <3> QED
        BY <2>5, <3>1, <3>2, <3>3, GotoTyped DEF CleanRemote, TypeOK
    <2> QED
      BY <1>11, <2>1, <2>2, <2>3, <2>4, <2>5 DEF CompareStep
  <1>12. ASSUME NEW d \in Deployments, RecordResult(d) PROVE TypeOK'
    BY <1>12 DEF RecordResult, TypeOK, AllIdle
  <1>13. ASSUME NEW d \in Deployments, LoseResult(d) PROVE TypeOK'
    BY <1>13 DEF LoseResult, TypeOK, AllIdle
  <1>14. CASE UNCHANGED vars
    BY <1>14 DEF vars, TypeOK, AllIdle, NoOutcome
  <1> QED
    BY <1>1, <1>2, <1>3, <1>4, <1>5, <1>6, <1>7, <1>8, <1>9, <1>10, <1>11, <1>12,
       <1>13, <1>14 DEF Next, LoopStep

\* Every variable keeps its type, and no task outlives its tick.
THEOREM TypeCorrect == Spec => []TypeOK
  BY TypeInit, TypeStep, PTL DEF Spec

-----------------------------------------------------------------------------
(* The row a comparison is about, and its window *)

\* What a comparison task knows of the row it was pointed at: the row is still
\* there, and its window is over.
Pointed(d) ==
  /\ task[d].stage = "read" =>
       \E r \in local[d] :
         /\ r.block = task[d].block
         /\ task[d].end = r.time + CollectWindow
         /\ clock >= r.time + CollectWindow
  /\ task[d].stage = "judge" =>
       \E r \in local[d] : r.block = task[d].block

IPointed == \A d \in Deployments : Pointed(d)

LEMMA PointedImplies == IPointed => RowStaysUntilJudged
  BY DEF IPointed, Pointed, RowStaysUntilJudged, RowsAt

\* Pointed(o) does not mind more rows and a later clock.
LEMMA PointedKept ==
  ASSUME TypeOK, TypeOK', NEW o \in Deployments, Pointed(o),
         task'[o] = task[o], local[o] \subseteq local'[o], clock' >= clock
  PROVE  Pointed(o)'
  <1>1. clock \in Nat /\ clock' \in Nat
    BY DEF TypeOK
  <1>2. \A r \in local[o] : r.time + CollectWindow \in Nat
    BY WindowAssumption DEF TypeOK, Row
  <1> QED
    BY <1>1, <1>2 DEF Pointed

LEMMA PointedIdle ==
  ASSUME NEW o \in Deployments,
         task'[o].stage \notin {"read", "judge"}
  PROVE  Pointed(o)'
  BY DEF Pointed

LEMMA PointedStep == TypeOK /\ IPointed /\ [Next]_vars => IPointed'
  <1> SUFFICES ASSUME TypeOK, IPointed, [Next]_vars, NEW o \in Deployments
               PROVE  Pointed(o)'
    BY DEF IPointed
  <1>t. TypeOK'
    BY TypeStep
  <1>p. Pointed(o)
    BY DEF IPointed
  <1>c. clock \in Nat
    BY DEF TypeOK
  <1>i. Idle.stage = "idle"
    BY DEF Idle
  \* A step that changes the task of one deployment only.
  <1>g. ASSUME NEW d \in Deployments, NEW t, Goto(d, t), d # o
        PROVE  task'[o] = task[o]
    BY <1>g DEF Goto, TypeOK
  <1>h. ASSUME NEW t, Goto(o, t) PROVE task'[o] = t
    BY <1>h DEF Goto, TypeOK
  <1>1. CASE Tick \/ UNCHANGED vars
    BY <1>1, <1>t, <1>p, <1>c, PointedKept DEF Tick, vars
  <1>2. CASE StartGossip
    BY <1>2, <1>i, PointedIdle DEF StartGossip
  <1>3. CASE EndGossip \/ EndCompare \/ EndResults
    BY <1>3, <1>t, <1>p, <1>c, PointedKept DEF EndGossip, EndCompare, EndResults
  <1>4. CASE StartCompare
    <2>1. task'[o].stage \in {"idle", "point"}
      BY <1>4, <1>i DEF StartCompare, CompareOf
    <2> QED
      BY <2>1, PointedIdle
  <1>5. CASE Restart
    BY <1>5, <1>i, PointedIdle DEF Restart, AllIdle
  <1>6. ASSUME NEW d \in Deployments,
               AdvanceHead(d) \/ Receive(d) \/ RecordResult(d) \/ LoseResult(d)
        PROVE  Pointed(o)'
    BY <1>6, <1>t, <1>p, <1>c, PointedKept
    DEF AdvanceHead, Receive, RecordResult, LoseResult
  <1>7. ASSUME NEW d \in Deployments, GossipStep(d) PROVE Pointed(o)'
    <2>1. clock' = clock /\ local[o] \subseteq local'[o]
      BY <1>7 DEF GossipStep, CheckDuplicate, SendPoi, SaveLocal, TypeOK
    <2>2. PICK t : Goto(d, t) /\ t.stage \notin {"read", "judge"}
      <3>1. CASE CheckDuplicate(d)
        <4> DEFINE s == [stage |-> "send", block |-> task[d].block]
        <4>1. s.stage = "send"
          OBVIOUS
        <4>2. Goto(d, Idle) \/ Goto(d, s)
          BY <3>1 DEF CheckDuplicate
        <4> HIDE DEF s
        <4> QED
          BY <4>1, <4>2, <1>i
      <3>2. CASE SendPoi(d)
        <4>1. CASE Goto(d, Idle)
          BY <4>1, <1>i
        <4>2. CASE ~Goto(d, Idle)
          <5>1. PICK x \in Ppois :
                  Goto(d, [stage |-> "save",
                           row |-> [block |-> task[d].block, ppoi |-> x,
                                    time |-> clock]])
            BY <3>2, <4>2 DEF SendPoi
          <5> DEFINE s == [stage |-> "save",
                           row |-> [block |-> task[d].block, ppoi |-> x,
                                    time |-> clock]]
          <5>2. Goto(d, s) /\ s.stage = "save"
            BY <5>1
          <5> HIDE DEF s
          <5> QED
            BY <5>2
        <4> QED
          BY <4>1, <4>2
      <3>3. CASE SaveLocal(d)
        BY <3>3, <1>i DEF SaveLocal
      <3> QED
        BY <1>7, <3>1, <3>2, <3>3 DEF GossipStep
    <2>3. CASE d = o
      BY <2>2, <2>3, <1>h, PointedIdle
    <2>4. CASE d # o
      BY <2>1, <2>2, <2>4, <1>g, <1>t, <1>p, <1>c, PointedKept
    <2> QED
      BY <2>3, <2>4
  <1>8. ASSUME NEW d \in Deployments, CompareStep(d), d # o PROVE Pointed(o)'
    <2>1. clock' = clock /\ local[o] \subseteq local'[o]
      BY <1>8
      DEF CompareStep, ChoosePoint, ReadRemote, Judge, CleanLocal, CleanRemote,
          DeleteLocal, TypeOK
    <2>2. PICK t : Goto(d, t)
      BY <1>8
      DEF CompareStep, ChoosePoint, ReadRemote, Judge, CleanLocal, CleanRemote
    <2> QED
      BY <2>1, <2>2, <1>8, <1>g, <1>t, <1>p, <1>c, PointedKept
  <1>9. ASSUME CompareStep(o) PROVE Pointed(o)'
    <2>1. CASE ChoosePoint(o)
      <3>1. CASE Goto(o, Idle)
        BY <3>1, <1>h, <1>i, PointedIdle
      <3>2. CASE ~Goto(o, Idle)
        <4> DEFINE r == ComparisonPoint(o)
        <4>1. /\ Answered(o) # {}
              /\ clock >= r.time + CollectWindow
              /\ task'[o] = [stage |-> "read", block |-> r.block,
                             end |-> r.time + CollectWindow]
          BY <2>1, <3>2, <1>h DEF ChoosePoint
        <4>2. r \in local[o]
          BY <4>1, PointIsAnswered DEF Answered
        <4>3. clock' = clock /\ local' = local
          BY <2>1 DEF ChoosePoint
        <4> QED
          BY <4>1, <4>2, <4>3 DEF Pointed
      <3> QED
        BY <3>1, <3>2
    <2>2. CASE ReadRemote(o)
      <3>1. CASE Goto(o, Idle)
        BY <3>1, <1>h, <1>i, PointedIdle
      <3>2. CASE ~Goto(o, Idle)
        <4>1. /\ task[o].stage = "read"
              /\ task'[o] = [stage |-> "judge", block |-> task[o].block,
                             heard |-> Heard(o, task[o].block, task[o].end)]
          BY <2>2, <3>2, <1>h DEF ReadRemote
        <4>2. local' = local
          BY <2>2 DEF ReadRemote
        <4> QED
          BY <4>1, <4>2, <1>p DEF Pointed
      <3> QED
        BY <3>1, <3>2
    <2>3. CASE Judge(o) \/ CleanLocal(o) \/ CleanRemote(o)
      <3>1. PICK t : Goto(o, t) /\ t.stage \notin {"read", "judge"}
        BY <2>3, <1>i DEF Judge, CleanLocal, CleanRemote
      <3> QED
        BY <3>1, <1>h, PointedIdle
    <2> QED
      BY <1>9, <2>1, <2>2, <2>3 DEF CompareStep
  <1> QED
    BY <1>1, <1>2, <1>3, <1>4, <1>5, <1>6, <1>7, <1>8, <1>9 DEF Next, LoopStep

\* The local row a comparison chose is there when it is read again.
THEOREM ComparisonSound == Spec => []RowStaysUntilJudged
  <1>1. Init => IPointed
    BY DEF Init, AllIdle, Idle, IPointed, Pointed
  <1> QED
    BY <1>1, TypeInit, TypeStep, PointedStep, PointedImplies, PTL DEF Spec

-----------------------------------------------------------------------------
(* One row for a block; only published blocks are judged *)

\* A step of the task of one deployment leaves the others alone.
LEMMA OthersUntouched ==
  ASSUME TypeOK, NEW d \in Deployments, NEW o \in Deployments, d # o,
         GossipStep(d) \/ CompareStep(d)
  PROVE  /\ task'[o] = task[o] /\ local'[o] = local[o]
         /\ outcome'[o] = outcome[o] /\ published'[o] = published[o]
         /\ head' = head /\ results' = results
  <1> DEFINE Untouched == /\ task'[o] = task[o] /\ local'[o] = local[o]
                          /\ outcome'[o] = outcome[o] /\ published'[o] = published[o]
                          /\ head' = head /\ results' = results
  <1> USE DEF TypeOK, Goto
  <1>1. CheckDuplicate(d) => Untouched
    BY DEF CheckDuplicate
  <1>2. SendPoi(d) => Untouched
    BY DEF SendPoi
  <1>3. SaveLocal(d) => Untouched
    BY DEF SaveLocal
  <1>4. ChoosePoint(d) => Untouched
    BY DEF ChoosePoint
  <1>5. ReadRemote(d) => Untouched
    BY DEF ReadRemote
  <1>6. Judge(d) => Untouched
    BY DEF Judge
  <1>7. CleanLocal(d) => Untouched
    BY DEF CleanLocal, DeleteLocal
  <1>8. CleanRemote(d) => Untouched
    BY DEF CleanRemote
  <1> QED
    BY <1>1, <1>2, <1>3, <1>4, <1>5, <1>6, <1>7, <1>8 DEF GossipStep, CompareStep

\* Until a query fails: a task that is about to send or to save found no row
\* for its block, and there is still none.
Single(d) ==
  faults = 0 =>
    /\ task[d].stage = "send" => \A r \in local[d] : r.block # task[d].block
    /\ task[d].stage = "save" => \A r \in local[d] : r.block # task[d].row.block
    /\ \A r1, r2 \in local[d] : r1.block = r2.block => r1 = r2

ISingle == \A d \in Deployments : Single(d)

LEMMA NoFaultBefore == TypeOK /\ [Next]_vars /\ faults' = 0 => faults = 0 /\ ~Fault
  <1> SUFFICES ASSUME TypeOK, [Next]_vars, faults' = 0 PROVE faults = 0 /\ ~Fault
    OBVIOUS
  <1>1. ~Fault
    BY DEF Fault, TypeOK
  <1>2. faults' = faults \/ Fault
    BY DEF Next, LoopStep, vars, Tick, StartGossip, EndGossip, StartCompare, CompareOf,
           EndCompare, EndResults, Restart, AdvanceHead, Receive, GossipStep,
           CompareStep, RecordResult, LoseResult, CheckDuplicate, SendPoi,
           SaveLocal, ChoosePoint, ReadRemote, Judge, CleanLocal, CleanRemote
  <1> QED
    BY <1>1, <1>2

LEMMA SingleStep == TypeOK /\ ISingle /\ [Next]_vars => ISingle'
  <1> SUFFICES ASSUME TypeOK, ISingle, [Next]_vars, NEW o \in Deployments, faults' = 0
               PROVE  Single(o)'
    BY DEF ISingle, Single
  <1>p. Single(o)
    BY DEF ISingle
  <1>f. faults = 0 /\ ~Fault
    BY NoFaultBefore
  <1>i. Idle.stage = "idle"
    BY DEF Idle
  <1>h. ASSUME NEW t, Goto(o, t) PROVE task'[o] = t
    BY <1>h DEF Goto, TypeOK
  <1>1. CASE UNCHANGED vars \/ Tick \/ EndGossip \/ EndCompare \/ EndResults
    BY <1>1, <1>p, <1>f
    DEF Single, vars, Tick, EndGossip, EndCompare, EndResults
  <1>2. CASE StartGossip
    <2>1. task'[o].stage \in {"idle", "check"}
      BY <1>2, <1>i DEF StartGossip
    <2> QED
      BY <1>2, <2>1, <1>p, <1>f DEF Single, StartGossip
  <1>3. CASE StartCompare
    <2>1. task'[o].stage \in {"idle", "point"}
      BY <1>3, <1>i DEF StartCompare, CompareOf
    <2> QED
      BY <1>3, <2>1, <1>p, <1>f DEF Single, StartCompare, CompareOf
  <1>4. CASE Restart
    <2>1. task'[o].stage = "idle" /\ local'[o] \subseteq local[o]
      BY <1>4, <1>i DEF Restart, AllIdle
    <2> QED
      BY <2>1, <1>p, <1>f DEF Single
  <1>5. ASSUME NEW d \in Deployments,
               AdvanceHead(d) \/ Receive(d) \/ RecordResult(d) \/ LoseResult(d)
        PROVE  Single(o)'
    BY <1>5, <1>p, <1>f DEF Single, AdvanceHead, Receive, RecordResult, LoseResult
  <1>6. ASSUME NEW d \in Deployments, d # o, GossipStep(d) \/ CompareStep(d)
        PROVE  Single(o)'
    BY <1>6, <1>p, <1>f, OthersUntouched DEF Single
  <1>7. CASE CheckDuplicate(o)
    <2>1. CASE Goto(o, Idle)
      BY <2>1, <1>7, <1>h, <1>i, <1>p, <1>f DEF Single, CheckDuplicate
    <2>2. CASE ~Goto(o, Idle)
      <3>1. /\ \A r \in local[o] : r.block # task[o].block
            /\ task'[o] = [stage |-> "send", block |-> task[o].block]
            /\ local' = local
        BY <2>2, <1>7, <1>h, <1>f DEF CheckDuplicate, AlreadySent, RowsAt
      <3> QED
        BY <3>1, <1>p, <1>f DEF Single
    <2> QED
      BY <2>1, <2>2
  <1>8. CASE SendPoi(o)
    <2>1. PICK x \in Ppois :
            Goto(o, [stage |-> "save",
                     row |-> [block |-> task[o].block, ppoi |-> x, time |-> clock]])
      BY <1>8, <1>f DEF SendPoi
    <2>2. task[o].stage = "send" /\ local' = local
      BY <1>8 DEF SendPoi
    <2> QED
      BY <2>1, <2>2, <1>h, <1>p, <1>f DEF Single
  <1>9. CASE SaveLocal(o)
    <2>1. task'[o].stage = "idle"
      BY <1>9, <1>h, <1>i DEF SaveLocal
    <2>2. local'[o] \subseteq local[o] \cup {task[o].row}
      BY <1>9 DEF SaveLocal, TypeOK
    <2>3. \A r \in local[o] : r.block # task[o].row.block
      BY <1>9, <1>p, <1>f DEF SaveLocal, Single
    <2> QED
      BY <2>1, <2>2, <2>3, <1>p, <1>f DEF Single
  <1>10. CASE CompareStep(o)
    <2>1. local'[o] \subseteq local[o]
      BY <1>10
      DEF CompareStep, ChoosePoint, ReadRemote, Judge, CleanLocal, CleanRemote,
          DeleteLocal, TypeOK
    <2>2. task'[o].stage \notin {"send", "save"}
      BY <1>10, <1>h, <1>i
      DEF CompareStep, ChoosePoint, ReadRemote, Judge, CleanLocal, CleanRemote
    <2> QED
      BY <2>1, <2>2, <1>p, <1>f DEF Single
  <1> QED
    BY <1>1, <1>2, <1>3, <1>4, <1>5, <1>6, <1>7, <1>8, <1>9, <1>10
    DEF Next, LoopStep, GossipStep

\* Until a query fails, get_local_attestation has at most one row to fetch.
THEOREM RowsSingle == Spec => []OneRowPerBlock
  <1>1. Init => ISingle
    BY DEF Init, AllIdle, Idle, ISingle, Single
  <1>2. ISingle => OneRowPerBlock
    BY DEF ISingle, Single, OneRowPerBlock
  <1> QED
    BY <1>1, <1>2, TypeInit, TypeStep, SingleStep, PTL DEF Spec

\* Whatever a task, a row, an outcome or a result carries was published.
Backed(d) ==
  /\ \A r \in local[d] : r.block \in published[d]
  /\ task[d].stage = "save" => task[d].row.block \in published[d]
  /\ task[d].stage \in {"read", "judge"} => task[d].block \in published[d]
  /\ outcome[d] # NoResult => outcome[d].block \in published[d]
  /\ results[d] # NoResult => results[d].block \in published[d]

IBacked == \A d \in Deployments : Backed(d)

\* Backed(o) does not mind fewer rows, more publications, and results that come
\* from the outcome.
LEMMA BackedKept ==
  ASSUME NEW o \in Deployments, Backed(o),
         task'[o] = task[o] \/ task'[o].stage \notin {"save", "read", "judge"},
         local'[o] \subseteq local[o], published[o] \subseteq published'[o],
         outcome'[o] \in {outcome[o], NoResult},
         results'[o] \in {results[o], outcome[o], NoResult}
  PROVE  Backed(o)'
  BY DEF Backed

LEMMA BackedStep == TypeOK /\ IBacked /\ [Next]_vars => IBacked'
  <1> SUFFICES ASSUME TypeOK, IBacked, [Next]_vars, NEW o \in Deployments
               PROVE  Backed(o)'
    BY DEF IBacked
  <1>p. Backed(o)
    BY DEF IBacked
  <1>i. Idle.stage = "idle"
    BY DEF Idle
  <1>h. ASSUME NEW t, Goto(o, t) PROVE task'[o] = t
    BY <1>h DEF Goto, TypeOK
  <1>1. CASE UNCHANGED vars \/ Tick \/ EndGossip \/ EndCompare
    BY <1>1, <1>p, BackedKept DEF vars, Tick, EndGossip, EndCompare
  <1>2. CASE StartGossip
    <2>1. task'[o].stage \in {"idle", "check"}
      BY <1>2, <1>i DEF StartGossip
    <2> QED
      BY <1>2, <2>1, <1>p, BackedKept DEF StartGossip
  <1>3. CASE StartCompare
    <2>1. task'[o].stage \in {"idle", "point"}
      BY <1>3, <1>i DEF StartCompare, CompareOf
    <2> QED
      BY <1>3, <2>1, <1>p, BackedKept DEF StartCompare, CompareOf
  <1>4. CASE EndResults
    BY <1>4, <1>p, BackedKept DEF EndResults, NoOutcome
  <1>5. CASE Restart
    <2>1. task'[o].stage = "idle" /\ local'[o] \subseteq local[o]
      BY <1>5, <1>i DEF Restart, AllIdle
    <2>2. outcome'[o] = NoResult /\ results'[o] \in {results[o], NoResult}
      BY <1>5 DEF Restart, NoOutcome
    <2>3. published' = published
      BY <1>5 DEF Restart
    <2> QED
      BY <2>1, <2>2, <2>3, <1>p, BackedKept
  <1>6. ASSUME NEW d \in Deployments, AdvanceHead(d) \/ Receive(d) PROVE Backed(o)'
    BY <1>6, <1>p, BackedKept DEF AdvanceHead, Receive
  <1>7. ASSUME NEW d \in Deployments, RecordResult(d) \/ LoseResult(d)
        PROVE  Backed(o)'
    <2>1. outcome'[o] \in {outcome[o], NoResult}
      BY <1>7 DEF RecordResult, LoseResult, TypeOK
    <2>2. results'[o] \in {results[o], outcome[o], NoResult}
      BY <1>7 DEF RecordResult, LoseResult, TypeOK
    <2> QED
      BY <1>7, <2>1, <2>2, <1>p, BackedKept DEF RecordResult, LoseResult
  <1>8. ASSUME NEW d \in Deployments, d # o, GossipStep(d) \/ CompareStep(d)
        PROVE  Backed(o)'
    BY <1>8, <1>p, OthersUntouched, BackedKept
  <1>9. CASE CheckDuplicate(o)
    <2>1. task'[o].stage \in {"idle", "send"}
      <3>1. CASE Goto(o, Idle)
        BY <3>1, <1>h, <1>i
      <3>2. CASE ~Goto(o, Idle)
        BY <3>2, <1>9, <1>h DEF CheckDuplicate
      <3> QED
        BY <3>1, <3>2
    <2> QED
      BY <1>9, <2>1, <1>p, BackedKept DEF CheckDuplicate
  <1>10. CASE SendPoi(o)
    <2>1. CASE Goto(o, Idle)
      <3>1. published[o] \subseteq published'[o]
        BY <1>10 DEF SendPoi, TypeOK
      <3> QED
        BY <1>10, <2>1, <3>1, <1>h, <1>i, <1>p, BackedKept DEF SendPoi
    <2>2. CASE ~Goto(o, Idle)
      <3>1. PICK x \in Ppois :
              Goto(o, [stage |-> "save",
                       row |-> [block |-> task[o].block, ppoi |-> x, time |-> clock]])
        BY <1>10, <2>2 DEF SendPoi
      <3>2. published'[o] = published[o] \cup {task[o].block}
        BY <1>10, <2>2 DEF SendPoi, TypeOK
      <3>3. local' = local /\ outcome' = outcome /\ results' = results
        BY <1>10 DEF SendPoi
      <3> QED
        BY <3>1, <3>2, <3>3, <1>h, <1>p DEF Backed
    <2> QED
      BY <2>1, <2>2
  <1>11. CASE SaveLocal(o)
    <2>1. task[o].stage = "save" /\ task'[o].stage = "idle"
      BY <1>11, <1>h, <1>i DEF SaveLocal
    <2>2. local'[o] \subseteq local[o] \cup {task[o].row}
      BY <1>11 DEF SaveLocal, TypeOK
    <2>3. published' = published /\ outcome' = outcome /\ results' = results
      BY <1>11 DEF SaveLocal
    <2> QED
      BY <2>1, <2>2, <2>3, <1>p DEF Backed
  <1>12. CASE ChoosePoint(o)
    <2>1. CASE Goto(o, Idle)
      BY <2>1, <1>12, <1>h, <1>i, <1>p, BackedKept DEF ChoosePoint
    <2>2. CASE ~Goto(o, Idle)
      <3>1. /\ Answered(o) # {}
            /\ task'[o] = [stage |-> "read", block |-> ComparisonPoint(o).block,
                           end |-> ComparisonPoint(o).time + CollectWindow]
        BY <1>12, <2>2, <1>h DEF ChoosePoint
      <3>2. ComparisonPoint(o) \in local[o]
        BY <3>1, PointIsAnswered DEF Answered
      <3>3. UNCHANGED <<local, outcome, results, published>>
        BY <1>12 DEF ChoosePoint
      <3> QED
        BY <3>1, <3>2, <3>3, <1>p DEF Backed
    <2> QED
      BY <2>1, <2>2
  <1>13. CASE ReadRemote(o)
    <2>1. CASE Goto(o, Idle)
      BY <2>1, <1>13, <1>h, <1>i, <1>p, BackedKept DEF ReadRemote
    <2>2. CASE ~Goto(o, Idle)
      <3>1. /\ task[o].stage = "read"
            /\ task'[o] = [stage |-> "judge", block |-> task[o].block,
                           heard |-> Heard(o, task[o].block, task[o].end)]
        BY <1>13, <2>2, <1>h DEF ReadRemote
      <3>2. UNCHANGED <<local, outcome, results, published>>
        BY <1>13 DEF ReadRemote
      <3> QED
        BY <3>1, <3>2, <1>p DEF Backed
    <2> QED
      BY <2>1, <2>2
  <1>14. CASE Judge(o)
    <2>1. task[o].stage = "judge" /\ UNCHANGED <<local, results, published>>
      BY <1>14 DEF Judge
    <2>2. task'[o].stage \in {"idle", "join"}
      <3>1. CASE Goto(o, Idle)
        BY <3>1, <1>h, <1>i
      <3>2. CASE ~Goto(o, Idle)
        BY <3>2, <1>14, <1>h DEF Judge
      <3> QED
        BY <3>1, <3>2
    <2>3. outcome'[o] = outcome[o] \/ outcome'[o].block = task[o].block
      BY <1>14 DEF Judge, TypeOK
    <2> QED
      BY <2>1, <2>2, <2>3, <1>p DEF Backed
  <1>15. CASE CleanLocal(o)
    <2>1. task'[o].stage \in {"idle", "clean"}
      <3>1. CASE Goto(o, Idle)
        BY <3>1, <1>h, <1>i
      <3>2. CASE ~Goto(o, Idle)
        BY <3>2, <1>15, <1>h DEF CleanLocal
      <3> QED
        BY <3>1, <3>2
    <2>2. local'[o] \subseteq local[o]
      BY <1>15 DEF CleanLocal, DeleteLocal, TypeOK
    <2> QED
      BY <1>15, <2>1, <2>2, <1>p, BackedKept DEF CleanLocal
  <1>16. CASE CleanRemote(o)
    <2>1. task'[o].stage = "idle"
      BY <1>16, <1>h, <1>i DEF CleanRemote
    <2> QED
      BY <1>16, <2>1, <1>p, BackedKept DEF CleanRemote
  <1> QED
    BY <1>1, <1>2, <1>3, <1>4, <1>5, <1>6, <1>7, <1>8, <1>9, <1>10, <1>11, <1>12,
       <1>13, <1>14, <1>15, <1>16 DEF Next, LoopStep, GossipStep, CompareStep

\* A saved result, and a row that can lead to one, is about a block this
\* indexer has published its own POI for.
THEOREM OnlyPublishedJudged == Spec => []JudgedWasPublished
  <1>1. Init => IBacked
    <2> SUFFICES ASSUME Init, NEW d \in Deployments PROVE Backed(d)
      BY DEF IBacked
    <2>1. task[d].stage = "idle"
      BY DEF Init, AllIdle, Idle
    <2> QED
      BY <2>1 DEF Init, NoOutcome, Backed
  <1>2. IBacked => JudgedWasPublished
    BY DEF IBacked, Backed, JudgedWasPublished
  <1> QED
    BY <1>1, <1>2, TypeInit, TypeStep, BackedStep, PTL DEF Spec

-----------------------------------------------------------------------------
(* What the clean-up takes with it *)

\* The messages a comparison counts are still stored until it is judged, and
\* what it leaves out was made after its window or came later than all of them.
Counted(d) ==
  task[d].stage = "judge" =>
    /\ task[d].heard \subseteq remote[d]
    /\ \E r \in local[d] :
         /\ r.block = task[d].block
         /\ \A m \in remote[d] :
              /\ m.block = task[d].block
              /\ m.nonce <= r.time + CollectWindow
              /\ m \notin task[d].heard
              => \A h \in task[d].heard : h.rowid < m.rowid

ICounted == \A d \in Deployments : Counted(d)

\* Counted(o) does not mind more rows, nor messages that get a later rowid.
LEMMA CountedKept ==
  ASSUME NEW o \in Deployments, Counted(o),
         task'[o] = task[o], local[o] \subseteq local'[o],
         remote[o] \subseteq remote'[o],
         \A m \in remote'[o] \ remote[o] : \A h \in remote[o] : h.rowid < m.rowid
  PROVE  Counted(o)'
  BY DEF Counted

LEMMA CountedIdle ==
  ASSUME NEW o \in Deployments, task'[o].stage # "judge"
  PROVE  Counted(o)'
  BY DEF Counted

\* A step of the task of one deployment leaves the messages of others alone,
\* and only the last step of a comparison deletes any.
LEMMA RemoteUntouched ==
  ASSUME TypeOK, NEW d \in Deployments, NEW o \in Deployments,
         GossipStep(d) \/ CompareStep(d), d # o \/ ~CleanRemote(d)
  PROVE  remote'[o] = remote[o]
  BY DEF GossipStep, CompareStep, CheckDuplicate, SendPoi, SaveLocal, ChoosePoint,
         ReadRemote, Judge, CleanLocal, CleanRemote, DeleteRemote, TypeOK

LEMMA CountedStep == TypeOK /\ IPointed /\ ICounted /\ [Next]_vars => ICounted'
  <1> SUFFICES ASSUME TypeOK, IPointed, ICounted, [Next]_vars, NEW o \in Deployments
               PROVE  Counted(o)'
    BY DEF ICounted
  <1>p. Counted(o)
    BY DEF ICounted
  <1>i. Idle.stage = "idle"
    BY DEF Idle
  <1>h. ASSUME NEW t, Goto(o, t) PROVE task'[o] = t
    BY <1>h DEF Goto, TypeOK
  <1>1. CASE UNCHANGED vars \/ Tick \/ EndGossip \/ EndCompare \/ EndResults
    BY <1>1, <1>p, CountedKept DEF vars, Tick, EndGossip, EndCompare, EndResults
  <1>2. CASE StartGossip \/ StartCompare \/ Restart
    <2>1. task'[o].stage \in {"idle", "check", "point"}
      BY <1>2, <1>i DEF StartGossip, StartCompare, CompareOf, Restart, AllIdle
    <2> QED
      BY <2>1, CountedIdle
  <1>3. ASSUME NEW d \in Deployments,
               AdvanceHead(d) \/ RecordResult(d) \/ LoseResult(d)
        PROVE  Counted(o)'
    BY <1>3, <1>p, CountedKept DEF AdvanceHead, RecordResult, LoseResult
  <1>4. ASSUME NEW d \in Deployments, Receive(d) PROVE Counted(o)'
    <2>1. PICK i \in 1..MaxRowid, s \in Senders, b \in Blocks, x \in Ppois,
               n \in 0..clock :
            /\ IsNextRowid(d, i)
            /\ remote' = [remote EXCEPT ![d] = @ \cup
                 {[rowid |-> i, sender |-> s, block |-> b, ppoi |-> x, nonce |-> n]}]
      BY <1>4 DEF Receive
    <2>2. remote[o] \subseteq remote'[o]
      BY <2>1 DEF TypeOK
    <2>3. \A m \in remote'[o] \ remote[o] : \A h \in remote[o] : h.rowid < m.rowid
      <3>1. \A m \in remote'[o] \ remote[o] : d = o /\ m.rowid = i
        BY <2>1 DEF TypeOK
      <3>2. \A h \in remote[d] : h.rowid < i
        BY <2>1 DEF IsNextRowid
      <3> QED
        BY <3>1, <3>2
    <2> QED
      BY <1>4, <2>2, <2>3, <1>p, CountedKept DEF Receive
  <1>5. ASSUME NEW d \in Deployments, d # o, GossipStep(d) \/ CompareStep(d)
        PROVE  Counted(o)'
    <2>1. remote'[o] = remote[o]
      BY <1>5, RemoteUntouched
    <2>2. task'[o] = task[o] /\ local'[o] = local[o]
      BY <1>5, OthersUntouched
    <2> QED
      BY <2>1, <2>2, <1>p, CountedKept
  <1>6. CASE GossipStep(o) \/ ChoosePoint(o) \/ Judge(o) \/ CleanLocal(o) \/ CleanRemote(o)
    <2>1. task'[o].stage # "judge"
      <3>1. CASE Goto(o, Idle)
        BY <3>1, <1>h, <1>i
      <3>2. CASE ~Goto(o, Idle)
        <4>1. PICK t : Goto(o, t) /\ t.stage # "judge"
          <5>1. CASE SendPoi(o)
            <6>1. PICK r : Goto(o, [stage |-> "save", row |-> r])
              BY <5>1, <3>2 DEF SendPoi
            <6> DEFINE t == [stage |-> "save", row |-> r]
            <6>2. Goto(o, t) /\ t.stage # "judge"
              BY <6>1
            <6> HIDE DEF t
            <6> QED
              BY <6>2
          <5>2. CASE ~SendPoi(o)
            BY <1>6, <5>2, <3>2
            DEF GossipStep, CheckDuplicate, SaveLocal, ChoosePoint, Judge,
                CleanLocal, CleanRemote
          <5> QED
            BY <5>1, <5>2
        <4> QED
          BY <4>1, <1>h
      <3> QED
        BY <3>1, <3>2
    <2> QED
      BY <2>1, CountedIdle
  <1>7. CASE ReadRemote(o)
    <2>1. CASE Goto(o, Idle)
      BY <2>1, <1>h, <1>i, CountedIdle
    <2>2. CASE ~Goto(o, Idle)
      <3>1. /\ task[o].stage = "read"
            /\ task'[o] = [stage |-> "judge", block |-> task[o].block,
                           heard |-> Heard(o, task[o].block, task[o].end)]
            /\ local' = local /\ remote' = remote
        BY <1>7, <2>2, <1>h DEF ReadRemote
      <3>2. PICK r \in local[o] : /\ r.block = task[o].block
                                  /\ task[o].end = r.time + CollectWindow
        BY <3>1 DEF IPointed, Pointed
      <3>3. \A m \in remote[o] :
              m.block = task[o].block /\ m.nonce <= r.time + CollectWindow
                => m \in Heard(o, task[o].block, task[o].end)
        BY <3>2 DEF Heard
      <3>4. Heard(o, task[o].block, task[o].end) \subseteq remote[o]
        BY DEF Heard
      <3> QED
        BY <3>1, <3>2, <3>3, <3>4 DEF Counted
    <2> QED
      BY <2>1, <2>2
  <1> QED
    BY <1>1, <1>2, <1>3, <1>4, <1>5, <1>6, <1>7 DEF Next, LoopStep, CompareStep

\* The clean-up deletes no countable message unread, except those that came
\* after all that were counted.
THEOREM NoneButLatecomersLost == Spec => []OnlyLatecomersUncounted
  <1>1. Init => IPointed /\ ICounted
    BY DEF Init, AllIdle, Idle, IPointed, Pointed, ICounted, Counted
  <1>2. ICounted => OnlyLatecomersUncounted
    BY DEF ICounted, Counted, OnlyLatecomersUncounted, RowsAt
  <1> QED
    BY <1>1, <1>2, TypeInit, TypeStep, PointedStep, CountedStep, PTL DEF Spec

-----------------------------------------------------------------------------
(* What a verdict says *)

\* The messages of a deployment are told apart by their rowids.
Stored(d) ==
  /\ IsFiniteSet(remote[d])
  /\ \A m, n \in remote[d] : m.rowid = n.rowid => m = n

IStored == \A d \in Deployments : Stored(d)

LEMMA StoredStep == TypeOK /\ IStored /\ [Next]_vars => IStored'
  <1> SUFFICES ASSUME TypeOK, IStored, [Next]_vars, NEW o \in Deployments
               PROVE  Stored(o)'
    BY DEF IStored
  <1>p. IsFiniteSet(remote[o]) /\ \A m, n \in remote[o] : m.rowid = n.rowid => m = n
    BY DEF IStored, Stored
  <1>l. ASSUME remote'[o] \in SUBSET remote[o] PROVE Stored(o)'
    <2>1. IsFiniteSet(remote'[o])
      BY <1>l, <1>p, FS_Subset
    <2> QED
      BY <1>l, <1>p, <2>1 DEF Stored
  <1>1. CASE UNCHANGED vars \/ Tick \/ LoopStep
    BY <1>1, <1>l DEF vars, Tick, LoopStep, StartGossip, EndGossip, StartCompare,
       CompareOf, EndCompare, EndResults
  <1>2. CASE Restart
    <2>1. remote'[o] = remote[o] \/ remote'[o] = {}
      BY <1>2 DEF Restart
    <2> QED
      BY <2>1, <1>l
  <1>3. ASSUME NEW d \in Deployments,
               AdvanceHead(d) \/ RecordResult(d) \/ LoseResult(d)
        PROVE  Stored(o)'
    BY <1>3, <1>l DEF AdvanceHead, RecordResult, LoseResult
  <1>4. ASSUME NEW d \in Deployments, Receive(d) PROVE Stored(o)'
    <2>1. PICK i \in 1..MaxRowid, s \in Senders, b \in Blocks, x \in Ppois,
               n \in 0..clock :
            /\ IsNextRowid(d, i)
            /\ remote' = [remote EXCEPT ![d] = @ \cup
                 {[rowid |-> i, sender |-> s, block |-> b, ppoi |-> x, nonce |-> n]}]
      BY <1>4 DEF Receive
    <2> DEFINE new == [rowid |-> i, sender |-> s, block |-> b, ppoi |-> x, nonce |-> n]
    <2>2. CASE d # o
      BY <2>1, <2>2, <1>l DEF TypeOK
    <2>3. CASE d = o
      <3>1. remote'[o] = remote[o] \cup {new}
        BY <2>1, <2>3 DEF TypeOK
      <3>2. new.rowid = i
        OBVIOUS
      <3> HIDE DEF new
      <3>3. \A h \in remote[o] : h.rowid < i
        BY <2>1, <2>3 DEF IsNextRowid
      <3>4. \A h \in remote[o] : h.rowid # i
        <4>1. \A h \in remote[o] : h.rowid \in Nat
          BY DEF TypeOK, Message
        <4>2. i \in Nat
          OBVIOUS
        <4> QED
          BY <3>3, <4>1, <4>2
      <3>5. IsFiniteSet(remote[o] \cup {new})
        BY <1>p, FS_AddElement
      <3> QED
        BY <1>p, <3>1, <3>2, <3>4, <3>5 DEF Stored
    <2> QED
      BY <2>2, <2>3
  <1>5. ASSUME NEW d \in Deployments, GossipStep(d) \/ CompareStep(d)
        PROVE  Stored(o)'
    <2>1. CASE d # o \/ ~CleanRemote(d)
      BY <1>5, <2>1, RemoteUntouched, <1>l
    <2>2. CASE d = o /\ CleanRemote(d)
      BY <2>2, <1>l DEF CleanRemote, DeleteRemote, TypeOK
    <2> QED
      BY <2>1, <2>2
  <1> QED
    BY <1>1, <1>2, <1>3, <1>4, <1>5 DEF Next

\* The messages in the order of their rowids are a sequence of just them.
LEMMA RowOrder ==
  ASSUME NEW h, IsFiniteSet(h), \A m \in h : m.rowid \in Nat,
         \A m, n \in h : m.rowid = n.rowid => m = n
  PROVE  InRowOrder(h) \in Seq(h) /\ ToSet(InRowOrder(h)) = h
  <1> DEFINE R == {p \in h \X h : p[1].rowid < p[2].rowid}
             c == Cardinality(h)
  <1>1. \A m, n \in h : <<m, n>> \in R <=> m.rowid < n.rowid
    OBVIOUS
  <1> HIDE DEF R
  <1>2. Orders(R, h)
    <2>1. \A a \in h : <<a, a>> \notin R
      BY <1>1
    <2>2. \A a, b \in h : a # b => <<a, b>> \in R \/ <<b, a>> \in R
      <3> SUFFICES ASSUME NEW a \in h, NEW b \in h, a # b
                   PROVE  a.rowid < b.rowid \/ b.rowid < a.rowid
        BY <1>1
      <3>1. a.rowid \in Nat /\ b.rowid \in Nat /\ a.rowid # b.rowid
        OBVIOUS
      <3> QED
        BY <3>1
    <2>3. \A a, b, e \in h : <<a, b>> \in R /\ <<b, e>> \in R => <<a, e>> \in R
      <3> SUFFICES ASSUME NEW a \in h, NEW b \in h, NEW e \in h,
                          a.rowid < b.rowid, b.rowid < e.rowid
                   PROVE  a.rowid < e.rowid
        BY <1>1
      <3>1. a.rowid \in Nat /\ b.rowid \in Nat /\ e.rowid \in Nat
        OBVIOUS
      <3> QED
        BY <3>1
    <2> QED
      BY <2>1, <2>2, <2>3 DEF Orders
  <1>3. \A m \in h : RowPlace(h, m) = Rank(h, R, m)
    <2> SUFFICES ASSUME NEW m \in h PROVE RowPlace(h, m) = Rank(h, R, m)
      OBVIOUS
    <2>1. {n \in h : n.rowid < m.rowid} = {n \in h : <<n, m>> \in R}
      BY <1>1
    <2> QED
      BY <2>1 DEF RowPlace, Rank
  <1>4. /\ \A m \in h : Rank(h, R, m) \in 1..c
        /\ \A m, n \in h : Rank(h, R, m) = Rank(h, R, n) => m = n
        /\ \A k \in 1..c : \E m \in h : Rank(h, R, m) = k
    BY <1>2, Ranked
  <1>5. /\ \A m \in h : RowPlace(h, m) \in 1..c
        /\ \A m, n \in h : RowPlace(h, m) = RowPlace(h, n) => m = n
        /\ \A k \in 1..c : \E m \in h : RowPlace(h, m) = k
    BY <1>3, <1>4
  <1> DEFINE s == InRowOrder(h)
  <1>6. c \in Nat
    BY FS_CardinalityType
  <1> HIDE DEF c
  <1>7. s = [k \in 1..c |-> CHOOSE m \in h : RowPlace(h, m) = k]
    BY DEF InRowOrder, c
  <1>8. \A k \in 1..c : s[k] \in h /\ RowPlace(h, s[k]) = k
    BY <1>5, <1>7
  <1>9. s \in [1..c -> h]
    BY <1>7, <1>8
  <1>10. s \in Seq(h) /\ Len(s) = c
    BY <1>6, <1>9, FunctionIsSeq
  <1>11. \A m \in h : \E k \in 1..c : s[k] = m
    <2> SUFFICES ASSUME NEW m \in h PROVE s[RowPlace(h, m)] = m
      BY <1>5
    <2>1. RowPlace(h, m) \in 1..c
      BY <1>5
    <2>2. s[RowPlace(h, m)] \in h /\ RowPlace(h, s[RowPlace(h, m)]) = RowPlace(h, m)
      BY <1>8, <2>1
    <2> QED
      BY <1>5, <2>2
  <1>12. ToSet(s) = {s[k] : k \in 1..c}
    <2>1. DOMAIN s = 1..c
      BY <1>7
    <2> QED
      BY <2>1 DEF ToSet
  <1> HIDE DEF s
  <1>13. ToSet(s) = h
    BY <1>8, <1>11, <1>12
  <1> QED
    BY <1>10, <1>13 DEF s

\* The verdict on messages that are told apart by their rowids has a witness
\* among them.
LEMMA VerdictOfMessages ==
  ASSUME NEW h \in SUBSET Message, IsFiniteSet(h),
         \A m, n \in h : m.rowid = n.rowid => m = n, NEW x
  PROVE  /\ Verdict(x, h) = "Match" => \E m \in h : m.ppoi = x
         /\ Verdict(x, h) = "Divergent" => \E m \in h : m.ppoi # x
         /\ Verdict(x, h) = "NotFound" => h = {}
  <1>1. \A m \in h : Speaks(m) /\ m.rowid \in Nat
    BY DEF Message, Speaks
  <1> DEFINE ms == InRowOrder(h)
  <1>2. ms \in Seq(h) /\ ToSet(ms) = h
    BY <1>1, RowOrder
  <1> HIDE DEF ms
  <1>3. LET v == compare_attestations(x, process_ppoi_message(ms)) IN
         /\ v = "NotFound" <=> ToSet(ms) = {}
         /\ v = "Match" => \E m \in ToSet(ms) : m.ppoi = x
         /\ v = "Divergent" => \E m \in ToSet(ms) : m.ppoi # x
    BY <1>1, <1>2, VerdictWitness
  <1>4. Verdict(x, h) = compare_attestations(x, process_ppoi_message(ms))
    BY DEF Verdict, ms
  <1> QED
    BY <1>2, <1>3, <1>4

\* A message of the block came too late, and all that were in time came later.
TooLate(d, b, end) ==
  \E l \in remote[d] :
    /\ l.block = b
    /\ ~(l.nonce <= end)
    /\ \A m \in Heard(d, b, end) : l.rowid < m.rowid

\* What a comparison rests on: a message of its block, then messages of the
\* block that were made within the window of a row, or one that came too late.
Evident(d) ==
  /\ task[d].stage = "read" => \E m \in remote[d] : m.block = task[d].block
  /\ task[d].stage = "judge" =>
       \E o \in RowsAt(d, task[d].block) :
         LET end == o.time + CollectWindow IN
         /\ clock >= end
         /\ task[d].heard \subseteq Heard(d, task[d].block, end)
         /\ task[d].heard = {} => TooLate(d, task[d].block, end)
  /\ task[d].stage = "join" =>
       \E r, o \in RowsAt(d, task[d].block) :
         LET end == o.time + CollectWindow
             made == Heard(d, task[d].block, end)
         IN /\ clock >= end
            /\ outcome[d].type = "Match" => \E m \in made : m.ppoi = r.ppoi
            /\ outcome[d].type = "Divergent" => \E m \in made : m.ppoi # r.ppoi
            /\ outcome[d].type = "NotFound" => TooLate(d, task[d].block, end)

IEvident == \A d \in Deployments : Evident(d)

LEMMA EvidentImplies == IEvident => VerdictHasEvidence
  <1> SUFFICES ASSUME NEW d \in Deployments, task[d].stage = "join", Evident(d)
               PROVE  \E r, o \in RowsAt(d, task[d].block) :
                        LET said == {m \in remote[d] : m.block = task[d].block}
                            made == {m \in said : m.nonce <= o.time + CollectWindow}
                        IN /\ clock >= o.time + CollectWindow
                           /\ outcome[d].type = "Match" => \E m \in made : m.ppoi = r.ppoi
                           /\ outcome[d].type = "Divergent" => \E m \in made : m.ppoi # r.ppoi
                           /\ outcome[d].type = "NotFound" =>
                                \E l \in said \ made : \A m \in made : l.rowid < m.rowid
    BY DEF IEvident, VerdictHasEvidence
  <1> DEFINE b == task[d].block
             said == {m \in remote[d] : m.block = b}
             made(o) == {m \in said : m.nonce <= o.time + CollectWindow}
  <1>1. PICK r \in RowsAt(d, b), o \in RowsAt(d, b) :
          /\ clock >= o.time + CollectWindow
          /\ outcome[d].type = "Match" =>
               \E m \in Heard(d, b, o.time + CollectWindow) : m.ppoi = r.ppoi
          /\ outcome[d].type = "Divergent" =>
               \E m \in Heard(d, b, o.time + CollectWindow) : m.ppoi # r.ppoi
          /\ outcome[d].type = "NotFound" => TooLate(d, b, o.time + CollectWindow)
    BY DEF Evident
  <1>2. made(o) = Heard(d, b, o.time + CollectWindow)
    BY DEF Heard
  <1>3. TooLate(d, b, o.time + CollectWindow) =>
          \E l \in said \ made(o) : \A m \in made(o) : l.rowid < m.rowid
    <2> SUFFICES ASSUME TooLate(d, b, o.time + CollectWindow)
                 PROVE  \E l \in said \ made(o) : \A m \in made(o) : l.rowid < m.rowid
      OBVIOUS
    <2>1. PICK l \in remote[d] :
            /\ l.block = b
            /\ ~(l.nonce <= o.time + CollectWindow)
            /\ \A m \in Heard(d, b, o.time + CollectWindow) : l.rowid < m.rowid
      BY DEF TooLate
    <2>2. l \in said \ made(o)
      BY <2>1
    <2> QED
      BY <1>2, <2>1, <2>2
  <1>4. /\ clock >= o.time + CollectWindow
        /\ outcome[d].type = "Match" => \E m \in made(o) : m.ppoi = r.ppoi
        /\ outcome[d].type = "Divergent" => \E m \in made(o) : m.ppoi # r.ppoi
        /\ outcome[d].type = "NotFound" =>
             \E l \in said \ made(o) : \A m \in made(o) : l.rowid < m.rowid
    <2> HIDE DEF said, made
    <2> QED
      BY <1>1, <1>2, <1>3
  <1> QED
    BY <1>4

\* More messages do not take away what was said, if they get a later rowid.
LEMMA HeardGrows ==
  ASSUME NEW o \in Deployments, NEW b, NEW end,
         remote[o] \subseteq remote'[o],
         \A m \in remote'[o] \ remote[o] : \A h \in remote[o] : h.rowid < m.rowid
  PROVE  /\ Heard(o, b, end) \subseteq Heard(o, b, end)'
         /\ TooLate(o, b, end) => TooLate(o, b, end)'
  <1>1. Heard(o, b, end) \subseteq Heard(o, b, end)'
    BY DEF Heard
  <1>2. ASSUME TooLate(o, b, end) PROVE TooLate(o, b, end)'
    <2>1. PICK l \in remote[o] :
            /\ l.block = b
            /\ ~(l.nonce <= end)
            /\ \A m \in Heard(o, b, end) : l.rowid < m.rowid
      BY <1>2 DEF TooLate
    <2>2. \A m \in Heard(o, b, end)' : l.rowid < m.rowid
      <3> SUFFICES ASSUME NEW m \in Heard(o, b, end)' PROVE l.rowid < m.rowid
        OBVIOUS
      <3>1. CASE m \in remote[o]
        <4> m \in Heard(o, b, end)
          BY <3>1 DEF Heard
        <4> QED
          BY <2>1
      <3>2. CASE m \notin remote[o]
        <4> m \in remote'[o] \ remote[o]
          BY <3>2 DEF Heard
        <4> QED
          OBVIOUS
      <3> QED
        BY <3>1, <3>2
    <2> QED
      BY <2>1, <2>2 DEF TooLate
  <1> QED
    BY <1>1, <1>2

\* Evident(o) does not mind more rows and a later clock, nor messages that get a
\* later rowid.
LEMMA EvidentKept ==
  ASSUME TypeOK, NEW o \in Deployments, Evident(o), clock' \in {clock, clock + 1},
         task'[o] = task[o], outcome'[o] = outcome[o],
         local[o] \subseteq local'[o], remote[o] \subseteq remote'[o],
         \A m \in remote'[o] \ remote[o] : \A h \in remote[o] : h.rowid < m.rowid
  PROVE  Evident(o)'
  <1>1. PICK b : b = task[o].block
    OBVIOUS
  <1>2. b = task'[o].block /\ task'[o].stage = task[o].stage
        /\ task'[o].heard = task[o].heard
    BY <1>1
  <1>3. /\ \A end : Heard(o, b, end) \subseteq Heard(o, b, end)'
        /\ \A end : TooLate(o, b, end) => TooLate(o, b, end)'
    BY HeardGrows
  <1>4. /\ RowsAt(o, b) \subseteq RowsAt(o, b)'
        /\ \A e \in RowsAt(o, b) :
             clock >= e.time + CollectWindow => clock' >= e.time + CollectWindow
    <2>1. \A e \in RowsAt(o, b) : e.time + CollectWindow \in Nat
      BY WindowAssumption DEF TypeOK, RowsAt, Row
    <2>2. clock \in Nat
      BY DEF TypeOK
    <2> QED
      BY <2>1, <2>2 DEF RowsAt
  <1>5. CASE task[o].stage = "read"
    BY <1>1, <1>2, <1>5 DEF Evident
  <1>6. CASE task[o].stage = "judge"
    <2>1. PICK e \in RowsAt(o, b) :
            /\ clock >= e.time + CollectWindow
            /\ task[o].heard \subseteq Heard(o, b, e.time + CollectWindow)
            /\ task[o].heard = {} => TooLate(o, b, e.time + CollectWindow)
      BY <1>1, <1>6 DEF Evident
    <2>2. e \in RowsAt(o, b)' /\ clock' >= e.time + CollectWindow
      BY <1>4, <2>1
    <2>3. /\ task'[o].heard \subseteq Heard(o, b, e.time + CollectWindow)'
          /\ task'[o].heard = {} => TooLate(o, b, e.time + CollectWindow)'
      BY <1>2, <1>3, <2>1
    <2> QED
      BY <1>2, <1>6, <2>2, <2>3 DEF Evident
  <1>7. CASE task[o].stage = "join"
    <2>1. PICK r \in RowsAt(o, b), e \in RowsAt(o, b) :
            LET made == Heard(o, b, e.time + CollectWindow)
            IN /\ clock >= e.time + CollectWindow
               /\ outcome[o].type = "Match" => \E m \in made : m.ppoi = r.ppoi
               /\ outcome[o].type = "Divergent" => \E m \in made : m.ppoi # r.ppoi
               /\ outcome[o].type = "NotFound" => TooLate(o, b, e.time + CollectWindow)
      BY <1>1, <1>7 DEF Evident
    <2>2. r \in RowsAt(o, b)' /\ e \in RowsAt(o, b)' /\ clock' >= e.time + CollectWindow
      BY <1>4, <2>1
    <2>3. LET made == Heard(o, b, e.time + CollectWindow)'
          IN /\ outcome'[o].type = "Match" => \E m \in made : m.ppoi = r.ppoi
             /\ outcome'[o].type = "Divergent" => \E m \in made : m.ppoi # r.ppoi
             /\ outcome'[o].type = "NotFound" => TooLate(o, b, e.time + CollectWindow)'
      BY <1>3, <2>1
    <2> QED
      BY <1>2, <1>7, <2>2, <2>3 DEF Evident
  <1> QED
    BY <1>2, <1>5, <1>6, <1>7 DEF Evident

LEMMA EvidentIdle ==
  ASSUME NEW o \in Deployments,
         task'[o].stage \notin {"read", "judge", "join"}
  PROVE  Evident(o)'
  BY DEF Evident

LEMMA EvidentStep ==
  TypeOK /\ IStored /\ IPointed /\ IEvident /\ [Next]_vars => IEvident'
  <1> SUFFICES ASSUME TypeOK, IStored, IPointed, IEvident, [Next]_vars,
                      NEW o \in Deployments
               PROVE  Evident(o)'
    BY DEF IEvident
  <1>p. Evident(o)
    BY DEF IEvident
  <1>i. Idle.stage = "idle"
    BY DEF Idle
  <1>h. ASSUME NEW t, Goto(o, t) PROVE task'[o] = t
    BY <1>h DEF Goto, TypeOK
  <1>0. CASE Goto(o, Idle)
    BY <1>0, <1>h, <1>i, EvidentIdle
  <1>1. CASE UNCHANGED vars \/ Tick \/ EndGossip \/ EndCompare
    BY <1>1, <1>p, EvidentKept DEF vars, Tick, EndGossip, EndCompare
  <1>2. CASE StartGossip \/ StartCompare \/ Restart
    <2>1. task'[o].stage \in {"idle", "check", "point"}
      BY <1>2, <1>i DEF StartGossip, StartCompare, CompareOf, Restart, AllIdle
    <2> QED
      BY <2>1, EvidentIdle
  <1>3. ASSUME NEW d \in Deployments,
               EndResults \/ RecordResult(d) \/ LoseResult(d)
        PROVE  Evident(o)'
    <2>1. task'[o].stage = "idle"
      BY <1>3, <1>i DEF TypeOK, AllIdle, EndResults, RecordResult, LoseResult
    <2> QED
      BY <2>1, EvidentIdle
  <1>4. ASSUME NEW d \in Deployments, AdvanceHead(d) PROVE Evident(o)'
    BY <1>4, <1>p, EvidentKept DEF AdvanceHead
  <1>5. ASSUME NEW d \in Deployments, Receive(d) PROVE Evident(o)'
    <2>1. PICK i \in 1..MaxRowid, s \in Senders, b \in Blocks, x \in Ppois,
               n \in 0..clock :
            /\ IsNextRowid(d, i)
            /\ remote' = [remote EXCEPT ![d] = @ \cup
                 {[rowid |-> i, sender |-> s, block |-> b, ppoi |-> x, nonce |-> n]}]
      BY <1>5 DEF Receive
    <2>2. remote[o] \subseteq remote'[o]
      BY <2>1 DEF TypeOK
    <2>3. \A m \in remote'[o] \ remote[o] : \A h \in remote[o] : h.rowid < m.rowid
      <3>1. \A m \in remote'[o] \ remote[o] : d = o /\ m.rowid = i
        BY <2>1 DEF TypeOK
      <3>2. \A h \in remote[d] : h.rowid < i
        BY <2>1 DEF IsNextRowid
      <3> QED
        BY <3>1, <3>2
    <2> QED
      BY <1>5, <2>2, <2>3, <1>p, EvidentKept DEF Receive
  <1>6. ASSUME NEW d \in Deployments, d # o, GossipStep(d) \/ CompareStep(d)
        PROVE  Evident(o)'
    <2>1. remote'[o] = remote[o]
      BY <1>6, RemoteUntouched
    <2>2. task'[o] = task[o] /\ local'[o] = local[o] /\ outcome'[o] = outcome[o]
      BY <1>6, OthersUntouched
    <2>3. clock' = clock
      BY <1>6 DEF GossipStep, CompareStep, CheckDuplicate, SendPoi, SaveLocal,
                  ChoosePoint, ReadRemote, Judge, CleanLocal, CleanRemote
    <2> QED
      BY <2>1, <2>2, <2>3, <1>p, EvidentKept
  <1>7. CASE ~Goto(o, Idle) /\ (GossipStep(o) \/ CleanLocal(o) \/ CleanRemote(o))
    <2>1. PICK t : Goto(o, t) /\ t.stage \notin {"read", "judge", "join"}
      <3>1. CASE SendPoi(o)
        <4>1. PICK r : Goto(o, [stage |-> "save", row |-> r])
          BY <1>7, <3>1 DEF SendPoi
        <4> DEFINE t == [stage |-> "save", row |-> r]
        <4>2. Goto(o, t) /\ t.stage \notin {"read", "judge", "join"}
          BY <4>1
        <4> HIDE DEF t
        <4> QED
          BY <4>2
      <3>2. CASE ~SendPoi(o)
        BY <1>7, <3>2 DEF GossipStep, CheckDuplicate, SaveLocal, CleanLocal, CleanRemote
      <3> QED
        BY <3>1, <3>2
    <2> QED
      BY <2>1, <1>h, EvidentIdle
  <1>8. CASE ~Goto(o, Idle) /\ ChoosePoint(o)
    <2> DEFINE p == ComparisonPoint(o)
               t == [stage |-> "read", block |-> p.block, end |-> p.time + CollectWindow]
    <2>1. Answered(o) # {} /\ Goto(o, t) /\ remote' = remote
      BY <1>8 DEF ChoosePoint
    <2>2. p \in Answered(o)
      BY <2>1, PointIsAnswered
    <2>3. t.stage = "read" /\ t.block = p.block
      OBVIOUS
    <2> HIDE DEF p, t
    <2>4. task'[o].stage = "read" /\ task'[o].block = p.block
      BY <2>1, <2>3, <1>h
    <2>5. \E m \in remote'[o] : m.block = p.block
      BY <2>1, <2>2 DEF Answered
    <2> QED
      BY <2>4, <2>5 DEF Evident
  <1>9. CASE ~Goto(o, Idle) /\ ReadRemote(o)
    <2> DEFINE h == Heard(o, task[o].block, task[o].end)
               t == [stage |-> "judge", block |-> task[o].block, heard |-> h]
    <2>1. /\ task[o].stage = "read" /\ Goto(o, t)
          /\ local' = local /\ remote' = remote /\ clock' = clock
      BY <1>9 DEF ReadRemote
    <2>2. t.stage = "judge" /\ t.block = task[o].block /\ t.heard = h
      OBVIOUS
    <2> HIDE DEF t
    <2>3. /\ task'[o].stage = "judge" /\ task'[o].block = task[o].block
          /\ task'[o].heard = h
      BY <2>1, <2>2, <1>h
    <2>4. PICK r \in local[o] : /\ r.block = task[o].block
                                /\ task[o].end = r.time + CollectWindow
                                /\ clock >= r.time + CollectWindow
      BY <2>1 DEF IPointed, Pointed
    <2>5. PICK m \in remote[o] : m.block = task[o].block
      BY <2>1, <1>p DEF Evident
    <2>6. PICK b, e : b = task[o].block /\ e = task[o].end
      OBVIOUS
    <2>7. r \in RowsAt(o, b)'
      BY <2>1, <2>4, <2>6 DEF RowsAt
    <2>8. h = Heard(o, b, e)'
      BY <2>1, <2>6 DEF Heard
    <2>9. h = {} => TooLate(o, b, e)'
      BY <2>1, <2>5, <2>6 DEF Heard, TooLate
    <2>10. e = r.time + CollectWindow /\ task'[o].block = b /\ clock' >= e
      BY <2>1, <2>3, <2>4, <2>6
    <2> HIDE DEF h
    <2> QED
      BY <2>3, <2>7, <2>8, <2>9, <2>10 DEF Evident
  <1>10. CASE ~Goto(o, Idle) /\ Judge(o)
    <2>1. PICK b : b = task[o].block
      OBVIOUS
    <2>2. PICK h : h = task[o].heard
      OBVIOUS
    <2>3. PICK r \in RowsAt(o, b) :
            outcome' = [outcome EXCEPT ![o] = [block |-> b, type |-> Verdict(r.ppoi, h)]]
      BY <1>10, <2>1, <2>2 DEF Judge
    <2>4. /\ task[o].stage = "judge" /\ Goto(o, [stage |-> "join", block |-> b])
          /\ local' = local /\ remote' = remote /\ clock' = clock
      BY <1>10, <2>1 DEF Judge
    <2>5. task'[o].stage = "join" /\ task'[o].block = b
      BY <2>4, <1>h
    <2>6. outcome'[o].type = Verdict(r.ppoi, h)
      BY <2>3 DEF TypeOK
    <2>7. PICK e \in RowsAt(o, b) :
            /\ clock >= e.time + CollectWindow
            /\ h \subseteq Heard(o, b, e.time + CollectWindow)
            /\ h = {} => TooLate(o, b, e.time + CollectWindow)
      BY <1>p, <2>1, <2>2, <2>4 DEF Evident
    <2>8. h \in SUBSET Message /\ h \in SUBSET remote[o]
      <3>1. h \in SUBSET remote[o]
        BY <2>7 DEF Heard
      <3>2. remote[o] \in SUBSET Message
        BY DEF TypeOK
      <3> QED
        BY <3>1, <3>2
    <2>9. IsFiniteSet(h) /\ \A m, n \in h : m.rowid = n.rowid => m = n
      <3>1. IsFiniteSet(remote[o]) /\ \A m, n \in remote[o] : m.rowid = n.rowid => m = n
        BY DEF IStored, Stored
      <3> QED
        BY <2>8, <3>1, FS_Subset
    <2>10. /\ Verdict(r.ppoi, h) = "Match" => \E m \in h : m.ppoi = r.ppoi
           /\ Verdict(r.ppoi, h) = "Divergent" => \E m \in h : m.ppoi # r.ppoi
           /\ Verdict(r.ppoi, h) = "NotFound" => h = {}
      BY <2>8, <2>9, VerdictOfMessages
    <2>11. /\ r \in RowsAt(o, b)' /\ e \in RowsAt(o, b)'
           /\ clock' >= e.time + CollectWindow
      BY <2>3, <2>4, <2>7 DEF RowsAt
    <2>12. /\ h \subseteq Heard(o, b, e.time + CollectWindow)'
           /\ h = {} => TooLate(o, b, e.time + CollectWindow)'
      BY <2>4, <2>7 DEF Heard, TooLate
    <2> QED
      BY <2>5, <2>6, <2>10, <2>11, <2>12 DEF Evident
  <1> QED
    BY <1>0, <1>1, <1>2, <1>3, <1>4, <1>5, <1>6, <1>7, <1>8, <1>9, <1>10
    DEF Next, LoopStep, CompareStep

\* A verdict says what was said: Match and Divergent have a message made within
\* the window to show for it, and NotFound means that the block was answered
\* too late, whatever arrives while the comparison is under way.
THEOREM VerdictsEvident == Spec => []VerdictHasEvidence
  <1>1. Init => IPointed /\ IStored /\ IEvident
    <2> SUFFICES ASSUME Init, NEW d \in Deployments
                 PROVE  Pointed(d) /\ Stored(d) /\ Evident(d)
      BY DEF IPointed, IStored, IEvident
    <2>1. task[d].stage = "idle" /\ remote[d] = {}
      BY DEF Init, AllIdle, Idle
    <2> QED
      BY <2>1, FS_EmptySet DEF Pointed, Stored, Evident
  <1> QED
    BY <1>1, EvidentImplies, TypeInit, TypeStep, PointedStep, StoredStep,
       EvidentStep, PTL DEF Spec

-----------------------------------------------------------------------------
(* The results *)

\* A comparison that is being cleaned up has a verdict of its block.
Decided(d) ==
  task[d].stage \in {"join", "clean"} =>
    outcome[d] # NoResult /\ outcome[d].block = task[d].block

IDecided == \A d \in Deployments : Decided(d)

LEMMA DecidedStep == TypeOK /\ IDecided /\ [Next]_vars => IDecided'
  <1> SUFFICES ASSUME TypeOK, IDecided, [Next]_vars, NEW o \in Deployments
               PROVE  Decided(o)'
    BY DEF IDecided
  <1>p. Decided(o)
    BY DEF IDecided
  <1>i. Idle.stage = "idle"
    BY DEF Idle
  <1>h. ASSUME NEW t, Goto(o, t) PROVE task'[o] = t
    BY <1>h DEF Goto, TypeOK
  <1>1. CASE UNCHANGED vars \/ Tick \/ EndGossip \/ EndCompare
    BY <1>1, <1>p DEF Decided, vars, Tick, EndGossip, EndCompare
  <1>2. CASE StartGossip \/ StartCompare \/ Restart
    <2>1. task'[o].stage \in {"idle", "check", "point"}
      BY <1>2, <1>i DEF StartGossip, StartCompare, CompareOf, Restart, AllIdle
    <2> QED
      BY <2>1 DEF Decided
  <1>3. ASSUME NEW d \in Deployments,
               EndResults \/ RecordResult(d) \/ LoseResult(d)
        PROVE  Decided(o)'
    <2>1. task'[o].stage = "idle"
      BY <1>3, <1>i DEF EndResults, RecordResult, LoseResult, TypeOK, AllIdle
    <2> QED
      BY <2>1 DEF Decided
  <1>4. ASSUME NEW d \in Deployments, AdvanceHead(d) \/ Receive(d)
        PROVE  Decided(o)'
    BY <1>4, <1>p DEF Decided, AdvanceHead, Receive
  <1>5. ASSUME NEW d \in Deployments, d # o, GossipStep(d) \/ CompareStep(d)
        PROVE  Decided(o)'
    BY <1>5, <1>p, OthersUntouched DEF Decided
  <1>6. CASE Judge(o)
    <2>1. CASE Goto(o, Idle)
      BY <2>1, <1>h, <1>i DEF Decided
    <2>2. CASE ~Goto(o, Idle)
      <3>1. PICK r \in RowsAt(o, task[o].block) :
              outcome' = [outcome EXCEPT ![o] =
                [block |-> task[o].block, type |-> Verdict(r.ppoi, task[o].heard)]]
        BY <1>6, <2>2 DEF Judge
      <3>2. outcome'[o] = [block |-> task[o].block,
                           type |-> Verdict(r.ppoi, task[o].heard)]
        BY <3>1 DEF TypeOK
      <3>3. outcome'[o].type # NoResult.type
        BY <3>2, VerdictType DEF NoResult, ResultType
      <3>4. task'[o] = [stage |-> "join", block |-> task[o].block]
        BY <1>6, <2>2, <1>h DEF Judge
      <3> QED
        BY <3>2, <3>3, <3>4 DEF Decided
    <2> QED
      BY <2>1, <2>2
  <1>7. CASE CleanLocal(o)
    <2>1. CASE Goto(o, Idle)
      BY <2>1, <1>h, <1>i DEF Decided
    <2>2. CASE ~Goto(o, Idle)
      <3>1. task'[o] = [stage |-> "clean", block |-> task[o].block]
        BY <1>7, <2>2, <1>h DEF CleanLocal
      <3>2. task[o].stage = "join" /\ outcome' = outcome
        BY <1>7 DEF CleanLocal
      <3> QED
        BY <3>1, <3>2, <1>p DEF Decided
    <2> QED
      BY <2>1, <2>2
  <1>8. CASE GossipStep(o) \/ ChoosePoint(o) \/ ReadRemote(o) \/ CleanRemote(o)
    <2>1. task'[o].stage \notin {"join", "clean"}
      <3>1. CASE Goto(o, Idle)
        BY <3>1, <1>h, <1>i
      <3>2. CASE SendPoi(o) /\ ~Goto(o, Idle)
        <4>1. PICK r : Goto(o, [stage |-> "save", row |-> r])
          BY <3>2 DEF SendPoi
        <4>2. task'[o] = [stage |-> "save", row |-> r]
          BY <4>1, <1>h
        <4> QED
          BY <4>2
      <3>3. CASE ~SendPoi(o) /\ ~Goto(o, Idle)
        <4>1. \/ task'[o] = [stage |-> "send", block |-> task[o].block]
              \/ \E b, e : task'[o] = [stage |-> "read", block |-> b, end |-> e]
              \/ \E b, e : task'[o] = [stage |-> "judge", block |-> b, heard |-> e]
          BY <1>8, <3>3, <1>h
          DEF GossipStep, CheckDuplicate, SaveLocal, ChoosePoint, ReadRemote,
              CleanRemote
        <4>2. CASE task'[o] = [stage |-> "send", block |-> task[o].block]
          BY <4>2
        <4>3. ASSUME NEW b, NEW e, task'[o] = [stage |-> "read", block |-> b, end |-> e]
              PROVE  task'[o].stage = "read"
          BY <4>3
        <4>4. ASSUME NEW b, NEW e, task'[o] = [stage |-> "judge", block |-> b, heard |-> e]
              PROVE  task'[o].stage = "judge"
          BY <4>4
        <4> QED
          BY <4>1, <4>2, <4>3, <4>4
      <3> QED
        BY <3>1, <3>2, <3>3
    <2> QED
      BY <2>1 DEF Decided
  <1> QED
    BY <1>1, <1>2, <1>3, <1>4, <1>5, <1>6, <1>7, <1>8 DEF Next, LoopStep, CompareStep

-----------------------------------------------------------------------------
(* The order of the results *)

\* Texts of one width are ordered as the numbers are.
LEMMA TextOrderOfSameWidth ==
  ASSUME SameWidth, NEW a \in Blocks, NEW b \in Blocks
  PROVE  TextLe(a, b) <=> a <= b
  BY DEF SameWidth, TextLe

\* Until a statement or a query fails, the blocks of a deployment are handled
\* from the oldest to the head: everything under way lies between the saved
\* result and the head, and when a result is ready to be saved, no row as old as
\* it is left.
Ordered(d) ==
  faults = 0 =>
    /\ results[d].block <= head[d]
    /\ \A r \in local[d] : results[d].block <= r.block /\ r.block <= head[d]
    /\ task[d].stage \in {"check", "send", "read", "judge"} =>
         results[d].block <= task[d].block /\ task[d].block <= head[d]
    /\ task[d].stage = "save" =>
         results[d].block <= task[d].row.block /\ task[d].row.block <= head[d]
    /\ task[d].stage \in {"join", "clean"} => outcome[d].block = task[d].block
    /\ outcome[d] # NoResult =>
         results[d].block <= outcome[d].block /\ outcome[d].block <= head[d]
    /\ outcome[d] # NoResult /\ task[d].stage \in {"clean", "idle"} =>
         \A r \in local[d] : outcome[d].block < r.block
    /\ task[d].stage \in {"point", "read", "judge"} => outcome[d] = NoResult

IOrdered == \A d \in Deployments : Ordered(d)

LEMMA BlockTypes ==
  ASSUME TypeOK, NEW d \in Deployments
  PROVE  /\ head[d] \in Nat /\ results[d].block \in Nat /\ outcome[d].block \in Nat
         /\ \A r \in local[d] : r.block \in Nat
  <1>1. \A r \in Result \cup {NoResult} : r.block \in Nat
    <2>1. \A r \in Result : r.block \in Blocks
      BY DEF Result
    <2>2. NoResult.block = 0
      BY DEF NoResult
    <2>3. \A r \in Result : r.block \in Nat
      BY <2>1, BlocksAssumption
    <2>4. NoResult.block \in Nat
      BY <2>2
    <2> QED
      BY <2>3, <2>4
  <1>2. \A r \in Row : r.block \in Nat
    BY BlocksAssumption DEF Row
  <1>3. head[d] \in Blocks
    BY DEF TypeOK
  <1>4. results[d] \in Result \cup {NoResult} /\ outcome[d] \in Result \cup {NoResult}
    BY DEF TypeOK
  <1>5. local[d] \subseteq Row
    BY DEF TypeOK
  <1> QED
    BY <1>1, <1>2, <1>3, <1>4, <1>5, BlocksAssumption

\* Ordered(o) does not mind a higher head and fewer rows.
LEMMA OrderedKept ==
  ASSUME TypeOK, TypeOK', NEW o \in Deployments, Ordered(o), faults = 0,
         task'[o] = task[o], local'[o] \subseteq local[o], head'[o] >= head[o],
         outcome'[o] = outcome[o], results'[o] = results[o]
  PROVE  Ordered(o)'
  <1>1. head[o] \in Nat /\ head'[o] \in Nat
    BY BlocksAssumption DEF TypeOK
  <1>2. task[o].stage \in {"check", "send", "read", "judge"} => task[o].block \in Nat
    BY StageOfPhase, TaskFields, BlocksAssumption
  <1>3. task[o].stage = "save" => task[o].row.block \in Nat
    BY StageOfPhase, TaskFields, BlocksAssumption DEF Row
  <1> QED
    BY <1>1, <1>2, <1>3, BlockTypes DEF Ordered

\* Nor a task that ends without an outcome, whatever it was doing.
LEMMA OrderedIdle ==
  ASSUME TypeOK, NEW o \in Deployments, Ordered(o), faults = 0,
         task'[o].stage \in {"idle", "point"}, outcome'[o] = NoResult,
         local'[o] \subseteq local[o], head'[o] = head[o],
         results'[o] = results[o]
  PROVE  Ordered(o)'
  BY BlockTypes DEF Ordered

LEMMA OrderedStep ==
  ASSUME SameWidth
  PROVE  TypeOK /\ IOrdered /\ [Next]_vars => IOrdered'
  <1> SUFFICES ASSUME TypeOK, IOrdered, [Next]_vars, NEW o \in Deployments, faults' = 0
               PROVE  Ordered(o)'
    BY DEF IOrdered, Ordered
  <1>p. Ordered(o)
    BY DEF IOrdered
  <1>t. TypeOK'
    BY TypeStep
  <1>f. faults = 0 /\ ~Fault
    BY NoFaultBefore
  <1>i. Idle.stage = "idle"
    BY DEF Idle
  <1>b. /\ head[o] \in Nat /\ results[o].block \in Nat /\ outcome[o].block \in Nat
        /\ \A r \in local[o] : r.block \in Nat
    BY BlockTypes
  <1>h. ASSUME NEW t, Goto(o, t) PROVE task'[o] = t
    BY <1>h DEF Goto, TypeOK
  <1>1. CASE UNCHANGED vars \/ Tick \/ EndGossip \/ EndCompare
    BY <1>1, <1>p, <1>t, <1>f, <1>b, OrderedKept DEF vars, Tick, EndGossip, EndCompare
  <1>2. CASE StartGossip
    <2>1. outcome[o] = NoResult /\ UNCHANGED <<local, head, outcome, results>>
      BY <1>2 DEF StartGossip, TypeOK, NoOutcome
    <2>2. task'[o] \in {Idle, [stage |-> "check", block |-> head[o]]}
      BY <1>2 DEF StartGossip
    <2>3. CASE task'[o] = Idle
      BY <2>1, <2>3, <1>i, <1>p, <1>f, OrderedIdle
    <2>4. CASE task'[o] = [stage |-> "check", block |-> head[o]]
      BY <2>1, <2>4, <1>p, <1>f, <1>b DEF Ordered
    <2> QED
      BY <2>2, <2>3, <2>4
  <1>3. CASE StartCompare
    <2>1. task'[o].stage \in {"idle", "point"}
      BY <1>3, <1>i DEF StartCompare, CompareOf
    <2>2. outcome[o] = NoResult
      BY <1>3 DEF StartCompare, CompareOf, TypeOK, NoOutcome
    <2> QED
      BY <1>3, <2>1, <2>2, <1>p, <1>f, OrderedIdle DEF StartCompare, CompareOf
  <1>4. CASE EndResults
    <2>1. task'[o].stage = "idle"
      BY <1>4, <1>i DEF EndResults, TypeOK, AllIdle
    <2> QED
      BY <1>4, <2>1, <1>p, <1>f, OrderedIdle DEF EndResults, NoOutcome
  <1>5. CASE Restart
    <2>1. task'[o].stage = "idle" /\ outcome'[o] = NoResult /\ head' = head
      BY <1>5, <1>i DEF Restart, AllIdle, NoOutcome
    <2>2. CASE UNCHANGED <<local, results>>
      BY <2>1, <2>2, <1>p, <1>f, OrderedIdle
    <2>3. CASE local'[o] = {} /\ results'[o] = NoResult
      BY <2>1, <2>3, <1>b DEF Ordered, NoResult
    <2> QED
      BY <1>5, <2>2, <2>3 DEF Restart, NoOutcome
  <1>6. ASSUME NEW d \in Deployments, AdvanceHead(d) PROVE Ordered(o)'
    <2>1. head'[o] >= head[o]
      BY <1>6, <1>b, BlocksAssumption DEF AdvanceHead, TypeOK
    <2> QED
      BY <1>6, <2>1, <1>p, <1>t, <1>f, OrderedKept DEF AdvanceHead
  <1>7. ASSUME NEW d \in Deployments, Receive(d) PROVE Ordered(o)'
    BY <1>7, <1>p, <1>t, <1>f, <1>b, OrderedKept DEF Receive
  <1>8. ASSUME NEW d \in Deployments, RecordResult(d) \/ LoseResult(d), d # o
        PROVE  Ordered(o)'
    <2>1. outcome'[o] = outcome[o] /\ results'[o] = results[o]
      BY <1>8 DEF RecordResult, LoseResult, TypeOK
    <2> QED
      BY <1>8, <2>1, <1>p, <1>t, <1>f, <1>b, OrderedKept DEF RecordResult, LoseResult
  <1>9. CASE RecordResult(o)
    <2>1. task[o].stage = "idle" /\ outcome[o] # NoResult
      BY <1>9, <1>i DEF RecordResult, TypeOK, AllIdle
    <2>2. /\ results'[o] = outcome[o] /\ outcome'[o] = NoResult
          /\ UNCHANGED <<task, local, head>>
      BY <1>9 DEF RecordResult, TypeOK
    <2>3. \A r \in local[o] : outcome[o].block <= r.block /\ r.block <= head[o]
      BY <2>1, <1>p, <1>f, <1>b DEF Ordered
    <2> QED
      BY <2>1, <2>2, <2>3, <1>p, <1>f DEF Ordered
  <1>10. CASE LoseResult(o)
    <2>1. task[o].stage = "idle" /\ outcome'[o] = NoResult
      BY <1>10, <1>i DEF LoseResult, TypeOK, AllIdle
    <2> QED
      BY <1>10, <2>1, <1>p, <1>f, OrderedIdle DEF LoseResult
  <1>11. ASSUME NEW d \in Deployments, d # o, GossipStep(d) \/ CompareStep(d)
         PROVE  Ordered(o)'
    BY <1>11, <1>p, <1>t, <1>f, <1>b, OthersUntouched, OrderedKept
  <1>12. ASSUME GossipStep(o) PROVE Ordered(o)'
    <2>1. outcome[o] = NoResult
      BY <1>12, StageOfPhase
      DEF GossipStep, CheckDuplicate, SendPoi, SaveLocal, TypeOK, NoOutcome
    <2>2. UNCHANGED <<head, outcome, results>>
      BY <1>12 DEF GossipStep, CheckDuplicate, SendPoi, SaveLocal
    <2>3. CASE CheckDuplicate(o)
      <3>1. CASE Goto(o, Idle)
        BY <3>1, <2>1, <2>2, <2>3, <1>h, <1>i, <1>p, <1>f, OrderedIdle
        DEF CheckDuplicate
      <3>2. CASE ~Goto(o, Idle)
        <4>1. /\ task[o].stage = "check" /\ local' = local
              /\ task'[o] = [stage |-> "send", block |-> task[o].block]
          BY <3>2, <2>3, <1>h DEF CheckDuplicate
        <4> QED
          BY <4>1, <2>1, <2>2, <1>p, <1>f DEF Ordered
      <3> QED
        BY <3>1, <3>2
    <2>4. CASE SendPoi(o)
      <3>1. PICK x \in Ppois :
              Goto(o, [stage |-> "save",
                       row |-> [block |-> task[o].block, ppoi |-> x, time |-> clock]])
        BY <2>4, <1>f DEF SendPoi
      <3>2. task[o].stage = "send" /\ local' = local
        BY <2>4 DEF SendPoi
      <3> QED
        BY <3>1, <3>2, <2>1, <2>2, <1>h, <1>p, <1>f DEF Ordered
    <2>5. CASE SaveLocal(o)
      <3>1. task[o].stage = "save" /\ task'[o].stage = "idle"
        BY <2>5, <1>h, <1>i DEF SaveLocal
      <3>2. local'[o] \subseteq local[o] \cup {task[o].row}
        BY <2>5 DEF SaveLocal, TypeOK
      <3> QED
        BY <3>1, <3>2, <2>1, <2>2, <1>p, <1>f DEF Ordered
    <2> QED
      BY <1>12, <2>3, <2>4, <2>5 DEF GossipStep
  <1>13. CASE ChoosePoint(o)
    <2>1. /\ task[o].stage = "point" /\ outcome[o] = NoResult
          /\ UNCHANGED <<local, head, outcome, results>>
      BY <1>13, <1>p, <1>f DEF ChoosePoint, Ordered
    <2>2. CASE Goto(o, Idle)
      BY <2>1, <2>2, <1>h, <1>i, <1>p, <1>f, OrderedIdle
    <2>3. CASE ~Goto(o, Idle)
      <3>1. /\ Answered(o) # {}
            /\ task'[o] = [stage |-> "read", block |-> ComparisonPoint(o).block,
                           end |-> ComparisonPoint(o).time + CollectWindow]
        BY <1>13, <2>3, <1>h DEF ChoosePoint
      <3>2. ComparisonPoint(o) \in local[o]
        BY <3>1, PointIsAnswered DEF Answered
      <3> QED
        BY <3>1, <3>2, <2>1, <1>p, <1>f DEF Ordered
    <2> QED
      BY <2>2, <2>3
  <1>14. CASE ReadRemote(o)
    <2>1. /\ task[o].stage = "read" /\ outcome[o] = NoResult
          /\ UNCHANGED <<local, head, outcome, results>>
      BY <1>14, <1>p, <1>f DEF ReadRemote, Ordered
    <2>2. task'[o] = [stage |-> "judge", block |-> task[o].block,
                      heard |-> Heard(o, task[o].block, task[o].end)]
      BY <1>14, <1>f, <1>h DEF ReadRemote
    <2> QED
      BY <2>1, <2>2, <1>p, <1>f DEF Ordered
  <1>15. CASE Judge(o)
    <2>1. /\ task[o].stage = "judge" /\ outcome[o] = NoResult
          /\ UNCHANGED <<local, head, results>>
      BY <1>15, <1>p, <1>f DEF Judge, Ordered
    <2>2. CASE RowsAt(o, task[o].block) = {}
      <3>1. task'[o].stage = "idle" /\ outcome' = outcome
        BY <1>15, <2>2, <1>f, <1>h, <1>i DEF Judge
      <3> QED
        BY <3>1, <2>1, <1>p, <1>f, OrderedIdle
    <2>3. CASE RowsAt(o, task[o].block) # {}
      <3>1. task'[o] = [stage |-> "join", block |-> task[o].block]
        BY <1>15, <2>3, <1>f, <1>h DEF Judge
      <3>2. outcome'[o].block = task[o].block
        BY <1>15, <2>3, <1>f DEF Judge, TypeOK
      <3> QED
        BY <3>1, <3>2, <2>1, <1>p, <1>f DEF Ordered
    <2> QED
      BY <2>2, <2>3
  <1>16. CASE CleanLocal(o)
    <2>1. /\ task[o].stage = "join" /\ outcome[o].block = task[o].block
          /\ UNCHANGED <<head, outcome, results>>
      BY <1>16, <1>p, <1>f DEF CleanLocal, Ordered
    <2>2. task'[o] = [stage |-> "clean", block |-> task[o].block]
      BY <1>16, <1>f, <1>h DEF CleanLocal
    <2>3. local'[o] = {r \in local[o] : ~TextLe(r.block, task[o].block)}
      BY <1>16, <1>f DEF CleanLocal, DeleteLocal, Outdated, TypeOK
    <2>4. task[o].block \in Blocks
      BY <2>1, StageOfPhase, TaskFields
    <2>5. \A r \in local'[o] : r \in local[o] /\ task[o].block < r.block
      <3>1. \A r \in local[o] : r.block \in Blocks
        BY DEF TypeOK, Row
      <3> QED
        <4> SUFFICES ASSUME NEW r \in local'[o] PROVE r \in local[o] /\ task[o].block < r.block
          OBVIOUS
        <4>1. r \in local[o] /\ ~TextLe(r.block, task[o].block)
          BY <2>3
        <4>2. r.block \in Blocks
          BY <4>1, <3>1
        <4>3. ~(r.block <= task[o].block)
          BY <4>1, <4>2, <2>4, TextOrderOfSameWidth
        <4>4. r.block \in Nat /\ task[o].block \in Nat
          BY <4>2, <2>4, BlocksAssumption
        <4>5. \A a, b \in Nat : ~(a <= b) => b < a
          OBVIOUS
        <4> QED
          BY <4>1, <4>3, <4>4, <4>5
    <2> QED
      BY <2>1, <2>2, <2>5, <1>p, <1>f DEF Ordered
  <1>17. CASE CleanRemote(o)
    <2>1. task[o].stage = "clean" /\ task'[o].stage = "idle"
      BY <1>17, <1>h, <1>i DEF CleanRemote
    <2>2. UNCHANGED <<local, head, outcome, results>>
      BY <1>17 DEF CleanRemote
    <2> QED
      BY <2>1, <2>2, <1>p, <1>f DEF Ordered
  <1> QED
    BY <1>1, <1>2, <1>3, <1>4, <1>5, <1>6, <1>7, <1>8, <1>9, <1>10, <1>11, <1>12,
       <1>13, <1>14, <1>15, <1>16, <1>17 DEF Next, LoopStep, CompareStep

LEMMA OrderedInit == Init => IOrdered
  <1> SUFFICES ASSUME Init, NEW d \in Deployments PROVE Ordered(d)
    BY DEF IOrdered
  <1>1. task[d].stage = "idle" /\ head[d] \in Nat
    BY BlocksAssumption DEF Init, AllIdle, Idle
  <1> QED
    BY <1>1 DEF Init, NoOutcome, NoResult, Ordered

LEMMA DecidedInit == Init => IDecided
  BY DEF Init, AllIdle, Idle, IDecided, Decided

\* What the proofs about other components build on.
LEMMA OrderedAlways ==
  ASSUME SameWidth
  PROVE  Spec => [](TypeOK /\ IOrdered /\ IDecided)
  BY TypeInit, TypeStep, OrderedInit, OrderedStep, DecidedInit, DecidedStep, PTL
     DEF Spec

\* Where all block numbers have the same number of digits, the result of a
\* deployment is never replaced by one of an older block, until a statement or
\* a query fails; without that, run TextOrderedBlocks shows that it may be.
THEOREM ResultsInOrder ==
  ASSUME SameWidth
  PROVE  Spec => ResultNeverOlder
  <1>2. TypeOK /\ IOrdered /\ [Next]_vars =>
          [\A d \in Deployments : faults' = 0 /\ results'[d] # NoResult
             => results[d].block <= results'[d].block]_vars
    <2> SUFFICES ASSUME TypeOK, IOrdered, Next, NEW d \in Deployments,
                        faults' = 0, results'[d] # NoResult
                 PROVE  results[d].block <= results'[d].block
      OBVIOUS
    <2>1. faults = 0 /\ Ordered(d) /\ results[d].block \in Nat
      BY NoFaultBefore, BlockTypes DEF IOrdered
    <2>2. \/ results'[d] = results[d]
          \/ results'[d] = outcome[d]
          \/ results'[d] = NoResult
      <3>1. results' = results \/ Restart \/ \E e \in Deployments : RecordResult(e)
        BY DEF Next, LoopStep, Tick, StartGossip, EndGossip, StartCompare, CompareOf,
               EndCompare, EndResults, AdvanceHead, Receive, GossipStep,
               CompareStep, LoseResult, CheckDuplicate, SendPoi, SaveLocal,
               ChoosePoint, ReadRemote, Judge, CleanLocal, CleanRemote
      <3> QED
        BY <3>1 DEF Restart, RecordResult, NoOutcome, TypeOK
    <2> QED
      BY <2>1, <2>2 DEF Ordered
  <1> QED
    BY <1>2, OrderedAlways, PTL DEF Spec, ResultNeverOlder

\* As long as nothing has failed, and all block numbers have the same number of
\* digits, no row as old as the judged block outlives its comparison tick.
THEOREM JudgedRowsGo ==
  ASSUME SameWidth
  PROVE  Spec => []NothingJudgedIsKept
  <1>2. TypeOK /\ IOrdered => NothingJudgedIsKept
    <2> SUFFICES ASSUME TypeOK, IOrdered, phase = "results", faults = 0,
                        NEW d \in Deployments
                 PROVE  \A r \in local[d] :
                          outcome[d] # NoResult => outcome[d].block < r.block
      BY DEF NothingJudgedIsKept
    <2>1. task[d].stage = "idle"
      BY DEF TypeOK, AllIdle, Idle
    <2> QED
      BY <2>1 DEF IOrdered, Ordered
  <1> QED
    BY <1>2, OrderedAlways, PTL

\* A row or message leaves the database only for a verdict of its deployment
\* that is at least as new, unless a restart empties an in-memory database;
\* where all block numbers have the same number of digits.
THEOREM EvidenceKeptForVerdict ==
  ASSUME SameWidth
  PROVE  Spec => EvidenceGoesWithVerdict
  <1>2. TypeOK /\ IDecided /\ [Next]_vars =>
          [crashes' = crashes =>
             \A d \in Deployments :
               \A r \in (local[d] \ local'[d]) \cup (remote[d] \ remote'[d]) :
                 outcome[d] # NoResult /\ r.block <= outcome[d].block]_vars
    <2> SUFFICES ASSUME TypeOK, IDecided, Next, crashes' = crashes,
                        NEW d \in Deployments,
                        NEW r \in (local[d] \ local'[d]) \cup (remote[d] \ remote'[d])
                 PROVE  outcome[d] # NoResult /\ r.block <= outcome[d].block
      OBVIOUS
    <2>b. r.block \in Blocks
      <3>1. \A x \in Row \cup Message : x.block \in Blocks
        BY DEF Row, Message
      <3>2. r \in Row \cup Message
        BY DEF TypeOK
      <3> QED
        BY <3>1, <3>2
    <2>1. CASE CleanLocal(d)
      <3>1. task[d].stage = "join" /\ remote' = remote
        BY <2>1 DEF CleanLocal
      <3>2. r \in local[d] /\ TextLe(r.block, task[d].block)
        BY <2>1, <3>1 DEF CleanLocal, DeleteLocal, Outdated, TypeOK
      <3>3. task[d].block \in Blocks
        BY <3>1, StageOfPhase, TaskFields
      <3> QED
        BY <3>1, <3>2, <3>3, <2>b, TextOrderOfSameWidth DEF IDecided, Decided
    <2>2. CASE CleanRemote(d)
      <3>1. task[d].stage = "clean" /\ local' = local
        BY <2>2 DEF CleanRemote
      <3>2. r \in remote[d] /\ TextLe(r.block, task[d].block)
        BY <2>2, <3>1 DEF CleanRemote, DeleteRemote, Outdated, TypeOK
      <3>3. task[d].block \in Blocks
        BY <3>1, StageOfPhase, TaskFields
      <3> QED
        BY <3>1, <3>2, <3>3, <2>b, TextOrderOfSameWidth DEF IDecided, Decided
    <2>3. CASE ~CleanLocal(d) /\ ~CleanRemote(d)
      <3>1. local[d] \subseteq local'[d] /\ remote[d] \subseteq remote'[d]
        <4>1. CASE \E e \in Deployments : e # d /\ (GossipStep(e) \/ CompareStep(e))
          BY <4>1, OthersUntouched, RemoteUntouched
        <4>2. CASE GossipStep(d) \/ CompareStep(d)
          BY <4>2, <2>3, RemoteUntouched
          DEF GossipStep, CompareStep, CheckDuplicate, SendPoi, SaveLocal,
              ChoosePoint, ReadRemote, Judge, TypeOK
        <4>3. CASE LoopStep \/ Tick
          BY <4>3 DEF LoopStep, Tick, StartGossip, EndGossip, StartCompare,
                      CompareOf, EndCompare, EndResults
        <4>4. CASE Restart
          BY <4>4 DEF Restart, TypeOK
        <4>5. ASSUME NEW e \in Deployments,
                     AdvanceHead(e) \/ Receive(e) \/ RecordResult(e) \/ LoseResult(e)
              PROVE  local[d] \subseteq local'[d] /\ remote[d] \subseteq remote'[d]
          BY <4>5 DEF AdvanceHead, Receive, RecordResult, LoseResult, TypeOK
        <4> QED
          BY <4>1, <4>2, <4>3, <4>4, <4>5 DEF Next
      <3> QED
        BY <3>1
    <2> QED
      BY <2>1, <2>2, <2>3
  <1> QED
    BY <1>2, OrderedAlways, PTL DEF Spec, EvidenceGoesWithVerdict
=============================================================================
