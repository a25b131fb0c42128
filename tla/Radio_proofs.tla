---------------------------- MODULE Radio_proofs ----------------------------
(***************************************************************************)
(* Proofs about MainLoop, for every set of deployments and every coverage  *)
(* level, and about Radio: it implements both of its components, so that   *)
(* what is proved of them holds of the composition.                        *)
(***************************************************************************)
EXTENDS Radio, CrossCheck_proofs

-----------------------------------------------------------------------------
(* The main loop by itself *)

\* Whatever the queries answer, the topics are deployments, the configured ones
\* among them.
LEMMA GeneratedTopics ==
  ASSUME NEW a \in SUBSET Ids, NEW s \in SUBSET Ids
  PROVE  /\ generate_topics(a, s) \subseteq Ids
         /\ Coverage # "None" => Static \subseteq generate_topics(a, s)
  <1>1. CASE Coverage = "None"
    BY <1>1 DEF generate_topics
  <1>2. CASE Coverage = "Minimal"
    BY <1>2, IdsAssumption DEF generate_topics
  <1>3. CASE Coverage = "OnChain"
    BY <1>3, IdsAssumption DEF generate_topics
  <1>4. CASE Coverage = "Comprehensive"
    BY <1>4, IdsAssumption DEF generate_topics
  <1> QED
    BY <1>1, <1>2, <1>3, <1>4, CoverageAssumption

LEMMA AnswersTyped ==
  ASSUME allocated \subseteq Open, NEW a \in Answers
  PROVE  a[1] \in SUBSET Ids /\ a[2] \in SUBSET Ids
  BY IdsAssumption DEF Answers

\* A late tick is the last one: the loop never gets to select another.
LateIsLast == late # 0 => late = 1 /\ ~running /\ at # "select"

LoopInv == LTypeOK /\ StaticStay /\ LateIsLast

LEMMA LoopInit == LInit => LoopInv
  <1> SUFFICES ASSUME LInit PROVE LoopInv
    OBVIOUS
  <1>1. PICK a \in Answers : topics = generate_topics(a[1], a[2])
    BY DEF LInit
  <1>2. topics \subseteq Ids /\ StaticStay
    BY <1>1, AnswersTyped, GeneratedTopics DEF LInit, StaticStay
  <1> QED
    BY <1>2 DEF LInit, LoopInv, LTypeOK, LateIsLast

LEMMA GenerateStep ==
  ASSUME LoopInv, GenerateTopics
  PROVE  topics' \subseteq Ids /\ StaticStay'
  <1>1. PICK a \in Answers : topics' = generate_topics(a[1], a[2])
    BY DEF GenerateTopics
  <1> QED
    BY <1>1, AnswersTyped, GeneratedTopics DEF LoopInv, LTypeOK, StaticStay

LEMMA LoopInvStep == LoopInv /\ [LNext]_lvars => LoopInv'
  <1> SUFFICES ASSUME LoopInv, [LNext]_lvars PROVE LoopInv'
    OBVIOUS
  <1> USE DEF LoopInv, LTypeOK, StaticStay, LateIsLast
  <1>1. CASE Allocate
    BY <1>1 DEF Allocate
  <1>2. CASE CheckRunning
    BY <1>2 DEF CheckRunning
  <1>3. CASE Skip
    BY <1>3 DEF Skip, ResetSkip
  <1>4. CASE UpdateTopics
    <2>1. topics' \subseteq Ids /\ StaticStay'
      BY <1>4, GenerateStep DEF UpdateTopics
    <2> QED
      BY <1>4, <2>1 DEF UpdateTopics
  <1>5. CASE Timer
    BY <1>5 DEF Timer
  <1>6. ASSUME NEW kind \in Kinds, Begin(kind) \/ End(kind) PROVE LoopInv'
    <2>1. kind # "select" /\ kind # "top"
      BY DEF Kinds
    <2>2. CASE Begin(kind)
      <3>1. late = 0
        BY <2>2 DEF Begin
      <3>2. late' = IF running THEN 0 ELSE 1
        BY <2>2, <3>1 DEF Begin
      <3> QED
        BY <2>1, <2>2, <3>2 DEF Begin
    <2>3. CASE End(kind)
      BY <2>1, <2>3 DEF End
    <2> QED
      BY <1>6, <2>2, <2>3
  <1>7. CASE Shutdown
    <2>1. CASE Signal
      BY <1>7, <2>1 DEF Signal
    <2>2. CASE StopListening
      BY <1>7, <2>2 DEF StopListening
    <2>3. CASE Exit
      BY <1>7, <2>3 DEF Exit
    <2> QED
      BY <1>7, <2>1, <2>2, <2>3 DEF Shutdown
  <1>8. CASE MessageStep
    BY <1>8 DEF MessageStep, NextMessage, HangUp, Handled, Panic
  <1>9. CASE Reboot
    <2>1. topics' \subseteq Ids /\ StaticStay'
      BY <1>9, GenerateStep DEF Reboot
    <2> QED
      BY <1>9, <2>1 DEF Reboot
  <1>10. CASE UNCHANGED lvars
    BY <1>10 DEF lvars
  <1> QED
    BY <1>1, <1>2, <1>3, <1>4, <1>5, <1>6, <1>7, <1>8, <1>9, <1>10 DEF LNext

LEMMA LoopInvariant == LSpec => []LoopInv
  BY LoopInit, LoopInvStep, PTL DEF LSpec

\* Every part of the loop, the shutdown and the processor keeps its type.
THEOREM LoopTypeCorrect == LSpec => []LTypeOK
  <1>1. LoopInv => LTypeOK
    BY DEF LoopInv
  <1> QED
    BY <1>1, LoopInvariant, PTL

\* No failing or timed-out query ever takes a configured topic away, at any
\* coverage level but None.
THEOREM ConfiguredTopicsStay == LSpec => []StaticStay
  <1>1. LoopInv => StaticStay
    BY DEF LoopInv
  <1> QED
    BY <1>1, LoopInvariant, PTL

\* After a signal the loop begins at most one more tick.
THEOREM ShutdownTakesOneTick == LSpec => []StopsSoon
  <1>1. LoopInv => StopsSoon
    BY DEF LoopInv, LTypeOK, LateIsLast, StopsSoon
  <1> QED
    BY <1>1, LoopInvariant, PTL

-----------------------------------------------------------------------------
(* The composition *)

LEMMA StepOfBoth == [RNext]_rvars => [Next]_vars /\ [LNext]_lvars
  <1> SUFFICES ASSUME [RNext]_rvars PROVE [Next]_vars /\ [LNext]_lvars
    OBVIOUS
  <1>1. CASE LoopOnly
    BY <1>1 DEF LoopOnly, LNext
  <1>2. CASE BeginGossip
    BY <1>2 DEF BeginGossip, Next, LoopStep, LNext, Kinds
  <1>3. CASE BeginCompare
    <2>1. StartCompare
      BY <1>3 DEF BeginCompare, Identifiers, StartCompare
    <2> QED
      BY <1>3, <2>1 DEF BeginCompare, Next, LoopStep, LNext, Kinds
  <1>4. CASE FinishGossip
    BY <1>4 DEF FinishGossip, Next, LoopStep, LNext, Kinds
  <1>5. CASE FinishCompare
    BY <1>5 DEF FinishCompare, Next, LoopStep, LNext, Kinds
  <1>6. CASE TickStep
    BY <1>6 DEF TickStep, Next, LoopStep
  <1>7. CASE Store
    BY <1>7 DEF Store, Next, LNext, MessageStep
  <1>8. CASE World
    BY <1>8 DEF World, Next
  <1>9. CASE RRestart
    BY <1>9 DEF RRestart, Next, LNext
  <1>10. CASE UNCHANGED rvars
    BY <1>10 DEF rvars
  <1> QED
    BY <1>1, <1>2, <1>3, <1>4, <1>5, <1>6, <1>7, <1>8, <1>9, <1>10 DEF RNext

\* The composition implements the cross-check and the loop: topics that come
\* and go, skipped ticks and a shutdown add no behaviour to the first, nor do
\* the bodies of the ticks to the second.
THEOREM ImplementsBoth == RSpec => Spec /\ LSpec
  <1>1. RInit => Init /\ LInit
    BY DEF RInit
  <1> QED
    BY <1>1, StepOfBoth, PTL DEF RSpec, Spec, LSpec

\* Where the loop stands and what the cross-check is in the middle of agree.
Agree ==
  /\ phase = "gossip" => at = "gossip"
  /\ phase \in {"compare", "results"} => at = "compare"

LEMMA AgreeStep == TypeOK /\ Agree /\ [RNext]_rvars => Agree'
  <1> SUFFICES ASSUME TypeOK, Agree, [RNext]_rvars PROVE Agree'
    OBVIOUS
  <1>p. phase \in {"idle", "gossip", "compare", "results"}
    BY DEF TypeOK
  <1> USE DEF Agree
  <1>1. CASE LoopOnly
    <2>1. phase' = phase
      BY <1>1 DEF LoopOnly, vars
    <2>2. CASE \/ Allocate \/ Timer \/ Signal \/ StopListening \/ MessageStep
      <3>1. at' = at
        BY <2>2 DEF Allocate, Timer, Signal, StopListening, MessageStep,
                    NextMessage, HangUp, Handled, Panic
      <3> QED
        BY <2>1, <3>1
    <2>3. CASE CheckRunning \/ Skip \/ UpdateTopics \/ Exit
      <3>1. phase = "idle"
        BY <2>3, <1>p DEF CheckRunning, Skip, UpdateTopics, Exit
      <3> QED
        BY <2>1, <3>1
    <2>4. ASSUME NEW kind \in Kinds, Begin(kind) PROVE Agree'
      <3>1. phase = "idle"
        BY <2>4, <1>p DEF Begin
      <3> QED
        BY <2>1, <3>1
    <2>5. CASE phase = "idle"
      BY <2>1, <2>5
    <2> QED
      BY <1>1, <2>2, <2>3, <2>4, <2>5 DEF LoopOnly, Shutdown
  <1>2. CASE BeginGossip
    BY <1>2 DEF BeginGossip, Begin, StartGossip
  <1>3. CASE BeginCompare
    BY <1>3 DEF BeginCompare, Begin, CompareOf
  <1>4. CASE FinishGossip
    BY <1>4 DEF FinishGossip, EndGossip
  <1>5. CASE FinishCompare
    BY <1>5 DEF FinishCompare, EndResults
  <1>6. CASE TickStep
    <2>1. at' = at
      BY <1>6 DEF TickStep, lvars
    <2>2. CASE EndCompare
      BY <2>1, <2>2 DEF EndCompare
    <2>3. ASSUME NEW d \in Deployments,
                 GossipStep(d) \/ CompareStep(d) \/ RecordResult(d) \/ LoseResult(d)
          PROVE  phase' = phase
      BY <2>3 DEF GossipStep, CheckDuplicate, SendPoi, SaveLocal, CompareStep,
                  ChoosePoint, ReadRemote, Judge, CleanLocal, CleanRemote,
                  RecordResult, LoseResult
    <2> QED
      BY <1>6, <2>1, <2>2, <2>3 DEF TickStep
  <1>7. CASE Store
    BY <1>7 DEF Store, Handled, Receive
  <1>8. CASE World
    BY <1>8 DEF World, Tick, AdvanceHead, lvars
  <1>9. CASE RRestart
    BY <1>9 DEF RRestart, Restart
  <1>10. CASE UNCHANGED rvars
    BY <1>10 DEF rvars, vars, lvars
  <1> QED
    BY <1>1, <1>2, <1>3, <1>4, <1>5, <1>6, <1>7, <1>8, <1>9, <1>10 DEF RNext

\* Nothing of a tick is under way while the loop is anywhere else, and so
\* nothing is when the process exits after a shutdown.
THEOREM RadioTypeCorrect == RSpec => []RTypeOK
  <1>1. RInit => Agree
    BY DEF RInit, Init, Agree
  <1>2. RSpec => []TypeOK
    BY ImplementsBoth, TypeCorrect, PTL
  <1>3. RSpec => []LTypeOK
    BY ImplementsBoth, LoopTypeCorrect, PTL
  <1>4. TypeOK /\ LTypeOK /\ Agree => RTypeOK
    BY DEF Agree, RTypeOK
  <1> QED
    BY <1>1, <1>2, <1>3, <1>4, AgreeStep, PTL DEF RSpec

\* In the composition, too, configured topics stay.
THEOREM ConfiguredTopicsStayTopics == RSpec => []StaticStay
  BY ImplementsBoth, ConfiguredTopicsStay, PTL
=============================================================================
