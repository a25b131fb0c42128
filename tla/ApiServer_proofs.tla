-------------------------- MODULE ApiServer_proofs --------------------------
(***************************************************************************)
(* Proofs about ApiServer, for every set of deployments, senders, POIs and *)
(* blocks, and every value of the bounds.                                  *)
(*                                                                         *)
(* A step of ApiServer is a step of CrossCheck, a failure, or leaves the   *)
(* radio alone, so that what CrossCheck_proofs says of a step carries over *)
(* (SharedStep).                                                           *)
(***************************************************************************)
EXTENDS ApiServer, CrossCheck_proofs

\* The steps of the request change nothing of the radio but count a failure.
LEMMA ServeTouchesFaultsOnly ==
  ASSUME TypeOK, Serve
  PROVE  /\ UNCHANGED <<clock, head, phase, task, local, remote, outcome, results,
                        published, crashes>>
         /\ faults' = faults \/ Fault
  BY DEF Serve, ReadLocal, ReadMessages, Compare, CloseConnection, vars

\* The invariants of CrossCheck the proof needs hold in the composition too.
LEMMA SharedStep ==
  TypeOK /\ IDecided /\ [ANext]_avars => TypeOK' /\ IDecided'
  <1> SUFFICES ASSUME TypeOK, IDecided, [ANext]_avars PROVE TypeOK' /\ IDecided'
    OBVIOUS
  <1>1. CASE Serve
    <2>1. faults' \in 0..MaxFaults
      BY <1>1, ServeTouchesFaultsOnly, FaultTyped
    <2>2. UNCHANGED <<clock, head, phase, task, local, remote, outcome, results,
                      published, crashes>>
      BY <1>1, ServeTouchesFaultsOnly
    <2>3. TypeOK'
      BY <2>1, <2>2 DEF TypeOK, AllIdle, NoOutcome
    <2>4. IDecided'
      BY <2>2 DEF IDecided, Decided
    <2> QED
      BY <2>3, <2>4
  <1>2. CASE Radio \/ UNCHANGED avars
    <2>1. [Next]_vars
      BY <1>2 DEF Radio, avars
    <2> QED
      BY <2>1, TypeStep, DecidedStep
  <1> QED
    BY <1>1, <1>2 DEF ANext

LEMMA QueryFields ==
  ASSUME NEW q \in QueryType
  PROVE  /\ q.at \in {"none", "messages", "stakes", "panicked"}
         /\ q.at = "none" => q = NoQuery
         /\ q.at # "none" => /\ q.of \in Deployments /\ q.block \in Blocks
                             /\ q.ppoi \in Ppois /\ q.answered \in BOOLEAN
                             /\ q.judged \in BOOLEAN
         /\ q.at = "stakes" => q.msgs \in SUBSET Message
  BY SMTT(30) DEF QueryType, NoQuery

\* What explains a panic, while it is still to come: a request that found its
\* block answered keeps a message in reach until a verdict covers the block.
Explained ==
  faults = 0 =>
    /\ query.at = "messages" /\ query.answered /\ ~query.judged =>
         \E m \in remote[query.of] : m.block = query.block
    /\ query.at = "stakes" /\ query.answered /\ ~query.judged => query.msgs # {}
    /\ query.at = "panicked" => ~query.answered \/ query.judged

\* The request sees the rows of its block exactly.
LEMMA FoundAtBlock ==
  ASSUME NEW d \in Deployments, NEW b \in Blocks, TypeOK
  PROVE  remote_ppoi_messages_filtered(remote, d, b)
           = {<<d, m>> : m \in {n \in remote[d] : n.block = b}}
  <1>1. d # NoFilter /\ b # NoFilter
    BY NoFilterAssumption
  <1>2. \A x : filter_remote_ppoi_messages(x, d, b) <=> x[1] = d /\ x[2].block = b
    BY <1>1 DEF filter_remote_ppoi_messages
  <1>3. \A x : x \in get_remote_ppoi_messages(remote)
                <=> \E e \in Deployments : \E m \in remote[e] : x = <<e, m>>
    BY DEF get_remote_ppoi_messages, TypeOK
  <1>4. \A e, m : <<e, m>>[1] = e /\ <<e, m>>[2] = m
    OBVIOUS
  <1>5. \A x : x \in remote_ppoi_messages_filtered(remote, d, b)
                <=> \E m \in remote[d] : x = <<d, m>> /\ m.block = b
    BY <1>2, <1>3, <1>4 DEF remote_ppoi_messages_filtered
  <1> QED
    BY <1>5

\* The messages of a request are those of its block.
Asked == query.at = "stakes" => \A m \in query.msgs : m.block = query.block

LEMMA AskedStep == ATypeOK /\ [ANext]_avars => Asked'
  <1> SUFFICES ASSUME ATypeOK, [ANext]_avars PROVE Asked'
    OBVIOUS
  <1>t. TypeOK /\ query \in QueryType /\ Asked
    BY DEF ATypeOK, Asked
  <1>1. CASE ReadLocal
    <2>1. query'.at = "messages"
      BY <1>1 DEF ReadLocal
    <2> QED
      BY <2>1 DEF Asked
  <1>2. CASE ReadMessages
    <2>1. query.of \in Deployments /\ query.block \in Blocks
      BY <1>2, <1>t, QueryFields DEF ReadMessages
    <2>2. \A m \in Found : m.block = query.block
      BY <2>1, <1>t, FoundAtBlock DEF Found
    <2>3. PICK msgs : AskStakes(msgs) /\ \A m \in msgs : m.block = query.block
      BY <1>2, <2>2 DEF ReadMessages
    <2>4. query'.block = query.block /\ query'.msgs = msgs
      BY <2>3 DEF AskStakes
    <2> QED
      BY <2>3, <2>4 DEF Asked
  <1>3. CASE Compare
    <2>1. query'.at \in {"none", "panicked"}
      BY <1>3 DEF Compare, Panic, NoQuery
    <2> QED
      BY <2>1 DEF Asked
  <1>4. CASE CloseConnection
    BY <1>4 DEF CloseConnection, NoQuery, Asked
  <1>5. CASE Radio
    <2>1. CASE query = NoQuery \/ Restart
      BY <1>5, <2>1 DEF Radio, NoQuery, Asked
    <2>2. CASE ~(query = NoQuery \/ Restart)
      <3>1. query' = [query EXCEPT !.judged =
                        query.judged \/ VerdictCovers(outcome', query.of, query.block)]
        BY <1>5, <2>2 DEF Radio
      <3>2. CASE query \in [at : {"messages", "panicked"}, of : Deployments,
                           block : Blocks, ppoi : Ppois, answered : BOOLEAN,
                           judged : BOOLEAN]
        <4>1. query'.at # "stakes"
          BY <3>1, <3>2
        <4> QED
          BY <4>1 DEF Asked
      <3>3. CASE query \in [at : {"stakes"}, of : Deployments, block : Blocks,
                           ppoi : Ppois, answered : BOOLEAN, judged : BOOLEAN,
                           msgs : SUBSET Message]
        <4>1. query'.msgs = query.msgs /\ query'.block = query.block
          BY <3>1, <3>3
        <4> QED
          BY <1>t, <3>3, <4>1 DEF Asked
      <3> QED
        BY <3>2, <3>3, <2>2, <1>t DEF QueryType
    <2> QED
      BY <2>1, <2>2
  <1>6. CASE UNCHANGED avars
    BY <1>6, <1>t DEF avars, Asked
  <1> QED
    BY <1>1, <1>2, <1>3, <1>4, <1>5, <1>6 DEF ANext, Serve

LEMMA QueryStep == ATypeOK /\ [ANext]_avars => query' \in QueryType
  <1> SUFFICES ASSUME ATypeOK, [ANext]_avars PROVE query' \in QueryType
    OBVIOUS
  <1>t. TypeOK /\ query \in QueryType
    BY DEF ATypeOK
  <1>1. CASE ReadLocal
    <2>1. PICK d \in Deployments, b \in Blocks :
            \E row \in local_attestations(local, d, b) :
              query' = [at |-> "messages", of |-> d, block |-> b,
                        ppoi |-> row[2].ppoi,
                        answered |-> remote_ppoi_messages_filtered(remote, d, b) # {},
                        judged |-> VerdictCovers(outcome, d, b)]
      BY <1>1 DEF ReadLocal
    <2>2. PICK row \in local_attestations(local, d, b) :
            query' = [at |-> "messages", of |-> d, block |-> b,
                      ppoi |-> row[2].ppoi,
                      answered |-> remote_ppoi_messages_filtered(remote, d, b) # {},
                      judged |-> VerdictCovers(outcome, d, b)]
      BY <2>1
    <2>3. row[2] \in Row
      <3>1. d # NoFilter /\ b # NoFilter
        BY NoFilterAssumption
      <3>2. local_attestations(local, d, b) = get_local_attestation(local, d, b)
        BY <3>1 DEF local_attestations
      <3>3. row \in get_local_attestation(local, d, b)
        BY <3>2
      <3>4. PICK r \in local[d] : row = <<d, r>>
        BY <3>3 DEF get_local_attestation, get_local_attestations_by_identifier
      <3> QED
        BY <3>4, <1>t DEF TypeOK
    <2>4. row[2].ppoi \in Ppois
      BY <2>3 DEF Row
    <2>5. VerdictCovers(outcome, d, b) \in BOOLEAN
      BY DEF VerdictCovers
    <2> QED
      BY <2>2, <2>4, <2>5 DEF QueryType
  <1>2. CASE ReadMessages
    <2>1. query.at = "messages"
      BY <1>2 DEF ReadMessages
    <2>2. /\ query.of \in Deployments /\ query.block \in Blocks
          /\ query.ppoi \in Ppois /\ query.answered \in BOOLEAN
          /\ query.judged \in BOOLEAN
      BY <2>1, <1>t, QueryFields
    <2>3. Found \subseteq Message
      <3>1. Found \subseteq remote[query.of]
        BY <2>2, <1>t, FoundAtBlock DEF Found
      <3> QED
        BY <3>1, <2>2, <1>t DEF TypeOK
    <2>4. PICK msgs \in SUBSET Message : AskStakes(msgs)
      BY <1>2, <2>3 DEF ReadMessages
    <2> QED
      BY <2>2, <2>4 DEF AskStakes, QueryType
  <1>3. CASE Compare
    <2>1. query.at = "stakes"
      BY <1>3 DEF Compare
    <2>2. /\ query.of \in Deployments /\ query.block \in Blocks
          /\ query.ppoi \in Ppois /\ query.answered \in BOOLEAN
          /\ query.judged \in BOOLEAN
      BY <2>1, <1>t, QueryFields
    <2>3. CASE Panic
      BY <2>2, <2>3 DEF Panic, QueryType
    <2>4. CASE ~Panic
      BY <1>3, <2>4 DEF Compare, QueryType
    <2> QED
      BY <2>3, <2>4
  <1>4. CASE CloseConnection
    BY <1>4 DEF CloseConnection, QueryType
  <1>5. CASE Radio
    <2>1. CASE query = NoQuery \/ Restart
      BY <1>5, <2>1 DEF Radio, QueryType
    <2>2. CASE ~(query = NoQuery \/ Restart)
      <3>1. query' = [query EXCEPT !.judged =
                        query.judged \/ VerdictCovers(outcome', query.of, query.block)]
        BY <1>5, <2>2 DEF Radio
      <3>2. VerdictCovers(outcome', query.of, query.block) \in BOOLEAN
        BY DEF VerdictCovers
      <3>3. query.judged \in BOOLEAN
        BY <2>2, <1>t, QueryFields
      <3>4. (query.judged \/ VerdictCovers(outcome', query.of, query.block)) \in BOOLEAN
        BY <3>2, <3>3
      <3> DEFINE j == query.judged \/ VerdictCovers(outcome', query.of, query.block)
      <3>5. query' = [query EXCEPT !.judged = j] /\ j \in BOOLEAN
        BY <3>1, <3>4
      <3> HIDE DEF j
      <3>6. CASE query \in [at : {"messages", "panicked"}, of : Deployments,
                           block : Blocks, ppoi : Ppois, answered : BOOLEAN,
                           judged : BOOLEAN]
        BY <3>5, <3>6, SMTT(30) DEF QueryType
      <3>7. CASE query \in [at : {"stakes"}, of : Deployments, block : Blocks,
                           ppoi : Ppois, answered : BOOLEAN, judged : BOOLEAN,
                           msgs : SUBSET Message]
        BY <3>5, <3>7, SMTT(30) DEF QueryType
      <3> QED
        BY <3>6, <3>7, <2>2, <1>t DEF QueryType
    <2> QED
      BY <2>1, <2>2
  <1>6. CASE UNCHANGED avars
    BY <1>6, <1>t DEF avars
  <1> QED
    BY <1>1, <1>2, <1>3, <1>4, <1>5, <1>6 DEF ANext, Serve

LEMMA AInitTyped == AInit => ATypeOK /\ IDecided /\ Explained
  <1>1. NoQuery \in QueryType /\ NoQuery.at = "none"
    BY DEF NoQuery, QueryType
  <1>2. Init => IDecided
    BY DEF Init, AllIdle, Idle, IDecided, Decided
  <1> QED
    BY <1>1, <1>2, TypeInit DEF AInit, ATypeOK, Explained

\* A step of the radio that is no clean-up of the messages of d keeps them.
LEMMA MessagesKept ==
  ASSUME TypeOK, Next, ~Restart, NEW d \in Deployments, ~CleanRemote(d)
  PROVE  remote[d] \subseteq remote'[d]
  <1>1. CASE \E e \in Deployments : GossipStep(e) \/ CompareStep(e)
    <2>1. PICK e \in Deployments : GossipStep(e) \/ CompareStep(e)
      BY <1>1
    <2>2. remote'[d] = remote[d]
      BY <2>1, RemoteUntouched
    <2> QED
      BY <2>2
  <1>2. CASE LoopStep \/ Tick
    BY <1>2 DEF LoopStep, Tick, StartGossip, EndGossip, StartCompare,
                CompareOf, EndCompare, EndResults
  <1>3. ASSUME NEW e \in Deployments,
               AdvanceHead(e) \/ Receive(e) \/ RecordResult(e) \/ LoseResult(e)
        PROVE  remote[d] \subseteq remote'[d]
    BY <1>3 DEF AdvanceHead, Receive, RecordResult, LoseResult, TypeOK
  <1> QED
    BY <1>1, <1>2, <1>3 DEF Next

LEMMA ExplainedStep ==
  ASSUME SameWidth, ATypeOK, IDecided, Explained, [ANext]_avars
  PROVE  Explained'
  <1>t. TypeOK /\ query \in QueryType
    BY DEF ATypeOK
  <1>1. CASE ReadLocal
    <2>1. PICK d \in Deployments, b \in Blocks :
            \E row \in local_attestations(local, d, b) :
              query' = [at |-> "messages", of |-> d, block |-> b,
                        ppoi |-> row[2].ppoi,
                        answered |-> remote_ppoi_messages_filtered(remote, d, b) # {},
                        judged |-> VerdictCovers(outcome, d, b)]
      BY <1>1 DEF ReadLocal
    <2>2. /\ query'.at = "messages" /\ query'.of = d /\ query'.block = b
          /\ query'.answered = (remote_ppoi_messages_filtered(remote, d, b) # {})
      BY <2>1
    <2>3. remote' = remote
      BY <1>1 DEF ReadLocal, vars
    <2>4. remote_ppoi_messages_filtered(remote, d, b) # {} =>
            \E m \in remote[d] : m.block = b
      BY FoundAtBlock, <1>t
    <2> QED
      BY <2>2, <2>3, <2>4 DEF Explained
  <1>2. CASE ReadMessages
    <2>1. query.at = "messages"
      BY <1>2 DEF ReadMessages
    <2>2. query.of \in Deployments /\ query.block \in Blocks
      BY <2>1, <1>t, QueryFields
    <2>3. Found = {m \in remote[query.of] : m.block = query.block}
      <3>1. Found = {x[2] : x \in {<<query.of, m>> :
                       m \in {n \in remote[query.of] : n.block = query.block}}}
        BY <2>2, <1>t, FoundAtBlock DEF Found
      <3>2. \A m : <<query.of, m>>[2] = m
        OBVIOUS
      <3>3. ASSUME NEW m \in Found PROVE m \in remote[query.of] /\ m.block = query.block
        BY <3>1, <3>2
      <3>4. ASSUME NEW m \in remote[query.of], m.block = query.block PROVE m \in Found
        <4>1. <<query.of, m>> \in remote_ppoi_messages_filtered(remote, query.of, query.block)
          BY <3>4, <2>2, <1>t, FoundAtBlock
        <4> QED
          BY <4>1, <3>2 DEF Found
      <3> QED
        BY <3>3, <3>4
    <2>4. CASE AskStakes(Found) /\ UNCHANGED faults
      <3>1. /\ query'.at = "stakes" /\ query'.answered = query.answered
            /\ query'.judged = query.judged /\ query'.msgs = Found
        BY <2>4 DEF AskStakes
      <3> QED
        BY <3>1, <2>1, <2>3, <2>4 DEF Explained
    <2>5. CASE Fault
      BY <2>5, <1>t DEF Fault, Explained, TypeOK
    <2> QED
      BY <1>2, <2>4, <2>5 DEF ReadMessages
  <1>3. CASE Compare
    <2>1. query.at = "stakes"
      BY <1>3 DEF Compare
    <2>2. CASE query' = NoQuery
      BY <2>2 DEF Explained, NoQuery
    <2>3. CASE query.msgs = {} /\ Panic /\ UNCHANGED faults
      <3>1. /\ query'.at = "panicked" /\ query'.answered = query.answered
            /\ query'.judged = query.judged
        BY <2>3 DEF Panic
      <3>2. query.answered \in BOOLEAN /\ query.judged \in BOOLEAN
        BY <2>1, <1>t, QueryFields
      <3> QED
        BY <3>1, <3>2, <2>1, <2>3 DEF Explained
    <2>4. CASE Fault
      BY <2>4, <1>t DEF Fault, Explained, TypeOK
    <2> QED
      BY <1>3, <2>2, <2>3, <2>4 DEF Compare
  <1>4. CASE CloseConnection
    BY <1>4 DEF CloseConnection, Explained, NoQuery
  <1>5. CASE Radio
    <2>1. CASE query = NoQuery \/ Restart
      <3>1. query'.at = "none"
        BY <1>5, <2>1 DEF Radio, NoQuery
      <3> QED
        BY <3>1 DEF Explained
    <2>2. CASE ~(query = NoQuery \/ Restart)
      <3> DEFINE covered == VerdictCovers(outcome', query.of, query.block)
      <3>1. query' = [query EXCEPT !.judged = query.judged \/ covered]
        BY <1>5, <2>2 DEF Radio
      <3>2. /\ query.of \in Deployments /\ query.block \in Blocks
            /\ query.answered \in BOOLEAN /\ query.judged \in BOOLEAN
        BY <2>2, <1>t, QueryFields
      <3>3. query'.judged = (query.judged \/ covered)
        <4> HIDE DEF covered
        <4>1. "judged" \in DOMAIN query
          BY <2>2, <1>t DEF QueryType
        <4> QED
          BY <3>1, <4>1
      <3>4. /\ query'.at = query.at /\ query'.of = query.of
            /\ query'.block = query.block /\ query'.answered = query.answered
            /\ query.at = "stakes" => query'.msgs = query.msgs
        <4> HIDE DEF covered
        <4>1. query.at = "stakes" => "msgs" \in DOMAIN query
          BY <2>2, <1>t DEF QueryType
        <4>2. {"at", "of", "block", "answered"} \subseteq DOMAIN query
          BY <2>2, <1>t DEF QueryType
        <4> QED
          BY <3>1, <4>1, <4>2
      <3>5. faults' = 0 => faults = 0
        BY <1>5, <1>t, NoFaultBefore DEF Radio
      \* The message this request has found is deleted under a verdict only.
      <3>6. ASSUME NEW m \in remote[query.of], m.block = query.block, ~covered
            PROVE  m \in remote'[query.of]
        <4>1. CASE CleanRemote(query.of)
          <5>1. /\ task[query.of].stage = "clean" /\ outcome' = outcome
                /\ task[query.of].block \in Blocks
            BY <4>1, <1>t, <3>2, StageOfPhase, TaskFields DEF CleanRemote
          <5>2. /\ outcome[query.of] # NoResult
                /\ outcome[query.of].block = task[query.of].block
            BY <5>1, <3>2 DEF IDecided, Decided
          <5>3. ~(query.block <= task[query.of].block)
            BY <5>1, <5>2, <3>6 DEF VerdictCovers
          <5>4. ~Outdated(m.block, task[query.of].block)
            BY <5>1, <5>3, <3>2, <3>6, TextOrderOfSameWidth DEF Outdated
          <5>5. remote' = DeleteRemote(query.of, task[query.of].block)
                  \/ remote' = remote
            BY <4>1 DEF CleanRemote
          <5>6. CASE remote' = DeleteRemote(query.of, task[query.of].block)
            <6>1. remote'[query.of] = {n \in remote[query.of] :
                                         ~Outdated(n.block, task[query.of].block)}
              BY <5>6, <1>t, <3>2 DEF DeleteRemote, TypeOK
            <6> QED
              BY <6>1, <5>4, <3>6
          <5> QED
            BY <5>5, <5>6, <3>6
        <4>2. CASE ~CleanRemote(query.of)
          BY <4>2, <1>5, <1>t, <2>2, <3>2, MessagesKept DEF Radio
        <4> QED
          BY <4>1, <4>2
      <3> HIDE DEF covered
      <3>7. CASE query.at = "messages"
        BY <3>2, <3>3, <3>4, <3>5, <3>6, <3>7 DEF Explained
      <3>8. CASE query.at # "messages"
        BY <3>2, <3>3, <3>4, <3>5, <3>8 DEF Explained
      <3> QED
        BY <3>7, <3>8
    <2> QED
      BY <2>1, <2>2
  <1>6. CASE UNCHANGED avars
    BY <1>6 DEF avars, vars, Explained
  <1> QED
    BY <1>1, <1>2, <1>3, <1>4, <1>5, <1>6 DEF ANext, Serve

LEMMA ApiStep ==
  ATypeOK /\ IDecided /\ [ANext]_avars => ATypeOK' /\ IDecided'
  BY SharedStep, QueryStep, AskedStep DEF ATypeOK, Asked

\* The rows, the radio's tasks and the request keep their types while the
\* server reads beside the radio.
THEOREM ApiTypeCorrect == ASpec => []ATypeOK
  BY AInitTyped, ApiStep, PTL DEF ASpec

\* A request that panics although nothing failed asked for a block nobody had
\* answered, or was overtaken by a verdict on it or a newer block; where all
\* block numbers have the same number of digits.
THEOREM PanicsExplained ==
  ASSUME SameWidth
  PROVE  ASpec => []PanicExplained
  <1>1. ATypeOK /\ Explained => PanicExplained
    <2> SUFFICES ASSUME ATypeOK, Explained, query.at = "panicked", faults = 0
                 PROVE  ~query.answered \/ query.judged
      BY DEF PanicExplained
    <2> QED
      BY DEF Explained
  <1>2. ATypeOK /\ IDecided /\ Explained /\ [ANext]_avars => Explained'
    BY ExplainedStep
  <1> QED
    BY <1>1, <1>2, AInitTyped, ApiStep, PTL DEF ASpec
=============================================================================
