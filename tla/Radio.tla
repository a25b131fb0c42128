------------------------------- MODULE Radio -------------------------------
(***************************************************************************)
(* The whole of the radio's cross-checking in its process: the ticks of    *)
(* MainLoop with the bodies of CrossCheck, for the deployments that are    *)
(* topics when a tick begins; the processor that stores the messages; the  *)
(* shutdown, and restarts.                                                 *)
(***************************************************************************)
EXTENDS CrossCheck, MainLoop

ASSUME TopicsAssumption == Deployments \subseteq Ids

rvars == <<vars, lvars>>

RInit == Init /\ LInit

\* The agent's content identifiers, which both ticks read anew.
Identifiers == Deployments \cap topics

-----------------------------------------------------------------------------
\* Steps that do not concern the cross-check, among them the ticks without a
\* body of CrossCheck, and those that get no indexing statuses and end at once.
LoopOnly ==
  /\ \/ Allocate \/ CheckRunning \/ Skip \/ UpdateTopics \/ Timer \/ Shutdown
     \/ MessageStep
     \/ \E kind \in Kinds : Begin(kind)
     \/ \E kind \in Kinds \ {"topics"} : End(kind) /\ phase = "idle"
  /\ UNCHANGED vars

BeginGossip ==
  /\ Begin("gossip")
  /\ StartGossip
  /\ \A d \in Deployments \ Identifiers : task'[d] = Idle

BeginCompare == Begin("compare") /\ CompareOf(Identifiers)

FinishGossip == EndGossip /\ End("gossip")

\* Mutant: process_comparison_results is spawned and not awaited.
FinishUnawaited == End("compare") /\ phase = "results" /\ UNCHANGED vars

FinishCompare == EndResults /\ End("compare")

\* What goes on within a tick.
TickStep ==
  /\ \/ EndCompare
     \/ \E d \in Deployments :
          GossipStep(d) \/ CompareStep(d) \/ RecordResult(d) \/ LoseResult(d)
  /\ UNCHANGED lvars

\* process_message ends with the insertion of a valid message.
Store == Handled /\ \E d \in Deployments : Receive(d)

World ==
  /\ Tick \/ \E d \in Deployments : AdvanceHead(d)
  /\ UNCHANGED lvars

RRestart == Restart /\ Reboot

RNext ==
  \/ LoopOnly \/ BeginGossip \/ BeginCompare \/ FinishGossip \/ FinishCompare
  \/ TickStep \/ Store \/ World \/ RRestart

RSpec == RInit /\ [][RNext]_rvars

\* What the loop does next, as long as there is something to wait for.
LoopProcess ==
  /\ \/ /\ \/ CheckRunning \/ Skip \/ UpdateTopics \/ Exit
           \/ \E kind \in Kinds :
                Begin(kind) \/ (kind # "topics" /\ End(kind) /\ phase = "idle")
        /\ UNCHANGED vars
     \/ BeginGossip \/ BeginCompare \/ FinishGossip \/ FinishCompare
  /\ at' # at

Succeed == UpdateTopics /\ allocated \cap generate_topics(Ids, {}) \subseteq topics'

\* Every await returns or fails in the end.  tokio::select! picks among the
\* ticks that are due at random, and an interval whose tick is due stays due:
\* neither the topic nor the comparison tick is passed over forever.  A query
\* that is repeated forever succeeds again and again, that of the allocations
\* (Succeed) and that of the indexing statuses, without which a comparison tick
\* has no body (BeginCompare).  Nothing is assumed of the gossip tick.
Fairness ==
  /\ SF_rvars(Tick /\ UNCHANGED lvars)
  /\ WF_rvars(LoopProcess \/ TickStep)
  /\ SF_rvars(Begin("topics") /\ UNCHANGED vars)
  /\ SF_rvars(BeginCompare)
  /\ SF_rvars(Succeed /\ UNCHANGED vars)
  /\ WF_rvars(StopListening /\ UNCHANGED vars)
  /\ SF_rvars(HangUp /\ UNCHANGED vars)
  /\ WF_rvars((Handled /\ UNCHANGED vars) \/ Store)

RFairSpec == RSpec /\ Fairness

-----------------------------------------------------------------------------
(* Properties *)

\* Only the tick under way has tasks and unsaved results: when the loop is
\* left, and the process with it, nothing is under way.
RTypeOK ==
  /\ TypeOK
  /\ LTypeOK
  /\ phase = "gossip" => at = "gossip"
  /\ phase \in {"compare", "results"} => at = "compare"

\* A block of a deployment that stays a topic from some time on, as a configured
\* one always does, is judged, or superseded, in the end, once it has been
\* attested here and answered by someone: unless the radio is shut down, its row
\* does not stay forever, although queries and statements fail on the way, the
\* topics are empty for a while in the middle of the row's life, an iteration
\* is skipped, and the process restarts.
AnsweredIsJudged ==
  \A d \in Deployments, b \in Blocks :
    <>[](d \in topics) =>
      (\E r \in Answered(d) : r.block = b) ~> (RowsAt(d, b) = {} \/ ~running)

\* A deployment that stays allocated becomes a topic again after every network
\* query that fails and empties the on-chain topics.
AllocatedIsTopic ==
  Coverage \in {"OnChain", "Comprehensive"} =>
    \A d \in Open : <>[](d \in allocated) => []<>(d \in topics \/ ~running)

\* After a signal the process exits: the tick under way ends, the processor is
\* woken from its channel, and both are waited for.
ShutdownCompletes == shutdown = "stopping" ~> at = "exited" \/ shutdown = "waiting"
=============================================================================
