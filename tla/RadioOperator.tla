--------------------------- MODULE RadioOperator ---------------------------
(***************************************************************************)
(* The cross-checking component and the notification component together,  *)
(* as the main loop of RadioOperator::run runs them: the results of a      *)
(* comparison tick go through process_comparison_results, and with the     *)
(* mode periodic-update the notification tick is a third kind of tick.     *)
(*                                                                         *)
(* The comparison tick, its results and their delivery are one branch of   *)
(* the loop, so `phase` is shared; `outcome` is handed from the one to the *)
(* other, and both write the comparison results.                           *)
(***************************************************************************)
EXTENDS CrossCheck

CONSTANTS
  Modes,       \* the values radio_setup.notification_mode may be given
  MaxMishaps   \* bound: failures and timeouts from the results on

ASSUME ModesAssumption ==
  Modes \subseteq {"live", "periodic-update", "periodic-report"}
ASSUME MishapsAssumption == MaxMishaps \in Nat

VARIABLES notes, mode, step, changes, told, mishaps   \* of Notifications

rvars == <<vars, notes, mode, step, changes, told, mishaps>>

N == INSTANCE Notifications WITH MaxChanges <- 0

RInit == Init /\ N!Init

\* The ticks of CrossCheck up to the results.
CheckStep ==
  /\ \/ Tick \/ StartGossip \/ EndGossip \/ StartCompare \/ EndCompare
     \/ \E d \in Deployments :
          AdvanceHead(d) \/ Receive(d) \/ GossipStep(d) \/ CompareStep(d)
  /\ UNCHANGED <<notes, mode, step, changes, told, mishaps>>

\* process_comparison_results and the notification tick.
NotifyStep ==
  /\ N!ResultStep \/ N!Timeout \/ N!StartUpdate \/ N!DeliveryStep
  /\ UNCHANGED <<clock, head, task, local, remote, published, faults>>

RRestart == Restart /\ N!Restart

RNext == CheckStep \/ NotifyStep \/ RRestart

RSpec == RInit /\ [][RNext]_rvars

-----------------------------------------------------------------------------
(* Properties *)

\* With the notification tick as an idle loop, the two components together
\* behave as CrossCheck says: each result is saved once, or lost.
Coarse == INSTANCE CrossCheck WITH
  phase <- IF phase = "notify" THEN "idle" ELSE phase
RefinesCrossCheck == Coarse!Spec

\* With the gossip tick and the comparison as one step, the last, that hands
\* the results over, they behave as Notifications says.
Handed == INSTANCE Notifications WITH
  phase <- IF phase \in {"gossip", "compare"} THEN "idle" ELSE phase,
  outcome <- IF phase = "compare" THEN NoOutcome ELSE outcome,
  MaxChanges <- -1
RefinesNotifications == Handed!Spec

RTypeOK == N!TypeOK /\ Coarse!TypeOK

\* Without failures, timeouts and restarts nothing this indexer has published
\* is forgotten unjudged: between two ticks, each block it sent a message for
\* either has its local row still, or a saved result as new or newer.  (The
\* rows are deleted before the result is saved.)
PublishedIsKeptOrJudged ==
  phase = "idle" /\ faults = 0 /\ mishaps = 0 /\ crashes = 0 =>
    \A d \in Deployments : \A b \in published[d] :
      RowsAt(d, b) # {} \/ results[d].block >= b

\* The operator is only alarmed about blocks the indexer itself attested to.
ToldWasPublished ==
  \A d \in Deployments : \A r \in ToSet(told[d]) : r.block \in published[d]
=============================================================================
