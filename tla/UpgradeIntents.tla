--------------------------- MODULE UpgradeIntents ---------------------------
(***************************************************************************)
(* Upgrade intent messages: process_message of the operator for an         *)
(* UpgradeIntent, UpgradeIntentMessage::process_valid_message and the two  *)
(* statements on upgrade_intent_messages, one await per action.            *)
(*                                                                         *)
(* A subgraph's owner announces a new version; the radio notifies the      *)
(* operator and has the new deployment synced, unless the subgraph is rate *)
(* limited.  Messages are handled one at a time, in the order they arrive, *)
(* which is not the order of their nonces: the SDK's nonce and timestamp   *)
(* checks are skipped for them.  All of them are handled by one task, the  *)
(* message processor; should it panic, nothing is handled any more until   *)
(* the process is restarted.                                               *)
(***************************************************************************)
EXTENDS TextOrder, Sequences, SequencesExt

CONSTANTS
  Subgraphs,    \* subgraph ids
  Nonces,       \* the times, in seconds, at which owners make messages
  Threshold,    \* radio_setup.auto_upgrade_ratelimit, in seconds
  Managed,      \* TRUE: an indexer management endpoint is configured
  PersistentDb, \* TRUE: a database file is configured; FALSE: in memory
  MaxMessages,  \* bound: messages handled per subgraph
  MaxMishaps,   \* bound: handlers that fail or time out
  MaxCrashes    \* bound: restarts

\* The subtraction of recent_upgrade is on u64 and does not wrap for these.
ASSUME NonceAssumption ==
  /\ Threshold \in Nat \ {0}
  /\ Nonces \subseteq Nat \ {0}
  /\ \A n \in Nonces : n >= Threshold
ASSUME SetupAssumption == Managed \in BOOLEAN /\ PersistentDb \in BOOLEAN
ASSUME BoundAssumption == MaxMishaps \in Nat /\ MaxCrashes \in Nat

VARIABLES
  row,      \* nonce of the subgraph's row of upgrade_intent_messages; 0: none
  step,     \* the await the message processor stands at, and its message
  processor, \* "up", or "gone": the task of the message processor has panicked
  handled,  \* history: the decisions taken for each subgraph, in order
  mishaps,  \* history: failures and timeouts so far
  crashes   \* history: restarts so far

vars == <<row, step, processor, handled, mishaps, crashes>>

Idle == [at |-> "idle"]
Busy == [at : {"limit", "notify", "query", "sync", "save"},
         of : Subgraphs, nonce : Nonces]

\* kept: the decision's message was saved in a database not lost since.
Decision == [nonce : Nonces, did : {"skipped", "announced", "synced"}, kept : BOOLEAN]

\* The decision on the message at hand, once it is taken.
Current == Last(handled[step.of])

\* A message past its rate limit is the last one a decision was taken on, and
\* only one that passed gets to the management server.
TypeOK ==
  /\ row \in [Subgraphs -> Nonces \cup {0}]
  /\ step \in Busy \cup {Idle}
  /\ processor \in {"up", "gone"}
  /\ processor = "gone" => step = Idle
  /\ handled \in [Subgraphs -> Seq(Decision)]
  /\ mishaps \in 0..MaxMishaps
  /\ crashes \in 0..MaxCrashes
  /\ step.at \in {"query", "sync", "save"} =>
       /\ handled[step.of] # <<>>
       /\ Current.nonce = step.nonce
       /\ ~Current.kept
  /\ step.at \in {"query", "sync"} => Current.did = "announced"

Init ==
  /\ row = [s \in Subgraphs |-> 0]
  /\ step = Idle
  /\ processor = "up"
  /\ handled = [s \in Subgraphs |-> <<>>]
  /\ mishaps = 0
  /\ crashes = 0

GoTo(at) == step' = [step EXCEPT !.at = at]

Decide(did) ==
  handled' = [handled EXCEPT ![step.of] =
                Append(@, [nonce |-> step.nonce, did |-> did, kept |-> FALSE])]

Amend(decision) ==
  handled' = [handled EXCEPT ![step.of][Len(handled[step.of])] = decision]

\* A message that passed the checks of its sender, owner and fields.
Receive(s, n) ==
  /\ processor = "up"
  /\ step = Idle
  /\ Len(handled[s]) < MaxMessages
  /\ step' = [at |-> "limit", of |-> s, nonce |-> n]
  /\ UNCHANGED <<row, processor, handled, mishaps, crashes>>

\* Mutant: the threshold is left out of the statement's parameter.
RecentUpgradeNoThreshold(s, n) == row[s] # 0 /\ ~TextLe(row[s], n)

\* SELECT EXISTS ... nonce > ?, both sides text.
RecentUpgrade(s, n) == row[s] # 0 /\ ~TextLe(row[s], n - Threshold)

\* Mutant: the early return of a rate-limited message is missing.
CheckLimitNoReturn ==
  /\ step.at = "limit"
  /\ IF RecentUpgrade(step.of, step.nonce)
     THEN Decide("skipped") /\ GoTo("query")
     ELSE UNCHANGED handled /\ GoTo("notify")
  /\ UNCHANGED <<row, processor, mishaps, crashes>>

\* A rate-limited message is done with, successfully: it is saved all the same.
CheckLimit ==
  /\ step.at = "limit"
  /\ IF RecentUpgrade(step.of, step.nonce)
     THEN Decide("skipped") /\ GoTo("save")
     ELSE UNCHANGED handled /\ GoTo("notify")
  /\ UNCHANGED <<row, processor, mishaps, crashes>>

\* The webhooks; what they answer is not looked at.
Announce ==
  /\ step.at = "notify"
  /\ Decide("announced")
  /\ GoTo(IF Managed THEN "query" ELSE "save")
  /\ UNCHANGED <<row, processor, mishaps, crashes>>

\* Is the subgraph's present deployment covered by auto_upgrade_coverage?
QueryCoverage ==
  /\ step.at = "query"
  /\ \E covered \in BOOLEAN : GoTo(IF covered THEN "sync" ELSE "save")
  /\ UNCHANGED <<row, processor, handled, mishaps, crashes>>

\* setIndexingRule comes through at the management server, or does not.
SetRule ==
  \/ Amend([Current EXCEPT !.did = "synced"])
  \/ UNCHANGED handled

\* setIndexingRule and the look at its outcome; neither answer is acted upon.
SyncOffchain ==
  /\ step.at = "sync"
  /\ SetRule
  /\ GoTo("save")
  /\ UNCHANGED <<row, processor, mishaps, crashes>>

\* Mutant: the message is saved before its deployment is synced.
LoseProcessorSaved ==
  /\ step.at = "sync"
  /\ mishaps < MaxMishaps
  /\ mishaps' = mishaps + 1
  /\ row' = [row EXCEPT ![step.of] = step.nonce]
  /\ Amend([Current EXCEPT !.kept = TRUE])
  /\ step' = Idle
  /\ processor' = "gone"
  /\ UNCHANGED crashes

\* The look at the outcome unwraps its request: when the server cannot be
\* reached, the processor panics with it, and the channel's receiver is gone.
LoseProcessor ==
  /\ step.at = "sync"
  /\ mishaps < MaxMishaps
  /\ mishaps' = mishaps + 1
  /\ SetRule
  /\ step' = Idle
  /\ processor' = "gone"
  /\ UNCHANGED <<row, crashes>>

\* INSERT ... ON CONFLICT(subgraph_id) DO UPDATE: the last message handled wins.
SaveIntent ==
  /\ step.at = "save"
  /\ row' = [row EXCEPT ![step.of] = step.nonce]
  /\ Amend([Current EXCEPT !.kept = TRUE])
  /\ step' = Idle
  /\ UNCHANGED <<processor, mishaps, crashes>>

\* Mutant: the message is saved whether or not handling it succeeded.
AbandonSaves ==
  /\ step # Idle
  /\ mishaps < MaxMishaps
  /\ mishaps' = mishaps + 1
  /\ row' = [row EXCEPT ![step.of] = step.nonce]
  /\ step' = Idle
  /\ UNCHANGED <<processor, handled, crashes>>

\* A statement or query fails, or the ten seconds for the message are over:
\* what was done is not undone, and the message is not saved.
Abandon ==
  /\ step # Idle
  /\ mishaps < MaxMishaps
  /\ mishaps' = mishaps + 1
  /\ step' = Idle
  /\ UNCHANGED <<row, processor, handled, crashes>>

\* The process dies and starts again; a database in memory is gone.
Restart ==
  /\ crashes < MaxCrashes
  /\ crashes' = crashes + 1
  /\ step' = Idle
  /\ processor' = "up"
  /\ IF PersistentDb
     THEN UNCHANGED <<row, handled>>
     ELSE /\ row' = [s \in Subgraphs |-> 0]
          /\ handled' = [s \in Subgraphs |->
                           [i \in DOMAIN handled[s] |->
                              [handled[s][i] EXCEPT !.kept = FALSE]]]
  /\ UNCHANGED mishaps

Next ==
  \/ \E s \in Subgraphs, n \in Nonces : Receive(s, n)
  \/ CheckLimit \/ Announce \/ QueryCoverage \/ SyncOffchain \/ SaveIntent
  \/ LoseProcessor \/ Abandon \/ Restart

Spec == Init /\ [][Next]_vars

-----------------------------------------------------------------------------
Upgraded(decision) == decision.did # "skipped"

\* The texts of a nonce and of the limit of another message are of one length,
\* and so compare as the numbers do.
Comparable(nonce, n) == Width(nonce) = Width(n - Threshold)

\* Whatever order messages come in and whatever fails: once an upgrade has been
\* saved, the subgraph is not upgraded again by a message made less than
\* Threshold later, as long as no message older than it has been handled in
\* between and the texts compared are comparable.  The table keeps only the last
\* message, upgraded or skipped, and this is what recent_upgrade gets out of it.
UpgradesApart ==
  \A s \in Subgraphs : \A j \in DOMAIN handled[s] : \A i \in 1..(j - 1) :
    LET first == handled[s][i]
        then == handled[s][j] IN
      /\ first.kept
      /\ Upgraded(first)
      /\ Upgraded(then)
      /\ \A k \in i..j : handled[s][k].nonce >= first.nonce
      /\ \A k \in i..(j - 1) : Comparable(handled[s][k].nonce, then.nonce)
      => then.nonce >= first.nonce + Threshold

\* Only an upgrade can start to limit a subgraph: as long as no announcement of
\* it has gone through and been saved, there is no row to limit it, whatever
\* failed or was cut off before.
LimitFollowsUpgrade ==
  \A s \in Subgraphs : row[s] # 0 =>
    \E i \in DOMAIN handled[s] : Upgraded(handled[s][i]) /\ handled[s][i].kept

\* A processor is lost to an upgrade the operator has been told of and of which
\* nothing is recorded: the subgraph it belongs to is not limited by it, and the
\* owner's next message is announced once more.
LossUnrecorded ==
  processor = "gone" =>
    /\ Managed
    /\ \E s \in Subgraphs : /\ handled[s] # <<>>
                           /\ Upgraded(Last(handled[s]))
                           /\ ~Last(handled[s]).kept
=============================================================================
