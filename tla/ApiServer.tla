----------------------------- MODULE ApiServer -----------------------------
(***************************************************************************)
(* A request to the HTTP server beside the radio: comparisonResults and    *)
(* comparisonRatio for one deployment and one block, which are compared    *)
(* anew from the rows of the database (server/model/mod.rs).               *)
(*                                                                         *)
(* The request reads the local row, then the messages, then asks the       *)
(* network for the stakes, with an await at each, while the radio goes on: *)
(* the clean-up after a comparison may come between any two of them.       *)
(***************************************************************************)
EXTENDS CrossCheck, ApiViews

VARIABLE query   \* the request being served

\* None is told from Some(..).
ASSUME NoFilterAssumption == NoFilter \notin Deployments \cup Blocks

avars == <<vars, query>>

NoQuery == [at |-> "none"]

\* Two fields are history: whether the block was answered when its row was
\* read, and whether the radio has since had a verdict on it or on a newer one.
QueryType ==
  {NoQuery}
    \cup [at : {"messages", "panicked"}, of : Deployments, block : Blocks,
          ppoi : Ppois, answered : BOOLEAN, judged : BOOLEAN]
    \cup [at : {"stakes"}, of : Deployments, block : Blocks, ppoi : Ppois,
          answered : BOOLEAN, judged : BOOLEAN, msgs : SUBSET Message]

\* The attestations a request is about to make are of its own block, although
\* the messages of all blocks are read for it.
ATypeOK ==
  /\ TypeOK
  /\ query \in QueryType
  /\ query.at = "stakes" => \A m \in query.msgs : m.block = query.block

AInit == Init /\ query = NoQuery

VerdictCovers(outcomes, d, b) ==
  outcomes[d] # NoResult /\ b <= outcomes[d].block

-----------------------------------------------------------------------------
(* The request *)

\* comparison_results asks for the local row; without one, or if the read
\* fails, the answer is an empty list at once, and no state changes.
ReadLocal ==
  /\ query = NoQuery
  /\ \E d \in Deployments, b \in Blocks : \E row \in local_attestations(local, d, b) :
       query' = [at |-> "messages", of |-> d, block |-> b, ppoi |-> row[2].ppoi,
                 answered |-> remote_ppoi_messages_filtered(remote, d, b) # {},
                 judged |-> VerdictCovers(outcome, d, b)]
  /\ UNCHANGED vars

Found == {x[2] : x \in remote_ppoi_messages_filtered(remote, query.of, query.block)}

AskStakes(msgs) ==
  query' = [at |-> "stakes", of |-> query.of, block |-> query.block,
            ppoi |-> query.ppoi, answered |-> query.answered,
            judged |-> query.judged, msgs |-> msgs]

\* A read that fails counts as no messages.
ReadMessages ==
  /\ query.at = "messages"
  /\ \/ AskStakes(Found) /\ UNCHANGED faults
     \/ Fault /\ AskStakes({})
  /\ UNCHANGED <<clock, head, phase, task, local, remote, outcome, results,
                 published, crashes>>

Panic ==
  query' = [at |-> "panicked", of |-> query.of, block |-> query.block,
            ppoi |-> query.ppoi, answered |-> query.answered,
            judged |-> query.judged]

\* One stake that cannot be queried discards all the attestations (`.ok()`),
\* and compare_attestation panics where there is none: there is one unless there
\* is no message (VerdictHasWitness of MCAttestations).  Otherwise it answers
\* or, for a ratio, goes on to indexer_info, which panics if its query fails.
Compare ==
  /\ query.at = "stakes"
  /\ \/ /\ query.msgs # {}
        /\ query' = NoQuery
        /\ UNCHANGED faults
     \/ /\ query.msgs = {}
        /\ Panic
        /\ UNCHANGED faults
     \/ Fault /\ Panic
  /\ UNCHANGED <<clock, head, phase, task, local, remote, outcome, results,
                 published, crashes>>

\* The server catches the panic, and the client sees its connection closed.
CloseConnection ==
  /\ query.at = "panicked"
  /\ query' = NoQuery
  /\ UNCHANGED vars

Serve == ReadLocal \/ ReadMessages \/ Compare \/ CloseConnection

\* The radio goes on beside the request, and takes it along when it dies.
Radio ==
  /\ Next
  /\ query' = IF query = NoQuery \/ Restart THEN NoQuery
              ELSE [query EXCEPT !.judged =
                      @ \/ VerdictCovers(outcome', query.of, query.block)]

ANext == Serve \/ Radio

ASpec == AInit /\ [][ANext]_avars

-----------------------------------------------------------------------------
(* Properties *)

\* compare_attestation unwraps the last of a list that may be empty.  As long
\* as nothing fails, a request for a block that somebody has answered panics
\* only because a verdict on that block, or on a newer one of the same
\* deployment, has let the clean-up take the messages in between.
PanicExplained ==
  query.at = "panicked" /\ faults = 0 => ~query.answered \/ query.judged
=============================================================================
