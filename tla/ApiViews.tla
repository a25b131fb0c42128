------------------------------ MODULE ApiViews ------------------------------
(***************************************************************************)
(* The pure part of server/model/mod.rs: what the GraphQL resolvers make   *)
(* of the rows they read.                                                  *)
(*                                                                         *)
(* The tables are functions from deployments to what CrossCheck keeps for  *)
(* each.  A filter that is not given is NoFilter.                          *)
(***************************************************************************)
EXTENDS Attestations, FiniteSets

CONSTANTS
  LocalStake,   \* indexer_info: the stake of this indexer
  LocalSender,  \* indexer_info: its address
  NoFilter,     \* a filter that is not given (None)
  NoPpoi        \* the result of a comparison has no local attestation

ASSUME LocalStakeAssumption == LocalStake \in Nat

\* The SDK refuses a message of the local sender, and so none is stored.
ASSUME LocalSenderAssumption == LocalSender \notin Senders

ASSUME NoPpoiAssumption == NoPpoi \notin Ppois

\* The reads of the database: rows with their deployment.
get_local_attestations_by_identifier(table, d) == {<<d, r>> : r \in table[d]}

\* The statement fetches one of them, whichever.
get_local_attestation(table, d, b) ==
  {x \in get_local_attestations_by_identifier(table, d) : x[2].block = b}

get_local_attestations(table) ==
  UNION {get_local_attestations_by_identifier(table, d) : d \in DOMAIN table}

get_remote_ppoi_messages(table) ==
  UNION {{<<d, m>> : m \in table[d]} : d \in DOMAIN table}

\* The resolver: a block is only looked for within a deployment.
local_attestations(table, identifier, block) ==
  CASE identifier # NoFilter /\ block # NoFilter ->
         get_local_attestation(table, identifier, block)
    [] identifier # NoFilter /\ block = NoFilter ->
         get_local_attestations_by_identifier(table, identifier)
    [] identifier = NoFilter /\ block = NoFilter -> get_local_attestations(table)
    [] identifier = NoFilter /\ block # NoFilter -> {}

\* Mutant: the filter by block is forgotten.
filter_by_identifier(entry, identifier, block) ==
  identifier # NoFilter => entry[1] = identifier

filter_remote_ppoi_messages(entry, identifier, block) ==
  /\ identifier # NoFilter => entry[1] = identifier
  /\ block # NoFilter => entry[2].block = block

\* All the messages are read, then filtered.
remote_ppoi_messages_filtered(table, identifier, block) ==
  {x \in get_remote_ppoi_messages(table) :
     filter_remote_ppoi_messages(x, identifier, block)}

-----------------------------------------------------------------------------
(* comparison_ratio *)

\* The row send_poi_message inserts: without stake and without senders.  Its
\* time, which no ratio reads, is left out.
LocalAttestation(x) ==
  [ppoi |-> x, stake |-> 0, senders |-> <<>>, timestamp |-> <<>>]

\* Attestation::update with the local indexer as the sender; here, too, the
\* time is left out.
WithLocal(a) ==
  [a EXCEPT !.stake = @ + LocalStake, !.senders = Append(@, LocalSender)]

\* One turn of the loop: an attestation the update refuses, because the local
\* indexer is among its senders already, is dropped.
Join(kept, a, x) ==
  IF a.ppoi # x THEN Append(kept, a)
  ELSE IF Contains(a.senders, LocalSender) THEN kept
  ELSE Append(kept, WithLocal(a))

Joined(atts, x) == FoldLeft(LAMBDA kept, a : Join(kept, a, x), <<>>, atts)

\* Mutant: `matched` is never set.
AggregateUnmatched(atts, x) ==
  IF x = NoPpoi THEN atts ELSE Append(Joined(atts, x), LocalAttestation(x))

\* aggregate_attestation: the local ppoi joins the attestation it agrees with,
\* or is one of its own.
aggregate_attestation(atts, x) ==
  IF x = NoPpoi THEN atts
  ELSE IF \E i \in DOMAIN atts : atts[i].ppoi = x THEN Joined(atts, x)
  ELSE Append(Joined(atts, x), LocalAttestation(x))

Share(a, x) ==
  IF a.ppoi = x
  THEN [stake |-> a.stake + LocalStake, senders |-> Len(a.senders) + 1,
        starred |-> TRUE]
  ELSE [stake |-> a.stake, senders |-> Len(a.senders), starred |-> FALSE]

\* The order of a stable sort by stake, descending.
Precedes(atts, i, j) ==
  \/ atts[i].stake > atts[j].stake
  \/ atts[i].stake = atts[j].stake /\ i < j

Place(atts, i) == Cardinality({j \in DOMAIN atts : Precedes(atts, j, i)}) + 1

\* The attestations in that order.  (SortSeq of the library is no definite
\* sequence when two have the same stake.)
ByStake(atts) ==
  [k \in DOMAIN atts |-> atts[CHOOSE i \in DOMAIN atts : Place(atts, i) = k]]

\* calc_ratios: sorted by stake, descending; the local entry is starred, and is
\* all zero if there is no local attestation.
calc_ratios(atts, x) ==
  LET sorted == ByStake(atts)
      shares == [i \in DOMAIN sorted |-> Share(sorted[i], x)]
  IN IF x = NoPpoi
     THEN Append(shares, [stake |-> 0, senders |-> 0, starred |-> TRUE])
     ELSE shares
=============================================================================
