---------------------------- MODULE Attestations ----------------------------
(***************************************************************************)
(* The pure part of operator/attestation.rs: how the messages collected    *)
(* for one deployment and one block are grouped into attestations, and how *)
(* the local proof of indexing is judged against them.                     *)
(*                                                                         *)
(* A message is [sender, block, ppoi, nonce]; an attestation groups the    *)
(* messages that carry the same ppoi: [ppoi, stake, senders, timestamp].   *)
(* The stake of a sender is what the network subgraph answers for it; it   *)
(* is a constant of one comparison.                                        *)
(***************************************************************************)
EXTENDS Integers, Sequences, SequencesExt

CONSTANTS Senders, Ppois, Stake

ASSUME StakeAssumption == Stake \in [Senders -> Nat]

AttestationOf(m) ==
  [ppoi |-> m.ppoi, stake |-> Stake[m.sender],
   senders |-> <<m.sender>>, timestamp |-> <<m.nonce>>]

\* Mutant: the check of the sender is forgotten.
UpdateAlways(a, m) ==
  [a EXCEPT !.stake = @ + Stake[m.sender],
            !.senders = Append(@, m.sender),
            !.timestamp = Append(@, m.nonce)]

\* Mutant: the time of a repeated message replaces the first.
UpdateToLatest(a, m) ==
  IF Contains(a.senders, m.sender)
  THEN [a EXCEPT !.timestamp =
          [k \in DOMAIN @ |-> IF a.senders[k] = m.sender THEN m.nonce ELSE @[k]]]
  ELSE [a EXCEPT !.stake = @ + Stake[m.sender],
                 !.senders = Append(@, m.sender),
                 !.timestamp = Append(@, m.nonce)]

\* Attestation::update, and its Err that process_ppoi_message ignores: a sender
\* counts once in an attestation, its first message being the one kept.
Update(a, m) ==
  IF Contains(a.senders, m.sender)
  THEN a
  ELSE [a EXCEPT !.stake = @ + Stake[m.sender],
                 !.senders = Append(@, m.sender),
                 !.timestamp = Append(@, m.nonce)]

\* One turn of the loop of process_ppoi_message.
AddMessage(atts, m) ==
  LET same == {i \in DOMAIN atts : atts[i].ppoi = m.ppoi}
  IN IF same = {}
     THEN Append(atts, AttestationOf(m))
     ELSE LET first == CHOOSE i \in same : \A j \in same : i <= j
          IN [atts EXCEPT ![first] = Update(@, m)]

\* The attestations of one deployment and one block, in the order their first
\* messages were read.
process_ppoi_message(msgs) == FoldLeft(AddMessage, <<>>, msgs)

\* The stake of a set of senders, for the properties.
StakeOf(S) == FoldSet(LAMBDA s, n : Stake[s] + n, 0, S)

\* Mutant: compare_attestation sorts as compare_attestations does.
LeastIndex(atts) ==
  CHOOSE i \in DOMAIN atts : \A j \in DOMAIN atts :
     \/ atts[i].stake < atts[j].stake
     \/ atts[j].stake = atts[i].stake /\ j <= i

\* compare_attestation takes the attestation with most stake (and so, says its
\* comment, does compare_attestations).
TopIndex(atts) ==
  CHOOSE i \in DOMAIN atts : \A j \in DOMAIN atts :
     \/ atts[j].stake < atts[i].stake
     \/ atts[j].stake = atts[i].stake /\ j <= i

\* compare_attestations sorts by stake, DESCENDING and stably, and takes the
\* last: the attestation with least stake, the last of them on a tie.
DecidingIndex(atts) ==
  CHOOSE i \in DOMAIN atts : \A j \in DOMAIN atts :
     \/ atts[i].stake < atts[j].stake
     \/ atts[j].stake = atts[i].stake /\ j <= i

ResultType == {"NotFound", "Divergent", "Match"}

\* Mutant: nobody having answered counts as agreement.
SilenceMatches(ppoi, atts) ==
  IF atts = <<>> THEN "Match"
  ELSE IF atts[DecidingIndex(atts)].ppoi = ppoi THEN "Match" ELSE "Divergent"

\* compare_attestations, called with Some(local) by poi_message_comparison.
compare_attestations(ppoi, atts) ==
  IF atts = <<>> THEN "NotFound"
  ELSE IF atts[DecidingIndex(atts)].ppoi = ppoi THEN "Match" ELSE "Divergent"

\* compare_attestation, which the HTTP server calls: it sorts ASCENDING and
\* takes the last, the attestation with most stake.  It panics on an empty
\* list, so it is defined on non-empty ones only.
compare_attestation(ppoi, atts) ==
  IF atts[TopIndex(atts)].ppoi = ppoi THEN "Match" ELSE "Divergent"
=============================================================================
