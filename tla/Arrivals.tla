------------------------------ MODULE Arrivals ------------------------------
(***************************************************************************)
(* The messages of one deployment and one block arrive one by one, in any  *)
(* order and with repetitions; the properties compare what the Rust loops  *)
(* make of them with definitions over sets.                                *)
(*                                                                         *)
(* The nonce of a message stands for the moment it is made: a later one    *)
(* for a later message.  The loops copy it and never compare it.           *)
(***************************************************************************)
EXTENDS ApiViews

CONSTANT MaxMessages

VARIABLE msgs

Init == msgs = <<>>

\* A message is stored; bound: the messages.
Arrive(s, x) ==
  /\ Len(msgs) < MaxMessages
  /\ msgs' = Append(msgs, [sender |-> s, ppoi |-> x, nonce |-> Len(msgs)])

Next == \E s \in Senders, x \in Ppois : Arrive(s, x)

Spec == Init /\ [][Next]_msgs

Messages == ToSet(msgs)
Attested == process_ppoi_message(msgs)
Voters(x) == {s \in Senders : \E m \in Messages : m.sender = s /\ m.ppoi = x}

\* process_ppoi_message makes one attestation for each ppoi that was sent, and
\* its weight is the stake of the distinct senders of that ppoi: neither the
\* order of the messages nor their repetition changes a weight.
WeightIsStakeOfSenders ==
  /\ {Attested[i].ppoi : i \in DOMAIN Attested} = {m.ppoi : m \in Messages}
  /\ \A i, j \in DOMAIN Attested :
       Attested[i].ppoi = Attested[j].ppoi => i = j
  /\ \A i \in DOMAIN Attested :
       /\ ToSet(Attested[i].senders) = Voters(Attested[i].ppoi)
       /\ Attested[i].stake = StakeOf(Voters(Attested[i].ppoi))

\* The time an attestation keeps for a sender is that of the first message of
\* the sender that carries its ppoi, as Attestation::update refuses a sender it
\* has: the times handed out with a result are those of the first messages.
TimesAreOfFirstMessages ==
  \A i \in DOMAIN Attested :
    LET a == Attested[i] IN
    /\ Len(a.senders) = Len(a.timestamp)
    /\ \A k \in DOMAIN a.senders :
         LET own == {m \in Messages : m.sender = a.senders[k] /\ m.ppoi = a.ppoi}
         IN /\ a.timestamp[k] \in {m.nonce : m \in own}
            /\ \A m \in own : a.timestamp[k] <= m.nonce

\* A verdict is never invented: Match needs a sender that agrees with the local
\* ppoi, Divergent one that does not, NotFound that nobody answered; and a
\* unanimous answer is never read the other way round.
VerdictHasWitness ==
  \A x \in Ppois :
    LET v == compare_attestations(x, Attested) IN
    /\ v = "NotFound" <=> msgs = <<>>
    /\ v = "Match" => Voters(x) # {}
    /\ v = "Divergent" => \E y \in Ppois \ {x} : Voters(y) # {}
    /\ (msgs # <<>> /\ \A m \in Messages : m.ppoi = x) => v = "Match"

\* The API's comparison of one block, which is made anew for every query, is
\* drawn from the attestation with most stake: a ppoi with strictly more stake
\* behind it than every other one is the only one that is answered Match.
ApiTopDecides ==
  \A x, y \in Ppois :
    Voters(x) # {} /\ (\A z \in Ppois \ {x} : StakeOf(Voters(z)) < StakeOf(Voters(x)))
      => (compare_attestation(y, Attested) = "Match" <=> y = x)

\* The ratio the API gives for a result shows each ppoi once, in the order of
\* their stakes without the local one, and stars exactly the local one.  A local
\* ppoi that nobody else sent has this indexer behind it, once, with its stake.
RatioShowsEachPpoi ==
  \A x \in Ppois \cup {NoPpoi} :
    LET ratio == calc_ratios(aggregate_attestation(Attested, x), x)
        sent == {m.ppoi : m \in Messages}
    IN /\ Len(ratio) = Cardinality(sent \cup {x})
       /\ Cardinality({i \in DOMAIN ratio : ratio[i].starred}) = 1
       /\ \A i, j \in DOMAIN ratio :
            i < j /\ ~ratio[i].starred /\ ~ratio[j].starred
              => ratio[i].stake >= ratio[j].stake
       /\ \A y \in sent \ {x} : \E i \in DOMAIN ratio :
            /\ ~ratio[i].starred
            /\ ratio[i].stake = StakeOf(Voters(y))
            /\ ratio[i].senders = Cardinality(Voters(y))
       /\ x \in Ppois \ sent => \E i \in DOMAIN ratio :
            ratio[i] = [stake |-> LocalStake, senders |-> 1, starred |-> TRUE]

\* What the comment of compare_attestations says: the local attestation is
\* compared "to the top-attested one from the remote attestations", so a ppoi
\* with strictly more stake than every other one decides.
TopAttestedDecides ==
  \A x \in Ppois :
    (\A y \in Ppois \ {x} : StakeOf(Voters(y)) < StakeOf(Voters(x)))
      => compare_attestations(x, Attested) = "Match"
=============================================================================
