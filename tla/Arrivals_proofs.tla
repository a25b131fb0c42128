--------------------------- MODULE Arrivals_proofs ---------------------------
(***************************************************************************)
(* Proofs about the attestations gathered from messages (Arrivals) and what *)
(* is made of them: the deciding attestation, the verdict of a comparison   *)
(* and the ratios of the API.                                               *)
(***************************************************************************)
EXTENDS Arrivals, Attestations_proofs

-----------------------------------------------------------------------------
(* The invariant. *)

Message == [sender : Senders, ppoi : Ppois, nonce : Nat]

\* The nonces are the moments of the messages.
MsgsOK ==
  /\ msgs \in Seq(Message)
  /\ \A k \in DOMAIN msgs : msgs[k].nonce = k - 1

AttInv == MsgsOK /\ Grouped(Attested, msgs)

LEMMA MessagesSpeak == \A m \in Message : Speaks(m)
  BY DEF Message, Speaks

LEMMA MsgsInit == Init => MsgsOK
  BY DEF Init, MsgsOK

LEMMA MsgsNext == MsgsOK /\ [Next]_msgs => MsgsOK'
  <1> SUFFICES ASSUME MsgsOK, [Next]_msgs PROVE MsgsOK'
    OBVIOUS
  <1>1. CASE UNCHANGED msgs
    BY <1>1 DEF MsgsOK
  <1>2. ASSUME NEW s \in Senders, NEW x \in Ppois, Arrive(s, x)
        PROVE  MsgsOK'
    <2> DEFINE m == [sender |-> s, ppoi |-> x, nonce |-> Len(msgs)]
    <2>1. msgs \in Seq(Message) /\ Len(msgs) \in Nat /\ m \in Message
      BY DEF MsgsOK, Message
    <2>2. msgs' = Append(msgs, m) /\ m.nonce = Len(msgs)
      BY <1>2 DEF Arrive
    <2> HIDE DEF m
    <2>3. /\ msgs' \in Seq(Message) /\ DOMAIN msgs' = 1..(Len(msgs) + 1)
          /\ \A k \in 1..Len(msgs) : msgs'[k] = msgs[k]
          /\ msgs'[Len(msgs) + 1] = m
      BY <2>1, <2>2
    <2>4. \A k \in DOMAIN msgs' : k \in 1..Len(msgs) \/ k = Len(msgs) + 1
      BY <2>1, <2>3
    <2>5. \A k \in 1..Len(msgs) : msgs[k].nonce = k - 1
      BY <2>1 DEF MsgsOK
    <2>6. Len(msgs) + 1 - 1 = Len(msgs)
      BY <2>1
    <2>7. ASSUME NEW k \in DOMAIN msgs' PROVE msgs'[k].nonce = k - 1
      <3>1. CASE k \in 1..Len(msgs)
        BY <2>3, <2>5, <3>1
      <3>2. CASE k = Len(msgs) + 1
        <4>1. msgs'[k] = m /\ k - 1 = Len(msgs)
          BY <2>1, <2>3, <3>2
        <4>2. m.nonce = Len(msgs)
          BY <2>2
        <4> QED
          BY <4>1, <4>2
      <3> QED
        BY <2>4, <3>1, <3>2
    <2> QED
      BY <2>3, <2>7 DEF MsgsOK
  <1> QED
    BY <1>1, <1>2 DEF Next

LEMMA AttInvAlways == Spec => []AttInv
  <1>1. MsgsOK => AttInv
    <2> SUFFICES ASSUME MsgsOK PROVE AttInv
      OBVIOUS
    <2>1. msgs \in Seq(Message)
      BY DEF MsgsOK
    <2>2. Grouped(process_ppoi_message(msgs), msgs)
      BY <2>1, MessagesSpeak, ProcessGrouped
    <2> QED
      BY <2>2 DEF AttInv, Attested
  <1> QED
    BY <1>1, MsgsInit, MsgsNext, PTL DEF Spec

LEMMA VotersAre == \A x : Voters(x) = VotersIn(msgs, x)
  BY DEF Voters, VotersIn, Messages

\* Whatever is sent, in any order and repeated, the weight of a ppoi is the stake
\* of its distinct senders.
THEOREM WeightsRight == Spec => []WeightIsStakeOfSenders
  <1>1. AttInv => WeightIsStakeOfSenders
    BY VotersAre DEF AttInv, Grouped, Accounts, WeightIsStakeOfSenders, Messages
  <1> QED
    BY <1>1, AttInvAlways, PTL

\* The time kept of a sender is that of its first message for the ppoi.
THEOREM TimesRight == Spec => []TimesAreOfFirstMessages
  <1>1. ASSUME AttInv, NEW i \in DOMAIN Attested, NEW k \in DOMAIN Attested[i].senders
        PROVE  LET a == Attested[i]
                   own == {m \in Messages : m.sender = a.senders[k] /\ m.ppoi = a.ppoi}
               IN /\ a.timestamp[k] \in {m.nonce : m \in own}
                  /\ \A m \in own : a.timestamp[k] <= m.nonce
    <2> DEFINE a == Attested[i]
               s == a.senders[k]
               own == {m \in Messages : m.sender = s /\ m.ppoi = a.ppoi}
    <2>1. FirstTime(a.timestamp[k], s, a.ppoi, msgs)
      BY <1>1 DEF AttInv, Grouped, Accounts
    <2>2. /\ msgs \in Seq(Message) /\ DOMAIN msgs = 1..Len(msgs) /\ Len(msgs) \in Nat
          /\ \A j \in DOMAIN msgs : msgs[j].nonce = j - 1
      BY <1>1 DEF AttInv, MsgsOK
    <2> HIDE DEF a, s
    <2>3. PICK j \in DOMAIN msgs :
            /\ msgs[j].sender = s /\ msgs[j].ppoi = a.ppoi /\ msgs[j].nonce = a.timestamp[k]
            /\ \A l \in 1..(j-1) : ~(msgs[l].sender = s /\ msgs[l].ppoi = a.ppoi)
      BY <2>1 DEF FirstTime
    <2>4. msgs[j] \in own
      BY <2>3 DEF Messages, ToSet
    <2>5. ASSUME NEW m \in own PROVE a.timestamp[k] <= m.nonce
      <3>1. PICK l \in DOMAIN msgs : msgs[l] = m
        BY DEF Messages, ToSet
      <3>2. l \notin 1..(j-1)
        BY <2>3, <3>1
      <3>3. j - 1 <= l - 1
        BY <2>2, <3>2
      <3> QED
        BY <2>2, <2>3, <3>1, <3>3
    <2> QED
      BY <2>3, <2>4, <2>5 DEF a, s
  <1>2. AttInv => \A i \in DOMAIN Attested : Len(Attested[i].senders) = Len(Attested[i].timestamp)
    BY DEF AttInv, Grouped, Accounts
  <1>3. AttInv => TimesAreOfFirstMessages
    BY <1>1, <1>2 DEF TimesAreOfFirstMessages
  <1> QED
    BY <1>3, AttInvAlways, PTL

\* What decides is an attestation that is there, with the voters it has.
LEMMA AttestedFacts ==
  ASSUME AttInv
  PROVE  /\ Attested \in Seq(Attestation)
         /\ Attested = <<>> <=> msgs = <<>>
         /\ \A i \in DOMAIN Attested :
              /\ Voters(Attested[i].ppoi) # {}
              /\ Attested[i].ppoi \in Ppois
              /\ \E m \in Messages : m.ppoi = Attested[i].ppoi
              /\ Attested[i].stake = StakeOf(Voters(Attested[i].ppoi))
         /\ \A x : Voters(x) # {} => \E i \in DOMAIN Attested : Attested[i].ppoi = x
  <1>1. Attested \in Seq(Attestation) /\ msgs \in Seq(Message)
    BY DEF AttInv, Grouped, MsgsOK
  <1>2. {Attested[i].ppoi : i \in DOMAIN Attested} = {m.ppoi : m \in Messages}
    BY DEF AttInv, Grouped, Messages
  <1>3. \A m \in Messages : m.sender \in Senders
    <2>1. \A m \in Messages : m \in Message
      BY <1>1 DEF Messages, ToSet
    <2> QED
      BY <2>1 DEF Message
  <1>4. Messages = {} <=> msgs = <<>>
    <2>1. DOMAIN msgs = 1..Len(msgs) /\ Len(msgs) \in Nat /\ (Len(msgs) = 0 <=> msgs = <<>>)
      BY <1>1
    <2>2. msgs # <<>> => 1 \in DOMAIN msgs
      BY <2>1
    <2>3. msgs = <<>> => DOMAIN msgs = {}
      BY <2>1
    <2>4. Messages = {} <=> DOMAIN msgs = {}
      BY DEF Messages, ToSet
    <2> QED
      BY <2>2, <2>3, <2>4
  <1>5. DOMAIN Attested = {} <=> Attested = <<>>
    <2>1. /\ DOMAIN Attested = 1..Len(Attested) /\ Len(Attested) \in Nat
          /\ (Len(Attested) = 0 <=> Attested = <<>>)
      BY <1>1
    <2> QED
      BY <2>1
  <1>6. Attested = <<>> <=> msgs = <<>>
    BY <1>2, <1>4, <1>5
  <1>7. ASSUME NEW i \in DOMAIN Attested
        PROVE  /\ Voters(Attested[i].ppoi) # {}
               /\ Attested[i].ppoi \in Ppois
               /\ \E m \in Messages : m.ppoi = Attested[i].ppoi
               /\ Attested[i].stake = StakeOf(Voters(Attested[i].ppoi))
    <2>1. PICK m \in Messages : m.ppoi = Attested[i].ppoi
      BY <1>2
    <2>2. m.sender \in Voters(Attested[i].ppoi)
      BY <1>3, <2>1 DEF Voters
    <2>3. Attested[i] \in Attestation
      BY <1>1
    <2>4. Attested[i].ppoi \in Ppois
      BY <2>3 DEF Attestation
    <2>5. Attested[i].stake = StakeOf(VotersIn(msgs, Attested[i].ppoi))
      BY DEF AttInv, Grouped, Accounts
    <2> QED
      BY <2>1, <2>2, <2>4, <2>5, VotersAre
  <1>8. ASSUME NEW x, Voters(x) # {}
        PROVE  \E i \in DOMAIN Attested : Attested[i].ppoi = x
    BY <1>2, <1>8 DEF Voters
  <1> QED
    BY <1>1, <1>6, <1>7, <1>8

\* No verdict without a witness, whatever decides among several ppois.
THEOREM VerdictsWitnessed == Spec => []VerdictHasWitness
  <1>1. ASSUME AttInv, NEW x \in Ppois
        PROVE  LET v == compare_attestations(x, Attested) IN
               /\ v = "NotFound" <=> msgs = <<>>
               /\ v = "Match" => Voters(x) # {}
               /\ v = "Divergent" => \E y \in Ppois \ {x} : Voters(y) # {}
               /\ (msgs # <<>> /\ \A m \in Messages : m.ppoi = x) => v = "Match"
    <2>1. CASE Attested = <<>>
      BY <1>1, <2>1, AttestedFacts DEF compare_attestations
    <2>2. CASE Attested # <<>>
      <3> DEFINE i == DecidingIndex(Attested)
      <3>1. i \in DOMAIN Attested
        BY <1>1, <2>2, AttestedFacts, DecidingExists
      <3>2. compare_attestations(x, Attested)
              = IF Attested[i].ppoi = x THEN "Match" ELSE "Divergent"
        BY <2>2 DEF compare_attestations
      <3> HIDE DEF i
      <3>3. /\ Voters(Attested[i].ppoi) # {} /\ Attested[i].ppoi \in Ppois /\ msgs # <<>>
            /\ \E m \in Messages : m.ppoi = Attested[i].ppoi
        BY <1>1, <2>2, <3>1, AttestedFacts
      <3> QED
        BY <3>2, <3>3
    <2> QED
      BY <2>1, <2>2
  <1>2. AttInv => VerdictHasWitness
    BY <1>1 DEF VerdictHasWitness
  <1> QED
    BY <1>2, AttInvAlways, PTL

\* The API answers Match for the ppoi with most stake behind it and no other.
THEOREM TopDecidesInApi == Spec => []ApiTopDecides
  <1>1. ASSUME AttInv, NEW x \in Ppois, NEW y \in Ppois, Voters(x) # {},
               \A z \in Ppois \ {x} : StakeOf(Voters(z)) < StakeOf(Voters(x))
        PROVE  compare_attestation(y, Attested) = "Match" <=> y = x
    <2> DEFINE t == TopIndex(Attested)
    <2>1. PICK i \in DOMAIN Attested : Attested[i].ppoi = x
      BY <1>1, AttestedFacts
    <2>2. Attested \in Seq(Attestation) /\ Attested # <<>>
      BY <1>1, <2>1, AttestedFacts
    <2>3. t \in DOMAIN Attested /\ Attested[i].stake <= Attested[t].stake
      BY <2>1, <2>2, TopExists
    <2> HIDE DEF t
    <2>4. /\ Attested[t].ppoi \in Ppois
          /\ Attested[t].stake = StakeOf(Voters(Attested[t].ppoi))
          /\ Attested[i].stake = StakeOf(Voters(x))
      BY <1>1, <2>1, <2>3, AttestedFacts
    <2>5. Attested[i].stake \in Nat /\ Attested[t].stake \in Nat
      <3>1. Attested[i] \in Attestation /\ Attested[t] \in Attestation
        BY <2>1, <2>2, <2>3
      <3> QED
        BY <3>1 DEF Attestation
    <2>6. Attested[t].ppoi = x
      <3> SUFFICES ASSUME Attested[t].ppoi # x PROVE FALSE
        OBVIOUS
      <3>1. StakeOf(Voters(Attested[t].ppoi)) < StakeOf(Voters(x))
        BY <1>1, <2>4
      <3> QED
        BY <2>3, <2>4, <2>5, <3>1
    <2> QED
      BY <2>6 DEF compare_attestation, t
  <1>2. AttInv => ApiTopDecides
    BY <1>1 DEF ApiTopDecides
  <1> QED
    BY <1>2, AttInvAlways, PTL

-----------------------------------------------------------------------------
(* The ratio of the API. *)

LEMMA JoinFolds ==
  ASSUME NEW M, NEW s \in Seq(M), NEW x
  PROVE  \E g : Folds(Joining(x, LocalSender, LocalStake), g, s) /\ Joined(s, x) = g[1..Len(s)]
  <1> DEFINE Rec(g) == g = [T \in SUBSET (1..Len(s)) |->
                              IF T = {} THEN <<>>
                              ELSE Join(g[T \ {Max(T)}], s[Max(T)], x)]
             c == CHOOSE g : Rec(g)
             w == Joining(x, LocalSender, LocalStake)
  <1>1. DOMAIN s = 1..Len(s)
    OBVIOUS
  <1>2. Joined(s, x) = c[1..Len(s)]
    BY <1>1 DEF Joined, FoldLeft, MapThenFoldSet
  <1>3. \A acc, e : Turn(w, acc, e) = Join(acc, e, x)
    BY DEF Turn, Joining, Join, WithLocal
  <1> HIDE DEF w
  <1>4. ASSUME NEW g PROVE Folds(w, g, s) <=> Rec(g)
    BY <1>3 DEF Folds, FoldsTo
  <1>5. \E g : Rec(g)
    BY <1>4, FoldExists
  <1> HIDE DEF Rec
  <1>6. Rec(c)
    BY <1>5
  <1> QED
    BY <1>2, <1>4, <1>6 DEF w

\* The local indexer is the sender of no message, and so nothing is dropped.
LEMMA JoinedIs ==
  ASSUME NEW atts \in Seq(Attestation), NEW x
  PROVE  Joined(atts, x)
           = [i \in 1..Len(atts) |->
                IF atts[i].ppoi = x THEN WithLocal(atts[i]) ELSE atts[i]]
  <1> DEFINE n == Len(atts)
             J(i) == IF atts[i].ppoi = x THEN WithLocal(atts[i]) ELSE atts[i]
             Upto(k) == [i \in 1..k |-> J(i)]
             w == Joining(x, LocalSender, LocalStake)
  <1>1. PICK g : Folds(w, g, atts) /\ Joined(atts, x) = g[1..n]
    BY JoinFolds
  <1>2. n \in Nat
    OBVIOUS
  <1>3. ASSUME NEW i \in 1..n, NEW kept
        PROVE  Turn(w, kept, atts[i]) = Append(kept, J(i))
    <2>1. Turn(w, kept, atts[i]) = Join(kept, atts[i], x)
      BY DEF Turn, Joining, Join, WithLocal
    <2>2. ~Contains(atts[i].senders, LocalSender)
      <3>1. atts[i] \in Attestation
        OBVIOUS
      <3>2. atts[i].senders \in Seq(Senders)
        BY <3>1 DEF Attestation
      <3> QED
        BY <3>2, LocalSenderAssumption DEF Contains
    <2> QED
      BY <2>1, <2>2 DEF Join
  <1> HIDE DEF J, w
  <1> DEFINE Bad == {k \in 0..n : g[1..k] # Upto(k)}
  <1> SUFFICES ASSUME Bad # {} PROVE FALSE
    <2>1. n \in 0..n
      BY <1>2
    <2> QED
      BY <1>1, <2>1 DEF J
  <1>4. PICK k \in Bad : \A m \in Bad : k <= m
    <2> Bad \in SUBSET Nat
      OBVIOUS
    <2> HIDE DEF Bad
    <2> QED
      BY LeastNat
  <1>5. k \in 0..n /\ g[1..k] # Upto(k)
    OBVIOUS
  <1>6. k # 0
    <2> SUFFICES ASSUME k = 0 PROVE FALSE
      OBVIOUS
    <2>1. 1..0 = {}
      OBVIOUS
    <2>2. g[{}] = <<>>
      BY <1>1, <1>2, FoldsEmpty
    <2>3. Upto(0) = <<>>
      BY <2>1
    <2> QED
      BY <1>5, <2>1, <2>2, <2>3
  <1>7. g[1..(k-1)] = Upto(k-1)
    <2>1. k - 1 \in 0..n /\ ~(k <= k - 1)
      BY <1>2, <1>5, <1>6
    <2>2. k - 1 \notin Bad
      BY <1>4, <2>1
    <2> QED
      BY <2>1, <2>2
  <1> HIDE DEF Bad
  <1>8. g[1..k] = Turn(w, g[1..(k-1)], atts[k])
    <2> DEFINE U == 1..k
    <2>1. U \in SUBSET (1..Len(atts)) /\ k \in U /\ \A j \in U : j <= k
      BY <1>2, <1>5, <1>6
    <2>2. U \ {k} = 1..(k-1)
      BY <1>5, <1>6
    <2> HIDE DEF U
    <2>3. Max(U) = k
      BY <1>2, <2>1, MaxIs
    <2>4. g[U] = Turn(w, g[U \ {k}], atts[k])
      BY <1>1, <2>1, <2>3 DEF Folds, FoldsTo
    <2> QED
      BY <2>2, <2>4 DEF U
  <1>9. g[1..k] = Append(Upto(k-1), J(k))
    <2>1. k \in 1..n
      BY <1>2, <1>5, <1>6
    <2> HIDE DEF Upto
    <2>2. Turn(w, Upto(k-1), atts[k]) = Append(Upto(k-1), J(k))
      BY <1>3, <2>1
    <2> QED
      BY <1>7, <1>8, <2>2
  <1>10. Append(Upto(k-1), J(k)) = Upto(k)
    <2> DEFINE R == {J(i) : i \in 1..n}
               s == Upto(k-1)
               t == Upto(k)
    <2>1. k - 1 \in Nat /\ k \in 1..n /\ 1..(k-1) \subseteq 1..n /\ 1..k \subseteq 1..n
      BY <1>2, <1>5, <1>6
    <2>2. s \in [1..(k-1) -> R] /\ t \in [1..k -> R] /\ J(k) \in R
      BY <2>1
    <2>3. s \in Seq(R) /\ t \in Seq(R) /\ Len(s) = k - 1 /\ Len(t) = k
      <3>1. k \in Nat
        BY <2>1
      <3> HIDE DEF s, t
      <3> QED
        BY <2>1, <2>2, <3>1, FunctionIsSeq
    <2>4. Append(s, J(k)) \in Seq(R) /\ Len(Append(s, J(k))) = k
      BY <2>1, <2>2, <2>3, AppendProperties
    <2>5. ASSUME NEW i \in 1..k PROVE Append(s, J(k))[i] = t[i]
      <3>1. CASE i = k
        BY <2>1, <2>2, <2>3, <3>1, AppendProperties
      <3>2. CASE i # k
        <4>1. i \in 1..(k-1)
          BY <2>1, <3>2
        <4> QED
          BY <2>1, <2>2, <2>3, <4>1, AppendProperties
      <3> QED
        BY <3>1, <3>2
    <2> HIDE DEF s, t, R, Upto
    <2> QED
      BY <2>3, <2>4, <2>5, SeqEqual DEF s, t
  <1> QED
    BY <1>5, <1>9, <1>10

\* The order of the sort is total, and so every attestation has a place of its
\* own; the stakes descend.
LEMMA ByStakeOrdered ==
  ASSUME NEW n \in Nat, NEW A, DOMAIN A = 1..n, \A i \in 1..n : A[i].stake \in Nat
  PROVE  \E pos \in [1..n -> 1..n] :
           /\ ByStake(A) = [k \in 1..n |-> A[pos[k]]]
           /\ \A i \in 1..n : \E k \in 1..n : pos[k] = i
           /\ \A k, l \in 1..n : pos[k] = pos[l] => k = l
           /\ \A k, l \in 1..n : k < l => A[pos[k]].stake >= A[pos[l]].stake
  <1> DEFINE R == {p \in (1..n) \X (1..n) : Precedes(A, p[1], p[2])}
  <1>1. \A i, j \in 1..n : <<i, j>> \in R <=> Precedes(A, i, j)
    OBVIOUS
  <1>2. \A i \in 1..n : ~Precedes(A, i, i)
    BY DEF Precedes
  <1>3. \A i, j, k \in 1..n : Precedes(A, i, j) /\ Precedes(A, j, k) => Precedes(A, i, k)
    BY DEF Precedes
  <1>4. \A i, j \in 1..n : Precedes(A, i, j) => A[i].stake >= A[j].stake
    BY DEF Precedes
  <1>5. IsFiniteSet(1..n) /\ Cardinality(1..n) = n
    <2>1. 1 \in Int /\ n \in Int /\ (1 > n => n = 0) /\ n - 1 + 1 = n
      OBVIOUS
    <2> QED
      BY <2>1, FS_Interval
  <1>6. \A i, j \in 1..n : i # j => Precedes(A, i, j) \/ Precedes(A, j, i)
    BY DEF Precedes
  <1>7. \A i \in 1..n : Place(A, i) = Rank(1..n, R, i)
    <2> SUFFICES ASSUME NEW i \in 1..n PROVE Place(A, i) = Rank(1..n, R, i)
      OBVIOUS
    <2>1. {j \in DOMAIN A : Precedes(A, j, i)} = {j \in 1..n : <<j, i>> \in R}
      BY <1>1
    <2> QED
      BY <2>1 DEF Place, Rank
  <1>8. /\ \A i \in 1..n : Rank(1..n, R, i) \in 1..n
        /\ \A i, j \in 1..n : <<i, j>> \in R => Rank(1..n, R, i) < Rank(1..n, R, j)
        /\ \A i, j \in 1..n : Rank(1..n, R, i) = Rank(1..n, R, j) => i = j
        /\ \A k \in 1..n : \E i \in 1..n : Rank(1..n, R, i) = k
    <2> HIDE DEF R
    <2>1. Orders(R, 1..n)
      BY <1>1, <1>2, <1>3, <1>6 DEF Orders
    <2> DEFINE S == 1..n
    <2>4. IsFiniteSet(S) /\ Cardinality(S) = n /\ Orders(R, S)
      BY <1>5, <2>1
    <2> HIDE DEF S
    <2>5. /\ \A i \in S : Rank(S, R, i) \in 1..Cardinality(S)
          /\ \A i, j \in S : <<i, j>> \in R => Rank(S, R, i) < Rank(S, R, j)
          /\ \A i, j \in S : Rank(S, R, i) = Rank(S, R, j) => i = j
          /\ \A k \in 1..Cardinality(S) : \E i \in S : Rank(S, R, i) = k
      BY <2>4, Ranked
    <2> QED
      BY <2>4, <2>5 DEF S
  <1>r. \A i, j \in 1..n : Precedes(A, i, j) => Place(A, i) < Place(A, j)
    <2> HIDE DEF R
    <2> SUFFICES ASSUME NEW i \in 1..n, NEW j \in 1..n, Precedes(A, i, j)
                 PROVE  Place(A, i) < Place(A, j)
      OBVIOUS
    <2>1. Rank(1..n, R, i) < Rank(1..n, R, j)
      BY <1>1, <1>8
    <2> QED
      BY <1>7, <2>1
  <1> HIDE DEF R
  <1>9. \A i \in 1..n : Place(A, i) \in 1..n
    BY <1>7, <1>8
  <1>10. \A i, j \in 1..n : Place(A, i) = Place(A, j) => i = j
    BY <1>7, <1>8
  <1>11. \A k \in 1..n : \E i \in 1..n : Place(A, i) = k
    BY <1>7, <1>8
  <1> DEFINE pos == [k \in 1..n |-> CHOOSE i \in DOMAIN A : Place(A, i) = k]
  <1>12. \A k \in 1..n : pos[k] \in 1..n /\ Place(A, pos[k]) = k
    BY <1>11
  <1>13. ByStake(A) = [k \in 1..n |-> A[pos[k]]]
    BY DEF ByStake
  <1>14. pos \in [1..n -> 1..n]
    BY <1>12
  <1> HIDE DEF pos
  <1>15. \A i \in 1..n : pos[Place(A, i)] = i /\ Place(A, i) \in 1..n
    BY <1>9, <1>10, <1>12
  <1>16. \A k, l \in 1..n : pos[k] = pos[l] => k = l
    BY <1>12
  <1>17. ASSUME NEW k \in 1..n, NEW l \in 1..n, k < l
         PROVE  A[pos[k]].stake >= A[pos[l]].stake
    <2>1. pos[k] \in 1..n /\ pos[l] \in 1..n /\ pos[k] # pos[l]
      BY <1>12, <1>17
    <2>2. ~Precedes(A, pos[l], pos[k])
      <3> SUFFICES ASSUME Precedes(A, pos[l], pos[k]) PROVE FALSE
        OBVIOUS
      <3>1. l < k
        BY <1>r, <1>12, <2>1
      <3> QED
        BY <1>17, <3>1
    <2> QED
      BY <1>4, <1>6, <2>1, <2>2
  <1> QED
    BY <1>13, <1>14, <1>15, <1>16, <1>17

Entry == [ppoi : Ppois, stake : Nat, senders : Seq(Senders \cup {LocalSender}),
          timestamp : Seq(Nat)]

Sent == {m.ppoi : m \in Messages}

\* A has n entries, one for each ppoi sent and for the local one.
Lists(A, n, x) ==
  /\ A \in [1..n -> Entry]
  /\ \A i, j \in 1..n : A[i].ppoi = A[j].ppoi => i = j
  /\ {A[i].ppoi : i \in 1..n} = IF x = NoPpoi THEN Sent ELSE Sent \cup {x}
  /\ \A i \in 1..n : A[i].ppoi # x =>
       /\ A[i].stake = StakeOf(Voters(A[i].ppoi))
       /\ Len(A[i].senders) = Cardinality(Voters(A[i].ppoi))
  /\ x \in Ppois \ Sent =>
       \E i \in 1..n : A[i].ppoi = x /\ A[i].stake = 0 /\ A[i].senders = <<>>

\* What aggregate_attestation makes of the attestations.
LEMMA Aggregated ==
  ASSUME AttInv, NEW x \in Ppois \cup {NoPpoi}
  PROVE  \E n \in Nat : Lists(aggregate_attestation(Attested, x), n, x)
  <1> DEFINE n == Len(Attested)
             A == aggregate_attestation(Attested, x)
             J == Joined(Attested, x)
  <1>1. Attested \in Seq(Attestation)
    BY DEF AttInv, Grouped
  <1>2. /\ n \in Nat /\ DOMAIN Attested = 1..n
        /\ \A i, j \in 1..n : Attested[i].ppoi = Attested[j].ppoi => i = j
        /\ {Attested[i].ppoi : i \in 1..n} = Sent
    <2>1. n \in Nat /\ DOMAIN Attested = 1..n
      BY <1>1
    <2>2. \A i, j \in DOMAIN Attested : Attested[i].ppoi = Attested[j].ppoi => i = j
      BY DEF AttInv, Grouped
    <2>3. {Attested[i].ppoi : i \in DOMAIN Attested} = Sent
      BY DEF AttInv, Grouped, Messages, Sent
    <2> QED
      BY <2>1, <2>2, <2>3
  <1>3. ASSUME NEW i \in 1..n
        PROVE  /\ Attested[i] \in Entry
               /\ Attested[i].stake = StakeOf(Voters(Attested[i].ppoi))
               /\ Len(Attested[i].senders) = Cardinality(Voters(Attested[i].ppoi))
    <2> DEFINE a == Attested[i]
    <2>1. a \in Attestation /\ Accounts(a, msgs)
      BY <1>1, <1>2 DEF AttInv, Grouped
    <2> HIDE DEF a
    <2>2. /\ a.senders \in Seq(Senders) /\ a.timestamp \in Seq(Nat)
          /\ a.ppoi \in Ppois /\ a.stake \in Nat
      BY <2>1 DEF Attestation
    <2>3. a \in Entry
      <3>1. a.senders \in Seq(Senders \cup {LocalSender})
        BY <2>2
      <3> QED
        BY <2>1, <2>2, <3>1 DEF Attestation, Entry
    <2>4. a.stake = StakeOf(Voters(a.ppoi))
      BY <2>1, VotersAre DEF Accounts
    <2>5. Cardinality(Voters(a.ppoi)) = Len(a.senders)
      <3>1. ToSet(a.senders) = Voters(a.ppoi)
        BY <2>1, VotersAre DEF Accounts
      <3>2. \A j, k \in DOMAIN a.senders : a.senders[j] = a.senders[k] => j = k
        BY <2>1 DEF Accounts
      <3>3. Cardinality(ToSet(a.senders)) = Len(a.senders)
        BY <2>2, <3>2, RangeCounted
      <3> QED
        BY <3>1, <3>3
    <2> QED
      BY <2>3, <2>4, <2>5 DEF a
  <1>4. J = [i \in 1..n |->
               IF Attested[i].ppoi = x THEN WithLocal(Attested[i]) ELSE Attested[i]]
    BY <1>1, JoinedIs
  <1>5. \A i \in 1..n : (Attested[i].ppoi # x => J[i] = Attested[i]) /\ J[i].ppoi = Attested[i].ppoi
    <2>1. ASSUME NEW i \in 1..n PROVE WithLocal(Attested[i]).ppoi = Attested[i].ppoi
      <3>1. Attested[i] \in Entry
        BY <1>3
      <3> QED
        BY <3>1 DEF WithLocal, Entry
    <2> HIDE DEF J
    <2> QED
      BY <1>4, <2>1
  <1>6. ASSUME NEW i \in 1..n PROVE J[i] \in Entry
    <2> DEFINE a == Attested[i]
    <2>1. a \in Entry
      BY <1>3
    <2> HIDE DEF a
    <2>2. a.stake + LocalStake \in Nat
      BY <2>1, LocalStakeAssumption DEF Entry
    <2>3. Append(a.senders, LocalSender) \in Seq(Senders \cup {LocalSender})
      BY <2>1 DEF Entry
    <2>4. WithLocal(a) \in Entry
      BY <2>1, <2>2, <2>3 DEF WithLocal, Entry
    <2> HIDE DEF J
    <2> QED
      BY <1>4, <2>1, <2>4 DEF a
  <1> HIDE DEF n, J, A
  <1>7. J \in [1..n -> Entry]
    BY <1>4, <1>6
  <1>8. CASE x = NoPpoi
    <2>1. A = Attested
      BY <1>8 DEF aggregate_attestation, A
    <2>2. Attested \in [1..n -> Entry]
      <3>1. Attested = [i \in 1..n |-> Attested[i]]
        BY <1>1, <1>2
      <3> QED
        BY <1>3, <3>1
    <2>3. Lists(Attested, n, x)
      BY <1>2, <1>3, <1>8, <2>2, NoPpoiAssumption DEF Lists
    <2> QED
      BY <1>2, <2>1, <2>3 DEF A
  <1>9. CASE x # NoPpoi /\ \E i \in 1..n : Attested[i].ppoi = x
    <2>1. A = J
      BY <1>2, <1>9 DEF aggregate_attestation, J, A
    <2>2. {J[i].ppoi : i \in 1..n} = Sent \cup {x}
      BY <1>2, <1>5, <1>9
    <2>3. \A i, j \in 1..n : J[i].ppoi = J[j].ppoi => i = j
      BY <1>2, <1>5
    <2>4. \A i \in 1..n : J[i].ppoi # x =>
            /\ J[i].stake = StakeOf(Voters(J[i].ppoi))
            /\ Len(J[i].senders) = Cardinality(Voters(J[i].ppoi))
      BY <1>3, <1>5
    <2>5. Lists(J, n, x)
      <3>1. x \in Sent
        BY <1>2, <1>9
      <3> QED
        BY <1>7, <1>9, <2>2, <2>3, <2>4, <3>1 DEF Lists
    <2> QED
      BY <1>2, <2>1, <2>5 DEF A
  <1>10. CASE x # NoPpoi /\ ~ \E i \in 1..n : Attested[i].ppoi = x
    <2> DEFINE L == LocalAttestation(x)
               B == Append(J, L)
    <2>1. A = B
      BY <1>2, <1>10 DEF aggregate_attestation, J, A
    <2>2. L \in Entry /\ L.ppoi = x /\ L.stake = 0 /\ L.senders = <<>>
      <3>1. x \in Ppois
        BY <1>10
      <3>2. <<>> \in Seq(Senders \cup {LocalSender}) /\ <<>> \in Seq(Nat)
        OBVIOUS
      <3> QED
        BY <3>1, <3>2 DEF LocalAttestation, Entry
    <2> HIDE DEF L
    <2>0. n + 1 \in Nat
      BY <1>2
    <2>3. J \in Seq(Entry) /\ Len(J) = n
      BY <1>2, <1>7, FunctionIsSeq
    <2>4. /\ B \in [1..(n+1) -> Entry]
          /\ \A i \in 1..n : B[i] = J[i]
          /\ B[n+1] = L
      <3>1. B \in Seq(Entry) /\ Len(B) = n + 1
        BY <2>2, <2>3
      <3>2. \A i \in 1..n : B[i] = J[i]
        BY <2>3
      <3>3. B[n+1] = L
        BY <2>3
      <3> HIDE DEF B
      <3>4. B \in [1..(n+1) -> Entry]
        <4> HIDE DEF L
        <4>1. DOMAIN B = 1..Len(B) /\ \A i \in 1..Len(B) : B[i] \in Entry
          BY <3>1
        <4>2. B = [i \in DOMAIN B |-> B[i]]
          BY <3>1
        <4> QED
          BY <3>1, <4>1, <4>2
      <3> QED
        BY <3>2, <3>3, <3>4
    <2>5. 1..(n+1) = 1..n \cup {n+1} /\ n + 1 \in Nat /\ n + 1 \notin 1..n
      BY <1>2
    <2> HIDE DEF B
    <2>6. \A i \in 1..n : B[i].ppoi = Attested[i].ppoi /\ B[i].ppoi # x
      BY <1>5, <1>10, <2>4
    <2>7. {B[i].ppoi : i \in 1..(n+1)} = Sent \cup {x}
      BY <1>2, <2>2, <2>4, <2>5, <2>6
    <2>8. \A i, j \in 1..(n+1) : B[i].ppoi = B[j].ppoi => i = j
      BY <1>2, <2>2, <2>4, <2>5, <2>6
    <2>9. \A i \in 1..(n+1) : B[i].ppoi # x =>
            /\ B[i].stake = StakeOf(Voters(B[i].ppoi))
            /\ Len(B[i].senders) = Cardinality(Voters(B[i].ppoi))
      BY <1>3, <1>5, <1>10, <2>2, <2>4, <2>5
    <2>10. B[n+1].ppoi = x /\ B[n+1].stake = 0 /\ B[n+1].senders = <<>>
      BY <2>2, <2>4
    <2>11. Lists(B, n + 1, x)
      BY <1>10, <2>4, <2>5, <2>7, <2>8, <2>9, <2>10 DEF Lists
    <2> QED
      BY <2>0, <2>1, <2>11 DEF A
  <1> QED
    BY <1>8, <1>9, <1>10

\* The ratio shows each ppoi once, by its stake, and stars the local one.
THEOREM RatiosRight == Spec => []RatioShowsEachPpoi
  <1>1. ASSUME AttInv, NEW x \in Ppois \cup {NoPpoi}
        PROVE  LET ratio == calc_ratios(aggregate_attestation(Attested, x), x)
                   sent == {m.ppoi : m \in Messages}
               IN /\ Len(ratio) = Cardinality(sent \cup {x})
                  /\ Cardinality({i \in DOMAIN ratio : ratio[i].starred}) = 1
                  /\ \A i, j \in DOMAIN ratio :
                       i < j /\ ~ratio[i].starred /\ ~ratio[j].starred
                         => ratio[i].stake >= ratio[j].stake
                  /\ \A y \in sent \ {x} : \E i \in DOMAIN ratio :
                       /\ ~ratio[i].starred
                       /\ ratio[i].stake = StakeOf(Voters(y))
                       /\ ratio[i].senders = Cardinality(Voters(y))
                  /\ x \in Ppois \ sent => \E i \in DOMAIN ratio :
                       ratio[i] = [stake |-> LocalStake, senders |-> 1, starred |-> TRUE]
    <2> DEFINE A == aggregate_attestation(Attested, x)
               sent == {m.ppoi : m \in Messages}
               shown == IF x = NoPpoi THEN sent ELSE sent \cup {x}
               ratio == calc_ratios(A, x)
               shares == [k \in DOMAIN ByStake(A) |-> Share(ByStake(A)[k], x)]
    <2>1. PICK n \in Nat :
            /\ A \in [1..n -> Entry]
            /\ \A i, j \in 1..n : A[i].ppoi = A[j].ppoi => i = j
            /\ {A[i].ppoi : i \in 1..n} = shown
            /\ \A i \in 1..n : A[i].ppoi # x =>
                 /\ A[i].stake = StakeOf(Voters(A[i].ppoi))
                 /\ Len(A[i].senders) = Cardinality(Voters(A[i].ppoi))
            /\ x \in Ppois \ sent =>
                 \E i \in 1..n : A[i].ppoi = x /\ A[i].stake = 0 /\ A[i].senders = <<>>
      BY <1>1, Aggregated DEF Lists, Sent
    <2>20. shown = {A[i].ppoi : i \in 1..n}
      BY <2>1
    <2>2. ratio = IF x = NoPpoi
                  THEN Append(shares, [stake |-> 0, senders |-> 0, starred |-> TRUE])
                  ELSE shares
      BY DEF calc_ratios
    <2> HIDE DEF A, sent, shown, ratio
    <2>3. /\ DOMAIN A = 1..n
          /\ \A i \in 1..n : A[i].stake \in Nat /\ A[i].ppoi \in Ppois
      BY <2>1 DEF Entry
    <2>4. PICK pos \in [1..n -> 1..n] :
            /\ ByStake(A) = [k \in 1..n |-> A[pos[k]]]
            /\ \A i \in 1..n : \E k \in 1..n : pos[k] = i
            /\ \A k, l \in 1..n : pos[k] = pos[l] => k = l
            /\ \A k, l \in 1..n : k < l => A[pos[k]].stake >= A[pos[l]].stake
      BY <2>3, ByStakeOrdered
    <2> DEFINE Out == [stake : Nat, senders : Nat, starred : BOOLEAN]
    <2>5. /\ DOMAIN shares = 1..n
          /\ \A k \in 1..n : shares[k] = Share(A[pos[k]], x)
      BY <2>4
    <2> HIDE DEF shares
    <2>6. ASSUME NEW k \in 1..n
          PROVE  /\ shares[k] \in Out
                 /\ shares[k].starred <=> A[pos[k]].ppoi = x
                 /\ A[pos[k]].ppoi # x =>
                      /\ shares[k].stake = A[pos[k]].stake
                      /\ shares[k].senders = Len(A[pos[k]].senders)
                 /\ A[pos[k]].ppoi = x =>
                      shares[k] = [stake |-> A[pos[k]].stake + LocalStake,
                                   senders |-> Len(A[pos[k]].senders) + 1,
                                   starred |-> TRUE]
      <3>1. pos[k] \in 1..n
        BY <2>4
      <3>2. A[pos[k]] \in Entry
        BY <2>1, <3>1
      <3>3. A[pos[k]].stake \in Nat /\ Len(A[pos[k]].senders) \in Nat /\ LocalStake \in Nat
        BY <3>2, LocalStakeAssumption DEF Entry
      <3> DEFINE a == A[pos[k]]
      <3>4. shares[k] = Share(a, x)
        BY <2>5
      <3> HIDE DEF a
      <3>5. CASE a.ppoi = x
        <4>1. shares[k] = [stake |-> a.stake + LocalStake,
                           senders |-> Len(a.senders) + 1, starred |-> TRUE]
          BY <3>4, <3>5 DEF Share
        <4>2. a.stake + LocalStake \in Nat /\ Len(a.senders) + 1 \in Nat
          BY <3>3 DEF a
        <4>3. shares[k] \in Out
          BY <4>1, <4>2
        <4>4. shares[k].starred
          BY <4>1
        <4> QED
          BY <3>5, <4>1, <4>3, <4>4 DEF a
      <3>6. CASE a.ppoi # x
        <4>1. shares[k] = [stake |-> a.stake, senders |-> Len(a.senders), starred |-> FALSE]
          BY <3>4, <3>6 DEF Share
        <4>2. a.stake \in Nat /\ Len(a.senders) \in Nat
          BY <3>3 DEF a
        <4>3. shares[k] \in Out
          BY <4>1, <4>2
        <4>4. /\ ~shares[k].starred
              /\ shares[k].stake = a.stake
              /\ shares[k].senders = Len(a.senders)
          BY <4>1
        <4> QED
          BY <3>6, <4>3, <4>4 DEF a
      <3> QED
        BY <3>5, <3>6
    <2>7. shares \in [1..n -> Out]
      <3>1. shares = [k \in 1..n |-> shares[k]]
        BY <2>4, <2>5 DEF shares
      <3> HIDE DEF Out
      <3> QED
        BY <2>6, <3>1
    <2>8. shares \in Seq(Out) /\ Len(shares) = n
      BY <2>7, FunctionIsSeq
    <2>9. IsFiniteSet(shown) /\ Cardinality(shown) = n
      <3> DEFINE ps == [i \in 1..n |-> A[i].ppoi]
      <3>1. ps \in [1..n -> Ppois]
        BY <2>3
      <3>2. \A i, j \in DOMAIN ps : ps[i] = ps[j] => i = j
        BY <2>1
      <3>3. ToSet(ps) = shown
        BY <2>20 DEF ToSet
      <3> HIDE DEF ps
      <3>4. ps \in Seq(Ppois) /\ Len(ps) = n
        BY <3>1, FunctionIsSeq
      <3> QED
        BY <3>2, <3>3, <3>4, RangeCounted
    <2>10. \A k, l \in 1..n :
             k < l /\ ~shares[k].starred /\ ~shares[l].starred
               => shares[k].stake >= shares[l].stake
      <3> SUFFICES ASSUME NEW k \in 1..n, NEW l \in 1..n, k < l,
                          ~shares[k].starred, ~shares[l].starred
                   PROVE  shares[k].stake >= shares[l].stake
        OBVIOUS
      <3>1. shares[k].stake = A[pos[k]].stake /\ shares[l].stake = A[pos[l]].stake
        BY <2>6
      <3>2. A[pos[k]].stake >= A[pos[l]].stake
        BY <2>4
      <3> QED
        BY <3>1, <3>2
    <2>11. \A y \in shown \ {x} : \E k \in 1..n :
             /\ ~shares[k].starred
             /\ shares[k].stake = StakeOf(Voters(y))
             /\ shares[k].senders = Cardinality(Voters(y))
      <3> SUFFICES ASSUME NEW y \in shown \ {x}
                   PROVE  \E k \in 1..n :
                            /\ ~shares[k].starred
                            /\ shares[k].stake = StakeOf(Voters(y))
                            /\ shares[k].senders = Cardinality(Voters(y))
        OBVIOUS
      <3>1. PICK i \in 1..n : A[i].ppoi = y
        BY <2>1
      <3>2. PICK k \in 1..n : pos[k] = i
        BY <2>4
      <3> QED
        BY <2>1, <2>6, <3>1, <3>2
    <2>12. CASE x = NoPpoi
      <3> DEFINE star == [stake |-> 0, senders |-> 0, starred |-> TRUE]
      <3>1. star \in Out /\ star.starred
        OBVIOUS
      <3> HIDE DEF star
      <3>2. ratio = Append(shares, star)
        BY <2>2, <2>12 DEF star
      <3>3. /\ DOMAIN ratio = 1..(n+1) /\ Len(ratio) = n + 1
            /\ \A k \in 1..n : ratio[k] = shares[k]
            /\ ratio[n+1] = star
        BY <2>8, <3>1, <3>2
      <3>4. \A k \in 1..(n+1) : k \in 1..n \/ k = n + 1
        OBVIOUS
      <3>5. \A k \in 1..n : ~shares[k].starred
        <4>1. \A k \in 1..n : A[pos[k]].ppoi # x
          BY <2>3, <2>4, <2>12, NoPpoiAssumption
        <4> QED
          BY <2>6, <4>1
      <3>6. {k \in DOMAIN ratio : ratio[k].starred} = {n+1}
        <4>1. \A k \in 1..n : ~ratio[k].starred
          BY <3>3, <3>5
        <4>2. n + 1 \in 1..(n+1) /\ ratio[n+1].starred
          BY <3>1, <3>3
        <4>3. DOMAIN ratio = 1..(n+1)
          BY <3>3
        <4> QED
          BY <3>4, <4>1, <4>2, <4>3
      <3>7. x \notin sent /\ shown = sent
        <4>1. sent \subseteq Ppois
          BY <2>3, <2>20, <2>12 DEF shown
        <4> QED
          BY <2>12, <4>1, NoPpoiAssumption DEF shown
      <3>8. Cardinality(sent \cup {x}) = n + 1
        BY <2>9, <3>7, FS_AddElement
      <3>9. \A k, l \in DOMAIN ratio :
              k < l /\ ~ratio[k].starred /\ ~ratio[l].starred
                => ratio[k].stake >= ratio[l].stake
        BY <2>10, <3>1, <3>3, <3>4
      <3>10. Cardinality({k \in DOMAIN ratio : ratio[k].starred}) = 1
        BY <3>6, FS_Singleton
      <3>11. \A y \in sent \ {x} : \E k \in DOMAIN ratio :
               /\ ~ratio[k].starred
               /\ ratio[k].stake = StakeOf(Voters(y))
               /\ ratio[k].senders = Cardinality(Voters(y))
        <4>1. \A k \in 1..n : k \in DOMAIN ratio
          BY <3>3
        <4> QED
          BY <2>11, <3>3, <3>7, <4>1
      <3> QED
        BY <2>12, <3>3, <3>8, <3>9, <3>10, <3>11, NoPpoiAssumption DEF ratio, sent, A
    <2>13. CASE x # NoPpoi
      <3>1. ratio = shares /\ shown = sent \cup {x}
        BY <2>2, <2>13 DEF shown
      <3>2. PICK i \in 1..n : A[i].ppoi = x
        BY <2>20, <3>1
      <3>3. PICK k \in 1..n : pos[k] = i
        BY <2>4
      <3>4. {l \in DOMAIN ratio : ratio[l].starred} = {k}
        <4>1. \A l \in 1..n : shares[l].starred <=> pos[l] = i
          BY <2>1, <2>4, <2>6, <3>2
        <4>2. \A l \in 1..n : shares[l].starred <=> l = k
          BY <2>4, <3>3, <4>1
        <4>3. DOMAIN ratio = 1..n
          BY <2>5, <3>1
        <4> QED
          BY <3>1, <4>2, <4>3
      <3>5. Cardinality({l \in DOMAIN ratio : ratio[l].starred}) = 1
        BY <3>4, FS_Singleton
      <3>6. Len(ratio) = Cardinality(sent \cup {x})
        BY <2>8, <2>9, <3>1
      <3>7. DOMAIN ratio = 1..n
        BY <2>5, <3>1
      <3>8. \A y \in sent \ {x} : y \in shown \ {x}
        BY <3>1
      <3>9. x \in Ppois \ sent => \E l \in DOMAIN ratio :
              ratio[l] = [stake |-> LocalStake, senders |-> 1, starred |-> TRUE]
        <4> SUFFICES ASSUME x \in Ppois \ sent
                     PROVE  ratio[k] = [stake |-> LocalStake, senders |-> 1, starred |-> TRUE]
          BY <3>7
        <4>1. A[i].stake = 0 /\ A[i].senders = <<>>
          BY <2>1, <3>2
        <4>2. ratio[k] = [stake |-> A[i].stake + LocalStake,
                          senders |-> Len(A[i].senders) + 1, starred |-> TRUE]
          BY <2>6, <3>1, <3>2, <3>3
        <4>3. A[i].stake + LocalStake = LocalStake /\ Len(A[i].senders) + 1 = 1
          BY <4>1, LocalStakeAssumption
        <4> QED
          BY <4>2, <4>3
      <3> QED
        BY <2>10, <2>11, <3>1, <3>5, <3>6, <3>7, <3>8, <3>9 DEF ratio, sent, A
    <2> QED
      BY <2>12, <2>13
  <1>2. AttInv => RatioShowsEachPpoi
    BY <1>1 DEF RatioShowsEachPpoi
  <1> QED
    BY <1>2, AttInvAlways, PTL
=============================================================================
