-------------------------- MODULE Attestations_proofs --------------------------
(***************************************************************************)
(* Lemmas about the operators of Attestations, for every sequence of       *)
(* messages: what process_ppoi_message makes of it, and what decides.      *)
(*                                                                         *)
(* The loops of the code are folds, which the library defines with a       *)
(* recursive function.  The first part unfolds them: Folds(w, g, s) says   *)
(* that g holds the value of the fold for each prefix of s, and what holds *)
(* of the fold is shown to hold of every prefix by a least counterexample. *)
(***************************************************************************)
EXTENDS Attestations, FiniteSetTheorems, WellFoundedInduction, SequenceTheorems, TLAPS

\* A non-empty set of natural numbers has a least element.
LEMMA LeastNat ==
  ASSUME NEW S \in SUBSET Nat, S # {}
  PROVE  \E n \in S : \A m \in S : n <= m
  <1> DEFINE R == OpToRel(<, Nat)
  <1>1. PICK n \in S : \A m \in S : <<m, n>> \notin R
    <2> HIDE DEF R
    <2>1. IsWellFoundedOn(R, Nat)
      BY NatLessThanWellFounded DEF R
    <2> QED
      BY <2>1, WFMin
  <1>2. \A m \in S : ~(m < n)
    BY <1>1 DEF OpToRel
  <1> QED
    BY <1>2

\* A bounded one has a greatest element, the Max of the library.
LEMMA GreatestIndex ==
  ASSUME NEW n \in Nat, NEW T \in SUBSET (1..n), T # {}
  PROVE  Max(T) \in T /\ \A k \in T : k <= Max(T)
  <1> DEFINE B == {n - k : k \in T}
  <1>1. PICK c \in B : \A b \in B : c <= b
    <2>1. \A k \in T : n - k \in Nat
      OBVIOUS
    <2> B \in SUBSET Nat /\ B # {}
      BY <2>1
    <2> QED
      BY LeastNat
  <1>2. PICK j \in T : c = n - j
    BY <1>1
  <1>3. \A k \in T : j >= k
    BY <1>1, <1>2
  <1> QED
    BY <1>3 DEF Max

LEMMA MaxIs ==
  ASSUME NEW n \in Nat, NEW T \in SUBSET (1..n), NEW k \in T, \A j \in T : j <= k
  PROVE  Max(T) = k
  <1>1. Max(T) \in T /\ k <= Max(T)
    BY GreatestIndex
  <1>2. T \in SUBSET Nat
    OBVIOUS
  <1>3. Max(T) \in Nat /\ k \in Nat
    BY <1>1, <1>2
  <1>4. Max(T) <= k
    BY <1>1
  <1> QED
    BY <1>1, <1>3, <1>4

-----------------------------------------------------------------------------
(* The loops, which are folds: that of process_ppoi_message, and that of    *)
(* aggregate_attestation for the ppoi and the stake of a sender.            *)

Grouping == [loop |-> "process_ppoi_message"]
Joining(x, s, n) ==
  [loop |-> "aggregate_attestation", ppoi |-> x, sender |-> s, stake |-> n]

\* One turn of a loop.
Turn(w, acc, e) ==
  IF w.loop = "process_ppoi_message" THEN AddMessage(acc, e)
  ELSE IF e.ppoi # w.ppoi THEN Append(acc, e)
  ELSE IF Contains(e.senders, w.sender) THEN acc
  ELSE Append(acc, [e EXCEPT !.stake = @ + w.stake, !.senders = Append(@, w.sender)])

\* g folds the elements of s with the indices in T, for each T up to n.
FoldsTo(w, g, s, n) ==
  g = [T \in SUBSET (1..n) |->
         IF T = {} THEN <<>> ELSE Turn(w, g[T \ {Max(T)}], s[Max(T)])]

HasFold(w, s, n) == \E g : FoldsTo(w, g, s, n)

Folds(w, g, s) == FoldsTo(w, g, s, Len(s))

LEMMA FoldsEmpty ==
  ASSUME NEW w, NEW s, NEW g, Folds(w, g, s), Len(s) \in Nat
  PROVE  g[{}] = <<>>
  BY DEF Folds, FoldsTo

LEMMA FoldsStep ==
  ASSUME NEW w, NEW s, NEW g, Folds(w, g, s), Len(s) \in Nat, NEW T \in SUBSET (1..Len(s)),
         NEW k \in T, \A j \in T : j <= k
  PROVE  g[T] = Turn(w, g[T \ {k}], s[k])
  <1>1. Max(T) = k
    BY MaxIs
  <1> QED
    BY <1>1 DEF Folds, FoldsTo

\* Two folds over sequences with a common prefix agree on it.
LEMMA FoldsAgree ==
  ASSUME NEW w, NEW s, NEW t, NEW g, NEW h, Folds(w, g, s), Folds(w, h, t),
         NEW n \in Nat, Len(s) \in Nat, Len(t) \in Nat, n <= Len(s), n <= Len(t),
         \A k \in 1..n : s[k] = t[k]
  PROVE  \A T \in SUBSET (1..n) : g[T] = h[T]
  <1> DEFINE Bad == {T \in SUBSET (1..n) : g[T] # h[T]}
             Ms == {Max(T) : T \in Bad}
  <1> SUFFICES ASSUME Bad # {} PROVE FALSE
    OBVIOUS
  <1>1. {} \notin Bad
    BY FoldsEmpty
  <1>2. \A T \in Bad : Max(T) \in T /\ \A k \in T : k <= Max(T)
    BY <1>1, GreatestIndex
  <1>3. Ms \in SUBSET Nat /\ Ms # {}
    <2>1. \A T \in Bad : T \in SUBSET Nat
      OBVIOUS
    <2>2. \A T \in Bad : Max(T) \in Nat
      BY <1>2, <2>1
    <2> QED
      BY <2>2
  <1>4. PICK k \in Ms : \A j \in Ms : k <= j
    BY <1>3, LeastNat
  <1>5. PICK T \in Bad : k = Max(T)
    BY <1>4
  <1>6. k \in 1..n /\ k \in T /\ \A j \in T : j <= k
    BY <1>2, <1>5
  <1>7. g[T \ {k}] = h[T \ {k}]
    <2> SUFFICES ASSUME g[T \ {k}] # h[T \ {k}] PROVE FALSE
      OBVIOUS
    <2> DEFINE j == Max(T \ {k})
    <2>1. T \ {k} \in Bad
      OBVIOUS
    <2>2. j \in T \ {k} /\ j \in Ms
      BY <2>1, <1>2
    <2> HIDE DEF j
    <2>3. j <= k /\ k <= j /\ j # k
      BY <2>2, <1>6, <1>4
    <2>4. j \in Nat /\ k \in Nat
      BY <2>2, <1>6
    <2> QED
      BY <2>3, <2>4
  <1>8. T \in SUBSET (1..Len(s)) /\ T \in SUBSET (1..Len(t))
    OBVIOUS
  <1>9. g[T] # h[T] /\ s[k] = t[k]
    BY <1>6
  <1> HIDE DEF Bad, Ms
  <1>10. g[T] = Turn(w, g[T \ {k}], s[k])
    BY <1>5, <1>6, <1>8 DEF Folds, FoldsTo
  <1>11. h[T] = Turn(w, h[T \ {k}], t[k])
    BY <1>5, <1>6, <1>8 DEF Folds, FoldsTo
  <1> QED
    BY <1>7, <1>9, <1>10, <1>11

\* The fold exists: by the length of the prefix of s it has got to.
LEMMA FoldExists ==
  ASSUME NEW w, NEW M, NEW s \in Seq(M)
  PROVE  \E g : Folds(w, g, s)
  <1> DEFINE Bad == {n \in 0..Len(s) : ~HasFold(w, s, n)}
  <1>0. Len(s) \in Nat
    OBVIOUS
  <1> SUFFICES ASSUME Bad # {} PROVE FALSE
    <2> SUFFICES HasFold(w, s, Len(s))
      BY DEF HasFold, Folds
    <2>1. Len(s) \in 0..Len(s)
      BY <1>0
    <2> QED
      BY <2>1
  <1>1. PICK n \in Bad : \A m \in Bad : n <= m
    <2> Bad \in SUBSET Nat
      BY <1>0
    <2> HIDE DEF Bad
    <2> QED
      BY LeastNat
  <1>2. n # 0
    <2> SUFFICES HasFold(w, s, 0)
      OBVIOUS
    <2> DEFINE e == [T \in {{}} |-> <<>>]
    <2>1. SUBSET (1..0) = {{}}
      OBVIOUS
    <2>2. FoldsTo(w, e, s, 0)
      BY <2>1 DEF FoldsTo
    <2> QED
      BY <2>2 DEF HasFold
  <1>a. n \in Nat /\ n <= Len(s)
    BY <1>0
  <1>3. PICK h : FoldsTo(w, h, s, n - 1)
    <2>1. n - 1 \in 0..Len(s) /\ ~(n <= n - 1)
      BY <1>0, <1>a, <1>2
    <2>2. n - 1 \notin Bad
      BY <1>1, <2>1
    <2> QED
      BY <2>1, <2>2 DEF HasFold
  <1> DEFINE g == [T \in SUBSET (1..n) |->
                     IF n \in T THEN Turn(w, h[T \ {n}], s[n]) ELSE h[T]]
  <1>4. ASSUME NEW T \in SUBSET (1..n)
        PROVE  g[T] = IF T = {} THEN <<>>
                      ELSE Turn(w, g[T \ {Max(T)}], s[Max(T)])
    <2>0. n \in Nat
      BY <1>a
    <2>1. CASE n \in T
      <3>1. Max(T) = n
        <4>1. Max(T) \in T /\ \A k \in T : k <= Max(T)
          BY <2>0, <2>1, GreatestIndex
        <4>2. Max(T) \in 1..n /\ n <= Max(T)
          BY <4>1, <2>1
        <4> QED
          BY <2>0, <4>2
      <3>2. T \ {n} \in SUBSET (1..n) /\ n \notin T \ {n}
        OBVIOUS
      <3> QED
        BY <2>1, <3>1, <3>2
    <2>2. CASE n \notin T
      <3>1. T \in SUBSET (1..(n-1))
        BY <2>0, <2>2
      <3>2. CASE T = {}
        BY <1>3, <2>2, <3>1, <3>2 DEF FoldsTo
      <3>3. CASE T # {}
        <4>1. Max(T) \in T
          BY <2>0, <3>3, GreatestIndex
        <4>2. T \ {Max(T)} \in SUBSET (1..n) /\ n \notin T \ {Max(T)}
          BY <2>2
        <4>3. g[T \ {Max(T)}] = h[T \ {Max(T)}]
          BY <4>2
        <4>4. h[T] = Turn(w, h[T \ {Max(T)}], s[Max(T)])
          BY <1>3, <3>1, <3>3 DEF FoldsTo
        <4> QED
          BY <2>2, <3>3, <4>3, <4>4
      <3> QED
        BY <3>2, <3>3
    <2> QED
      BY <2>1, <2>2
  <1>5. FoldsTo(w, g, s, n)
    <2> DEFINE k == [T \in SUBSET (1..n) |->
                      IF T = {} THEN <<>>
                      ELSE Turn(w, g[T \ {Max(T)}], s[Max(T)])]
    <2>1. \A T \in SUBSET (1..n) : g[T] = k[T]
      BY <1>4
    <2>2. g = k
      BY <2>1
    <2> QED
      BY <2>2 DEF FoldsTo
  <1> QED
    BY <1>1, <1>5 DEF HasFold

LEMMA ProcessFolds ==
  ASSUME NEW M, NEW s \in Seq(M)
  PROVE  \E g : Folds(Grouping, g, s) /\ process_ppoi_message(s) = g[1..Len(s)]
  <1> DEFINE Rec(g) == g = [T \in SUBSET (1..Len(s)) |->
                              IF T = {} THEN <<>>
                              ELSE AddMessage(g[T \ {Max(T)}], s[Max(T)])]
             c == CHOOSE g : Rec(g)
  <1>1. DOMAIN s = 1..Len(s)
    OBVIOUS
  <1>2. process_ppoi_message(s) = c[1..Len(s)]
    BY <1>1 DEF process_ppoi_message, FoldLeft, MapThenFoldSet
  <1>3. \A acc, e : Turn(Grouping, acc, e) = AddMessage(acc, e)
    BY DEF Turn, Grouping
  <1>4. ASSUME NEW g PROVE Folds(Grouping, g, s) <=> Rec(g)
    BY <1>3 DEF Folds, FoldsTo
  <1>5. \E g : Rec(g)
    BY <1>4, FoldExists
  <1> HIDE DEF Rec
  <1>6. Rec(c)
    BY <1>5
  <1> QED
    BY <1>2, <1>4, <1>6

\* No messages, no attestations; and each further message is one turn of the
\* loop.
LEMMA ProcessNone == process_ppoi_message(<<>>) = <<>>
  <1>1. <<>> \in Seq({}) /\ Len(<<>>) = 0
    OBVIOUS
  <1>2. PICK g : Folds(Grouping, g, <<>>) /\ process_ppoi_message(<<>>) = g[1..Len(<<>>)]
    BY <1>1, ProcessFolds
  <1>3. 1..0 = {}
    OBVIOUS
  <1>4. g[{}] = <<>>
    BY <1>1, <1>2, FoldsEmpty
  <1> QED
    BY <1>1, <1>2, <1>3, <1>4

LEMMA ProcessOneMore ==
  ASSUME NEW M, NEW s \in Seq(M), NEW m \in M
  PROVE  process_ppoi_message(Append(s, m)) = AddMessage(process_ppoi_message(s), m)
  <1> DEFINE t == Append(s, m)
             n == Len(s)
  <1>1. t \in Seq(M) /\ Len(t) = n + 1 /\ n \in Nat /\ t[n+1] = m
    OBVIOUS
  <1>2. \A k \in 1..n : s[k] = t[k]
    OBVIOUS
  <1>3. PICK g : Folds(Grouping, g, s) /\ process_ppoi_message(s) = g[1..n]
    BY ProcessFolds
  <1>4. PICK h : Folds(Grouping, h, t) /\ process_ppoi_message(t) = h[1..(n+1)]
    BY <1>1, ProcessFolds
  <1>5. \A acc, e : Turn(Grouping, acc, e) = AddMessage(acc, e)
    BY DEF Turn, Grouping
  <1> HIDE DEF t, n
  <1>7. g[1..n] = h[1..n]
    BY <1>1, <1>2, <1>3, <1>4, FoldsAgree DEF n
  <1>8. h[1..(n+1)] = Turn(Grouping, h[(1..(n+1)) \ {n+1}], t[n+1])
    <2> DEFINE U == 1..(n+1)
               l == n + 1
    <2>1. l \in U /\ \A j \in U : j <= l
      BY <1>1
    <2>2. Len(t) \in Nat /\ U \in SUBSET (1..Len(t))
      BY <1>1
    <2> HIDE DEF U, l
    <2>3. h[U] = Turn(Grouping, h[U \ {l}], t[l])
      BY <1>4, <2>1, <2>2, FoldsStep
    <2> QED
      BY <2>3 DEF U, l
  <1>9. (1..(n+1)) \ {n+1} = 1..n
    BY <1>1
  <1> QED
    BY <1>1, <1>3, <1>4, <1>5, <1>7, <1>8, <1>9 DEF t
-----------------------------------------------------------------------------
(* Sums of stakes.  StakeOf picks the senders in an order of its own. *)

\* g gives the stake of each part of S, whichever sender is taken off first.
Sums(g, S) ==
  /\ g \in [SUBSET S -> Nat]
  /\ g[{}] = 0
  /\ \A T \in SUBSET S : \A s \in T : g[T] = Stake[s] + g[T \ {s}]

HasSum(S) == \E g : Sums(g, S)

LEMMA SumWithOneMore ==
  ASSUME NEW S \in SUBSET Senders, NEW y \in Senders, y \notin S, HasSum(S)
  PROVE  HasSum(S \cup {y})
  <1> DEFINE Y == S \cup {y}
  <1>1. PICK h : Sums(h, S)
    BY DEF HasSum
  <1> DEFINE g == [T \in SUBSET Y |->
                     IF y \in T THEN Stake[y] + h[T \ {y}] ELSE h[T]]
  <1>2. \A s \in Senders : Stake[s] \in Nat
    BY StakeAssumption
  <1>3. \A T \in SUBSET Y : T \ {y} \in SUBSET S /\ (y \notin T => T \in SUBSET S)
    OBVIOUS
  <1>4. h \in [SUBSET S -> Nat] /\ h[{}] = 0
    BY <1>1 DEF Sums
  <1>5. g \in [SUBSET Y -> Nat]
    BY <1>2, <1>3, <1>4
  <1>6. g[{}] = 0
    BY <1>4
  <1>7. ASSUME NEW T \in SUBSET Y, NEW s \in T
        PROVE  g[T] = Stake[s] + g[T \ {s}]
    <2>0. T \ {s} \in SUBSET Y
      OBVIOUS
    <2>1. CASE y \notin T
      <3>1. T \in SUBSET S /\ y \notin T \ {s}
        BY <1>3, <2>1
      <3>2. h[T] = Stake[s] + h[T \ {s}]
        BY <1>1, <3>1 DEF Sums
      <3> QED
        BY <2>0, <2>1, <3>1, <3>2
    <2>2. CASE s = y
      BY <2>0, <2>2
    <2>3. CASE y \in T /\ s # y
      <3>1. T \ {y} \in SUBSET S /\ s \in T \ {y}
        BY <1>3, <2>3
      <3>2. h[T \ {y}] = Stake[s] + h[(T \ {y}) \ {s}]
        BY <1>1, <3>1 DEF Sums
      <3>3. (T \ {y}) \ {s} = (T \ {s}) \ {y} /\ (T \ {y}) \ {s} \in SUBSET S
        BY <3>1
      <3>4. g[T \ {s}] = Stake[y] + h[(T \ {s}) \ {y}]
        BY <2>0, <2>3
      <3>5. g[T] = Stake[y] + h[T \ {y}]
        BY <2>3
      <3>6. Stake[s] \in Nat /\ Stake[y] \in Nat /\ h[(T \ {s}) \ {y}] \in Nat
        BY <1>2, <1>4, <3>3
      <3> DEFINE rest == h[(T \ {s}) \ {y}]
      <3>7. g[T] = Stake[y] + (Stake[s] + rest) /\ g[T \ {s}] = Stake[y] + rest
        BY <3>2, <3>3, <3>4, <3>5
      <3> HIDE DEF g, rest
      <3> QED
        BY <3>6, <3>7 DEF rest
    <2> QED
      BY <2>1, <2>2, <2>3
  <1> HIDE DEF g
  <1> QED
    BY <1>5, <1>6, <1>7 DEF Sums, HasSum

LEMMA SumExists ==
  ASSUME NEW S \in SUBSET Senders, IsFiniteSet(S)
  PROVE  HasSum(S)
  <1> DEFINE Bad == {T \in SUBSET Senders : IsFiniteSet(T) /\ ~HasSum(T)}
             Cards == {Cardinality(T) : T \in Bad}
  <1> SUFFICES ASSUME Bad # {} PROVE FALSE
    OBVIOUS
  <1>1. \A T \in Bad : Cardinality(T) \in Nat
    BY FS_CardinalityType
  <1>2. PICK c \in Cards : \A k \in Cards : c <= k
    <2> Cards \in SUBSET Nat /\ Cards # {}
      BY <1>1
    <2> HIDE DEF Cards
    <2> QED
      BY LeastNat
  <1>3. PICK T \in Bad : c = Cardinality(T)
    BY <1>2
  <1>4. HasSum({})
    <2> DEFINE e == [V \in {{}} |-> 0]
    <2>1. SUBSET {} = {{}}
      OBVIOUS
    <2>2. Sums(e, {})
      BY <2>1 DEF Sums
    <2> QED
      BY <2>2 DEF HasSum
  <1>5. T # {}
    BY <1>4
  <1>6. PICK y \in T : TRUE
    BY <1>5
  <1>7. /\ IsFiniteSet(T \ {y})
        /\ Cardinality(T \ {y}) = Cardinality(T) - 1
    BY FS_RemoveElement
  <1>8. T \ {y} \notin Bad
    <2> SUFFICES ASSUME T \ {y} \in Bad PROVE FALSE
      OBVIOUS
    <2>1. Cardinality(T \ {y}) \in Cards
      OBVIOUS
    <2>2. c <= c - 1 /\ c \in Nat
      BY <1>1, <1>2, <1>3, <1>7, <2>1
    <2> QED
      BY <2>2
  <1>9. HasSum(T \ {y}) /\ T \ {y} \in SUBSET Senders /\ y \in Senders
    BY <1>7, <1>8
  <1>10. HasSum((T \ {y}) \cup {y})
    BY <1>9, SumWithOneMore
  <1>11. (T \ {y}) \cup {y} = T
    OBVIOUS
  <1> QED
    BY <1>10, <1>11

\* The recursion StakeOf unfolds to.
Picks(f, S) ==
  f = [T \in SUBSET S |->
         IF T = {} THEN 0
         ELSE LET x == CHOOSE x \in T : TRUE IN Stake[x] + f[T \ {x}]]

LEMMA StakeIsChosen ==
  ASSUME NEW S
  PROVE  StakeOf(S) = (CHOOSE f : Picks(f, S))[S]
  BY DEF StakeOf, FoldSet, MapThenFoldSet, Picks

LEMMA StakeIsSum ==
  ASSUME NEW S \in SUBSET Senders, IsFiniteSet(S), NEW g, Sums(g, S)
  PROVE  StakeOf(S) = g[S]
  <1>1. Picks(g, S)
    <2> DEFINE k == [T \in SUBSET S |->
                       IF T = {} THEN 0
                       ELSE LET x == CHOOSE x \in T : TRUE IN Stake[x] + g[T \ {x}]]
    <2>1. ASSUME NEW T \in SUBSET S PROVE g[T] = k[T]
      <3>1. CASE T = {}
        BY <3>1 DEF Sums
      <3>2. CASE T # {}
        <4>1. (CHOOSE x \in T : TRUE) \in T
          BY <3>2
        <4> QED
          BY <3>2, <4>1 DEF Sums
      <3> QED
        BY <3>1, <3>2
    <2>2. g = k
      BY <2>1 DEF Sums
    <2> QED
      BY <2>2 DEF Picks
  <1> DEFINE f == CHOOSE h : Picks(h, S)
  <1>2. Picks(f, S)
    BY <1>1
  <1> HIDE DEF f
  <1> DEFINE Bad == {T \in SUBSET S : f[T] # g[T]}
             Cards == {Cardinality(T) : T \in Bad}
  <1>3. Bad = {}
    <2> SUFFICES ASSUME Bad # {} PROVE FALSE
      OBVIOUS
    <2>1. \A T \in Bad : IsFiniteSet(T) /\ Cardinality(T) \in Nat
      BY FS_Subset, FS_CardinalityType
    <2>2. PICK c \in Cards : \A k \in Cards : c <= k
      <3> Cards \in SUBSET Nat /\ Cards # {}
        BY <2>1
      <3> HIDE DEF Cards
      <3> QED
        BY LeastNat
    <2>3. PICK T \in Bad : c = Cardinality(T)
      BY <2>2
    <2>4. T # {}
      BY <1>1, <1>2 DEF Picks
    <2> DEFINE x == CHOOSE x \in T : TRUE
    <2>5. x \in T
      BY <2>4
    <2>6. f[T] = Stake[x] + f[T \ {x}] /\ g[T] = Stake[x] + g[T \ {x}]
      BY <1>1, <1>2, <2>4 DEF Picks
    <2> HIDE DEF x
    <2>7. T \ {x} \in Bad
      BY <2>6
    <2>8. Cardinality(T \ {x}) = c - 1
      BY <2>1, <2>3, <2>5, FS_RemoveElement
    <2>9. c - 1 \in Cards
      BY <2>7, <2>8
    <2>10. c <= c - 1 /\ c \in Nat
      BY <2>1, <2>2, <2>3, <2>9
    <2> QED
      BY <2>10
  <1>4. S \in SUBSET S
    OBVIOUS
  <1>5. f[S] = g[S]
    BY <1>3, <1>4
  <1> QED
    BY <1>5, StakeIsChosen DEF f

\* The stake of nobody, of one sender, and of one sender more.
LEMMA StakeOfNobody == StakeOf({}) = 0
  <1>1. PICK g : Sums(g, {})
    BY SumExists, FS_EmptySet DEF HasSum
  <1> QED
    BY <1>1, StakeIsSum, FS_EmptySet DEF Sums

LEMMA StakeOfOneMore ==
  ASSUME NEW S \in SUBSET Senders, IsFiniteSet(S), NEW s \in Senders, s \notin S
  PROVE  /\ StakeOf(S) \in Nat
         /\ StakeOf(S \cup {s}) = StakeOf(S) + Stake[s]
  <1> DEFINE U == S \cup {s}
  <1>1. IsFiniteSet(U) /\ U \in SUBSET Senders
    BY FS_AddElement
  <1>2. PICK g : Sums(g, U)
    BY <1>1, SumExists DEF HasSum
  <1> DEFINE h == [T \in SUBSET S |-> g[T]]
  <1>3. Sums(h, S)
    <2>0. SUBSET S \subseteq SUBSET U
      OBVIOUS
    <2>1. h \in [SUBSET S -> Nat] /\ h[{}] = 0
      BY <1>2, <2>0 DEF Sums
    <2>2. ASSUME NEW T \in SUBSET S, NEW x \in T PROVE h[T] = Stake[x] + h[T \ {x}]
      <3>1. T \in SUBSET U /\ T \ {x} \in SUBSET S
        OBVIOUS
      <3>2. g[T] = Stake[x] + g[T \ {x}]
        BY <1>2, <3>1 DEF Sums
      <3> QED
        BY <3>1, <3>2
    <2> HIDE DEF h
    <2> QED
      BY <2>1, <2>2 DEF Sums
  <1>4. StakeOf(U) = g[U] /\ StakeOf(S) = g[S]
    <2>1. StakeOf(U) = g[U]
      BY <1>1, <1>2, StakeIsSum
    <2>2. StakeOf(S) = h[S]
      <3> HIDE DEF h
      <3> QED
        BY <1>3, StakeIsSum
    <2>3. S \in SUBSET S
      OBVIOUS
    <2> QED
      BY <2>1, <2>2, <2>3
  <1>5. U \in SUBSET U /\ s \in U /\ U \ {s} = S /\ S \in SUBSET U
    OBVIOUS
  <1>6. g[U] = Stake[s] + g[S] /\ g[S] \in Nat
    BY <1>2, <1>5 DEF Sums
  <1>7. Stake[s] \in Nat
    BY StakeAssumption
  <1> QED
    BY <1>4, <1>6, <1>7

LEMMA StakeOfOne ==
  ASSUME NEW s \in Senders
  PROVE  StakeOf({s}) = Stake[s]
  <1>1. StakeOf({} \cup {s}) = StakeOf({}) + Stake[s]
    BY FS_EmptySet, StakeOfOneMore
  <1>2. {} \cup {s} = {s} /\ Stake[s] \in Nat
    BY StakeAssumption
  <1> QED
    BY <1>1, <1>2, StakeOfNobody
-----------------------------------------------------------------------------
(* What the loop keeps of the messages it has read. *)

Speaks(m) == m.sender \in Senders /\ m.ppoi \in Ppois /\ m.nonce \in Nat

Attestation ==
  [ppoi : Ppois, stake : Nat, senders : Seq(Senders), timestamp : Seq(Nat)]

VotersIn(ms, x) == {s \in Senders : \E m \in ToSet(ms) : m.sender = s /\ m.ppoi = x}

\* t is the time of the first message of s with ppoi x.
FirstTime(t, s, x, ms) ==
  \E k \in DOMAIN ms :
    /\ ms[k].sender = s /\ ms[k].ppoi = x /\ ms[k].nonce = t
    /\ \A j \in 1..(k-1) : ~(ms[j].sender = s /\ ms[j].ppoi = x)

\* An attestation accounts for the messages that carry its ppoi.
Accounts(a, ms) ==
  /\ ToSet(a.senders) = VotersIn(ms, a.ppoi)
  /\ \A j, k \in DOMAIN a.senders : a.senders[j] = a.senders[k] => j = k
  /\ a.stake = StakeOf(VotersIn(ms, a.ppoi))
  /\ Len(a.senders) = Len(a.timestamp)
  /\ \A k \in DOMAIN a.senders : FirstTime(a.timestamp[k], a.senders[k], a.ppoi, ms)

Grouped(atts, ms) ==
  /\ atts \in Seq(Attestation)
  /\ {atts[i].ppoi : i \in DOMAIN atts} = {m.ppoi : m \in ToSet(ms)}
  /\ \A i, j \in DOMAIN atts : atts[i].ppoi = atts[j].ppoi => i = j
  /\ \A i \in DOMAIN atts : Accounts(atts[i], ms)

LEMMA ToSetAppend ==
  ASSUME NEW M, NEW s \in Seq(M), NEW m
  PROVE  ToSet(Append(s, m)) = ToSet(s) \cup {m}
  <1>1. DOMAIN s = 1..Len(s) /\ Len(s) \in Nat
    OBVIOUS
  <1>2. DOMAIN Append(s, m) = 1..(Len(s) + 1)
    OBVIOUS
  <1>3. \A i \in 1..Len(s) : Append(s, m)[i] = s[i]
    OBVIOUS
  <1>4. Append(s, m)[Len(s) + 1] = m
    OBVIOUS
  <1>5. 1..(Len(s) + 1) = 1..Len(s) \cup {Len(s) + 1}
    BY <1>1
  <1> DEFINE t == Append(s, m)
  <1>6. {t[i] : i \in DOMAIN t} = {s[i] : i \in DOMAIN s} \cup {m}
    <2> HIDE DEF t
    <2> QED
      BY <1>1, <1>2, <1>3, <1>4, <1>5 DEF t
  <1> QED
    BY <1>6 DEF ToSet

LEMMA RangeCounted ==
  ASSUME NEW M, NEW s \in Seq(M)
  PROVE  /\ IsFiniteSet(ToSet(s))
         /\ (\A j, k \in DOMAIN s : s[j] = s[k] => j = k) => Cardinality(ToSet(s)) = Len(s)
  <1>1. IsFiniteSet(1..Len(s)) /\ Cardinality(1..Len(s)) = Len(s)
    <2>1. Len(s) \in Nat /\ 1 \in Int /\ Len(s) - 1 + 1 = Len(s) /\ (1 > Len(s) => Len(s) = 0)
      OBVIOUS
    <2> QED
      BY <2>1, FS_Interval
  <1>2. s \in Surjection(1..Len(s), ToSet(s))
    BY DEF ToSet, Surjection
  <1>3. (\A j, k \in DOMAIN s : s[j] = s[k] => j = k) => s \in Injection(1..Len(s), ToSet(s))
    BY <1>2 DEF Injection, IsInjective, Surjection
  <1> QED
    BY <1>1, <1>2, <1>3, FS_Surjection

\* A further message changes no first time, and one of a sender that had not
\* sent the ppoi has its own.
LEMMA FirstTimeStays ==
  ASSUME NEW M, NEW ms \in Seq(M), NEW m \in M, NEW t, NEW s, NEW x,
         FirstTime(t, s, x, ms)
  PROVE  FirstTime(t, s, x, Append(ms, m))
  <1> DEFINE ns == Append(ms, m)
  <1>1. PICK k \in DOMAIN ms :
          /\ ms[k].sender = s /\ ms[k].ppoi = x /\ ms[k].nonce = t
          /\ \A j \in 1..(k-1) : ~(ms[j].sender = s /\ ms[j].ppoi = x)
    BY DEF FirstTime
  <1>2. k \in 1..Len(ms) /\ Len(ms) \in Nat /\ DOMAIN ns = 1..(Len(ms) + 1)
    OBVIOUS
  <1>3. \A j \in 1..Len(ms) : ns[j] = ms[j]
    OBVIOUS
  <1> HIDE DEF ns
  <1>4. k \in DOMAIN ns /\ \A j \in 1..(k-1) : j \in 1..Len(ms)
    BY <1>2
  <1>5. FirstTime(t, s, x, ns)
    BY <1>1, <1>2, <1>3, <1>4 DEF FirstTime
  <1> QED
    BY <1>5 DEF ns

LEMMA FirstTimeNew ==
  ASSUME NEW M, NEW ms \in Seq(M), NEW m \in M,
         \A o \in ToSet(ms) : ~(o.sender = m.sender /\ o.ppoi = m.ppoi)
  PROVE  FirstTime(m.nonce, m.sender, m.ppoi, Append(ms, m))
  <1> DEFINE ns == Append(ms, m)
             k == Len(ms) + 1
  <1>1. k \in DOMAIN ns /\ ns[k] = m /\ k - 1 = Len(ms)
    OBVIOUS
  <1>2. \A j \in 1..Len(ms) : ns[j] = ms[j] /\ ms[j] \in ToSet(ms)
    BY DEF ToSet
  <1> HIDE DEF ns, k
  <1>3. FirstTime(m.nonce, m.sender, m.ppoi, ns)
    BY <1>1, <1>2 DEF FirstTime
  <1> QED
    BY <1>3 DEF ns

\* A message leaves the attestations of the other ppois as they are.
LEMMA OthersAccount ==
  ASSUME NEW M, \A o \in M : Speaks(o), NEW ms \in Seq(M), NEW m \in M,
         NEW a \in Attestation, Accounts(a, ms), a.ppoi # m.ppoi
  PROVE  Accounts(a, Append(ms, m))
  <1>1. ToSet(Append(ms, m)) = ToSet(ms) \cup {m}
    BY ToSetAppend
  <1>2. VotersIn(Append(ms, m), a.ppoi) = VotersIn(ms, a.ppoi)
    BY <1>1 DEF VotersIn
  <1>3. \A t, s : FirstTime(t, s, a.ppoi, ms) => FirstTime(t, s, a.ppoi, Append(ms, m))
    BY FirstTimeStays
  <1> QED
    BY <1>2, <1>3 DEF Accounts

LEMMA NewAccounts ==
  ASSUME NEW M, \A o \in M : Speaks(o), NEW ms \in Seq(M), NEW m \in M,
         \A o \in ToSet(ms) : o.ppoi # m.ppoi
  PROVE  AttestationOf(m) \in Attestation /\ Accounts(AttestationOf(m), Append(ms, m))
  <1> DEFINE a == AttestationOf(m)
  <1>1. ToSet(Append(ms, m)) = ToSet(ms) \cup {m}
    BY ToSetAppend
  <1>2. /\ a.ppoi = m.ppoi /\ a.stake = Stake[m.sender]
        /\ a.senders = <<m.sender>> /\ a.timestamp = <<m.nonce>>
    BY DEF AttestationOf
  <1>3. m.sender \in Senders /\ m.ppoi \in Ppois /\ m.nonce \in Nat
    BY DEF Speaks
  <1>4. a \in Attestation
    <2>1. Stake[m.sender] \in Nat
      BY <1>3, StakeAssumption
    <2> QED
      BY <1>3, <2>1 DEF AttestationOf, Attestation
  <1>5. VotersIn(Append(ms, m), m.ppoi) = {m.sender}
    BY <1>1, <1>3 DEF VotersIn
  <1>7. FirstTime(m.nonce, m.sender, m.ppoi, Append(ms, m))
    BY FirstTimeNew
  <1>8. StakeOf({m.sender}) = Stake[m.sender]
    BY <1>3, StakeOfOne
  <1>9. ToSet(<<m.sender>>) = {m.sender}
    BY DEF ToSet
  <1>10. /\ DOMAIN <<m.sender>> = {1} /\ <<m.sender>>[1] = m.sender
         /\ <<m.nonce>>[1] = m.nonce /\ Len(<<m.sender>>) = 1 /\ Len(<<m.nonce>>) = 1
    OBVIOUS
  <1> HIDE DEF a
  <1>11. Accounts(a, Append(ms, m))
    BY <1>2, <1>5, <1>7, <1>8, <1>9, <1>10 DEF Accounts
  <1> QED
    BY <1>4, <1>11 DEF a

\* A later message of the same ppoi: the sender and its stake join the
\* attestation, unless they are there already.
LEMMA UpdateAccounts ==
  ASSUME NEW M, \A o \in M : Speaks(o), NEW ms \in Seq(M), NEW m \in M,
         NEW a \in Attestation, Accounts(a, ms), a.ppoi = m.ppoi
  PROVE  /\ Update(a, m) \in Attestation /\ Update(a, m).ppoi = a.ppoi
         /\ Accounts(Update(a, m), Append(ms, m))
  <1> DEFINE ns == Append(ms, m)
             x == m.ppoi
             s == m.sender
  <1>1. ToSet(ns) = ToSet(ms) \cup {m}
    BY ToSetAppend
  <1>2. s \in Senders /\ x \in Ppois /\ m.nonce \in Nat /\ Stake[s] \in Nat
    BY StakeAssumption DEF Speaks
  <1>3. VotersIn(ns, x) = VotersIn(ms, x) \cup {s}
    BY <1>1, <1>2 DEF VotersIn
  <1>4. /\ a.senders \in Seq(Senders) /\ a.timestamp \in Seq(Nat) /\ a.stake \in Nat
    BY DEF Attestation
  <1>5. /\ ToSet(a.senders) = VotersIn(ms, x) /\ a.stake = StakeOf(VotersIn(ms, x))
        /\ Len(a.senders) = Len(a.timestamp)
        /\ \A j, k \in DOMAIN a.senders : a.senders[j] = a.senders[k] => j = k
        /\ \A k \in DOMAIN a.senders : FirstTime(a.timestamp[k], a.senders[k], x, ms)
    BY DEF Accounts
  <1>6. Contains(a.senders, s) <=> s \in VotersIn(ms, x)
    <2> DEFINE q == a.senders
    <2>1. q \in Seq(Senders) /\ ToSet(q) = VotersIn(ms, x)
      BY <1>4, <1>5
    <2> HIDE DEF q, ns, x, s
    <2>2. DOMAIN q = 1..Len(q)
      BY <2>1
    <2>3. Contains(q, s) <=> s \in ToSet(q)
      BY <2>2 DEF Contains, ToSet
    <2> QED
      BY <2>1, <2>3 DEF q
  <1>9. \A k \in DOMAIN a.senders : FirstTime(a.timestamp[k], a.senders[k], x, ns)
    BY <1>5, FirstTimeStays
  <1>10. CASE Contains(a.senders, s)
    <2>1. Update(a, m) = a
      BY <1>10 DEF Update
    <2>2. VotersIn(ns, x) = VotersIn(ms, x)
      BY <1>3, <1>6, <1>10
    <2>3. Accounts(a, ns)
      <3> HIDE DEF ns
      <3> QED
        BY <1>5, <1>9, <2>2 DEF Accounts
    <2> QED
      BY <2>1, <2>3
  <1>11. CASE ~Contains(a.senders, s)
    <2> DEFINE b == Update(a, m)
               n == Len(a.senders)
    <2>1. b = [a EXCEPT !.stake = @ + Stake[s], !.senders = Append(@, s),
                        !.timestamp = Append(@, m.nonce)]
      BY <1>11 DEF Update
    <2>2. /\ b.ppoi = x /\ b.stake = a.stake + Stake[s]
          /\ b.senders = Append(a.senders, s) /\ b.timestamp = Append(a.timestamp, m.nonce)
      BY <2>1 DEF Attestation
    <2>3. b \in Attestation
      <3>1. /\ a.stake + Stake[s] \in Nat /\ Append(a.senders, s) \in Seq(Senders)
            /\ Append(a.timestamp, m.nonce) \in Seq(Nat)
        BY <1>2, <1>4
      <3> QED
        BY <2>1, <3>1 DEF Attestation
    <2>4. ToSet(b.senders) = VotersIn(ns, x)
      BY <1>3, <1>4, <1>5, <2>2, ToSetAppend
    <2>5. b.stake = StakeOf(VotersIn(ns, x))
      <3>1. IsFiniteSet(VotersIn(ms, x))
        BY <1>4, <1>5, RangeCounted
      <3>2. VotersIn(ms, x) \in SUBSET Senders
        BY DEF VotersIn
      <3>3. StakeOf(VotersIn(ms, x) \cup {s}) = StakeOf(VotersIn(ms, x)) + Stake[s]
        BY <1>2, <1>6, <1>11, <3>1, <3>2, StakeOfOneMore
      <3> QED
        BY <1>3, <1>5, <2>2, <3>3
    <2>6. n \in Nat /\ DOMAIN a.senders = 1..n /\ DOMAIN b.senders = 1..(n+1)
      BY <1>4, <2>2
    <2>7. /\ \A k \in 1..n : b.senders[k] = a.senders[k] /\ b.timestamp[k] = a.timestamp[k]
          /\ b.senders[n+1] = s /\ b.timestamp[n+1] = m.nonce
          /\ Len(b.senders) = n + 1 /\ Len(b.timestamp) = n + 1
      BY <1>2, <1>4, <1>5, <2>2
    <2>8. \A k \in 1..n : a.senders[k] # s
      BY <1>11 DEF Contains
    <2>9. \A k \in DOMAIN b.senders : k \in 1..n \/ k = n + 1
      BY <2>6
    <2>10. FirstTime(m.nonce, s, x, ns)
      <3>1. \A o \in ToSet(ms) : ~(o.sender = s /\ o.ppoi = x)
        BY <1>2, <1>6, <1>11 DEF VotersIn
      <3> QED
        BY <3>1, FirstTimeNew
    <2> HIDE DEF b, n, ns, x, s
    <2>11. \A j, k \in DOMAIN b.senders : b.senders[j] = b.senders[k] => j = k
      BY <1>5, <2>6, <2>7, <2>8, <2>9
    <2>12. \A k \in DOMAIN b.senders : FirstTime(b.timestamp[k], b.senders[k], x, ns)
      BY <1>9, <2>6, <2>7, <2>9, <2>10
    <2>13. Accounts(b, ns)
      BY <2>2, <2>4, <2>5, <2>7, <2>11, <2>12 DEF Accounts
    <2> QED
      BY <2>2, <2>3, <2>13 DEF b, ns, x
  <1> QED
    BY <1>10, <1>11

LEMMA GroupedNone == Grouped(<<>>, <<>>)
  <1>1. <<>> \in Seq(Attestation) /\ DOMAIN <<>> = {}
    OBVIOUS
  <1>2. ToSet(<<>>) = {}
    BY <1>1 DEF ToSet
  <1> QED
    BY <1>1, <1>2 DEF Grouped

\* One turn of the loop.
LEMMA GroupedOneMore ==
  ASSUME NEW M, \A o \in M : Speaks(o), NEW ms \in Seq(M), NEW m \in M,
         NEW atts, Grouped(atts, ms)
  PROVE  Grouped(AddMessage(atts, m), Append(ms, m))
  <1> DEFINE ns == Append(ms, m)
             n == Len(atts)
             same == {i \in DOMAIN atts : atts[i].ppoi = m.ppoi}
             new == AddMessage(atts, m)
  <1>1. ToSet(ns) = ToSet(ms) \cup {m}
    BY ToSetAppend
  <1>2. /\ atts \in Seq(Attestation) /\ n \in Nat /\ DOMAIN atts = 1..n
        /\ \A i \in 1..n : atts[i] \in Attestation /\ Accounts(atts[i], ms)
        /\ \A i, j \in 1..n : atts[i].ppoi = atts[j].ppoi => i = j
    BY DEF Grouped
  <1>3. {o.ppoi : o \in ToSet(ns)} = {atts[i].ppoi : i \in 1..n} \cup {m.ppoi}
    <2>1. {o.ppoi : o \in ToSet(ms)} = {atts[i].ppoi : i \in 1..n}
      BY <1>2 DEF Grouped
    <2> HIDE DEF ns, n
    <2>2. {o.ppoi : o \in ToSet(ms) \cup {m}} = {o.ppoi : o \in ToSet(ms)} \cup {m.ppoi}
      OBVIOUS
    <2> QED
      BY <1>1, <2>1, <2>2
  <1>4. CASE same = {}
    <2> DEFINE a == AttestationOf(m)
    <2>1. new = Append(atts, a)
      BY <1>4 DEF AddMessage
    <2>2. \A o \in ToSet(ms) : o.ppoi # m.ppoi
      BY <1>4 DEF Grouped
    <2>3. a \in Attestation /\ Accounts(a, ns)
      BY <2>2, NewAccounts
    <2>4. a.ppoi = m.ppoi
      BY DEF AttestationOf
    <2>5. \A i \in 1..n : atts[i].ppoi # m.ppoi
      BY <1>2, <1>4
    <2>6. \A i \in 1..n : Accounts(atts[i], ns)
      BY <1>2, <2>5, OthersAccount
    <2> HIDE DEF a
    <2>7. /\ new \in Seq(Attestation) /\ DOMAIN new = 1..(n+1)
          /\ \A i \in 1..n : new[i] = atts[i]
          /\ new[n+1] = a
      BY <1>2, <2>1, <2>3
    <2>8. \A i \in 1..(n+1) : i \in 1..n \/ i = n + 1
      BY <1>2
    <2>9. 1..(n+1) = 1..n \cup {n+1}
      BY <1>2
    <2> HIDE DEF new, n, ns, same
    <2>10. {new[i].ppoi : i \in DOMAIN new} = {atts[i].ppoi : i \in 1..n} \cup {m.ppoi}
      BY <2>4, <2>7, <2>9
    <2>11. \A i, j \in DOMAIN new : new[i].ppoi = new[j].ppoi => i = j
      BY <1>2, <2>4, <2>5, <2>7, <2>8
    <2>12. \A i \in DOMAIN new : Accounts(new[i], ns)
      BY <2>3, <2>6, <2>7, <2>8
    <2> QED
      BY <1>3, <2>7, <2>10, <2>11, <2>12 DEF Grouped, new, ns
  <1>5. CASE same # {}
    <2> DEFINE f == CHOOSE i \in same : \A j \in same : i <= j
    <2>1. PICK k \in same : same = {k}
      BY <1>2, <1>5
    <2>2. f = k
      <3>1. k \in same /\ \A j \in same : k <= j
        BY <1>2, <2>1
      <3> QED
        BY <2>1, <3>1
    <2>3. new = [atts EXCEPT ![k] = Update(@, m)]
      BY <1>5, <2>2 DEF AddMessage
    <2>4. k \in 1..n /\ atts[k].ppoi = m.ppoi
      BY <1>2
    <2> DEFINE b == Update(atts[k], m)
    <2>5. b \in Attestation /\ b.ppoi = m.ppoi /\ Accounts(b, ns)
      BY <1>2, <2>4, UpdateAccounts
    <2>6. \A i \in 1..n : i # k => atts[i].ppoi # m.ppoi
      BY <1>2, <2>1
    <2>7. \A i \in 1..n : i # k => Accounts(atts[i], ns)
      BY <1>2, <2>6, OthersAccount
    <2> HIDE DEF b
    <2>8. new = [atts EXCEPT ![k] = b]
      BY <2>3, <2>4 DEF b
    <2>9. /\ new \in Seq(Attestation) /\ DOMAIN new = 1..n
          /\ \A i \in 1..n : i # k => new[i] = atts[i]
          /\ new[k] = b
      BY <1>2, <2>4, <2>5, <2>8
    <2> HIDE DEF new, n, ns, same
    <2>10. \A i \in 1..n : new[i].ppoi = atts[i].ppoi
      BY <2>4, <2>5, <2>9
    <2>11. {new[i].ppoi : i \in DOMAIN new} = {atts[i].ppoi : i \in 1..n} \cup {m.ppoi}
      BY <2>4, <2>9, <2>10
    <2>12. \A i, j \in DOMAIN new : new[i].ppoi = new[j].ppoi => i = j
      BY <1>2, <2>9, <2>10
    <2>13. \A i \in DOMAIN new : Accounts(new[i], ns)
      BY <2>5, <2>7, <2>9
    <2> QED
      BY <1>3, <2>9, <2>11, <2>12, <2>13 DEF Grouped, new, ns
  <1> QED
    BY <1>4, <1>5

-----------------------------------------------------------------------------
(* Which attestation decides. *)

\* Which attestation decides: the first or the last in the order of stake.
LEMMA DecidingExists ==
  ASSUME NEW atts \in Seq(Attestation), atts # <<>>
  PROVE  DecidingIndex(atts) \in DOMAIN atts
  <1> DEFINE n == Len(atts)
             Stakes == {atts[i].stake : i \in 1..n}
  <1>1. n \in Nat /\ 1 \in 1..n /\ DOMAIN atts = 1..n
    OBVIOUS
  <1>2. \A i \in 1..n : atts[i].stake \in Nat
    <2>1. \A i \in 1..n : atts[i] \in Attestation
      OBVIOUS
    <2> HIDE DEF n
    <2> QED
      BY <2>1 DEF Attestation
  <1>3. PICK c \in Stakes : \A k \in Stakes : c <= k
    <2> Stakes \in SUBSET Nat /\ Stakes # {}
      BY <1>1, <1>2
    <2> HIDE DEF Stakes
    <2> QED
      BY LeastNat
  <1> DEFINE Alike == {i \in 1..n : atts[i].stake = c}
             i == Max(Alike)
  <1>4. Alike # {} /\ Alike \in SUBSET (1..n)
    BY <1>3
  <1>5. i \in Alike /\ \A j \in Alike : j <= i
    <2> HIDE DEF Alike
    <2> QED
      BY <1>1, <1>4, GreatestIndex
  <1> HIDE DEF i
  <1>6. i \in DOMAIN atts /\ \A j \in DOMAIN atts :
           \/ atts[i].stake < atts[j].stake
           \/ atts[j].stake = atts[i].stake /\ j <= i
    <2>1. i \in 1..n /\ atts[i].stake = c
      BY <1>5
    <2>2. ASSUME NEW j \in 1..n
          PROVE  c < atts[j].stake \/ (atts[j].stake = c /\ j <= i)
      <3>1. c <= atts[j].stake /\ c \in Nat /\ atts[j].stake \in Nat
        BY <1>2, <1>3
      <3>2. CASE atts[j].stake = c
        BY <1>5, <3>2
      <3>3. CASE atts[j].stake # c
        BY <3>1, <3>3
      <3> QED
        BY <3>2, <3>3
    <2> QED
      BY <1>1, <2>1, <2>2
  <1> QED
    BY <1>6 DEF DecidingIndex

LEMMA GreatestValue ==
  ASSUME NEW n \in Nat, n # 0, NEW f \in [1..n -> Nat]
  PROVE  \E i \in 1..n : \A j \in 1..n : f[j] <= f[i]
  <1> DEFINE Bad == {k \in 1..n : ~ \E i \in 1..k : \A j \in 1..k : f[j] <= f[i]}
  <1> SUFFICES ASSUME Bad # {} PROVE FALSE
    <2>1. n \in 1..n
      OBVIOUS
    <2> QED
      BY <2>1
  <1>1. PICK k \in Bad : \A m \in Bad : k <= m
    <2> Bad \in SUBSET Nat
      OBVIOUS
    <2> HIDE DEF Bad
    <2> QED
      BY LeastNat
  <1>2. k \in 1..n /\ k # 1
    <2> SUFFICES ASSUME k = 1 PROVE FALSE
      OBVIOUS
    <2>1. 1 \in 1..1 /\ f[1] \in Nat /\ \A j \in 1..1 : j = 1
      OBVIOUS
    <2> QED
      BY <2>1
  <1>3. k - 1 \in 1..n /\ k - 1 \notin Bad
    <2>1. k - 1 \in 1..n /\ ~(k <= k - 1)
      BY <1>2
    <2> QED
      BY <1>1, <2>1
  <1>4. PICK i \in 1..(k-1) : \A j \in 1..(k-1) : f[j] <= f[i]
    BY <1>3
  <1>5. /\ i \in 1..k /\ k \in 1..k /\ f[i] \in Nat /\ f[k] \in Nat
        /\ \A j \in 1..k : f[j] \in Nat /\ (j \in 1..(k-1) \/ j = k)
    BY <1>2
  <1>6. CASE f[k] <= f[i]
    <2>1. \A j \in 1..k : f[j] <= f[i]
      BY <1>4, <1>5, <1>6
    <2> QED
      BY <1>5, <2>1
  <1>7. CASE f[i] < f[k]
    <2>1. ASSUME NEW j \in 1..k PROVE f[j] <= f[k]
      <3>1. CASE j = k
        BY <1>5, <3>1
      <3>2. CASE j # k
        <4>1. f[j] <= f[i]
          BY <1>4, <1>5, <3>2
        <4>2. f[j] \in Nat /\ f[i] \in Nat /\ f[k] \in Nat
          BY <1>5
        <4> QED
          BY <4>1, <4>2, <1>7
      <3> QED
        BY <3>1, <3>2
    <2> QED
      BY <1>5, <2>1
  <1> QED
    BY <1>5, <1>6, <1>7

LEMMA TopExists ==
  ASSUME NEW atts \in Seq(Attestation), atts # <<>>
  PROVE  /\ TopIndex(atts) \in DOMAIN atts
         /\ \A j \in DOMAIN atts : atts[j].stake <= atts[TopIndex(atts)].stake
  <1> DEFINE n == Len(atts)
             Stakes == {atts[i].stake : i \in 1..n}
  <1>1. n \in Nat /\ 1 \in 1..n /\ DOMAIN atts = 1..n
    OBVIOUS
  <1>2. \A i \in 1..n : atts[i].stake \in Nat
    <2>1. \A i \in 1..n : atts[i] \in Attestation
      OBVIOUS
    <2> HIDE DEF n
    <2> QED
      BY <2>1 DEF Attestation
  <1>3. PICK c \in Stakes : \A k \in Stakes : c >= k
    <2> DEFINE f == [i \in 1..n |-> atts[i].stake]
    <2>1. n \in Nat /\ n # 0 /\ f \in [1..n -> Nat]
      BY <1>1, <1>2
    <2>2. \A i \in 1..n : f[i] = atts[i].stake
      OBVIOUS
    <2> HIDE DEF f
    <2>3. PICK i \in 1..n : \A j \in 1..n : f[j] <= f[i]
      BY <2>1, GreatestValue
    <2>4. \A j \in 1..n : atts[i].stake >= atts[j].stake
      BY <1>2, <2>2, <2>3
    <2> QED
      BY <2>4
  <1> DEFINE Alike == {i \in 1..n : atts[i].stake = c}
             i == Max(Alike)
  <1>4. Alike # {} /\ Alike \in SUBSET (1..n)
    BY <1>3
  <1>5. i \in Alike /\ \A j \in Alike : j <= i
    <2> HIDE DEF Alike
    <2> QED
      BY <1>1, <1>4, GreatestIndex
  <1> HIDE DEF i
  <1>6. i \in DOMAIN atts /\ \A j \in DOMAIN atts :
           \/ atts[j].stake < atts[i].stake
           \/ atts[j].stake = atts[i].stake /\ j <= i
    <2>1. i \in 1..n /\ atts[i].stake = c
      BY <1>5
    <2>2. ASSUME NEW j \in 1..n
          PROVE  atts[j].stake < c \/ (atts[j].stake = c /\ j <= i)
      <3>1. atts[j].stake <= c /\ c \in Nat /\ atts[j].stake \in Nat
        BY <1>2, <1>3
      <3>2. CASE atts[j].stake = c
        BY <1>5, <3>2
      <3>3. CASE atts[j].stake # c
        BY <3>1, <3>3
      <3> QED
        BY <3>2, <3>3
    <2> QED
      BY <1>1, <2>1, <2>2
  <1>7. /\ TopIndex(atts) \in DOMAIN atts
        /\ \A j \in DOMAIN atts :
             \/ atts[j].stake < atts[TopIndex(atts)].stake
             \/ atts[j].stake = atts[TopIndex(atts)].stake /\ j <= TopIndex(atts)
    BY <1>6 DEF TopIndex
  <1> QED
    BY <1>1, <1>2, <1>7

LEMMA FunctionIsSeq ==
  ASSUME NEW m \in Nat, NEW R, NEW s \in [1..m -> R]
  PROVE  s \in Seq(R) /\ Len(s) = m
  OBVIOUS

\* What the loop makes of any sequence of messages, and that there is something
\* to decide on unless nobody has answered.
LEMMA ProcessGrouped ==
  ASSUME NEW M, \A o \in M : Speaks(o), NEW ms \in Seq(M)
  PROVE  Grouped(process_ppoi_message(ms), ms)
  <1> DEFINE n == Len(ms)
             Upto(k) == [i \in 1..k |-> ms[i]]
             Bad == {k \in 0..n : ~Grouped(process_ppoi_message(Upto(k)), Upto(k))}
  <1>0. n \in Nat /\ \A i \in 1..n : ms[i] \in M
    OBVIOUS
  <1>1. Upto(n) = ms
    OBVIOUS
  <1>2. \A k \in 0..n : Upto(k) \in Seq(M) /\ Len(Upto(k)) = k
    <2> SUFFICES ASSUME NEW k \in 0..n PROVE Upto(k) \in Seq(M) /\ Len(Upto(k)) = k
      OBVIOUS
    <2>1. k \in Nat /\ Upto(k) \in [1..k -> M]
      BY <1>0
    <2> HIDE DEF Upto
    <2> QED
      BY <2>1, FunctionIsSeq
  <1>3. \A k \in 1..n : Upto(k) = Append(Upto(k-1), ms[k])
    <2> SUFFICES ASSUME NEW k \in 1..n PROVE Upto(k) = Append(Upto(k-1), ms[k])
      OBVIOUS
    <2> DEFINE p == Upto(k-1)
    <2>1. k - 1 \in 0..n /\ k - 1 + 1 = k /\ k \in Nat
      BY <1>0
    <2>2. p \in Seq(M) /\ Len(p) = k - 1
      BY <1>2, <2>1
    <2>3. \A i \in 1..(k-1) : p[i] = ms[i]
      OBVIOUS
    <2> HIDE DEF p
    <2>4. /\ DOMAIN Append(p, ms[k]) = 1..k
          /\ \A i \in 1..(k-1) : Append(p, ms[k])[i] = ms[i]
          /\ Append(p, ms[k])[k] = ms[k]
      BY <1>0, <2>1, <2>2, <2>3
    <2>5. Append(p, ms[k]) = [i \in 1..k |-> Append(p, ms[k])[i]]
      BY <2>2, <2>4
    <2>6. \A i \in 1..k : Append(p, ms[k])[i] = ms[i]
      BY <2>1, <2>4
    <2>7. Upto(k) = Append(p, ms[k])
      BY <2>5, <2>6
    <2> QED
      BY <2>7 DEF p
  <1>4. Upto(0) = <<>>
    OBVIOUS
  <1> HIDE DEF Upto
  <1> SUFFICES ASSUME Bad # {} PROVE FALSE
    <2>1. n \in 0..n
      BY <1>0
    <2> HIDE DEF n
    <2> QED
      BY <1>1, <2>1
  <1>5. PICK k \in Bad : \A j \in Bad : k <= j
    <2> Bad \in SUBSET Nat
      BY <1>0
    <2> HIDE DEF Bad
    <2> QED
      BY LeastNat
  <1> HIDE DEF n
  <1>6. k # 0
    BY <1>4, ProcessNone, GroupedNone
  <1>7. k \in 1..n /\ k - 1 \in 0..n /\ ~(k <= k - 1)
    BY <1>0, <1>6
  <1> DEFINE p == Upto(k-1)
  <1>8. Grouped(process_ppoi_message(p), p)
    BY <1>5, <1>7
  <1>9. p \in Seq(M) /\ ms[k] \in M /\ Upto(k) = Append(p, ms[k])
    BY <1>0, <1>2, <1>3, <1>7
  <1> HIDE DEF p
  <1>10. Grouped(AddMessage(process_ppoi_message(p), ms[k]), Append(p, ms[k]))
    BY <1>8, <1>9, GroupedOneMore
  <1>11. process_ppoi_message(Append(p, ms[k])) = AddMessage(process_ppoi_message(p), ms[k])
    BY <1>9, ProcessOneMore
  <1>12. Grouped(process_ppoi_message(Upto(k)), Upto(k))
    BY <1>9, <1>10, <1>11
  <1> QED
    BY <1>12

\* No verdict without a witness, whatever decides among several ppois.
LEMMA VerdictWitness ==
  ASSUME NEW M, \A o \in M : Speaks(o), NEW ms \in Seq(M), NEW x
  PROVE  LET v == compare_attestations(x, process_ppoi_message(ms)) IN
         /\ v = "NotFound" <=> ToSet(ms) = {}
         /\ v = "Match" => \E m \in ToSet(ms) : m.ppoi = x
         /\ v = "Divergent" => \E m \in ToSet(ms) : m.ppoi # x
  <1> DEFINE atts == process_ppoi_message(ms)
             i == DecidingIndex(atts)
  <1>1. Grouped(atts, ms)
    BY ProcessGrouped
  <1> HIDE DEF atts
  <1>2. atts \in Seq(Attestation) /\ {atts[j].ppoi : j \in DOMAIN atts} = {m.ppoi : m \in ToSet(ms)}
    BY <1>1 DEF Grouped
  <1>3. DOMAIN atts = {} <=> atts = <<>>
    <2>1. /\ DOMAIN atts = 1..Len(atts) /\ Len(atts) \in Nat
          /\ (Len(atts) = 0 <=> atts = <<>>)
      BY <1>2
    <2> HIDE DEF i
    <2>2. atts # <<>> => 1 \in DOMAIN atts
      BY <2>1
    <2>3. DOMAIN <<>> = {}
      OBVIOUS
    <2> QED
      BY <2>2, <2>3
  <1>4. CASE atts = <<>>
    <2>1. ToSet(ms) = {}
      BY <1>2, <1>3, <1>4
    <2> QED
      BY <1>4, <2>1 DEF compare_attestations, atts
  <1>5. CASE atts # <<>>
    <2>1. i \in DOMAIN atts
      BY <1>2, <1>5, DecidingExists
    <2>2. compare_attestations(x, atts) = IF atts[i].ppoi = x THEN "Match" ELSE "Divergent"
      BY <1>5 DEF compare_attestations
    <2> HIDE DEF i
    <2>3. PICK m \in ToSet(ms) : m.ppoi = atts[i].ppoi
      BY <1>2, <2>1
    <2> QED
      BY <2>2, <2>3 DEF atts
  <1> QED
    BY <1>4, <1>5

-----------------------------------------------------------------------------
(* Places in an order. *)

\* R is a strict and total order of S.
Orders(R, S) ==
  /\ \A a \in S : <<a, a>> \notin R
  /\ \A a, b \in S : a # b => <<a, b>> \in R \/ <<b, a>> \in R
  /\ \A a, b, c \in S : <<a, b>> \in R /\ <<b, c>> \in R => <<a, c>> \in R

Rank(S, R, e) == Cardinality({o \in S : <<o, e>> \in R}) + 1

\* Each element has a place of its own, and each place is taken.
LEMMA Ranked ==
  ASSUME NEW S, IsFiniteSet(S), NEW R, Orders(R, S)
  PROVE  /\ \A e \in S : Rank(S, R, e) \in 1..Cardinality(S)
         /\ \A a, b \in S : <<a, b>> \in R => Rank(S, R, a) < Rank(S, R, b)
         /\ \A a, b \in S : Rank(S, R, a) = Rank(S, R, b) => a = b
         /\ \A k \in 1..Cardinality(S) : \E e \in S : Rank(S, R, e) = k
  <1> DEFINE n == Cardinality(S)
             below(e) == {o \in S : <<o, e>> \in R}
             rank(e) == Rank(S, R, e)
  <1>0. n \in Nat
    BY FS_CardinalityType
  <1>1. \A e \in S : rank(e) = Cardinality(below(e)) + 1
    BY DEF Rank
  <1>2. ASSUME NEW e \in S
        PROVE  IsFiniteSet(below(e)) /\ Cardinality(below(e)) \in Nat /\ Cardinality(below(e)) < n
    <2>1. below(e) \in SUBSET S /\ below(e) # S
      BY DEF Orders
    <2> HIDE DEF below
    <2>2. /\ IsFiniteSet(below(e)) /\ Cardinality(below(e)) <= Cardinality(S)
          /\ Cardinality(below(e)) = Cardinality(S) => below(e) = S
      BY <2>1, FS_Subset
    <2>3. Cardinality(below(e)) \in Nat
      BY <2>2, FS_CardinalityType
    <2> QED
      BY <1>0, <2>1, <2>2, <2>3
  <1>3. ASSUME NEW a \in S, NEW b \in S, <<a, b>> \in R
        PROVE  rank(a) < rank(b)
    <2>1. below(a) \in SUBSET below(b) /\ a \in below(b) /\ a \notin below(a)
      BY <1>3 DEF Orders
    <2> HIDE DEF below
    <2>2. /\ Cardinality(below(a)) <= Cardinality(below(b))
          /\ Cardinality(below(a)) = Cardinality(below(b)) => below(a) = below(b)
      BY <1>2, <2>1, FS_Subset
    <2>3. Cardinality(below(a)) < Cardinality(below(b))
      BY <1>2, <2>1, <2>2
    <2> HIDE DEF rank
    <2> QED
      BY <1>1, <1>2, <2>3
  <1> HIDE DEF below
  <1>4. \A e \in S : rank(e) \in 1..n
    <2> HIDE DEF rank, n
    <2> QED
      BY <1>0, <1>1, <1>2
  <1> HIDE DEF rank
  <1>5. \A a, b \in S : rank(a) = rank(b) => a = b
    <2> SUFFICES ASSUME NEW a \in S, NEW b \in S, rank(a) = rank(b), a # b
                 PROVE  FALSE
      OBVIOUS
    <2>1. rank(a) < rank(b) \/ rank(b) < rank(a)
      BY <1>3 DEF Orders
    <2> QED
      BY <1>0, <1>4, <2>1
  <1>6. \A k \in 1..n : \E e \in S : rank(e) = k
    <2> DEFINE f == [e \in S |-> rank(e)]
    <2> HIDE DEF n
    <2>0. IsFiniteSet(1..n) /\ Cardinality(1..n) = n
      <3>1. 1 \in Int /\ n \in Int /\ (1 > n => n = 0) /\ n - 1 + 1 = n
        BY <1>0
      <3> QED
        BY <3>1, FS_Interval
    <2>1. f \in Injection(S, 1..n)
      BY <1>4, <1>5 DEF Injection, IsInjective
    <2>2. f \in Surjection(S, 1..n)
      <3> HIDE DEF f
      <3> QED
        BY <2>0, <2>1, FS_Injection DEF n
    <2>3. \A k \in 1..n : \E e \in S : f[e] = k
      <3> HIDE DEF f
      <3> QED
        BY <2>2 DEF Surjection
    <2> QED
      BY <2>3
  <1> QED
    BY <1>3, <1>4, <1>5, <1>6 DEF rank
=============================================================================
