------------------------ MODULE UpgradeIntents_proofs ------------------------
(***************************************************************************)
(* Proofs about UpgradeIntents, for every set of subgraphs and nonces,     *)
(* every threshold and every value of the bounds.                          *)
(***************************************************************************)
EXTENDS UpgradeIntents, SequenceTheorems, TLAPS

-----------------------------------------------------------------------------
(* The two ways the history changes *)

\* Taking a decision puts it behind those taken before.
LEMMA Decided ==
  ASSUME TypeOK, step # Idle,
         NEW did \in {"skipped", "announced", "synced"}, Decide(did)
  PROVE  LET s == step.of  n == Len(handled[s]) IN
           /\ s \in Subgraphs
           /\ handled' \in [Subgraphs -> Seq(Decision)]
           /\ n \in Nat
           /\ Len(handled'[s]) = n + 1
           /\ \A i \in 1..n : handled'[s][i] = handled[s][i]
           /\ handled'[s][n + 1] = [nonce |-> step.nonce, did |-> did, kept |-> FALSE]
           /\ handled'[s] # <<>>
           /\ step'.of = s => /\ Current' = handled'[s][n + 1]
                              /\ Current'.nonce = step.nonce
                              /\ Current'.did = did
                              /\ ~Current'.kept
           /\ \A t \in Subgraphs \ {s} : handled'[t] = handled[t]
  <1> DEFINE s == step.of
             x == [nonce |-> step.nonce, did |-> did, kept |-> FALSE]
  <1>1. s \in Subgraphs /\ step.nonce \in Nonces
    BY DEF TypeOK, Busy
  <1>2. x \in Decision
    BY <1>1 DEF Decision
  <1>3. handled[s] \in Seq(Decision)
    BY <1>1 DEF TypeOK
  <1>4. handled' = [handled EXCEPT ![s] = Append(handled[s], x)]
    BY DEF Decide
  <1>5. handled'[s] = Append(handled[s], x)
    BY <1>1, <1>4 DEF TypeOK
  <1>6. /\ Append(handled[s], x) \in Seq(Decision)
        /\ Len(Append(handled[s], x)) = Len(handled[s]) + 1
        /\ \A i \in 1..Len(handled[s]) : Append(handled[s], x)[i] = handled[s][i]
        /\ Append(handled[s], x)[Len(handled[s]) + 1] = x
    BY <1>2, <1>3, AppendProperties
  <1>7. Len(handled[s]) \in Nat
    BY <1>3, LenProperties
  <1>8. handled' \in [Subgraphs -> Seq(Decision)]
    BY <1>4, <1>6 DEF TypeOK
  <1>9. \A t \in Subgraphs \ {s} : handled'[t] = handled[t]
    BY <1>4 DEF TypeOK
  <1>10. handled'[s] # <<>>
    <2>1. Len(handled'[s]) # 0
      BY <1>5, <1>6, <1>7
    <2> QED
      BY <2>1, EmptySeq
  <1>11. step'.of = s => Current' = x
    BY <1>5, <1>6 DEF Current, Last
  <1>12. x.nonce = step.nonce /\ x.did = did /\ ~x.kept
    OBVIOUS
  <1>13. /\ Len(handled'[s]) = Len(handled[s]) + 1
         /\ \A i \in 1..Len(handled[s]) : handled'[s][i] = handled[s][i]
         /\ handled'[s][Len(handled[s]) + 1] = x
    BY <1>5, <1>6
  <1> HIDE DEF x
  <1>14. step'.of = s => /\ Current' = handled'[s][Len(handled[s]) + 1]
                         /\ Current'.nonce = step.nonce
                         /\ Current'.did = did
                         /\ ~Current'.kept
    BY <1>11, <1>12, <1>13
  <1> QED
    BY <1>1, <1>7, <1>8, <1>9, <1>10, <1>13, <1>14 DEF x

\* Amending a decision replaces the last one.
LEMMA Amended ==
  ASSUME TypeOK, step.at \in {"query", "sync", "save"},
         NEW x \in Decision, Amend(x)
  PROVE  LET s == step.of  n == Len(handled[s]) IN
           /\ s \in Subgraphs
           /\ handled' \in [Subgraphs -> Seq(Decision)]
           /\ n \in Nat \ {0}
           /\ Len(handled'[s]) = n
           /\ \A i \in 1..(n - 1) : handled'[s][i] = handled[s][i]
           /\ handled'[s][n] = x
           /\ handled'[s] # <<>>
           /\ step'.of = s => Current' = x
           /\ \A t \in Subgraphs \ {s} : handled'[t] = handled[t]
  <1> DEFINE s == step.of
             n == Len(handled[s])
  <1>1. s \in Subgraphs
    BY DEF TypeOK, Busy, Idle
  <1>2. handled[s] \in Seq(Decision) /\ handled[s] # <<>>
    BY <1>1 DEF TypeOK
  <1>3. n \in Nat \ {0}
    BY <1>2, EmptySeq
  <1>4. handled' = [handled EXCEPT ![s] = [handled[s] EXCEPT ![n] = x]]
    BY <1>1 DEF Amend, TypeOK
  <1>5. handled'[s] = [handled[s] EXCEPT ![n] = x]
    BY <1>1, <1>4 DEF TypeOK
  <1>6. n \in 1..n
    BY <1>3
  <1>7. /\ [handled[s] EXCEPT ![n] = x] \in Seq(Decision)
        /\ Len([handled[s] EXCEPT ![n] = x]) = n
        /\ \A i \in 1..n : [handled[s] EXCEPT ![n] = x][i] = IF i = n THEN x ELSE handled[s][i]
    BY <1>2, <1>6, ExceptSeq
  <1>8. handled' \in [Subgraphs -> Seq(Decision)]
    BY <1>4, <1>7 DEF TypeOK
  <1>9. \A t \in Subgraphs \ {s} : handled'[t] = handled[t]
    BY <1>4 DEF TypeOK
  <1>10. \A i \in 1..(n - 1) : i \in 1..n /\ i # n
    BY <1>3
  <1>11. handled'[s] # <<>>
    BY <1>3, <1>5, <1>7, EmptySeq
  <1>12. step'.of = s => Current' = x
    BY <1>5, <1>6, <1>7 DEF Current, Last
  <1> QED
    BY <1>1, <1>3, <1>5, <1>6, <1>7, <1>8, <1>9, <1>10, <1>11, <1>12

\* What the stages of a message are, and that its decision is one.
LEMMA StageFacts ==
  ASSUME TypeOK, step # Idle
  PROVE  /\ step \in Busy
         /\ step.of \in Subgraphs
         /\ step.nonce \in Nonces
         /\ step.at \in {"query", "sync", "save"} => Current \in Decision
  <1>1. step \in Busy /\ step.of \in Subgraphs /\ step.nonce \in Nonces
    BY DEF TypeOK, Busy
  <1>2. ASSUME step.at \in {"query", "sync", "save"}
        PROVE  Current \in Decision
    <2>1. handled[step.of] \in Seq(Decision) /\ handled[step.of] # <<>>
      BY <1>1, <1>2 DEF TypeOK
    <2>2. Len(handled[step.of]) \in 1..Len(handled[step.of])
      BY <2>1, EmptySeq
    <2> QED
      BY <2>1, <2>2, ElementOfSeq DEF Current, Last
  <1> QED
    BY <1>1, <1>2

\* The decision of a message at the management server stays an upgrade that is
\* not kept, whatever becomes of the rule.
LEMMA SetRuleResult ==
  ASSUME TypeOK, step.at = "sync", SetRule
  PROVE  /\ step.of \in Subgraphs
         /\ handled' \in [Subgraphs -> Seq(Decision)]
         /\ handled'[step.of] # <<>>
         /\ Last(handled'[step.of]).nonce = step.nonce
         /\ ~Last(handled'[step.of]).kept
         /\ Last(handled'[step.of]).did \in {"announced", "synced"}
  <1>1. step # Idle /\ step.of \in Subgraphs /\ Current \in Decision
    BY StageFacts DEF Idle
  <1>2. CASE UNCHANGED handled
    BY <1>1, <1>2 DEF TypeOK, Current
  <1>3. CASE Amend([Current EXCEPT !.did = "synced"])
    <2> DEFINE x == [Current EXCEPT !.did = "synced"]
    <2>1. x \in Decision /\ x.nonce = Current.nonce /\ x.kept = Current.kept /\ x.did = "synced"
      BY <1>1 DEF Decision
    <2>2. /\ handled' \in [Subgraphs -> Seq(Decision)] /\ handled'[step.of] # <<>>
          /\ Len(handled'[step.of]) = Len(handled[step.of])
          /\ handled'[step.of][Len(handled[step.of])] = x
      BY <1>1, <1>3, <2>1, Amended
    <2>3. Last(handled'[step.of]) = x
      BY <2>2 DEF Last
    <2> HIDE DEF x
    <2> QED
      BY <1>1, <2>1, <2>2, <2>3 DEF TypeOK
  <1> QED
    BY <1>2, <1>3 DEF SetRule

\* Forgetting that decisions were kept changes nothing else of the history.
LEMMA Lost ==
  ASSUME TypeOK,
         handled' = [s \in Subgraphs |->
                       [i \in DOMAIN handled[s] |-> [handled[s][i] EXCEPT !.kept = FALSE]]]
  PROVE  /\ handled' \in [Subgraphs -> Seq(Decision)]
         /\ \A s \in Subgraphs :
              /\ DOMAIN handled'[s] = DOMAIN handled[s]
              /\ \A i \in DOMAIN handled[s] : ~handled'[s][i].kept
  <1>1. ASSUME NEW s \in Subgraphs
        PROVE  /\ handled'[s] \in Seq(Decision)
               /\ DOMAIN handled'[s] = DOMAIN handled[s]
               /\ \A i \in DOMAIN handled[s] : ~handled'[s][i].kept
    <2>1. handled[s] \in Seq(Decision)
      BY <1>1 DEF TypeOK
    <2>2. Len(handled[s]) \in Nat /\ DOMAIN handled[s] = 1..Len(handled[s])
      BY <2>1, LenProperties
    <2>3. \A i \in 1..Len(handled[s]) : handled[s][i] \in Decision
      BY <2>1, ElementOfSeq
    <2>4. handled'[s] = [i \in 1..Len(handled[s]) |-> [handled[s][i] EXCEPT !.kept = FALSE]]
      BY <2>2
    <2>5. \A i \in 1..Len(handled[s]) :
            /\ [handled[s][i] EXCEPT !.kept = FALSE] \in Decision
            /\ ~[handled[s][i] EXCEPT !.kept = FALSE].kept
      BY <2>3 DEF Decision
    <2>6. handled'[s] \in [1..Len(handled[s]) -> Decision]
      BY <2>4, <2>5
    <2>7. handled'[s] \in Seq(Decision)
      <3>1. Seq(Decision) = UNION {[1..n -> Decision] : n \in Nat}
        BY SeqDef
      <3> QED
        BY <2>2, <2>6, <3>1, Zenon
    <2> QED
      BY <2>2, <2>4, <2>5, <2>7
  <1> QED
    BY <1>1

-----------------------------------------------------------------------------
(* Type correctness *)

LEMMA TypeInit == Init => TypeOK
  <1> SUFFICES ASSUME Init PROVE TypeOK
    OBVIOUS
  <1>1. handled \in [Subgraphs -> Seq(Decision)]
    BY EmptySeq DEF Init
  <1> QED
    BY <1>1, BoundAssumption DEF Init, TypeOK, Idle

LEMMA TypeStep == TypeOK /\ [Next]_vars => TypeOK'
  <1> SUFFICES ASSUME TypeOK, [Next]_vars PROVE TypeOK'
    OBVIOUS
  <1> USE DEF GoTo
  <1>1. CASE \E s \in Subgraphs, n \in Nonces : Receive(s, n)
    BY <1>1 DEF Receive, TypeOK, Busy, Current
  <1>2. CASE CheckLimit
    <2>1. step # Idle /\ step \in Busy
      BY <1>2, StageFacts DEF CheckLimit, Idle
    <2>2. CASE RecentUpgrade(step.of, step.nonce)
      <3>1. Decide("skipped") /\ step' = [step EXCEPT !.at = "save"]
        BY <1>2, <2>2 DEF CheckLimit
      <3>2. step' \in Busy /\ step'.at = "save" /\ step'.of = step.of /\ step'.nonce = step.nonce
        BY <2>1, <3>1 DEF Busy
      <3> QED
        <4>1. /\ handled' \in [Subgraphs -> Seq(Decision)] /\ handled'[step.of] # <<>>
              /\ Current'.nonce = step.nonce /\ ~Current'.kept
          BY <2>1, <3>1, <3>2, Decided
        <4> QED
          BY <1>2, <3>2, <4>1 DEF CheckLimit, TypeOK, Idle
    <2>3. CASE ~RecentUpgrade(step.of, step.nonce)
      BY <1>2, <2>1, <2>3 DEF CheckLimit, TypeOK, Busy, Idle
    <2> QED
      BY <2>2, <2>3
  <1>3. CASE Announce
    <2>1. step # Idle /\ step \in Busy
      BY <1>3, StageFacts DEF Announce, Idle
    <2>2. /\ step' \in Busy /\ step'.at \in {"query", "save"}
          /\ step'.of = step.of /\ step'.nonce = step.nonce
      BY <1>3, <2>1 DEF Announce, Busy
    <2>3. /\ handled' \in [Subgraphs -> Seq(Decision)] /\ handled'[step.of] # <<>>
          /\ Current'.nonce = step.nonce /\ Current'.did = "announced" /\ ~Current'.kept
      BY <1>3, <2>1, <2>2, Decided DEF Announce
    <2> QED
      BY <1>3, <2>2, <2>3 DEF Announce, TypeOK, Idle
  <1>4. CASE QueryCoverage
    <2>1. step # Idle /\ step \in Busy
      BY <1>4, StageFacts DEF QueryCoverage, Idle
    <2>2. /\ step' \in Busy /\ step'.at \in {"sync", "save"}
          /\ step'.of = step.of /\ step'.nonce = step.nonce
      BY <1>4, <2>1 DEF QueryCoverage, Busy
    <2> QED
      BY <1>4, <2>2 DEF QueryCoverage, TypeOK, Current, Idle
  <1>5. CASE SyncOffchain
    <2>1. step.at = "sync" /\ SetRule /\ step \in Busy
      BY <1>5, StageFacts DEF SyncOffchain, Idle
    <2>2. /\ step' \in Busy /\ step'.at = "save"
          /\ step'.of = step.of /\ step'.nonce = step.nonce
      BY <1>5, <2>1 DEF SyncOffchain, Busy
    <2>3. /\ handled' \in [Subgraphs -> Seq(Decision)] /\ handled'[step.of] # <<>>
          /\ Last(handled'[step.of]).nonce = step.nonce
          /\ ~Last(handled'[step.of]).kept
      BY <2>1, SetRuleResult
    <2> QED
      BY <1>5, <2>2, <2>3 DEF SyncOffchain, TypeOK, Current, Idle
  <1>6. CASE SaveIntent
    <2>1. step # Idle /\ step \in Busy /\ Current \in Decision
      BY <1>6, StageFacts DEF SaveIntent, Idle
    <2>2. [Current EXCEPT !.kept = TRUE] \in Decision
      BY <2>1 DEF Decision
    <2>3. handled' \in [Subgraphs -> Seq(Decision)]
      BY <1>6, <2>2, Amended DEF SaveIntent
    <2>4. row' \in [Subgraphs -> Nonces \cup {0}]
      BY <1>6, <2>1, StageFacts DEF SaveIntent, TypeOK
    <2> QED
      BY <1>6, <2>3, <2>4 DEF SaveIntent, TypeOK, Idle
  <1>7. CASE Abandon
    BY <1>7, BoundAssumption DEF Abandon, TypeOK, Idle
  <1>10. CASE LoseProcessor
    <2>1. handled' \in [Subgraphs -> Seq(Decision)]
      BY <1>10, SetRuleResult DEF LoseProcessor
    <2> QED
      BY <1>10, <2>1, BoundAssumption DEF LoseProcessor, TypeOK, Idle
  <1>8. CASE Restart
    <2>1. handled' \in [Subgraphs -> Seq(Decision)]
      BY <1>8, Lost DEF Restart, TypeOK
    <2>2. row' \in [Subgraphs -> Nonces \cup {0}]
      BY <1>8 DEF Restart, TypeOK
    <2> QED
      BY <1>8, <2>1, <2>2, BoundAssumption DEF Restart, TypeOK, Idle
  <1>9. CASE UNCHANGED vars
    BY <1>9 DEF vars, TypeOK, Current
  <1> QED
    BY <1>1, <1>2, <1>3, <1>4, <1>5, <1>6, <1>7, <1>8, <1>9, <1>10 DEF Next

\* Every variable keeps its type; a message past its limit is the last one a
\* decision was taken on, and only one that passed reaches the management server.
THEOREM TypeCorrect == Spec => []TypeOK
  BY TypeInit, TypeStep, PTL DEF Spec

\* What a typed history consists of.
LEMMA HistoryFacts ==
  ASSUME TypeOK, NEW s \in Subgraphs
  PROVE  /\ Len(handled[s]) \in Nat
         /\ DOMAIN handled[s] = 1..Len(handled[s])
         /\ \A i \in 1..Len(handled[s]) :
              /\ handled[s][i] \in Decision
              /\ handled[s][i].nonce \in Nat \ {0}
         /\ row[s] \in Nat
  <1>1. handled[s] \in Seq(Decision)
    BY DEF TypeOK
  <1>2. \A i \in 1..Len(handled[s]) : handled[s][i] \in Decision
    BY <1>1, ElementOfSeq
  <1>3. \A i \in 1..Len(handled[s]) : handled[s][i].nonce \in Nat \ {0}
    BY <1>2, NonceAssumption DEF Decision
  <1>4. row[s] \in Nonces \cup {0}
    BY DEF TypeOK
  <1>5. Nonces \subseteq Nat
    BY NonceAssumption
  <1>6. row[s] \in Nat
    <2>1. CASE row[s] \in Nonces
      BY <1>5, <2>1
    <2>2. CASE row[s] = 0
      BY <2>2
    <2> QED
      BY <1>4, <2>1, <2>2
  <1> QED
    BY <1>1, <1>2, <1>3, <1>6, LenProperties

-----------------------------------------------------------------------------
(* Steps that take no decision *)

\* The decisions taken, their nonces and whether they upgrade stay as they are,
\* and none is kept that was not kept before, but perhaps the last.
SameDecisions(s) ==
  /\ Len(handled'[s]) = Len(handled[s])
  /\ \A i \in 1..Len(handled[s]) :
       /\ handled'[s][i].nonce = handled[s][i].nonce
       /\ Upgraded(handled'[s][i]) <=> Upgraded(handled[s][i])
       /\ i # Len(handled[s]) /\ handled'[s][i].kept => handled[s][i].kept

LEMMA SetRuleSame ==
  ASSUME TypeOK, step.at = "sync", SetRule
  PROVE  \A s \in Subgraphs :
           /\ SameDecisions(s)
           /\ \A i \in 1..Len(handled[s]) : handled'[s][i].kept = handled[s][i].kept
  <1>1. step # Idle /\ step.at = "sync"
    BY DEF Idle
  <1>2. /\ Current \in Decision
        /\ Current = handled[step.of][Len(handled[step.of])]
        /\ Current.did = "announced"
    BY <1>1, StageFacts DEF TypeOK, Current, Last
  <1> DEFINE x == [Current EXCEPT !.did = "synced"]
  <1>3. /\ x \in Decision /\ x.nonce = Current.nonce /\ x.kept = Current.kept
        /\ Upgraded(x) /\ Upgraded(Current)
    BY <1>2 DEF Decision, Upgraded
  <1>4. CASE UNCHANGED handled
    BY <1>4 DEF SameDecisions
  <1>5. CASE Amend(x)
    <2> SUFFICES ASSUME NEW s \in Subgraphs
                 PROVE  /\ SameDecisions(s)
                        /\ \A i \in 1..Len(handled[s]) :
                             handled'[s][i].kept = handled[s][i].kept
      OBVIOUS
    <2>1. CASE s # step.of
      <3>1. handled'[s] = handled[s]
        BY <1>1, <1>3, <1>5, <2>1, Amended
      <3> QED
        BY <3>1 DEF SameDecisions
    <2>2. CASE s = step.of
      <3> HIDE DEF x
      <3>1. /\ Len(handled[s]) \in Nat \ {0}
            /\ Len(handled'[s]) = Len(handled[s])
            /\ \A i \in 1..(Len(handled[s]) - 1) : handled'[s][i] = handled[s][i]
            /\ handled'[s][Len(handled[s])] = x
        BY <1>1, <1>3, <1>5, <2>2, Amended
      <3>2. \A i \in 1..Len(handled[s]) : i = Len(handled[s]) \/ i \in 1..(Len(handled[s]) - 1)
        BY <3>1
      <3>3. handled[s][Len(handled[s])] = Current
        BY <1>2, <2>2
      <3> QED
        BY <1>3, <3>1, <3>2, <3>3 DEF SameDecisions
    <2> QED
      BY <2>1, <2>2
  <1> QED
    BY <1>4, <1>5 DEF SetRule

LEMMA SaveSame ==
  ASSUME TypeOK, SaveIntent
  PROVE  /\ step.of \in Subgraphs
         /\ step.nonce = handled[step.of][Len(handled[step.of])].nonce
         /\ Len(handled[step.of]) \in Nat \ {0}
         /\ handled'[step.of][Len(handled[step.of])].kept
         /\ \A i \in 1..(Len(handled[step.of]) - 1) :
              handled'[step.of][i] = handled[step.of][i]
         /\ \A s \in Subgraphs \ {step.of} : handled'[s] = handled[s]
         /\ \A s \in Subgraphs : SameDecisions(s)
  <1>1. step # Idle /\ step.at = "save"
    BY DEF SaveIntent, Idle
  <1>2. /\ step.of \in Subgraphs
        /\ Current \in Decision
        /\ Current = handled[step.of][Len(handled[step.of])]
        /\ Current.nonce = step.nonce
    BY <1>1, StageFacts DEF TypeOK, Current, Last
  <1> DEFINE x == [Current EXCEPT !.kept = TRUE]
             n == Len(handled[step.of])
  <1>3. x \in Decision /\ x.nonce = Current.nonce /\ x.kept /\ x.did = Current.did
    BY <1>2 DEF Decision
  <1>4. Amend(x)
    BY DEF SaveIntent
  <1> HIDE DEF x
  <1>5. /\ n \in Nat \ {0}
        /\ Len(handled'[step.of]) = n
        /\ \A i \in 1..(n - 1) : handled'[step.of][i] = handled[step.of][i]
        /\ handled'[step.of][n] = x
        /\ \A s \in Subgraphs \ {step.of} : handled'[s] = handled[s]
    BY <1>1, <1>3, <1>4, Amended
  <1>6. SameDecisions(step.of)
    <2>1. \A i \in 1..n : i = n \/ i \in 1..(n - 1)
      BY <1>5
    <2> QED
      BY <1>2, <1>3, <1>5, <2>1 DEF SameDecisions, Upgraded
  <1>7. \A s \in Subgraphs \ {step.of} : SameDecisions(s)
    BY <1>5 DEF SameDecisions
  <1> QED
    BY <1>2, <1>3, <1>5, <1>6, <1>7

-----------------------------------------------------------------------------
(* What the row remembers *)

\* The row is that of the i-th message or of a later one.
Remembers(s, i) ==
  \E k \in i..Len(handled[s]) : row[s] = handled[s][k].nonce

\* Once a message was saved, the row is its own or that of one handled since.
RowReaches ==
  \A s \in Subgraphs : \A i \in 1..Len(handled[s]) :
    handled[s][i].kept => Remembers(s, i)

\* The row the limit was checked against is there until the announcement.
StillPasses ==
  step.at = "notify" => ~RecentUpgrade(step.of, step.nonce)

IReaches == RowReaches /\ StillPasses

LEMMA ReachesStep == TypeOK /\ TypeOK' /\ IReaches /\ [Next]_vars => IReaches'
  <1> SUFFICES ASSUME TypeOK, TypeOK', IReaches, [Next]_vars PROVE IReaches'
    OBVIOUS
  <1> USE DEF IReaches, GoTo
  <1>1. CASE \E s \in Subgraphs, n \in Nonces : Receive(s, n)
    BY <1>1 DEF Receive, RowReaches, Remembers, StillPasses
  <1>2. ASSUME NEW did \in {"skipped", "announced", "synced"}, Decide(did),
               step # Idle, UNCHANGED row
        PROVE  RowReaches'
    <2> SUFFICES ASSUME NEW s \in Subgraphs, NEW i \in 1..Len(handled'[s]),
                        handled'[s][i].kept
                 PROVE  Remembers(s, i)'
      BY DEF RowReaches
    <2>1. CASE s # step.of
      BY <1>2, <2>1, Decided DEF RowReaches, Remembers
    <2>2. CASE s = step.of
      <3> DEFINE n == Len(handled[s])
      <3>1. /\ n \in Nat
            /\ Len(handled'[s]) = n + 1
            /\ \A k \in 1..n : handled'[s][k] = handled[s][k]
            /\ handled'[s][n + 1] = [nonce |-> step.nonce, did |-> did, kept |-> FALSE]
        BY <1>2, <2>2, Decided
      <3>2. i # n + 1
        BY <3>1
      <3>3. i \in 1..n
        BY <3>1, <3>2
      <3>4. Remembers(s, i)
        BY <3>1, <3>3 DEF RowReaches
      <3>5. PICK k \in i..n : row[s] = handled[s][k].nonce
        BY <3>4 DEF Remembers
      <3>6. k \in 1..n /\ k \in i..Len(handled'[s])
        BY <3>1, <3>3
      <3> QED
        BY <1>2, <3>1, <3>5, <3>6 DEF Remembers
    <2> QED
      BY <2>1, <2>2
  <1>3. CASE CheckLimit
    <2>1. step # Idle
      BY <1>3 DEF CheckLimit, Idle
    <2>2. CASE RecentUpgrade(step.of, step.nonce)
      <3>1. Decide("skipped") /\ step'.at = "save" /\ UNCHANGED row
        BY <1>3, <2>1, <2>2, StageFacts DEF CheckLimit, Busy
      <3> QED
        BY <1>2, <2>1, <3>1 DEF StillPasses
    <2>3. CASE ~RecentUpgrade(step.of, step.nonce)
      <3>1. /\ UNCHANGED <<row, handled>>
            /\ step'.of = step.of /\ step'.nonce = step.nonce
        BY <1>3, <2>1, <2>3, StageFacts DEF CheckLimit, Busy
      <3> QED
        BY <2>3, <3>1 DEF RowReaches, Remembers, StillPasses, RecentUpgrade
    <2> QED
      BY <2>2, <2>3
  <1>4. CASE Announce
    <2>1. step # Idle /\ Decide("announced") /\ UNCHANGED row /\ step'.at # "notify"
      BY <1>4, StageFacts DEF Announce, Idle, Busy
    <2> QED
      BY <1>2, <2>1 DEF StillPasses
  <1>5. CASE QueryCoverage
    <2>1. step'.at # "notify"
      BY <1>5, StageFacts DEF QueryCoverage, Idle, Busy
    <2> QED
      BY <1>5, <2>1 DEF QueryCoverage, RowReaches, Remembers, StillPasses
  <1>11. ASSUME step.at = "sync", SetRule, UNCHANGED row
         PROVE  RowReaches'
    <2> SUFFICES ASSUME NEW s \in Subgraphs, NEW i \in 1..Len(handled'[s]),
                        handled'[s][i].kept
                 PROVE  Remembers(s, i)'
      BY DEF RowReaches
    <2>1. /\ Len(handled'[s]) = Len(handled[s])
          /\ \A k \in 1..Len(handled[s]) :
               /\ handled'[s][k].nonce = handled[s][k].nonce
               /\ handled'[s][k].kept = handled[s][k].kept
      BY <1>11, SetRuleSame DEF SameDecisions
    <2>2. PICK k \in i..Len(handled[s]) : row[s] = handled[s][k].nonce
      BY <2>1 DEF RowReaches, Remembers
    <2>3. k \in 1..Len(handled[s])
      BY <2>1, HistoryFacts
    <2> QED
      BY <1>11, <2>1, <2>2, <2>3 DEF Remembers
  <1>6. CASE SyncOffchain
    <2>1. step'.at # "notify"
      BY <1>6, StageFacts DEF SyncOffchain, Idle, Busy
    <2> QED
      BY <1>6, <1>11, <2>1 DEF SyncOffchain, StillPasses
  <1>12. CASE LoseProcessor
    BY <1>11, <1>12 DEF LoseProcessor, StillPasses, Idle
  <1>7. CASE SaveIntent
    <2>1. step'.at # "notify"
      BY <1>7 DEF SaveIntent, Idle
    <2>2. ASSUME NEW s \in Subgraphs, NEW i \in 1..Len(handled'[s]),
                 handled'[s][i].kept
          PROVE  Remembers(s, i)'
      <3>1. CASE s # step.of
        <4>1. handled'[s] = handled[s] /\ row'[s] = row[s]
          BY <1>7, <3>1, SaveSame DEF SaveIntent, TypeOK
        <4> QED
          BY <2>2, <4>1 DEF RowReaches, Remembers
      <3>2. CASE s = step.of
        <4> DEFINE n == Len(handled[s])
        <4>1. /\ row'[s] = step.nonce
              /\ n \in Nat \ {0}
              /\ Len(handled'[s]) = n
              /\ \A k \in 1..n : handled'[s][k].nonce = handled[s][k].nonce
              /\ step.nonce = handled[s][n].nonce
          BY <1>7, <3>2, SaveSame DEF SaveIntent, TypeOK, SameDecisions
        <4>2. n \in i..n /\ i \in 1..n
          BY <4>1
        <4> QED
          BY <4>1, <4>2 DEF Remembers
      <3> QED
        BY <3>1, <3>2
    <2> QED
      BY <2>1, <2>2 DEF RowReaches, StillPasses
  <1>8. CASE Abandon
    BY <1>8 DEF Abandon, RowReaches, Remembers, StillPasses, Idle
  <1>9. CASE Restart
    <2>1. CASE PersistentDb
      BY <1>9, <2>1 DEF Restart, RowReaches, Remembers, StillPasses, Idle
    <2>2. CASE ~PersistentDb
      <3>1. \A s \in Subgraphs : /\ DOMAIN handled'[s] = DOMAIN handled[s]
                                  /\ \A i \in DOMAIN handled[s] : ~handled'[s][i].kept
        BY <1>9, <2>2, Lost DEF Restart
      <3>2. \A s \in Subgraphs : 1..Len(handled'[s]) = DOMAIN handled'[s]
        BY LenProperties DEF TypeOK
      <3> QED
        BY <1>9, <3>1, <3>2 DEF Restart, RowReaches, StillPasses, Idle
    <2> QED
      BY <2>1, <2>2
  <1>10. CASE UNCHANGED vars
    BY <1>10 DEF vars, RowReaches, Remembers, StillPasses, RecentUpgrade
  <1> QED
    BY <1>1, <1>3, <1>4, <1>5, <1>6, <1>7, <1>8, <1>9, <1>10, <1>12 DEF Next

-----------------------------------------------------------------------------
(* The distance of upgrades *)

LEMMA TextOrderOfComparable ==
  ASSUME NEW a \in Nonces, NEW b \in Nonces, Comparable(a, b)
  PROVE  TextLe(a, b - Threshold) <=> a <= b - Threshold
  BY DEF Comparable, TextLe

LEMMA ApartSame ==
  ASSUME TypeOK, TypeOK', UpgradesApart, \A s \in Subgraphs : SameDecisions(s)
  PROVE  UpgradesApart'
  <1> SUFFICES ASSUME NEW s \in Subgraphs,
                      NEW j \in DOMAIN handled'[s], NEW i \in 1..(j - 1),
                      handled'[s][i].kept, Upgraded(handled'[s][i]),
                      Upgraded(handled'[s][j]),
                      \A k \in i..j : handled'[s][k].nonce >= handled'[s][i].nonce,
                      \A k \in i..(j - 1) :
                        Comparable(handled'[s][k].nonce, handled'[s][j].nonce)
               PROVE  handled'[s][j].nonce >= handled'[s][i].nonce + Threshold
    BY DEF UpgradesApart
  <1> DEFINE n == Len(handled[s])
  <1>1. /\ n \in Nat /\ DOMAIN handled[s] = 1..n
        /\ DOMAIN handled'[s] = 1..n
    BY LenProperties DEF TypeOK, SameDecisions
  <1>2. j \in 1..n /\ i \in 1..n /\ i # n /\ \A k \in i..j : k \in 1..n
    BY <1>1
  <1>3. \A k \in 1..n : /\ handled'[s][k].nonce = handled[s][k].nonce
                        /\ Upgraded(handled'[s][k]) <=> Upgraded(handled[s][k])
    BY DEF SameDecisions
  <1>4. handled[s][i].kept
    BY <1>2 DEF SameDecisions
  <1>5. \A k \in i..j : handled[s][k].nonce >= handled[s][i].nonce
    BY <1>2, <1>3
  <1>6. j \in DOMAIN handled[s] /\ Upgraded(handled[s][i]) /\ Upgraded(handled[s][j])
    BY <1>1, <1>2, <1>3
  <1>8. \A k \in i..(j - 1) : Comparable(handled[s][k].nonce, handled[s][j].nonce)
    <2>1. \A k \in i..(j - 1) : k \in 1..n
      BY <1>2
    <2> QED
      BY <1>2, <1>3, <2>1
  <1>7. handled[s][j].nonce >= handled[s][i].nonce + Threshold
    BY <1>4, <1>5, <1>6, <1>8 DEF UpgradesApart
  <1> QED
    BY <1>2, <1>3, <1>7

\* A new decision is far enough from the upgrades before it.
LEMMA ApartDecided ==
  ASSUME TypeOK, TypeOK', IReaches, UpgradesApart, step # Idle,
         NEW did \in {"skipped", "announced", "synced"}, Decide(did),
         did # "skipped" => step.at = "notify"
  PROVE  UpgradesApart'
  <1> SUFFICES ASSUME NEW s \in Subgraphs,
                      NEW j \in DOMAIN handled'[s], NEW i \in 1..(j - 1),
                      handled'[s][i].kept, Upgraded(handled'[s][i]),
                      Upgraded(handled'[s][j]),
                      \A k \in i..j : handled'[s][k].nonce >= handled'[s][i].nonce,
                      \A k \in i..(j - 1) :
                        Comparable(handled'[s][k].nonce, handled'[s][j].nonce)
               PROVE  handled'[s][j].nonce >= handled'[s][i].nonce + Threshold
    BY DEF UpgradesApart
  <1>1. CASE s # step.of
    <2>1. handled'[s] = handled[s]
      BY <1>1, Decided
    <2> QED
      BY <2>1 DEF UpgradesApart
  <1>2. CASE s = step.of
    <2> DEFINE n == Len(handled[s])
    <2>1. /\ n \in Nat /\ DOMAIN handled[s] = 1..n
          /\ DOMAIN handled'[s] = 1..(n + 1)
          /\ \A k \in 1..n : handled'[s][k] = handled[s][k]
          /\ handled'[s][n + 1] = [nonce |-> step.nonce, did |-> did, kept |-> FALSE]
      <3>1. /\ n \in Nat /\ Len(handled'[s]) = n + 1
            /\ \A k \in 1..n : handled'[s][k] = handled[s][k]
            /\ handled'[s][n + 1] = [nonce |-> step.nonce, did |-> did, kept |-> FALSE]
        BY <1>2, Decided
      <3>2. handled[s] \in Seq(Decision) /\ handled'[s] \in Seq(Decision)
        BY DEF TypeOK
      <3>3. DOMAIN handled[s] = 1..n /\ DOMAIN handled'[s] = 1..Len(handled'[s])
        BY <3>2, LenProperties
      <3> QED
        BY <3>1, <3>3
    <2>2. j \in 1..(n + 1) /\ i \in 1..n
      BY <2>1
    <2>3. CASE j # n + 1
      <3>1. /\ j \in 1..n
            /\ \A k \in i..j : k \in 1..n
            /\ \A k \in i..(j - 1) : k \in 1..n
        BY <2>1, <2>2, <2>3
      <3>2. \A k \in i..(j - 1) : Comparable(handled[s][k].nonce, handled[s][j].nonce)
        BY <2>1, <3>1
      <3> QED
        BY <2>1, <2>2, <3>1, <3>2 DEF UpgradesApart
    <2>4. CASE j = n + 1
      <3>1. did # "skipped" /\ step.at = "notify" /\ handled'[s][j].nonce = step.nonce
        BY <2>1, <2>4 DEF Upgraded
      <3>2. ~RecentUpgrade(s, step.nonce)
        BY <1>2, <3>1 DEF IReaches, StillPasses
      <3>3. PICK k \in i..n : row[s] = handled[s][k].nonce
        BY <2>1, <2>2 DEF IReaches, RowReaches, Remembers
      <3>9. k \in 1..n /\ k \in i..j /\ k \in i..(j - 1)
        BY <2>1, <2>2, <2>4
      <3>4. row[s] >= handled[s][i].nonce /\ Comparable(row[s], step.nonce)
        BY <2>1, <2>2, <3>1, <3>3, <3>9
      <3>5. /\ handled[s][i].nonce \in Nat \ {0} /\ row[s] \in Nat
            /\ step.nonce \in Nonces /\ step.nonce \in Nat /\ Threshold \in Nat
        BY <2>2, HistoryFacts, StageFacts, NonceAssumption
      <3>6. row[s] # 0 /\ row[s] \in Nonces
        BY <3>4, <3>5 DEF TypeOK
      <3>7. row[s] <= step.nonce - Threshold
        BY <3>2, <3>4, <3>5, <3>6, TextOrderOfComparable DEF RecentUpgrade
      <3>8. handled'[s][i] = handled[s][i]
        BY <2>1, <2>2
      <3> QED
        BY <3>1, <3>4, <3>5, <3>7, <3>8
    <2> QED
      BY <2>3, <2>4
  <1> QED
    BY <1>1, <1>2

LEMMA ApartStep ==
  ASSUME TypeOK, TypeOK', IReaches, UpgradesApart, [Next]_vars
  PROVE  UpgradesApart'
  <1>1. CASE UNCHANGED handled
    BY <1>1 DEF UpgradesApart
  <1>2. CASE CheckLimit
    BY <1>1, <1>2, ApartDecided DEF CheckLimit, Idle
  <1>3. CASE Announce
    BY <1>3, ApartDecided DEF Announce, Idle
  <1>4. CASE SyncOffchain
    BY <1>4, SetRuleSame, ApartSame DEF SyncOffchain
  <1>7. CASE LoseProcessor
    BY <1>7, SetRuleSame, ApartSame DEF LoseProcessor
  <1>5. CASE SaveIntent
    BY <1>5, SaveSame, ApartSame
  <1>6. CASE Restart
    <2>1. CASE ~PersistentDb
      <3>1. \A s \in Subgraphs : /\ DOMAIN handled'[s] = DOMAIN handled[s]
                                  /\ \A i \in DOMAIN handled[s] : ~handled'[s][i].kept
        BY <1>6, <2>1, Lost DEF Restart
      <3>2. \A s \in Subgraphs : /\ Len(handled'[s]) \in Nat
                                  /\ DOMAIN handled'[s] = 1..Len(handled'[s])
        BY LenProperties DEF TypeOK
      <3>3. \A s \in Subgraphs : \A j \in DOMAIN handled'[s] :
              \A i \in 1..(j - 1) : i \in DOMAIN handled[s]
        BY <3>1, <3>2
      <3> QED
        BY <3>1, <3>3 DEF UpgradesApart
    <2> QED
      BY <1>1, <1>6, <2>1 DEF Restart
  <1> QED
    BY <1>1, <1>2, <1>3, <1>4, <1>5, <1>6, <1>7 DEF Next, Receive, QueryCoverage, Abandon, vars

\* Once an upgrade has been saved, no message made less than Threshold later
\* upgrades the subgraph again before an older message has been handled, or one
\* whose text has another length than the limit's, whatever fails or restarts.
THEOREM UpgradesStayApart == Spec => []UpgradesApart
  <1> DEFINE IInv == TypeOK /\ IReaches /\ UpgradesApart
  <1>1. Init => IInv
    <2> SUFFICES ASSUME Init PROVE IInv
      OBVIOUS
    <2>1. \A s \in Subgraphs : handled[s] = <<>> /\ Len(handled[s]) = 0
      BY EmptySeq DEF Init
    <2>2. IReaches
      BY <2>1 DEF Init, IReaches, RowReaches, StillPasses, Idle
    <2>3. UpgradesApart
      BY <2>1 DEF UpgradesApart
    <2> QED
      BY <2>2, <2>3, TypeInit
  <1>2. IInv /\ [Next]_vars => IInv'
    BY TypeStep, ReachesStep, ApartStep
  <1>3. IInv => UpgradesApart
    OBVIOUS
  <1> QED
    BY <1>1, <1>2, <1>3, PTL DEF Spec

-----------------------------------------------------------------------------
(* Only an upgrade starts a limit *)

\* A message that is skipped was limited by a row, which is still there.
SkipHasRow ==
  step.at = "save" /\ Current.did = "skipped" => row[step.of] # 0

IFollows == LimitFollowsUpgrade /\ SkipHasRow

LEMMA FollowsStep == TypeOK /\ TypeOK' /\ IFollows /\ [Next]_vars => IFollows'
  <1> SUFFICES ASSUME TypeOK, TypeOK', IFollows, [Next]_vars PROVE IFollows'
    OBVIOUS
  <1> USE DEF IFollows, GoTo
  <1>1. CASE \E s \in Subgraphs, n \in Nonces : Receive(s, n)
    BY <1>1 DEF Receive, LimitFollowsUpgrade, SkipHasRow
  <1>2. ASSUME NEW did \in {"skipped", "announced", "synced"}, Decide(did),
               step # Idle, UNCHANGED row
        PROVE  LimitFollowsUpgrade'
    <2> SUFFICES ASSUME NEW s \in Subgraphs, row[s] # 0
                 PROVE  \E i \in DOMAIN handled'[s] :
                          Upgraded(handled'[s][i]) /\ handled'[s][i].kept
      BY <1>2 DEF LimitFollowsUpgrade
    <2>1. PICK i \in DOMAIN handled[s] : Upgraded(handled[s][i]) /\ handled[s][i].kept
      BY DEF LimitFollowsUpgrade
    <2>2. DOMAIN handled'[s] = 1..Len(handled'[s]) /\ DOMAIN handled[s] = 1..Len(handled[s])
      BY LenProperties DEF TypeOK
    <2>3. i \in DOMAIN handled'[s] /\ handled'[s][i] = handled[s][i]
      <3>1. CASE s # step.of
        BY <1>2, <3>1, Decided
      <3>2. CASE s = step.of
        <4>1. /\ Len(handled[s]) \in Nat /\ Len(handled'[s]) = Len(handled[s]) + 1
              /\ \A k \in 1..Len(handled[s]) : handled'[s][k] = handled[s][k]
          BY <1>2, <3>2, Decided
        <4> QED
          BY <2>2, <4>1
      <3> QED
        BY <3>1, <3>2
    <2> QED
      BY <2>1, <2>3
  <1>3. CASE CheckLimit
    <2>1. step # Idle /\ UNCHANGED row
      BY <1>3 DEF CheckLimit, Idle
    <2>2. CASE RecentUpgrade(step.of, step.nonce)
      <3>1. Decide("skipped") /\ step'.of = step.of
        BY <1>3, <2>1, <2>2, StageFacts DEF CheckLimit, Busy
      <3> QED
        BY <1>2, <2>1, <2>2, <3>1 DEF SkipHasRow, RecentUpgrade
    <2>3. CASE ~RecentUpgrade(step.of, step.nonce)
      <3>1. UNCHANGED handled /\ step'.at = "notify"
        BY <1>3, <2>1, <2>3, StageFacts DEF CheckLimit, Busy
      <3> QED
        BY <2>1, <3>1 DEF LimitFollowsUpgrade, SkipHasRow
    <2> QED
      BY <2>2, <2>3
  <1>4. CASE Announce
    <2>1. step # Idle /\ Decide("announced") /\ UNCHANGED row /\ step'.of = step.of
      BY <1>4, StageFacts DEF Announce, Idle, Busy
    <2>2. Current'.did = "announced"
      BY <2>1, Decided
    <2> QED
      BY <1>2, <2>1, <2>2 DEF SkipHasRow
  <1>5. CASE QueryCoverage
    <2>1. step'.of = step.of /\ UNCHANGED <<row, handled>>
      BY <1>5, StageFacts DEF QueryCoverage, Idle, Busy
    <2>2. Current'.did = "announced"
      BY <1>5, <2>1 DEF QueryCoverage, TypeOK, Current
    <2> QED
      BY <2>1, <2>2 DEF LimitFollowsUpgrade, SkipHasRow
  <1>11. ASSUME step.at = "sync", SetRule, UNCHANGED row
         PROVE  LimitFollowsUpgrade'
    <2>1. \A s \in Subgraphs :
            /\ DOMAIN handled'[s] = DOMAIN handled[s]
            /\ \A i \in DOMAIN handled[s] :
                 /\ Upgraded(handled'[s][i]) <=> Upgraded(handled[s][i])
                 /\ handled'[s][i].kept = handled[s][i].kept
      BY <1>11, SetRuleSame, LenProperties DEF SameDecisions, TypeOK
    <2> QED
      BY <1>11, <2>1 DEF LimitFollowsUpgrade
  <1>6. CASE SyncOffchain
    <2>1. step.at = "sync" /\ SetRule /\ UNCHANGED row /\ step'.of = step.of
      BY <1>6, StageFacts DEF SyncOffchain, Idle, Busy
    <2>2. Current'.did # "skipped"
      BY <2>1, SetRuleResult DEF Current
    <2> QED
      BY <1>11, <2>1, <2>2 DEF SkipHasRow
  <1>12. CASE LoseProcessor
    BY <1>11, <1>12 DEF LoseProcessor, SkipHasRow, Idle
  <1>7. CASE SaveIntent
    <2> SUFFICES ASSUME NEW s \in Subgraphs, row'[s] # 0
                 PROVE  \E i \in DOMAIN handled'[s] :
                          Upgraded(handled'[s][i]) /\ handled'[s][i].kept
      BY <1>7 DEF SaveIntent, LimitFollowsUpgrade, SkipHasRow, Idle
    <2>1. CASE s # step.of
      <3>1. handled'[s] = handled[s] /\ row'[s] = row[s]
        BY <1>7, <2>1, SaveSame DEF SaveIntent, TypeOK
      <3> QED
        BY <3>1 DEF LimitFollowsUpgrade
    <2>2. CASE s = step.of
      <3> DEFINE n == Len(handled[s])
      <3>1. /\ n \in Nat \ {0}
            /\ DOMAIN handled[s] = 1..n /\ DOMAIN handled'[s] = 1..n
            /\ handled'[s][n].kept
            /\ Upgraded(handled'[s][n]) <=> Upgraded(handled[s][n])
            /\ \A i \in 1..(n - 1) : handled'[s][i] = handled[s][i]
        <4>1. /\ n \in Nat \ {0} /\ Len(handled'[s]) = n /\ handled'[s][n].kept
              /\ \A i \in 1..n : Upgraded(handled'[s][i]) <=> Upgraded(handled[s][i])
              /\ \A i \in 1..(n - 1) : handled'[s][i] = handled[s][i]
          BY <1>7, <2>2, SaveSame DEF SameDecisions
        <4>2. n \in 1..n
          BY <4>1
        <4> QED
          BY <4>1, <4>2, LenProperties DEF TypeOK
      <3>2. CASE Upgraded(handled[s][n])
        BY <3>1, <3>2
      <3>3. CASE ~Upgraded(handled[s][n])
        <4>1. row[s] # 0
          BY <1>7, <2>2, <3>3 DEF SaveIntent, SkipHasRow, Current, Last, Upgraded
        <4>2. PICK i \in 1..n : Upgraded(handled[s][i]) /\ handled[s][i].kept
          BY <3>1, <4>1 DEF LimitFollowsUpgrade
        <4>3. i \in 1..(n - 1)
          BY <3>1, <3>3, <4>2
        <4> QED
          BY <3>1, <4>2, <4>3
      <3> QED
        BY <3>2, <3>3
    <2> QED
      BY <2>1, <2>2
  <1>8. CASE Abandon
    BY <1>8 DEF Abandon, LimitFollowsUpgrade, SkipHasRow, Idle
  <1>9. CASE Restart
    BY <1>9 DEF Restart, LimitFollowsUpgrade, SkipHasRow, Idle
  <1>10. CASE UNCHANGED vars
    BY <1>10 DEF vars, LimitFollowsUpgrade, SkipHasRow, Current
  <1> QED
    BY <1>1, <1>3, <1>4, <1>5, <1>6, <1>7, <1>8, <1>9, <1>10, <1>12 DEF Next

\* A subgraph is limited only after one of its upgrades was announced and saved:
\* no failure, timeout or skipped message starts a limit.
THEOREM LimitsStartWithUpgrades == Spec => []LimitFollowsUpgrade
  <1>1. Init => IFollows
    BY DEF Init, IFollows, LimitFollowsUpgrade, SkipHasRow, Idle
  <1>2. IFollows => LimitFollowsUpgrade
    BY DEF IFollows
  <1> QED
    BY <1>1, <1>2, FollowsStep, TypeInit, TypeStep, PTL DEF Spec

-----------------------------------------------------------------------------
(* What a lost processor leaves behind *)

\* A message gets to its coverage only where a management server is configured.
AskedManaged == step.at \in {"query", "sync"} => Managed

LEMMA LossStep ==
  TypeOK /\ AskedManaged /\ LossUnrecorded /\ [Next]_vars
    => AskedManaged' /\ LossUnrecorded'
  <1> SUFFICES ASSUME TypeOK, AskedManaged, LossUnrecorded, [Next]_vars
               PROVE  AskedManaged' /\ LossUnrecorded'
    OBVIOUS
  <1>1. CASE LoseProcessor
    <2>1. /\ step.of \in Subgraphs /\ handled'[step.of] # <<>>
          /\ Upgraded(Last(handled'[step.of])) /\ ~Last(handled'[step.of]).kept
      BY <1>1, SetRuleResult DEF LoseProcessor, Upgraded
    <2> QED
      BY <1>1, <2>1 DEF LoseProcessor, AskedManaged, LossUnrecorded, Idle
  <1>2. CASE \E s \in Subgraphs, n \in Nonces : Receive(s, n)
    BY <1>2 DEF Receive, AskedManaged, LossUnrecorded
  <1>3. CASE CheckLimit
    BY <1>3, StageFacts DEF CheckLimit, GoTo, AskedManaged, LossUnrecorded, TypeOK, Busy, Idle
  <1>4. CASE Announce
    BY <1>4, StageFacts DEF Announce, GoTo, AskedManaged, LossUnrecorded, TypeOK, Busy, Idle
  <1>5. CASE QueryCoverage
    BY <1>5, StageFacts DEF QueryCoverage, GoTo, AskedManaged, LossUnrecorded, TypeOK, Busy, Idle
  <1>6. CASE SyncOffchain
    BY <1>6, StageFacts DEF SyncOffchain, GoTo, AskedManaged, LossUnrecorded, TypeOK, Busy, Idle
  <1>7. CASE SaveIntent
    BY <1>7 DEF SaveIntent, AskedManaged, LossUnrecorded, TypeOK, Idle
  <1>8. CASE Abandon
    BY <1>8 DEF Abandon, AskedManaged, LossUnrecorded, TypeOK, Idle
  <1>9. CASE Restart
    BY <1>9 DEF Restart, AskedManaged, LossUnrecorded, Idle
  <1>10. CASE UNCHANGED vars
    BY <1>10 DEF vars, AskedManaged, LossUnrecorded
  <1> QED
    BY <1>1, <1>2, <1>3, <1>4, <1>5, <1>6, <1>7, <1>8, <1>9, <1>10 DEF Next

\* A processor is lost only to an upgrade that was announced and of which no row
\* tells.
THEOREM LostUpgradesUnrecorded == Spec => []LossUnrecorded
  <1>1. Init => AskedManaged /\ LossUnrecorded
    BY DEF Init, AskedManaged, LossUnrecorded, Idle
  <1> QED
    BY <1>1, LossStep, TypeInit, TypeStep, PTL DEF Spec
==============================================================================
