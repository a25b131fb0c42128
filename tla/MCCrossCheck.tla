---------------------------- MODULE MCCrossCheck ----------------------------
(* Small instances of CrossCheck for TLC. *)
EXTENDS CrossCheck

CONSTANTS d1, d2, s1, s2, p, q

MCStake == s1 :> 1 @@ s2 :> 2
MCSingleStake == s1 :> 1

PpoiSymmetry == Permutations(Ppois)
DeploymentSymmetry == Permutations(Deployments) \cup Permutations(Ppois)

-----------------------------------------------------------------------------
\* TextLe against the definition it stands for, on the digits themselves: one
\* spelling is a prefix of the other, or the first difference decides.
Digits[n \in 0..1001] ==
  IF n < 10 THEN <<n>> ELSE Append(Digits[n \div 10], n % 10)

DigitwiseLe(s, t) ==
  \/ IsPrefix(s, t)
  \/ \E i \in DOMAIN s \cap DOMAIN t :
       s[i] < t[i] /\ \A j \in 1..(i - 1) : s[j] = t[j]

Spelled == (0..21) \cup (88..112) \cup (198..201) \cup (989..1001)

ASSUME TextOrderReference ==
  \A a, b \in Spelled : TextLe(a, b) <=> DigitwiseLe(Digits[a], Digits[b])
=============================================================================
