----------------------------- MODULE ChangeLog -----------------------------
(***************************************************************************)
(* What an operator of the radio is promised about comparison results: the *)
(* status of every deployment is tracked, each change of status worth a    *)
(* notification is noted, and everything noted so far is announced, once,  *)
(* in order, before the deployment's status changes again.                 *)
(***************************************************************************)
EXTENDS Sequences

CONSTANTS Deployments, Result, NoResult, Notable(_, _)

VARIABLES
  status,     \* deployment -> its last result
  noted,      \* deployment -> the changes noted, in order
  announced   \* deployment -> the changes announced, in order

vars == <<status, noted, announced>>

Init ==
  /\ status = [d \in Deployments |-> NoResult]
  /\ noted = [d \in Deployments |-> <<>>]
  /\ announced = [d \in Deployments |-> <<>>]

Observe(d, r) ==
  /\ noted[d] = announced[d]
  /\ status' = [status EXCEPT ![d] = r]
  /\ noted' = IF Notable(status[d], r)
              THEN [noted EXCEPT ![d] = Append(@, r)]
              ELSE noted
  /\ UNCHANGED announced

Announce ==
  /\ noted # announced
  /\ announced' = noted
  /\ UNCHANGED <<status, noted>>

Next == Announce \/ \E d \in Deployments, r \in Result : Observe(d, r)

Spec == Init /\ [][Next]_vars
============================================================================
