--------------------------- MODULE OutwardPromise ---------------------------
(***************************************************************************)
(* What the connector gates promise: an outward call happens only under a  *)
(* person's approval, an approval is good for one call, and once spent it  *)
(* is never given back, whatever became of the call.                       *)
(***************************************************************************)
EXTENDS Integers

CONSTANT Approvals
VARIABLES permission, sent

Init ==
  /\ permission = [a \in Approvals |-> "none"]
  /\ sent = [a \in Approvals |-> 0]

Turn(a, from, to) ==
  /\ permission[a] = from
  /\ permission' = [permission EXCEPT ![a] = to]
  /\ UNCHANGED sent

Send(a) ==
  /\ permission[a] = "consumed" /\ sent[a] = 0
  /\ sent' = [sent EXCEPT ![a] = 1]
  /\ UNCHANGED permission

Next == \E a \in Approvals : \/ Turn(a, "none", "pending")
                             \/ Turn(a, "pending", "approved")
                             \/ Turn(a, "pending", "rejected")
                             \/ Turn(a, "approved", "consumed")
                             \/ Send(a)

Spec == Init /\ [][Next]_<<permission, sent>>
=============================================================================
