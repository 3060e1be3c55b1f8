----------------------------- MODULE MCConnector -----------------------------
(* Small sets of connectors and calls for the runs of ConnectorProperties. *)
EXTENDS ConnectorProperties, TLC

CONSTANTS crm, desk, invoice, post

Kinds == [c \in Connectors |-> IF c = crm THEN "live" ELSE "fixture"]
Places == [x \in Actions |-> IF x = post THEN desk ELSE crm]
CallerSymmetry == Permutations(Callers)
ApprovalKeySymmetry == Permutations(Callers) \cup Permutations(Approvals) \cup Permutations(Keys)
=============================================================================
