------------------------------ MODULE MCDriver ------------------------------
(* Small workflows for the runs of DriverProperties. *)
EXTENDS DriverProperties, TLC

Step(owner, checker, risk, attempts, reviews) ==
  [owner |-> owner, checker |-> checker, risk |-> risk, depends_on |-> {},
   max_attempts |-> attempts, max_review_cycles |-> reviews]

CONSTANTS writer, reviewer

\* One green step with a checker.
ReviewedWorkflow == [s \in {"draft"} |-> Step(writer, reviewer, "green", 3, 1)]

\* One green step without.
PlainWorkflow == [s \in {"draft"} |-> Step(writer, None, "green", 2, 0)]
OneShotWorkflow == [s \in {"draft"} |-> Step(writer, None, "green", 1, 0)]

\* One yellow step.
YellowWorkflow == [s \in {"send"} |-> Step(writer, None, "yellow", 2, 0)]

\* Two green steps that are ready in the same pass, and one that needs both.
DiamondWorkflow ==
  [s \in {"left", "right", "join"} |->
     [Step(writer, None, "green", 2, 0) EXCEPT !.depends_on = IF s = "join" THEN {"left", "right"} ELSE {}]]
=============================================================================
