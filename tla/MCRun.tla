------------------------------- MODULE MCRun -------------------------------
(* Small workflows for the runs of RunProperties. *)
EXTENDS RunProperties, TLC

Step(owner, checker, risk, deps, attempts, reviews) ==
  [owner |-> owner, checker |-> checker, risk |-> risk, depends_on |-> deps,
   max_attempts |-> attempts, max_review_cycles |-> reviews]

CONSTANTS writer, reviewer

\* A green draft, and the yellow action that waits for it.
GatedWorkflow ==
  [s \in {"draft", "send"} |->
     IF s = "draft" THEN Step(writer, None, "green", {}, 2, 0)
                    ELSE Step(writer, None, "yellow", {"draft"}, 1, 0)]

\* One green step with a checker, and the red one that waits for it.
RedAfterReview ==
  [s \in {"draft", "pay"} |->
     IF s = "pay" THEN Step(writer, None, "red", {"draft"}, 1, 0)
                  ELSE Step(writer, reviewer, "green", {}, 3, 1)]

HolderSymmetry == Permutations(Holders)
MessageSymmetry == Permutations(MessageIds)
=============================================================================
