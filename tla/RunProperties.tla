--------------------------- MODULE RunProperties ---------------------------
(***************************************************************************)
(* What a run promises whoever calls its verbs, and in whatever order.     *)
(***************************************************************************)
EXTENDS RunCore, Functions

StatusOf(s) == run.step[s].status
Done(s) == StatusOf(s) = "completed"

\* How many events of a kind a step has behind it.
Count(event, s) == Cardinality({e \in log : e.event = event /\ e.target = s})

\* 1 when a condition holds, 0 when it does not: for balances of counts.
One(condition) == IF condition THEN 1 ELSE 0

-----------------------------------------------------------------------------
\* Every part of the run's record, the audit trail and the files has its type.
TypeOK ==
  /\ run \in RunState
  /\ \A e \in log : DOMAIN e = {"id", "event", "actor", "target"}
  /\ \A a \in audit : DOMAIN a = {"request", "action"}
  /\ disk \in [Artifacts -> Contents]
  /\ crashes \in 0..MaxCrashes

\* A step leaves "pending" only behind its dependencies: whatever is ready,
\* worked on, parked, refused or finished has every dependency completed, and
\* goes on having it (release_dependents is the only door out of pending).
DependenciesDone ==
  \A s \in Steps : StatusOf(s) # "pending" => \A d \in DependsOn(s) : Done(d)

\* The run's own word and its steps' words agree: it is completed exactly when
\* all steps are, and it carries a refusal exactly when some step does -- so an
\* active run never hides a refused step, and no two refusals coexist.
EndMatchesSteps ==
  /\ run.status = "completed" <=> \A s \in Steps : Done(s)
  /\ \A why \in Refused : run.status = why <=> \E s \in Steps : StatusOf(s) = why

\* A claim exists only on work in progress (complete, fail, hold, release and
\* approve all give it back), its token is what the write checks compare, and
\* no two steps are ever held under the same token.
ClaimsMatchWork ==
  /\ \A s \in Steps :
       /\ run.step[s].holder # None => StatusOf(s) = "in_progress"
       /\ run.step[s].holder # None <=> run.step[s].token # 0
       /\ run.step[s].live => run.step[s].holder # None
  /\ \A s, t \in Steps : s # t /\ run.step[s].token # 0 => run.step[s].token # run.step[t].token

\* mint_claim's fencing rule: a token granted now is larger than every token
\* any step has ever carried, so a superseded holder can always be told apart.
TokensOutrank ==
  [][\A s, t \in Steps : run'.step[s].token \notin {0, run.step[s].token} =>
       run'.step[s].token > run.step[t].token /\ run'.step[s].token > run.seq]_vars

\* An attempt is spent exactly when a green step is dispatched and given back
\* exactly when it is released: never above the owner's cap, on no path.
AttemptsAccounted ==
  \A s \in Steps :
    /\ run.step[s].attempts <= MaxAttempts(s)
    /\ Risk(s) = "green" /\ StatusOf(s) # "blocked_retry_limit" =>
         Count("step.requested", s) = run.step[s].attempts + run.step[s].releases

\* Every time a step was parked for a person -- a gated request or a hold -- one
\* human decision, and only one, answered it before anything else happened to
\* the step; and no red step was ever worked on.
EveryParkDecidedOnce ==
  \A s \in Steps :
    /\ Count("step.approved", s) + Count("step.rejected", s) + One(StatusOf(s) = "awaiting_approval")
         = Count("step.held", s) + One(Risk(s) = "yellow") * Count("step.requested", s)
    /\ Risk(s) = "red" => StatusOf(s) \in {"pending", "ready", "blocked_human"}

\* A step with a checker: every submission got one verdict from the checker,
\* the returns are the review cycles spent, and completed means approved once,
\* on a decision message the checker sent to the maker.
EverySubmissionJudgedOnce ==
  \A s \in Steps : Checker(s) # None =>
    /\ Count("step.completed", s) = Count("check.approved", s) + Count("check.returned", s)
         + Count("check.rejected", s) + One(StatusOf(s) = "awaiting_check")
    /\ Count("check.returned", s) = run.step[s].reviews + One(StatusOf(s) = "blocked_review_limit")
    /\ run.step[s].reviews <= MaxReviews(s)
    /\ Done(s) => /\ Count("check.approved", s) = 1
                  /\ \E x \in run.messages : /\ x.step = s /\ x.kind = "decision"
                                             /\ x.from = Checker(s) /\ x.to = Owner(s)

\* Which events the code passes an `audit` callback for.
GatedEvents == {"step.approved", "step.rejected", "step.held", "claim.expired",
                "run.cancelled", "run.budget_extended"}
Gated(e) == \/ e.event \in GatedEvents
            \/ e.event = "step.requested" /\ Risk(e.target) # "green"

\* No gated transition without its audit entry, and no ended run without the
\* entry that says so -- even when a process dies between the two writes.  The
\* converse is not promised: a crash leaves entries for what never happened.
GatedTransitionsAudited ==
  /\ \A e \in log : Gated(e) => [request |-> e.id, action |-> e.event] \in audit
  /\ run.status \in TerminalRun => \E a \in audit : a.action = run.status

\* One event per request id -- a replay adds nothing -- and every event but the
\* creation, the limit and its extensions costs one cycle of a budget that an
\* extension can raise only so far.
LedgerBalances ==
  /\ run.seq = Cardinality(log)
  /\ run.seq = 1 + run.cycles + Count("run.budget_extended", "run")
                 + Count("run.blocked_cycle_limit", "run")
  /\ run.cycles <= run.limit /\ run.limit <= CycleCeiling

Total(f) == FoldFunction(LAMBDA x, y : x + y, 0, f)

\* The run's bill is what planning cost plus what its steps cost.
BillAddsUp == run.spend = run.planned + Total([s \in Steps |-> run.step[s].spend])

-----------------------------------------------------------------------------
\* What of all this the owner of the run sees.
Phase == CASE run.status = "active" -> "open"
           [] run.status = "completed" -> "finished"
           [] run.status = "blocked_cycle_limit" -> "paused"
           [] OTHER -> "refused"

Lifecycle == INSTANCE RunLifecycle
  WITH done <- {s \in Steps : Done(s)}, phase <- Phase, Before <- [s \in Steps |-> DependsOn(s)]

\* Every verb, called by anyone at any time, is a step of that life or changes
\* nothing the owner sees: finished work is never unfinished, an ended run
\* never moves again, and only a cycle-limited run is taken up again.
KeepsLifecycle == Lifecycle!Spec
=============================================================================
