-------------------------- MODULE DriverProperties --------------------------
(***************************************************************************)
(* What the drivers, the outside workers and the people promise together.  *)
(* The properties of the second part are what the code, its comments or    *)
(* its tests claim and some interleaving breaks.                           *)
(***************************************************************************)
EXTENDS RunDriver

\* A call that changed the run just now: this step added its event to the log.
Applied(rid) == \E e \in log' \ log : e.id = rid

-----------------------------------------------------------------------------
\* What was handed over -- to a checker, to the steps that follow, to the owner --
\* passed its grade or was accepted by a person who had it in front of them
\* (acceptance_failure, hold and finish_approved_hold together).
OnlyClearedWork ==
  \A s \in Steps : run.step[s].pinned # None => <<s, run.step[s].pinned>> \in cleared

\* Evidence stays what it was when it was pinned: nobody overwrites the file of
\* a step that waits for a check or is done (write_evidence reuses one name per
\* step and label, before the verb has said whether the writer may write).
EvidenceStays ==
  \A s \in Steps : StatusOf(s) \in {"awaiting_check", "completed"} => SubmissionIntact(s)

\* While the run goes on, no model call for the work of a step begins once the
\* ceiling is spent, however many steps share the pass (over_budget).  A park
\* that fails because the run just ended does not stop the call.
NothingDispatchedOverCeiling ==
  [][\A d \in Drivers :
       run.status = "active" /\ proc'[d].pc = "model" /\ proc[d].pc # "model" =>
         LET r == IF proc[d].taken THEN run ELSE proc[d].snap IN
         Ceiling(r) # 0 => run.spend < Ceiling(r)]_allVars

\* An outside worker changes a step's work only while it holds the step: one
\* whose claim lapsed and went to somebody else changes nothing (holding,
\* check_claim).
WorkersWriteTheirOwn ==
  [][\A w \in Workers :
       api[w].pc = "call" /\ api'[w] # api[w] /\ run'.seq # run.seq
         /\ run'.status # "blocked_cycle_limit"
         => run.step[api[w].at].holder = w]_allVars

\* While some driver lives, a run that the scheduler drives ends, comes to wait
\* for a person, or runs out of cycles: drivers neither stall nor go round for
\* ever (advance, under the scheduler's sweeps, with claims that lapse when their
\* holder died).
SomeDriverLives == \E d \in Drivers : proc[d].pc # "dead"

RunsSettle == []SomeDriverLives => []<>(~Movable)

-----------------------------------------------------------------------------
DriverWrites == {"complete", "fail", "hold", "release", "overbudget"}
Verdicts == {"check-approve", "check-return", "check-reject"}

\* A driver changes a step's work only while it is the step's holder: a claim
\* that was taken over is refused, and "the in-process driver holds the current
\* claim" when it reads a token back from the run (take, token_for, check_claim).
DriversWriteTheirOwn ==
  [][\A d \in Drivers : LET p == proc[d] IN
       p.pc = "call" /\ p.verb \in DriverWrites /\ Applied(p.rid)
         => run.step[p.at].holder = d]_allVars

\* A verdict a driver applies is about the submission its checker read
\* (submission_text re-hashes it "before the checker is allowed to see it").
VerdictOnWhatWasRead ==
  [][\A d \in Drivers : LET p == proc[d] IN
       p.pc = "call" /\ p.verb \in Verdicts /\ Applied(p.rid)
         => p.read = run.step[p.at].pinned]_allVars

\* Held work is handed over without being done again only in the attempt in
\* which it was held -- not once the checker has sent it back (finish_approved_hold).
AcceptedWorkIsOfThisAttempt ==
  [][\A d \in Drivers : LET p == proc[d] IN
       p.pc = "call" /\ p.file = <<p.at, "ungraded">> /\ p.verb = "complete" /\ Applied(p.rid)
         => Used(Rid(p.at, "hold"))]_allVars

\* The name a person's approval at the terminal goes by is free: the decision
\* is not swallowed as a replay of an earlier one (approvals.decide).
ParkedStepsCanBeDecided ==
  \A s \in Waiting : run.status = "active" => ~Used(Rid(s, "approve"))

\* A step that nobody checks and that is ready has an attempt left, also when it
\* is ready because a person bought it more room (approve of a cost stop).
ReadyStepsHaveAnAttemptLeft ==
  \A s \in Steps : StatusOf(s) = "ready" /\ Checker(s) = None => ~OutOfAttempts(s)

\* A run that is out of cycles comes to the status extend_budget asks for: it is
\* never left active, passed over by every sweep (classify, movable_runs) and
\* refused by extend_budget as well.
OutOfCyclesIsAStop ==
  []SomeDriverLives =>
    []<>~(run.status = "active" /\ Waiting = {} /\ run.cycles >= run.limit)
=============================================================================
