------------------------------ MODULE RunCore ------------------------------
(***************************************************************************)
(* One workflow run of the Company OS runtime: the append-only event log   *)
(* whose last event is the run's state, and every verb that may change it. *)
(*                                                                         *)
(* runtime/run_state.py     `mutate`, the one door: run lock, idempotent   *)
(*                          replay by request id, refusal of an ended run, *)
(*                          cycle budget, audit entry BEFORE the event     *)
(* runtime/run_verbs.py     request, approve, reject, take, renew, expire, *)
(*                          hold                                           *)
(* runtime/run_outcomes.py  complete, fail, release, cancel, extend-budget *)
(* runtime/run_review.py    send-message, check-approve/return/reject      *)
(*                                                                         *)
(* The verbs are called by anybody: the autonomous driver, workers of the  *)
(* agent API, people at the CLI or the console.  Next therefore lets every *)
(* agent, every human and every token call every verb at every moment; the *)
(* properties hold whatever the callers do.  Module RunDriver says which   *)
(* calls the driver and the workers really make, and under which ids.      *)
(*                                                                         *)
(* A call that is refused (SystemExit) or replayed leaves the files alone: *)
(* it is a stuttering step.  The run lock makes each call atomic, except   *)
(* for a crash between the audit write and the event append (Crash).       *)
(***************************************************************************)
EXTENDS Integers, FiniteSets

CONSTANTS
  Steps,          \* the workflow's step ids
  Workflow,       \* step -> owner, checker, risk, depends_on and its limits
  Agents,         \* departments that own or check steps
  Humans,         \* people who approve, reject, cancel and extend
  Holders,        \* identities a claim can be granted to
  MessageIds,     \* ids messages may be sent under
  Files,          \* the files kept of a step: its evidence, what was held, its reviews
  Contents,       \* what an artifact file can contain, told apart by its hash
  Costs,          \* what one charged call may cost, in whole units
  MaxCycles,      \* the workflow's max_cycles
  CycleCeiling,   \* what an extension may raise it to; 100 in the code
  Extensions,     \* how many cycles one extension may ask for
  DefaultCeiling, \* MYORG_RUN_CEILING_USD
  MaxCrashes,     \* bound: how often a process dies inside a mutation
  None            \* no holder, no checker, no token supplied, nothing pinned

VARIABLES
  run,     \* the run's state: its last event
  log,     \* every event's request id, name, actor and target
  audit,   \* audit.jsonl: what was recorded, and by which request
  disk,    \* what the artifact files submissions and messages point at contain
  crashes  \* how often a mutation was cut short after its audit entry

vars == <<run, log, audit, disk, crashes>>

-----------------------------------------------------------------------------
(* The workflow a run is created from, and the vocabulary of its state.    *)

Owner(s) == Workflow[s].owner
Checker(s) == Workflow[s].checker
Risk(s) == Workflow[s].risk
DependsOn(s) == Workflow[s].depends_on
MaxAttempts(s) == Workflow[s].max_attempts
MaxReviews(s) == Workflow[s].max_review_cycles

\* What validate_workflow refuses to start a run without.
ValidWorkflow ==
  /\ Steps # {} /\ IsFiniteSet(Steps)
  /\ Workflow \in [Steps -> [owner : Agents, checker : Agents \cup {None},
                             risk : {"green", "yellow", "red"},
                             depends_on : SUBSET Steps,
                             max_attempts : 1..5, max_review_cycles : 0..3]]
  /\ \A s \in Steps : Checker(s) # None =>
       /\ Checker(s) # Owner(s)
       /\ Risk(s) = "green"
       /\ MaxReviews(s) >= 1 /\ MaxAttempts(s) >= MaxReviews(s) + 2
  /\ \E rank \in [Steps -> 1..Cardinality(Steps)] :
       \A s \in Steps : \A d \in DependsOn(s) : rank[d] < rank[s]

ASSUME WorkflowAssumption == ValidWorkflow

ASSUME BoundsAssumption ==
  /\ MaxCycles \in Nat \ {0} /\ CycleCeiling \in Nat /\ MaxCycles <= CycleCeiling
  /\ Extensions \subseteq Nat \ {0} /\ Costs \subseteq Nat
  /\ DefaultCeiling \in Nat /\ MaxCrashes \in Nat

ASSUME DistinctAssumption ==
  None \notin Agents \cup Humans \cup Holders \cup MessageIds \cup Contents \cup Nat

\* The words that end a step against its maker's wish; each ends the run as well.
Refused == {"rejected", "rejected_by_checker", "blocked_human",
            "blocked_retry_limit", "blocked_review_limit"}
StepStatus == {"pending", "ready", "in_progress", "awaiting_approval",
               "awaiting_check", "completed"} \cup Refused
TerminalRun == {"completed", "cancelled", "blocked_cycle_limit"} \cup Refused

Artifacts == Steps \X Files

StepState == [status : StepStatus, attempts : Nat, reviews : Nat, releases : Nat,
              holder : Holders \cup {None}, token : Nat, live : BOOLEAN,
              held : {"none", "ungraded", "budget"},
              evidence : Artifacts \cup {None}, pinned : Contents \cup {None}, spend : Nat]

\* "other" stands for handoff, question and answer: no verb reads those.
Kinds == {"feedback", "decision", "other"}
Message == [id : MessageIds, step : Steps, from : Agents, to : Agents,
            kind : Kinds, payload : Artifacts, pinned : Contents]

RunState == [status : TerminalRun \cup {"active"}, seq : Nat, cycles : Nat, limit : Nat,
             step : [Steps -> StepState], messages : SUBSET Message,
             planned : Nat, spend : Nat, ceiling : Nat]

-----------------------------------------------------------------------------
(* mutate: the only way a verb changes a run.                               *)

Used(rid) == \E e \in log : e.id = rid

\* The event that makes `new` the run's state.
AppendEvent(rid, event, actor, target, new) ==
  /\ run' = [new EXCEPT !.seq = @ + 1]
  /\ log' = log \cup {[id |-> rid, event |-> event, actor |-> actor, target |-> target]}

\* The audit entries of one transition, in the order they are written: the
\* gated action's own entry, then the entry for the end of the run.
GatedEntry(rid, event, gated) ==
  IF gated THEN {[request |-> rid, action |-> event]} ELSE {}
TerminalEntry(rid, new) ==
  IF new.status # run.status /\ new.status \in TerminalRun
  THEN {[request |-> rid, action |-> new.status]} ELSE {}

\* mutant: the event first, and a crash before its entries are written
RecordEventFirst(rid, event, actor, target, new, gated) ==
  /\ AppendEvent(rid, event, actor, target, new)
  /\ \/ /\ audit' = audit \cup GatedEntry(rid, event, gated) \cup TerminalEntry(rid, new)
        /\ UNCHANGED crashes
     \/ crashes < MaxCrashes /\ crashes' = crashes + 1 /\ UNCHANGED audit

\* Entries first, then the event.  Dying in between leaves some of the
\* entries behind and no event: the transition did not happen.
Record(rid, event, actor, target, new, gated) ==
  LET first == GatedEntry(rid, event, gated)
      all == first \cup TerminalEntry(rid, new)
  IN \/ /\ audit' = audit \cup all
        /\ AppendEvent(rid, event, actor, target, new)
        /\ UNCHANGED crashes
     \/ /\ crashes < MaxCrashes /\ all # {}
        /\ crashes' = crashes + 1
        /\ \E some \in {first, all} : audit' = audit \cup some
        /\ UNCHANGED <<run, log>>

AdmittedAfterEnd(rid) == ~Used(rid)              \* mutant: an ended run is written to
AdmittedTwice(rid) == run.status = "active"      \* mutant: a replayed id is applied again
Admitted(rid) == run.status = "active" /\ ~Used(rid)

Mutate(rid, event, actor, target, new, gated) ==
  /\ Admitted(rid)
  /\ run.cycles < run.limit
  /\ Record(rid, event, actor, target, [new EXCEPT !.cycles = @ + 1], gated)
  /\ UNCHANGED disk

\* The run is out of cycles: whatever the call was, it ends the run instead,
\* and the event carries that call's request id.
Exhaust(rid) ==
  /\ Admitted(rid)
  /\ run.cycles >= run.limit
  /\ Record(rid, "run.blocked_cycle_limit", "runtime", "run",
            [run EXCEPT !.status = "blocked_cycle_limit"], FALSE)
  /\ UNCHANGED disk

-----------------------------------------------------------------------------
(* Pieces the verbs share.                                                  *)

NewClaimPerAttempt(st, holder) ==  \* mutant: tokens numbered within the step
  [st EXCEPT !.holder = holder, !.token = st.attempts + 1, !.live = TRUE]
NewClaim(st, holder) == [st EXCEPT !.holder = holder, !.token = run.seq + 1, !.live = TRUE]
KeptClaim(st) == st                \* mutant: a verb forgets release_claim
NoClaim(st) == [st EXCEPT !.holder = None, !.token = 0, !.live = FALSE]

\* check_claim: no token at all is a person at the CLI; a wrong one is refused.
AnyClaimAccepts(s, token) == TRUE  \* mutant: the token is not compared
ClaimAccepts(s, token) == token = None \/ token = run.step[s].token

Put(s, st) == [run EXCEPT !.step[s] = st]
ChargeStepOnly(r, s, cost) == [r EXCEPT !.step[s].spend = @ + cost]  \* mutant
Charge(r, s, cost) == [r EXCEPT !.step[s].spend = @ + cost, !.spend = @ + cost]

\* A verdict that ends the step ends the run with the same word.
StopStepOnly(r, s, why) == [r EXCEPT !.step[s].status = why]  \* mutant: the run goes on
Stop(r, s, why) == [r EXCEPT !.step[s].status = why, !.status = why]

\* mutant: the first finished dependency is enough
ReleaseDependentsEarly(r) ==
  LET done(x) == r.step[x].status = "completed"
      freed(x) == r.step[x].status = "pending" /\ \E d \in DependsOn(x) : done(d)
  IN [r EXCEPT !.step = [x \in Steps |-> IF freed(x) THEN [r.step[x] EXCEPT !.status = "ready"]
                                                     ELSE r.step[x]],
               !.status = IF \A x \in Steps : done(x) THEN "completed" ELSE @]

ReleaseDependents(r) ==
  LET done(x) == r.step[x].status = "completed"
      freed(x) == r.step[x].status = "pending" /\ \A d \in DependsOn(x) : done(d)
  IN [r EXCEPT !.step = [x \in Steps |-> IF freed(x) THEN [r.step[x] EXCEPT !.status = "ready"]
                                                     ELSE r.step[x]],
               !.status = IF \A x \in Steps : done(x) THEN "completed" ELSE @]

Finish(r, s) == ReleaseDependents([r EXCEPT !.step[s].status = "completed"])

\* The cap every dispatch and every failure passes.
OneAttemptTooMany(s) == run.step[s].attempts > MaxAttempts(s)  \* mutant: off by one
OutOfAttempts(s) == run.step[s].attempts >= MaxAttempts(s)

\* Releasing never takes a step below no attempts at all.
Unspent(n) == IF n > 0 THEN n - 1 ELSE 0

\* Only work in progress is taken, renewed, held, completed, failed or released.
WorkableWhileParked(s) ==                                      \* mutant: parked work too
  run.step[s].status \in {"in_progress", "awaiting_approval"}
Workable(s) == run.step[s].status = "in_progress"

-----------------------------------------------------------------------------
(* A step's life before it ends: runtime/run_verbs.py.                      *)

RequestStep(rid, s, actor, holder) ==
  LET st == run.step[s]
      Requested(new, gated) == Mutate(rid, "step.requested", actor, s, new, gated)
  IN /\ st.status = "ready" /\ actor = Owner(s)
     /\ \/ Risk(s) = "red" /\ Requested(Stop(run, s, "blocked_human"), TRUE)
        \/ Risk(s) = "yellow" /\ Requested(Put(s, [st EXCEPT !.status = "awaiting_approval"]), TRUE)
        \/ /\ Risk(s) = "green" /\ OutOfAttempts(s)
           /\ Requested(Stop(run, s, "blocked_retry_limit"), FALSE)
        \/ /\ Risk(s) = "green" /\ ~OutOfAttempts(s)
           /\ Requested(Put(s, [NewClaim(st, holder) EXCEPT !.status = "in_progress",
                                                            !.attempts = @ + 1]), FALSE)

\* Approving a cost stop buys the work: back to ready, one more ceiling's worth.
\* Approving anything else hands the step back, unclaimed, to be finished.
Approve(rid, s, human) ==
  LET st == NoClaim(run.step[s])
      Approved(new) == Mutate(rid, "step.approved", human, s, new, TRUE)
      room == IF run.ceiling # 0 THEN run.ceiling ELSE DefaultCeiling
  IN /\ st.status = "awaiting_approval"
     /\ \/ /\ st.held = "budget"
           /\ Approved([Put(s, [st EXCEPT !.status = "ready", !.held = "none"])
                          EXCEPT !.ceiling = run.spend + room])
        \/ st.held # "budget" /\ Approved(Put(s, [st EXCEPT !.status = "in_progress"]))

Reject(rid, s, human) ==
  /\ run.step[s].status = "awaiting_approval"
  /\ Mutate(rid, "step.rejected", human, s, Stop(run, s, "rejected"), TRUE)

Take(rid, s, actor, holder) ==
  LET st == run.step[s] IN
  /\ Workable(s) /\ actor = Owner(s)
  /\ ~(st.live /\ st.holder # holder)
  /\ Mutate(rid, "step.taken", actor, s, Put(s, NewClaim(st, holder)), FALSE)

\* Renewing moves the expiry on: the claim stays live, until it lapses.
RenewClaim(rid, s, holder, token) ==
  LET st == run.step[s] IN
  /\ Workable(s) /\ st.live /\ st.holder = holder
  /\ ClaimAccepts(s, token)
  /\ Mutate(rid, "claim.renewed", holder, s, run, FALSE)

ExpireClaim(rid, s, human) ==
  /\ run.step[s].holder # None
  /\ Mutate(rid, "claim.expired", human, s, Put(s, [run.step[s] EXCEPT !.live = FALSE]), TRUE)

\* CLAIM_SECONDS pass without a renewal.
ClaimLapses(s) ==
  /\ run.step[s].live
  /\ run' = [run EXCEPT !.step[s].live = FALSE]
  /\ UNCHANGED <<log, audit, disk, crashes>>

MayWrite(s, actor, token) == Workable(s) /\ actor = Owner(s) /\ ClaimAccepts(s, token)

Hold(rid, s, actor, token, kind, cost) ==
  /\ MayWrite(s, actor, token)
  /\ Mutate(rid, "step.held", actor, s,
            Charge(Put(s, [NoClaim(run.step[s]) EXCEPT !.status = "awaiting_approval",
                                                       !.held = kind]), s, cost), TRUE)

-----------------------------------------------------------------------------
(* How a step ends: runtime/run_outcomes.py.                                *)

\* The evidence is pinned to what its file contains now, by its hash.
Complete(rid, s, actor, token, file, cost) ==
  LET st == [NoClaim(run.step[s]) EXCEPT !.evidence = file, !.pinned = disk[file]]
      Completed(new) == Mutate(rid, "step.completed", actor, s, new, FALSE)
  IN /\ MayWrite(s, actor, token)
     /\ \/ /\ Checker(s) # None
           /\ Completed(Charge(Put(s, [st EXCEPT !.status = "awaiting_check"]), s, cost))
        \/ Checker(s) = None /\ Completed(Finish(Charge(Put(s, st), s, cost), s))

Fail(rid, s, actor, token, cost) ==
  LET st == NoClaim(run.step[s])
      Failed(new) == Mutate(rid, "step.failed", actor, s, Charge(new, s, cost), FALSE)
  IN /\ MayWrite(s, actor, token)
     /\ \/ ~OutOfAttempts(s) /\ Failed(Put(s, [st EXCEPT !.status = "ready"]))
        \/ OutOfAttempts(s) /\ Failed(Stop(Put(s, st), s, "blocked_retry_limit"))

ReleaseStep(rid, s, actor, token, cost) ==
  LET st == NoClaim(run.step[s]) IN
  /\ MayWrite(s, actor, token)
  /\ Mutate(rid, "step.released", actor, s,
            Charge(Put(s, [st EXCEPT !.status = "ready", !.releases = @ + 1,
                                     !.attempts = Unspent(@)]), s, cost), FALSE)

CancelRun(rid, human) ==
  Mutate(rid, "run.cancelled", human, "run",
         [run EXCEPT !.status = "cancelled",
                     !.step = [s \in Steps |-> IF run.step[s].status = "in_progress"
                                               THEN NoClaim(run.step[s]) ELSE run.step[s]]], TRUE)

\* The one transition that leaves an end state; it does not go through mutate.
ExtendBudget(rid, human, extra) ==
  LET asked == run.limit + extra
      ceiling == IF asked < CycleCeiling THEN asked ELSE CycleCeiling
  IN /\ ~Used(rid)
     /\ run.status = "blocked_cycle_limit"
     /\ ceiling > run.limit
     /\ Record(rid, "run.budget_extended", human, "run",
               [run EXCEPT !.status = "active", !.limit = ceiling], TRUE)
     /\ UNCHANGED disk

-----------------------------------------------------------------------------
(* The second opinion: runtime/run_review.py.                               *)

Participants(s) == {Owner(s), Checker(s)} \ {None}
Adjacent(s) == UNION {Participants(x) : x \in DependsOn(s) \cup {y \in Steps : s \in DependsOn(y)}}

\* Sender and receiver share the step, or an edge of the workflow.
MayTalk(s, from, to) ==
  /\ from # to
  /\ \/ {from, to} \subseteq Participants(s)
     \/ {from, to} \cap Participants(s) # {} /\ {from, to} \cap Adjacent(s) # {}

\* A reply reverses the direction of the message it answers, on the same step.
SendMessage(rid, m, s, from, to, kind, reply_to, file) ==
  /\ \A x \in run.messages : x.id # m
  /\ MayTalk(s, from, to)
  /\ reply_to # None => \E x \in run.messages :
       x.id = reply_to /\ x.step = s /\ x.from = to /\ x.to = from
  /\ Mutate(rid, "message.sent", from, m,
            [run EXCEPT !.messages = @ \cup {[id |-> m, step |-> s, from |-> from, to |-> to, kind |-> kind,
                                              payload |-> file, pinned |-> disk[file]]}], FALSE)

\* verify_submission: the file still is what the maker handed over.
SubmissionIntact(s) ==
  run.step[s].pinned # None /\ disk[run.step[s].evidence] = run.step[s].pinned

\* checker_message: the verdict rests on a message of the right kind from the
\* checker to the maker, whose file has not changed since it was sent.
VerdictMessageAnyKind(s, m, kind) ==  \* mutant: feedback passes for a decision
  \E x \in run.messages : x.id = m /\ x.step = s /\ x.from = Checker(s) /\ x.to = Owner(s)
VerdictMessage(s, m, kind) ==
  \E x \in run.messages : /\ x.id = m /\ x.step = s /\ x.kind = kind
                          /\ x.from = Checker(s) /\ x.to = Owner(s)
                          /\ disk[x.payload] = x.pinned

MayCheck(s, actor, m, kind) ==
  /\ run.step[s].status = "awaiting_check"
  /\ actor = Checker(s)
  /\ SubmissionIntact(s) /\ VerdictMessage(s, m, kind)

CheckApprove(rid, s, actor, m, cost) ==
  /\ MayCheck(s, actor, m, "decision")
  /\ Mutate(rid, "check.approved", actor, s,
            Finish(Charge(run, s, cost), s), FALSE)

CheckReturn(rid, s, actor, m, cost) ==
  LET st == run.step[s]
      Returned(new) == Mutate(rid, "check.returned", actor, s, Charge(new, s, cost), FALSE)
  IN /\ MayCheck(s, actor, m, "feedback")
     /\ \/ /\ st.reviews >= MaxReviews(s)
           /\ Returned(Stop(run, s, "blocked_review_limit"))
        \/ /\ st.reviews < MaxReviews(s)
           /\ Returned(Put(s, [st EXCEPT !.status = "ready", !.reviews = @ + 1]))

CheckReject(rid, s, actor, m, cost) ==
  /\ MayCheck(s, actor, m, "feedback")
  /\ Mutate(rid, "check.rejected", actor, s,
            Charge(Stop(run, s, "rejected_by_checker"), s, cost), FALSE)

\* Somebody writes an artifact's file: evidence names are per step, not per
\* attempt, so a later or a superseded writer overwrites what was pinned.
WriteArtifact(a, content) ==
  /\ disk' = [disk EXCEPT ![a] = content]
  /\ UNCHANGED <<run, log, audit, crashes>>

-----------------------------------------------------------------------------
(* create_run, and everything that may happen to the run afterwards.        *)

NewStep(s) ==
  [status |-> IF DependsOn(s) = {} THEN "ready" ELSE "pending",
   attempts |-> 0, reviews |-> 0, releases |-> 0,
   holder |-> None, token |-> 0, live |-> FALSE,
   held |-> "none", evidence |-> None, pinned |-> None, spend |-> 0]

CreateRun(planned) ==
  [status |-> "active", seq |-> 1, cycles |-> 0, limit |-> MaxCycles,
   step |-> [s \in Steps |-> NewStep(s)], messages |-> {}, planned |-> planned,
   spend |-> planned, ceiling |-> 0]

CreatedEvent == [id |-> <<"create">>, event |-> "run.created", actor |-> "creator", target |-> "run"]

Init ==
  /\ \E planned \in Costs : run = CreateRun(planned)
  /\ log = {CreatedEvent}
  /\ audit = {}
  /\ disk \in [Artifacts -> Contents]
  /\ crashes = 0

\* The ids a caller may present: one never used before (a uuid, told apart
\* from the others by how many events of that kind came before), or any id
\* already in the log, which mutate answers without touching the run.
Fresh(event, target) ==
  <<"uuid", event, target, Cardinality({e \in log : e.event = event /\ e.target = target})>>
Ids(event, target) == {Fresh(event, target)} \cup {e.id : e \in log}

\* No token at all, or one somebody holds; any other is refused like a wrong one.
Tokens == {None} \cup {run.step[s].token : s \in Steps}

StepVerb(s) ==
  \/ \E rid \in Ids("step.requested", s), a \in Agents, h \in Holders : RequestStep(rid, s, a, h)
  \/ \E rid \in Ids("step.approved", s), p \in Humans : Approve(rid, s, p)
  \/ \E rid \in Ids("step.rejected", s), p \in Humans : Reject(rid, s, p)
  \/ \E rid \in Ids("step.taken", s), a \in Agents, h \in Holders : Take(rid, s, a, h)
  \/ \E rid \in Ids("claim.renewed", s), h \in Holders, t \in Tokens : RenewClaim(rid, s, h, t)
  \/ \E rid \in Ids("claim.expired", s), p \in Humans : ExpireClaim(rid, s, p)
  \/ ClaimLapses(s)
  \/ \E rid \in Ids("step.held", s), a \in Agents, t \in Tokens, k \in {"ungraded", "budget"}, c \in Costs :
       Hold(rid, s, a, t, k, c)
  \/ \E rid \in Ids("step.completed", s), a \in Agents, t \in Tokens, f \in Files, c \in Costs :
       Complete(rid, s, a, t, <<s, f>>, c)
  \/ \E rid \in Ids("step.failed", s), a \in Agents, t \in Tokens, c \in Costs : Fail(rid, s, a, t, c)
  \/ \E rid \in Ids("step.released", s), a \in Agents, t \in Tokens, c \in Costs :
       ReleaseStep(rid, s, a, t, c)

ReviewVerb(s) ==
  \/ \E m \in MessageIds : \E rid \in Ids("message.sent", m), from, to \in Agents, k \in Kinds,
        r \in MessageIds \cup {None}, f \in Files : SendMessage(rid, m, s, from, to, k, r, <<s, f>>)
  \/ \E rid \in Ids("check.approved", s), a \in Agents, m \in MessageIds, c \in Costs :
       CheckApprove(rid, s, a, m, c)
  \/ \E rid \in Ids("check.returned", s), a \in Agents, m \in MessageIds, c \in Costs :
       CheckReturn(rid, s, a, m, c)
  \/ \E rid \in Ids("check.rejected", s), a \in Agents, m \in MessageIds, c \in Costs :
       CheckReject(rid, s, a, m, c)

RunVerb ==
  \/ \E rid \in Ids("run.cancelled", "run"), p \in Humans : CancelRun(rid, p)
  \/ \E rid \in Ids("run.budget_extended", "run"), p \in Humans, x \in Extensions :
       ExtendBudget(rid, p, x)
  \/ \E rid \in Ids("run.blocked_cycle_limit", "run") : Exhaust(rid)

Next ==
  \/ \E s \in Steps : StepVerb(s) \/ ReviewVerb(s)
  \/ RunVerb
  \/ \E a \in Artifacts, c \in Contents : WriteArtifact(a, c)

Spec == Init /\ [][Next]_vars
=============================================================================
