----------------------------- MODULE RunDriver -----------------------------
(***************************************************************************)
(* Who calls the verbs of RunCore, in which order, and under which ids.    *)
(*                                                                         *)
(*   drivers   executor*.py and checking.py: load the run, drive every     *)
(*             step that is ready or approved, then review every           *)
(*             submission, under ids derived from (step, attempt, verb)    *)
(*   workers   agent_work.py: claim a step over HTTP, send the work back   *)
(*             with the token the claim was answered with, under new ids   *)
(*   humans    approvals.py at the terminal, under derived ids, and        *)
(*             service_runs.py behind the console, under new ones          *)
(*                                                                         *)
(* A driver reads the run's state, a token, an id or a file in one moment  *)
(* and calls a verb in a later one; model calls take minutes in between.   *)
(* Each such moment is an action here, and another process may act, or     *)
(* this one die, between any two.  A driver does one step at a time:       *)
(* MYORG_MAX_PARALLEL_STEPS is 1 unless somebody raises it.                *)
(***************************************************************************)
EXTENDS RunProperties

CONSTANTS
  Drivers,     \* driver processes; one that died does not come back
  Workers,     \* outside workers
  Overlap,     \* may two drivers run at once: a scheduler, and executor.py by hand
  Cli,         \* do people decide at the terminal; otherwise at the console
  HumanVerbs,  \* which of approve, reject, cancel, extend, expire people use
  Trouble      \* which of transient, error, rejected, ungraded, returned, crash, lapse occur

ASSUME DriverAssumption ==
  /\ Drivers \cup Workers \subseteq Holders /\ Drivers \cap Workers = {}
  /\ {"work", "ungraded"} \subseteq Files
  /\ Overlap \in BOOLEAN /\ Cli \in BOOLEAN

VARIABLES
  proc,     \* what each driver is doing
  api,      \* what each outside worker is doing
  cleared   \* history: the work that passed its grade or that a person accepted

driverVars == <<proc, api, cleared>>
allVars == <<vars, proc, api, cleared>>

Waiting == {s \in Steps : StatusOf(s) = "awaiting_approval"}

\* The file one round of review is kept in, by the review cycles before it.
UnlabelledFile(n) == "work"        \* mutant: the review's label is forgotten
ReviewFile(n) == <<"check1", "check2", "check3", "check4">>[n + 1]

ASSUME ReviewFileAssumption ==
  \A s \in Steps : Checker(s) # None => \A n \in 0..MaxReviews(s) : ReviewFile(n) \in Files

\* What becomes of work, by what the grader said of it.
Grades == {"meets"} \cup (Trouble \cap {"rejected", "ungraded"})
UngradedPasses(grade) ==           \* mutant: no answer from the grader is a pass
  IF grade = "rejected" THEN "fail" ELSE "complete"
OutcomeOf(grade) ==
  CASE grade = "meets" -> "complete" [] grade = "rejected" -> "fail" [] grade = "ungraded" -> "hold"

\* Work to be held or handed over is written to its file before the verb is
\* called, whatever the verb will then make of it.
Keep(s, grade) ==
  \/ grade = "rejected" /\ UNCHANGED <<vars, cleared>>
  \/ grade = "ungraded" /\ UNCHANGED cleared /\ \E x \in Contents : WriteArtifact(<<s, "ungraded">>, x)
  \/ grade = "meets" /\ \E x \in Contents : /\ WriteArtifact(<<s, "work">>, x)
                                             /\ cleared' = cleared \cup {<<s, x>>}

-----------------------------------------------------------------------------
(* Names and calls.                                                         *)

\* request_id: one name per (step, attempts, releases, verb).
RidByAttempt(s, verb) == <<"exec", s, run.step[s].attempts, verb>>  \* mutant
Rid(s, verb) == <<"exec", s, run.step[s].attempts, run.step[s].releases, verb>>

\* How mutate answers a call that changes nothing.  An id already in the log
\* is a replay if it stands for the same mutation; any other use is refused,
\* as is every call that a verb's own conditions do not allow.
Replayed(rid, event, actor, target) ==
  \E e \in log : e.id = rid /\ e.event = event /\ e.actor = actor /\ e.target = target
Refusal(rid, event, actor, target, allowed) ==
  IF Used(rid) THEN ~Replayed(rid, event, actor, target)
  ELSE run.status # "active" \/ (run.cycles < run.limit /\ ~allowed)

-----------------------------------------------------------------------------
(* A driver: executor.py.                                                   *)

\* claim_is_live, and not mine: work this driver cannot move.
Elsewhere(d) == {s \in Steps : run.step[s].live /\ run.step[s].holder # d}
Ready(d) == {s \in Steps : StatusOf(s) \in {"ready", "in_progress"}} \ Elsewhere(d)
Checks == {s \in Steps : StatusOf(s) = "awaiting_check"}

Idle == [pc |-> "idle", snap |-> <<>>, todo |-> {}, checks |-> {},
         at |-> None, taken |-> FALSE, verb |-> "none", rid |-> <<>>, token |-> None,
         file |-> None, cost |-> 0, read |-> None, verdict |-> "none", message |-> None]

Goes(d, new) == proc' = [proc EXCEPT ![d] = new]

\* A process that dies in the middle of a verb hears no answer.
Dead == [Idle EXCEPT !.pc = "dead"]
Survived == crashes' = crashes
Hears(d, answer) ==
  \/ Survived /\ Goes(d, answer)
  \/ ~Survived /\ Goes(d, Dead)

\* advance, once round its loop: read the run, and see what there is to do.  It
\* goes round while there is something: the limit on its rounds is left out.
WorkLeft(d) == run.status = "active" /\ Ready(d) \cup Checks # {}

\* mutant: a pass begins while another driver is at work on the run
StartPassUnasked(d) ==
  /\ proc[d].pc \in {"round", "idle"}
  /\ WorkLeft(d)
  /\ Goes(d, [Idle EXCEPT !.pc = "pass", !.snap = run, !.todo = Ready(d), !.checks = Checks])
  /\ UNCHANGED <<vars, api, cleared>>

StartPass(d) ==
  /\ \/ proc[d].pc = "round"
     \/ proc[d].pc = "idle" /\ (Overlap \/ \A e \in Drivers \ {d} : proc[e].pc \in {"idle", "dead"})
  /\ WorkLeft(d)
  /\ Goes(d, [Idle EXCEPT !.pc = "pass", !.snap = run, !.todo = Ready(d), !.checks = Checks])
  /\ UNCHANGED <<vars, api, cleared>>

LeaveRun(d) ==
  /\ proc[d].pc = "round" /\ ~WorkLeft(d)
  /\ Goes(d, Idle)
  /\ UNCHANGED <<vars, api, cleared>>

\* The driver is through with one step, or with the whole pass.
Dropped(p) ==
  IF p.todo \cup p.checks = {} THEN [Idle EXCEPT !.pc = "round"]
  ELSE [Idle EXCEPT !.pc = "pass", !.snap = p.snap, !.todo = p.todo, !.checks = p.checks]
Drops(d) == Goes(d, Dropped(proc[d]))

\* drive_step: claim what was ready, take what nobody holds, go on with my own.
PickStep(d, s) ==
  LET p == [proc[d] EXCEPT !.todo = @ \ {s}, !.at = s]
      st == p.snap.step[s]
  IN /\ proc[d].pc = "pass" /\ s \in proc[d].todo
     /\ \/ /\ st.status = "ready"
           /\ Goes(d, [p EXCEPT !.pc = "prepare", !.verb = "claim"])
        \/ /\ st.status = "in_progress" /\ st.holder # d
           /\ Goes(d, [p EXCEPT !.pc = "prepare", !.verb = "take"])
        \/ /\ st.status = "in_progress" /\ st.holder = d
           /\ Goes(d, [p EXCEPT !.pc = "decide"])
     /\ UNCHANGED <<vars, api, cleared>>

\* token_for and request_id: read from the run as it is now, before the call.
\* No token on the step is no token on the call.
Prepare(d) ==
  LET p == proc[d]
      token == run.step[p.at].token IN
  /\ p.pc = "prepare"
  /\ Goes(d, [p EXCEPT !.pc = "call", !.rid = Rid(p.at, p.verb),
                       !.token = IF token = 0 THEN None ELSE token])
  /\ UNCHANGED <<vars, api, cleared>>

\* A call is applied, or replayed, or refused -- by the verb, or because it is
\* the one that finds the run out of cycles.
Calls(d, event, actor, target, allowed, Verb, applied, replayed, refused) ==
  LET rid == proc[d].rid IN
  /\ proc[d].pc = "call"
  /\ \/ Verb /\ Hears(d, applied)
     \/ Replayed(rid, event, actor, target) /\ UNCHANGED vars /\ Goes(d, replayed)
     \/ Exhaust(rid) /\ Hears(d, refused)
     \/ Refusal(rid, event, actor, target, allowed) /\ UNCHANGED vars /\ Goes(d, refused)
  /\ UNCHANGED <<api, cleared>>

\* claim: what the policy made of the request decides whether work starts.  A
\* replay prints more than the status, which reads as: left for a human.
CallClaim(d) ==
  LET p == proc[d]
      s == p.at
      go == [p EXCEPT !.pc = "decide"]
  IN /\ p.verb = "claim"
     /\ Calls(d, "step.requested", Owner(s), s, StatusOf(s) = "ready",
              RequestStep(p.rid, s, Owner(s), d),
              IF run'.step[s].status = "in_progress" THEN go ELSE Dropped(p),
              Dropped(p), Idle)

\* take: a refusal leaves the step to somebody else, a replay does not.
CallTake(d) ==
  LET p == proc[d]
      s == p.at
      go == [p EXCEPT !.pc = "decide", !.taken = TRUE]
  IN /\ p.verb = "take"
     /\ Calls(d, "step.taken", Owner(s), s,
              Workable(s) /\ ~(run.step[s].live /\ run.step[s].holder # d),
              Take(p.rid, s, Owner(s), d), go, go, Dropped(p))

\* run_ceiling_usd and over_budget: the ceiling is read with the rest of the
\* run, the spend again before every dispatch.
Ceiling(r) == IF r.ceiling # 0 THEN r.ceiling ELSE DefaultCeiling
OverWhenThePassBegan(r) == Ceiling(r) # 0 /\ r.spend >= Ceiling(r)  \* mutant: spend not read again
OverBudget(r) == Ceiling(r) # 0 /\ run.spend >= Ceiling(r)

\* finish_approved_hold, over_budget, or the work itself.  What was taken is
\* read again; what was claimed is judged by the copy the pass started from.
Decide(d) ==
  LET p == proc[d]
      seen == IF p.taken THEN run ELSE p.snap
      accepted == seen.step[p.at].held = "ungraded"
      next == [p EXCEPT !.pc = "prepare"]
  IN /\ p.pc = "decide"
     /\ \/ /\ accepted
           /\ Goes(d, [next EXCEPT !.verb = "complete", !.file = <<p.at, "ungraded">>])
        \/ ~accepted /\ OverBudget(seen) /\ Goes(d, [next EXCEPT !.verb = "overbudget"])
        \/ ~accepted /\ ~OverBudget(seen) /\ Goes(d, [p EXCEPT !.pc = "dispatch"])
     /\ UNCHANGED <<vars, api, cleared>>

\* Parked for its cost; a park that is refused does not stop the work.
CallOverBudget(d) ==
  LET p == proc[d] IN
  /\ p.verb = "overbudget"
  /\ Calls(d, "step.held", Owner(p.at), p.at, MayWrite(p.at, Owner(p.at), p.token),
           Hold(p.rid, p.at, Owner(p.at), p.token, "budget", 0),
           Dropped(p), Dropped(p), [p EXCEPT !.pc = "dispatch"])

\* upstream_handoffs: what the step builds on still is what was handed over.
Dispatch(d) ==
  LET p == proc[d]
      seen == IF p.taken THEN run ELSE p.snap
      intact == \A x \in DependsOn(p.at) : disk[seen.step[x].evidence] = seen.step[x].pinned
  IN /\ p.pc = "dispatch"
     /\ Goes(d, IF intact THEN [p EXCEPT !.pc = "model"]
                          ELSE [p EXCEPT !.pc = "prepare", !.verb = "fail"])
     /\ UNCHANGED <<vars, api, cleared>>

\* The model and the grader have answered, or have not.  Work is not graded
\* once the run has ended.
Reply(d) ==
  LET p == proc[d]
      s == p.at
      then(verb, cost) == Goes(d, [p EXCEPT !.pc = "prepare", !.verb = verb, !.cost = cost,
                                            !.file = <<s, "work">>])
  IN /\ p.pc = "model"
     /\ \/ "transient" \in Trouble /\ then("release", 0) /\ UNCHANGED <<vars, cleared>>
        \/ "error" \in Trouble /\ then("fail", 0) /\ UNCHANGED <<vars, cleared>>
        \/ run.status # "active" /\ Drops(d) /\ UNCHANGED <<vars, cleared>>
        \/ /\ run.status = "active"
           /\ \E g \in Grades, c \in Costs : then(OutcomeOf(g), c) /\ Keep(s, g)
     /\ UNCHANGED api

\* finish, record_failure, release_step, hold_for_human: a refusal of any of
\* them ends the pass.
CallOutcome(d) ==
  LET p == proc[d]
      s == p.at
      a == Owner(s)
      Calling(event, Verb) == Calls(d, event, a, s, MayWrite(s, a, p.token), Verb,
                                    Dropped(p), Dropped(p), Idle)
  IN \/ /\ p.verb = "complete"
        /\ Calling("step.completed", Complete(p.rid, s, a, p.token, p.file, p.cost))
     \/ p.verb = "fail" /\ Calling("step.failed", Fail(p.rid, s, a, p.token, p.cost))
     \/ p.verb = "release" /\ Calling("step.released", ReleaseStep(p.rid, s, a, p.token, p.cost))
     \/ p.verb = "hold" /\ Calling("step.held", Hold(p.rid, s, a, p.token, "ungraded", p.cost))

-----------------------------------------------------------------------------
(* A driver as reviewer: checking.py.                                       *)

\* submission_text: the checker reads what the pass saw, or does not review.
PickCheck(d, s) ==
  LET p == [proc[d] EXCEPT !.checks = @ \ {s}, !.at = s]
      st == p.snap.step[s]
  IN /\ p.pc = "pass" /\ p.todo = {} /\ s \in proc[d].checks
     /\ Goes(d, IF disk[st.evidence] = st.pinned
                THEN [p EXCEPT !.pc = "review", !.read = st.pinned] ELSE Dropped(p))
     /\ UNCHANGED <<vars, api, cleared>>

\* The review is filed, one file per round; sent as a message; then applied.
Verdict(d) ==
  LET p == proc[d]
      s == p.at
      verdicts == {"check-approve"}
                    \cup (IF "returned" \in Trouble THEN {"check-return", "check-reject"} ELSE {})
  IN /\ p.pc = "review"
     /\ \/ "error" \in Trouble /\ Drops(d) /\ UNCHANGED vars
        \/ \E v \in verdicts, c \in Costs, x \in Contents :
             LET file == <<s, ReviewFile(p.snap.step[s].reviews)>> IN
             /\ WriteArtifact(file, x)
             /\ Goes(d, [p EXCEPT !.pc = "prepare", !.verb = "verdict-message", !.verdict = v,
                                  !.cost = c, !.file = file])
     /\ UNCHANGED <<api, cleared>>

\* message_id: a uuid, so any id nobody used will do.  MessageIds bounds how many.
Unsent == {m \in MessageIds : \A x \in run.messages : x.id # m}

CallMessage(d) ==
  LET p == proc[d]
      s == p.at
      kind == IF p.verdict = "check-approve" THEN "decision" ELSE "feedback"
      m == CHOOSE x \in Unsent : TRUE
  IN /\ p.verb = "verdict-message" /\ Unsent # {}
     /\ Calls(d, "message.sent", Checker(s), m, TRUE,
              SendMessage(p.rid, m, s, Checker(s), Owner(s), kind, None, p.file),
              [p EXCEPT !.pc = "prepare", !.verb = p.verdict, !.message = m], Idle, Idle)

CallVerdict(d) ==
  LET p == proc[d]
      s == p.at
      c == Checker(s)
      Calling(event, kind, Verb) ==
        Calls(d, event, c, s, MayCheck(s, c, p.message, kind), Verb, Dropped(p), Dropped(p), Idle)
  IN \/ /\ p.verb = "check-approve"
        /\ Calling("check.approved", "decision", CheckApprove(p.rid, s, c, p.message, p.cost))
     \/ /\ p.verb = "check-return"
        /\ Calling("check.returned", "feedback", CheckReturn(p.rid, s, c, p.message, p.cost))
     \/ /\ p.verb = "check-reject"
        /\ Calling("check.rejected", "feedback", CheckReject(p.rid, s, c, p.message, p.cost))

\* The process dies; only what it wrote remains.
Crash(d) ==
  /\ "crash" \in Trouble
  /\ proc[d].pc \notin {"idle", "dead"}
  /\ Goes(d, Dead)
  /\ UNCHANGED <<vars, api, cleared>>

Drives(d) ==
  \/ StartPass(d) \/ LeaveRun(d) \/ Prepare(d) \/ CallClaim(d) \/ CallTake(d) \/ Decide(d)
  \/ CallOverBudget(d) \/ Dispatch(d) \/ Reply(d) \/ CallOutcome(d)
  \/ Verdict(d) \/ CallMessage(d) \/ CallVerdict(d)
  \/ \E s \in Steps : PickStep(d, s) \/ PickCheck(d, s)

-----------------------------------------------------------------------------
(* An outside worker: agent_work.py.                                        *)

Free == [pc |-> "free", at |-> None, token |-> None, verb |-> "none"]
Works(w, new) == api' = [api EXCEPT ![w] = new]

\* claim: the answer carries the token, and gated steps are never handed out.
ApiClaim(w, s) ==
  /\ api[w].pc = "free" /\ ~run.step[s].live
  /\ \/ /\ RequestStep(Fresh("step.requested", s), s, Owner(s), w)
        /\ Works(w, IF run'.step[s].status = "in_progress"
                    THEN [Free EXCEPT !.pc = "working", !.at = s, !.token = run'.step[s].token]
                    ELSE Free)
     \/ /\ Exhaust(Fresh("step.requested", s))
        /\ Works(w, Free)
  /\ UNCHANGED <<proc, cleared>>

\* holding: is the claim this worker's, under this token, and live?
HoldsClaim(w) ==
  LET st == run.step[api[w].at] IN st.holder = w /\ st.live /\ st.token = api[w].token

\* submit, as far as the grader; a worker without the claim is sent away.
ApiSubmit(w) ==
  /\ api[w].pc = "working"
  /\ Works(w, IF HoldsClaim(w) THEN [api[w] EXCEPT !.pc = "grading"] ELSE Free)
  /\ UNCHANGED <<vars, proc, cleared>>

ApiGraded(w) ==
  /\ api[w].pc = "grading"
  /\ \E g \in Grades : /\ Works(w, [api[w] EXCEPT !.pc = "call", !.verb = OutcomeOf(g)])
                        /\ Keep(api[w].at, g)
  /\ UNCHANGED proc

\* The write carries the worker's own token, so it is refused if the claim
\* went to somebody else meanwhile.
ApiCall(w) ==
  LET s == api[w].at
      t == api[w].token
      a == Owner(s)
      Calling(event, Verb) ==
        \/ Verb
        \/ Exhaust(Fresh(event, s))
        \/ Refusal(Fresh(event, s), event, a, s, MayWrite(s, a, t)) /\ UNCHANGED vars
  IN /\ api[w].pc = "call"
     /\ \/ /\ api[w].verb = "complete"
           /\ Calling("step.completed", Complete(Fresh("step.completed", s), s, a, t, <<s, "work">>, 0))
        \/ /\ api[w].verb = "fail"
           /\ Calling("step.failed", Fail(Fresh("step.failed", s), s, a, t, 0))
        \/ /\ api[w].verb = "hold"
           /\ Calling("step.held", Hold(Fresh("step.held", s), s, a, t, "ungraded", 0))
     /\ Works(w, Free)
     /\ UNCHANGED <<proc, cleared>>

\* heartbeat: renews the claim if it still is this worker's.
ApiHeartbeat(w) ==
  /\ "lapse" \in Trouble /\ api[w].pc = "working" /\ HoldsClaim(w)
  /\ LET rid == Fresh("claim.renewed", api[w].at)
     IN RenewClaim(rid, api[w].at, w, api[w].token) \/ Exhaust(rid)
  /\ UNCHANGED driverVars

\* give_up: the attempt is recorded as a failure.
ApiGiveUp(w) ==
  /\ api[w].pc = "working"
  /\ "error" \in Trouble /\ HoldsClaim(w)
  /\ Works(w, [api[w] EXCEPT !.pc = "call", !.verb = "fail"])
  /\ UNCHANGED <<vars, proc, cleared>>

Outside(w) ==
  \/ ApiSubmit(w) \/ ApiGraded(w) \/ ApiCall(w) \/ ApiHeartbeat(w) \/ ApiGiveUp(w)
  \/ \E s \in Steps : ApiClaim(w, s)

-----------------------------------------------------------------------------
(* People.                                                                  *)

\* approvals.decide derives its id as the driver does; the console's is new.
DecisionId(s, verb, event) == IF Cli THEN Rid(s, verb) ELSE Fresh(event, s)

\* Accepting held work is about the file as the person finds it.
PersonApproves(s, p) ==
  LET rid == DecisionId(s, "approve", "step.approved") IN
  /\ "approve" \in HumanVerbs /\ s \in Waiting
  /\ \/ /\ Approve(rid, s, p)
        /\ cleared' = IF run.step[s].held = "ungraded" /\ Survived
                      THEN cleared \cup {<<s, disk[<<s, "ungraded">>]>>} ELSE cleared
     \/ Exhaust(rid) /\ UNCHANGED cleared
  /\ UNCHANGED <<proc, api>>

PersonRejects(s, p) ==
  LET rid == DecisionId(s, "reject", "step.rejected") IN
  /\ "reject" \in HumanVerbs /\ s \in Waiting
  /\ Reject(rid, s, p) \/ Exhaust(rid)
  /\ UNCHANGED driverVars

PersonExpires(s, p) ==
  LET rid == Fresh("claim.expired", s) IN
  /\ "expire" \in HumanVerbs
  /\ ExpireClaim(rid, s, p) \/ Exhaust(rid)
  /\ UNCHANGED driverVars

PersonCancels(p) ==
  LET rid == Fresh("run.cancelled", "run") IN
  /\ "cancel" \in HumanVerbs
  /\ CancelRun(rid, p) \/ Exhaust(rid)
  /\ UNCHANGED driverVars

PersonExtends(p) ==
  /\ "extend" \in HumanVerbs
  /\ \E x \in Extensions : ExtendBudget(Fresh("run.budget_extended", "run"), p, x)
  /\ UNCHANGED driverVars

Decides(p) ==
  \/ PersonCancels(p) \/ PersonExtends(p)
  \/ \E s \in Steps : PersonApproves(s, p) \/ PersonRejects(s, p) \/ PersonExpires(s, p)

-----------------------------------------------------------------------------
TimePasses(s) == "lapse" \in Trouble /\ ClaimLapses(s) /\ UNCHANGED driverVars

DriverInit ==
  /\ Init
  /\ proc = [d \in Drivers |-> Idle]
  /\ api = [w \in Workers |-> Free]
  /\ cleared = {}

DriverNext ==
  \/ \E d \in Drivers : Drives(d) \/ Crash(d)
  \/ \E w \in Workers : Outside(w)
  \/ \E p \in Humans : Decides(p)
  \/ \E s \in Steps : TimePasses(s)

DriverSpec == DriverInit /\ [][DriverNext]_allVars

\* classify, movable_runs: what the scheduler drives without being told to.
Movable == run.status = "active" /\ Waiting = {} /\ run.cycles < run.limit

\* The scheduler sweeps the movable runs again and again, and a driver that has
\* begun goes on; claims run out by the clock.  Nothing makes a person decide or
\* start a driver by hand, an outside worker answer, or a process die.
DriverFairness ==
  /\ \A d \in Drivers : WF_allVars((proc[d].pc # "idle" \/ Movable) /\ Drives(d))
  /\ \A s \in Steps : WF_allVars(TimePasses(s))

DriverFairSpec == DriverSpec /\ DriverFairness
=============================================================================
