-------------------------- MODULE RunDriverProofs --------------------------
(***************************************************************************)
(* What holds however drivers, outside workers and people are interleaved, *)
(* and wherever they die: every call they make is one of the verbs RunProofs*)
(* is about, so the run stays sound and its books are kept; an outside     *)
(* worker whose claim went to somebody else can no longer change the step; *)
(* a lone driver hands over only cleared work and leaves it as it was, and *)
(* starts no model call over the ceiling while nobody extends the run; and *)
(* where drivers do not overlap a verdict is on what its reviewer read.    *)
(***************************************************************************)
EXTENDS DriverProperties, RunProofs

\* The facts about a driver's own state that its calls rely on.
ProcFields == {"pc", "snap", "todo", "checks", "at", "taken", "verb", "rid", "token",
               "file", "cost", "read", "verdict", "message"}
Busy == {"prepare", "call", "decide", "dispatch", "model", "review"}
Reviewable(r, s) == Checker(s) # None /\ r.step[s].reviews \in 0..MaxReviews(s)

ProcOK(p) ==
  /\ DOMAIN p = ProcFields
  /\ p.todo \subseteq Steps /\ p.checks \subseteq Steps /\ p.cost \in Nat
  /\ IF p.pc \in Busy THEN p.at \in Steps ELSE p.verb = "none"
  /\ p.verb \in {"complete", "verdict-message"} => p.file \in Artifacts
  /\ p.verb = "verdict-message" => Checker(p.at) # None
  /\ p.verdict \notin {"complete", "verdict-message"}
  /\ p.pc = "review" => Reviewable(p.snap, p.at)
  /\ \A s \in p.checks : Reviewable(p.snap, s)

ProcsOK == DOMAIN proc = Drivers /\ \A d \in Drivers : ProcOK(proc[d])

\* A worker's token was granted to it, and is nobody else's on that step.
WorkerOK(w) ==
  /\ DOMAIN api[w] = {"pc", "at", "token", "verb"}
  /\ api[w].pc # "free" =>
       /\ api[w].at \in Steps /\ api[w].token \in Nat \ {0} /\ api[w].token <= run.seq
       /\ run.step[api[w].at].token = api[w].token => run.step[api[w].at].holder = w

WorkersOK == DOMAIN api = Workers /\ \A w \in Workers : WorkerOK(w)

DriverInv == IInv /\ ProcsOK /\ WorkersOK

-----------------------------------------------------------------------------
LEMMA ArtifactsOfSteps ==
  ASSUME NEW s \in Steps
  PROVE  /\ <<s, "work">> \in Artifacts /\ <<s, "ungraded">> \in Artifacts
         /\ \A r : Reviewable(r, s) => <<s, ReviewFile(r.step[s].reviews)>> \in Artifacts
BY DriverAssumption, ReviewFileAssumption DEF Artifacts, Reviewable

LEMMA KeepSound ==
  ASSUME IInv, NEW s \in Steps, NEW grade, Keep(s, grade)
  PROVE  Preserved
BY ArtifactsOfSteps, StutterSound, WriteArtifactSound DEF Keep

LEMMA GoesOK ==
  ASSUME ProcsOK, NEW d \in Drivers, NEW new, ProcOK(new), Goes(d, new)
  PROVE  ProcsOK'
BY DEF ProcsOK, Goes

LEMMA IdleOK ==
  ProcOK(Idle) /\ ProcOK([Idle EXCEPT !.pc = "round"]) /\ ProcOK(Dead)
BY DEF ProcOK, Dead, Idle, ProcFields, Busy

LEMMA DroppedOK ==
  ASSUME NEW p, ProcOK(p)
  PROVE  ProcOK(Dropped(p))
<1>1. CASE p.todo \cup p.checks = {}
  BY <1>1, IdleOK DEF Dropped
<1>2. CASE p.todo \cup p.checks # {}
  BY <1>2 DEF Dropped, ProcOK, Idle, ProcFields, Busy
<1>3. QED
  BY <1>1, <1>2

-----------------------------------------------------------------------------
(* A driver's steps, one by one.                                            *)

\* What each of them does with a sound run and a driver that is as it should be.
DriverStep == Preserved /\ ProcsOK' /\ UNCHANGED api

LEMMA ProcTypes ==
  ASSUME DriverInv, NEW d \in Drivers
  PROVE  /\ IInv /\ ProcsOK /\ ProcOK(proc[d]) /\ d \in Holders
         /\ proc[d].pc \in Busy => proc[d].at \in Steps
BY DriverAssumption DEF DriverInv, ProcsOK, ProcOK

\* A driver that has a step may go on to any moment but a review, and to any
\* verb that hands over no file.
LEMMA GoesOnOK ==
  ASSUME NEW p, ProcOK(p), p.at \in Steps, NEW pc \in Busy \ {"review"}
  PROVE  /\ ProcOK([p EXCEPT !.pc = pc])
         /\ p.verb # "none" => ProcOK([p EXCEPT !.pc = pc, !.taken = TRUE])
         /\ \A rid, token : ProcOK([p EXCEPT !.pc = pc, !.rid = rid, !.token = token])
BY DEF ProcOK, ProcFields, Busy

LEMMA GoesOnToVerb ==
  ASSUME NEW p, ProcOK(p), p.at \in Steps, NEW pc \in Busy \ {"review"},
         NEW verb, verb \notin {"complete", "verdict-message"}
  PROVE  /\ ProcOK([p EXCEPT !.pc = pc, !.verb = verb])
         /\ \A m : ProcOK([p EXCEPT !.pc = pc, !.verb = verb, !.message = m])
BY DEF ProcOK, ProcFields, Busy

LEMMA StartPassOK ==
  ASSUME DriverInv, NEW d \in Drivers, StartPass(d) \/ LeaveRun(d)
  PROVE  DriverStep
<1> DEFINE p == [Idle EXCEPT !.pc = "pass", !.snap = run, !.todo = Ready(d), !.checks = Checks]
<1>1. \A s \in Checks : Reviewable(run, s)
  BY WorkflowTypes, RunTypes DEF DriverInv, IInv, Sound, CheckedOK, Checks, StatusOf, Reviewable
<1>2. Ready(d) \subseteq Steps /\ Checks \subseteq Steps
  BY DEF Ready, Checks
<1>3. ProcOK(p)
  BY <1>1, <1>2 DEF ProcOK, Idle, ProcFields, Busy
<1>4. Goes(d, p) \/ Goes(d, Idle)
  BY DEF StartPass, LeaveRun
<1>5. ProcsOK'
  BY <1>3, <1>4, ProcTypes, IdleOK, GoesOK
<1>6. QED
  BY <1>5, StutterSound, ProcTypes DEF StartPass, LeaveRun, DriverStep

LEMMA PickStepOK ==
  ASSUME DriverInv, NEW d \in Drivers, NEW s \in Steps, PickStep(d, s)
  PROVE  DriverStep
<1> DEFINE p == [proc[d] EXCEPT !.todo = @ \ {s}, !.at = s]
<1>1. /\ ProcOK(proc[d]) /\ proc[d].pc = "pass" /\ UNCHANGED <<vars, api>>
  BY ProcTypes DEF PickStep
<1>2. \/ Goes(d, [p EXCEPT !.pc = "prepare", !.verb = "claim"])
      \/ Goes(d, [p EXCEPT !.pc = "prepare", !.verb = "take"])
      \/ Goes(d, [p EXCEPT !.pc = "decide"])
  BY DEF PickStep
<1>3. ProcOK(p) /\ p.at = s
  <2> DEFINE rest == proc[d].todo \ {s}
  <2>1. rest \subseteq Steps /\ p = [proc[d] EXCEPT !.todo = rest, !.at = s]
    BY <1>1 DEF ProcOK
  <2> HIDE DEF rest, p
  <2>2. QED
    BY <1>1, <2>1 DEF ProcOK, ProcFields, Busy
<1> HIDE DEF p
<1>4. ProcsOK'
  BY <1>2, <1>3, ProcTypes, GoesOnOK, GoesOnToVerb, GoesOK DEF Busy
<1>5. QED
  BY <1>1, <1>4, ProcTypes, StutterSound DEF DriverStep

LEMMA PrepareOK ==
  ASSUME DriverInv, NEW d \in Drivers, Prepare(d)
  PROVE  DriverStep
<1>1. /\ ProcOK(proc[d]) /\ proc[d].pc = "prepare" /\ UNCHANGED <<vars, api>>
  BY ProcTypes DEF Prepare
<1>2. PICK rid, token : Goes(d, [proc[d] EXCEPT !.pc = "call", !.rid = rid, !.token = token])
  BY DEF Prepare
<1>3. ProcsOK'
  BY <1>1, <1>2, ProcTypes, GoesOnOK, GoesOK DEF Busy
<1>4. QED
  BY <1>1, <1>3, ProcTypes, StutterSound DEF DriverStep

\* Each call: the verb keeps the run sound by its own lemma, a replay and a
\* refusal leave it alone, and where the driver goes next is one of a few places.
LEMMA CallClaimOK ==
  ASSUME DriverInv, NEW d \in Drivers, CallClaim(d)
  PROVE  DriverStep
<1> DEFINE p == proc[d]
           go == [p EXCEPT !.pc = "decide"]
<1>1. /\ IInv /\ ProcsOK /\ ProcOK(p) /\ p.at \in Steps /\ d \in Holders /\ UNCHANGED api
  BY ProcTypes DEF CallClaim, Calls, Hears, Busy
<1>2. Preserved
  BY <1>1, RequestStepSound, StutterSound, ExhaustSound DEF CallClaim, Calls, Hears
<1>3. Goes(d, go) \/ Goes(d, Dropped(p)) \/ Goes(d, Idle) \/ Goes(d, Dead)
  BY DEF CallClaim, Calls, Hears
<1>4. ProcsOK'
  BY <1>1, <1>3, GoesOnOK, DroppedOK, IdleOK, GoesOK DEF Busy
<1>5. QED
  BY <1>1, <1>2, <1>4 DEF DriverStep

LEMMA CallTakeOK ==
  ASSUME DriverInv, NEW d \in Drivers, CallTake(d)
  PROVE  DriverStep
<1> DEFINE p == proc[d]
           go == [p EXCEPT !.pc = "decide", !.taken = TRUE]
<1>1. /\ IInv /\ ProcsOK /\ ProcOK(p) /\ p.at \in Steps /\ d \in Holders /\ UNCHANGED api
      /\ p.verb # "none"
  BY ProcTypes DEF CallTake, Calls, Hears, Busy
<1>2. Preserved
  BY <1>1, TakeSound, StutterSound, ExhaustSound DEF CallTake, Calls, Hears
<1>3. Goes(d, go) \/ Goes(d, Dropped(p)) \/ Goes(d, Dead)
  BY DEF CallTake, Calls, Hears
<1>4. ProcsOK'
  BY <1>1, <1>3, GoesOnOK, DroppedOK, IdleOK, GoesOK DEF Busy
<1>5. QED
  BY <1>1, <1>2, <1>4 DEF DriverStep

LEMMA CallOverBudgetOK ==
  ASSUME DriverInv, NEW d \in Drivers, CallOverBudget(d)
  PROVE  DriverStep
<1> DEFINE p == proc[d]
           on == [p EXCEPT !.pc = "dispatch"]
<1>1. /\ IInv /\ ProcsOK /\ ProcOK(p) /\ p.at \in Steps /\ UNCHANGED api
  BY ProcTypes DEF CallOverBudget, Calls, Hears, Busy
<1>2. Preserved
  BY <1>1, HoldSound, StutterSound, ExhaustSound DEF CallOverBudget, Calls, Hears
<1>3. Goes(d, on) \/ Goes(d, Dropped(p)) \/ Goes(d, Dead)
  BY DEF CallOverBudget, Calls, Hears
<1>4. ProcsOK'
  BY <1>1, <1>3, GoesOnOK, DroppedOK, IdleOK, GoesOK DEF Busy
<1>5. QED
  BY <1>1, <1>2, <1>4 DEF DriverStep

LEMMA CallOutcomeOK ==
  ASSUME DriverInv, NEW d \in Drivers, CallOutcome(d)
  PROVE  DriverStep
<1> DEFINE p == proc[d]
<1>1. /\ IInv /\ ProcsOK /\ ProcOK(p) /\ p.at \in Steps /\ UNCHANGED api
      /\ p.cost \in Nat /\ (p.verb = "complete" => p.file \in Artifacts)
  BY ProcTypes DEF CallOutcome, Calls, Hears, Busy, ProcOK
<1>2. Preserved
  BY <1>1, CompleteSound, FailSound, ReleaseStepSound, HoldSound, StutterSound, ExhaustSound
     DEF CallOutcome, Calls, Hears
<1>3. Goes(d, Dropped(p)) \/ Goes(d, Idle) \/ Goes(d, Dead)
  BY DEF CallOutcome, Calls, Hears
<1>4. ProcsOK'
  BY <1>1, <1>3, DroppedOK, IdleOK, GoesOK
<1>5. QED
  BY <1>1, <1>2, <1>4 DEF DriverStep

LEMMA CallMessageOK ==
  ASSUME DriverInv, NEW d \in Drivers, CallMessage(d)
  PROVE  DriverStep
<1> DEFINE p == proc[d]
           s == p.at
           m == CHOOSE x \in Unsent : TRUE
           kind == IF p.verdict = "check-approve" THEN "decision" ELSE "feedback"
<1>1. /\ IInv /\ ProcsOK /\ ProcOK(p) /\ s \in Steps /\ UNCHANGED api
      /\ p.file \in Artifacts /\ Checker(s) # None
  BY ProcTypes DEF CallMessage, Calls, Hears, Busy, ProcOK
<1>2. /\ m \in MessageIds /\ kind \in Kinds /\ Checker(s) \in Agents /\ Owner(s) \in Agents
  BY <1>1, WorkflowTypes DEF CallMessage, Unsent, Kinds
<1>3. \/ SendMessage(p.rid, m, s, Checker(s), Owner(s), kind, None, p.file)
      \/ UNCHANGED vars \/ Exhaust(p.rid)
  BY DEF CallMessage, Calls, Hears
<1>4. Preserved
  BY <1>1, <1>2, <1>3, SendMessageSound, StutterSound, ExhaustSound
<1>5. Goes(d, [p EXCEPT !.pc = "prepare", !.verb = p.verdict, !.message = m]) \/ Goes(d, Idle)
      \/ Goes(d, Dead)
  BY DEF CallMessage, Calls, Hears
<1>6. p.verdict \notin {"complete", "verdict-message"}
  BY <1>1 DEF ProcOK
<1>7. ProcsOK'
  BY <1>1, <1>5, <1>6, GoesOnToVerb, IdleOK, GoesOK DEF Busy
<1>8. QED
  BY <1>1, <1>4, <1>7 DEF DriverStep

LEMMA CallVerdictOK ==
  ASSUME DriverInv, NEW d \in Drivers, CallVerdict(d)
  PROVE  DriverStep
<1> DEFINE p == proc[d]
<1>1. /\ IInv /\ ProcsOK /\ ProcOK(p) /\ p.at \in Steps /\ UNCHANGED api /\ p.cost \in Nat
  BY ProcTypes DEF CallVerdict, Calls, Hears, Busy, ProcOK
<1>2. Preserved
  BY <1>1, CheckApproveSound, CheckReturnSound, CheckRejectSound, StutterSound, ExhaustSound
     DEF CallVerdict, Calls, Hears
<1>3. Goes(d, Dropped(p)) \/ Goes(d, Idle) \/ Goes(d, Dead)
  BY DEF CallVerdict, Calls, Hears
<1>4. ProcsOK'
  BY <1>1, <1>3, DroppedOK, IdleOK, GoesOK
<1>5. QED
  BY <1>1, <1>2, <1>4 DEF DriverStep

LEMMA DecideOK ==
  ASSUME DriverInv, NEW d \in Drivers, Decide(d)
  PROVE  DriverStep
<1> DEFINE p == proc[d]
           next == [p EXCEPT !.pc = "prepare"]
           file == <<p.at, "ungraded">>
<1>1. /\ IInv /\ ProcsOK /\ ProcOK(p) /\ p.at \in Steps /\ UNCHANGED <<vars, api>>
      /\ file \in Artifacts
  BY ProcTypes, ArtifactsOfSteps DEF Decide, Busy
<1>2. \/ Goes(d, [next EXCEPT !.verb = "complete", !.file = file])
      \/ Goes(d, [next EXCEPT !.verb = "overbudget"])
      \/ Goes(d, [p EXCEPT !.pc = "dispatch"])
  BY DEF Decide
<1> HIDE DEF file
<1>3. /\ ProcOK(next) /\ next.pc = "prepare" /\ next.at \in Steps
      /\ ProcOK([p EXCEPT !.pc = "dispatch"])
  BY <1>1, GoesOnOK DEF Busy, ProcOK, ProcFields
<1> HIDE DEF next
<1>4. /\ ProcOK([next EXCEPT !.verb = "complete", !.file = file])
      /\ ProcOK([next EXCEPT !.verb = "overbudget"])
  BY <1>1, <1>3 DEF ProcOK, ProcFields, Busy
<1>5. ProcsOK'
  BY <1>1, <1>2, <1>3, <1>4, GoesOK
<1>6. QED
  BY <1>1, <1>5, StutterSound DEF DriverStep

LEMMA DispatchOK ==
  ASSUME DriverInv, NEW d \in Drivers, Dispatch(d)
  PROVE  DriverStep
<1> DEFINE p == proc[d]
<1>1. /\ IInv /\ ProcsOK /\ ProcOK(p) /\ p.at \in Steps /\ UNCHANGED <<vars, api>>
  BY ProcTypes DEF Dispatch, Busy
<1>2. Goes(d, [p EXCEPT !.pc = "model"]) \/ Goes(d, [p EXCEPT !.pc = "prepare", !.verb = "fail"])
  BY DEF Dispatch
<1>3. ProcsOK'
  BY <1>1, <1>2, GoesOnOK, GoesOnToVerb, GoesOK DEF Busy
<1>4. QED
  BY <1>1, <1>3, StutterSound DEF DriverStep

LEMMA ReplyOK ==
  ASSUME DriverInv, NEW d \in Drivers, Reply(d)
  PROVE  DriverStep
<1> DEFINE p == proc[d]
           file == <<p.at, "work">>
           then(verb, cost) == [p EXCEPT !.pc = "prepare", !.verb = verb, !.cost = cost, !.file = file]
<1>1. /\ IInv /\ ProcsOK /\ ProcOK(p) /\ p.at \in Steps /\ UNCHANGED api /\ file \in Artifacts
      /\ p.pc = "model"
  BY ProcTypes, ArtifactsOfSteps DEF Reply, Busy
<1>2. Preserved
  BY <1>1, KeepSound, StutterSound DEF Reply
<1>3. Goes(d, Dropped(p)) \/ \E verb \in {"release", "fail", "hold", "complete"}, c \in Nat : Goes(d, then(verb, c))
  <2>1. \A g \in Grades : OutcomeOf(g) \in {"fail", "hold", "complete"}
    BY DEF Grades, OutcomeOf
  <2>2. Costs \subseteq Nat
    BY BoundsAssumption
  <2>3. QED
    BY <2>1, <2>2 DEF Reply, Drops
<1> HIDE DEF file
<1>4. \A verb \in {"release", "fail", "hold", "complete"}, c \in Nat : ProcOK(then(verb, c))
  BY <1>1 DEF ProcOK, ProcFields, Busy
<1> HIDE DEF then
<1>5. ProcsOK'
  BY <1>1, <1>3, <1>4, DroppedOK, GoesOK
<1>6. QED
  BY <1>1, <1>2, <1>5 DEF DriverStep

LEMMA PickCheckOK ==
  ASSUME DriverInv, NEW d \in Drivers, NEW s \in Steps, PickCheck(d, s)
  PROVE  DriverStep
<1> DEFINE rest == proc[d].checks \ {s}
           p == [proc[d] EXCEPT !.checks = rest, !.at = s]
           read == proc[d].snap.step[s].pinned
<1>1. /\ IInv /\ ProcsOK /\ ProcOK(proc[d]) /\ UNCHANGED <<vars, api>>
      /\ proc[d].pc = "pass" /\ s \in proc[d].checks /\ rest \subseteq proc[d].checks
  BY ProcTypes DEF PickCheck
<1>2. Goes(d, [p EXCEPT !.pc = "review", !.read = read]) \/ Goes(d, Dropped(p))
  BY <1>1 DEF PickCheck, ProcOK, ProcFields
<1> HIDE DEF rest, read
<1>3. ProcOK(p) /\ p.at = s /\ p.snap = proc[d].snap /\ p.pc = "pass"
  BY <1>1 DEF ProcOK, ProcFields, Busy
<1>4. Reviewable(p.snap, s)
  BY <1>1, <1>3 DEF ProcOK
<1> HIDE DEF p
<1>5. ProcOK([p EXCEPT !.pc = "review", !.read = read])
  BY <1>3, <1>4 DEF ProcOK, ProcFields, Busy
<1>6. ProcsOK'
  BY <1>1, <1>2, <1>3, <1>5, DroppedOK, GoesOK
<1>7. QED
  BY <1>1, <1>6, StutterSound DEF DriverStep

LEMMA VerdictOK ==
  ASSUME DriverInv, NEW d \in Drivers, Verdict(d)
  PROVE  DriverStep
<1> DEFINE p == proc[d]
           file == <<p.at, ReviewFile(p.snap.step[p.at].reviews)>>
           sent(v, c) == [p EXCEPT !.pc = "prepare", !.verb = "verdict-message", !.verdict = v,
                                   !.cost = c, !.file = file]
           verdicts == {"check-approve", "check-return", "check-reject"}
<1>1. /\ IInv /\ ProcsOK /\ ProcOK(p) /\ p.at \in Steps /\ UNCHANGED api /\ p.pc = "review"
  BY ProcTypes DEF Verdict, Busy
<1>2. Reviewable(p.snap, p.at) /\ file \in Artifacts /\ Checker(p.at) # None
  BY <1>1, ArtifactsOfSteps DEF ProcOK, Reviewable
<1>3. Preserved
  BY <1>1, <1>2, WriteArtifactSound, StutterSound DEF Verdict
<1>4. Goes(d, Dropped(p)) \/ \E v \in verdicts, c \in Nat : Goes(d, sent(v, c))
  BY BoundsAssumption DEF Verdict, Drops
<1> HIDE DEF file
<1>5. \A v \in verdicts, c \in Nat : ProcOK(sent(v, c))
  BY <1>1, <1>2 DEF ProcOK, ProcFields, Busy
<1> HIDE DEF sent
<1>6. ProcsOK'
  BY <1>1, <1>4, <1>5, DroppedOK, GoesOK
<1>7. QED
  BY <1>1, <1>3, <1>6 DEF DriverStep

LEMMA CrashOK ==
  ASSUME DriverInv, NEW d \in Drivers, Crash(d)
  PROVE  DriverStep
<1>1. ProcsOK'
  BY ProcTypes, IdleOK, GoesOK DEF Crash
<1>2. QED
  BY <1>1, ProcTypes, StutterSound DEF Crash, DriverStep

LEMMA DrivesOK ==
  ASSUME DriverInv, NEW d \in Drivers, Drives(d) \/ Crash(d)
  PROVE  DriverStep
BY StartPassOK, PickStepOK, PrepareOK, CallClaimOK, CallTakeOK, CallOverBudgetOK, CallOutcomeOK,
   CallMessageOK, CallVerdictOK, DecideOK, DispatchOK, ReplyOK, PickCheckOK, VerdictOK, CrashOK
   DEF Drives

-----------------------------------------------------------------------------
(* An outside worker's steps.                                               *)

\* Tokens only grow and keep their holder, so what a worker knows of its own
\* stays true whatever anybody does.
LEMMA WorkerKept ==
  ASSUME DriverInv, Preserved, NEW w \in Workers, DOMAIN api'[w] = DOMAIN api[w],
         api'[w].at = api[w].at, api'[w].token = api[w].token,
         api'[w].pc # "free" => api[w].pc # "free"
  PROVE  WorkerOK(w)'
<1> DEFINE a == api[w]
<1>1. /\ DOMAIN a = {"pc", "at", "token", "verb"}
      /\ a.pc # "free" => /\ a.at \in Steps /\ a.token \in Nat \ {0} /\ a.token <= run.seq
                          /\ run.step[a.at].token = a.token => run.step[a.at].holder = w
  BY DEF DriverInv, WorkersOK, WorkerOK
<1>2. run.seq \in Nat /\ run'.seq \in {run.seq, run.seq + 1}
  BY RunTypes DEF DriverInv, Preserved
<1>3. ASSUME a.pc # "free"
      PROVE  /\ a.token <= run'.seq
             /\ run'.step[a.at].token = a.token => run'.step[a.at].holder = w
  <2>1. OldOrNew(run'.step[a.at], run.step[a.at])
    BY <1>1, <1>3 DEF Preserved
  <2>2. a.token \notin {0, run.seq + 1} /\ a.token <= run'.seq
    BY <1>1, <1>2, <1>3
  <2>3. QED
    BY <1>1, <1>3, <2>1, <2>2 DEF OldOrNew
<1>4. QED
  BY <1>1, <1>3 DEF WorkerOK

\* Nor does a worker that goes on with what it holds, or gives it up, learn
\* anything new.
LEMMA WorkersKept ==
  ASSUME DriverInv, Preserved,
         \/ UNCHANGED api
         \/ \E w \in Workers : Works(w, Free)
         \/ \E w \in Workers : \E pc, verb : api[w].pc # "free" /\ Works(w, [api[w] EXCEPT !.pc = pc, !.verb = verb])
         \/ \E w \in Workers : \E pc : api[w].pc # "free" /\ Works(w, [api[w] EXCEPT !.pc = pc])
  PROVE  WorkersOK'
<1>1. DOMAIN api = Workers
  BY DEF DriverInv, WorkersOK
<1>2. CASE UNCHANGED api
  BY <1>1, <1>2, WorkerKept DEF WorkersOK
<1>3. ASSUME NEW w \in Workers, Works(w, Free)
      PROVE  WorkersOK'
  <2>1. WorkerOK(w)'
    BY <1>1, <1>3 DEF Works, Free, WorkerOK
  <2>2. QED
    BY <1>1, <1>3, <2>1, WorkerKept DEF WorkersOK, Works
<1>4. ASSUME NEW w \in Workers, api[w].pc # "free", NEW new, Works(w, new),
             DOMAIN new = DOMAIN api[w], new.at = api[w].at, new.token = api[w].token
      PROVE  WorkersOK'
  <2>1. /\ DOMAIN api' = Workers /\ api'[w] = new
        /\ \A x \in Workers : x # w => api'[x] = api[x]
    BY <1>1, <1>4 DEF Works
  <2>2. QED
    BY <1>4, <2>1, WorkerKept DEF WorkersOK
<1>5. ASSUME NEW w \in Workers, NEW pc, NEW verb, api[w].pc # "free",
             \/ Works(w, [api[w] EXCEPT !.pc = pc, !.verb = verb])
             \/ Works(w, [api[w] EXCEPT !.pc = pc])
      PROVE  WorkersOK'
  <2>1. PICK new : Works(w, new) /\ new \in {[api[w] EXCEPT !.pc = pc, !.verb = verb], [api[w] EXCEPT !.pc = pc]}
    BY <1>5
  <2>2. DOMAIN new = DOMAIN api[w] /\ new.at = api[w].at /\ new.token = api[w].token
    BY <1>5, <2>1 DEF DriverInv, WorkersOK, WorkerOK
  <2>3. QED
    BY <1>4, <1>5, <2>1, <2>2
<1>6. QED
  BY <1>2, <1>3, <1>5

\* The claim an accepted request grants is its caller's.
LEMMA RequestGrants ==
  ASSUME IInv, NEW rid, NEW s \in Steps, NEW actor, NEW holder \in Holders,
         RequestStep(rid, s, actor, holder), run'.step[s].status = "in_progress"
  PROVE  run'.step[s].holder = holder
<1> DEFINE st == run.step[s]
           started == [NewClaim(st, holder) EXCEPT !.status = "in_progress", !.attempts = @ + 1]
           parked == [st EXCEPT !.status = "awaiting_approval"]
<1>1. run \in RunState /\ st \in StepState /\ st.status = "ready" /\ run.step \in [Steps -> StepState]
  BY RunTypes DEF RequestStep, RunState
<1>2. PICK new \in {Stop(run, s, "blocked_human"), Stop(run, s, "blocked_retry_limit"),
                    Put(s, parked), Put(s, started)} : \E gated :
        Mutate(rid, "step.requested", actor, s, new, gated)
  BY DEF RequestStep
<1>3. run' = run \/ run' = [[new EXCEPT !.cycles = @ + 1] EXCEPT !.seq = @ + 1]
  BY <1>2 DEF Mutate, Record, AppendEvent
<1>4. run' = run \/ run'.step[s] = new.step[s]
  BY <1>1, <1>2, <1>3 DEF RunState, Stop, Put
<1>5. \/ new.step[s].status \in {"blocked_human", "blocked_retry_limit", "awaiting_approval"}
      \/ new.step[s].holder = holder
  <2>1. parked.status = "awaiting_approval" /\ started.holder = holder
    BY <1>1 DEF StepState, NewClaim
  <2>2. Put(s, parked).step[s] = parked /\ Put(s, started).step[s] = started
    BY <1>1 DEF Put, RunState
  <2>3. ASSUME NEW why
        PROVE  Stop(run, s, why).step[s].status = why
    BY <1>1 DEF Stop, RunState, StepState
  <2>4. QED
    BY ZenonT(30), <1>2, <2>1, <2>2, <2>3
<1>6. QED
  BY <1>1, <1>4, <1>5

LEMMA WorkerTypes ==
  ASSUME DriverInv, NEW w \in Workers
  PROVE  /\ IInv /\ w \in Holders /\ DOMAIN api = Workers
         /\ api[w].pc # "free" => /\ api[w].at \in Steps /\ api[w].token \in Nat \ {0}
                                  /\ run.step[api[w].at].token = api[w].token =>
                                       run.step[api[w].at].holder = w
BY DriverAssumption DEF DriverInv, WorkersOK, WorkerOK

LEMMA ApiClaimOK ==
  ASSUME DriverInv, NEW w \in Workers, NEW s \in Steps, ApiClaim(w, s)
  PROVE  Preserved /\ WorkersOK'
<1> DEFINE rid == Fresh("step.requested", s)
           held == [Free EXCEPT !.pc = "working", !.at = s, !.token = run'.step[s].token]
<1>1. IInv /\ w \in Holders /\ DOMAIN api = Workers
  BY WorkerTypes
<1>2. Preserved
  BY <1>1, RequestStepSound, ExhaustSound DEF ApiClaim
<1>3. \/ /\ RequestStep(rid, s, Owner(s), w) /\ run'.step[s].status = "in_progress"
         /\ Works(w, held)
      \/ Works(w, Free)
  BY DEF ApiClaim
<1>4. CASE RequestStep(rid, s, Owner(s), w) /\ run'.step[s].status = "in_progress" /\ Works(w, held)
  <2>1. run'.step[s].holder = w /\ w # None
    BY <1>1, <1>4, RequestGrants, DistinctAssumption
  <2>2. run'.step[s].token \in Nat \ {0} /\ run'.step[s].token <= run'.seq
    BY <1>2, <2>1 DEF Preserved, IInv, Sound, TokensOK, ClaimOK, RunState, StepState
  <2>3. /\ api'[w] = held /\ DOMAIN api' = Workers
        /\ \A x \in Workers : x # w => api'[x] = api[x]
    BY <1>1, <1>4 DEF Works
  <2>4. WorkerOK(w)'
    BY <2>1, <2>2, <2>3 DEF WorkerOK, Free
  <2>5. QED
    BY <1>2, <2>3, <2>4, WorkerKept DEF WorkersOK
<1>5. CASE Works(w, Free)
  BY <1>2, <1>5, WorkersKept
<1>6. QED
  BY <1>2, <1>3, <1>4, <1>5

LEMMA ApiCallOK ==
  ASSUME DriverInv, NEW w \in Workers, ApiCall(w)
  PROVE  Preserved /\ WorkersOK'
<1>1. IInv /\ api[w].at \in Steps /\ <<api[w].at, "work">> \in Artifacts /\ 0 \in Nat
  BY WorkerTypes, ArtifactsOfSteps DEF ApiCall
<1>2. Preserved
  BY <1>1, CompleteSound, FailSound, HoldSound, ExhaustSound, StutterSound DEF ApiCall
<1>3. Works(w, Free)
  BY DEF ApiCall
<1>4. QED
  BY <1>2, <1>3, WorkersKept

LEMMA ApiGradedOK ==
  ASSUME DriverInv, NEW w \in Workers, ApiGraded(w)
  PROVE  Preserved /\ WorkersOK'
<1>1. IInv /\ api[w].at \in Steps /\ api[w].pc # "free"
  BY WorkerTypes DEF ApiGraded
<1>2. Preserved
  BY <1>1, KeepSound DEF ApiGraded
<1>3. \E verb : Works(w, [api[w] EXCEPT !.pc = "call", !.verb = verb])
  BY DEF ApiGraded
<1>4. QED
  BY <1>1, <1>2, <1>3, WorkersKept

LEMMA OutsideOK ==
  ASSUME DriverInv, NEW w \in Workers, Outside(w)
  PROVE  Preserved /\ WorkersOK' /\ UNCHANGED proc
<1>1. ASSUME ApiSubmit(w) \/ ApiGiveUp(w)
      PROVE  Preserved /\ WorkersOK'
  <2>1. IInv /\ api[w].pc # "free" /\ UNCHANGED vars
    BY <1>1, WorkerTypes DEF ApiSubmit, ApiGiveUp
  <2>2. Preserved
    BY <2>1, StutterSound
  <2>3. \/ Works(w, Free) \/ Works(w, [api[w] EXCEPT !.pc = "grading"])
        \/ Works(w, [api[w] EXCEPT !.pc = "call", !.verb = "fail"])
    BY <1>1 DEF ApiSubmit, ApiGiveUp
  <2>4. QED
    BY <2>1, <2>2, <2>3, WorkersKept
<1>2. ASSUME ApiHeartbeat(w)
      PROVE  Preserved /\ WorkersOK'
  <2>1. IInv /\ api[w].at \in Steps /\ UNCHANGED api
    BY <1>2, WorkerTypes DEF ApiHeartbeat, driverVars
  <2>2. Preserved
    BY <1>2, <2>1, RenewClaimSound, ExhaustSound DEF ApiHeartbeat
  <2>3. QED
    BY <2>1, <2>2, WorkersKept
<1>3. UNCHANGED proc
  BY DEF Outside, ApiSubmit, ApiGraded, ApiCall, ApiHeartbeat, ApiGiveUp, ApiClaim, driverVars
<1>4. QED
  BY <1>1, <1>2, <1>3, ApiClaimOK, ApiCallOK, ApiGradedOK DEF Outside

-----------------------------------------------------------------------------
(* People, time, and the whole.                                             *)

LEMMA DecidesOK ==
  ASSUME DriverInv, NEW p \in Humans, Decides(p)
  PROVE  Preserved /\ UNCHANGED <<proc, api>>
<1>1. IInv /\ Waiting \subseteq Steps
  BY DEF DriverInv, Waiting
<1>2. UNCHANGED <<proc, api>>
  BY DEF Decides, PersonCancels, PersonExtends, PersonApproves, PersonRejects, PersonExpires, driverVars
<1>3. Preserved
  BY <1>1, CancelRunSound, ExtendBudgetSound, ApproveSound, RejectSound, ExpireClaimSound, ExhaustSound
     DEF Decides, PersonCancels, PersonExtends, PersonApproves, PersonRejects, PersonExpires
<1>4. QED
  BY <1>2, <1>3

LEMMA ProcsKept ==
  ASSUME DriverInv, UNCHANGED proc
  PROVE  ProcsOK'
BY DEF DriverInv, ProcsOK

LEMMA DriverNextOK ==
  ASSUME DriverInv, [DriverNext]_allVars
  PROVE  Preserved /\ DriverInv'
<1>1. ASSUME NEW d \in Drivers, Drives(d) \/ Crash(d)
      PROVE  Preserved /\ DriverInv'
  BY <1>1, DrivesOK, WorkersKept DEF DriverStep, Preserved, DriverInv
<1>2. ASSUME NEW w \in Workers, Outside(w)
      PROVE  Preserved /\ DriverInv'
  BY <1>2, OutsideOK, ProcsKept DEF Preserved, DriverInv
<1>3. ASSUME NEW p \in Humans, Decides(p)
      PROVE  Preserved /\ DriverInv'
  BY <1>3, DecidesOK, ProcsKept, WorkersKept DEF Preserved, DriverInv
<1>4. ASSUME NEW s \in Steps, TimePasses(s)
      PROVE  Preserved /\ DriverInv'
  <2>1. Preserved /\ UNCHANGED <<proc, api>>
    BY <1>4, ClaimLapsesSound DEF TimePasses, driverVars, DriverInv
  <2>2. QED
    BY <2>1, ProcsKept, WorkersKept DEF Preserved, DriverInv
<1>5. CASE UNCHANGED allVars
  <2>1. Preserved /\ UNCHANGED <<proc, api>>
    BY <1>5, StutterSound DEF allVars, DriverInv
  <2>2. QED
    BY <2>1, ProcsKept, WorkersKept DEF Preserved, DriverInv
<1>6. QED
  BY <1>1, <1>2, <1>3, <1>4, <1>5 DEF DriverNext

LEMMA DriverInitOK ==
  ASSUME DriverInit
  PROVE  DriverInv
<1>1. IInv
  BY InitSound DEF DriverInit
<1>2. ProcsOK
  BY IdleOK DEF DriverInit, ProcsOK
<1>3. WorkersOK
  BY DEF DriverInit, WorkersOK, WorkerOK, Free
<1>4. QED
  BY <1>1, <1>2, <1>3 DEF DriverInv

\* Whoever calls, in whatever order, dying wherever: the run stays sound.
THEOREM DriverSoundness == DriverSpec => []DriverInv
<1>1. DriverInv /\ [DriverNext]_allVars => DriverInv'
  BY DriverNextOK
<1>2. QED
  BY <1>1, DriverInitOK, PTL DEF DriverSpec

\* The run's word and its steps' words agree, a claim exists only on work in
\* progress, and nothing starts before its dependencies, also under the
\* drivers' own ids, copies and tokens (RunDriver uses ids Next of RunCore does
\* not offer, so this does not follow from the theorems of RunProofs).
THEOREM DriversKeepRunsSound ==
  DriverSpec => [](TypeOK /\ EndMatchesSteps /\ ClaimsMatchWork /\ DependenciesDone)
<1>1. DriverInv => TypeOK
  BY DEF DriverInv, IInv
<1>2. DriverInv => EndMatchesSteps
  BY DEF DriverInv, IInv, Sound, EndOK, EndMatchesSteps, Done, StatusOf
<1>3. DriverInv => ClaimsMatchWork
  BY DEF DriverInv, IInv, Sound, ClaimOK, TokensOK, ClaimsMatchWork, StatusOf
<1>4. DriverInv => DependenciesDone
  BY DEF DriverInv, IInv, Sound, DepsOK, DependenciesDone, Done, StatusOf
<1>5. QED
  BY <1>1, <1>2, <1>3, <1>4, DriverSoundness, PTL

\* The fencing rule holds of every claim a driver, a worker or a sweep is given.
THEOREM DriversTokensOutrank == DriverSpec => TokensOutrank
<1> DEFINE Rule == \A s, t \in Steps : run'.step[s].token \notin {0, run.step[s].token} =>
                     run'.step[s].token > run.step[t].token /\ run'.step[s].token > run.seq
<1>1. DriverInv /\ [DriverNext]_allVars => [Rule]_vars
  BY DriverNextOK, NewTokenOutranks DEF Outranks, DriverInv
<1>2. TokensOutrank <=> [][Rule]_vars
  BY PTL DEF TokensOutrank
<1> HIDE DEF Rule
<1>3. QED
  BY <1>1, <1>2, DriverSoundness, PTL DEF DriverSpec

\* A worker whose claim went to somebody else changes the run no more: the
\* token it was granted is the step's only while the step is its own.
THEOREM SupersededWorkersChangeNothing == DriverSpec => WorkersWriteTheirOwn
<1> DEFINE Rule == \A w \in Workers :
                     api[w].pc = "call" /\ api'[w] # api[w] /\ run'.seq # run.seq
                       /\ run'.status # "blocked_cycle_limit"
                       => run.step[api[w].at].holder = w
<1>1. ASSUME DriverInv, DriverNext, NEW w \in Workers, api[w].pc = "call",
             api'[w] # api[w], run'.seq # run.seq, run'.status # "blocked_cycle_limit"
      PROVE  run.step[api[w].at].holder = w
  <2> DEFINE s == api[w].at
             t == api[w].token
  <2>1. DOMAIN api = Workers /\ api[w].pc = "call" /\ api'[w] # api[w]
    BY <1>1, WorkerTypes
  <2>2. PICK x \in Workers : Outside(x)
    <3>1. \A d \in Drivers : Drives(d) \/ Crash(d) => UNCHANGED api
      BY <1>1, DrivesOK DEF DriverStep
    <3>2. \A p \in Humans : Decides(p) => UNCHANGED api
      BY <1>1, DecidesOK
    <3>3. \A y \in Steps : TimePasses(y) => UNCHANGED api
      BY DEF TimePasses, driverVars
    <3>4. QED
      BY <1>1, <2>1, <3>1, <3>2, <3>3 DEF DriverNext
  <2>3. ApiCall(w)
    <3>1. ASSUME x # w
          PROVE  api'[w] = api[w]
      BY <2>1, <2>2, <3>1 DEF Outside, ApiSubmit, ApiGraded, ApiCall, ApiHeartbeat, ApiGiveUp,
                              ApiClaim, Works, driverVars
    <3>2. x = w
      BY <2>1, <3>1
    <3>3. QED
      BY <2>1, <2>2, <3>2 DEF Outside, ApiSubmit, ApiGraded, ApiHeartbeat, ApiGiveUp,
                              ApiClaim, driverVars
  <2>4. \/ MayWrite(s, Owner(s), t)
        \/ UNCHANGED vars
        \/ \E rid : Exhaust(rid)
    BY <2>3 DEF ApiCall, Complete, Fail, Hold
  <2>5. \A rid : Exhaust(rid) => run'.status = "blocked_cycle_limit" \/ run' = run
    BY RunTypes, <1>1 DEF Exhaust, Record, AppendEvent, DriverInv, RunState
  <2>6. MayWrite(s, Owner(s), t)
    BY <1>1, <2>4, <2>5 DEF vars
  <2>7. t # None /\ t \in Nat
    BY <1>1, <2>1, WorkerTypes, DistinctAssumption
  <2>8. QED
    BY <1>1, <2>1, <2>6, <2>7, WorkerTypes DEF MayWrite, ClaimAccepts
<1>2. DriverInv /\ [DriverNext]_allVars => [Rule]_allVars
  BY <1>1
<1>3. QED
  BY <1>2, DriverSoundness, PTL DEF DriverSpec, WorkersWriteTheirOwn

-----------------------------------------------------------------------------
(* The books, and the owner's view, under the drivers' calls.              *)

\* A step that leaves the run, its log and its audit trail alone.
LEMMA NoMove ==
  ASSUME UNCHANGED vars \/ \E a \in Artifacts, c \in Contents : WriteArtifact(a, c)
  PROVE  Moves
BY DEF vars, WriteArtifact, Moves

LEMMA KeepMoves ==
  ASSUME NEW s \in Steps, NEW grade, Keep(s, grade)
  PROVE  Moves
BY ArtifactsOfSteps, NoMove DEF Keep

LEMMA DrivesMoves ==
  ASSUME DriverInv, NEW d \in Drivers, Drives(d) \/ Crash(d)
  PROVE  Moves
<1> DEFINE p == proc[d]
<1>1. /\ IInv /\ ProcOK(p) /\ d \in Holders /\ p.cost \in Nat
      /\ p.pc \in Busy => p.at \in Steps
  BY ProcTypes DEF ProcOK
<1>2. CASE \/ StartPass(d) \/ LeaveRun(d) \/ Prepare(d) \/ Decide(d) \/ Dispatch(d) \/ Crash(d)
           \/ \E s \in Steps : PickStep(d, s) \/ PickCheck(d, s)
  BY <1>2, NoMove DEF StartPass, LeaveRun, Prepare, Decide, Dispatch, Crash, PickStep, PickCheck
<1>3. CASE CallClaim(d) \/ CallTake(d) \/ CallOverBudget(d)
  <2>1. p.at \in Steps /\ 0 \in Nat
    BY <1>1, <1>3 DEF CallClaim, CallTake, CallOverBudget, Calls, Hears, Busy
  <2>2. Entered \/ UNCHANGED vars \/ Exhaust(p.rid)
    BY <1>1, <1>3, <2>1, RequestStepEntered, TakeEntered, HoldEntered
       DEF CallClaim, CallTake, CallOverBudget, Calls, Hears, Entered
  <2>3. QED
    BY <2>2, NoMove DEF Moves
<1>4. CASE CallOutcome(d)
  <2>1. p.at \in Steps /\ (p.verb = "complete" => p.file \in Artifacts)
    BY <1>1, <1>4 DEF CallOutcome, Calls, Hears, Busy, ProcOK
  <2>2. Entered \/ UNCHANGED vars \/ Exhaust(p.rid)
    BY <1>1, <1>4, <2>1, CompleteEntered, FailEntered, ReleaseStepEntered, HoldEntered
       DEF CallOutcome, Calls, Hears, Entered
  <2>3. QED
    BY <2>2, NoMove DEF Moves
<1>5. CASE CallVerdict(d)
  <2>1. p.at \in Steps
    BY <1>1, <1>5 DEF CallVerdict, Calls, Hears, Busy
  <2>2. Entered \/ UNCHANGED vars \/ Exhaust(p.rid)
    BY <1>1, <1>5, <2>1, CheckApproveEntered, CheckReturnEntered, CheckRejectEntered
       DEF CallVerdict, Calls, Hears, Entered
  <2>3. QED
    BY <2>2, NoMove DEF Moves
<1>6. CASE CallMessage(d)
  <2> DEFINE s == p.at
             m == CHOOSE x \in Unsent : TRUE
             kind == IF p.verdict = "check-approve" THEN "decision" ELSE "feedback"
  <2>1. s \in Steps /\ p.file \in Artifacts /\ Checker(s) # None
    BY <1>1, <1>6 DEF CallMessage, Calls, Hears, Busy, ProcOK
  <2>2. /\ m \in MessageIds /\ kind \in Kinds /\ Checker(s) \in Agents /\ Owner(s) \in Agents
    BY <1>6, <2>1, WorkflowTypes DEF CallMessage, Unsent, Kinds
  <2>3. \/ SendMessage(p.rid, m, s, Checker(s), Owner(s), kind, None, p.file)
        \/ UNCHANGED vars \/ Exhaust(p.rid)
    BY <1>6 DEF CallMessage, Calls, Hears
  <2>4. QED
    BY <1>1, <2>1, <2>2, <2>3, SendMessageEntered, NoMove DEF Moves, Entered
<1>7. CASE Reply(d)
  <2>1. p.at \in Steps
    BY <1>1, <1>7 DEF Reply, Busy
  <2>2. QED
    BY <1>7, <2>1, KeepMoves, NoMove DEF Reply
<1>8. CASE Verdict(d)
  <2> DEFINE file == <<p.at, ReviewFile(p.snap.step[p.at].reviews)>>
  <2>1. p.at \in Steps /\ file \in Artifacts
    BY <1>1, <1>8, ArtifactsOfSteps DEF Verdict, Busy, ProcOK
  <2>2. UNCHANGED vars \/ \E x \in Contents : WriteArtifact(file, x)
    BY <1>8 DEF Verdict
  <2>3. QED
    BY <2>1, <2>2, NoMove
<1>9. QED
  BY <1>2, <1>3, <1>4, <1>5, <1>6, <1>7, <1>8 DEF Drives

LEMMA OutsideMoves ==
  ASSUME DriverInv, NEW w \in Workers, Outside(w)
  PROVE  Moves
<1>1. /\ IInv /\ w \in Holders /\ 0 \in Nat
      /\ api[w].pc # "free" => api[w].at \in Steps
  BY WorkerTypes
<1>2. CASE ApiSubmit(w) \/ ApiGiveUp(w)
  BY <1>2, NoMove DEF ApiSubmit, ApiGiveUp
<1>3. CASE ApiGraded(w)
  BY <1>1, <1>3, KeepMoves DEF ApiGraded
<1>4. CASE ApiHeartbeat(w)
  BY <1>1, <1>4, RenewClaimEntered, NoMove DEF ApiHeartbeat, Moves, Entered
<1>5. CASE ApiCall(w)
  <2>1. api[w].at \in Steps /\ <<api[w].at, "work">> \in Artifacts
    BY <1>1, <1>5, ArtifactsOfSteps DEF ApiCall
  <2>2. Entered \/ UNCHANGED vars \/ \E rid : Exhaust(rid)
    BY <1>1, <1>5, <2>1, CompleteEntered, FailEntered, HoldEntered DEF ApiCall, Entered
  <2>3. QED
    BY <2>2, NoMove DEF Moves
<1>6. ASSUME NEW s \in Steps, ApiClaim(w, s)
      PROVE  Moves
  BY <1>1, <1>6, RequestStepEntered DEF ApiClaim, Moves, Entered
<1>7. QED
  BY <1>2, <1>3, <1>4, <1>5, <1>6 DEF Outside

LEMMA DecidesMoves ==
  ASSUME DriverInv, NEW p \in Humans, Decides(p)
  PROVE  Moves
<1>1. IInv /\ Waiting \subseteq Steps
  BY DEF DriverInv, Waiting
<1>2. CASE PersonExtends(p)
  BY <1>2 DEF PersonExtends, Moves
<1>3. CASE PersonCancels(p) \/ \E s \in Steps : PersonApproves(s, p) \/ PersonRejects(s, p) \/ PersonExpires(s, p)
  <2>1. Entered \/ \E rid : Exhaust(rid)
    BY <1>1, <1>3, CancelRunEntered, ApproveEntered, RejectEntered, ExpireClaimEntered
       DEF PersonCancels, PersonApproves, PersonRejects, PersonExpires, Entered
  <2>2. QED
    BY <2>1 DEF Moves
<1>4. QED
  BY <1>2, <1>3 DEF Decides

LEMMA DriverMoves ==
  ASSUME DriverInv, [DriverNext]_allVars
  PROVE  Moves
<1>1. ASSUME NEW s \in Steps, TimePasses(s)
      PROVE  Moves
  BY <1>1 DEF TimePasses, Moves
<1>2. CASE UNCHANGED allVars
  BY <1>2, NoMove DEF allVars
<1>3. QED
  BY <1>1, <1>2, DrivesMoves, OutsideMoves, DecidesMoves DEF DriverNext

\* The run's books are in order whoever of them calls, and under whatever ids:
\* attempts, parks, verdicts, audit entries and the ledger.
THEOREM DriversKeepTheBooks ==
  DriverSpec => [](/\ AttemptsAccounted /\ EveryParkDecidedOnce /\ EverySubmissionJudgedOnce
                   /\ GatedTransitionsAudited /\ LedgerBalances)
<1>1. DriverInv /\ DriverInv' /\ Accounts /\ [DriverNext]_allVars => Accounts'
  BY DriverMoves, MovesBooks DEF DriverInv
<1>2. DriverInit => Accounts
  BY InitBooks DEF DriverInit
<1>3. DriverSpec => []Accounts
  BY <1>1, <1>2, DriverSoundness, PTL DEF DriverSpec
<1>4. DriverInv /\ Accounts => /\ AttemptsAccounted /\ EveryParkDecidedOnce
                               /\ EverySubmissionJudgedOnce
                               /\ GatedTransitionsAudited /\ LedgerBalances
  BY AccountsMeaning DEF DriverInv, Accounts
<1>5. QED
  BY <1>3, <1>4, DriverSoundness, PTL

\* Nor does anything they are charged get lost or counted twice: with several
\* drivers, workers and people at one run its bill still is what its planning and
\* its steps cost.
THEOREM DriversKeepTheBill == DriverSpec => []BillAddsUp
<1>1. DriverInv /\ DriverInv' /\ BillAddsUp /\ [DriverNext]_allVars => BillAddsUp'
  BY DriverMoves, MovesBill DEF DriverInv
<1>2. DriverInit => BillAddsUp
  BY InitBill DEF DriverInit
<1>3. QED
  BY <1>1, <1>2, DriverSoundness, PTL DEF DriverSpec

\* So drivers, workers and people together still give the owner the life of a
\* run that RunLifecycle promises.
THEOREM DriversKeepLifecycle == DriverSpec => KeepsLifecycle
<1>1. DriverInv /\ DriverInv' /\ [DriverNext]_allVars => [Lifecycle!Next]_Lifecycle!vars
  BY DriverMoves, MovesLife DEF DriverInv
<1>2. DriverInit => Lifecycle!Init
  BY InitLife DEF DriverInit
<1>3. QED
  BY <1>1, <1>2, DriverSoundness, PTL DEF DriverSpec, KeepsLifecycle, Lifecycle!Spec
-----------------------------------------------------------------------------
(***************************************************************************)
(* One driver at a time, and no outside worker.  Then nobody but the driver*)
(* moves a step that is ready or in progress, or writes a step's files, so *)
(* what it read at the start of its pass is still so when it comes to act  *)
(* on it (Aware), and what was handed over stays as it was graded (InHand).*)
(***************************************************************************)
Awake(p) == p.pc \notin {"idle", "dead"}
Calling(p, verbs) == p.pc \in {"prepare", "call"} /\ p.verb \in verbs
Working(p) == p.pc \in {"decide", "dispatch", "model"} \/ Calling(p, DriverWrites)

\* The copy a pass started from is right about a step.
StillSo(p, r, s) ==
  r.step[s].status = p.snap.step[s].status /\ r.step[s].held = p.snap.step[s].held

TodoOK(p, r) ==
  \A s \in p.todo : r.step[s].status \in {"ready", "in_progress"} /\ StillSo(p, r, s)

\* What a driver may rely on: r the run, files what the files contain, passed
\* the work that was cleared.
Aware(p, r, files, passed) ==
  LET st == r.step[p.at] IN
  /\ TodoOK(p, r)
  /\ p.pc \in Busy => p.at \notin p.todo
  /\ Calling(p, {"claim"}) => st.status = "ready" /\ st.held = p.snap.step[p.at].held
  /\ Calling(p, {"take"}) \/ Working(p) => st.status = "in_progress" /\ st.held = p.snap.step[p.at].held
  /\ p.pc \in {"dispatch", "model"} \/ Calling(p, DriverWrites \ {"complete"}) => st.held # "ungraded"
  /\ Calling(p, {"complete"}) =>
       \/ p.file = <<p.at, "ungraded">> /\ st.held = "ungraded"
       \/ p.file = <<p.at, "work">> /\ <<p.at, files[p.file]>> \in passed
  /\ Calling(p, {"verdict-message"}) => p.verdict \in Verdicts

\* What was handed over was cleared and still is there; held work a person
\* accepted is cleared as it is.
InHand(s, st, files, passed) ==
  /\ st.pinned # None => <<s, st.pinned>> \in passed
  /\ st.held = "ungraded" /\ st.status \notin {"awaiting_approval", "rejected"} =>
       <<s, files[<<s, "ungraded">>]>> \in passed
  /\ st.status \in {"awaiting_check", "completed"} =>
       /\ st.evidence \in {<<s, "work">>, <<s, "ungraded">>}
       /\ st.pinned # None /\ files[st.evidence] = st.pinned

OneAwake == \A d, e \in Drivers : Awake(proc[d]) /\ Awake(proc[e]) => d = e
EachAware == \A d \in Drivers : Awake(proc[d]) => Aware(proc[d], run, disk, cleared)
AllInHand == \A s \in Steps : InHand(s, run.step[s], disk, cleared)
LoneInv == OneAwake /\ EachAware /\ AllInHand

-----------------------------------------------------------------------------
\* What may happen to a step without a driver that relies on it noticing.
Steady(a, b) == a.status \in {"ready", "in_progress"} => b.status = a.status /\ b.held = a.held

LEMMA QuietSteady ==
  ASSUME NEW a, NEW b, Quiet(a, b)
  PROVE  Steady(a, b)
BY DEF Quiet, Kept, SameWork, Steady

LEMMA SteadyTodo ==
  ASSUME NEW p, NEW r, NEW q, TodoOK(p, r), \A x \in p.todo : Steady(r.step[x], q.step[x])
  PROVE  TodoOK(p, q)
BY DEF TodoOK, StillSo, Steady

LEMMA SteadyAware ==
  ASSUME NEW p, ProcOK(p), NEW r, NEW q, NEW files, NEW passed, NEW more, passed \subseteq more,
         Aware(p, r, files, passed), \A x \in Steps : Steady(r.step[x], q.step[x])
  PROVE  Aware(p, q, files, more)
<1>1. TodoOK(p, q)
  BY SteadyTodo DEF Aware, ProcOK
<1>2. p.pc \in Busy => Steady(r.step[p.at], q.step[p.at])
  BY DEF ProcOK
<1>3. QED
  BY <1>1, <1>2 DEF Aware, Steady, Calling, Working, Busy, DriverWrites

LEMMA QuietInHand ==
  ASSUME NEW s, NEW a, NEW b, NEW files, NEW passed, NEW more, passed \subseteq more,
         Quiet(a, b), InHand(s, a, files, passed)
  PROVE  InHand(s, b, files, more)
BY DEF InHand, Quiet, Kept, SameWork

LEMMA TurnInHand ==
  ASSUME NEW s, NEW event, NEW a, NEW b, Turn(event, s, a, b),
         event \notin {"step.approved", "step.completed"},
         NEW files, NEW passed, InHand(s, a, files, passed)
  PROVE  InHand(s, b, files, passed)
<1>1. SameWork(a, b) \/ (event = "step.held" /\ b.status = "awaiting_approval")
  BY DEF Turn, Kept
<1>2. /\ a.status \notin {"awaiting_approval", "rejected"} \/ b.status = "rejected"
      /\ b.status \in {"awaiting_check", "completed"} => a.status = "awaiting_check"
  BY DEF Turn
<1>3. b.evidence = a.evidence /\ b.pinned = a.pinned
  BY DEF Turn, Kept, SameWork
<1>4. QED
  BY <1>1, <1>2, <1>3 DEF InHand, SameWork

\* What a verb that was entered did to the steps.
Stirred(event, target) == \A x \in Steps :
  \/ x = target /\ Turn(event, x, run.step[x], run'.step[x])
  \/ (x # target \/ event \notin Counted) /\ Quiet(run.step[x], run'.step[x])

LEMMA EnteredStirs ==
  ASSUME NEW event, NEW target, EnteredAs(event, target)
  PROVE  disk' = disk /\ (run' = run \/ Stirred(event, target))
<1> PICK rid, actor, new, gated : Booked(rid, event, actor, target, new, gated)
  BY DEF EnteredAs
<1>1. disk' = disk /\ (run' = run \/ run'.step = new.step)
  BY MutateSteps DEF Booked
<1>2. QED
  BY <1>1 DEF Booked, Turned, Stirred

LEMMA ExhaustSteps ==
  ASSUME IInv, NEW rid, Exhaust(rid)
  PROVE  disk' = disk /\ run'.step = run.step
BY RunTypes DEF Exhaust, Record, AppendEvent, RunState

\* An entry of any kind but an approval or a submission leaves what was handed
\* over as it was, and every step but its own as a driver knows it.
LEMMA EnteredInHand ==
  ASSUME AllInHand, NEW event, NEW target, EnteredAs(event, target),
         event \notin {"step.approved", "step.completed"}, cleared' = cleared
  PROVE  AllInHand'
<1>1. disk' = disk /\ (run' = run \/ Stirred(event, target))
  BY EnteredStirs
<1>2. ASSUME NEW x \in Steps
      PROVE  InHand(x, run'.step[x], disk', cleared')
  <2>1. InHand(x, run.step[x], disk, cleared)
    BY DEF AllInHand
  <2>2. CASE run' = run
    BY <1>1, <2>1, <2>2
  <2>3. CASE Turn(event, x, run.step[x], run'.step[x])
    BY <1>1, <2>1, <2>3, TurnInHand
  <2>4. CASE Quiet(run.step[x], run'.step[x])
    BY <1>1, <2>1, <2>4, QuietInHand
  <2>5. QED
    BY <1>1, <2>2, <2>3, <2>4 DEF Stirred
<1>3. QED
  BY <1>2 DEF AllInHand

LEMMA SameInHand ==
  ASSUME AllInHand, run'.step = run.step, disk' = disk, cleared \subseteq cleared'
  PROVE  AllInHand'
<1>1. \A x \in Steps : Quiet(run.step[x], run'.step[x])
  BY DEF Quiet, Kept, Counts, SameWork
<1>2. QED
  BY <1>1, QuietInHand DEF AllInHand

Turning == Counted \cup {"step.failed", "step.released"}

LEMMA EnteredSteady ==
  ASSUME NEW event, NEW target, EnteredAs(event, target)
  PROVE  \A x \in Steps : x # target \/ event \notin Turning => Steady(run.step[x], run'.step[x])
<1>1. run' = run \/ Stirred(event, target)
  BY EnteredStirs
<1>2. CASE run' = run
  BY <1>2 DEF Steady
<1>3. CASE Stirred(event, target)
  <2>1. ASSUME NEW x \in Steps, x # target \/ event \notin Turning
        PROVE  Quiet(run.step[x], run'.step[x])
    BY <1>3, <2>1 DEF Stirred, Turn, Turning, Counted
  <2>2. QED
    BY <2>1, QuietSteady
<1>4. QED
  BY <1>1, <1>2, <1>3

-----------------------------------------------------------------------------
(* The one driver's steps.                                                  *)

LEMMA GoesAware ==
  ASSUME ProcsOK, NEW d \in Drivers, \A e \in Drivers \ {d} : ~Awake(proc[e]),
         NEW q, Goes(d, q), Awake(q) => Aware(q, run', disk', cleared')
  PROVE  OneAwake' /\ EachAware'
<1>1. proc'[d] = q /\ \A e \in Drivers \ {d} : proc'[e] = proc[e]
  BY DEF ProcsOK, Goes
<1>2. \A e \in Drivers : Awake(proc'[e]) => e = d
  BY <1>1
<1>3. QED
  BY <1>1, <1>2 DEF OneAwake, EachAware

LEMMA Gone ==
  ASSUME ProcsOK, NEW d \in Drivers, NEW q, Goes(d, q)
  PROVE  proc'[d] = q /\ Goes(d, proc'[d])
BY DEF ProcsOK, Goes

\* A driver that has a step under its hands is awake, and alone.
LEMMA AloneHere ==
  ASSUME DriverInv, LoneInv, NEW d \in Drivers, Awake(proc[d])
  PROVE  /\ IInv /\ ProcsOK /\ ProcOK(proc[d])
         /\ \A e \in Drivers \ {d} : ~Awake(proc[e])
         /\ Aware(proc[d], run, disk, cleared) /\ AllInHand
         /\ proc[d].pc \in Busy => proc[d].at \in Steps
BY ProcTypes DEF LoneInv, OneAwake, EachAware

LEMMA NotAware ==
  ~Awake(Idle) /\ ~Awake(Dead)
BY DEF Awake, Dead, Idle

LEMMA DroppedAware ==
  ASSUME NEW p, NEW r, TodoOK(p, r), NEW files, NEW passed
  PROVE  Aware(Dropped(p), r, files, passed)
<1>1. CASE p.todo \cup p.checks = {}
  <2>1. LET q == Dropped(p) IN q.pc = "round" /\ q.todo = {}
    BY <1>1 DEF Dropped, Idle
  <2>2. QED
    BY <2>1 DEF Aware, TodoOK, Busy, Calling, Working
<1>2. CASE p.todo \cup p.checks # {}
  <2>1. LET q == Dropped(p) IN q.pc = "pass" /\ q.todo = p.todo /\ q.snap = p.snap
    BY <1>2 DEF Dropped, Idle
  <2>2. TodoOK(Dropped(p), r)
    BY <2>1 DEF TodoOK, StillSo
  <2>3. QED
    BY <2>1, <2>2 DEF Aware, Busy, Calling, Working
<1>3. QED
  BY <1>1, <1>2

\* A call about the driver's own step leaves the rest of its list as it was.
LEMMA CallTodo ==
  ASSUME IInv, NEW p, ProcOK(p), p.pc \in Busy, NEW files, NEW passed,
         Aware(p, run, files, passed), NEW event,
         EnteredAs(event, p.at) \/ UNCHANGED vars \/ \E rid : Exhaust(rid)
  PROVE  TodoOK(p, run')
<1>1. p.todo \subseteq Steps /\ p.at \notin p.todo /\ TodoOK(p, run)
  BY DEF ProcOK, Aware
<1>2. CASE EnteredAs(event, p.at)
  BY <1>1, <1>2, EnteredSteady, SteadyTodo
<1>3. CASE run'.step = run.step
  BY <1>1, <1>3, SteadyTodo DEF Steady
<1>4. QED
  BY <1>2, <1>3, ExhaustSteps DEF vars

\* The next state of a driver that is through with its step after a call.
LEMMA CallDrops ==
  ASSUME DriverInv, LoneInv, NEW d \in Drivers, proc[d].pc \in Busy, NEW event,
         EnteredAs(event, proc[d].at) \/ UNCHANGED vars \/ \E rid : Exhaust(rid),
         Goes(d, Dropped(proc[d])) \/ Goes(d, Idle) \/ Goes(d, Dead)
  PROVE  OneAwake' /\ EachAware'
<1>1. Awake(proc[d])
  BY DEF Awake, Busy
<1>2. TodoOK(proc[d], run')
  BY <1>1, AloneHere, CallTodo
<1>3. QED
  BY <1>1, <1>2, AloneHere, DroppedAware, NotAware, GoesAware

LEMMA StartPassLone ==
  ASSUME Overlap = FALSE, DriverInv, LoneInv, NEW d \in Drivers, StartPass(d) \/ LeaveRun(d) \/ Crash(d)
  PROVE  LoneInv'
<1>1. /\ ProcsOK /\ run' = run /\ disk' = disk /\ cleared' = cleared
  BY DEF StartPass, LeaveRun, Crash, vars, DriverInv
<1>2. \A e \in Drivers \ {d} : ~Awake(proc[e])
  BY DEF StartPass, LeaveRun, Crash, LoneInv, OneAwake, Awake
<1> DEFINE p == [Idle EXCEPT !.pc = "pass", !.snap = run, !.todo = Ready(d), !.checks = Checks]
<1>3. Aware(p, run, disk, cleared)
  <2>1. p.pc = "pass" /\ p.snap = run /\ p.todo = Ready(d)
    BY DEF Idle
  <2> HIDE DEF p
  <2>2. TodoOK(p, run)
    BY <2>1 DEF TodoOK, StillSo, Ready, StatusOf
  <2>3. QED
    BY <2>1, <2>2 DEF Aware, Busy, Calling, Working
<1>4. Goes(d, p) \/ Goes(d, Idle) \/ Goes(d, Dead)
  BY DEF StartPass, LeaveRun, Crash
<1>5. OneAwake' /\ EachAware'
  BY <1>1, <1>2, <1>3, <1>4, NotAware, GoesAware
<1>6. QED
  BY <1>1, <1>5, SameInHand DEF LoneInv

LEMMA PickStepLone ==
  ASSUME DriverInv, LoneInv, NEW d \in Drivers, NEW s \in Steps, PickStep(d, s)
  PROVE  LoneInv'
<1> DEFINE p == proc[d]
<1>1. /\ p.pc = "pass" /\ s \in p.todo /\ Awake(p)
      /\ run' = run /\ disk' = disk /\ cleared' = cleared
  BY DEF PickStep, vars, Awake
<1>2. /\ ProcsOK /\ ProcOK(p) /\ Aware(p, run, disk, cleared) /\ AllInHand
      /\ \A e \in Drivers \ {d} : ~Awake(proc[e])
  BY <1>1, AloneHere
<1> PICK rest : rest = p.todo \ {s}
  OBVIOUS
<1> PICK st : st = p.snap.step[s]
  OBVIOUS
<1>3. \/ st.status = "ready"
         /\ Goes(d, [p EXCEPT !.todo = rest, !.at = s, !.pc = "prepare", !.verb = "claim"])
      \/ st.status = "in_progress"
         /\ Goes(d, [p EXCEPT !.todo = rest, !.at = s, !.pc = "prepare", !.verb = "take"])
      \/ st.status = "in_progress" /\ Goes(d, [p EXCEPT !.todo = rest, !.at = s, !.pc = "decide"])
  <2>1. [p EXCEPT !.todo = @ \ {s}, !.at = s] = [p EXCEPT !.todo = rest, !.at = s]
    BY <1>2 DEF ProcOK, ProcFields
  <2>2. QED
    BY <2>1 DEF PickStep
<1> PICK q : q = proc'[d]
  OBVIOUS
<1>4. /\ Goes(d, q) /\ q.todo = rest /\ q.at = s /\ q.snap = p.snap
      /\ \/ q.pc = "prepare" /\ q.verb = "claim" /\ st.status = "ready"
         \/ q.pc = "prepare" /\ q.verb = "take" /\ st.status = "in_progress"
         \/ q.pc = "decide" /\ st.status = "in_progress"
  <2>1. \/ st.status = "ready" /\ q = [p EXCEPT !.todo = rest, !.at = s, !.pc = "prepare", !.verb = "claim"]
        \/ st.status = "in_progress" /\ q = [p EXCEPT !.todo = rest, !.at = s, !.pc = "prepare", !.verb = "take"]
        \/ st.status = "in_progress" /\ q = [p EXCEPT !.todo = rest, !.at = s, !.pc = "decide"]
    BY <1>2, <1>3, Gone
  <2>2. Goes(d, q)
    BY <1>2, <1>3, Gone
  <2> HIDE DEF p
  <2>3. QED
    BY <1>2, <2>1, <2>2 DEF ProcOK, ProcFields
<1>5. TodoOK(q, run) /\ run.step[s].status = st.status /\ run.step[s].held = st.held
  BY <1>1, <1>2, <1>4 DEF Aware, TodoOK, StillSo
<1>6. Aware(q, run, disk, cleared)
  BY <1>4, <1>5 DEF Aware, Busy, Calling, Working, DriverWrites
<1>7. OneAwake' /\ EachAware'
  BY <1>1, <1>2, <1>4, <1>6, GoesAware
<1>8. QED
  BY <1>1, <1>2, <1>7, SameInHand DEF LoneInv

LEMMA PrepareLone ==
  ASSUME DriverInv, LoneInv, NEW d \in Drivers, Prepare(d)
  PROVE  LoneInv'
<1> DEFINE p == proc[d]
<1>1. p.pc = "prepare" /\ Awake(p) /\ run' = run /\ disk' = disk /\ cleared' = cleared
  BY DEF Prepare, vars, Awake
<1>2. /\ ProcsOK /\ ProcOK(p) /\ Aware(p, run, disk, cleared) /\ AllInHand
      /\ \A e \in Drivers \ {d} : ~Awake(proc[e])
  BY <1>1, AloneHere
<1>3. PICK rid, token : Goes(d, [p EXCEPT !.pc = "call", !.rid = rid, !.token = token])
  BY DEF Prepare
<1> PICK q : q = [p EXCEPT !.pc = "call", !.rid = rid, !.token = token]
  OBVIOUS
<1>4. /\ q.pc = "call" /\ q.verb = p.verb /\ q.at = p.at /\ q.snap = p.snap /\ q.todo = p.todo
      /\ q.file = p.file /\ q.verdict = p.verdict
  BY <1>2 DEF ProcOK, ProcFields
<1>5. Aware(q, run, disk, cleared)
  BY <1>1, <1>2, <1>4 DEF Aware, TodoOK, StillSo, Busy, Calling, Working
<1>6. OneAwake' /\ EachAware'
  BY <1>1, <1>2, <1>3, <1>5, GoesAware
<1>7. QED
  BY <1>1, <1>2, <1>6, SameInHand DEF LoneInv

LEMMA DecideLone ==
  ASSUME DriverInv, LoneInv, NEW d \in Drivers, Decide(d)
  PROVE  LoneInv'
<1> DEFINE p == proc[d]
<1> PICK file : file = <<p.at, "ungraded">>
  OBVIOUS
<1>1. p.pc = "decide" /\ Awake(p) /\ run' = run /\ disk' = disk /\ cleared' = cleared
  BY DEF Decide, vars, Awake
<1>2. /\ ProcsOK /\ ProcOK(p) /\ Aware(p, run, disk, cleared) /\ AllInHand
      /\ \A e \in Drivers \ {d} : ~Awake(proc[e])
  BY <1>1, AloneHere
<1>3. /\ run.step[p.at].status = "in_progress"
      /\ run.step[p.at].held = p.snap.step[p.at].held
  BY <1>1, <1>2 DEF Aware, Working
<1>4. \/ run.step[p.at].held = "ungraded"
         /\ Goes(d, [p EXCEPT !.pc = "prepare", !.verb = "complete", !.file = file])
      \/ run.step[p.at].held # "ungraded"
         /\ Goes(d, [p EXCEPT !.pc = "prepare", !.verb = "overbudget"])
      \/ run.step[p.at].held # "ungraded" /\ Goes(d, [p EXCEPT !.pc = "dispatch"])
  BY <1>3 DEF Decide
<1> PICK q : q = proc'[d]
  OBVIOUS
<1>5. /\ Goes(d, q) /\ q.at = p.at /\ q.snap = p.snap /\ q.todo = p.todo
      /\ \/ /\ run.step[p.at].held = "ungraded"
            /\ q.pc = "prepare" /\ q.verb = "complete" /\ q.file = file
         \/ /\ run.step[p.at].held # "ungraded"
            /\ q.pc = "dispatch" \/ (q.pc = "prepare" /\ q.verb = "overbudget")
  <2>1. \/ /\ run.step[p.at].held = "ungraded"
           /\ q = [p EXCEPT !.pc = "prepare", !.verb = "complete", !.file = file]
        \/ run.step[p.at].held # "ungraded" /\ q = [p EXCEPT !.pc = "prepare", !.verb = "overbudget"]
        \/ run.step[p.at].held # "ungraded" /\ q = [p EXCEPT !.pc = "dispatch"]
    BY <1>2, <1>4, Gone
  <2>2. Goes(d, q)
    BY <1>2, <1>4, Gone
  <2> HIDE DEF p
  <2>3. QED
    BY <1>2, <2>1, <2>2 DEF ProcOK, ProcFields
<1>6. Aware(q, run, disk, cleared)
  BY SMTT(30), <1>1, <1>2, <1>3, <1>5 DEF Aware, TodoOK, StillSo, Busy, Calling, Working, DriverWrites
<1>7. OneAwake' /\ EachAware'
  BY <1>1, <1>2, <1>5, <1>6, GoesAware
<1>8. QED
  BY <1>1, <1>2, <1>7, SameInHand DEF LoneInv

LEMMA DispatchLone ==
  ASSUME DriverInv, LoneInv, NEW d \in Drivers, Dispatch(d)
  PROVE  LoneInv'
<1> DEFINE p == proc[d]
<1>1. p.pc = "dispatch" /\ Awake(p) /\ run' = run /\ disk' = disk /\ cleared' = cleared
  BY DEF Dispatch, vars, Awake
<1>2. /\ ProcsOK /\ ProcOK(p) /\ Aware(p, run, disk, cleared) /\ AllInHand
      /\ \A e \in Drivers \ {d} : ~Awake(proc[e])
  BY <1>1, AloneHere
<1>3. Goes(d, [p EXCEPT !.pc = "model"]) \/ Goes(d, [p EXCEPT !.pc = "prepare", !.verb = "fail"])
  BY DEF Dispatch
<1> PICK q : q = proc'[d]
  OBVIOUS
<1>4. /\ Goes(d, q) /\ q.at = p.at /\ q.snap = p.snap /\ q.todo = p.todo
      /\ q.pc = "model" \/ (q.pc = "prepare" /\ q.verb = "fail")
  <2>1. q = [p EXCEPT !.pc = "model"] \/ q = [p EXCEPT !.pc = "prepare", !.verb = "fail"]
    BY <1>2, <1>3, Gone
  <2>2. Goes(d, q)
    BY <1>2, <1>3, Gone
  <2> HIDE DEF p
  <2>3. QED
    BY <1>2, <2>1, <2>2 DEF ProcOK, ProcFields
<1>5. Aware(q, run, disk, cleared)
  BY <1>1, <1>2, <1>4 DEF Aware, TodoOK, StillSo, Busy, Calling, Working, DriverWrites
<1>6. OneAwake' /\ EachAware'
  BY <1>1, <1>2, <1>4, <1>5, GoesAware
<1>7. QED
  BY <1>1, <1>2, <1>6, SameInHand DEF LoneInv

\* Calls that leave the driver through with its step.
Through(d, event) ==
  /\ proc[d].pc \in Busy /\ cleared' = cleared
  /\ event \notin {"step.approved", "step.completed"}
  /\ EnteredAs(event, proc[d].at) \/ UNCHANGED vars \/ \E rid : Exhaust(rid)
  /\ Goes(d, Dropped(proc[d])) \/ Goes(d, Idle) \/ Goes(d, Dead)

LEMMA ThroughLone ==
  ASSUME DriverInv, LoneInv, NEW d \in Drivers, NEW event, Through(d, event)
  PROVE  LoneInv'
<1>1. AllInHand /\ IInv
  BY DEF LoneInv, DriverInv
<1>2. AllInHand'
  BY <1>1, EnteredInHand, ExhaustSteps, SameInHand DEF Through, vars
<1>3. OneAwake' /\ EachAware'
  BY CallDrops DEF Through
<1>4. QED
  BY <1>2, <1>3 DEF LoneInv

LEMMA CallClaimLone ==
  ASSUME DriverInv, LoneInv, NEW d \in Drivers, CallClaim(d)
  PROVE  LoneInv'
<1> DEFINE p == proc[d]
           s == p.at
           go == [p EXCEPT !.pc = "decide"]
<1> PICK event : event = "step.requested"
  OBVIOUS
<1>1. p.pc = "call" /\ p.verb = "claim" /\ Awake(p) /\ p.pc \in Busy /\ cleared' = cleared
  BY DEF CallClaim, Calls, Hears, Awake, Busy
<1>2. /\ IInv /\ ProcsOK /\ ProcOK(p) /\ Aware(p, run, disk, cleared) /\ AllInHand /\ s \in Steps
      /\ d \in Holders /\ \A e \in Drivers \ {d} : ~Awake(proc[e])
  BY <1>1, AloneHere, ProcTypes
<1>3. CASE EnteredAs(event, s) /\ run'.step[s].status = "in_progress" /\ Goes(d, go)
  <2>1. run.step[s].status = "ready" /\ run.step[s].held = p.snap.step[s].held
    BY <1>1, <1>2 DEF Aware, Calling
  <2>2. disk' = disk /\ Stirred(event, s)
    BY <1>3, <2>1, EnteredStirs
  <2>3. Turn(event, s, run.step[s], run'.step[s])
    BY <1>2, <2>2 DEF Stirred, Counted
  <2>4. run'.step[s].held = p.snap.step[s].held
    BY <1>3, <2>1, <2>3 DEF Turn, SameWork
  <2>5. TodoOK(p, run')
    BY <1>1, <1>2, <1>3, CallTodo
  <2>6. go.pc = "decide" /\ go.at = s /\ go.snap = p.snap /\ go.todo = p.todo
    BY <1>2 DEF ProcOK, ProcFields
  <2> HIDE DEF go, p
  <2>7. Aware(go, run', disk', cleared')
    BY <1>1, <1>2, <1>3, <2>4, <2>5, <2>6
       DEF Aware, TodoOK, StillSo, Busy, Calling, Working
  <2>8. OneAwake' /\ EachAware'
    BY <1>2, <1>3, <2>7, GoesAware
  <2>9. AllInHand'
    BY <1>1, <1>2, <1>3, EnteredInHand
  <2>10. QED
    BY <2>8, <2>9 DEF LoneInv
<1>4. CASE /\ EnteredAs(event, s) \/ UNCHANGED vars \/ \E rid : Exhaust(rid)
           /\ Goes(d, Dropped(p)) \/ Goes(d, Idle) \/ Goes(d, Dead)
  <2>1. Through(d, event)
    BY <1>1, <1>4 DEF Through
  <2>2. QED
    BY <2>1, ThroughLone
<1>5. QED
  <2>1. RequestStep(p.rid, s, Owner(s), d) => EnteredAs(event, s)
    BY <1>2, RequestStepEntered
  <2>2. QED
    BY <2>1, <1>3, <1>4 DEF CallClaim, Calls, Hears

LEMMA CallTakeLone ==
  ASSUME DriverInv, LoneInv, NEW d \in Drivers, CallTake(d)
  PROVE  LoneInv'
<1> DEFINE p == proc[d]
           s == p.at
           go == [p EXCEPT !.pc = "decide", !.taken = TRUE]
<1> PICK event : event = "step.taken"
  OBVIOUS
<1>1. p.pc = "call" /\ p.verb = "take" /\ Awake(p) /\ p.pc \in Busy /\ cleared' = cleared
  BY DEF CallTake, Calls, Hears, Awake, Busy
<1>2. /\ IInv /\ ProcsOK /\ ProcOK(p) /\ Aware(p, run, disk, cleared) /\ AllInHand /\ s \in Steps
      /\ d \in Holders /\ \A e \in Drivers \ {d} : ~Awake(proc[e])
  BY <1>1, AloneHere, ProcTypes
<1>3. CASE (EnteredAs(event, s) \/ UNCHANGED vars) /\ Goes(d, go)
  <2>1. run.step[s].status = "in_progress" /\ run.step[s].held = p.snap.step[s].held
    BY <1>1, <1>2 DEF Aware, Calling
  <2>2. Steady(run.step[s], run'.step[s]) /\ disk' = disk
    BY <1>2, <1>3, EnteredSteady, EnteredStirs DEF vars, Steady, Turning, Counted
  <2>3. run'.step[s].status = "in_progress" /\ run'.step[s].held = p.snap.step[s].held
    BY <2>1, <2>2 DEF Steady
  <2>4. TodoOK(p, run')
    BY <1>1, <1>2, <1>3, CallTodo
  <2>5. go.pc = "decide" /\ go.at = s /\ go.snap = p.snap /\ go.todo = p.todo
    BY <1>2 DEF ProcOK, ProcFields
  <2> HIDE DEF go, p
  <2>6. Aware(go, run', disk', cleared')
    BY <1>1, <1>2, <2>3, <2>4, <2>5 DEF Aware, TodoOK, StillSo, Busy, Calling, Working
  <2>7. OneAwake' /\ EachAware'
    BY <1>2, <1>3, <2>6, GoesAware
  <2>8. AllInHand'
    BY <1>1, <1>2, <1>3, EnteredInHand, SameInHand DEF vars
  <2>9. QED
    BY <2>7, <2>8 DEF LoneInv
<1>4. CASE /\ EnteredAs(event, s) \/ UNCHANGED vars \/ \E rid : Exhaust(rid)
           /\ Goes(d, Dropped(p)) \/ Goes(d, Idle) \/ Goes(d, Dead)
  <2>1. Through(d, event)
    BY <1>1, <1>4 DEF Through
  <2>2. QED
    BY <2>1, ThroughLone
<1>5. QED
  <2>1. Take(p.rid, s, Owner(s), d) => EnteredAs(event, s)
    BY <1>2, TakeEntered
  <2>2. QED
    BY <2>1, <1>3, <1>4 DEF CallTake, Calls, Hears

LEMMA CallOverBudgetLone ==
  ASSUME DriverInv, LoneInv, NEW d \in Drivers, CallOverBudget(d)
  PROVE  LoneInv'
<1> DEFINE p == proc[d]
           s == p.at
           go == [p EXCEPT !.pc = "dispatch"]
<1> PICK event : event = "step.held"
  OBVIOUS
<1>1. p.pc = "call" /\ p.verb = "overbudget" /\ Awake(p) /\ p.pc \in Busy /\ cleared' = cleared
  BY DEF CallOverBudget, Calls, Hears, Awake, Busy
<1>2. /\ IInv /\ ProcsOK /\ ProcOK(p) /\ Aware(p, run, disk, cleared) /\ AllInHand /\ s \in Steps
      /\ \A e \in Drivers \ {d} : ~Awake(proc[e])
  BY <1>1, AloneHere
<1>3. CASE (UNCHANGED vars \/ \E rid : Exhaust(rid)) /\ Goes(d, go)
  <2>1. /\ run.step[s].status = "in_progress" /\ run.step[s].held = p.snap.step[s].held
        /\ run.step[s].held # "ungraded"
    BY <1>1, <1>2 DEF Aware, Calling, Working, DriverWrites
  <2>2. run'.step = run.step /\ disk' = disk
    BY <1>2, <1>3, ExhaustSteps DEF vars
  <2>3. TodoOK(p, run')
    BY <1>1, <1>2, <1>3, CallTodo
  <2>4. go.pc = "dispatch" /\ go.at = s /\ go.snap = p.snap /\ go.todo = p.todo
    BY <1>2 DEF ProcOK, ProcFields
  <2> HIDE DEF go, p
  <2>5. Aware(go, run', disk', cleared')
    BY <1>1, <1>2, <2>1, <2>2, <2>3, <2>4 DEF Aware, TodoOK, StillSo, Busy, Calling, Working
  <2>6. OneAwake' /\ EachAware'
    BY <1>2, <1>3, <2>5, GoesAware
  <2>7. AllInHand'
    BY <1>1, <1>2, <2>2, SameInHand
  <2>8. QED
    BY <2>6, <2>7 DEF LoneInv
<1>4. CASE /\ EnteredAs(event, s) \/ UNCHANGED vars \/ \E rid : Exhaust(rid)
           /\ Goes(d, Dropped(p)) \/ Goes(d, Idle) \/ Goes(d, Dead)
  <2>1. Through(d, event)
    BY <1>1, <1>4 DEF Through
  <2>2. QED
    BY <2>1, ThroughLone
<1>5. QED
  <2>1. Hold(p.rid, s, Owner(s), p.token, "budget", 0) => EnteredAs(event, s)
    BY <1>2, HoldEntered
  <2>2. QED
    BY <2>1, <1>3, <1>4 DEF CallOverBudget, Calls, Hears

\* Work handed over is what was cleared: graded and kept, or accepted as held.
LEMMA HandedOver ==
  ASSUME IInv, NEW s \in Steps, EnteredAs("step.completed", s), run' # run,
         run'.step[s].evidence \in {<<s, "work">>, <<s, "ungraded">>},
         <<s, disk[run'.step[s].evidence]>> \in cleared, cleared' = cleared, AllInHand
  PROVE  AllInHand'
<1> PICK event : event = "step.completed"
  OBVIOUS
<1>1. disk' = disk /\ Stirred(event, s)
  BY EnteredStirs
<1>2. /\ run'.step[s].held = run.step[s].held
      /\ run.step[s].status = "in_progress"
      /\ run'.step[s].pinned = disk[run'.step[s].evidence]
      /\ run'.step[s].evidence \in Artifacts
  BY <1>1 DEF Stirred, Turn, Counted
<1>3. run'.step[s].pinned # None
  BY <1>2, DistinctAssumption DEF IInv, TypeOK
<1>4. InHand(s, run'.step[s], disk', cleared')
  BY <1>1, <1>2, <1>3 DEF AllInHand, InHand
<1>5. ASSUME NEW x \in Steps, x # s
      PROVE  InHand(x, run'.step[x], disk', cleared')
  BY <1>1, <1>5, QuietInHand DEF Stirred, AllInHand
<1>6. QED
  BY <1>4, <1>5 DEF AllInHand

LEMMA CallOutcomeLone ==
  ASSUME DriverInv, LoneInv, NEW d \in Drivers, CallOutcome(d)
  PROVE  LoneInv'
<1> DEFINE p == proc[d]
           s == p.at
<1>1. p.pc = "call" /\ Awake(p) /\ p.pc \in Busy /\ cleared' = cleared
  BY DEF CallOutcome, Calls, Hears, Awake, Busy
<1>2. /\ IInv /\ ProcsOK /\ ProcOK(p) /\ Aware(p, run, disk, cleared) /\ AllInHand /\ s \in Steps
      /\ p.cost \in Nat /\ (p.verb = "complete" => p.file \in Artifacts)
      /\ \A e \in Drivers \ {d} : ~Awake(proc[e])
  BY <1>1, AloneHere DEF ProcOK
<1>3. Goes(d, Dropped(p)) \/ Goes(d, Idle) \/ Goes(d, Dead)
  BY DEF CallOutcome, Calls, Hears
<1>4. CASE UNCHANGED vars \/ \E rid : Exhaust(rid)
  <2> PICK event : event = "step.failed"
    OBVIOUS
  <2>1. Through(d, event)
    BY <1>1, <1>3, <1>4 DEF Through
  <2>2. QED
    BY <2>1, ThroughLone
<1>5. CASE /\ p.verb = "complete"
           /\ Complete(p.rid, s, Owner(s), p.token, p.file, p.cost)
  <2>1. EnteredAs("step.completed", s) /\ (run' = run \/ run'.step[s].evidence = p.file)
    BY <1>2, <1>5, CompleteEntered
  <2>2. OneAwake' /\ EachAware'
    <3> PICK event : event = "step.completed"
      OBVIOUS
    <3>1. QED
      BY <1>1, <1>3, <2>1, CallDrops
  <2>3. /\ p.file \in {<<s, "work">>, <<s, "ungraded">>}
        /\ <<s, disk[p.file]>> \in cleared
    <3>1. /\ run.step[s].status = "in_progress"
          /\ \/ p.file = <<s, "ungraded">> /\ run.step[s].held = "ungraded"
             \/ p.file = <<s, "work">> /\ <<s, disk[p.file]>> \in cleared
      BY <1>1, <1>2, <1>5 DEF Aware, Calling, Working, DriverWrites
    <3>2. InHand(s, run.step[s], disk, cleared)
      BY <1>2 DEF AllInHand
    <3>3. QED
      BY <3>1, <3>2 DEF InHand
  <2>4. CASE run' = run
    <3>1. disk' = disk
      BY <2>1, EnteredStirs
    <3>2. QED
      BY <1>1, <1>2, <2>2, <2>4, <3>1, SameInHand DEF LoneInv
  <2>5. CASE run' # run
    BY <1>1, <1>2, <2>1, <2>2, <2>3, <2>5, HandedOver DEF LoneInv
  <2>6. QED
    BY <2>4, <2>5
<1>6. CASE Fail(p.rid, s, Owner(s), p.token, p.cost)
  <2> PICK event : event = "step.failed"
    OBVIOUS
  <2>1. EnteredAs(event, s)
    BY <1>2, <1>6, FailEntered
  <2>2. Through(d, event)
    BY <1>1, <1>3, <2>1 DEF Through
  <2>3. QED
    BY <2>2, ThroughLone
<1>7. CASE ReleaseStep(p.rid, s, Owner(s), p.token, p.cost)
  <2> PICK event : event = "step.released"
    OBVIOUS
  <2>1. EnteredAs(event, s)
    BY <1>2, <1>7, ReleaseStepEntered
  <2>2. Through(d, event)
    BY <1>1, <1>3, <2>1 DEF Through
  <2>3. QED
    BY <2>2, ThroughLone
<1>8. CASE Hold(p.rid, s, Owner(s), p.token, "ungraded", p.cost)
  <2> PICK event : event = "step.held"
    OBVIOUS
  <2>1. EnteredAs(event, s)
    BY <1>2, <1>8, HoldEntered
  <2>2. Through(d, event)
    BY <1>1, <1>3, <2>1 DEF Through
  <2>3. QED
    BY <2>2, ThroughLone
<1>9. QED
  BY <1>4, <1>5, <1>6, <1>7, <1>8 DEF CallOutcome, Calls, Hears

\* Writing a file of a step that is at work leaves what was handed over alone,
\* and so does writing a review.
LEMMA WrittenInHand ==
  ASSUME IInv, AllInHand, NEW s \in Steps, NEW f, <<s, f>> \in Artifacts, NEW x,
         run' = run, disk' = [disk EXCEPT ![<<s, f>>] = x], cleared \subseteq cleared',
         \/ run.step[s].status = "in_progress" /\ run.step[s].held # "ungraded"
         \/ f \notin {"work", "ungraded"}
  PROVE  AllInHand'
<1> PICK a : a = <<s, f>>
  OBVIOUS
<1>1. \A b \in Artifacts : b # a => disk'[b] = disk[b]
  BY DEF IInv, TypeOK
<1>2. ASSUME NEW y \in Steps
      PROVE  InHand(y, run'.step[y], disk', cleared')
  <2>1. InHand(y, run.step[y], disk, cleared)
    BY DEF AllInHand
  <2>2. <<y, "work">> \in Artifacts /\ <<y, "ungraded">> \in Artifacts
    BY ArtifactsOfSteps
  <2>3. CASE a # <<y, "work">> /\ a # <<y, "ungraded">>
    BY <1>1, <2>1, <2>2, <2>3 DEF InHand
  <2>4. CASE y = s /\ run.step[s].status = "in_progress" /\ run.step[s].held # "ungraded"
    BY <2>1, <2>4 DEF InHand
  <2>5. QED
    BY <2>3, <2>4
<1>3. QED
  BY <1>2 DEF AllInHand

LEMMA ReplyLone ==
  ASSUME DriverInv, LoneInv, NEW d \in Drivers, Reply(d)
  PROVE  LoneInv'
<1> DEFINE p == proc[d]
           s == p.at
<1> PICK file : file = <<s, "work">>
  OBVIOUS
<1> DEFINE then(verb, cost) == [p EXCEPT !.pc = "prepare", !.verb = verb, !.cost = cost, !.file = file]
<1>1. p.pc = "model" /\ Awake(p) /\ p.pc \in Busy
  BY DEF Reply, Awake, Busy
<1>2. /\ IInv /\ ProcsOK /\ ProcOK(p) /\ Aware(p, run, disk, cleared) /\ AllInHand /\ s \in Steps
      /\ \A e \in Drivers \ {d} : ~Awake(proc[e])
  BY <1>1, AloneHere
<1>3. /\ run.step[s].status = "in_progress" /\ run.step[s].held = p.snap.step[s].held
      /\ run.step[s].held # "ungraded" /\ TodoOK(p, run) /\ s \notin p.todo
  BY <1>1, <1>2 DEF Aware, Working
<1>4. \A verb, cost : LET q == then(verb, cost) IN
        /\ q.pc = "prepare" /\ q.verb = verb /\ q.file = file /\ q.at = s /\ q.snap = p.snap
        /\ q.todo = p.todo
  <2> HIDE DEF p
  <2>1. QED
    BY <1>2 DEF ProcOK, ProcFields, s
<1> HIDE DEF then
<1>5. ASSUME NEW verb, NEW cost, run' = run, verb \in {"release", "fail", "hold", "complete"},
             verb = "complete" => <<s, disk'[file]>> \in cleared'
      PROVE  Aware(then(verb, cost), run', disk', cleared')
  <2> PICK q : q = then(verb, cost)
    OBVIOUS
  <2>1. /\ q.pc = "prepare" /\ q.verb = verb /\ q.file = file /\ q.at = s /\ q.snap = p.snap
        /\ q.todo = p.todo
    BY <1>4
  <2> HIDE DEF p, s
  <2>2. file = <<s, "work">>
    OBVIOUS
  <2>3. Aware(q, run', disk', cleared')
    BY <1>3, <1>5, <2>1, <2>2 DEF Aware, TodoOK, StillSo, Busy, Calling, Working, DriverWrites
  <2>4. QED
    BY <2>3
<1>6. ASSUME NEW verb, NEW cost, UNCHANGED <<vars, cleared>>, verb \in {"release", "fail"},
             Goes(d, then(verb, cost))
      PROVE  LoneInv'
  <2>1. run' = run /\ disk' = disk /\ cleared' = cleared
    BY <1>6 DEF vars
  <2>2. Aware(then(verb, cost), run', disk', cleared')
    BY <1>5, <1>6, <2>1
  <2>3. OneAwake' /\ EachAware'
    BY <1>2, <1>6, <2>2, GoesAware
  <2>4. QED
    BY <1>2, <2>1, <2>3, SameInHand DEF LoneInv
<1>7. ASSUME UNCHANGED <<vars, cleared>>, Drops(d)
      PROVE  LoneInv'
  <2> PICK event : event = "step.failed"
    OBVIOUS
  <2>1. Through(d, event)
    BY <1>1, <1>7 DEF Through, Drops
  <2>2. QED
    BY <2>1, ThroughLone
<1>8. ASSUME NEW g \in Grades, NEW c \in Costs, Goes(d, then(OutcomeOf(g), c)), Keep(s, g)
      PROVE  LoneInv'
  <2>1. CASE g = "rejected"
    <3>1. UNCHANGED <<vars, cleared>> /\ OutcomeOf(g) = "fail"
      BY <1>8, <2>1 DEF Keep, OutcomeOf
    <3>2. QED
      BY <1>6, <1>8, <3>1
  <2>2. CASE g = "ungraded"
    <3>1. PICK x \in Contents : /\ run' = run /\ cleared' = cleared
                                /\ disk' = [disk EXCEPT ![<<s, "ungraded">>] = x]
      BY <1>8, <2>2 DEF Keep, WriteArtifact
    <3>2. OutcomeOf(g) = "hold"
      BY <2>2 DEF OutcomeOf
    <3>3. Aware(then(OutcomeOf(g), c), run', disk', cleared')
      BY <1>5, <3>1, <3>2
    <3>4. OneAwake' /\ EachAware'
      BY <1>2, <1>8, <3>3, GoesAware
    <3>5. AllInHand'
      BY <1>2, <1>3, <3>1, ArtifactsOfSteps, WrittenInHand
    <3>6. QED
      BY <3>4, <3>5 DEF LoneInv
  <2>3. CASE g = "meets"
    <3>1. PICK x \in Contents : /\ run' = run /\ cleared' = cleared \cup {<<s, x>>}
                                /\ disk' = [disk EXCEPT ![<<s, "work">>] = x]
      BY <1>8, <2>3 DEF Keep, WriteArtifact
    <3>2. OutcomeOf(g) = "complete"
      BY <2>3 DEF OutcomeOf
    <3>3. disk'[file] = x
      <4>1. file \in Artifacts /\ disk \in [Artifacts -> Contents]
        BY <1>2, ArtifactsOfSteps DEF IInv, TypeOK
      <4>2. disk' = [disk EXCEPT ![file] = x]
        BY <3>1
      <4>3. QED
        BY <4>1, <4>2
    <3>4. Aware(then(OutcomeOf(g), c), run', disk', cleared')
      <4> HIDE DEF p, s
      <4>1. <<s, disk'[file]>> \in cleared'
        BY <3>1, <3>3
      <4>2. QED
        BY <1>5, <3>1, <3>2, <4>1
    <3>5. OneAwake' /\ EachAware'
      BY <1>2, <1>8, <3>4, GoesAware
    <3>6. AllInHand'
      BY <1>2, <1>3, <3>1, ArtifactsOfSteps, WrittenInHand
    <3>7. QED
      BY <3>5, <3>6 DEF LoneInv
  <2>4. QED
    BY <2>1, <2>2, <2>3 DEF Grades, Keep
<1>9. QED
  BY <1>6, <1>7, <1>8 DEF Reply, then

-----------------------------------------------------------------------------
(* The driver as reviewer.                                                  *)

LEMMA PickCheckLone ==
  ASSUME DriverInv, LoneInv, NEW d \in Drivers, NEW s \in Steps, PickCheck(d, s)
  PROVE  LoneInv'
<1> DEFINE p == proc[d]
<1> PICK rest : rest = p.checks \ {s}
  OBVIOUS
<1> DEFINE on == [p EXCEPT !.checks = rest, !.at = s]
<1>1. /\ proc[d].pc = "pass" /\ Awake(p)
      /\ run' = run /\ disk' = disk /\ cleared' = cleared
  BY DEF PickCheck, vars, Awake
<1>2. /\ ProcsOK /\ ProcOK(p) /\ AllInHand /\ \A e \in Drivers \ {d} : ~Awake(proc[e])
  BY <1>1, AloneHere
<1>3. on = [p EXCEPT !.checks = @ \ {s}, !.at = s] /\ on.todo = {} /\ on.pc = "pass"
  BY <1>1, <1>2 DEF PickCheck, ProcOK, ProcFields
<1> PICK read : read = on.snap.step[s].pinned
  OBVIOUS
<1>4. Goes(d, [on EXCEPT !.pc = "review", !.read = read]) \/ Goes(d, Dropped(on))
  BY <1>3 DEF PickCheck
<1>5. [on EXCEPT !.pc = "review", !.read = read].pc = "review"
      /\ [on EXCEPT !.pc = "review", !.read = read].todo = {}
  BY <1>2, <1>3 DEF ProcOK, ProcFields
<1>6. Aware([on EXCEPT !.pc = "review", !.read = read], run', disk', cleared')
  BY <1>5 DEF Aware, TodoOK, Calling, Working
<1>7. Aware(Dropped(on), run', disk', cleared')
  BY <1>3, DroppedAware DEF TodoOK
<1>8. OneAwake' /\ EachAware'
  BY <1>2, <1>4, <1>6, <1>7, GoesAware
<1>9. QED
  BY <1>1, <1>2, <1>8, SameInHand DEF LoneInv

LEMMA VerdictLone ==
  ASSUME DriverInv, LoneInv, NEW d \in Drivers, Verdict(d)
  PROVE  LoneInv'
<1> DEFINE p == proc[d]
           s == p.at
           n == p.snap.step[s].reviews
<1> PICK file : file = <<s, ReviewFile(n)>>
  OBVIOUS
<1>1. p.pc = "review" /\ Awake(p) /\ p.pc \in Busy /\ cleared' = cleared
  BY DEF Verdict, Awake, Busy
<1>2. /\ IInv /\ ProcsOK /\ ProcOK(p) /\ Aware(p, run, disk, cleared) /\ AllInHand /\ s \in Steps
      /\ \A e \in Drivers \ {d} : ~Awake(proc[e])
  BY <1>1, AloneHere
<1>3. /\ file \in Artifacts /\ ReviewFile(n) \notin {"work", "ungraded"}
  <2>1. Reviewable(p.snap, s)
    BY <1>1, <1>2 DEF ProcOK
  <2>2. n \in 0..MaxReviews(s) /\ MaxReviews(s) \in 0..3
    BY <1>2, <2>1, WorkflowTypes, WorkflowAssumption DEF Reviewable, ValidWorkflow, MaxReviews
  <2>3. n = 0 \/ n = 1 \/ n = 2 \/ n = 3
    BY <2>2
  <2> HIDE DEF n, s
  <2>4. ReviewFile(n) \notin {"work", "ungraded"}
    BY <2>3 DEF ReviewFile
  <2>5. QED
    BY <1>2, <2>1, <2>4, ArtifactsOfSteps DEF n, s
<1>4. CASE Drops(d) /\ UNCHANGED vars
  <2> PICK event : event = "step.failed"
    OBVIOUS
  <2>1. Through(d, event)
    BY <1>1, <1>4 DEF Through, Drops
  <2>2. QED
    BY <2>1, ThroughLone
<1>5. ASSUME NEW v \in Verdicts, NEW c, NEW x, WriteArtifact(file, x),
             Goes(d, [p EXCEPT !.pc = "prepare", !.verb = "verdict-message", !.verdict = v,
                               !.cost = c, !.file = file])
      PROVE  LoneInv'
  <2> PICK q : q = [p EXCEPT !.pc = "prepare", !.verb = "verdict-message", !.verdict = v,
                             !.cost = c, !.file = file]
    OBVIOUS
  <2>1. q.pc = "prepare" /\ q.verb = "verdict-message" /\ q.verdict = v /\ q.at = p.at
        /\ q.todo = p.todo /\ q.snap = p.snap
    <3> HIDE DEF p
    <3>1. QED
      BY <1>2 DEF ProcOK, ProcFields
  <2>2. run' = run /\ disk' = [disk EXCEPT ![<<s, ReviewFile(n)>>] = x]
    BY <1>5 DEF WriteArtifact
  <2>3. TodoOK(p, run) /\ p.at \notin p.todo
    BY <1>1, <1>2 DEF Aware
  <2>4. Aware(q, run', disk', cleared')
    <3> HIDE DEF p, s, n
    <3>1. QED
      BY <1>5, <2>1, <2>2, <2>3
         DEF Aware, TodoOK, StillSo, Calling, Working, Busy, DriverWrites
  <2>5. OneAwake' /\ EachAware'
    BY <1>2, <1>5, <2>4, GoesAware
  <2>6. AllInHand'
    BY <1>1, <1>2, <1>3, <2>2, WrittenInHand
  <2>7. QED
    BY <2>5, <2>6 DEF LoneInv
<1>6. QED
  BY <1>4, <1>5 DEF Verdict, Verdicts

LEMMA CallMessageLone ==
  ASSUME DriverInv, LoneInv, NEW d \in Drivers, CallMessage(d)
  PROVE  LoneInv'
<1> DEFINE p == proc[d]
           s == p.at
           kind == IF p.verdict = "check-approve" THEN "decision" ELSE "feedback"
<1> PICK m : m = CHOOSE x \in Unsent : TRUE
  OBVIOUS
<1> PICK event : event = "message.sent"
  OBVIOUS
<1>1. p.pc = "call" /\ p.verb = "verdict-message" /\ Awake(p) /\ p.pc \in Busy /\ cleared' = cleared
  BY DEF CallMessage, Calls, Hears, Awake, Busy
<1>2. /\ IInv /\ ProcsOK /\ ProcOK(p) /\ Aware(p, run, disk, cleared) /\ AllInHand /\ s \in Steps
      /\ p.file \in Artifacts /\ Checker(s) # None
      /\ \A e \in Drivers \ {d} : ~Awake(proc[e])
  BY <1>1, AloneHere DEF ProcOK
<1>3. /\ m \in MessageIds /\ kind \in Kinds /\ Checker(s) \in Agents /\ Owner(s) \in Agents
  BY <1>2, WorkflowTypes DEF CallMessage, Unsent, Kinds
<1>4. \/ SendMessage(p.rid, m, s, Checker(s), Owner(s), kind, None, p.file)
      \/ UNCHANGED vars \/ Exhaust(p.rid)
  BY DEF CallMessage, Calls, Hears
<1>5. EnteredAs(event, m) \/ UNCHANGED vars \/ Exhaust(p.rid)
  BY <1>2, <1>3, <1>4, SendMessageEntered
<1>6. /\ AllInHand' /\ \A x \in Steps : Steady(run.step[x], run'.step[x])
  BY <1>1, <1>2, <1>5, EnteredInHand, EnteredSteady, ExhaustSteps, SameInHand
     DEF vars, Steady, Turning, Counted
<1> PICK q : q = [p EXCEPT !.pc = "prepare", !.verb = p.verdict, !.message = m]
  OBVIOUS
<1>7. Goes(d, q) \/ Goes(d, Idle) \/ Goes(d, Dead)
  BY DEF CallMessage, Calls, Hears
<1>8. q.pc = "prepare" /\ q.verb = p.verdict /\ q.at = s /\ q.todo = p.todo /\ q.snap = p.snap
  BY <1>2 DEF ProcOK, ProcFields
<1>9. p.verdict \in Verdicts /\ TodoOK(p, run) /\ s \notin p.todo
  BY <1>1, <1>2 DEF Aware, Calling
<1>10. TodoOK(q, run')
  <2>1. TodoOK(p, run')
    BY <1>2, <1>6, <1>9, SteadyTodo DEF ProcOK
  <2>2. QED
    BY <1>8, <2>1 DEF TodoOK, StillSo
<1> HIDE DEF p, s
<1>11. Aware(q, run', disk', cleared')
  BY <1>8, <1>9, <1>10 DEF Aware, Calling, Working, DriverWrites, Verdicts
<1>12. OneAwake' /\ EachAware'
  BY <1>2, <1>7, <1>11, NotAware, GoesAware
<1>13. QED
  BY <1>6, <1>12 DEF LoneInv

LEMMA CallVerdictLone ==
  ASSUME DriverInv, LoneInv, NEW d \in Drivers, CallVerdict(d)
  PROVE  LoneInv'
<1> DEFINE p == proc[d]
           s == p.at
<1>1. p.pc = "call" /\ Awake(p) /\ p.pc \in Busy /\ cleared' = cleared
  BY DEF CallVerdict, Calls, Hears, Awake, Busy
<1>2. IInv /\ s \in Steps /\ p.cost \in Nat
  BY <1>1, AloneHere DEF ProcOK
<1>3. Goes(d, Dropped(p)) \/ Goes(d, Idle) \/ Goes(d, Dead)
  BY DEF CallVerdict, Calls, Hears
<1>4. \/ EnteredAs("check.approved", s) \/ EnteredAs("check.returned", s)
      \/ EnteredAs("check.rejected", s) \/ UNCHANGED vars \/ \E rid : Exhaust(rid)
  BY <1>2, CheckApproveEntered, CheckReturnEntered, CheckRejectEntered DEF CallVerdict, Calls, Hears
<1>5. \E event : Through(d, event)
  <2>1. ASSUME NEW event \in {"check.approved", "check.returned", "check.rejected"},
               EnteredAs(event, s) \/ UNCHANGED vars \/ \E rid : Exhaust(rid)
        PROVE  Through(d, event)
    BY <1>1, <1>3, <2>1 DEF Through
  <2>2. QED
    BY <1>4, <2>1
<1>6. QED
  BY <1>5, ThroughLone

-----------------------------------------------------------------------------
(* People, time, and the whole.                                             *)

\* Whatever leaves every step that is ready or at work alone leaves the driver
\* as aware as it was.
LEMMA OthersAware ==
  ASSUME DriverInv, LoneInv, UNCHANGED proc, disk' = disk, cleared \subseteq cleared',
         \A x \in Steps : Steady(run.step[x], run'.step[x])
  PROVE  OneAwake' /\ EachAware'
<1>1. \A d \in Drivers : ProcOK(proc[d])
  BY DEF DriverInv, ProcsOK
<1>2. ASSUME NEW d \in Drivers, Awake(proc[d])
      PROVE  Aware(proc[d], run', disk', cleared')
  BY <1>1, <1>2, SteadyAware DEF LoneInv, EachAware
<1>3. QED
  BY <1>2 DEF LoneInv, OneAwake, EachAware

LEMMA ApprovesLone ==
  ASSUME DriverInv, LoneInv, NEW p \in Humans, NEW s \in Steps, PersonApproves(s, p)
  PROVE  LoneInv'
<1> PICK rid : rid = DecisionId(s, "approve", "step.approved")
  OBVIOUS
<1> PICK event : event = "step.approved"
  OBVIOUS
<1>1. IInv /\ AllInHand /\ UNCHANGED proc
  BY DEF PersonApproves, DriverInv, LoneInv
<1>2. CASE Exhaust(rid) /\ cleared' = cleared
  <2>1. disk' = disk /\ run'.step = run.step
    BY <1>1, <1>2, ExhaustSteps
  <2>2. QED
    BY <1>1, <1>2, <2>1, SameInHand, OthersAware DEF Steady, LoneInv
<1>3. CASE /\ Approve(rid, s, p)
           /\ cleared' = IF run.step[s].held = "ungraded" /\ Survived
                         THEN cleared \cup {<<s, disk[<<s, "ungraded">>]>>} ELSE cleared
  <2>1. /\ run.step[s].status = "awaiting_approval" /\ EnteredAs(event, s)
        /\ cleared \subseteq cleared'
    <3>1. run \in RunState
      BY <1>1, RunTypes DEF DriverInv
    <3>2. run.step[s] \in StepState
      BY <3>1 DEF RunState
    <3>3. run.step[s].status = "awaiting_approval"
      BY <1>3, <3>2 DEF Approve, NoClaim, StepState
    <3>4. EnteredAs(event, s)
      BY <1>1, <1>3, ApproveEntered
    <3>5. cleared \subseteq cleared'
      BY <1>3
    <3>6. QED
      BY <3>3, <3>4, <3>5
  <2>2. disk' = disk /\ (run' = run \/ (Stirred(event, s) /\ Survived))
    <3>1. run' = run \/ Survived
      BY <1>3 DEF Approve, Mutate, Record, Survived
    <3>2. QED
      BY <2>1, <3>1, EnteredStirs
  <2>3. OneAwake' /\ EachAware'
    <3>1. \A x \in Steps : Steady(run.step[x], run'.step[x])
      BY <2>1, EnteredSteady DEF Steady
    <3>2. QED
      BY <1>1, <2>1, <2>2, <3>1, OthersAware
  <2>4. CASE run' = run
    BY <1>1, <2>1, <2>2, <2>3, <2>4, SameInHand DEF LoneInv
  <2>5. CASE Stirred(event, s) /\ Survived
    <3>1. ASSUME NEW x \in Steps, x # s
          PROVE  InHand(x, run'.step[x], disk', cleared')
      BY <1>1, <2>1, <2>2, <2>5, <3>1, QuietInHand DEF Stirred, AllInHand
    <3>2. Turn(event, s, run.step[s], run'.step[s])
      BY <2>5 DEF Stirred, Counted
    <3>3. InHand(s, run'.step[s], disk', cleared')
      BY <1>1, <1>3, <2>1, <2>2, <3>2 DEF Turn, InHand, AllInHand
    <3>4. QED
      BY <2>3, <3>1, <3>3 DEF AllInHand, LoneInv
  <2>6. QED
    BY <2>2, <2>4, <2>5
<1>4. QED
  BY <1>2, <1>3 DEF PersonApproves

LEMMA DecidesLone ==
  ASSUME DriverInv, LoneInv, NEW p \in Humans, Decides(p)
  PROVE  LoneInv'
<1>1. IInv /\ AllInHand /\ Waiting \subseteq Steps
  BY DEF DriverInv, LoneInv, Waiting
<1>2. ASSUME UNCHANGED <<proc, cleared>>, NEW event, NEW target, EnteredAs(event, target),
             event # "step.approved", event # "step.completed",
             event \notin Turning \/ run.step[target].status = "awaiting_approval"
      PROVE  LoneInv'
  <2>1. \A x \in Steps : Steady(run.step[x], run'.step[x])
    BY <1>2, EnteredSteady DEF Steady
  <2>2. disk' = disk
    BY <1>2, EnteredStirs
  <2>3. AllInHand'
    BY <1>1, <1>2, EnteredInHand
  <2>4. QED
    BY <1>2, <2>1, <2>2, <2>3, OthersAware DEF LoneInv
<1>3. ASSUME UNCHANGED <<proc, cleared>>, run'.step = run.step, disk' = disk
      PROVE  LoneInv'
  BY <1>1, <1>3, SameInHand, OthersAware DEF Steady, LoneInv
<1>4. CASE PersonExtends(p)
  <2>1. run'.step = run.step /\ disk' = disk
    BY <1>4, RunTypes, <1>1 DEF PersonExtends, ExtendBudget, Record, AppendEvent, RunState
  <2>2. QED
    BY <1>3, <1>4, <2>1 DEF PersonExtends, driverVars
<1>5. CASE PersonCancels(p)
  <2> PICK event : event = "run.cancelled"
    OBVIOUS
  <2>1. event \notin Turning /\ UNCHANGED <<proc, cleared>>
    BY <1>5 DEF Turning, Counted, PersonCancels, driverVars
  <2>2. EnteredAs(event, "run") \/ \E rid : Exhaust(rid)
    BY <1>1, <1>5, CancelRunEntered DEF PersonCancels
  <2>3. QED
    BY <1>1, <1>2, <1>3, <2>1, <2>2, ExhaustSteps
<1>6. ASSUME NEW s \in Steps, PersonRejects(s, p)
      PROVE  LoneInv'
  <2> PICK event : event = "step.rejected"
    OBVIOUS
  <2>1. run.step[s].status = "awaiting_approval" /\ UNCHANGED <<proc, cleared>>
    BY <1>6 DEF PersonRejects, Waiting, StatusOf, driverVars
  <2>2. EnteredAs(event, s) \/ \E rid : Exhaust(rid)
    BY <1>1, <1>6, RejectEntered DEF PersonRejects
  <2>3. QED
    BY <1>1, <1>2, <1>3, <2>1, <2>2, ExhaustSteps
<1>7. ASSUME NEW s \in Steps, PersonExpires(s, p)
      PROVE  LoneInv'
  <2> PICK event : event = "claim.expired"
    OBVIOUS
  <2>1. event \notin Turning /\ UNCHANGED <<proc, cleared>>
    BY <1>7 DEF Turning, Counted, PersonExpires, driverVars
  <2>2. EnteredAs(event, s) \/ \E rid : Exhaust(rid)
    BY <1>1, <1>7, ExpireClaimEntered DEF PersonExpires
  <2>3. QED
    BY <1>1, <1>2, <1>3, <2>1, <2>2, ExhaustSteps
<1>8. QED
  BY <1>4, <1>5, <1>6, <1>7, ApprovesLone DEF Decides

LEMMA LapsesLone ==
  ASSUME DriverInv, LoneInv, NEW s \in Steps, TimePasses(s)
  PROVE  LoneInv'
<1>1. /\ run \in RunState /\ run.step \in [Steps -> StepState]
      /\ run' = [run EXCEPT !.step[s].live = FALSE]
      /\ UNCHANGED <<disk, proc, cleared>>
  BY RunTypes DEF TimePasses, ClaimLapses, driverVars, DriverInv, RunState
<1>2. \A x \in Steps : Quiet(run.step[x], run'.step[x])
  BY <1>1 DEF RunState, StepState, Quiet, Kept, Counts, SameWork
<1>3. AllInHand'
  <2>1. \A x \in Steps : InHand(x, run.step[x], disk, cleared)
    BY DEF LoneInv, AllInHand
  <2>2. \A x \in Steps : InHand(x, run'.step[x], disk', cleared')
    <3>1. disk' = disk /\ cleared \subseteq cleared'
      BY <1>1
    <3>2. TAKE x \in Steps
    <3>3. Quiet(run.step[x], run'.step[x]) /\ InHand(x, run.step[x], disk, cleared)
      BY <1>2, <2>1
    <3>4. InHand(x, run'.step[x], disk, cleared')
      BY <3>1, <3>3, QuietInHand
    <3>5. QED
      BY <3>1, <3>4
  <2>3. QED
    BY <2>2 DEF AllInHand
<1>4. QED
  BY <1>1, <1>2, <1>3, QuietSteady, OthersAware DEF LoneInv

LEMMA LoneNext ==
  ASSUME Overlap = FALSE, Workers = {}, DriverInv, LoneInv, [DriverNext]_allVars
  PROVE  LoneInv'
<1>1. ASSUME NEW d \in Drivers, Drives(d) \/ Crash(d)
      PROVE  LoneInv'
  BY <1>1, StartPassLone, PrepareLone, CallClaimLone, CallTakeLone, DecideLone, CallOverBudgetLone,
     DispatchLone, ReplyLone, CallOutcomeLone, VerdictLone, CallMessageLone, CallVerdictLone,
     PickStepLone, PickCheckLone DEF Drives
<1>2. CASE UNCHANGED allVars
  <2>1. UNCHANGED <<run, disk, proc, cleared>>
    BY <1>2 DEF allVars, vars
  <2>2. QED
    BY <2>1, SameInHand, OthersAware DEF Steady, LoneInv
<1>3. QED
  BY <1>1, <1>2, DecidesLone, LapsesLone DEF DriverNext

LEMMA LoneInit ==
  ASSUME DriverInit
  PROVE  LoneInv
<1>1. \A d \in Drivers : proc[d] = Idle
  BY DEF DriverInit
<1>2. ASSUME NEW s \in Steps
      PROVE  InHand(s, run.step[s], disk, cleared)
  <2>1. PICK planned \in Costs : run = CreateRun(planned)
    BY DEF DriverInit, Init
  <2>2. run.step[s] = NewStep(s)
    BY <2>1 DEF CreateRun
  <2>3. QED
    BY <2>2 DEF NewStep, InHand
<1>3. QED
  BY <1>1, <1>2, NotAware DEF LoneInv, OneAwake, EachAware, AllInHand

\* What a lone driver knows and what it has handed over, for as long as it lives
\* and after the next one took over.
THEOREM LoneDriverKnows ==
  ASSUME Overlap = FALSE, Workers = {}
  PROVE  DriverSpec => []LoneInv
<1>1. DriverInv /\ LoneInv /\ [DriverNext]_allVars => LoneInv'
  BY LoneNext
<1>2. DriverInit => LoneInv
  BY LoneInit
<1>3. QED
  BY <1>1, <1>2, DriverSoundness, PTL DEF DriverSpec

\* Where one driver runs at a time and no outside worker does, everything that
\* was handed over passed its grade or was accepted by a person, whoever dies
\* and whatever people decide in between.
THEOREM LoneDriverClears ==
  ASSUME Overlap = FALSE, Workers = {}
  PROVE  DriverSpec => []OnlyClearedWork
<1>1. LoneInv => OnlyClearedWork
  BY DEF LoneInv, AllInHand, InHand, OnlyClearedWork
<1>2. QED
  BY <1>1, LoneDriverKnows, PTL

\* There, too, evidence stays what it was when it was pinned: no file of a step
\* that waits for a check or is done is written again.
THEOREM LoneDriverLeavesEvidence ==
  ASSUME Overlap = FALSE, Workers = {}
  PROVE  DriverSpec => []EvidenceStays
<1>1. LoneInv => EvidenceStays
  BY DEF LoneInv, AllInHand, InHand, EvidenceStays, SubmissionIntact, StatusOf
<1>2. QED
  BY <1>1, LoneDriverKnows, PTL
-----------------------------------------------------------------------------
(***************************************************************************)
(* What a lone reviewer judges.  It reads a submission, and minutes and    *)
(* two calls later applies its verdict to whatever the step then has.  A   *)
(* submission leaves "awaiting_check" by a verdict only, and nothing pins  *)
(* another while it is there; so where one driver runs at a time the       *)
(* verdict is about what was read, whatever outside workers, people and    *)
(* deaths do in between.                                                   *)
(***************************************************************************)
Reading(p) == p.pc = "review" \/ Calling(p, Verdicts \cup {"verdict-message"})
Unjudged(st, pin) == st.status = "awaiting_check" /\ st.pinned = pin

\* A driver's submissions to review are the run's, and so is the one at hand.
Reads(p, r) ==
  /\ \A s \in p.checks : Unjudged(r.step[s], p.snap.step[s].pinned)
  /\ Reading(p) => Unjudged(r.step[p.at], p.read) /\ p.at \notin p.checks
  /\ Calling(p, {"verdict-message"}) => p.verdict \in Verdicts

EachReads == \A d \in Drivers : Awake(proc[d]) => Reads(proc[d], run)
ReaderInv == OneAwake /\ EachReads

\* What may happen to a step without a reviewer that relies on it noticing.
Waits(a, b) == \A pin : Unjudged(a, pin) => Unjudged(b, pin)
Judgements == {"check.approved", "check.returned", "check.rejected"}

LEMMA EnteredWaits ==
  ASSUME NEW event, NEW target, EnteredAs(event, target), NEW x \in Steps,
         x # target \/ event \notin Judgements
  PROVE  Waits(run.step[x], run'.step[x])
<1>1. run' = run \/ Stirred(event, target)
  BY EnteredStirs
<1>2. CASE run' = run
  BY <1>2 DEF Waits
<1>3. CASE Quiet(run.step[x], run'.step[x])
  BY <1>3 DEF Quiet, Kept, SameWork, Waits, Unjudged
<1>4. CASE event \notin Judgements /\ Turn(event, x, run.step[x], run'.step[x])
  <2>1. run.step[x].status # "awaiting_check"
    BY <1>4 DEF Turn, Judgements
  <2>2. QED
    BY <2>1 DEF Waits, Unjudged
<1>5. QED
  BY <1>1, <1>2, <1>3, <1>4 DEF Stirred

\* A step of anybody that judges nothing.
NoVerdict == \A x \in Steps : Waits(run.step[x], run'.step[x])

LEMMA SameWaits ==
  ASSUME run'.step = run.step
  PROVE  NoVerdict
BY DEF NoVerdict, Waits

LEMMA CalledWaits ==
  ASSUME IInv, NEW event, event \notin Judgements, NEW target,
         EnteredAs(event, target) \/ UNCHANGED vars \/ \E rid : Exhaust(rid)
  PROVE  NoVerdict
BY EnteredWaits, ExhaustSteps, SameWaits DEF NoVerdict, vars

LEMMA KeepWaits ==
  ASSUME NEW s, NEW grade, Keep(s, grade)
  PROVE  NoVerdict
BY SameWaits DEF Keep, WriteArtifact, vars

-----------------------------------------------------------------------------
(* The one driver's steps.                                                  *)

\* Whoever is alone may go on to any state that reads the run right.
LEMMA GoesReads ==
  ASSUME DriverInv, ReaderInv, NEW d \in Drivers, \A e \in Drivers \ {d} : ~Awake(proc[e]),
         NEW q, Goes(d, q), Awake(q) => Reads(q, run')
  PROVE  ReaderInv'
<1>1. proc'[d] = q /\ \A e \in Drivers \ {d} : proc'[e] = proc[e]
  BY DEF DriverInv, ProcsOK, Goes
<1>2. \A e \in Drivers : Awake(proc'[e]) => e = d
  BY <1>1
<1>3. QED
  BY <1>1, <1>2 DEF ReaderInv, OneAwake, EachReads

LEMMA AloneReading ==
  ASSUME DriverInv, ReaderInv, NEW d \in Drivers, Awake(proc[d])
  PROVE  /\ IInv /\ ProcOK(proc[d]) /\ Reads(proc[d], run)
         /\ \A e \in Drivers \ {d} : ~Awake(proc[e])
         /\ proc[d].pc \in Busy => proc[d].at \in Steps
BY ProcTypes DEF ReaderInv, OneAwake, EachReads

\* It may put the submission at hand aside, go to sleep, or turn to work.
Onwards(p, q) ==
  \/ ~Awake(q)
  \/ q = Dropped(p)
  \/ ~Reading(q) /\ q.checks = p.checks /\ q.snap = p.snap

LEMMA OnwardsReads ==
  ASSUME NEW p, ProcOK(p), NEW q, Onwards(p, q), Awake(q),
         \A s \in p.checks : Unjudged(run.step[s], p.snap.step[s].pinned),
         \A s \in p.checks : Waits(run.step[s], run'.step[s])
  PROVE  Reads(q, run')
<1>1. \A s \in p.checks : Unjudged(run'.step[s], p.snap.step[s].pinned)
  BY DEF Waits
<1>2. CASE q = Dropped(p) /\ p.todo \cup p.checks = {}
  <2>1. q.pc = "round" /\ q.checks = {}
    BY <1>2 DEF Dropped, Idle
  <2>2. QED
    BY <2>1 DEF Reads, Reading, Calling
<1>3. CASE q = Dropped(p) /\ p.todo \cup p.checks # {}
  <2>1. q.pc = "pass" /\ q.checks = p.checks /\ q.snap = p.snap
    BY <1>3 DEF Dropped, Idle
  <2>2. QED
    BY <1>1, <2>1 DEF Reads, Reading, Calling
<1>4. CASE ~Reading(q) /\ q.checks = p.checks /\ q.snap = p.snap
  BY <1>1, <1>4 DEF Reads, Reading, Calling
<1>5. QED
  BY <1>2, <1>3, <1>4 DEF Onwards

LEMMA MovesOn ==
  ASSUME DriverInv, ReaderInv, NEW d \in Drivers, Awake(proc[d]), NEW q, Goes(d, q),
         Onwards(proc[d], q), \A s \in proc[d].checks : Waits(run.step[s], run'.step[s])
  PROVE  ReaderInv'
BY AloneReading, OnwardsReads, GoesReads DEF Reads

\* A step that is no part of a review, by what the driver goes on to.
LEMMA WorksOn ==
  ASSUME DriverInv, ReaderInv, NEW d \in Drivers, Awake(proc[d]), NEW q, Goes(d, q),
         Onwards(proc[d], q), NoVerdict
  PROVE  ReaderInv'
BY MovesOn, AloneReading DEF NoVerdict, ProcOK

LEMMA StartPassReads ==
  ASSUME Overlap = FALSE, DriverInv, ReaderInv, NEW d \in Drivers, StartPass(d) \/ LeaveRun(d) \/ Crash(d)
  PROVE  ReaderInv'
<1> PICK p : p = [Idle EXCEPT !.pc = "pass", !.snap = run, !.todo = Ready(d), !.checks = Checks]
  OBVIOUS
<1>1. run' = run
  BY DEF StartPass, LeaveRun, Crash, vars
<1>2. \A e \in Drivers \ {d} : ~Awake(proc[e])
  BY DEF StartPass, LeaveRun, Crash, Awake, ReaderInv, OneAwake
<1>3. p.pc = "pass" /\ p.checks = Checks /\ p.snap = run
  BY DEF Idle
<1>4. Reads(p, run')
  BY <1>1, <1>3 DEF Reads, Reading, Calling, Checks, StatusOf, Unjudged
<1>5. Goes(d, p) \/ Goes(d, Idle) \/ Goes(d, Dead)
  BY DEF StartPass, LeaveRun, Crash
<1>6. QED
  BY <1>2, <1>4, <1>5, NotAware, GoesReads

LEMMA PickStepReads ==
  ASSUME DriverInv, ReaderInv, NEW d \in Drivers, NEW s \in Steps, PickStep(d, s)
  PROVE  ReaderInv'
<1> DEFINE p == proc[d]
<1> PICK rest : rest = p.todo \ {s}
  OBVIOUS
<1> PICK on : on = [p EXCEPT !.todo = rest, !.at = s]
  OBVIOUS
<1>1. p.pc = "pass" /\ Awake(p) /\ run' = run
  BY DEF PickStep, vars, Awake
<1>2. ProcOK(p)
  BY <1>1, AloneReading
<1>3. on.checks = p.checks /\ on.snap = p.snap /\ DOMAIN on = ProcFields
  BY <1>2 DEF ProcOK, ProcFields
<1> PICK q : Goes(d, q) /\ (\/ q = [on EXCEPT !.pc = "prepare", !.verb = "claim"]
                            \/ q = [on EXCEPT !.pc = "prepare", !.verb = "take"]
                            \/ q = [on EXCEPT !.pc = "decide"])
  <2>1. on = [p EXCEPT !.todo = @ \ {s}, !.at = s]
    BY <1>2 DEF ProcOK, ProcFields
  <2>2. QED
    BY <2>1 DEF PickStep
<1>4. Onwards(p, q)
  BY <1>3 DEF Onwards, Reading, Calling, Verdicts, ProcFields
<1>5. QED
  BY <1>1, <1>4, SameWaits, WorksOn

LEMMA PrepareReads ==
  ASSUME DriverInv, ReaderInv, NEW d \in Drivers, Prepare(d)
  PROVE  ReaderInv'
<1> DEFINE p == proc[d]
<1>1. p.pc = "prepare" /\ Awake(p) /\ run' = run
  BY DEF Prepare, vars, Awake
<1>2. ProcOK(p) /\ Reads(p, run) /\ \A e \in Drivers \ {d} : ~Awake(proc[e])
  BY <1>1, AloneReading
<1> PICK rid, token : Goes(d, [p EXCEPT !.pc = "call", !.rid = rid, !.token = token])
  BY DEF Prepare
<1> PICK q : q = [p EXCEPT !.pc = "call", !.rid = rid, !.token = token]
  OBVIOUS
<1>3. /\ q.pc = "call" /\ q.verb = p.verb /\ q.at = p.at /\ q.read = p.read
      /\ q.checks = p.checks /\ q.snap = p.snap /\ q.verdict = p.verdict
  BY <1>2 DEF ProcOK, ProcFields
<1>4. Reads(q, run')
  BY <1>1, <1>2, <1>3 DEF Reads, Reading, Calling
<1>5. QED
  BY <1>2, <1>4, GoesReads

LEMMA WorkReads ==
  ASSUME DriverInv, ReaderInv, NEW d \in Drivers, Decide(d) \/ Dispatch(d) \/ Reply(d)
  PROVE  ReaderInv'
<1> DEFINE p == proc[d]
<1>1. p.pc \in {"decide", "dispatch", "model"} /\ Awake(p) /\ ProcOK(p)
  BY AloneReading DEF Decide, Dispatch, Reply, Awake
<1>2. NoVerdict
  BY KeepWaits, SameWaits DEF Decide, Dispatch, Reply, vars
<1>3. \E q : Goes(d, q) /\ Onwards(p, q)
  <2>1. CASE Decide(d)
    <3> PICK q : Goes(d, q) /\ (\/ q = [p EXCEPT !.pc = "prepare", !.verb = "complete", !.file = <<p.at, "ungraded">>]
                                \/ q = [p EXCEPT !.pc = "prepare", !.verb = "overbudget"]
                                \/ q = [p EXCEPT !.pc = "dispatch"])
      BY <2>1 DEF Decide
    <3>1. Onwards(p, q)
      BY <1>1 DEF Onwards, Reading, Calling, Verdicts, ProcOK, ProcFields
    <3>2. QED
      BY <3>1
  <2>2. CASE Dispatch(d)
    <3> PICK q : Goes(d, q) /\ (\/ q = [p EXCEPT !.pc = "model"]
                                \/ q = [p EXCEPT !.pc = "prepare", !.verb = "fail"])
      BY <2>2 DEF Dispatch
    <3>1. Onwards(p, q)
      BY <1>1 DEF Onwards, Reading, Calling, Verdicts, ProcOK, ProcFields
    <3>2. QED
      BY <3>1
  <2>3. CASE Reply(d)
    <3>1. CASE Goes(d, Dropped(p))
      BY <3>1 DEF Onwards
    <3>2. ASSUME NEW verb \in {"release", "fail", "hold", "complete"}, NEW c,
                 Goes(d, [p EXCEPT !.pc = "prepare", !.verb = verb, !.cost = c, !.file = <<p.at, "work">>])
          PROVE  \E q : Goes(d, q) /\ Onwards(p, q)
      <4> PICK q : q = [p EXCEPT !.pc = "prepare", !.verb = verb, !.cost = c, !.file = <<p.at, "work">>]
        OBVIOUS
      <4>1. Onwards(p, q)
        BY <1>1 DEF Onwards, Reading, Calling, Verdicts, ProcOK, ProcFields
      <4>2. QED
        BY <3>2, <4>1
    <3>3. \A g \in Grades : OutcomeOf(g) \in {"fail", "hold", "complete"}
      BY DEF Grades, OutcomeOf
    <3>4. QED
      BY <2>3, <3>1, <3>2, <3>3 DEF Reply, Drops
  <2>4. QED
    BY <2>1, <2>2, <2>3
<1>4. QED
  BY <1>1, <1>2, <1>3, WorksOn

LEMMA CallsRead ==
  ASSUME DriverInv, ReaderInv, NEW d \in Drivers,
         CallClaim(d) \/ CallTake(d) \/ CallOverBudget(d) \/ CallOutcome(d)
  PROVE  ReaderInv'
<1> DEFINE p == proc[d]
           s == p.at
<1>1. p.pc = "call" /\ Awake(p) /\ ProcOK(p) /\ IInv /\ s \in Steps /\ d \in Holders /\ 0 \in Nat
      /\ p.cost \in Nat /\ (p.verb = "complete" => p.file \in Artifacts)
  BY ProcTypes DEF CallClaim, CallTake, CallOverBudget, CallOutcome, Calls, Hears, Awake, Busy, ProcOK
<1>2. \/ \E event \in {"step.requested", "step.taken", "step.held", "step.completed",
                       "step.failed", "step.released"} : EnteredAs(event, s)
      \/ UNCHANGED vars \/ \E rid : Exhaust(rid)
  BY <1>1, RequestStepEntered, TakeEntered, HoldEntered, CompleteEntered, FailEntered, ReleaseStepEntered
     DEF CallClaim, CallTake, CallOverBudget, CallOutcome, Calls, Hears
<1>3. NoVerdict
  BY <1>1, <1>2, CalledWaits DEF Judgements
<1>4. PICK q : Goes(d, q) /\ (\/ q \in {Dropped(p), Idle, Dead}
                             \/ q = [p EXCEPT !.pc = "decide"] \/ q = [p EXCEPT !.pc = "dispatch"]
                             \/ q = [p EXCEPT !.pc = "decide", !.taken = TRUE])
  BY DEF CallClaim, CallTake, CallOverBudget, CallOutcome, Calls, Hears
<1>5. Onwards(p, q)
  BY <1>1, <1>4, NotAware DEF Onwards, Reading, Calling, ProcOK, ProcFields
<1>6. QED
  BY <1>1, <1>3, <1>4, <1>5, WorksOn

LEMMA PickCheckReads ==
  ASSUME DriverInv, ReaderInv, NEW d \in Drivers, NEW s \in Steps, PickCheck(d, s)
  PROVE  ReaderInv'
<1> DEFINE p == proc[d]
<1> PICK rest : rest = p.checks \ {s}
  OBVIOUS
<1> PICK on : on = [p EXCEPT !.checks = rest, !.at = s]
  OBVIOUS
<1> PICK pin : pin = p.snap.step[s].pinned
  OBVIOUS
<1> PICK q : q = [on EXCEPT !.pc = "review", !.read = pin]
  OBVIOUS
<1>1. p.pc = "pass" /\ s \in p.checks /\ Awake(p) /\ run' = run
  BY DEF PickCheck, vars, Awake
<1>2. ProcOK(p) /\ Reads(p, run) /\ \A e \in Drivers \ {d} : ~Awake(proc[e])
  BY <1>1, AloneReading
<1>3. /\ on = [p EXCEPT !.checks = @ \ {s}, !.at = s]
      /\ on.checks = rest /\ on.snap = p.snap /\ DOMAIN on = ProcFields /\ on.at = s
      /\ on.pc = "pass" /\ on.todo = p.todo
  BY <1>1, <1>2 DEF ProcOK, ProcFields
<1>4. Goes(d, q) \/ Goes(d, Dropped(on))
  BY <1>3 DEF PickCheck
<1>5. \A x \in rest : Unjudged(run'.step[x], on.snap.step[x].pinned)
  BY <1>1, <1>2, <1>3 DEF Reads
<1>6. Reads(q, run')
  <2>1. q.pc = "review" /\ q.checks = rest /\ q.snap = p.snap /\ q.at = s /\ q.read = pin
    BY <1>3 DEF ProcFields
  <2>2. Unjudged(run'.step[s], pin) /\ s \notin rest
    BY <1>1, <1>2 DEF Reads
  <2>3. QED
    BY <1>3, <1>5, <2>1, <2>2 DEF Reads, Reading, Calling
<1>7. Awake(Dropped(on)) => Reads(Dropped(on), run')
  <2>1. CASE on.todo \cup on.checks = {}
    <3>1. LET w == Dropped(on) IN w.pc = "round" /\ w.checks = {}
      BY <2>1 DEF Dropped, Idle
    <3>2. QED
      BY <3>1 DEF Reads, Reading, Calling
  <2>2. CASE on.todo \cup on.checks # {}
    <3>1. LET w == Dropped(on) IN w.pc = "pass" /\ w.checks = rest /\ w.snap = on.snap
      BY <1>3, <2>2 DEF Dropped, Idle
    <3>2. QED
      BY <1>5, <3>1 DEF Reads, Reading, Calling
  <2>3. QED
    BY <2>1, <2>2
<1>8. QED
  BY <1>2, <1>4, <1>6, <1>7, GoesReads

LEMMA VerdictReads ==
  ASSUME DriverInv, ReaderInv, NEW d \in Drivers, Verdict(d)
  PROVE  ReaderInv'
<1> DEFINE p == proc[d]
<1>1. p.pc = "review" /\ Awake(p) /\ run' = run
  BY DEF Verdict, WriteArtifact, vars, Awake
<1>2. ProcOK(p) /\ Reads(p, run) /\ \A e \in Drivers \ {d} : ~Awake(proc[e])
  BY <1>1, AloneReading
<1>3. CASE Drops(d)
  BY <1>1, <1>3, SameWaits, WorksOn DEF Drops, Onwards
<1>4. ASSUME NEW v \in Verdicts, NEW c, NEW file,
             Goes(d, [p EXCEPT !.pc = "prepare", !.verb = "verdict-message", !.verdict = v,
                               !.cost = c, !.file = file])
      PROVE  ReaderInv'
  <2> PICK q : q = [p EXCEPT !.pc = "prepare", !.verb = "verdict-message", !.verdict = v,
                             !.cost = c, !.file = file]
    OBVIOUS
  <2>1. /\ q.pc = "prepare" /\ q.verb = "verdict-message" /\ q.verdict = v /\ q.at = p.at
        /\ q.read = p.read /\ q.checks = p.checks /\ q.snap = p.snap
    BY <1>2 DEF ProcOK, ProcFields
  <2>2. Reads(q, run')
    BY <1>1, <1>2, <2>1 DEF Reads, Reading, Calling
  <2>3. QED
    BY <1>2, <1>4, <2>2, GoesReads
<1>5. QED
  BY <1>3, <1>4 DEF Verdict, Verdicts

LEMMA CallMessageReads ==
  ASSUME DriverInv, ReaderInv, NEW d \in Drivers, CallMessage(d)
  PROVE  ReaderInv'
<1> DEFINE p == proc[d]
           s == p.at
           kind == IF p.verdict = "check-approve" THEN "decision" ELSE "feedback"
<1> PICK m : m = CHOOSE x \in Unsent : TRUE
  OBVIOUS
<1>1. p.pc = "call" /\ p.verb = "verdict-message" /\ Awake(p) /\ p.pc \in Busy
  BY DEF CallMessage, Calls, Hears, Awake, Busy
<1>2. /\ IInv /\ ProcOK(p) /\ Reads(p, run) /\ s \in Steps
      /\ p.file \in Artifacts /\ Checker(s) # None
      /\ \A e \in Drivers \ {d} : ~Awake(proc[e])
  BY <1>1, AloneReading DEF ProcOK
<1>3. /\ m \in MessageIds /\ kind \in Kinds /\ Checker(s) \in Agents /\ Owner(s) \in Agents
  BY <1>2, WorkflowTypes DEF CallMessage, Unsent, Kinds
<1>4. \/ SendMessage(p.rid, m, s, Checker(s), Owner(s), kind, None, p.file)
      \/ UNCHANGED vars \/ Exhaust(p.rid)
  BY DEF CallMessage, Calls, Hears
<1>5. NoVerdict
  BY <1>2, <1>3, <1>4, SendMessageEntered, CalledWaits DEF Judgements
<1> PICK q : q = [p EXCEPT !.pc = "prepare", !.verb = p.verdict, !.message = m]
  OBVIOUS
<1>6. Goes(d, q) \/ Goes(d, Idle) \/ Goes(d, Dead)
  BY DEF CallMessage, Calls, Hears
<1>7. /\ q.pc = "prepare" /\ q.verb = p.verdict /\ q.at = s /\ q.read = p.read
      /\ q.checks = p.checks /\ q.snap = p.snap
  BY <1>2 DEF ProcOK, ProcFields
<1>8. /\ p.verdict \in Verdicts /\ Unjudged(run.step[s], p.read) /\ s \notin p.checks
      /\ \A x \in p.checks : Unjudged(run.step[x], p.snap.step[x].pinned) /\ x \in Steps
  BY <1>1, <1>2 DEF Reads, Reading, Calling, ProcOK
<1>9. Reads(q, run')
  <2>1. /\ Unjudged(run'.step[s], p.read)
        /\ \A x \in p.checks : Unjudged(run'.step[x], p.snap.step[x].pinned)
    BY <1>2, <1>5, <1>8 DEF NoVerdict, Waits
  <2>2. QED
    BY <1>7, <1>8, <2>1 DEF Reads, Reading, Calling, Verdicts
<1>10. QED
  BY <1>2, <1>6, <1>9, NotAware, GoesReads

LEMMA CallVerdictReads ==
  ASSUME DriverInv, ReaderInv, NEW d \in Drivers, CallVerdict(d)
  PROVE  ReaderInv'
<1> DEFINE p == proc[d]
           s == p.at
<1>1. p.pc = "call" /\ p.verb \in Verdicts /\ Awake(p) /\ p.pc \in Busy
  BY DEF CallVerdict, Calls, Hears, Awake, Busy, Verdicts
<1>2. IInv /\ ProcOK(p) /\ Reads(p, run) /\ s \in Steps /\ p.cost \in Nat /\ p.checks \subseteq Steps
  BY <1>1, AloneReading DEF ProcOK
<1>3. \/ \E event : EnteredAs(event, s)
      \/ UNCHANGED vars \/ \E rid : Exhaust(rid)
  BY <1>2, CheckApproveEntered, CheckReturnEntered, CheckRejectEntered DEF CallVerdict, Calls, Hears
<1>4. s \notin p.checks
  BY <1>1, <1>2 DEF Reads, Reading, Calling
<1>5. \A x \in p.checks : Waits(run.step[x], run'.step[x])
  BY <1>2, <1>3, <1>4, EnteredWaits, ExhaustSteps, SameWaits DEF NoVerdict, vars
<1>6. PICK q \in {Dropped(p), Idle, Dead} : Goes(d, q)
  BY DEF CallVerdict, Calls, Hears
<1>7. Onwards(p, q)
  BY NotAware DEF Onwards
<1>8. QED
  BY <1>1, <1>5, <1>6, <1>7, MovesOn

-----------------------------------------------------------------------------
(* Everybody else, and the whole.                                           *)

LEMMA OthersRead ==
  ASSUME DriverInv, ReaderInv, UNCHANGED proc, NoVerdict
  PROVE  ReaderInv'
<1>1. ASSUME NEW d \in Drivers, Awake(proc[d])
      PROVE  Reads(proc[d], run')
  <2>1. ProcOK(proc[d]) /\ Reads(proc[d], run)
    BY <1>1, AloneReading
  <2>2. Reading(proc[d]) => proc[d].at \in Steps
    BY <2>1 DEF Reading, Calling, ProcOK, Busy
  <2>3. QED
    BY <2>1, <2>2 DEF Reads, NoVerdict, Waits, ProcOK
<1>2. QED
  BY <1>1 DEF ReaderInv, OneAwake, EachReads

LEMMA OutsideReads ==
  ASSUME DriverInv, ReaderInv, NEW w \in Workers, Outside(w)
  PROVE  ReaderInv'
<1>1. /\ IInv /\ w \in Holders /\ 0 \in Nat /\ UNCHANGED proc
      /\ api[w].pc # "free" => api[w].at \in Steps
  BY WorkerTypes, OutsideOK
<1>2. CASE ApiSubmit(w) \/ ApiGiveUp(w)
  BY <1>1, <1>2, SameWaits, OthersRead DEF ApiSubmit, ApiGiveUp, vars
<1>3. CASE ApiGraded(w)
  BY <1>1, <1>3, KeepWaits, OthersRead DEF ApiGraded
<1>4. CASE ApiHeartbeat(w)
  <2>1. EnteredAs("claim.renewed", api[w].at) \/ \E rid : Exhaust(rid)
    BY <1>1, <1>4, RenewClaimEntered DEF ApiHeartbeat
  <2>2. QED
    BY <1>1, <2>1, CalledWaits, OthersRead DEF Judgements
<1>5. CASE ApiCall(w)
  <2>1. api[w].at \in Steps /\ <<api[w].at, "work">> \in Artifacts
    BY <1>1, <1>5, ArtifactsOfSteps DEF ApiCall
  <2>2. \/ \E event \in {"step.completed", "step.failed", "step.held"} : EnteredAs(event, api[w].at)
        \/ UNCHANGED vars \/ \E rid : Exhaust(rid)
    BY <1>1, <1>5, <2>1, CompleteEntered, FailEntered, HoldEntered DEF ApiCall
  <2>3. QED
    BY <1>1, <2>2, CalledWaits, OthersRead DEF Judgements
<1>6. ASSUME NEW s \in Steps, ApiClaim(w, s)
      PROVE  ReaderInv'
  <2>1. EnteredAs("step.requested", s) \/ \E rid : Exhaust(rid)
    BY <1>1, <1>6, RequestStepEntered DEF ApiClaim
  <2>2. QED
    BY <1>1, <2>1, CalledWaits, OthersRead DEF Judgements
<1>7. QED
  BY <1>2, <1>3, <1>4, <1>5, <1>6 DEF Outside

LEMMA DecidesRead ==
  ASSUME DriverInv, ReaderInv, NEW p \in Humans, Decides(p)
  PROVE  ReaderInv'
<1>1. IInv /\ Waiting \subseteq Steps
  BY DEF DriverInv, Waiting
<1>2. UNCHANGED proc
  BY DecidesOK
<1>3. CASE PersonExtends(p)
  <2>1. run'.step = run.step
    BY <1>3, RunTypes, <1>1 DEF PersonExtends, ExtendBudget, Record, AppendEvent, RunState
  <2>2. QED
    BY <1>2, <2>1, SameWaits, OthersRead
<1>4. CASE PersonCancels(p) \/ \E s \in Steps : PersonApproves(s, p) \/ PersonRejects(s, p) \/ PersonExpires(s, p)
  <2>1. \/ \E event \in {"run.cancelled", "step.approved", "step.rejected", "claim.expired"} :
             \E x : EnteredAs(event, x)
        \/ \E rid : Exhaust(rid)
    BY <1>1, <1>4, CancelRunEntered, ApproveEntered, RejectEntered, ExpireClaimEntered
       DEF PersonCancels, PersonApproves, PersonRejects, PersonExpires
  <2>2. QED
    BY <1>1, <1>2, <2>1, CalledWaits, OthersRead DEF Judgements
<1>5. QED
  BY <1>3, <1>4 DEF Decides

LEMMA ReaderNext ==
  ASSUME Overlap = FALSE, DriverInv, ReaderInv, [DriverNext]_allVars
  PROVE  ReaderInv'
<1>1. ASSUME NEW d \in Drivers, Drives(d) \/ Crash(d)
      PROVE  ReaderInv'
  BY <1>1, StartPassReads, PrepareReads, WorkReads, CallsRead, PickStepReads, PickCheckReads,
     VerdictReads, CallMessageReads, CallVerdictReads DEF Drives
<1>2. ASSUME NEW s \in Steps, TimePasses(s)
      PROVE  ReaderInv'
  <2>1. /\ run \in RunState /\ run' = [run EXCEPT !.step[s].live = FALSE] /\ UNCHANGED proc
    BY <1>2, RunTypes DEF TimePasses, ClaimLapses, driverVars, DriverInv
  <2>2. NoVerdict
    BY <2>1 DEF RunState, StepState, NoVerdict, Waits, Unjudged
  <2>3. QED
    BY <2>1, <2>2, OthersRead
<1>3. CASE UNCHANGED allVars
  BY <1>3, SameWaits, OthersRead DEF allVars, vars
<1>4. QED
  BY <1>1, <1>2, <1>3, OutsideReads, DecidesRead DEF DriverNext

\* Where one driver runs at a time, a verdict it applies is about the submission
\* its checker read: not one that a return and a new attempt put in its place
\* meanwhile.  (Where two may overlap this fails: MCDriverSlowReviewer.cfg.)
THEOREM LoneReviewerJudgesWhatItRead ==
  ASSUME Overlap = FALSE
  PROVE  DriverSpec => VerdictOnWhatWasRead
<1> DEFINE Rule == \A d \in Drivers : LET p == proc[d] IN
                     p.pc = "call" /\ p.verb \in Verdicts /\ Applied(p.rid)
                       => p.read = run.step[p.at].pinned
<1>1. DriverInit => ReaderInv
  BY NotAware DEF DriverInit, ReaderInv, OneAwake, EachReads
<1>2. DriverInv /\ ReaderInv /\ [DriverNext]_allVars => ReaderInv'
  BY ReaderNext
<1>3. DriverSpec => []ReaderInv
  BY <1>1, <1>2, DriverSoundness, PTL DEF DriverSpec
<1>4. ReaderInv => Rule
  BY DEF ReaderInv, EachReads, Reads, Reading, Calling, Awake, Unjudged
<1>5. ReaderInv /\ [DriverNext]_allVars => [Rule]_allVars
  BY <1>4
<1>6. QED
  BY <1>3, <1>5, PTL DEF DriverSpec, VerdictOnWhatWasRead
-----------------------------------------------------------------------------
(***************************************************************************)
(* What a lone driver spends.  It looks at the bill before every dispatch,  *)
(* and between that look and the model call nobody adds to the bill: people *)
(* only raise the ceiling.  The way round the look is a park that is        *)
(* refused; but while the run goes on the step is still at work, its token  *)
(* is the one that was read, and no event carries the park's id but parks.  *)
(***************************************************************************)
Parking(p) == Calling(p, {"overbudget"})

\* What a driver is about to do costs what the bill allows, by run r.
Priced(p, r) ==
  /\ p.pc \in Busy \cup {"pass"} => p.snap.ceiling \in Nat
  /\ p.pc = "dispatch" /\ r.status = "active" =>
       LET c == IF p.taken THEN r ELSE p.snap IN Ceiling(c) # 0 => r.spend < Ceiling(c)
  /\ p.pc = "call" => \E n, m : p.rid = <<"exec", p.at, n, m, p.verb>>
  /\ p.pc = "call" /\ Parking(p) /\ r.status = "active" => p.token \in {None, r.step[p.at].token}

\* An id a park derives is in the log for a park of that step, or for nothing.
ParkIds == run.status = "active" =>
  \A e \in log : \A s, n, m : e.id = <<"exec", s, n, m, "overbudget">> =>
    e.event = "step.held" /\ e.actor = Owner(s) /\ e.target = s

\* Without a ceiling nothing is ever parked for its cost.
FreeRun == run.ceiling = 0 /\ \A s \in Steps : run.step[s].held # "budget"
FreeProc(p) == ~Parking(p) /\ (p.pc \in Busy \cup {"pass"} => p.snap.ceiling = 0)
NoCeiling == DefaultCeiling = 0 => FreeRun /\ \A d \in Drivers : FreeProc(proc[d])

Spending == ParkIds /\ NoCeiling /\ \A d \in Drivers : Priced(proc[d], run)

LEMMA AsleepPriced ==
  ASSUME NEW p, ~Awake(p), NEW r
  PROVE  Priced(p, r) /\ FreeProc(p)
BY DEF Awake, Priced, FreeProc, Parking, Calling, Busy

LEMMA GoesPriced ==
  ASSUME ProcsOK, NEW d \in Drivers, \A e \in Drivers \ {d} : ~Awake(proc[e]),
         NEW q, Goes(d, q), Priced(q, run'), ParkIds', DefaultCeiling = 0 => FreeRun' /\ FreeProc(q)
  PROVE  Spending'
<1>1. proc'[d] = q /\ \A e \in Drivers \ {d} : proc'[e] = proc[e]
  BY DEF ProcsOK, Goes
<1>2. \A e \in Drivers : Priced(proc'[e], run')
  BY <1>1, AsleepPriced
<1>3. DefaultCeiling = 0 => \A e \in Drivers : FreeProc(proc'[e])
  BY <1>1, AsleepPriced
<1>4. QED
  BY <1>2, <1>3 DEF Spending, NoCeiling

\* Nothing about the bill is asked of a driver that neither calls nor dispatches.
Plain(p, q) ==
  /\ q.pc \in {"pass", "round", "idle", "dead", "prepare", "decide", "model", "review"}
  /\ q.pc = "prepare" => q.verb # "overbudget"
  /\ q.pc \in Busy \cup {"pass"} => q.snap = p.snap

LEMMA PlainPriced ==
  ASSUME NEW p, p.pc \in Busy \cup {"pass"}, NEW q, Plain(p, q), NEW r, Priced(p, r), NEW r2
  PROVE  Priced(q, r2) /\ (FreeProc(p) => FreeProc(q))
BY DEF Plain, Priced, FreeProc, Parking, Calling, Busy

LEMMA IdlePlain ==
  ASSUME NEW p
  PROVE  /\ Plain(p, Idle) /\ Plain(p, Dead)
         /\ Plain(p, Dropped(p)) /\ Dropped(p).pc # "model" /\ Idle.pc # "model" /\ Dead.pc # "model"
<1>1. CASE p.todo \cup p.checks = {}
  BY <1>1 DEF Plain, Dropped, Dead, Idle, Busy
<1>2. CASE p.todo \cup p.checks # {}
  BY <1>2 DEF Plain, Dropped, Dead, Idle, Busy
<1>3. QED
  BY <1>1, <1>2

-----------------------------------------------------------------------------
\* What the bill asks of a call: what it adds to the log, and that it leaves the
\* ceiling alone.
Filed(rid, event, actor, target) ==
  /\ run.status = "active"
  /\ log' = log \/ log' = log \cup {[id |-> rid, event |-> event, actor |-> actor, target |-> target]}
Called(rid, event, actor, target) == Filed(rid, event, actor, target) /\ run'.ceiling = run.ceiling

\* A state in which the ceiling is as it was.
AsPriced(r) == DOMAIN r = DOMAIN run /\ r.ceiling = run.ceiling

LEMMA PricedPieces ==
  ASSUME run \in RunState, NEW r, AsPriced(r), NEW s, NEW st, NEW why, NEW cost, NEW m
  PROVE  /\ AsPriced(Put(s, st)) /\ AsPriced(Charge(r, s, cost)) /\ AsPriced(Stop(r, s, why))
         /\ AsPriced(Finish(r, s)) /\ AsPriced([run EXCEPT !.messages = m])
<1>1. AsPriced(Put(s, st)) /\ AsPriced([run EXCEPT !.messages = m])
  BY DEF AsPriced, Put, RunState
<1>2. AsPriced(Charge(r, s, cost)) /\ AsPriced(Stop(r, s, why))
  BY DEF AsPriced, Charge, Stop, RunState
<1>3. AsPriced(Finish(r, s))
  <2>1. AsPriced([r EXCEPT !.step[s].status = "completed"])
    BY DEF AsPriced, RunState
  <2>2. ASSUME NEW q, AsPriced(q) PROVE AsPriced(ReleaseDependents(q))
    BY <2>2 DEF AsPriced, ReleaseDependents, RunState
  <2>3. QED
    BY <2>1, <2>2 DEF Finish
<1>4. QED
  BY <1>1, <1>2, <1>3

LEMMA MutateCalled ==
  ASSUME run \in RunState, NEW rid, NEW event, NEW actor, NEW target, NEW new, AsPriced(new), NEW gated,
         Mutate(rid, event, actor, target, new, gated)
  PROVE  Called(rid, event, actor, target)
BY DEF AsPriced, Mutate, Admitted, Record, AppendEvent, RunState, Called, Filed

LEMMA StepCalled ==
  ASSUME run \in RunState, NEW rid, NEW s, NEW actor, NEW holder, NEW token, NEW file, NEW kind, NEW cost
  PROVE  /\ RequestStep(rid, s, actor, holder) => Called(rid, "step.requested", actor, s)
         /\ Take(rid, s, actor, holder) => Called(rid, "step.taken", actor, s)
         /\ Hold(rid, s, actor, token, kind, cost) => Called(rid, "step.held", actor, s)
         /\ Complete(rid, s, actor, token, file, cost) => Called(rid, "step.completed", actor, s)
         /\ Fail(rid, s, actor, token, cost) => Called(rid, "step.failed", actor, s)
         /\ ReleaseStep(rid, s, actor, token, cost) => Called(rid, "step.released", actor, s)
<1>1. AsPriced(run)
  BY DEF AsPriced
<1>2. RequestStep(rid, s, actor, holder) => Called(rid, "step.requested", actor, s)
  BY ZenonT(30), <1>1, PricedPieces, MutateCalled DEF RequestStep
<1>3. Take(rid, s, actor, holder) => Called(rid, "step.taken", actor, s)
  BY <1>1, PricedPieces, MutateCalled DEF Take
<1>4. ASSUME Hold(rid, s, actor, token, kind, cost)
      PROVE  Called(rid, "step.held", actor, s)
  <2>1. PICK st : Mutate(rid, "step.held", actor, s, Charge(Put(s, st), s, cost), TRUE)
    BY <1>4 DEF Hold
  <2>2. AsPriced(Charge(Put(s, st), s, cost))
    BY <1>1, PricedPieces
  <2>3. QED
    BY <2>1, <2>2, MutateCalled
<1>5. ASSUME Complete(rid, s, actor, token, file, cost)
      PROVE  Called(rid, "step.completed", actor, s)
  <2>1. PICK st, more : \/ Mutate(rid, "step.completed", actor, s, Charge(Put(s, more), s, cost), FALSE)
                        \/ Mutate(rid, "step.completed", actor, s, Finish(Charge(Put(s, st), s, cost), s), FALSE)
    BY <1>5 DEF Complete
  <2>2. AsPriced(Charge(Put(s, more), s, cost)) /\ AsPriced(Charge(Put(s, st), s, cost))
    BY <1>1, PricedPieces
  <2>3. AsPriced(Finish(Charge(Put(s, st), s, cost), s))
    BY <2>2, PricedPieces
  <2>4. QED
    BY <2>1, <2>2, <2>3, MutateCalled
<1>6. ASSUME Fail(rid, s, actor, token, cost)
      PROVE  Called(rid, "step.failed", actor, s)
  <2>1. PICK st, more :
          \/ Mutate(rid, "step.failed", actor, s, Charge(Put(s, more), s, cost), FALSE)
          \/ Mutate(rid, "step.failed", actor, s, Charge(Stop(Put(s, st), s, "blocked_retry_limit"), s, cost), FALSE)
    BY <1>6 DEF Fail
  <2>2. AsPriced(Put(s, st)) /\ AsPriced(Charge(Put(s, more), s, cost))
    BY <1>1, PricedPieces
  <2>3. AsPriced(Stop(Put(s, st), s, "blocked_retry_limit"))
    BY <2>2, PricedPieces
  <2>4. AsPriced(Charge(Stop(Put(s, st), s, "blocked_retry_limit"), s, cost))
    BY <2>3, PricedPieces
  <2>5. QED
    BY <2>1, <2>2, <2>4, MutateCalled
<1>7. ASSUME ReleaseStep(rid, s, actor, token, cost)
      PROVE  Called(rid, "step.released", actor, s)
  <2>1. PICK st : Mutate(rid, "step.released", actor, s, Charge(Put(s, st), s, cost), FALSE)
    BY <1>7 DEF ReleaseStep
  <2>2. AsPriced(Charge(Put(s, st), s, cost))
    BY <1>1, PricedPieces
  <2>3. QED
    BY <2>1, <2>2, MutateCalled
<1>8. QED
  BY <1>2, <1>3, <1>4, <1>5, <1>6, <1>7

LEMMA ReviewCalled ==
  ASSUME run \in RunState, NEW rid, NEW s, NEW actor, NEW m, NEW from, NEW to, NEW kind, NEW reply_to,
         NEW file, NEW cost
  PROVE  /\ SendMessage(rid, m, s, from, to, kind, reply_to, file) => Called(rid, "message.sent", from, m)
         /\ CheckApprove(rid, s, actor, m, cost) => Called(rid, "check.approved", actor, s)
         /\ CheckReturn(rid, s, actor, m, cost) => Called(rid, "check.returned", actor, s)
         /\ CheckReject(rid, s, actor, m, cost) => Called(rid, "check.rejected", actor, s)
<1>1. AsPriced(run)
  BY DEF AsPriced
<1>2. SendMessage(rid, m, s, from, to, kind, reply_to, file) => Called(rid, "message.sent", from, m)
  BY <1>1, PricedPieces, MutateCalled DEF SendMessage
<1>3. CheckApprove(rid, s, actor, m, cost) => Called(rid, "check.approved", actor, s)
  BY <1>1, PricedPieces, MutateCalled DEF CheckApprove
<1>4. ASSUME CheckReturn(rid, s, actor, m, cost)
      PROVE  Called(rid, "check.returned", actor, s)
  <2>1. PICK st :
          \/ Mutate(rid, "check.returned", actor, s, Charge(Stop(run, s, "blocked_review_limit"), s, cost), FALSE)
          \/ Mutate(rid, "check.returned", actor, s, Charge(Put(s, st), s, cost), FALSE)
    BY <1>4 DEF CheckReturn
  <2>2. AsPriced(Stop(run, s, "blocked_review_limit")) /\ AsPriced(Charge(Put(s, st), s, cost))
    BY <1>1, PricedPieces
  <2>3. AsPriced(Charge(Stop(run, s, "blocked_review_limit"), s, cost))
    BY <2>2, PricedPieces
  <2>4. QED
    BY <2>1, <2>2, <2>3, MutateCalled
<1>5. ASSUME CheckReject(rid, s, actor, m, cost)
      PROVE  Called(rid, "check.rejected", actor, s)
  <2>1. Mutate(rid, "check.rejected", actor, s, Charge(Stop(run, s, "rejected_by_checker"), s, cost), FALSE)
    BY <1>5 DEF CheckReject
  <2>2. AsPriced(Stop(run, s, "rejected_by_checker"))
    BY <1>1, PricedPieces
  <2>3. AsPriced(Charge(Stop(run, s, "rejected_by_checker"), s, cost))
    BY <2>2, PricedPieces
  <2>4. QED
    BY <2>1, <2>3, MutateCalled
<1>6. QED
  BY <1>2, <1>3, <1>4, <1>5

LEMMA FiledIds ==
  ASSUME ParkIds, NEW rid, NEW event, NEW actor, NEW target, Filed(rid, event, actor, target),
         \A s, n, m : rid = <<"exec", s, n, m, "overbudget">> =>
           event = "step.held" /\ actor = Owner(s) /\ target = s
  PROVE  ParkIds'
<1>1. ASSUME NEW e \in log', NEW s, NEW n, NEW m, e.id = <<"exec", s, n, m, "overbudget">>
      PROVE  e.event = "step.held" /\ e.actor = Owner(s) /\ e.target = s
  <2>1. CASE e \in log
    BY <1>1, <2>1 DEF ParkIds, Filed
  <2>2. CASE e = [id |-> rid, event |-> event, actor |-> actor, target |-> target]
    BY <1>1, <2>2
  <2>3. QED
    BY <2>1, <2>2 DEF Filed
<1>2. QED
  BY <1>1 DEF ParkIds

LEMMA ExhaustPriced ==
  ASSUME IInv, ParkIds, NEW rid, Exhaust(rid)
  PROVE  /\ ParkIds' /\ (FreeRun => FreeRun') /\ run'.spend = run.spend /\ run'.ceiling = run.ceiling
         /\ crashes' # crashes \/ run'.status # "active"
<1>1. run \in RunState /\ crashes \in Nat
  BY RunTypes DEF IInv, TypeOK
<1> PICK new : new = [run EXCEPT !.status = "blocked_cycle_limit"]
  OBVIOUS
<1>2. /\ new.spend = run.spend /\ new.ceiling = run.ceiling /\ new.step = run.step
      /\ new.status # "active" /\ DOMAIN new = DOMAIN run /\ "seq" \in DOMAIN run
  BY <1>1 DEF RunState
<1>3. \/ AppendEvent(rid, "run.blocked_cycle_limit", "runtime", "run", new)
      \/ run' = run /\ log' = log /\ crashes' = crashes + 1
  BY DEF Exhaust, Record
<1>4. CASE AppendEvent(rid, "run.blocked_cycle_limit", "runtime", "run", new)
  <2>1. /\ run'.spend = run.spend /\ run'.ceiling = run.ceiling /\ run'.step = run.step
        /\ run'.status # "active"
    BY <1>2, <1>4 DEF AppendEvent
  <2>2. log' = log \cup {[id |-> rid, event |-> "run.blocked_cycle_limit", actor |-> "runtime", target |-> "run"]}
    BY <1>4 DEF AppendEvent
  <2>3. QED
    BY <2>1, <2>2 DEF ParkIds, FreeRun
<1>5. CASE run' = run /\ log' = log /\ crashes' = crashes + 1
  BY <1>1, <1>5 DEF ParkIds, FreeRun
<1>6. QED
  BY <1>3, <1>4, <1>5
-----------------------------------------------------------------------------
\* What people and the clock may do to the bill and to a step at work.
Modest ==
  /\ run'.spend = run.spend
  /\ run'.status = "active" =>
       /\ run.status = "active"
       /\ \A x \in Steps : run.step[x].status = "in_progress" => run'.step[x].token = run.step[x].token
  /\ \/ run'.ceiling = run.ceiling
     \/ run'.ceiling = run.spend + Ceiling(run) /\ \E x \in Steps : run.step[x].held = "budget"
  /\ \A x \in Steps : run'.step[x].held \in {run.step[x].held, "none"}

\* What a state that mutate is handed has to show for that.
ModestDraft(new) ==
  /\ new \in RunState /\ new.spend = run.spend
  /\ new.status = "active" =>
       \A x \in Steps : run.step[x].status = "in_progress" => new.step[x].token = run.step[x].token
  /\ \/ new.ceiling = run.ceiling
     \/ new.ceiling = run.spend + Ceiling(run) /\ \E x \in Steps : run.step[x].held = "budget"
  /\ \A x \in Steps : new.step[x].held \in {run.step[x].held, "none"}

LEMMA MutateModest ==
  ASSUME NEW rid, NEW event, NEW actor, NEW target, NEW new, ModestDraft(new), NEW gated,
         Mutate(rid, event, actor, target, new, gated)
  PROVE  Modest /\ Filed(rid, event, actor, target)
<1>1. run.status = "active" /\ Filed(rid, event, actor, target)
  BY DEF Mutate, Admitted, Record, AppendEvent, Filed
<1>2. \/ run' = run
      \/ /\ run'.spend = new.spend /\ run'.status = new.status /\ run'.ceiling = new.ceiling
         /\ run'.step = new.step
  BY DEF Mutate, Record, AppendEvent, ModestDraft, RunState
<1>3. QED
  BY <1>1, <1>2 DEF Modest, ModestDraft

LEMMA ApproveModest ==
  ASSUME IInv, NEW rid, NEW s \in Steps, NEW human, Approve(rid, s, human)
  PROVE  Modest /\ Filed(rid, "step.approved", human, s)
<1>1. run \in RunState /\ run.step[s] \in StepState /\ run.spend \in Nat /\ run.ceiling \in Nat
  BY RunTypes
<1> PICK free : free = NoClaim(run.step[s])
  OBVIOUS
<1>2. /\ free \in StepState /\ free.held = run.step[s].held
      /\ free.status = run.step[s].status
  BY <1>1 DEF NoClaim, StepState
<1> PICK event : event = "step.approved"
  OBVIOUS
<1>3. PICK new : /\ Mutate(rid, event, human, s, new, TRUE)
                 /\ run.step[s].status = "awaiting_approval"
                 /\ \/ /\ free.held = "budget"
                       /\ new = [Put(s, [free EXCEPT !.status = "ready", !.held = "none"])
                                   EXCEPT !.ceiling = run.spend + Ceiling(run)]
                    \/ /\ free.held # "budget"
                       /\ new = Put(s, [free EXCEPT !.status = "in_progress"])
  BY <1>2 DEF Approve, Ceiling
<1>4. PICK price : price = run.spend + Ceiling(run) /\ price \in Nat
  BY <1>1, BoundsAssumption DEF Ceiling
<1>5. CASE /\ free.held = "budget"
           /\ new = [Put(s, [free EXCEPT !.status = "ready", !.held = "none"])
                       EXCEPT !.ceiling = run.spend + Ceiling(run)]
  <2> PICK st : st = [free EXCEPT !.status = "ready", !.held = "none"]
    OBVIOUS
  <2>1. st \in StepState /\ st.held = "none"
    BY <1>2 DEF StepState, StepStatus
  <2>2. new = [run EXCEPT !.step[s] = st, !.ceiling = price]
    BY <1>1, <1>4, <1>5 DEF Put, RunState
  <2>3. /\ new \in RunState /\ new.spend = run.spend /\ new.ceiling = price
        /\ new.step = [run.step EXCEPT ![s] = st]
    BY <1>1, <1>4, <2>1, <2>2 DEF RunState
  <2>4. \A x \in Steps : /\ new.step[x].held \in {run.step[x].held, "none"}
                         /\ x # s => new.step[x] = run.step[x]
    BY <1>1, <2>1, <2>3 DEF RunState
  <2>5. ModestDraft(new)
    BY <1>2, <1>3, <1>4, <1>5, <2>3, <2>4 DEF ModestDraft
  <2>6. QED
    BY <1>3, <2>5, MutateModest
<1>6. CASE free.held # "budget" /\ new = Put(s, [free EXCEPT !.status = "in_progress"])
  <2> PICK st : st = [free EXCEPT !.status = "in_progress"]
    OBVIOUS
  <2>1. st \in StepState /\ st.held = run.step[s].held
    BY <1>2 DEF StepState, StepStatus
  <2>2. ModestDraft(new)
    BY <1>1, <1>3, <1>6, <2>1 DEF ModestDraft, RunState, Put
  <2>3. QED
    BY <1>3, <2>2, MutateModest
<1>7. QED
  BY <1>3, <1>5, <1>6

LEMMA CancelModest ==
  ASSUME IInv, NEW rid, NEW human, CancelRun(rid, human)
  PROVE  Modest /\ Filed(rid, "run.cancelled", human, "run")
<1>1. run \in RunState /\ run.step \in [Steps -> StepState]
  BY RunTypes DEF RunState
<1> DEFINE g == [x \in Steps |-> IF run.step[x].status = "in_progress"
                                 THEN NoClaim(run.step[x]) ELSE run.step[x]]
<1>2. ModestDraft([run EXCEPT !.status = "cancelled", !.step = g])
  <2>1. \A x \in Steps : LET st == NoClaim(run.step[x]) IN st \in StepState /\ st.held = run.step[x].held
    BY ZenonT(30), <1>1 DEF NoClaim, StepState
  <2>2. g \in [Steps -> StepState] /\ \A x \in Steps : g[x].held = run.step[x].held
    BY <1>1, <2>1
  <2> HIDE DEF g
  <2>3. QED
    BY <1>1, <2>2 DEF ModestDraft, RunState, TerminalRun
<1>3. QED
  BY <1>2, MutateModest DEF CancelRun

LEMMA PeopleModest ==
  ASSUME IInv, NEW rid, NEW s \in Steps, NEW human
  PROVE  /\ Reject(rid, s, human) => Modest /\ Filed(rid, "step.rejected", human, s)
         /\ ExpireClaim(rid, s, human) => Modest /\ Filed(rid, "claim.expired", human, s)
         /\ ClaimLapses(s) => Modest
<1>1. run \in RunState /\ run.step[s] \in StepState /\ run.step \in [Steps -> StepState]
  BY RunTypes DEF RunState
<1>2. ModestDraft(Stop(run, s, "rejected"))
  <2> PICK why : why = "rejected"
    OBVIOUS
  <2>1. why \in Refused /\ why \in StepStatus /\ why \in TerminalRun /\ why # "active"
    BY DEF Refused, StepStatus, TerminalRun
  <2> PICK st : st = [run.step[s] EXCEPT !.status = why]
    OBVIOUS
  <2>2. st \in StepState /\ st.held = run.step[s].held
    BY <1>1, <2>1 DEF StepState
  <2> PICK f : f = [run.step EXCEPT ![s] = st]
    OBVIOUS
  <2>3. f \in [Steps -> StepState] /\ Stop(run, s, why) = [run EXCEPT !.step = f, !.status = why]
    BY <1>1, <2>2 DEF Stop
  <2> PICK new : new = Stop(run, s, why)
    OBVIOUS
  <2>4. /\ new \in RunState /\ new.spend = run.spend /\ new.ceiling = run.ceiling /\ new.status = why
        /\ new.step = f
    BY <1>1, <2>1, <2>3 DEF RunState
  <2>5. \A x \in Steps : new.step[x].held \in {run.step[x].held, "none"}
    BY <1>1, <2>2, <2>4
  <2>6. ModestDraft(new)
    BY <2>1, <2>4, <2>5 DEF ModestDraft
  <2>7. QED
    BY <2>6
<1>3. ModestDraft(Put(s, [run.step[s] EXCEPT !.live = FALSE]))
  <2> PICK st : st = [run.step[s] EXCEPT !.live = FALSE]
    OBVIOUS
  <2>1. st \in StepState /\ st.held = run.step[s].held /\ st.token = run.step[s].token
    BY <1>1 DEF StepState
  <2>2. ModestDraft(Put(s, st))
    BY <1>1, <2>1 DEF ModestDraft, RunState, Put
  <2>3. QED
    BY <2>2
<1>4. Reject(rid, s, human) => Modest /\ Filed(rid, "step.rejected", human, s)
  BY <1>2, MutateModest DEF Reject
<1>5. ExpireClaim(rid, s, human) => Modest /\ Filed(rid, "claim.expired", human, s)
  BY <1>3, MutateModest DEF ExpireClaim
<1>6. ClaimLapses(s) => Modest
  BY <1>1 DEF ClaimLapses, Modest, RunState, StepState
<1>7. QED
  BY <1>4, <1>5, <1>6

\* People and the clock leave what a driver is about to do affordable.
LEMMA ModestPriced ==
  ASSUME DriverInv, LoneInv, Spending, Modest, UNCHANGED proc, ParkIds'
  PROVE  Spending'
<1>1. /\ run.spend \in Nat /\ run.ceiling \in Nat /\ DefaultCeiling \in Nat /\ Ceiling(run) \in Nat
  BY RunTypes, BoundsAssumption DEF DriverInv, Ceiling
<1>2. DefaultCeiling = 0 => FreeRun'
  BY DEF Spending, NoCeiling, FreeRun, Modest
<1>3. ASSUME Ceiling(run') # 0, Ceiling(run) # 0 => run.spend < Ceiling(run)
      PROVE  run'.spend < Ceiling(run')
  <2>1. CASE run'.ceiling = run.ceiling
    BY <1>3, <2>1 DEF Modest, Ceiling
  <2>2. CASE run'.ceiling = run.spend + Ceiling(run) /\ \E x \in Steps : run.step[x].held = "budget"
    <3>1. DefaultCeiling # 0
      BY <2>2 DEF Spending, NoCeiling, FreeRun
    <3>2. Ceiling(run) # 0
      BY <1>1, <3>1 DEF Ceiling
    <3>3. PICK price : price = run.spend + Ceiling(run) /\ price > run.spend /\ price \in Nat
      BY SMTT(30), <1>1, <3>2
    <3>4. Ceiling(run') = price
      BY <1>1, <2>2, <3>3 DEF Ceiling
    <3>5. QED
      BY <3>3, <3>4 DEF Modest
  <2>3. QED
    BY <2>1, <2>2 DEF Modest
<1>4. ASSUME NEW d \in Drivers
      PROVE  Priced(proc[d], run')
  <2> PICK p : p = proc[d]
    OBVIOUS
  <2>1. Priced(p, run) /\ (p.pc \in Busy => p.at \in Steps)
    BY ProcTypes DEF Spending
  <2>2. CASE p.pc = "dispatch" /\ run'.status = "active"
    <3>1. CASE p.taken
      BY <1>3, <2>1, <2>2, <3>1 DEF Priced, Modest, Calling, Parking
    <3>2. CASE ~p.taken
      BY <2>1, <2>2, <3>2 DEF Priced, Modest, Calling, Parking
    <3>3. QED
      BY <3>1, <3>2
  <2>3. CASE p.pc = "call" /\ Parking(p) /\ run'.status = "active"
    <3>1. Aware(p, run, disk, cleared) /\ p.at \in Steps
      BY <2>1, <2>3, AloneHere DEF Awake, Busy
    <3>2. run.step[p.at].status = "in_progress"
      BY <2>3, <3>1 DEF Aware, Working, Parking, Calling, DriverWrites
    <3>3. run'.step[p.at].token = run.step[p.at].token
      BY <2>3, <3>1, <3>2 DEF Modest
    <3>4. QED
      BY <2>1, <2>3, <3>3 DEF Priced, Modest
  <2>4. QED
    BY <2>1, <2>2, <2>3 DEF Priced
<1>5. QED
  BY <1>2, <1>4 DEF Spending, NoCeiling
-----------------------------------------------------------------------------
\* A step of the driver that reads only, or a call after which it neither parks
\* nor dispatches.
LEMMA PlainSpending ==
  ASSUME DriverInv, LoneInv, Spending, NEW d \in Drivers, proc[d].pc \in Busy \cup {"pass"},
         NEW q, Goes(d, q), Plain(proc[d], q), ParkIds', DefaultCeiling = 0 => FreeRun'
  PROVE  Spending'
<1>1. Awake(proc[d])
  BY DEF Awake, Busy
<1>2. ProcsOK /\ \A e \in Drivers \ {d} : ~Awake(proc[e])
  BY <1>1, AloneHere
<1>3. Priced(q, run') /\ (DefaultCeiling = 0 => FreeProc(q))
  BY PlainPriced DEF Spending, NoCeiling
<1>4. QED
  BY <1>2, <1>3, GoesPriced

LEMMA SameBill ==
  ASSUME Spending, run' = run, log' = log
  PROVE  ParkIds' /\ (DefaultCeiling = 0 => FreeRun')
BY DEF Spending, NoCeiling, ParkIds, FreeRun

\* No verb but a park for its cost makes a step wait for money.
HeldAsBefore == \A x \in Steps : run'.step[x].held \in {run.step[x].held, "none", "ungraded"}

LEMMA EnteredHeld ==
  ASSUME NEW event, NEW target, EnteredAs(event, target), event # "step.held"
  PROVE  HeldAsBefore
<1>1. run' = run \/ Stirred(event, target)
  BY EnteredStirs
<1>2. CASE Stirred(event, target)
  BY <1>2 DEF Stirred, Turn, Quiet, Kept, SameWork, HeldAsBefore
<1>3. QED
  BY <1>1, <1>2 DEF HeldAsBefore

LEMMA UngradedHeld ==
  ASSUME IInv, NEW rid, NEW s \in Steps, NEW actor, NEW token, NEW cost \in Nat,
         Hold(rid, s, actor, token, "ungraded", cost)
  PROVE  HeldAsBefore
<1>1. run \in RunState /\ run.step \in [Steps -> StepState]
  BY RunTypes DEF RunState
<1> PICK free : free = [NoClaim(run.step[s]) EXCEPT !.status = "awaiting_approval"]
  OBVIOUS
<1>2. /\ DOMAIN free = DOMAIN run.step[s]
      /\ DOMAIN run.step[s] = {"status", "attempts", "reviews", "releases", "holder", "token", "live",
                               "held", "evidence", "pinned", "spend"}
  BY <1>1 DEF NoClaim, StepState
<1> PICK st : st = [free EXCEPT !.held = "ungraded"]
  OBVIOUS
<1>3. st.held = "ungraded" /\ DOMAIN st = DOMAIN free
  BY <1>2
<1> PICK new : new = Charge(Put(s, st), s, cost)
  OBVIOUS
<1>4. /\ DOMAIN new = DOMAIN run /\ new.step[s].held = "ungraded"
      /\ \A x \in Steps : x # s => new.step[x] = run.step[x]
  BY <1>1, <1>2, <1>3 DEF Charge, Put, RunState
<1>5. Mutate(rid, "step.held", actor, s, new, TRUE)
  BY DEF Hold
<1>6. run' = run \/ run'.step = new.step
  BY <1>1, <1>4, <1>5 DEF Mutate, Record, AppendEvent, RunState
<1>7. QED
  BY <1>4, <1>6 DEF HeldAsBefore

LEMMA CallLeaves ==
  ASSUME Spending, NEW d \in Drivers, proc[d].pc = "call", proc[d].verb # "overbudget",
         NEW event, NEW actor, NEW target,
         \/ Called(proc[d].rid, event, actor, target) /\ HeldAsBefore
         \/ UNCHANGED vars
         \/ IInv /\ Exhaust(proc[d].rid)
  PROVE  ParkIds' /\ (DefaultCeiling = 0 => FreeRun')
<1>1. CASE Called(proc[d].rid, event, actor, target) /\ HeldAsBefore
  <2>1. PICK n, m : proc[d].rid = <<"exec", proc[d].at, n, m, proc[d].verb>>
    BY DEF Spending, Priced
  <2>2. \A s, i, j : proc[d].rid # <<"exec", s, i, j, "overbudget">>
    BY <2>1
  <2>3. ParkIds'
    BY <1>1, <2>2, FiledIds DEF Called, Spending
  <2>4. QED
    BY <1>1, <2>3 DEF Called, HeldAsBefore, Spending, NoCeiling, FreeRun
<1>2. CASE UNCHANGED vars
  BY <1>2, SameBill DEF vars
<1>3. CASE IInv /\ Exhaust(proc[d].rid)
  BY <1>3, ExhaustPriced DEF Spending, NoCeiling
<1>4. QED
  BY <1>1, <1>2, <1>3

\* What each step of a lone driver keeps; only Dispatch begins a model call.
Careful(d) == Spending' /\ (proc'[d].pc = "model" => proc[d].pc = "model" \/ Dispatch(d))

LEMMA PlainCareful ==
  ASSUME DriverInv, LoneInv, Spending, NEW d \in Drivers, proc[d].pc \in Busy \cup {"pass"},
         NEW q, Goes(d, q), Plain(proc[d], q), q.pc # "model",
         ParkIds', DefaultCeiling = 0 => FreeRun'
  PROVE  Careful(d)
<1>1. proc'[d] = q
  BY Gone DEF DriverInv
<1>2. QED
  BY <1>1, PlainSpending DEF Careful

\* The calls after which a driver is through with its step.
LEMMA ThroughCareful ==
  ASSUME DriverInv, LoneInv, Spending, NEW d \in Drivers, proc[d].pc \in Busy \cup {"pass"},
         Goes(d, Dropped(proc[d])) \/ Goes(d, Idle) \/ Goes(d, Dead),
         ParkIds', DefaultCeiling = 0 => FreeRun'
  PROVE  Careful(d)
BY IdlePlain, PlainCareful

LEMMA StartPassCareful ==
  ASSUME Overlap = FALSE, DriverInv, LoneInv, Spending, NEW d \in Drivers,
         StartPass(d) \/ LeaveRun(d) \/ Crash(d)
  PROVE  Careful(d)
<1>1. ProcsOK /\ run' = run /\ log' = log /\ run.ceiling \in Nat
  BY RunTypes DEF StartPass, LeaveRun, Crash, vars, DriverInv
<1>2. \A e \in Drivers \ {d} : ~Awake(proc[e])
  BY DEF StartPass, LeaveRun, Crash, LoneInv, OneAwake, Awake
<1>3. PICK q : /\ Goes(d, q) /\ q.pc \in {"pass", "idle", "dead"}
               /\ q.pc = "pass" => q.snap = run
  <2> PICK q : q = [Idle EXCEPT !.pc = "pass", !.snap = run, !.todo = Ready(d), !.checks = Checks]
    OBVIOUS
  <2>1. q.pc = "pass" /\ q.snap = run /\ Idle.pc = "idle" /\ Dead.pc = "dead"
    BY DEF Dead, Idle
  <2>2. Goes(d, q) \/ Goes(d, Idle) \/ Goes(d, Dead)
    BY DEF StartPass, LeaveRun, Crash
  <2>3. QED
    BY <2>1, <2>2
<1>4. Priced(q, run')
  BY <1>1, <1>3 DEF Priced, Parking, Calling, Busy
<1>5. ParkIds' /\ (DefaultCeiling = 0 => FreeRun')
  BY <1>1, SameBill
<1>6. DefaultCeiling = 0 => FreeProc(q)
  BY <1>1, <1>3 DEF Spending, NoCeiling, FreeRun, FreeProc, Parking, Calling, Busy
<1>7. proc'[d] = q
  BY <1>1, <1>3, Gone
<1>8. QED
  BY <1>1, <1>2, <1>3, <1>4, <1>5, <1>6, <1>7, GoesPriced DEF Careful

LEMMA PickStepCareful ==
  ASSUME DriverInv, LoneInv, Spending, NEW d \in Drivers, NEW s \in Steps, PickStep(d, s)
  PROVE  Careful(d)
<1>1. proc[d].pc = "pass" /\ run' = run /\ log' = log /\ ProcOK(proc[d])
  BY ProcTypes DEF PickStep, vars
<1> PICK p : p = proc[d]
  OBVIOUS
<1> DEFINE q == [p EXCEPT !.todo = @ \ {s}, !.at = s]
<1>2. DOMAIN q = ProcFields /\ q.snap = p.snap
  BY <1>1 DEF ProcOK, ProcFields
<1>3. \/ Goes(d, [q EXCEPT !.pc = "prepare", !.verb = "claim"])
      \/ Goes(d, [q EXCEPT !.pc = "prepare", !.verb = "take"])
      \/ Goes(d, [q EXCEPT !.pc = "decide"])
  BY DEF PickStep
<1> HIDE DEF q
<1>4. PICK r : /\ Goes(d, r) /\ r.snap = p.snap
               /\ r.pc = "decide" \/ (r.pc = "prepare" /\ r.verb \in {"claim", "take"})
  <2> PICK a : a = [q EXCEPT !.pc = "prepare", !.verb = "claim"]
    OBVIOUS
  <2> PICK b : b = [q EXCEPT !.pc = "prepare", !.verb = "take"]
    OBVIOUS
  <2> PICK c : c = [q EXCEPT !.pc = "decide"]
    OBVIOUS
  <2>1. /\ a.pc = "prepare" /\ a.verb = "claim" /\ a.snap = p.snap
        /\ b.pc = "prepare" /\ b.verb = "take" /\ b.snap = p.snap
        /\ c.pc = "decide" /\ c.snap = p.snap
    BY <1>2 DEF ProcFields
  <2>2. Goes(d, a) \/ Goes(d, b) \/ Goes(d, c)
    BY <1>3
  <2>3. QED
    BY <2>1, <2>2
<1>5. Plain(p, r) /\ r.pc # "model"
  BY <1>4 DEF Plain
<1>6. QED
  BY <1>1, <1>4, <1>5, SameBill, PlainCareful

LEMMA PrepareCareful ==
  ASSUME DriverInv, LoneInv, Spending, NEW d \in Drivers, Prepare(d)
  PROVE  Careful(d)
<1> PICK p : p = proc[d]
  OBVIOUS
<1>1. p.pc = "prepare" /\ run' = run /\ log' = log /\ Awake(p) /\ ProcsOK /\ ProcOK(p)
  BY ProcTypes DEF Prepare, vars, Awake
<1> PICK token : token = IF run.step[p.at].token = 0 THEN None ELSE run.step[p.at].token
  OBVIOUS
<1> PICK rid : rid = Rid(p.at, p.verb)
  OBVIOUS
<1> PICK q : q = [p EXCEPT !.pc = "call", !.rid = rid, !.token = token]
  OBVIOUS
<1>2. /\ Goes(d, q) /\ q.pc = "call" /\ q.rid = rid /\ q.token = token /\ q.at = p.at
      /\ q.verb = p.verb /\ q.snap = p.snap
  BY <1>1 DEF Prepare, ProcOK, ProcFields
<1>3. \E n, m : rid = <<"exec", p.at, n, m, p.verb>>
  BY DEF Rid
<1>4. Priced(q, run') /\ (DefaultCeiling = 0 => FreeProc(q))
  BY <1>1, <1>2, <1>3 DEF Spending, NoCeiling, Priced, FreeProc, Parking, Calling, Busy
<1>5. \A e \in Drivers \ {d} : ~Awake(proc[e])
  BY <1>1, AloneHere
<1>6. proc'[d] = q
  BY <1>1, <1>2, Gone
<1>7. QED
  BY <1>1, <1>2, <1>4, <1>5, <1>6, SameBill, GoesPriced DEF Careful

LEMMA DecideCareful ==
  ASSUME DriverInv, LoneInv, Spending, NEW d \in Drivers, Decide(d)
  PROVE  Careful(d)
<1> PICK p : p = proc[d]
  OBVIOUS
<1> PICK seen : seen = IF p.taken THEN run ELSE p.snap
  OBVIOUS
<1> PICK file : file = <<p.at, "ungraded">>
  OBVIOUS
<1>1. /\ p.pc = "decide" /\ run' = run /\ log' = log /\ Awake(p) /\ p.pc \in Busy
      /\ ProcsOK /\ ProcOK(p) /\ IInv
  BY ProcTypes DEF Decide, vars, Awake, Busy
<1>2. /\ run.spend \in Nat /\ run.ceiling \in Nat /\ DefaultCeiling \in Nat /\ p.snap.ceiling \in Nat
  BY <1>1, RunTypes, BoundsAssumption DEF Spending, Priced
<1>3. seen.ceiling \in Nat /\ Ceiling(seen) \in Nat
  BY <1>2 DEF Ceiling
<1>4. PICK q : /\ Goes(d, q) /\ q.snap = p.snap /\ q.taken = p.taken
               /\ \/ q.pc = "prepare" /\ q.verb = "complete"
                  \/ q.pc = "prepare" /\ q.verb = "overbudget" /\ OverBudget(seen)
                  \/ q.pc = "dispatch" /\ ~OverBudget(seen)
  <2>1. \/ Goes(d, [p EXCEPT !.pc = "prepare", !.verb = "complete", !.file = file])
        \/ Goes(d, [p EXCEPT !.pc = "prepare", !.verb = "overbudget"]) /\ OverBudget(seen)
        \/ Goes(d, [p EXCEPT !.pc = "dispatch"]) /\ ~OverBudget(seen)
    BY DEF Decide
  <2>2. LET q == [p EXCEPT !.pc = "prepare", !.verb = "complete", !.file = file]
        IN q.pc = "prepare" /\ q.verb = "complete" /\ q.snap = p.snap /\ q.taken = p.taken
    BY <1>1 DEF ProcOK, ProcFields
  <2>3. LET q == [p EXCEPT !.pc = "prepare", !.verb = "overbudget"]
        IN q.pc = "prepare" /\ q.verb = "overbudget" /\ q.snap = p.snap /\ q.taken = p.taken
    BY <1>1 DEF ProcOK, ProcFields
  <2>4. LET q == [p EXCEPT !.pc = "dispatch"]
        IN q.pc = "dispatch" /\ q.snap = p.snap /\ q.taken = p.taken
    BY <1>1 DEF ProcOK, ProcFields
  <2>5. QED
    BY <2>1, <2>2, <2>3, <2>4
<1>5. Priced(q, run')
  BY <1>1, <1>2, <1>3, <1>4 DEF Priced, OverBudget, Parking, Calling
<1>6. DefaultCeiling = 0 => FreeProc(q)
  <2> SUFFICES ASSUME DefaultCeiling = 0 PROVE FreeProc(q)
    OBVIOUS
  <2>1. run.ceiling = 0 /\ p.snap.ceiling = 0
    BY <1>1 DEF Spending, NoCeiling, FreeRun, FreeProc
  <2>2. ~OverBudget(seen)
    BY <2>1 DEF OverBudget, Ceiling
  <2>3. QED
    BY <1>4, <2>1, <2>2 DEF FreeProc, Parking, Calling
<1>7. \A e \in Drivers \ {d} : ~Awake(proc[e])
  BY <1>1, AloneHere
<1>8. proc'[d] = q
  BY <1>1, <1>4, Gone
<1>9. QED
  BY <1>1, <1>4, <1>5, <1>6, <1>7, <1>8, SameBill, GoesPriced DEF Careful

LEMMA CallClaimCareful ==
  ASSUME DriverInv, LoneInv, Spending, NEW d \in Drivers, CallClaim(d) \/ CallTake(d)
  PROVE  Careful(d)
<1> PICK p : p = proc[d]
  OBVIOUS
<1>1. p.pc = "call" /\ p.pc \in Busy /\ p.verb \in {"claim", "take"}
  BY DEF CallClaim, CallTake, Calls, Hears, Busy
<1>2. IInv /\ run \in RunState /\ p.at \in Steps /\ d \in Holders /\ ProcOK(p)
  BY <1>1, ProcTypes, RunTypes
<1>3. \/ RequestStep(p.rid, p.at, Owner(p.at), d) \/ Take(p.rid, p.at, Owner(p.at), d)
      \/ UNCHANGED vars \/ Exhaust(p.rid)
  BY DEF CallClaim, CallTake, Calls, Hears
<1>4. ParkIds' /\ (DefaultCeiling = 0 => FreeRun')
  <2>1. CASE RequestStep(p.rid, p.at, Owner(p.at), d)
    <3> PICK event : event = "step.requested"
      OBVIOUS
    <3>1. Called(p.rid, event, Owner(p.at), p.at) /\ EnteredAs(event, p.at)
      BY <1>2, <2>1, StepCalled, RequestStepEntered
    <3>2. HeldAsBefore
      BY <3>1, EnteredHeld
    <3>3. QED
      BY <1>1, <3>1, <3>2, CallLeaves
  <2>2. CASE Take(p.rid, p.at, Owner(p.at), d)
    <3> PICK event : event = "step.taken"
      OBVIOUS
    <3>1. Called(p.rid, event, Owner(p.at), p.at) /\ EnteredAs(event, p.at)
      BY <1>2, <2>2, StepCalled, TakeEntered
    <3>2. HeldAsBefore
      BY <3>1, EnteredHeld
    <3>3. QED
      BY <1>1, <3>1, <3>2, CallLeaves
  <2>3. CASE UNCHANGED vars \/ Exhaust(p.rid)
    BY <1>1, <1>2, <2>3, CallLeaves
  <2>4. QED
    BY <1>3, <2>1, <2>2, <2>3
<1> PICK q : q = [p EXCEPT !.pc = "decide"]
  OBVIOUS
<1> PICK r : r = [p EXCEPT !.pc = "decide", !.taken = TRUE]
  OBVIOUS
<1>5. Goes(d, q) \/ Goes(d, r) \/ Goes(d, Dropped(p)) \/ Goes(d, Idle) \/ Goes(d, Dead)
  BY DEF CallClaim, CallTake, Calls, Hears
<1>6. Plain(p, q) /\ q.pc # "model" /\ Plain(p, r) /\ r.pc # "model"
  BY <1>2 DEF Plain, ProcOK, ProcFields
<1>7. QED
  BY <1>1, <1>4, <1>5, <1>6, PlainCareful, ThroughCareful

\* A park is refused only to a driver whose run has ended.
LEMMA CallOverBudgetCareful ==
  ASSUME DriverInv, LoneInv, Spending, NEW d \in Drivers, CallOverBudget(d)
  PROVE  Careful(d)
<1> PICK p : p = proc[d]
  OBVIOUS
<1> PICK s : s = p.at
  OBVIOUS
<1>1. p.pc = "call" /\ p.pc \in Busy /\ p.verb = "overbudget" /\ Parking(p) /\ Awake(p)
  BY DEF CallOverBudget, Calls, Hears, Busy, Parking, Calling, Awake
<1>2. /\ IInv /\ run \in RunState /\ s \in Steps /\ ProcsOK /\ ProcOK(p)
      /\ Aware(p, run, disk, cleared) /\ \A e \in Drivers \ {d} : ~Awake(proc[e])
  BY <1>1, AloneHere, RunTypes
<1>3. DefaultCeiling # 0
  BY <1>1 DEF Spending, NoCeiling, FreeProc
<1>4. PICK n, m : p.rid = <<"exec", s, n, m, "overbudget">>
  BY <1>1 DEF Spending, Priced
<1>5. ASSUME Hold(p.rid, s, Owner(s), p.token, "budget", 0)
      PROVE  ParkIds'
  <2>1. Called(p.rid, "step.held", Owner(s), s)
    BY <1>2, <1>5, StepCalled
  <2>2. \A x, i, j : p.rid = <<"exec", x, i, j, "overbudget">> => x = s
    BY <1>4
  <2>3. Filed(p.rid, "step.held", Owner(s), s)
    BY <2>1 DEF Called
  <2>4. QED
    BY <2>2, <2>3, FiledIds DEF Spending
<1>6. ASSUME UNCHANGED vars \/ Exhaust(p.rid)
      PROVE  ParkIds'
  BY <1>2, <1>6, SameBill, ExhaustPriced DEF vars, Spending
<1>7. ParkIds'
  BY <1>5, <1>6 DEF CallOverBudget, Calls, Hears
<1>8. CASE Goes(d, Dropped(p)) \/ Goes(d, Dead)
  BY <1>1, <1>3, <1>7, <1>8, ThroughCareful
<1>9. CASE /\ Goes(d, [p EXCEPT !.pc = "dispatch"])
           /\ \/ Survived /\ Exhaust(p.rid)
              \/ /\ Refusal(p.rid, "step.held", Owner(s), s, MayWrite(s, Owner(s), p.token))
                 /\ UNCHANGED vars
  <2>1. ASSUME Survived, Exhaust(p.rid) PROVE run'.status # "active"
    BY <1>2, <2>1, ExhaustPriced DEF Spending, Survived
  <2>2. ASSUME /\ Refusal(p.rid, "step.held", Owner(s), s, MayWrite(s, Owner(s), p.token))
               /\ UNCHANGED vars
        PROVE  run'.status # "active"
    <3> SUFFICES ASSUME run.status = "active" PROVE FALSE
      BY <2>2 DEF vars
    <3>1. run.step[s].status = "in_progress"
      BY <1>1, <1>2 DEF Aware, Working, Calling, DriverWrites
    <3>2. MayWrite(s, Owner(s), p.token)
      BY <1>1, <3>1 DEF MayWrite, Workable, ClaimAccepts, Spending, Priced
    <3>3. CASE Used(p.rid)
      <4>1. PICK e \in log : e.id = p.rid
        BY <3>3 DEF Used
      <4>2. e.event = "step.held" /\ e.actor = Owner(s) /\ e.target = s
        BY <1>4, <4>1 DEF Spending, ParkIds
      <4>3. QED
        BY <2>2, <3>3, <4>1, <4>2 DEF Refusal, Replayed
    <3>4. CASE ~Used(p.rid)
      BY <2>2, <3>2, <3>4 DEF Refusal
    <3>5. QED
      BY <3>3, <3>4
  <2>3. run'.status # "active"
    BY <1>9, <2>1, <2>2
  <2> PICK q : q = [p EXCEPT !.pc = "dispatch"]
    OBVIOUS
  <2>4. q.pc = "dispatch" /\ q.snap = p.snap /\ Goes(d, q)
    BY <1>2, <1>9 DEF ProcOK, ProcFields
  <2>5. Priced(q, run')
    BY <1>1, <2>3, <2>4 DEF Priced, Parking, Calling, Busy, Spending
  <2>6. proc'[d] = q
    BY <1>2, <2>4, Gone
  <2>7. QED
    BY <1>2, <1>3, <1>7, <2>4, <2>5, <2>6, GoesPriced DEF Careful
<1>10. QED
  BY <1>8, <1>9 DEF CallOverBudget, Calls, Hears

LEMMA DispatchCareful ==
  ASSUME DriverInv, LoneInv, Spending, NEW d \in Drivers, Dispatch(d)
  PROVE  Careful(d)
<1> PICK p : p = proc[d]
  OBVIOUS
<1>1. p.pc = "dispatch" /\ p.pc \in Busy /\ run' = run /\ log' = log /\ ProcOK(p)
  BY ProcTypes DEF Dispatch, vars, Busy
<1> PICK q : q = [p EXCEPT !.pc = "model"]
  OBVIOUS
<1> PICK r : r = [p EXCEPT !.pc = "prepare", !.verb = "fail"]
  OBVIOUS
<1>2. Goes(d, q) \/ Goes(d, r)
  BY DEF Dispatch
<1>3. Plain(p, q) /\ Plain(p, r)
  BY <1>1 DEF Plain, ProcOK, ProcFields
<1>4. QED
  BY <1>1, <1>2, <1>3, SameBill, PlainSpending DEF Careful

LEMMA ReplyCareful ==
  ASSUME DriverInv, LoneInv, Spending, NEW d \in Drivers, Reply(d)
  PROVE  Careful(d)
<1> PICK p : p = proc[d]
  OBVIOUS
<1>1. p.pc = "model" /\ p.pc \in Busy /\ ProcOK(p)
  BY ProcTypes DEF Reply, Busy
<1>2. run' = run /\ log' = log
  BY DEF Reply, Keep, WriteArtifact, vars, Grades
<1> PICK file : file = <<p.at, "work">>
  OBVIOUS
<1>3. CASE Drops(d)
  BY <1>1, <1>2, <1>3, SameBill, ThroughCareful DEF Drops
<1>4. ASSUME NEW verb, verb # "overbudget", NEW cost,
             Goes(d, [p EXCEPT !.pc = "prepare", !.verb = verb, !.cost = cost, !.file = file])
      PROVE  Careful(d)
  <2> PICK q : q = [p EXCEPT !.pc = "prepare", !.verb = verb, !.cost = cost, !.file = file]
    OBVIOUS
  <2>1. q.pc = "prepare" /\ q.verb = verb /\ q.snap = p.snap
    BY <1>1 DEF ProcOK, ProcFields
  <2>2. Plain(p, q) /\ q.pc # "model"
    BY <1>4, <2>1 DEF Plain
  <2>3. QED
    BY <1>1, <1>2, <1>4, <2>2, SameBill, PlainCareful
<1>5. \A g \in Grades : OutcomeOf(g) # "overbudget"
  BY DEF Grades, OutcomeOf
<1>6. \/ Drops(d)
      \/ \E verb, cost : /\ verb # "overbudget"
                         /\ Goes(d, [p EXCEPT !.pc = "prepare", !.verb = verb, !.cost = cost, !.file = file])
  BY <1>5 DEF Reply
<1>7. QED
  BY <1>3, <1>4, <1>6

LEMMA CallOutcomeCareful ==
  ASSUME DriverInv, LoneInv, Spending, NEW d \in Drivers, CallOutcome(d)
  PROVE  Careful(d)
<1> PICK p : p = proc[d]
  OBVIOUS
<1> PICK s : s = p.at
  OBVIOUS
<1>1. p.pc = "call" /\ p.pc \in Busy /\ p.verb # "overbudget"
  BY DEF CallOutcome, Calls, Hears, Busy
<1>2. /\ IInv /\ run \in RunState /\ s \in Steps /\ ProcOK(p) /\ p.cost \in Nat
      /\ p.verb = "complete" => p.file \in Artifacts
  BY <1>1, ProcTypes, RunTypes DEF ProcOK
<1>3. Goes(d, Dropped(p)) \/ Goes(d, Idle) \/ Goes(d, Dead)
  BY DEF CallOutcome, Calls, Hears
<1>4. ASSUME NEW event, Called(p.rid, event, Owner(s), s), HeldAsBefore
      PROVE  Careful(d)
  <2>1. ParkIds' /\ (DefaultCeiling = 0 => FreeRun')
    BY <1>1, <1>4, CallLeaves
  <2>2. QED
    BY <1>1, <1>3, <2>1, ThroughCareful
<1>5. CASE UNCHANGED vars \/ Exhaust(p.rid)
  <2>1. ParkIds' /\ (DefaultCeiling = 0 => FreeRun')
    BY <1>1, <1>2, <1>5, CallLeaves
  <2>2. QED
    BY <1>1, <1>3, <2>1, ThroughCareful
<1>6. CASE p.verb = "complete" /\ Complete(p.rid, s, Owner(s), p.token, p.file, p.cost)
  <2> PICK event : event = "step.completed"
    OBVIOUS
  <2>1. Called(p.rid, event, Owner(s), s) /\ EnteredAs(event, s)
    BY <1>2, <1>6, StepCalled, CompleteEntered
  <2>2. QED
    BY <1>4, <2>1, EnteredHeld
<1>7. CASE Fail(p.rid, s, Owner(s), p.token, p.cost)
  <2> PICK event : event = "step.failed"
    OBVIOUS
  <2>1. Called(p.rid, event, Owner(s), s) /\ EnteredAs(event, s)
    BY <1>2, <1>7, StepCalled, FailEntered
  <2>2. QED
    BY <1>4, <2>1, EnteredHeld
<1>8. CASE ReleaseStep(p.rid, s, Owner(s), p.token, p.cost)
  <2> PICK event : event = "step.released"
    OBVIOUS
  <2>1. Called(p.rid, event, Owner(s), s) /\ EnteredAs(event, s)
    BY <1>2, <1>8, StepCalled, ReleaseStepEntered
  <2>2. QED
    BY <1>4, <2>1, EnteredHeld
<1>9. CASE Hold(p.rid, s, Owner(s), p.token, "ungraded", p.cost)
  BY <1>2, <1>4, <1>9, StepCalled, UngradedHeld
<1>10. QED
  BY <1>5, <1>6, <1>7, <1>8, <1>9 DEF CallOutcome, Calls, Hears

LEMMA PickCheckCareful ==
  ASSUME DriverInv, LoneInv, Spending, NEW d \in Drivers, NEW s \in Steps, PickCheck(d, s)
  PROVE  Careful(d)
<1> PICK p : p = proc[d]
  OBVIOUS
<1>1. p.pc = "pass" /\ run' = run /\ log' = log /\ ProcOK(p)
  BY ProcTypes DEF PickCheck, vars
<1> DEFINE on == [p EXCEPT !.checks = @ \ {s}, !.at = s]
<1>2. DOMAIN on = ProcFields /\ on.snap = p.snap
  BY <1>1 DEF ProcOK, ProcFields
<1> PICK read : read = on.snap.step[s].pinned
  OBVIOUS
<1> DEFINE q == [on EXCEPT !.pc = "review", !.read = read]
<1>3. Goes(d, q) \/ Goes(d, Dropped(on))
  BY DEF PickCheck
<1> HIDE DEF on
<1>4. Plain(p, q) /\ q.pc # "model"
  BY <1>2 DEF Plain, ProcFields
<1>5. Plain(p, Dropped(on)) /\ Dropped(on).pc # "model"
  BY <1>2, IdlePlain DEF Plain
<1> HIDE DEF q
<1>6. QED
  BY <1>1, <1>3, <1>4, <1>5, SameBill, PlainCareful

LEMMA VerdictCareful ==
  ASSUME DriverInv, LoneInv, Spending, NEW d \in Drivers, Verdict(d)
  PROVE  Careful(d)
<1> PICK p : p = proc[d]
  OBVIOUS
<1>1. p.pc = "review" /\ p.pc \in Busy /\ run' = run /\ log' = log /\ ProcOK(p)
  BY ProcTypes DEF Verdict, WriteArtifact, vars, Busy
<1>2. CASE Drops(d)
  BY <1>1, <1>2, SameBill, ThroughCareful DEF Drops
<1>3. ASSUME NEW v, NEW c, NEW file,
             Goes(d, [p EXCEPT !.pc = "prepare", !.verb = "verdict-message", !.verdict = v,
                               !.cost = c, !.file = file])
      PROVE  Careful(d)
  <2> PICK q : q = [p EXCEPT !.pc = "prepare", !.verb = "verdict-message", !.verdict = v,
                             !.cost = c, !.file = file]
    OBVIOUS
  <2>1. q.pc = "prepare" /\ q.verb = "verdict-message" /\ q.snap = p.snap
    BY <1>1 DEF ProcOK, ProcFields
  <2>2. Plain(p, q) /\ q.pc # "model"
    BY <2>1 DEF Plain
  <2>3. QED
    BY <1>1, <1>3, <2>2, SameBill, PlainCareful
<1>4. QED
  BY <1>2, <1>3 DEF Verdict

LEMMA CallMessageCareful ==
  ASSUME DriverInv, LoneInv, Spending, NEW d \in Drivers, CallMessage(d)
  PROVE  Careful(d)
<1> PICK p : p = proc[d]
  OBVIOUS
<1> PICK s : s = p.at
  OBVIOUS
<1> PICK m : m = CHOOSE x \in Unsent : TRUE
  OBVIOUS
<1> PICK kind : kind = IF p.verdict = "check-approve" THEN "decision" ELSE "feedback"
  OBVIOUS
<1> PICK event : event = "message.sent"
  OBVIOUS
<1>1. p.pc = "call" /\ p.pc \in Busy /\ p.verb = "verdict-message" /\ Awake(p)
  BY DEF CallMessage, Calls, Hears, Busy, Awake
<1>2. /\ IInv /\ run \in RunState /\ s \in Steps /\ ProcOK(p) /\ Aware(p, run, disk, cleared)
      /\ p.file \in Artifacts /\ Checker(s) # None
  BY <1>1, AloneHere, RunTypes DEF ProcOK
<1>3. /\ m \in MessageIds /\ kind \in Kinds /\ Checker(s) \in Agents /\ Owner(s) \in Agents
  BY <1>2, WorkflowTypes DEF CallMessage, Unsent, Kinds
<1>4. \/ SendMessage(p.rid, m, s, Checker(s), Owner(s), kind, None, p.file)
      \/ UNCHANGED vars \/ Exhaust(p.rid)
  BY DEF CallMessage, Calls, Hears
<1>5. ParkIds' /\ (DefaultCeiling = 0 => FreeRun')
  <2>1. CASE SendMessage(p.rid, m, s, Checker(s), Owner(s), kind, None, p.file)
    <3>1. Called(p.rid, event, Checker(s), m)
      BY <1>2, <2>1, ReviewCalled
    <3>2. EnteredAs(event, m)
      BY <1>2, <1>3, <2>1, SendMessageEntered
    <3>3. HeldAsBefore
      BY <1>2, <3>2, EnteredHeld
    <3>4. QED
      BY <1>1, <3>1, <3>3, CallLeaves
  <2>2. CASE UNCHANGED vars \/ Exhaust(p.rid)
    BY <1>1, <1>2, <2>2, CallLeaves
  <2>3. QED
    BY <1>4, <2>1, <2>2
<1> PICK q : q = [p EXCEPT !.pc = "prepare", !.verb = p.verdict, !.message = m]
  OBVIOUS
<1>6. Goes(d, q) \/ Goes(d, Idle) \/ Goes(d, Dead)
  BY DEF CallMessage, Calls, Hears
<1>7. q.pc = "prepare" /\ q.verb = p.verdict /\ q.snap = p.snap
  BY <1>2 DEF ProcOK, ProcFields
<1>8. p.verdict # "overbudget"
  BY <1>1, <1>2 DEF Aware, Calling, Verdicts
<1>9. Plain(p, q) /\ q.pc # "model"
  BY <1>7, <1>8 DEF Plain
<1>10. QED
  BY <1>1, <1>5, <1>6, <1>9, PlainCareful, ThroughCareful

LEMMA CallVerdictCareful ==
  ASSUME DriverInv, LoneInv, Spending, NEW d \in Drivers, CallVerdict(d)
  PROVE  Careful(d)
<1> PICK p : p = proc[d]
  OBVIOUS
<1> PICK s : s = p.at
  OBVIOUS
<1>1. p.pc = "call" /\ p.pc \in Busy /\ p.verb # "overbudget"
  BY DEF CallVerdict, Calls, Hears, Busy
<1>2. IInv /\ run \in RunState /\ s \in Steps /\ p.cost \in Nat
  BY <1>1, ProcTypes, RunTypes DEF ProcOK
<1>3. Goes(d, Dropped(p)) \/ Goes(d, Idle) \/ Goes(d, Dead)
  BY DEF CallVerdict, Calls, Hears
<1>4. \/ \E event : Called(p.rid, event, Checker(s), s) /\ EnteredAs(event, s) /\ event # "step.held"
      \/ UNCHANGED vars \/ Exhaust(p.rid)
  <2>1. CheckApprove(p.rid, s, Checker(s), p.message, p.cost)
          => Called(p.rid, "check.approved", Checker(s), s) /\ EnteredAs("check.approved", s)
    BY <1>2, ReviewCalled, CheckApproveEntered
  <2>2. CheckReturn(p.rid, s, Checker(s), p.message, p.cost)
          => Called(p.rid, "check.returned", Checker(s), s) /\ EnteredAs("check.returned", s)
    BY <1>2, ReviewCalled, CheckReturnEntered
  <2>3. CheckReject(p.rid, s, Checker(s), p.message, p.cost)
          => Called(p.rid, "check.rejected", Checker(s), s) /\ EnteredAs("check.rejected", s)
    BY <1>2, ReviewCalled, CheckRejectEntered
  <2>4. \/ CheckApprove(p.rid, s, Checker(s), p.message, p.cost)
        \/ CheckReturn(p.rid, s, Checker(s), p.message, p.cost)
        \/ CheckReject(p.rid, s, Checker(s), p.message, p.cost)
        \/ UNCHANGED vars \/ Exhaust(p.rid)
    BY DEF CallVerdict, Calls, Hears
  <2>5. QED
    BY <2>1, <2>2, <2>3, <2>4
<1>5. ParkIds' /\ (DefaultCeiling = 0 => FreeRun')
  BY <1>1, <1>2, <1>4, EnteredHeld, CallLeaves
<1>6. QED
  BY <1>1, <1>3, <1>5, ThroughCareful
-----------------------------------------------------------------------------
LEMMA ExhaustModest ==
  ASSUME IInv, ParkIds, NEW rid, Exhaust(rid)
  PROVE  Modest /\ ParkIds'
<1>1. run \in RunState /\ run.status = "active"
  BY RunTypes DEF Exhaust, Admitted
<1>2. run'.spend = run.spend /\ run'.ceiling = run.ceiling /\ run'.step = run.step
  BY <1>1 DEF Exhaust, Record, AppendEvent, RunState
<1>3. ParkIds'
  BY ExhaustPriced
<1>4. QED
  BY <1>1, <1>2, <1>3 DEF Modest

\* No id a person decides under is one a driver parks under.
LEMMA DecisionIds ==
  ASSUME NEW rid, NEW s, NEW verb, NEW event, NEW target,
         rid = DecisionId(s, verb, event) \/ rid = Fresh(event, target), verb # "overbudget"
  PROVE  \A x, n, m : rid # <<"exec", x, n, m, "overbudget">>
<1>1. Rid(s, verb)[5] = verb /\ \A e, t : Fresh(e, t)[1] = "uuid"
  BY DEF Rid, Fresh
<1>2. \A x, n, m : LET id == <<"exec", x, n, m, "overbudget">> IN id[1] = "exec" /\ id[5] = "overbudget"
  OBVIOUS
<1>3. rid[5] = verb \/ rid[1] = "uuid"
  BY <1>1 DEF DecisionId
<1>4. QED
  BY <1>2, <1>3

LEMMA DecidesSpending ==
  ASSUME "extend" \notin HumanVerbs, DriverInv, LoneInv, Spending, NEW p \in Humans, Decides(p)
  PROVE  Spending' /\ UNCHANGED proc
<1>1. IInv /\ ParkIds
  BY DEF DriverInv, Spending
<1>2. UNCHANGED proc
  BY DEF Decides, PersonCancels, PersonExtends, PersonApproves, PersonRejects, PersonExpires, driverVars
<1>3. ASSUME NEW rid, NEW s, NEW verb, NEW event, NEW target, NEW actor,
             rid = DecisionId(s, verb, event) \/ rid = Fresh(event, target), verb # "overbudget",
             Filed(rid, event, actor, target)
      PROVE  ParkIds'
  BY <1>1, <1>3, DecisionIds, FiledIds
<1>4. Modest /\ ParkIds'
  <2>1. CASE PersonCancels(p)
    <3> PICK rid : rid = Fresh("run.cancelled", "run")
      OBVIOUS
    <3>1. CancelRun(rid, p) \/ Exhaust(rid)
      BY <2>1 DEF PersonCancels
    <3>2. CASE Exhaust(rid)
      BY <1>1, <3>2, ExhaustModest
    <3>3. CASE CancelRun(rid, p)
      <4>1. Modest /\ Filed(rid, "run.cancelled", p, "run")
        BY <1>1, <3>3, CancelModest
      <4>2. QED
        BY <1>3, <4>1
    <3>4. QED
      BY <3>1, <3>2, <3>3
  <2>2. ASSUME NEW s \in Steps, PersonApproves(s, p)
        PROVE  Modest /\ ParkIds'
    <3> PICK rid : rid = DecisionId(s, "approve", "step.approved")
      OBVIOUS
    <3>1. Approve(rid, s, p) \/ Exhaust(rid)
      BY <2>2 DEF PersonApproves
    <3>2. CASE Exhaust(rid)
      BY <1>1, <3>2, ExhaustModest
    <3>3. CASE Approve(rid, s, p)
      <4>1. Modest /\ Filed(rid, "step.approved", p, s)
        BY <1>1, <3>3, ApproveModest
      <4>2. QED
        BY <1>3, <4>1
    <3>4. QED
      BY <3>1, <3>2, <3>3
  <2>3. ASSUME NEW s \in Steps, PersonRejects(s, p)
        PROVE  Modest /\ ParkIds'
    <3> PICK rid : rid = DecisionId(s, "reject", "step.rejected")
      OBVIOUS
    <3>1. Reject(rid, s, p) \/ Exhaust(rid)
      BY <2>3 DEF PersonRejects
    <3>2. CASE Exhaust(rid)
      BY <1>1, <3>2, ExhaustModest
    <3>3. CASE Reject(rid, s, p)
      <4>1. Modest /\ Filed(rid, "step.rejected", p, s)
        BY <1>1, <3>3, PeopleModest
      <4>2. QED
        BY <1>3, <4>1
    <3>4. QED
      BY <3>1, <3>2, <3>3
  <2>4. ASSUME NEW s \in Steps, PersonExpires(s, p)
        PROVE  Modest /\ ParkIds'
    <3> PICK rid : rid = Fresh("claim.expired", s)
      OBVIOUS
    <3>1. ExpireClaim(rid, s, p) \/ Exhaust(rid)
      BY <2>4 DEF PersonExpires
    <3>2. CASE Exhaust(rid)
      BY <1>1, <3>2, ExhaustModest
    <3>3. CASE ExpireClaim(rid, s, p)
      <4>1. Modest /\ Filed(rid, "claim.expired", p, s)
        BY <1>1, <3>3, PeopleModest
      <4>2. QED
        BY <1>3, <4>1
    <3>4. QED
      BY <3>1, <3>2, <3>3
  <2>5. QED
    BY <2>1, <2>2, <2>3, <2>4 DEF Decides, PersonExtends
<1>5. QED
  BY <1>2, <1>4, ModestPriced

LEMMA LapsesSpending ==
  ASSUME DriverInv, LoneInv, Spending, NEW s \in Steps, TimePasses(s)
  PROVE  Spending' /\ UNCHANGED proc
<1>1. IInv /\ ClaimLapses(s) /\ UNCHANGED proc
  BY DEF DriverInv, TimePasses, driverVars
<1>2. Modest
  BY <1>1, PeopleModest
<1>3. run'.status = run.status /\ log' = log
  BY <1>1, RunTypes DEF ClaimLapses, RunState
<1>4. ParkIds'
  BY <1>3 DEF Spending, ParkIds
<1>5. QED
  BY <1>1, <1>2, <1>4, ModestPriced

LEMMA DriverGoes ==
  ASSUME NEW d \in Drivers, Drives(d) \/ Crash(d)
  PROVE  \E q : Goes(d, q)
<1>1. ASSUME CallClaim(d) \/ CallTake(d) \/ CallOverBudget(d) \/ CallOutcome(d) \/ CallMessage(d) \/ CallVerdict(d)
      PROVE  \E q : Goes(d, q)
  BY <1>1, Zenon DEF CallClaim, CallTake, CallOverBudget, CallOutcome, CallMessage, CallVerdict, Calls, Hears
<1>2. ASSUME \/ StartPass(d) \/ LeaveRun(d) \/ Prepare(d) \/ Decide(d) \/ Dispatch(d) \/ Reply(d)
             \/ Verdict(d) \/ Crash(d) \/ \E s \in Steps : PickStep(d, s) \/ PickCheck(d, s)
      PROVE  \E q : Goes(d, q)
  BY <1>2, Zenon DEF StartPass, LeaveRun, Prepare, Decide, Dispatch, Reply, Verdict, Crash,
                     PickStep, PickCheck, Drops
<1>3. QED
  BY <1>1, <1>2 DEF Drives

\* Whatever happens, the bill stays as the drivers take it to be, and only
\* Dispatch begins a model call.
LEMMA SpendingNext ==
  ASSUME Overlap = FALSE, Workers = {}, "extend" \notin HumanVerbs,
         DriverInv, LoneInv, Spending, [DriverNext]_allVars
  PROVE  /\ Spending'
         /\ \A d \in Drivers : proc'[d].pc = "model" => proc[d].pc = "model" \/ Dispatch(d)
<1>1. ASSUME NEW d \in Drivers, Drives(d) \/ Crash(d)
      PROVE  Careful(d) /\ \A e \in Drivers \ {d} : proc'[e] = proc[e]
  <2>1. Careful(d)
    BY <1>1, StartPassCareful, PrepareCareful, CallClaimCareful, DecideCareful, CallOverBudgetCareful,
       DispatchCareful, ReplyCareful, CallOutcomeCareful, VerdictCareful, CallMessageCareful,
       CallVerdictCareful, PickStepCareful, PickCheckCareful DEF Drives
  <2>2. \E q : Goes(d, q)
    BY <1>1, DriverGoes
  <2>3. QED
    BY <2>1, <2>2 DEF DriverInv, ProcsOK, Goes
<1>2. CASE UNCHANGED allVars
  <2>1. UNCHANGED <<run, log, proc>>
    BY <1>2 DEF allVars, vars
  <2>2. QED
    BY <2>1 DEF Spending, ParkIds, NoCeiling, FreeRun
<1>3. ASSUME NEW p \in Humans, Decides(p)
      PROVE  Spending' /\ UNCHANGED proc
  BY <1>3, DecidesSpending
<1>4. ASSUME NEW s \in Steps, TimePasses(s)
      PROVE  Spending' /\ UNCHANGED proc
  BY <1>4, LapsesSpending
<1>5. CASE \E d \in Drivers : Drives(d) \/ Crash(d)
  BY <1>1, <1>5 DEF Careful
<1>6. QED
  BY <1>2, <1>3, <1>4, <1>5 DEF DriverNext

LEMMA SpendingInit ==
  ASSUME DriverInit
  PROVE  Spending
<1>1. PICK planned \in Costs : run = CreateRun(planned)
  BY DEF DriverInit, Init
<1>2. /\ run.ceiling = 0 /\ \A s \in Steps : run.step[s].held = "none"
      /\ log = {CreatedEvent} /\ \A d \in Drivers : proc[d] = Idle
  BY <1>1 DEF DriverInit, Init, CreateRun, NewStep
<1>3. ParkIds
  BY <1>2 DEF ParkIds, CreatedEvent
<1>4. ~Awake(Idle)
  BY DEF Awake, Idle
<1>5. \A d \in Drivers : Priced(proc[d], run) /\ FreeProc(proc[d])
  BY <1>2, <1>4, AsleepPriced
<1>6. QED
  BY <1>2, <1>3, <1>5 DEF Spending, NoCeiling, FreeRun

\* A lone driver starts no model call for work once the ceiling is spent, as
\* long as nobody extends the run: a park that the cycle limit refuses does not
\* stop the call, so a person who extends the run in between lets it go out.
THEOREM LoneDriverMindsTheCeiling ==
  ASSUME Overlap = FALSE, Workers = {}, "extend" \notin HumanVerbs
  PROVE  DriverSpec => NothingDispatchedOverCeiling
<1> DEFINE Rule == \A d \in Drivers :
                     run.status = "active" /\ proc'[d].pc = "model" /\ proc[d].pc # "model" =>
                       LET r == IF proc[d].taken THEN run ELSE proc[d].snap IN
                       Ceiling(r) # 0 => run.spend < Ceiling(r)
<1>1. DriverInv /\ LoneInv /\ Spending /\ [DriverNext]_allVars => Spending' /\ [Rule]_allVars
  <2> SUFFICES ASSUME DriverInv, LoneInv, Spending, [DriverNext]_allVars
               PROVE  Spending' /\ Rule
    OBVIOUS
  <2>1. Spending' /\ \A d \in Drivers : proc'[d].pc = "model" => proc[d].pc = "model" \/ Dispatch(d)
    BY SpendingNext
  <2>2. Rule
    BY <2>1 DEF Dispatch, Spending, Priced
  <2>3. QED
    BY <2>1, <2>2
<1>2. DriverInit => Spending
  BY SpendingInit
<1>3. QED
  BY <1>1, <1>2, DriverSoundness, LoneDriverKnows, PTL DEF DriverSpec, NothingDispatchedOverCeiling
====
