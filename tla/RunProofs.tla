----------------------------- MODULE RunProofs -----------------------------
(***************************************************************************)
(* What holds of every run, whatever its workflow, its callers and bounds. *)
(*                                                                         *)
(* Every verb computes a new state from the old one and hands it to Record.*)
(* So the invariant is stated of a state r, and of the number n no token   *)
(* may exceed: Sound(run, run.seq) is the inductive invariant, and a verb  *)
(* preserves it when it hands over a state that is Sound up to run.seq + 1.*)
(* The books, and last the bill, are compared with the log on top of that. *)
(***************************************************************************)
EXTENDS RunProperties, FiniteSetTheorems, TLAPS

\* The claim fields of one step belong together.
ClaimOK(st) ==
  /\ st.holder # None => st.status = "in_progress"
  /\ st.holder # None <=> st.token # 0
  /\ st.live => st.holder # None

DepsOK(r) == \A s \in Steps : r.step[s].status # "pending" =>
               \A d \in DependsOn(s) : r.step[d].status = "completed"

EndOK(r) ==
  /\ r.status = "completed" <=> \A s \in Steps : r.step[s].status = "completed"
  /\ \A why \in Refused : r.status = why <=> \E s \in Steps : r.step[s].status = why

CapsOK(r) == \A s \in Steps : /\ r.step[s].attempts <= MaxAttempts(s)
                              /\ r.step[s].reviews <= MaxReviews(s)

TokensOK(r, n) ==
  /\ \A s \in Steps : r.step[s].token <= n
  /\ \A s, t \in Steps : s # t /\ r.step[s].token # 0 => r.step[s].token # r.step[t].token

\* Only a step that has a checker waits for one.
CheckedOK(r) == \A s \in Steps : r.step[s].status = "awaiting_check" => Checker(s) # None

Sound(r, n) ==
  /\ r \in RunState
  /\ DepsOK(r) /\ EndOK(r) /\ CapsOK(r) /\ TokensOK(r, n) /\ CheckedOK(r)
  /\ \A s \in Steps : ClaimOK(r.step[s])

IInv == TypeOK /\ Sound(run, run.seq)

-----------------------------------------------------------------------------
\* What is known of a workflow's limits, without its whole validity.
LEMMA WorkflowTypes ==
  ASSUME NEW s \in Steps
  PROVE  /\ MaxAttempts(s) \in Nat /\ MaxAttempts(s) >= 1 /\ MaxReviews(s) \in Nat
         /\ DependsOn(s) \subseteq Steps
         /\ Owner(s) \in Agents /\ Checker(s) \in Agents \cup {None}
         /\ Risk(s) \in {"green", "yellow", "red"}
         /\ Checker(s) # None => Risk(s) = "green"
BY WorkflowAssumption
   DEF ValidWorkflow, MaxAttempts, MaxReviews, DependsOn, Owner, Checker, Risk

\* A state a verb may hand to mutate: sound, and with no token but the run's
\* own and the one that mint_claim would grant now.
OldOrNew(st, old) ==
  st.token \in {0, run.seq + 1} \/ (st.token = old.token /\ st.holder = old.holder)
OldOrNewToken(r) == \A x \in Steps : OldOrNew(r.step[x], run.step[x])
NextOK(r) == Sound(r, run.seq + 1) /\ r.seq = run.seq /\ OldOrNewToken(r)

\* What every step of the specification does with a sound run.
Preserved ==
  /\ IInv' /\ run'.seq \in {run.seq, run.seq + 1}
  /\ \A x \in Steps : OldOrNew(run'.step[x], run.step[x])

LEMMA RunTypes ==
  ASSUME IInv
  PROVE  /\ run \in RunState /\ run.seq \in Nat /\ run.cycles \in Nat
         /\ run.spend \in Nat /\ run.ceiling \in Nat
         /\ \A s \in Steps : /\ run.step[s] \in StepState
                             /\ run.step[s].token \in Nat /\ run.step[s].token <= run.seq
                             /\ run.step[s].attempts \in Nat /\ run.step[s].reviews \in Nat
                             /\ run.step[s].attempts <= MaxAttempts(s)
                             /\ run.step[s].reviews <= MaxReviews(s)
                             /\ ClaimOK(run.step[s])
BY DEF IInv, Sound, RunState, StepState, CapsOK, TokensOK, CheckedOK

\* The run as it stands is always one.
LEMMA SameState ==
  ASSUME IInv
  PROVE  NextOK(run)
<1>1. TokensOK(run, run.seq + 1)
  BY RunTypes DEF IInv, Sound, TokensOK
<1>2. QED
  BY <1>1 DEF IInv, Sound, NextOK, OldOrNewToken, OldOrNew

\* A step that is past pending and not finished can be put in any other open
\* state whose claim fields fit and whose token is its old one or the new one.
LEMMA PutSound ==
  ASSUME NEW s \in Steps, NEW st \in StepState,
         IInv, run.status = "active",
         run.step[s].status \notin {"pending", "completed"},
         st.status \in {"ready", "in_progress", "awaiting_approval", "awaiting_check"},
         ClaimOK(st),
         OldOrNew(st, run.step[s]), st.status = "awaiting_check" => Checker(s) # None,
         st.attempts <= MaxAttempts(s), st.reviews <= MaxReviews(s)
  PROVE  NextOK(Put(s, st)) /\ Put(s, st).status = "active" /\ Put(s, st).step[s] = st
<1> DEFINE r == Put(s, st)
<1> USE RunTypes
<1>1. r \in RunState
  BY DEF Put, RunState
<1>2. /\ r.status = run.status /\ r.seq = run.seq
      /\ r.step[s] = st
      /\ \A x \in Steps : x # s => r.step[x] = run.step[x]
  BY DEF Put, RunState
<1>3. DepsOK(r)
  BY <1>2, WorkflowTypes DEF IInv, Sound, DepsOK
<1>4. EndOK(r)
  BY <1>2 DEF IInv, Sound, EndOK, Refused
<1>5. CapsOK(r) /\ CheckedOK(r)
  BY <1>2 DEF IInv, Sound, CapsOK, CheckedOK
<1>6. TokensOK(r, run.seq + 1)
  BY <1>2 DEF IInv, Sound, TokensOK, OldOrNew
<1>7. \A x \in Steps : ClaimOK(r.step[x])
  BY <1>2
<1>8. OldOrNewToken(r)
  BY <1>2 DEF OldOrNewToken, OldOrNew
<1>9. QED
  BY <1>1, <1>2, <1>3, <1>4, <1>5, <1>6, <1>7, <1>8 DEF Sound, NextOK

\* Another status, or another bill, leaves the rest of a step alone.
LEMMA StatusChanged ==
  ASSUME NEW st \in StepState, NEW w \in StepStatus
  PROVE  LET q == [st EXCEPT !.status = w]
         IN /\ q \in StepState /\ q.status = w
            /\ q.attempts = st.attempts /\ q.reviews = st.reviews
            /\ q.holder = st.holder /\ q.token = st.token /\ q.live = st.live
BY DEF StepState

LEMMA SpendChanged ==
  ASSUME NEW st \in StepState, NEW n \in Nat
  PROVE  LET q == [st EXCEPT !.spend = @ + n]
         IN /\ q \in StepState /\ q.status = st.status
            /\ q.attempts = st.attempts /\ q.reviews = st.reviews
            /\ q.holder = st.holder /\ q.token = st.token /\ q.live = st.live
BY DEF StepState

\* Charging a call changes nothing but the bill.
LEMMA ChargeSound ==
  ASSUME NEW r, NEW s \in Steps, NEW cost \in Nat, IInv, NextOK(r)
  PROVE  /\ NextOK(Charge(r, s, cost))
         /\ Charge(r, s, cost).status = r.status
         /\ \A x \in Steps : /\ Charge(r, s, cost).step[x].status = r.step[x].status
                             /\ Charge(r, s, cost).step[x].holder = r.step[x].holder
<1> DEFINE st == [r.step[s] EXCEPT !.spend = @ + cost]
           f == [r.step EXCEPT ![s] = st]
           bill == r.spend + cost
           q == Charge(r, s, cost)
<1>1. /\ r \in RunState /\ r.step \in [Steps -> StepState] /\ r.spend \in Nat
      /\ r.step[s] \in StepState
  BY DEF NextOK, Sound, RunState
<1>2. /\ st \in StepState /\ st.status = r.step[s].status
      /\ st.attempts = r.step[s].attempts /\ st.reviews = r.step[s].reviews
      /\ st.holder = r.step[s].holder /\ st.token = r.step[s].token /\ st.live = r.step[s].live
  BY <1>1, SpendChanged
<1>3. q = [r EXCEPT !.step = f, !.spend = bill]
  BY DEF Charge
<1>a. bill \in Nat
  BY <1>1
<1> HIDE DEF st, q, bill
<1>4. /\ f \in [Steps -> StepState] /\ f[s] = st
      /\ \A x \in Steps : x # s => f[x] = r.step[x]
  BY <1>1, <1>2
<1> HIDE DEF f
<1>5. /\ q \in RunState /\ q.status = r.status /\ q.seq = r.seq /\ q.step = f
  BY <1>a, <1>1, <1>3, <1>4 DEF RunState
<1>6. \A x \in Steps : /\ f[x].status = r.step[x].status
                       /\ f[x].attempts = r.step[x].attempts /\ f[x].reviews = r.step[x].reviews
                       /\ f[x].holder = r.step[x].holder /\ f[x].token = r.step[x].token
                       /\ f[x].live = r.step[x].live
  BY <1>2, <1>4
<1>7. DepsOK(q) /\ EndOK(q)
  BY <1>5, <1>6, WorkflowTypes DEF NextOK, Sound, DepsOK, EndOK
<1>8. CapsOK(q) /\ TokensOK(q, run.seq + 1) /\ CheckedOK(q) /\ \A x \in Steps : ClaimOK(q.step[x])
  BY <1>5, <1>6 DEF NextOK, Sound, CapsOK, TokensOK, CheckedOK, ClaimOK
<1>9. OldOrNewToken(q)
  BY <1>5, <1>6 DEF NextOK, OldOrNewToken, OldOrNew
<1>10. QED
  BY <1>5, <1>6, <1>7, <1>8, <1>9 DEF NextOK, Sound, q

\* Refusing a step that nobody holds ends the run with the same word.
LEMMA StopSound ==
  ASSUME NEW r, NEW s \in Steps, NEW why \in Refused, IInv, NextOK(r), r.status = "active",
         r.step[s].status \notin {"pending", "completed"}, r.step[s].holder = None
  PROVE  NextOK(Stop(r, s, why))
<1> DEFINE st == [r.step[s] EXCEPT !.status = why]
           f == [r.step EXCEPT ![s] = st]
           q == Stop(r, s, why)
<1>1. /\ r \in RunState /\ r.step \in [Steps -> StepState] /\ r.step[s] \in StepState
      /\ why \in StepStatus /\ why \in TerminalRun /\ why \notin {"pending", "completed", "active"}
  BY DEF NextOK, Sound, RunState, StepStatus, TerminalRun, Refused
<1>2. /\ st \in StepState /\ st.status = why
      /\ st.attempts = r.step[s].attempts /\ st.reviews = r.step[s].reviews
      /\ st.holder = r.step[s].holder /\ st.token = r.step[s].token /\ st.live = r.step[s].live
  BY <1>1, StatusChanged
<1>3. q = [r EXCEPT !.step = f, !.status = why]
  BY DEF Stop
<1> HIDE DEF st, q
<1>4. /\ f \in [Steps -> StepState] /\ f[s] = st
      /\ \A x \in Steps : x # s => f[x] = r.step[x]
  BY <1>1, <1>2
<1> HIDE DEF f
<1>5. /\ q \in RunState /\ q.status = why /\ q.seq = r.seq /\ q.step = f
  BY <1>1, <1>3, <1>4 DEF RunState
<1>6. \A x \in Steps : /\ x # s => f[x].status = r.step[x].status
                       /\ f[x].attempts = r.step[x].attempts /\ f[x].reviews = r.step[x].reviews
                       /\ f[x].holder = r.step[x].holder /\ f[x].token = r.step[x].token
                       /\ f[x].live = r.step[x].live
  BY <1>2, <1>4
<1>7. DepsOK(q)
  <2> SUFFICES ASSUME NEW x \in Steps, f[x].status # "pending", NEW d \in DependsOn(x)
               PROVE  f[d].status = "completed"
    BY <1>5 DEF DepsOK
  <2>1. d \in Steps /\ r.step[x].status # "pending"
    BY <1>6, WorkflowTypes
  <2>2. r.step[d].status = "completed"
    BY <2>1 DEF NextOK, Sound, DepsOK
  <2>3. QED
    BY <1>6, <2>1, <2>2
<1>8. EndOK(q)
  <2>1. \A x \in Steps : r.step[x].status \notin Refused
    BY DEF NextOK, Sound, EndOK, Refused
  <2>2. f[s].status = why
    BY <1>2, <1>4
  <2>3. QED
    BY <1>1, <1>5, <1>6, <2>1, <2>2 DEF EndOK, Refused
<1>9. CapsOK(q) /\ TokensOK(q, run.seq + 1)
  BY <1>5, <1>6 DEF NextOK, Sound, CapsOK, TokensOK
<1>b. CheckedOK(q)
  BY <1>2, <1>4, <1>5, <1>6 DEF NextOK, Sound, CheckedOK, Refused
<1>10. \A x \in Steps : ClaimOK(q.step[x])
  BY <1>2, <1>4, <1>5, <1>6 DEF NextOK, Sound, ClaimOK
<1>11. OldOrNewToken(q)
  BY <1>5, <1>6 DEF NextOK, OldOrNewToken, OldOrNew
<1>12. QED
  BY <1>5, <1>7, <1>8, <1>9, <1>b, <1>10, <1>11 DEF NextOK, Sound, q

\* What release_dependents makes of a state: every step waiting for nothing any
\* more becomes ready, and the run is completed when all its steps are.
Unblocked(m, x) == m.step[x].status = "pending" /\ \A d \in DependsOn(x) : m.step[d].status = "completed"

LEMMA ReleaseDependentsState ==
  ASSUME NEW m \in RunState
  PROVE  /\ ReleaseDependents(m) \in RunState
         /\ ReleaseDependents(m).seq = m.seq
         /\ ReleaseDependents(m).status = IF \A x \in Steps : m.step[x].status = "completed"
                                         THEN "completed" ELSE m.status
         /\ \A x \in Steps : ReleaseDependents(m).step[x] =
              IF Unblocked(m, x) THEN [m.step[x] EXCEPT !.status = "ready"] ELSE m.step[x]
<1> DEFINE f == [x \in Steps |-> IF Unblocked(m, x) THEN [m.step[x] EXCEPT !.status = "ready"]
                                                 ELSE m.step[x]]
           e == IF \A x \in Steps : m.step[x].status = "completed" THEN "completed" ELSE m.status
<1>1. ReleaseDependents(m) = [m EXCEPT !.step = f, !.status = e]
  BY DEF ReleaseDependents, Unblocked
<1>2. \A x \in Steps : [m.step[x] EXCEPT !.status = "ready"] \in StepState /\ m.step[x] \in StepState
  BY DEF RunState, StepState, StepStatus
<1>3. f \in [Steps -> StepState]
  BY <1>2
<1>4. e \in TerminalRun \cup {"active"}
  BY DEF RunState, TerminalRun
<1>5. \A x \in Steps : f[x] = IF Unblocked(m, x) THEN [m.step[x] EXCEPT !.status = "ready"] ELSE m.step[x]
  OBVIOUS
<1> HIDE DEF f
<1>6. /\ ReleaseDependents(m) \in RunState
      /\ ReleaseDependents(m).seq = m.seq
      /\ ReleaseDependents(m).step = f
      /\ ReleaseDependents(m).status = e
  BY <1>1, <1>3, <1>4 DEF RunState
<1>7. QED
  BY <1>5, <1>6

\* Finishing a step frees exactly what it was holding up, and ends the run
\* when it was the last.
LEMMA FinishSound ==
  ASSUME NEW r, NEW s \in Steps, IInv, NextOK(r), r.status = "active",
         r.step[s].status \notin {"pending", "completed"}, r.step[s].holder = None
  PROVE  NextOK(Finish(r, s))
<1> DEFINE m == [r EXCEPT !.step[s].status = "completed"]
           q == ReleaseDependents(m)
<1> DEFINE st == [r.step[s] EXCEPT !.status = "completed"]
           f == [r.step EXCEPT ![s] = st]
<1>a. /\ r \in RunState /\ r.step \in [Steps -> StepState] /\ r.step[s] \in StepState
      /\ "completed" \in StepStatus
  BY DEF NextOK, Sound, RunState, StepStatus
<1>b. /\ st \in StepState /\ st.status = "completed"
      /\ st.attempts = r.step[s].attempts /\ st.reviews = r.step[s].reviews
      /\ st.holder = r.step[s].holder /\ st.token = r.step[s].token /\ st.live = r.step[s].live
  BY <1>a, StatusChanged
<1>c. m = [r EXCEPT !.step = f]
  OBVIOUS
<1>d. Finish(r, s) = q
  BY DEF Finish
<1> HIDE DEF st, m, q
<1>e. /\ f \in [Steps -> StepState] /\ f[s] = st
      /\ \A x \in Steps : x # s => f[x] = r.step[x]
  BY <1>a, <1>b
<1> HIDE DEF f
<1>1. /\ m \in RunState /\ m.status = "active" /\ m.seq = r.seq /\ m.step = f
      /\ \A x \in Steps : x # s => m.step[x] = r.step[x]
  BY <1>a, <1>c, <1>e DEF RunState
<1>2. /\ q \in RunState /\ q.seq = r.seq
      /\ q.status = IF \A x \in Steps : m.step[x].status = "completed"
                    THEN "completed" ELSE "active"
      /\ \A x \in Steps : q.step[x] = IF Unblocked(m, x) THEN [m.step[x] EXCEPT !.status = "ready"]
                                                       ELSE m.step[x]
  BY <1>1, ReleaseDependentsState DEF q
<1>3. /\ m.step[s].status = "completed"
      /\ \A x \in Steps :
           /\ m.step[x] \in StepState
           /\ m.step[x].attempts = r.step[x].attempts /\ m.step[x].reviews = r.step[x].reviews
           /\ m.step[x].token = r.step[x].token /\ m.step[x].live = r.step[x].live
           /\ m.step[x].holder = r.step[x].holder
  BY <1>1, <1>b, <1>e
<1>4. \A x \in Steps :
        /\ q.step[x].status = IF Unblocked(m, x) THEN "ready" ELSE m.step[x].status
        /\ q.step[x].attempts = r.step[x].attempts /\ q.step[x].reviews = r.step[x].reviews
        /\ q.step[x].token = r.step[x].token /\ q.step[x].live = r.step[x].live
        /\ q.step[x].holder = r.step[x].holder
  <2> TAKE x \in Steps
  <2>1. CASE Unblocked(m, x)
    <3> DEFINE freed == [m.step[x] EXCEPT !.status = "ready"]
    <3>1. /\ freed.status = "ready"
          /\ freed.attempts = m.step[x].attempts /\ freed.reviews = m.step[x].reviews
          /\ freed.token = m.step[x].token /\ freed.live = m.step[x].live
          /\ freed.holder = m.step[x].holder
      BY <1>3, StatusChanged DEF StepStatus
    <3>2. q.step[x] = freed
      BY <1>2, <2>1
    <3>3. QED
      BY <1>3, <2>1, <3>1, <3>2
  <2>2. CASE ~Unblocked(m, x)
    BY <1>2, <1>3, <2>2
  <2>3. QED
    BY <2>1, <2>2
<1>5. DepsOK(q)
  <2> SUFFICES ASSUME NEW x \in Steps, q.step[x].status # "pending", NEW d \in DependsOn(x)
               PROVE  q.step[d].status = "completed"
    BY DEF DepsOK
  <2>1. d \in Steps
    BY WorkflowTypes
  <2>2. m.step[d].status = "completed"
    <3>1. CASE Unblocked(m, x)
      BY <3>1 DEF Unblocked
    <3>2. CASE ~Unblocked(m, x)
      <4>1. r.step[x].status # "pending"
        BY <1>1, <1>4, <3>2
      <4>2. r.step[d].status = "completed"
        BY <4>1 DEF NextOK, Sound, DepsOK
      <4>3. QED
        BY <1>1, <1>3, <2>1, <4>2
    <3>3. QED
      BY <3>1, <3>2
  <2>3. QED
    BY <1>4, <2>1, <2>2 DEF Unblocked
<1>6. \A x \in Steps : /\ q.step[x].status = "completed" <=> m.step[x].status = "completed"
                       /\ q.step[x].status \in Refused <=> m.step[x].status \in Refused
  BY <1>4 DEF Unblocked, Refused
<1>7. \A x \in Steps : r.step[x].status \notin Refused
  BY DEF NextOK, Sound, EndOK, Refused
<1>8. \A x \in Steps : q.step[x].status \notin Refused
  BY <1>1, <1>3, <1>6, <1>7 DEF Refused
<1>9. EndOK(q)
  BY <1>2, <1>6, <1>8 DEF EndOK, Refused
<1>10. CapsOK(q) /\ TokensOK(q, run.seq + 1)
  BY <1>4 DEF NextOK, Sound, CapsOK, TokensOK
<1>f. CheckedOK(q)
  BY <1>1, <1>3, <1>4 DEF NextOK, Sound, CheckedOK
<1>11. \A x \in Steps : ClaimOK(q.step[x])
  BY <1>1, <1>3, <1>4 DEF NextOK, Sound, ClaimOK, Unblocked
<1>12. OldOrNewToken(q)
  BY <1>4 DEF NextOK, OldOrNewToken, OldOrNew
<1>13. QED
  BY <1>2, <1>5, <1>9, <1>10, <1>f, <1>11, <1>12, <1>d DEF NextOK, Sound

-----------------------------------------------------------------------------
\* A change that leaves steps and status alone is no threat to any of it.
LEMMA SameSteps ==
  ASSUME NEW r, NEW q \in RunState, NEW n, Sound(r, n), q.step = r.step, q.status = r.status
  PROVE  Sound(q, n)
BY DEF Sound, DepsOK, EndOK, CapsOK, TokensOK, CheckedOK

LEMMA OtherFieldsSound ==
  ASSUME NEW r, NextOK(r), NEW n \in Nat
  PROVE  /\ NextOK([r EXCEPT !.ceiling = n])
         /\ NextOK([r EXCEPT !.limit = n])
         /\ NextOK([r EXCEPT !.cycles = n])
         /\ \A msgs \in SUBSET Message : NextOK([r EXCEPT !.messages = msgs])
<1>1. r \in RunState /\ Sound(r, run.seq + 1) /\ r.seq = run.seq
  BY DEF NextOK, Sound
<1>2. \A q \in RunState : q.step = r.step /\ q.status = r.status /\ q.seq = r.seq => NextOK(q)
  BY <1>1, SameSteps DEF NextOK, OldOrNewToken, OldOrNew
<1>3. NextOK([r EXCEPT !.ceiling = n])
  BY <1>1, <1>2 DEF RunState
<1>4. NextOK([r EXCEPT !.limit = n])
  BY <1>1, <1>2 DEF RunState
<1>5. NextOK([r EXCEPT !.cycles = n])
  BY <1>1, <1>2 DEF RunState
<1>6. \A msgs \in SUBSET Message : NextOK([r EXCEPT !.messages = msgs])
  BY <1>1, <1>2 DEF RunState
<1>7. QED
  BY <1>3, <1>4, <1>5, <1>6

\* Open, cancelled and out of cycles are alike to the steps: none is refused
\* and they are not all completed.
LEMMA SwapStatus ==
  ASSUME NEW r, NEW n, Sound(r, n), NEW w \in {"active", "cancelled", "blocked_cycle_limit"},
         r.status \in {"active", "cancelled", "blocked_cycle_limit"}
  PROVE  Sound([r EXCEPT !.status = w], n)
<1> DEFINE q == [r EXCEPT !.status = w]
<1>1. q \in RunState /\ q.step = r.step /\ q.status = w
  BY DEF Sound, RunState, TerminalRun
<1>2. EndOK(q)
  BY <1>1 DEF Sound, EndOK, Refused
<1>3. QED
  BY <1>1, <1>2 DEF Sound, DepsOK, CapsOK, TokensOK, CheckedOK

LEMMA ClaimDropped ==
  ASSUME NEW st \in StepState, ClaimOK(st), NEW q \in {st, NoClaim(st), [st EXCEPT !.live = FALSE]}
  PROVE  /\ q \in StepState /\ q.status = st.status
         /\ q.attempts = st.attempts /\ q.reviews = st.reviews
         /\ q.token \in {0, st.token} /\ ClaimOK(q)
<1>1. CASE q = st
  BY <1>1
<1>2. CASE q = NoClaim(st)
  BY <1>2 DEF NoClaim, StepState, ClaimOK
<1>3. CASE q = [st EXCEPT !.live = FALSE]
  BY <1>3 DEF StepState, ClaimOK
<1>4. QED
  BY <1>1, <1>2, <1>3

\* Giving claims back, or letting them lapse, breaks nothing whatever the
\* run's status is: g says what becomes of each step.
LEMMA DropClaims ==
  ASSUME NEW r, NEW n \in Nat, Sound(r, n), NEW g \in [Steps -> StepState],
         \A x \in Steps : g[x] \in {r.step[x], NoClaim(r.step[x]), [r.step[x] EXCEPT !.live = FALSE]}
  PROVE  Sound([r EXCEPT !.step = g], n)
<1> DEFINE q == [r EXCEPT !.step = g]
<1>1. q \in RunState /\ q.status = r.status /\ q.step = g
  BY DEF Sound, RunState
<1>2. \A x \in Steps : /\ g[x].status = r.step[x].status
                       /\ g[x].attempts = r.step[x].attempts /\ g[x].reviews = r.step[x].reviews
                       /\ g[x].token \in {0, r.step[x].token}
                       /\ ClaimOK(g[x])
  <2> TAKE x \in Steps
  <2> PICK st : st = r.step[x]
    OBVIOUS
  <2> PICK y : y = g[x]
    OBVIOUS
  <2>1. st \in StepState /\ ClaimOK(st)
    BY DEF Sound, RunState
  <2>2. y \in {st, NoClaim(st), [st EXCEPT !.live = FALSE]}
    OBVIOUS
  <2>3. /\ y.status = st.status /\ y.attempts = st.attempts /\ y.reviews = st.reviews
        /\ y.token \in {0, st.token} /\ ClaimOK(y)
    BY ZenonT(30), <2>1, <2>2, ClaimDropped
  <2>4. QED
    BY <2>3
<1>3. DepsOK(q) /\ EndOK(q)
  BY <1>1, <1>2, WorkflowTypes DEF Sound, DepsOK, EndOK
<1>4. CapsOK(q) /\ TokensOK(q, n) /\ CheckedOK(q)
  BY <1>1, <1>2 DEF Sound, CapsOK, TokensOK, CheckedOK
<1>5. QED
  BY <1>1, <1>2, <1>3, <1>4 DEF Sound

-----------------------------------------------------------------------------
\* The record: whatever is handed to it, if sound, is sound once it is the last
\* event; and a process that dies before the event changes nothing of it.
LEMMA RecordSound ==
  ASSUME IInv, NEW rid, NEW event, NEW actor, NEW target, NEW new, NEW gated,
         NextOK(new), Record(rid, event, actor, target, new, gated), UNCHANGED disk
  PROVE  Preserved
<1>1. \A a \in GatedEntry(rid, event, gated) \cup TerminalEntry(rid, new) :
        DOMAIN a = {"request", "action"}
  BY DEF GatedEntry, TerminalEntry
<1>2. \A a \in audit' : DOMAIN a = {"request", "action"}
  BY <1>1 DEF Record, IInv, TypeOK
<1>3. crashes' \in 0..MaxCrashes
  BY BoundsAssumption DEF Record, IInv, TypeOK
<1>4. CASE AppendEvent(rid, event, actor, target, new)
  <2>1. run' \in RunState /\ run'.step = new.step /\ run'.status = new.status
        /\ run'.seq = run.seq + 1
    BY <1>4 DEF AppendEvent, NextOK, Sound, RunState
  <2>2. Sound(run', run.seq + 1)
    BY <2>1, SameSteps DEF NextOK
  <2>3. Sound(run, run.seq)'
    BY <2>1, <2>2 DEF Sound, TokensOK, CheckedOK, DepsOK, EndOK, CapsOK
  <2>4. \A e \in log' : DOMAIN e = {"id", "event", "actor", "target"}
    BY <1>4 DEF AppendEvent, IInv, TypeOK
  <2>5. \A x \in Steps : OldOrNew(run'.step[x], run.step[x])
    BY <2>1 DEF NextOK, OldOrNewToken, OldOrNew
  <2>6. QED
    BY <1>2, <1>3, <2>1, <2>3, <2>4, <2>5 DEF IInv, TypeOK, Preserved, OldOrNew
<1>5. CASE UNCHANGED <<run, log>>
  BY <1>2, <1>3, <1>5 DEF IInv, TypeOK, Sound, TokensOK, CheckedOK, DepsOK, EndOK, CapsOK, Preserved, OldOrNew
<1>6. QED
  BY <1>4, <1>5 DEF Record

LEMMA MutateSound ==
  ASSUME IInv, NEW rid, NEW event, NEW actor, NEW target, NEW new, NEW gated,
         NextOK(new), Mutate(rid, event, actor, target, new, gated)
  PROVE  Preserved
<1> DEFINE q == [new EXCEPT !.cycles = @ + 1]
<1>1. q \in RunState /\ q.step = new.step /\ q.status = new.status /\ q.seq = new.seq
  BY DEF NextOK, Sound, RunState
<1>2. NextOK(q)
  BY <1>1, SameSteps DEF NextOK, OldOrNewToken, OldOrNew
<1>3. QED
  BY <1>2, RecordSound DEF Mutate

-----------------------------------------------------------------------------
\* The verbs, one by one: each hands over a sound state, whoever calls it and
\* with whatever arguments.
LEMMA NewClaimOf ==
  ASSUME IInv, NEW st \in StepState, NEW holder \in Holders, st.status \in StepStatus
  PROVE  LET q == NewClaim(st, holder)
         IN /\ q \in StepState /\ q.status = st.status
            /\ q.attempts = st.attempts /\ q.reviews = st.reviews
            /\ q.holder = holder /\ q.holder # None /\ q.live
            /\ q.token = run.seq + 1 /\ q.token # 0
<1> DEFINE n == run.seq + 1
<1>1. n \in Nat /\ n # 0
  BY RunTypes
<1>2. holder # None
  BY DistinctAssumption
<1>3. NewClaim(st, holder) = [st EXCEPT !.holder = holder, !.token = n, !.live = TRUE]
  BY DEF NewClaim
<1> HIDE DEF n
<1>4. /\ NewClaim(st, holder) \in StepState /\ NewClaim(st, holder).status = st.status
      /\ NewClaim(st, holder).attempts = st.attempts
      /\ NewClaim(st, holder).reviews = st.reviews
      /\ NewClaim(st, holder).holder = holder /\ NewClaim(st, holder).live
      /\ NewClaim(st, holder).token = n
  BY <1>1, <1>3 DEF StepState
<1>5. QED
  BY <1>1, <1>2, <1>4 DEF n

\* One more attempt, on a step whose work starts.
LEMMA Started ==
  ASSUME NEW st \in StepState
  PROVE  LET q == [st EXCEPT !.status = "in_progress", !.attempts = @ + 1]
         IN /\ q \in StepState /\ q.status = "in_progress"
            /\ q.attempts = st.attempts + 1 /\ q.reviews = st.reviews
            /\ q.holder = st.holder /\ q.token = st.token /\ q.live = st.live
<1> DEFINE n == st.attempts + 1
<1>1. n \in Nat
  BY DEF StepState
<1> HIDE DEF n
<1>2. LET q == [st EXCEPT !.status = "in_progress", !.attempts = n]
      IN /\ q \in StepState /\ q.status = "in_progress"
         /\ q.attempts = n /\ q.reviews = st.reviews
         /\ q.holder = st.holder /\ q.token = st.token /\ q.live = st.live
  BY <1>1 DEF StepState, StepStatus
<1>3. QED
  BY <1>2 DEF n

LEMMA RequestStepSound ==
  ASSUME IInv, NEW rid, NEW s \in Steps, NEW actor, NEW holder \in Holders,
         RequestStep(rid, s, actor, holder)
  PROVE  Preserved
<1> DEFINE st == run.step[s]
           parked == [st EXCEPT !.status = "awaiting_approval"]
           started == [NewClaim(st, holder) EXCEPT !.status = "in_progress", !.attempts = @ + 1]
<1>1. /\ st \in StepState /\ st.status = "ready" /\ ClaimOK(st) /\ st.holder = None
      /\ st.token = 0 /\ run.status = "active" /\ run.seq \in Nat
  BY RunTypes DEF RequestStep, Mutate, Admitted, ClaimOK
<1>2. CASE Mutate(rid, "step.requested", actor, s, Stop(run, s, "blocked_human"), TRUE)
  BY <1>1, <1>2, SameState, StopSound, MutateSound DEF Refused
<1>3. CASE Mutate(rid, "step.requested", actor, s, Put(s, parked), TRUE)
  <2>1. /\ parked \in StepState /\ parked.status = "awaiting_approval" /\ ClaimOK(parked)
        /\ parked.token = 0 /\ parked.attempts = st.attempts /\ parked.reviews = st.reviews
    BY <1>1 DEF StepState, StepStatus, ClaimOK
  <2> HIDE DEF parked
  <2>2. NextOK(Put(s, parked))
    BY <1>1, <2>1, RunTypes, PutSound DEF OldOrNew
  <2>3. QED
    BY <1>3, <2>2, MutateSound
<1>4. CASE Mutate(rid, "step.requested", actor, s, Stop(run, s, "blocked_retry_limit"), FALSE)
  BY <1>1, <1>4, SameState, StopSound, MutateSound DEF Refused
<1>5. CASE /\ ~OutOfAttempts(s)
           /\ Mutate(rid, "step.requested", actor, s, Put(s, started), FALSE)
  <2>1. /\ started \in StepState /\ started.status = "in_progress" /\ ClaimOK(started)
        /\ started.token = run.seq + 1 /\ started.attempts = st.attempts + 1
        /\ started.reviews = st.reviews
    <3> DEFINE claimed == NewClaim(st, holder)
    <3>1. /\ claimed \in StepState /\ claimed.reviews = st.reviews /\ claimed.attempts = st.attempts
          /\ claimed.holder # None /\ claimed.token = run.seq + 1 /\ claimed.token # 0
      BY <1>1, NewClaimOf DEF StepStatus
    <3> HIDE DEF claimed
    <3>2. /\ started \in StepState /\ started.status = "in_progress"
          /\ started.attempts = claimed.attempts + 1 /\ started.reviews = claimed.reviews
          /\ started.holder = claimed.holder /\ started.token = claimed.token
      BY <3>1, Started DEF claimed
    <3>3. QED
      BY <3>1, <3>2 DEF ClaimOK
  <2>2. st.attempts + 1 <= MaxAttempts(s)
    BY <1>5, RunTypes, WorkflowTypes DEF OutOfAttempts
  <2> HIDE DEF started
  <2>3. NextOK(Put(s, started))
    BY <1>1, <2>1, <2>2, RunTypes, PutSound DEF OldOrNew
  <2>4. QED
    BY <1>5, <2>3, MutateSound
<1>6. QED
  BY <1>2, <1>3, <1>4, <1>5 DEF RequestStep

LEMMA ApproveSound ==
  ASSUME IInv, NEW rid, NEW s \in Steps, NEW human, Approve(rid, s, human)
  PROVE  Preserved
<1> DEFINE st == NoClaim(run.step[s])
           bought == [st EXCEPT !.status = "ready", !.held = "none"]
           resumed == [st EXCEPT !.status = "in_progress"]
           room == IF run.ceiling # 0 THEN run.ceiling ELSE DefaultCeiling
           total == run.spend + room
<1>1. /\ run.step[s] \in StepState /\ run.step[s].status = "awaiting_approval"
      /\ run.status = "active"
  BY RunTypes DEF Approve, Mutate, Admitted, NoClaim, StepState
<1>2. /\ bought \in StepState /\ bought.status = "ready" /\ ClaimOK(bought) /\ bought.token = 0
      /\ bought.attempts = run.step[s].attempts /\ bought.reviews = run.step[s].reviews
  BY <1>1 DEF NoClaim, StepState, StepStatus, ClaimOK
<1>3. /\ resumed \in StepState /\ resumed.status = "in_progress" /\ ClaimOK(resumed)
      /\ resumed.token = 0
      /\ resumed.attempts = run.step[s].attempts /\ resumed.reviews = run.step[s].reviews
  BY <1>1 DEF NoClaim, StepState, StepStatus, ClaimOK
<1>4. total \in Nat
  BY RunTypes, BoundsAssumption
<1>5. \/ Mutate(rid, "step.approved", human, s, [Put(s, bought) EXCEPT !.ceiling = total], TRUE)
      \/ Mutate(rid, "step.approved", human, s, Put(s, resumed), TRUE)
  BY DEF Approve
<1> HIDE DEF bought, resumed, total
<1>6. NextOK(Put(s, bought)) /\ NextOK(Put(s, resumed))
  BY <1>1, <1>2, <1>3, RunTypes, PutSound DEF OldOrNew
<1>7. NextOK([Put(s, bought) EXCEPT !.ceiling = total])
  BY <1>4, <1>6, OtherFieldsSound
<1>8. QED
  BY <1>5, <1>6, <1>7, MutateSound

LEMMA RejectSound ==
  ASSUME IInv, NEW rid, NEW s \in Steps, NEW human, Reject(rid, s, human)
  PROVE  Preserved
<1>1. /\ run.status = "active" /\ run.step[s].status = "awaiting_approval"
      /\ run.step[s].holder = None
      /\ Mutate(rid, "step.rejected", human, s, Stop(run, s, "rejected"), TRUE)
  BY RunTypes DEF Reject, Mutate, Admitted, ClaimOK
<1>2. NextOK(Stop(run, s, "rejected"))
  BY <1>1, SameState, StopSound DEF Refused
<1>3. QED
  BY <1>1, <1>2, MutateSound

LEMMA TakeSound ==
  ASSUME IInv, NEW rid, NEW s \in Steps, NEW actor, NEW holder \in Holders,
         Take(rid, s, actor, holder)
  PROVE  Preserved
<1> DEFINE st == NewClaim(run.step[s], holder)
<1>1. /\ run.step[s] \in StepState /\ run.step[s].status = "in_progress"
      /\ run.status = "active" /\ run.seq \in Nat
      /\ Mutate(rid, "step.taken", actor, s, Put(s, st), FALSE)
  BY RunTypes DEF Take, Workable, Mutate, Admitted
<1>2. /\ st \in StepState /\ st.status = "in_progress" /\ ClaimOK(st) /\ st.token = run.seq + 1
      /\ st.attempts = run.step[s].attempts /\ st.reviews = run.step[s].reviews
  BY <1>1, NewClaimOf DEF StepStatus, ClaimOK
<1> HIDE DEF st
<1>3. NextOK(Put(s, st))
  BY <1>1, <1>2, RunTypes, PutSound DEF OldOrNew
<1>4. QED
  BY <1>1, <1>3, MutateSound

LEMMA RenewClaimSound ==
  ASSUME IInv, NEW rid, NEW s \in Steps, NEW holder, NEW token, RenewClaim(rid, s, holder, token)
  PROVE  Preserved
BY SameState, MutateSound DEF RenewClaim

LEMMA ExpireClaimSound ==
  ASSUME IInv, NEW rid, NEW s \in Steps, NEW human, ExpireClaim(rid, s, human)
  PROVE  Preserved
<1> DEFINE st == [run.step[s] EXCEPT !.live = FALSE]
<1>1. /\ run.step[s] \in StepState /\ ClaimOK(run.step[s]) /\ run.step[s].status = "in_progress"
      /\ run.status = "active"
      /\ Mutate(rid, "claim.expired", human, s, Put(s, st), TRUE)
  BY RunTypes DEF ExpireClaim, Mutate, Admitted, ClaimOK
<1>2. /\ st \in StepState /\ st.status = "in_progress" /\ ClaimOK(st)
      /\ st.token = run.step[s].token /\ st.holder = run.step[s].holder
      /\ st.attempts = run.step[s].attempts /\ st.reviews = run.step[s].reviews
  BY <1>1 DEF StepState, ClaimOK
<1> HIDE DEF st
<1>3. NextOK(Put(s, st))
  BY <1>1, <1>2, RunTypes, PutSound DEF OldOrNew
<1>4. QED
  BY <1>1, <1>3, MutateSound

LEMMA ClaimLapsesSound ==
  ASSUME IInv, NEW s \in Steps, ClaimLapses(s)
  PROVE  Preserved
<1> DEFINE g == [run.step EXCEPT ![s] = [run.step[s] EXCEPT !.live = FALSE]]
<1>1. run \in RunState /\ run.seq \in Nat /\ run.step \in [Steps -> StepState]
  BY RunTypes DEF RunState
<1>2. run' = [run EXCEPT !.step = g] /\ UNCHANGED <<log, audit, disk, crashes>>
  BY DEF ClaimLapses
<1>3. [run.step[s] EXCEPT !.live = FALSE] \in StepState
  BY ZenonT(30), <1>1 DEF StepState
<1>4. /\ g \in [Steps -> StepState]
      /\ \A x \in Steps : g[x] \in {run.step[x], [run.step[x] EXCEPT !.live = FALSE]}
  BY <1>1, <1>3
<1> HIDE DEF g
<1>5. Sound(run', run.seq) /\ run'.seq = run.seq /\ run'.step = g
  BY <1>1, <1>2, <1>4, DropClaims DEF IInv, RunState
<1>6. IInv'
  BY <1>2, <1>5 DEF IInv, TypeOK, Sound, DepsOK, EndOK, CapsOK, TokensOK, CheckedOK
<1>7. \A x \in Steps : /\ run'.step[x].token = run.step[x].token
                       /\ run'.step[x].holder = run.step[x].holder
  BY <1>1, <1>4, <1>5 DEF StepState
<1>8. QED
  BY <1>5, <1>6, <1>7 DEF Preserved, OldOrNew

\* q is st with its claim given back, in status w and with no attempt added.
Freed(q, st, w) ==
  /\ q \in StepState /\ q.status = w
  /\ q.holder = None /\ q.token = 0 /\ q.live = FALSE
  /\ q.attempts <= st.attempts /\ q.reviews = st.reviews

LEMMA NoClaimFreed ==
  ASSUME NEW st \in StepState
  PROVE  Freed(NoClaim(st), st, st.status)
<1> DEFINE q == NoClaim(st)
<1>1. /\ q \in StepState /\ q.status = st.status /\ q.holder = None /\ q.token = 0
      /\ q.live = FALSE /\ q.attempts = st.attempts /\ q.reviews = st.reviews
  BY DEF NoClaim, StepState
<1>2. st.attempts \in Nat
  BY DEF StepState
<1> HIDE DEF q
<1>3. q.attempts <= st.attempts
  BY <1>1, <1>2
<1>4. QED
  BY <1>1, <1>3 DEF Freed, q

\* Whatever the verbs write next to release_claim keeps it so.
LEMMA StaysFreed ==
  ASSUME NEW old, NEW v, NEW st, Freed(st, old, v), NEW w \in StepStatus
  PROVE  /\ Freed([st EXCEPT !.status = w], old, w)
         /\ \A k \in {"none", "ungraded", "budget"} : Freed([st EXCEPT !.status = w, !.held = k], old, w)
         /\ \A f \in Artifacts, c \in Contents : Freed([st EXCEPT !.evidence = f, !.pinned = c], old, v)
<1>1. Freed([st EXCEPT !.status = w], old, w)
  BY DEF Freed, StepState
<1>2. ASSUME NEW k \in {"none", "ungraded", "budget"}
      PROVE  Freed([st EXCEPT !.status = w, !.held = k], old, w)
  BY DEF Freed, StepState
<1>3. ASSUME NEW f \in Artifacts, NEW c \in Contents
      PROVE  Freed([st EXCEPT !.evidence = f, !.pinned = c], old, v)
  BY DEF Freed, StepState
<1>4. QED
  BY <1>1, <1>2, <1>3

\* Work in progress, as the verbs leave it that end somebody's hold on it.
LEMMA AtWork ==
  ASSUME IInv, NEW s \in Steps, NEW w \in {"ready", "in_progress", "awaiting_approval", "awaiting_check"},
         NEW st, Freed(st, run.step[s], w), run.status = "active", run.step[s].status = "in_progress",
         w = "awaiting_check" => Checker(s) # None
  PROVE  /\ NextOK(Put(s, st)) /\ Put(s, st).status = "active"
         /\ Put(s, st).step[s].status = w /\ Put(s, st).step[s].holder = None
<1>1. /\ st \in StepState /\ st.status = w /\ st.token = 0 /\ st.holder = None /\ ClaimOK(st)
  BY DEF Freed, ClaimOK
<1>2. st.attempts \in Nat
  BY <1>1 DEF StepState
<1>3. st.attempts <= MaxAttempts(s) /\ st.reviews <= MaxReviews(s)
  BY <1>2, RunTypes, WorkflowTypes DEF Freed
<1>4. NextOK(Put(s, st)) /\ Put(s, st).status = "active" /\ Put(s, st).step[s] = st
  BY <1>1, <1>3, PutSound DEF OldOrNew
<1>5. QED
  BY <1>1, <1>4

LEMMA HoldSound ==
  ASSUME IInv, NEW rid, NEW s \in Steps, NEW actor, NEW token, NEW kind \in {"ungraded", "budget"},
         NEW cost \in Nat, Hold(rid, s, actor, token, kind, cost)
  PROVE  Preserved
<1> DEFINE st == [NoClaim(run.step[s]) EXCEPT !.status = "awaiting_approval", !.held = kind]
<1>1. /\ run.step[s] \in StepState /\ run.step[s].status = "in_progress" /\ run.status = "active"
      /\ Mutate(rid, "step.held", actor, s, Charge(Put(s, st), s, cost), TRUE)
  BY RunTypes DEF Hold, MayWrite, Workable, Mutate, Admitted
<1>2. Freed(st, run.step[s], "awaiting_approval")
  BY <1>1, NoClaimFreed, StaysFreed DEF StepStatus
<1> HIDE DEF st
<1>3. NextOK(Put(s, st))
  BY <1>1, <1>2, AtWork
<1>4. QED
  BY <1>1, <1>3, ChargeSound, MutateSound

LEMMA CompleteSound ==
  ASSUME IInv, NEW rid, NEW s \in Steps, NEW actor, NEW token, NEW file \in Artifacts,
         NEW cost \in Nat, Complete(rid, s, actor, token, file, cost)
  PROVE  Preserved
<1> DEFINE free == NoClaim(run.step[s])
           st == [free EXCEPT !.evidence = file, !.pinned = disk[file]]
           sub == [st EXCEPT !.status = "awaiting_check"]
           r == Charge(Put(s, st), s, cost)
<1>1. /\ run.step[s] \in StepState /\ run.step[s].status = "in_progress" /\ run.status = "active"
  BY RunTypes DEF Complete, MayWrite, Workable, Mutate, Admitted
<1>2. Freed(free, run.step[s], "in_progress")
  BY <1>1, NoClaimFreed
<1>3. \/ /\ Checker(s) # None
         /\ Mutate(rid, "step.completed", actor, s, Charge(Put(s, sub), s, cost), FALSE)
      \/ Mutate(rid, "step.completed", actor, s, Finish(r, s), FALSE)
  BY DEF Complete
<1>4. disk[file] \in Contents
  BY DEF IInv, TypeOK
<1> HIDE DEF free
<1>5. Freed(st, run.step[s], "in_progress")
  BY <1>2, <1>4, StaysFreed DEF StepStatus
<1> HIDE DEF st
<1>6. Freed(sub, run.step[s], "awaiting_check")
  BY <1>5, StaysFreed DEF StepStatus
<1> HIDE DEF sub
<1>7. Checker(s) # None => NextOK(Charge(Put(s, sub), s, cost))
  BY <1>1, <1>6, AtWork, ChargeSound
<1>8. /\ NextOK(Put(s, st)) /\ Put(s, st).status = "active"
      /\ Put(s, st).step[s].status = "in_progress" /\ Put(s, st).step[s].holder = None
  BY <1>1, <1>5, AtWork
<1>9. /\ NextOK(r) /\ r.status = "active"
      /\ r.step[s].status = "in_progress" /\ r.step[s].holder = None
  BY <1>8, ChargeSound
<1> HIDE DEF r
<1>10. NextOK(Finish(r, s))
  BY <1>9, FinishSound
<1>11. QED
  BY <1>3, <1>7, <1>10, MutateSound

LEMMA FailSound ==
  ASSUME IInv, NEW rid, NEW s \in Steps, NEW actor, NEW token, NEW cost \in Nat,
         Fail(rid, s, actor, token, cost)
  PROVE  Preserved
<1> DEFINE st == NoClaim(run.step[s])
           again == [st EXCEPT !.status = "ready"]
           r == Put(s, st)
<1>1. /\ run.step[s] \in StepState /\ run.step[s].status = "in_progress" /\ run.status = "active"
  BY RunTypes DEF Fail, MayWrite, Workable, Mutate, Admitted
<1>2. Freed(st, run.step[s], "in_progress")
  BY <1>1, NoClaimFreed
<1>3. \/ Mutate(rid, "step.failed", actor, s, Charge(Put(s, again), s, cost), FALSE)
      \/ Mutate(rid, "step.failed", actor, s, Charge(Stop(r, s, "blocked_retry_limit"), s, cost), FALSE)
  BY DEF Fail
<1> HIDE DEF st
<1>4. Freed(again, run.step[s], "ready")
  BY <1>2, StaysFreed DEF StepStatus
<1> HIDE DEF again
<1>5. NextOK(Put(s, again))
  BY <1>1, <1>4, AtWork
<1>6. /\ NextOK(r) /\ r.status = "active"
      /\ r.step[s].status = "in_progress" /\ r.step[s].holder = None
  BY <1>1, <1>2, AtWork
<1> HIDE DEF r
<1>7. NextOK(Stop(r, s, "blocked_retry_limit"))
  BY <1>6, StopSound DEF Refused
<1>8. QED
  BY <1>3, <1>5, <1>7, ChargeSound, MutateSound

LEMMA ReleaseStepSound ==
  ASSUME IInv, NEW rid, NEW s \in Steps, NEW actor, NEW token, NEW cost \in Nat,
         ReleaseStep(rid, s, actor, token, cost)
  PROVE  Preserved
<1> DEFINE old == run.step[s]
           st == [NoClaim(old) EXCEPT !.status = "ready", !.releases = @ + 1, !.attempts = Unspent(@)]
           given == old.releases + 1
           left == Unspent(old.attempts)
<1>1. /\ old \in StepState /\ old.status = "in_progress" /\ run.status = "active"
      /\ Mutate(rid, "step.released", actor, s, Charge(Put(s, st), s, cost), FALSE)
  BY RunTypes DEF ReleaseStep, MayWrite, Workable, Mutate, Admitted
<1>2. given \in Nat /\ left <= old.attempts /\ left \in Nat
  BY <1>1 DEF StepState, Unspent
<1>3. st = [old EXCEPT !.holder = None, !.token = 0, !.live = FALSE, !.status = "ready",
                       !.releases = given, !.attempts = left]
  BY <1>1 DEF NoClaim, StepState
<1> HIDE DEF st, given, left
<1>4. /\ st \in StepState /\ st.status = "ready" /\ st.holder = None /\ st.token = 0
      /\ st.live = FALSE /\ st.attempts = left /\ st.reviews = old.reviews
  BY <1>1, <1>2, <1>3 DEF StepState, StepStatus
<1>a. Freed(st, old, "ready")
  BY <1>2, <1>4 DEF Freed
<1>5. NextOK(Put(s, st))
  BY <1>1, <1>a, AtWork
<1>6. QED
  BY <1>1, <1>5, ChargeSound, MutateSound

LEMMA CancelRunSound ==
  ASSUME IInv, NEW rid, NEW human, CancelRun(rid, human)
  PROVE  Preserved
<1> DEFINE g == [s \in Steps |-> IF run.step[s].status = "in_progress"
                                 THEN NoClaim(run.step[s]) ELSE run.step[s]]
           stopped == [run EXCEPT !.step = g]
<1>1. /\ run \in RunState /\ run.seq \in Nat /\ run.status = "active"
      /\ \A s \in Steps : run.step[s] \in StepState /\ NoClaim(run.step[s]) \in StepState
      /\ Sound(run, run.seq + 1)
  BY RunTypes, SameState DEF CancelRun, Mutate, Admitted, NextOK, NoClaim, StepState
<1>2. Mutate(rid, "run.cancelled", human, "run", [stopped EXCEPT !.status = "cancelled"], TRUE)
  <2>1. [stopped EXCEPT !.status = "cancelled"] = [run EXCEPT !.status = "cancelled", !.step = g]
    BY <1>1 DEF RunState
  <2>2. QED
    BY <2>1 DEF CancelRun
<1>3. /\ g \in [Steps -> StepState]
      /\ \A x \in Steps : g[x] \in {run.step[x], NoClaim(run.step[x])}
  BY <1>1
<1> HIDE DEF g
<1>4. /\ Sound(stopped, run.seq + 1) /\ stopped.status = "active" /\ stopped.seq = run.seq
      /\ stopped.step = g
  BY <1>1, <1>3, DropClaims DEF RunState
<1>a. OldOrNewToken(stopped)
  <2>1. ASSUME NEW x \in Steps
        PROVE  NoClaim(run.step[x]).token = 0
    BY <1>1, <2>1, NoClaimFreed DEF Freed
  <2>2. QED
    BY <1>3, <1>4, <2>1 DEF OldOrNewToken, OldOrNew
<1> HIDE DEF stopped
<1>5. NextOK([stopped EXCEPT !.status = "cancelled"])
  <2>1. Sound([stopped EXCEPT !.status = "cancelled"], run.seq + 1)
    BY <1>4, SwapStatus
  <2>2. QED
    BY <1>4, <1>a, <2>1 DEF NextOK, Sound, RunState, OldOrNewToken, OldOrNew
<1>6. QED
  BY <1>2, <1>5, MutateSound

LEMMA ExtendBudgetSound ==
  ASSUME IInv, NEW rid, NEW human, NEW extra \in Extensions, ExtendBudget(rid, human, extra)
  PROVE  Preserved
<1> DEFINE asked == run.limit + extra
           ceiling == IF asked < CycleCeiling THEN asked ELSE CycleCeiling
           reopened == [run EXCEPT !.status = "active"]
<1>1. ceiling \in Nat
  BY RunTypes, BoundsAssumption DEF RunState
<1>2. /\ run \in RunState /\ run.status = "blocked_cycle_limit"
      /\ UNCHANGED disk
      /\ Record(rid, "run.budget_extended", human, "run",
                [run EXCEPT !.status = "active", !.limit = ceiling], TRUE)
  BY RunTypes DEF ExtendBudget
<1> HIDE DEF ceiling
<1>3. NextOK(reopened)
  BY <1>2, SameState, SwapStatus DEF NextOK, RunState, OldOrNewToken, OldOrNew
<1>4. [run EXCEPT !.status = "active", !.limit = ceiling] = [reopened EXCEPT !.limit = ceiling]
  BY <1>2 DEF RunState
<1> HIDE DEF reopened
<1>5. NextOK([reopened EXCEPT !.limit = ceiling])
  BY <1>1, <1>3, OtherFieldsSound
<1>6. QED
  BY <1>2, <1>4, <1>5, RecordSound

LEMMA SendMessageSound ==
  ASSUME IInv, NEW rid, NEW m \in MessageIds, NEW s \in Steps, NEW from \in Agents,
         NEW to \in Agents, NEW kind \in Kinds, NEW reply_to,
         NEW file \in Artifacts, SendMessage(rid, m, s, from, to, kind, reply_to, file)
  PROVE  Preserved
<1> DEFINE msg == [id |-> m, step |-> s, from |-> from, to |-> to, kind |-> kind,
                   payload |-> file, pinned |-> disk[file]]
           all == run.messages \cup {msg}
<1>1. msg \in Message
  BY DEF Message, IInv, TypeOK
<1>2. all \in SUBSET Message
  BY <1>1, RunTypes DEF RunState
<1>3. Mutate(rid, "message.sent", from, m, [run EXCEPT !.messages = all], FALSE)
  BY DEF SendMessage
<1> HIDE DEF all
<1>4. NextOK([run EXCEPT !.messages = all])
  BY <1>2, SameState, OtherFieldsSound
<1>5. QED
  BY <1>3, <1>4, MutateSound

LEMMA CheckApproveSound ==
  ASSUME IInv, NEW rid, NEW s \in Steps, NEW actor, NEW m, NEW cost \in Nat,
         CheckApprove(rid, s, actor, m, cost)
  PROVE  Preserved
<1> DEFINE r == Charge(run, s, cost)
<1>1. /\ run.status = "active" /\ run.step[s].status = "awaiting_check" /\ run.step[s].holder = None
      /\ Mutate(rid, "check.approved", actor, s, Finish(r, s), FALSE)
  BY RunTypes DEF CheckApprove, MayCheck, Mutate, Admitted, ClaimOK
<1>2. /\ NextOK(r) /\ r.status = "active"
      /\ r.step[s].status = "awaiting_check" /\ r.step[s].holder = None
  BY <1>1, SameState, ChargeSound
<1> HIDE DEF r
<1>3. NextOK(Finish(r, s))
  BY <1>2, FinishSound
<1>4. QED
  BY <1>1, <1>3, MutateSound

LEMMA CheckReturnSound ==
  ASSUME IInv, NEW rid, NEW s \in Steps, NEW actor, NEW m, NEW cost \in Nat,
         CheckReturn(rid, s, actor, m, cost)
  PROVE  Preserved
<1> DEFINE old == run.step[s]
           n == old.reviews + 1
           st == [old EXCEPT !.status = "ready", !.reviews = n]
<1>1. /\ run.status = "active" /\ old \in StepState /\ old.status = "awaiting_check"
      /\ ClaimOK(old) /\ old.holder = None /\ old.token = 0
  BY RunTypes DEF CheckReturn, MayCheck, Mutate, Admitted, ClaimOK
<1>2. CASE Mutate(rid, "check.returned", actor, s, Charge(Stop(run, s, "blocked_review_limit"), s, cost), FALSE)
  <2>1. NextOK(Stop(run, s, "blocked_review_limit"))
    BY <1>1, SameState, StopSound DEF Refused
  <2>2. QED
    BY <1>2, <2>1, ChargeSound, MutateSound
<1>3. CASE /\ old.reviews < MaxReviews(s)
           /\ Mutate(rid, "check.returned", actor, s, Charge(Put(s, st), s, cost), FALSE)
  <2>1. n \in Nat /\ n <= MaxReviews(s)
    BY <1>3, RunTypes, WorkflowTypes
  <2> HIDE DEF n
  <2>2. /\ st \in StepState /\ st.status = "ready" /\ st.reviews = n /\ st.attempts = old.attempts
        /\ st.token = 0 /\ ClaimOK(st)
    BY <1>1, <2>1 DEF StepState, StepStatus, ClaimOK
  <2> HIDE DEF st
  <2>3. NextOK(Put(s, st))
    BY <1>1, <2>1, <2>2, RunTypes, PutSound DEF OldOrNew
  <2>4. QED
    BY <1>3, <2>3, ChargeSound, MutateSound
<1>4. QED
  BY <1>2, <1>3 DEF CheckReturn

LEMMA CheckRejectSound ==
  ASSUME IInv, NEW rid, NEW s \in Steps, NEW actor, NEW m, NEW cost \in Nat,
         CheckReject(rid, s, actor, m, cost)
  PROVE  Preserved
<1>1. /\ run.status = "active" /\ run.step[s].status = "awaiting_check" /\ run.step[s].holder = None
      /\ Mutate(rid, "check.rejected", actor, s, Charge(Stop(run, s, "rejected_by_checker"), s, cost), FALSE)
  BY RunTypes DEF CheckReject, MayCheck, Mutate, Admitted, ClaimOK
<1>2. NextOK(Stop(run, s, "rejected_by_checker"))
  BY <1>1, SameState, StopSound DEF Refused
<1>3. QED
  BY <1>1, <1>2, ChargeSound, MutateSound

LEMMA ExhaustSound ==
  ASSUME IInv, NEW rid, Exhaust(rid)
  PROVE  Preserved
<1>1. NextOK([run EXCEPT !.status = "blocked_cycle_limit"])
  BY SameState, SwapStatus DEF Exhaust, Admitted, NextOK, Sound, RunState, OldOrNewToken, OldOrNew
<1>2. QED
  BY <1>1, RecordSound DEF Exhaust

LEMMA WriteArtifactSound ==
  ASSUME IInv, NEW a \in Artifacts, NEW content \in Contents, WriteArtifact(a, content)
  PROVE  Preserved
BY DEF IInv, TypeOK, WriteArtifact, Sound, DepsOK, EndOK, CapsOK, TokensOK, CheckedOK, Preserved, OldOrNew

LEMMA StutterSound ==
  ASSUME IInv, UNCHANGED vars
  PROVE  Preserved
BY DEF IInv, TypeOK, vars, Sound, DepsOK, EndOK, CapsOK, TokensOK, CheckedOK, Preserved, OldOrNew

-----------------------------------------------------------------------------
LEMMA InitSound ==
  ASSUME Init
  PROVE  IInv
<1> PICK planned \in Costs : run = CreateRun(planned)
  BY DEF Init
<1>1. planned \in Nat /\ MaxCycles \in Nat
  BY BoundsAssumption
<1>2. \A s \in Steps : /\ NewStep(s) \in StepState
                       /\ NewStep(s).status = IF DependsOn(s) = {} THEN "ready" ELSE "pending"
                       /\ NewStep(s).attempts = 0 /\ NewStep(s).reviews = 0
                       /\ NewStep(s).token = 0 /\ ClaimOK(NewStep(s))
  BY DEF NewStep, StepState, StepStatus, ClaimOK
<1>3. /\ run \in RunState /\ run.status = "active" /\ run.seq = 1
      /\ \A s \in Steps : run.step[s] = NewStep(s)
  BY <1>1, <1>2 DEF CreateRun, RunState
<1>4. DepsOK(run)
  BY <1>2, <1>3 DEF DepsOK
<1>5. EndOK(run)
  BY <1>2, <1>3, WorkflowAssumption DEF EndOK, Refused, ValidWorkflow
<1>6. CapsOK(run) /\ TokensOK(run, run.seq) /\ CheckedOK(run)
  BY <1>2, <1>3, WorkflowTypes DEF CapsOK, TokensOK, CheckedOK
<1>7. TypeOK
  BY <1>3, BoundsAssumption DEF Init, TypeOK, CreatedEvent
<1>8. QED
  BY <1>2, <1>3, <1>4, <1>5, <1>6, <1>7 DEF IInv, Sound

LEMMA NextSound ==
  ASSUME IInv, [Next]_vars
  PROVE  Preserved
<1>1. \A s \in Steps, f \in Files : <<s, f>> \in Artifacts
  BY DEF Artifacts
<1>2. ASSUME NEW s \in Steps, StepVerb(s)
      PROVE  Preserved
  BY <1>1, <1>2, RequestStepSound, ApproveSound, RejectSound, TakeSound, RenewClaimSound,
     ExpireClaimSound, ClaimLapsesSound, HoldSound, CompleteSound, FailSound,
     ReleaseStepSound, BoundsAssumption DEF StepVerb
<1>3. ASSUME NEW s \in Steps, ReviewVerb(s)
      PROVE  Preserved
  BY <1>3, SendMessageSound, CheckApproveSound, CheckReturnSound, CheckRejectSound, BoundsAssumption, <1>1 DEF ReviewVerb
<1>4. CASE RunVerb
  BY <1>4, CancelRunSound, ExtendBudgetSound, ExhaustSound DEF RunVerb
<1>5. CASE \E a \in Artifacts, c \in Contents : WriteArtifact(a, c)
  BY <1>5, WriteArtifactSound
<1>6. CASE UNCHANGED vars
  BY <1>6, StutterSound
<1>7. QED
  BY <1>2, <1>3, <1>4, <1>5, <1>6 DEF Next

\* Whatever anybody calls, in whatever order, the run stays sound.
THEOREM Soundness == Spec => []IInv
<1>1. IInv /\ [Next]_vars => IInv'
  BY NextSound DEF Preserved, OldOrNew
<1>2. QED
  BY <1>1, InitSound, PTL DEF Spec

\* Every record keeps its type, at every moment of every run.
THEOREM Typed == Spec => []TypeOK
<1>1. IInv => TypeOK
  BY DEF IInv
<1>2. QED
  BY <1>1, Soundness, PTL

\* Nothing is worked on, parked or finished before what it depends on is done.
THEOREM DependenciesKept == Spec => []DependenciesDone
<1>1. IInv => DependenciesDone
  BY DEF IInv, Sound, DepsOK, DependenciesDone, Done, StatusOf
<1>2. QED
  BY <1>1, Soundness, PTL

\* The run's word and its steps' words agree at every moment.
THEOREM EndsAgree == Spec => []EndMatchesSteps
<1>1. IInv => EndMatchesSteps
  BY DEF IInv, Sound, EndOK, EndMatchesSteps, Done, StatusOf
<1>2. QED
  BY <1>1, Soundness, PTL

\* A claim exists only on work in progress, and no token is held twice.
THEOREM ClaimsKept == Spec => []ClaimsMatchWork
<1>1. IInv => ClaimsMatchWork
  BY DEF IInv, Sound, ClaimOK, TokensOK, ClaimsMatchWork, StatusOf
<1>2. QED
  BY <1>1, Soundness, PTL

\* A token a step did not have before outranks every token of the run.
Outranks(s) == run'.step[s].token \notin {0, run.step[s].token} =>
                 \A t \in Steps : run'.step[s].token > run.step[t].token
                                 /\ run'.step[s].token > run.seq

LEMMA NewTokenOutranks ==
  ASSUME IInv, Preserved, NEW s \in Steps
  PROVE  Outranks(s)
<1> SUFFICES ASSUME run'.step[s].token \notin {0, run.step[s].token}, NEW t \in Steps
             PROVE  run'.step[s].token > run.step[t].token /\ run'.step[s].token > run.seq
  BY DEF Outranks
<1>1. run'.step[s].token = run.seq + 1
  BY DEF Preserved, OldOrNew
<1>2. run.seq \in Nat /\ run.step[t].token \in Nat /\ run.step[t].token <= run.seq
  BY RunTypes
<1>3. QED
  BY <1>1, <1>2

\* The fencing rule of mint_claim: a token granted now outranks every token any
\* step has carried so far, whoever asked for it.
THEOREM TokensOutrankAll == Spec => TokensOutrank
<1> DEFINE Rule == \A s, t \in Steps : run'.step[s].token \notin {0, run.step[s].token} =>
                     run'.step[s].token > run.step[t].token /\ run'.step[s].token > run.seq
<1>1. IInv /\ [Next]_vars => [Rule]_vars
  BY NextSound, NewTokenOutranks DEF Outranks
<1>2. TokensOutrank <=> [][Rule]_vars
  BY PTL DEF TokensOutrank
<1> HIDE DEF Rule
<1>3. QED
  BY <1>1, <1>2, Soundness, PTL DEF Spec

-----------------------------------------------------------------------------
(***************************************************************************)
(* The run's books.  Every event that the balances of RunProperties count  *)
(* is entered for one step and moves that step in one of a few ways (Turn);*)
(* every other step stays as it is, or comes free (Quiet).  What a step's  *)
(* state says of its counts (StepBooks) is kept by either, so it is kept   *)
(* by every verb that is Booked: handed to mutate with nothing but such a  *)
(* turn.  The same fact gives the owner's view of the run: RunLifecycle.   *)
(***************************************************************************)
\* The events the balances count.
Counted == {"step.requested", "step.approved", "step.rejected", "step.held",
            "step.completed", "check.approved", "check.returned", "check.rejected"}
Tally(s) == [e \in Counted |-> Count(e, s)]

\* A decision to go on, from the checker of a step to its maker.
Decided(s, messages) ==
  \E x \in messages : /\ x.step = s /\ x.kind = "decision"
                      /\ x.from = Checker(s) /\ x.to = Owner(s)

AttemptBooks(s, st, n) == Risk(s) = "green" =>
  /\ st.status # "blocked_retry_limit" => n["step.requested"] = st.attempts + st.releases
  /\ st.status \in {"in_progress", "awaiting_approval"} => st.attempts >= 1

ParkBooks(s, st, n) ==
  /\ n["step.approved"] + n["step.rejected"] + One(st.status = "awaiting_approval")
       = n["step.held"] + (IF Risk(s) = "yellow" THEN n["step.requested"] ELSE 0)
  /\ Risk(s) = "red" => st.status \in {"pending", "ready", "blocked_human"}

ReviewBooks(s, st, n, messages) == Checker(s) # None =>
  /\ n["step.completed"] = n["check.approved"] + n["check.returned"]
       + n["check.rejected"] + One(st.status = "awaiting_check")
  /\ n["check.returned"] = st.reviews + One(st.status = "blocked_review_limit")
  /\ n["check.approved"] = One(st.status = "completed")
  /\ st.status = "completed" => Decided(s, messages)

StepBooks(s, st, n, messages) ==
  AttemptBooks(s, st, n) /\ ParkBooks(s, st, n) /\ ReviewBooks(s, st, n, messages)

\* The inductive invariant of the books, next to IInv.
Accounts ==
  /\ IsFiniteSet(log)
  /\ \A s \in Steps : StepBooks(s, run.step[s], Tally(s), run.messages)
  /\ LedgerBalances /\ GatedTransitionsAudited

-----------------------------------------------------------------------------
\* One event more: the log stays finite, is one longer, and the event counts
\* once, for its own kind and target and for nothing else.
LEMMA LogGrows ==
  ASSUME IsFiniteSet(log), NEW rid, ~Used(rid), NEW event, NEW actor, NEW target,
         log' = log \cup {[id |-> rid, event |-> event, actor |-> actor, target |-> target]}
  PROVE  /\ IsFiniteSet(log') /\ Cardinality(log) \in Nat
         /\ Cardinality(log') = Cardinality(log) + 1
         /\ \A e, s : /\ Count(e, s) \in Nat
                      /\ Count(e, s)' = Count(e, s) + One(e = event /\ s = target)
<1> DEFINE entry == [id |-> rid, event |-> event, actor |-> actor, target |-> target]
           those(e, s) == {x \in log : x.event = e /\ x.target = s}
           then(e, s) == {x \in log' : x.event = e /\ x.target = s}
<1>1. entry \notin log
  BY DEF Used
<1>2. entry.event = event /\ entry.target = target
  OBVIOUS
<1>3. log' = log \cup {entry}
  OBVIOUS
<1> HIDE DEF entry
<1>4. /\ IsFiniteSet(log') /\ Cardinality(log) \in Nat
      /\ Cardinality(log') = Cardinality(log) + 1
  BY <1>1, <1>3, FS_AddElement, FS_CardinalityType
<1>5. ASSUME NEW e, NEW s
      PROVE  /\ Count(e, s) \in Nat
             /\ Count(e, s)' = Count(e, s) + One(e = event /\ s = target)
  <2>1. IsFiniteSet(those(e, s)) /\ Cardinality(those(e, s)) \in Nat /\ entry \notin those(e, s)
    BY <1>1, FS_Subset, FS_CardinalityType
  <2>2. CASE e = event /\ s = target
    <3>1. then(e, s) = those(e, s) \cup {entry}
      BY <1>2, <1>3, <2>2
    <3>2. Count(e, s) = Cardinality(those(e, s)) /\ Count(e, s)' = Cardinality(then(e, s))
      BY DEF Count
    <3> HIDE DEF those, then
    <3>3. Cardinality(then(e, s)) = Cardinality(those(e, s)) + 1
      BY <2>1, <3>1, FS_AddElement
    <3>4. One(e = event /\ s = target) = 1
      BY <2>2 DEF One
    <3>5. QED
      BY <2>1, <3>2, <3>3, <3>4
  <2>3. CASE ~(e = event /\ s = target)
    <3>1. then(e, s) = those(e, s)
      BY <1>2, <1>3, <2>3
    <3>2. Count(e, s) = Cardinality(those(e, s)) /\ Count(e, s)' = Cardinality(then(e, s))
      BY DEF Count
    <3> HIDE DEF those, then
    <3>3. One(e = event /\ s = target) = 0
      BY <2>3 DEF One
    <3>4. QED
      BY <2>1, <3>1, <3>2, <3>3
  <2>4. QED
    BY <2>2, <2>3
<1>6. QED
  BY <1>4, <1>5

-----------------------------------------------------------------------------
\* What the books read of a step, what it has to show, and what may happen to it
\* unrecorded: only that it comes free once its dependencies are done.
Counts(a, b) == b.attempts = a.attempts /\ b.reviews = a.reviews /\ b.releases = a.releases
SameWork(a, b) == b.held = a.held /\ b.evidence = a.evidence /\ b.pinned = a.pinned
Kept(a, b) == Counts(a, b) /\ SameWork(a, b)
Quiet(a, b) == Kept(a, b) /\ (b.status = a.status \/ (a.status = "pending" /\ b.status = "ready"))

\* What a verb hands over has the run's own numbers, and every message so far.
Frame(new) == /\ new.seq = run.seq /\ new.cycles = run.cycles /\ new.limit = run.limit
              /\ run.messages \subseteq new.messages

\* What a call cost is owed by one step, and by the run with it.
Billed(r, s, cost) ==
  /\ r.planned = run.planned /\ r.spend = run.spend + cost
  /\ r.step[s].spend = run.step[s].spend + cost
  /\ \A x \in Steps : x # s => r.step[x].spend = run.step[x].spend
Charged(r, s) == \E cost \in Nat : Billed(r, s, cost)

\* A state on its way to the record in which only step s has moved.
Draft(r, s) == /\ r \in RunState /\ Frame(r) /\ Charged(r, s)
               /\ \A x \in Steps : x # s => Quiet(run.step[x], r.step[x])

\* A bill nothing was added to.
LEMMA Unbilled ==
  ASSUME run \in RunState, NEW s \in Steps, NEW r,
         r.planned = run.planned, r.spend = run.spend,
         \A x \in Steps : r.step[x].spend = run.step[x].spend
  PROVE  Charged(r, s)
<1>1. run.spend \in Nat /\ run.step[s].spend \in Nat
  BY DEF RunState, StepState
<1>2. Billed(r, s, 0)
  BY <1>1 DEF Billed
<1>3. QED
  BY <1>2 DEF Charged

LEMMA RunDraft ==
  ASSUME run \in RunState, NEW s \in Steps
  PROVE  Draft(run, s)
BY Unbilled DEF Draft, Frame, Quiet, Kept, Counts, SameWork

LEMMA PutDraft ==
  ASSUME run \in RunState, NEW s \in Steps, NEW st \in StepState, st.spend = run.step[s].spend
  PROVE  /\ Draft(Put(s, st), s) /\ Put(s, st).step[s] = st
         /\ Put(s, st).status = run.status
<1> PICK r : r = Put(s, st)
  OBVIOUS
<1>1. /\ r \in RunState /\ r.step[s] = st /\ r.status = run.status
      /\ r.planned = run.planned /\ r.spend = run.spend /\ Frame(r)
      /\ \A x \in Steps : x # s => r.step[x] = run.step[x]
  BY DEF Put, RunState, Frame
<1>2. Charged(r, s)
  BY <1>1, Unbilled
<1>3. QED
  BY <1>1, <1>2 DEF Draft, Quiet, Kept, Counts, SameWork

LEMMA StatusSet ==
  ASSUME NEW st \in StepState, NEW w \in StepStatus
  PROVE  LET q == [st EXCEPT !.status = w]
         IN q \in StepState /\ q.status = w /\ q.spend = st.spend /\ Kept(st, q)
BY DEF StepState, Kept, Counts, SameWork

LEMMA ChargeDraft ==
  ASSUME IInv, NEW s \in Steps, NEW r, Draft(r, s), NEW cost \in Nat
  PROVE  /\ Draft(Charge(r, s, cost), s)
         /\ Kept(r.step[s], Charge(r, s, cost).step[s])
         /\ Charge(r, s, cost).step[s].status = r.step[s].status
         /\ Charge(r, s, cost).status = r.status
<1> DEFINE st == [r.step[s] EXCEPT !.spend = @ + cost]
           f == [r.step EXCEPT ![s] = st]
           bill == r.spend + cost
           q == Charge(r, s, cost)
<1>1. /\ r \in RunState /\ r.step \in [Steps -> StepState] /\ r.step[s] \in StepState
      /\ bill \in Nat /\ r.step[s].spend + cost \in Nat
  BY DEF Draft, RunState, StepState
<1>2. /\ st \in StepState /\ st.status = r.step[s].status /\ Kept(r.step[s], st)
      /\ st.spend = r.step[s].spend + cost
  <2> PICK n \in Nat : n = r.step[s].spend + cost
    BY <1>1
  <2>1. st = [r.step[s] EXCEPT !.spend = n]
    BY <1>1
  <2>2. QED
    BY <1>1, <2>1 DEF StepState, Kept, Counts, SameWork
<1>3. q = [r EXCEPT !.step = f, !.spend = bill]
  BY DEF Charge
<1> HIDE DEF st, q, bill
<1>4. /\ f \in [Steps -> StepState] /\ f[s] = st
      /\ \A x \in Steps : x # s => f[x] = r.step[x]
  BY <1>1, <1>2
<1> HIDE DEF f
<1>5. /\ q \in RunState /\ q.status = r.status /\ q.step = f /\ q.seq = r.seq
      /\ q.cycles = r.cycles /\ q.limit = r.limit /\ q.messages = r.messages
      /\ q.planned = r.planned /\ q.spend = bill
  BY <1>1, <1>3, <1>4 DEF RunState
<1>6. Charged(q, s)
  <2> PICK before \in Nat : Billed(r, s, before)
    BY DEF Draft, Charged
  <2> PICK n \in Nat : n = before + cost
    OBVIOUS
  <2>1. run.spend \in Nat /\ run.step[s].spend \in Nat
    BY RunTypes DEF StepState
  <2>2. Billed(q, s, n)
    BY <1>2, <1>4, <1>5, <2>1 DEF Billed, bill
  <2>3. QED
    BY <2>2 DEF Charged
<1>7. QED
  BY <1>2, <1>4, <1>5, <1>6 DEF Draft, Frame, q

LEMMA StopDraft ==
  ASSUME NEW s \in Steps, NEW r, Draft(r, s), NEW why \in Refused
  PROVE  /\ Draft(Stop(r, s, why), s)
         /\ Kept(r.step[s], Stop(r, s, why).step[s])
         /\ Stop(r, s, why).step[s].status = why /\ Stop(r, s, why).status = why
<1> DEFINE st == [r.step[s] EXCEPT !.status = why]
           f == [r.step EXCEPT ![s] = st]
           q == Stop(r, s, why)
<1>1. /\ r \in RunState /\ r.step \in [Steps -> StepState] /\ r.step[s] \in StepState
      /\ why \in StepStatus /\ why \in TerminalRun
  BY DEF Draft, RunState, StepStatus, TerminalRun, Refused
<1>2. st \in StepState /\ st.status = why /\ st.spend = r.step[s].spend /\ Kept(r.step[s], st)
  BY <1>1, StatusSet
<1>3. q = [r EXCEPT !.step = f, !.status = why]
  BY DEF Stop
<1> HIDE DEF st, q
<1>4. /\ f \in [Steps -> StepState] /\ f[s] = st
      /\ \A x \in Steps : x # s => f[x] = r.step[x]
  BY <1>1, <1>2
<1> HIDE DEF f
<1>5. /\ q \in RunState /\ q.status = why /\ q.step = f /\ q.seq = r.seq
      /\ q.cycles = r.cycles /\ q.limit = r.limit /\ q.messages = r.messages
      /\ q.planned = r.planned /\ q.spend = r.spend
  BY <1>1, <1>3, <1>4 DEF RunState
<1>6. Charged(q, s)
  BY <1>2, <1>4, <1>5 DEF Draft, Charged, Billed
<1>7. QED
  BY <1>2, <1>4, <1>5, <1>6 DEF Draft, Frame, q

LEMMA FinishDraft ==
  ASSUME NEW s \in Steps, NEW r, Draft(r, s)
  PROVE  /\ Draft(Finish(r, s), s)
         /\ Kept(r.step[s], Finish(r, s).step[s])
         /\ Finish(r, s).step[s].status = "completed"
         /\ Finish(r, s).status \in {r.status, "completed"}
<1> DEFINE st == [r.step[s] EXCEPT !.status = "completed"]
           f == [r.step EXCEPT ![s] = st]
           m == [r EXCEPT !.step = f]
           q == ReleaseDependents(m)
<1>1. /\ r \in RunState /\ r.step \in [Steps -> StepState] /\ r.step[s] \in StepState
      /\ "completed" \in StepStatus /\ "ready" \in StepStatus
  BY DEF Draft, RunState, StepStatus
<1>2. st \in StepState /\ st.status = "completed" /\ st.spend = r.step[s].spend /\ Kept(r.step[s], st)
  BY <1>1, StatusSet
<1>3. Finish(r, s) = q
  BY DEF Finish
<1> HIDE DEF st
<1>4. /\ f \in [Steps -> StepState] /\ f[s] = st
      /\ \A x \in Steps : x # s => f[x] = r.step[x]
  BY <1>1, <1>2
<1> HIDE DEF f
<1>5. /\ m \in RunState /\ m.status = r.status /\ m.step = f /\ m.seq = r.seq
      /\ m.cycles = r.cycles /\ m.limit = r.limit /\ m.messages = r.messages
      /\ m.planned = r.planned /\ m.spend = r.spend
  BY <1>1, <1>4 DEF RunState
<1> HIDE DEF m
<1>6. /\ q \in RunState /\ q.status \in {m.status, "completed"} /\ q.seq = m.seq
      /\ q.cycles = m.cycles /\ q.limit = m.limit /\ q.messages = m.messages
      /\ q.planned = m.planned /\ q.spend = m.spend
  <2>1. q \in RunState /\ q.status \in {m.status, "completed"} /\ q.seq = m.seq
    BY <1>5, ReleaseDependentsState
  <2>2. /\ q.cycles = m.cycles /\ q.limit = m.limit /\ q.messages = m.messages
        /\ q.planned = m.planned /\ q.spend = m.spend
    BY <1>5 DEF ReleaseDependents, RunState
  <2>3. QED
    BY <2>1, <2>2
<1>7. ASSUME NEW x \in Steps
      PROVE  /\ Kept(f[x], q.step[x]) /\ q.step[x].spend = f[x].spend
             /\ \/ q.step[x].status = f[x].status
                \/ f[x].status = "pending" /\ q.step[x].status = "ready"
  <2>1. q.step[x] = IF Unblocked(m, x) THEN [f[x] EXCEPT !.status = "ready"] ELSE f[x]
    BY <1>5, ReleaseDependentsState
  <2>2. f[x] \in StepState
    BY <1>4
  <2>3. LET new == [f[x] EXCEPT !.status = "ready"] 
        IN new.status = "ready" /\ new.spend = f[x].spend /\ Kept(f[x], new)
    BY <1>1, <2>2, StatusSet
  <2>4. Unblocked(m, x) => f[x].status = "pending"
    BY <1>5 DEF Unblocked
  <2> HIDE DEF q
  <2>5. CASE Unblocked(m, x)
    BY <2>1, <2>3, <2>4, <2>5
  <2>6. CASE ~Unblocked(m, x)
    BY <2>1, <2>6 DEF Kept, Counts, SameWork
  <2>7. QED
    BY <2>5, <2>6
<1> HIDE DEF q
<1>8. ASSUME NEW x \in Steps, x # s
      PROVE  Quiet(run.step[x], q.step[x])
  <2>1. Quiet(run.step[x], f[x])
    BY <1>4, <1>8 DEF Draft
  <2>2. QED
    BY <1>7, <2>1 DEF Quiet, Kept, Counts, SameWork
<1>9. q.step[s].status = "completed" /\ Kept(r.step[s], q.step[s])
  BY <1>2, <1>4, <1>7 DEF Kept, Counts, SameWork
<1>10. Charged(q, s)
  BY <1>2, <1>4, <1>5, <1>6, <1>7 DEF Draft, Charged, Billed
<1>11. QED
  BY <1>3, <1>5, <1>6, <1>8, <1>9, <1>10 DEF Draft, Frame

-----------------------------------------------------------------------------
\* What an event says of the step it is about: a before it, b after it.
Turn(event, s, a, b) ==
  \/ /\ event = "step.requested" /\ a.status = "ready"
     /\ \/ Risk(s) = "red" /\ b.status = "blocked_human" /\ Kept(a, b)
        \/ Risk(s) = "yellow" /\ b.status = "awaiting_approval" /\ Kept(a, b)
        \/ Risk(s) = "green" /\ b.status = "blocked_retry_limit" /\ Kept(a, b)
        \/ /\ Risk(s) = "green" /\ b.status = "in_progress"
           /\ b.attempts = a.attempts + 1 /\ b.reviews = a.reviews /\ b.releases = a.releases
           /\ SameWork(a, b)
  \/ /\ event = "step.approved" /\ a.status = "awaiting_approval" /\ Counts(a, b)
     /\ b.evidence = a.evidence /\ b.pinned = a.pinned
     /\ \/ a.held = "budget" /\ b.status = "ready" /\ b.held = "none"
        \/ a.held # "budget" /\ b.status = "in_progress" /\ b.held = a.held
  \/ /\ event = "step.rejected" /\ a.status = "awaiting_approval"
     /\ b.status = "rejected" /\ Kept(a, b)
  \/ /\ event = "step.held" /\ a.status = "in_progress"
     /\ b.status = "awaiting_approval" /\ Counts(a, b)
     /\ b.evidence = a.evidence /\ b.pinned = a.pinned /\ b.held \in {"ungraded", "budget"}
  \/ /\ event = "step.completed" /\ a.status = "in_progress" /\ Counts(a, b)
     /\ b.status = (IF Checker(s) = None THEN "completed" ELSE "awaiting_check")
     /\ b.held = a.held /\ b.evidence \in Artifacts /\ b.pinned = disk[b.evidence]
  \/ /\ event = "step.failed" /\ a.status = "in_progress"
     /\ b.status \in {"ready", "blocked_retry_limit"} /\ Kept(a, b)
  \/ /\ event = "step.released" /\ a.status = "in_progress" /\ b.status = "ready"
     /\ b.attempts = Unspent(a.attempts) /\ b.reviews = a.reviews /\ b.releases = a.releases + 1
     /\ SameWork(a, b)
  \/ /\ event = "check.approved" /\ a.status = "awaiting_check"
     /\ b.status = "completed" /\ Kept(a, b) /\ Decided(s, run.messages)
  \/ /\ event = "check.returned" /\ a.status = "awaiting_check"
     /\ \/ b.status = "blocked_review_limit" /\ Kept(a, b)
        \/ /\ b.status = "ready" /\ b.reviews = a.reviews + 1
           /\ b.attempts = a.attempts /\ b.releases = a.releases /\ SameWork(a, b)
  \/ /\ event = "check.rejected" /\ a.status = "awaiting_check"
     /\ b.status = "rejected_by_checker" /\ Kept(a, b)

\* An event turns the step it is about, if it is about one, and no other.
Turned(event, target, new) == \A x \in Steps :
  \/ x = target /\ Turn(event, x, run.step[x], new.step[x])
  \/ (x # target \/ event \notin Counted) /\ Quiet(run.step[x], new.step[x])

\* What every verb gives mutate, and mutate does with it.
Booked(rid, event, actor, target, new, gated) ==
  /\ new \in RunState /\ Frame(new) /\ Turned(event, target, new)
  /\ \E s \in Steps : Charged(new, s)
  /\ event \notin {"run.created", "run.budget_extended", "run.blocked_cycle_limit"}
  /\ new.status \in {"active", "completed", "cancelled"} \cup Refused
  /\ new.status = "cancelled" => event = "run.cancelled"
  /\ Gated([id |-> rid, event |-> event, actor |-> actor, target |-> target]) => gated = TRUE
  /\ Mutate(rid, event, actor, target, new, gated)

EnteredAs(event, target) ==
  \E rid, actor, new, gated : Booked(rid, event, actor, target, new, gated)
Entered == \E event, target : EnteredAs(event, target)

-----------------------------------------------------------------------------
\* A turn keeps its step's books, one count higher.
LEMMA TurnBooked ==
  ASSUME NEW s \in Steps, NEW event, NEW a \in StepState, NEW b \in StepState,
         Turn(event, s, a, b),
         NEW n \in [Counted -> Nat], NEW m \in [Counted -> Nat],
         \A e \in Counted : m[e] = n[e] + One(e = event),
         NEW messages, run.messages \subseteq messages,
         StepBooks(s, a, n, run.messages)
  PROVE  StepBooks(s, b, m, messages)
<1>1. /\ a.attempts \in Nat /\ a.reviews \in Nat /\ a.releases \in Nat
      /\ Risk(s) \in {"green", "yellow", "red"} /\ (Checker(s) # None => Risk(s) = "green")
  BY WorkflowTypes DEF StepState
<1>2. \A e \in Counted : n[e] \in Nat /\ m[e] = IF e = event THEN n[e] + 1 ELSE n[e]
  BY DEF One
<1>3. Decided(s, run.messages) => Decided(s, messages)
  BY DEF Decided
<1>4. AttemptBooks(s, b, m)
  BY <1>1, <1>2 DEF AttemptBooks, StepBooks, Turn, Kept, Counts, SameWork, Unspent, Counted, Refused
<1>5. ParkBooks(s, b, m)
  BY <1>1, <1>2 DEF ParkBooks, StepBooks, Turn, Kept, Counts, SameWork, One, Counted, Refused
<1>6. ReviewBooks(s, b, m, messages)
  BY <1>1, <1>2, <1>3 DEF ReviewBooks, StepBooks, Turn, Kept, Counts, SameWork, One, Counted, Refused
<1>7. QED
  BY <1>4, <1>5, <1>6 DEF StepBooks

\* A step no event is about keeps its books as they are.
LEMMA QuietBooked ==
  ASSUME NEW s \in Steps, NEW a, NEW b, Quiet(a, b), NEW n, NEW messages,
         run.messages \subseteq messages, StepBooks(s, a, n, run.messages)
  PROVE  StepBooks(s, b, n, messages)
<1>1. Decided(s, run.messages) => Decided(s, messages)
  BY DEF Decided
<1>2. AttemptBooks(s, b, n) /\ ParkBooks(s, b, n)
  BY DEF AttemptBooks, ParkBooks, StepBooks, Quiet, Kept, Counts, SameWork, One
<1>3. ReviewBooks(s, b, n, messages)
  BY <1>1 DEF ReviewBooks, StepBooks, Quiet, Kept, Counts, SameWork, One
<1>4. QED
  BY <1>2, <1>3 DEF StepBooks

-----------------------------------------------------------------------------
Uncycled == {"run.budget_extended", "run.blocked_cycle_limit"}

\* The state of the run with its books unchanged.
LEMMA SameBooks ==
  ASSUME Accounts, UNCHANGED log, audit \subseteq audit',
         run'.seq = run.seq, run'.cycles = run.cycles, run'.limit = run.limit,
         run'.messages = run.messages, run'.status = run.status,
         \A x \in Steps : Quiet(run.step[x], run'.step[x])
  PROVE  Accounts'
<1>1. \A e, s : Count(e, s)' = Count(e, s)
  BY DEF Count
<1>2. \A s \in Steps : Tally(s)' = Tally(s)
  BY <1>1 DEF Tally
<1>3. ASSUME NEW s \in Steps
      PROVE  StepBooks(s, run'.step[s], Tally(s)', run'.messages)
  BY <1>2, QuietBooked DEF Accounts
<1>4. LedgerBalances'
  BY <1>1 DEF Accounts, LedgerBalances
<1>5. GatedTransitionsAudited'
  BY DEF Accounts, GatedTransitionsAudited
<1>6. QED
  BY <1>3, <1>4, <1>5 DEF Accounts

\* Record keeps the books whenever the state it is given has the right numbers.
LEMMA RecordBooks ==
  ASSUME IInv, IInv', Accounts, NEW rid, ~Used(rid), NEW event, NEW actor, NEW target, NEW new, NEW gated,
         new \in RunState, new.seq = run.seq, run.messages \subseteq new.messages,
         new.cycles = run.cycles + One(event \notin Uncycled),
         event \in Uncycled => target = "run",
         new.cycles <= new.limit, new.limit <= CycleCeiling,
         Turned(event, target, new),
         Gated([id |-> rid, event |-> event, actor |-> actor, target |-> target]) => gated = TRUE,
         Record(rid, event, actor, target, new, gated)
  PROVE  Accounts'
<1> DEFINE entry == [id |-> rid, event |-> event, actor |-> actor, target |-> target]
<1>1. CASE UNCHANGED <<run, log>> /\ audit \subseteq audit'
  BY <1>1, SameBooks DEF Quiet, Kept, Counts, SameWork
<1>2. CASE /\ AppendEvent(rid, event, actor, target, new)
           /\ audit' = audit \cup GatedEntry(rid, event, gated) \cup TerminalEntry(rid, new)
  <2>1. log' = log \cup {entry}
    BY <1>2 DEF AppendEvent
  <2>2. /\ IsFiniteSet(log') /\ Cardinality(log) \in Nat
        /\ Cardinality(log') = Cardinality(log) + 1
        /\ \A e, s : /\ Count(e, s) \in Nat
                     /\ Count(e, s)' = Count(e, s) + One(e = event /\ s = target)
    BY <2>1, LogGrows DEF Accounts
  <2>3. /\ run'.seq = run.seq + 1 /\ run'.cycles = new.cycles /\ run'.limit = new.limit
        /\ run'.messages = new.messages /\ run'.status = new.status /\ run'.step = new.step
    BY <1>2 DEF AppendEvent, RunState
  <2>4. ASSUME NEW s \in Steps
        PROVE  StepBooks(s, run'.step[s], Tally(s)', run'.messages)
    <3>1. Tally(s) \in [Counted -> Nat] /\ Tally(s)' \in [Counted -> Nat]
      BY <2>2 DEF Tally, One
    <3>2. \A e \in Counted : Tally(s)'[e] = Tally(s)[e] + One(e = event /\ s = target)
      BY <2>2 DEF Tally
    <3>3. run.step[s] \in StepState /\ new.step[s] \in StepState
      BY DEF IInv, Sound, RunState
    <3>4. StepBooks(s, run.step[s], Tally(s), run.messages)
      BY DEF Accounts
    <3>5. CASE s = target /\ Turn(event, s, run.step[s], new.step[s])
      <4>1. \A e \in Counted : Tally(s)'[e] = Tally(s)[e] + One(e = event)
        BY <3>2, <3>5 DEF One
      <4>2. QED
        BY <2>3, <3>1, <3>3, <3>4, <3>5, <4>1, TurnBooked
    <3>6. CASE (s # target \/ event \notin Counted) /\ Quiet(run.step[s], new.step[s])
      <4>1. \A e \in Counted : Tally(s)'[e] = Tally(s)[e]
        BY <3>1, <3>2, <3>6 DEF One
      <4>2. Tally(s)' = Tally(s)
        BY <3>1, <4>1
      <4>3. QED
        BY <2>3, <3>4, <3>6, <4>2, QuietBooked
    <3>7. QED
      BY <3>5, <3>6 DEF Turned
  <2>5. LedgerBalances'
    <3>1. /\ run.seq \in Nat /\ run.cycles \in Nat /\ run.seq = Cardinality(log)
          /\ run.seq = 1 + run.cycles + Count("run.budget_extended", "run")
                          + Count("run.blocked_cycle_limit", "run")
      BY RunTypes DEF Accounts, LedgerBalances
    <3>2. One(event \notin Uncycled) + One("run.budget_extended" = event /\ "run" = target)
            + One("run.blocked_cycle_limit" = event /\ "run" = target) = 1
      BY DEF One, Uncycled
    <3>3. /\ One(event \notin Uncycled) \in Nat
          /\ One("run.budget_extended" = event /\ "run" = target) \in Nat
          /\ One("run.blocked_cycle_limit" = event /\ "run" = target) \in Nat
      BY DEF One
    <3>4. QED
      BY <2>2, <2>3, <3>1, <3>2, <3>3 DEF LedgerBalances
  <2>6. GatedTransitionsAudited'
    <3>1. \A e \in log : Gated(e) => [request |-> e.id, action |-> e.event] \in audit'
      BY <1>2 DEF Accounts, GatedTransitionsAudited
    <3>2. Gated(entry) => [request |-> entry.id, action |-> entry.event] \in audit'
      BY <1>2 DEF GatedEntry
    <3>3. ASSUME new.status \in TerminalRun
          PROVE  \E a \in audit' : a.action = new.status
      <4>1. CASE new.status = run.status
        BY <1>2, <3>3, <4>1 DEF Accounts, GatedTransitionsAudited
      <4>2. CASE new.status # run.status
        <5>1. [request |-> rid, action |-> new.status] \in audit'
          BY <1>2, <3>3, <4>2 DEF TerminalEntry
        <5>2. QED
          BY <5>1
      <4>3. QED
        BY <4>1, <4>2
    <3>4. QED
      BY <2>1, <2>3, <3>1, <3>2, <3>3 DEF GatedTransitionsAudited
  <2>7. QED
    BY <2>2, <2>4, <2>5, <2>6 DEF Accounts
<1>3. QED
  BY <1>1, <1>2 DEF Record

\* Every verb that is booked keeps the books.
LEMMA BookedBooks ==
  ASSUME IInv, IInv', Accounts, NEW rid, NEW event, NEW actor, NEW target, NEW new, NEW gated,
         Booked(rid, event, actor, target, new, gated)
  PROVE  Accounts'
<1> PICK n \in Nat : n = new.cycles + 1
  BY DEF Booked, RunState
<1> DEFINE q == [new EXCEPT !.cycles = n]
<1>1. Record(rid, event, actor, target, q, gated)
  <2>1. [new EXCEPT !.cycles = @ + 1] = q
    BY DEF Booked, RunState
  <2>2. QED
    BY <2>1 DEF Booked, Mutate
<1>2. /\ q \in RunState /\ q.step = new.step /\ q.seq = new.seq /\ q.cycles = n
      /\ q.limit = new.limit /\ q.messages = new.messages
  BY DEF Booked, RunState
<1> HIDE DEF q
<1>3. /\ q.seq = run.seq /\ run.messages \subseteq q.messages /\ q.limit = run.limit
      /\ q.cycles = run.cycles + 1 /\ run.cycles < run.limit
      /\ event \notin Uncycled /\ ~Used(rid)
  BY <1>2 DEF Booked, Frame, Mutate, Admitted, Uncycled
<1>4. One(event \notin Uncycled) = 1
  BY <1>3 DEF One
<1>5. q.cycles <= q.limit /\ q.limit <= CycleCeiling
  BY <1>3, RunTypes DEF RunState, Accounts, LedgerBalances
<1>6. Turned(event, target, q)
  BY <1>2 DEF Booked, Turned
<1>7. Gated([id |-> rid, event |-> event, actor |-> actor, target |-> target]) => gated = TRUE
  BY DEF Booked
<1>8. QED
  BY <1>1, <1>2, <1>3, <1>4, <1>5, <1>6, <1>7, RecordBooks

LEMMA ExhaustBooks ==
  ASSUME IInv, IInv', Accounts, NEW rid, Exhaust(rid)
  PROVE  Accounts'
<1> PICK event : event = "run.blocked_cycle_limit"
  OBVIOUS
<1> DEFINE q == [run EXCEPT !.status = "blocked_cycle_limit"]
<1>1. /\ Record(rid, event, "runtime", "run", q, FALSE)
      /\ ~Used(rid)
  BY DEF Exhaust, Admitted
<1>2. /\ q \in RunState /\ q.step = run.step /\ q.seq = run.seq /\ q.cycles = run.cycles
      /\ q.limit = run.limit /\ q.messages = run.messages
  BY RunTypes DEF RunState, TerminalRun
<1> HIDE DEF q
<1>3. One(event \notin Uncycled) = 0
  BY DEF One, Uncycled
<1>4. Turned(event, "run", q)
  BY <1>2 DEF Turned, Quiet, Kept, Counts, SameWork, Counted
<1>5. ~Gated([id |-> rid, event |-> event, actor |-> "runtime", target |-> "run"])
  BY DEF Gated, GatedEvents
<1>6. q.cycles = run.cycles + 0 /\ q.cycles <= q.limit /\ q.limit <= CycleCeiling
  BY <1>2, RunTypes DEF Accounts, LedgerBalances
<1>7. QED
  BY <1>1, <1>2, <1>3, <1>4, <1>5, <1>6, RecordBooks

LEMMA ExtendBudgetBooks ==
  ASSUME IInv, IInv', Accounts, NEW rid, NEW human, NEW extra \in Extensions, ExtendBudget(rid, human, extra)
  PROVE  Accounts'
<1> PICK event : event = "run.budget_extended"
  OBVIOUS
<1> DEFINE asked == run.limit + extra
<1> PICK ceiling : ceiling = IF asked < CycleCeiling THEN asked ELSE CycleCeiling
  OBVIOUS
<1> DEFINE q == [run EXCEPT !.status = "active", !.limit = ceiling]
<1>1. /\ Record(rid, event, human, "run", q, TRUE)
      /\ ~Used(rid) /\ ceiling > run.limit
  BY DEF ExtendBudget
<1>2. run.limit \in Nat /\ ceiling \in Nat /\ ceiling <= CycleCeiling
  BY RunTypes, BoundsAssumption DEF RunState
<1>3. /\ q \in RunState /\ q.step = run.step /\ q.seq = run.seq /\ q.cycles = run.cycles
      /\ q.limit = ceiling /\ q.messages = run.messages
  BY <1>2, RunTypes DEF RunState
<1> HIDE DEF q
<1>4. One(event \notin Uncycled) = 0
  BY DEF One, Uncycled
<1>5. Turned(event, "run", q)
  BY <1>3 DEF Turned, Quiet, Kept, Counts, SameWork, Counted
<1>6. q.cycles = run.cycles + 0 /\ q.cycles <= q.limit /\ q.limit <= CycleCeiling
  BY <1>1, <1>2, <1>3, RunTypes DEF Accounts, LedgerBalances
<1>7. QED
  BY <1>1, <1>3, <1>4, <1>5, <1>6, RecordBooks

LEMMA ClaimLapsesBooks ==
  ASSUME IInv, Accounts, NEW s \in Steps, ClaimLapses(s)
  PROVE  Accounts'
<1>1. /\ run \in RunState /\ run.step \in [Steps -> StepState]
      /\ run' = [run EXCEPT !.step[s].live = FALSE] /\ UNCHANGED <<log, audit>>
  BY RunTypes DEF ClaimLapses, RunState
<1>2. \A x \in Steps : Quiet(run.step[x], run'.step[x])
  BY <1>1 DEF RunState, StepState, Quiet, Kept, Counts, SameWork
<1>3. /\ run'.seq = run.seq /\ run'.cycles = run.cycles /\ run'.limit = run.limit
      /\ run'.messages = run.messages /\ run'.status = run.status
  BY <1>1 DEF RunState
<1>4. QED
  BY <1>1, <1>2, <1>3, SameBooks

LEMMA UnmovedBooks ==
  ASSUME Accounts, UNCHANGED <<run, log, audit>>
  PROVE  Accounts'
BY SameBooks DEF Quiet, Kept, Counts, SameWork

-----------------------------------------------------------------------------
\* The verbs, one by one, are entered in the books as what they are.
LEMMA Enter ==
  ASSUME NEW s \in Steps, NEW rid, NEW event, NEW actor, NEW new, NEW gated,
         Draft(new, s),
         \/ Turn(event, s, run.step[s], new.step[s])
         \/ event \notin Counted /\ Quiet(run.step[s], new.step[s]),
         event \notin {"run.created", "run.cancelled"} \cup Uncycled,
         new.status \in {"active", "completed"} \cup Refused,
         event \in GatedEvents \/ (event = "step.requested" /\ Risk(s) # "green") => gated = TRUE,
         Mutate(rid, event, actor, s, new, gated)
  PROVE  EnteredAs(event, s)
<1>1. Turned(event, s, new)
  BY DEF Draft, Turned
<1>2. Gated([id |-> rid, event |-> event, actor |-> actor, target |-> s]) => gated = TRUE
  BY DEF Gated
<1>3. new.status \in {"active", "completed", "cancelled"} \cup Refused /\ new.status # "cancelled"
  BY DEF Refused
<1>4. Booked(rid, event, actor, s, new, gated)
  BY <1>1, <1>2, <1>3 DEF Booked, Draft, Uncycled
<1>5. QED
  BY <1>4 DEF EnteredAs

\* A step's claim fields are nothing to the books.
LEMMA NoClaimKept ==
  ASSUME NEW st \in StepState
  PROVE  /\ NoClaim(st) \in StepState /\ NoClaim(st).status = st.status
         /\ NoClaim(st).spend = st.spend /\ Kept(st, NoClaim(st))
BY DEF NoClaim, StepState, Kept, Counts, SameWork

LEMMA NewClaimKept ==
  ASSUME IInv, NEW st \in StepState, NEW holder \in Holders
  PROVE  /\ NewClaim(st, holder) \in StepState /\ NewClaim(st, holder).status = st.status
         /\ NewClaim(st, holder).spend = st.spend /\ Kept(st, NewClaim(st, holder))
<1> PICK n \in Nat : n = run.seq + 1
  BY RunTypes
<1>1. NewClaim(st, holder) = [st EXCEPT !.holder = holder, !.token = n, !.live = TRUE]
  BY DEF NewClaim
<1>2. QED
  BY <1>1 DEF StepState, Kept, Counts, SameWork

LEMMA RequestStepEntered ==
  ASSUME IInv, NEW rid, NEW s \in Steps, NEW actor, NEW holder \in Holders,
         RequestStep(rid, s, actor, holder)
  PROVE  EnteredAs("step.requested", s)
<1> DEFINE st == run.step[s]
           parked == [st EXCEPT !.status = "awaiting_approval"]
           claimed == NewClaim(st, holder)
           started == [claimed EXCEPT !.status = "in_progress", !.attempts = @ + 1]
<1> PICK event : event = "step.requested"
  OBVIOUS
<1>1. /\ run \in RunState /\ st \in StepState /\ st.status = "ready" /\ run.status = "active"
      /\ event \notin {"run.created", "run.cancelled"} \cup Uncycled
      /\ event \notin GatedEvents
  BY RunTypes DEF RequestStep, Mutate, Admitted, Uncycled, GatedEvents
<1>2. CASE Risk(s) = "red" /\ Mutate(rid, event, actor, s, Stop(run, s, "blocked_human"), TRUE)
  <2> PICK new : new = Stop(run, s, "blocked_human")
    OBVIOUS
  <2>1. Draft(new, s) /\ Kept(st, new.step[s]) /\ new.step[s].status = "blocked_human" /\ new.status \in Refused
    BY <1>1, RunDraft, StopDraft DEF Refused
  <2>2. QED
    BY <1>1, <1>2, <2>1, Enter DEF Turn
<1>3. CASE Risk(s) = "yellow" /\ Mutate(rid, event, actor, s, Put(s, parked), TRUE)
  <2> PICK new : new = Put(s, parked)
    OBVIOUS
  <2>1. /\ parked \in StepState /\ parked.status = "awaiting_approval"
        /\ parked.spend = st.spend /\ Kept(st, parked)
    BY <1>1, StatusSet DEF StepStatus
  <2> HIDE DEF parked
  <2>2. Draft(new, s) /\ new.step[s] = parked /\ new.status = "active"
    BY <1>1, <2>1, PutDraft
  <2>3. QED
    BY <1>1, <1>3, <2>1, <2>2, Enter DEF Turn
<1>4. CASE Risk(s) = "green" /\ Mutate(rid, event, actor, s, Stop(run, s, "blocked_retry_limit"), FALSE)
  <2> PICK new : new = Stop(run, s, "blocked_retry_limit")
    OBVIOUS
  <2>1. Draft(new, s) /\ Kept(st, new.step[s]) /\ new.step[s].status = "blocked_retry_limit" /\ new.status \in Refused
    BY <1>1, RunDraft, StopDraft DEF Refused
  <2>2. QED
    BY <1>1, <1>4, <2>1, Enter DEF Turn
<1>5. CASE Risk(s) = "green" /\ Mutate(rid, event, actor, s, Put(s, started), FALSE)
  <2> PICK new : new = Put(s, started)
    OBVIOUS
  <2>1. claimed \in StepState /\ claimed.spend = st.spend /\ Kept(st, claimed)
    BY <1>1, NewClaimKept
  <2> HIDE DEF claimed
  <2>2. /\ started \in StepState /\ started.status = "in_progress"
        /\ started.attempts = claimed.attempts + 1 /\ started.reviews = claimed.reviews
        /\ started.releases = claimed.releases /\ SameWork(claimed, started)
        /\ started.spend = claimed.spend
    <3> PICK n \in Nat : n = claimed.attempts + 1
      BY <2>1 DEF StepState
    <3>1. started = [claimed EXCEPT !.status = "in_progress", !.attempts = n]
      BY <2>1 DEF StepState
    <3>2. QED
      BY <2>1, <3>1 DEF StepState, StepStatus, SameWork
  <2> HIDE DEF started
  <2>3. Draft(new, s) /\ new.step[s] = started /\ new.status = "active"
    BY <1>1, <2>1, <2>2, PutDraft
  <2>4. QED
    BY <1>1, <1>5, <2>1, <2>2, <2>3, Enter DEF Turn, Kept, Counts, SameWork
<1>6. QED
  BY <1>2, <1>3, <1>4, <1>5 DEF RequestStep

LEMMA ApproveEntered ==
  ASSUME IInv, NEW rid, NEW s \in Steps, NEW human, Approve(rid, s, human)
  PROVE  EnteredAs("step.approved", s)
<1> DEFINE st == NoClaim(run.step[s])
           bought == [st EXCEPT !.status = "ready", !.held = "none"]
           resumed == [st EXCEPT !.status = "in_progress"]
           room == IF run.ceiling # 0 THEN run.ceiling ELSE DefaultCeiling
<1> PICK event : event = "step.approved"
  OBVIOUS
<1> PICK total \in Nat : total = run.spend + room
  BY RunTypes, BoundsAssumption
<1>1. /\ run \in RunState /\ st \in StepState /\ run.status = "active"
      /\ run.step[s].status = "awaiting_approval" /\ Kept(run.step[s], st)
      /\ st.spend = run.step[s].spend
      /\ event \notin {"run.created", "run.cancelled"} \cup Uncycled
  BY RunTypes, NoClaimKept DEF Approve, Mutate, Admitted, Uncycled
<1>2. \/ st.held = "budget" /\ Mutate(rid, event, human, s, [Put(s, bought) EXCEPT !.ceiling = total], TRUE)
      \/ st.held # "budget" /\ Mutate(rid, event, human, s, Put(s, resumed), TRUE)
  BY DEF Approve
<1> HIDE DEF st
<1>3. /\ bought \in StepState /\ bought.status = "ready" /\ Counts(run.step[s], bought)
      /\ bought.held = "none" /\ bought.evidence = run.step[s].evidence
      /\ bought.pinned = run.step[s].pinned /\ st.held = run.step[s].held
      /\ resumed \in StepState /\ resumed.status = "in_progress" /\ Kept(run.step[s], resumed)
      /\ bought.spend = run.step[s].spend /\ resumed.spend = run.step[s].spend
  BY <1>1 DEF StepState, StepStatus, Kept, Counts, SameWork
<1> HIDE DEF bought, resumed
<1>4. CASE /\ st.held = "budget"
           /\ Mutate(rid, event, human, s, [Put(s, bought) EXCEPT !.ceiling = total], TRUE)
  <2> PICK r : r = Put(s, bought)
    OBVIOUS
  <2> PICK new : new = [r EXCEPT !.ceiling = total]
    OBVIOUS
  <2>1. Draft(r, s) /\ r.step[s] = bought /\ r.status = "active"
    BY <1>1, <1>3, PutDraft
  <2>2. Draft(new, s) /\ new.step[s] = bought /\ new.status = "active"
    <3>1. /\ new \in RunState /\ new.step = r.step /\ new.status = r.status
          /\ new.spend = r.spend /\ new.planned = r.planned /\ Frame(new)
      BY <2>1 DEF Draft, Frame, RunState
    <3>2. Charged(new, s)
      BY <2>1, <3>1 DEF Draft, Charged, Billed
    <3>3. QED
      BY <2>1, <3>1, <3>2 DEF Draft
  <2>3. Turn(event, s, run.step[s], new.step[s])
    BY <1>1, <1>3, <1>4, <2>2 DEF Turn
  <2>4. QED
    BY <1>1, <1>4, <2>2, <2>3, Enter
<1>5. CASE st.held # "budget" /\ Mutate(rid, event, human, s, Put(s, resumed), TRUE)
  <2> PICK new : new = Put(s, resumed)
    OBVIOUS
  <2>1. Draft(new, s) /\ new.step[s] = resumed /\ new.status = "active"
    BY <1>1, <1>3, PutDraft
  <2>2. Turn(event, s, run.step[s], new.step[s])
    BY <1>1, <1>3, <1>5, <2>1 DEF Turn, Kept, SameWork
  <2>3. QED
    BY <1>1, <1>5, <2>1, <2>2, Enter
<1>6. QED
  BY <1>2, <1>4, <1>5

LEMMA RejectEntered ==
  ASSUME IInv, NEW rid, NEW s \in Steps, NEW human, Reject(rid, s, human)
  PROVE  EnteredAs("step.rejected", s)
<1> PICK event : event = "step.rejected"
  OBVIOUS
<1> PICK new : new = Stop(run, s, "rejected")
  OBVIOUS
<1>1. /\ run \in RunState /\ run.step[s].status = "awaiting_approval"
      /\ Mutate(rid, event, human, s, new, TRUE)
      /\ event \notin {"run.created", "run.cancelled"} \cup Uncycled
  BY RunTypes DEF Reject, Uncycled
<1>2. Draft(new, s) /\ Kept(run.step[s], new.step[s]) /\ new.step[s].status = "rejected" /\ new.status \in Refused
  BY <1>1, RunDraft, StopDraft DEF Refused
<1>3. QED
  BY <1>1, <1>2, Enter DEF Turn

LEMMA TakeEntered ==
  ASSUME IInv, NEW rid, NEW s \in Steps, NEW actor, NEW holder \in Holders,
         Take(rid, s, actor, holder)
  PROVE  EnteredAs("step.taken", s)
<1> PICK event : event = "step.taken"
  OBVIOUS
<1> PICK st : st = NewClaim(run.step[s], holder)
  OBVIOUS
<1> PICK new : new = Put(s, st)
  OBVIOUS
<1>1. /\ run \in RunState /\ run.step[s] \in StepState /\ run.status = "active"
      /\ Mutate(rid, event, actor, s, new, FALSE)
      /\ event \notin {"run.created", "run.cancelled"} \cup Uncycled \cup Counted \cup GatedEvents
      /\ event # "step.requested"
  BY RunTypes DEF Take, Mutate, Admitted, Uncycled, Counted, GatedEvents
<1>2. /\ st \in StepState /\ st.status = run.step[s].status /\ st.spend = run.step[s].spend
      /\ Kept(run.step[s], st)
  BY <1>1, NewClaimKept
<1>3. Draft(new, s) /\ new.step[s] = st /\ new.status = "active"
  BY <1>1, <1>2, PutDraft
<1>4. QED
  BY <1>1, <1>2, <1>3, Enter DEF Quiet

LEMMA RenewClaimEntered ==
  ASSUME IInv, NEW rid, NEW s \in Steps, NEW holder, NEW token, RenewClaim(rid, s, holder, token)
  PROVE  EnteredAs("claim.renewed", s)
<1> PICK event : event = "claim.renewed"
  OBVIOUS
<1>1. /\ run \in RunState /\ run.status = "active" /\ Mutate(rid, event, holder, s, run, FALSE)
      /\ event \notin {"run.created", "run.cancelled"} \cup Uncycled \cup Counted \cup GatedEvents
      /\ event # "step.requested"
  BY RunTypes DEF RenewClaim, Mutate, Admitted, Uncycled, Counted, GatedEvents
<1>2. Draft(run, s) /\ Quiet(run.step[s], run.step[s])
  BY <1>1, RunDraft DEF Quiet, Kept, Counts, SameWork
<1>3. QED
  BY <1>1, <1>2, Enter

LEMMA ExpireClaimEntered ==
  ASSUME IInv, NEW rid, NEW s \in Steps, NEW human, ExpireClaim(rid, s, human)
  PROVE  EnteredAs("claim.expired", s)
<1> PICK event : event = "claim.expired"
  OBVIOUS
<1> DEFINE st == [run.step[s] EXCEPT !.live = FALSE]
<1> PICK new : new = Put(s, st)
  OBVIOUS
<1>1. /\ run \in RunState /\ run.step[s] \in StepState /\ run.status = "active"
      /\ Mutate(rid, event, human, s, new, TRUE)
      /\ event \notin {"run.created", "run.cancelled"} \cup Uncycled \cup Counted
  BY RunTypes DEF ExpireClaim, Mutate, Admitted, Uncycled, Counted
<1>2. /\ st \in StepState /\ st.status = run.step[s].status /\ st.spend = run.step[s].spend
      /\ Kept(run.step[s], st)
  BY <1>1 DEF StepState, Kept, Counts, SameWork
<1> HIDE DEF st
<1>3. Draft(new, s) /\ new.step[s] = st /\ new.status = "active"
  BY <1>1, <1>2, PutDraft
<1>4. QED
  BY <1>1, <1>2, <1>3, Enter DEF Quiet

LEMMA HoldEntered ==
  ASSUME IInv, NEW rid, NEW s \in Steps, NEW actor, NEW token, NEW kind \in {"ungraded", "budget"},
         NEW cost \in Nat, Hold(rid, s, actor, token, kind, cost)
  PROVE  EnteredAs("step.held", s)
<1> PICK event : event = "step.held"
  OBVIOUS
<1> PICK free : free = NoClaim(run.step[s])
  OBVIOUS
<1> DEFINE st == [free EXCEPT !.status = "awaiting_approval", !.held = kind]
<1> PICK r : r = Put(s, st)
  OBVIOUS
<1> PICK new : new = Charge(r, s, cost)
  OBVIOUS
<1>1. /\ run \in RunState /\ run.step[s].status = "in_progress" /\ run.status = "active"
      /\ free \in StepState /\ Kept(run.step[s], free) /\ free.spend = run.step[s].spend
      /\ Mutate(rid, event, actor, s, new, TRUE)
      /\ event \notin {"run.created", "run.cancelled"} \cup Uncycled
  BY RunTypes, NoClaimKept DEF Hold, MayWrite, Workable, Mutate, Admitted, Uncycled
<1>2. /\ st \in StepState /\ st.status = "awaiting_approval" /\ Counts(run.step[s], st)
      /\ st.held = kind /\ st.evidence = run.step[s].evidence /\ st.pinned = run.step[s].pinned
      /\ st.spend = run.step[s].spend
  BY <1>1 DEF StepState, StepStatus, Kept, Counts, SameWork
<1> HIDE DEF st
<1>3. Draft(r, s) /\ r.step[s] = st /\ r.status = "active"
  BY <1>1, <1>2, PutDraft
<1>4. /\ Draft(new, s) /\ Kept(st, new.step[s]) /\ new.step[s].status = st.status
      /\ new.status = "active"
  BY <1>3, ChargeDraft
<1>5. Turn(event, s, run.step[s], new.step[s])
  BY <1>1, <1>2, <1>4 DEF Turn, Kept, Counts, SameWork
<1>6. QED
  BY <1>1, <1>4, <1>5, Enter

\* Mutate leaves the run alone or makes the steps what it was handed.
LEMMA MutateSteps ==
  ASSUME NEW rid, NEW event, NEW actor, NEW target, NEW new \in RunState, NEW gated,
         Mutate(rid, event, actor, target, new, gated)
  PROVE  disk' = disk /\ (run' = run \/ run'.step = new.step)
BY DEF Mutate, Record, AppendEvent, RunState

LEMMA CompleteEntered ==
  ASSUME IInv, NEW rid, NEW s \in Steps, NEW actor, NEW token, NEW file \in Artifacts,
         NEW cost \in Nat, Complete(rid, s, actor, token, file, cost)
  PROVE  EnteredAs("step.completed", s) /\ (run' = run \/ run'.step[s].evidence = file)
<1> PICK event : event = "step.completed"
  OBVIOUS
<1> PICK free : free = NoClaim(run.step[s])
  OBVIOUS
<1> DEFINE st == [free EXCEPT !.evidence = file, !.pinned = disk[file]]
           sub == [st EXCEPT !.status = "awaiting_check"]
<1>1. /\ run \in RunState /\ run.step[s].status = "in_progress" /\ run.status = "active"
      /\ free \in StepState /\ Kept(run.step[s], free) /\ free.status = "in_progress"
      /\ free.spend = run.step[s].spend
      /\ disk[file] \in Contents
      /\ event \notin {"run.created", "run.cancelled"} \cup Uncycled \cup GatedEvents
      /\ event # "step.requested"
  BY RunTypes, NoClaimKept
     DEF Complete, MayWrite, Workable, Mutate, Admitted, Uncycled, GatedEvents, IInv, TypeOK
<1>2. \/ /\ Checker(s) # None
         /\ Mutate(rid, event, actor, s, Charge(Put(s, sub), s, cost), FALSE)
      \/ /\ Checker(s) = None
         /\ Mutate(rid, event, actor, s, Finish(Charge(Put(s, st), s, cost), s), FALSE)
  BY DEF Complete
<1>3. /\ st \in StepState /\ Counts(run.step[s], st) /\ st.held = run.step[s].held
      /\ st.evidence = file /\ st.pinned = disk[file] /\ st.spend = run.step[s].spend
  BY <1>1 DEF StepState, Kept, Counts, SameWork
<1> HIDE DEF st
<1>4. sub \in StepState /\ sub.status = "awaiting_check" /\ sub.spend = st.spend /\ Kept(st, sub)
  BY <1>3, StatusSet DEF StepStatus
<1> HIDE DEF sub
<1>5. CASE /\ Checker(s) # None
           /\ Mutate(rid, event, actor, s, Charge(Put(s, sub), s, cost), FALSE)
  <2> PICK r : r = Put(s, sub)
    OBVIOUS
  <2> PICK new : new = Charge(r, s, cost)
    OBVIOUS
  <2>1. Draft(r, s) /\ r.step[s] = sub /\ r.status = "active"
    BY <1>1, <1>3, <1>4, PutDraft
  <2>2. /\ Draft(new, s) /\ Kept(sub, new.step[s]) /\ new.step[s].status = sub.status
        /\ new.status = "active"
    BY <2>1, ChargeDraft
  <2>3. Turn(event, s, run.step[s], new.step[s])
    BY <1>1, <1>3, <1>4, <1>5, <2>2 DEF Turn, Kept, Counts, SameWork
  <2>4. EnteredAs(event, s)
    BY <1>1, <1>5, <2>2, <2>3, Enter
  <2>5. new.step[s].evidence = file /\ new \in RunState
    BY <1>3, <1>4, <2>2 DEF Kept, SameWork, Draft
  <2>6. QED
    BY <1>5, <2>4, <2>5, MutateSteps
<1>6. CASE /\ Checker(s) = None
           /\ Mutate(rid, event, actor, s, Finish(Charge(Put(s, st), s, cost), s), FALSE)
  <2> PICK r : r = Put(s, st)
    OBVIOUS
  <2> PICK q : q = Charge(r, s, cost)
    OBVIOUS
  <2> PICK new : new = Finish(q, s)
    OBVIOUS
  <2>1. Draft(r, s) /\ r.step[s] = st /\ r.status = "active"
    BY <1>1, <1>3, PutDraft
  <2>2. Draft(q, s) /\ Kept(st, q.step[s]) /\ q.status = "active"
    BY <2>1, ChargeDraft
  <2>3. /\ Draft(new, s) /\ Kept(q.step[s], new.step[s]) /\ new.step[s].status = "completed"
        /\ new.status \in {"active", "completed"}
    BY <2>2, FinishDraft
  <2>4. Turn(event, s, run.step[s], new.step[s])
    BY <1>1, <1>3, <1>6, <2>2, <2>3 DEF Turn, Kept, Counts, SameWork
  <2>5. EnteredAs(event, s)
    BY <1>1, <1>6, <2>3, <2>4, Enter
  <2>6. new.step[s].evidence = file /\ new \in RunState
    BY <1>3, <2>2, <2>3 DEF Kept, SameWork, Draft
  <2>7. QED
    BY <1>6, <2>5, <2>6, MutateSteps
<1>7. QED
  BY <1>2, <1>5, <1>6

LEMMA FailEntered ==
  ASSUME IInv, NEW rid, NEW s \in Steps, NEW actor, NEW token, NEW cost \in Nat,
         Fail(rid, s, actor, token, cost)
  PROVE  EnteredAs("step.failed", s)
<1> PICK event : event = "step.failed"
  OBVIOUS
<1> PICK free : free = NoClaim(run.step[s])
  OBVIOUS
<1> DEFINE again == [free EXCEPT !.status = "ready"]
<1>1. /\ run \in RunState /\ run.step[s].status = "in_progress" /\ run.status = "active"
      /\ free \in StepState /\ Kept(run.step[s], free) /\ free.spend = run.step[s].spend
      /\ event \notin {"run.created", "run.cancelled"} \cup Uncycled \cup GatedEvents
      /\ event # "step.requested"
  BY RunTypes, NoClaimKept DEF Fail, MayWrite, Workable, Mutate, Admitted, Uncycled, GatedEvents
<1>2. again \in StepState /\ again.status = "ready" /\ again.spend = free.spend /\ Kept(free, again)
  BY <1>1, StatusSet DEF StepStatus
<1>3. \/ Mutate(rid, event, actor, s, Charge(Put(s, again), s, cost), FALSE)
      \/ Mutate(rid, event, actor, s, Charge(Stop(Put(s, free), s, "blocked_retry_limit"), s, cost), FALSE)
  BY DEF Fail
<1> HIDE DEF again
<1>4. CASE Mutate(rid, event, actor, s, Charge(Put(s, again), s, cost), FALSE)
  <2> PICK r : r = Put(s, again)
    OBVIOUS
  <2> PICK new : new = Charge(r, s, cost)
    OBVIOUS
  <2>1. Draft(r, s) /\ r.step[s] = again /\ r.status = "active"
    BY <1>1, <1>2, PutDraft
  <2>2. /\ Draft(new, s) /\ Kept(again, new.step[s]) /\ new.step[s].status = again.status
        /\ new.status = "active"
    BY <2>1, ChargeDraft
  <2>3. Turn(event, s, run.step[s], new.step[s])
    BY <1>1, <1>2, <2>2 DEF Turn, Kept, Counts, SameWork
  <2>4. QED
    BY <1>1, <1>4, <2>2, <2>3, Enter
<1>5. CASE Mutate(rid, event, actor, s, Charge(Stop(Put(s, free), s, "blocked_retry_limit"), s, cost), FALSE)
  <2> PICK r : r = Put(s, free)
    OBVIOUS
  <2> PICK q : q = Stop(r, s, "blocked_retry_limit")
    OBVIOUS
  <2> PICK new : new = Charge(q, s, cost)
    OBVIOUS
  <2>1. Draft(r, s) /\ r.step[s] = free
    BY <1>1, PutDraft
  <2>2. /\ Draft(q, s) /\ Kept(free, q.step[s]) /\ q.step[s].status = "blocked_retry_limit"
        /\ q.status = "blocked_retry_limit"
    BY <2>1, StopDraft DEF Refused
  <2>3. /\ Draft(new, s) /\ Kept(q.step[s], new.step[s]) /\ new.step[s].status = q.step[s].status
        /\ new.status \in Refused
    BY <2>2, ChargeDraft DEF Refused
  <2>4. Turn(event, s, run.step[s], new.step[s])
    BY <1>1, <2>2, <2>3 DEF Turn, Kept, Counts, SameWork
  <2>5. QED
    BY <1>1, <1>5, <2>3, <2>4, Enter
<1>6. QED
  BY <1>3, <1>4, <1>5

LEMMA ReleaseStepEntered ==
  ASSUME IInv, NEW rid, NEW s \in Steps, NEW actor, NEW token, NEW cost \in Nat,
         ReleaseStep(rid, s, actor, token, cost)
  PROVE  EnteredAs("step.released", s)
<1> PICK event : event = "step.released"
  OBVIOUS
<1> PICK free : free = NoClaim(run.step[s])
  OBVIOUS
<1> DEFINE st == [free EXCEPT !.status = "ready", !.releases = @ + 1, !.attempts = Unspent(@)]
<1>1. /\ run \in RunState /\ run.step[s].status = "in_progress" /\ run.status = "active"
      /\ free \in StepState /\ Kept(run.step[s], free) /\ free.spend = run.step[s].spend
      /\ Mutate(rid, event, actor, s, Charge(Put(s, st), s, cost), FALSE)
      /\ event \notin {"run.created", "run.cancelled"} \cup Uncycled \cup GatedEvents
      /\ event # "step.requested"
  BY RunTypes, NoClaimKept DEF ReleaseStep, MayWrite, Workable, Mutate, Admitted, Uncycled, GatedEvents
<1>2. /\ st \in StepState /\ st.status = "ready" /\ st.reviews = free.reviews
      /\ st.releases = free.releases + 1 /\ st.attempts = Unspent(free.attempts)
      /\ SameWork(free, st) /\ st.spend = free.spend
  <2> PICK given \in Nat : given = free.releases + 1
    BY <1>1 DEF StepState
  <2> PICK left \in Nat : left = Unspent(free.attempts)
    BY <1>1 DEF StepState, Unspent
  <2>1. st = [free EXCEPT !.status = "ready", !.releases = given, !.attempts = left]
    BY <1>1 DEF StepState
  <2>2. QED
    BY <1>1, <2>1 DEF StepState, StepStatus, SameWork
<1> HIDE DEF st
<1> PICK r : r = Put(s, st)
  OBVIOUS
<1> PICK new : new = Charge(r, s, cost)
  OBVIOUS
<1>3. Draft(r, s) /\ r.step[s] = st /\ r.status = "active"
  BY <1>1, <1>2, PutDraft
<1>4. /\ Draft(new, s) /\ Kept(st, new.step[s]) /\ new.step[s].status = st.status
      /\ new.status = "active"
  BY <1>3, ChargeDraft
<1>5. Turn(event, s, run.step[s], new.step[s])
  BY <1>1, <1>2, <1>4 DEF Turn, Kept, Counts, SameWork
<1>6. QED
  BY <1>1, <1>4, <1>5, Enter

LEMMA CancelRunEntered ==
  ASSUME IInv, NEW rid, NEW human, CancelRun(rid, human)
  PROVE  EnteredAs("run.cancelled", "run")
<1> PICK event : event = "run.cancelled"
  OBVIOUS
<1> DEFINE g == [s \in Steps |-> IF run.step[s].status = "in_progress"
                                 THEN NoClaim(run.step[s]) ELSE run.step[s]]
           new == [run EXCEPT !.status = "cancelled", !.step = g]
<1>1. run \in RunState /\ Mutate(rid, event, human, "run", new, TRUE)
  BY RunTypes DEF CancelRun
<1>2. \A x \in Steps : /\ g[x] \in StepState /\ Quiet(run.step[x], g[x])
                       /\ g[x].spend = run.step[x].spend
  <2> TAKE x \in Steps
  <2>1. /\ run.step[x] \in StepState
        /\ NoClaim(run.step[x]) \in StepState /\ NoClaim(run.step[x]).status = run.step[x].status
        /\ Kept(run.step[x], NoClaim(run.step[x]))
        /\ NoClaim(run.step[x]).spend = run.step[x].spend
    BY <1>1, NoClaimKept DEF RunState
  <2>2. g[x] \in {run.step[x], NoClaim(run.step[x])}
    OBVIOUS
  <2> HIDE DEF g
  <2>3. QED
    BY <2>1, <2>2 DEF Quiet, Kept, Counts, SameWork
<1>3. g \in [Steps -> StepState]
  BY <1>2
<1> HIDE DEF g
<1>4. /\ new \in RunState /\ new.step = g /\ new.status = "cancelled" /\ Frame(new)
      /\ new.spend = run.spend /\ new.planned = run.planned
  BY <1>1, <1>3 DEF RunState, TerminalRun, Frame
<1> HIDE DEF new
<1>5. Turned(event, "run", new)
  BY <1>2, <1>4 DEF Turned, Counted
<1>6. \E s \in Steps : Charged(new, s)
  BY <1>1, <1>2, <1>4, Unbilled, WorkflowAssumption DEF ValidWorkflow
<1>7. Booked(rid, event, human, "run", new, TRUE)
  BY <1>1, <1>4, <1>5, <1>6 DEF Booked
<1>8. QED
  BY <1>7 DEF EnteredAs

LEMMA SendMessageEntered ==
  ASSUME IInv, NEW rid, NEW m \in MessageIds, NEW s \in Steps, NEW from \in Agents,
         NEW to \in Agents, NEW kind \in Kinds, NEW reply_to,
         NEW file \in Artifacts, SendMessage(rid, m, s, from, to, kind, reply_to, file)
  PROVE  EnteredAs("message.sent", m)
<1> PICK event : event = "message.sent"
  OBVIOUS
<1> DEFINE msg == [id |-> m, step |-> s, from |-> from, to |-> to, kind |-> kind,
                   payload |-> file, pinned |-> disk[file]]
           all == run.messages \cup {msg}
           new == [run EXCEPT !.messages = all]
<1>1. /\ run \in RunState /\ run.status = "active"
      /\ Mutate(rid, event, from, m, new, FALSE)
  BY RunTypes DEF SendMessage, Mutate, Admitted
<1>2. msg \in Message
  BY DEF Message, IInv, TypeOK
<1> HIDE DEF msg
<1>3. all \in SUBSET Message /\ run.messages \subseteq all
  BY <1>1, <1>2 DEF RunState
<1> HIDE DEF all
<1>4. /\ new \in RunState /\ new.step = run.step /\ new.status = "active" /\ Frame(new)
      /\ new.spend = run.spend /\ new.planned = run.planned
  BY <1>1, <1>3 DEF RunState, Frame
<1> HIDE DEF new
<1>5. Turned(event, m, new)
  BY <1>4 DEF Turned, Quiet, Kept, Counts, SameWork, Counted
<1>6. ~Gated([id |-> rid, event |-> event, actor |-> from, target |-> m])
  BY DEF Gated, GatedEvents
<1>7. \E x \in Steps : Charged(new, x)
  BY <1>1, <1>4, Unbilled
<1>8. Booked(rid, event, from, m, new, FALSE)
  BY <1>1, <1>4, <1>5, <1>6, <1>7 DEF Booked
<1>9. QED
  BY <1>8 DEF EnteredAs

LEMMA CheckApproveEntered ==
  ASSUME IInv, NEW rid, NEW s \in Steps, NEW actor, NEW m, NEW cost \in Nat,
         CheckApprove(rid, s, actor, m, cost)
  PROVE  EnteredAs("check.approved", s)
<1> PICK event : event = "check.approved"
  OBVIOUS
<1> PICK r : r = Charge(run, s, cost)
  OBVIOUS
<1> PICK new : new = Finish(r, s)
  OBVIOUS
<1>1. /\ run \in RunState /\ run.status = "active" /\ run.step[s].status = "awaiting_check"
      /\ Mutate(rid, event, actor, s, new, FALSE)
      /\ event \notin {"run.created", "run.cancelled"} \cup Uncycled \cup GatedEvents
      /\ event # "step.requested"
  BY RunTypes DEF CheckApprove, MayCheck, Mutate, Admitted, Uncycled, GatedEvents
<1>2. Decided(s, run.messages)
  BY DEF CheckApprove, MayCheck, VerdictMessage, Decided
<1>3. Draft(r, s) /\ Kept(run.step[s], r.step[s]) /\ r.status = "active"
  BY <1>1, RunDraft, ChargeDraft
<1>4. /\ Draft(new, s) /\ Kept(r.step[s], new.step[s]) /\ new.step[s].status = "completed"
      /\ new.status \in {"active", "completed"}
  BY <1>3, FinishDraft
<1>5. Turn(event, s, run.step[s], new.step[s])
  BY <1>1, <1>2, <1>3, <1>4 DEF Turn, Kept, Counts, SameWork
<1>6. QED
  BY <1>1, <1>4, <1>5, Enter

LEMMA CheckReturnEntered ==
  ASSUME IInv, NEW rid, NEW s \in Steps, NEW actor, NEW m, NEW cost \in Nat,
         CheckReturn(rid, s, actor, m, cost)
  PROVE  EnteredAs("check.returned", s)
<1> PICK event : event = "check.returned"
  OBVIOUS
<1> DEFINE old == run.step[s]
           st == [old EXCEPT !.status = "ready", !.reviews = @ + 1]
<1>1. /\ run \in RunState /\ run.status = "active" /\ old.status = "awaiting_check" /\ old \in StepState
      /\ event \notin {"run.created", "run.cancelled"} \cup Uncycled \cup GatedEvents
      /\ event # "step.requested"
  BY RunTypes DEF CheckReturn, MayCheck, Mutate, Admitted, Uncycled, GatedEvents
<1>2. CASE Mutate(rid, event, actor, s, Charge(Stop(run, s, "blocked_review_limit"), s, cost), FALSE)
  <2> PICK q : q = Stop(run, s, "blocked_review_limit")
    OBVIOUS
  <2> PICK new : new = Charge(q, s, cost)
    OBVIOUS
  <2>1. /\ Draft(q, s) /\ Kept(old, q.step[s]) /\ q.step[s].status = "blocked_review_limit"
        /\ q.status = "blocked_review_limit"
    BY <1>1, RunDraft, StopDraft DEF Refused
  <2>2. /\ Draft(new, s) /\ Kept(q.step[s], new.step[s]) /\ new.step[s].status = q.step[s].status
        /\ new.status \in Refused
    BY <2>1, ChargeDraft DEF Refused
  <2>3. Turn(event, s, run.step[s], new.step[s])
    BY <1>1, <2>1, <2>2 DEF Turn, Kept, Counts, SameWork
  <2>4. QED
    BY <1>1, <1>2, <2>2, <2>3, Enter
<1>3. CASE Mutate(rid, event, actor, s, Charge(Put(s, st), s, cost), FALSE)
  <2> PICK n \in Nat : n = old.reviews + 1
    BY <1>1 DEF StepState
  <2>1. st = [old EXCEPT !.status = "ready", !.reviews = n]
    BY <1>1 DEF StepState
  <2>2. /\ st \in StepState /\ st.status = "ready" /\ st.reviews = n
        /\ st.attempts = old.attempts /\ st.releases = old.releases /\ SameWork(old, st)
        /\ st.spend = old.spend
    BY <1>1, <2>1 DEF StepState, StepStatus, SameWork
  <2> HIDE DEF st
  <2> PICK r : r = Put(s, st)
    OBVIOUS
  <2> PICK new : new = Charge(r, s, cost)
    OBVIOUS
  <2>3. Draft(r, s) /\ r.step[s] = st /\ r.status = "active"
    BY <1>1, <2>2, PutDraft
  <2>4. /\ Draft(new, s) /\ Kept(st, new.step[s]) /\ new.step[s].status = st.status
        /\ new.status = "active"
    <3>1. /\ Draft(new, s) /\ Kept(r.step[s], new.step[s])
          /\ new.step[s].status = r.step[s].status /\ new.status = r.status
      BY <2>3, ChargeDraft
    <3>2. QED
      BY <2>3, <3>1
  <2>5. Turn(event, s, run.step[s], new.step[s])
    BY <1>1, <2>2, <2>4 DEF Turn, Kept, Counts, SameWork
  <2>6. QED
    BY <1>1, <1>3, <2>4, <2>5, Enter
<1>4. QED
  BY <1>2, <1>3 DEF CheckReturn

LEMMA CheckRejectEntered ==
  ASSUME IInv, NEW rid, NEW s \in Steps, NEW actor, NEW m, NEW cost \in Nat,
         CheckReject(rid, s, actor, m, cost)
  PROVE  EnteredAs("check.rejected", s)
<1> PICK event : event = "check.rejected"
  OBVIOUS
<1> PICK q : q = Stop(run, s, "rejected_by_checker")
  OBVIOUS
<1> PICK new : new = Charge(q, s, cost)
  OBVIOUS
<1>1. /\ run \in RunState /\ run.status = "active" /\ run.step[s].status = "awaiting_check"
      /\ Mutate(rid, event, actor, s, new, FALSE)
      /\ event \notin {"run.created", "run.cancelled"} \cup Uncycled \cup GatedEvents
      /\ event # "step.requested"
  BY RunTypes DEF CheckReject, MayCheck, Mutate, Admitted, Uncycled, GatedEvents
<1>2. /\ Draft(q, s) /\ Kept(run.step[s], q.step[s]) /\ q.step[s].status = "rejected_by_checker"
      /\ q.status = "rejected_by_checker"
  BY <1>1, RunDraft, StopDraft DEF Refused
<1>3. /\ Draft(new, s) /\ Kept(q.step[s], new.step[s]) /\ new.step[s].status = q.step[s].status
      /\ new.status \in Refused
  BY <1>2, ChargeDraft DEF Refused
<1>4. Turn(event, s, run.step[s], new.step[s])
  BY <1>1, <1>2, <1>3 DEF Turn, Kept, Counts, SameWork
<1>5. QED
  BY <1>1, <1>3, <1>4, Enter

-----------------------------------------------------------------------------
\* Everything that can happen to a run's record.
Moves ==
  \/ Entered
  \/ \E rid : Exhaust(rid)
  \/ \E rid, human : \E extra \in Extensions : ExtendBudget(rid, human, extra)
  \/ \E s \in Steps : ClaimLapses(s)
  \/ UNCHANGED <<run, log, audit>>

LEMMA NextMoves ==
  ASSUME IInv, [Next]_vars
  PROVE  Moves
<1>1. Costs \subseteq Nat /\ \A s \in Steps, f \in Files : <<s, f>> \in Artifacts
  BY BoundsAssumption DEF Artifacts
<1>2. ASSUME NEW s \in Steps, StepVerb(s)
      PROVE  Moves
  <2>1. CASE ClaimLapses(s)
    BY <2>1 DEF Moves
  <2>2. CASE Entered
    BY <2>2 DEF Moves
  <2>3. ClaimLapses(s) \/ Entered
    BY <1>1, <1>2, RequestStepEntered, ApproveEntered, RejectEntered, TakeEntered,
       RenewClaimEntered, ExpireClaimEntered, HoldEntered, CompleteEntered, FailEntered,
       ReleaseStepEntered DEF StepVerb, Entered
  <2>4. QED
    BY <2>1, <2>2, <2>3
<1>3. ASSUME NEW s \in Steps, ReviewVerb(s)
      PROVE  Moves
  BY <1>1, <1>3, SendMessageEntered, CheckApproveEntered, CheckReturnEntered, CheckRejectEntered
     DEF ReviewVerb, Moves, Entered
<1>4. CASE RunVerb
  BY <1>4, CancelRunEntered DEF RunVerb, Moves, Entered
<1>5. CASE \E a \in Artifacts, c \in Contents : WriteArtifact(a, c)
  BY <1>5 DEF WriteArtifact, Moves
<1>6. CASE UNCHANGED vars
  BY <1>6 DEF vars, Moves
<1>7. QED
  BY <1>2, <1>3, <1>4, <1>5, <1>6 DEF Next

LEMMA MovesBooks ==
  ASSUME IInv, IInv', Accounts, Moves
  PROVE  Accounts'
<1>1. CASE Entered
  BY <1>1, BookedBooks DEF Entered, EnteredAs
<1>2. CASE \E rid : Exhaust(rid)
  BY <1>2, ExhaustBooks
<1>3. CASE \E rid, human : \E extra \in Extensions : ExtendBudget(rid, human, extra)
  BY <1>3, ExtendBudgetBooks
<1>4. CASE \E s \in Steps : ClaimLapses(s)
  BY <1>4, ClaimLapsesBooks
<1>5. CASE UNCHANGED <<run, log, audit>>
  BY <1>5, UnmovedBooks
<1>6. QED
  BY <1>1, <1>2, <1>3, <1>4, <1>5 DEF Moves

LEMMA InitBooks ==
  ASSUME Init
  PROVE  Accounts
<1> PICK planned \in Costs : run = CreateRun(planned)
  BY DEF Init
<1>1. log = {CreatedEvent} /\ CreatedEvent.event = "run.created" /\ audit = {}
  BY DEF Init, CreatedEvent
<1>2. IsFiniteSet(log) /\ Cardinality(log) = 1
  BY <1>1, FS_Singleton
<1>3. \A e, s : e # "run.created" => Count(e, s) = 0
  <2> SUFFICES ASSUME NEW e, NEW s, e # "run.created"
               PROVE  Count(e, s) = 0
    OBVIOUS
  <2>1. {x \in log : x.event = e /\ x.target = s} = {}
    BY <1>1
  <2>2. QED
    BY <2>1, FS_EmptySet DEF Count
<1>4. ASSUME NEW s \in Steps
      PROVE  StepBooks(s, run.step[s], Tally(s), run.messages)
  <2>1. /\ run.step[s].status \in {"ready", "pending"} /\ run.step[s].attempts = 0
        /\ run.step[s].reviews = 0 /\ run.step[s].releases = 0
    BY DEF CreateRun, NewStep
  <2>2. \A e \in Counted : Tally(s)[e] = 0
    BY <1>3 DEF Tally, Counted
  <2>3. AttemptBooks(s, run.step[s], Tally(s)) /\ ParkBooks(s, run.step[s], Tally(s))
    BY <2>1, <2>2 DEF AttemptBooks, ParkBooks, Counted, One
  <2>4. ReviewBooks(s, run.step[s], Tally(s), run.messages)
    BY <2>1, <2>2 DEF ReviewBooks, Counted, One
  <2>5. QED
    BY <2>3, <2>4 DEF StepBooks
<1>5. LedgerBalances
  BY <1>2, <1>3, BoundsAssumption DEF LedgerBalances, CreateRun
<1>6. GatedTransitionsAudited
  BY <1>1 DEF GatedTransitionsAudited, Gated, GatedEvents, CreateRun, TerminalRun, Refused
<1>7. QED
  BY <1>2, <1>4, <1>5, <1>6 DEF Accounts

\* The run's books are in order at every moment of every run.
THEOREM BooksKept == Spec => []Accounts
<1>1. IInv /\ IInv' /\ Accounts /\ [Next]_vars => Accounts'
  BY NextMoves, MovesBooks
<1>2. QED
  BY <1>1, InitBooks, Soundness, PTL DEF Spec

LEMMA AccountsMeaning ==
  ASSUME IInv, Accounts
  PROVE  AttemptsAccounted /\ EveryParkDecidedOnce /\ EverySubmissionJudgedOnce
<1>1. \A e \in Counted, s \in Steps : Tally(s)[e] = Count(e, s)
  BY DEF Tally
<1>2. ASSUME NEW s \in Steps
      PROVE  /\ AttemptBooks(s, run.step[s], Tally(s)) /\ ParkBooks(s, run.step[s], Tally(s))
             /\ ReviewBooks(s, run.step[s], Tally(s), run.messages)
  BY DEF Accounts, StepBooks
<1>3. \A s \in Steps : /\ run.step[s].attempts <= MaxAttempts(s)
                       /\ run.step[s].reviews <= MaxReviews(s)
  BY RunTypes
<1>4. AttemptsAccounted
  BY <1>1, <1>2, <1>3 DEF AttemptBooks, AttemptsAccounted, StatusOf, Counted
<1>5. EveryParkDecidedOnce
  <2> SUFFICES ASSUME NEW s \in Steps
               PROVE  /\ Count("step.approved", s) + Count("step.rejected", s)
                            + One(StatusOf(s) = "awaiting_approval")
                          = Count("step.held", s)
                              + One(Risk(s) = "yellow") * Count("step.requested", s)
                      /\ Risk(s) = "red" => StatusOf(s) \in {"pending", "ready", "blocked_human"}
    BY DEF EveryParkDecidedOnce
  <2>1. /\ Count("step.approved", s) + Count("step.rejected", s)
              + One(StatusOf(s) = "awaiting_approval")
            = Count("step.held", s)
                + (IF Risk(s) = "yellow" THEN Count("step.requested", s) ELSE 0)
        /\ Risk(s) = "red" => StatusOf(s) \in {"pending", "ready", "blocked_human"}
    BY <1>1, <1>2 DEF ParkBooks, StatusOf, Counted
  <2>2. Count("step.requested", s) \in Nat
    BY FS_Subset, FS_CardinalityType DEF Accounts, Count
  <2>3. One(Risk(s) = "yellow") * Count("step.requested", s)
          = IF Risk(s) = "yellow" THEN Count("step.requested", s) ELSE 0
    BY <2>2 DEF One
  <2>4. QED
    BY <2>1, <2>3
<1>6. EverySubmissionJudgedOnce
  BY <1>1, <1>2, <1>3 DEF ReviewBooks, EverySubmissionJudgedOnce, StatusOf, Done, Counted, Decided, One
<1>7. QED
  BY <1>4, <1>5, <1>6

\* Every dispatch spends one attempt, every release gives it back, and no path
\* takes a step above its owner's cap.
THEOREM AttemptsAddUp == Spec => []AttemptsAccounted
<1>1. IInv /\ Accounts => AttemptsAccounted
  BY AccountsMeaning
<1>2. QED
  BY <1>1, Soundness, BooksKept, PTL

\* Every park for a person is answered by one human decision, and by only one.
THEOREM ParksDecidedOnce == Spec => []EveryParkDecidedOnce
<1>1. IInv /\ Accounts => EveryParkDecidedOnce
  BY AccountsMeaning
<1>2. QED
  BY <1>1, Soundness, BooksKept, PTL

\* Every submission gets one verdict from the checker, and a checked step is
\* finished on exactly one approval that rests on a decision message.
THEOREM SubmissionsJudgedOnce == Spec => []EverySubmissionJudgedOnce
<1>1. IInv /\ Accounts => EverySubmissionJudgedOnce
  BY AccountsMeaning
<1>2. QED
  BY <1>1, Soundness, BooksKept, PTL

\* No gated transition and no end of a run is without its audit entry, even
\* across a crash between the two writes.
THEOREM GatesAudited == Spec => []GatedTransitionsAudited
<1>1. Accounts => GatedTransitionsAudited
  BY DEF Accounts
<1>2. QED
  BY <1>1, BooksKept, PTL

\* One event per request id, one cycle per event, within the extended budget.
THEOREM LedgerKept == Spec => []LedgerBalances
<1>1. Accounts => LedgerBalances
  BY DEF Accounts
<1>2. QED
  BY <1>1, BooksKept, PTL

-----------------------------------------------------------------------------
\* The owner's view: RunLifecycle.
LEMMA PhaseWord ==
  /\ run.status = "active" => Phase = "open"
  /\ run.status = "completed" => Phase = "finished"
  /\ run.status = "blocked_cycle_limit" => Phase = "paused"
  /\ run.status \notin {"active", "completed", "blocked_cycle_limit"} => Phase = "refused"
BY DEF Phase

LEMMA PhaseWordNext ==
  /\ run'.status = "active" => Phase' = "open"
  /\ run'.status = "completed" => Phase' = "finished"
  /\ run'.status = "blocked_cycle_limit" => Phase' = "paused"
  /\ run'.status \notin {"active", "completed", "blocked_cycle_limit"} => Phase' = "refused"
BY DEF Phase

Finished == {s \in Steps : Done(s)}

\* What the owner sees of an event is what it says of the steps and the status.
LEMMA Seen ==
  ASSUME NEW rid, NEW event, NEW actor, NEW target, NEW new \in RunState, NEW gated,
         Record(rid, event, actor, target, new, gated)
  PROVE  run' = run \/ (run'.step = new.step /\ run'.status = new.status)
BY DEF Record, AppendEvent, RunState

LEMMA BookedLife ==
  ASSUME IInv, IInv', NEW rid, NEW event, NEW actor, NEW target, NEW new, NEW gated,
         Booked(rid, event, actor, target, new, gated)
  PROVE  [Lifecycle!Next]_Lifecycle!vars
<1>1. run' = run \/ (run'.step = new.step /\ run'.status = new.status)
  <2> PICK n \in Nat : n = new.cycles + 1
    BY DEF Booked, RunState
  <2> DEFINE q == [new EXCEPT !.cycles = n]
  <2>1. [new EXCEPT !.cycles = @ + 1] = q
    BY DEF Booked, RunState
  <2>2. q \in RunState /\ q.step = new.step /\ q.status = new.status
    BY DEF Booked, RunState
  <2>3. Record(rid, event, actor, target, q, gated)
    BY <2>1 DEF Booked, Mutate
  <2> HIDE DEF q
  <2>4. QED
    BY <2>2, <2>3, Seen
<1>2. CASE run' = run
  <2>1. Finished' = Finished /\ Phase' = Phase
    BY <1>2 DEF Finished, Done, StatusOf, Phase
  <2>2. QED
    BY <2>1 DEF Lifecycle!vars, Finished
<1>3. CASE run'.step = new.step /\ run'.status = new.status
  <2>1. /\ run.status = "active" /\ Phase = "open"
        /\ \A x \in Steps : run.step[x].status \notin Refused
        /\ Finished # Steps
    BY PhaseWord DEF Booked, Mutate, Admitted, IInv, Sound, EndOK, Refused, Finished, Done, StatusOf
  <2>2. /\ run'.status = "completed" <=> Finished' = Steps
        /\ \A why \in Refused : run'.status = why => \E x \in Steps : run'.step[x].status = why
    BY DEF IInv, Sound, EndOK, Finished, Done, StatusOf
  <2>3. \A x \in Steps :
          \/ x = target /\ Turn(event, x, run.step[x], run'.step[x])
          \/ (x # target \/ event \notin Counted) /\ Quiet(run.step[x], run'.step[x])
    BY <1>3 DEF Booked, Turned
  <2>4. CASE \E s \in Steps : run'.step[s].status = "completed" /\ run.step[s].status # "completed"
    <3> PICK s \in Steps : run'.step[s].status = "completed" /\ run.step[s].status # "completed"
      BY <2>4
    <3>1. /\ s = target /\ event \in {"step.completed", "check.approved"}
          /\ run.step[s].status \in {"in_progress", "awaiting_check"}
      BY <2>3 DEF Turn, Quiet
    <3>2. \A x \in Steps : x # s => Quiet(run.step[x], run'.step[x])
      BY <2>3, <3>1
    <3>3. Finished' = Finished \cup {s} /\ s \notin Finished
      BY <3>2 DEF Finished, Done, StatusOf, Quiet
    <3>4. DependsOn(s) \subseteq Finished
      BY <3>1, WorkflowTypes DEF IInv, Sound, DepsOK, Finished, Done, StatusOf
    <3>5. \A x \in Steps : run'.step[x].status \notin Refused
      BY <2>1, <3>2 DEF Quiet, Refused
    <3>6. run'.status \in {"active", "completed"}
      BY <1>3, <2>2, <3>1, <3>5 DEF Booked
    <3>7. Phase' = IF Finished' = Steps THEN "finished" ELSE "open"
      BY <2>2, <3>6, PhaseWordNext
    <3>8. Lifecycle!Finish(s)
      BY <2>1, <3>3, <3>4, <3>7 DEF Lifecycle!Finish, Finished
    <3>9. QED
      BY <3>8 DEF Lifecycle!Next
  <2>5. CASE \A s \in Steps : run'.step[s].status = "completed" => run.step[s].status = "completed"
    <3>1. \A s \in Steps : run.step[s].status = "completed" => run'.step[s].status = "completed"
      BY <2>3 DEF Turn, Quiet
    <3>2. Finished' = Finished
      BY <2>5, <3>1 DEF Finished, Done, StatusOf
    <3>3. run'.status # "completed" /\ run'.status \in {"active", "cancelled"} \cup Refused
      BY <1>3, <2>1, <2>2, <3>2 DEF Booked
    <3>4. Phase' = "open" \/ Phase' = "refused"
      BY <3>3, PhaseWordNext DEF Refused
    <3>5. QED
      BY <2>1, <3>2, <3>4 DEF Lifecycle!Next, Lifecycle!Refuse, Lifecycle!vars, Finished
  <2>6. QED
    BY <2>4, <2>5
<1>4. QED
  BY <1>1, <1>2, <1>3

LEMMA PausedLife ==
  ASSUME IInv, NEW rid, Exhaust(rid)
  PROVE  [Lifecycle!Next]_Lifecycle!vars
<1> DEFINE q == [run EXCEPT !.status = "blocked_cycle_limit"]
<1>1. Record(rid, "run.blocked_cycle_limit", "runtime", "run", q, FALSE) /\ run.status = "active"
  BY DEF Exhaust, Admitted
<1>2. q \in RunState /\ q.step = run.step /\ q.status = "blocked_cycle_limit"
  BY RunTypes DEF RunState, TerminalRun
<1> HIDE DEF q
<1>3. run' = run \/ (run'.step = run.step /\ run'.status = "blocked_cycle_limit")
  BY <1>1, <1>2, Seen
<1>4. Finished' = Finished
  BY <1>3 DEF Finished, Done, StatusOf
<1>5. Phase = "open" /\ Phase' \in {"open", "paused"}
  BY <1>1, <1>3, PhaseWord, PhaseWordNext
<1>6. QED
  BY <1>4, <1>5 DEF Lifecycle!Next, Lifecycle!Pause, Lifecycle!vars, Finished

LEMMA ResumedLife ==
  ASSUME IInv, NEW rid, NEW human, NEW extra \in Extensions, ExtendBudget(rid, human, extra)
  PROVE  [Lifecycle!Next]_Lifecycle!vars
<1> DEFINE asked == run.limit + extra
<1> PICK ceiling : ceiling = IF asked < CycleCeiling THEN asked ELSE CycleCeiling
  OBVIOUS
<1> DEFINE q == [run EXCEPT !.status = "active", !.limit = ceiling]
<1>1. Record(rid, "run.budget_extended", human, "run", q, TRUE) /\ run.status = "blocked_cycle_limit"
  BY DEF ExtendBudget
<1>2. ceiling \in Nat
  BY RunTypes, BoundsAssumption DEF RunState
<1>3. q \in RunState /\ q.step = run.step /\ q.status = "active"
  BY <1>2, RunTypes DEF RunState
<1> HIDE DEF q
<1>4. run' = run \/ (run'.step = run.step /\ run'.status = "active")
  BY <1>1, <1>3, Seen
<1>5. Finished' = Finished
  BY <1>4 DEF Finished, Done, StatusOf
<1>6. Phase = "paused" /\ Phase' \in {"open", "paused"}
  BY <1>1, <1>4, PhaseWord, PhaseWordNext
<1>7. QED
  BY <1>5, <1>6 DEF Lifecycle!Next, Lifecycle!Resume, Lifecycle!vars, Finished

LEMMA MovesLife ==
  ASSUME IInv, IInv', Moves
  PROVE  [Lifecycle!Next]_Lifecycle!vars
<1>1. CASE Entered
  BY <1>1, BookedLife DEF Entered, EnteredAs
<1>2. CASE \E rid : Exhaust(rid)
  BY <1>2, PausedLife
<1>3. CASE \E rid, human : \E extra \in Extensions : ExtendBudget(rid, human, extra)
  BY <1>3, ResumedLife
<1>4. CASE (\E s \in Steps : ClaimLapses(s)) \/ UNCHANGED <<run, log, audit>>
  <2>1. run'.status = run.status /\ \A x \in Steps : run'.step[x].status = run.step[x].status
    BY <1>4, RunTypes DEF ClaimLapses, RunState, StepState
  <2>2. Finished' = Finished /\ Phase' = Phase
    BY <2>1 DEF Finished, Done, StatusOf, Phase
  <2>3. QED
    BY <2>2 DEF Lifecycle!vars, Finished
<1>5. QED
  BY <1>1, <1>2, <1>3, <1>4 DEF Moves

LEMMA InitLife ==
  ASSUME Init
  PROVE  Lifecycle!Init
<1> PICK planned \in Costs : run = CreateRun(planned)
  BY DEF Init
<1>1. run.status = "active"
  BY DEF CreateRun
<1>2. Steps # {} /\ Phase = "open"
  BY <1>1, PhaseWord, WorkflowAssumption DEF ValidWorkflow
<1>3. Finished = {}
  BY DEF CreateRun, NewStep, Finished, Done, StatusOf
<1>4. QED
  BY <1>2, <1>3 DEF Lifecycle!Init, Finished

\* The detailed run implements the life its owner was promised: every verb is
\* a step of it, or changes nothing the owner sees.
THEOREM LifecycleKept == Spec => KeepsLifecycle
<1>1. IInv /\ IInv' /\ [Next]_vars => [Lifecycle!Next]_Lifecycle!vars
  BY NextMoves, MovesLife
<1>2. QED
  BY <1>1, InitLife, Soundness, PTL DEF Spec, KeepsLifecycle, Lifecycle!Spec

-----------------------------------------------------------------------------
(***************************************************************************)
(* The run's bill.  Every verb charges one step and the run with it, or    *)
(* nobody, so the bill adds up if a sum with one term raised by n is n     *)
(* larger.  The sum is the community modules' fold, a recursion over the   *)
(* subsets of Steps; what it computes is proved by taking a smallest part  *)
(* of which the claim fails, since induction itself is out of reach here.  *)
(***************************************************************************)
\* The fold's recursion, as the equation its value on every part of D satisfies:
\* one element of the part is set aside and added to the sum of the rest.
First(S) == CHOOSE x \in S : TRUE
Rest(S) == S \ {First(S)}
SumOver(g, f, D) == g = [S \in SUBSET D |-> IF S = {} THEN 0 ELSE f[First(S)] + g[Rest(S)]]
Sums(f, D) == CHOOSE g : SumOver(g, f, D)

LEMMA RestSmaller ==
  ASSUME NEW S, S # {}
  PROVE  First(S) \in S /\ Rest(S) \subseteq S /\ Rest(S) # S
BY DEF First, Rest

LEMMA SumAt ==
  ASSUME NEW g, NEW f, NEW D, SumOver(g, f, D), NEW S, S \subseteq D
  PROVE  /\ S = {} => g[S] = 0
         /\ S # {} => g[S] = f[First(S)] + g[Rest(S)]
<1>1. S \in SUBSET D
  OBVIOUS
<1>2. g[S] = IF S = {} THEN 0 ELSE f[First(S)] + g[Rest(S)]
  BY <1>1, Zenon DEF SumOver
<1>3. QED
  BY <1>2

\* Among parts of a finite set there is one without a smaller one.
LEMMA SmallestPart ==
  ASSUME NEW D, IsFiniteSet(D), NEW T, T \subseteq SUBSET D, T # {}
  PROVE  \E S \in T : \A R \in T : ~(R \subseteq S /\ R # S)
<1>1. FiniteSubsetsOf(D) = SUBSET D
  BY FS_FiniteSubsetsOfFinite
<1>2. IsWellFoundedOn(StrictSubsetOrdering(D), SUBSET D)
  BY <1>1, FS_StrictSubsetOrderingWellFounded
<1>3. PICK S \in T : \A R \in T : <<R, S>> \notin StrictSubsetOrdering(D)
  BY <1>2, WFMin
<1>4. \A R \in T : R \subseteq S /\ R # S => <<R, S>> \in StrictSubsetOrdering(D)
  BY DEF StrictSubsetOrdering
<1>5. \A R \in T : ~(R \subseteq S /\ R # S)
  BY <1>3, <1>4, Zenon
<1>6. QED
  BY <1>5

\* Two sums of the same function agree wherever both are defined.
LEMMA SumsAgree ==
  ASSUME NEW D, IsFiniteSet(D), NEW f, NEW A \in SUBSET D, NEW B \in SUBSET D,
         NEW g, SumOver(g, f, A), NEW h, SumOver(h, f, B), NEW S, S \subseteq A, S \subseteq B
  PROVE  g[S] = h[S]
<1> DEFINE T == {R \in SUBSET D : R \subseteq A /\ R \subseteq B /\ g[R] # h[R]}
<1> SUFFICES ASSUME T # {}
             PROVE  FALSE
  OBVIOUS
<1>a. T \subseteq SUBSET D
  OBVIOUS
<1> HIDE DEF T
<1>1. PICK R \in T : \A Q \in T : ~(Q \subseteq R /\ Q # R)
  BY <1>a, SmallestPart
<1> USE DEF T
<1>2. CASE R = {}
  BY <1>2, SumAt
<1>3. CASE R # {}
  <2>1. First(R) \in R /\ Rest(R) \subseteq R /\ Rest(R) # R
    BY <1>3, RestSmaller
  <2>2. g[Rest(R)] = h[Rest(R)]
    BY <1>1, <2>1
  <2>3. g[R] = f[First(R)] + g[Rest(R)] /\ h[R] = f[First(R)] + h[Rest(R)]
    BY <1>3, SumAt
  <2>4. QED
    BY <2>2, <2>3
<1>4. QED
  BY <1>2, <1>3

\* Every function has a sum over every finite set.
LEMMA SumExists ==
  ASSUME NEW D, IsFiniteSet(D), NEW f
  PROVE  \E g : SumOver(g, f, D)
<1> DEFINE T == {S \in SUBSET D : ~\E g : SumOver(g, f, S)}
<1> SUFFICES ASSUME T # {}
             PROVE  FALSE
  OBVIOUS
<1>a. T \subseteq SUBSET D
  OBVIOUS
<1> HIDE DEF T
<1>1. PICK S \in T : \A R \in T : ~(R \subseteq S /\ R # S)
  BY <1>a, SmallestPart
<1> USE DEF T
<1> DEFINE h(R) == CHOOSE g : SumOver(g, f, R)
           g == [R \in SUBSET S |-> IF R = {} THEN 0 ELSE f[First(R)] + h(Rest(R))[Rest(R)]]
<1>2. \A R : R \subseteq S /\ R # S => SumOver(h(R), f, R)
  BY <1>1
<1> HIDE DEF h
<1>3. ASSUME NEW R \in SUBSET S, R # {}
      PROVE  g[Rest(R)] = h(Rest(R))[Rest(R)]
  <2> PICK Q : Q = Rest(R)
    OBVIOUS
  <2> SUFFICES g[Q] = h(Q)[Q]
    OBVIOUS
  <2>1. Q \subseteq S /\ Q # S /\ Q \in SUBSET S
    BY <1>3, RestSmaller
  <2>2. SumOver(h(Q), f, Q)
    BY <1>2, <2>1
  <2>3. CASE Q = {}
    <3>1. g[Q] = 0
      BY <2>1, <2>3
    <3>2. h(Q)[Q] = 0
      BY <2>2, <2>3, SumAt
    <3>3. QED
      BY <3>1, <3>2
  <2>4. CASE Q # {}
    <3>1. g[Q] = f[First(Q)] + h(Rest(Q))[Rest(Q)]
      BY <2>1, <2>4
    <3>2. h(Q)[Q] = f[First(Q)] + h(Q)[Rest(Q)]
      BY <2>2, <2>4, SumAt
    <3>3. Rest(Q) \subseteq Q /\ Rest(Q) \subseteq S /\ Rest(Q) # S
      BY <2>1, <2>4, RestSmaller
    <3>4. h(Rest(Q))[Rest(Q)] = h(Q)[Rest(Q)]
      BY <1>2, <2>1, <2>2, <3>3, SumsAgree
    <3> HIDE DEF g
    <3>5. QED
      BY <3>1, <3>2, <3>4
  <2>5. QED
    BY <2>3, <2>4
<1>4. g = [R \in SUBSET S |-> IF R = {} THEN 0 ELSE f[First(R)] + g[Rest(R)]]
  BY <1>3
<1>5. SumOver(g, f, S)
  BY <1>4 DEF SumOver
<1>6. QED
  BY <1>5

\* So the fold's value is the sum over the whole domain.
LEMMA TotalIsSum ==
  ASSUME NEW f, IsFiniteSet(DOMAIN f)
  PROVE  /\ SumOver(Sums(f, DOMAIN f), f, DOMAIN f)
         /\ Total(f) = Sums(f, DOMAIN f)[DOMAIN f]
<1>1. SumOver(Sums(f, DOMAIN f), f, DOMAIN f)
  BY SumExists DEF Sums
<1>2. Total(f) = Sums(f, DOMAIN f)[DOMAIN f]
  BY DEF Total, Sums, SumOver, First, Rest, FoldFunction, FoldFunctionOnSet, MapThenFoldSet
<1>3. QED
  BY <1>1, <1>2

LEMMA TotalOfZero ==
  ASSUME NEW D, IsFiniteSet(D), NEW f \in [D -> Nat], \A x \in D : f[x] = 0
  PROVE  Total(f) = 0
<1> PICK g : g = Sums(f, D)
  OBVIOUS
<1>1. SumOver(g, f, D) /\ Total(f) = g[D]
  BY TotalIsSum
<1> DEFINE T == {S \in SUBSET D : g[S] # 0}
<1> SUFFICES ASSUME T # {}
             PROVE  FALSE
  BY <1>1
<1>a. T \subseteq SUBSET D
  OBVIOUS
<1> HIDE DEF T
<1>2. PICK S \in T : \A R \in T : ~(R \subseteq S /\ R # S)
  BY <1>a, SmallestPart
<1> USE DEF T
<1>3. S # {}
  BY <1>1, SumAt
<1>4. First(S) \in D /\ Rest(S) \subseteq S /\ Rest(S) # S
  BY <1>3, RestSmaller
<1>5. g[Rest(S)] = 0 /\ f[First(S)] = 0
  BY <1>2, <1>4
<1>6. QED
  BY <1>1, <1>3, <1>5, SumAt

\* One entry larger by n: so is the total.
LEMMA TotalOfOneMore ==
  ASSUME NEW D, IsFiniteSet(D), NEW f \in [D -> Nat], NEW h \in [D -> Nat],
         NEW x \in D, NEW n \in Nat,
         h[x] = f[x] + n, \A y \in D : y # x => h[y] = f[y]
  PROVE  Total(f) \in Nat /\ Total(h) = Total(f) + n
<1> PICK g : g = Sums(f, D)
  OBVIOUS
<1> PICK k : k = Sums(h, D)
  OBVIOUS
<1>1. SumOver(g, f, D) /\ Total(f) = g[D] /\ SumOver(k, h, D) /\ Total(h) = k[D]
  BY TotalIsSum
<1> DEFINE Fits(S) == g[S] \in Nat /\ k[S] = g[S] + (IF x \in S THEN n ELSE 0)
           T == {S \in SUBSET D : ~Fits(S)}
<1>2. ASSUME T # {}
      PROVE  FALSE
  <2>a. T \subseteq SUBSET D
    OBVIOUS
  <2> HIDE DEF T
  <2>1. PICK S \in T : \A R \in T : ~(R \subseteq S /\ R # S)
    BY <1>2, <2>a, SmallestPart
  <2> USE DEF T
  <2>2. CASE S = {}
    BY <1>1, <2>2, SumAt
  <2>3. CASE S # {}
    <3>1. First(S) \in S /\ First(S) \in D /\ Rest(S) \subseteq S /\ Rest(S) # S
      BY <2>3, RestSmaller
    <3>2. Fits(Rest(S))
      BY <2>1, <3>1
    <3>3. g[S] = f[First(S)] + g[Rest(S)] /\ k[S] = h[First(S)] + k[Rest(S)]
      BY <1>1, <2>3, SumAt
    <3>4. f[First(S)] \in Nat /\ h[First(S)] \in Nat
      BY <3>1
    <3>5. CASE First(S) = x
      <4>1. x \in S /\ x \notin Rest(S)
        BY <3>1, <3>5 DEF Rest
      <4>2. QED
        BY <3>2, <3>3, <3>4, <3>5, <4>1
    <3>6. CASE First(S) # x
      <4>1. x \in S <=> x \in Rest(S)
        BY <3>6 DEF Rest
      <4>2. h[First(S)] = f[First(S)]
        BY <3>1, <3>6
      <4>3. QED
        BY <3>2, <3>3, <3>4, <4>1, <4>2
    <3>7. QED
      BY <3>5, <3>6
  <2>4. QED
    BY <2>2, <2>3
<1>3. Fits(D)
  BY <1>2
<1>4. QED
  BY <1>1, <1>3

Spends(r) == [s \in Steps |-> r.step[s].spend]

\* The step of the run that is charged, and everything else left as it was.
LEMMA ChargedAddsUp ==
  ASSUME IInv, IInv', BillAddsUp, NEW s \in Steps, Charged(run', s)
  PROVE  BillAddsUp'
<1> PICK cost \in Nat : Billed(run', s, cost)
  BY DEF Charged
<1>1. /\ Spends(run) \in [Steps -> Nat] /\ Spends(run') \in [Steps -> Nat]
      /\ run.planned \in Nat /\ IsFiniteSet(Steps)
  BY WorkflowAssumption DEF IInv, Sound, RunState, StepState, Spends, ValidWorkflow
<1>2. /\ Spends(run')[s] = Spends(run)[s] + cost
      /\ \A x \in Steps : x # s => Spends(run')[x] = Spends(run)[x]
  BY DEF Billed, Spends
<1>3. /\ Total(Spends(run)) \in Nat
      /\ Total(Spends(run')) = Total(Spends(run)) + cost
  BY <1>1, <1>2, TotalOfOneMore
<1>4. run.spend = run.planned + Total(Spends(run))
  BY DEF BillAddsUp, Spends
<1>5. run'.spend = run'.planned + Total(Spends(run'))
  BY <1>1, <1>3, <1>4 DEF Billed
<1>6. QED
  BY <1>5 DEF BillAddsUp, Spends

\* The record keeps what it is handed of the bill.
LEMMA RecordCharged ==
  ASSUME IInv, NEW rid, NEW event, NEW actor, NEW target, NEW new \in RunState, NEW gated,
         NEW s \in Steps, Charged(new, s), Record(rid, event, actor, target, new, gated)
  PROVE  Charged(run', s)
<1>1. CASE UNCHANGED run
  BY <1>1, RunTypes, Unbilled
<1>2. CASE AppendEvent(rid, event, actor, target, new)
  <2>1. run'.step = new.step /\ run'.spend = new.spend /\ run'.planned = new.planned
    BY <1>2 DEF AppendEvent, RunState
  <2>2. QED
    BY <2>1 DEF Charged, Billed
<1>3. QED
  BY <1>1, <1>2 DEF Record

LEMMA MovesBill ==
  ASSUME IInv, IInv', BillAddsUp, Moves
  PROVE  BillAddsUp'
<1> SUFFICES \E s \in Steps : Charged(run', s)
  BY ChargedAddsUp
<1> PICK any \in Steps : TRUE
  BY WorkflowAssumption DEF ValidWorkflow
<1>0. run \in RunState
  BY RunTypes
<1>1. CASE Entered
  <2> PICK rid, event, actor, target, new, gated : Booked(rid, event, actor, target, new, gated)
    BY <1>1 DEF Entered, EnteredAs
  <2> PICK s \in Steps : Charged(new, s)
    BY DEF Booked
  <2> PICK q : q = [new EXCEPT !.cycles = @ + 1]
    OBVIOUS
  <2>1. /\ q \in RunState /\ q.step = new.step /\ q.spend = new.spend /\ q.planned = new.planned
    BY DEF Booked, RunState
  <2>2. Charged(q, s)
    BY <2>1 DEF Charged, Billed
  <2>3. Record(rid, event, actor, target, q, gated)
    BY DEF Booked, Mutate
  <2>4. QED
    BY <2>1, <2>2, <2>3, RecordCharged
<1>2. CASE \E rid : Exhaust(rid)
  <2> PICK rid : Exhaust(rid)
    BY <1>2
  <2> PICK q : q = [run EXCEPT !.status = "blocked_cycle_limit"]
    OBVIOUS
  <2>1. /\ q \in RunState /\ q.step = run.step /\ q.spend = run.spend /\ q.planned = run.planned
    BY <1>0 DEF RunState, TerminalRun
  <2>2. Charged(q, any)
    BY <1>0, <2>1, Unbilled
  <2>3. QED
    BY <2>1, <2>2, RecordCharged DEF Exhaust
<1>3. CASE \E rid, human : \E extra \in Extensions : ExtendBudget(rid, human, extra)
  <2> PICK rid, human : \E extra \in Extensions : ExtendBudget(rid, human, extra)
    BY <1>3
  <2> PICK extra \in Extensions : ExtendBudget(rid, human, extra)
    OBVIOUS
  <2> DEFINE asked == run.limit + extra
  <2> PICK ceiling : ceiling = IF asked < CycleCeiling THEN asked ELSE CycleCeiling
    OBVIOUS
  <2> PICK q : q = [run EXCEPT !.status = "active", !.limit = ceiling]
    OBVIOUS
  <2>1. ceiling \in Nat
    BY <1>0, BoundsAssumption DEF RunState
  <2>2. /\ q \in RunState /\ q.step = run.step /\ q.spend = run.spend /\ q.planned = run.planned
    BY <1>0, <2>1 DEF RunState
  <2>3. Charged(q, any)
    BY <1>0, <2>2, Unbilled
  <2>4. Record(rid, "run.budget_extended", human, "run", q, TRUE)
    BY DEF ExtendBudget
  <2>5. QED
    BY <2>2, <2>3, <2>4, RecordCharged
<1>4. CASE \E s \in Steps : ClaimLapses(s)
  <2> PICK s \in Steps : ClaimLapses(s)
    BY <1>4
  <2>1. /\ run'.spend = run.spend /\ run'.planned = run.planned
        /\ \A x \in Steps : run'.step[x].spend = run.step[x].spend
    BY <1>0 DEF ClaimLapses, RunState, StepState
  <2>2. QED
    BY <1>0, <2>1, Unbilled
<1>5. CASE UNCHANGED <<run, log, audit>>
  BY <1>0, <1>5, Unbilled
<1>6. QED
  BY <1>1, <1>2, <1>3, <1>4, <1>5 DEF Moves

LEMMA InitBill ==
  ASSUME Init
  PROVE  BillAddsUp
<1> PICK planned \in Costs : run = CreateRun(planned)
  BY DEF Init
<1>1. planned \in Nat /\ IsFiniteSet(Steps)
  BY BoundsAssumption, WorkflowAssumption DEF ValidWorkflow
<1>2. /\ run.spend = planned /\ run.planned = planned
      /\ \A s \in Steps : Spends(run)[s] = 0
  BY DEF CreateRun, NewStep, Spends
<1>3. Spends(run) \in [Steps -> Nat]
  BY <1>2 DEF Spends
<1>4. Total(Spends(run)) = 0
  BY <1>1, <1>2, <1>3, TotalOfZero
<1>5. QED
  BY <1>1, <1>2, <1>4 DEF BillAddsUp, Spends

\* The run's bill is what planning cost plus what its steps cost, at every moment
\* of every run and for any number of steps: no verb charges a step and forgets
\* the run, charges it twice, or carries a spend that release or a retry drops.
THEOREM BillKept == Spec => []BillAddsUp
<1>1. IInv /\ IInv' /\ BillAddsUp /\ [Next]_vars => BillAddsUp'
  BY NextMoves, MovesBill
<1>2. QED
  BY <1>1, InitBill, Soundness, PTL DEF Spec
=============================================================================
