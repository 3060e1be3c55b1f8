------------------------------ MODULE Scheduler ------------------------------
(***************************************************************************)
(* The scheduler's passes (scheduler.py, scheduler_sweep.py and the        *)
(* intake half of triggers.py): fire what the clock has passed, plan the   *)
(* front of the queue into a run, then drive the runs that can move.       *)
(*                                                                         *)
(* A sweeper is a process.  The services hold the lock of single_instance  *)
(* while they loop; a command (--once, or a loop without --supervised)     *)
(* takes no lock.  A pass is cut where another process or a person can get *)
(* in: after each transaction, during the planner's call, and between the  *)
(* creation of the run file and the settling of its row.  What happens     *)
(* inside a run is RunDriver's subject: here a run moves, waits or is over.*)
(***************************************************************************)
EXTENDS TriggerQueue

CONSTANTS
  Services,    \* supervised loops
  Commands,    \* sweepers without the lock
  None,
  LookAhead,   \* start_queued's limit
  MaxWakes,    \* bound: decisions that set a waiting run going again
  MaxCrashes   \* bound: sweepers that die in the middle of a pass

ASSUME SweeperAssumption ==
  /\ None \notin Services \cup Commands
  /\ LookAhead \in Nat \ {0} /\ MaxWakes \in Nat /\ MaxCrashes \in Nat

\* Finitely many processes sweep, and a sweeper is no caller of the API.
ASSUME ProcessAssumption ==
  /\ IsFiniteSet(Services) /\ IsFiniteSet(Commands)
  /\ (Services \cup Commands) \cap Clients = {}

VARIABLES
  run,       \* [Intakes -> condition of the run file derived from the intake id]
  sweeper,   \* [Sweepers -> where the process is in its pass, and what it has read]
  lock,      \* holder of _scheduler.lock
  wakes,     \* decisions counted against MaxWakes
  crashes,   \* deaths counted against MaxCrashes
  faults     \* history: [Intakes -> planning calls that failed for the request's own sake]

sweepVars == <<run, sweeper, lock, wakes, crashes, faults>>
vars == <<queueVars, sweepVars>>

Sweepers == Services \cup Commands

\* fresh: created by the intake and not yet at rest; woken: set going again by a person.
Conditions == {"none", "fresh", "woken", "waiting", "over"}
Moving == {"fresh", "woken"}
Created(i) == run[i] # "none"
InFlight == {i \in Intakes : run[i] \in Moving}

Idle == [pc |-> "idle", moment |-> 0, due |-> {}, item |-> None, saw |-> {}, rows |-> {}, runs |-> {}]

Init ==
  /\ QueueInit
  /\ run = [i \in Intakes |-> "none"]
  /\ sweeper = [w \in Sweepers |-> Idle]
  /\ lock = None
  /\ wakes = 0 /\ crashes = 0
  /\ faults = [i \in Intakes |-> 0]

Go(w, pc) == sweeper' = [sweeper EXCEPT ![w].pc = pc]
At(w, pc) == sweeper[w].pc = pc
Item(w) == sweeper[w].item
\* A row's stamp and rowid never change, so a page stays in the order it was read in.
Foremost(w) == {row \in sweeper[w].rows : \A other \in sweeper[w].rows : row.at <= other.at}
QuietQueue == UNCHANGED queueVars
QuietRuns == UNCHANGED <<run, lock, wakes, crashes, faults>>

-----------------------------------------------------------------------------
(* The loop: serve, single_instance *)

TakeLock(w) ==
  /\ w \in Services /\ lock = None
  /\ lock' = w
  /\ QuietQueue /\ UNCHANGED <<run, sweeper, wakes, crashes, faults>>

\* Shutdown lets the pass it is in finish.
Stop(w) ==
  /\ lock = w /\ At(w, "idle") /\ "stop" \in Trouble
  /\ lock' = None
  /\ QuietQueue /\ UNCHANGED <<run, sweeper, wakes, crashes, faults>>

\* sweep, and intake's reading of the organization's status
BeginPass(w) ==
  /\ At(w, "idle") /\ (w \in Commands \/ lock = w)
  /\ IF org = "active"
       THEN sweeper' = [sweeper EXCEPT ![w].pc = "schedules", ![w].moment = now]
       ELSE Go(w, "survey")
  /\ QuietQueue /\ QuietRuns

-----------------------------------------------------------------------------
(* fire_due_schedules *)

ReadSchedules(w) ==
  /\ At(w, "schedules")
  /\ sweeper' = [sweeper EXCEPT ![w].pc = "fire",
       ![w].due = {[id |-> s, next_fire_at |-> schedules[s].next_fire_at] :
                     s \in {s \in Schedules : /\ schedules[s].enabled
                                              /\ schedules[s].next_fire_at <= sweeper[w].moment}}]
  /\ QuietQueue /\ QuietRuns

\* claim_due_schedule matches any due time that has passed, not the one this sweeper read.
Claimable(s, moment) == schedules[s].enabled /\ schedules[s].next_fire_at <= moment

\* A schedule that fell behind goes on from this pass, not from the firing it missed.
EveryMissed(copy, moment) == NextFire(Timing[copy.id], copy.next_fire_at)  \* mutant
DueAgain(copy, moment) == moment  \* mutant: due again at the moment it fires
Following(copy, moment) == NextFire(Timing[copy.id], moment)

ClaimDueSchedule(w) ==
  \E copy \in sweeper[w].due :
    LET s == copy.id
        moment == sweeper[w].moment
    IN /\ At(w, "fire")
       /\ IF Claimable(s, moment)
            THEN /\ schedules' = [schedules EXCEPT ![s].next_fire_at = Following(copy, moment),
                                                   ![s].last_fire_at = moment]
                 /\ sweeper' = [sweeper EXCEPT ![w].due = @ \ {copy}, ![w].pc = "depth",
                                  ![w].item = IntakeId("schedule", s, copy.next_fire_at)]
            ELSE /\ sweeper' = [sweeper EXCEPT ![w].due = @ \ {copy}]
                 /\ UNCHANGED schedules
       /\ UNCHANGED <<now, org, hook, nonces, client, saw, intake, line, ahead>>
       /\ QuietRuns

\* A full queue loses the firing: the schedule has moved on already.
CheckFiringDepth(w) ==
  /\ At(w, "depth")
  /\ IF HasRoom
       THEN sweeper' = [sweeper EXCEPT ![w].pc = "insert", ![w].saw = Present]
       ELSE Go(w, "fire")
  /\ QuietQueue /\ QuietRuns

InsertFiring(w) ==
  /\ At(w, "insert")
  /\ EnqueueTrigger(Item(w), sweeper[w].saw)
  /\ sweeper' = [sweeper EXCEPT ![w].pc = "fire", ![w].saw = {}]
  /\ UNCHANGED <<now, org, schedules, hook, nonces, client, saw>>
  /\ QuietRuns

-----------------------------------------------------------------------------
(* start_queued *)

ReadQueue(w) ==
  /\ At(w, "fire") /\ sweeper[w].due = {}
  /\ sweeper' = [sweeper EXCEPT ![w].pc = "scan",
       ![w].rows = {[at |-> k, id |-> line[k], attempts |-> intake[line[k]].attempts] :
                      k \in QueuedTriggers(LookAhead)}]
  /\ QuietQueue /\ QuietRuns

NothingQueued(w) ==
  /\ At(w, "scan") /\ sweeper[w].rows = {}
  /\ Go(w, "survey")
  /\ QuietQueue /\ QuietRuns

\* A row out of attempts is settled and passed over.  A row somebody settled since it was
\* read is a Conflict, which ends the intake of this pass.
GiveUp(w) ==
  \E row \in Foremost(w) :
    /\ At(w, "scan") /\ row.attempts >= MaxAttempts
    /\ IF Settleable(row.id)
         THEN /\ SettleTrigger(row.id, "failed", TRUE, 1)
              /\ sweeper' = [sweeper EXCEPT ![w].rows = @ \ {row}]
         ELSE /\ Go(w, "survey")
              /\ UNCHANGED <<intake, line, ahead>>
    /\ UNCHANGED <<now, org, schedules, hook, nonces, client, saw>>
    /\ QuietRuns

AdoptedNever(i) == FALSE   \* mutant: the run a previous attempt left is not looked for
Adoptable(i) == Created(i)
HeldNever == FALSE         \* mutant: nothing is held back
HeldByTheWaiting == \E i \in Intakes : run[i] \in Moving \cup {"waiting"}  \* mutant
Held == InFlight # {}

\* The live front of the queue: adopt the run it already has, or wait for what is moving,
\* or call the planner.
Consider(w) ==
  \E row \in Foremost(w) :
    /\ At(w, "scan") /\ row.attempts < MaxAttempts
    /\ sweeper' = [sweeper EXCEPT ![w].item = row.id, ![w].rows = @ \ {row},
                     ![w].pc = IF Adoptable(row.id) THEN "mark"
                               ELSE IF Held THEN "survey" ELSE "plan"]
    /\ QuietQueue /\ QuietRuns

\* What a failed attempt leaves: the row stays where it is in the line, and a transient
\* failure spends none of its chances.  _mark swallows the Conflict of a settled row.
SpendsAlways(transient) == 1  \* mutant: an outage costs a chance
SpendsAttempt(transient) == IF transient THEN 0 ELSE 1
StepsOver == "scan"           \* mutant: the next request gets its turn at once
AfterFailure == "survey"

MarkFailed(w, transient) ==
  /\ IF Settleable(Item(w))
       THEN SettleTrigger(Item(w), "queued", TRUE, SpendsAttempt(transient))
       ELSE UNCHANGED <<intake, line, ahead>>
  /\ Go(w, AfterFailure)
  /\ UNCHANGED <<now, org, schedules, hook, nonces, client, saw>>

\* The planner's call, minutes long: a valid workflow, or an error after its repairs.
PlanSucceeds(w) ==
  /\ At(w, "plan")
  /\ Go(w, "create")
  /\ QuietQueue /\ QuietRuns

PlanFails(w) ==
  /\ At(w, "plan") /\ "invalid" \in Trouble
  /\ MarkFailed(w, FALSE)
  /\ faults' = [faults EXCEPT ![Item(w)] = @ + 1]
  /\ UNCHANGED <<run, lock, wakes, crashes>>

PlanIsUnreachable(w) ==
  /\ At(w, "plan") /\ "transient" \in Trouble
  /\ MarkFailed(w, TRUE)
  /\ QuietRuns

\* The plan is written to a file, then create_run under the run's lock.  A disk that fails
\* before the first event was appended leaves an error, one that fails after it an error and
\* a run file.
CreateRun(w) ==
  LET i == Item(w)
  IN /\ At(w, "create")
     /\ \/ /\ Created(i)
           /\ Go(w, "refused")
           /\ UNCHANGED run
        \/ /\ ~Created(i) /\ "disk" \in Trouble
           /\ Go(w, "refused")
           /\ UNCHANGED run
        \/ /\ ~Created(i)
           /\ run' = [run EXCEPT ![i] = "fresh"]
           /\ \/ Go(w, "mark")
              \/ "disk" \in Trouble /\ Go(w, "refused")
     /\ QuietQueue /\ UNCHANGED <<lock, wakes, crashes, faults>>

CreationRefused(w) ==
  /\ At(w, "refused")
  /\ MarkFailed(w, FALSE)
  /\ QuietRuns

MarkStarted(w) ==
  /\ At(w, "mark")
  /\ IF Settleable(Item(w))
       THEN SettleTrigger(Item(w), "started", FALSE, 1)
       ELSE UNCHANGED <<intake, line, ahead>>
  /\ Go(w, "survey")
  /\ UNCHANGED <<now, org, schedules, hook, nonces, client, saw>>
  /\ QuietRuns

-----------------------------------------------------------------------------
(* The drive half of sweep *)

Survey(w) ==
  /\ At(w, "survey")
  /\ sweeper' = [sweeper EXCEPT ![w] = [Idle EXCEPT !.pc = "drive", !.runs = InFlight]]
  /\ QuietQueue /\ QuietRuns

\* A suspended organization's run is skipped; another is advanced until it rests, or until
\* something sends it to the next pass: an outage, or a call that RunDriver shows refused
\* on every pass.
Rests(w) ==
  \E i \in sweeper[w].runs : \E rest \in {"waiting", "over"} :
    /\ At(w, "drive") /\ org = "active"
    /\ run' = [run EXCEPT ![i] = IF @ \in Moving THEN rest ELSE @]
    /\ sweeper' = [sweeper EXCEPT ![w].runs = @ \ {i}]
    /\ QuietQueue /\ UNCHANGED <<lock, wakes, crashes, faults>>

Skips(w) ==
  \E i \in sweeper[w].runs :
    /\ At(w, "drive") /\ (org = "suspended" \/ "stalls" \in Trouble)
    /\ sweeper' = [sweeper EXCEPT ![w].runs = @ \ {i}]
    /\ QuietQueue /\ QuietRuns

EndPass(w) ==
  /\ At(w, "drive") /\ sweeper[w].runs = {}
  /\ sweeper' = [sweeper EXCEPT ![w] = Idle]
  /\ QuietQueue /\ QuietRuns

-----------------------------------------------------------------------------
(* What happens to a process and to a run from outside *)

Crash(w) ==
  /\ crashes < MaxCrashes /\ ~At(w, "idle")
  /\ crashes' = crashes + 1
  /\ sweeper' = [sweeper EXCEPT ![w] = Idle]
  /\ lock' = IF lock = w THEN None ELSE lock
  /\ QuietQueue /\ UNCHANGED <<run, wakes, faults>>

DecideRun(i) ==
  /\ run[i] = "waiting" /\ wakes < MaxWakes
  /\ wakes' = wakes + 1
  /\ \E to \in {"woken", "over"} : run' = [run EXCEPT ![i] = to]
  /\ QuietQueue /\ UNCHANGED <<sweeper, lock, crashes, faults>>

CancelRun(i) ==
  /\ run[i] \in Moving \cup {"waiting"} /\ "cancel" \in Trouble
  /\ run' = [run EXCEPT ![i] = "over"]
  /\ QuietQueue /\ UNCHANGED <<sweeper, lock, wakes, crashes, faults>>

Settles(w) ==
  \/ PlanSucceeds(w) \/ PlanFails(w)

Pass(w) ==
  \/ BeginPass(w)
  \/ ReadSchedules(w) \/ ClaimDueSchedule(w) \/ CheckFiringDepth(w) \/ InsertFiring(w)
  \/ ReadQueue(w) \/ NothingQueued(w) \/ GiveUp(w) \/ Consider(w)
  \/ PlanSucceeds(w) \/ PlanFails(w) \/ PlanIsUnreachable(w)
  \/ CreateRun(w) \/ CreationRefused(w) \/ MarkStarted(w)
  \/ Survey(w) \/ Rests(w) \/ Skips(w) \/ EndPass(w)

Next ==
  \/ Outside /\ UNCHANGED sweepVars
  \/ \E w \in Sweepers : Pass(w) \/ TakeLock(w) \/ Stop(w) \/ Crash(w)
  \/ \E i \in Intakes : DecideRun(i) \/ CancelRun(i)

Spec == Init /\ [][Next]_vars

(***************************************************************************)
(* The service manager restarts a service that died, a loop goes on, and   *)
(* the planner's outages end.  That a run comes to rest is not assumed:    *)
(* one that is driven on every pass may move for ever (RunDriver).         *)
(***************************************************************************)
Fairness ==
  \A w \in Services : /\ WF_vars(TakeLock(w))
                      /\ WF_vars(Pass(w))
                      /\ SF_vars(Settles(w))

FairSpec == Spec /\ Fairness
=============================================================================
