---------------------------- MODULE TriggerQueue ----------------------------
(***************************************************************************)
(* What may start work, and the queue it waits in: the schedules, the      *)
(* signed webhook deliveries and the operators' ideas, each of which ends  *)
(* as one row of trigger_intake (triggers.py, db_triggers.py, and the      *)
(* verbs of service_runs.py and service_operator.py that reach them).      *)
(*                                                                         *)
(* Every read and every transaction of the store is a step of its own, so  *)
(* two callers of enqueue can pass the same depth check.  A row is stamped *)
(* after the look at the depth and before the transaction that inserts it, *)
(* for whose lock its caller may wait: rows need not come in in the order  *)
(* of their stamps.  What a stamp decides is where its row stands in the   *)
(* line, so the line is kept in the order it is read in: a row that comes  *)
(* in stands anywhere behind those its caller found there at the look.     *)
(* The scheduler that empties the queue is in Scheduler.                   *)
(***************************************************************************)
EXTENDS Integers, Sequences, FiniteSets

CONSTANTS
  Schedules,      \* ids of the schedules of the one organization
  Timing,         \* [Schedules -> [kind, every, at]]
  Day,            \* length of a day, in ticks of the clock
  MaxTime,        \* bound: the last tick of the clock
  Ideas,          \* request ids of operators' goals
  Deliveries,     \* nonces of signed deliveries whose signature verifies
  Cap,            \* MAX_QUEUED_TRIGGERS
  MaxAttempts,    \* MAX_TRIGGER_ATTEMPTS
  Trouble         \* which of the optional events a run includes

ASSUME TimingAssumption ==
  /\ Day \in Nat \ {0} /\ MaxTime \in Nat
  /\ Timing \in [Schedules -> [kind : {"interval", "daily"}, every : Nat \ {0}, at : 0 .. (Day - 1)]]
ASSUME QueueAssumption == Cap \in Nat /\ MaxAttempts \in Nat \ {0}
ASSUME FiniteAssumption == IsFiniteSet(Schedules) /\ IsFiniteSet(Ideas) /\ IsFiniteSet(Deliveries)

VARIABLES
  now,        \* the clock
  org,        \* status of the organization
  schedules,  \* [Schedules -> [enabled, next_fire_at, last_fire_at]]
  hook,       \* whether the webhook trigger of the connector is enabled
  nonces,     \* webhook_nonces
  client,     \* where each caller of the API is in its request
  saw,        \* [Clients -> the rows that were in when each of those inserting found room]
  intake,     \* trigger_intake: [Intakes -> [status, attempts, error]]
  line,       \* the intake ids by created_at, and by rowid where it is the same
  ahead       \* history: [Intakes -> what its caller saw, for each row still queued]

queueVars == <<now, org, schedules, hook, nonces, client, saw, intake, line, ahead>>

Never == -1

\* intake_id: one id per event of the world, whoever reports it and how often.
IntakeId(source, ref, due) == <<source, ref, due>>
Intakes ==
  {IntakeId("schedule", s, t) : s \in Schedules, t \in 0 .. MaxTime}
    \cup {IntakeId("operator", r, 0) : r \in Ideas}
    \cup {IntakeId("webhook", d, 0) : d \in Deliveries}

Clients == Ideas \cup Deliveries
ClientIntake(c) == IF c \in Ideas THEN IntakeId("operator", c, 0) ELSE IntakeId("webhook", c, 0)

Statuses == {"queued", "started", "failed", "withdrawn"}
Absent == [status |-> "absent", attempts |-> 0, error |-> FALSE]
Rows == [status : Statuses \cup {"absent"}, attempts : Nat, error : BOOLEAN]

(* next_fire: always strictly after the moment it is asked at *)
NextFire(timing, after) ==
  IF timing.kind = "interval"
    THEN after + timing.every
    ELSE LET candidate == after - (after % Day) + timing.at
         IN IF candidate > after THEN candidate ELSE candidate + Day

QueueInit ==
  /\ now = 0
  /\ org = "active"
  /\ schedules = [s \in Schedules |-> [enabled |-> TRUE, next_fire_at |-> NextFire(Timing[s], 0),
                                       last_fire_at |-> Never]]
  /\ hook = TRUE
  /\ nonces = {}
  /\ client = [c \in Clients |-> "new"]
  /\ intake = [i \in Intakes |-> Absent]
  /\ saw = [c \in Clients |-> {}]
  /\ line = << >>
  /\ ahead = [i \in Intakes |-> {}]

Tick ==
  /\ now < MaxTime
  /\ now' = now + 1
  /\ UNCHANGED <<org, schedules, hook, nonces, client, saw, intake, line, ahead>>

-----------------------------------------------------------------------------
(* The rows of trigger_intake *)

Queued == {i \in Intakes : intake[i].status = "queued"}

\* enqueue's depth check, and the transaction that follows it
AlwaysRoom == TRUE  \* mutant: a queue that nobody empties goes on filling
HasRoom == Cardinality(Queued) <= Cap
Present == {i \in Intakes : intake[i].status # "absent"}
InLine(i, k) == [j \in 1 .. Len(line) + 1 |-> IF j < k THEN line[j] ELSE IF j = k THEN i ELSE line[j - 1]]
EnqueueTrigger(i, found) ==
  IF intake[i].status = "absent"
    THEN /\ intake' = [intake EXCEPT ![i] = [Absent EXCEPT !.status = "queued"]]
         /\ ahead' = [ahead EXCEPT ![i] = found]
         /\ \E k \in 1 .. Len(line) + 1 : /\ \A j \in k .. Len(line) : line[j] \notin found
                                         /\ line' = InLine(i, k)
    ELSE UNCHANGED <<intake, line, ahead>>

\* queued_triggers: where the first rows still queued stand in the line
EveryRow == DOMAIN line  \* mutant: rows that were settled are read again
Waiting == {k \in DOMAIN line : intake[line[k]].status = "queued"}
QueuedTriggers(limit) == {k \in Waiting : Cardinality({j \in Waiting : j < k}) < limit}

\* settle_trigger: only a row that is still queued; the caller sees the others as a Conflict
Settleable(i) == intake[i].status = "queued"
SettleTrigger(i, status, error, spent) ==
  /\ intake' = [intake EXCEPT ![i] = [status |-> status, attempts |-> @.attempts + spent, error |-> error]]
  /\ ahead' = IF status = "queued" THEN ahead ELSE [ahead EXCEPT ![i] = {}]
  /\ UNCHANGED line

-----------------------------------------------------------------------------
(* Callers of the API: one action for each transaction of a request *)

\* A delivery that verifies spends its nonce first; only then is the trigger looked up.
ReceiveWebhook(d) ==
  /\ client[d] = "new" /\ org = "active"
  /\ nonces' = nonces \cup {d}
  /\ client' = [client EXCEPT ![d] = IF d \notin nonces THEN "verified" ELSE "refused"]
  /\ UNCHANGED <<now, org, schedules, hook, saw, intake, line, ahead>>

LookUpTrigger(d) ==
  /\ client[d] = "verified"
  /\ client' = [client EXCEPT ![d] = IF hook THEN "asking" ELSE "refused"]
  /\ UNCHANGED <<now, org, schedules, hook, nonces, saw, intake, line, ahead>>

\* submit_idea: a human of an active organization
SubmitIdea(r) ==
  /\ client[r] = "new" /\ org = "active"
  /\ client' = [client EXCEPT ![r] = "asking"]
  /\ UNCHANGED <<now, org, schedules, hook, nonces, saw, intake, line, ahead>>

CheckDepth(c) ==
  /\ client[c] = "asking"
  /\ IF HasRoom
       THEN /\ client' = [client EXCEPT ![c] = "inserting"]
            /\ saw' = [saw EXCEPT ![c] = Present]
       ELSE /\ client' = [client EXCEPT ![c] = "refused"]
            /\ UNCHANGED saw
  /\ UNCHANGED <<now, org, schedules, hook, nonces, intake, line, ahead>>

Insert(c) ==
  /\ client[c] = "inserting"
  /\ EnqueueTrigger(ClientIntake(c), saw[c])
  /\ client' = [client EXCEPT ![c] = "accepted"]
  /\ saw' = [saw EXCEPT ![c] = {}]
  /\ UNCHANGED <<now, org, schedules, hook, nonces>>

\* The caller did not hear the answer, or did not like it: the same request again.
Resend(c) ==
  /\ "resend" \in Trouble
  /\ client[c] \in {"accepted", "refused"}
  /\ client' = [client EXCEPT ![c] = "new"]
  /\ UNCHANGED <<now, org, schedules, hook, nonces, saw, intake, line, ahead>>

WithdrawIdea(i) ==
  /\ "withdraw" \in Trouble
  /\ org = "active" /\ Settleable(i)
  /\ SettleTrigger(i, "withdrawn", TRUE, 0)
  /\ UNCHANGED <<now, org, schedules, hook, nonces, client, saw>>

(* What an administrator changes while all this goes on *)
RegisterWebhookTrigger(enabled) ==
  /\ "admin" \in Trouble /\ org = "active"
  /\ hook' = enabled
  /\ UNCHANGED <<now, org, schedules, nonces, client, saw, intake, line, ahead>>

SetScheduleEnabled(s, enabled) ==
  /\ "admin" \in Trouble /\ org = "active"
  /\ schedules' = [schedules EXCEPT ![s].enabled = enabled]
  /\ UNCHANGED <<now, org, hook, nonces, client, saw, intake, line, ahead>>

\* Creating a schedule that exists moves its next firing and leaves it as paused as it was.
CreateSchedule(s) ==
  /\ "admin" \in Trouble /\ org = "active"
  /\ schedules' = [schedules EXCEPT ![s].next_fire_at = NextFire(Timing[s], now)]
  /\ UNCHANGED <<now, org, hook, nonces, client, saw, intake, line, ahead>>

SetOrganizationStatus(status) ==
  /\ "suspend" \in Trouble
  /\ org' = status
  /\ UNCHANGED <<now, schedules, hook, nonces, client, saw, intake, line, ahead>>

Outside ==
  \/ Tick
  \/ \E d \in Deliveries : ReceiveWebhook(d) \/ LookUpTrigger(d)
  \/ \E r \in Ideas : SubmitIdea(r)
  \/ \E c \in Clients : CheckDepth(c) \/ Insert(c) \/ Resend(c)
  \/ \E i \in Intakes : WithdrawIdea(i)
  \/ \E b \in BOOLEAN : RegisterWebhookTrigger(b)
  \/ \E s \in Schedules : \/ \E b \in BOOLEAN : SetScheduleEnabled(s, b)
                          \/ CreateSchedule(s)
  \/ \E status \in {"active", "suspended"} : SetOrganizationStatus(status)
=============================================================================
