------------------------------ MODULE QueueProofs ------------------------------
(***************************************************************************)
(* What holds of the queue for any schedules, requests, callers, services  *)
(* and bounds.  Its types hold with any sweepers; the order of the queue   *)
(* rests on the lock of the supervised loop, so on there being no commands *)
(* beside it, and on disks that do not fail while a run is created.        *)
(*                                                                         *)
(* The one sweeper that is not idle holds the lock, so what it read of the *)
(* queue is still true when it acts: only withdrawals and new requests     *)
(* happen meanwhile, and a new one stands behind whatever its caller had   *)
(* seen, though perhaps ahead of a row the sweeper has in hand.  That a    *)
(* request which was taken out unread stays out rests on nothing, and that *)
(* a claimed firing has no row yet on the lock.                            *)
(***************************************************************************)
EXTENDS QueueProperties, FiniteSetTheorems, TLAPS

Alone == Commands = {}
Orderly == Alone /\ "disk" \notin Trouble
Unwithdrawn == Orderly /\ "withdraw" \notin Trouble

IsQueued(i) == intake[i].status = "queued"

\* What the rows say of their runs and of their own failures.
RowsTrue ==
  \A i \in Intakes :
    /\ Created(i) => intake[i].status \in {"queued", "started", "withdrawn"}
    /\ intake[i].status = "started" => Created(i)
    /\ IsQueued(i) => intake[i].attempts <= faults[i]
    /\ IsQueued(i) /\ Created(i) => intake[i].attempts < MaxAttempts
    /\ intake[i].status = "failed" => faults[i] >= MaxAttempts

\* A row stands behind those its caller saw, and whatever a caller saw is there.
LineTrue ==
  /\ \A k \in DOMAIN line : intake[line[k]].status # "absent"
  /\ \A i \in Intakes : intake[i].status # "withdrawn"
  /\ \A i \in Intakes : intake[i].status # "absent" => \E k \in DOMAIN line : line[k] = i
  /\ \A k \in DOMAIN line : \A a \in ahead[line[k]] : \E j \in DOMAIN line : j < k /\ line[j] = a
  /\ \A c \in Clients : \A a \in saw[c] : intake[a].status # "absent"

OneFresh == \A i, j \in Intakes : run[i] = "fresh" /\ run[j] = "fresh" => i = j

\* Everything but the sweepers' desks.
Books ==
  /\ now \in 0 .. MaxTime /\ org \in {"active", "suspended"} /\ hook \in BOOLEAN
  /\ schedules \in [Schedules -> Plans] /\ nonces \subseteq Deliveries
  /\ client \in [Clients -> {"new", "verified", "asking", "inserting", "accepted", "refused"}]
  /\ saw \in [Clients -> SUBSET Intakes]
  /\ intake \in [Intakes -> Rows] /\ line \in Seq(Intakes) /\ run \in [Intakes -> Conditions]
  /\ ahead \in [Intakes -> SUBSET Intakes]
  /\ lock \in Services \cup {None} /\ wakes \in 0 .. MaxWakes /\ crashes \in 0 .. MaxCrashes
  /\ faults \in [Intakes -> Nat]
  /\ Alone => OneFresh
  /\ Orderly => RowsTrue
  /\ Unwithdrawn => LineTrue

\* A row that was read is still queued as it was, or was taken out, or given up on.
StillTrue(row) ==
  \/ IsQueued(row.id) /\ intake[row.id].attempts = row.attempts
  \/ intake[row.id].status = "withdrawn"
  \/ intake[row.id].status = "failed" /\ row.attempts >= MaxAttempts

\* Whatever is queued ahead of a row that was read was read before it.
Foremen(rows) ==
  \A row \in rows : \A a \in ahead[row.id] :
    IsQueued(a) => \E other \in rows : other.id = a /\ other.at < row.at

\* It is some request's turn.
Turn(i) == \A a \in ahead[i] : ~IsQueued(a)

OrderlyDesk(d) ==
  /\ d.pc # "refused"
  /\ d.pc = "scan" => \A row \in d.rows : StillTrue(row)
  /\ d.pc \in {"plan", "create"} =>
       /\ ~Created(d.item) /\ intake[d.item].status \in {"queued", "withdrawn"}
       /\ IsQueued(d.item) => intake[d.item].attempts < MaxAttempts
  /\ d.pc = "mark" => Created(d.item)

Fit(w, d) ==
  /\ d.pc \in {"depth", "insert", "plan", "create", "refused", "mark"} => d.item \in Intakes
  /\ Alone => /\ d.pc # "idle" => lock = w
              /\ d.pc \in {"plan", "create"} => \A i \in Intakes : run[i] # "fresh"
  /\ Orderly => OrderlyDesk(d)
  /\ Unwithdrawn => /\ d.pc = "scan" => Foremen(d.rows)
                    /\ d.pc \in {"plan", "create"} => Turn(d.item)
                    /\ d.pc = "insert" => \A a \in d.saw : intake[a].status # "absent"

Inv == Books /\ sweeper \in [Sweepers -> Desks] /\ \A w \in Sweepers : Fit(w, sweeper[w])

-----------------------------------------------------------------------------
(* Facts about the operators *)

LEMMA NextFireLater ==
  ASSUME NEW s \in Schedules, NEW t \in Nat
  PROVE  NextFire(Timing[s], t) \in Nat /\ NextFire(Timing[s], t) > t
<1>1. Day \in Nat \ {0} /\ Timing[s].every \in Nat \ {0} /\ Timing[s].at \in 0 .. (Day - 1)
  BY TimingAssumption
<1>2. t % Day \in Int /\ 0 <= t % Day /\ t % Day < Day
  BY <1>1
<1> PICK m : m = t % Day
  OBVIOUS
<1>3. \/ NextFire(Timing[s], t) = t + Timing[s].every
      \/ /\ t - m + Timing[s].at > t
         /\ NextFire(Timing[s], t) = t - m + Timing[s].at
      \/ NextFire(Timing[s], t) = t - m + Timing[s].at + Day
  BY DEF NextFire
<1> QED
  BY <1>1, <1>2, <1>3

\* A new row goes in somewhere, and the others stay in their order.
LEMMA InLineFacts ==
  ASSUME line \in Seq(Intakes), NEW i \in Intakes, NEW k \in 1 .. Len(line) + 1, line' = InLine(i, k)
  PROVE  /\ line' \in Seq(Intakes) /\ DOMAIN line' = 1 .. Len(line) + 1 /\ line'[k] = i
         /\ \A j \in 1 .. Len(line) : (j < k => line'[j] = line[j]) /\ (j >= k => line'[j + 1] = line[j])
         /\ \A j \in DOMAIN line' : \/ j < k /\ j \in DOMAIN line /\ line'[j] = line[j]
                                    \/ j = k
                                    \/ j > k /\ j - 1 \in DOMAIN line /\ line'[j] = line[j - 1]
<1>1. DOMAIN line = 1 .. Len(line) /\ Len(line) \in Nat /\ k \in Nat
  OBVIOUS
<1> PICK n \in Nat : n = Len(line) + 1
  BY <1>1
<1>2. line' = [j \in 1 .. n |-> IF j < k THEN line[j] ELSE IF j = k THEN i ELSE line[j - 1]]
  BY DEF InLine
<1>3. \A j \in 1 .. n : j \in Nat /\ (j < k => j \in 1 .. Len(line)) /\ (j > k => j - 1 \in 1 .. Len(line))
  BY <1>1
<1>4. \A j \in 1 .. Len(line) : line[j] \in Intakes
  BY <1>1
<1>5. line' \in [1 .. n -> Intakes]
  BY <1>1, <1>2, <1>3, <1>4
<1>6. line' \in Seq(Intakes)
  BY <1>5
<1>7. \A j \in 1 .. Len(line) : j \in 1 .. n /\ j + 1 \in 1 .. n /\ (j >= k => ~(j + 1 < k) /\ j + 1 # k /\ (j + 1) - 1 = j)
  BY <1>1
<1> QED
  BY <1>1, <1>2, <1>3, <1>5, <1>6, <1>7

LEMMA ItemsAreIntakes ==
  /\ \A c \in Clients : ClientIntake(c) \in Intakes
  /\ \A s \in Schedules, t \in 0 .. MaxTime : IntakeId("schedule", s, t) \in Intakes
BY DEF Clients, ClientIntake, Intakes

LEMMA IdleDesk == Idle \in Desks /\ Idle.pc = "idle" /\ \A w \in Sweepers : Fit(w, Idle)
<1>1. Idle \in Desks /\ Idle.pc = "idle"
  BY TimingAssumption DEF Idle, Desks
<1> QED
  BY <1>1 DEF Fit, OrderlyDesk

\* The rows that are read are the first ones queued.
LEMMA QueuedTriggersFacts ==
  ASSUME line \in Seq(Intakes)
  PROVE  /\ QueuedTriggers(LookAhead) \subseteq DOMAIN line
         /\ \A k \in QueuedTriggers(LookAhead) : k \in Nat /\ line[k] \in Intakes /\ IsQueued(line[k])
         /\ \A k \in QueuedTriggers(LookAhead), j \in DOMAIN line :
              j < k /\ IsQueued(line[j]) => j \in QueuedTriggers(LookAhead)
<1>1. DOMAIN line = 1 .. Len(line) /\ Len(line) \in Nat
  OBVIOUS
<1>2. \A k \in QueuedTriggers(LookAhead) : k \in DOMAIN line /\ k \in Nat /\ line[k] \in Intakes /\ IsQueued(line[k])
  BY <1>1 DEF QueuedTriggers, Waiting, IsQueued
<1>3. ASSUME NEW k \in QueuedTriggers(LookAhead), NEW j \in DOMAIN line, j < k, IsQueued(line[j])
      PROVE  j \in QueuedTriggers(LookAhead)
  <2> DEFINE Before(n) == {m \in Waiting : m < n}
  <2>1. IsFiniteSet(Before(k)) /\ IsFiniteSet(Before(j))
    <3>1. IsFiniteSet(1 .. Len(line))
      BY <1>1, FS_Interval
    <3>2. Before(k) \subseteq 1 .. Len(line) /\ Before(j) \subseteq 1 .. Len(line)
      BY <1>1 DEF Waiting
    <3> QED
      BY <3>1, <3>2, FS_Subset
  <2>2. Before(j) \subseteq Before(k)
    BY <1>1, <1>2, <1>3 DEF Waiting
  <2>3. Cardinality(Before(j)) <= Cardinality(Before(k)) /\ Cardinality(Before(j)) \in Nat /\ Cardinality(Before(k)) \in Nat
    BY <2>1, <2>2, FS_Subset, FS_CardinalityType
  <2>4. Cardinality(Before(k)) < LookAhead
    BY DEF QueuedTriggers
  <2>5. Cardinality(Before(j)) < LookAhead
    BY <2>3, <2>4, SweeperAssumption
  <2>6. j \in Waiting
    BY <1>3 DEF Waiting, IsQueued
  <2> QED
    BY <2>5, <2>6 DEF QueuedTriggers
<1> QED
  BY <1>2, <1>3

-----------------------------------------------------------------------------
\* A step of one sweeper.  Under the lock the others are idle and read nothing.
LEMMA StepInv ==
  ASSUME Inv, NEW w \in Sweepers, NEW x \in Desks, sweeper' = [sweeper EXCEPT ![w] = x], Books', Fit(w, x)',
         sweeper[w].pc # "idle" \/ UNCHANGED <<intake, ahead, run, lock>>
  PROVE  Inv'
<1>1. /\ sweeper' \in [Sweepers -> Desks] /\ sweeper'[w] = x
      /\ \A q \in Sweepers : q # w => sweeper'[q] = sweeper[q]
  BY DEF Inv
<1>2. ASSUME NEW q \in Sweepers, q # w PROVE Fit(q, sweeper[q])'
  <2> PICK d : d = sweeper[q]
    OBVIOUS
  <2>1. sweeper'[q] = d /\ Fit(q, d) /\ Fit(w, sweeper[w])
    BY <1>1, <1>2 DEF Inv
  <2>2. CASE UNCHANGED <<intake, ahead, run, lock>>
    <3>1. Fit(q, d)'
      BY <2>1, <2>2 DEF Fit, OrderlyDesk, Foremen, Turn, StillTrue, IsQueued, Created
    <3> QED
      BY <2>1, <3>1
  <2>3. CASE sweeper[w].pc # "idle"
    <3>1. Alone => d.pc = "idle"
      BY <1>2, <2>1, <2>3 DEF Fit
    <3>2. Fit(q, d)'
      BY <2>1, <3>1 DEF Fit, OrderlyDesk, Alone, Orderly, Unwithdrawn
    <3> QED
      BY <2>1, <3>2
  <2> QED
    BY <2>2, <2>3
<1> QED
  BY <1>1, <1>2 DEF Inv

\* What a step of a sweeper starts from.
LEMMA DeskFacts ==
  ASSUME Inv, NEW w \in Sweepers
  PROVE  /\ Books /\ sweeper[w] \in Desks /\ Fit(w, sweeper[w])
         /\ sweeper[w].moment \in 0 .. MaxTime /\ sweeper[w].rows \subseteq Copies
         /\ sweeper[w].due \subseteq [id : Schedules, next_fire_at : 0 .. MaxTime]
BY DEF Inv, Desks

LEMMA BooksStay == ASSUME Books, QuietQueue, QuietRuns PROVE Books'
BY DEF Books, QuietQueue, queueVars, QuietRuns, OneFresh, RowsTrue, LineTrue, IsQueued, Created

\* A desk that only moves on.
LEMMA GoInv ==
  ASSUME Inv, NEW w \in Sweepers, NEW pc \in {"fire", "survey"}, Go(w, pc),
         sweeper[w].pc # "idle", Books', lock' = lock
  PROVE  Inv'
<1>0. Books /\ sweeper[w] \in Desks /\ Fit(w, sweeper[w])
  BY DeskFacts
<1> PICK x : x = [sweeper[w] EXCEPT !.pc = pc]
  OBVIOUS
<1>1. x \in Desks /\ x.pc = pc
  BY <1>0 DEF Desks
<1>2. sweeper' = [sweeper EXCEPT ![w] = x]
  BY DEF Go
<1>3. Fit(w, x)'
  BY <1>0, <1>1 DEF Fit, OrderlyDesk
<1> QED
  BY <1>1, <1>2, <1>3, StepInv

LEMMA BeginPassInv == ASSUME Inv, NEW w \in Sweepers, BeginPass(w) PROVE Inv'
<1>0. Books /\ sweeper[w] \in Desks /\ now \in 0 .. MaxTime /\ Books'
  BY DeskFacts, BooksStay DEF BeginPass, Books
<1>1. (Alone => lock = w) /\ UNCHANGED <<intake, line, ahead, run, lock>>
  BY DEF BeginPass, QuietQueue, queueVars, QuietRuns, Alone
<1>2. CASE org = "active"
  <2> PICK x : x = [sweeper[w] EXCEPT !.pc = "schedules", !.moment = now]
    OBVIOUS
  <2>1. x \in Desks /\ x.pc = "schedules"
    BY <1>0 DEF Desks
  <2>2. sweeper' = [sweeper EXCEPT ![w] = x]
    BY <1>2 DEF BeginPass
  <2>3. Fit(w, x)'
    BY <1>1, <2>1 DEF Fit, OrderlyDesk
  <2> QED
    BY <1>0, <1>1, <2>1, <2>2, <2>3, StepInv
<1>3. CASE org # "active"
  <2> PICK x : x = [sweeper[w] EXCEPT !.pc = "survey"]
    OBVIOUS
  <2>1. x \in Desks /\ x.pc = "survey"
    BY <1>0 DEF Desks
  <2>2. sweeper' = [sweeper EXCEPT ![w] = x]
    BY <1>3 DEF BeginPass, Go
  <2>3. Fit(w, x)'
    BY <1>1, <2>1 DEF Fit, OrderlyDesk
  <2> QED
    BY <1>0, <1>1, <2>1, <2>2, <2>3, StepInv
<1> QED
  BY <1>2, <1>3

LEMMA ReadSchedulesInv == ASSUME Inv, NEW w \in Sweepers, ReadSchedules(w) PROVE Inv'
<1>0. /\ Books /\ sweeper[w] \in Desks /\ Fit(w, sweeper[w]) /\ sweeper[w].moment \in 0 .. MaxTime
      /\ schedules \in [Schedules -> Plans] /\ Books'
  BY DeskFacts, BooksStay DEF ReadSchedules, Books
<1> PICK due : due = {[id |-> s, next_fire_at |-> schedules[s].next_fire_at] :
                        s \in {s \in Schedules : /\ schedules[s].enabled
                                                 /\ schedules[s].next_fire_at <= sweeper[w].moment}}
  OBVIOUS
<1>1. due \subseteq [id : Schedules, next_fire_at : 0 .. MaxTime]
  BY <1>0, TimingAssumption DEF Plans
<1> PICK x : x = [sweeper[w] EXCEPT !.pc = "fire", !.due = due]
  OBVIOUS
<1>2. x \in Desks /\ x.pc = "fire"
  BY <1>0, <1>1 DEF Desks
<1>3. sweeper' = [sweeper EXCEPT ![w] = x] /\ lock' = lock /\ sweeper[w].pc = "schedules"
  BY DEF ReadSchedules, QuietRuns, At
<1>4. Fit(w, x)'
  BY <1>0, <1>2, <1>3 DEF Fit, OrderlyDesk
<1> QED
  BY <1>0, <1>2, <1>3, <1>4, StepInv

LEMMA ClaimDueScheduleInv == ASSUME Inv, NEW w \in Sweepers, ClaimDueSchedule(w) PROVE Inv'
<1>0. /\ Books /\ sweeper[w] \in Desks /\ Fit(w, sweeper[w]) /\ sweeper[w].moment \in 0 .. MaxTime
      /\ sweeper[w].due \subseteq [id : Schedules, next_fire_at : 0 .. MaxTime]
      /\ schedules \in [Schedules -> Plans]
  BY DeskFacts DEF Books
<1> PICK copy \in sweeper[w].due :
      /\ At(w, "fire")
      /\ IF Claimable(copy.id, sweeper[w].moment)
           THEN /\ schedules' = [schedules EXCEPT ![copy.id].next_fire_at = Following(copy, sweeper[w].moment),
                                                  ![copy.id].last_fire_at = sweeper[w].moment]
                /\ sweeper' = [sweeper EXCEPT ![w].due = sweeper[w].due \ {copy}, ![w].pc = "depth",
                                 ![w].item = IntakeId("schedule", copy.id, copy.next_fire_at)]
           ELSE /\ sweeper' = [sweeper EXCEPT ![w].due = sweeper[w].due \ {copy}]
                /\ UNCHANGED schedules
  BY DEF ClaimDueSchedule
<1>1. /\ UNCHANGED <<now, org, hook, nonces, client, saw, intake, line, ahead, run, lock, wakes, crashes, faults>>
      /\ sweeper[w].pc = "fire" /\ copy.id \in Schedules /\ copy.next_fire_at \in 0 .. MaxTime
  BY <1>0 DEF ClaimDueSchedule, QuietRuns, At
<1>2. CASE Claimable(copy.id, sweeper[w].moment)
  <2> PICK item : item = IntakeId("schedule", copy.id, copy.next_fire_at)
    OBVIOUS
  <2> PICK x : x = [sweeper[w] EXCEPT !.due = sweeper[w].due \ {copy}, !.pc = "depth", !.item = item]
    OBVIOUS
  <2>1. x \in Desks /\ x.pc = "depth" /\ x.item \in Intakes
    <3>1. item \in Intakes
      BY <1>1, ItemsAreIntakes
    <3> QED
      BY <1>0, <3>1 DEF Desks
  <2>2. sweeper' = [sweeper EXCEPT ![w] = x]
    BY <1>2
  <2>3. Books'
    <3> PICK t : t = Following(copy, sweeper[w].moment)
      OBVIOUS
    <3>1. t \in Nat /\ sweeper[w].moment \in Nat
      BY <1>0, <1>1, NextFireLater DEF Following
    <3>2. schedules' = [schedules EXCEPT ![copy.id].next_fire_at = t, ![copy.id].last_fire_at = sweeper[w].moment]
      BY <1>2
    <3>3. schedules' \in [Schedules -> Plans]
      BY <1>0, <1>1, <3>1, <3>2 DEF Plans
    <3> QED
      BY <1>0, <1>1, <3>3 DEF Books, OneFresh, RowsTrue, LineTrue, IsQueued, Created
  <2>4. Fit(w, x)'
    BY <1>0, <1>1, <2>1 DEF Fit, OrderlyDesk
  <2> QED
    BY <1>1, <2>1, <2>2, <2>3, <2>4, StepInv
<1>3. CASE ~Claimable(copy.id, sweeper[w].moment)
  <2> PICK x : x = [sweeper[w] EXCEPT !.due = sweeper[w].due \ {copy}]
    OBVIOUS
  <2>1. x \in Desks /\ x.pc = "fire"
    BY <1>0, <1>1 DEF Desks
  <2>2. sweeper' = [sweeper EXCEPT ![w] = x]
    BY <1>3
  <2>3. Books'
    BY <1>0, <1>1, <1>3 DEF Books, OneFresh, RowsTrue, LineTrue, IsQueued, Created
  <2>4. Fit(w, x)'
    BY <1>0, <1>1, <2>1 DEF Fit, OrderlyDesk
  <2> QED
    BY <1>1, <2>1, <2>2, <2>3, <2>4, StepInv
<1> QED
  BY <1>2, <1>3

LEMMA CheckFiringDepthInv == ASSUME Inv, NEW w \in Sweepers, CheckFiringDepth(w) PROVE Inv'
<1>0. Books /\ sweeper[w] \in Desks /\ Fit(w, sweeper[w]) /\ Books'
  BY DeskFacts, BooksStay DEF CheckFiringDepth
<1>1. sweeper[w].pc = "depth" /\ lock' = lock /\ UNCHANGED <<intake, ahead, run>>
  BY DEF CheckFiringDepth, At, QuietRuns, QuietQueue, queueVars
<1>2. CASE HasRoom
  <2> PICK x : x = [sweeper[w] EXCEPT !.pc = "insert", !.saw = Present]
    OBVIOUS
  <2>1. x \in Desks /\ x.pc = "insert" /\ x.item = sweeper[w].item /\ x.saw = Present
    <3>1. Present \in SUBSET Intakes
      BY DEF Present
    <3> QED
      BY <1>0, <3>1 DEF Desks
  <2>2. sweeper' = [sweeper EXCEPT ![w] = x]
    BY <1>2 DEF CheckFiringDepth
  <2>3. \A a \in x.saw : intake'[a].status # "absent"
    BY <1>1, <2>1 DEF Present
  <2>4. Fit(w, x)'
    BY <1>0, <1>1, <2>1, <2>3 DEF Fit, OrderlyDesk
  <2> QED
    BY <1>0, <1>1, <2>1, <2>2, <2>4, StepInv
<1>3. CASE ~HasRoom
  <2>1. Go(w, "fire")
    BY <1>3 DEF CheckFiringDepth
  <2> QED
    BY <1>0, <1>1, <2>1, GoInv
<1> QED
  BY <1>2, <1>3

-----------------------------------------------------------------------------
\* A request that comes in takes nothing from those that are there.
LEMMA EnqueueBooks ==
  ASSUME Books, NEW i \in Intakes, NEW found \in SUBSET Intakes, EnqueueTrigger(i, found),
         UNCHANGED <<now, org, schedules, hook, nonces>>,
         client' \in [Clients -> {"new", "verified", "asking", "inserting", "accepted", "refused"}],
         saw' \in [Clients -> SUBSET Intakes], \A c \in Clients : saw'[c] \in SUBSET saw[c],
         Unwithdrawn => \A a \in found : intake[a].status # "absent", QuietRuns
  PROVE  /\ Books' /\ UNCHANGED <<run, lock>>
         /\ \/ UNCHANGED <<intake, line, ahead>>
            \/ /\ intake[i].status = "absent" /\ intake'[i].status = "queued"
               /\ \A j \in Intakes : j # i => intake'[j] = intake[j] /\ ahead'[j] = ahead[j]
<1>0. UNCHANGED <<run, lock, wakes, crashes, faults>>
  BY DEF QuietRuns
<1>1. CASE intake[i].status # "absent"
  <2>1. UNCHANGED <<intake, line, ahead>>
    BY <1>1 DEF EnqueueTrigger
  <2>2. Unwithdrawn => LineTrue'
    <3> SUFFICES ASSUME Unwithdrawn PROVE LineTrue'
      OBVIOUS
    <3>1. LineTrue
      BY DEF Books
    <3>2. \A c \in Clients : \A a \in saw'[c] : intake'[a].status # "absent"
      BY <2>1, <3>1 DEF LineTrue
    <3> QED
      BY <2>1, <3>1, <3>2 DEF LineTrue
  <2> QED
    BY <1>0, <2>1, <2>2 DEF Books, OneFresh, RowsTrue, IsQueued, Created
<1>2. CASE intake[i].status = "absent"
  <2> PICK row : row = [Absent EXCEPT !.status = "queued"]
    OBVIOUS
  <2>1. row \in Rows /\ row.status = "queued" /\ row.attempts = 0
    BY DEF Absent, Rows, Statuses
  <2>2. /\ intake' = [intake EXCEPT ![i] = row] /\ intake \in [Intakes -> Rows]
        /\ ahead' = [ahead EXCEPT ![i] = found] /\ ahead \in [Intakes -> SUBSET Intakes]
        /\ \E k \in 1 .. Len(line) + 1 : /\ \A j \in k .. Len(line) : line[j] \notin found
                                         /\ line' = InLine(i, k)
    BY <1>2 DEF EnqueueTrigger, Books
  <2>3. /\ intake' \in [Intakes -> Rows] /\ intake'[i] = row
        /\ \A j \in Intakes : j # i => intake'[j] = intake[j] /\ ahead'[j] = ahead[j]
        /\ ahead' \in [Intakes -> SUBSET Intakes] /\ ahead'[i] = found
    BY <2>1, <2>2
  <2>s. line \in Seq(Intakes)
    BY DEF Books
  <2> PICK k \in 1 .. Len(line) + 1 : /\ \A j \in k .. Len(line) : line[j] \notin found
                                      /\ line' = InLine(i, k)
    BY <2>2
  <2>4. /\ line' \in Seq(Intakes) /\ DOMAIN line' = 1 .. Len(line) + 1 /\ line'[k] = i
        /\ \A j \in 1 .. Len(line) : (j < k => line'[j] = line[j]) /\ (j >= k => line'[j + 1] = line[j])
        /\ \A j \in DOMAIN line' : \/ j < k /\ j \in DOMAIN line /\ line'[j] = line[j]
                                   \/ j = k
                                   \/ j > k /\ j - 1 \in DOMAIN line /\ line'[j] = line[j - 1]
    BY <2>s, InLineFacts
  <2>5. Orderly => RowsTrue'
    <3> SUFFICES ASSUME Orderly PROVE RowsTrue'
      OBVIOUS
    <3>1. RowsTrue /\ faults[i] \in Nat
      BY DEF Books
    <3>2. ~Created(i) /\ (Created(i)' <=> Created(i))
      BY <1>0, <1>2, <3>1 DEF RowsTrue, Created
    <3>3. \A j \in Intakes : Created(j)' <=> Created(j)
      BY <1>0 DEF Created
    <3>4. /\ intake'[i].status = "queued" /\ intake'[i].attempts = 0 /\ faults' = faults
          /\ intake'[i].attempts <= faults[i]
      BY <1>0, <2>1, <2>3, <3>1
    <3> SUFFICES ASSUME NEW j \in Intakes
                 PROVE  /\ Created(j)' => intake'[j].status \in {"queued", "started", "withdrawn"}
                        /\ intake'[j].status = "started" => Created(j)'
                        /\ IsQueued(j)' => intake'[j].attempts <= faults'[j]
                        /\ IsQueued(j)' /\ Created(j)' => intake'[j].attempts < MaxAttempts
                        /\ intake'[j].status = "failed" => faults'[j] >= MaxAttempts
      BY DEF RowsTrue
    <3>5. CASE j = i
      BY <3>2, <3>4, <3>5
    <3>6. CASE j # i
      BY <2>3, <3>1, <3>3, <3>4, <3>6 DEF RowsTrue, IsQueued
    <3> QED
      BY <3>5, <3>6
  <2>6. Unwithdrawn => LineTrue'
    <3> SUFFICES ASSUME Unwithdrawn PROVE LineTrue'
      OBVIOUS
    <3>1. /\ LineTrue /\ DOMAIN line = 1 .. Len(line) /\ Len(line) \in Nat
          /\ \A j \in 1 .. Len(line) : line[j] \in Intakes /\ line[j] # i
      BY <1>2, <2>s DEF Books, LineTrue
    <3>2. \A j \in Intakes : intake[j].status # "absent" => intake'[j].status # "absent"
      BY <2>1, <2>3
    <3>3. ASSUME NEW j \in DOMAIN line' PROVE intake'[line'[j]].status # "absent"
      <4>1. CASE j = k
        BY <2>1, <2>3, <2>4, <4>1
      <4>2. CASE j # k
        <5>1. PICK m \in DOMAIN line : line'[j] = line[m]
          BY <2>4, <4>2
        <5> QED
          BY <3>1, <3>2, <5>1 DEF LineTrue
      <4> QED
        BY <4>1, <4>2
    <3>4. \A j \in Intakes : intake'[j].status # "withdrawn"
      BY <2>1, <2>3, <3>1 DEF LineTrue
    <3>5. ASSUME NEW m \in DOMAIN line
          PROVE  \E n \in DOMAIN line' : line'[n] = line[m] /\ (m < k => n = m) /\ (m >= k => n = m + 1)
      BY <2>4, <3>1, <3>5
    <3>6. ASSUME NEW j \in Intakes, intake'[j].status # "absent" PROVE \E n \in DOMAIN line' : line'[n] = j
      <4>1. CASE j = i
        BY <2>4, <4>1
      <4>2. CASE j # i
        <5>1. PICK m \in DOMAIN line : line[m] = j
          BY <2>3, <3>1, <3>6, <4>2 DEF LineTrue
        <5> QED
          BY <3>5, <5>1
      <4> QED
        BY <4>1, <4>2
    <3>7. ASSUME NEW n \in DOMAIN line', NEW a \in ahead'[line'[n]]
          PROVE  \E j \in DOMAIN line' : j < n /\ line'[j] = a
      <4>1. CASE n = k
        <5>1. a \in found /\ a \in Intakes /\ intake[a].status # "absent"
          BY <2>3, <2>4, <3>7, <4>1
        <5>2. PICK m \in DOMAIN line : line[m] = a
          BY <3>1, <5>1 DEF LineTrue
        <5>3. m < k
          BY <3>1, <5>1, <5>2
        <5> QED
          BY <3>5, <4>1, <5>2, <5>3
      <4>2. CASE n # k
        <5>1. PICK m \in DOMAIN line : line'[n] = line[m] /\ (n < k => m = n) /\ (n > k => m = n - 1)
          BY <2>4, <4>2
        <5>2. ahead'[line'[n]] = ahead[line[m]]
          BY <2>3, <3>1, <5>1
        <5>3. PICK j \in DOMAIN line : j < m /\ line[j] = a
          BY <3>1, <3>7, <5>2 DEF LineTrue
        <5>4. PICK l \in DOMAIN line' : line'[l] = a /\ (j < k => l = j) /\ (j >= k => l = j + 1)
          BY <3>5, <5>3
        <5>5. l < n
          BY <2>4, <3>1, <4>2, <5>1, <5>3, <5>4
        <5> QED
          BY <5>4, <5>5
      <4> QED
        BY <4>1, <4>2
    <3>8. \A c \in Clients : \A a \in saw'[c] : intake'[a].status # "absent"
      <4>1. \A c \in Clients : \A a \in saw'[c] : a \in saw[c] /\ a \in Intakes
        BY DEF Books
      <4> QED
        BY <3>1, <3>2, <4>1 DEF LineTrue
    <3> QED
      BY <3>3, <3>4, <3>6, <3>7, <3>8 DEF LineTrue
  <2>7. Alone => OneFresh'
    BY <1>0 DEF Books, OneFresh
  <2>8. Books'
    BY <1>0, <2>3, <2>4, <2>5, <2>6, <2>7 DEF Books, Alone, Orderly, Unwithdrawn
  <2> QED
    BY <1>0, <1>2, <2>1, <2>3, <2>8
<1> QED
  BY <1>1, <1>2

LEMMA InsertFiringInv == ASSUME Inv, NEW w \in Sweepers, InsertFiring(w) PROVE Inv'
<1>0. Books /\ sweeper[w] \in Desks /\ Fit(w, sweeper[w]) /\ sweeper[w].pc = "insert"
  BY DeskFacts DEF InsertFiring, At
<1> PICK i \in Intakes, found \in SUBSET Intakes : i = sweeper[w].item /\ found = sweeper[w].saw
  BY <1>0 DEF Fit, Desks
<1>1. EnqueueTrigger(i, found) /\ QuietRuns /\ UNCHANGED <<now, org, schedules, hook, nonces, client, saw>>
  BY DEF InsertFiring, Item
<1>2. /\ client' \in [Clients -> {"new", "verified", "asking", "inserting", "accepted", "refused"}]
      /\ saw' \in [Clients -> SUBSET Intakes] /\ \A c \in Clients : saw'[c] \in SUBSET saw[c]
  BY <1>0, <1>1 DEF Books
<1>3. Unwithdrawn => \A a \in found : intake[a].status # "absent"
  BY <1>0 DEF Fit
<1>4. Books' /\ lock' = lock
  BY <1>0, <1>1, <1>2, <1>3, EnqueueBooks
<1> PICK x : x = [sweeper[w] EXCEPT !.pc = "fire", !.saw = {}]
  OBVIOUS
<1>5. x \in Desks /\ x.pc = "fire"
  BY <1>0 DEF Desks
<1>6. sweeper' = [sweeper EXCEPT ![w] = x]
  BY DEF InsertFiring
<1>7. Fit(w, x)'
  BY <1>0, <1>4, <1>5 DEF Fit, OrderlyDesk
<1> QED
  BY <1>0, <1>4, <1>5, <1>6, <1>7, StepInv

-----------------------------------------------------------------------------
(* Reading the queue and choosing from it *)

LEMMA ReadQueueInv == ASSUME Inv, NEW w \in Sweepers, ReadQueue(w) PROVE Inv'
<1>0. /\ Books /\ sweeper[w] \in Desks /\ Fit(w, sweeper[w]) /\ Books' /\ line \in Seq(Intakes)
      /\ intake \in [Intakes -> Rows] /\ sweeper[w].pc = "fire" /\ UNCHANGED <<intake, line, ahead, run, lock>>
  BY DeskFacts, BooksStay DEF ReadQueue, Books, At, QuietQueue, queueVars, QuietRuns
<1> PICK places : places = QueuedTriggers(LookAhead)
  OBVIOUS
<1>1. /\ places \subseteq DOMAIN line
      /\ \A k \in places : k \in Nat /\ line[k] \in Intakes /\ IsQueued(line[k])
      /\ \A k \in places, j \in DOMAIN line : j < k /\ IsQueued(line[j]) => j \in places
  BY <1>0, QueuedTriggersFacts
<1> PICK rows : rows = {[at |-> k, id |-> line[k], attempts |-> intake[line[k]].attempts] : k \in places}
  OBVIOUS
<1>2. /\ \A row \in rows : row.at \in places /\ row.id = line[row.at] /\ row.attempts = intake[row.id].attempts
      /\ \A k \in places : \E row \in rows : row.at = k
  <2>1. ASSUME NEW row \in rows
        PROVE  row.at \in places /\ row.id = line[row.at] /\ row.attempts = intake[row.id].attempts
    <3>1. PICK k \in places : row = [at |-> k, id |-> line[k], attempts |-> intake[line[k]].attempts]
      OBVIOUS
    <3> QED
      BY <3>1
  <2>2. ASSUME NEW k \in places PROVE \E row \in rows : row.at = k
    <3>1. [at |-> k, id |-> line[k], attempts |-> intake[line[k]].attempts] \in rows
      OBVIOUS
    <3> QED
      BY <3>1
  <2> QED
    BY <2>1, <2>2
<1>3. rows \subseteq Copies
  <2>1. \A k \in places : intake[line[k]].attempts \in Nat
    BY <1>0, <1>1 DEF Rows
  <2> QED
    BY <1>1, <2>1 DEF Copies
<1> PICK x : x = [sweeper[w] EXCEPT !.pc = "scan", !.rows = rows]
  OBVIOUS
<1>4. x \in Desks /\ x.pc = "scan" /\ x.rows = rows
  BY <1>0, <1>3 DEF Desks
<1>5. sweeper' = [sweeper EXCEPT ![w] = x]
  BY DEF ReadQueue
<1>6. (\A row \in rows : StillTrue(row)) /\ (Unwithdrawn => Foremen(rows))
  <2>1. \A row \in rows : StillTrue(row)
    BY <1>1, <1>2 DEF StillTrue
  <2>2. ASSUME Unwithdrawn, NEW row \in rows, NEW a \in ahead[row.id], IsQueued(a)
        PROVE  \E other \in rows : other.id = a /\ other.at < row.at
    <3>1. row.at \in places /\ row.at \in DOMAIN line /\ row.id = line[row.at]
      BY <1>1, <1>2
    <3>2. PICK j \in DOMAIN line : j < row.at /\ line[j] = a
      BY <1>0, <2>2, <3>1 DEF Books, LineTrue
    <3>3. j \in places
      BY <1>1, <2>2, <3>1, <3>2
    <3>4. PICK other \in rows : other.at = j
      BY <1>2, <3>3
    <3> QED
      BY <1>2, <3>2, <3>4
  <2> QED
    BY <2>1, <2>2 DEF Foremen
<1>7. Fit(w, x)
  BY <1>0, <1>4, <1>6 DEF Fit, OrderlyDesk
<1>8. Fit(w, x)'
  BY <1>0, <1>7 DEF Fit, OrderlyDesk, Foremen, Turn, StillTrue, IsQueued, Created
<1> QED
  BY <1>0, <1>4, <1>5, <1>8, StepInv

LEMMA NothingQueuedInv == ASSUME Inv, NEW w \in Sweepers, NothingQueued(w) PROVE Inv'
<1>1. Books' /\ Go(w, "survey") /\ sweeper[w].pc # "idle" /\ lock' = lock
  BY DeskFacts, BooksStay DEF NothingQueued, At, QuietRuns
<1> QED
  BY <1>1, GoInv

\* What the settling of one row has to respect.
LEMMA SettleBooks ==
  ASSUME Books, NEW i \in Intakes, NEW status \in Statuses, NEW error \in BOOLEAN, NEW spent \in {0, 1},
         SettleTrigger(i, status, error, spent), intake[i].status # "absent",
         UNCHANGED <<now, org, schedules, hook, nonces, client, saw, run, lock, wakes, crashes>>,
         faults' \in [Intakes -> Nat], \A j \in Intakes : faults'[j] >= faults[j],
         Orderly =>
           /\ Created(i) => status # "failed"
           /\ status = "started" => Created(i)
           /\ status = "queued" => /\ intake[i].attempts + spent <= faults'[i]
                                   /\ Created(i) => intake[i].attempts + spent < MaxAttempts
           /\ status = "failed" => faults'[i] >= MaxAttempts,
         Unwithdrawn => status # "withdrawn"
  PROVE  /\ Books' /\ line' = line /\ (\A j \in Intakes : ahead'[j] \in SUBSET ahead[j]) /\ intake'[i].status = status
         /\ intake'[i].attempts = intake[i].attempts + spent
         /\ \A j \in Intakes : j # i => intake'[j] = intake[j]
<1> PICK row : row = [status |-> status, attempts |-> intake[i].attempts + spent, error |-> error]
  OBVIOUS
<1>1. intake \in [Intakes -> Rows] /\ intake' = [intake EXCEPT ![i] = row] /\ line' = line
  BY DEF Books, SettleTrigger
<1>2. row \in Rows /\ row.status = status /\ row.attempts = intake[i].attempts + spent
  <2>1. intake[i].attempts + spent \in Nat
    BY <1>1 DEF Rows
  <2> QED
    BY <2>1 DEF Rows
<1>3. /\ intake' \in [Intakes -> Rows] /\ intake'[i] = row
      /\ \A j \in Intakes : j # i => intake'[j] = intake[j]
  BY <1>1, <1>2
<1>4. Orderly => RowsTrue'
  <2> SUFFICES ASSUME Orderly, NEW j \in Intakes
               PROVE  /\ Created(j)' => intake'[j].status \in {"queued", "started", "withdrawn"}
                      /\ intake'[j].status = "started" => Created(j)'
                      /\ IsQueued(j)' => intake'[j].attempts <= faults'[j]
                      /\ IsQueued(j)' /\ Created(j)' => intake'[j].attempts < MaxAttempts
                      /\ intake'[j].status = "failed" => faults'[j] >= MaxAttempts
    BY DEF RowsTrue
  <2>1. RowsTrue /\ (Created(j)' <=> Created(j))
    BY DEF Books, Created
  <2>2. CASE j = i
    BY <1>2, <1>3, <2>1, <2>2 DEF IsQueued, Statuses
  <2>3. CASE j # i
    <3>1. /\ faults[j] \in Nat /\ faults'[j] \in Nat /\ faults'[j] >= faults[j] /\ intake'[j] = intake[j]
          /\ intake[j].attempts \in Nat
      BY <1>1, <1>3, <2>3 DEF Books, Rows
    <3> QED
      BY <2>1, <3>1, QueueAssumption DEF RowsTrue, IsQueued
  <2> QED
    BY <2>2, <2>3
<1>a. ahead' \in [Intakes -> SUBSET Intakes] /\ \A j \in Intakes : ahead'[j] \in SUBSET ahead[j]
  BY DEF Books, SettleTrigger
<1>5. Unwithdrawn => LineTrue'
  <2> SUFFICES ASSUME Unwithdrawn PROVE LineTrue'
    OBVIOUS
  <2>1. LineTrue /\ line' = line /\ saw' = saw /\ (\A k \in DOMAIN line : line[k] \in Intakes)
        /\ \A c \in Clients : \A a \in saw[c] : a \in Intakes
    BY <1>1 DEF Books
  <2>3. intake'[i].status \notin {"absent", "withdrawn"}
    BY <1>2, <1>3 DEF Statuses
  <2>4. \A j \in Intakes : intake'[j].status # "absent" <=> (j = i \/ intake[j].status # "absent")
    BY <1>3, <2>3
  <2>5. \A j \in Intakes : intake'[j].status # "absent" => \E k \in DOMAIN line' : line'[k] = j
    BY <2>1, <2>4 DEF LineTrue
  <2>6. \A k \in DOMAIN line' : \A a \in ahead'[line'[k]] : \E j \in DOMAIN line' : j < k /\ line'[j] = a
    BY <1>a, <2>1 DEF LineTrue
  <2>7. /\ \A k \in DOMAIN line' : intake'[line'[k]].status # "absent"
        /\ \A j \in Intakes : intake'[j].status # "withdrawn"
        /\ \A c \in Clients : \A a \in saw'[c] : intake'[a].status # "absent"
    BY <1>3, <2>1, <2>3, <2>4 DEF LineTrue
  <2> QED
    BY <2>5, <2>6, <2>7 DEF LineTrue
<1>6. Books'
  BY <1>1, <1>3, <1>4, <1>5, <1>a DEF Books, OneFresh
<1> QED
  BY <1>1, <1>2, <1>3, <1>6, <1>a

LEMMA GiveUpInv == ASSUME Inv, NEW w \in Sweepers, GiveUp(w) PROVE Inv'
<1>0. Books /\ sweeper[w] \in Desks /\ Fit(w, sweeper[w]) /\ sweeper[w].rows \subseteq Copies
  BY DeskFacts
<1> PICK row \in Foremost(w) :
      /\ At(w, "scan") /\ row.attempts >= MaxAttempts
      /\ IF Settleable(row.id)
           THEN /\ SettleTrigger(row.id, "failed", TRUE, 1)
                /\ sweeper' = [sweeper EXCEPT ![w].rows = sweeper[w].rows \ {row}]
           ELSE /\ Go(w, "survey")
                /\ UNCHANGED <<intake, line, ahead>>
  BY DEF GiveUp
<1>1. /\ row \in Copies /\ row \in sweeper[w].rows /\ row.id \in Intakes /\ row.attempts \in Nat
      /\ \A other \in sweeper[w].rows : row.at <= other.at
      /\ sweeper[w].pc = "scan"
      /\ UNCHANGED <<now, org, schedules, hook, nonces, client, saw, run, lock, wakes, crashes, faults>>
  BY <1>0 DEF GiveUp, Foremost, Copies, At, QuietRuns
<1>2. CASE ~Settleable(row.id)
  <2>1. Books'
    BY <1>0, <1>1, <1>2 DEF Books, OneFresh, RowsTrue, LineTrue, IsQueued, Created
  <2>2. Go(w, "survey") /\ sweeper[w].pc # "idle" /\ lock' = lock
    BY <1>1, <1>2
  <2> QED
    BY <2>1, <2>2, GoInv
<1>3. CASE Settleable(row.id)
  <2>1. /\ faults \in [Intakes -> Nat] /\ intake \in [Intakes -> Rows] /\ IsQueued(row.id)
        /\ intake[row.id].attempts \in Nat
    BY <1>0, <1>1, <1>3 DEF Books, Settleable, IsQueued, Rows
  <2>2. ASSUME Orderly
        PROVE  /\ intake[row.id].attempts >= MaxAttempts /\ ~Created(row.id)
               /\ faults[row.id] >= MaxAttempts
    <3>1. intake[row.id].attempts = row.attempts /\ RowsTrue
      BY <1>0, <1>1, <2>1, <2>2 DEF Fit, OrderlyDesk, StillTrue, IsQueued, Books
    <3> QED
      BY <1>1, <2>1, <3>1, QueueAssumption DEF RowsTrue
  <2>3. /\ Books' /\ intake'[row.id].status = "failed" /\ (\A j \in Intakes : ahead'[j] \in SUBSET ahead[j])
        /\ \A j \in Intakes : j # row.id => intake'[j] = intake[j]
    <3>0. intake[row.id].status # "absent"
      BY <2>1 DEF IsQueued
    <3>1. "failed" \in Statuses /\ TRUE \in BOOLEAN /\ 1 \in {0, 1}
      BY DEF Statuses
    <3>2. SettleTrigger(row.id, "failed", TRUE, 1)
      BY <1>3
    <3>3. faults' \in [Intakes -> Nat] /\ faults'[row.id] = faults[row.id]
      BY <1>1, <2>1
    <3>4. \A j \in Intakes : faults[j] \in Nat /\ faults'[j] = faults[j]
      BY <1>1, <2>1
    <3>5. \A j \in Intakes : faults'[j] >= faults[j]
      BY <3>4
    <3>6. Orderly => ~Created(row.id) /\ faults'[row.id] >= MaxAttempts
      BY <2>2, <3>3
    <3> PICK status \in Statuses : status = "failed"
      BY <3>1
    <3> QED
      BY ZenonT(30), <1>0, <1>1, <3>0, <3>1, <3>2, <3>3, <3>5, <3>6, SettleBooks
  <2> PICK x : x = [sweeper[w] EXCEPT !.rows = sweeper[w].rows \ {row}]
    OBVIOUS
  <2>4. x \in Desks /\ x.pc = "scan" /\ x.rows = sweeper[w].rows \ {row}
    BY <1>0, <1>1 DEF Desks
  <2>5. sweeper' = [sweeper EXCEPT ![w] = x]
    BY <1>3
  <2>6. ASSUME Orderly, NEW other \in x.rows PROVE StillTrue(other)'
    <3>1. StillTrue(other) /\ other.id \in Intakes /\ other.attempts \in Nat
      BY <1>0, <1>1, <2>4, <2>6 DEF Fit, OrderlyDesk, Copies
    <3>2. CASE other.id = row.id
      BY <1>0, <2>1, <2>2, <2>3, <2>6, <3>1, <3>2 DEF StillTrue, IsQueued
    <3>3. CASE other.id # row.id
      BY <2>3, <3>1, <3>3 DEF StillTrue, IsQueued
    <3> QED
      BY <3>2, <3>3
  <2>7. ASSUME Unwithdrawn PROVE Foremen(x.rows)'
    <3> SUFFICES ASSUME NEW other \in x.rows, NEW a \in ahead'[other.id], IsQueued(a)'
                 PROVE  \E third \in x.rows : third.id = a /\ third.at < other.at
      BY DEF Foremen
    <3>1. Foremen(sweeper[w].rows) /\ other \in sweeper[w].rows /\ other.id \in Intakes
      BY <1>0, <1>1, <2>4, <2>7 DEF Fit, Copies
    <3>2. a \in ahead[other.id] /\ a \in Intakes
      BY <1>0, <2>3, <3>1 DEF Books
    <3>3. a # row.id /\ IsQueued(a)
      BY <2>3, <3>2 DEF IsQueued
    <3>4. PICK third \in sweeper[w].rows : third.id = a /\ third.at < other.at
      BY <3>1, <3>2, <3>3 DEF Foremen
    <3> QED
      BY <2>4, <3>3, <3>4
  <2>8. Fit(w, x)'
    BY <1>0, <1>1, <2>4, <2>6, <2>7 DEF Fit, OrderlyDesk
  <2> QED
    BY <1>1, <2>3, <2>4, <2>5, <2>8, StepInv
<1> QED
  BY <1>2, <1>3

LEMMA ConsiderInv == ASSUME Inv, NEW w \in Sweepers, Consider(w) PROVE Inv'
<1>0. /\ Books /\ sweeper[w] \in Desks /\ Fit(w, sweeper[w]) /\ sweeper[w].rows \subseteq Copies /\ Books'
      /\ UNCHANGED <<intake, line, ahead, run, lock>>
  BY DeskFacts, BooksStay DEF Consider, QuietQueue, queueVars, QuietRuns
<1> PICK row \in Foremost(w) :
      /\ At(w, "scan") /\ row.attempts < MaxAttempts
      /\ sweeper' = [sweeper EXCEPT ![w].item = row.id, ![w].rows = sweeper[w].rows \ {row},
                       ![w].pc = IF Adoptable(row.id) THEN "mark"
                                 ELSE IF Held THEN "survey" ELSE "plan"]
  BY DEF Consider
<1>1. /\ row \in Copies /\ row \in sweeper[w].rows /\ row.id \in Intakes /\ row.attempts \in Nat /\ row.at \in Nat
      /\ \A other \in sweeper[w].rows : row.at <= other.at
      /\ sweeper[w].pc = "scan"
  BY <1>0 DEF Foremost, Copies, At
<1> PICK pc : pc = IF Adoptable(row.id) THEN "mark" ELSE IF Held THEN "survey" ELSE "plan"
  OBVIOUS
<1> PICK x : x = [sweeper[w] EXCEPT !.item = row.id, !.rows = sweeper[w].rows \ {row}, !.pc = pc]
  OBVIOUS
<1>2. x \in Desks /\ x.pc = pc /\ x.item = row.id /\ pc \in {"mark", "survey", "plan"}
  BY <1>0, <1>1 DEF Desks
<1>3. sweeper' = [sweeper EXCEPT ![w] = x]
  OBVIOUS
<1>4. pc = "mark" => Created(row.id)
  BY DEF Adoptable
<1>5. pc = "plan" => ~Created(row.id) /\ \A i \in Intakes : run[i] # "fresh"
  BY DEF Adoptable, Held, InFlight, Moving
<1>6. ASSUME Orderly
      PROVE  /\ intake[row.id].status \in {"queued", "withdrawn"}
             /\ IsQueued(row.id) => intake[row.id].attempts < MaxAttempts
  <2>1. StillTrue(row)
    BY <1>0, <1>1, <1>6 DEF Fit, OrderlyDesk
  <2> QED
    BY <1>1, <2>1, QueueAssumption DEF StillTrue, IsQueued
<1>7. ASSUME Unwithdrawn PROVE Turn(row.id)
  <2>1. \A a \in ahead[row.id] : IsQueued(a) => \E other \in sweeper[w].rows : other.id = a /\ other.at < row.at
    BY <1>0, <1>1, <1>7 DEF Fit, Foremen
  <2>2. \A other \in sweeper[w].rows : other.at \in Nat
    BY <1>0 DEF Copies
  <2> QED
    BY <1>1, <2>1, <2>2 DEF Turn
<1>8. Fit(w, x)
  BY <1>0, <1>1, <1>2, <1>4, <1>5, <1>6, <1>7 DEF Fit, OrderlyDesk
<1>9. Fit(w, x)'
  BY <1>0, <1>8 DEF Fit, OrderlyDesk, Foremen, Turn, StillTrue, IsQueued, Created
<1> QED
  BY <1>0, <1>2, <1>3, <1>9, StepInv

-----------------------------------------------------------------------------
(* From the plan to the row *)

LEMMA PlanSucceedsInv == ASSUME Inv, NEW w \in Sweepers, PlanSucceeds(w) PROVE Inv'
<1>0. /\ Books /\ sweeper[w] \in Desks /\ Fit(w, sweeper[w]) /\ Books' /\ sweeper[w].pc = "plan"
      /\ UNCHANGED <<intake, line, ahead, run, lock>>
  BY DeskFacts, BooksStay DEF PlanSucceeds, At, QuietQueue, queueVars, QuietRuns
<1> PICK x : x = [sweeper[w] EXCEPT !.pc = "create"]
  OBVIOUS
<1>1. x \in Desks /\ x.pc = "create" /\ x.item = sweeper[w].item
  BY <1>0 DEF Desks
<1>2. sweeper' = [sweeper EXCEPT ![w] = x]
  BY DEF PlanSucceeds, Go
<1>3. Fit(w, x)
  BY <1>0, <1>1 DEF Fit, OrderlyDesk
<1>4. Fit(w, x)'
  BY <1>0, <1>3 DEF Fit, OrderlyDesk, Foremen, Turn, StillTrue, IsQueued, Created
<1> QED
  BY <1>0, <1>1, <1>2, <1>4, StepInv

\* A failure leaves the row in the queue, and costs it no more than its own faults.
LEMMA MarkFailedInv ==
  ASSUME Inv, NEW w \in Sweepers, NEW transient \in BOOLEAN, MarkFailed(w, transient),
         sweeper[w].pc \in {"plan", "refused"}, UNCHANGED <<run, lock, wakes, crashes>>,
         faults' \in [Intakes -> Nat], \A j \in Intakes : faults'[j] >= faults[j],
         Orderly => faults'[sweeper[w].item] >= faults[sweeper[w].item] + SpendsAttempt(transient)
  PROVE  Inv'
<1>0. Books /\ sweeper[w] \in Desks /\ Fit(w, sweeper[w])
  BY DeskFacts
<1> PICK i : i = sweeper[w].item
  OBVIOUS
<1> PICK spent : spent = SpendsAttempt(transient)
  OBVIOUS
<1>1. i \in Intakes /\ spent \in {0, 1} /\ faults[i] \in Nat /\ faults'[i] \in Nat
      /\ intake \in [Intakes -> Rows] /\ intake[i].attempts \in Nat
  BY <1>0 DEF Fit, SpendsAttempt, Books, Rows
<1>2. UNCHANGED <<now, org, schedules, hook, nonces, client, saw>> /\ Go(w, "survey")
  BY DEF MarkFailed, AfterFailure
<1>3. Books'
  <2>1. CASE Settleable(i)
    <3> PICK status \in Statuses : status = "queued"
      BY DEF Statuses
    <3>1. SettleTrigger(i, status, TRUE, spent)
      BY <2>1 DEF MarkFailed, Item
    <3>2. ASSUME Orderly PROVE ~Created(i) /\ intake[i].attempts + spent <= faults'[i]
      <4>1. ~Created(i) /\ RowsTrue
        BY <1>0, <3>2 DEF Fit, OrderlyDesk, Books
      <4>2. intake[i].attempts <= faults[i] /\ faults'[i] >= faults[i] + spent
        BY <1>1, <2>1, <3>2, <4>1 DEF RowsTrue, IsQueued, Settleable
      <4> QED
        BY <1>1, <4>1, <4>2
    <3> PICK error \in BOOLEAN : error = TRUE
      OBVIOUS
    <3> QED
      BY <1>0, <1>1, <1>2, <2>1, <3>1, <3>2, SettleBooks DEF Settleable
  <2>2. CASE ~Settleable(i)
    <3>1. UNCHANGED <<intake, line, ahead>>
      BY <2>2 DEF MarkFailed, Item
    <3>2. \A j \in Intakes : faults[j] \in Nat /\ faults'[j] \in Nat /\ faults'[j] >= faults[j]
                             /\ intake[j].attempts \in Nat
      BY <1>0, <1>1 DEF Books, Rows
    <3>3. Orderly => RowsTrue'
      BY <1>0, <3>1, <3>2, QueueAssumption DEF Books, RowsTrue, IsQueued, Created
    <3> QED
      BY <1>0, <1>2, <3>1, <3>3 DEF Books, OneFresh, LineTrue
  <2> QED
    BY <2>1, <2>2
<1> QED
  BY <1>2, <1>3, GoInv

LEMMA PlanFailsInv == ASSUME Inv, NEW w \in Sweepers, PlanFails(w) PROVE Inv'
<1>0. Books /\ Fit(w, sweeper[w]) /\ sweeper[w].pc = "plan" /\ MarkFailed(w, FALSE)
  BY DeskFacts DEF PlanFails, At
<1>1. sweeper[w].item \in Intakes /\ UNCHANGED <<run, lock, wakes, crashes>> /\ faults \in [Intakes -> Nat]
  BY <1>0 DEF Fit, PlanFails, Books
<1>2. faults' = [faults EXCEPT ![sweeper[w].item] = faults[sweeper[w].item] + 1]
  BY DEF PlanFails, Item
<1>3. /\ faults' \in [Intakes -> Nat] /\ faults'[sweeper[w].item] >= faults[sweeper[w].item] + 1
      /\ \A j \in Intakes : faults'[j] >= faults[j]
  BY <1>1, <1>2
<1>4. SpendsAttempt(FALSE) = 1
  BY DEF SpendsAttempt
<1> PICK transient \in BOOLEAN : transient = FALSE
  OBVIOUS
<1> QED
  BY <1>0, <1>1, <1>3, <1>4, MarkFailedInv

LEMMA PlanIsUnreachableInv == ASSUME Inv, NEW w \in Sweepers, PlanIsUnreachable(w) PROVE Inv'
<1>0. Books /\ Fit(w, sweeper[w]) /\ sweeper[w].pc = "plan" /\ MarkFailed(w, TRUE)
  BY DeskFacts DEF PlanIsUnreachable, At
<1>1. sweeper[w].item \in Intakes /\ UNCHANGED <<run, lock, wakes, crashes, faults>> /\ faults \in [Intakes -> Nat]
  BY <1>0 DEF Fit, PlanIsUnreachable, Books, QuietRuns
<1>2. \A j \in Intakes : faults[j] \in Nat /\ faults'[j] >= faults[j]
  BY <1>1
<1>3. SpendsAttempt(TRUE) = 0 /\ faults'[sweeper[w].item] >= faults[sweeper[w].item] + 0
  BY <1>1, <1>2 DEF SpendsAttempt
<1> PICK transient \in BOOLEAN : transient = TRUE
  OBVIOUS
<1> QED
  BY <1>0, <1>1, <1>2, <1>3, MarkFailedInv

LEMMA CreationRefusedInv == ASSUME Inv, NEW w \in Sweepers, CreationRefused(w) PROVE Inv'
<1>0. Books /\ Fit(w, sweeper[w]) /\ sweeper[w].pc = "refused" /\ MarkFailed(w, FALSE)
  BY DeskFacts DEF CreationRefused, At
<1>1. UNCHANGED <<run, lock, wakes, crashes, faults>> /\ faults \in [Intakes -> Nat] /\ ~Orderly
  BY <1>0 DEF Fit, OrderlyDesk, CreationRefused, Books, QuietRuns
<1>2. \A j \in Intakes : faults[j] \in Nat /\ faults'[j] >= faults[j]
  BY <1>1
<1> PICK transient \in BOOLEAN : transient = FALSE
  OBVIOUS
<1> QED
  BY <1>0, <1>1, <1>2, MarkFailedInv

\* A run is created under the lock, when none that is fresh is there.
LEMMA CreateRunInv == ASSUME Inv, NEW w \in Sweepers, CreateRun(w) PROVE Inv'
<1>0. /\ Books /\ sweeper[w] \in Desks /\ Fit(w, sweeper[w]) /\ sweeper[w].pc = "create"
      /\ UNCHANGED <<now, org, schedules, hook, nonces, client, saw, intake, line, ahead, lock, wakes, crashes, faults>>
  BY DeskFacts DEF CreateRun, At, QuietQueue, queueVars
<1> PICK i \in Intakes : i = sweeper[w].item
  BY <1>0 DEF Fit
<1>1. PICK pc \in {"mark", "refused"} :
      /\ Go(w, pc)
      /\ \/ (Created(i) \/ "disk" \in Trouble) /\ pc = "refused" /\ UNCHANGED run
         \/ ~Created(i) /\ run' = [run EXCEPT ![i] = "fresh"] /\ (pc = "refused" => "disk" \in Trouble)
  BY DEF CreateRun, Item
<1> PICK x : x = [sweeper[w] EXCEPT !.pc = pc]
  OBVIOUS
<1>2. x \in Desks /\ x.pc = pc /\ x.item = i /\ sweeper' = [sweeper EXCEPT ![w] = x]
  BY <1>0, <1>1 DEF Desks, Go
<1>3. CASE UNCHANGED run /\ (Created(i) \/ "disk" \in Trouble) /\ pc = "refused"
  <2>1. Books' /\ ~Orderly
    BY <1>0, <1>3 DEF Books, OneFresh, RowsTrue, LineTrue, IsQueued, Created, Fit, OrderlyDesk, Orderly
  <2>2. Fit(w, x)'
    BY <1>0, <1>2, <1>3, <2>1 DEF Fit, Orderly, Unwithdrawn, Alone
  <2> QED
    BY <1>0, <1>2, <2>1, <2>2, StepInv
<1>4. CASE ~Created(i) /\ run' = [run EXCEPT ![i] = "fresh"] /\ (pc = "refused" => "disk" \in Trouble)
  <2>1. /\ run' \in [Intakes -> Conditions] /\ run'[i] = "fresh" /\ Created(i)'
        /\ \A j \in Intakes : j # i => run'[j] = run[j] /\ (Created(j)' <=> Created(j))
    BY <1>0, <1>4 DEF Books, Conditions, Created
  <2>2. Alone => OneFresh'
    BY <1>0, <2>1 DEF Fit, OneFresh
  <2>3. Orderly => RowsTrue'
    <3> SUFFICES ASSUME Orderly, NEW j \in Intakes
                 PROVE  /\ Created(j)' => intake'[j].status \in {"queued", "started", "withdrawn"}
                        /\ intake'[j].status = "started" => Created(j)'
                        /\ IsQueued(j)' => intake'[j].attempts <= faults'[j]
                        /\ IsQueued(j)' /\ Created(j)' => intake'[j].attempts < MaxAttempts
                        /\ intake'[j].status = "failed" => faults'[j] >= MaxAttempts
      BY DEF RowsTrue
    <3>1. RowsTrue /\ OrderlyDesk(sweeper[w])
      BY <1>0 DEF Books, Fit
    <3>2. CASE j = i
      BY <1>0, <2>1, <3>1, <3>2 DEF RowsTrue, OrderlyDesk, IsQueued
    <3>3. CASE j # i
      BY <1>0, <2>1, <3>1, <3>3 DEF RowsTrue, IsQueued
    <3> QED
      BY <3>2, <3>3
  <2>4. Books'
    BY <1>0, <2>1, <2>2, <2>3 DEF Books, LineTrue
  <2>5. Fit(w, x)'
    BY <1>0, <1>2, <1>4, <2>1 DEF Fit, OrderlyDesk, Orderly, Alone, Unwithdrawn
  <2> QED
    BY <1>0, <1>2, <2>4, <2>5, StepInv
<1> QED
  BY <1>1, <1>3, <1>4

LEMMA MarkStartedInv == ASSUME Inv, NEW w \in Sweepers, MarkStarted(w) PROVE Inv'
<1>0. /\ Books /\ Fit(w, sweeper[w]) /\ sweeper[w].pc = "mark" /\ Go(w, "survey")
      /\ UNCHANGED <<now, org, schedules, hook, nonces, client, saw, run, lock, wakes, crashes, faults>>
  BY DeskFacts DEF MarkStarted, At, QuietRuns
<1> PICK i \in Intakes : i = sweeper[w].item
  BY <1>0 DEF Fit
<1>1. Books'
  <2>1. CASE Settleable(i)
    <3> PICK status \in Statuses : status = "started"
      BY DEF Statuses
    <3> PICK error \in BOOLEAN : error = FALSE
      OBVIOUS
    <3> PICK spent \in {0, 1} : spent = 1
      OBVIOUS
    <3>1. SettleTrigger(i, status, error, spent)
      BY <2>1 DEF MarkStarted, Item
    <3>2. Orderly => Created(i)
      BY <1>0 DEF Fit, OrderlyDesk
    <3>3. faults' \in [Intakes -> Nat] /\ \A j \in Intakes : faults[j] \in Nat /\ faults'[j] = faults[j]
      BY <1>0 DEF Books
    <3>4. \A j \in Intakes : faults'[j] >= faults[j]
      BY <3>3
    <3> QED
      BY <1>0, <2>1, <3>1, <3>2, <3>3, <3>4, SettleBooks DEF Settleable
  <2>2. CASE ~Settleable(i)
    <3>1. UNCHANGED <<intake, line, ahead>>
      BY <2>2 DEF MarkStarted, Item
    <3> QED
      BY <1>0, <3>1 DEF Books, OneFresh, RowsTrue, LineTrue, IsQueued, Created
  <2> QED
    BY <2>1, <2>2
<1> QED
  BY <1>0, <1>1, GoInv

-----------------------------------------------------------------------------
(* Driving the runs, the lock, and what happens from outside *)

\* Runs that only come to rest, or are woken: none is created, none becomes fresh.
RunsMoveOn ==
  /\ run' \in [Intakes -> Conditions]
  /\ \A i \in Intakes : (Created(i)' <=> Created(i)) /\ (run'[i] = "fresh" => run[i] = "fresh")

LEMMA RunsMoveOnBooks ==
  ASSUME Books, RunsMoveOn, QuietQueue, UNCHANGED <<lock, crashes, faults>>, wakes' \in 0 .. MaxWakes
  PROVE  Books'
BY DEF Books, RunsMoveOn, QuietQueue, queueVars, OneFresh, RowsTrue, LineTrue, IsQueued

LEMMA RunsMoveOnDesk ==
  ASSUME RunsMoveOn, QuietQueue, UNCHANGED lock, NEW w \in Sweepers, NEW d \in Desks, Fit(w, d)
  PROVE  Fit(w, d)'
<1>1. UNCHANGED <<intake, ahead, lock>>
  BY DEF QuietQueue, queueVars
<1> QED
  BY <1>1 DEF RunsMoveOn, Fit, OrderlyDesk, Foremen, Turn, StillTrue, IsQueued

LEMMA OneRunMovesOn ==
  ASSUME Books, NEW i \in Intakes, NEW to \in Conditions \ {"none", "fresh"}, Created(i),
         run' = [run EXCEPT ![i] = to]
  PROVE  RunsMoveOn
BY DEF Books, RunsMoveOn, Created

\* A desk that is changed by its sweeper without a look at the queue.
LEMMA PlainDesk ==
  ASSUME NEW w \in Sweepers, NEW x \in Desks, x.pc \in {"idle", "drive"}, Alone /\ x.pc # "idle" => lock = w
  PROVE  Fit(w, x)
BY DEF Fit, OrderlyDesk

LEMMA SurveyInv == ASSUME Inv, NEW w \in Sweepers, Survey(w) PROVE Inv'
<1>0. /\ Books /\ Fit(w, sweeper[w]) /\ Books' /\ sweeper[w].pc = "survey" /\ lock' = lock
  BY DeskFacts, BooksStay DEF Survey, At, QuietRuns
<1> PICK x : x = [Idle EXCEPT !.pc = "drive", !.runs = InFlight]
  OBVIOUS
<1>1. x \in Desks /\ x.pc = "drive"
  BY IdleDesk DEF Idle, Desks, InFlight
<1>2. sweeper' = [sweeper EXCEPT ![w] = x]
  BY DEF Survey
<1>3. Fit(w, x)'
  BY <1>0, <1>1 DEF Fit, OrderlyDesk
<1> QED
  BY <1>0, <1>1, <1>2, <1>3, StepInv

LEMMA RestsInv == ASSUME Inv, NEW w \in Sweepers, Rests(w) PROVE Inv'
<1>0. Books /\ sweeper[w] \in Desks /\ Fit(w, sweeper[w]) /\ sweeper[w].runs \subseteq Intakes
  BY DeskFacts DEF Desks
<1> PICK i \in sweeper[w].runs, rest \in {"waiting", "over"} :
      /\ At(w, "drive")
      /\ run' = [run EXCEPT ![i] = IF run[i] \in Moving THEN rest ELSE run[i]]
      /\ sweeper' = [sweeper EXCEPT ![w].runs = sweeper[w].runs \ {i}]
      /\ QuietQueue /\ UNCHANGED <<lock, wakes, crashes, faults>>
  BY DEF Rests
<1>1. RunsMoveOn
  <2>1. CASE run[i] \in Moving
    <3>1. run' = [run EXCEPT ![i] = rest]
      BY <2>1
    <3>2. Created(i) /\ rest \in Conditions \ {"none", "fresh"}
      BY <2>1 DEF Created, Moving, Conditions
    <3> QED
      BY <1>0, <3>1, <3>2, OneRunMovesOn
  <2>2. CASE run[i] \notin Moving
    <3>1. run' = run
      BY <1>0, <2>2 DEF Books
    <3> QED
      BY <1>0, <3>1 DEF Books, RunsMoveOn, Created
  <2> QED
    BY <2>1, <2>2
<1>2. Books' /\ sweeper[w].pc = "drive" /\ lock' = lock
  <2>1. wakes' \in 0 .. MaxWakes
    BY <1>0 DEF Books
  <2> QED
    BY <1>0, <1>1, <2>1, RunsMoveOnBooks DEF At
<1> PICK x : x = [sweeper[w] EXCEPT !.runs = sweeper[w].runs \ {i}]
  OBVIOUS
<1>3. x \in Desks /\ x.pc = "drive" /\ sweeper' = [sweeper EXCEPT ![w] = x]
  BY <1>0, <1>2 DEF Desks
<1>4. Fit(w, x)'
  BY <1>0, <1>2, <1>3 DEF Fit, OrderlyDesk
<1> QED
  BY <1>2, <1>3, <1>4, StepInv

LEMMA SkipsInv == ASSUME Inv, NEW w \in Sweepers, Skips(w) PROVE Inv'
<1>0. Books /\ sweeper[w] \in Desks /\ Fit(w, sweeper[w]) /\ sweeper[w].runs \subseteq Intakes
  BY DeskFacts DEF Desks
<1> PICK i \in sweeper[w].runs :
      /\ At(w, "drive")
      /\ sweeper' = [sweeper EXCEPT ![w].runs = sweeper[w].runs \ {i}]
      /\ QuietQueue /\ QuietRuns
  BY DEF Skips
<1>1. Books' /\ sweeper[w].pc = "drive" /\ lock' = lock
  BY <1>0, BooksStay DEF At, QuietRuns
<1> PICK x : x = [sweeper[w] EXCEPT !.runs = sweeper[w].runs \ {i}]
  OBVIOUS
<1>2. x \in Desks /\ x.pc = "drive" /\ sweeper' = [sweeper EXCEPT ![w] = x]
  BY <1>0, <1>1 DEF Desks
<1>3. Fit(w, x)'
  BY <1>0, <1>1, <1>2 DEF Fit, OrderlyDesk
<1> QED
  BY <1>1, <1>2, <1>3, StepInv

LEMMA EndPassInv == ASSUME Inv, NEW w \in Sweepers, EndPass(w) PROVE Inv'
<1>1. Books' /\ sweeper[w].pc = "drive" /\ sweeper' = [sweeper EXCEPT ![w] = Idle]
  BY DeskFacts, BooksStay DEF EndPass, At
<1> PICK x : x = Idle
  OBVIOUS
<1>2. x \in Desks /\ x.pc = "idle"
  BY IdleDesk
<1>3. Fit(w, x)'
  BY <1>2 DEF Fit, OrderlyDesk
<1> QED
  BY <1>1, <1>2, <1>3, StepInv

LEMMA CrashInv == ASSUME Inv, NEW w \in Sweepers, Crash(w) PROVE Inv'
<1>0. Books
  BY DeskFacts
<1>1. Books'
  <2>1. crashes' \in 0 .. MaxCrashes
    BY <1>0, SweeperAssumption DEF Crash, Books
  <2>2. lock' \in Services \cup {None}
    BY <1>0 DEF Crash, Books
  <2> QED
    BY <1>0, <2>1, <2>2
       DEF Crash, QuietQueue, queueVars, Books, OneFresh, RowsTrue, LineTrue, IsQueued, Created
<1>2. sweeper[w].pc # "idle" /\ sweeper' = [sweeper EXCEPT ![w] = Idle]
  BY DEF Crash, At
<1> PICK x : x = Idle
  OBVIOUS
<1>3. x \in Desks /\ x.pc = "idle"
  BY IdleDesk
<1>4. Fit(w, x)'
  BY <1>3 DEF Fit, OrderlyDesk
<1> QED
  BY <1>1, <1>2, <1>3, <1>4, StepInv

\* The lock changes hands only while every desk is idle.
LEMMA LockInv == ASSUME Inv, NEW w \in Sweepers, TakeLock(w) \/ Stop(w) PROVE Inv'
<1>0. Books /\ lock \in Services \cup {None} /\ UNCHANGED <<intake, line, run, sweeper>>
  BY DEF Inv, Books, TakeLock, Stop, QuietQueue, queueVars
<1>1. Books'
  <2>1. lock' \in Services \cup {None}
    BY DEF TakeLock, Stop
  <2> QED
    BY <1>0, <2>1
       DEF TakeLock, Stop, QuietQueue, queueVars, Books, OneFresh, RowsTrue, LineTrue, IsQueued, Created
<1>2. ASSUME NEW q \in Sweepers PROVE Fit(q, sweeper[q])'
  <2> PICK d \in Desks : d = sweeper[q]
    BY DEF Inv
  <2>1. Fit(q, d) /\ sweeper'[q] = d
    BY <1>0 DEF Inv
  <2>2. Alone => d.pc = "idle"
    <3>1. q # None
      BY SweeperAssumption DEF Sweepers
    <3> QED
      BY <2>1, <3>1 DEF Fit, TakeLock, Stop, At
  <2>3. Fit(q, d)'
    BY <1>0, <2>1, <2>2 DEF Fit, OrderlyDesk, Orderly, Unwithdrawn, Alone
  <2> QED
    BY <2>1, <2>3
<1> QED
  BY <1>0, <1>1, <1>2 DEF Inv

LEMMA RunsInv == ASSUME Inv, NEW i \in Intakes, DecideRun(i) \/ CancelRun(i) PROVE Inv'
<1>0. /\ Books /\ QuietQueue /\ UNCHANGED <<sweeper, lock, crashes, faults>> /\ wakes' \in 0 .. MaxWakes
  <2>1. wakes \in 0 .. MaxWakes /\ MaxWakes \in Nat
    BY SweeperAssumption DEF Inv, Books
  <2> QED
    BY <2>1 DEF Inv, DecideRun, CancelRun
<1>1. RunsMoveOn
  <2>1. PICK to \in {"woken", "over"} : run' = [run EXCEPT ![i] = to] /\ run[i] \in {"fresh", "woken", "waiting"}
    BY DEF DecideRun, CancelRun, Moving
  <2>2. to \in Conditions \ {"none", "fresh"} /\ Created(i)
    BY <2>1 DEF Created, Conditions
  <2> QED
    BY <1>0, <2>1, <2>2, OneRunMovesOn
<1>2. Books'
  BY <1>0, <1>1, RunsMoveOnBooks
<1>3. ASSUME NEW q \in Sweepers PROVE Fit(q, sweeper[q])'
  <2> PICK d \in Desks : d = sweeper[q]
    BY DEF Inv
  <2>1. Fit(q, d) /\ sweeper'[q] = d
    BY <1>0 DEF Inv
  <2>2. Fit(q, d)'
    BY <1>0, <1>1, <2>1, RunsMoveOnDesk
  <2> QED
    BY <2>1, <2>2
<1> QED
  BY <1>0, <1>2, <1>3 DEF Inv

\* What a sweeper read stands when a request comes in behind it,
LEMMA EnqueueDesk ==
  ASSUME Books, NEW i \in Intakes, NEW w \in Sweepers, NEW d \in Desks, Fit(w, d), UNCHANGED <<run, lock>>,
         intake[i].status = "absent", intake'[i].status = "queued",
         \A j \in Intakes : j # i => intake'[j] = intake[j] /\ ahead'[j] = ahead[j]
  PROVE  Fit(w, d)'
<1>0. d.rows \subseteq Copies /\ d.saw \subseteq Intakes /\ ahead \in [Intakes -> SUBSET Intakes]
  BY DEF Desks, Books
<1>1. ASSUME Unwithdrawn, NEW j \in Intakes, intake[j].status # "absent", NEW a \in ahead[j]
      PROVE  a # i /\ intake'[a] = intake[a]
  <2>1. PICK k \in DOMAIN line : line[k] = j
    BY <1>1 DEF Books, LineTrue
  <2>2. PICK l \in DOMAIN line : line[l] = a
    BY <1>1, <2>1 DEF Books, LineTrue
  <2>3. intake[a].status # "absent" /\ a \in Intakes
    BY <1>0, <1>1, <2>2 DEF Books, LineTrue
  <2> QED
    BY <2>3
<1>2. Unwithdrawn /\ d.pc = "insert" => \A a \in d.saw : intake'[a].status # "absent"
  BY <1>0 DEF Fit
<1>3. Orderly => OrderlyDesk(d)'
  <2> SUFFICES ASSUME Orderly PROVE OrderlyDesk(d)'
    OBVIOUS
  <2>1. OrderlyDesk(d)
    BY DEF Fit
  <2>2. d.pc = "scan" => \A row \in d.rows : StillTrue(row)'
    BY <1>0, <2>1 DEF OrderlyDesk, StillTrue, IsQueued, Copies
  <2>3. d.pc \in {"plan", "create"} => d.item \in Intakes /\ intake'[d.item] = intake[d.item]
    BY <2>1 DEF Fit, OrderlyDesk
  <2> QED
    BY <2>1, <2>2, <2>3 DEF OrderlyDesk, IsQueued, Created
<1>4. Unwithdrawn /\ d.pc = "scan" => Foremen(d.rows)'
  <2> SUFFICES ASSUME Unwithdrawn, d.pc = "scan", NEW row \in d.rows, NEW a \in ahead'[row.id], IsQueued(a)'
               PROVE  \E other \in d.rows : other.id = a /\ other.at < row.at
    BY DEF Foremen
  <2>1. row.id \in Intakes /\ intake[row.id].status # "absent" /\ Foremen(d.rows)
    BY <1>0 DEF Fit, OrderlyDesk, StillTrue, IsQueued, Copies, Unwithdrawn
  <2>2. a \in ahead[row.id]
    BY <2>1
  <2>3. IsQueued(a)
    BY <1>1, <2>1, <2>2 DEF IsQueued
  <2> QED
    BY <2>1, <2>2, <2>3 DEF Foremen
<1>5. Unwithdrawn /\ d.pc \in {"plan", "create"} => Turn(d.item)'
  <2> SUFFICES ASSUME Unwithdrawn, d.pc \in {"plan", "create"}, NEW a \in ahead'[d.item] PROVE ~IsQueued(a)'
    BY DEF Turn
  <2>1. d.item \in Intakes /\ intake[d.item].status # "absent" /\ Turn(d.item)
    BY DEF Fit, OrderlyDesk, Unwithdrawn
  <2>2. a \in ahead[d.item]
    BY <2>1
  <2> QED
    BY <1>1, <2>1, <2>2 DEF Turn, IsQueued
<1>6. Alone => /\ d.pc # "idle" => lock' = w
               /\ d.pc \in {"plan", "create"} => \A j \in Intakes : run'[j] # "fresh"
  BY DEF Fit
<1>7. d.pc \in {"depth", "insert", "plan", "create", "refused", "mark"} => d.item \in Intakes
  BY DEF Fit
<1> QED
  BY <1>2, <1>3, <1>4, <1>5, <1>6, <1>7 DEF Fit, Alone, Orderly, Unwithdrawn

\* and when one that was queued is taken out.
LEMMA WithdrawDesk ==
  ASSUME Books, NEW i \in Intakes, NEW w \in Sweepers, NEW d \in Desks, Fit(w, d), UNCHANGED <<run, lock>>,
         intake'[i].status = "withdrawn", \A j \in Intakes : j # i => intake'[j] = intake[j], ~Unwithdrawn
  PROVE  Fit(w, d)'
<1>1. Orderly => OrderlyDesk(d)'
  <2> SUFFICES ASSUME Orderly PROVE OrderlyDesk(d)'
    OBVIOUS
  <2>1. OrderlyDesk(d) /\ d.rows \subseteq Copies
    BY DEF Fit, Desks
  <2>2. d.pc = "scan" => \A row \in d.rows : StillTrue(row)'
    BY <2>1 DEF OrderlyDesk, StillTrue, IsQueued, Copies
  <2>3. d.pc \in {"plan", "create"} =>
          /\ intake'[d.item].status \in {"queued", "withdrawn"}
          /\ IsQueued(d.item)' => intake'[d.item].attempts < MaxAttempts
    BY <2>1 DEF Fit, OrderlyDesk, IsQueued
  <2> QED
    BY <2>1, <2>2, <2>3 DEF OrderlyDesk, Created
<1> QED
  BY <1>1 DEF Fit, Alone, Orderly, Unwithdrawn

LEMMA InsertInv == ASSUME Inv, NEW c \in Clients, Insert(c), UNCHANGED sweepVars PROVE Inv'
<1> PICK i \in Intakes : i = ClientIntake(c)
  BY ItemsAreIntakes
<1> PICK found \in SUBSET Intakes : found = saw[c]
  BY DEF Inv, Books
<1>0. Books /\ EnqueueTrigger(i, found) /\ UNCHANGED <<now, org, schedules, hook, nonces>> /\ QuietRuns /\ sweeper' = sweeper
  BY DEF Inv, Insert, sweepVars, QuietRuns
<1>1. client' \in [Clients -> {"new", "verified", "asking", "inserting", "accepted", "refused"}]
  BY <1>0 DEF Books, Insert
<1>a. saw' \in [Clients -> SUBSET Intakes] /\ \A b \in Clients : saw'[b] \in SUBSET saw[b]
  BY <1>0 DEF Books, Insert
<1>b. Unwithdrawn => \A a \in found : intake[a].status # "absent"
  BY <1>0 DEF Books, LineTrue
<1>2. /\ Books' /\ UNCHANGED <<run, lock>>
      /\ \/ UNCHANGED <<intake, line, ahead>>
         \/ /\ intake[i].status = "absent" /\ intake'[i].status = "queued"
            /\ \A j \in Intakes : j # i => intake'[j] = intake[j] /\ ahead'[j] = ahead[j]
  BY <1>0, <1>1, <1>a, <1>b, EnqueueBooks
<1>3. ASSUME NEW q \in Sweepers PROVE Fit(q, sweeper[q])'
  <2> PICK d \in Desks : d = sweeper[q]
    BY DEF Inv
  <2>1. Fit(q, d) /\ sweeper'[q] = d
    BY <1>0 DEF Inv
  <2>2. CASE UNCHANGED <<intake, line, ahead>>
    <3>1. Fit(q, d)'
      BY <1>2, <2>1, <2>2 DEF Fit, OrderlyDesk, Foremen, Turn, StillTrue, IsQueued, Created
    <3> QED
      BY <2>1, <3>1
  <2>3. CASE ~UNCHANGED <<intake, line, ahead>>
    <3>1. Fit(q, d)'
      BY <1>0, <1>2, <2>1, <2>3, EnqueueDesk
    <3> QED
      BY <2>1, <3>1
  <2> QED
    BY <2>2, <2>3
<1> QED
  BY <1>0, <1>2, <1>3 DEF Inv

LEMMA WithdrawInv == ASSUME Inv, NEW i \in Intakes, WithdrawIdea(i), UNCHANGED sweepVars PROVE Inv'
<1>0. /\ Books /\ UNCHANGED <<now, org, schedules, hook, nonces, client, saw, run, lock, wakes, crashes, faults>>
      /\ sweeper' = sweeper /\ intake[i].status = "queued" /\ ~Unwithdrawn
  BY DEF Inv, WithdrawIdea, sweepVars, Unwithdrawn, Settleable
<1> PICK status \in Statuses : status = "withdrawn"
  BY DEF Statuses
<1> PICK error \in BOOLEAN : error = TRUE
  OBVIOUS
<1> PICK spent \in {0, 1} : spent = 0
  OBVIOUS
<1>1. SettleTrigger(i, status, error, spent)
  BY DEF WithdrawIdea
<1>2. faults' \in [Intakes -> Nat] /\ \A j \in Intakes : faults[j] \in Nat /\ faults'[j] = faults[j]
  BY <1>0 DEF Books
<1>3. \A j \in Intakes : faults'[j] >= faults[j]
  BY <1>2
<1>4. Books' /\ intake'[i].status = "withdrawn" /\ \A j \in Intakes : j # i => intake'[j] = intake[j]
  BY <1>0, <1>1, <1>2, <1>3, SettleBooks
<1>5. ASSUME NEW q \in Sweepers PROVE Fit(q, sweeper[q])'
  <2> PICK d \in Desks : d = sweeper[q]
    BY DEF Inv
  <2>1. Fit(q, d) /\ sweeper'[q] = d
    BY <1>0 DEF Inv
  <2>2. Fit(q, d)'
    BY <1>0, <1>4, <2>1, WithdrawDesk
  <2> QED
    BY <2>1, <2>2
<1> QED
  BY <1>0, <1>4, <1>5 DEF Inv

\* Whatever else happens outside touches neither a row nor a run.
LEMMA AsideInv ==
  ASSUME Inv, UNCHANGED <<intake, line, ahead>>, UNCHANGED sweepVars,
         now' \in 0 .. MaxTime, org' \in {"active", "suspended"}, hook' \in BOOLEAN,
         schedules' \in [Schedules -> Plans], nonces' \subseteq Deliveries,
         client' \in [Clients -> {"new", "verified", "asking", "inserting", "accepted", "refused"}],
         saw' \in [Clients -> SUBSET Intakes],
         \A c \in Clients : \A a \in saw'[c] : a \in saw[c] \/ intake[a].status # "absent"
  PROVE  Inv'
<1>a. Unwithdrawn => LineTrue'
  <2> SUFFICES ASSUME Unwithdrawn PROVE LineTrue'
    OBVIOUS
  <2>1. LineTrue
    BY DEF Inv, Books
  <2>2. \A c \in Clients : \A a \in saw'[c] : intake'[a].status # "absent"
    BY <2>1 DEF LineTrue
  <2> QED
    BY <2>1, <2>2 DEF LineTrue
<1>1. Books'
  BY <1>a DEF Inv, Books, sweepVars, OneFresh, RowsTrue, IsQueued, Created
<1>2. ASSUME NEW q \in Sweepers PROVE Fit(q, sweeper[q])'
  BY DEF Inv, sweepVars, Fit, OrderlyDesk, Foremen, Turn, StillTrue, IsQueued, Created
<1> QED
  BY <1>1, <1>2 DEF Inv, sweepVars

LEMMA OutsideInv == ASSUME Inv, Outside, UNCHANGED sweepVars PROVE Inv'
<1>0. /\ now \in 0 .. MaxTime /\ org \in {"active", "suspended"} /\ hook \in BOOLEAN
      /\ schedules \in [Schedules -> Plans] /\ nonces \subseteq Deliveries
      /\ client \in [Clients -> {"new", "verified", "asking", "inserting", "accepted", "refused"}]
      /\ saw \in [Clients -> SUBSET Intakes]
  BY DEF Inv, Books
<1>1. CASE Tick
  BY <1>0, <1>1, AsideInv, TimingAssumption DEF Tick
<1>2. ASSUME NEW d \in Deliveries, ReceiveWebhook(d) \/ LookUpTrigger(d) PROVE Inv'
  BY <1>0, <1>2, AsideInv DEF ReceiveWebhook, LookUpTrigger
<1>3. ASSUME NEW r \in Ideas, SubmitIdea(r) PROVE Inv'
  BY <1>0, <1>3, AsideInv DEF SubmitIdea
<1>4. ASSUME NEW c \in Clients, CheckDepth(c) \/ Resend(c) PROVE Inv'
  <2>1. CASE CheckDepth(c)
    <3>1. Present \in SUBSET Intakes /\ \A a \in Present : intake[a].status # "absent"
      BY DEF Present
    <3>2. /\ client' \in [Clients -> {"new", "verified", "asking", "inserting", "accepted", "refused"}]
          /\ saw' \in [Clients -> SUBSET Intakes]
          /\ \A b \in Clients : \A a \in saw'[b] : a \in saw[b] \/ intake[a].status # "absent"
      BY <1>0, <2>1, <3>1 DEF CheckDepth
    <3> QED
      BY <1>0, <2>1, <3>2, AsideInv DEF CheckDepth
  <2>2. CASE Resend(c)
    BY <1>0, <2>2, AsideInv DEF Resend
  <2> QED
    BY <1>4, <2>1, <2>2
<1>5. ASSUME NEW c \in Clients, Insert(c) PROVE Inv'
  BY <1>5, InsertInv
<1>6. ASSUME NEW i \in Intakes, WithdrawIdea(i) PROVE Inv'
  BY <1>6, WithdrawInv
<1>7. ASSUME NEW b \in BOOLEAN, RegisterWebhookTrigger(b) PROVE Inv'
  BY <1>0, <1>7, AsideInv DEF RegisterWebhookTrigger
<1>8. ASSUME NEW s \in Schedules, NEW b \in BOOLEAN, SetScheduleEnabled(s, b) PROVE Inv'
  <2>1. schedules' \in [Schedules -> Plans]
    BY <1>0, <1>8 DEF SetScheduleEnabled, Plans
  <2> QED
    BY <1>0, <1>8, <2>1, AsideInv DEF SetScheduleEnabled
<1>9. ASSUME NEW s \in Schedules, CreateSchedule(s) PROVE Inv'
  <2>1. NextFire(Timing[s], now) \in Nat
    BY <1>0, NextFireLater
  <2> PICK t \in Nat : t = NextFire(Timing[s], now)
    BY <2>1
  <2>2. schedules' = [schedules EXCEPT ![s].next_fire_at = t]
    BY <1>9 DEF CreateSchedule
  <2>3. schedules' \in [Schedules -> Plans]
    BY <1>0, <2>2 DEF Plans
  <2> QED
    BY <1>0, <1>9, <2>3, AsideInv DEF CreateSchedule
<1>10. ASSUME NEW status \in {"active", "suspended"}, SetOrganizationStatus(status) PROVE Inv'
  BY <1>0, <1>10, AsideInv DEF SetOrganizationStatus
<1> QED
  BY <1>1, <1>2, <1>3, <1>4, <1>5, <1>6, <1>7, <1>8, <1>9, <1>10 DEF Outside

-----------------------------------------------------------------------------
(* The invariant *)

LEMMA InitInv == Init => Inv
<1> SUFFICES ASSUME Init PROVE Inv
  OBVIOUS
<1>1. schedules \in [Schedules -> Plans]
  <2>1. \A s \in Schedules : NextFire(Timing[s], 0) \in Nat
    BY NextFireLater
  <2>2. schedules = [s \in Schedules |-> [enabled |-> TRUE, next_fire_at |-> NextFire(Timing[s], 0),
                                          last_fire_at |-> Never]]
    BY DEF Init, QueueInit
  <2>3. \A s \in Schedules : [enabled |-> TRUE, next_fire_at |-> NextFire(Timing[s], 0), last_fire_at |-> Never] \in Plans
    BY <2>1 DEF Plans
  <2> QED
    BY <2>2, <2>3
<1>2. intake \in [Intakes -> Rows] /\ \A i \in Intakes : intake[i].status = "absent"
  BY DEF Init, QueueInit, Absent, Rows
<1>3. run \in [Intakes -> Conditions] /\ \A i \in Intakes : run[i] = "none" /\ ~Created(i)
  BY DEF Init, Conditions, Created
<1>4. /\ line = << >> /\ line \in Seq(Intakes) /\ ahead \in [Intakes -> SUBSET Intakes]
      /\ saw \in [Clients -> SUBSET Intakes] /\ \A c \in Clients : saw[c] = {}
  BY DEF Init, QueueInit
<1>5. Books
  <2>1. OneFresh /\ RowsTrue
    BY <1>2, <1>3 DEF OneFresh, RowsTrue, IsQueued
  <2>2. LineTrue
    BY <1>2, <1>4 DEF LineTrue
  <2> QED
    BY <1>1, <1>2, <1>3, <1>4, <2>1, <2>2, TimingAssumption, SweeperAssumption DEF Init, QueueInit, Books
<1>6. sweeper \in [Sweepers -> Desks] /\ \A w \in Sweepers : Fit(w, sweeper[w])
  BY IdleDesk DEF Init
<1> QED
  BY <1>5, <1>6 DEF Inv

LEMMA PassInv == ASSUME Inv, NEW w \in Sweepers, Pass(w) PROVE Inv'
BY BeginPassInv, ReadSchedulesInv, ClaimDueScheduleInv, CheckFiringDepthInv, InsertFiringInv, ReadQueueInv,
   NothingQueuedInv, GiveUpInv, ConsiderInv, PlanSucceedsInv, PlanFailsInv, PlanIsUnreachableInv, CreateRunInv,
   CreationRefusedInv, MarkStartedInv, SurveyInv, RestsInv, SkipsInv, EndPassInv, Zenon DEF Pass

LEMMA NextInv == Inv /\ [Next]_vars => Inv'
<1> SUFFICES ASSUME Inv, [Next]_vars PROVE Inv'
  OBVIOUS
<1>1. CASE UNCHANGED vars
  <2>1. UNCHANGED sweepVars /\ UNCHANGED queueVars
    BY <1>1 DEF vars
  <2> QED
    BY <2>1, AsideInv DEF queueVars, Inv, Books
<1>2. CASE Next
  BY <1>2, OutsideInv, PassInv, LockInv, CrashInv, RunsInv, Zenon DEF Next
<1> QED
  BY <1>1, <1>2

LEMMA AlwaysInv == Spec => []Inv
BY InitInv, NextInv, PTL DEF Spec

-----------------------------------------------------------------------------
(* The theorems *)

\* The queue's rows, the schedules and the sweepers' working memory keep their types,
\* whoever sweeps and whatever fails (db_triggers.py, scheduler.py).
THEOREM Types == Spec => []TypeOK
<1>1. Inv => TypeOK
  BY DEF Inv, Books, TypeOK
<1> QED
  BY <1>1, AlwaysInv, PTL

\* Strictly serial: with no command beside the supervised loop, at most one of the runs the
\* intake created has not come to rest, through crashes and failing disks (start_queued).
THEOREM Serial == Alone => (Spec => []OneAtATime)
<1> SUFFICES ASSUME Alone PROVE Spec => []OneAtATime
  OBVIOUS
<1>1. Inv => OneAtATime
  <2> SUFFICES ASSUME Inv PROVE OneAtATime
    OBVIOUS
  <2> PICK fresh : fresh = {i \in Intakes : run[i] = "fresh"}
    OBVIOUS
  <2>1. CASE fresh = {}
    BY <2>1, FS_EmptySet DEF OneAtATime
  <2>2. CASE fresh # {}
    <3>1. PICK i \in fresh : TRUE
      BY <2>2
    <3>2. fresh = {i}
      BY <3>1 DEF Inv, Books, OneFresh
    <3>3. Cardinality(fresh) = 1
      BY <3>2, FS_Singleton
    <3> QED
      BY <3>3 DEF OneAtATime
  <2> QED
    BY <2>1, <2>2
<1> QED
  BY <1>1, AlwaysInv, PTL

\* A row that says "started" has its run and a row that says "failed" has none, whatever the
\* sweeper that left the one without the other died of (start_queued, settle_trigger).
THEOREM RowsMatchRuns == Orderly => (Spec => []SettledMatchesRun)
<1> SUFFICES ASSUME Orderly PROVE Spec => []SettledMatchesRun
  OBVIOUS
<1>1. Inv => SettledMatchesRun
  BY DEF Inv, Books, RowsTrue, SettledMatchesRun
<1> QED
  BY <1>1, AlwaysInv, PTL

\* No request is given up on before it has failed as often as it is allowed to, by itself
\* (_mark's spending of attempts, the check of MAX_TRIGGER_ATTEMPTS).
THEOREM ChancesKept == Orderly => (Spec => []AttemptsAreTheRequestsOwn)
<1> SUFFICES ASSUME Orderly PROVE Spec => []AttemptsAreTheRequestsOwn
  OBVIOUS
<1>1. Inv => AttemptsAreTheRequestsOwn
  BY DEF Inv, Books, RowsTrue, AttemptsAreTheRequestsOwn, IsQueued
<1> QED
  BY <1>1, AlwaysInv, PTL

-----------------------------------------------------------------------------
(* The line that is kept *)

LEMMA AnswerFacts ==
  ASSUME NEW i \in Intakes
  PROVE  /\ Created(i) => Answer(i) = "started"
         /\ ~Created(i) =>
              /\ intake[i].status = "absent" => Answer(i) = "unasked"
              /\ intake[i].status = "queued" => Answer(i) = "waiting"
              /\ intake[i].status = "started" => Answer(i) = "started"
              /\ intake[i].status = "failed" => Answer(i) = "abandoned"
              /\ intake[i].status = "withdrawn" => Answer(i) = "withdrawn"
BY DEF Answer, Told

LEMMA AnswersNext ==
  ASSUME NEW i \in Intakes
  PROVE  /\ Created(i)' => Answer(i)' = "started"
         /\ ~Created(i)' =>
              /\ intake'[i].status = "absent" => Answer(i)' = "unasked"
              /\ intake'[i].status = "queued" => Answer(i)' = "waiting"
              /\ intake'[i].status = "failed" => Answer(i)' = "abandoned"
BY DEF Answer, Told

\* A request waits only while its row is queued.
LEMMA WaitingAnswer ==
  ASSUME Books, NEW i \in Intakes, Answer(i) = "waiting"
  PROVE  IsQueued(i)
<1>1. intake[i].status \in {"absent", "queued", "started", "failed", "withdrawn"}
  BY DEF Books, Rows, Statuses
<1> QED
  BY <1>1, AnswerFacts DEF IsQueued

\* A sweeper that moves on by itself, neither to a claimed firing nor into the queue.
OwnPace(w) ==
  /\ \A v \in Sweepers : v # w => sweeper'[v] = sweeper[v]
  /\ sweeper'[w].pc \notin {"depth", "insert"}
  /\ sweeper'[w].moment \in {sweeper[w].moment, now, 0}

LEMMA PassOwnPace ==
  ASSUME Inv, NEW w \in Sweepers, Pass(w),
         ~ClaimDueSchedule(w), ~CheckFiringDepth(w), ~InsertFiring(w)
  PROVE  OwnPace(w)
<1>0. /\ Books /\ sweeper[w] \in Desks /\ Fit(w, sweeper[w]) /\ sweeper \in [Sweepers -> Desks]
      /\ Idle \in Desks
  BY DeskFacts, IdleDesk DEF Inv
<1>1. CASE BeginPass(w)
  BY <1>0, <1>1 DEF OwnPace, BeginPass, Go, Desks
<1>2. CASE ReadSchedules(w)
  BY <1>0, <1>2 DEF OwnPace, ReadSchedules, Desks
<1>3. CASE ReadQueue(w)
  BY <1>0, <1>3 DEF OwnPace, ReadQueue, Desks
<1>4. CASE NothingQueued(w) \/ PlanSucceeds(w) \/ CreateRun(w)
  BY <1>0, <1>4 DEF OwnPace, NothingQueued, PlanSucceeds, CreateRun, Go, Desks
<1>5. CASE GiveUp(w)
  <2>1. sweeper[w].pc = "scan"
    BY <1>5 DEF GiveUp, At
  <2>2. \/ Go(w, "survey")
        \/ \E row : sweeper' = [sweeper EXCEPT ![w].rows = @ \ {row}]
    BY <1>5 DEF GiveUp
  <2> QED
    BY <1>0, <2>1, <2>2 DEF OwnPace, Go, Desks
<1>6. CASE Consider(w)
  BY <1>0, <1>6 DEF OwnPace, Consider, Desks
<1>7. CASE PlanFails(w) \/ PlanIsUnreachable(w) \/ CreationRefused(w) \/ MarkStarted(w)
  BY ZenonT(30), <1>0, <1>7 DEF OwnPace, PlanFails, PlanIsUnreachable, CreationRefused, MarkStarted, MarkFailed,
                    AfterFailure, Go, Desks
<1>8. CASE Survey(w)
  BY <1>0, <1>8 DEF OwnPace, Survey, Idle, Desks
<1>9. CASE Rests(w) \/ Skips(w)
  BY <1>0, <1>9 DEF OwnPace, Rests, Skips, At, Desks
<1>10. CASE EndPass(w)
  BY <1>0, <1>10 DEF OwnPace, EndPass, Idle, Desks
<1> QED
  BY <1>1, <1>2, <1>3, <1>4, <1>5, <1>6, <1>7, <1>8, <1>9, <1>10, Zenon DEF Pass

\* Who is on the way in, and what each saw.
LEMMA AskingMembers ==
  /\ \A x : x \in Asking <=>
       \/ \E c \in Clients : client[c] = "inserting" /\ x = [who |-> ClientIntake(c), ahead |-> saw[c]]
       \/ \E w \in Sweepers : sweeper[w].pc = "insert" /\ x = [who |-> sweeper[w].item, ahead |-> sweeper[w].saw]
  /\ \A x : x \in Asking' <=>
       \/ \E c \in Clients : client'[c] = "inserting" /\ x = [who |-> ClientIntake(c), ahead |-> saw'[c]]
       \/ \E w \in Sweepers : sweeper'[w].pc = "insert" /\ x = [who |-> sweeper'[w].item, ahead |-> sweeper'[w].saw]
BY Zenon DEF Asking, At, Item

\* A step of a sweeper that does not step up to the queue.
LEMMA NobodyAsks ==
  ASSUME UNCHANGED <<client, saw>>, NEW w \in Sweepers,
         \A v \in Sweepers : v # w => sweeper'[v] = sweeper[v], sweeper'[w].pc # "insert"
  PROVE  Asking' \in SUBSET Asking /\ (sweeper[w].pc # "insert" => Asking' = Asking)
<1>1. ASSUME NEW x \in Asking' PROVE x \in Asking
  BY <1>1, AskingMembers
<1>2. ASSUME NEW x \in Asking, sweeper[w].pc # "insert" PROVE x \in Asking'
  BY <1>2, AskingMembers
<1> QED
  BY <1>1, <1>2

\* No answer moves: whoever was on the way in may have left.
Unmoved == Asking' \in SUBSET Asking /\ UNCHANGED <<WaitsFor, Standing>>

LEMMA Quiet ==
  ASSUME \A i \in Intakes :
           /\ Created(i)' <=> Created(i)
           /\ (intake'[i].status = intake[i].status /\ ahead'[i] = ahead[i]) \/ Created(i)
  PROVE  UNCHANGED <<WaitsFor, Standing>>
<1>1. ASSUME NEW i \in Intakes
      PROVE  /\ Answer(i)' = Answer(i)
             /\ (IF Answer(i) = "waiting" THEN ahead[i] ELSE {})' = IF Answer(i) = "waiting" THEN ahead[i] ELSE {}
  <2>1. CASE Created(i)
    <3>1. Answer(i) = "started" /\ Answer(i)' = "started"
      BY <2>1, AnswerFacts, AnswersNext
    <3> QED
      BY <3>1
  <2>2. CASE ~Created(i)
    <3>1. Answer(i)' = Answer(i) /\ ahead'[i] = ahead[i]
      BY <2>2 DEF Answer
    <3> QED
      BY <3>1
  <2> QED
    BY <2>1, <2>2
<1> QED
  BY <1>1 DEF WaitsFor, Standing

\* One answer moves.
LEMMA OneMoves ==
  ASSUME NEW i \in Intakes,
         \A j \in Intakes : j # i => /\ Created(j)' <=> Created(j)
                                     /\ intake'[j] = intake[j] /\ ahead'[j] = ahead[j]
  PROVE  /\ Standing' = [Standing EXCEPT ![i] = Answer(i)']
         /\ WaitsFor' = [WaitsFor EXCEPT ![i] = IF Answer(i)' = "waiting" THEN ahead'[i] ELSE {}]
<1>1. \A j \in Intakes : j # i => Answer(j)' = Answer(j) /\ ahead'[j] = ahead[j]
  BY DEF Answer
<1> QED
  BY <1>1 DEF Standing, WaitsFor

\* What a caller finds at its look is what the promise says had come in.
LEMMA PresentIsIn == ASSUME Books, Orderly PROVE Promised!In = Present
<1>1. ASSUME NEW i \in Intakes PROVE Standing[i] # "unasked" <=> intake[i].status # "absent"
  <2>1. Standing[i] = Answer(i) /\ intake[i].status \in {"absent", "queued", "started", "failed", "withdrawn"}
    BY DEF Standing, Books, Rows, Statuses
  <2>2. Created(i) => intake[i].status # "absent"
    BY DEF Books, RowsTrue
  <2> QED
    BY <2>1, <2>2, AnswerFacts
<1> QED
  BY <1>1 DEF Promised!In, Present

LEMMA Asks ==
  ASSUME Books, Orderly, NEW i \in Intakes, Asking' = Asking \cup {[who |-> i, ahead |-> Present]},
         UNCHANGED <<intake, run, ahead>>
  PROVE  Promised!Ask(i)
<1>1. UNCHANGED <<WaitsFor, Standing>>
  BY Quiet DEF Created
<1> QED
  BY <1>1, PresentIsIn DEF Promised!Ask

\* Somebody on the way in comes in, or finds the request there.
LEMMA EnqueueKeeps ==
  ASSUME Books, Orderly, NEW i \in Intakes, NEW found \in SUBSET Intakes, EnqueueTrigger(i, found), UNCHANGED run,
         [who |-> i, ahead |-> found] \in Asking,
         Asking' \in {Asking, Asking \ {[who |-> i, ahead |-> found]}}
  PROVE  Unmoved \/ \E one \in Asking : Promised!Enter(one)
<1>1. CASE intake[i].status = "absent"
  <2> PICK row : row = [Absent EXCEPT !.status = "queued"]
    OBVIOUS
  <2> PICK one \in Asking : one = [who |-> i, ahead |-> found]
    OBVIOUS
  <2>1. /\ intake' = [intake EXCEPT ![i] = row] /\ intake \in [Intakes -> Rows]
        /\ ahead' = [ahead EXCEPT ![i] = found] /\ ahead \in [Intakes -> SUBSET Intakes]
    BY <1>1 DEF EnqueueTrigger, Books
  <2>2. row.status = "queued"
    BY DEF Absent
  <2>3. /\ intake'[i].status = "queued" /\ ahead'[i] = found
        /\ \A j \in Intakes : j # i => intake'[j] = intake[j] /\ ahead'[j] = ahead[j]
    BY <2>1, <2>2
  <2>4. ~Created(i) /\ \A j \in Intakes : Created(j)' <=> Created(j)
    BY <1>1 DEF Books, RowsTrue, Created
  <2>5. Answer(i) = "unasked" /\ Answer(i)' = "waiting"
    BY <1>1, <2>3, <2>4, AnswerFacts, AnswersNext
  <2>6. Standing' = [Standing EXCEPT ![i] = "waiting"] /\ WaitsFor' = [WaitsFor EXCEPT ![i] = found]
    BY <2>3, <2>4, <2>5, OneMoves
  <2>7. one.who = i /\ one.ahead = found /\ Standing[i] = "unasked"
    BY <2>5 DEF Standing
  <2>8. Promised!Enter(one)
    BY <2>6, <2>7 DEF Promised!Enter
  <2> QED
    BY <2>8
<1>2. CASE intake[i].status # "absent"
  <2>1. UNCHANGED <<intake, ahead, run>>
    BY <1>2 DEF EnqueueTrigger
  <2> QED
    BY <2>1, Quiet DEF Created, Unmoved
<1> QED
  BY <1>1, <1>2

\* It is its turn: nothing waits that its caller had seen.
LEMMA TurnHasCome ==
  ASSUME Books, NEW i \in Intakes, Turn(i)
  PROVE  \A other \in WaitsFor[i] : Standing[other] # "waiting"
<1>1. ASSUME NEW other \in WaitsFor[i] PROVE Standing[other] # "waiting"
  <2>1. other \in ahead[i] /\ other \in Intakes
    BY DEF WaitsFor, Books
  <2> QED
    BY <2>1, WaitingAnswer DEF Turn, Standing
<1> QED
  BY <1>1

LEMMA SettleKeeps ==
  ASSUME Books, NEW i \in Intakes, NEW outcome \in {"started", "abandoned"}, Turn(i),
         Answer(i) = "waiting", Answer(i)' = outcome, Asking' = Asking,
         \A j \in Intakes : j # i => /\ Created(j)' <=> Created(j)
                                     /\ intake'[j] = intake[j] /\ ahead'[j] = ahead[j]
  PROVE  Promised!Settle(i, outcome)
<1>1. Standing' = [Standing EXCEPT ![i] = outcome] /\ WaitsFor' = [WaitsFor EXCEPT ![i] = {}]
  BY OneMoves
<1>2. Standing[i] = "waiting"
  BY DEF Standing
<1> QED
  BY <1>1, <1>2, TurnHasCome DEF Promised!Settle

LEMMA MarkFailedKeeps ==
  ASSUME Books, NEW w \in Sweepers, NEW transient \in BOOLEAN, MarkFailed(w, transient), UNCHANGED run
  PROVE  UNCHANGED <<WaitsFor, Standing>>
<1> PICK row : row = [status |-> "queued", attempts |-> intake[Item(w)].attempts + SpendsAttempt(transient),
                      error |-> TRUE]
  OBVIOUS
<1>1. \A i \in Intakes : intake'[i].status = intake[i].status /\ ahead'[i] = ahead[i]
  <2>1. CASE Settleable(Item(w))
    <3>1. intake' = [intake EXCEPT ![Item(w)] = row] /\ UNCHANGED ahead
      BY <2>1 DEF MarkFailed, SettleTrigger
    <3>2. intake[Item(w)].status = row.status /\ intake \in [Intakes -> Rows]
      BY <2>1 DEF Settleable, Books
    <3> QED
      BY <3>1, <3>2
  <2>2. CASE ~Settleable(Item(w))
    BY <2>2 DEF MarkFailed
  <2> QED
    BY <2>1, <2>2
<1> QED
  BY <1>1, Quiet DEF Created

LEMMA MarkStartedKeeps ==
  ASSUME Inv, Orderly, NEW w \in Sweepers, MarkStarted(w)
  PROVE  UNCHANGED <<WaitsFor, Standing>>
<1>1. /\ Created(Item(w)) /\ run' = run /\ intake \in [Intakes -> Rows]
      /\ ahead \in [Intakes -> SUBSET Intakes]
  BY DEF Inv, Fit, OrderlyDesk, MarkStarted, At, Item, QuietRuns, Books
<1>2. \A i \in Intakes : i # Item(w) => intake'[i] = intake[i] /\ ahead'[i] = ahead[i]
  BY <1>1 DEF MarkStarted, SettleTrigger
<1> QED
  BY <1>1, <1>2, Quiet DEF Created

\* A run comes to a request when its turn has come,
LEMMA CreateRunKeeps ==
  ASSUME Inv, Unwithdrawn, NEW w \in Sweepers, CreateRun(w), Asking' = Asking
  PROVE  \E i \in Intakes : Promised!Settle(i, "started")
<1>0. Books /\ Fit(w, sweeper[w]) /\ sweeper[w].pc = "create"
  BY DeskFacts DEF CreateRun, At
<1> PICK i \in Intakes : i = sweeper[w].item
  BY <1>0 DEF Fit
<1>1. ~Created(i) /\ intake[i].status = "queued" /\ Turn(i) /\ "disk" \notin Trouble
  BY <1>0 DEF Fit, OrderlyDesk, Unwithdrawn, Orderly, Books, LineTrue
<1>2. run' = [run EXCEPT ![i] = "fresh"] /\ UNCHANGED <<intake, ahead>> /\ run \in [Intakes -> Conditions]
  BY <1>0, <1>1 DEF CreateRun, Item, QuietQueue, queueVars, Books
<1>3. Created(i)' /\ \A j \in Intakes : j # i => (Created(j)' <=> Created(j))
  BY <1>2 DEF Created
<1>4. Answer(i) = "waiting" /\ Answer(i)' = "started"
  BY <1>1, <1>3, AnswerFacts, AnswersNext
<1>5. Promised!Settle(i, "started")
  BY <1>0, <1>1, <1>2, <1>3, <1>4, SettleKeeps
<1> QED
  BY <1>5

\* and so does giving up on it.
LEMMA GiveUpKeeps ==
  ASSUME Inv, Unwithdrawn, NEW w \in Sweepers, GiveUp(w), Asking' = Asking
  PROVE  Unmoved \/ \E i \in Intakes : Promised!Settle(i, "abandoned")
<1>0. Books /\ Fit(w, sweeper[w]) /\ sweeper[w].rows \subseteq Copies
  BY DeskFacts
<1> PICK row \in Foremost(w) :
      /\ At(w, "scan") /\ row.attempts >= MaxAttempts
      /\ IF Settleable(row.id)
           THEN SettleTrigger(row.id, "failed", TRUE, 1)
           ELSE UNCHANGED <<intake, line, ahead>>
  BY DEF GiveUp
<1>1. /\ row \in sweeper[w].rows /\ row.id \in Intakes /\ row.at \in Nat /\ row.attempts \in Nat
      /\ \A other \in sweeper[w].rows : row.at <= other.at /\ other.at \in Nat
      /\ sweeper[w].pc = "scan" /\ UNCHANGED run
  BY <1>0 DEF GiveUp, Foremost, Copies, At, QuietRuns
<1>2. CASE ~Settleable(row.id)
  BY <1>1, <1>2, Quiet DEF Created, Unmoved
<1>3. CASE Settleable(row.id)
  <2> PICK i \in Intakes : i = row.id
    BY <1>1
  <2>1. ~Created(i) /\ intake[i].status = "queued"
    <3>1. RowsTrue /\ StillTrue(row) /\ intake[i].attempts \in Nat
      BY <1>0, <1>1 DEF Books, Fit, OrderlyDesk, Unwithdrawn, Rows
    <3> QED
      BY <1>1, <1>3, <3>1, QueueAssumption DEF RowsTrue, StillTrue, IsQueued, Settleable
  <2>2. Turn(i)
    BY <1>0, <1>1 DEF Fit, Foremen, Turn
  <2>3. /\ intake'[i].status = "failed"
        /\ \A j \in Intakes : j # i => intake'[j] = intake[j] /\ ahead'[j] = ahead[j]
    BY <1>0, <1>3 DEF SettleTrigger, Books
  <2>4. ~Created(i)' /\ \A j \in Intakes : Created(j)' <=> Created(j)
    BY <1>1, <2>1 DEF Created
  <2>5. Answer(i) = "waiting" /\ Answer(i)' = "abandoned"
    BY <2>1, <2>3, <2>4, AnswerFacts, AnswersNext
  <2>6. Promised!Settle(i, "abandoned")
    BY <1>0, <2>2, <2>3, <2>4, <2>5, SettleKeeps
  <2> QED
    BY <2>6
<1> QED
  BY <1>2, <1>3

LEMMA PassKeeps ==
  ASSUME Inv, Unwithdrawn, NEW w \in Sweepers, Pass(w)
  PROVE  Promised!Next \/ Unmoved
<1>0. /\ Books /\ run \in [Intakes -> Conditions] /\ sweeper[w].runs \subseteq Intakes /\ Fit(w, sweeper[w])
      /\ sweeper \in [Sweepers -> Desks] /\ sweeper[w] \in Desks /\ Orderly
  BY DEF Inv, Books, Desks, Unwithdrawn
<1>1. CASE CheckFiringDepth(w)
  <2>1. /\ sweeper[w].pc = "depth" /\ sweeper[w].item \in Intakes
        /\ UNCHANGED <<client, saw, intake, run, ahead>>
    BY <1>0, <1>1 DEF CheckFiringDepth, At, Fit, QuietQueue, queueVars, QuietRuns
  <2>2. CASE HasRoom
    <3> PICK x : x = [sweeper[w] EXCEPT !.pc = "insert", !.saw = Present]
      OBVIOUS
    <3>1. x.pc = "insert" /\ x.item = sweeper[w].item /\ x.saw = Present
      BY <1>0 DEF Desks
    <3>2. sweeper'[w] = x /\ \A v \in Sweepers : v # w => sweeper'[v] = sweeper[v]
      BY <1>0, <1>1, <2>2 DEF CheckFiringDepth
    <3> PICK i \in Intakes : i = sweeper[w].item
      BY <2>1
    <3> PICK one : one = [who |-> i, ahead |-> Present]
      OBVIOUS
    <3>3. ASSUME NEW y \in Asking' PROVE y \in Asking \/ y = one
      <4>1. CASE \E c \in Clients : client'[c] = "inserting" /\ y = [who |-> ClientIntake(c), ahead |-> saw'[c]]
        BY <2>1, <4>1, AskingMembers
      <4>2. ASSUME NEW v \in Sweepers, sweeper'[v].pc = "insert",
                   y = [who |-> sweeper'[v].item, ahead |-> sweeper'[v].saw]
            PROVE  y \in Asking \/ y = one
        <5>1. CASE v = w
          BY <3>1, <3>2, <4>2, <5>1
        <5>2. CASE v # w
          BY <3>2, <4>2, <5>2, AskingMembers
        <5> QED
          BY <5>1, <5>2
      <4> QED
        BY <3>3, <4>1, <4>2, AskingMembers
    <3>4. ASSUME NEW y \in Asking PROVE y \in Asking'
      BY <2>1, <3>2, <3>4, AskingMembers
    <3>5. one \in Asking'
      BY <3>1, <3>2, AskingMembers
    <3>6. Asking' = Asking \cup {one}
      BY <3>3, <3>4, <3>5
    <3>7. Promised!Ask(i)
      BY <1>0, <2>1, <3>6, Asks
    <3> QED
      BY <3>7 DEF Promised!Next
  <2>3. CASE ~HasRoom
    <3>1. sweeper'[w].pc = "fire" /\ \A v \in Sweepers : v # w => sweeper'[v] = sweeper[v]
      BY <1>0, <1>1, <2>3 DEF CheckFiringDepth, Go, Desks
    <3> QED
      BY <2>1, <3>1, NobodyAsks, Quiet DEF Unmoved, Created
  <2> QED
    BY <2>2, <2>3
<1>2. CASE InsertFiring(w)
  <2> PICK i \in Intakes, found \in SUBSET Intakes : i = sweeper[w].item /\ found = sweeper[w].saw
    BY <1>0, <1>2 DEF InsertFiring, At, Fit, Desks
  <2> PICK one : one = [who |-> i, ahead |-> found]
    OBVIOUS
  <2>1. /\ EnqueueTrigger(i, found) /\ UNCHANGED <<client, saw, run>> /\ sweeper[w].pc = "insert"
        /\ sweeper'[w].pc = "fire" /\ \A v \in Sweepers : v # w => sweeper'[v] = sweeper[v]
    BY <1>0, <1>2 DEF InsertFiring, Item, At, QuietRuns, Desks
  <2>2. one \in Asking
    BY <2>1, AskingMembers
  <2>3. Asking' \in SUBSET Asking
    BY <2>1, NobodyAsks
  <2>4. ASSUME NEW y \in Asking, y # one PROVE y \in Asking'
    BY <2>1, <2>4, AskingMembers
  <2>5. Asking' \in {Asking, Asking \ {one}}
    BY <2>3, <2>4
  <2>6. Unmoved \/ \E a \in Asking : Promised!Enter(a)
    BY <1>0, <2>1, <2>2, <2>5, EnqueueKeeps
  <2> QED
    BY <2>6 DEF Promised!Next
<1>3. CASE ClaimDueSchedule(w)
  <2>1. UNCHANGED <<client, saw, intake, run, ahead>> /\ sweeper[w].pc = "fire"
    BY <1>3 DEF ClaimDueSchedule, QuietRuns, At
  <2>2. sweeper'[w].pc # "insert" /\ \A v \in Sweepers : v # w => sweeper'[v] = sweeper[v]
    <3>1. \/ \E due, item : sweeper' = [sweeper EXCEPT ![w].due = due, ![w].pc = "depth", ![w].item = item]
          \/ \E due : sweeper' = [sweeper EXCEPT ![w].due = due]
      BY <1>3 DEF ClaimDueSchedule
    <3>2. ASSUME NEW due, NEW item,
                 sweeper' = [sweeper EXCEPT ![w].due = due, ![w].pc = "depth", ![w].item = item]
          PROVE  sweeper'[w].pc # "insert" /\ \A v \in Sweepers : v # w => sweeper'[v] = sweeper[v]
      <4>1. sweeper'[w] = [[[sweeper[w] EXCEPT !.due = due] EXCEPT !.pc = "depth"] EXCEPT !.item = item]
        BY <1>0, <3>2
      <4>2. sweeper'[w].pc = "depth"
        BY <1>0, <4>1 DEF Desks
      <4>3. \A v \in Sweepers : v # w => sweeper'[v] = sweeper[v]
        BY <1>0, <3>2
      <4> QED
        BY <4>2, <4>3
    <3>3. ASSUME NEW due, sweeper' = [sweeper EXCEPT ![w].due = due]
          PROVE  sweeper'[w].pc # "insert" /\ \A v \in Sweepers : v # w => sweeper'[v] = sweeper[v]
      BY <1>0, <2>1, <3>3 DEF Desks
    <3> QED
      BY <3>1, <3>2, <3>3
  <2> QED
    BY <2>1, <2>2, NobodyAsks, Quiet DEF Unmoved, Created
<1>4. CASE ~CheckFiringDepth(w) /\ ~InsertFiring(w) /\ ~ClaimDueSchedule(w)
  <2>1. OwnPace(w)
    BY <1>4, PassOwnPace
  <2>2. UNCHANGED <<client, saw>>
    BY <1>4 DEF Pass, BeginPass, ReadSchedules, ReadQueue, NothingQueued, GiveUp, Consider, PlanSucceeds, PlanFails,
           PlanIsUnreachable, CreateRun, CreationRefused, MarkStarted, Survey, Rests, Skips, EndPass, MarkFailed,
           QuietQueue, queueVars
  <2>3. Asking' \in SUBSET Asking /\ (sweeper[w].pc # "insert" => Asking' = Asking)
    BY <2>1, <2>2, NobodyAsks DEF OwnPace
  <2>4. CASE \/ BeginPass(w) \/ ReadSchedules(w) \/ ReadQueue(w) \/ NothingQueued(w) \/ Consider(w)
             \/ PlanSucceeds(w) \/ Survey(w) \/ Skips(w) \/ EndPass(w)
    <3>1. UNCHANGED <<intake, ahead, run>>
      BY <2>4 DEF BeginPass, ReadSchedules, ReadQueue, NothingQueued, Consider,
                  PlanSucceeds, Survey, Skips, EndPass, QuietQueue, queueVars, QuietRuns
    <3> QED
      BY <2>3, <3>1, Quiet DEF Unmoved, Created
  <2>5. CASE Rests(w)
    <3>1. UNCHANGED <<intake, ahead>> /\ \A i \in Intakes : Created(i)' <=> Created(i)
      BY <1>0, <2>5 DEF Rests, QuietQueue, queueVars, Created, Moving
    <3> QED
      BY <2>3, <3>1, Quiet DEF Unmoved
  <2>6. CASE GiveUp(w)
    <3>1. Asking' = Asking
      BY <2>3, <2>6 DEF GiveUp, At
    <3> QED
      BY <2>6, <3>1, GiveUpKeeps DEF Promised!Next
  <2>7. CASE CreateRun(w)
    <3>1. Asking' = Asking
      BY <2>3, <2>7 DEF CreateRun, At
    <3> QED
      BY <2>7, <3>1, CreateRunKeeps DEF Promised!Next
  <2>8. CASE PlanFails(w) \/ PlanIsUnreachable(w) \/ CreationRefused(w)
    <3>1. PICK transient \in BOOLEAN : MarkFailed(w, transient) /\ UNCHANGED run
      BY <2>8 DEF PlanFails, PlanIsUnreachable, CreationRefused, QuietRuns
    <3> QED
      BY <1>0, <2>3, <3>1, MarkFailedKeeps DEF Unmoved
  <2>9. CASE MarkStarted(w)
    BY <1>0, <2>3, <2>9, MarkStartedKeeps DEF Unmoved
  <2> QED
    BY <1>4, <2>4, <2>5, <2>6, <2>7, <2>8, <2>9, Zenon DEF Pass
<1> QED
  BY <1>1, <1>2, <1>3, <1>4

LEMMA OutsideKeeps ==
  ASSUME Inv, Unwithdrawn, Outside, UNCHANGED sweepVars
  PROVE  Promised!Next \/ Unmoved
<1>0. /\ Books /\ run' = run /\ sweeper' = sweeper /\ Orderly /\ saw \in [Clients -> SUBSET Intakes]
      /\ client \in [Clients -> {"new", "verified", "asking", "inserting", "accepted", "refused"}]
  BY DEF Inv, sweepVars, Unwithdrawn, Books
<1>1. ASSUME NEW c \in Clients, Insert(c) PROVE Promised!Next \/ Unmoved
  <2> PICK i \in Intakes, found \in SUBSET Intakes : i = ClientIntake(c) /\ found = saw[c]
    BY <1>0, ItemsAreIntakes
  <2> PICK one : one = [who |-> i, ahead |-> found]
    OBVIOUS
  <2>1. /\ EnqueueTrigger(i, found) /\ client[c] = "inserting" /\ client'[c] = "accepted"
        /\ \A d \in Clients : d # c => client'[d] = client[d] /\ saw'[d] = saw[d]
    BY <1>0, <1>1 DEF Insert
  <2>2. one \in Asking
    BY <2>1, AskingMembers
  <2>3. ASSUME NEW y \in Asking' PROVE y \in Asking
    BY <1>0, <2>1, <2>3, AskingMembers
  <2>4. ASSUME NEW y \in Asking, y # one PROVE y \in Asking'
    BY <1>0, <2>1, <2>4, AskingMembers
  <2>5. Asking' \in {Asking, Asking \ {one}}
    BY <2>3, <2>4
  <2>6. Unmoved \/ \E a \in Asking : Promised!Enter(a)
    BY <1>0, <2>1, <2>2, <2>5, EnqueueKeeps
  <2> QED
    BY <2>6 DEF Promised!Next
<1>2. ASSUME NEW c \in Clients, CheckDepth(c), HasRoom PROVE Promised!Next
  <2> PICK i \in Intakes : i = ClientIntake(c)
    BY ItemsAreIntakes
  <2> PICK one : one = [who |-> i, ahead |-> Present]
    OBVIOUS
  <2>1. /\ client[c] = "asking" /\ client'[c] = "inserting" /\ saw'[c] = Present
        /\ \A d \in Clients : d # c => client'[d] = client[d] /\ saw'[d] = saw[d]
        /\ UNCHANGED <<intake, run, ahead>>
    BY <1>0, <1>2 DEF CheckDepth
  <2>2. ASSUME NEW y \in Asking' PROVE y \in Asking \/ y = one
    BY <1>0, <2>1, <2>2, AskingMembers
  <2>3. ASSUME NEW y \in Asking PROVE y \in Asking'
    BY <1>0, <2>1, <2>3, AskingMembers
  <2>4. one \in Asking'
    BY <2>1, AskingMembers
  <2>5. Asking' = Asking \cup {one}
    BY <2>2, <2>3, <2>4
  <2>6. Promised!Ask(i)
    BY <1>0, <2>1, <2>5, Asks
  <2> QED
    BY <2>6 DEF Promised!Next
<1>3. CASE ~ \E c \in Clients : Insert(c) \/ (CheckDepth(c) /\ HasRoom)
  <2>1. UNCHANGED <<intake, ahead, saw>>
    BY <1>3 DEF Outside, Unwithdrawn, Tick, ReceiveWebhook, LookUpTrigger, SubmitIdea, CheckDepth, Resend,
                WithdrawIdea, RegisterWebhookTrigger, SetScheduleEnabled, CreateSchedule, SetOrganizationStatus
  <2>2. \A d \in Clients : client'[d] = "inserting" => client[d] = "inserting"
    BY <1>0, <1>3 DEF Outside, Unwithdrawn, Tick, ReceiveWebhook, LookUpTrigger, SubmitIdea, CheckDepth, Resend,
                WithdrawIdea, RegisterWebhookTrigger, SetScheduleEnabled, CreateSchedule, SetOrganizationStatus
  <2>3. ASSUME NEW y \in Asking' PROVE y \in Asking
    BY <1>0, <2>1, <2>2, <2>3, AskingMembers
  <2> QED
    BY <1>0, <2>1, <2>3, Quiet DEF Unmoved, Created
<1> QED
  BY <1>1, <1>2, <1>3

LEMMA StepKeeps ==
  ASSUME Inv, Unwithdrawn, [Next]_vars
  PROVE  Promised!Next \/ UNCHANGED <<Asking, WaitsFor, Standing>>
<1>0. run \in [Intakes -> Conditions] /\ sweeper \in [Sweepers -> Desks]
  BY DEF Inv, Books
<1>1. ASSUME NEW w \in Sweepers, TakeLock(w) \/ Stop(w) \/ Crash(w) PROVE Unmoved
  <2>1. UNCHANGED <<intake, run, ahead, client, saw>>
    BY <1>1 DEF TakeLock, Stop, Crash, QuietQueue, queueVars
  <2>2. \A v \in Sweepers : sweeper'[v] = sweeper[v] \/ sweeper'[v].pc # "insert"
    BY <1>0, <1>1 DEF TakeLock, Stop, Crash, Idle
  <2>3. ASSUME NEW y \in Asking' PROVE y \in Asking
    BY <2>1, <2>2, <2>3, AskingMembers
  <2> QED
    BY <2>1, <2>3, Quiet DEF Unmoved, Created
<1>2. ASSUME NEW i \in Intakes, DecideRun(i) \/ CancelRun(i) PROVE Unmoved
  <2>1. UNCHANGED <<intake, ahead, client, saw, sweeper>> /\ \A j \in Intakes : Created(j)' <=> Created(j)
    BY <1>0, <1>2 DEF DecideRun, CancelRun, QuietQueue, queueVars, Created, Moving
  <2>2. Asking' = Asking
    BY <2>1 DEF Asking, At, Item
  <2> QED
    BY <2>1, <2>2, Quiet DEF Unmoved
<1>3. CASE UNCHANGED vars
  BY <1>3 DEF vars, queueVars, sweepVars, Asking, WaitsFor, Standing, Answer, Created, At, Item
<1>4. CASE Next
  <2>1. Promised!Next \/ Unmoved
    BY <1>1, <1>2, <1>4, PassKeeps, OutsideKeeps, Zenon DEF Next
  <2>2. Unmoved => Promised!Leave
    BY DEF Unmoved, Promised!Leave
  <2> QED
    BY <2>1, <2>2 DEF Promised!Next
<1> QED
  BY <1>3, <1>4

LEMMA InitKeeps == Init => Promised!Init
<1> SUFFICES ASSUME Init PROVE Promised!Init
  OBVIOUS
<1>1. \A i \in Intakes : Answer(i) = "unasked"
  BY AnswerFacts DEF Init, QueueInit, Absent, Created
<1>2. Asking = {}
  BY DEF Init, QueueInit, Asking, At, Idle
<1> QED
  BY <1>1, <1>2 DEF Promised!Init, WaitsFor, Standing

\* With one supervised loop at a time, sound disks and no withdrawals, the rows, the run files
\* and the sweepers that die over them keep what RequestLine promises: a request is started or
\* given up on once, and while none waits that was there when it was asked for (start_queued).
THEOREM LineKept == Unwithdrawn => (Spec => KeepsTheLine)
<1> SUFFICES ASSUME Unwithdrawn PROVE Spec => KeepsTheLine
  OBVIOUS
<1>1. Inv /\ [Next]_vars => [Promised!Next]_<<Asking, WaitsFor, Standing>>
  BY StepKeeps
<1> QED
  BY <1>1, InitKeeps, AlwaysInv, PTL DEF Spec, KeepsTheLine, Promised!Spec

-----------------------------------------------------------------------------
(* How full the queue gets, and how often a schedule fires *)

\* Who has looked at the depth of the queue and not yet acted on it.
Entering == {c \in Clients : client[c] = "inserting"} \cup {w \in Sweepers : sweeper[w].pc = "insert"}

\* The rows and those about to bring one: each of them found room when it looked.
Room == Cardinality(Queued) + Cardinality(Entering) <= Cap + Cardinality(Clients \cup Sweepers)

\* No schedule fired later than now, nor is due again within its interval; nobody is ahead of
\* the clock.
Timely ==
  /\ \A s \in Schedules : schedules[s].last_fire_at # Never =>
       /\ schedules[s].last_fire_at <= now
       /\ Timing[s].kind = "interval" =>
            schedules[s].next_fire_at >= schedules[s].last_fire_at + Timing[s].every
  /\ \A w \in Sweepers : sweeper[w].moment <= now

Measured == Inv /\ Room /\ Timely

\* A step that fires no schedule and lets nobody into the queue.
Ordinary ==
  /\ UNCHANGED <<now, schedules, client>> /\ Queued' \subseteq Queued
  /\ \A v \in Sweepers :
       /\ sweeper'[v].moment \in {sweeper[v].moment, now, 0}
       /\ sweeper'[v].pc = "insert" => sweeper[v].pc = "insert"
       /\ sweeper'[v].pc = "depth" => sweeper[v].pc = "depth"

LEMMA Sizes ==
  /\ IsFiniteSet(Clients \cup Sweepers) /\ IsFiniteSet(Intakes)
  /\ Clients \cap Sweepers = {}
<1>1. IsFiniteSet(Clients) /\ IsFiniteSet(Sweepers)
  BY FiniteAssumption, ProcessAssumption, FS_Union DEF Clients, Sweepers
<1>2. IsFiniteSet(Clients \cup Sweepers)
  BY <1>1, FS_Union
<1>3. Clients \cap Sweepers = {}
  BY ProcessAssumption DEF Clients, Sweepers
<1>4. IsFiniteSet(Intakes)
  <2> DEFINE fired == {IntakeId("schedule", s, t) : s \in Schedules, t \in 0 .. MaxTime}
             asked == {IntakeId("operator", r, 0) : r \in Ideas}
             sent == {IntakeId("webhook", d, 0) : d \in Deliveries}
  <2>1. IsFiniteSet(fired)
    <3>1. IsFiniteSet(Schedules \X (0 .. MaxTime))
      <4>1. 0 \in Int /\ MaxTime \in Int
        BY TimingAssumption
      <4>2. IsFiniteSet(0 .. MaxTime)
        BY <4>1, FS_Interval
      <4> QED
        BY <4>2, FiniteAssumption, FS_Product
    <3> PICK f : f = [p \in Schedules \X (0 .. MaxTime) |-> IntakeId("schedule", p[1], p[2])]
      OBVIOUS
    <3>2. f \in Surjection(Schedules \X (0 .. MaxTime), fired)
      <4>1. \A s \in Schedules, t \in 0 .. MaxTime :
              <<s, t>> \in Schedules \X (0 .. MaxTime) /\ f[<<s, t>>] = IntakeId("schedule", s, t)
        OBVIOUS
      <4>2. \A p \in Schedules \X (0 .. MaxTime) :
              p[1] \in Schedules /\ p[2] \in 0 .. MaxTime /\ f[p] = IntakeId("schedule", p[1], p[2])
        OBVIOUS
      <4>3. f \in [Schedules \X (0 .. MaxTime) -> fired]
        BY <4>2
      <4>4. ASSUME NEW i \in fired
            PROVE  \E p \in Schedules \X (0 .. MaxTime) : f[p] = i
        <5>1. PICK s \in Schedules, t \in 0 .. MaxTime : i = IntakeId("schedule", s, t)
          OBVIOUS
        <5>2. <<s, t>> \in Schedules \X (0 .. MaxTime) /\ f[<<s, t>>] = i
          BY <4>1, <5>1
        <5> HIDE DEF fired
        <5> QED
          BY <5>2
      <4> QED
        BY <4>3, <4>4 DEF Surjection
    <3> QED
      BY <3>1, <3>2, FS_Surjection
  <2>2. IsFiniteSet(asked)
    <3> PICK f : f = [r \in Ideas |-> IntakeId("operator", r, 0)]
      OBVIOUS
    <3>1. f \in Surjection(Ideas, asked)
      BY DEF Surjection
    <3> QED
      BY <3>1, FiniteAssumption, FS_Surjection
  <2>3. IsFiniteSet(sent)
    <3> PICK f : f = [d \in Deliveries |-> IntakeId("webhook", d, 0)]
      OBVIOUS
    <3>1. f \in Surjection(Deliveries, sent)
      BY DEF Surjection
    <3> QED
      BY <3>1, FiniteAssumption, FS_Surjection
  <2>4. Intakes = (fired \cup asked) \cup sent
    BY DEF Intakes
  <2> HIDE DEF fired, asked, sent
  <2>5. IsFiniteSet((fired \cup asked) \cup sent)
    BY <2>1, <2>2, <2>3, FS_Union
  <2> QED
    BY <2>4, <2>5
<1> QED
  BY <1>2, <1>3, <1>4

\* Each of the steps that enter somebody into the queue, or take them off their feet, leaves
\* the sum of the two within what the callers' number allows.
LEMMA RoomKept ==
  ASSUME Room,
         \/ Queued' \subseteq Queued /\ Entering' \subseteq Entering
         \/ Queued' \subseteq Queued /\ HasRoom
         \/ \E i \in Intakes, e \in Entering :
              Queued' \subseteq Queued \cup {i} /\ Entering' \subseteq Entering \ {e}
  PROVE  Room'
<1> DEFINE Everybody == Clients \cup Sweepers
<1>1. /\ IsFiniteSet(Queued) /\ IsFiniteSet(Queued')
      /\ IsFiniteSet(Entering) /\ IsFiniteSet(Entering') /\ Cardinality(Entering') <= Cardinality(Everybody)
      /\ IsFiniteSet(Everybody)
  <2>1. /\ Queued \subseteq Intakes /\ Queued' \subseteq Intakes
        /\ Entering \subseteq Everybody /\ Entering' \subseteq Everybody
    BY DEF Queued, Entering
  <2> QED
    BY <2>1, Sizes, FS_Subset
<1>2. /\ Cardinality(Queued) \in Nat /\ Cardinality(Queued') \in Nat /\ Cardinality(Entering) \in Nat
      /\ Cardinality(Entering') \in Nat /\ Cardinality(Everybody) \in Nat
  BY <1>1, FS_CardinalityType
<1>3. Room' <=> Cardinality(Queued') + Cardinality(Entering') <= Cap + Cardinality(Everybody)
  BY DEF Room
<1>4. Cardinality(Queued) + Cardinality(Entering) <= Cap + Cardinality(Everybody)
  BY DEF Room
<1>5. CASE Queued' \subseteq Queued /\ Entering' \subseteq Entering
  <2>1. Cardinality(Queued') <= Cardinality(Queued) /\ Cardinality(Entering') <= Cardinality(Entering)
    BY <1>1, <1>5, FS_Subset
  <2> HIDE DEF Everybody
  <2> QED
    BY <1>2, <1>3, <1>4, <2>1, QueueAssumption
<1>6. CASE Queued' \subseteq Queued /\ HasRoom
  <2>1. Cardinality(Queued') <= Cardinality(Queued) /\ Cardinality(Queued) <= Cap
    BY <1>1, <1>6, FS_Subset DEF HasRoom
  <2> HIDE DEF Everybody
  <2> QED
    BY <1>1, <1>2, <1>3, <2>1, QueueAssumption
<1>7. ASSUME NEW i \in Intakes, NEW e \in Entering,
             Queued' \subseteq Queued \cup {i}, Entering' \subseteq Entering \ {e}
      PROVE  Room'
  <2>1. /\ IsFiniteSet(Queued \cup {i}) /\ Cardinality(Queued \cup {i}) <= Cardinality(Queued) + 1
        /\ IsFiniteSet(Entering \ {e}) /\ Cardinality(Entering \ {e}) = Cardinality(Entering) - 1
    <3>1. IsFiniteSet(Queued \cup {i})
      BY <1>1, FS_AddElement
    <3>2. Cardinality(Queued \cup {i}) = IF i \in Queued THEN Cardinality(Queued) ELSE Cardinality(Queued) + 1
      BY <1>1, FS_AddElement
    <3>3. IsFiniteSet(Entering \ {e}) /\ Cardinality(Entering \ {e}) = Cardinality(Entering) - 1
      BY <1>1, <1>7, FS_RemoveElement
    <3> QED
      BY <1>2, <3>1, <3>2, <3>3
  <2>2. /\ Cardinality(Queued') <= Cardinality(Queued \cup {i})
        /\ Cardinality(Entering') <= Cardinality(Entering \ {e})
    BY <1>7, <2>1, FS_Subset
  <2>3. Cardinality(Queued \cup {i}) \in Nat
    BY <2>1, FS_CardinalityType
  <2> HIDE DEF Everybody
  <2> QED
    BY <1>2, <1>3, <1>4, <2>1, <2>2, <2>3, QueueAssumption
<1> QED
  BY <1>5, <1>6, <1>7

LEMMA SettleQueued ==
  ASSUME Books, NEW i \in Intakes, NEW status, NEW error, NEW spent, Settleable(i), SettleTrigger(i, status, error, spent)
  PROVE  Queued' \subseteq Queued
BY DEF Books, Settleable, SettleTrigger, Queued

LEMMA OrdinaryKeeps == ASSUME Measured, Ordinary PROVE Room' /\ Timely'
<1>1. Room'
  <2>1. Queued' \subseteq Queued /\ Entering' \subseteq Entering
    BY DEF Ordinary, Entering
  <2> QED
    BY <2>1, RoomKept DEF Measured
<1>2. now \in Nat /\ \A v \in Sweepers : sweeper'[v].moment <= now
  <2>1. now \in Nat
    BY TimingAssumption DEF Measured, Inv, Books
  <2> QED
    BY <2>1 DEF Measured, Timely, Ordinary
<1>3. Timely'
  BY <1>2 DEF Measured, Timely, Ordinary
<1> QED
  BY <1>1, <1>3

LEMMA PassOrdinary ==
  ASSUME Inv, NEW w \in Sweepers, Pass(w),
         ~ClaimDueSchedule(w), ~CheckFiringDepth(w), ~InsertFiring(w)
  PROVE  Ordinary
<1>0. /\ Books /\ sweeper[w] \in Desks /\ Fit(w, sweeper[w]) /\ sweeper \in [Sweepers -> Desks]
      /\ Idle \in Desks
  BY DeskFacts, IdleDesk DEF Inv
<1>1. UNCHANGED <<now, schedules, client>>
  BY DEF Pass, BeginPass, ReadSchedules, ReadQueue, NothingQueued, GiveUp, Consider, PlanSucceeds, PlanFails,
         PlanIsUnreachable, CreateRun, CreationRefused, MarkStarted, Survey, Rests, Skips, EndPass, MarkFailed,
         QuietQueue, queueVars
<1>2. Queued' \subseteq Queued
  <2>1. CASE \/ BeginPass(w) \/ ReadSchedules(w) \/ ReadQueue(w) \/ NothingQueued(w) \/ Consider(w)
             \/ PlanSucceeds(w) \/ CreateRun(w) \/ Survey(w) \/ Rests(w) \/ Skips(w) \/ EndPass(w)
    <3>1. intake' = intake
      BY <2>1 DEF BeginPass, ReadSchedules, ReadQueue, NothingQueued, Consider, PlanSucceeds, CreateRun,
                  Survey, Rests, Skips, EndPass, QuietQueue, queueVars
    <3> QED
      BY <3>1 DEF Queued
  <2>2. CASE GiveUp(w)
    <3>1. PICK row \in Foremost(w) : \/ intake' = intake
                                     \/ Settleable(row.id) /\ SettleTrigger(row.id, "failed", TRUE, 1)
      BY <2>2 DEF GiveUp
    <3>2. row.id \in Intakes
      BY <1>0 DEF Foremost, Desks, Copies
    <3> QED
      BY <1>0, <3>1, <3>2, SettleQueued DEF Queued
  <2>3. CASE PlanFails(w) \/ PlanIsUnreachable(w) \/ CreationRefused(w) \/ MarkStarted(w)
    <3>1. Item(w) \in Intakes
      BY <1>0, <2>3 DEF Fit, Item, PlanFails, PlanIsUnreachable, CreationRefused, MarkStarted, At
    <3>2. \/ intake' = intake
          \/ \E status, error, spent : Settleable(Item(w)) /\ SettleTrigger(Item(w), status, error, spent)
      <4>1. CASE MarkStarted(w)
        BY <4>1 DEF MarkStarted
      <4>2. CASE \E transient : MarkFailed(w, transient)
        BY <4>2 DEF MarkFailed
      <4> QED
        BY <2>3, <4>1, <4>2 DEF PlanFails, PlanIsUnreachable, CreationRefused
    <3> QED
      BY <1>0, <3>1, <3>2, SettleQueued DEF Queued
  <2> QED
    BY <2>1, <2>2, <2>3, Zenon DEF Pass
<1>3. OwnPace(w)
  BY PassOwnPace
<1> QED
  BY <1>1, <1>2, <1>3 DEF OwnPace, Ordinary

\* No sweeper begins its pass anew, and none steps up to the queue.
ClocksStay ==
  \A v \in Sweepers : /\ sweeper'[v].moment = sweeper[v].moment
                      /\ sweeper'[v].pc = "insert" => sweeper[v].pc = "insert"

LEMMA FiringKeeps ==
  ASSUME Measured, NEW w \in Sweepers, ClaimDueSchedule(w) \/ CheckFiringDepth(w) \/ InsertFiring(w)
  PROVE  Room' /\ Timely'
<1>0. /\ Books /\ sweeper[w] \in Desks /\ Fit(w, sweeper[w]) /\ sweeper \in [Sweepers -> Desks]
      /\ sweeper[w].due \subseteq [id : Schedules, next_fire_at : 0 .. MaxTime]
      /\ sweeper[w].moment \in 0 .. MaxTime /\ schedules \in [Schedules -> Plans] /\ now \in 0 .. MaxTime
  BY DeskFacts DEF Measured, Inv, Books
<1>1. CASE ClaimDueSchedule(w)
  <2>1. PICK copy \in sweeper[w].due :
          \/ /\ Claimable(copy.id, sweeper[w].moment)
             /\ schedules' = [schedules EXCEPT ![copy.id].next_fire_at = Following(copy, sweeper[w].moment),
                                               ![copy.id].last_fire_at = sweeper[w].moment]
          \/ UNCHANGED schedules
    BY <1>1 DEF ClaimDueSchedule
  <2>2. /\ UNCHANGED <<now, client, intake>> /\ copy.id \in Schedules /\ sweeper[w].pc = "fire"
    BY <1>0, <1>1 DEF ClaimDueSchedule, At
  <2>3. ClocksStay
    <3>1. \/ \E due, item : sweeper' = [sweeper EXCEPT ![w].due = due, ![w].pc = "depth", ![w].item = item]
          \/ \E due : sweeper' = [sweeper EXCEPT ![w].due = due]
      BY <1>1 DEF ClaimDueSchedule
    <3>2. ASSUME NEW due, NEW item,
                 sweeper' = [sweeper EXCEPT ![w].due = due, ![w].pc = "depth", ![w].item = item]
          PROVE  ClocksStay
      <4>1. sweeper'[w] = [[[sweeper[w] EXCEPT !.due = due] EXCEPT !.pc = "depth"] EXCEPT !.item = item]
        BY <1>0, <3>2
      <4>2. sweeper'[w].moment = sweeper[w].moment /\ sweeper'[w].pc = "depth"
        BY <1>0, <4>1 DEF Desks
      <4>3. \A v \in Sweepers : v # w => sweeper'[v] = sweeper[v]
        BY <1>0, <3>2
      <4> QED
        BY <4>2, <4>3 DEF ClocksStay
    <3>3. ASSUME NEW due, sweeper' = [sweeper EXCEPT ![w].due = due]
          PROVE  ClocksStay
      BY <1>0, <3>3 DEF Desks, ClocksStay
    <3> QED
      BY <3>1, <3>2, <3>3
  <2>4. Queued' = Queued /\ Entering' \subseteq Entering
    BY <2>2, <2>3 DEF Queued, Entering, ClocksStay
  <2>5. Room'
    BY <2>4, RoomKept DEF Measured
  <2>6. ASSUME NEW s \in Schedules, schedules'[s].last_fire_at # Never
        PROVE  /\ schedules'[s].last_fire_at <= now'
               /\ Timing[s].kind = "interval" =>
                    schedules'[s].next_fire_at >= schedules'[s].last_fire_at + Timing[s].every
    <3>1. CASE schedules'[s] = schedules[s]
      BY <2>2, <2>6, <3>1 DEF Measured, Timely
    <3>2. CASE schedules'[s] # schedules[s]
      <4>1. s = copy.id /\ schedules'[s].last_fire_at = sweeper[w].moment
            /\ schedules'[s].next_fire_at = Following(copy, sweeper[w].moment)
        BY <1>0, <2>1, <2>2, <3>2 DEF Plans
      <4>2. Timing[s].kind = "interval" =>
              schedules'[s].next_fire_at = sweeper[w].moment + Timing[s].every
        BY <4>1 DEF Following, NextFire
      <4>3. Timing[s].every \in Nat /\ sweeper[w].moment \in Nat /\ sweeper[w].moment <= now
        BY <1>0, TimingAssumption DEF Measured, Timely
      <4> QED
        BY <2>2, <4>1, <4>2, <4>3
    <3> QED
      BY <3>1, <3>2
  <2> QED
    BY <2>2, <2>3, <2>5, <2>6 DEF Timely, Measured, ClocksStay
<1>2. CASE CheckFiringDepth(w)
  <2>1. UNCHANGED <<now, schedules, client, intake>> /\ sweeper[w].pc = "depth"
    BY <1>2 DEF CheckFiringDepth, QuietQueue, queueVars, At
  <2>2. /\ \A v \in Sweepers : v # w => sweeper'[v] = sweeper[v]
        /\ sweeper'[w].moment = sweeper[w].moment /\ (sweeper'[w].pc = "insert" => HasRoom)
    BY <1>0, <1>2 DEF CheckFiringDepth, Go, Desks
  <2>3. Queued' \subseteq Queued /\ (Entering' \subseteq Entering \/ HasRoom)
    BY <2>1, <2>2 DEF Queued, Entering
  <2>4. Room'
    BY <2>3, RoomKept DEF Measured
  <2> QED
    BY <2>1, <2>2, <2>4 DEF Timely, Measured
<1>3. CASE InsertFiring(w)
  <2>1. /\ UNCHANGED <<now, schedules, client>> /\ sweeper[w].pc = "insert"
        /\ EnqueueTrigger(Item(w), sweeper[w].saw) /\ Item(w) \in Intakes
    BY <1>0, <1>3 DEF InsertFiring, At, Fit, Item
  <2>2. /\ \A v \in Sweepers : v # w => sweeper'[v] = sweeper[v]
        /\ sweeper'[w].moment = sweeper[w].moment /\ sweeper'[w].pc = "fire"
    BY <1>0, <1>3 DEF InsertFiring, Desks
  <2>3. Queued' \subseteq Queued \cup {Item(w)}
    BY <1>0, <2>1 DEF EnqueueTrigger, Queued, Books
  <2>4. w \in Entering /\ Entering' \subseteq Entering \ {w}
    BY <2>1, <2>2, Sizes DEF Entering
  <2>5. Room'
    BY <2>1, <2>3, <2>4, RoomKept DEF Measured
  <2> QED
    BY <2>1, <2>2, <2>5 DEF Timely, Measured
<1> QED
  BY <1>1, <1>2, <1>3

LEMMA OutsideKeepsMeasure == ASSUME Measured, Outside, UNCHANGED sweepVars PROVE Room' /\ Timely'
<1>0. /\ Books /\ now \in 0 .. MaxTime /\ sweeper' = sweeper /\ schedules \in [Schedules -> Plans]
      /\ client \in [Clients -> {"new", "verified", "asking", "inserting", "accepted", "refused"}]
  BY DEF Measured, Inv, Books, sweepVars
<1>1. CASE Tick
  <2>1. UNCHANGED <<schedules, client, intake>> /\ now <= now' /\ now' \in Nat
    BY <1>0, <1>1 DEF Tick
  <2>2. Room'
    BY <1>0, <2>1 DEF Measured, Room, Queued, Entering
  <2>3. (\A w \in Sweepers : sweeper[w].moment \in Nat) /\ now \in Nat
    BY <1>0 DEF Measured, Inv, Desks
  <2>4. \A s \in Schedules : schedules[s].last_fire_at \in Nat \cup {Never}
    BY <1>0 DEF Plans
  <2>5. Timely'
    BY <1>0, <2>1, <2>3, <2>4 DEF Measured, Timely
  <2> QED
    BY <2>2, <2>5
<1>2. ASSUME NEW c \in Clients, \/ c \in Deliveries /\ (ReceiveWebhook(c) \/ LookUpTrigger(c))
                                \/ c \in Ideas /\ SubmitIdea(c)
                                \/ CheckDepth(c) \/ Resend(c)
      PROVE  Room' /\ Timely'
  <2>1. UNCHANGED <<now, schedules, intake>>
    BY <1>2 DEF ReceiveWebhook, LookUpTrigger, SubmitIdea, CheckDepth, Resend
  <2>2. \A x \in Clients : client'[x] = "inserting" => client[x] = "inserting" \/ HasRoom
    BY <1>0, <1>2 DEF ReceiveWebhook, LookUpTrigger, SubmitIdea, CheckDepth, Resend
  <2>3. Queued' \subseteq Queued /\ (Entering' \subseteq Entering \/ HasRoom)
    BY <1>0, <2>1, <2>2 DEF Queued, Entering
  <2> QED
    BY <1>0, <2>1, <2>3, RoomKept DEF Measured, Timely
<1>3. ASSUME NEW c \in Clients, Insert(c)
      PROVE  Room' /\ Timely'
  <2>1. UNCHANGED <<now, schedules>> /\ client[c] = "inserting" /\ EnqueueTrigger(ClientIntake(c), saw[c])
    BY <1>3 DEF Insert
  <2>2. client'[c] = "accepted" /\ \A x \in Clients : x # c => client'[x] = client[x]
    BY <1>0, <1>3 DEF Insert
  <2>3. ClientIntake(c) \in Intakes /\ Queued' \subseteq Queued \cup {ClientIntake(c)}
    BY <1>0, <2>1, ItemsAreIntakes DEF EnqueueTrigger, Queued, Books
  <2>4. c \in Entering /\ Entering' \subseteq Entering \ {c}
    BY <1>0, <2>1, <2>2, Sizes DEF Entering
  <2> QED
    BY <1>0, <2>1, <2>3, <2>4, RoomKept DEF Measured, Timely
<1>4. ASSUME NEW i \in Intakes, WithdrawIdea(i)
      PROVE  Room' /\ Timely'
  <2>1. UNCHANGED <<now, schedules, client>> /\ Queued' \subseteq Queued
    BY <1>0, <1>4, SettleQueued DEF WithdrawIdea
  <2>2. Ordinary
    BY <1>0, <2>1 DEF Ordinary
  <2> QED
    BY <2>2, OrdinaryKeeps
<1>5. CASE \/ \E b \in BOOLEAN : RegisterWebhookTrigger(b)
           \/ \E status \in {"active", "suspended"} : SetOrganizationStatus(status)
  <2>1. UNCHANGED <<now, schedules, client, intake>>
    BY <1>5 DEF RegisterWebhookTrigger, SetOrganizationStatus
  <2>2. Ordinary
    BY <1>0, <2>1 DEF Ordinary, Queued
  <2> QED
    BY <2>2, OrdinaryKeeps
<1>6. ASSUME NEW s \in Schedules, CreateSchedule(s) \/ \E b \in BOOLEAN : SetScheduleEnabled(s, b)
      PROVE  Room' /\ Timely'
  <2>1. UNCHANGED <<now, client, intake>>
    BY <1>6 DEF CreateSchedule, SetScheduleEnabled
  <2>2. Room'
    BY <1>0, <2>1 DEF Measured, Room, Queued, Entering
  <2>3. \A q \in Schedules : /\ schedules'[q].last_fire_at = schedules[q].last_fire_at
                             /\ \/ schedules'[q].next_fire_at = schedules[q].next_fire_at
                                \/ schedules'[q].next_fire_at = NextFire(Timing[q], now)
    BY <1>0, <1>6 DEF CreateSchedule, SetScheduleEnabled, Plans
  <2>4. ASSUME NEW q \in Schedules, schedules[q].last_fire_at # Never, Timing[q].kind = "interval",
               schedules'[q].next_fire_at = NextFire(Timing[q], now)
        PROVE  schedules'[q].next_fire_at >= schedules[q].last_fire_at + Timing[q].every
    <3>1. schedules'[q].next_fire_at = now + Timing[q].every
      BY <2>4 DEF NextFire
    <3>2. /\ schedules[q].last_fire_at <= now /\ schedules[q].last_fire_at \in Nat
          /\ now \in Nat /\ Timing[q].every \in Nat
      BY <1>0, <2>4, TimingAssumption DEF Measured, Timely, Plans
    <3> QED
      BY <3>1, <3>2
  <2>5. Timely'
    BY <1>0, <2>1, <2>3, <2>4 DEF Measured, Timely
  <2> QED
    BY <2>2, <2>5
<1> QED
  BY <1>1, <1>2, <1>3, <1>4, <1>5, <1>6 DEF Outside, Clients

LEMMA MeasuredNext == Measured /\ [Next]_vars => Measured'
<1> SUFFICES ASSUME Measured, [Next]_vars PROVE Room' /\ Timely'
  BY NextInv DEF Measured
<1>1. CASE \/ UNCHANGED vars
           \/ \E w \in Sweepers : TakeLock(w) \/ Stop(w) \/ Crash(w)
           \/ \E i \in Intakes : DecideRun(i) \/ CancelRun(i)
  <2>1. UNCHANGED <<now, schedules, client, intake>>
    BY <1>1 DEF TakeLock, Stop, Crash, DecideRun, CancelRun, QuietQueue, vars, queueVars
  <2>2. \A v \in Sweepers : sweeper'[v] \in {sweeper[v], Idle}
    BY <1>1 DEF TakeLock, Stop, Crash, DecideRun, CancelRun, vars, sweepVars, Measured, Inv
  <2>3. Ordinary
    BY <2>1, <2>2 DEF Ordinary, Queued, Idle
  <2> QED
    BY <2>3, OrdinaryKeeps
<1>2. ASSUME NEW w \in Sweepers, Pass(w)
      PROVE  Room' /\ Timely'
  BY <1>2, PassOrdinary, OrdinaryKeeps, FiringKeeps DEF Measured
<1> QED
  BY <1>1, <1>2, OutsideKeepsMeasure DEF Next

LEMMA MeasuredInit == Init => Measured
<1> SUFFICES ASSUME Init PROVE Room /\ Timely
  BY InitInv DEF Measured
<1>1. Queued = {} /\ Entering = {}
  BY DEF Init, QueueInit, Idle, Absent, Queued, Entering
<1>2. Cardinality(Clients \cup Sweepers) \in Nat
  BY Sizes, FS_CardinalityType
<1> QED
  BY <1>1, <1>2, FS_EmptySet, QueueAssumption DEF Init, QueueInit, Room, Timely, Idle

LEMMA AlwaysMeasured == Spec => []Measured
BY MeasuredInit, MeasuredNext, PTL DEF Spec

\* The queue never outgrows its cap by more than the callers that were between their look at
\* the depth and their insertion, however many there are and whatever is retried (enqueue).
THEOREM QueueStaysBounded == Spec => []QueueBounded
<1>1. Measured => QueueBounded
  <2> SUFFICES ASSUME Room PROVE QueueBounded
    BY DEF Measured
  <2>1. Queued \subseteq Intakes /\ Entering \subseteq Clients \cup Sweepers
    BY DEF Queued, Entering
  <2>2. IsFiniteSet(Queued) /\ IsFiniteSet(Entering)
    BY <2>1, Sizes, FS_Subset
  <2>3. /\ Cardinality(Queued) \in Nat /\ Cardinality(Entering) \in Nat
        /\ Cardinality(Clients \cup Sweepers) \in Nat
    BY <2>2, Sizes, FS_CardinalityType
  <2> QED
    BY <2>3, QueueAssumption DEF Room, QueueBounded
<1> QED
  BY <1>1, AlwaysMeasured, PTL

\* A schedule that fires every so often never fires sooner, whichever sweepers claim its firings,
\* however late, and whoever re-registers it meanwhile (claim_due_schedule, next_fire).
THEOREM FiringsKeepTheirDistance == Spec => FiringsSpaced
<1> DEFINE Rule ==
      \A w \in Sweepers :
        (At(w, "fire") /\ sweeper'[w].pc = "depth")
          => LET s == sweeper'[w].item[2]
                 last == schedules[s].last_fire_at
             IN \/ last = Never \/ Timing[s].kind # "interval"
                \/ schedules'[s].last_fire_at - last >= Timing[s].every
<1>1. Measured /\ [Next]_vars => [Rule]_vars
  <2> SUFFICES ASSUME Measured, [Next]_vars, NEW w \in Sweepers, At(w, "fire"), sweeper'[w].pc = "depth"
               PROVE  LET s == sweeper'[w].item[2]
                          last == schedules[s].last_fire_at
                      IN \/ last = Never \/ Timing[s].kind # "interval"
                         \/ schedules'[s].last_fire_at - last >= Timing[s].every
    OBVIOUS
  <2>0. /\ sweeper[w].pc = "fire" /\ sweeper \in [Sweepers -> Desks] /\ schedules \in [Schedules -> Plans]
        /\ sweeper[w].due \subseteq [id : Schedules, next_fire_at : 0 .. MaxTime] /\ sweeper[w].moment \in Nat
    BY DEF At, Measured, Inv, Books, Desks
  <2>1. ClaimDueSchedule(w)
    <3>1. CASE \/ UNCHANGED vars
               \/ Outside /\ UNCHANGED sweepVars
               \/ \E v \in Sweepers : TakeLock(v) \/ Stop(v) \/ Crash(v)
               \/ \E i \in Intakes : DecideRun(i) \/ CancelRun(i)
      <4>1. sweeper'[w] \in {sweeper[w], Idle}
        BY <2>0, <3>1 DEF TakeLock, Stop, Crash, DecideRun, CancelRun, vars, sweepVars
      <4> QED
        BY <2>0, <4>1 DEF Idle
    <3>2. ASSUME NEW v \in Sweepers, Pass(v), ~ClaimDueSchedule(w)
          PROVE  FALSE
      <4>1. CASE ~ClaimDueSchedule(v) /\ ~CheckFiringDepth(v) /\ ~InsertFiring(v)
        BY <2>0, <3>2, <4>1, PassOrdinary DEF Measured, Ordinary
      <4>2. CASE ClaimDueSchedule(v)
        <5>1. v # w
          BY <3>2, <4>2
        <5>2. sweeper'[w] = sweeper[w]
          BY <2>0, <4>2, <5>1 DEF ClaimDueSchedule
        <5> QED
          BY <2>0, <5>2
      <4>3. CASE CheckFiringDepth(v) \/ InsertFiring(v)
        BY <2>0, <4>3 DEF CheckFiringDepth, InsertFiring, At, Go
      <4> QED
        BY <4>1, <4>2, <4>3
    <3> QED
      BY <3>1, <3>2 DEF Next
  <2>2. PICK copy \in sweeper[w].due :
          /\ Claimable(copy.id, sweeper[w].moment)
          /\ schedules' = [schedules EXCEPT ![copy.id].next_fire_at = Following(copy, sweeper[w].moment),
                                            ![copy.id].last_fire_at = sweeper[w].moment]
          /\ sweeper' = [sweeper EXCEPT ![w].due = sweeper[w].due \ {copy}, ![w].pc = "depth",
                                        ![w].item = IntakeId("schedule", copy.id, copy.next_fire_at)]
    <3>1. PICK copy \in sweeper[w].due :
            IF Claimable(copy.id, sweeper[w].moment)
              THEN /\ schedules' = [schedules EXCEPT ![copy.id].next_fire_at = Following(copy, sweeper[w].moment),
                                                     ![copy.id].last_fire_at = sweeper[w].moment]
                   /\ sweeper' = [sweeper EXCEPT ![w].due = sweeper[w].due \ {copy}, ![w].pc = "depth",
                                                 ![w].item = IntakeId("schedule", copy.id, copy.next_fire_at)]
              ELSE sweeper' = [sweeper EXCEPT ![w].due = sweeper[w].due \ {copy}]
      BY <2>1 DEF ClaimDueSchedule
    <3>2. Claimable(copy.id, sweeper[w].moment)
      BY <2>0, <3>1 DEF Desks
    <3> QED
      BY <3>1, <3>2
  <2> PICK s : s = copy.id
    OBVIOUS
  <2>3. sweeper'[w].item[2] = s
    BY <2>0, <2>2 DEF IntakeId, Desks
  <2>4. s \in Schedules /\ schedules'[s].last_fire_at = sweeper[w].moment
    BY <2>0, <2>2 DEF Plans
  <2>5. schedules[s].next_fire_at <= sweeper[w].moment
    BY <2>2 DEF Claimable
  <2>6. /\ schedules[s].last_fire_at \in Nat \cup {Never} /\ schedules[s].next_fire_at \in Nat
        /\ Timing[s].every \in Nat
    BY <2>0, <2>4, TimingAssumption DEF Plans
  <2>7. schedules[s].last_fire_at # Never /\ Timing[s].kind = "interval" =>
          schedules[s].next_fire_at >= schedules[s].last_fire_at + Timing[s].every
    BY <2>4 DEF Measured, Timely
  <2> QED
    BY <2>0, <2>3, <2>4, <2>5, <2>6, <2>7
<1> QED
  BY <1>1, AlwaysMeasured, PTL DEF Spec, FiringsSpaced

-----------------------------------------------------------------------------
(* What becomes of a request that was taken out before anybody read it *)

\* A write changes a row that is queued, or one that an insertion did not find there.
LEMMA RowWrites ==
  ASSUME Inv, [Next]_vars, NEW i \in Intakes, intake'[i] # intake[i], intake[i].status # "queued"
  PROVE  /\ intake[i].status = "absent"
         /\ \/ \E c \in Clients : Insert(c) /\ ClientIntake(c) = i
            \/ \E w \in Sweepers : InsertFiring(w) /\ Item(w) = i
<1>0. intake \in [Intakes -> Rows]
  BY DEF Inv, Books
<1>1. ASSUME NEW j, NEW found, EnqueueTrigger(j, found)
      PROVE  j = i /\ intake[i].status = "absent"
  BY <1>0, <1>1 DEF EnqueueTrigger
<1>2. ASSUME NEW j, NEW status, NEW error, NEW spent, Settleable(j), SettleTrigger(j, status, error, spent)
      PROVE  FALSE
  <2> PICK row : row = [status |-> status, attempts |-> intake[j].attempts + spent, error |-> error]
    OBVIOUS
  <2>1. intake' = [intake EXCEPT ![j] = row]
    BY <1>2 DEF SettleTrigger
  <2>2. j # i
    BY <1>2 DEF Settleable
  <2> QED
    BY <1>0, <2>1, <2>2
<1>3. ASSUME NEW w \in Sweepers, NEW transient, MarkFailed(w, transient)
      PROVE  FALSE
  <2>1. CASE Settleable(Item(w))
    <3>1. SettleTrigger(Item(w), "queued", TRUE, SpendsAttempt(transient))
      BY <1>3, <2>1 DEF MarkFailed
    <3> QED
      BY <1>2, <2>1, <3>1
  <2>2. CASE ~Settleable(Item(w))
    BY <1>3, <2>2 DEF MarkFailed
  <2> QED
    BY <2>1, <2>2
<1>4. ASSUME NEW w \in Sweepers, Pass(w)
      PROVE  InsertFiring(w) /\ Item(w) = i /\ intake[i].status = "absent"
  <2>1. CASE GiveUp(w)
    <3>1. PICK row \in Foremost(w) : \/ intake' = intake
                                     \/ Settleable(row.id) /\ SettleTrigger(row.id, "failed", TRUE, 1)
      BY <2>1 DEF GiveUp
    <3> QED
      BY <1>2, <3>1
  <2>2. CASE MarkStarted(w)
    <3>1. \/ intake' = intake
          \/ Settleable(Item(w)) /\ SettleTrigger(Item(w), "started", FALSE, 1)
      BY <2>2 DEF MarkStarted
    <3> QED
      BY <1>2, <3>1
  <2>3. CASE PlanFails(w) \/ PlanIsUnreachable(w) \/ CreationRefused(w)
    BY <1>3, <2>3 DEF PlanFails, PlanIsUnreachable, CreationRefused
  <2>4. CASE InsertFiring(w)
    BY <1>1, <2>4 DEF InsertFiring
  <2>5. CASE \/ BeginPass(w) \/ ReadSchedules(w) \/ ClaimDueSchedule(w) \/ CheckFiringDepth(w) \/ ReadQueue(w)
             \/ NothingQueued(w) \/ Consider(w) \/ PlanSucceeds(w) \/ CreateRun(w) \/ Survey(w) \/ Rests(w)
             \/ Skips(w) \/ EndPass(w)
    BY <2>5 DEF BeginPass, ReadSchedules, ClaimDueSchedule, CheckFiringDepth, ReadQueue, NothingQueued, Consider,
                PlanSucceeds, CreateRun, Survey, Rests, Skips, EndPass, QuietQueue, queueVars
  <2> QED
    BY <1>4, <2>1, <2>2, <2>3, <2>4, <2>5, Zenon DEF Pass
<1>5. CASE Outside
  <2>1. ASSUME NEW c \in Clients, Insert(c)
        PROVE  ClientIntake(c) = i /\ intake[i].status = "absent"
    BY <1>1, <2>1 DEF Insert
  <2>2. ASSUME NEW j \in Intakes, WithdrawIdea(j)
        PROVE  FALSE
    BY <1>2, <2>2 DEF WithdrawIdea
  <2>3. CASE (\A c \in Clients : ~Insert(c)) /\ \A j \in Intakes : ~WithdrawIdea(j)
    <3>1. UNCHANGED intake
      BY <1>5, <2>3 DEF Outside, Tick, ReceiveWebhook, LookUpTrigger, SubmitIdea, CheckDepth, Resend,
                        RegisterWebhookTrigger, SetScheduleEnabled, CreateSchedule, SetOrganizationStatus
    <3> QED
      BY <3>1
  <2> QED
    BY <2>1, <2>2, <2>3
<1>6. CASE \/ UNCHANGED vars
           \/ \E w \in Sweepers : TakeLock(w) \/ Stop(w) \/ Crash(w)
           \/ \E j \in Intakes : DecideRun(j) \/ CancelRun(j)
  BY <1>6 DEF vars, TakeLock, Stop, Crash, DecideRun, CancelRun, QuietQueue, queueVars
<1> QED
  BY <1>4, <1>5, <1>6 DEF Next

\* So nothing brings a withdrawn row back.
LEMMA WithdrawnRowStays ==
  ASSUME Inv, [Next]_vars, NEW i \in Intakes, intake[i].status = "withdrawn"
  PROVE  intake'[i].status = "withdrawn"
<1>1. intake'[i] = intake[i]
  BY RowWrites
<1> QED
  BY <1>1

\* A run is only made of the request in hand.
LEMMA NoRunOfTheUnread ==
  ASSUME Inv, [Next]_vars, NEW i \in Intakes, OutOfTheLine(i)
  PROVE  ~Created(i)'
<1>0. run \in [Intakes -> Conditions] /\ run[i] = "none"
  BY DEF Inv, Books, OutOfTheLine, Created
<1>1. ASSUME NEW w \in Sweepers, CreateRun(w)
      PROVE  run'[i] = run[i]
  <2>1. Item(w) # i
    BY <1>1 DEF OutOfTheLine, InHand, CreateRun, At
  <2> QED
    BY <1>0, <1>1, <2>1 DEF CreateRun
<1>2. ASSUME NEW w \in Sweepers, Rests(w)
      PROVE  run'[i] = run[i]
  BY <1>0, <1>2 DEF Rests, Moving
<1>3. ASSUME NEW w \in Sweepers, Pass(w), ~CreateRun(w), ~Rests(w)
      PROVE  run'[i] = run[i]
  BY <1>3 DEF Pass, BeginPass, ReadSchedules, ClaimDueSchedule, CheckFiringDepth, InsertFiring, ReadQueue,
              NothingQueued, GiveUp, Consider, PlanSucceeds, PlanFails, PlanIsUnreachable, CreationRefused,
              MarkStarted, Survey, Skips, EndPass, QuietRuns
<1>4. ASSUME NEW j \in Intakes, DecideRun(j) \/ CancelRun(j)
      PROVE  run'[i] = run[i]
  BY <1>0, <1>4 DEF DecideRun, CancelRun, Moving
<1>5. ASSUME \/ UNCHANGED vars
             \/ UNCHANGED sweepVars
             \/ \E w \in Sweepers : TakeLock(w) \/ Stop(w) \/ Crash(w)
      PROVE  run'[i] = run[i]
  BY <1>5 DEF vars, sweepVars, TakeLock, Stop, Crash
<1>6. run'[i] = run[i]
  BY <1>1, <1>2, <1>3, <1>4, <1>5 DEF Next
<1> QED
  BY <1>0, <1>6 DEF Created

\* A sweeper's step is its own.
LEMMA DesksApart ==
  ASSUME Inv, NEW w \in Sweepers, Pass(w), NEW v \in Sweepers, w # v
  PROVE  sweeper'[v] = sweeper[v]
BY DEF Inv, Pass, BeginPass, ReadSchedules, ClaimDueSchedule, CheckFiringDepth, InsertFiring, ReadQueue,
       NothingQueued, GiveUp, Consider, PlanSucceeds, PlanFails, PlanIsUnreachable, CreateRun, CreationRefused,
       MarkStarted, Survey, Rests, Skips, EndPass, MarkFailed, Go

\* A sweeper takes up what it reads in the queue, and the queue shows no withdrawn row.
LEMMA NobodyTakesItUp ==
  ASSUME Inv, [Next]_vars, NEW i \in Intakes, OutOfTheLine(i), NEW v \in Sweepers
  PROVE  i \notin InHand(v)'
<1>0. /\ sweeper \in [Sweepers -> Desks] /\ sweeper[v] \in Desks /\ i \notin InHand(v)
      /\ intake[i].status = "withdrawn"
  BY DEF Inv, OutOfTheLine
<1> DEFINE Reads(d) == \/ d.pc = "scan" /\ \E row \in d.rows : row.id = i
                       \/ d.pc \in {"plan", "create", "refused", "mark"} /\ d.item = i
<1>1. ~Reads(sweeper[v]) /\ (~Reads(sweeper'[v]) => i \notin InHand(v)')
  BY <1>0 DEF InHand, Item
<1>2. ASSUME NEW w \in Sweepers, Pass(w), w # v
      PROVE  sweeper'[v] = sweeper[v]
  BY <1>2, DesksApart
<1>3. CASE ReadQueue(v)
  <2> PICK x : x = [sweeper[v] EXCEPT !.pc = "scan",
                      !.rows = {[at |-> k, id |-> line[k], attempts |-> intake[line[k]].attempts] :
                                   k \in QueuedTriggers(LookAhead)}]
    OBVIOUS
  <2>1. sweeper'[v] = x
    BY <1>0, <1>3 DEF ReadQueue
  <2>2. \A k \in QueuedTriggers(LookAhead) : line[k] # i
    BY <1>0 DEF QueuedTriggers, Waiting
  <2>3. x.pc = "scan" /\ \A row \in x.rows : row.id # i
    BY <1>0, <2>2 DEF Desks
  <2> QED
    BY <1>1, <2>1, <2>3
<1>4. CASE Consider(v)
  <2>1. PICK row \in Foremost(v) :
          /\ At(v, "scan")
          /\ sweeper' = [sweeper EXCEPT ![v].item = row.id, ![v].rows = sweeper[v].rows \ {row},
                           ![v].pc = IF Adoptable(row.id) THEN "mark"
                                     ELSE IF Held THEN "survey" ELSE "plan"]
    BY <1>4 DEF Consider
  <2>2. row.id # i
    BY <1>1, <2>1 DEF At, Foremost
  <2>3. sweeper'[v].item = row.id /\ sweeper'[v].pc # "scan"
    BY <1>0, <2>1 DEF Desks
  <2> QED
    BY <1>1, <2>2, <2>3
<1>5. CASE GiveUp(v)
  <2>1. /\ sweeper[v].pc = "scan"
        /\ \/ Go(v, "survey")
           \/ \E row : sweeper' = [sweeper EXCEPT ![v].rows = sweeper[v].rows \ {row}]
    BY <1>5 DEF GiveUp, At
  <2>2. sweeper'[v].pc = "survey" \/ (sweeper'[v].pc = "scan" /\ sweeper'[v].rows \subseteq sweeper[v].rows)
    BY <1>0, <2>1 DEF Go, Desks
  <2> QED
    BY <1>1, <2>1, <2>2
<1>6. CASE PlanSucceeds(v) \/ CreateRun(v)
  <2>1. /\ sweeper[v].pc \in {"plan", "create"} /\ sweeper'[v].item = sweeper[v].item
        /\ sweeper'[v].pc \in {"create", "refused", "mark"}
    BY <1>0, <1>6 DEF PlanSucceeds, CreateRun, At, Go, Desks
  <2> QED
    BY <1>1, <2>1
<1>7. CASE \/ BeginPass(v) \/ ReadSchedules(v) \/ ClaimDueSchedule(v) \/ CheckFiringDepth(v) \/ InsertFiring(v)
           \/ NothingQueued(v) \/ PlanFails(v) \/ PlanIsUnreachable(v) \/ CreationRefused(v) \/ MarkStarted(v)
           \/ Survey(v) \/ Rests(v) \/ Skips(v) \/ EndPass(v) \/ Crash(v)
  <2> DEFINE Elsewhere == sweeper'[v].pc \notin {"scan", "plan", "create", "refused", "mark"}
  <2>1. ASSUME Go(v, "survey")
        PROVE  Elsewhere
    BY <1>0, <2>1 DEF Go, Desks
  <2>2. ASSUME \/ NothingQueued(v) \/ PlanFails(v) \/ PlanIsUnreachable(v) \/ CreationRefused(v) \/ MarkStarted(v)
        PROVE  Elsewhere
    <3>1. Go(v, "survey")
      BY <2>2 DEF NothingQueued, PlanFails, PlanIsUnreachable, CreationRefused, MarkStarted, MarkFailed, AfterFailure
    <3> QED
      BY <2>1, <3>1
  <2>10. ASSUME CheckFiringDepth(v) \/ InsertFiring(v) PROVE Elsewhere
    BY <1>0, <2>10 DEF CheckFiringDepth, InsertFiring, Go, Desks
  <2>3. ASSUME BeginPass(v) PROVE Elsewhere
    BY <1>0, <2>3 DEF BeginPass, Go, Desks
  <2>4. ASSUME ReadSchedules(v) PROVE Elsewhere
    BY <1>0, <2>4 DEF ReadSchedules, Desks
  <2>5. ASSUME ClaimDueSchedule(v) PROVE Elsewhere
    BY <1>0, <2>5 DEF ClaimDueSchedule, At, Desks
  <2>6. ASSUME Survey(v) PROVE Elsewhere
    BY <1>0, <2>6 DEF Survey, Idle, Desks
  <2>7. ASSUME EndPass(v) \/ Crash(v) PROVE Elsewhere
    BY <1>0, <2>7, IdleDesk DEF EndPass, Crash
  <2>8. ASSUME Rests(v) \/ Skips(v)
        PROVE  Elsewhere
    BY <1>0, <2>8 DEF Rests, Skips, At, Desks
  <2>9. Elsewhere
    BY <1>7, <2>2, <2>3, <2>4, <2>5, <2>6, <2>7, <2>8, <2>10
  <2> QED
    BY <1>1, <2>9
<1>8. CASE \/ UNCHANGED vars
           \/ UNCHANGED sweepVars
           \/ \E w \in Sweepers : TakeLock(w) \/ Stop(w)
           \/ \E w \in Sweepers : w # v /\ Crash(w)
           \/ \E j \in Intakes : DecideRun(j) \/ CancelRun(j)
  <2>1. sweeper'[v] = sweeper[v]
    BY <1>0, <1>8 DEF vars, sweepVars, TakeLock, Stop, Crash, DecideRun, CancelRun
  <2> QED
    BY <1>1, <2>1
<1>9. CASE \E w \in Sweepers : w # v /\ Pass(w)
  BY <1>1, <1>2, <1>9
<1> QED
  BY <1>3, <1>4, <1>5, <1>6, <1>7, <1>8, <1>9, Zenon DEF Next, Pass

\* Once a request is withdrawn and no sweeper has it in hand, nothing starts it any more: not
\* its caller sending it again, nor a sweeper that comes late or dies (withdraw_idea, enqueue,
\* settle_trigger), with any number of callers and sweepers.
THEOREM WithdrawalsAreFinal == Spec => WithdrawalIsFinal
<1>1. Inv /\ [Next]_vars => [\A i \in Intakes : OutOfTheLine(i) => OutOfTheLine(i)']_vars
  <2> SUFFICES ASSUME Inv, [Next]_vars, NEW i \in Intakes, OutOfTheLine(i)
               PROVE  OutOfTheLine(i)'
    OBVIOUS
  <2>1. intake'[i].status = "withdrawn" /\ ~Created(i)'
    BY WithdrawnRowStays, NoRunOfTheUnread DEF OutOfTheLine
  <2>2. \A v \in Sweepers : i \notin InHand(v)'
    BY NobodyTakesItUp
  <2> QED
    BY <2>1, <2>2 DEF OutOfTheLine
<1> QED
  BY <1>1, AlwaysInv, PTL DEF Spec, WithdrawalIsFinal

-----------------------------------------------------------------------------
(* What a claimed firing brings, with one supervised loop at a time *)

\* The times a sweeper is to fire at have passed, no row tells of them, and each schedule has one.
\* The one it has claimed is behind its schedule.
Firings(d) ==
  /\ \A copy \in d.due :
       /\ copy.next_fire_at <= d.moment
       /\ intake[IntakeId("schedule", copy.id, copy.next_fire_at)].status = "absent"
       /\ \A other \in d.due : other.id = copy.id => other = copy
  /\ d.pc \in {"depth", "insert"} =>
       \E s \in Schedules, t \in 0 .. MaxTime :
         /\ d.item = IntakeId("schedule", s, t) /\ intake[d.item].status = "absent"
         /\ t <= d.moment /\ t < schedules[s].next_fire_at
         /\ \A copy \in d.due : copy.id # s

\* A schedule's rows tell of times that have passed and that it has moved on from.
Fired ==
  /\ \A s \in Schedules, t \in 0 .. MaxTime :
       intake[IntakeId("schedule", s, t)].status # "absent" => t < schedules[s].next_fire_at /\ t <= now
  /\ \A w \in Sweepers : sweeper[w].pc \in {"fire", "depth", "insert"} => Firings(sweeper[w])

\* Schedules and the clock only go forward, and no firing is recorded.
NothingFires ==
  /\ now <= now' /\ now' \in Nat
  /\ \A s \in Schedules : \/ schedules'[s].next_fire_at = schedules[s].next_fire_at
                          \/ schedules'[s].next_fire_at > now /\ schedules'[s].next_fire_at \in Nat
  /\ \A s \in Schedules, t \in 0 .. MaxTime :
       intake[IntakeId("schedule", s, t)].status = "absent" =>
         intake'[IntakeId("schedule", s, t)].status = "absent"

\* A desk that goes on with the firings it had, or with something else.
SameFirings(d, e) ==
  e.pc \in {"fire", "depth", "insert"} =>
    /\ d.pc \in {"fire", "depth", "insert"} /\ e.due = d.due /\ e.moment = d.moment
    /\ e.pc \in {"depth", "insert"} => d.pc \in {"depth", "insert"} /\ e.item = d.item

LEMMA FiringsStay ==
  ASSUME Measured, Fired, NothingFires, \A w \in Sweepers : SameFirings(sweeper[w], sweeper'[w])
  PROVE  Fired'
<1>0. /\ sweeper \in [Sweepers -> Desks] /\ schedules \in [Schedules -> Plans] /\ now \in Nat
      /\ \A w \in Sweepers : sweeper[w].moment <= now
  BY DEF Measured, Inv, Books, Timely
<1>1. ASSUME NEW s \in Schedules, NEW t \in 0 .. MaxTime,
             intake'[IntakeId("schedule", s, t)].status # "absent"
      PROVE  t < schedules'[s].next_fire_at /\ t <= now'
  <2>1. t < schedules[s].next_fire_at /\ t <= now
    BY <1>1 DEF Fired, NothingFires
  <2> QED
    BY <1>0, <2>1 DEF NothingFires
<1>2. ASSUME NEW w \in Sweepers, sweeper'[w].pc \in {"fire", "depth", "insert"}
      PROVE  Firings(sweeper[w])'
  <2> PICK d : d = sweeper[w]
    OBVIOUS
  <2> PICK e : e = sweeper'[w]
    OBVIOUS
  <2>1. SameFirings(d, e) /\ Firings(d) /\ d \in Desks /\ d.moment \in Nat /\ d.moment <= now
    BY <1>0, <1>2 DEF SameFirings, Fired, Desks
  <2>2. e.due = d.due /\ e.moment = d.moment /\ d.due \subseteq [id : Schedules, next_fire_at : 0 .. MaxTime]
    BY <1>2, <2>1 DEF SameFirings, Desks
  <2>3. \A copy \in e.due :
          /\ copy.next_fire_at <= e.moment
          /\ intake'[IntakeId("schedule", copy.id, copy.next_fire_at)].status = "absent"
          /\ \A other \in e.due : other.id = copy.id => other = copy
    BY <2>1, <2>2 DEF Firings, NothingFires
  <2>4. ASSUME e.pc \in {"depth", "insert"}
        PROVE  \E s \in Schedules, t \in 0 .. MaxTime :
                 /\ e.item = IntakeId("schedule", s, t) /\ intake'[e.item].status = "absent"
                 /\ t <= e.moment /\ t < schedules'[s].next_fire_at
                 /\ \A copy \in e.due : copy.id # s
    <3>1. e.item = d.item /\ d.pc \in {"depth", "insert"}
      BY <1>2, <2>1, <2>4 DEF SameFirings
    <3>2. PICK s \in Schedules, t \in 0 .. MaxTime :
            /\ d.item = IntakeId("schedule", s, t) /\ intake[d.item].status = "absent"
            /\ t <= d.moment /\ t < schedules[s].next_fire_at
            /\ \A copy \in d.due : copy.id # s
      BY <2>1, <3>1 DEF Firings
    <3>3. t < schedules'[s].next_fire_at
      BY <1>0, <2>1, <3>2 DEF NothingFires
    <3>4. intake'[d.item].status = "absent"
      BY <3>2 DEF NothingFires
    <3> QED
      BY <2>2, <3>1, <3>2, <3>3, <3>4
  <2>5. Firings(e)'
    BY <2>3, <2>4 DEF Firings
  <2> QED
    BY <2>5
<1> QED
  BY <1>1, <1>2 DEF Fired

\* Under the lock, who else sweeps is idle.
LEMMA OthersIdle ==
  ASSUME Inv, Alone, NEW w \in Sweepers, sweeper[w].pc # "idle", NEW v \in Sweepers, v # w
  PROVE  sweeper[v].pc = "idle"
BY DEF Inv, Fit

\* A schedule that is read has moved on from all it fired.
LEMMA ReadSchedulesFires ==
  ASSUME Measured, Alone, Fired, NEW w \in Sweepers, ReadSchedules(w)
  PROVE  Fired'
<1>0. /\ sweeper \in [Sweepers -> Desks] /\ schedules \in [Schedules -> Plans]
      /\ sweeper[w].pc = "schedules" /\ UNCHANGED <<now, schedules, intake>>
  BY DEF Measured, Inv, Books, ReadSchedules, At, QuietQueue, queueVars
<1> DEFINE Due == {[id |-> s, next_fire_at |-> schedules[s].next_fire_at] :
                     s \in {s \in Schedules : /\ schedules[s].enabled
                                              /\ schedules[s].next_fire_at <= sweeper[w].moment}}
<1> PICK x : x = [sweeper[w] EXCEPT !.pc = "fire", !.due = Due]
  OBVIOUS
<1>1. sweeper' = [sweeper EXCEPT ![w] = x]
  BY DEF ReadSchedules
<1>2. x.pc = "fire" /\ x.due = Due /\ x.moment = sweeper[w].moment /\ x.moment \in 0 .. MaxTime
  BY <1>0 DEF Desks
<1>3. ASSUME NEW copy \in Due
      PROVE  /\ copy.next_fire_at <= x.moment
             /\ intake[IntakeId("schedule", copy.id, copy.next_fire_at)].status = "absent"
             /\ \A other \in Due : other.id = copy.id => other = copy
  <2>1. PICK s \in Schedules : /\ schedules[s].next_fire_at <= sweeper[w].moment
                               /\ copy = [id |-> s, next_fire_at |-> schedules[s].next_fire_at]
    OBVIOUS
  <2> PICK t : t = schedules[s].next_fire_at
    OBVIOUS
  <2>2. t \in Nat /\ t \in 0 .. MaxTime /\ copy.id = s /\ copy.next_fire_at = t
    BY <1>0, <1>2, <2>1, TimingAssumption DEF Plans
  <2>3. intake[IntakeId("schedule", s, t)].status = "absent"
    BY <2>2 DEF Fired
  <2>4. \A other \in Due : other.id = s => other = copy
    BY <2>1
  <2> QED
    BY <1>2, <2>1, <2>2, <2>3, <2>4
<1>4. Firings(x)'
  BY <1>0, <1>2, <1>3 DEF Firings
<1>5. sweeper'[w] = x /\ \A v \in Sweepers : v # w => sweeper'[v] = sweeper[v] /\ sweeper[v].pc = "idle"
  BY <1>0, <1>1, OthersIdle DEF Measured
<1>6. \A s \in Schedules, t \in 0 .. MaxTime :
        intake'[IntakeId("schedule", s, t)].status # "absent" => t < schedules'[s].next_fire_at /\ t <= now'
  BY <1>0 DEF Fired
<1>7. ASSUME NEW v \in Sweepers, sweeper'[v].pc \in {"fire", "depth", "insert"}
      PROVE  Firings(sweeper[v])'
  BY <1>4, <1>5, <1>7
<1> QED
  BY <1>6, <1>7 DEF Fired

\* The claim moves the schedule beyond the time it fires.
LEMMA ClaimFires ==
  ASSUME Measured, Alone, Fired, NEW w \in Sweepers, ClaimDueSchedule(w)
  PROVE  Fired'
<1>0. /\ sweeper \in [Sweepers -> Desks] /\ schedules \in [Schedules -> Plans] /\ now \in Nat
      /\ sweeper[w].pc = "fire" /\ UNCHANGED <<now, intake>> /\ sweeper[w] \in Desks
      /\ sweeper[w].due \subseteq [id : Schedules, next_fire_at : 0 .. MaxTime]
      /\ sweeper[w].moment \in Nat /\ sweeper[w].moment <= now /\ Firings(sweeper[w])
  BY DEF Measured, Inv, Books, Desks, ClaimDueSchedule, At, Timely, Fired
<1>1. PICK copy \in sweeper[w].due :
        IF Claimable(copy.id, sweeper[w].moment)
          THEN /\ schedules' = [schedules EXCEPT ![copy.id].next_fire_at = Following(copy, sweeper[w].moment),
                                                 ![copy.id].last_fire_at = sweeper[w].moment]
               /\ sweeper' = [sweeper EXCEPT ![w].due = sweeper[w].due \ {copy}, ![w].pc = "depth",
                                             ![w].item = IntakeId("schedule", copy.id, copy.next_fire_at)]
          ELSE /\ sweeper' = [sweeper EXCEPT ![w].due = sweeper[w].due \ {copy}]
               /\ UNCHANGED schedules
  BY DEF ClaimDueSchedule
<1> PICK s \in Schedules, t \in 0 .. MaxTime : s = copy.id /\ t = copy.next_fire_at
  BY <1>0
<1>2. /\ t <= sweeper[w].moment /\ intake[IntakeId("schedule", s, t)].status = "absent"
      /\ \A other \in sweeper[w].due : other.id = s => other = copy
  BY <1>0 DEF Firings
<1>3. \A v \in Sweepers : v # w => sweeper'[v] = sweeper[v] /\ sweeper[v].pc = "idle"
  BY <1>0, <1>1, OthersIdle DEF Measured
<1>4. CASE ~Claimable(s, sweeper[w].moment)
  <2> PICK x : x = [sweeper[w] EXCEPT !.due = sweeper[w].due \ {copy}]
    OBVIOUS
  <2>1. sweeper'[w] = x /\ x.pc = "fire" /\ x.moment = sweeper[w].moment /\ x.due = sweeper[w].due \ {copy}
        /\ UNCHANGED schedules
    BY <1>0, <1>1, <1>4 DEF Desks
  <2>2. Firings(x)'
    BY <1>0, <2>1 DEF Firings
  <2>3. ASSUME NEW v \in Sweepers, sweeper'[v].pc \in {"fire", "depth", "insert"}
        PROVE  Firings(sweeper[v])'
    BY <1>3, <2>1, <2>2, <2>3
  <2>4. \A q \in Schedules, u \in 0 .. MaxTime :
          intake'[IntakeId("schedule", q, u)].status # "absent" => u < schedules'[q].next_fire_at /\ u <= now'
    BY <1>0, <2>1 DEF Fired
  <2> QED
    BY <2>3, <2>4 DEF Fired
<1>5. CASE Claimable(s, sweeper[w].moment)
  <2> PICK x : x = [sweeper[w] EXCEPT !.due = sweeper[w].due \ {copy}, !.pc = "depth",
                                      !.item = IntakeId("schedule", s, t)]
    OBVIOUS
  <2>1. /\ sweeper'[w] = x /\ x.pc = "depth" /\ x.moment = sweeper[w].moment
        /\ x.due = sweeper[w].due \ {copy} /\ x.item = IntakeId("schedule", s, t)
    BY <1>0, <1>1, <1>5 DEF Desks
  <2> PICK next : next = NextFire(Timing[s], sweeper[w].moment)
    OBVIOUS
  <2>2. next \in Nat /\ next > sweeper[w].moment
    BY <1>0, NextFireLater
  <2>3. /\ schedules'[s].next_fire_at = next
        /\ \A q \in Schedules : q # s => schedules'[q] = schedules[q]
    BY <1>0, <1>1, <1>5 DEF Following, Plans
  <2>4. schedules[s].next_fire_at <= sweeper[w].moment /\ schedules[s].next_fire_at \in Nat
    BY <1>0, <1>5 DEF Claimable, Plans
  <2>5. ASSUME NEW q \in Schedules, NEW u \in 0 .. MaxTime,
               intake'[IntakeId("schedule", q, u)].status # "absent"
        PROVE  u < schedules'[q].next_fire_at /\ u <= now'
    <3>1. u < schedules[q].next_fire_at /\ u <= now
      BY <1>0, <2>5 DEF Fired
    <3>2. CASE q = s
      BY <1>0, <2>2, <2>3, <2>4, <3>1, <3>2
    <3>3. CASE q # s
      BY <1>0, <2>3, <3>1, <3>3
    <3> QED
      BY <3>2, <3>3
  <2>6. \A other \in x.due :
          /\ other.next_fire_at <= x.moment
          /\ intake'[IntakeId("schedule", other.id, other.next_fire_at)].status = "absent"
          /\ \A third \in x.due : third.id = other.id => third = other
    BY <1>0, <2>1 DEF Firings
  <2>7. /\ x.item = IntakeId("schedule", s, t) /\ intake'[x.item].status = "absent"
        /\ t <= x.moment /\ t < schedules'[s].next_fire_at
        /\ \A other \in x.due : other.id # s
    BY <1>0, <1>2, <2>1, <2>2, <2>3
  <2>8. Firings(x)'
    BY <2>6, <2>7, Zenon DEF Firings
  <2>9. ASSUME NEW v \in Sweepers, sweeper'[v].pc \in {"fire", "depth", "insert"}
        PROVE  Firings(sweeper[v])'
    BY <1>3, <2>1, <2>8, <2>9
  <2> QED
    BY <2>5, <2>9 DEF Fired
<1> QED
  BY <1>4, <1>5

\* The row it brings tells of a time its schedule is past, and of nobody else's.
LEMMA InsertFiringFires ==
  ASSUME Measured, Alone, Fired, NEW w \in Sweepers, InsertFiring(w)
  PROVE  Fired'
<1>0. /\ sweeper \in [Sweepers -> Desks] /\ schedules \in [Schedules -> Plans] /\ now \in Nat
      /\ sweeper[w].pc = "insert" /\ UNCHANGED <<now, schedules>> /\ sweeper[w] \in Desks
      /\ sweeper[w].due \subseteq [id : Schedules, next_fire_at : 0 .. MaxTime]
      /\ sweeper[w].moment \in Nat /\ sweeper[w].moment <= now /\ Firings(sweeper[w])
      /\ intake \in [Intakes -> Rows]
  BY DEF Measured, Inv, Books, Desks, InsertFiring, At, Timely, Fired
<1>1. PICK s \in Schedules, t \in 0 .. MaxTime :
        /\ sweeper[w].item = IntakeId("schedule", s, t) /\ intake[sweeper[w].item].status = "absent"
        /\ t <= sweeper[w].moment /\ t < schedules[s].next_fire_at
        /\ \A copy \in sweeper[w].due : copy.id # s
  BY <1>0 DEF Firings
<1> PICK i \in Intakes : i = IntakeId("schedule", s, t)
  BY ItemsAreIntakes
<1>2. \A j \in Intakes : j # i => intake'[j] = intake[j]
  BY <1>0, <1>1 DEF InsertFiring, EnqueueTrigger, Item
<1>3. \A q \in Schedules, u \in 0 .. MaxTime :
        /\ IntakeId("schedule", q, u) \in Intakes
        /\ IntakeId("schedule", q, u) = i => q = s /\ u = t
  BY ItemsAreIntakes DEF IntakeId
<1> PICK x : x = [sweeper[w] EXCEPT !.pc = "fire", !.saw = {}]
  OBVIOUS
<1>4. sweeper'[w] = x /\ x.pc = "fire" /\ x.moment = sweeper[w].moment /\ x.due = sweeper[w].due
  BY <1>0 DEF InsertFiring, Desks
<1>5. \A v \in Sweepers : v # w => sweeper'[v] = sweeper[v] /\ sweeper[v].pc = "idle"
  BY <1>0, OthersIdle DEF Measured, InsertFiring
<1>6. ASSUME NEW q \in Schedules, NEW u \in 0 .. MaxTime,
             intake'[IntakeId("schedule", q, u)].status # "absent"
      PROVE  u < schedules'[q].next_fire_at /\ u <= now'
  <2>1. CASE IntakeId("schedule", q, u) = i
    BY <1>0, <1>1, <1>3, <2>1
  <2>2. CASE IntakeId("schedule", q, u) # i
    BY <1>0, <1>2, <1>3, <1>6, <2>2 DEF Fired
  <2> QED
    BY <2>1, <2>2
<1>7. ASSUME NEW copy \in x.due
      PROVE  /\ copy.next_fire_at <= x.moment
             /\ intake'[IntakeId("schedule", copy.id, copy.next_fire_at)].status = "absent"
             /\ \A other \in x.due : other.id = copy.id => other = copy
  <2>1. copy.id \in Schedules /\ copy.next_fire_at \in 0 .. MaxTime /\ copy.id # s
    BY <1>0, <1>1, <1>4
  <2>2. intake'[IntakeId("schedule", copy.id, copy.next_fire_at)]
          = intake[IntakeId("schedule", copy.id, copy.next_fire_at)]
    BY <1>2, <1>3, <2>1
  <2> QED
    BY <1>0, <1>4, <2>2 DEF Firings
<1>8. Firings(x)'
  BY <1>4, <1>7 DEF Firings
<1>9. ASSUME NEW v \in Sweepers, sweeper'[v].pc \in {"fire", "depth", "insert"}
      PROVE  Firings(sweeper[v])'
  BY <1>4, <1>5, <1>8, <1>9
<1> QED
  BY <1>6, <1>9 DEF Fired

\* No other step fires anything: callers bring rows of other kinds.
LEMMA OtherStepsFireNothing ==
  ASSUME Measured, [Next]_vars, \A w \in Sweepers : ~ClaimDueSchedule(w) /\ ~InsertFiring(w)
  PROVE  NothingFires
<1>0. /\ Inv /\ now \in Nat /\ schedules \in [Schedules -> Plans]
  BY DEF Measured, Inv, Books
<1>1. ASSUME NEW s \in Schedules, NEW t \in 0 .. MaxTime,
             intake[IntakeId("schedule", s, t)].status = "absent"
      PROVE  intake'[IntakeId("schedule", s, t)].status = "absent"
  <2> PICK i \in Intakes : i = IntakeId("schedule", s, t)
    BY ItemsAreIntakes
  <2>1. \A c \in Clients : ClientIntake(c) # i
    BY DEF ClientIntake, IntakeId
  <2>2. intake'[i] = intake[i]
    BY <1>0, <1>1, <2>1, RowWrites
  <2> QED
    BY <1>1, <2>2
<1>2. CASE Tick
  <2>1. now <= now' /\ now' \in Nat /\ UNCHANGED schedules
    BY <1>0, <1>2 DEF Tick
  <2> QED
    BY <1>1, <2>1 DEF NothingFires
<1>3. ASSUME NEW s \in Schedules, CreateSchedule(s) \/ \E b \in BOOLEAN : SetScheduleEnabled(s, b)
      PROVE  NothingFires
  <2>1. now' = now
    BY <1>3 DEF CreateSchedule, SetScheduleEnabled
  <2>2. \A q \in Schedules : \/ schedules'[q].next_fire_at = schedules[q].next_fire_at
                             \/ schedules'[q].next_fire_at = NextFire(Timing[q], now)
    BY <1>0, <1>3 DEF CreateSchedule, SetScheduleEnabled, Plans
  <2>3. \A q \in Schedules : \/ schedules'[q].next_fire_at = schedules[q].next_fire_at
                             \/ schedules'[q].next_fire_at > now /\ schedules'[q].next_fire_at \in Nat
    BY <1>0, <2>2, NextFireLater
  <2> QED
    BY <1>0, <1>1, <2>1, <2>3 DEF NothingFires
<1>4. ASSUME UNCHANGED <<now, schedules>>
      PROVE  NothingFires
  BY <1>0, <1>1, <1>4 DEF NothingFires
<1>5. ASSUME NEW w \in Sweepers, Pass(w)
      PROVE  UNCHANGED <<now, schedules>>
  BY <1>5 DEF Pass, BeginPass, ReadSchedules, CheckFiringDepth, ReadQueue, NothingQueued, GiveUp, Consider,
              PlanSucceeds, PlanFails, PlanIsUnreachable, CreateRun, CreationRefused, MarkStarted, Survey, Rests,
              Skips, EndPass, MarkFailed, QuietQueue, queueVars
<1>6. CASE Outside /\ UNCHANGED sweepVars
  <2>1. CASE /\ ~Tick
             /\ \A s \in Schedules : ~CreateSchedule(s) /\ \A b \in BOOLEAN : ~SetScheduleEnabled(s, b)
    <3>1. UNCHANGED <<now, schedules>>
      BY <1>6, <2>1 DEF Outside, ReceiveWebhook, LookUpTrigger, SubmitIdea, CheckDepth, Insert, Resend,
                        WithdrawIdea, RegisterWebhookTrigger, SetOrganizationStatus
    <3> QED
      BY <1>4, <3>1
  <2> QED
    BY <1>2, <1>3, <2>1
<1>7. CASE \/ UNCHANGED vars
           \/ \E w \in Sweepers : TakeLock(w) \/ Stop(w) \/ Crash(w)
           \/ \E i \in Intakes : DecideRun(i) \/ CancelRun(i)
  <2>1. UNCHANGED <<now, schedules>>
    BY <1>7 DEF vars, TakeLock, Stop, Crash, DecideRun, CancelRun, QuietQueue, queueVars
  <2> QED
    BY <1>4, <2>1
<1> QED
  BY <1>4, <1>5, <1>6, <1>7 DEF Next

\* And a sweeper that reads, claims and inserts nothing has no new firings in hand.
LEMMA OtherStepsClaimNothing ==
  ASSUME Inv, [Next]_vars, NEW v \in Sweepers, ~ReadSchedules(v) /\ ~ClaimDueSchedule(v) /\ ~InsertFiring(v)
  PROVE  SameFirings(sweeper[v], sweeper'[v])
<1>0. sweeper \in [Sweepers -> Desks] /\ sweeper[v] \in Desks
  BY DEF Inv
<1>1. ASSUME sweeper'[v] = sweeper[v]
      PROVE  SameFirings(sweeper[v], sweeper'[v])
  BY <1>1 DEF SameFirings
<1> DEFINE Elsewhere == sweeper'[v].pc \notin {"fire", "depth", "insert"}
<1>2. ASSUME Elsewhere
      PROVE  SameFirings(sweeper[v], sweeper'[v])
  BY <1>2 DEF SameFirings
<1>3. ASSUME NEW pc \in {"survey", "create", "refused", "mark"}, Go(v, pc)
      PROVE  Elsewhere
  BY <1>0, <1>3 DEF Go, Desks
<1>4. CASE NothingQueued(v) \/ PlanSucceeds(v) \/ PlanFails(v) \/ PlanIsUnreachable(v) \/ CreateRun(v)
           \/ CreationRefused(v) \/ MarkStarted(v)
  <2>1. \E pc \in {"survey", "create", "refused", "mark"} : Go(v, pc)
    BY <1>4 DEF NothingQueued, PlanSucceeds, PlanFails, PlanIsUnreachable, CreateRun, CreationRefused, MarkStarted,
                MarkFailed, AfterFailure
  <2> QED
    BY <1>2, <1>3, <2>1
<1>5. CASE CheckFiringDepth(v)
  <2>1. PICK pc \in {"insert", "fire"} : sweeper' = [sweeper EXCEPT ![v].pc = pc]
    BY <1>5 DEF CheckFiringDepth, Go
  <2> PICK x : x = [sweeper[v] EXCEPT !.pc = pc]
    OBVIOUS
  <2>2. sweeper'[v] = x /\ x.due = sweeper[v].due /\ x.moment = sweeper[v].moment /\ x.item = sweeper[v].item
    BY <1>0, <2>1 DEF Desks
  <2> QED
    BY <1>5, <2>2 DEF SameFirings, CheckFiringDepth, At
<1>6. CASE BeginPass(v)
  <2>1. Elsewhere
    BY <1>0, <1>6 DEF BeginPass, Go, Desks
  <2> QED
    BY <1>2, <2>1
<1>7. CASE ReadQueue(v)
  <2>1. Elsewhere
    BY <1>0, <1>7 DEF ReadQueue, Desks
  <2> QED
    BY <1>2, <2>1
<1>8. CASE GiveUp(v)
  <2>1. /\ sweeper[v].pc = "scan"
        /\ \/ Go(v, "survey")
           \/ \E row : sweeper' = [sweeper EXCEPT ![v].rows = sweeper[v].rows \ {row}]
    BY <1>8 DEF GiveUp, At
  <2>2. Elsewhere
    BY <1>0, <2>1 DEF Go, Desks
  <2> QED
    BY <1>2, <2>2
<1>9. CASE Consider(v)
  <2>1. Elsewhere
    BY <1>0, <1>9 DEF Consider, Desks
  <2> QED
    BY <1>2, <2>1
<1>10. CASE Survey(v)
  <2>1. Elsewhere
    BY <1>0, <1>10 DEF Survey, Idle, Desks
  <2> QED
    BY <1>2, <2>1
<1>11. CASE EndPass(v) \/ Crash(v)
  <2>1. Elsewhere
    BY <1>0, <1>11, IdleDesk DEF EndPass, Crash
  <2> QED
    BY <1>2, <2>1
<1>12. CASE Rests(v) \/ Skips(v)
  <2>1. Elsewhere
    BY <1>0, <1>12 DEF Rests, Skips, At, Desks
  <2> QED
    BY <1>2, <2>1
<1>13. CASE \/ UNCHANGED vars
            \/ UNCHANGED sweepVars
            \/ \E w \in Sweepers : TakeLock(w) \/ Stop(w)
            \/ \E w \in Sweepers : w # v /\ (Pass(w) \/ Crash(w))
            \/ \E i \in Intakes : DecideRun(i) \/ CancelRun(i)
  <2>1. sweeper'[v] = sweeper[v]
    BY <1>0, <1>13, DesksApart DEF vars, sweepVars, TakeLock, Stop, Crash, DecideRun, CancelRun
  <2> QED
    BY <1>1, <2>1
<1> QED
  BY <1>4, <1>5, <1>6, <1>7, <1>8, <1>9, <1>10, <1>11, <1>12, <1>13, Zenon DEF Next, Pass

LEMMA FiredNext == Alone /\ Measured /\ Fired /\ [Next]_vars => Fired'
<1> SUFFICES ASSUME Alone, Measured, Fired, [Next]_vars PROVE Fired'
  OBVIOUS
<1>1. CASE \E w \in Sweepers : ReadSchedules(w) \/ ClaimDueSchedule(w) \/ InsertFiring(w)
  BY <1>1, ReadSchedulesFires, ClaimFires, InsertFiringFires
<1>2. CASE \A w \in Sweepers : ~ReadSchedules(w) /\ ~ClaimDueSchedule(w) /\ ~InsertFiring(w)
  BY <1>2, OtherStepsFireNothing, OtherStepsClaimNothing, FiringsStay DEF Measured
<1> QED
  BY <1>1, <1>2

LEMMA FiredInit == Init => Fired
<1> SUFFICES ASSUME Init PROVE Fired
  OBVIOUS
<1>1. \A s \in Schedules, t \in 0 .. MaxTime : intake[IntakeId("schedule", s, t)].status = "absent"
  BY ItemsAreIntakes DEF Init, QueueInit, Absent
<1>2. \A w \in Sweepers : sweeper[w].pc = "idle"
  BY DEF Init, Idle
<1> QED
  BY <1>1, <1>2 DEF Fired

\* With one supervised loop at a time no claim of a due time is wasted on a firing that already
\* has its row, whatever is re-registered, paused or withdrawn, and wherever a sweeper dies
\* (claim_due_schedule, fire_due_schedules).
THEOREM ClaimsAreNotWasted == Alone => (Spec => []ClaimsBringWork)
<1> SUFFICES ASSUME Alone PROVE Spec => []ClaimsBringWork
  OBVIOUS
<1>1. Fired => ClaimsBringWork
  BY DEF Fired, Firings, ClaimsBringWork
<1>2. Measured /\ Fired /\ [Next]_vars => Fired'
  BY FiredNext
<1> QED
  BY <1>1, <1>2, FiredInit, AlwaysMeasured, PTL DEF Spec
=============================================================================
