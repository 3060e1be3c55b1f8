--------------------------- MODULE QueueProperties ---------------------------
(* What the intake queue and the scheduler that empties it have to guarantee. *)
EXTENDS Scheduler

Plans == [enabled : BOOLEAN, next_fire_at : Nat, last_fire_at : Nat \cup {Never}]
Copies == [at : Nat, id : Intakes, attempts : Nat]
Desks ==
  [pc : {"idle", "schedules", "fire", "depth", "insert", "scan", "plan", "create", "refused",
         "mark", "survey", "drive"},
   moment : 0 .. MaxTime,
   due : SUBSET [id : Schedules, next_fire_at : 0 .. MaxTime],
   item : Intakes \cup {None},
   saw : SUBSET Intakes,
   rows : SUBSET Copies,
   runs : SUBSET Intakes]

\* The store's rows, the clocks and the sweepers' working memory are of their types.
TypeOK ==
  /\ now \in 0 .. MaxTime /\ org \in {"active", "suspended"} /\ hook \in BOOLEAN
  /\ schedules \in [Schedules -> Plans]
  /\ nonces \subseteq Deliveries
  /\ client \in [Clients -> {"new", "verified", "asking", "inserting", "accepted", "refused"}]
  /\ intake \in [Intakes -> Rows]
  /\ saw \in [Clients -> SUBSET Intakes]
  /\ line \in Seq(Intakes)
  /\ ahead \in [Intakes -> SUBSET Intakes]
  /\ run \in [Intakes -> Conditions]
  /\ sweeper \in [Sweepers -> Desks]
  /\ lock \in Services \cup {None}
  /\ wakes \in 0 .. MaxWakes /\ crashes \in 0 .. MaxCrashes
  /\ faults \in [Intakes -> Nat]

\* What became of a request: a run file answers it, whatever its row says.
Told(status) ==
  CASE status = "absent" -> "unasked"
    [] status = "queued" -> "waiting"
    [] status = "started" -> "started"
    [] status = "failed" -> "abandoned"
    [] status = "withdrawn" -> "withdrawn"
Answer(i) == IF Created(i) THEN "started" ELSE Told(intake[i].status)

(* The queue as its callers see it: one answer to each request, through crashes and      *)
(* retries, and none is started or given up on while one waits that was in the queue     *)
(* when its caller looked (start_queued: "First in, first out ... the queue does not step  *)
(* over it").  A caller who was stamped first and came in last may still go first.       *)
Standing == [i \in Intakes |-> Answer(i)]
WaitsFor == [i \in Intakes |-> IF Answer(i) = "waiting" THEN ahead[i] ELSE {}]
Asking == {[who |-> ClientIntake(c), ahead |-> saw[c]] : c \in {c \in Clients : client[c] = "inserting"}}
            \cup {[who |-> Item(w), ahead |-> sweeper[w].saw] : w \in {w \in Sweepers : At(w, "insert")}}
Promised == INSTANCE RequestLine WITH
  Requests <- Intakes, asking <- Asking, ahead <- WaitsFor, answer <- Standing
KeepsTheLine == Promised!Spec

(* A row says "started" only when its run is there, and "failed" only when no run of it *)
(* is: an abandoned request with a live run has nothing pointing at it (triggers.py:196).*)
SettledMatchesRun ==
  \A i \in Intakes : /\ intake[i].status = "started" => Created(i)
                     /\ intake[i].status = "failed" => ~Created(i)

(* A request loses a chance only for a failure of its own: neither an outage of the     *)
(* planner nor a crash of the sweeper brings it nearer to being given up on.            *)
AttemptsAreTheRequestsOwn ==
  \A i \in Intakes : /\ intake[i].status = "queued" => intake[i].attempts <= faults[i]
                     /\ intake[i].status = "failed" => faults[i] >= MaxAttempts

(* The intake never has two runs going that it started and that have not yet come to    *)
(* rest ("strictly serial: while a run is moving nothing new is planned").              *)
OneAtATime == Cardinality({i \in Intakes : run[i] = "fresh"}) <= 1

(* The queue never holds more than the cap and one row for every caller that was        *)
(* between its look at the depth and its insertion (triggers.py:114).                   *)
QueueBounded == Cardinality(Queued) <= Cap + Cardinality(Clients \cup Sweepers)

(* Two firings of an interval schedule are at least an interval apart, however far the  *)
(* scheduler fell behind and however many sweepers look at the same due time.           *)
FiringsSpaced ==
  [][\A w \in Sweepers :
       (At(w, "fire") /\ sweeper'[w].pc = "depth")
         => LET s == sweeper'[w].item[2]
                last == schedules[s].last_fire_at
            IN \/ last = Never \/ Timing[s].kind # "interval"
               \/ schedules'[s].last_fire_at - last >= Timing[s].every]_vars

(* Whoever asked gets an answer: a request in the queue becomes a run, is given up on,  *)
(* or is withdrawn.  Only an organization that is suspended again and again, or a run    *)
(* that moves for ever, can keep it waiting; a run that waits for a person cannot, nor   *)
(* can a request before it that fails whenever it is planned (in_flight, start_queued).  *)
MovesOnlyForATime == \A i \in Intakes : (run[i] \in Moving) ~> (run[i] \notin Moving)
RequestsAnswered ==
  (<>[](org = "active") /\ MovesOnlyForATime)
    => \A i \in Intakes : (intake[i].status = "queued") ~> (intake[i].status # "queued")

(* The same without a word about the runs: "the next request starts when it finishes"    *)
(* (triggers.py:214) promises nothing of a run that never finishes, stalled included.    *)
RequestsAnsweredWhateverRuns ==
  <>[](org = "active") => \A i \in Intakes : (intake[i].status = "queued") ~> (intake[i].status # "queued")

(* What queued_triggers says of a retry ("keeps its place ... stays at the front"):      *)
(* nobody is answered before a request that was at the front and could not be planned.   *)
(* Who was stamped before it and comes in after it is (db_triggers.py:92).               *)
RetriesKeepTheFront ==
  [][\A i \in Intakes :
       (Answer(i) = "waiting" /\ Answer(i)' \in {"started", "abandoned"})
         => \A j \in Intakes \ {i} : intake[j].error => Answer(j) # "waiting"]_vars

(* What withdraw_idea says of its race with the scheduler: a request that was taken out *)
(* of the queue does not run.                                                           *)
WithdrawnStaysOut == \A i \in Intakes : intake[i].status = "withdrawn" => ~Created(i)

(* The requests a sweeper is acting on: those of the page it is going through, and the  *)
(* one it is planning, making a run of, or writing the outcome of.                      *)
InHand(w) == {i \in Intakes : \/ sweeper[w].pc = "scan" /\ \E row \in sweeper[w].rows : row.id = i
                              \/ sweeper[w].pc \in {"plan", "create", "refused", "mark"} /\ Item(w) = i}
OutOfTheLine(i) ==
  intake[i].status = "withdrawn" /\ ~Created(i) /\ \A w \in Sweepers : i \notin InHand(w)

(* A withdrawal that no sweeper had read past is final: the request gets no run and no  *)
(* turn any more, though its caller may send it again and sweepers come, crash and read *)
(* the queue anew (settle_trigger and enqueue match what the row says at the write).    *)
WithdrawalIsFinal == [][\A i \in Intakes : OutOfTheLine(i) => OutOfTheLine(i)']_vars

(* What claim_due_schedule says of two sweepers: the claim that moves a schedule on is  *)
(* one that fires it, so a claim that meets no crash and no full queue leaves new work. *)
(* Under the lock of the loop it does; a command beside the loop claims a firing that   *)
(* has its row already (MCQueueTwoSweepers.cfg).                                        *)
ClaimsBringWork ==
  \A w \in Sweepers : sweeper[w].pc \in {"depth", "insert"} => intake[sweeper[w].item].status = "absent"
=============================================================================
