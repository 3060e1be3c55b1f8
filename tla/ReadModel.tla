------------------------------ MODULE ReadModel ------------------------------
(***************************************************************************)
(* The store's copy of the runs (projection.py), the note it keeps of a    *)
(* person's decision (service_runs.py), and its own backups (db.py).  The  *)
(* logs of the runs are the system of record; what moves a run is RunCore's*)
(* subject, and a run is here the number of its events and whether it      *)
(* waits for a person.                                                     *)
(***************************************************************************)
EXTENDS Integers, FiniteSets

CONSTANTS
  Runs,
  Sweeps,       \* schedulers, which mirror at the end of every pass
  ByHand,       \* projections somebody starts
  Requests,     \* a person's decisions through the service
  NoRow, NoCopy,
  MaxEvents,    \* bound: events of a run
  MaxMishaps    \* bound: processes that die between two steps, and restores

ASSUME ReadModelAssumption == MaxEvents \in Nat \ {0} /\ MaxMishaps \in Nat

VARIABLES
  log,        \* [Runs -> [events, status]]: the last line of each run's log
  decided,    \* the requests whose decision is in a log
  db,         \* the store: [rows, notes]
  copy,       \* its latest backup, NoCopy before the first
  aside,      \* the notes in the copies restores put aside
  restoring,  \* a restore has put the store aside and not yet replaced it
  projector,  \* [Projectors -> [pc, todo, run, seen]]
  request,    \* [Requests -> [pc, run]]
  mishaps

storeFiles == <<copy, aside, restoring>>
vars == <<log, decided, db, storeFiles, projector, request, mishaps>>

Projectors == Sweeps \cup ByHand
Quiet == [pc |-> "idle", todo |-> {}, run |-> NoRow, seen |-> NoRow]
Unsent == [pc |-> "new", run |-> NoRow]

Init ==
  /\ log = [r \in Runs |-> [events |-> 1, status |-> "active"]]
  /\ decided = {}
  /\ db = [rows |-> [r \in Runs |-> NoRow], notes |-> {}]
  /\ copy = NoCopy /\ aside = {} /\ restoring = FALSE
  /\ projector = [p \in Projectors |-> Quiet]
  /\ request = [q \in Requests |-> Unsent]
  /\ mishaps = 0

-----------------------------------------------------------------------------
(* The runs themselves *)

Moved(r, status) ==
  /\ log[r].events < MaxEvents
  /\ log' = [log EXCEPT ![r] = [events |-> @.events + 1, status |-> status]]

Advance(r) ==
  /\ log[r].status = "active"
  /\ \E status \in {"active", "parked", "over"} : Moved(r, status)
  /\ UNCHANGED <<decided, db, storeFiles, projector, request, mishaps>>

-----------------------------------------------------------------------------
(* project_all: one run after the other, each read and then written *)

Unfinished == {r \in Runs : log[r].status # "over"}  \* mutant: a run that ended is left as it is
RunFiles == Runs

StartProjection(p) ==
  /\ projector[p].pc = "idle"
  /\ projector' = [projector EXCEPT ![p] = [Quiet EXCEPT !.pc = "listing", !.todo = RunFiles]]
  /\ UNCHANGED <<log, decided, db, storeFiles, request, mishaps>>

ReadRun(p, r) ==
  /\ projector[p].pc = "listing" /\ r \in projector[p].todo
  /\ projector' = [projector EXCEPT ![p] = [pc |-> "writing", todo |-> @.todo \ {r}, run |-> r, seen |-> log[r]]]
  /\ UNCHANGED <<log, decided, db, storeFiles, request, mishaps>>

\* project_run's transaction: the row takes what was read, whatever it held before
ProjectRun(p) ==
  /\ projector[p].pc = "writing"
  /\ db' = [db EXCEPT !.rows[projector[p].run] = projector[p].seen]
  /\ projector' = [projector EXCEPT ![p] = [Quiet EXCEPT !.pc = "listing", !.todo = projector[p].todo]]
  /\ UNCHANGED <<log, decided, storeFiles, request, mishaps>>

EndProjection(p) ==
  /\ projector[p].pc = "listing" /\ projector[p].todo = {}
  /\ projector' = [projector EXCEPT ![p] = Quiet]
  /\ UNCHANGED <<log, decided, db, storeFiles, request, mishaps>>

-----------------------------------------------------------------------------
(* decide_step *)

\* The step is looked up, and refused unless it waits for a person.
AskDecision(q, r) ==
  /\ request[q].pc = "new" /\ log[r].status = "parked"
  /\ request' = [request EXCEPT ![q] = [pc |-> "asked", run |-> r]]
  /\ UNCHANGED <<log, decided, db, storeFiles, projector, mishaps>>

\* core.approve, core.reject: refused when somebody decided in between
DecideStep(q) ==
  LET r == request[q].run
  IN /\ request[q].pc = "asked"
     /\ IF log[r].status = "parked"
          THEN /\ \E status \in {"active", "over"} : Moved(r, status)
               /\ decided' = decided \cup {q}
               /\ request' = [request EXCEPT ![q].pc = "decided"]
          ELSE /\ request' = [request EXCEPT ![q].pc = "refused"]
               /\ UNCHANGED <<log, decided>>
     /\ UNCHANGED <<db, storeFiles, projector, mishaps>>

\* record_step_decision
AsSoonAsAsked == {"asked", "decided"}  \* mutant: noted before the run has taken it
Notable == {"decided"}
RecordStepDecision(q) ==
  /\ request[q].pc \in Notable
  /\ db' = [db EXCEPT !.notes = @ \cup {q}]
  /\ request' = [request EXCEPT ![q].pc = IF @ = "decided" THEN "answered" ELSE @]
  /\ UNCHANGED <<log, decided, storeFiles, projector, mishaps>>

-----------------------------------------------------------------------------
(* The store's own backup, and restore_backup: what is there is put aside, then replaced *)

Backup ==
  /\ copy' = db
  /\ UNCHANGED <<log, decided, db, aside, restoring, projector, request, mishaps>>

PutAside ==
  /\ copy # NoCopy /\ ~restoring /\ mishaps < MaxMishaps
  /\ mishaps' = mishaps + 1
  /\ restoring' = TRUE
  /\ aside' = aside \cup db.notes
  /\ UNCHANGED <<log, decided, db, copy, projector, request>>

RestoreBackup ==
  /\ restoring
  /\ restoring' = FALSE
  /\ db' = copy
  /\ UNCHANGED <<log, decided, copy, aside, projector, request, mishaps>>

CrashProjector(p) ==
  /\ mishaps < MaxMishaps /\ projector[p].pc # "idle"
  /\ mishaps' = mishaps + 1
  /\ projector' = [projector EXCEPT ![p] = Quiet]
  /\ UNCHANGED <<log, decided, db, storeFiles, request>>

CrashRequest(q) ==
  /\ mishaps < MaxMishaps /\ request[q].pc \in {"asked", "decided"}
  /\ mishaps' = mishaps + 1
  /\ request' = [request EXCEPT ![q].pc = "lost"]
  /\ UNCHANGED <<log, decided, db, storeFiles, projector>>

Project(p) ==
  StartProjection(p) \/ (\E r \in Runs : ReadRun(p, r)) \/ ProjectRun(p) \/ EndProjection(p)

Next ==
  \/ \E r \in Runs : Advance(r)
  \/ \E p \in Projectors : Project(p) \/ CrashProjector(p)
  \/ \E q \in Requests : \/ \E r \in Runs : AskDecision(q, r)
                         \/ DecideStep(q) \/ RecordStepDecision(q) \/ CrashRequest(q)
  \/ Backup \/ PutAside \/ RestoreBackup

Spec == Init /\ [][Next]_vars

\* The scheduler mirrors on every pass; what was started by hand may stand still for ever.
FairSpec == Spec /\ \A p \in Sweeps : WF_vars(Project(p))
=============================================================================
