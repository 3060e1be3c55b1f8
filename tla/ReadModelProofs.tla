--------------------------- MODULE ReadModelProofs ---------------------------
(***************************************************************************)
(* The store never knows more than the logs of the runs, for any number of *)
(* runs, of processes that mirror them, of decisions, backups, restores    *)
(* and deaths: whatever may one day be written into the store - what a     *)
(* projector has read, what a request has decided, a backup - is already   *)
(* true of the logs, and the logs only grow.                               *)
(***************************************************************************)
EXTENDS ReadModelProperties, TLAPS

Statuses == {"active", "parked", "over"}
ProjectorRow == [pc : {"idle", "listing", "writing"}, todo : SUBSET Runs,
                 run : Runs \cup {NoRow}, seen : Lines \cup {NoRow}]
RequestRow == [pc : {"new", "asked", "decided", "answered", "refused", "lost"}, run : Runs \cup {NoRow}]

Follows(store) ==
  /\ store.notes \subseteq decided
  /\ \A r \in Runs : store.rows[r] # NoRow => store.rows[r].events <= log[r].events

CopyOK == (copy # NoCopy \/ restoring) => copy \in Stores /\ Follows(copy)

ProjectorsOK ==
  \A p \in Projectors : projector[p].pc = "writing" =>
    /\ projector[p].run \in Runs /\ projector[p].seen \in Lines
    /\ projector[p].seen.events <= log[projector[p].run].events

RequestsOK ==
  \A q \in Requests : /\ request[q].pc \in {"asked", "decided", "answered"} => request[q].run \in Runs
                      /\ request[q].pc \in {"decided", "answered"} => q \in decided

RInv == TypeOK /\ Follows(db) /\ CopyOK /\ ProjectorsOK /\ RequestsOK

-----------------------------------------------------------------------------
LEMMA InitInv == Init => RInv
<1> SUFFICES ASSUME Init PROVE RInv
  OBVIOUS
<1>1. db \in Stores /\ Follows(db)
  <2>1. /\ db = [rows |-> [r \in Runs |-> NoRow], notes |-> {}]
        /\ [r \in Runs |-> NoRow] \in [Runs -> Lines \cup {NoRow}]
    BY DEF Init
  <2> QED
    BY <2>1 DEF Stores, Follows
<1>2. TypeOK
  <2>1. /\ [events |-> 1, status |-> "active"] \in Lines
        /\ Quiet \in ProjectorRow /\ Unsent \in RequestRow
    BY ReadModelAssumption DEF Lines, Quiet, ProjectorRow, Unsent, RequestRow
  <2>2. mishaps \in 0 .. MaxMishaps
    BY ReadModelAssumption DEF Init
  <2>3. /\ log \in [Runs -> Lines] /\ projector \in [Projectors -> ProjectorRow]
        /\ request \in [Requests -> RequestRow]
    BY <2>1 DEF Init
  <2>4. decided = {} /\ aside = {} /\ restoring = FALSE /\ copy = NoCopy
    BY DEF Init
  <2> QED
    BY <1>1, <2>2, <2>3, <2>4 DEF TypeOK, ProjectorRow, RequestRow
<1> QED
  BY <1>1, <1>2 DEF Init, RInv, CopyOK, ProjectorsOK, RequestsOK, Quiet, Unsent

\* What was true of a store stays true while the logs grow and decisions are added.
LEMMA LogsGrow ==
  ASSUME TypeOK, decided \subseteq decided', \A r \in Runs : log[r].events <= log'[r].events,
         log' \in [Runs -> Lines], NEW store \in Stores, Follows(store)
  PROVE  /\ store.notes \subseteq decided'
         /\ \A r \in Runs : store.rows[r] # NoRow => store.rows[r].events <= log'[r].events
<1>1. \A r \in Runs : log[r].events \in Int /\ log'[r].events \in Int
  BY DEF TypeOK, Lines
<1>2. \A r \in Runs : store.rows[r] # NoRow => store.rows[r].events \in Int
  BY DEF Stores, Lines
<1> QED
  BY <1>1, <1>2 DEF Follows

\* A step of a run: by itself, or by a person's decision.
LEMMA MovedFacts ==
  ASSUME RInv, NEW r \in Runs, NEW status \in Statuses, Moved(r, status)
  PROVE  /\ log' \in [Runs -> Lines]
         /\ \A s \in Runs : log[s].events <= log'[s].events
<1>1. log[r].events + 1 \in 1 .. MaxEvents /\ log \in [Runs -> Lines]
  BY ReadModelAssumption DEF RInv, TypeOK, Lines, Moved
<1>2. [events |-> log[r].events + 1, status |-> status] \in Lines
  BY <1>1 DEF Lines, Statuses
<1>3. log' \in [Runs -> Lines] /\ log'[r].events = log[r].events + 1
      /\ \A s \in Runs : s # r => log'[s] = log[s]
  BY <1>1, <1>2 DEF Moved
<1> QED
  BY <1>1, <1>3 DEF Lines

LEMMA RunMoves ==
  ASSUME RInv, log' \in [Runs -> Lines], \A s \in Runs : log[s].events <= log'[s].events,
         decided \subseteq decided', decided' \subseteq Requests, UNCHANGED <<db, storeFiles, projector, mishaps>>,
         request' \in [Requests -> RequestRow], RequestsOK'
  PROVE  RInv'
<1>0. TypeOK
  BY DEF RInv
<1>1. TypeOK'
  BY DEF RInv, TypeOK, storeFiles, RequestRow
<1>2. Follows(db)'
  BY <1>0, LogsGrow DEF RInv, TypeOK, Follows
<1>3. CopyOK'
  BY <1>0, LogsGrow DEF RInv, CopyOK, Follows, storeFiles
<1>4. ProjectorsOK'
  BY DEF RInv, ProjectorsOK, TypeOK, Lines
<1> QED
  BY <1>1, <1>2, <1>3, <1>4 DEF RInv

LEMMA AdvanceInv == ASSUME RInv, NEW r \in Runs, Advance(r) PROVE RInv'
<1>1. PICK status \in Statuses : Moved(r, status)
  BY DEF Advance, Statuses
<1>2. RequestsOK' /\ request' \in [Requests -> RequestRow] /\ decided' = decided /\ decided \subseteq Requests
  BY DEF Advance, RInv, RequestsOK, TypeOK, RequestRow
<1> QED
  BY <1>1, <1>2, MovedFacts, RunMoves DEF Advance

-----------------------------------------------------------------------------
(* The projectors *)

LEMMA ProjectorMoves ==
  ASSUME RInv, NEW p \in Projectors, NEW x \in ProjectorRow, projector' = [projector EXCEPT ![p] = x],
         UNCHANGED <<log, decided, db, storeFiles, request>>, mishaps' \in 0 .. MaxMishaps,
         x.pc = "writing" => x.run \in Runs /\ x.seen \in Lines /\ x.seen.events <= log[x.run].events
  PROVE  RInv'
<1>1. /\ projector' \in [Projectors -> ProjectorRow] /\ projector'[p] = x
      /\ \A o \in Projectors : o # p => projector'[o] = projector[o]
  BY DEF RInv, TypeOK, ProjectorRow
<1>2. TypeOK'
  BY <1>1 DEF RInv, TypeOK, storeFiles, ProjectorRow
<1>3. ProjectorsOK'
  BY <1>1 DEF RInv, ProjectorsOK
<1> QED
  BY <1>2, <1>3 DEF RInv, Follows, CopyOK, RequestsOK, storeFiles

LEMMA ProjectInv == ASSUME RInv, NEW p \in Projectors, Project(p) \/ CrashProjector(p) PROVE RInv'
<1>0. /\ projector[p] \in ProjectorRow /\ mishaps \in 0 .. MaxMishaps
      /\ log \in [Runs -> Lines] /\ Quiet \in ProjectorRow /\ Quiet.pc = "idle"
  BY DEF RInv, TypeOK, ProjectorRow, Quiet
<1>1. CASE StartProjection(p)
  <2> DEFINE x == [Quiet EXCEPT !.pc = "listing", !.todo = RunFiles]
  <2>1. x \in ProjectorRow /\ x.pc = "listing"
    BY DEF ProjectorRow, Quiet, RunFiles
  <2> HIDE DEF x
  <2> QED
    BY <1>0, <1>1, <2>1, ProjectorMoves DEF StartProjection, x
<1>2. ASSUME NEW r \in Runs, ReadRun(p, r) PROVE RInv'
  <2> DEFINE x == [pc |-> "writing", todo |-> projector[p].todo \ {r}, run |-> r, seen |-> log[r]]
  <2>1. /\ x \in ProjectorRow /\ x.run = r /\ x.seen = log[r] /\ log[r] \in Lines
        /\ x.seen.events <= log[x.run].events
    BY <1>0 DEF ProjectorRow, Lines
  <2>2. projector' = [projector EXCEPT ![p] = x]
    BY <1>2 DEF ReadRun
  <2> HIDE DEF x
  <2> QED
    BY <1>0, <1>2, <2>1, <2>2, ProjectorMoves DEF ReadRun
<1>3. CASE ProjectRun(p)
  <2> DEFINE x == [Quiet EXCEPT !.pc = "listing", !.todo = projector[p].todo]
             r == projector[p].run
             seen == projector[p].seen
  <2>1. /\ r \in Runs /\ seen \in Lines /\ seen.events <= log[r].events
    BY <1>3 DEF ProjectRun, RInv, ProjectorsOK
  <2>2. x \in ProjectorRow /\ x.pc = "listing"
    BY <1>0 DEF ProjectorRow, Quiet
  <2> HIDE DEF x
  <2>3. /\ projector' \in [Projectors -> ProjectorRow] /\ projector'[p] = x
        /\ \A o \in Projectors : o # p => projector'[o] = projector[o]
    BY <1>3, <2>2 DEF ProjectRun, x, RInv, TypeOK, ProjectorRow
  <2>4. db' \in Stores /\ Follows(db)'
    <3>1. /\ db \in Stores /\ db' = [db EXCEPT !.rows[r] = seen]
      BY <1>3 DEF ProjectRun, RInv, TypeOK
    <3>2. /\ db' \in Stores /\ db'.notes = db.notes /\ db'.rows[r] = seen
          /\ \A s \in Runs : s # r => db'.rows[s] = db.rows[s]
      BY <2>1, <3>1 DEF Stores
    <3>3. log' = log /\ decided' = decided
      BY <1>3 DEF ProjectRun
    <3>4. Follows(db)
      BY DEF RInv
    <3> QED
      BY <2>1, <3>2, <3>3, <3>4 DEF Follows
  <2>5. TypeOK'
    BY <1>3, <2>3, <2>4 DEF ProjectRun, RInv, TypeOK, storeFiles, ProjectorRow
  <2>6. ProjectorsOK'
    BY <1>3, <2>2, <2>3 DEF ProjectRun, RInv, ProjectorsOK
  <2> QED
    BY <1>3, <2>4, <2>5, <2>6 DEF ProjectRun, RInv, CopyOK, RequestsOK, Follows, storeFiles
<1>4. CASE EndProjection(p)
  BY <1>0, <1>4, ProjectorMoves DEF EndProjection
<1>5. CASE CrashProjector(p)
  <2>1. mishaps' \in 0 .. MaxMishaps
    BY <1>0, <1>5, ReadModelAssumption DEF CrashProjector
  <2> QED
    BY <1>0, <1>5, <2>1, ProjectorMoves DEF CrashProjector
<1> QED
  BY <1>1, <1>2, <1>3, <1>4, <1>5, Zenon DEF Project

-----------------------------------------------------------------------------
(* A person's decision *)

LEMMA RequestMoves ==
  ASSUME RInv, NEW q \in Requests, NEW x \in RequestRow, request' = [request EXCEPT ![q] = x]
  PROVE  /\ request' \in [Requests -> RequestRow] /\ request'[q] = x
         /\ \A o \in Requests : o # q => request'[o] = request[o]
BY DEF RInv, TypeOK, RequestRow

LEMMA DecisionInv ==
  ASSUME RInv, NEW q \in Requests,
         (\E r \in Runs : AskDecision(q, r)) \/ DecideStep(q) \/ RecordStepDecision(q) \/ CrashRequest(q)
  PROVE  RInv'
<1>0. request[q] \in RequestRow /\ mishaps \in 0 .. MaxMishaps /\ decided \subseteq Requests
  BY DEF RInv, TypeOK, RequestRow
<1>1. ASSUME NEW x \in RequestRow, request' = [request EXCEPT ![q] = x],
             UNCHANGED <<log, decided, db, storeFiles, projector>>, mishaps' \in 0 .. MaxMishaps,
             x.pc \in {"asked", "decided", "answered"} => x.run \in Runs,
             x.pc \in {"decided", "answered"} => q \in decided
      PROVE  RInv'
  <2>1. TypeOK'
    BY <1>1, RequestMoves DEF RInv, TypeOK, storeFiles, RequestRow
  <2>2. RequestsOK'
    BY <1>1, RequestMoves DEF RInv, RequestsOK
  <2> QED
    BY <1>1, <2>1, <2>2 DEF RInv, Follows, CopyOK, ProjectorsOK, storeFiles
<1>2. ASSUME NEW r \in Runs, AskDecision(q, r) PROVE RInv'
  <2>1. [pc |-> "asked", run |-> r] \in RequestRow
    BY DEF RequestRow
  <2> QED
    BY <1>0, <1>1, <1>2, <2>1 DEF AskDecision
<1>3. CASE DecideStep(q)
  <2>1. \A v \in {"decided", "refused"} :
          /\ [request[q] EXCEPT !.pc = v] \in RequestRow /\ [request[q] EXCEPT !.pc = v].pc = v
          /\ [request[q] EXCEPT !.pc = v].run = request[q].run
    BY <1>0 DEF RequestRow
  <2>2. request[q].run \in Runs
    BY <1>3 DEF DecideStep, RInv, RequestsOK
  <2>3. CASE log[request[q].run].status = "parked"
    <3>1. PICK status \in Statuses : Moved(request[q].run, status)
      BY <1>3, <2>3 DEF DecideStep, Statuses
    <3>2. /\ decided' = decided \cup {q} /\ request' = [request EXCEPT ![q] = [request[q] EXCEPT !.pc = "decided"]]
          /\ UNCHANGED <<db, storeFiles, projector, mishaps>>
      BY <1>3, <2>3 DEF DecideStep
    <3>3. RequestsOK' /\ request' \in [Requests -> RequestRow]
      BY <2>1, <2>2, <3>2, RequestMoves DEF RInv, RequestsOK
    <3> QED
      BY <1>0, <2>2, <3>1, <3>2, <3>3, MovedFacts, RunMoves
  <2>4. CASE log[request[q].run].status # "parked"
    BY <1>0, <1>1, <1>3, <2>1, <2>2, <2>4 DEF DecideStep
  <2> QED
    BY <2>3, <2>4
<1>4. CASE RecordStepDecision(q)
  <2> DEFINE x == [request[q] EXCEPT !.pc = IF @ = "decided" THEN "answered" ELSE @]
  <2>0. request[q].pc = "decided" /\ q \in decided /\ request[q].run \in Runs
    BY <1>4 DEF RecordStepDecision, Notable, RInv, RequestsOK
  <2>1. x \in RequestRow /\ x.pc = "answered" /\ x.run = request[q].run
    BY <1>0, <2>0 DEF RequestRow
  <2>2. request' = [request EXCEPT ![q] = x]
    BY <1>4 DEF RecordStepDecision, RInv, TypeOK
  <2> HIDE DEF x
  <2>3. db' \in Stores /\ Follows(db)'
    <3>1. db \in Stores /\ db' = [db EXCEPT !.notes = @ \cup {q}] /\ log' = log /\ decided' = decided
      BY <1>4 DEF RecordStepDecision, RInv, TypeOK
    <3>2. db' \in Stores /\ db'.rows = db.rows /\ db'.notes = db.notes \cup {q}
      BY <3>1 DEF Stores
    <3> QED
      BY <2>0, <3>1, <3>2 DEF RInv, Follows
  <2>4. TypeOK'
    BY <1>4, <2>1, <2>2, <2>3, RequestMoves DEF RecordStepDecision, RInv, TypeOK, storeFiles, RequestRow
  <2>5. RequestsOK'
    BY <1>4, <2>0, <2>1, <2>2, RequestMoves DEF RecordStepDecision, RInv, RequestsOK
  <2> QED
    BY <1>4, <2>3, <2>4, <2>5 DEF RecordStepDecision, RInv, CopyOK, ProjectorsOK, Follows, storeFiles
<1>5. CASE CrashRequest(q)
  <2>1. [request[q] EXCEPT !.pc = "lost"] \in RequestRow /\ [request[q] EXCEPT !.pc = "lost"].pc = "lost"
    BY <1>0 DEF RequestRow
  <2>2. mishaps' \in 0 .. MaxMishaps
    BY <1>0, <1>5, ReadModelAssumption DEF CrashRequest
  <2> QED
    BY <1>1, <1>5, <2>1, <2>2 DEF CrashRequest
<1> QED
  BY <1>2, <1>3, <1>4, <1>5

-----------------------------------------------------------------------------
(* The store's backups *)

LEMMA StoreInv == ASSUME RInv, Backup \/ PutAside \/ RestoreBackup PROVE RInv'
<1>1. CASE Backup
  BY <1>1 DEF Backup, RInv, TypeOK, Follows, CopyOK, ProjectorsOK, RequestsOK
<1>2. CASE PutAside
  <2>1. TypeOK'
    <3>1. db.notes \subseteq Requests
      BY DEF RInv, TypeOK, Stores
    <3> QED
      BY <1>2, <3>1, ReadModelAssumption DEF PutAside, RInv, TypeOK
  <2> QED
    BY <1>2, <2>1 DEF PutAside, RInv, Follows, CopyOK, ProjectorsOK, RequestsOK
<1>3. CASE RestoreBackup
  <2>1. copy \in Stores /\ Follows(copy)
    BY <1>3 DEF RestoreBackup, RInv, CopyOK
  <2>2. TypeOK'
    BY <1>3, <2>1 DEF RestoreBackup, RInv, TypeOK
  <2> QED
    BY <1>3, <2>1, <2>2 DEF RestoreBackup, RInv, Follows, CopyOK, ProjectorsOK, RequestsOK
<1> QED
  BY <1>1, <1>2, <1>3

LEMMA NextInv == RInv /\ [Next]_vars => RInv'
<1> SUFFICES ASSUME RInv, [Next]_vars PROVE RInv'
  OBVIOUS
<1>1. CASE UNCHANGED vars
  BY <1>1 DEF vars, storeFiles, RInv, TypeOK, Follows, CopyOK, ProjectorsOK, RequestsOK
<1> QED
  BY <1>1, AdvanceInv, ProjectInv, DecisionInv, StoreInv, Zenon DEF Next

LEMMA AlwaysInv == Spec => []RInv
BY InitInv, NextInv, PTL DEF Spec

\* The logs, the store, its backups and the processes' memory keep their types.
THEOREM Types == Spec => []TypeOK
<1>1. RInv => TypeOK
  BY DEF RInv
<1> QED
  BY <1>1, AlwaysInv, PTL

\* No row is ahead of its run and no decision is noted that no run took, after any restore.
THEOREM StoreStaysBehind == Spec => []StoreFollowsTheLog
<1>1. RInv => StoreFollowsTheLog
  BY DEF RInv, Follows, StoreFollowsTheLog
<1> QED
  BY <1>1, AlwaysInv, PTL
=============================================================================
