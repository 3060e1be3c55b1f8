---------------------------- MODULE ArchiveProofs ----------------------------
(***************************************************************************)
(* What holds of the company's memory and of the archives of its books     *)
(* whatever the lessons, the writers, the runs and the backups.            *)
(*                                                                         *)
(* The chain holds because the one writer that has the lock knows the last *)
(* line.  A quiet archive is faithful because every reading of a backup    *)
(* that saw no run move is still true when the archive is closed.          *)
(***************************************************************************)
EXTENDS ArchiveProperties, TLAPS

Words == Decisions \cup {"proposed", "none"}
Line == [lesson : Lessons \cup {"none"}, status : Words, follows : Nat]
PenRow == [pc : {"idle", "appending", "locked"}, lesson : Lessons \cup {"none"}, status : Words, follows : Nat]
Held == [sound : BOOLEAN, logs : [Runs -> Nat], files : [Runs -> Nat], memory : Seq(Line)]
KeeperRow == [pc : {"idle", "verifying", "adding"}, todo : SUBSET (Parts \X Runs), held : Held]

MemoryTypes == memory \in Seq(Line) /\ pen \in [Writers -> PenRow]
BookTypes ==
  /\ evidence \in [Runs -> Nat] /\ pinned \in [Runs -> Nat]
  /\ keeper \in [Keepers -> KeeperRow]

\* The one writer inside the lock follows the last line.
OnePen ==
  /\ \A w \in Writers : pen[w].pc = "locked" => pen[w].follows = Len(memory)
  /\ \A v, w \in Writers : pen[v].pc = "locked" /\ pen[w].pc = "locked" => v = w

ChainInv == MemoryTypes /\ BookTypes /\ OnePen /\ ChainIntact

-----------------------------------------------------------------------------
(* The chain of the memory *)

LEMMA MemoryUntouched ==
  ASSUME ChainInv, UNCHANGED memoryVars, BookTypes', archive' = archive
  PROVE  ChainInv'
BY DEF ChainInv, MemoryTypes, OnePen, ChainIntact, Readable, memoryVars

\* One writer's pen.
LEMMA PenMoves ==
  ASSUME ChainInv, NEW w \in Writers, NEW x \in PenRow, pen' = [pen EXCEPT ![w] = x],
         UNCHANGED <<memory, runVars, keeper, archive>>,
         x.pc = "locked" => x.follows = Len(memory) /\ Lockable(w)
  PROVE  ChainInv'
<1>1. pen' \in [Writers -> PenRow] /\ pen'[w] = x /\ \A v \in Writers : v # w => pen'[v] = pen[v]
  BY DEF ChainInv, MemoryTypes
<1>2. OnePen'
  BY <1>1 DEF ChainInv, OnePen, Lockable
<1> QED
  BY <1>1, <1>2 DEF ChainInv, MemoryTypes, BookTypes, ChainIntact, Readable, runVars

LEMMA MemoryStep ==
  ASSUME ChainInv, MemoryNext, UNCHANGED <<runVars, keeper, archive>>
  PROVE  ChainInv'
<1>0. NoPen \in PenRow /\ NoPen.pc = "idle"
  BY DEF NoPen, PenRow, Words
<1>1. ASSUME NEW w \in Writers, NEW lesson \in Lessons, NEW status \in Words, Means(w, lesson, status),
             UNCHANGED memory
      PROVE  ChainInv'
  <2> DEFINE x == [NoPen EXCEPT !.pc = "appending", !.lesson = lesson, !.status = status]
  <2>1. x \in PenRow /\ x.pc = "appending"
    BY DEF NoPen, PenRow
  <2>2. pen' = [pen EXCEPT ![w] = x]
    BY <1>1 DEF Means
  <2> HIDE DEF x
  <2> QED
    BY <1>1, <2>1, <2>2, PenMoves
<1>2. ASSUME NEW w \in Authors, NEW lesson \in Lessons, Propose(w, lesson) PROVE ChainInv'
  BY <1>1, <1>2 DEF Propose, Writers, Words
<1>3. ASSUME NEW w \in People, NEW lesson \in Lessons, NEW status \in Decisions, Decide(w, lesson, status)
      PROVE  ChainInv'
  BY <1>1, <1>3 DEF Decide, Writers, Words
<1>4. ASSUME NEW w \in Writers, LockFile(w) PROVE ChainInv'
  <2> DEFINE x == [pen[w] EXCEPT !.pc = "locked", !.follows = Len(memory)]
  <2>1. x \in PenRow /\ x.pc = "locked" /\ x.follows = Len(memory)
    <3>1. pen[w] \in PenRow /\ Len(memory) \in Nat
      BY DEF ChainInv, MemoryTypes
    <3> QED
      BY <3>1 DEF PenRow
  <2> HIDE DEF x
  <2>2. CASE pen' = [pen EXCEPT ![w] = x]
    BY <1>4, <2>1, <2>2, PenMoves DEF LockFile
  <2>3. CASE pen' = [pen EXCEPT ![w] = NoPen]
    BY <1>0, <1>4, <2>3, PenMoves DEF LockFile
  <2> QED
    BY <1>4, <2>2, <2>3 DEF LockFile, x, ChainInv, MemoryTypes
<1>5. ASSUME NEW w \in Writers, LetGo(w) PROVE ChainInv'
  BY <1>0, <1>5, PenMoves DEF LetGo
<1>6. ASSUME NEW w \in Writers, AppendRecord(w) PROVE ChainInv'
  <2> DEFINE line == [lesson |-> pen[w].lesson, status |-> pen[w].status, follows |-> pen[w].follows]
  <2>1. line \in Line /\ line.follows = Len(memory) /\ memory \in Seq(Line) /\ Readable
    BY <1>6 DEF AppendRecord, ChainInv, MemoryTypes, OnePen, ChainIntact, PenRow, Line
  <2>2. memory' = Append(memory, line)
    BY <1>6 DEF AppendRecord
  <2> HIDE DEF line
  <2>3. /\ memory' \in Seq(Line) /\ Len(memory') = Len(memory) + 1
        /\ memory'[Len(memory) + 1] = line /\ \A i \in 1 .. Len(memory) : memory'[i] = memory[i]
    BY <2>1, <2>2
  <2>4. Readable'
    BY <2>1, <2>3 DEF Readable, ReadRecords
  <2>5. /\ pen' \in [Writers -> PenRow] /\ pen'[w] = NoPen
        /\ \A v \in Writers : v # w => pen'[v] = pen[v]
    BY <1>0, <1>6 DEF AppendRecord, ChainInv, MemoryTypes
  <2>6. OnePen'
    BY <1>0, <1>6, <2>5 DEF AppendRecord, ChainInv, OnePen
  <2> QED
    BY <1>6, <2>3, <2>4, <2>5, <2>6 DEF ChainInv, MemoryTypes, BookTypes, ChainIntact, runVars
<1> QED
  BY <1>2, <1>3, <1>4, <1>5, <1>6, Zenon DEF MemoryNext

-----------------------------------------------------------------------------
(* The backups *)

\* Where a backup that saw no run move stands: what it read of a run is still so.
Read(k, r) ==
  /\ (keeper[k].pc = "verifying" /\ <<"log", r>> \notin keeper[k].todo) =>
       /\ keeper[k].held.logs[r] = pinned[r]
       /\ (pinned[r] # 0 /\ <<"file", r>> \notin keeper[k].todo /\ keeper[k].held.sound) =>
            evidence[r] = pinned[r]
  /\ keeper[k].pc = "adding" =>
       /\ (keeper[k].held.sound /\ pinned[r] # 0) => evidence[r] = pinned[r]
       /\ <<"log", r>> \notin keeper[k].todo => keeper[k].held.logs[r] = pinned[r]
       /\ <<"file", r>> \notin keeper[k].todo => keeper[k].held.files[r] = evidence[r]

StillSo == \A k \in Keepers : ~stirred[k] => \A r \in Runs : Read(k, r)

LEMMA Rows == Empty \in Held /\ Resting \in KeeperRow /\ Resting.pc = "idle"
BY DEF Empty, Resting, Held, KeeperRow

\* One backup's own step.
LEMMA KeeperMoves ==
  ASSUME ChainInv, NEW k \in Keepers, NEW x \in KeeperRow, keeper' = [keeper EXCEPT ![k] = x],
         UNCHANGED <<memoryVars, runVars>>, archive' = archive \/ ReadRecords(archive'.memory)
  PROVE  /\ ChainInv'
         /\ keeper'[k] = x /\ \A j \in Keepers : j # k => keeper'[j] = keeper[j]
BY DEF ChainInv, MemoryTypes, BookTypes, OnePen, ChainIntact, Readable, memoryVars, runVars

\* What the others read is still so after it.
LEMMA OthersStillSo ==
  ASSUME StillSo, NEW k \in Keepers, UNCHANGED runVars,
         \A j \in Keepers : j # k => keeper'[j] = keeper[j] /\ stirred'[j] = stirred[j],
         ~stirred'[k] => \A r \in Runs : Read(k, r)'
  PROVE  StillSo'
<1> SUFFICES ASSUME NEW j \in Keepers, ~stirred'[j], NEW r \in Runs PROVE Read(j, r)'
  BY DEF StillSo
<1>1. CASE j = k
  BY <1>1
<1>2. CASE j # k
  BY <1>2 DEF StillSo, Read, runVars
<1> QED
  BY <1>1, <1>2

LEMMA StartStep ==
  ASSUME ChainInv, NEW k \in Keepers, StartBackup(k)
  PROVE  ChainInv' /\ (StillSo => StillSo')
<1> DEFINE x == [Resting EXCEPT !.pc = "verifying", !.todo = {"log"} \X Runs]
<1>1. x \in KeeperRow /\ x.pc = "verifying" /\ x.todo = {"log"} \X Runs
  <2>1. Resting \in KeeperRow /\ {"log"} \X Runs \subseteq Parts \X Runs
    BY Rows DEF Parts
  <2> QED
    BY <2>1 DEF KeeperRow
<1> HIDE DEF x
<1>2. /\ ChainInv' /\ keeper'[k] = x
      /\ \A j \in Keepers : j # k => keeper'[j] = keeper[j]
  BY <1>1, KeeperMoves DEF StartBackup, x
<1>3. \A r \in Runs : Read(k, r)'
  BY <1>1, <1>2 DEF Read
<1> QED
  BY <1>2, <1>3, OthersStillSo DEF StartBackup

LEMMA ReadLogStep ==
  ASSUME ChainInv, NEW k \in Keepers, NEW r \in Runs, ReadLog(k, r)
  PROVE  ChainInv' /\ (StillSo => StillSo')
<1> DEFINE old == keeper[k]
           x == [old EXCEPT !.held.logs[r] = pinned[r],
                  !.todo = (@ \ {<<"log", r>>}) \cup (IF pinned[r] = 0 THEN {} ELSE {<<"file", r>>})]
<1>0. old \in KeeperRow /\ old.pc = "verifying" /\ pinned[r] \in Nat
  BY DEF ReadLog, ChainInv, BookTypes
<1>1. /\ x \in KeeperRow /\ x.pc = "verifying" /\ x.held.sound = old.held.sound
      /\ x.held.logs[r] = pinned[r] /\ \A q \in Runs : q # r => x.held.logs[q] = old.held.logs[q]
      /\ x.todo = (old.todo \ {<<"log", r>>}) \cup (IF pinned[r] = 0 THEN {} ELSE {<<"file", r>>})
  <2> DEFINE logs == [old.held.logs EXCEPT ![r] = pinned[r]]
             held == [old.held EXCEPT !.logs = logs]
             todo == (old.todo \ {<<"log", r>>}) \cup (IF pinned[r] = 0 THEN {} ELSE {<<"file", r>>})
  <2>1. /\ logs \in [Runs -> Nat] /\ logs[r] = pinned[r]
        /\ \A q \in Runs : q # r => logs[q] = old.held.logs[q]
    BY <1>0 DEF KeeperRow, Held
  <2>2. held \in Held /\ held.logs = logs /\ held.sound = old.held.sound
    BY <1>0, <2>1 DEF KeeperRow, Held
  <2>3. todo \subseteq Parts \X Runs
    BY <1>0 DEF KeeperRow, Parts
  <2>4. x = [old EXCEPT !.held = held, !.todo = todo]
    BY <1>0 DEF KeeperRow, Held
  <2> HIDE DEF logs, held, todo, x
  <2>5. x \in KeeperRow /\ x.pc = "verifying" /\ x.held = held /\ x.todo = todo
    BY <1>0, <2>2, <2>3, <2>4 DEF KeeperRow
  <2> QED
    BY <2>1, <2>2, <2>5 DEF todo
<1>2. keeper' = [keeper EXCEPT ![k] = x]
  BY DEF ReadLog, ChainInv, BookTypes
<1> HIDE DEF x
<1>3. /\ ChainInv' /\ keeper'[k] = x
      /\ \A j \in Keepers : j # k => keeper'[j] = keeper[j]
  BY ZenonT(30), <1>1, <1>2, KeeperMoves DEF ReadLog
<1>4. ASSUME StillSo, ~stirred'[k], NEW q \in Runs PROVE Read(k, q)'
  <2>1. UNCHANGED <<runVars, stirred>>
    BY DEF ReadLog
  <2>2. Read(k, q)
    BY <1>4, <2>1 DEF StillSo
  <2>3. CASE q = r
    BY <1>1, <1>3, <2>1, <2>3 DEF Read, runVars
  <2>4. CASE q # r
    BY <1>0, <1>1, <1>3, <2>1, <2>2, <2>4 DEF Read, runVars
  <2> QED
    BY <2>3, <2>4
<1> QED
  BY <1>3, <1>4, OthersStillSo DEF ReadLog

LEMMA CheckEvidenceStep ==
  ASSUME ChainInv, NEW k \in Keepers, NEW r \in Runs, CheckEvidence(k, r)
  PROVE  ChainInv' /\ (StillSo => StillSo')
<1> DEFINE old == keeper[k]
           x == [old EXCEPT !.held.sound = @ /\ Matches(k, r), !.todo = @ \ {<<"file", r>>}]
<1>0. old \in KeeperRow /\ old.pc = "verifying" /\ Matches(k, r) \in BOOLEAN
  BY DEF CheckEvidence, ChainInv, BookTypes, Matches
<1>1. /\ x \in KeeperRow /\ x.pc = "verifying" /\ x.held.logs = old.held.logs
      /\ x.held.sound = (old.held.sound /\ Matches(k, r))
      /\ x.todo = old.todo \ {<<"file", r>>}
  BY <1>0 DEF KeeperRow, Held
<1>2. keeper' = [keeper EXCEPT ![k] = x]
  BY DEF CheckEvidence, ChainInv, BookTypes
<1> HIDE DEF x
<1>3. /\ ChainInv' /\ keeper'[k] = x
      /\ \A j \in Keepers : j # k => keeper'[j] = keeper[j]
  BY <1>1, <1>2, KeeperMoves DEF CheckEvidence
<1>4. ASSUME StillSo, ~stirred'[k], NEW q \in Runs PROVE Read(k, q)'
  <2>1. UNCHANGED <<runVars, stirred>>
    BY DEF CheckEvidence
  <2>2. Read(k, q)
    BY <1>4, <2>1 DEF StillSo
  <2>3. x.held.sound => old.held.sound /\ (q = r => evidence[q] = old.held.logs[q])
    BY <1>1 DEF Matches, Check
  <2>4. <<"log", q>> \in x.todo <=> <<"log", q>> \in old.todo
    BY <1>1
  <2>5. q # r => (<<"file", q>> \in x.todo <=> <<"file", q>> \in old.todo)
    BY <1>1
  <2> QED
    BY <1>0, <1>1, <1>3, <2>1, <2>2, <2>3, <2>4, <2>5 DEF Read, runVars
<1> QED
  BY <1>3, <1>4, OthersStillSo DEF CheckEvidence

LEMMA CheckMemoryStep ==
  ASSUME ChainInv, NEW k \in Keepers, CheckMemory(k)
  PROVE  ChainInv' /\ (StillSo => StillSo')
<1> DEFINE old == keeper[k]
           x == [pc |-> "adding", todo |-> Parts \X Runs,
                 held |-> [Empty EXCEPT !.sound = Check(k).sound /\ Readable]]
<1>0. old \in KeeperRow /\ old.pc = "verifying" /\ old.todo = {} /\ Readable
  BY DEF CheckMemory, ChainInv, BookTypes, ChainIntact
<1>1. /\ x \in KeeperRow /\ x.pc = "adding" /\ x.todo = Parts \X Runs
      /\ x.held.sound => old.held.sound
  <2>1. (Check(k).sound /\ Readable) \in BOOLEAN
    BY <1>0 DEF Check, KeeperRow, Held
  <2>2. [Empty EXCEPT !.sound = Check(k).sound /\ Readable] \in Held
    BY <2>1, Rows DEF Held
  <2> QED
    BY <2>2 DEF KeeperRow, Check, Empty
<1> HIDE DEF x
<1>2. /\ ChainInv' /\ keeper'[k] = x
      /\ \A j \in Keepers : j # k => keeper'[j] = keeper[j]
  BY <1>1, KeeperMoves DEF CheckMemory, x
<1>3. ASSUME StillSo, ~stirred'[k], NEW q \in Runs PROVE Read(k, q)'
  <2>1. UNCHANGED <<runVars, stirred>>
    BY DEF CheckMemory
  <2>2. Read(k, q)
    BY <1>3, <2>1 DEF StillSo
  <2>3. <<"log", q>> \in x.todo /\ <<"file", q>> \in x.todo
    BY <1>1 DEF Parts
  <2> QED
    BY <1>0, <1>1, <1>2, <2>1, <2>2, <2>3 DEF Read, runVars
<1> QED
  BY <1>2, <1>3, OthersStillSo DEF CheckMemory

\* What adding one file leaves of what a backup holds.
LEMMA HeldChanges ==
  ASSUME NEW h \in Held, NEW r \in Runs, NEW n \in Nat, NEW g
  PROVE  /\ g = [h EXCEPT !.logs[r] = n] =>
              /\ g \in Held /\ g.sound = h.sound /\ g.files = h.files
              /\ g.logs[r] = n /\ \A q \in Runs : q # r => g.logs[q] = h.logs[q]
         /\ g = [h EXCEPT !.files[r] = n] =>
              /\ g \in Held /\ g.sound = h.sound /\ g.logs = h.logs
              /\ g.files[r] = n /\ \A q \in Runs : q # r => g.files[q] = h.files[q]
<1>1. /\ [h.logs EXCEPT ![r] = n] \in [Runs -> Nat]
      /\ [h.files EXCEPT ![r] = n] \in [Runs -> Nat]
  BY DEF Held
<1> QED
  BY <1>1 DEF Held

LEMMA AddFileStep ==
  ASSUME ChainInv, NEW k \in Keepers, NEW part \in Parts, NEW r \in Runs, AddFile(k, part, r)
  PROVE  ChainInv' /\ (EvidenceInRuns /\ StillSo => StillSo')
<1> DEFINE old == keeper[k]
           n == Contents(part, r)
           held == IF part = "log" THEN [old.held EXCEPT !.logs[r] = n] ELSE [old.held EXCEPT !.files[r] = n]
           x == [old EXCEPT !.todo = @ \ {<<part, r>>}, !.held = held]
<1>0. /\ old \in KeeperRow /\ old.held \in Held /\ old.pc = "adding" /\ n \in Nat
  BY DEF AddFile, ChainInv, BookTypes, Contents, Parts, KeeperRow
<1>1. keeper' = [keeper EXCEPT ![k] = x]
  BY DEF AddFile, ChainInv, BookTypes
<1> HIDE DEF n
<1>2. /\ held \in Held /\ held.sound = old.held.sound
      /\ part = "log" => held.files = old.held.files /\ held.logs[r] = n
                         /\ \A q \in Runs : q # r => held.logs[q] = old.held.logs[q]
      /\ part # "log" => held.logs = old.held.logs /\ held.files[r] = n
                         /\ \A q \in Runs : q # r => held.files[q] = old.held.files[q]
  <2>1. CASE part = "log"
    BY SMTT(30), <1>0, <2>1, HeldChanges
  <2>2. CASE part # "log"
    <3>1. held = [old.held EXCEPT !.files[r] = n]
      BY <2>2
    <3> HIDE DEF held
    <3> QED
      BY SMTT(30), <1>0, <2>2, <3>1, HeldChanges
  <2> QED
    BY <2>1, <2>2
<1> HIDE DEF held
<1>3. x \in KeeperRow /\ x.pc = "adding" /\ x.todo = old.todo \ {<<part, r>>} /\ x.held = held
  BY <1>0, <1>2 DEF KeeperRow
<1> HIDE DEF x
<1>4. /\ ChainInv' /\ keeper'[k] = x
      /\ \A j \in Keepers : j # k => keeper'[j] = keeper[j]
  BY <1>1, <1>3, KeeperMoves DEF AddFile
<1>5. ASSUME EvidenceInRuns, StillSo, ~stirred'[k], NEW q \in Runs PROVE Read(k, q)'
  <2>1. UNCHANGED <<runVars, stirred>>
    BY DEF AddFile
  <2>2. Read(k, q)
    BY <1>5, <2>1 DEF StillSo
  <2>3. /\ part = "log" => n = pinned[r]
        /\ part # "log" => n = evidence[r]
    BY <1>5 DEF Contents, n
  <2>4. /\ <<"log", q>> \notin x.todo => <<"log", q>> \notin old.todo \/ (part = "log" /\ q = r)
        /\ <<"file", q>> \notin x.todo => <<"file", q>> \notin old.todo \/ (part # "log" /\ q = r)
    BY <1>3
  <2> QED
    BY <1>0, <1>2, <1>3, <1>4, <2>1, <2>2, <2>3, <2>4 DEF Read, runVars
<1> QED
  BY <1>4, <1>5, OthersStillSo DEF AddFile

LEMMA CloseStep ==
  ASSUME ChainInv, NEW k \in Keepers, CloseArchive(k)
  PROVE  ChainInv' /\ (StillSo => StillSo')
<1>1. ReadRecords(archive'.memory)
  <2>1. Check(k) \in Held /\ Readable
    BY DEF ChainInv, BookTypes, KeeperRow, Check, ChainIntact
  <2>2. archive'.memory = memory
    BY <2>1 DEF CloseArchive, Held
  <2> QED
    BY <2>1, <2>2 DEF Readable
<1>2. /\ ChainInv' /\ keeper'[k] = Resting
      /\ \A j \in Keepers : j # k => keeper'[j] = keeper[j]
  BY <1>1, Rows, KeeperMoves DEF CloseArchive
<1>3. \A r \in Runs : Read(k, r)'
  BY <1>2, Rows DEF Read
<1>4. StillSo => \A j \in Keepers : j # k => stirred'[j] = stirred[j]
  BY DEF CloseArchive
<1> QED
  BY <1>2, <1>3, <1>4, OthersStillSo DEF CloseArchive

\* A department's work makes every reading in progress an old one.
LEMMA WorkStep ==
  ASSUME ChainInv, NEW r \in Runs, WriteEvidence(r) \/ HandOver(r)
  PROVE  ChainInv' /\ StillSo'
<1>1. BookTypes' /\ UNCHANGED memoryVars /\ archive' = archive
  BY DEF WriteEvidence, HandOver, ChainInv, BookTypes
<1>2. \A k \in Keepers : stirred'[k] \/ keeper'[k].pc = "idle"
  BY DEF WriteEvidence, HandOver, Stirs
<1> QED
  BY <1>1, <1>2, MemoryUntouched DEF StillSo, Read

-----------------------------------------------------------------------------
LEMMA InitInv == Init => ChainInv /\ StillSo
<1> SUFFICES ASSUME Init PROVE ChainInv /\ StillSo
  OBVIOUS
<1>1. NoPen \in PenRow /\ NoPen.pc = "idle"
  BY DEF NoPen, PenRow, Words
<1>2. memory = << >> /\ archive = NoArchive
  BY DEF Init, MemoryInit
<1>3. MemoryTypes /\ OnePen /\ ChainIntact
  BY <1>1, <1>2 DEF Init, MemoryInit, MemoryTypes, OnePen, ChainIntact, Readable, ReadRecords
<1>4. BookTypes /\ StillSo
  BY Rows DEF Init, BookTypes, StillSo, Read
<1> QED
  BY <1>3, <1>4 DEF ChainInv

LEMMA ArchivingStep ==
  ASSUME ChainInv, NEW k \in Keepers, Archiving(k)
  PROVE  ChainInv' /\ (EvidenceInRuns /\ StillSo => StillSo')
<1>1. ASSUME NEW r \in Runs, NEW part \in Parts, AddFile(k, part, r)
      PROVE  ChainInv' /\ (EvidenceInRuns /\ StillSo => StillSo')
  BY <1>1, AddFileStep
<1>2. ASSUME NEW r \in Runs, ReadLog(k, r) \/ CheckEvidence(k, r)
      PROVE  ChainInv' /\ (EvidenceInRuns /\ StillSo => StillSo')
  BY <1>2, ReadLogStep, CheckEvidenceStep
<1>3. ASSUME StartBackup(k) \/ CheckMemory(k) \/ CloseArchive(k)
      PROVE  ChainInv' /\ (EvidenceInRuns /\ StillSo => StillSo')
  BY <1>3, StartStep, CheckMemoryStep, CloseStep
<1> QED
  BY <1>1, <1>2, <1>3, Zenon DEF Archiving

LEMMA NextInv ==
  ASSUME ChainInv, [Next]_vars
  PROVE  ChainInv' /\ (EvidenceInRuns /\ StillSo => StillSo')
<1>1. CASE MemoryNext /\ UNCHANGED <<runVars, keeper, archive, stirred>>
  <2>1. StillSo => StillSo'
    BY <1>1 DEF StillSo, Read, runVars
  <2> QED
    BY <1>1, <2>1, MemoryStep
<1>2. ASSUME NEW r \in Runs, WriteEvidence(r) \/ HandOver(r)
      PROVE  ChainInv' /\ StillSo'
  BY <1>2, WorkStep
<1>3. CASE UNCHANGED vars
  <2>1. BookTypes'
    BY <1>3 DEF ChainInv, BookTypes, vars, runVars
  <2>2. StillSo => StillSo'
    BY <1>3 DEF StillSo, Read, runVars, vars
  <2> QED
    BY <1>3, <2>1, <2>2, MemoryUntouched DEF vars
<1> QED
  BY <1>1, <1>2, <1>3, ArchivingStep, Zenon DEF Next

LEMMA AlwaysInv == Spec => []ChainInv
<1>1. Init => ChainInv
  BY InitInv
<1>2. ChainInv /\ [Next]_vars => ChainInv'
  BY NextInv
<1> QED
  BY <1>1, <1>2, PTL DEF Spec

\* The memory's chain never breaks, nor does that of any archive taken of it.
THEOREM ChainNeverBreaks == Spec => []ChainIntact
<1>1. ChainInv => ChainIntact
  BY DEF ChainInv
<1> QED
  BY <1>1, AlwaysInv, PTL

\* Only the closing of the archive ends a backup that was adding files.
LEMMA OnlyClosingEnds ==
  ASSUME ChainInv, [Next]_vars, NEW k \in Keepers, keeper[k].pc = "adding", keeper'[k].pc = "idle"
  PROVE  CloseArchive(k)
<1>1. keeper' # keeper
  OBVIOUS
<1>2. ASSUME NEW j \in Keepers, Archiving(j), ~CloseArchive(j) PROVE FALSE
  <2>0. keeper \in [Keepers -> KeeperRow]
    BY DEF ChainInv, BookTypes
  <2>1. \A i \in Keepers : i # j => keeper'[i] = keeper[i]
    BY <1>2, <2>0 DEF Archiving, StartBackup, CheckMemory, ReadLog, CheckEvidence, AddFile
  <2>2. j = k
    BY <2>1
  <2>3. keeper'[j].pc # "idle"
    BY <1>2, <2>0 DEF Archiving, StartBackup, CheckMemory, ReadLog, CheckEvidence, AddFile, KeeperRow
  <2> QED
    BY <2>2, <2>3
<1>3. ASSUME NEW j \in Keepers, CloseArchive(j) PROVE j = k
  BY <1>3 DEF CloseArchive, ChainInv, BookTypes
<1>4. ~MemoryNext \/ ~UNCHANGED keeper
  BY <1>1
<1>5. ASSUME NEW r \in Runs, WriteEvidence(r) \/ HandOver(r) PROVE FALSE
  BY <1>1, <1>5 DEF WriteEvidence, HandOver
<1>6. CASE UNCHANGED vars
  BY <1>1, <1>6 DEF vars
<1> QED
  BY <1>1, <1>2, <1>3, <1>5, <1>6 DEF Next

\* While the evidence is kept beside the logs, a backup that was sound and quiet is faithful.
THEOREM QuietArchives == EvidenceInRuns => (Spec => QuietArchiveIsFaithful)
<1> SUFFICES ASSUME EvidenceInRuns PROVE Spec => QuietArchiveIsFaithful
  OBVIOUS
<1>1. Init => ChainInv /\ StillSo
  BY InitInv
<1>2. (ChainInv /\ StillSo) /\ [Next]_vars => (ChainInv /\ StillSo)'
  BY NextInv
<1>3. ASSUME ChainInv, StillSo, [Next]_vars, NEW k \in Keepers,
             keeper[k].pc = "adding", keeper'[k].pc = "idle", ~stirred[k], archive'.sound
      PROVE  Faithful(archive')
  <2>1. CloseArchive(k)
    BY <1>3, OnlyClosingEnds
  <2>2. Check(k) \in Held
    BY <1>3 DEF ChainInv, BookTypes, KeeperRow, Check
  <2>3. /\ archive'.sound = keeper[k].held.sound /\ archive'.logs = keeper[k].held.logs
        /\ archive'.files = keeper[k].held.files /\ keeper[k].todo = {}
    BY <2>1, <2>2 DEF CloseArchive, Check, Held
  <2>4. \A r \in Runs : Read(k, r)
    BY <1>3 DEF StillSo
  <2> QED
    BY <1>3, <2>3, <2>4 DEF Faithful, Read
<1>4. ChainInv /\ StillSo /\ [Next]_vars =>
        [\A k \in Keepers :
           (keeper[k].pc = "adding" /\ keeper'[k].pc = "idle" /\ ~stirred[k] /\ archive'.sound)
             => Faithful(archive')]_vars
  BY <1>3
<1> QED
  BY <1>1, <1>2, <1>4, PTL DEF Spec, QuietArchiveIsFaithful
=============================================================================
