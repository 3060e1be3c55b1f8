---------------------------- MODULE CompanyMemory ----------------------------
(***************************************************************************)
(* What the company has learned (memory.py): one append-only chained file, *)
(* to which checkers offer lessons and in which people keep or discard     *)
(* them.  A writer decides what to append from a reading of the file, and  *)
(* appends under the file's lock, where it reads the file again for the    *)
(* hash its line has to follow.                                            *)
(***************************************************************************)
EXTENDS Integers, Sequences, FiniteSets

CONSTANTS
  Lessons,     \* a lesson is its subject and its words
  Authors,     \* drivers whose checkers turn work down
  People,      \* requests of people who decide
  MaxRecords   \* bound: lines of the file

VARIABLES
  memory,   \* the file: records [lesson, status, follows]
  pen       \* [Writers -> the append a process is about to make]

memoryVars == <<memory, pen>>
Writers == Authors \cup People

Decisions == {"approved", "rejected", "retired"}
NoPen == [pc |-> "idle", lesson |-> "none", status |-> "none", follows |-> 0]

MemoryInit ==
  /\ memory = << >>
  /\ pen = [w \in Writers |-> NoPen]

\* read_records refuses a file in which a line does not follow the one before it.
ReadRecords(file) == \A k \in DOMAIN file : file[k].follows = k - 1
Readable == ReadRecords(memory)

\* current: the latest record of a lesson is what the company holds of it
Current(lesson) ==
  LET at == {k \in DOMAIN memory : memory[k].lesson = lesson}
  IN IF at = {} THEN "unknown" ELSE memory[CHOOSE k \in at : \A j \in at : j <= k].status

Means(w, lesson, status) ==
  pen' = [pen EXCEPT ![w] = [NoPen EXCEPT !.pc = "appending", !.lesson = lesson, !.status = status]]

\* propose: a lesson the company holds, or has been offered, is not offered again
Propose(w, lesson) ==
  /\ pen[w].pc = "idle" /\ Len(memory) < MaxRecords
  /\ Readable /\ Current(lesson) \notin {"proposed", "approved"}
  /\ Means(w, lesson, "proposed")
  /\ UNCHANGED memory

\* decide: of any lesson that was ever offered
Decide(w, lesson, status) ==
  /\ pen[w].pc = "idle" /\ Len(memory) < MaxRecords
  /\ Readable /\ Current(lesson) # "unknown"
  /\ Means(w, lesson, status)
  /\ UNCHANGED memory

\* append_record, once the lock is its own
Unlocked(w) == TRUE  \* mutant: the file is read for its last hash before it is locked
Lockable(w) == \A v \in Writers : pen[v].pc # "locked"
LockFile(w) ==
  /\ pen[w].pc = "appending" /\ Lockable(w)
  /\ pen' = [pen EXCEPT ![w] = IF Readable THEN [@ EXCEPT !.pc = "locked", !.follows = Len(memory)] ELSE NoPen]
  /\ UNCHANGED memory

AppendRecord(w) ==
  /\ pen[w].pc = "locked"
  /\ memory' = Append(memory, [lesson |-> pen[w].lesson, status |-> pen[w].status, follows |-> pen[w].follows])
  /\ pen' = [pen EXCEPT ![w] = NoPen]

\* The process dies, or has waited for the lock long enough: the lock goes with it.
LetGo(w) ==
  /\ pen[w].pc # "idle"
  /\ pen' = [pen EXCEPT ![w] = NoPen]
  /\ UNCHANGED memory

MemoryNext ==
  \/ \E w \in Authors, lesson \in Lessons : Propose(w, lesson)
  \/ \E w \in People, lesson \in Lessons, status \in Decisions : Decide(w, lesson, status)
  \/ \E w \in Writers : LockFile(w) \/ AppendRecord(w) \/ LetGo(w)
=============================================================================
