------------------------------- MODULE Archive -------------------------------
(***************************************************************************)
(* The archive that durability.py takes of the runs' logs, their evidence  *)
(* files and the memory while all of them are in use.  A run is here the   *)
(* hand-over of one step: its evidence file is written first, and then its *)
(* log takes the file's hash (executor_core.write_evidence, complete).     *)
(***************************************************************************)
EXTENDS CompanyMemory

CONSTANTS
  Runs,
  Keepers,        \* processes that run durability backup
  NoArchive,
  EvidenceInRuns, \* whether EVIDENCE_DIR is under core.RUNS, which MYORG_RUNS_DIR may move
  MaxDrafts       \* bound: contents written to a run's evidence file

ASSUME ArchiveAssumption ==
  EvidenceInRuns \in BOOLEAN /\ MaxDrafts \in Nat /\ MaxRecords \in Nat

VARIABLES
  evidence,  \* [Runs -> the content of the run's evidence file, 0 for none]
  pinned,    \* [Runs -> the content the last event of its log names, 0 for none]
  keeper,    \* [Keepers -> where a backup is, what it has yet to visit and what it holds]
  archive,   \* the latest finished archive
  stirred    \* history: [Keepers -> a run or its file changed since the backup began]

runVars == <<evidence, pinned>>
vars == <<memoryVars, runVars, keeper, archive, stirred>>

Empty == [sound |-> TRUE, logs |-> [r \in Runs |-> 0], files |-> [r \in Runs |-> 0], memory |-> << >>]
Resting == [pc |-> "idle", todo |-> {}, held |-> Empty]

Init ==
  /\ MemoryInit
  /\ evidence = [r \in Runs |-> 0]
  /\ pinned = [r \in Runs |-> 0]
  /\ keeper = [k \in Keepers |-> Resting]
  /\ archive = NoArchive
  /\ stirred = [k \in Keepers |-> FALSE]

-----------------------------------------------------------------------------
(* A department's work *)

Stirs == stirred' = [k \in Keepers |-> keeper[k].pc # "idle"]

WriteEvidence(r) ==
  /\ evidence[r] < MaxDrafts
  /\ evidence' = [evidence EXCEPT ![r] = @ + 1]
  /\ Stirs /\ UNCHANGED <<memoryVars, pinned, keeper, archive>>

HandOver(r) ==
  /\ evidence[r] # 0
  /\ pinned' = [pinned EXCEPT ![r] = evidence[r]]
  /\ Stirs /\ UNCHANGED <<memoryVars, evidence, keeper, archive>>

-----------------------------------------------------------------------------
(* verify, and backup *)

Check(k) == keeper[k].held
Parts == {"log", "file"}

StartBackup(k) ==
  /\ keeper[k].pc = "idle"
  /\ keeper' = [keeper EXCEPT ![k] = [Resting EXCEPT !.pc = "verifying", !.todo = {"log"} \X Runs]]
  /\ UNCHANGED <<memoryVars, runVars, archive, stirred>>

\* read_events, then check_evidence: the state names a file, and its hash
ReadLog(k, r) ==
  /\ keeper[k].pc = "verifying" /\ <<"log", r>> \in keeper[k].todo
  /\ keeper' = [keeper EXCEPT ![k].held.logs[r] = pinned[r],
       ![k].todo = (@ \ {<<"log", r>>}) \cup (IF pinned[r] = 0 THEN {} ELSE {<<"file", r>>})]
  /\ UNCHANGED <<memoryVars, runVars, archive, stirred>>

NamesAFile(k, r) == evidence[r] # 0  \* mutant: a file of that name is there
Matches(k, r) == evidence[r] = Check(k).logs[r]
CheckEvidence(k, r) ==
  /\ keeper[k].pc = "verifying" /\ <<"file", r>> \in keeper[k].todo
  /\ keeper' = [keeper EXCEPT ![k].held.sound = @ /\ Matches(k, r), ![k].todo = @ \ {<<"file", r>>}]
  /\ UNCHANGED <<memoryVars, runVars, archive, stirred>>

\* check_memory, and the archive is opened
CheckMemory(k) ==
  /\ keeper[k].pc = "verifying" /\ keeper[k].todo = {}
  /\ keeper' = [keeper EXCEPT ![k] = [pc |-> "adding", todo |-> Parts \X Runs,
                                      held |-> [Empty EXCEPT !.sound = Check(k).sound /\ Readable]]]
  /\ UNCHANGED <<memoryVars, runVars, archive, stirred>>

\* archive.add takes the runs' directory file by file: the evidence of a step before or
\* after the log of its run.
Contents(part, r) ==
  IF part = "log" THEN pinned[r] ELSE IF EvidenceInRuns THEN evidence[r] ELSE 0
AddFile(k, part, r) ==
  /\ keeper[k].pc = "adding" /\ <<part, r>> \in keeper[k].todo
  /\ keeper' = [keeper EXCEPT ![k].todo = @ \ {<<part, r>>},
       ![k].held = IF part = "log" THEN [@ EXCEPT !.logs[r] = Contents(part, r)]
                                   ELSE [@ EXCEPT !.files[r] = Contents(part, r)]]
  /\ UNCHANGED <<memoryVars, runVars, archive, stirred>>

\* The memory's directory and the manifest, and the archive is closed.
CloseArchive(k) ==
  /\ keeper[k].pc = "adding" /\ keeper[k].todo = {}
  /\ archive' = [Check(k) EXCEPT !.memory = memory]
  /\ keeper' = [keeper EXCEPT ![k] = Resting]
  /\ stirred' = [stirred EXCEPT ![k] = FALSE]
  /\ UNCHANGED <<memoryVars, runVars>>

-----------------------------------------------------------------------------
Archiving(k) ==
  \/ StartBackup(k) \/ CheckMemory(k) \/ CloseArchive(k)
  \/ \E r \in Runs : \/ ReadLog(k, r) \/ CheckEvidence(k, r)
                     \/ \E part \in Parts : AddFile(k, part, r)

Next ==
  \/ MemoryNext /\ UNCHANGED <<runVars, keeper, archive, stirred>>
  \/ \E r \in Runs : WriteEvidence(r) \/ HandOver(r)
  \/ \E k \in Keepers : Archiving(k)

Spec == Init /\ [][Next]_vars
=============================================================================
