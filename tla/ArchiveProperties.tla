-------------------------- MODULE ArchiveProperties --------------------------
(* What the memory and the archives of the company's books have to guarantee. *)
EXTENDS Archive

(* Every line of the memory follows the one before it, in the file and in every archive  *)
(* of it: two writers who read the same last hash would end the file for all its readers *)
(* (read_records "refusing the file outright if the chain is broken").                   *)
ChainIntact == Readable /\ (archive # NoArchive => ReadRecords(archive.memory))

Faithful(a) == \A r \in Runs : a.logs[r] # 0 => a.files[r] = a.logs[r]

(* A backup that says it was sound, and during which no run moved, holds the evidence of *)
(* every hand-over in its logs ("one archive holding the log, its evidence and the       *)
(* shared memory").                                                                      *)
QuietArchiveIsFaithful ==
  [][\A k \in Keepers :
       (keeper[k].pc = "adding" /\ keeper'[k].pc = "idle" /\ ~stirred[k] /\ archive'.sound)
         => Faithful(archive')]_vars

(* The same of a backup during which the company works on: "sound_at_backup" is said of  *)
(* what verify read, before the archive was filled.                                      *)
SoundArchiveIsFaithful == (archive # NoArchive /\ archive.sound) => Faithful(archive)

(* What verify reports of a company where nothing was altered: no damage (a department   *)
(* that is handing over writes its file before its event).                               *)
HealthyBooksAreSound == \A k \in Keepers : keeper[k].held.sound

(* What a person approved stays approved until a person decides again: a checker's offer *)
(* does not undo it.                                                                     *)
ApprovalsStand ==
  [][\A lesson \in Lessons : Current(lesson) = "approved" => Current(lesson)' # "proposed"]_vars
=============================================================================
