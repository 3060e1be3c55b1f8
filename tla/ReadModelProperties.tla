------------------------- MODULE ReadModelProperties -------------------------
(* What the store's copy of the runs has to guarantee. *)
EXTENDS ReadModel

Lines == [events : 1 .. MaxEvents, status : {"active", "parked", "over"}]
Stores == [rows : [Runs -> Lines \cup {NoRow}], notes : SUBSET Requests]

\* The logs, the store, its backups and the processes' working memory are of their types.
TypeOK ==
  /\ log \in [Runs -> Lines]
  /\ decided \subseteq Requests
  /\ db \in Stores
  /\ copy \in Stores \cup {NoCopy}
  /\ aside \subseteq Requests /\ restoring \in BOOLEAN
  /\ projector \in [Projectors -> [pc : {"idle", "listing", "writing"}, todo : SUBSET Runs,
                                   run : Runs \cup {NoRow}, seen : Lines \cup {NoRow}]]
  /\ request \in [Requests -> [pc : {"new", "asked", "decided", "answered", "refused", "lost"},
                               run : Runs \cup {NoRow}]]
  /\ mishaps \in 0 .. MaxMishaps

(* The store never knows more than the logs, before and after any restore: no row is     *)
(* ahead of its run and no decision is noted that no run took ("the run log stays the    *)
(* system of record").                                                                   *)
StoreFollowsTheLog ==
  /\ db.notes \subseteq decided
  /\ \A r \in Runs : db.rows[r] # NoRow => db.rows[r].events <= log[r].events

(* Every run comes to rest (its cycles are bounded), and then its row comes to say so    *)
(* and stays so, whatever older reading another process still writes and whichever       *)
(* backup was restored.                                                                  *)
MirrorCatchesUp == \A r \in Runs : <>[](db.rows[r] = log[r])

(* What record_step_decision is for ("so both halves say the same thing about who        *)
(* decided what"): when nobody is in the middle of deciding, both have every decision.   *)
DecisionsAreNoted ==
  ((\A q \in Requests : request[q].pc # "decided") /\ copy = NoCopy) => decided \subseteq db.notes

(* What the runbook asks of a restore ("a pre-restore copy"): a decision that was noted  *)
(* is in the store or in a backup of it.                                                 *)
NothingNotedIsLost ==
  \A q \in Requests :
    request[q].pc = "answered" => q \in db.notes \cup aside \cup (IF copy = NoCopy THEN {} ELSE copy.notes)
=============================================================================
