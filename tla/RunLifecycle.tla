---------------------------- MODULE RunLifecycle ----------------------------
(***************************************************************************)
(* What the owner of a run is promised, with none of the machinery: the    *)
(* set of finished steps only grows, in dependency order; the run is over  *)
(* the moment the last one is in; a refused run stays refused; and the     *)
(* only stop a run comes back from is the one for its cycle budget.        *)
(***************************************************************************)
CONSTANTS Steps, Before  \* Before[s]: the steps s waits for

VARIABLES done, phase

vars == <<done, phase>>

Phases == {"open", "finished", "refused", "paused"}

Init == done = {} /\ phase = IF Steps = {} THEN "finished" ELSE "open"

Finish(s) ==
  /\ phase = "open" /\ s \notin done
  /\ Before[s] \subseteq done
  /\ done' = done \cup {s}
  /\ phase' = IF done' = Steps THEN "finished" ELSE "open"

Refuse == phase = "open" /\ phase' = "refused" /\ UNCHANGED done

Pause == phase = "open" /\ phase' = "paused" /\ UNCHANGED done

Resume == phase = "paused" /\ phase' = "open" /\ UNCHANGED done

Next == (\E s \in Steps : Finish(s)) \/ Refuse \/ Pause \/ Resume

Spec == Init /\ [][Next]_vars
=============================================================================
