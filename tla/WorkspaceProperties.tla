------------------------- MODULE WorkspaceProperties -------------------------
(* What the store's documents have to guarantee to the people who share them. *)
EXTENDS Workspace

(* A request to create a project makes one project, however often its client asks again  *)
(* and however long after: its key may have been purged in the meantime.                 *)
AppliedOnce ==
  \A q \in Creations : Cardinality({p \in Packs : Present(p) /\ db.documents[p].from = q}) <= 1

Replaces(s) ==
  /\ mishaps' = mishaps
  /\ db'.documents # db.documents
  /\ db'.events = db.events \cup {Own(s)}

\* A session has read the text its document has, or was overtaken by a reset or a restore.
HadRead(s) ==
  LET d == session[s].document
  IN db.documents[d].text = session[s].text \/ epoch[d] # session[s].epoch

(* Of two windows that read the same revision of a pack one may save: what a save        *)
(* replaces is what its author had read, unless the store was restored in between        *)
(* (update_project_intake).                                                              *)
EditsBuildOnWhatWasRead == [][\A s \in Sessions : (Replaces(s) /\ session[s].document # View) => HadRead(s)]_vars

(* The same of the view, for which the acceptance test UAT-13 says it too ("exactly one   *)
(* write succeeds; stale writer receives 409 and cannot overwrite silently").  The answer *)
(* to a save is read after it (save_ui_state), and may name a revision somebody else made.*)
ViewEditsBuildOnWhatWasRead == [][\A s \in Sessions : (Replaces(s) /\ session[s].document = View) => HadRead(s)]_vars

(* UAT-13 of a view that one of two windows resets: its revisions begin again.           *)
StaleWritersAreRefused ==
  [][\A s \in Sessions :
       (Replaces(s) /\ session[s].document = View) => db.documents[View].text = session[s].text]_vars
=============================================================================
