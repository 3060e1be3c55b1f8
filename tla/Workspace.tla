------------------------------ MODULE Workspace ------------------------------
(***************************************************************************)
(* What signed-in people keep in the store (db_workspace.py and the verbs  *)
(* of service_operator.py that reach it): the intake packs of projects and *)
(* each person's view of the console.  Every document carries a revision,  *)
(* and who saves one names the revision that was read.                     *)
(*                                                                         *)
(* A request is one transaction, but the answer to a save of the view is   *)
(* read after it.  An answer may be lost, and then the request is sent     *)
(* again under the same id, minutes or months later: rows of               *)
(* idempotency_requests are purged, and the store itself may have gone     *)
(* back to a backup in between (db.py).                                    *)
(***************************************************************************)
EXTENDS Integers, Sequences, FiniteSets

CONSTANTS
  Packs,        \* ids a new project may be given; each is drawn once
  View,         \* the console's state of the one person all sessions belong to
  Creations,    \* idempotency keys of the requests that create a project
  Sessions,     \* browser windows
  NoDocument,
  MaxSaves,     \* bound: saves one session asks for
  MaxMishaps    \* bound: resets of the view, and restores

\* The text stands for the fields of a document: the request that wrote them.
NoText == << >>
Texts == {NoText} \cup {<<q>> : q \in Creations} \cup (Sessions \X Nat)
Rows == [revision : Nat, text : Texts, from : Creations \cup {"nobody"}]
Written(revision, text, source) == [revision |-> revision, text |-> text, from |-> source]

ASSUME WorkspaceAssumption ==
  /\ View \notin Packs /\ NoDocument \notin Packs \cup {View} \cup Rows
  /\ "project-event" \notin Sessions /\ "nobody" \notin Creations
  /\ MaxSaves \in Nat /\ MaxMishaps \in Nat

VARIABLES
  db,        \* the store: [documents, keys, events]
  copy,      \* its latest backup
  creation,  \* [Creations -> what its client was told: unsent, a pack, or refused]
  session,   \* [Sessions -> what a window shows, and the save it has not heard of]
  epoch,     \* history: [Documents -> resets and restores it went through]
  mishaps

vars == <<db, copy, creation, session, epoch, mishaps>>

Documents == Packs \cup {View}

DefaultView == Written(0, NoText, "nobody")
NewStore == [documents |-> [d \in Documents |-> IF d = View THEN DefaultView ELSE NoDocument],
             keys |-> << >>, events |-> {}]

Closed == [pc |-> "idle", document |-> NoDocument, revision |-> 0, text |-> NoText, epoch |-> 0, saves |-> 0]

Init ==
  /\ db = NewStore /\ copy = NewStore
  /\ creation = [q \in Creations |-> "unsent"]
  /\ session = [s \in Sessions |-> Closed]
  /\ epoch = [d \in Documents |-> 0]
  /\ mishaps = 0

Present(d) == db.documents[d] # NoDocument

-----------------------------------------------------------------------------
(* create_project_intake *)

Kept(q) == {k \in DOMAIN db.keys : db.keys[k].request = q}

\* The event of a creation is written under an id derived from the request's, and the chain
\* of events takes an id once.
EventId(q) == <<"project-event", q>>
Anything(id) == TRUE              \* mutant: the chain of events takes an id again
Unused(id) == id \notin db.events

\* A request whose key is kept is answered with its project, or refused if its body is another
\* one.  Otherwise the pack, the key and the event are written together or not at all.
CreateProject(q, p, heard) ==
  /\ creation[q] = "unsent"
  /\ IF Kept(q) # {}
       THEN /\ \E k \in Kept(q) : \E told \in {db.keys[k].pack, "refused"} :
                  creation' = [creation EXCEPT ![q] = IF heard THEN told ELSE @]
            /\ UNCHANGED db
       ELSE IF Unused(EventId(q))
       THEN /\ ~Present(p) /\ ~(\E k \in DOMAIN db.keys : db.keys[k].pack = p)
            /\ db' = [documents |-> [db.documents EXCEPT ![p] = Written(1, <<q>>, q)],
                      keys |-> Append(db.keys, [request |-> q, pack |-> p]),
                      events |-> db.events \cup {EventId(q)}]
            /\ creation' = [creation EXCEPT ![q] = IF heard THEN p ELSE @]
       ELSE /\ creation' = [creation EXCEPT ![q] = IF heard THEN "refused" ELSE @]
            /\ UNCHANGED db
  /\ UNCHANGED <<copy, session, epoch, mishaps>>

-----------------------------------------------------------------------------
(* Reading a document, and saving it *)

\* project_intake, ui_state
Read(s, d) ==
  /\ Present(d) /\ session[s].saves < MaxSaves
  /\ session' = [session EXCEPT ![s] =
       [pc |-> "reading", document |-> d, revision |-> db.documents[d].revision,
        text |-> db.documents[d].text, epoch |-> epoch[d],
        saves |-> IF @.pc \in {"committed", "unheard"} THEN @.saves + 1 ELSE @.saves]]
  /\ UNCHANGED <<db, copy, creation, epoch, mishaps>>

Own(s) == <<s, session[s].saves + 1>>

AnyLater(s) == db.documents[session[s].document].revision >= session[s].revision  \* mutant: not older
Current(s) == db.documents[session[s].document].revision = session[s].revision

\* update_project_intake, and the transaction of save_ui_state.  A pack is answered within its
\* transaction; one that a restore took away is not found.
Save(s, heard) ==
  LET d == session[s].document
      next == session[s].revision + 1
      accepted == Present(d) /\ Current(s) /\ Unused(Own(s))
  IN /\ session[s].pc \in {"reading", "unheard"} /\ session[s].saves < MaxSaves
     /\ db' = IF accepted
                THEN [db EXCEPT !.documents[d] = Written(next, Own(s), @.from), !.events = @ \cup {Own(s)}]
                ELSE db
     /\ session' = [session EXCEPT ![s] =
          IF accepted /\ d = View THEN [@ EXCEPT !.pc = "committed"]
          ELSE IF ~heard THEN [@ EXCEPT !.pc = "unheard"]
          ELSE IF accepted
          THEN [@ EXCEPT !.pc = "reading", !.revision = next, !.text = Own(s), !.epoch = epoch[d],
                                !.saves = session[s].saves + 1]
          ELSE [Closed EXCEPT !.saves = session[s].saves + 1]]
     /\ UNCHANGED <<copy, creation, epoch, mishaps>>

\* save_ui_state answers with what is there by then, of which the console takes only the
\* revision: what it shows is still its own.
AnswerSave(s, heard) ==
  /\ session[s].pc = "committed"
  /\ session' = [session EXCEPT ![s] =
       IF heard THEN [@ EXCEPT !.pc = "reading", !.revision = db.documents[View].revision, !.text = Own(s),
                              !.epoch = epoch[View], !.saves = session[s].saves + 1]
       ELSE [@ EXCEPT !.pc = "unheard"]]
  /\ UNCHANGED <<db, copy, creation, epoch, mishaps>>

\* reset_ui_state: the row goes, and its revisions begin again
ResetView ==
  /\ mishaps < MaxMishaps
  /\ mishaps' = mishaps + 1
  /\ db' = [db EXCEPT !.documents[View] = DefaultView]
  /\ epoch' = [epoch EXCEPT ![View] = @ + 1]
  /\ UNCHANGED <<copy, creation, session>>

-----------------------------------------------------------------------------
(* purge_transient, backup and restore_backup *)

\* Keys that are older than the cutoff go, so the oldest ones.
PurgeTransient(n) ==
  /\ n \in DOMAIN db.keys
  /\ db' = [db EXCEPT !.keys = SubSeq(@, n + 1, Len(@))]
  /\ UNCHANGED <<copy, creation, session, epoch, mishaps>>

Backup ==
  /\ copy' = db
  /\ UNCHANGED <<db, creation, session, epoch, mishaps>>

Restore ==
  /\ mishaps < MaxMishaps
  /\ mishaps' = mishaps + 1
  /\ db' = copy
  /\ epoch' = [d \in Documents |-> epoch[d] + 1]
  /\ UNCHANGED <<copy, creation, session>>

-----------------------------------------------------------------------------
Next ==
  \/ \E q \in Creations, p \in Packs, heard \in BOOLEAN : CreateProject(q, p, heard)
  \/ \E s \in Sessions : \/ \E d \in Documents : Read(s, d)
                         \/ \E heard \in BOOLEAN : Save(s, heard) \/ AnswerSave(s, heard)
  \/ ResetView \/ Backup \/ Restore
  \/ \E n \in DOMAIN db.keys : PurgeTransient(n)

Spec == Init /\ [][Next]_vars
=============================================================================
