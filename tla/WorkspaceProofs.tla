--------------------------- MODULE WorkspaceProofs ---------------------------
(***************************************************************************)
(* What the store's documents guarantee for any number of packs, requests  *)
(* and windows, and however often keys are purged, views reset and backups *)
(* restored.                                                               *)
(*                                                                         *)
(* A creation is applied once because the event of the first one is in     *)
(* every store, and every backup, that has its pack.  An edit of a pack    *)
(* builds on what was read because a revision of it names one text for as  *)
(* long as the store is not restored, and its answers are true of the      *)
(* moment they speak of.                                                   *)
(***************************************************************************)
EXTENDS WorkspaceProperties, FiniteSetTheorems, TLAPS

SessionRow == [pc : {"idle", "reading", "committed", "unheard"}, document : Documents \cup {NoDocument},
               revision : Nat, text : Texts, epoch : Nat, saves : Nat]

\* There is always a view, if only the default one.
IsStore(store) ==
  /\ store = [documents |-> store.documents, keys |-> store.keys, events |-> store.events]
  /\ store.documents \in [Documents -> Rows \cup {NoDocument}]
  /\ store.documents[View] # NoDocument

Made(store, p, q) == store.documents[p] # NoDocument /\ store.documents[p].from = q

\* In one store a creation has at most one pack, and its event with it.
Once(store) ==
  \A q \in Creations :
    /\ \A p \in Packs : Made(store, p, q) => EventId(q) \in store.events
    /\ \A o, p \in Packs : Made(store, o, q) /\ Made(store, p, q) => o = p

\* What a window shows of a pack is the pack, or an older revision of it, for as long as the
\* store was not restored.  Only a save of the view is answered after its commit.
Shows(s) ==
  LET d == session[s].document
  IN /\ d \in Documents /\ session[s].epoch <= epoch[d]
     /\ session[s].pc = "committed" => d = View
     /\ session[s].epoch = epoch[d] /\ d # View =>
          /\ Present(d) /\ session[s].revision <= db.documents[d].revision
          /\ session[s].revision = db.documents[d].revision => session[s].text = db.documents[d].text

WInv ==
  /\ IsStore(db) /\ IsStore(copy) /\ Once(db) /\ Once(copy)
  /\ session \in [Sessions -> SessionRow] /\ epoch \in [Documents -> Nat]
  /\ \A s \in Sessions : session[s].pc # "idle" => Shows(s)

-----------------------------------------------------------------------------
LEMMA InitInv == Init => WInv
<1> SUFFICES ASSUME Init PROVE WInv
  OBVIOUS
<1>1. DefaultView \in Rows /\ Closed \in SessionRow /\ Closed.pc = "idle" /\ DefaultView.from = "nobody"
  BY DEF DefaultView, Written, Rows, Texts, Closed, SessionRow
<1>2. /\ NewStore.documents = [d \in Documents |-> IF d = View THEN DefaultView ELSE NoDocument]
      /\ IsStore(NewStore)
  BY <1>1, WorkspaceAssumption DEF NewStore, IsStore, Documents
<1>3. \A p \in Packs : NewStore.documents[p] = NoDocument
  BY <1>2, WorkspaceAssumption DEF Documents
<1>4. Once(NewStore)
  BY <1>3 DEF Once, Made
<1> QED
  BY <1>1, <1>2, <1>4 DEF Init, WInv

\* A step that leaves the documents and the windows alone.
LEMMA ElsewhereInv ==
  ASSUME WInv, IsStore(db'), db'.documents = db.documents, db'.events = db.events,
         UNCHANGED <<session, epoch>>, copy' = copy \/ copy' = db
  PROVE  WInv'
BY DEF WInv, IsStore, Once, Made, Shows, Present

LEMMA CreateInv ==
  ASSUME WInv, NEW q \in Creations, NEW p \in Packs, NEW heard \in BOOLEAN, CreateProject(q, p, heard)
  PROVE  WInv'
<1>1. CASE UNCHANGED db
  BY <1>1, ElsewhereInv DEF CreateProject, WInv
<1>2. CASE /\ Unused(EventId(q)) /\ ~Present(p)
           /\ db' = [documents |-> [db.documents EXCEPT ![p] = Written(1, <<q>>, q)],
                     keys |-> Append(db.keys, [request |-> q, pack |-> p]),
                     events |-> db.events \cup {EventId(q)}]
  <2> DEFINE row == Written(1, <<q>>, q)
  <2>1. row \in Rows /\ row.from = q /\ row.revision = 1 /\ row # NoDocument
    BY WorkspaceAssumption DEF Written, Rows, Texts
  <2> HIDE DEF row
  <2>2. /\ db'.documents \in [Documents -> Rows \cup {NoDocument}] /\ db'.documents[p] = row
        /\ \A d \in Documents : d # p => db'.documents[d] = db.documents[d]
        /\ db'.events = db.events \cup {EventId(q)} /\ IsStore(db')
    <3>1. p \in Documents /\ db.documents \in [Documents -> Rows \cup {NoDocument}]
      BY DEF Documents, WInv, IsStore
    <3>2. db' = [documents |-> [db.documents EXCEPT ![p] = row],
                 keys |-> Append(db.keys, [request |-> q, pack |-> p]), events |-> db.events \cup {EventId(q)}]
      BY <1>2 DEF row
    <3> QED
      BY <2>1, <3>1, <3>2, WorkspaceAssumption DEF IsStore, WInv
  <2>3. UNCHANGED <<copy, session, epoch>>
    BY DEF CreateProject
  <2>4. Once(db')
    <3>1. \A o \in Packs : ~Made(db, o, q)
      BY <1>2 DEF Unused, WInv, Once
    <3>2. \A o \in Packs, r \in Creations : Made(db', o, r) => Made(db, o, r) \/ (o = p /\ r = q)
      BY <2>1, <2>2 DEF Made, Documents
    <3> QED
      BY <2>2, <3>1, <3>2 DEF WInv, Once
  <2>5. ASSUME NEW s \in Sessions, session'[s].pc # "idle" PROVE Shows(s)'
    <3>1. Shows(s) /\ session'[s] = session[s] /\ epoch' = epoch
      BY <2>3, <2>5 DEF WInv
    <3>2. session[s].epoch = epoch[session[s].document] => session[s].document # p
      BY <1>2, <3>1, WorkspaceAssumption DEF Shows
    <3> QED
      BY <2>2, <3>1, <3>2 DEF Shows, Present
  <2> QED
    BY <2>2, <2>3, <2>4, <2>5 DEF WInv
<1> QED
  BY <1>1, <1>2 DEF CreateProject

\* One window's own reading.
LEMMA SessionMoves ==
  ASSUME WInv, NEW s \in Sessions, NEW x \in SessionRow, session' = [session EXCEPT ![s] = x]
  PROVE  /\ session' \in [Sessions -> SessionRow] /\ session'[s] = x
         /\ \A t \in Sessions : t # s => session'[t] = session[t]
BY DEF WInv

LEMMA ReadInv == ASSUME WInv, NEW s \in Sessions, NEW d \in Documents, Read(s, d) PROVE WInv'
<1> DEFINE n == IF session[s].pc \in {"committed", "unheard"} THEN session[s].saves + 1 ELSE session[s].saves
           x == [pc |-> "reading", document |-> d, revision |-> db.documents[d].revision,
                 text |-> db.documents[d].text, epoch |-> epoch[d], saves |-> n]
<1>1. /\ db.documents[d] \in Rows /\ epoch[d] \in Nat /\ n \in Nat
  BY DEF Read, Present, WInv, IsStore, SessionRow
<1>2. /\ x \in SessionRow /\ x.pc = "reading" /\ x.document = d /\ x.epoch = epoch[d]
      /\ x.revision = db.documents[d].revision /\ x.text = db.documents[d].text
  BY <1>1 DEF SessionRow, Rows
<1>3. session' = [session EXCEPT ![s] = x] /\ UNCHANGED <<db, copy, epoch>> /\ Present(d)
  BY DEF Read, WInv
<1> HIDE DEF x, n
<1>4. /\ session' \in [Sessions -> SessionRow] /\ session'[s] = x
      /\ \A t \in Sessions : t # s => session'[t] = session[t]
  BY <1>2, <1>3, SessionMoves
<1>5. db.documents[d].revision \in Nat
  BY <1>1 DEF Rows
<1>6. ASSUME NEW t \in Sessions, session'[t].pc # "idle" PROVE Shows(t)'
  <2>1. CASE t = s
    BY <1>1, <1>2, <1>3, <1>4, <1>5, <2>1 DEF Shows, Present
  <2>2. CASE t # s
    BY <1>3, <1>4, <1>6, <2>2 DEF WInv, Shows, Present
  <2> QED
    BY <2>1, <2>2
<1> QED
  BY <1>3, <1>4, <1>6 DEF WInv

\* A save that is accepted replaces the revision its window shows.
Accepted(s) ==
  /\ Present(session[s].document) /\ Current(s) /\ Unused(Own(s))
  /\ db' = [db EXCEPT !.documents[session[s].document] = Written(session[s].revision + 1, Own(s), @.from),
                      !.events = @ \cup {Own(s)}]

LEMMA AcceptedFacts ==
  ASSUME WInv, NEW s \in Sessions, session[s].pc # "idle", Accepted(s), NEW d, d = session[s].document
  PROVE  /\ d \in Documents /\ db.documents[d] \in Rows /\ IsStore(db')
         /\ db'.documents[d] \in Rows /\ db'.documents[d] # NoDocument
         /\ db'.documents[d].revision = session[s].revision + 1 /\ db'.documents[d].text = Own(s)
         /\ db'.documents[d].from = db.documents[d].from
         /\ session[s].revision = db.documents[d].revision /\ session[s].revision \in Nat
         /\ \A c \in Documents : c # d => db'.documents[c] = db.documents[c]
         /\ db'.events = db.events \cup {Own(s)} /\ Own(s) \in Texts
<1>1. d \in Documents /\ session[s] \in SessionRow
  BY DEF WInv, Shows
<1>2. db.documents[d] \in Rows /\ db.documents \in [Documents -> Rows \cup {NoDocument}]
  BY <1>1 DEF Accepted, Present, WInv, IsStore
<1> DEFINE row == Written(session[s].revision + 1, Own(s), db.documents[d].from)
<1>3. session[s].revision \in Nat /\ Own(s) \in Texts
  BY <1>1 DEF SessionRow, Own, Texts
<1>4. /\ row \in Rows /\ row # NoDocument /\ row.revision = session[s].revision + 1
      /\ row.text = Own(s) /\ row.from = db.documents[d].from
  BY <1>2, <1>3, WorkspaceAssumption DEF Written, Rows
<1>5. db = [documents |-> db.documents, keys |-> db.keys, events |-> db.events]
  BY DEF WInv, IsStore
<1>6. db' = [db EXCEPT !.documents[d] = row, !.events = @ \cup {Own(s)}]
  BY <1>1, <1>2, <1>5 DEF Accepted
<1> HIDE DEF row
<1>7. db' = [documents |-> [db.documents EXCEPT ![d] = row], keys |-> db.keys, events |-> db.events \cup {Own(s)}]
  BY <1>5, <1>6
<1>8. IsStore(db')
  BY <1>1, <1>2, <1>4, <1>7 DEF IsStore, WInv
<1>9. session[s].revision = db.documents[d].revision
  BY DEF Accepted, Current
<1>10. /\ db'.documents = [db.documents EXCEPT ![d] = row] /\ db'.events = db.events \cup {Own(s)}
  BY <1>7
<1> QED
  BY <1>1, <1>2, <1>3, <1>4, <1>8, <1>9, <1>10

LEMMA SaveInv == ASSUME WInv, NEW s \in Sessions, NEW heard \in BOOLEAN, Save(s, heard) PROVE WInv'
<1> PICK d : d = session[s].document
  OBVIOUS
<1>0. /\ session[s].pc # "idle" /\ session[s] \in SessionRow /\ Shows(s)
      /\ UNCHANGED <<copy, epoch>> /\ epoch \in [Documents -> Nat] /\ d \in Documents
  BY DEF Save, WInv, Shows
<1>1. PICK x \in SessionRow :
        /\ session' = [session EXCEPT ![s] = x]
        /\ x.pc = "committed" => d = View
        /\ \/ x.pc = "idle"
           \/ /\ x.document = d /\ x.revision = session[s].revision /\ x.text = session[s].text
              /\ x.epoch = session[s].epoch
           \/ /\ Accepted(s) /\ x.document = d /\ x.revision = session[s].revision + 1 /\ x.text = Own(s)
              /\ x.epoch = epoch[d]
  <2> DEFINE late == Present(d) /\ Current(s) /\ Unused(Own(s)) /\ d = View
  <2>1. CASE ~heard \/ late
    <3> DEFINE x == [session[s] EXCEPT !.pc = IF late THEN "committed" ELSE "unheard"]
    <3>1. /\ x \in SessionRow /\ x.document = d /\ x.revision = session[s].revision
          /\ x.text = session[s].text /\ x.epoch = session[s].epoch /\ (x.pc = "committed" => d = View)
      BY <1>0 DEF SessionRow
    <3>2. session' = [session EXCEPT ![s] = x]
      BY <2>1 DEF Save, WInv
    <3> HIDE DEF x
    <3> QED
      BY <3>1, <3>2
  <2>2. CASE heard /\ Present(d) /\ Current(s) /\ Unused(Own(s)) /\ d # View
    <3> DEFINE x == [session[s] EXCEPT !.pc = "reading", !.revision = session[s].revision + 1, !.text = Own(s),
                                       !.epoch = epoch[d], !.saves = session[s].saves + 1]
    <3>1. /\ x \in SessionRow /\ x.pc = "reading" /\ x.document = d /\ x.revision = session[s].revision + 1
          /\ x.text = Own(s) /\ x.epoch = epoch[d]
      <4>1. Own(s) \in Texts /\ epoch[d] \in Nat /\ session[s].revision + 1 \in Nat /\ session[s].saves + 1 \in Nat
        BY <1>0 DEF SessionRow, Own, Texts
      <4> QED
        BY <1>0, <4>1 DEF SessionRow
    <3>2. session' = [session EXCEPT ![s] = x]
      <4>1. session' = [session EXCEPT ![s] = [@ EXCEPT !.pc = "reading", !.revision = session[s].revision + 1,
                                                 !.text = Own(s), !.epoch = epoch[d], !.saves = session[s].saves + 1]]
        BY <2>2 DEF Save
      <4> QED
        BY <4>1 DEF WInv
    <3>3. Accepted(s)
      BY <2>2 DEF Save, Accepted
    <3> HIDE DEF x
    <3> QED
      BY <3>1, <3>2, <3>3
  <2>3. CASE heard /\ ~(Present(d) /\ Current(s) /\ Unused(Own(s)))
    <3> DEFINE x == [Closed EXCEPT !.saves = session[s].saves + 1]
    <3>1. x \in SessionRow /\ x.pc = "idle"
      BY <1>0 DEF SessionRow, Closed, Texts
    <3>2. session' = [session EXCEPT ![s] = x]
      BY <2>3 DEF Save, WInv
    <3> HIDE DEF x
    <3> QED
      BY <3>1, <3>2
  <2> QED
    BY <2>1, <2>2, <2>3
<1>2. /\ session' \in [Sessions -> SessionRow] /\ session'[s] = x
      /\ \A t \in Sessions : t # s => session'[t] = session[t]
  BY <1>1, SessionMoves
<1>3. CASE UNCHANGED db /\ ~Accepted(s)
  <2>1. ASSUME NEW t \in Sessions, session'[t].pc # "idle" PROVE Shows(t)'
    <3>1. CASE t = s
      BY <1>0, <1>1, <1>2, <1>3, <2>1, <3>1 DEF Shows, Present
    <3>2. CASE t # s
      BY <1>0, <1>2, <1>3, <2>1, <3>2 DEF WInv, Shows, Present
    <3> QED
      BY <3>1, <3>2
  <2> QED
    BY <1>0, <1>2, <1>3, <2>1 DEF WInv
<1>4. CASE Accepted(s)
  <2>1. /\ d \in Documents /\ db.documents[d] \in Rows /\ IsStore(db')
        /\ db'.documents[d] \in Rows /\ db'.documents[d] # NoDocument
        /\ db'.documents[d].revision = session[s].revision + 1 /\ db'.documents[d].text = Own(s)
        /\ db'.documents[d].from = db.documents[d].from
        /\ session[s].revision = db.documents[d].revision /\ session[s].revision \in Nat
        /\ \A c \in Documents : c # d => db'.documents[c] = db.documents[c]
        /\ db'.events = db.events \cup {Own(s)}
    BY <1>0, <1>4, AcceptedFacts
  <2>2. Once(db')
    <3>1. \A p \in Packs, q \in Creations : Made(db', p, q) => Made(db, p, q)
      BY <1>4, <2>1 DEF Made, Documents, Accepted, Present
    <3> QED
      BY <2>1, <3>1 DEF WInv, Once
  <2>3. ASSUME NEW t \in Sessions, session'[t].pc # "idle" PROVE Shows(t)'
    <3>1. CASE t = s
      <4>1. /\ x.document = d /\ session[s].epoch <= epoch[d]
        BY <1>0, <1>1, <1>2, <2>3, <3>1 DEF Shows
      <4>2. /\ x.revision <= session[s].revision + 1 /\ x.epoch <= epoch[d]
            /\ (x.revision = session[s].revision + 1 => x.text = Own(s))
        BY <1>0, <1>1, <1>2, <2>1, <2>3, <3>1, <4>1
      <4> QED
        BY <1>0, <1>1, <1>2, <2>1, <3>1, <4>1, <4>2 DEF Shows, Present
    <3>2. CASE t # s
      <4>1. Shows(t) /\ session'[t] = session[t] /\ session[t] \in SessionRow
        BY <1>2, <2>3, <3>2 DEF WInv
      <4>2. CASE session[t].document = d
        <5>1. session[t].epoch = epoch[d] /\ d # View => session[t].revision < session[s].revision + 1
          BY <2>1, <4>1, <4>2 DEF Shows, SessionRow
        <5> QED
          BY <1>0, <2>1, <4>1, <4>2, <5>1 DEF Shows, Present, SessionRow
      <4>3. CASE session[t].document # d
        BY <1>0, <2>1, <4>1, <4>3 DEF Shows, Present
      <4> QED
        BY <4>2, <4>3
    <3> QED
      BY <3>1, <3>2
  <2> QED
    BY <1>0, <1>2, <2>1, <2>2, <2>3 DEF WInv
<1>5. UNCHANGED db \/ Accepted(s)
  BY DEF Save, Accepted
<1> QED
  BY <1>3, <1>4, <1>5

\* The answer to a save of the view changes what one window takes its revision for.
LEMMA AnswerInv == ASSUME WInv, NEW s \in Sessions, NEW heard \in BOOLEAN, AnswerSave(s, heard) PROVE WInv'
<1>0. /\ session[s] \in SessionRow /\ session[s].document = View /\ View \in Documents
      /\ epoch[View] \in Nat /\ session[s].epoch <= epoch[View] /\ UNCHANGED <<db, copy, epoch>>
  BY DEF AnswerSave, WInv, Shows, Documents
<1>1. PICK x \in SessionRow : /\ session' = [session EXCEPT ![s] = x]
                              /\ x.pc # "committed" /\ x.document = View /\ x.epoch <= epoch[View]
  <2>1. CASE heard
    <3> DEFINE x == [session[s] EXCEPT !.pc = "reading", !.revision = db.documents[View].revision, !.text = Own(s),
                                       !.epoch = epoch[View], !.saves = session[s].saves + 1]
    <3>1. session' = [session EXCEPT ![s] = x]
      <4>1. session' = [session EXCEPT ![s] = [@ EXCEPT !.pc = "reading", !.revision = db.documents[View].revision,
                                      !.text = Own(s), !.epoch = epoch[View], !.saves = session[s].saves + 1]]
        BY <2>1 DEF AnswerSave
      <4> QED
        BY <4>1 DEF WInv
    <3>2. x \in SessionRow /\ x.pc = "reading" /\ x.document = View /\ x.epoch = epoch[View]
      <4>1. db.documents[View].revision \in Nat
        BY <1>0 DEF WInv, IsStore, Rows
      <4>2. Own(s) \in Texts /\ session[s].saves + 1 \in Nat
        BY <1>0 DEF SessionRow, Own, Texts
      <4> QED
        BY <1>0, <4>1, <4>2 DEF SessionRow
    <3> HIDE DEF x
    <3>3. x.epoch <= epoch[View] /\ x.pc # "committed"
      BY <1>0, <3>2
    <3> QED
      BY <3>1, <3>2, <3>3, Zenon
  <2>2. CASE ~heard
    <3> DEFINE x == [session[s] EXCEPT !.pc = "unheard"]
    <3>1. session' = [session EXCEPT ![s] = x]
      BY <2>2 DEF AnswerSave, WInv
    <3>2. x \in SessionRow /\ x.pc = "unheard" /\ x.document = View /\ x.epoch = session[s].epoch
      BY <1>0 DEF SessionRow
    <3> HIDE DEF x
    <3> QED
      BY <1>0, <3>1, <3>2
  <2> QED
    BY <2>1, <2>2
<1>2. /\ session' \in [Sessions -> SessionRow] /\ session'[s] = x
      /\ \A t \in Sessions : t # s => session'[t] = session[t]
  BY <1>1, SessionMoves
<1>3. ASSUME NEW t \in Sessions, session'[t].pc # "idle" PROVE Shows(t)'
  <2>1. CASE t = s
    BY <1>0, <1>1, <1>2, <2>1 DEF Shows
  <2>2. CASE t # s
    BY <1>0, <1>2, <1>3, <2>2 DEF WInv, Shows, Present
  <2> QED
    BY <2>1, <2>2
<1> QED
  BY <1>0, <1>2, <1>3 DEF WInv

-----------------------------------------------------------------------------
\* After a reset of the view, or a restore, what a window shows of it is of an earlier epoch.
LEMMA ResetInv == ASSUME WInv, ResetView PROVE WInv'
<1>1. DefaultView \in Rows /\ DefaultView.from = "nobody" /\ View \in Documents
  BY DEF DefaultView, Written, Rows, Texts, Documents
<1>2. /\ db' = [documents |-> [db.documents EXCEPT ![View] = DefaultView], keys |-> db.keys, events |-> db.events]
      /\ epoch' = [epoch EXCEPT ![View] = epoch[View] + 1] /\ UNCHANGED <<copy, session>>
  BY DEF ResetView, WInv, IsStore
<1>3. /\ IsStore(db') /\ db'.events = db.events
      /\ \A d \in Documents : d # View => db'.documents[d] = db.documents[d]
  BY <1>1, <1>2, WorkspaceAssumption DEF WInv, IsStore
<1>4. Once(db')
  <2>1. \A p \in Packs : db'.documents[p] = db.documents[p]
    BY <1>3, WorkspaceAssumption DEF Documents
  <2> QED
    BY <1>3, <2>1 DEF WInv, Once, Made
<1>5. /\ epoch' \in [Documents -> Nat] /\ epoch'[View] = epoch[View] + 1
      /\ \A d \in Documents : d # View => epoch'[d] = epoch[d]
  BY <1>1, <1>2 DEF WInv
<1>6. ASSUME NEW s \in Sessions, session'[s].pc # "idle" PROVE Shows(s)'
  <2>1. Shows(s) /\ session'[s] = session[s] /\ session[s] \in SessionRow /\ epoch \in [Documents -> Nat]
    BY <1>2, <1>6 DEF WInv
  <2>2. CASE session[s].document = View
    BY <1>1, <1>5, <2>1, <2>2 DEF Shows, SessionRow
  <2>3. CASE session[s].document # View
    BY <1>3, <1>5, <2>1, <2>3 DEF Shows, Present
  <2> QED
    BY <2>2, <2>3
<1> QED
  BY <1>2, <1>3, <1>4, <1>5, <1>6 DEF WInv

LEMMA RestoreInv == ASSUME WInv, Restore PROVE WInv'
<1>1. db' = copy /\ UNCHANGED <<copy, session>> /\ epoch' = [d \in Documents |-> epoch[d] + 1]
  BY DEF Restore
<1>2. epoch' \in [Documents -> Nat] /\ \A d \in Documents : epoch[d] \in Nat /\ epoch'[d] = epoch[d] + 1
  BY <1>1 DEF WInv
<1>3. ASSUME NEW s \in Sessions, session'[s].pc # "idle" PROVE Shows(s)'
  <2>1. Shows(s) /\ session'[s] = session[s] /\ session[s] \in SessionRow
    BY <1>1, <1>3 DEF WInv
  <2> QED
    BY <1>2, <2>1 DEF Shows, SessionRow
<1> QED
  BY <1>1, <1>2, <1>3 DEF WInv

LEMMA NextInv == WInv /\ [Next]_vars => WInv'
<1> SUFFICES ASSUME WInv, [Next]_vars PROVE WInv'
  OBVIOUS
<1>1. ASSUME NEW n \in DOMAIN db.keys, PurgeTransient(n) PROVE WInv'
  <2>1. /\ db' = [documents |-> db.documents, keys |-> SubSeq(db.keys, n + 1, Len(db.keys)), events |-> db.events]
        /\ UNCHANGED <<session, epoch, copy>>
    BY <1>1 DEF PurgeTransient, WInv, IsStore
  <2>2. IsStore(db') /\ db'.documents = db.documents /\ db'.events = db.events
    BY <2>1 DEF WInv, IsStore
  <2> QED
    BY <2>1, <2>2, ElsewhereInv
<1>2. CASE Backup \/ UNCHANGED vars
  <2>1. /\ UNCHANGED <<db, session, epoch>> /\ IsStore(db)
        /\ copy' = copy \/ copy' = db
    BY <1>2 DEF Backup, vars, WInv
  <2> QED
    BY <2>1, ElsewhereInv
<1>3. ASSUME NEW q \in Creations, NEW p \in Packs, NEW heard \in BOOLEAN, CreateProject(q, p, heard) PROVE WInv'
  BY <1>3, CreateInv
<1>4. ASSUME NEW s \in Sessions,
             (\E d \in Documents : Read(s, d)) \/ (\E heard \in BOOLEAN : Save(s, heard) \/ AnswerSave(s, heard))
      PROVE  WInv'
  BY <1>4, ReadInv, SaveInv, AnswerInv
<1> QED
  BY <1>1, <1>2, <1>3, <1>4, ResetInv, RestoreInv, Zenon DEF Next

LEMMA AlwaysInv == Spec => []WInv
BY InitInv, NextInv, PTL DEF Spec

\* However late and however often it is asked again, a creation makes one project.
THEOREM CreatedOnce == Spec => []AppliedOnce
<1>1. ASSUME WInv, NEW q \in Creations
      PROVE  Cardinality({p \in Packs : Present(p) /\ db.documents[p].from = q}) <= 1
  <2> DEFINE made == {p \in Packs : Present(p) /\ db.documents[p].from = q}
  <2>1. \A o, p \in made : o = p
    BY <1>1 DEF WInv, Once, Made, Present
  <2>2. CASE made = {}
    BY <2>2, FS_EmptySet
  <2>3. ASSUME NEW p \in made PROVE Cardinality(made) <= 1
    <3>1. made = {p}
      BY <2>1
    <3> HIDE DEF made
    <3> QED
      BY <3>1, FS_Singleton
  <2> QED
    BY <2>2, <2>3
<1>2. WInv => AppliedOnce
  BY <1>1 DEF AppliedOnce
<1> QED
  BY <1>2, AlwaysInv, PTL

Counted == mishaps \in Nat

LEMMA MishapsCounted == Spec => []Counted
<1>1. Init => Counted
  BY DEF Init, Counted
<1>2. Counted /\ [Next]_vars => Counted'
  <2>1. Next => mishaps' = mishaps \/ mishaps' = mishaps + 1
    BY Zenon DEF Next, CreateProject, Read, Save, AnswerSave, ResetView, Backup, Restore, PurgeTransient
  <2>2. UNCHANGED vars => mishaps' = mishaps
    BY DEF vars
  <2> QED
    BY <2>1, <2>2 DEF Counted
<1> QED
  BY <1>1, <1>2, PTL DEF Spec

\* Only the window's own accepted save looks like one.
LEMMA OnlySaving ==
  ASSUME WInv, Counted, [Next]_vars, NEW s \in Sessions, Replaces(s)
  PROVE  session[s].pc # "idle" /\ Accepted(s)
<1>0. /\ db'.documents # db.documents /\ mishaps' = mishaps /\ db' # db
      /\ db'.events = db.events \cup {Own(s)}
  BY DEF Replaces
<1>1. ASSUME NEW q \in Creations, NEW p \in Packs, NEW heard \in BOOLEAN, CreateProject(q, p, heard) PROVE FALSE
  <2>1. Unused(EventId(q)) /\ db'.events = db.events \cup {EventId(q)}
    BY <1>0, <1>1 DEF CreateProject
  <2>2. EventId(q) = Own(s)
    BY <1>0, <2>1 DEF Unused
  <2> QED
    BY <2>2, WorkspaceAssumption DEF EventId, Own
<1>2. ASSUME NEW t \in Sessions, NEW heard \in BOOLEAN, Save(t, heard) PROVE session[s].pc # "idle" /\ Accepted(s)
  <2>1. session[t].pc # "idle" /\ Accepted(t)
    BY <1>0, <1>2 DEF Save, Accepted
  <2>2. Unused(Own(t)) /\ db'.events = db.events \cup {Own(t)}
    BY <2>1, AcceptedFacts DEF Accepted
  <2>3. Own(t) = Own(s)
    BY <1>0, <2>2 DEF Unused
  <2>4. t = s
    BY <2>3 DEF Own
  <2> QED
    BY <2>1, <2>4
<1>3. ASSUME NEW n \in DOMAIN db.keys, PurgeTransient(n) PROVE FALSE
  BY <1>0, <1>3 DEF PurgeTransient, WInv, IsStore
<1>4. ASSUME NEW t \in Sessions,
             (\E d \in Documents : Read(t, d)) \/ (\E heard \in BOOLEAN : AnswerSave(t, heard))
      PROVE  FALSE
  BY <1>0, <1>4 DEF Read, AnswerSave
<1>5. CASE Backup \/ UNCHANGED vars
  BY <1>0, <1>5 DEF Backup, vars
<1>6. CASE ResetView \/ Restore
  BY <1>0, <1>6 DEF ResetView, Restore, Counted
<1> QED
  BY <1>1, <1>2, <1>3, <1>4, <1>5, <1>6, Zenon DEF Next

\* What a save of a pack replaces is what its author had read.
THEOREM SavesBuildOnWhatWasRead == Spec => EditsBuildOnWhatWasRead
<1>1. ASSUME WInv, Counted, [Next]_vars, NEW s \in Sessions, Replaces(s), session[s].document # View
      PROVE  HadRead(s)
  <2>1. session[s].pc # "idle" /\ Accepted(s)
    BY <1>1, OnlySaving
  <2>2. Shows(s) /\ session[s].revision = db.documents[session[s].document].revision
    BY <1>1, <2>1 DEF WInv, Accepted, Current
  <2> QED
    BY <1>1, <2>2 DEF Shows, HadRead
<1>2. WInv /\ Counted /\ [Next]_vars => [\A s \in Sessions : (Replaces(s) /\ session[s].document # View) => HadRead(s)]_vars
  BY <1>1
<1> QED
  BY <1>2, AlwaysInv, MishapsCounted, PTL DEF Spec, EditsBuildOnWhatWasRead
=============================================================================
