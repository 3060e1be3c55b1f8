----------------------------- MODULE OutboxProofs -----------------------------
(***************************************************************************)
(* What holds of the outbox for any places, notices and bounds: its types, *)
(* and, where one process scans and one hands notices on, that nothing is  *)
(* marked delivered that nobody was told, and that nothing is told again   *)
(* that no late answer and no crash explains.                              *)
(*                                                                         *)
(* The two processes never write the same id: a scan raises an id that is  *)
(* absent or delivered, a delivery holds ids that are neither, and only    *)
(* the one that holds an id can change which of the two it is.             *)
(*                                                                         *)
(* Matters are numbered, so a notice that is raised anew speaks of a later *)
(* one than all that was told of its id; what is still told twice is a     *)
(* notice that waits although it was seen, and those are counted.          *)
(***************************************************************************)
EXTENDS OutboxProperties, FiniteSetTheorems, TLAPS

\* A place gives rise to its own kinds of notice, and each of them is a matter of its own.
WorldOK ==
  \A s \in Places : world[s].kind # "quiet" => world[s].kind \in Troubles[s] /\ world[s].news > 0

IdsOK == \A id \in Ids : Present(id) => outbox[id].id = id

\* Records are replaced and never leave the outbox, so what was read of it is still there.
Steady(d) ==
  /\ d.pc \in {"raising", "marking", "failing", "closing"} => d.hand \in Notices
  /\ d.pc \in {"delivering", "marking", "failing", "closing"} => \A n \in d.todo : Present(n.id)
  /\ d.pc = "marking" => Present(d.hand.id)
HandsOK == \A p \in Processes : Steady(process[p])

OInv == TypeOK /\ WorldOK /\ IdsOK /\ HandsOK

\* What leaves a notice where it is found: its id.
LEMMA Notice ==
  ASSUME NEW n \in Notices
  PROVE  /\ n.id \in Ids /\ n.words \in 0 .. MaxCount /\ n.about \in 1 .. MaxNews /\ n.attempts \in 0 .. MaxTries
         /\ n.attempts < MaxTries =>
              /\ Failed(n) \in Notices /\ Failed(n).id = n.id /\ Failed(n).delivered = n.delivered
              /\ Told(Failed(n)) = Told(n)
         /\ [n EXCEPT !.delivered = TRUE] \in Notices /\ [n EXCEPT !.delivered = TRUE].id = n.id
         /\ [n EXCEPT !.delivered = TRUE].delivered /\ Told([n EXCEPT !.delivered = TRUE]) = Told(n)
         /\ Told(n) \in [id : Ids, words : 0 .. MaxCount, about : 1 .. MaxNews]
<1>1. n.id \in Ids /\ n.words \in 0 .. MaxCount /\ n.about \in 1 .. MaxNews /\ n.attempts \in 0 .. MaxTries
  BY DEF Notices
<1>2. ASSUME n.attempts < MaxTries
      PROVE  /\ Failed(n) \in Notices /\ Failed(n).id = n.id /\ Failed(n).delivered = n.delivered
             /\ Told(Failed(n)) = Told(n)
  <2>1. n.attempts + 1 \in 0 .. MaxTries
    BY <1>1, <1>2, OutboxAssumption
  <2>2. /\ Failed(n) \in Notices /\ Failed(n).id = n.id /\ Failed(n).delivered = n.delivered
        /\ Failed(n).words = n.words /\ Failed(n).about = n.about
    BY <2>1 DEF Notices, Failed
  <2> QED
    BY <2>2 DEF Told
<1>3. /\ [n EXCEPT !.delivered = TRUE] \in Notices /\ [n EXCEPT !.delivered = TRUE].id = n.id
      /\ [n EXCEPT !.delivered = TRUE].delivered /\ Told([n EXCEPT !.delivered = TRUE]) = Told(n)
  BY DEF Notices, Told
<1>4. Told(n) \in [id : Ids, words : 0 .. MaxCount, about : 1 .. MaxNews]
  BY <1>1 DEF Told
<1> QED
  BY <1>1, <1>2, <1>3, <1>4

LEMMA RaisedFacts ==
  ASSUME TypeOK, WorldOK
  PROVE  \A n \in Facts : n \in Notices /\ ~n.delivered
<1>1. ASSUME NEW s \in Places, world[s].kind # "quiet"
      PROVE  Raised(s) \in Notices /\ ~Raised(s).delivered
  <2>1. /\ world[s].kind \in Troubles[s] /\ world[s].news \in 1 .. MaxNews /\ world[s].count \in 0 .. MaxCount
    BY <1>1, OutboxAssumption DEF TypeOK, WorldOK
  <2>2. NoticeId(world[s].kind, s) \in Ids
    BY <2>1 DEF Ids
  <2>3. 0 \in 0 .. MaxTries
    BY OutboxAssumption
  <2> QED
    BY <2>1, <2>2, <2>3 DEF Raised, Notices
<1> QED
  BY <1>1 DEF Facts

LEMMA OutstandingFacts ==
  ASSUME TypeOK, IdsOK
  PROVE  /\ \A n \in Outstanding : n \in Notices /\ ~n.delivered /\ outbox[n.id] = n /\ Present(n.id)
         /\ \A m, n \in Outstanding : m.id = n.id => m = n
BY DEF Outstanding, Present, TypeOK, IdsOK

LEMMA InitInv == Init => OInv
<1> SUFFICES ASSUME Init PROVE OInv
  OBVIOUS
<1>1. Idle \in Desks /\ Idle.pc = "idle"
  BY DEF Idle, Desks
<1>2. /\ world \in [Places -> [kind : Kinds \cup {"quiet"}, count : 0 .. MaxCount, news : 0 .. MaxNews]]
      /\ crashes \in 0 .. MaxCrashes
  BY OutboxAssumption DEF Init
<1> QED
  BY <1>1, <1>2 DEF Init, OInv, TypeOK, WorldOK, IdsOK, HandsOK, Steady, Present, Idle

LEMMA ChangeInv ==
  ASSUME OInv, NEW s \in Places, Change(s)
  PROVE  OInv'
<1>1. PICK kind \in Troubles[s] \cup {"quiet"}, more \in {0, 1} :
        /\ world[s].count + more <= MaxCount
        /\ world' = [world EXCEPT ![s] = [kind |-> kind, count |-> world[s].count + more, news |-> world[s].news + 1]]
  BY DEF Change
<1>2. /\ world[s].count + more \in 0 .. MaxCount /\ world[s].news + 1 \in 1 .. MaxNews
      /\ kind \in Kinds \cup {"quiet"}
  <2>1. world[s].count \in 0 .. MaxCount /\ world[s].news \in 0 .. MaxNews /\ world[s].news < MaxNews
    BY DEF OInv, TypeOK, Change
  <2>2. kind \in Kinds \cup {"quiet"}
    BY OutboxAssumption
  <2> QED
    BY <1>1, <2>1, <2>2, OutboxAssumption
<1>3. /\ world' \in [Places -> [kind : Kinds \cup {"quiet"}, count : 0 .. MaxCount, news : 0 .. MaxNews]]
      /\ world'[s].kind = kind /\ world'[s].news > 0
      /\ \A t \in Places : t # s => world'[t] = world[t]
  <2> DEFINE row == [kind |-> kind, count |-> world[s].count + more, news |-> world[s].news + 1]
  <2>1. /\ row \in [kind : Kinds \cup {"quiet"}, count : 0 .. MaxCount, news : 0 .. MaxNews]
        /\ row.kind = kind /\ row.news > 0
    BY <1>2
  <2> HIDE DEF row
  <2>2. world' = [world EXCEPT ![s] = row]
    BY <1>1 DEF row
  <2> QED
    BY <2>1, <2>2 DEF OInv, TypeOK
<1>4. WorldOK'
  BY <1>1, <1>3 DEF OInv, WorldOK
<1>5. TypeOK'
  BY <1>3 DEF Change, OInv, TypeOK, history
<1> QED
  BY <1>4, <1>5 DEF Change, OInv, IdsOK, HandsOK, Steady, Present

-----------------------------------------------------------------------------
\* A process at its own desk, and what its step tells the person.
LEMMA DeskMoves ==
  ASSUME OInv, NEW p \in Processes, NEW x \in Desks, process' = [process EXCEPT ![p] = x],
         UNCHANGED <<world, outbox>>, told' \subseteq [id : Ids, words : 0 .. MaxCount, about : 1 .. MaxNews],
         repeats' \in Nat, late' \in Nat, crashes' \in 0 .. MaxCrashes,
         Steady(x)
  PROVE  /\ OInv' /\ process'[p] = x
         /\ \A q \in Processes : q # p => process'[q] = process[q]
<1>1. /\ process' \in [Processes -> Desks] /\ process'[p] = x
      /\ \A q \in Processes : q # p => process'[q] = process[q]
  BY DEF OInv, TypeOK
<1>2. TypeOK'
  BY <1>1 DEF OInv, TypeOK
<1>3. HandsOK'
  BY <1>1 DEF OInv, HandsOK, Steady, Present
<1> QED
  BY <1>1, <1>2, <1>3 DEF OInv, WorldOK, IdsOK, Present

-----------------------------------------------------------------------------
(* One scanner and one terminal *)

Sole == (\A p, q \in Scanners : p = q) /\ (\A p, q \in Terminals : p = q)

\* An id that may be raised, and a notice that is still the one its reader read.
Free(id) == ~Present(id) \/ outbox[id].delivered
Waits(n) == Present(n.id) /\ ~outbox[n.id].delivered /\ Told(outbox[n.id]) = Told(n)

Fit(p, d) ==
  /\ d.pc # "idle" => \A n \in d.todo : ~n.delivered
  /\ d.pc \in {"scanning", "raising"} => p \in Scanners
  /\ d.pc = "raising" => ~d.hand.delivered /\ Free(d.hand.id)
  /\ d.pc \in {"delivering", "marking", "failing", "closing"} =>
       /\ p \in Terminals /\ \A n \in d.todo : Waits(n)
       /\ \A m, n \in d.todo : m.id = n.id => m = n
  /\ d.pc \in {"marking", "failing", "closing"} => Waits(d.hand) /\ \A n \in d.todo : n.id # d.hand.id
  /\ d.pc \in {"marking", "closing"} => Told(d.hand) \in told
  /\ d.pc = "closing" => d.hand.delivered
  /\ d.pc = "failing" => ~d.hand.delivered

DInv == DeliveredMeansTold /\ \A p \in Processes : Fit(p, process[p])
Inv == OInv /\ (Sole => DInv)

\* A step that leaves the outbox alone: the desk it fits out decides.
LEMMA DeskInv ==
  ASSUME Inv, NEW p \in Processes, NEW x \in Desks, process' = [process EXCEPT ![p] = x],
         UNCHANGED <<world, outbox>>, told' \subseteq [id : Ids, words : 0 .. MaxCount, about : 1 .. MaxNews],
         repeats' \in Nat, late' \in Nat, crashes' \in 0 .. MaxCrashes, told \subseteq told',
         Steady(x),
         Sole => Fit(p, x)'
  PROVE  Inv'
<1>1. OInv' /\ process'[p] = x /\ \A q \in Processes : q # p => process'[q] = process[q]
  BY DeskMoves DEF Inv
<1>2. ASSUME Sole PROVE DInv'
  <2>1. DeliveredMeansTold'
    BY <1>2 DEF Inv, DInv, DeliveredMeansTold, Present
  <2>2. ASSUME NEW q \in Processes PROVE Fit(q, process[q])'
    <3>1. CASE q = p
      BY <1>1, <1>2, <3>1
    <3>2. CASE q # p
      BY <1>1, <1>2, <3>2 DEF Inv, DInv, Fit, Free, Waits, Present
    <3> QED
      BY <3>1, <3>2
  <2> QED
    BY <2>1, <2>2 DEF DInv
<1> QED
  BY <1>1, <1>2 DEF Inv, Sole

\* What every step at a desk starts from.
LEMMA DeskFacts ==
  ASSUME Inv, NEW p \in Processes
  PROVE  /\ TypeOK /\ WorldOK /\ IdsOK /\ process[p] \in Desks /\ Idle \in Desks /\ Idle.pc = "idle"
         /\ process[p].todo \subseteq Notices /\ repeats \in Nat /\ late \in Nat /\ crashes \in 0 .. MaxCrashes
         /\ told \subseteq [id : Ids, words : 0 .. MaxCount, about : 1 .. MaxNews]
         /\ Steady(process[p])
         /\ Sole => DInv /\ Fit(p, process[p])
<1>1. process[p] \in Desks /\ process[p].todo \subseteq Notices
  BY DEF Inv, OInv, TypeOK, Desks
<1>2. Idle \in Desks /\ Idle.pc = "idle"
  BY DEF Idle, Desks
<1> QED
  BY <1>1, <1>2 DEF Inv, OInv, TypeOK, HandsOK, DInv

LEMMA ScanInv == ASSUME Inv, NEW p \in Processes, BeginScan(p) \/ Consider(p) PROVE Inv'
<1>0. /\ TypeOK /\ WorldOK /\ IdsOK /\ process[p] \in Desks /\ Idle \in Desks /\ Idle.pc = "idle"
      /\ process[p].todo \subseteq Notices /\ repeats \in Nat /\ late \in Nat /\ crashes \in 0 .. MaxCrashes
      /\ told \subseteq [id : Ids, words : 0 .. MaxCount, about : 1 .. MaxNews]
      /\ Steady(process[p])
      /\ Sole => DInv /\ Fit(p, process[p])
  BY DeskFacts
<1>1. CASE BeginScan(p)
  <2> PICK x : x = [Idle EXCEPT !.pc = "scanning", !.todo = Facts]
    OBVIOUS
  <2>1. \A n \in Facts : n \in Notices /\ ~n.delivered
    BY <1>0, RaisedFacts
  <2>2. x \in Desks /\ x.pc = "scanning" /\ x.todo = Facts
    BY <2>1 DEF Idle, Desks
  <2>3. Fit(p, x)'
    BY <1>1, <2>1, <2>2 DEF BeginScan, Fit
  <2>4. process' = [process EXCEPT ![p] = x] /\ UNCHANGED <<world, outbox, told, repeats, late, crashes>>
    BY <1>1 DEF BeginScan, history
  <2>5. Steady(x)
    BY <2>2 DEF Steady
  <2> QED
    BY <1>0, <2>2, <2>3, <2>4, <2>5, DeskInv
<1>2. CASE Consider(p)
  <2>1. PICK n \in process[p].todo :
          process' = [process EXCEPT ![p] =
            IF WorthRaising(outbox[n.id], n)
              THEN [pc |-> "raising", todo |-> process[p].todo \ {n}, hand |-> n]
              ELSE [process[p] EXCEPT !.todo = process[p].todo \ {n}]]
    BY <1>2 DEF Consider
  <2>2. UNCHANGED <<world, outbox, told, repeats, late, crashes>> /\ process[p].pc = "scanning"
    BY <1>2 DEF Consider, history, Where
  <2>3. CASE WorthRaising(outbox[n.id], n)
    <3> PICK x : x = [pc |-> "raising", todo |-> process[p].todo \ {n}, hand |-> n]
      OBVIOUS
    <3>1. /\ x \in Desks /\ x.pc = "raising" /\ x.hand = n /\ n \in Notices
          /\ x.todo = process[p].todo \ {n}
      BY <1>0 DEF Desks, AfterAppend
    <3>2. Free(n.id)
      BY <2>3 DEF WorthRaising, Free, Present
    <3>3. Sole => Fit(p, x)'
      BY <1>0, <2>2, <3>1, <3>2 DEF Fit, Free, Present
    <3>4. Steady(x)
      BY <3>1 DEF Steady
    <3> QED
      BY <1>0, <2>1, <2>2, <2>3, <3>1, <3>3, <3>4, DeskInv
  <2>4. CASE ~WorthRaising(outbox[n.id], n)
    <3> PICK x : x = [process[p] EXCEPT !.todo = process[p].todo \ {n}]
      OBVIOUS
    <3>1. x \in Desks /\ x.pc = "scanning" /\ x.todo = process[p].todo \ {n}
      BY <1>0, <2>2 DEF Desks
    <3>2. Sole => Fit(p, x)'
      BY <1>0, <2>2, <3>1 DEF Fit
    <3>3. Steady(x)
      BY <3>1 DEF Steady
    <3> QED
      BY <1>0, <2>1, <2>2, <2>4, <3>1, <3>2, <3>3, DeskInv
  <2> QED
    BY <2>3, <2>4
<1> QED
  BY <1>1, <1>2

\* What the person sees is told, now and from then on.
LEMMA Seen ==
  ASSUME TypeOK, NEW n \in Notices, PersonSees(n)
  PROVE  /\ told \subseteq told' /\ Told(n) \in told' /\ repeats' \in Nat
         /\ told' \subseteq [id : Ids, words : 0 .. MaxCount, about : 1 .. MaxNews]
<1>1. told' = told \cup {Told(n)} /\ repeats' = repeats + (IF Told(n) \in told THEN 1 ELSE 0)
  BY DEF PersonSees
<1>2. repeats \in Nat /\ told \subseteq [id : Ids, words : 0 .. MaxCount, about : 1 .. MaxNews]
  BY DEF TypeOK
<1>3. Told(n) \in [id : Ids, words : 0 .. MaxCount, about : 1 .. MaxNews]
  BY Notice
<1>4. repeats' \in Nat
  BY <1>1, <1>2
<1> QED
  BY <1>1, <1>2, <1>3, <1>4

LEMMA TakeInv == ASSUME Inv, NEW p \in Processes, Take(p) PROVE Inv'
<1>0. /\ TypeOK /\ WorldOK /\ IdsOK /\ process[p] \in Desks /\ Idle \in Desks /\ Idle.pc = "idle"
      /\ process[p].todo \subseteq Notices /\ repeats \in Nat /\ late \in Nat /\ crashes \in 0 .. MaxCrashes
      /\ told \subseteq [id : Ids, words : 0 .. MaxCount, about : 1 .. MaxNews]
      /\ Steady(process[p])
      /\ Sole => DInv /\ Fit(p, process[p])
  BY DeskFacts
<1> PICK x : x = [Idle EXCEPT !.pc = "delivering", !.todo = Outstanding]
  OBVIOUS
<1>1. /\ \A n \in Outstanding : n \in Notices /\ ~n.delivered /\ outbox[n.id] = n /\ Present(n.id)
      /\ \A m, n \in Outstanding : m.id = n.id => m = n
  BY <1>0, OutstandingFacts
<1>2. x \in Desks /\ x.pc = "delivering" /\ x.todo = Outstanding
  BY <1>1 DEF Idle, Desks
<1>3. process' = [process EXCEPT ![p] = x] /\ UNCHANGED <<world, outbox, told, repeats, late, crashes>>
  BY DEF Take, history
<1>4. Fit(p, x)'
  BY <1>1, <1>2, <1>3 DEF Take, Fit, Waits, Present
<1>5. Steady(x)
  BY <1>1, <1>2 DEF Steady
<1> QED
  BY <1>0, <1>2, <1>3, <1>4, <1>5, DeskInv

LEMMA AcknowledgeInv == ASSUME Inv, NEW p \in Processes, NEW n \in Outstanding, Acknowledge(p, n) PROVE Inv'
<1>0. /\ TypeOK /\ WorldOK /\ IdsOK /\ late \in Nat /\ crashes \in 0 .. MaxCrashes
  BY DeskFacts
<1> PICK x : x = [pc |-> "marking", todo |-> {}, hand |-> n]
  OBVIOUS
<1>1. n \in Notices /\ ~n.delivered /\ outbox[n.id] = n /\ Present(n.id)
  BY <1>0, OutstandingFacts
<1>2. x \in Desks /\ x.pc = "marking" /\ x.todo = {} /\ x.hand = n
  BY <1>1 DEF Desks
<1>3. process' = [process EXCEPT ![p] = x] /\ UNCHANGED <<world, outbox, late, crashes>> /\ PersonSees(n)
  BY DEF Acknowledge
<1>4. /\ told \subseteq told' /\ Told(n) \in told' /\ repeats' \in Nat
      /\ told' \subseteq [id : Ids, words : 0 .. MaxCount, about : 1 .. MaxNews]
  BY <1>0, <1>1, <1>3, Seen
<1>5. Fit(p, x)'
  BY <1>1, <1>2, <1>3, <1>4 DEF Acknowledge, Fit, Waits, Present
<1>6. Steady(x)
  BY <1>1, <1>2 DEF Steady
<1> QED
  BY <1>0, <1>1, <1>2, <1>3, <1>4, <1>5, <1>6, DeskInv

LEMMA SendInv ==
  ASSUME Inv, NEW p \in Processes, NEW n \in process[p].todo, NEW result \in {"ok", "failed", "late"},
         Send(p, n, result)
  PROVE  Inv'
<1>0. /\ TypeOK /\ WorldOK /\ IdsOK /\ process[p] \in Desks
      /\ process[p].todo \subseteq Notices /\ repeats \in Nat /\ late \in Nat /\ crashes \in 0 .. MaxCrashes
      /\ told \subseteq [id : Ids, words : 0 .. MaxCount, about : 1 .. MaxNews]
      /\ Steady(process[p])
      /\ Sole => DInv /\ Fit(p, process[p])
  BY DeskFacts
<1> PICK h : h = IF result = "ok" THEN n ELSE Failed(n)
  OBVIOUS
<1> PICK x : x = [pc |-> IF result = "ok" THEN "marking" ELSE "failing", todo |-> process[p].todo \ {n}, hand |-> h]
  OBVIOUS
<1>1. n \in Notices /\ process[p].pc = "delivering" /\ (result = "ok" \/ n.attempts < MaxTries)
  BY <1>0 DEF Send, Where
<1>2. h \in Notices /\ h.id = n.id /\ h.delivered = n.delivered /\ Told(h) = Told(n)
  BY <1>1, Notice
<1>3. /\ x \in Desks /\ x.pc = (IF result = "ok" THEN "marking" ELSE "failing")
      /\ x.todo = process[p].todo \ {n} /\ x.hand = h
  BY <1>0, <1>2 DEF Desks, AfterAppend
<1>4. process' = [process EXCEPT ![p] = x] /\ UNCHANGED <<world, outbox, crashes>>
  BY DEF Send
<1>5. /\ told \subseteq told' /\ repeats' \in Nat /\ (result = "ok" => Told(n) \in told')
      /\ told' \subseteq [id : Ids, words : 0 .. MaxCount, about : 1 .. MaxNews]
  <2>1. CASE result = "failed"
    BY <1>0, <2>1 DEF Send
  <2>2. CASE result # "failed"
    BY <1>0, <1>1, <2>2, Seen DEF Send
  <2> QED
    BY <2>1, <2>2
<1>6. late' \in Nat
  BY <1>0 DEF Send
<1>7. Steady(x)
  BY <1>0, <1>1, <1>2, <1>3 DEF Steady
<1>8. ASSUME Sole PROVE Fit(p, x)'
  <2>1. /\ p \in Terminals /\ \A m \in process[p].todo : Waits(m) /\ ~m.delivered
        /\ \A m, o \in process[p].todo : m.id = o.id => m = o
    BY <1>0, <1>1, <1>8 DEF Fit
  <2>2. Waits(h)' /\ \A m \in process[p].todo : Waits(m)'
    BY <1>2, <1>4, <2>1 DEF Waits, Present
  <2>3. ~h.delivered /\ \A m \in x.todo : m.id # h.id /\ m \in process[p].todo
    BY <1>2, <1>3, <2>1
  <2>4. result = "ok" => Told(h) \in told'
    BY <1>2, <1>5
  <2>5. CASE result = "ok"
    <3>1. x.pc = "marking"
      BY <1>3, <2>5
    <3> QED
      BY <1>3, <2>1, <2>2, <2>3, <2>4, <2>5, <3>1 DEF Fit
  <2>6. CASE result # "ok"
    <3>1. x.pc = "failing"
      BY <1>3, <2>6
    <3> QED
      BY <1>3, <2>1, <2>2, <2>3, <3>1 DEF Fit
  <2> QED
    BY <2>5, <2>6
<1> QED
  BY <1>0, <1>2, <1>3, <1>4, <1>5, <1>6, <1>7, <1>8, DeskInv

LEMMA MarkDeliveredInv == ASSUME Inv, NEW p \in Processes, MarkDelivered(p) PROVE Inv'
<1>0. /\ TypeOK /\ WorldOK /\ IdsOK /\ process[p] \in Desks
      /\ process[p].todo \subseteq Notices /\ repeats \in Nat /\ late \in Nat /\ crashes \in 0 .. MaxCrashes
      /\ told \subseteq [id : Ids, words : 0 .. MaxCount, about : 1 .. MaxNews]
      /\ Steady(process[p])
      /\ Sole => DInv /\ Fit(p, process[p])
  BY DeskFacts
<1> PICK h : h = [outbox[process[p].hand.id] EXCEPT !.delivered = TRUE]
  OBVIOUS
<1> PICK x : x = [process[p] EXCEPT !.pc = "closing", !.hand = h]
  OBVIOUS
<1>1. process[p].pc = "marking" /\ process[p].hand \in Notices /\ Present(process[p].hand.id)
  BY <1>0 DEF MarkDelivered, Where, Steady
<1>2. /\ process[p].hand.id \in Ids /\ outbox[process[p].hand.id] \in Notices
      /\ outbox[process[p].hand.id].id = process[p].hand.id
  <2>1. process[p].hand.id \in Ids
    BY <1>1, Notice
  <2> QED
    BY <1>0, <1>1, <2>1 DEF TypeOK, IdsOK, Present
<1>3. /\ h \in Notices /\ h.id = process[p].hand.id /\ h.delivered
      /\ Told(h) = Told(outbox[process[p].hand.id])
  BY <1>2, Notice
<1>4. x \in Desks /\ x.pc = "closing" /\ x.hand = h /\ x.todo = process[p].todo
  BY <1>0, <1>3 DEF Desks, AfterAppend
<1>5. process' = [process EXCEPT ![p] = x] /\ UNCHANGED <<world, outbox, told, repeats, late, crashes>>
  BY <1>0 DEF MarkDelivered, Hand, history, TypeOK, Desks
<1>6. Steady(x)
  BY <1>0, <1>1, <1>3, <1>4 DEF Steady
<1>7. ASSUME Sole PROVE Fit(p, x)'
  <2>1. /\ p \in Terminals /\ Waits(process[p].hand) /\ Told(process[p].hand) \in told
        /\ \A n \in x.todo : Waits(n) /\ ~n.delivered /\ n.id # h.id
        /\ \A m, n \in x.todo : m.id = n.id => m = n
    BY <1>0, <1>1, <1>3, <1>4, <1>7 DEF Fit
  <2>2. Waits(h)' /\ \A n \in x.todo : Waits(n)'
    BY <1>3, <1>5, <2>1 DEF Waits, Present
  <2>3. Told(h) \in told'
    BY <1>3, <1>5, <2>1 DEF Waits
  <2> QED
    BY <1>3, <1>4, <2>1, <2>2, <2>3 DEF Fit
<1> QED
  BY <1>0, <1>4, <1>5, <1>6, <1>7, DeskInv

\* Whoever gives up its desk leaves nothing behind.
LEMMA LeaveInv == ASSUME Inv, NEW p \in Processes, EndPass(p) \/ Crash(p) PROVE Inv'
<1>1. /\ process' = [process EXCEPT ![p] = Idle] /\ UNCHANGED <<world, outbox, told, repeats, late>>
      /\ crashes' \in 0 .. MaxCrashes
  BY OutboxAssumption DEF EndPass, Crash, history, Inv, OInv, TypeOK
<1>2. Idle \in Desks /\ Idle.pc = "idle" /\ Idle.todo = {}
  BY DEF Idle, Desks
<1>3. Steady(Idle) /\ Fit(p, Idle)'
  BY <1>2 DEF Steady, Fit
<1> QED
  BY <1>1, <1>2, <1>3, DeskFacts, DeskInv

LEMMA AppendInv == ASSUME Inv, NEW p \in Processes, Append(p) PROVE Inv'
<1>0. /\ TypeOK /\ WorldOK /\ IdsOK /\ process[p] \in Desks
      /\ process[p].todo \subseteq Notices /\ repeats \in Nat /\ late \in Nat /\ crashes \in 0 .. MaxCrashes
      /\ told \subseteq [id : Ids, words : 0 .. MaxCount, about : 1 .. MaxNews]
      /\ Steady(process[p])
      /\ Sole => DInv /\ Fit(p, process[p])
  BY DeskFacts
<1> PICK h : h = process[p].hand
  OBVIOUS
<1> PICK x : x = [process[p] EXCEPT !.pc = AfterAppend[process[p].pc], !.hand = NoNotice]
  OBVIOUS
<1>1. process[p].pc \in {"raising", "failing", "closing"} /\ h \in Notices /\ h.id \in Ids /\ h # NoNotice
  <2>1. process[p].pc \in {"raising", "failing", "closing"} /\ h \in Notices
    BY <1>0 DEF Append, AfterAppend, Where, Steady
  <2> QED
    BY <2>1, Notice, NoNoticeIsNone
<1>2. /\ x \in Desks /\ x.todo = process[p].todo
      /\ x.pc = IF process[p].pc = "raising" THEN "scanning" ELSE "delivering"
  <2>1. AfterAppend[process[p].pc] = IF process[p].pc = "raising" THEN "scanning" ELSE "delivering"
    BY <1>1 DEF AfterAppend
  <2> PICK c : c = AfterAppend[process[p].pc]
    OBVIOUS
  <2>2. x = [process[p] EXCEPT !.pc = c, !.hand = NoNotice] /\ c \in {"scanning", "delivering"}
    BY <2>1
  <2>3. x \in Desks /\ x.todo = process[p].todo /\ x.pc = c
    BY <1>0, <2>2 DEF Desks
  <2> QED
    BY <2>1, <2>3
<1>3. /\ process' = [process EXCEPT ![p] = x] /\ outbox' = [outbox EXCEPT ![h.id] = h]
      /\ UNCHANGED <<world, told, repeats, late, crashes>>
  BY <1>0 DEF Append, Hand, Where, history, TypeOK, Desks
<1>4. /\ process' \in [Processes -> Desks] /\ process'[p] = x
      /\ \A q \in Processes : q # p => process'[q] = process[q]
  BY <1>0, <1>2, <1>3 DEF TypeOK
<1>5. /\ outbox' \in [Ids -> Notices \cup {NoNotice}] /\ outbox'[h.id] = h
      /\ \A id \in Ids : id # h.id => outbox'[id] = outbox[id]
  BY <1>0, <1>1, <1>3 DEF TypeOK
<1>6. TypeOK' /\ WorldOK' /\ IdsOK'
  BY <1>0, <1>1, <1>3, <1>4, <1>5 DEF TypeOK, WorldOK, IdsOK, Present
<1>7. \A id \in Ids : Present(id) => Present(id)'
  BY <1>1, <1>5 DEF Present
<1>8. HandsOK'
  <2>1. Steady(x)'
    <3>1. process[p].pc # "raising" => \A n \in process[p].todo : Present(n.id)
      BY <1>0, <1>1 DEF Steady
    <3>2. \A n \in process[p].todo : Present(n.id) => Present(n.id)'
      BY <1>0, <1>7, Notice
    <3>3. x.pc \in {"scanning", "delivering"} /\ (x.pc = "delivering" => process[p].pc # "raising")
      BY <1>2
    <3> QED
      BY <1>2, <3>1, <3>2, <3>3 DEF Steady
  <2>2. ASSUME NEW q \in Processes, q # p PROVE Steady(process[q])'
    <3>1. Steady(process[q]) /\ process[q].todo \subseteq Notices
      BY DeskFacts
    <3>2. \A n \in Notices : Present(n.id) => Present(n.id)'
      BY <1>7, Notice
    <3> QED
      BY <1>4, <2>2, <3>1, <3>2 DEF Steady
  <2> QED
    BY <1>4, <2>1, <2>2 DEF HandsOK
<1>9. ASSUME Sole PROVE DInv'
  <2>1. DInv /\ Fit(p, process[p])
    BY <1>0, <1>9
  <2>2. /\ process[p].pc = "raising" => p \in Scanners /\ ~h.delivered /\ Free(h.id)
        /\ process[p].pc # "raising" => p \in Terminals /\ ~Free(h.id) /\ \A n \in process[p].todo : n.id # h.id
        /\ h.delivered => Told(h) \in told
    BY <1>1, <2>1 DEF Fit, Free, Waits
  <2>3. DeliveredMeansTold'
    BY <1>3, <1>5, <2>1, <2>2 DEF DInv, DeliveredMeansTold, Present
  <2>4. \A n \in Notices : n.id # h.id => /\ Waits(n) => Waits(n)'
                                          /\ Free(n.id) => Free(n.id)'
    <3> SUFFICES ASSUME NEW n \in Notices, n.id # h.id
                 PROVE  (Waits(n) => Waits(n)') /\ (Free(n.id) => Free(n.id)')
      OBVIOUS
    <3>1. outbox'[n.id] = outbox[n.id]
      BY <1>5, Notice
    <3> QED
      BY <3>1 DEF Waits, Free, Present
  <2>5. Fit(p, x)'
    <3>1. CASE process[p].pc = "raising"
      BY <1>2, <2>1, <2>2, <3>1 DEF Fit
    <3>2. CASE process[p].pc # "raising"
      <4>1. \A n \in process[p].todo : Waits(n)' /\ ~n.delivered
        BY <1>0, <1>1, <2>1, <2>2, <2>4, <3>2 DEF Fit
      <4>2. \A m, n \in process[p].todo : m.id = n.id => m = n
        BY <1>1, <2>1, <3>2 DEF Fit
      <4> QED
        BY <1>2, <2>2, <3>2, <4>1, <4>2 DEF Fit
    <3> QED
      BY <3>1, <3>2
  <2>6. ASSUME NEW q \in Processes, q # p PROVE Fit(q, process[q])'
    <3> PICK d : d = process[q]
      OBVIOUS
    <3>1. /\ Fit(q, d) /\ Steady(d) /\ d.todo \subseteq Notices
          /\ d \in Desks /\ process'[q] = d
      BY <1>4, <1>9, <2>6, DeskFacts
    <3>2. CASE d.pc \in {"scanning", "raising"}
      <4>1. process[p].pc # "raising"
        BY <1>9, <2>2, <2>6, <3>1, <3>2 DEF Fit, Sole
      <4>2. d.pc = "raising" =>
              d.hand \in Notices /\ Free(d.hand.id) /\ d.hand.id # h.id
        BY <2>2, <3>1, <4>1 DEF Fit, Steady
      <4>3. d.pc = "raising" => Free(d.hand.id)'
        BY <2>4, <4>2
      <4>4. /\ q \in Scanners /\ \A n \in d.todo : ~n.delivered
            /\ d.pc = "raising" => ~d.hand.delivered
        BY <3>1, <3>2 DEF Fit
      <4> QED
        BY <3>1, <3>2, <4>3, <4>4 DEF Fit
    <3>3. CASE d.pc \in {"delivering", "marking", "failing", "closing"}
      <4>1. process[p].pc = "raising"
        BY <1>9, <2>2, <2>6, <3>1, <3>3 DEF Fit, Sole
      <4>2. \A n \in Notices : Waits(n) => Waits(n)'
        BY <2>2, <2>4, <4>1 DEF Free, Waits
      <4>3. /\ q \in Terminals /\ \A n \in d.todo : Waits(n)' /\ ~n.delivered
            /\ \A m, n \in d.todo : m.id = n.id => m = n
        BY <3>1, <3>3, <4>2 DEF Fit
      <4>4. d.pc # "delivering" =>
              /\ Waits(d.hand) /\ d.hand \in Notices
              /\ \A n \in d.todo : n.id # d.hand.id
              /\ d.pc \in {"marking", "closing"} => Told(d.hand) \in told
              /\ d.pc = "closing" => d.hand.delivered
              /\ d.pc = "failing" => ~d.hand.delivered
        BY <3>1, <3>3 DEF Fit, Steady
      <4>5. d.pc # "delivering" => Waits(d.hand)'
        BY <4>2, <4>4
      <4>6. d.pc \in {"marking", "closing"} => Told(d.hand) \in told'
        BY <1>3, <4>4
      <4>7. Fit(q, d)'
        BY <3>3, <4>3, <4>4, <4>5, <4>6 DEF Fit
      <4> QED
        BY <3>1, <4>7
    <3>4. CASE d.pc = "idle"
      BY <3>1, <3>4 DEF Fit
    <3> QED
      BY <3>1, <3>2, <3>3, <3>4 DEF Desks, AfterAppend
  <2> QED
    BY <1>4, <2>3, <2>5, <2>6 DEF DInv
<1> QED
  BY <1>6, <1>8, <1>9 DEF Inv, OInv, Sole

-----------------------------------------------------------------------------
LEMMA NextInv == Inv /\ [Next]_vars => Inv'
<1> SUFFICES ASSUME Inv, [Next]_vars PROVE Inv'
  OBVIOUS
<1>1. ASSUME NEW s \in Places, Change(s) PROVE Inv'
  <2>1. OInv'
    BY <1>1, ChangeInv DEF Inv
  <2>2. DInv => DInv'
    BY <1>1 DEF Change, history, DInv, DeliveredMeansTold, Fit, Free, Waits, Present
  <2> QED
    BY <2>1, <2>2 DEF Inv, Sole
<1>2. ASSUME NEW p \in Processes, Work(p) PROVE Inv'
  BY <1>2, ScanInv, TakeInv, SendInv, MarkDeliveredInv, AppendInv, LeaveInv DEF Work, Sends
<1>3. ASSUME NEW p \in Processes, Crash(p) PROVE Inv'
  BY <1>3, LeaveInv
<1>4. ASSUME NEW p \in Processes, NEW n \in Outstanding, Acknowledge(p, n) PROVE Inv'
  BY <1>4, AcknowledgeInv
<1>5. CASE UNCHANGED vars
  BY <1>5 DEF vars, Inv, OInv, TypeOK, WorldOK, IdsOK, HandsOK, Steady, Sole, DInv, DeliveredMeansTold,
              Fit, Free, Waits, Present
<1> QED
  BY <1>1, <1>2, <1>3, <1>4, <1>5 DEF Next

LEMMA AlwaysInv == Spec => []Inv
<1>1. Init => Inv
  <2> SUFFICES ASSUME Init PROVE Inv
    OBVIOUS
  <2>1. DInv
    BY DEF Init, DInv, DeliveredMeansTold, Present, Fit, Idle
  <2> QED
    BY <2>1, InitInv DEF Inv
<1> QED
  BY <1>1, NextInv, PTL DEF Spec

(* The outbox, the world and what the processes hold stay of their types: mark_delivered *)
(* finds the id it was given, because a record is replaced and never removed.            *)
THEOREM Types == Spec => []TypeOK
<1>1. Inv => TypeOK
  BY DEF Inv, OInv
<1> QED
  BY <1>1, AlwaysInv, PTL

(* Where one process scans and one hands notices on, whatever dies in between, a notice  *)
(* marked delivered is one that somebody saw in those words.                             *)
THEOREM NoSilentDelivery == Sole => (Spec => []DeliveredMeansTold)
<1> SUFFICES ASSUME Sole PROVE Spec => []DeliveredMeansTold
  OBVIOUS
<1>1. Inv => DeliveredMeansTold
  BY DEF Inv, DInv
<1> QED
  BY <1>1, AlwaysInv, PTL

-----------------------------------------------------------------------------
(* How often a fact is told *)

\* A notice says what was so in its day: no later than today, and what is so if it is today's.
OfItsDay(n) ==
  LET place == world[n.id[2]] IN
  n.about <= place.news /\ (n.about = place.news => n.words = place.count)

\* A notice speaks of a later matter than another one of its subject, or in the same words.
Later(n, m) == n.about > m.about
After(n, m) == m.about <= n.about /\ (m.about = n.about => m.words = n.words)

\* Nothing was told that is ahead of the outbox, nor is anything in it ahead of the world.
Dated ==
  /\ \A id \in Ids : Present(id) => OfItsDay(outbox[id])
  /\ \A t \in told : Present(t.id) /\ t.about <= outbox[t.id].about

\* What a scan found is no older than what the outbox has, and what it raises is newer.
News(d) ==
  d.pc \in {"scanning", "raising"} =>
    /\ \A n \in d.todo : OfItsDay(n) /\ (Present(n.id) => After(n, outbox[n.id]))
    /\ \A m, n \in d.todo : m.id = n.id => m = n
    /\ d.pc = "raising" =>
         /\ OfItsDay(d.hand) /\ (Present(d.hand.id) => Later(d.hand, outbox[d.hand.id]))
         /\ \A n \in d.todo : n.id # d.hand.id

\* Notices that somebody saw, that wait all the same, and that nobody is about to mark: their
\* next telling is a repeat, for which a late answer or a crash is to blame.
Marking(p, id) == process[p].pc \in {"marking", "closing"} /\ process[p].hand.id = id
Owed ==
  {id \in Ids : /\ Present(id) /\ ~outbox[id].delivered /\ Told(outbox[id]) \in told
                /\ \A p \in Processes : ~Marking(p, id)}
Blamed == repeats + Cardinality(Owed) <= late + crashes

OnceInv == Dated /\ (\A p \in Processes : News(process[p])) /\ Blamed

LEMMA IdsAreFew == IsFiniteSet(Ids)
<1>1. IsFiniteSet(Kinds)
  <2>1. Kinds = (({"needs_approval"} \cup {"run_failed"}) \cup ({"idea_failed"} \cup {"call_approval"}))
                  \cup (({"call_unresolved"} \cup {"run_stalled"}) \cup
                        ({"idea_stuck"} \cup ({"lesson_proposed"} \cup {"run_completed"})))
    BY DEF Kinds, Severity
  <2>2. \A k : IsFiniteSet({k})
    BY FS_Singleton
  <2>3. /\ IsFiniteSet({"needs_approval"} \cup {"run_failed"})
        /\ IsFiniteSet({"idea_failed"} \cup {"call_approval"})
        /\ IsFiniteSet({"call_unresolved"} \cup {"run_stalled"})
        /\ IsFiniteSet({"lesson_proposed"} \cup {"run_completed"})
    BY <2>2, FS_Union
  <2>4. /\ IsFiniteSet(({"needs_approval"} \cup {"run_failed"}) \cup ({"idea_failed"} \cup {"call_approval"}))
        /\ IsFiniteSet({"idea_stuck"} \cup ({"lesson_proposed"} \cup {"run_completed"}))
    BY <2>2, <2>3, FS_Union
  <2>5. IsFiniteSet(({"call_unresolved"} \cup {"run_stalled"}) \cup
                        ({"idea_stuck"} \cup ({"lesson_proposed"} \cup {"run_completed"})))
    BY <2>3, <2>4, FS_Union
  <2> QED
    BY <2>1, <2>4, <2>5, FS_Union
<1>2. IsFiniteSet(Kinds \X Places)
  BY <1>1, PlacesAssumption, FS_Product
<1>3. Ids \subseteq Kinds \X Places
  BY OutboxAssumption DEF Ids, NoticeId
<1> QED
  BY <1>2, <1>3, FS_Subset

LEMMA PlaceOfId == \A id \in Ids : id[2] \in Places
BY DEF Ids, NoticeId

\* What is told of two notices is the same when they agree on their subject, words and matter.
LEMMA ToldFacts ==
  ASSUME NEW m, NEW n
  PROVE  /\ Told(n).id = n.id /\ Told(n).words = n.words /\ Told(n).about = n.about
         /\ Told(m) = Told(n) => m.id = n.id /\ m.words = n.words /\ m.about = n.about
<1>1. /\ Told(n).id = n.id /\ Told(n).words = n.words /\ Told(n).about = n.about
      /\ Told(m).id = m.id /\ Told(m).words = m.words /\ Told(m).about = m.about
  BY DEF Told
<1> QED
  BY <1>1

\* A telling is a repeat that a late answer, a crash or an old debt pays for.
PaidFor(again, blame, died) ==
  /\ repeats' = repeats + again /\ late' = late + blame /\ crashes' = crashes + died
  /\ \/ again <= blame + died /\ Owed' \subseteq Owed
     \/ again < blame + died /\ \E id \in Ids : Owed' \subseteq Owed \cup {id}
     \/ \E id \in Owed : Owed' \subseteq Owed \ {id}

LEMMA BlameKept ==
  ASSUME Blamed, TypeOK, NEW again \in {0, 1}, NEW blame \in {0, 1}, NEW died \in {0, 1}, PaidFor(again, blame, died)
  PROVE  Blamed'
<1>1. IsFiniteSet(Owed) /\ IsFiniteSet(Owed')
  <2>1. Owed \subseteq Ids /\ Owed' \subseteq Ids
    BY DEF Owed
  <2> QED
    BY <2>1, IdsAreFew, FS_Subset
<1>2. /\ Cardinality(Owed) \in Nat /\ Cardinality(Owed') \in Nat
      /\ repeats \in Nat /\ late \in Nat /\ crashes \in Nat
      /\ repeats + Cardinality(Owed) <= late + crashes
  BY <1>1, FS_CardinalityType, OutboxAssumption DEF TypeOK, Blamed
<1>3. Blamed' <=> repeats' + Cardinality(Owed') <= late' + crashes'
  BY DEF Blamed
<1>4. Owed' \subseteq Owed => Cardinality(Owed') <= Cardinality(Owed)
  BY <1>1, FS_Subset
<1>5. ASSUME NEW id \in Ids, Owed' \subseteq Owed \cup {id}
      PROVE  Cardinality(Owed') <= Cardinality(Owed) + 1
  <2>1. IsFiniteSet(Owed \cup {id})
    BY <1>1, FS_AddElement
  <2>2. Cardinality(Owed \cup {id}) = IF id \in Owed THEN Cardinality(Owed) ELSE Cardinality(Owed) + 1
    BY <1>1, FS_AddElement
  <2>3. Cardinality(Owed') <= Cardinality(Owed \cup {id})
    BY <1>5, <2>1, FS_Subset
  <2> QED
    BY <1>2, <2>2, <2>3
<1>6. ASSUME NEW id \in Owed, Owed' \subseteq Owed \ {id}
      PROVE  Cardinality(Owed') <= Cardinality(Owed) - 1
  <2>1. IsFiniteSet(Owed \ {id}) /\ Cardinality(Owed \ {id}) = Cardinality(Owed) - 1
    BY <1>1, FS_RemoveElement
  <2>2. Cardinality(Owed') <= Cardinality(Owed \ {id})
    BY <1>6, <2>1, FS_Subset
  <2> QED
    BY <2>1, <2>2
<1> PICK owes : owes = Cardinality(Owed)
  OBVIOUS
<1> PICK owed : owed = Cardinality(Owed')
  OBVIOUS
<1>7. \/ again <= blame + died /\ owed <= owes
      \/ again < blame + died /\ owed <= owes + 1
      \/ owed <= owes - 1
  BY <1>4, <1>5, <1>6, Zenon DEF PaidFor
<1>8. /\ owes \in Nat /\ owed \in Nat /\ repeats \in Nat /\ late \in Nat /\ crashes \in Nat
      /\ repeats + owes <= late + crashes
  BY <1>2
<1>9. repeats + again + owed <= late + blame + crashes + died
  BY <1>7, <1>8
<1>10. repeats' = repeats + again /\ late' = late + blame /\ crashes' = crashes + died
  BY DEF PaidFor
<1> QED
  BY <1>3, <1>8, <1>9, <1>10

-----------------------------------------------------------------------------
Once == Sole /\ Inv /\ OnceInv

\* What a step starts from, where one process scans and one delivers.
LEMMA OnceFacts ==
  ASSUME Once
  PROVE  /\ TypeOK /\ WorldOK /\ IdsOK /\ Dated /\ Blamed
         /\ \A p \in Processes :
              /\ process[p] \in Desks /\ process[p].todo \subseteq Notices /\ Steady(process[p])
              /\ Fit(p, process[p]) /\ News(process[p])
         /\ \A p, q \in Processes : p \in Scanners /\ q \in Scanners => p = q
         /\ \A p, q \in Processes : p \in Terminals /\ q \in Terminals => p = q
<1>1. Sole /\ Inv /\ DInv /\ OnceInv
  BY DEF Once, Inv
<1>2. \A p \in Processes :
        /\ process[p] \in Desks /\ process[p].todo \subseteq Notices /\ Steady(process[p])
        /\ Fit(p, process[p]) /\ News(process[p])
  BY <1>1, DeskFacts DEF OnceInv
<1> QED
  BY <1>1, <1>2 DEF Inv, OInv, OnceInv, Sole

\* A process changes its own desk and nothing else of what the others rely on.
Sits(p, x) == process'[p] = x /\ \A q \in Processes : q # p => process'[q] = process[q]

LEMMA SitsDown ==
  ASSUME TypeOK, NEW p \in Processes, NEW x, process' = [process EXCEPT ![p] = x]
  PROVE  Sits(p, x)
BY DEF TypeOK, Sits

LEMMA NewsStays ==
  ASSUME Once, NEW p \in Processes, NEW x, Sits(p, x), UNCHANGED <<world, outbox>>, News(x)
  PROVE  \A q \in Processes : News(process[q])'
<1>1. ASSUME NEW q \in Processes PROVE News(process[q])'
  <2>1. News(process[q])
    BY OnceFacts
  <2> PICK d : d = process'[q]
    OBVIOUS
  <2>2. News(d)
    BY <2>1 DEF Sits
  <2>3. News(d)'
    BY <2>2 DEF News, OfItsDay, After, Later, Present
  <2> QED
    BY <2>3
<1> QED
  BY <1>1

LEMMA DatedStays == ASSUME Once, UNCHANGED <<world, outbox>>,
                           \A t \in told' \ told : Present(t.id) /\ t.about <= outbox[t.id].about
                    PROVE  Dated'
BY OnceFacts DEF Dated, OfItsDay, Present

\* A desk that is not marking anything, before and after, owes nothing more.
LEMMA OwedStays ==
  ASSUME TypeOK, NEW p \in Processes, NEW x, Sits(p, x), UNCHANGED <<outbox, told>>,
         \A id \in Ids : Marking(p, id) => x.pc \in {"marking", "closing"} /\ x.hand.id = id
  PROVE  Owed' \subseteq Owed
<1>1. ASSUME NEW id \in Owed' PROVE id \in Owed
  <2>1. /\ id \in Ids /\ Present(id) /\ ~outbox[id].delivered /\ Told(outbox[id]) \in told
        /\ \A q \in Processes : ~(process'[q].pc \in {"marking", "closing"} /\ process'[q].hand.id = id)
    BY <1>1 DEF Owed, Present, Marking
  <2>2. ASSUME NEW q \in Processes PROVE ~Marking(q, id)
    BY <2>1 DEF Sits, Marking
  <2> QED
    BY <2>1, <2>2 DEF Owed
<1> QED
  BY <1>1

LEMMA ScanOnce ==
  ASSUME Once, NEW p \in Processes, BeginScan(p) \/ Consider(p)
  PROVE  OnceInv'
<1>0. /\ TypeOK /\ WorldOK /\ IdsOK /\ Dated /\ Blamed /\ process[p] \in Desks
      /\ process[p].todo \subseteq Notices /\ News(process[p]) /\ Fit(p, process[p])
  BY OnceFacts
<1>1. UNCHANGED <<world, outbox, told, repeats, late, crashes>> /\ process[p].pc \in {"idle", "scanning"}
  BY DEF BeginScan, Consider, Where, history
<1>2. \E x : /\ process' = [process EXCEPT ![p] = x] /\ News(x)
  <2>1. CASE BeginScan(p)
    <3> PICK x : x = [Idle EXCEPT !.pc = "scanning", !.todo = Facts]
      OBVIOUS
    <3>1. x.pc = "scanning" /\ x.todo = Facts /\ process' = [process EXCEPT ![p] = x]
      BY <2>1 DEF BeginScan, Idle
    <3>2. ASSUME NEW s \in Places, world[s].kind # "quiet"
          PROVE  /\ Raised(s).id = <<world[s].kind, s>> /\ Raised(s).id \in Ids /\ OfItsDay(Raised(s))
                 /\ Present(Raised(s).id) => After(Raised(s), outbox[Raised(s).id])
      <4>1. /\ Raised(s).id = <<world[s].kind, s>> /\ Raised(s).words = world[s].count
            /\ Raised(s).about = world[s].news
        BY DEF Raised, NoticeId
      <4>2. <<world[s].kind, s>> \in Ids
        BY <3>2, <1>0 DEF WorldOK, Ids, NoticeId
      <4>3. world[s].news \in Nat
        BY <1>0, OutboxAssumption DEF TypeOK
      <4>4. OfItsDay(Raised(s))
        BY <4>1, <4>3 DEF OfItsDay
      <4>5. Present(Raised(s).id) => OfItsDay(outbox[Raised(s).id]) /\ outbox[Raised(s).id].id = Raised(s).id
        BY <1>0, <4>1, <4>2 DEF Dated, IdsOK
      <4> QED
        BY <4>1, <4>2, <4>4, <4>5 DEF OfItsDay, After
    <3>3. \A n \in Facts : OfItsDay(n) /\ (Present(n.id) => After(n, outbox[n.id]))
      BY <3>2 DEF Facts
    <3>4. \A m, n \in Facts : m.id = n.id => m = n
      BY <3>2 DEF Facts
    <3> QED
      BY <3>1, <3>3, <3>4 DEF News
  <2>2. CASE Consider(p)
    <3>1. PICK n \in process[p].todo :
            process' = [process EXCEPT ![p] =
              IF WorthRaising(outbox[n.id], n)
                THEN [pc |-> "raising", todo |-> process[p].todo \ {n}, hand |-> n]
                ELSE [process[p] EXCEPT !.todo = process[p].todo \ {n}]]
      BY <2>2 DEF Consider
    <3>2. /\ process[p].pc = "scanning" /\ OfItsDay(n) /\ (Present(n.id) => After(n, outbox[n.id]))
          /\ \A m \in process[p].todo : /\ OfItsDay(m) /\ (Present(m.id) => After(m, outbox[m.id]))
                                        /\ m.id = n.id => m = n
          /\ \A l, m \in process[p].todo : l.id = m.id => l = m
          /\ n \in Notices
      BY <1>0, <2>2 DEF Consider, Where, News
    <3>3. CASE WorthRaising(outbox[n.id], n)
      <4> PICK x : x = [pc |-> "raising", todo |-> process[p].todo \ {n}, hand |-> n]
        OBVIOUS
      <4>1. x.pc = "raising" /\ x.hand = n /\ x.todo = process[p].todo \ {n}
        OBVIOUS
      <4>2. Present(n.id) => Later(n, outbox[n.id])
        <5>1. Present(n.id) => outbox[n.id] \in Notices
          BY <1>0, <3>2, Notice DEF TypeOK, Present
        <5>2. n.about \in Nat /\ (Present(n.id) => outbox[n.id].about \in Nat)
          BY <3>2, <5>1, OutboxAssumption DEF Notices
        <5> QED
          BY <3>2, <3>3, <5>2 DEF WorthRaising, Present, After, Later
      <4>3. News(x)
        BY <3>2, <4>1, <4>2 DEF News
      <4> QED
        BY <3>1, <3>3, <4>3
    <3>4. CASE ~WorthRaising(outbox[n.id], n)
      <4> PICK x : x = [process[p] EXCEPT !.todo = process[p].todo \ {n}]
        OBVIOUS
      <4>1. x.pc = "scanning" /\ x.todo = process[p].todo \ {n}
        BY <1>0, <3>2 DEF Desks
      <4>2. News(x)
        BY <3>2, <4>1 DEF News
      <4> QED
        BY <3>1, <3>4, <4>2
    <3> QED
      BY <3>3, <3>4
  <2> QED
    BY <2>1, <2>2
<1>3. PICK x : Sits(p, x) /\ News(x)
  BY <1>0, <1>2, SitsDown
<1>4. Owed' \subseteq Owed
  BY <1>0, <1>1, <1>3, OwedStays DEF Marking
<1>5. Blamed'
  <2>1. PaidFor(0, 0, 0)
    BY <1>0, <1>1, <1>4, OutboxAssumption DEF PaidFor, TypeOK
  <2> QED
    BY <1>0, <2>1, BlameKept
<1>6. Dated' /\ \A q \in Processes : News(process[q])'
  BY <1>1, <1>3, DatedStays, NewsStays
<1> QED
  BY <1>5, <1>6 DEF OnceInv

LEMMA QuietOnce ==
  ASSUME Once, NEW p \in Processes, NEW x, Sits(p, x), News(x),
         UNCHANGED <<world, outbox, told, repeats, late, crashes>>,
         \A id \in Ids : Marking(p, id) => x.pc \in {"marking", "closing"} /\ x.hand.id = id
  PROVE  OnceInv'
<1>0. TypeOK /\ Blamed
  BY OnceFacts
<1>1. Owed' \subseteq Owed
  BY <1>0, OwedStays
<1>2. PaidFor(0, 0, 0)
  BY <1>0, <1>1, OutboxAssumption DEF PaidFor, TypeOK
<1>3. Blamed'
  BY <1>0, <1>2, BlameKept
<1>4. Dated' /\ \A q \in Processes : News(process[q])'
  BY DatedStays, NewsStays
<1> QED
  BY <1>3, <1>4 DEF OnceInv

LEMMA DeskOnce ==
  ASSUME Once, NEW p \in Processes, Take(p) \/ MarkDelivered(p) \/ EndPass(p)
  PROVE  OnceInv'
<1>0. TypeOK /\ IdsOK /\ process[p] \in Desks /\ Steady(process[p])
  BY OnceFacts
<1>1. UNCHANGED <<world, outbox, told, repeats, late, crashes>>
  BY DEF Take, MarkDelivered, EndPass, history
<1>2. CASE Take(p) \/ EndPass(p)
  <2>1. \E x : Sits(p, x) /\ x.pc \in {"idle", "delivering"}
    <3>1. CASE Take(p)
      <4> PICK x : x = [Idle EXCEPT !.pc = "delivering", !.todo = Outstanding]
        OBVIOUS
      <4>1. x.pc = "delivering"
        BY DEF Idle
      <4>2. process' = [process EXCEPT ![p] = x]
        BY <3>1 DEF Take
      <4> QED
        BY <1>0, <4>1, <4>2, SitsDown
    <3>2. CASE EndPass(p)
      <4>1. process' = [process EXCEPT ![p] = Idle] /\ Idle.pc = "idle"
        BY <3>2 DEF EndPass, Idle
      <4> QED
        BY <1>0, <4>1, SitsDown
    <3> QED
      BY <1>2, <3>1, <3>2
  <2>2. PICK x : Sits(p, x) /\ x.pc \in {"idle", "delivering"}
    BY <2>1
  <2>3. News(x)
    BY <2>2 DEF News
  <2>4. \A id \in Ids : ~Marking(p, id)
    BY <1>2 DEF Take, EndPass, Where, Marking
  <2> QED
    BY <1>1, <2>2, <2>3, <2>4, QuietOnce
<1>3. CASE MarkDelivered(p)
  <2> PICK h : h = [outbox[process[p].hand.id] EXCEPT !.delivered = TRUE]
    OBVIOUS
  <2> PICK x : x = [process[p] EXCEPT !.pc = "closing", !.hand = h]
    OBVIOUS
  <2>1. process' = [process EXCEPT ![p] = x]
    BY <1>0, <1>3 DEF MarkDelivered, Hand, TypeOK, Desks
  <2>2. process[p].pc = "marking" /\ h.id = process[p].hand.id
    <3>1. /\ process[p].pc = "marking" /\ process[p].hand \in Notices /\ Present(process[p].hand.id)
      BY <1>0, <1>3 DEF MarkDelivered, Where, Steady
    <3>2. /\ process[p].hand.id \in Ids /\ outbox[process[p].hand.id] \in Notices
          /\ outbox[process[p].hand.id].id = process[p].hand.id
      BY <1>0, <3>1, Notice DEF TypeOK, IdsOK, Present
    <3> QED
      BY <3>1, <3>2, Notice
  <2>3. x.pc = "closing" /\ x.hand = h
    BY <1>0 DEF Desks
  <2>4. Sits(p, x) /\ News(x)
    BY <1>0, <2>1, <2>3, SitsDown DEF News
  <2>5. \A id \in Ids : Marking(p, id) => x.pc \in {"marking", "closing"} /\ x.hand.id = id
    BY <2>2, <2>3 DEF Marking
  <2> QED
    BY <1>1, <2>4, <2>5, QuietOnce
<1> QED
  BY <1>2, <1>3

\* Whoever dies with a notice in hand that was seen and is not yet marked leaves a debt.
LEMMA CrashOnce ==
  ASSUME Once, NEW p \in Processes, Crash(p)
  PROVE  OnceInv'
<1>0. TypeOK /\ Blamed /\ process[p] \in Desks /\ Steady(process[p]) /\ repeats \in Nat /\ late \in Nat
  BY OnceFacts DEF TypeOK
<1>1. /\ UNCHANGED <<world, outbox, told, repeats, late>> /\ crashes' = crashes + 1
      /\ process' = [process EXCEPT ![p] = Idle] /\ process[p].pc # "idle"
  BY DEF Crash, history, Where
<1>2. Sits(p, Idle) /\ News(Idle)
  BY <1>0, <1>1, SitsDown DEF News, Idle
<1>3. ASSUME NEW id \in Owed', ~Marking(p, id)
      PROVE  id \in Owed
  <2>1. \A q \in Processes : q # p => ~Marking(q, id)
    BY <1>2, <1>3 DEF Owed, Marking, Sits
  <2> QED
    BY <1>1, <1>3, <2>1 DEF Owed, Present
<1>4. Blamed'
  <2>1. CASE \E id \in Ids : Marking(p, id)
    <3>1. PICK id \in Ids : Marking(p, id)
      BY <2>1
    <3>2. Owed' \subseteq Owed \cup {id}
      BY <1>3, <3>1 DEF Marking
    <3>3. PaidFor(0, 0, 1)
      BY <1>0, <1>1, <3>2 DEF PaidFor
    <3> QED
      BY <1>0, <3>3, BlameKept
  <2>2. CASE \A id \in Ids : ~Marking(p, id)
    <3>1. Owed' \subseteq Owed
      BY <1>3, <2>2 DEF Owed
    <3>2. PaidFor(0, 0, 1)
      BY <1>0, <1>1, <3>1 DEF PaidFor
    <3> QED
      BY <1>0, <3>2, BlameKept
  <2> QED
    BY <2>1, <2>2
<1>5. Dated' /\ \A q \in Processes : News(process[q])'
  BY <1>1, <1>2, DatedStays, NewsStays
<1> QED
  BY <1>4, <1>5 DEF OnceInv

-----------------------------------------------------------------------------
\* What the person who sees a waiting notice changes of the books.
LEMMA SeenOnce ==
  ASSUME Once, NEW p \in Processes, p \in Terminals, process[p].pc \in {"idle", "delivering"},
         NEW n \in Notices, Waits(n), PersonSees(n), NEW x, Sits(p, x),
         UNCHANGED <<world, outbox, crashes>>,
         \/ x.pc = "marking" /\ x.hand.id = n.id /\ late' = late
         \/ x.pc = "failing" /\ late' = late + 1
  PROVE  OnceInv'
<1>0. TypeOK /\ IdsOK /\ Blamed /\ repeats \in Nat /\ late \in Nat /\ crashes \in Nat /\ n.id \in Ids
  <2>1. TypeOK /\ IdsOK /\ Blamed
    BY OnceFacts
  <2>2. crashes \in 0 .. MaxCrashes /\ MaxCrashes \in Nat
    BY <2>1, OutboxAssumption DEF TypeOK
  <2>3. n.id \in Ids
    BY Notice
  <2>4. repeats \in Nat /\ late \in Nat /\ crashes \in Nat
    BY <2>1, <2>2 DEF TypeOK
  <2> QED
    BY <2>1, <2>3, <2>4
<1>1. /\ Present(n.id) /\ ~outbox[n.id].delivered /\ Told(outbox[n.id]) = Told(n) /\ outbox[n.id].id = n.id
      /\ outbox[n.id].about = n.about /\ n.about \in Nat
  <2>1. Present(n.id) /\ ~outbox[n.id].delivered /\ Told(outbox[n.id]) = Told(n)
    BY DEF Waits
  <2> QED
    BY <2>1, ToldFacts DEF Notices
<1>2. \A q \in Processes, id \in Ids : Marking(q, id) => FALSE
  <2>1. ASSUME NEW q \in Processes, NEW id \in Ids, Marking(q, id) PROVE FALSE
    <3>1. q \in Terminals
      BY <2>1, OnceFacts DEF Marking, Fit
    <3>2. q = p
      BY <3>1, OnceFacts
    <3> QED
      BY <2>1, <3>2 DEF Marking
  <2> QED
    BY <2>1
<1>3. ASSUME NEW id \in Owed', id # n.id
      PROVE  id \in Owed
  <2>1. id \in Ids /\ Present(id) /\ ~outbox[id].delivered /\ Told(outbox[id]) \in told \cup {Told(n)}
    BY <1>3 DEF Owed, Present, PersonSees
  <2>2. outbox[id].id = id
    BY <1>0, <2>1 DEF IdsOK
  <2>3. Told(outbox[id]) # Told(n)
    BY <1>3, <2>2, ToldFacts
  <2> QED
    BY <1>2, <2>1, <2>3 DEF Owed
<1>4. Told(n) \in told => n.id \in Owed
  BY <1>0, <1>1, <1>2 DEF Owed
<1>5. x.pc = "marking" /\ x.hand.id = n.id => n.id \notin Owed'
  BY DEF Sits, Owed, Marking
<1>6. repeats' = repeats + (IF Told(n) \in told THEN 1 ELSE 0)
  BY DEF PersonSees
<1>7. Blamed'
  <2>1. CASE x.pc = "marking" /\ x.hand.id = n.id /\ late' = late
    <3>1. Owed' \subseteq Owed /\ n.id \notin Owed'
      BY <1>3, <1>5, <2>1
    <3>2. CASE Told(n) \in told
      <4>1. n.id \in Owed /\ Owed' \subseteq Owed \ {n.id} /\ repeats' = repeats + 1
        BY <1>4, <1>6, <3>1, <3>2
      <4>2. PaidFor(1, 0, 0)
        BY <1>0, <2>1, <4>1 DEF PaidFor
      <4> QED
        BY <1>0, <4>2, BlameKept
    <3>3. CASE Told(n) \notin told
      <4>1. PaidFor(0, 0, 0)
        BY <1>0, <1>6, <2>1, <3>1, <3>3 DEF PaidFor
      <4> QED
        BY <1>0, <4>1, BlameKept
    <3> QED
      BY <3>2, <3>3
  <2>2. CASE x.pc = "failing" /\ late' = late + 1
    <3>1. Owed' \subseteq Owed \cup {n.id}
      BY <1>3
    <3>2. CASE Told(n) \in told
      <4>1. Owed' \subseteq Owed /\ repeats' = repeats + 1
        BY <1>4, <1>6, <3>1, <3>2
      <4>2. PaidFor(1, 1, 0)
        BY <1>0, <2>2, <4>1 DEF PaidFor
      <4> QED
        BY <1>0, <4>2, BlameKept
    <3>3. CASE Told(n) \notin told
      <4>1. PaidFor(0, 1, 0)
        BY <1>0, <1>6, <2>2, <3>1, <3>3 DEF PaidFor
      <4> QED
        BY <1>0, <4>1, BlameKept
    <3> QED
      BY <3>2, <3>3
  <2> QED
    BY <2>1, <2>2
<1>8. Dated'
  <2>1. \A t \in told' \ told : t = Told(n)
    BY DEF PersonSees
  <2>2. Told(n).id = n.id /\ Told(n).about = n.about
    BY ToldFacts
  <2>3. \A t \in told' \ told : Present(t.id) /\ t.about <= outbox[t.id].about
    BY <1>1, <2>1, <2>2
  <2> QED
    BY <2>3, DatedStays
<1>9. \A q \in Processes : News(process[q])'
  <2>1. News(x)
    BY DEF News
  <2> QED
    BY <2>1, NewsStays
<1> QED
  BY <1>7, <1>8, <1>9 DEF OnceInv

LEMMA AcknowledgeOnce ==
  ASSUME Once, NEW p \in Processes, NEW n \in Outstanding, Acknowledge(p, n)
  PROVE  OnceInv'
<1>0. TypeOK /\ IdsOK
  BY OnceFacts
<1>1. n \in Notices /\ Waits(n)
  BY <1>0, OutstandingFacts DEF Waits
<1> PICK x : x = [pc |-> "marking", todo |-> {}, hand |-> n]
  OBVIOUS
<1>2. x.pc = "marking" /\ x.hand = n
  OBVIOUS
<1>3. /\ process' = [process EXCEPT ![p] = x] /\ PersonSees(n) /\ UNCHANGED <<world, outbox, late, crashes>>
      /\ p \in Terminals /\ process[p].pc = "idle"
  BY DEF Acknowledge, Where
<1>4. Sits(p, x)
  BY <1>0, <1>3, SitsDown
<1> QED
  BY <1>1, <1>2, <1>3, <1>4, SeenOnce

LEMMA SendOnce ==
  ASSUME Once, NEW p \in Processes, NEW n \in process[p].todo, NEW result \in {"ok", "failed", "late"},
         Send(p, n, result)
  PROVE  OnceInv'
<1>0. /\ TypeOK /\ Blamed /\ process[p].pc = "delivering" /\ process[p].todo \subseteq Notices
      /\ Fit(p, process[p]) /\ late \in Nat
  BY OnceFacts DEF Send, Where, TypeOK
<1>1. n \in Notices /\ Waits(n) /\ p \in Terminals
  BY <1>0 DEF Fit
<1> PICK x : x = [pc |-> IF result = "ok" THEN "marking" ELSE "failing", todo |-> process[p].todo \ {n},
                  hand |-> IF result = "ok" THEN n ELSE Failed(n)]
  OBVIOUS
<1>2. /\ x.pc = (IF result = "ok" THEN "marking" ELSE "failing")
      /\ result = "ok" => x.hand = n
  OBVIOUS
<1>3. process' = [process EXCEPT ![p] = x] /\ UNCHANGED <<world, outbox, crashes>>
  BY DEF Send
<1>4. Sits(p, x)
  BY <1>0, <1>3, SitsDown
<1>5. late' = late + (IF result = "late" THEN 1 ELSE 0)
  BY DEF Send
<1>6. CASE result # "failed"
  <2>1. PersonSees(n)
    BY <1>6 DEF Send
  <2>2. \/ x.pc = "marking" /\ x.hand.id = n.id /\ late' = late
        \/ x.pc = "failing" /\ late' = late + 1
    BY <1>0, <1>2, <1>5, <1>6
  <2> QED
    BY <1>0, <1>1, <1>3, <1>4, <2>1, <2>2, SeenOnce
<1>7. CASE result = "failed"
  <2>1. UNCHANGED <<told, repeats>> /\ late' = late
    BY <1>0, <1>5, <1>7 DEF Send
  <2>2. News(x) /\ \A id \in Ids : ~Marking(p, id)
    BY <1>0, <1>2, <1>7 DEF News, Marking
  <2> QED
    BY <1>3, <1>4, <2>1, <2>2, QuietOnce
<1> QED
  BY <1>6, <1>7

\* A record takes the place of one that said the same, or of one that was told long ago.
LEMMA AppendOnce ==
  ASSUME Once, NEW p \in Processes, Append(p)
  PROVE  OnceInv'
<1>0. /\ TypeOK /\ IdsOK /\ Dated /\ Blamed /\ process[p] \in Desks /\ Steady(process[p])
      /\ process[p].todo \subseteq Notices /\ Fit(p, process[p]) /\ News(process[p])
  BY OnceFacts
<1> PICK h : h = process[p].hand
  OBVIOUS
<1> PICK x : x = [process[p] EXCEPT !.pc = AfterAppend[process[p].pc], !.hand = NoNotice]
  OBVIOUS
<1>1. process[p].pc \in {"raising", "failing", "closing"} /\ h \in Notices /\ h.id \in Ids /\ h # NoNotice
  <2>1. process[p].pc \in {"raising", "failing", "closing"} /\ h \in Notices
    BY <1>0 DEF Append, AfterAppend, Where, Steady
  <2> QED
    BY <2>1, Notice, NoNoticeIsNone
<1>2. /\ x.todo = process[p].todo
      /\ x.pc = IF process[p].pc = "raising" THEN "scanning" ELSE "delivering"
  <2>1. AfterAppend[process[p].pc] = IF process[p].pc = "raising" THEN "scanning" ELSE "delivering"
    BY <1>1 DEF AfterAppend
  <2> PICK c : c = AfterAppend[process[p].pc]
    OBVIOUS
  <2>2. x = [process[p] EXCEPT !.pc = c, !.hand = NoNotice]
    OBVIOUS
  <2>3. x.todo = process[p].todo /\ x.pc = c
    BY <1>0, <2>2 DEF Desks
  <2> QED
    BY <2>1, <2>3
<1>3. /\ process' = [process EXCEPT ![p] = x] /\ outbox' = [outbox EXCEPT ![h.id] = h]
      /\ UNCHANGED <<world, told, repeats, late, crashes>>
  BY <1>0 DEF Append, Hand, Where, history, TypeOK, Desks
<1>4. Sits(p, x)
  BY <1>0, <1>3, SitsDown
<1>5. /\ outbox'[h.id] = h /\ \A id \in Ids : id # h.id => outbox'[id] = outbox[id]
  BY <1>0, <1>1, <1>3 DEF TypeOK
<1>6. process[p].pc # "raising" =>
        /\ Present(h.id) /\ ~outbox[h.id].delivered /\ Told(outbox[h.id]) = Told(h)
        /\ outbox[h.id].about = h.about /\ outbox[h.id].words = h.words /\ outbox[h.id].id = h.id
  <2>1. process[p].pc # "raising" => Waits(h)
    BY <1>0, <1>1 DEF Fit
  <2> QED
    BY <2>1, ToldFacts DEF Waits
<1>7. process[p].pc = "raising" =>
        /\ OfItsDay(h) /\ (Present(h.id) => Later(h, outbox[h.id]))
        /\ \A n \in process[p].todo : n.id # h.id
  BY <1>0 DEF News
<1>8. h.about \in Nat /\ \A id \in Ids : Present(id) => outbox[id].about \in Nat
  <2>1. \A n \in Notices : n.about \in Nat
    BY OutboxAssumption DEF Notices
  <2> QED
    BY <1>0, <1>1, <2>1 DEF TypeOK, Present
<1>9. Dated'
  <2>1. OfItsDay(h)
    <3>1. process[p].pc # "raising" => OfItsDay(outbox[h.id])
      BY <1>0, <1>1, <1>6 DEF Dated
    <3> QED
      BY <1>6, <1>7, <3>1 DEF OfItsDay
  <2>2. ASSUME NEW id \in Ids, Present(id)'
        PROVE  OfItsDay(outbox[id])'
    <3>1. OfItsDay(outbox'[id])
      BY <1>0, <1>5, <2>1, <2>2 DEF Dated, Present
    <3> QED
      BY <1>3, <3>1 DEF OfItsDay
  <2>3. ASSUME NEW t \in told
        PROVE  Present(t.id)' /\ t.about <= outbox'[t.id].about
    <3>1. Present(t.id) /\ t.about <= outbox[t.id].about /\ t.id \in Ids /\ t.about \in Nat
      BY <1>0, OutboxAssumption DEF Dated, TypeOK
    <3>2. CASE t.id # h.id
      BY <1>5, <3>1, <3>2 DEF Present
    <3>3. CASE t.id = h.id
      <4>1. outbox[h.id].about <= h.about
        BY <1>1, <1>6, <1>7, <1>8, <3>1, <3>3 DEF Later
      <4> QED
        BY <1>1, <1>5, <1>8, <3>1, <3>3, <4>1 DEF Present
    <3> QED
      BY <3>2, <3>3
  <2> QED
    BY <1>3, <2>2, <2>3 DEF Dated
<1>10. Owed' \subseteq Owed
  <2>1. ASSUME NEW id \in Owed' PROVE id \in Owed
    <3>1. /\ id \in Ids /\ Present(id)' /\ ~outbox'[id].delivered /\ Told(outbox'[id]) \in told
          /\ \A q \in Processes : ~Marking(q, id)'
      BY <1>3, <2>1 DEF Owed
    <3>2. \A q \in Processes : q # p => ~Marking(q, id)
      BY <1>4, <3>1 DEF Marking, Sits
    <3>3. CASE id # h.id
      <4>1. ~Marking(p, id)
        BY <3>3 DEF Marking
      <4> QED
        BY <1>5, <3>1, <3>2, <3>3, <4>1 DEF Owed, Present
    <3>4. CASE id = h.id
      <4>1. Told(h) \in told /\ ~h.delivered
        BY <1>5, <3>1, <3>4
      <4>2. process[p].pc = "raising" => FALSE
        <5>1. Told(h).id = h.id /\ Told(h).about = h.about
          BY ToldFacts
        <5>2. Present(h.id) /\ h.about <= outbox[h.id].about
          BY <1>0, <4>1, <5>1 DEF Dated
        <5>3. outbox[h.id].about \in Nat
          BY <1>1, <1>8, <5>2
        <5> QED
          BY <1>7, <1>8, <5>2, <5>3 DEF Later
      <4>3. process[p].pc = "failing"
        <5>1. process[p].pc = "closing" => h.delivered
          BY <1>0 DEF Fit
        <5> QED
          BY <1>1, <4>1, <4>2, <5>1
      <4>4. ~Marking(p, id)
        BY <4>3 DEF Marking
      <4>5. Present(id) /\ ~outbox[id].delivered /\ Told(outbox[id]) \in told
        BY <1>6, <3>4, <4>1, <4>3
      <4> QED
        BY <3>1, <3>2, <4>4, <4>5 DEF Owed
    <3> QED
      BY <3>3, <3>4
  <2> QED
    BY <2>1
<1>11. Blamed'
  <2>1. repeats \in Nat /\ late \in Nat /\ crashes \in Nat
    BY <1>0, OutboxAssumption DEF TypeOK
  <2>2. PaidFor(0, 0, 0)
    BY <1>3, <1>10, <2>1 DEF PaidFor
  <2> QED
    BY <1>0, <2>2, BlameKept
<1>12. ASSUME NEW q \in Processes PROVE News(process[q])'
  <2> PICK d : d = process'[q]
    OBVIOUS
  <2>1. CASE d.pc \in {"scanning", "raising"}
    <3>1. \/ d = x /\ q = p /\ process[p].pc = "raising"
          \/ d = process[q] /\ q # p /\ process[p].pc # "raising"
      <4>1. CASE q = p
        BY <1>2, <1>4, <2>1, <4>1 DEF Sits
      <4>2. CASE q # p
        <5>1. d = process[q] /\ q \in Scanners
          BY <1>4, <2>1, <4>2, OnceFacts DEF Sits, Fit
        <5>2. process[p].pc = "raising" => p \in Scanners
          BY <1>0 DEF Fit
        <5> QED
          BY <4>2, <5>1, <5>2, OnceFacts
      <4> QED
        BY <4>1, <4>2
    <3>2. News(process[q]) /\ process[q].todo \subseteq Notices /\ Steady(process[q])
      BY OnceFacts
    <3>3. CASE d = x /\ q = p /\ process[p].pc = "raising"
      <4>1. \A n \in d.todo : /\ OfItsDay(n) /\ n.id # h.id /\ n.id \in Ids
                              /\ Present(n.id) => After(n, outbox[n.id])
        BY <1>2, <1>7, <3>2, <3>3, Notice DEF News
      <4>2. \A m, n \in d.todo : m.id = n.id => m = n
        BY <1>2, <3>2, <3>3 DEF News
      <4>3. d.pc = "scanning"
        BY <1>2, <3>3
      <4>4. \A n \in d.todo : OfItsDay(n)' /\ (Present(n.id)' => After(n, outbox'[n.id]))
        BY <1>3, <1>5, <4>1 DEF OfItsDay, Present
      <4>5. News(d)'
        BY <4>2, <4>3, <4>4 DEF News
      <4> QED
        BY <4>5
    <3>4. CASE d = process[q] /\ q # p /\ process[p].pc # "raising"
      <4>1. /\ \A n \in d.todo : /\ OfItsDay(n) /\ n.id \in Ids
                                 /\ Present(n.id) => After(n, outbox[n.id])
            /\ \A m, n \in d.todo : m.id = n.id => m = n
            /\ d.pc = "raising" => /\ OfItsDay(d.hand) /\ d.hand.id \in Ids
                                   /\ Present(d.hand.id) => Later(d.hand, outbox[d.hand.id])
                                   /\ \A n \in d.todo : n.id # d.hand.id
        BY <2>1, <3>2, <3>4, Notice DEF News, Steady
      <4>2. \A id \in Ids : Present(id)' => /\ Present(id)
                                            /\ outbox'[id].about = outbox[id].about
                                            /\ outbox'[id].words = outbox[id].words
        BY <1>5, <1>6, <3>4 DEF Present
      <4>3. \A n \in d.todo : OfItsDay(n)' /\ (Present(n.id)' => After(n, outbox'[n.id]))
        BY <1>3, <4>1, <4>2 DEF OfItsDay, After
      <4>4. d.pc = "raising" => /\ OfItsDay(d.hand)'
                                /\ Present(d.hand.id)' => Later(d.hand, outbox'[d.hand.id])
        BY <1>3, <4>1, <4>2 DEF OfItsDay, Later
      <4>5. News(d)'
        BY <4>1, <4>3, <4>4 DEF News
      <4> QED
        BY <4>5
    <3> QED
      BY <3>1, <3>3, <3>4
  <2>2. CASE d.pc \notin {"scanning", "raising"}
    <3>1. News(d)'
      BY <2>2 DEF News
    <3> QED
      BY <3>1
  <2> QED
    BY <2>1, <2>2
<1> QED
  BY <1>9, <1>11, <1>12 DEF OnceInv

LEMMA ChangeOnce ==
  ASSUME Once, NEW s \in Places, Change(s)
  PROVE  OnceInv'
<1>0. TypeOK /\ IdsOK /\ Dated /\ Blamed
  BY OnceFacts
<1>1. UNCHANGED <<outbox, process, told, repeats, late, crashes>>
  BY DEF Change, history
<1>2. /\ world[s].news \in Nat /\ world'[s].news = world[s].news + 1
      /\ \A t \in Places : t # s => world'[t] = world[t]
  BY <1>0, OutboxAssumption DEF Change, TypeOK
<1>3. \A n \in Notices : OfItsDay(n) => OfItsDay(n)'
  <2>1. ASSUME NEW n \in Notices, OfItsDay(n) PROVE OfItsDay(n)'
    <3>1. n.id[2] \in Places /\ n.about \in Nat
      BY Notice, PlaceOfId DEF Notices
    <3>2. CASE n.id[2] = s
      BY <1>2, <2>1, <3>1, <3>2 DEF OfItsDay
    <3>3. CASE n.id[2] # s
      BY <1>2, <2>1, <3>1, <3>3 DEF OfItsDay
    <3> QED
      BY <3>2, <3>3
  <2> QED
    BY <2>1
<1>4. Dated'
  BY <1>0, <1>1, <1>3 DEF Dated, TypeOK, Present
<1>5. Blamed'
  BY <1>0, <1>1 DEF Blamed, Owed, Marking, Present
<1>6. ASSUME NEW p \in Processes PROVE News(process[p])'
  <2>1. News(process[p]) /\ process[p].todo \subseteq Notices /\ Steady(process[p])
    BY OnceFacts
  <2>2. News(process[p])'
    BY <1>1, <1>3, <2>1 DEF News, Present, Steady
  <2> QED
    BY <2>2
<1> QED
  BY <1>4, <1>5, <1>6 DEF OnceInv

LEMMA OnceNext == Sole /\ Inv /\ OnceInv /\ [Next]_vars => OnceInv'
<1> SUFFICES ASSUME Once, [Next]_vars PROVE OnceInv'
  BY DEF Once
<1>1. CASE UNCHANGED vars
  BY <1>1 DEF Once, OnceInv, vars, history, Dated, OfItsDay, News, After, Later, Present, Blamed, Owed, Marking
<1>2. ASSUME NEW p \in Processes, Work(p) PROVE OnceInv'
  BY <1>2, ScanOnce, DeskOnce, SendOnce, AppendOnce DEF Work, Sends
<1> QED
  BY <1>1, <1>2, ChangeOnce, CrashOnce, AcknowledgeOnce DEF Next

LEMMA OnceInit == Init => OnceInv
<1> SUFFICES ASSUME Init PROVE OnceInv
  OBVIOUS
<1>1. Owed = {}
  BY DEF Init, Owed, Present
<1>2. Blamed
  BY <1>1, FS_EmptySet DEF Init, Blamed
<1> QED
  BY <1>2 DEF Init, OnceInv, Dated, Present, News, Idle

(* Where one process scans and one hands notices on, a person is told the same thing of  *)
(* the same matter twice at most as often as a command was killed after it got through   *)
(* or a process died with a notice in hand (raise_notice, deliver, mark_delivered).      *)
THEOREM NoIdleRepeats == Sole => (Spec => []SameFactOnce)
<1> SUFFICES ASSUME Sole PROVE Spec => []SameFactOnce
  OBVIOUS
<1>1. Inv /\ OnceInv => SameFactOnce
  <2> SUFFICES ASSUME Inv, OnceInv PROVE SameFactOnce
    OBVIOUS
  <2>1. Owed \subseteq Ids
    BY DEF Owed
  <2>2. Cardinality(Owed) \in Nat
    BY <2>1, IdsAreFew, FS_Subset, FS_CardinalityType
  <2>3. repeats \in Nat /\ late \in Nat /\ crashes \in Nat
    BY OutboxAssumption DEF Inv, OInv, TypeOK
  <2> QED
    BY <2>2, <2>3 DEF OnceInv, Blamed, SameFactOnce
<1> QED
  BY <1>1, AlwaysInv, OnceInit, OnceNext, PTL DEF Spec
=============================================================================
