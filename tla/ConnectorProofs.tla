--------------------------- MODULE ConnectorProofs ---------------------------
(***************************************************************************)
(* What holds of the connector gates whatever the connectors, actions,     *)
(* approvals, keys and callers, and wherever the callers die.              *)
(*                                                                         *)
(* The invariant follows an approval through a call: until it is consumed  *)
(* nothing was sent under it; the receipt that consumed it belongs to one  *)
(* key, and the one caller that wrote that receipt is the only one that    *)
(* may go on to send, to settle and to audit.                              *)
(***************************************************************************)
EXTENDS ConnectorProperties, TLAPS

\* The rows of the store, and a call in progress.
ConnectorRow == [enabled : BOOLEAN, secret : Secrets]
AuthorizationRow == [status : {"none", "authorized", "revoked"}, secret : Secrets \cup {None}, expires_at : Nat]
ApprovalRow == [status : {"none", "pending", "approved", "rejected", "consumed"},
                action : Actions \cup {None}, by : Requesters \cup {None}, expires_at : Nat]
ReceiptRow == [status : {"none", "in_flight", "accepted", "failed"},
               action : Actions \cup {None}, approval : Approvals \cup {None}]
CallRow == [pc : {"idle", "admitted", "consuming", "consumed", "sending", "settling", "settled", "answered"},
            action : Actions \cup {None}, approval : Approvals \cup {None}, key : Keys \cup {None},
            result : Results \cup {None}]

Working == {"consumed", "sending", "settling", "settled"}
Used(k) == receipt[k] # NoReceipt
Clear == Results \ {"refused"}

\* A call's arguments, and the receipt it wrote or was answered with.
CallsOK ==
  \A p \in Callers :
    /\ Where(p) # "idle" => /\ call[p].action \in Actions /\ call[p].approval \in Approvals
                            /\ call[p].key \in Keys
    /\ Where(p) = "settling" => call[p].result \in Clear
    /\ Where(p) = "settled" => call[p].result \in Clear
    /\ Where(p) \in Working => /\ Used(call[p].key)
                               /\ receipt[call[p].key].approval = call[p].approval
                               /\ receipt[call[p].key].action = call[p].action
                               /\ Kind[On[call[p].action]] = "live"
    /\ Where(p) = "answered" => receipt[call[p].key].action = call[p].action

\* A receipt stands for an approval that was consumed, and for no other receipt's.
ReceiptsOK ==
  /\ \A k \in Keys : Used(k) => /\ receipt[k].action \in Actions
                                /\ receipt[k].approval \in Approvals
                                /\ approval[receipt[k].approval].status = "consumed"
  /\ \A k, l \in Keys : k # l /\ Used(k) /\ Used(l) => receipt[k].approval # receipt[l].approval

\* Two callers at work do not share a key.
Alone ==
  \A p, q \in Callers : p # q /\ Where(p) \in Working /\ Where(q) \in Working => call[p].key # call[q].key

\* What left and what took effect, left and took effect under an approval consumed for it.
SpentOK ==
  /\ \A a \in Approvals : sent[a] \in {0, 1} /\ (sent[a] = 1 \/ a \in took => approval[a].status = "consumed")
  /\ \A p \in Callers : Where(p) \in {"consumed", "sending"} =>
       sent[call[p].approval] = 0 /\ call[p].approval \notin took

\* The audit log has the attempt before the call, and nothing without a receipt.
AuditOK ==
  /\ \A k \in Keys : ~Used(k) => audit[k] = << >>
  /\ \A p \in Callers :
       /\ Where(p) = "consumed" => audit[call[p].key] = << >>
       /\ Where(p) \in {"sending", "settling", "settled"} =>
            audit[call[p].key] # << >> /\ Head(audit[call[p].key]) = "attempted"

\* Until it is settled a live receipt claims nothing; the answer that settles it is true.
OutcomeOK ==
  \A p \in Callers :
    /\ Where(p) \in {"consumed", "sending", "settling"} => receipt[call[p].key].status = "in_flight"
    /\ Where(p) = "settling" =>
         /\ call[p].result = "ok" => call[p].approval \in took
         /\ call[p].result \in {"bad", "unreached"} => call[p].approval \notin took

CInv ==
  /\ TypeOK /\ CallsOK /\ ReceiptsOK /\ Alone /\ SpentOK /\ AuditOK /\ OutcomeOK
  /\ NothingLeavesUnrecorded /\ ReceiptsTellTheTruth

-----------------------------------------------------------------------------
LEMMA InitInv == Init => CInv
<1> SUFFICES ASSUME Init PROVE CInv
  OBVIOUS
<1> USE DEF Init, NoReceipt, NoCall, NoApproval, NoAuthorization
<1>1. TypeOK
  BY ConnectorAssumption DEF TypeOK
<1>2. \A p \in Callers : Where(p) = "idle"
  BY DEF Where
<1>3. \A k \in Keys : ~Used(k)
  BY DEF Used
<1>4. CallsOK /\ Alone /\ OutcomeOK
  BY <1>2 DEF CallsOK, Alone, OutcomeOK, Working
<1>5. ReceiptsOK /\ AuditOK
  BY <1>2, <1>3 DEF ReceiptsOK, AuditOK
<1>6. SpentOK
  BY <1>2 DEF SpentOK
<1>7. NothingLeavesUnrecorded /\ ReceiptsTellTheTruth
  BY <1>3 DEF NothingLeavesUnrecorded, ReceiptsTellTheTruth, Used
<1> QED
  BY <1>1, <1>4, <1>5, <1>6, <1>7 DEF CInv

\* The kill switch and the clock do not reach into a call.
LEMMA OutsideCalls ==
  ASSUME CInv, UNCHANGED <<approval, receipt, audit, call, outside>>, TypeOK'
  PROVE  CInv'
BY DEF CInv, CallsOK, ReceiptsOK, Alone, SpentOK, AuditOK, OutcomeOK, NothingLeavesUnrecorded,
       ReceiptsTellTheTruth, Where, Used, outside

\* What a change of one field leaves of a row.
LEMMA RowChanges ==
  /\ \A r \in ConnectorRow, b \in BOOLEAN : [r EXCEPT !.enabled = b] \in ConnectorRow
  /\ \A r \in AuthorizationRow : [r EXCEPT !.status = "revoked"] \in AuthorizationRow
  /\ \A r \in ApprovalRow, v \in {"approved", "rejected", "consumed"} : [r EXCEPT !.status = v] \in ApprovalRow
  /\ \A r \in ReceiptRow, v \in {"in_flight", "accepted", "failed"} : [r EXCEPT !.status = v] \in ReceiptRow
<1>1. \A r \in ConnectorRow, b \in BOOLEAN : [r EXCEPT !.enabled = b] \in ConnectorRow
  BY DEF ConnectorRow
<1>2. \A r \in AuthorizationRow : [r EXCEPT !.status = "revoked"] \in AuthorizationRow
  BY DEF AuthorizationRow
<1>3. \A r \in ApprovalRow, v \in {"approved", "rejected", "consumed"} : [r EXCEPT !.status = v] \in ApprovalRow
  BY DEF ApprovalRow
<1>4. \A r \in ReceiptRow, v \in {"in_flight", "accepted", "failed"} : [r EXCEPT !.status = v] \in ReceiptRow
  BY DEF ReceiptRow
<1> QED
  BY <1>1, <1>2, <1>3, <1>4

LEMMA CallChanges ==
  ASSUME NEW r \in CallRow
  PROVE  /\ \A v \in {"consuming", "consumed", "sending", "settling", "settled", "answered"} :
              [r EXCEPT !.pc = v] \in CallRow
         /\ \A v \in Results : [r EXCEPT !.pc = "settling", !.result = v] \in CallRow
BY DEF CallRow

LEMMA Typed ==
  TypeOK <=> /\ connector \in [Connectors -> ConnectorRow]
             /\ authorization \in [Connectors -> AuthorizationRow]
             /\ approval \in [Approvals -> ApprovalRow]
             /\ receipt \in [Keys -> ReceiptRow]
             /\ call \in [Callers -> CallRow]
             /\ audit \in [Keys -> Seq({"attempted", "executed", "failed", "unresolved"})]
             /\ sent \in [Approvals -> Nat] /\ took \subseteq Approvals
             /\ reconciled \in [Keys -> {None, "confirmed", "rejected", "pending"}]
             /\ now \in 0 .. MaxTime /\ admin \in 0 .. MaxAdmin /\ crashes \in 0 .. MaxCrashes
BY DEF TypeOK, ConnectorRow, AuthorizationRow, ApprovalRow, ReceiptRow, CallRow

LEMMA AdministrationTyped ==
  ASSUME CInv, Tick \/ Administration \/ (\E k \in Keys, v \in Verdicts : Reconcile(k, v))
  PROVE  TypeOK'
<1>0. TypeOK
  BY DEF CInv
<1>1. ASSUME connector' \in [Connectors -> ConnectorRow], authorization' \in [Connectors -> AuthorizationRow],
             Administer, NoCallTouched
      PROVE  TypeOK'
  BY <1>0, <1>1, Typed, ConnectorAssumption DEF NoCallTouched, Administer, outside, TypeOK,
     ConnectorRow, AuthorizationRow
<1>2. CASE Tick
  BY <1>0, <1>2, ConnectorAssumption DEF Tick, TypeOK, registry, outside
<1>3. ASSUME NEW c \in Connectors, NEW b \in BOOLEAN, NEW s \in Secrets, RegisterConnector(c, b, s) PROVE TypeOK'
  <2>1. [enabled |-> b, secret |-> s] \in ConnectorRow
    BY DEF ConnectorRow
  <2>2. connector' \in [Connectors -> ConnectorRow]
    BY <1>0, <1>3, <2>1, Typed DEF RegisterConnector
  <2> QED
    BY <1>0, <1>1, <1>3, <2>2, Typed DEF RegisterConnector
<1>4. ASSUME NEW c \in Connectors, NEW b \in BOOLEAN, SetConnectorEnabled(c, b) PROVE TypeOK'
  <2>1. [connector[c] EXCEPT !.enabled = b] \in ConnectorRow
    BY <1>0, Typed, RowChanges
  <2>2. connector' \in [Connectors -> ConnectorRow]
    BY <1>0, <1>4, <2>1, Typed DEF SetConnectorEnabled
  <2> QED
    BY <1>0, <1>1, <1>4, <2>2, Typed DEF SetConnectorEnabled
<1>5. ASSUME NEW c \in Connectors, NEW t \in 1 .. MaxTime + 1, AuthorizeConnector(c, t) PROVE TypeOK'
  <2>0. connector[c].secret \in Secrets
    BY <1>0 DEF TypeOK
  <2>1. [status |-> "authorized", secret |-> connector[c].secret, expires_at |-> t] \in AuthorizationRow
    BY <2>0, ConnectorAssumption DEF AuthorizationRow
  <2>2. authorization' \in [Connectors -> AuthorizationRow]
    BY <1>0, <1>5, <2>1, Typed DEF AuthorizeConnector
  <2> QED
    BY <1>0, <1>1, <1>5, <2>2, Typed DEF AuthorizeConnector
<1>6. ASSUME NEW c \in Connectors, RevokeConnectorAuthorization(c) PROVE TypeOK'
  <2>1. /\ [connector[c] EXCEPT !.enabled = FALSE] \in ConnectorRow
        /\ [authorization[c] EXCEPT !.status = "revoked"] \in AuthorizationRow
    BY <1>0, Typed, RowChanges
  <2>2. connector' \in [Connectors -> ConnectorRow]
    BY <1>0, <1>6, <2>1, Typed DEF RevokeConnectorAuthorization, SwitchedOff
  <2>3. authorization' \in [Connectors -> AuthorizationRow]
    BY <1>0, <1>6, <2>1, Typed DEF RevokeConnectorAuthorization
  <2> QED
    BY <1>1, <1>6, <2>2, <2>3 DEF RevokeConnectorAuthorization
<1>7. ASSUME NEW k \in Keys, NEW v \in Verdicts, Reconcile(k, v) PROVE TypeOK'
  BY <1>0, <1>7, ConnectorAssumption DEF Reconcile, TypeOK, Administer, outside
<1> QED
  BY <1>2, <1>3, <1>4, <1>5, <1>6, <1>7, Zenon DEF Administration

LEMMA AdministrationInv ==
  ASSUME CInv, Tick \/ Administration \/ (\E k \in Keys, v \in Verdicts : Reconcile(k, v))
  PROVE  CInv'
<1>1. UNCHANGED <<approval, receipt, audit, call, outside>>
  BY DEF Tick, Administration, RegisterConnector, SetConnectorEnabled, AuthorizeConnector,
         RevokeConnectorAuthorization, Reconcile, NoCallTouched
<1> QED
  BY <1>1, AdministrationTyped, OutsideCalls

\* Asking and deciding touch no approval that was consumed, and consume none.
LEMMA ApprovingInv == ASSUME CInv, Approving PROVE CInv'
<1>0. TypeOK
  BY DEF CInv
<1>1. TypeOK' /\ UNCHANGED <<receipt, audit, call, outside>>
  <2>0. ASSUME approval' \in [Approvals -> ApprovalRow],
               UNCHANGED <<now, registry, receipt, reconciled, audit, call, outside, crashes>>
        PROVE  TypeOK'
    BY <1>0, <2>0 DEF TypeOK, registry, outside, ApprovalRow
  <2>1. ASSUME NEW a \in Approvals, NEW x \in Actions, NEW w \in Requesters, RequestApproval(a, x, w)
        PROVE TypeOK' /\ UNCHANGED <<receipt, audit, call, outside>>
    <3>1. now + Window \in Nat
      BY <1>0, ConnectorAssumption DEF TypeOK
    <3>2. [status |-> "pending", action |-> x, by |-> w, expires_at |-> now + Window] \in ApprovalRow
      BY <3>1 DEF ApprovalRow
    <3>3. approval' \in [Approvals -> ApprovalRow]
      BY <1>0, <2>1, <3>2, Typed DEF RequestApproval
    <3> QED
      BY <2>0, <2>1, <3>3 DEF RequestApproval
  <2>2. ASSUME NEW a \in Approvals, NEW w \in Humans, NEW v \in {"approved", "rejected"}, DecideApproval(a, w, v)
        PROVE TypeOK' /\ UNCHANGED <<receipt, audit, call, outside>>
    <3>1. [approval[a] EXCEPT !.status = v] \in ApprovalRow
      BY <1>0, Typed, RowChanges
    <3>2. approval' \in [Approvals -> ApprovalRow]
      BY <1>0, <2>2, <3>1, Typed DEF DecideApproval
    <3> QED
      BY <2>0, <2>2, <3>2 DEF DecideApproval
  <2> QED
    BY <2>1, <2>2, Zenon DEF Approving
<1>2. \A a \in Approvals : approval[a].status = "consumed" => approval'[a].status = "consumed"
  <2>1. ASSUME NEW a \in Approvals, NEW x \in Actions, NEW w \in Requesters, RequestApproval(a, x, w)
        PROVE \A b \in Approvals : approval[b].status = "consumed" => approval'[b].status = "consumed"
    BY <1>0, <2>1 DEF RequestApproval, TypeOK
  <2>2. ASSUME NEW a \in Approvals, NEW w \in Humans, NEW v \in {"approved", "rejected"}, DecideApproval(a, w, v)
        PROVE \A b \in Approvals : approval[b].status = "consumed" => approval'[b].status = "consumed"
    BY <1>0, <2>2 DEF DecideApproval, TypeOK
  <2> QED
    BY <2>1, <2>2, Zenon DEF Approving
<1>3. CallsOK' /\ Alone' /\ AuditOK' /\ OutcomeOK' /\ NothingLeavesUnrecorded' /\ ReceiptsTellTheTruth'
  BY <1>1 DEF CInv, CallsOK, Alone, AuditOK, OutcomeOK, NothingLeavesUnrecorded, ReceiptsTellTheTruth,
              Where, Used, outside
<1>4. ReceiptsOK' /\ SpentOK'
  BY <1>1, <1>2 DEF CInv, ReceiptsOK, SpentOK, Where, Used, outside
<1> QED
  BY <1>1, <1>3, <1>4 DEF CInv

-----------------------------------------------------------------------------
\* A step of one caller that touches nothing but its own place in the call, away from where
\* it works, or to the answer of a receipt for what it asked.
LEMMA OwnPlaceInv ==
  ASSUME CInv, NEW p \in Callers, NEW c \in CallRow,
         UNCHANGED <<now, registry, approval, receipt, reconciled, audit, outside>>,
         call' = [call EXCEPT ![p] = c], crashes' \in 0 .. MaxCrashes,
         c.pc \in {"idle", "admitted", "consuming", "answered"},
         c.pc # "idle" => c.action \in Actions /\ c.approval \in Approvals /\ c.key \in Keys,
         c.pc = "answered" => receipt[c.key].action = c.action
  PROVE  CInv'
<1>1. TypeOK'
  <2>1. call' \in [Callers -> CallRow]
    BY Typed DEF CInv
  <2> QED
    BY <2>1 DEF CInv, TypeOK, registry, outside, CallRow
<1>2. \A q \in Callers : q # p => call'[q] = call[q]
  BY DEF CInv, TypeOK
<1>3. call'[p] = c
  BY DEF CInv, TypeOK
<1>4. c.pc \notin Working
  BY DEF Working
<1>5. CallsOK'
  <2>1. \A q \in Callers : q # p => Where(q)' = Where(q)
    BY <1>2 DEF Where
  <2> QED
    BY <1>2, <1>3, <1>4, <2>1 DEF CInv, CallsOK, Where, Used
<1>6. Alone' /\ ReceiptsOK' /\ ReceiptsTellTheTruth' /\ NothingLeavesUnrecorded'
  BY <1>2, <1>3, <1>4 DEF CInv, Alone, ReceiptsOK, ReceiptsTellTheTruth, NothingLeavesUnrecorded, Where, Used, outside
<1>7. SpentOK' /\ AuditOK' /\ OutcomeOK'
  BY <1>2, <1>3, <1>4 DEF CInv, SpentOK, AuditOK, OutcomeOK, Where, Used, outside, Working
<1> QED
  BY <1>1, <1>5, <1>6, <1>7 DEF CInv

\* Before it consumes and after it is answered, a caller changes its own place only.
LEMMA EdgesInv ==
  ASSUME CInv, NEW p \in Callers,
         \/ \E x \in Actions, a \in Approvals, k \in Keys : BeginCall(p, x, a, k)
         \/ LookUpKey(p) \/ Finish(p) \/ Crash(p)
  PROVE  CInv'
<1>0. /\ TypeOK /\ CallsOK /\ call[p] \in CallRow /\ crashes \in 0 .. MaxCrashes /\ NoCall \in CallRow
      /\ \A v \in {"consuming", "answered"} : [call[p] EXCEPT !.pc = v] \in CallRow
  <2>1. call[p] \in CallRow /\ TypeOK /\ CallsOK
    BY Typed DEF CInv
  <2>2. NoCall \in CallRow
    BY DEF NoCall, CallRow
  <2> QED
    BY <2>1, <2>2, CallChanges, Typed
<1>1. ASSUME NEW x \in Actions, NEW a \in Approvals, NEW k \in Keys, BeginCall(p, x, a, k) PROVE CInv'
  <2> DEFINE c == [NoCall EXCEPT !.pc = "admitted", !.action = x, !.approval = a, !.key = k]
  <2>1. /\ c \in CallRow /\ c.pc = "admitted"
        /\ c.action \in Actions /\ c.approval \in Approvals /\ c.key \in Keys
    BY DEF NoCall, CallRow
  <2> HIDE DEF c
  <2>2. call' = [call EXCEPT ![p] = c]
    BY <1>1 DEF BeginCall, c
  <2> QED
    BY <1>0, <1>1, <2>1, <2>2, OwnPlaceInv DEF BeginCall, OnlyTheCall
<1>2. ASSUME OnlyTheCall, End(p) PROVE CInv'
  BY <1>0, <1>2, OwnPlaceInv DEF End, OnlyTheCall, NoCall
<1>3. CASE LookUpKey(p)
  <2> DEFINE c(v) == [call[p] EXCEPT !.pc = v]
  <2>1. \A v \in {"consuming", "answered"} :
          /\ c(v) \in CallRow /\ c(v).pc = v
          /\ c(v).action \in Actions /\ c(v).approval \in Approvals /\ c(v).key \in Keys
          /\ c(v).key = call[p].key /\ c(v).action = call[p].action
    BY <1>0, <1>3 DEF LookUpKey, CallsOK, CallRow, Where
  <2> HIDE DEF c
  <2>2. CASE call' = [call EXCEPT ![p] = c("consuming")]
    BY <1>0, <1>3, <2>1, <2>2, OwnPlaceInv DEF LookUpKey, OnlyTheCall
  <2>3. CASE call' = [call EXCEPT ![p] = c("answered")] /\ Mine(p)
    BY <1>0, <1>3, <2>1, <2>3, OwnPlaceInv DEF LookUpKey, OnlyTheCall, Mine, Ask
  <2>4. CASE End(p)
    BY <1>2, <1>3, <2>4 DEF LookUpKey
  <2> QED
    BY <1>3, <2>2, <2>3, <2>4, Zenon DEF LookUpKey, Step, c
<1>4. CASE Finish(p)
  BY <1>2, <1>4 DEF Finish
<1>5. CASE Crash(p)
  <2>1. crashes' \in 0 .. MaxCrashes
    BY <1>0, <1>5, ConnectorAssumption DEF Crash
  <2> QED
    BY <1>0, <1>5, <2>1, OwnPlaceInv DEF Crash, End, NoCall
<1> QED
  BY <1>1, <1>3, <1>4, <1>5

-----------------------------------------------------------------------------
(* The transaction that spends the approval *)

LEMMA ConsumeInv == ASSUME CInv, NEW p \in Callers, Consume(p) PROVE CInv'
<1> PICK k, a, x : k = call[p].key /\ a = call[p].approval /\ x = call[p].action
  OBVIOUS
<1> DEFINE live == Kind[On[x]] = "live"
           c(v) == [call[p] EXCEPT !.pc = v]
           new == [status |-> IF live THEN "in_flight" ELSE "accepted", action |-> x, approval |-> a]
<1>0. /\ TypeOK /\ CallsOK /\ call[p] \in CallRow /\ NoCall \in CallRow
      /\ k \in Keys /\ a \in Approvals /\ x \in Actions /\ crashes' \in 0 .. MaxCrashes
      /\ \A v \in {"consumed", "answered"} :
           c(v) \in CallRow /\ c(v).pc = v /\ c(v).action = x /\ c(v).approval = a /\ c(v).key = k
      /\ Where(p) = "consuming"
  <2>1. call[p] \in CallRow /\ TypeOK /\ CallsOK /\ crashes \in 0 .. MaxCrashes
    BY Typed DEF CInv
  <2>2. NoCall \in CallRow
    BY DEF NoCall, CallRow
  <2>3. Where(p) = "consuming" /\ crashes' = crashes
    BY DEF Consume
  <2>4. k \in Keys /\ a \in Approvals /\ x \in Actions
    BY <2>1, <2>3 DEF CallsOK
  <2>5. \A v \in {"consumed", "answered"} :
           c(v).pc = v /\ c(v).action = x /\ c(v).approval = a /\ c(v).key = k
    BY <2>1 DEF CallRow
  <2> QED
    BY <2>1, <2>2, <2>3, <2>4, <2>5, CallChanges
<1> HIDE DEF c
<1>1. CASE End(p) /\ UNCHANGED <<approval, receipt>>
  BY <1>0, <1>1, OwnPlaceInv DEF Consume, End, NoCall
<1>2. CASE MineAgain(p) /\ Step(p, "answered") /\ UNCHANGED <<approval, receipt>>
  <2>1. call' = [call EXCEPT ![p] = c("answered")]
    BY <1>0, <1>2 DEF Step, c
  <2>2. receipt[k].action = x
    BY <1>2 DEF MineAgain, Mine, Ask
  <2> QED
    BY <1>0, <1>2, <2>1, <2>2, OwnPlaceInv DEF Consume
<1>3. CASE /\ ~Used(k) /\ Approved(p)
           /\ approval' = [approval EXCEPT ![a].status = "consumed"]
           /\ receipt' = [receipt EXCEPT ![k] = new]
           /\ Step(p, IF live THEN "consumed" ELSE "answered")
  <2> DEFINE d == c(IF live THEN "consumed" ELSE "answered")
  <2>1. /\ d \in CallRow /\ d.pc = (IF live THEN "consumed" ELSE "answered")
        /\ d.action = x /\ d.approval = a /\ d.key = k
    BY <1>0
  <2>2. /\ call'[p] = d /\ \A q \in Callers : q # p => call'[q] = call[q]
        /\ call' \in [Callers -> CallRow]
    <3>1. call' = [call EXCEPT ![p] = d] /\ call \in [Callers -> CallRow]
      BY <1>0, <1>3, Typed DEF Step, c
    <3> QED
      BY <2>1, <3>1
  <2> HIDE DEF d
  <2>3. /\ new \in ReceiptRow /\ new # NoReceipt
        /\ new.action = x /\ new.approval = a /\ new.status = (IF live THEN "in_flight" ELSE "accepted")
    BY <1>0 DEF ReceiptRow, NoReceipt
  <2> HIDE DEF new
  <2>4. /\ receipt'[k] = new /\ \A l \in Keys : l # k => receipt'[l] = receipt[l]
        /\ receipt' \in [Keys -> ReceiptRow]
    BY <1>0, <1>3, <2>3, Typed
  <2>5. /\ approval' \in [Approvals -> ApprovalRow] /\ approval'[a].status = "consumed"
        /\ \A b \in Approvals : b # a => approval'[b] = approval[b]
    <3>1. approval[a] \in ApprovalRow /\ [approval[a] EXCEPT !.status = "consumed"] \in ApprovalRow
      BY <1>0, Typed, RowChanges
    <3>2. [approval[a] EXCEPT !.status = "consumed"].status = "consumed"
      BY <3>1 DEF ApprovalRow
    <3> QED
      BY <1>0, <1>3, <3>1, <3>2, Typed
  <2>6. approval[a].status = "approved"
    BY <1>3 DEF Approved, Ask
  <2>7. UNCHANGED <<now, registry, reconciled, audit, outside, crashes>>
    BY DEF Consume
  <2>8. \A l \in Keys : Used(l) => receipt[l].approval # a
    BY <2>6 DEF CInv, ReceiptsOK
  <2>9. \A q \in Callers : q # p /\ Where(q) \in Working => call[q].key # k /\ call[q].approval # a
    <3>1. ASSUME NEW q \in Callers, Where(q) \in Working
          PROVE  /\ Used(call[q].key) /\ receipt[call[q].key].approval = call[q].approval
                 /\ call[q].key \in Keys
      BY <1>0, <3>1 DEF CallsOK, Working
    <3> QED
      BY <1>3, <2>8, <3>1
  <2>10. TypeOK'
    <3>1. UNCHANGED <<now, connector, authorization, reconciled, audit, sent, took, admin, crashes>>
      BY <2>7 DEF registry, outside
    <3> QED
      BY <1>0, <2>2, <2>4, <2>5, <3>1, Typed DEF TypeOK, ApprovalRow, ReceiptRow, CallRow
  <2>11. CallsOK'
    <3>1. ASSUME NEW q \in Callers, q # p PROVE
            /\ Where(q)' # "idle" => /\ call'[q].action \in Actions /\ call'[q].approval \in Approvals
                                     /\ call'[q].key \in Keys
            /\ Where(q)' = "settling" => call'[q].result \in Clear
            /\ Where(q)' = "settled" => call'[q].result \in Clear
            /\ Where(q)' \in Working => /\ Used(call[q].key)'
                                       /\ receipt'[call'[q].key].approval = call'[q].approval
                                       /\ receipt'[call'[q].key].action = call'[q].action
                                       /\ Kind[On[call'[q].action]] = "live"
            /\ Where(q)' = "answered" => receipt'[call'[q].key].action = call'[q].action
      <4>1. call'[q] = call[q] /\ Where(q)' = Where(q)
        BY <2>2, <3>1 DEF Where
      <4>2. Where(q) = "answered" => call[q].key # k
        <5>1. receipt[k].action = None
          BY <1>3 DEF Used, NoReceipt
        <5>2. Where(q) = "answered" => call[q].action \in Actions /\ receipt[call[q].key].action = call[q].action
          BY <1>0 DEF CallsOK
        <5> QED
          BY <5>1, <5>2, ConnectorAssumption
      <4> QED
        BY <4>1, <4>2, <2>4, <2>9, <1>0, <3>1 DEF CallsOK, Used, Working
    <3>2. /\ Where(p)' = (IF live THEN "consumed" ELSE "answered")
          /\ call'[p].action = x /\ call'[p].approval = a /\ call'[p].key = k
      BY <2>1, <2>2 DEF Where
    <3>3. Used(k)' /\ receipt'[k].approval = a /\ receipt'[k].action = x
      BY <2>3, <2>4 DEF Used, NoReceipt
    <3> QED
      BY <1>0, <3>1, <3>2, <3>3 DEF CallsOK, Used, Working
  <2>12. ReceiptsOK'
    BY <1>0, <2>3, <2>4, <2>5, <2>8 DEF CInv, ReceiptsOK, Used
  <2>13. Alone'
    BY <2>1, <2>2, <2>9 DEF CInv, Alone, Where
  <2>14. SpentOK'
    <3>1. sent[a] = 0 /\ a \notin took
      BY <1>0, <2>6 DEF CInv, SpentOK
    <3>2. \A q \in Callers : q # p /\ Where(q)' \in {"consumed", "sending"} =>
            sent[call[q].approval] = 0 /\ call[q].approval \notin took
      BY <2>2 DEF CInv, SpentOK, Where
    <3> QED
      BY <1>0, <2>1, <2>2, <2>5, <2>7, <3>1, <3>2 DEF CInv, SpentOK, Where, outside
  <2>15. AuditOK'
    <3>1. audit[k] = << >>
      BY <1>0, <1>3 DEF CInv, AuditOK
    <3> QED
      BY <2>1, <2>2, <2>4, <2>7, <3>1, <2>3 DEF CInv, AuditOK, Used, Where
  <2>16. OutcomeOK'
    <3>1. ASSUME NEW q \in Callers, q # p, Where(q)' \in {"consumed", "sending", "settling"}
          PROVE  receipt'[call'[q].key].status = "in_flight" /\ call'[q] = call[q] /\ Where(q)' = Where(q)
      BY <1>0, <2>2, <2>4, <2>9, <3>1 DEF CInv, OutcomeOK, CallsOK, Where, Working
    <3>2. Where(p)' = "consumed" => receipt'[k].status = "in_flight"
      BY <2>1, <2>2, <2>3, <2>4 DEF Where
    <3> QED
      BY <2>1, <2>2, <2>7, <3>1, <3>2 DEF CInv, OutcomeOK, Where, outside
  <2>17. NothingLeavesUnrecorded'
    BY <1>0, <1>3, <2>4, <2>7, ConnectorAssumption DEF CInv, NothingLeavesUnrecorded, Used, NoReceipt, outside
  <2>18. ReceiptsTellTheTruth'
    BY <1>0, <2>3, <2>4, <2>7 DEF CInv, ReceiptsTellTheTruth, outside
  <2> QED
    BY <2>10, <2>11, <2>12, <2>13, <2>14, <2>15, <2>16, <2>17, <2>18 DEF CInv
<1> QED
  BY <1>1, <1>2, <1>3 DEF Consume, Used, Ask
-----------------------------------------------------------------------------
(* The caller that spent it, at work *)

\* It keeps the key, the approval and the action it began with.
LEMMA AtWork ==
  ASSUME CInv, NEW p \in Callers, NEW c \in CallRow, call' = [call EXCEPT ![p] = c],
         Where(p) \in Working, c.pc \in Working \cup {"answered", "idle"},
         c.pc # "idle" => c.key = call[p].key /\ c.approval = call[p].approval /\ c.action = call[p].action,
         c.pc \in {"settling", "settled"} => c.result \in Clear,
         \A l \in Keys : /\ receipt'[l].action = receipt[l].action
                         /\ receipt'[l].approval = receipt[l].approval
                         /\ Used(l) => Used(l)'
  PROVE  /\ call' \in [Callers -> CallRow] /\ call'[p] = c
         /\ \A q \in Callers : q # p => call'[q] = call[q]
         /\ \A q \in Callers : q # p /\ Where(q) \in Working => call[q].key # call[p].key
         /\ CallsOK' /\ Alone'
<1>1. /\ call' \in [Callers -> CallRow] /\ call'[p] = c
      /\ \A q \in Callers : q # p => call'[q] = call[q]
  <2>1. call \in [Callers -> CallRow]
    BY Typed DEF CInv
  <2> QED
    BY <2>1
<1>2. \A q \in Callers : q # p => Where(q)' = Where(q)
  BY <1>1 DEF Where
<1>3. Where(p)' = c.pc
  BY <1>1 DEF Where
<1>4. CallsOK
  BY DEF CInv
<1>5. CallsOK'
  <2>1. \A q \in Callers : Where(q)' # "idle" =>
          call'[q].action \in Actions /\ call'[q].approval \in Approvals /\ call'[q].key \in Keys
    BY <1>1, <1>2, <1>3, <1>4 DEF CallsOK, Working
  <2>2. \A q \in Callers : Where(q)' \in {"settling", "settled"} => call'[q].result \in Clear
    BY <1>1, <1>2, <1>3, <1>4 DEF CallsOK
  <2>3. ASSUME NEW q \in Callers, Where(q)' \in Working
        PROVE  /\ receipt'[call'[q].key] # NoReceipt
               /\ receipt'[call'[q].key].approval = call'[q].approval
               /\ receipt'[call'[q].key].action = call'[q].action
               /\ Kind[On[call'[q].action]] = "live"
    <3>1. /\ Where(q) \in Working
          /\ call'[q].key = call[q].key /\ call'[q].approval = call[q].approval /\ call'[q].action = call[q].action
      BY <1>1, <1>2, <1>3, <2>3 DEF Working
    <3>2. /\ call[q].key \in Keys /\ Used(call[q].key)
          /\ receipt[call[q].key].approval = call[q].approval
          /\ receipt[call[q].key].action = call[q].action
          /\ Kind[On[call[q].action]] = "live"
      BY <1>4, <3>1 DEF CallsOK, Working
    <3> QED
      BY <3>1, <3>2 DEF Used
  <2>4. ASSUME NEW q \in Callers, Where(q)' = "answered"
        PROVE  receipt'[call'[q].key].action = call'[q].action
    <3>1. /\ Where(q) \in Working \cup {"answered"}
          /\ call'[q].key = call[q].key /\ call'[q].action = call[q].action
      BY <1>1, <1>2, <1>3, <2>4
    <3>2. call[q].key \in Keys /\ receipt[call[q].key].action = call[q].action
      BY <1>4, <3>1 DEF CallsOK, Working
    <3> QED
      BY <3>1, <3>2
  <2> QED
    BY <2>1, <2>2, <2>3, <2>4 DEF CallsOK, Used
<1>6. Alone'
  BY <1>1, <1>2, <1>3 DEF CInv, Alone, Working
<1>7. \A q \in Callers : q # p /\ Where(q) \in Working => call[q].key # call[p].key
  BY DEF CInv, Alone
<1> QED
  BY <1>1, <1>5, <1>6, <1>7

LEMMA RecordAttemptInv == ASSUME CInv, NEW p \in Callers, RecordAttempt(p) PROVE CInv'
<1> PICK k : k = call[p].key
  OBVIOUS
<1> PICK c : c = [call[p] EXCEPT !.pc = "sending"]
  OBVIOUS
<1>0. /\ TypeOK /\ CallsOK /\ call[p] \in CallRow /\ Where(p) = "consumed" /\ k \in Keys
      /\ c \in CallRow /\ c.pc = "sending" /\ c.key = k
      /\ c.approval = call[p].approval /\ c.action = call[p].action
  <2>1. call[p] \in CallRow /\ TypeOK /\ CallsOK /\ Where(p) = "consumed"
    BY Typed DEF CInv, RecordAttempt
  <2>2. k \in Keys
    BY <2>1 DEF CallsOK
  <2>3. c.pc = "sending" /\ c.key = k /\ c.approval = call[p].approval /\ c.action = call[p].action
    BY <2>1 DEF CallRow
  <2> QED
    BY <2>1, <2>2, <2>3, CallChanges
<1>1. /\ UNCHANGED <<now, registry, approval, receipt, reconciled, outside, crashes>>
      /\ call' = [call EXCEPT ![p] = c]
  BY DEF RecordAttempt, Record, Step
<1>2. /\ call' \in [Callers -> CallRow] /\ call'[p] = c
      /\ \A q \in Callers : q # p => call'[q] = call[q]
      /\ \A q \in Callers : q # p /\ Where(q) \in Working => call[q].key # k
      /\ CallsOK' /\ Alone'
  <2>1. Where(p) \in Working /\ c.pc \in Working \cup {"answered", "idle"} /\ ~(c.pc \in {"settling", "settled"})
    BY <1>0 DEF Working
  <2>2. c.key = call[p].key /\ c.approval = call[p].approval /\ c.action = call[p].action
    BY <1>0
  <2>3. \A l \in Keys : receipt'[l].action = receipt[l].action /\ receipt'[l].approval = receipt[l].approval
                        /\ (Used(l) => Used(l)')
    BY <1>1 DEF Used
  <2>4. /\ call' \in [Callers -> CallRow] /\ call'[p] = c
        /\ \A q \in Callers : q # p => call'[q] = call[q]
        /\ \A q \in Callers : q # p /\ Where(q) \in Working => call[q].key # call[p].key
        /\ CallsOK' /\ Alone'
    BY <1>0, <1>1, <2>1, <2>2, <2>3, AtWork, Zenon
  <2> QED
    BY <2>4, <1>0, <2>2
<1>3. /\ audit[k] = << >>
      /\ audit' \in [Keys -> Seq({"attempted", "executed", "failed", "unresolved"})]
      /\ audit'[k] # << >> /\ Head(audit'[k]) = "attempted"
      /\ \A l \in Keys : l # k => audit'[l] = audit[l]
  <2>1. audit[k] = << >> /\ audit \in [Keys -> Seq({"attempted", "executed", "failed", "unresolved"})]
    BY <1>0, Typed DEF CInv, AuditOK
  <2>2. audit' = [audit EXCEPT ![k] = <<"attempted">>]
    BY <2>1, <1>0 DEF RecordAttempt, Record, Says, Ask
  <2> QED
    BY <1>0, <2>1, <2>2
<1>4. TypeOK'
  BY <1>0, <1>1, <1>2, <1>3, Typed DEF TypeOK, registry, outside, CallRow
<1>5. ReceiptsOK' /\ ReceiptsTellTheTruth'
  BY <1>1 DEF CInv, ReceiptsOK, ReceiptsTellTheTruth, Used, outside
<1>6. SpentOK' /\ OutcomeOK'
  BY <1>0, <1>1, <1>2 DEF CInv, SpentOK, OutcomeOK, Where, outside
<1>7. AuditOK'
  <2>1. Used(k)
    BY <1>0 DEF CallsOK, Working
  <2>2. \A l \in Keys : ~Used(l) => audit'[l] = << >>
    BY <1>3, <2>1 DEF CInv, AuditOK
  <2>3. ASSUME NEW q \in Callers, q # p
        PROVE  /\ Where(q)' = "consumed" => audit'[call[q].key] = << >>
               /\ Where(q)' \in {"sending", "settling", "settled"} =>
                    audit'[call[q].key] # << >> /\ Head(audit'[call[q].key]) = "attempted"
    <3>1. Where(q)' = Where(q)
      BY <1>2, <2>3 DEF Where
    <3>2. Where(q) \in Working => audit'[call[q].key] = audit[call[q].key]
      BY <1>0, <1>2, <1>3, <2>3 DEF CallsOK, Working
    <3> QED
      BY <3>1, <3>2 DEF CInv, AuditOK, Working
  <2> QED
    BY <1>0, <1>1, <1>2, <1>3, <2>2, <2>3 DEF AuditOK, Where, Used
<1>8. NothingLeavesUnrecorded'
  BY <1>0, <1>1, <1>3 DEF CInv, NothingLeavesUnrecorded, outside
<1> QED
  BY <1>2, <1>4, <1>5, <1>6, <1>7, <1>8 DEF CInv

\* Where a caller at work stands with its receipt, and apart from every other.
LEMMA WorkersFacts ==
  ASSUME CInv, NEW p \in Callers, Where(p) \in Working
  PROVE  /\ call[p] \in CallRow
         /\ call[p].key \in Keys /\ call[p].approval \in Approvals /\ call[p].action \in Actions
         /\ Used(call[p].key) /\ receipt[call[p].key].approval = call[p].approval
         /\ receipt[call[p].key].action = call[p].action
         /\ approval[call[p].approval].status = "consumed"
         /\ \A l \in Keys : l # call[p].key /\ Used(l) => receipt[l].approval # call[p].approval
         /\ \A q \in Callers : q # p /\ Where(q) \in Working =>
              call[q].key \in Keys /\ call[q].key # call[p].key /\ call[q].approval # call[p].approval
<1>1. \A q \in Callers : Where(q) \in Working =>
        /\ call[q].key \in Keys /\ call[q].approval \in Approvals /\ call[q].action \in Actions
        /\ Used(call[q].key) /\ receipt[call[q].key].approval = call[q].approval
        /\ receipt[call[q].key].action = call[q].action
  BY DEF CInv, CallsOK, Working
<1>2. \A q \in Callers : q # p /\ Where(q) \in Working => call[q].key # call[p].key
  BY DEF CInv, Alone
<1>3. \A l \in Keys : l # call[p].key /\ Used(l) => receipt[l].approval # call[p].approval
  BY <1>1 DEF CInv, ReceiptsOK
<1>4. approval[call[p].approval].status = "consumed"
  BY <1>1 DEF CInv, ReceiptsOK
<1>5. call[p] \in CallRow
  BY Typed DEF CInv
<1> QED
  BY <1>1, <1>2, <1>3, <1>4, <1>5

LEMMA SendInv ==
  ASSUME CInv, NEW p \in Callers, NEW result \in Network, NEW effect \in PossibleEffects(result),
         Send(p, result, effect)
  PROVE  CInv'
<1> PICK k, a : k = call[p].key /\ a = call[p].approval
  OBVIOUS
<1> PICK c : c = [call[p] EXCEPT !.pc = "settling", !.result = result]
  OBVIOUS
<1>0. /\ TypeOK /\ CallsOK /\ Where(p) = "sending" /\ Where(p) \in Working
      /\ k \in Keys /\ a \in Approvals /\ call[p] \in CallRow /\ result \in Results
      /\ UNCHANGED <<now, registry, approval, receipt, reconciled, audit, crashes>>
  BY WorkersFacts, ConnectorAssumption DEF CInv, Send, Working, Results
<1>1. effect \in BOOLEAN /\ (effect => result \in {"ok", "unclear"}) /\ (result = "ok" => effect)
  BY <1>0 DEF PossibleEffects, Results
<1>2. CASE result = "refused"
  <2>1. NoCall \in CallRow /\ NoCall.pc = "idle"
    BY DEF NoCall, CallRow
  <2>2. UNCHANGED outside /\ call' = [call EXCEPT ![p] = NoCall]
    BY <1>1, <1>2 DEF Send, Leaves, outside
  <2>3. crashes' \in 0 .. MaxCrashes
    BY <1>0 DEF TypeOK
  <2> QED
    BY <1>0, <2>1, <2>2, <2>3, OwnPlaceInv
<1>3. CASE result # "refused"
  <2>1. /\ call' = [call EXCEPT ![p] = c] /\ c \in CallRow /\ c.pc = "settling" /\ c.result = result
        /\ c.key = k /\ c.approval = a /\ c.action = call[p].action /\ result \in Clear
    <3>1. c.pc = "settling" /\ c.result = result /\ c.key = k /\ c.approval = a /\ c.action = call[p].action
      BY <1>0 DEF CallRow
    <3> QED
      BY <1>0, <1>3, <3>1, CallChanges DEF Send, Clear
  <2>2. /\ call' \in [Callers -> CallRow] /\ call'[p] = c
        /\ \A q \in Callers : q # p => call'[q] = call[q]
        /\ \A q \in Callers : q # p /\ Where(q) \in Working => call[q].key # call[p].key
        /\ CallsOK' /\ Alone'
    <3>1. c.pc \in Working \cup {"answered", "idle"}
      BY <2>1 DEF Working
    <3>2. \A l \in Keys : receipt'[l].action = receipt[l].action /\ receipt'[l].approval = receipt[l].approval
                          /\ (Used(l) => Used(l)')
      BY <1>0 DEF Used
    <3>3. c.key = call[p].key /\ c.approval = call[p].approval /\ c.action = call[p].action
      BY <2>1
    <3> QED
      BY <1>0, <2>1, <3>1, <3>2, <3>3, AtWork, Zenon
  <2>3. /\ approval[a].status = "consumed" /\ receipt[k].approval = a
        /\ \A l \in Keys : l # k /\ Used(l) => receipt[l].approval # a
        /\ \A q \in Callers : q # p /\ Where(q) \in Working => call[q].approval # a
    BY <1>0, WorkersFacts
  <2>4. sent[a] = 0 /\ a \notin took /\ sent \in [Approvals -> Nat]
    BY <1>0 DEF CInv, SpentOK, TypeOK
  <2>5. /\ sent' \in [Approvals -> Nat] /\ sent'[a] \in {0, 1}
        /\ \A b \in Approvals : b # a => sent'[b] = sent[b]
    BY <1>0, <2>4 DEF Send, Ask, Leaves
  <2>6. /\ took' \subseteq Approvals /\ \A b \in Approvals : b # a => (b \in took' <=> b \in took)
        /\ (a \in took' <=> effect)
    BY <1>0, <1>1, <2>4 DEF Send, Ask, TypeOK
  <2>7. TypeOK'
    BY <1>0, <2>2, <2>5, <2>6 DEF TypeOK, registry, CallRow
  <2>8. ReceiptsOK'
    BY <1>0 DEF CInv, ReceiptsOK, Used
  <2>9. SpentOK'
    <3>1. \A b \in Approvals :
            sent'[b] \in {0, 1} /\ (sent'[b] = 1 \/ b \in took' => approval[b].status = "consumed")
      BY <2>3, <2>5, <2>6 DEF CInv, SpentOK
    <3>2. ASSUME NEW q \in Callers, Where(q)' \in {"consumed", "sending"}
          PROVE  sent'[call'[q].approval] = 0 /\ call'[q].approval \notin took'
      <4>1. q # p /\ call'[q] = call[q] /\ Where(q) \in {"consumed", "sending"}
        BY <2>1, <2>2, <3>2 DEF Where
      <4>2. call[q].approval \in Approvals /\ call[q].approval # a
        BY <1>0, <2>3, <4>1 DEF CallsOK, Working
      <4>3. sent[call[q].approval] = 0 /\ call[q].approval \notin took
        BY <4>1 DEF CInv, SpentOK
      <4> QED
        BY <4>1, <4>2, <4>3, <2>5, <2>6
    <3> QED
      BY <1>0, <3>1, <3>2 DEF SpentOK
  <2>10. AuditOK'
    BY <1>0, <2>1, <2>2 DEF CInv, AuditOK, Where, Used
  <2>11. OutcomeOK'
    <3>1. receipt[k].status = "in_flight"
      BY <1>0 DEF CInv, OutcomeOK
    <3>2. ASSUME NEW q \in Callers, q # p, Where(q)' = "settling"
          PROVE  /\ call'[q].result = "ok" => call'[q].approval \in took'
                 /\ call'[q].result \in {"bad", "unreached"} => call'[q].approval \notin took'
      <4>1. call'[q] = call[q] /\ Where(q) = "settling"
        BY <2>2, <3>2 DEF Where
      <4>2. call[q].approval \in Approvals /\ call[q].approval # a
        BY <1>0, <2>3, <3>2, <4>1 DEF CallsOK, Working
      <4> QED
        BY <4>1, <4>2, <2>6 DEF CInv, OutcomeOK
    <3>3. ASSUME NEW q \in Callers, Where(q)' \in {"consumed", "sending", "settling"}
          PROVE  receipt[call'[q].key].status = "in_flight"
      BY <2>1, <2>2, <3>1, <3>3 DEF CInv, OutcomeOK, Where
    <3> QED
      BY <1>0, <1>1, <2>1, <2>2, <2>6, <3>2, <3>3 DEF OutcomeOK
  <2>12. NothingLeavesUnrecorded'
    <3>1. audit[k] # << >> /\ Head(audit[k]) = "attempted"
      BY <1>0 DEF CInv, AuditOK
    <3> QED
      BY <1>0, <2>3, <2>5, <3>1 DEF CInv, NothingLeavesUnrecorded
  <2>13. ReceiptsTellTheTruth'
    <3>1. receipt[k].status = "in_flight"
      BY <1>0 DEF CInv, OutcomeOK
    <3>2. \A l \in Keys : Used(l) => receipt[l].approval \in Approvals
      BY DEF CInv, ReceiptsOK
    <3> QED
      BY <1>0, <2>3, <2>6, <3>1, <3>2 DEF CInv, ReceiptsTellTheTruth, Used
  <2> QED
    BY <2>2, <2>7, <2>8, <2>9, <2>10, <2>11, <2>12, <2>13 DEF CInv
<1> QED
  BY <1>2, <1>3

LEMMA SettleInv == ASSUME CInv, NEW p \in Callers, Settle(p) PROVE CInv'
<1> PICK k, a : k = call[p].key /\ a = call[p].approval
  OBVIOUS
<1> PICK c : c = [call[p] EXCEPT !.pc = "settled"]
  OBVIOUS
<1> PICK v : v = Classify(call[p].result)
  OBVIOUS
<1>0. /\ TypeOK /\ CallsOK /\ Where(p) = "settling" /\ Where(p) \in Working
      /\ k \in Keys /\ a \in Approvals /\ call[p] \in CallRow /\ call[p].result \in Clear
      /\ receipt[k].status = "in_flight"
      /\ UNCHANGED <<now, registry, approval, reconciled, audit, outside, crashes>>
  BY WorkersFacts DEF CInv, Settle, Working, CallsOK, OutcomeOK
<1>1. /\ v \in {"in_flight", "accepted", "failed"}
      /\ v = "accepted" => call[p].result = "ok"
      /\ v = "failed" => call[p].result \in {"bad", "unreached"}
  BY <1>0 DEF Classify, Clear, Results
<1>2. /\ call' = [call EXCEPT ![p] = c] /\ c \in CallRow /\ c.pc = "settled" /\ c.result = call[p].result
      /\ c.key = k /\ c.approval = a /\ c.action = call[p].action
  <2>1. c.pc = "settled" /\ c.result = call[p].result /\ c.key = k /\ c.approval = a /\ c.action = call[p].action
    BY <1>0 DEF CallRow
  <2> QED
    BY <1>0, <2>1, CallChanges DEF Settle, Step, Ask
<1>3. /\ receipt' \in [Keys -> ReceiptRow]
      /\ receipt'[k].status = v /\ receipt'[k].action = receipt[k].action /\ receipt'[k].approval = receipt[k].approval
      /\ \A l \in Keys : l # k => receipt'[l] = receipt[l]
  <2>1. receipt[k] \in ReceiptRow /\ receipt \in [Keys -> ReceiptRow]
    BY <1>0, Typed
  <2>2. receipt' = [receipt EXCEPT ![k].status = v]
    BY <1>0 DEF Settle, Ask
  <2>3. [receipt[k] EXCEPT !.status = v] \in ReceiptRow
    BY <1>1, <2>1, RowChanges
  <2> QED
    BY <1>0, <2>1, <2>2, <2>3 DEF ReceiptRow
<1>4. \A l \in Keys : /\ receipt'[l].action = receipt[l].action /\ receipt'[l].approval = receipt[l].approval
                      /\ Used(l) <=> Used(l)'
  <2>1. Used(k) /\ Used(k)'
    BY <1>0, <1>1, <1>3 DEF Used, NoReceipt
  <2> QED
    BY <1>3, <2>1 DEF Used
<1>5. /\ call' \in [Callers -> CallRow] /\ call'[p] = c
      /\ \A q \in Callers : q # p => call'[q] = call[q]
      /\ \A q \in Callers : q # p /\ Where(q) \in Working => call[q].key # call[p].key
      /\ CallsOK' /\ Alone'
  <2>1. c.pc \in Working \cup {"answered", "idle"}
    BY <1>2 DEF Working
  <2>2. c.key = call[p].key /\ c.approval = call[p].approval /\ c.action = call[p].action
    BY <1>2
  <2>3. \A l \in Keys : receipt'[l].action = receipt[l].action /\ receipt'[l].approval = receipt[l].approval
                        /\ (Used(l) => Used(l)')
    BY <1>4
  <2>4. c.result \in Clear
    BY <1>0, <1>2
  <2> QED
    BY <1>0, <1>2, <2>1, <2>2, <2>3, <2>4, AtWork, Zenon
<1>6. TypeOK'
  BY <1>0, <1>3, <1>5, Typed DEF TypeOK, registry, outside, CallRow, ReceiptRow
<1>7. ReceiptsOK' /\ NothingLeavesUnrecorded'
  BY <1>0, <1>4 DEF CInv, ReceiptsOK, NothingLeavesUnrecorded, outside
<1>8. SpentOK'
  BY <1>0, <1>2, <1>5 DEF CInv, SpentOK, Where, outside
<1>9. AuditOK'
  BY <1>0, <1>2, <1>4, <1>5 DEF CInv, AuditOK, Where
<1>10. OutcomeOK'
  <2>1. ASSUME NEW q \in Callers, Where(q)' \in {"consumed", "sending", "settling"}
        PROVE  call'[q] = call[q] /\ Where(q) = Where(q)' /\ receipt'[call[q].key].status = "in_flight"
    <3>1. q # p /\ call'[q] = call[q] /\ Where(q) = Where(q)'
      BY <1>2, <1>5, <2>1 DEF Where
    <3>2. call[q].key \in Keys /\ call[q].key # k
      BY <1>0, <1>5, <2>1, <3>1 DEF CallsOK, Working
    <3> QED
      BY <1>3, <2>1, <3>1, <3>2 DEF CInv, OutcomeOK
  <2> QED
    BY <1>0, <2>1 DEF CInv, OutcomeOK, outside
<1>11. ReceiptsTellTheTruth'
  <2>1. /\ v = "accepted" => a \in took
        /\ v = "failed" => a \notin took
    BY <1>0, <1>1 DEF CInv, OutcomeOK
  <2>2. receipt[k].approval = a
    BY <1>0, WorkersFacts
  <2> QED
    BY <1>0, <1>3, <2>1, <2>2 DEF CInv, ReceiptsTellTheTruth, outside
<1> QED
  BY <1>5, <1>6, <1>7, <1>8, <1>9, <1>10, <1>11 DEF CInv

\* A line added to a log that has one leaves the first line the first.
LEMMA AppendKeepsHead ==
  ASSUME NEW T, NEW s \in Seq(T), s # << >>, NEW v \in T
  PROVE  Append(s, v) \in Seq(T) /\ Append(s, v) # << >> /\ Head(Append(s, v)) = Head(s)
<1>1. Len(s) \in Nat /\ Len(s) > 0
  OBVIOUS
<1>2. Append(s, v) \in Seq(T) /\ Len(Append(s, v)) = Len(s) + 1 /\ Append(s, v)[1] = s[1]
  BY <1>1
<1> QED
  BY <1>1, <1>2

LEMMA RecordOutcomeInv == ASSUME CInv, NEW p \in Callers, RecordOutcome(p) PROVE CInv'
<1> PICK k : k = call[p].key
  OBVIOUS
<1> PICK c : c = [call[p] EXCEPT !.pc = "answered"]
  OBVIOUS
<1> PICK v : v = AuditOutcome(Classify(call[p].result))
  OBVIOUS
<1>0. /\ TypeOK /\ CallsOK /\ Where(p) = "settled" /\ Where(p) \in Working
      /\ k \in Keys /\ call[p] \in CallRow /\ call[p].result \in Clear /\ Used(k)
      /\ UNCHANGED <<now, registry, approval, receipt, reconciled, outside, crashes>>
  BY WorkersFacts DEF CInv, RecordOutcome, Record, Working, CallsOK
<1>1. /\ call' = [call EXCEPT ![p] = c] /\ c \in CallRow /\ c.pc = "answered"
      /\ c.key = k /\ c.approval = call[p].approval /\ c.action = call[p].action
  <2>1. c.pc = "answered" /\ c.key = k /\ c.approval = call[p].approval /\ c.action = call[p].action
    BY <1>0 DEF CallRow
  <2> QED
    BY <1>0, <2>1, CallChanges DEF RecordOutcome, Step
<1>2. /\ call' \in [Callers -> CallRow] /\ call'[p] = c
      /\ \A q \in Callers : q # p => call'[q] = call[q]
      /\ \A q \in Callers : q # p /\ Where(q) \in Working => call[q].key # call[p].key
      /\ CallsOK' /\ Alone'
  <2>1. c.pc \in Working \cup {"answered", "idle"} /\ ~(c.pc \in {"settling", "settled"})
    BY <1>1 DEF Working
  <2>2. c.key = call[p].key /\ c.approval = call[p].approval /\ c.action = call[p].action
    BY <1>1
  <2>3. \A l \in Keys : receipt'[l].action = receipt[l].action /\ receipt'[l].approval = receipt[l].approval
                        /\ (Used(l) => Used(l)')
    BY <1>0 DEF Used
  <2> QED
    BY <1>0, <1>1, <2>1, <2>2, <2>3, AtWork, Zenon
<1>3. /\ audit' \in [Keys -> Seq({"attempted", "executed", "failed", "unresolved"})]
      /\ audit'[k] # << >> /\ Head(audit'[k]) = Head(audit[k])
      /\ \A l \in Keys : l # k => audit'[l] = audit[l]
  <2>1. v \in {"attempted", "executed", "failed", "unresolved"}
    BY <1>0 DEF Classify, AuditOutcome, Clear, Results
  <2>2. /\ audit \in [Keys -> Seq({"attempted", "executed", "failed", "unresolved"})]
        /\ audit[k] # << >>
    BY <1>0, Typed DEF CInv, AuditOK
  <2>3. audit' = [audit EXCEPT ![k] = Append(audit[k], v)]
    BY <1>0, <2>2 DEF RecordOutcome, Record, Says, Ask
  <2>4. /\ Append(audit[k], v) \in Seq({"attempted", "executed", "failed", "unresolved"})
        /\ Append(audit[k], v) # << >> /\ Head(Append(audit[k], v)) = Head(audit[k])
    BY <1>0, <2>1, <2>2, AppendKeepsHead
  <2> QED
    BY <1>0, <2>2, <2>3, <2>4
<1>4. TypeOK'
  BY <1>0, <1>2, <1>3 DEF TypeOK, registry, outside, CallRow
<1>5. ReceiptsOK' /\ ReceiptsTellTheTruth'
  BY <1>0 DEF CInv, ReceiptsOK, ReceiptsTellTheTruth, Used, outside
<1>6. SpentOK' /\ OutcomeOK'
  BY <1>0, <1>1, <1>2 DEF CInv, SpentOK, OutcomeOK, Where, outside
<1>7. Head(audit[k]) = "attempted"
  BY <1>0 DEF CInv, AuditOK
<1>8. AuditOK'
  <2>1. \A l \in Keys : ~Used(l) => audit'[l] = << >>
    BY <1>0, <1>3 DEF CInv, AuditOK
  <2>2. ASSUME NEW q \in Callers, q # p
        PROVE  /\ Where(q)' = "consumed" => audit'[call[q].key] = << >>
               /\ Where(q)' \in {"sending", "settling", "settled"} =>
                    audit'[call[q].key] # << >> /\ Head(audit'[call[q].key]) = "attempted"
    <3>1. Where(q)' = Where(q)
      BY <1>2, <2>2 DEF Where
    <3>2. Where(q) \in Working => audit'[call[q].key] = audit[call[q].key]
      BY <1>0, <1>2, <1>3, <2>2 DEF CallsOK, Working
    <3> QED
      BY <3>1, <3>2 DEF CInv, AuditOK, Working
  <2> QED
    BY <1>0, <1>1, <1>2, <2>1, <2>2 DEF AuditOK, Where, Used
<1>9. NothingLeavesUnrecorded'
  BY <1>0, <1>3, <1>7 DEF CInv, NothingLeavesUnrecorded, outside
<1> QED
  BY <1>2, <1>4, <1>5, <1>6, <1>8, <1>9 DEF CInv

-----------------------------------------------------------------------------
LEMMA NextInv == CInv /\ [Next]_vars => CInv'
<1> SUFFICES ASSUME CInv, [Next]_vars PROVE CInv'
  OBVIOUS
<1>1. CASE Tick \/ Administration \/ (\E k \in Keys, v \in Verdicts : Reconcile(k, v))
  BY <1>1, AdministrationInv
<1>2. CASE Approving
  BY <1>2, ApprovingInv
<1>3. ASSUME NEW p \in Callers, NEW x \in Actions, NEW a \in Approvals, NEW k \in Keys, BeginCall(p, x, a, k)
      PROVE  CInv'
  BY <1>3, EdgesInv
<1>4. ASSUME NEW p \in Callers, Calling(p) PROVE CInv'
  <2>1. CASE LookUpKey(p) \/ Finish(p)
    BY <2>1, EdgesInv
  <2>2. ASSUME NEW result \in Network, NEW effect \in PossibleEffects(result), Send(p, result, effect)
        PROVE  CInv'
    BY <2>2, SendInv
  <2>3. CASE Consume(p) \/ RecordAttempt(p) \/ Settle(p) \/ RecordOutcome(p)
    BY <2>3, ConsumeInv, RecordAttemptInv, SettleInv, RecordOutcomeInv
  <2> QED
    BY <1>4, <2>1, <2>2, <2>3, Zenon DEF Calling
<1>5. ASSUME NEW p \in Callers, Crash(p) PROVE CInv'
  BY <1>5, EdgesInv
<1>6. CASE UNCHANGED vars
  <2>1. TypeOK'
    BY <1>6 DEF CInv, TypeOK, vars
  <2> QED
    BY <1>6, <2>1, OutsideCalls DEF vars, outside
<1> QED
  BY <1>1, <1>2, <1>3, <1>4, <1>5, <1>6, Zenon DEF Next

LEMMA AlwaysInv == Spec => []CInv
BY InitInv, NextInv, PTL DEF Spec

\* The store's rows, the audit log and the callers' memory keep their types.
THEOREM Types == Spec => []TypeOK
<1>1. CInv => TypeOK
  BY DEF CInv
<1> QED
  BY <1>1, AlwaysInv, PTL

\* A receipt is never rounded: "accepted" and "failed" are what the provider did.
THEOREM TruthfulReceipts == Spec => []ReceiptsTellTheTruth
<1>1. CInv => ReceiptsTellTheTruth
  BY DEF CInv
<1> QED
  BY <1>1, AlwaysInv, PTL

\* A caller that dies after its call has left the receipt and the audit line behind.
THEOREM TracesComeFirst == Spec => []NothingLeavesUnrecorded
<1>1. CInv => NothingLeavesUnrecorded
  BY DEF CInv
<1> QED
  BY <1>1, AlwaysInv, PTL

\* One key answers one action, whoever else asked under it.
THEOREM AnswersMatch == Spec => []AnswersAreOnesOwn
<1>1. CInv => AnswersAreOnesOwn
  BY DEF CInv, CallsOK, AnswersAreOnesOwn, Where, Working
<1> QED
  BY <1>1, AlwaysInv, PTL

-----------------------------------------------------------------------------
(* The kill switch *)

LEMMA EnabledKept == ASSUME CInv, EnabledMeansAuthorized, [Next]_vars PROVE EnabledMeansAuthorized'
<1>0. TypeOK
  BY DEF CInv
<1>1. CASE UNCHANGED <<connector, authorization>>
  BY <1>1 DEF EnabledMeansAuthorized
<1>2. ASSUME NEW d \in Connectors, NEW b \in BOOLEAN, NEW s \in Secrets, RegisterConnector(d, b, s)
      PROVE  EnabledMeansAuthorized'
  BY <1>0, <1>2, Typed DEF RegisterConnector, EnabledMeansAuthorized, MayEnable, Authorized
<1>3. ASSUME NEW d \in Connectors, NEW b \in BOOLEAN, SetConnectorEnabled(d, b) PROVE EnabledMeansAuthorized'
  BY <1>0, <1>3, Typed DEF SetConnectorEnabled, EnabledMeansAuthorized, MayEnable, Authorized, ConnectorRow
<1>4. ASSUME NEW d \in Connectors, NEW t \in 1 .. MaxTime + 1, AuthorizeConnector(d, t)
      PROVE  EnabledMeansAuthorized'
  BY <1>0, <1>4, Typed DEF AuthorizeConnector, EnabledMeansAuthorized
<1>5. ASSUME NEW d \in Connectors, RevokeConnectorAuthorization(d) PROVE EnabledMeansAuthorized'
  BY <1>0, <1>5, Typed DEF RevokeConnectorAuthorization, SwitchedOff, EnabledMeansAuthorized, ConnectorRow
<1>6. CASE Administration
  BY <1>2, <1>3, <1>4, <1>5, <1>6, Zenon DEF Administration
<1>7. CASE Tick \/ Approving \/ UNCHANGED vars \/ \E k \in Keys, v \in Verdicts : Reconcile(k, v)
  BY <1>1, <1>7 DEF Tick, Approving, RequestApproval, DecideApproval, Reconcile, registry, vars
<1>8. ASSUME NEW p \in Callers,
             (\E x \in Actions, a \in Approvals, k \in Keys : BeginCall(p, x, a, k)) \/ Calling(p) \/ Crash(p)
      PROVE  EnabledMeansAuthorized'
  BY <1>1, <1>8 DEF BeginCall, Calling, LookUpKey, Consume, RecordAttempt, Send, Settle, RecordOutcome, Record,
                    Finish, Crash, OnlyTheCall, registry
<1> QED
  BY <1>6, <1>7, <1>8, Zenon DEF Next

\* A live connector is enabled only while an authorization stands for it.
THEOREM KillSwitchHolds == Spec => []EnabledMeansAuthorized
<1>1. ASSUME Init PROVE EnabledMeansAuthorized
  <2>1. PICK s \in Secrets : connector = [c \in Connectors |-> [enabled |-> Kind[c] = "fixture", secret |-> s]]
    BY <1>1 DEF Init
  <2>2. \A c \in Connectors : connector[c].enabled = (Kind[c] = "fixture")
    BY <2>1
  <2>3. \A c \in Connectors : connector[c].enabled => Kind[c] = "fixture"
    BY <2>2, Zenon
  <2> QED
    BY <2>3 DEF EnabledMeansAuthorized
<1> QED
  BY <1>1, AlwaysInv, EnabledKept, PTL DEF Spec

-----------------------------------------------------------------------------
(* The detailed gateway implements OutwardPromise *)

LEMMA StepRefines ==
  ASSUME CInv, [Next]_vars
  PROVE  Promised!Next \/ UNCHANGED <<[a \in Approvals |-> approval[a].status], sent>>
<1> DEFINE status == [a \in Approvals |-> approval[a].status]
<1>0. TypeOK
  BY DEF CInv
<1>1. ASSUME UNCHANGED approval, UNCHANGED sent PROVE UNCHANGED <<status, sent>>
  BY <1>1
<1>3. CASE Approving
  <2>1. ASSUME NEW a \in Approvals, NEW x \in Actions, NEW w \in Requesters, RequestApproval(a, x, w)
        PROVE  Promised!Next
    <3>1. /\ approval'[a].status = "pending" /\ UNCHANGED sent /\ approval[a].status = "none"
          /\ \A b \in Approvals : b # a => approval'[b] = approval[b]
      BY <1>0, <2>1, Typed DEF RequestApproval, outside
    <3>2. Promised!Turn(a, "none", "pending")
      BY <1>0, <3>1 DEF Promised!Turn
    <3> QED
      BY <3>2 DEF Promised!Next
  <2>2. ASSUME NEW a \in Approvals, NEW w \in Humans, NEW v \in {"approved", "rejected"}, DecideApproval(a, w, v)
        PROVE  Promised!Next
    <3>1. /\ approval'[a].status = v /\ UNCHANGED sent /\ approval[a].status = "pending"
          /\ \A b \in Approvals : b # a => approval'[b] = approval[b]
      BY <1>0, <2>2, Typed DEF DecideApproval, outside, ApprovalRow
    <3>2. Promised!Turn(a, "pending", v)
      BY <1>0, <3>1 DEF Promised!Turn
    <3> QED
      BY <3>2 DEF Promised!Next
  <2> QED
    BY <1>3, <2>1, <2>2, Zenon DEF Approving
<1>4. ASSUME NEW p \in Callers, Consume(p) PROVE Promised!Next \/ UNCHANGED <<status, sent>>
  <2> PICK a : a = call[p].approval
    OBVIOUS
  <2>1. CASE UNCHANGED approval
    BY <1>4, <2>1 DEF Consume, outside
  <2>2. CASE Approved(p) /\ approval' = [approval EXCEPT ![a].status = "consumed"]
    <3>1. a \in Approvals
      BY <1>4 DEF CInv, CallsOK, Consume
    <3>2. /\ approval'[a].status = "consumed" /\ UNCHANGED sent /\ approval[a].status = "approved"
          /\ \A b \in Approvals : b # a => approval'[b] = approval[b]
      BY <1>0, <1>4, <2>2, <3>1, Typed DEF Consume, Approved, Ask, outside, ApprovalRow
    <3>3. Promised!Turn(a, "approved", "consumed")
      BY <1>0, <3>1, <3>2 DEF Promised!Turn
    <3> QED
      BY <3>1, <3>3 DEF Promised!Next
  <2> QED
    BY <1>4, <2>1, <2>2 DEF Consume, Ask
<1>5. ASSUME NEW p \in Callers, NEW result \in Network, NEW effect \in PossibleEffects(result),
             Send(p, result, effect)
      PROVE  Promised!Next \/ UNCHANGED <<status, sent>>
  <2> PICK a : a = call[p].approval
    OBVIOUS
  <2>1. Where(p) = "sending" /\ UNCHANGED approval
    BY <1>5 DEF Send
  <2>2. a \in Approvals /\ approval[a].status = "consumed" /\ sent[a] = 0
    BY <2>1, WorkersFacts DEF CInv, SpentOK, Working
  <2>3. CASE sent' = sent
    BY <2>1, <2>3
  <2>4. CASE sent' = [sent EXCEPT ![a] = 1]
    <3>1. Promised!Send(a)
      BY <2>1, <2>2, <2>4 DEF Promised!Send
    <3> QED
      BY <2>2, <3>1 DEF Promised!Next
  <2>5. sent' = sent \/ sent' = [sent EXCEPT ![a] = 1]
    BY <1>0, <1>5, <2>2 DEF Send, Ask, TypeOK
  <2> QED
    BY <2>3, <2>4, <2>5
<1>6. CASE UNCHANGED approval /\ UNCHANGED sent
  BY <1>6
<1>7. CASE Tick \/ Administration \/ UNCHANGED vars \/ \E k \in Keys, v \in Verdicts : Reconcile(k, v)
  BY <1>6, <1>7 DEF Tick, Administration, RegisterConnector, SetConnectorEnabled, AuthorizeConnector,
                    RevokeConnectorAuthorization, NoCallTouched, Reconcile, outside, vars
<1>8. ASSUME NEW p \in Callers,
             \/ \E x \in Actions, a \in Approvals, k \in Keys : BeginCall(p, x, a, k)
             \/ LookUpKey(p) \/ RecordAttempt(p) \/ Settle(p) \/ RecordOutcome(p) \/ Finish(p) \/ Crash(p)
      PROVE  UNCHANGED approval /\ UNCHANGED sent
  BY <1>8 DEF BeginCall, LookUpKey, RecordAttempt, Settle, RecordOutcome, Record, Finish, Crash, OnlyTheCall, outside
<1>9. ASSUME NEW p \in Callers, Calling(p) PROVE Promised!Next \/ UNCHANGED <<status, sent>>
  BY <1>1, <1>4, <1>5, <1>8, <1>9, Zenon DEF Calling
<1> QED
  BY <1>1, <1>3, <1>7, <1>8, <1>9, Zenon DEF Next

\* The gateway keeps what OutwardPromise promises: one call under one approval.
THEOREM GatewayKeepsItsPromise == Spec => OneCallPerApproval
<1>1. Init => Promised!Init
  BY DEF Init, NoApproval, Promised!Init
<1>2. CInv /\ [Next]_vars => [Promised!Next]_<<[a \in Approvals |-> approval[a].status], sent>>
  BY StepRefines
<1> QED
  BY <1>1, <1>2, AlwaysInv, PTL DEF Spec, OneCallPerApproval, Promised!Spec
=============================================================================
