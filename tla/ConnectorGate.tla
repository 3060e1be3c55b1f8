---------------------------- MODULE ConnectorGate ----------------------------
(***************************************************************************)
(* Reaching an external system: connectors and their authorizations, the   *)
(* exact approval a person gives, and the gateways that spend it on one    *)
(* call (db_connectors.py, db_runs.py, live_gateway.py, connectors.py and  *)
(* service_connectors.py).                                                 *)
(*                                                                         *)
(* A call is cut at every transaction of the store, at every line of the   *)
(* audit log, and at the network: callers run side by side, a caller may   *)
(* die between any two steps, and the provider may act without our ever    *)
(* hearing of it.                                                          *)
(***************************************************************************)
EXTENDS Integers, Sequences, FiniteSets

CONSTANTS
  Connectors,    \* ids of connectors
  Kind,          \* [Connectors -> {"fixture", "live"}]
  Secrets,       \* names of the variables that hold tokens
  Actions,       \* exact actions, each a different action_digest
  On,            \* [Actions -> Connectors]
  Approvals,     \* approval ids
  Humans,        \* people who may decide
  Requesters,    \* identities that may ask for an approval
  Callers,       \* processes of the connector-gateway identity
  Keys,          \* idempotency keys
  None,
  Window,        \* APPROVAL_WINDOW_HOURS, in ticks
  MaxTime,       \* bound: the last tick
  MaxAdmin,      \* bound: changes of a connector after its first registration, and reconciliations
  MaxCrashes,    \* bound: callers that die in the middle of a call
  Network,       \* results of a call that a run includes
  Verdicts       \* what a person finds at the provider, of confirmed, rejected and pending

ASSUME ConnectorAssumption ==
  /\ Kind \in [Connectors -> {"fixture", "live"}]
  /\ On \in [Actions -> Connectors]
  /\ Window \in Nat \ {0} /\ MaxTime \in Nat /\ MaxAdmin \in Nat /\ MaxCrashes \in Nat
  /\ Network \subseteq {"unreached", "refused", "ok", "bad", "unclear"}
  /\ Verdicts \subseteq {"confirmed", "rejected", "pending"}
  /\ None \notin Approvals \cup Keys \cup Actions \cup Callers \cup Secrets

VARIABLES
  now,
  connector,      \* connector_registrations: [Connectors -> [enabled, secret]]
  authorization,  \* connector_authorizations: [Connectors -> [status, secret, expires_at]]
  approval,       \* approvals: [Approvals -> [status, action, by, expires_at]]
  receipt,        \* connector_receipts by idempotency key: [Keys -> [status, action, approval]]
  reconciled,     \* connector_reconciliations: [Keys -> provider_status, or None]
  audit,          \* chained audit log, the outcomes written for each key
  call,           \* [Callers -> the call a process is in the middle of]
  sent,           \* what left this host: [Approvals -> how often]
  took,           \* what the provider did: the approvals that took effect there
  admin, crashes  \* counters against MaxAdmin and MaxCrashes

outside == <<sent, took>>
registry == <<connector, authorization, admin>>
vars == <<now, connector, authorization, approval, receipt, reconciled, audit, call, sent, took, admin, crashes>>

NoAuthorization == [status |-> "none", secret |-> None, expires_at |-> 0]
NoApproval == [status |-> "none", action |-> None, by |-> None, expires_at |-> 0]
NoReceipt == [status |-> "none", action |-> None, approval |-> None]
NoCall == [pc |-> "idle", action |-> None, approval |-> None, key |-> None, result |-> None]

Init ==
  /\ now = 0
  /\ \E s \in Secrets : connector = [c \in Connectors |-> [enabled |-> Kind[c] = "fixture", secret |-> s]]
  /\ authorization = [c \in Connectors |-> NoAuthorization]
  /\ approval = [a \in Approvals |-> NoApproval]
  /\ receipt = [k \in Keys |-> NoReceipt]
  /\ reconciled = [k \in Keys |-> None]
  /\ audit = [k \in Keys |-> << >>]
  /\ call = [p \in Callers |-> NoCall]
  /\ sent = [a \in Approvals |-> 0]
  /\ took = {}
  /\ admin = 0 /\ crashes = 0

Tick ==
  /\ now < MaxTime
  /\ now' = now + 1
  /\ UNCHANGED <<registry, approval, receipt, reconciled, audit, call, outside, crashes>>

-----------------------------------------------------------------------------
(* Registration, authorization, the kill switch *)

\* connector_authorization: the status a reader is shown
Authorized(c) == authorization[c].status = "authorized" /\ authorization[c].expires_at > now

MayEnable(c) == Kind[c] = "fixture" \/ Authorized(c)

Administer == admin < MaxAdmin /\ admin' = admin + 1
NoCallTouched == UNCHANGED <<now, approval, receipt, reconciled, audit, call, outside, crashes>>

RegisterConnector(c, enabled, secret) ==
  /\ Administer
  /\ enabled => MayEnable(c)
  /\ connector' = [connector EXCEPT ![c] = [enabled |-> enabled, secret |-> secret]]
  /\ UNCHANGED authorization /\ NoCallTouched

AuthorizeConnector(c, expires_at) ==
  /\ Administer
  /\ Kind[c] # "fixture" /\ expires_at > now
  /\ authorization' = [authorization EXCEPT
       ![c] = [status |-> "authorized", secret |-> connector[c].secret, expires_at |-> expires_at]]
  /\ UNCHANGED connector /\ NoCallTouched

SetConnectorEnabled(c, enabled) ==
  /\ Administer
  /\ enabled => MayEnable(c)
  /\ connector' = [connector EXCEPT ![c].enabled = enabled]
  /\ UNCHANGED authorization /\ NoCallTouched

LeftEnabled(c) == connector                                     \* mutant: revoked, not disabled
SwitchedOff(c) == [connector EXCEPT ![c].enabled = FALSE]

RevokeConnectorAuthorization(c) ==
  /\ Administer
  /\ authorization[c].status = "authorized"
  /\ authorization' = [authorization EXCEPT ![c].status = "revoked"]
  /\ connector' = SwitchedOff(c)
  /\ NoCallTouched

-----------------------------------------------------------------------------
(* The approval of one exact action *)

RequestApproval(a, x, who) ==
  /\ approval[a].status = "none"
  /\ connector[On[x]].enabled
  /\ approval' = [approval EXCEPT
       ![a] = [status |-> "pending", action |-> x, by |-> who, expires_at |-> now + Window]]
  /\ UNCHANGED <<now, registry, receipt, reconciled, audit, call, outside, crashes>>

\* Past its window an approval is refused; the row that was to say "expired" is rolled back
\* with the rest of the transaction.
Current(a) == approval[a].expires_at > now

DecideApproval(a, who, status) ==
  /\ approval[a].status = "pending"
  /\ approval[a].by # who /\ Current(a)
  /\ approval' = [approval EXCEPT ![a].status = status]
  /\ UNCHANGED <<now, registry, receipt, reconciled, audit, call, outside, crashes>>

-----------------------------------------------------------------------------
(* One call through a gateway *)

Where(p) == call[p].pc
Ask(p) == call[p]
Step(p, pc) == call' = [call EXCEPT ![p].pc = pc]
End(p) == call' = [call EXCEPT ![p] = NoCall]
OnlyTheCall == UNCHANGED <<now, registry, approval, receipt, reconciled, audit, outside, crashes>>

\* _admit, and the fixture gateway's checks.  Nothing of it is read again later.
Admitted(x) == connector[On[x]].enabled /\ (Kind[On[x]] = "live" => Authorized(On[x]))

BeginCall(p, x, a, k) ==
  /\ Where(p) = "idle" /\ Admitted(x)
  /\ call' = [call EXCEPT ![p] = [NoCall EXCEPT !.pc = "admitted", !.action = x, !.approval = a, !.key = k]]
  /\ OnlyTheCall

\* A key that was used answers for the action it was used for, and for no other.
Mine(p) == receipt[Ask(p).key].action = Ask(p).action

\* connector_receipt: a settled key is answered, one in flight or of another action refused.
LookUpKey(p) ==
  /\ Where(p) = "admitted"
  /\ IF receipt[Ask(p).key] = NoReceipt THEN Step(p, "consuming")
     ELSE IF Mine(p) /\ receipt[Ask(p).key].status # "in_flight" THEN Step(p, "answered")
     ELSE End(p)
  /\ OnlyTheCall

SpentIsGood(p) ==  \* mutant: an approval that was consumed is taken again
  /\ approval[Ask(p).approval].status \in {"approved", "consumed"}
  /\ approval[Ask(p).approval].action = Ask(p).action
  /\ Current(Ask(p).approval)
Approved(p) ==
  /\ approval[Ask(p).approval].status = "approved"
  /\ approval[Ask(p).approval].action = Ask(p).action
  /\ Current(Ask(p).approval)

AnyReceiptAnswers(p) == TRUE  \* mutant: the second look does not compare the request
MineAgain(p) == Mine(p)

\* consume_approval_and_record_receipt, one transaction
Consume(p) ==
  LET k == Ask(p).key
      live == Kind[On[Ask(p).action]] = "live"
  IN /\ Where(p) = "consuming"
     /\ IF receipt[k] # NoReceipt
          THEN /\ IF MineAgain(p) THEN Step(p, "answered") ELSE End(p)
               /\ UNCHANGED <<approval, receipt>>
          ELSE IF Approved(p)
          THEN /\ approval' = [approval EXCEPT ![Ask(p).approval].status = "consumed"]
               /\ receipt' = [receipt EXCEPT ![k] =
                    [status |-> IF live THEN "in_flight" ELSE "accepted",
                     action |-> Ask(p).action, approval |-> Ask(p).approval]]
               /\ Step(p, IF live THEN "consumed" ELSE "answered")
          ELSE /\ End(p)
               /\ UNCHANGED <<approval, receipt>>
     /\ UNCHANGED <<now, registry, reconciled, audit, outside, crashes>>

\* _record: the chained audit log, a line of its own
SaysNothing(k, outcome) == audit                                       \* mutant
Says(k, outcome) == [audit EXCEPT ![k] = Append(@, outcome)]
Record(p, outcome) ==
  /\ audit' = Says(Ask(p).key, outcome)
  /\ UNCHANGED <<now, registry, approval, receipt, reconciled, outside, crashes>>

RecordAttempt(p) ==
  /\ Where(p) = "consumed"
  /\ Record(p, "attempted")
  /\ Step(p, "sending")

\* HttpsTransport.send, one of:
\*   unreached  an error before the body was sent       (GatewayUnavailable)
\*   refused    the name resolves to a private address  (a ConnectorError nobody catches)
\*   ok / bad   an answer of the provider
\*   unclear    a 5xx, 408, 425 or 429, or no answer at all
Results == {"unreached", "refused", "ok", "bad", "unclear"}
Leaves(result) == result \in {"ok", "bad", "unclear"}

\* The provider acts when it answers ok, may have when the answer is unclear.
PossibleEffects(result) ==
  CASE result = "ok" -> {TRUE} [] result = "unclear" -> BOOLEAN [] OTHER -> {FALSE}

Send(p, result, effect) ==
  /\ Where(p) = "sending"
  /\ sent' = IF Leaves(result) THEN [sent EXCEPT ![Ask(p).approval] = @ + 1] ELSE sent
  /\ took' = IF effect THEN took \cup {Ask(p).approval} ELSE took
  /\ call' = [call EXCEPT ![p] = IF result = "refused" THEN NoCall
                                 ELSE [@ EXCEPT !.pc = "settling", !.result = result]]
  /\ UNCHANGED <<now, registry, approval, receipt, reconciled, audit, crashes>>

RoundedDown(result) ==  \* mutant: no clear answer is taken for a refusal
  CASE result = "ok" -> "accepted" [] result = "bad" -> "failed" [] result = "unreached" -> "failed"
    [] result = "unclear" -> "failed"
Classify(result) ==
  CASE result = "ok" -> "accepted" [] result = "bad" -> "failed" [] result = "unreached" -> "failed"
    [] result = "unclear" -> "in_flight"

\* settle_connector_receipt: only a receipt in flight
Settle(p) ==
  /\ Where(p) = "settling"
  /\ IF receipt[Ask(p).key].status = "in_flight"
       THEN /\ receipt' = [receipt EXCEPT ![Ask(p).key].status = Classify(Ask(p).result)]
            /\ Step(p, "settled")
       ELSE End(p) /\ UNCHANGED receipt
  /\ UNCHANGED <<now, registry, approval, reconciled, audit, outside, crashes>>

AuditOutcome(status) ==
  CASE status = "accepted" -> "executed" [] status = "failed" -> "failed" [] status = "in_flight" -> "unresolved"

RecordOutcome(p) ==
  /\ Where(p) = "settled"
  /\ Record(p, AuditOutcome(Classify(Ask(p).result)))
  /\ Step(p, "answered")

\* The caller has its answer.
Finish(p) ==
  /\ Where(p) = "answered"
  /\ End(p)
  /\ OnlyTheCall

\* A caller that has its answer has nothing left to lose.
Crash(p) ==
  /\ crashes < MaxCrashes /\ Where(p) \notin {"idle", "answered"}
  /\ crashes' = crashes + 1
  /\ End(p)
  /\ UNCHANGED <<now, registry, approval, receipt, reconciled, audit, outside>>

\* reconcile_connector_receipt: a note beside the receipt, which stays as it is
Reconcile(k, provider_status) ==
  /\ receipt[k] # NoReceipt /\ Administer
  /\ reconciled' = [reconciled EXCEPT ![k] = provider_status]
  /\ UNCHANGED <<now, connector, authorization, approval, receipt, audit, call, outside, crashes>>

-----------------------------------------------------------------------------
Administration ==
  \E c \in Connectors :
    \/ \E b \in BOOLEAN : \/ \E s \in Secrets : RegisterConnector(c, b, s)
                          \/ SetConnectorEnabled(c, b)
    \/ \E t \in 1 .. MaxTime + 1 : AuthorizeConnector(c, t)
    \/ RevokeConnectorAuthorization(c)

Approving ==
  \E a \in Approvals :
    \/ \E x \in Actions, who \in Requesters : RequestApproval(a, x, who)
    \/ \E who \in Humans, status \in {"approved", "rejected"} : DecideApproval(a, who, status)

Calling(p) ==
  \/ LookUpKey(p) \/ Consume(p) \/ RecordAttempt(p)
  \/ \E result \in Network : \E effect \in PossibleEffects(result) : Send(p, result, effect)
  \/ Settle(p) \/ RecordOutcome(p) \/ Finish(p)

Next ==
  \/ Tick \/ Administration \/ Approving
  \/ \E p \in Callers : \/ \E x \in Actions, a \in Approvals, k \in Keys : BeginCall(p, x, a, k)
                        \/ Calling(p)
                        \/ Crash(p)
  \/ \E k \in Keys, provider_status \in Verdicts : Reconcile(k, provider_status)

Spec == Init /\ [][Next]_vars
=============================================================================
