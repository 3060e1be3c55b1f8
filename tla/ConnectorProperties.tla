------------------------- MODULE ConnectorProperties -------------------------
(* What the connector gates have to guarantee. *)
EXTENDS ConnectorGate

\* The store's rows, the audit log and the callers' working memory are of their types.
TypeOK ==
  /\ now \in 0 .. MaxTime
  /\ connector \in [Connectors -> [enabled : BOOLEAN, secret : Secrets]]
  /\ authorization \in [Connectors -> [status : {"none", "authorized", "revoked"},
                                       secret : Secrets \cup {None}, expires_at : Nat]]
  /\ approval \in [Approvals -> [status : {"none", "pending", "approved", "rejected", "consumed"},
                                 action : Actions \cup {None}, by : Requesters \cup {None}, expires_at : Nat]]
  /\ receipt \in [Keys -> [status : {"none", "in_flight", "accepted", "failed"},
                           action : Actions \cup {None}, approval : Approvals \cup {None}]]
  /\ reconciled \in [Keys -> {None, "confirmed", "rejected", "pending"}]
  /\ audit \in [Keys -> Seq({"attempted", "executed", "failed", "unresolved"})]
  /\ call \in [Callers ->
       [pc : {"idle", "admitted", "consuming", "consumed", "sending", "settling", "settled", "answered"},
        action : Actions \cup {None}, approval : Approvals \cup {None}, key : Keys \cup {None},
        result : Results \cup {None}]]
  /\ sent \in [Approvals -> Nat] /\ took \subseteq Approvals
  /\ admin \in 0 .. MaxAdmin /\ crashes \in 0 .. MaxCrashes

(* An approval is good for one call: whatever races, dies or is asked again, bytes leave *)
(* this host at most once under it, and never before a person approved that very action. *)
Promised == INSTANCE OutwardPromise WITH
  permission <- [a \in Approvals |-> approval[a].status]
OneCallPerApproval == Promised!Spec

(* A receipt that claims an outcome is right about it: "accepted" only if the provider   *)
(* acted, "failed" only if it did not ("Ambiguity is preserved, not rounded").           *)
ReceiptsTellTheTruth ==
  \A k \in Keys :
    (receipt[k] # NoReceipt /\ Kind[On[receipt[k].action]] = "live") =>
      /\ receipt[k].status = "accepted" => receipt[k].approval \in took
      /\ receipt[k].status = "failed" => receipt[k].approval \notin took

(* Whatever left this host left a trace first: a receipt that names its approval and a   *)
(* line of the audit log, so a caller that dies cannot have acted unseen.                *)
NothingLeavesUnrecorded ==
  \A a \in Approvals : sent[a] > 0 =>
    \E k \in Keys : receipt[k].approval = a /\ audit[k] # << >> /\ Head(audit[k]) = "attempted"

(* Of two callers with one key neither goes on with, or is answered with, the receipt of *)
(* an action it did not ask for (live_gateway.py:166, db_connectors.py:255).             *)
AnswersAreOnesOwn ==
  \A p \in Callers : call[p].pc \in {"consumed", "sending", "settling", "settled", "answered"} =>
    receipt[call[p].key].action = call[p].action

(* A live connector is never enabled without an authorization a person gave and nobody   *)
(* revoked: register, enable and revoke each change one half of that pair.               *)
EnabledMeansAuthorized ==
  \A c \in Connectors : (connector[c].enabled /\ Kind[c] = "live") => authorization[c].status = "authorized"

(* What docs/ARCHITECTURE-OPPORTUNITIES says of an outward call whose outcome is unknown *)
(* ("is never retried") and the gateway's refusal says of the way out (a person          *)
(* reconciles it first): the same action does not leave again before that.               *)
UnknownIsReconciledFirst ==
  [][\A p \in Callers, k \in Keys :
       ( /\ Where(p) = "sending" /\ sent' # sent
         /\ k # call[p].key /\ receipt[k].action = call[p].action )
         => (receipt[k].status = "in_flight" => reconciled[k] # None)]_vars

(* The other half of that refusal ("a human must reconcile it before this action is      *)
(* attempted again"): once it is reconciled, the same request is no longer refused.      *)
ReconciledMayGoOn ==
  [][\A p \in Callers :
       ( /\ Where(p) = "admitted" /\ call'[p].pc = "idle" /\ crashes' = crashes
         /\ Mine(p) ) => reconciled[call[p].key] = None]_vars

(* What the store says of in-flight receipts ("Calls that left this host and were never  *)
(* resolved"): with nobody working on it and nobody dead, such a call did leave.         *)
InFlightLeft ==
  \A k \in Keys :
    ( /\ receipt[k].status = "in_flight" /\ crashes = 0
      /\ \A p \in Callers : call[p].key # k ) => sent[receipt[k].approval] > 0

(* An authorization is for the token the connector uses (authorize_connector: "must      *)
(* match the admitted connector manifest").                                              *)
AuthorizedForItsToken ==
  \A c \in Connectors : (connector[c].enabled /\ Kind[c] = "live") => authorization[c].secret = connector[c].secret
=============================================================================
