----------------------------- MODULE RequestLine -----------------------------
(***************************************************************************)
(* What the intake queue promises: each request gets one answer, and none  *)
(* is started or given up on while a request still waits that had come in  *)
(* when it was asked.  Requests asked at the same time, each before the    *)
(* other had come in, may be answered in either order.  A person may take  *)
(* any of them out.                                                        *)
(***************************************************************************)
CONSTANT Requests
VARIABLES
  asking,  \* who is on the way in, and what had come in when it asked
  ahead,   \* [Requests -> what had come in when each that waits was asked]
  answer

Init ==
  /\ asking = {}
  /\ ahead = [r \in Requests |-> {}]
  /\ answer = [r \in Requests |-> "unasked"]

In == {r \in Requests : answer[r] # "unasked"}

Ask(r) ==
  /\ asking' = asking \cup {[who |-> r, ahead |-> In]}
  /\ UNCHANGED <<ahead, answer>>

\* The same request may be asked more than once; whoever finds it there has its answer.
Leave ==
  /\ asking' \in SUBSET asking
  /\ UNCHANGED <<ahead, answer>>

Enter(one) ==
  /\ one \in asking /\ answer[one.who] = "unasked"
  /\ asking' \in {asking, asking \ {one}}
  /\ answer' = [answer EXCEPT ![one.who] = "waiting"]
  /\ ahead' = [ahead EXCEPT ![one.who] = one.ahead]

Settle(r, outcome) ==
  /\ answer[r] = "waiting" /\ \A other \in ahead[r] : answer[other] # "waiting"
  /\ answer' = [answer EXCEPT ![r] = outcome]
  /\ ahead' = [ahead EXCEPT ![r] = {}]
  /\ UNCHANGED asking

Withdraw(r) ==
  /\ answer[r] = "waiting"
  /\ answer' = [answer EXCEPT ![r] = "withdrawn"]
  /\ ahead' = [ahead EXCEPT ![r] = {}]
  /\ UNCHANGED asking

Next ==
  \/ \E r \in Requests : Ask(r) \/ Settle(r, "started") \/ Settle(r, "abandoned") \/ Withdraw(r)
  \/ \E one \in asking : Enter(one)
  \/ Leave

Spec == Init /\ [][Next]_<<asking, ahead, answer>>
=============================================================================
