------------------------------- MODULE MCQueue -------------------------------
(* Small queues for the runs of QueueProperties. *)
EXTENDS QueueProperties, TLC

Hourly == [kind |-> "interval", every |-> 1, at |-> 0]

OneHourly == [s \in {"hourly"} |-> Hourly]
NoTiming == << >>
=============================================================================
