------------------------------- MODULE MCOutbox -------------------------------
(* Small companies for the runs of OutboxProperties. *)
EXTENDS OutboxProperties, TLC

\* A run that waits for a person, or goes quiet.
OneRun == [s \in Places |-> {"needs_approval", "run_stalled"}]
=============================================================================
