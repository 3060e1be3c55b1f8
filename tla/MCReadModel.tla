----------------------------- MODULE MCReadModel -----------------------------
(* Two runs that are mirrored, for the runs of ReadModelProperties. *)
EXTENDS ReadModelProperties, TLC

RunSymmetry == Permutations(Runs) \cup Permutations(Requests)
=============================================================================
