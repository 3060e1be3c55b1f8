----------------------------- MODULE MCWorkspace -----------------------------
(* Two windows and a few projects, for the runs of WorkspaceProperties. *)
EXTENDS WorkspaceProperties, TLC

\* Packs are ids drawn at random, so one is as good as another; windows are alike.
WorkspaceSymmetry == Permutations(Packs) \cup Permutations(Sessions)
=============================================================================
