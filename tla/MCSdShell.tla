----------------------------- MODULE MCSdShell -----------------------------
(* The names of the files are interchangeable.                              *)
EXTENDS SdShell, TLC

Names == Permutations(Files)
=============================================================================
