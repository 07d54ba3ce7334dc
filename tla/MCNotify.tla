------------------------------- MODULE MCNotify ------------------------------
(***************************************************************************)
(* Small instances of Notify for TLC.                                      *)
(***************************************************************************)
EXTENDS Notify, TLC

CONSTANTS w1, w2, d1, d2, x1, x2

\* The seller has no app.
SomeDevices == Users \ {"seller"}

Symmetric == Permutations(Workers) \cup Permutations(Partners) \cup Permutations(Positions)
=============================================================================
