--------------------------- MODULE MCFileLifecycle ---------------------------
(* Instances of FileLifecycle for TLC. *)
EXTENDS FileLifecycle, TLC

CONSTANTS r1, r2, x1, x2, a, b

\* Nothing tells requests or paths apart, and no liveness is checked.
Symmetry == Permutations(Requests) \cup Permutations(Paths)
==============================================================================
