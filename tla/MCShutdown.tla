----------------------------- MODULE MCShutdown -----------------------------
(* Instances of Shutdown for TLC. *)
EXTENDS OneCopyInvariant, TLC

CONSTANTS f1, f2, c1, c2, r1, x1, x2, x3, ticker

\* The file cached in the one copy, or two that are not cached.
MCWarmOne == (f1 :> x1)
MCColdTwo == (f1 :> NoCopy @@ f2 :> NoCopy)
==============================================================================
