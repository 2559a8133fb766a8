----------------------------- MODULE MCFileSync -----------------------------
(* Instances of FileSync for TLC. *)
EXTENDS FileSyncInvariant, TLC

CONSTANTS f1, f2, c1, c2, r1, x1, x2, x3, x4, ticker

\* Every file cached in a copy of its own, or none.
MCWarmOne  == (f1 :> x1)
MCColdOne  == (f1 :> NoCopy)
MCColdTwo  == (f1 :> NoCopy @@ f2 :> NoCopy)

MCSymmetry == Permutations(Copies) \cup Permutations(Clients)

\* Copies nothing points to are garbage: their contents tell no states apart.
MCView == <<db, store, cache, owner, flight, job, env,
            [x \in Copies |-> IF x \in Unreferenced THEN Blank ELSE heap[x]]>>
==============================================================================
