----------------------------- MODULE MCBuildCache -----------------------------
(* Two processes, of two versions, on one directory; the first has two threads *)
EXTENDS BuildCache, TLC

CONSTANTS c1, c2, p1, p2, p3

MCCacheOf == (p1 :> c1) @@ (p2 :> c1) @@ (p3 :> c2)
MCVersionOf == (c1 :> 1) @@ (c2 :> 2)

Symmetry == Permutations(Outputs) \cup Permutations(Contents) \cup Permutations({p1, p2})
===============================================================================
