----------------------------- MODULE MCLoader -----------------------------
(* A group that changes its scope, an entry in it that is disabled and      *)
(* configured, and an entry below that one.                                 *)
EXTENDS Loader, TLC

CONSTANTS t1, t2, g, h, a, s1, s2, c1, c2

E(p, s, c, d) == [parent |-> p, shape |-> s, config |-> c, disabled |-> d]

MCEntries ==
  {<<g, E(None, s1, c1, FALSE)>>, <<g, E(None, s2, c1, FALSE)>>,
   <<h, E(g, s1, c1, FALSE)>>, <<h, E(g, s1, c2, FALSE)>>,
   <<h, E(g, s1, c1, TRUE)>>,
   <<a, E(h, s1, c1, FALSE)>>}

MCFiles ==
  {[i \in Id |-> CASE i = g -> E(None, s1, c1, FALSE)
                   [] i = h -> E(g, s1, c1, FALSE)
                   [] i = a -> E(h, s1, c1, FALSE)]}

Symmetry == Permutations(Task)
=============================================================================
