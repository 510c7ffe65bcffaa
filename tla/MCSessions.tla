----------------------------- MODULE MCSessions -----------------------------
(* Two processes, one of which has two tasks, and a session that both want. *)
EXTENDS Sessions, TLC

CONSTANTS p1, p2, t1, t2, u, x, y,
          q1, q2, q3, q4, w1, w2, v1, v2

MCHome == [t \in {t1, t2, u} |-> IF t = u THEN p2 ELSE p1]

Symmetry == Permutations({t1, t2}) \cup Permutations(Turn) \cup Permutations(Session)
            \cup Permutations(Workspace) \cup Permutations(Version)
=============================================================================
