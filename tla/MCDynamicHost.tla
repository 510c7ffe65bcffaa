--------------------------- MODULE MCDynamicHost ---------------------------
(***************************************************************************)
(* DynamicHost on a small plugin graph: definitions v1 that provides k, mid *)
(* that needs k and publishes m, leaf that needs m, and peer that needs k.  *)
(* The scope side shares the slots of root; the scope apart isolates k.     *)
(***************************************************************************)
EXTENDS DynamicHost, TLC

CONSTANTS p, q, c, u, k, m, root, side, apart, v1, mid, leaf, peer

Conf(o, v) == [ordinary |-> o, volatile |-> v]
MCConfig == {Conf(0, 0), Conf(0, 1)}

MCRequires == [d \in Def |-> CASE d \in {mid, peer} -> {k}
                              [] d = leaf -> {m}
                              [] OTHER -> {}]
MCProvides == [d \in Def |-> CASE d = v1 -> {k}
                              [] d = mid -> {m}
                              [] OTHER -> {}]
MCLabel == [x \in Key \X Scope |-> IF x = <<k, apart>> THEN apart ELSE root]

Plain(i, d) == <<i, d, root, Conf(0, 0)>>

\* A chain of users over two scopes.  q is mounted as a second provider for
\* the slot of p, or as the last of the chain.
Mixed ==
  {Plain(p, v1), <<q, v1, side, Conf(0, 0)>>, <<c, mid, side, Conf(0, 0)>>,
   Plain(q, leaf)}

\* One provider, which may be mounted where its user cannot see it, and a
\* user that is reconfigured in place.
Pair ==
  {Plain(p, v1), <<p, v1, apart, Conf(0, 0)>>, Plain(c, mid),
   <<c, mid, root, Conf(0, 1)>>}

\* Two users of one service; two providers of one service.
Peers == {Plain(p, v1), Plain(c, mid), Plain(u, peer)}
Twins == {Plain(p, v1), Plain(q, v1), Plain(c, mid)}
=============================================================================
