--------------------------- MODULE ActivationPlan ---------------------------
(***************************************************************************)
(* activation_plan() (kernel/plan.py): the order in which the static host  *)
(* activates its plugins.  A declaration is a sequence of plugins, each    *)
(* with the set of keys it requires and the set it provides.               *)
(***************************************************************************)
EXTENDS Integers, Sequences, FiniteSets, SequencesExt

Owners(d, k) == {i \in DOMAIN d : k \in d[i].provides}
Dependencies(d, i) == UNION {Owners(d, k) : k \in d[i].requires}

\* Two providers of a key, a key nobody provides, a plugin that needs itself.
Conflicting(d) ==
  \E i, j \in DOMAIN d : i # j /\ d[i].provides \cap d[j].provides # {}
Lacking(d) == \E i \in DOMAIN d : \E k \in d[i].requires : Owners(d, k) = {}
Selfish(d) == \E i \in DOMAIN d : i \in Dependencies(d, i)

\* TopologicalSorter: what may be handed out when S is done, and what has been
\* after n rounds of get_ready() and done().  Whatever is never handed out is
\* on a cycle or behind one.
Ready(d, S) == {i \in DOMAIN d : Dependencies(d, i) \subseteq S}
Handed(d) ==
  LET after[n \in 0..Len(d)] ==
        IF n = 0 THEN {} ELSE Ready(d, after[n - 1])
  IN  after
Cyclic(d) == Handed(d)[Len(d)] # DOMAIN d

RefusedSelf(d) == Conflicting(d) \/ Lacking(d) \/ Selfish(d)  \* (mutant) no cycles
Refused(d) == Conflicting(d) \/ Lacking(d) \/ Selfish(d) \/ Cyclic(d)

Round(d, i) ==
  CHOOSE n \in 1..Len(d) : i \in Handed(d)[n] /\ i \notin Handed(d)[n - 1]

\* Round by round, and within a round as declared.
Earlier(d, i, j) ==
  \/ Round(d, i) < Round(d, j)
  \/ Round(d, i) = Round(d, j) /\ i < j

Before(d, i) == {j \in DOMAIN d : Earlier(d, j, i)}

\* At place n comes the plugin with n - 1 before it.
Plan(d) ==
  [n \in DOMAIN d |->
     CHOOSE i \in DOMAIN d : Cardinality(Before(d, i)) = n - 1]

(***************************************************************************)
(* What a plan promises                                                    *)
(***************************************************************************)
\* Every plugin once, each after all it depends on.
IsOrder(d, s) ==
  /\ DOMAIN s = DOMAIN d
  /\ ToSet(s) = DOMAIN d
  /\ \A m, n \in DOMAIN s : s[m] \in Dependencies(d, s[n]) => m < n

Orders(d) == {s \in [DOMAIN d -> DOMAIN d] : IsOrder(d, s)}

\* A declaration is refused only if no order would do, or a key has no
\* provider or two.
RefusedRightly(d) ==
  Refused(d) <=> Conflicting(d) \/ Lacking(d) \/ Orders(d) = {}
=============================================================================
