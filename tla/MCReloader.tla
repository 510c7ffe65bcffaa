----------------------------- MODULE MCReloader -----------------------------
(* Two plugins that share a helper module, which may be edited to something *)
(* bad and repaired, and a configuration that takes one of them down.       *)
EXTENDS Reloader

CONSTANTS p, q, a, b, h, k

MCUses == [x \in {p, q} |-> IF x = p THEN {h, a} ELSE {h, b}]
MCVersions == [m \in {a, b, h, k} |-> IF m \in {a, k} THEN 2 ELSE 3]
MCBad == {<<h, 2>>, <<b, 2>>}
MCMounts == [c \in 1..3 |-> IF c = 2 THEN {p} ELSE {p, q}]
MCMountsAll == [c \in 1..1 |-> {p, q}]
MCBadConfig == {3}
=============================================================================
