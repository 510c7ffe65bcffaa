---------------------------- MODULE MCPluginHost ----------------------------
(* Every declaration of three plugins over two keys, and two tasks.         *)
EXTENDS PluginHost
CONSTANTS s, t, k, m
Plugins == [requires : SUBSET Key, provides : SUBSET Key]
All == [1..3 -> Plugins]
=============================================================================
