-------------------------- MODULE MCCodingActions --------------------------
(* CodingActions on small sets of tasks, requests and changes. *)
EXTENDS CodingActions

=============================================================================
