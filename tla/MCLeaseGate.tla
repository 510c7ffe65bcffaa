---------------------------- MODULE MCLeaseGate ----------------------------
(* LeaseGate on small sets of tasks. *)
EXTENDS LeaseGate

=============================================================================
