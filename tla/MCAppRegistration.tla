-------------------------- MODULE MCAppRegistration --------------------------
(***************************************************************************)
(* AppRegistration for TLC: processes and descriptors are interchangeable. *)
(***************************************************************************)
EXTENDS AppRegistration, TLC

Symmetry == Permutations(Pids) \cup Permutations(Fds)
=============================================================================
