-------------------------- MODULE MCTenantContext --------------------------
(* An instance of TenantContext for TLC.                                   *)
EXTENDS TenantContext, TLC

KeySymmetry == Permutations(Tenants) \cup Permutations(Tasks)
=============================================================================
