----------------------------- MODULE MCReception -----------------------------
(* Instances of Reception for TLC. *)
EXTENDS Reception, TLC

Symmetric == Permutations(Ids) \cup Permutations(Requests) \cup Permutations(Members \ TenantOwners)
=============================================================================
