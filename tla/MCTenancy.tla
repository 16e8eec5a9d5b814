----------------------------- MODULE MCTenancy ------------------------------
(* Small instances of Tenancy for TLC.                                     *)
EXTENDS Tenancy, TLC

CONSTANTS o1, o2, r1, r2

MCScopes == {{"reviews:read"}}

MCOps == DOMAIN Permission \cup {"login"}

MCSymmetry == Permutations(Orgs) \cup Permutations(Reqs)

=============================================================================
