---------------------------- MODULE MCOrgConfig -----------------------------
(* Small instances of OrgConfig for TLC.                                   *)
EXTENDS OrgConfig, TLC

MCSymmetry == Permutations(Reqs)

=============================================================================
