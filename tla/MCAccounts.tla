----------------------------- MODULE MCAccounts -----------------------------
(* Small instances of Accounts for TLC.                                    *)
EXTENDS Accounts, TLC

\* Every body the schemas accept.
AllNewUsers == [role: Roles, org: Orgs \cup {NoOrg}]
AllPatches == [role: Roles \cup {Keep}, org: Orgs \cup {NoOrg, Keep}]

\* Requests are interchangeable.
MCSymmetry == Permutations(Reqs)

=============================================================================
