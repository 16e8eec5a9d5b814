----------------------------- MODULE MCDelivery -----------------------------
(* Small instances of Delivery for TLC.                                    *)
EXTENDS Delivery, TLC

\* Rows are dealt out to the organizations as evenly as possible.
MCJobOrg ==
    CHOOSE f \in [Jobs -> Orgs] :
        \A a, b \in Orgs :
            Cardinality({j \in Jobs : f[j] = a})
              <= Cardinality({j \in Jobs : f[j] = b}) + 1

MCGit == [o \in Orgs |-> "git"]

\* One organization has nothing configured.
MCMixed ==
    LET plain == CHOOSE o \in Orgs : TRUE
    IN  [o \in Orgs |-> IF o = plain THEN "none" ELSE "hook"]

\* Ticks and publishers are interchangeable, and so are the rows of one
\* organization (not to be used with several).
MCSymmetry ==
    Permutations(Ticks) \cup Permutations(Publishers) \cup Permutations(Jobs)

=============================================================================
