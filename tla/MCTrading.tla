----------------------------- MODULE MCTrading -----------------------------
(* A seller with two items and two other members who may report them: four *)
(* reports, one more than the strike limit of the code.                    *)
EXTENDS Trading, TLC

CONSTANTS seller, r1, r2, i1, i2

MCMembers == {seller}
MCReporters == {r1, r2}
MCItems == {i1, i2}
MCOwner == [i \in MCItems |-> seller]
MCSymmetry == Permutations(MCReporters) \cup Permutations(MCItems)

=============================================================================
