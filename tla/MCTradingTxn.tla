---------------------------- MODULE MCTradingTxn ----------------------------
EXTENDS TradingTxn, TLC

CONSTANTS seller, r1, r2, i1, t1, t2, t3

MCMembers == {seller}
OneReporter == {r1}
TwoReporters == {r1, r2}
MCItems == {i1}
MCOwner == [i \in MCItems |-> seller]
TwoTxns == {t1, t2}
ThreeTxns == {t1, t2, t3}
SymmetryTwo == Permutations(TwoReporters) \cup Permutations(TwoTxns)
SymmetryThree == Permutations(ThreeTxns)
=============================================================================
