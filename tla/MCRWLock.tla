------------------------------ MODULE MCRWLock ------------------------------
EXTENDS RWLock, TLC
CONSTANTS l1, l2, t1, t2, t3, n1, n2, n3
MCLocks == {l1, l2}
MCThreads == {t1, t2, t3}
MCNodes == {n1, n2, n3}
Symm == Permutations(MCLocks) \cup Permutations(MCThreads) \cup Permutations(MCNodes)
=============================================================================
