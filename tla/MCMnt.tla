------------------------------- MODULE MCMnt --------------------------------
EXTENDS Mnt, TLC
CONSTANTS t1, t2, t3, p1, p2
MCThreads == {t1, t2, t3}

(* Two of the threads work for one process. *)
MCProcOf == [t \in MCThreads |-> IF t = t3 THEN p2 ELSE p1]
Symm == Permutations({t1, t2})
=============================================================================
