------------------------------- MODULE MCFgrp -------------------------------
EXTENDS Fgrp, TLC
CONSTANTS p1, p2, t1, t2, t3
MCProcs   == {p1, p2}
MCThreads == {t1, t2, t3}

(* The first process has two threads. *)
MCProcOf  == [t \in MCThreads |-> IF t = t3 THEN p2 ELSE p1]
MCOps     == {"open", "pipe", "dup", "close", "read", "write", "rfork", "rforkself", "exits"}
Symm      == Permutations({t1, t2})
MCOnerr   == -100
=============================================================================
