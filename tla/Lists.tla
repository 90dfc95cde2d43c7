-------------------------------- MODULE Lists -------------------------------
(***************************************************************************)
(* The linked lists of the kernel, as sequences.                           *)
(***************************************************************************)
EXTENDS Integers, Sequences, Functions

(* The list q without r: the first link to r is set to its successor       *)
(* (mntqrm and mountmux of devmnt.c, pidunhash of proc-l4.c).              *)
Unlink(q, r) ==
  IF r \notin Range(q) THEN q
  ELSE LET i == CHOOSE i \in DOMAIN q : q[i] = r /\ \A j \in 1..(i - 1) : q[j] # r
       IN  SubSeq(q, 1, i - 1) \o SubSeq(q, i + 1, Len(q))
=============================================================================
