------------------------------- MODULE MCQio -------------------------------
EXTENDS Qio
CONSTANTS r1, w1, c1, d1

OneReader == {r1}
OneWriter == {w1}
OneCtl    == {c1}
OneDriver == {d1}
NewLim    == {2}

(* A queue with blocking writes that is neither Qmsg nor Qcoalesce. *)
Plain(users, ops, sizes) ==
  [users |-> users, ops |-> ops, sizes |-> sizes,
   msg |-> FALSE, coalesce |-> FALSE, noblock |-> FALSE, bytes |-> 5, ctl |-> 0]

ReadWrite == {"qread", "qbread", "qwrite", "qbwrite"}

Pipe     == Plain({r1, w1}, ReadWrite, {1, 3})
NoWait   == [Pipe EXCEPT !.noblock = TRUE]
Coalesce == [Plain({r1, w1}, {"qread", "qwrite"}, {0, 1, 3}) EXCEPT !.coalesce = TRUE]
Input    == Plain({r1, d1}, {"qread", "qbread", "qproduce", "qpass", "qpassnolim", "qiwrite"}, {1, 3})
Output   == Plain({w1, d1}, {"qwrite", "qbwrite", "qget", "qconsume", "qdiscard"}, {1, 3})
Packets  == [Plain({r1, d1}, {"qread", "qbread", "qpass", "qpassnolim"}, {1, 3}) EXCEPT !.msg = TRUE]

(* Queues that are closed and opened again, and ones that are reconfigured.*)
Controlled(ops) ==
  [Plain({r1, w1, c1}, {"qread", "qbwrite"} \cup ops, {1, 2}) EXCEPT !.bytes = 2, !.ctl = 2]

MCQueues ==
  {Pipe, NoWait, Coalesce, Input, Output, Packets,
   Controlled({"qclose", "qhangup", "qreopen"}), Controlled({"qflush", "qnoblock", "qsetlimit"})}
Pipes == {[Pipe EXCEPT !.bytes = 3]}
=============================================================================
