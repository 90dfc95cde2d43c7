-------------------------------- MODULE Qio --------------------------------
(***************************************************************************)
(* The I/O queues of the LP49 kernel (port/qio.c) with the rendezvous they *)
(* sleep on (port/proc-l4.c: sleep, wakeup).                               *)
(*                                                                         *)
(* A queue is a list of blocks between processes that read and write it    *)
(* (qread, qbread, qwrite, qbwrite), controllers (qclose, qhangup,         *)
(* qreopen, qflush, qnoblock, qsetlimit) and drivers that call it at       *)
(* interrupt level (qproduce, qpass, qpassnolim, qiwrite, qget, qconsume,  *)
(* qdiscard).  Everything between ilock and iunlock is one step.  sleep    *)
(* and wakeup take no lock: testing the condition, storing r->p, testing,  *)
(* loading and clearing r->p are steps of their own.  qlock is used as     *)
(* module QLock shows it to be, a first-come-first-served lock whose       *)
(* hand-over is a message; L4_Send blocks until the receiver is in an open *)
(* L4_Wait, whatever it is waiting for.                                    *)
(*                                                                         *)
(* A byte is a pair <<writer, number>>.  Left out: kick and bypass (calls  *)
(* into drivers), lists of several blocks (qpass, qpassnolim, qaddlist),   *)
(* and what a read of a closed empty queue returns (0, and q->err after    *)
(* three times), which no other step looks at.                             *)
(***************************************************************************)
EXTENDS Integers, FiniteSets, SequencesExt

CONSTANTS
  Readers, Writers, Controllers, Drivers,   \* threads by what they call
  NoThread,
  Queues,           \* the queues a driver may open: see Queue
  Limit,            \* q->inilim
  NewLimits,        \* the values given to qsetlimit
  MaxAtomic,        \* Maxatomic
  Hdrspc,           \* what allocb adds to the size asked for
  PrintLimit        \* the 16*1024 of qiwrite

Threads == Readers \cup Writers \cup Controllers \cup Drivers

(* A queue as it is opened: the threads that use it, the calls they make,  *)
(* the lengths of their transfers, Qmsg and Qcoalesce, and q->noblock.     *)
(* Bounds: the bytes a thread writes in all, the calls a controller makes. *)
Queue == [users : SUBSET Threads, ops : SUBSET STRING, sizes : SUBSET Nat,
          msg : BOOLEAN, coalesce : BOOLEAN, noblock : BOOLEAN, bytes : Nat, ctl : Nat]

ASSUME QioAssumption ==
  /\ NoThread \notin Threads
  /\ Limit \in Nat /\ MaxAtomic \in Nat \ {0} /\ Hdrspc \in Nat
  /\ Queues \subseteq Queue

VARIABLES
  que,      \* what was asked of qopen: a member of Queues
  blocks,   \* q->bfirst .. q->blast
  len,      \* q->len
  dlen,     \* q->dlen
  limit,    \* q->limit
  starve, flow, closed,   \* Qstarve, Qflow, Qclosed in q->state
  noblock,  \* q->noblock
  rendez,   \* rendez["rr"] is q->rr.p, rendez["wr"] is q->wr.p
  ql,       \* ql["rlock"] and ql["wlock"]: locked and the waiting threads
  pc,       \* where each thread is
  loc,      \* the local variables of each thread
  put,      \* how many bytes (for a controller: calls) each thread has made
  got,      \* the bytes readers and drivers have taken out, in order
  live      \* blocks allocated and not freed or given to the caller

flags == <<starve, flow, closed>>
data  == <<blocks, len, dlen>>
conf  == <<que, limit, noblock>>
hist  == <<put, got, live>>
vars  == <<data, conf, flags, rendez, ql, pc, loc, hist>>

(* The locals: the call and the size asked for, what is left to write, the *)
(* blocks carried, the thread to send to, the rendezvous of a wakeup and   *)
(* the place to go on at.                                                  *)
Idle == [op |-> "none", n |-> 0, left |-> 0, blk |-> <<>>, dw |-> FALSE,
         whom |-> NoThread, rz |-> "none", cont |-> "out"]

Init ==
  /\ que \in Queues
  /\ blocks = <<>> /\ len = 0 /\ dlen = 0
  /\ limit = Limit /\ noblock = que.noblock
  /\ starve = TRUE /\ flow = FALSE /\ closed = FALSE
  /\ rendez = [r \in {"rr", "wr"} |-> NoThread]
  /\ ql = [l \in {"rlock", "wlock"} |-> [locked |-> FALSE, queue |-> <<>>]]
  /\ pc = [t \in Threads |-> "out"]
  /\ loc = [t \in Threads |-> Idle]
  /\ put = [t \in Threads |-> 0]
  /\ got = <<>>
  /\ live = 0

-----------------------------------------------------------------------------
(* Blocks. *)
allocb(s)     == [data |-> s, alloc |-> Len(s) + Hdrspc]
BLEN(b)       == Len(b.data)
BALLOC(b)     == b.alloc
blocklen(bs)      == FoldLeft(LAMBDA n, b : n + BLEN(b), 0, bs)
blockalloclen(bs) == FoldLeft(LAMBDA n, b : n + BALLOC(b), 0, bs)

(* Mutant: the block is not given back. *)
M_freeb(k) == UNCHANGED live

(* k blocks are freed. *)
freeb(k) == live' = live - k

Bytes(bs)     == FlattenSeq([i \in DOMAIN bs |-> bs[i].data])

(* bs without its leading zero length blocks. *)
DropEmpty(bs) ==
  LET k == {i \in DOMAIN bs : BLEN(bs[i]) > 0}
  IN  IF k = {} THEN <<>> ELSE SubSeq(bs, CHOOSE i \in k : \A j \in k : i <= j, Len(bs))

(* Mutant: the block goes to the front of the list. *)
M_AppendFront(b) ==
  /\ blocks' = <<b>> \o blocks
  /\ len' = len + BALLOC(b)
  /\ dlen' = dlen + BLEN(b)
  /\ live' = live + 1
  /\ starve' = FALSE

(* A block is hung behind q->blast; a starving reader is taken note of. *)
Append1(b) ==
  /\ blocks' = Append(blocks, b)
  /\ len' = len + BALLOC(b)
  /\ dlen' = dlen + BLEN(b)
  /\ live' = live + 1
  /\ starve' = FALSE

(* How many leading blocks a coalescing read of n bytes takes: the first,  *)
(* and those that follow as long as they fit completely.                   *)
Grab(bs, n) ==
  CHOOSE k \in 1..Len(bs) :
    /\ k = 1 \/ blocklen(SubSeq(bs, 1, k)) <= n
    /\ k = Len(bs) \/ blocklen(SubSeq(bs, 1, k + 1)) > n

(* bl2mem: the bytes copied out, and the first block not used up. *)
Copied(bs, n)  == SubSeq(Bytes(bs), 1, IF n < blocklen(bs) THEN n ELSE blocklen(bs))

(* Mutant: the left over begins one byte early. *)
M_LeftOver(bs, n) ==
  IF n >= blocklen(bs) THEN <<>>
  ELSE LET b == Last(bs)
           m == blocklen(bs) - n
       IN <<[b EXCEPT !.data = SubSeq(@, BLEN(b) - m, BLEN(b))]>>

LeftOver(bs, n) ==
  IF n >= blocklen(bs) THEN <<>>
  ELSE LET b == Last(bs)
           m == blocklen(bs) - n
       IN <<[b EXCEPT !.data = SubSeq(@, BLEN(b) - m + 1, BLEN(b))]>>

-----------------------------------------------------------------------------
(* Control. *)
Resume(t, to) == loc' = [loc EXCEPT ![t] = IF to = "out" THEN Idle ELSE @]

Goto(t, to) == pc' = [pc EXCEPT ![t] = to] /\ Resume(t, to)

Step(t, from, to) == pc[t] = from /\ Goto(t, to)

(* A wakeup of rendezvous r begins, after which t goes on at cont. *)
Wakeup(t, r, cont) ==
  /\ pc' = [pc EXCEPT ![t] = "wk_load"]
  /\ loc' = [loc EXCEPT ![t].rz = r, ![t].cont = cont]

WakeupIf(cond, t, r, cont) == IF cond THEN Wakeup(t, r, cont) ELSE Goto(t, cont)

(* wakeup: return when r->p is nil, then load it: another wakeup may have  *)
(* cleared it in between.                                                  *)
WakeupLoad(t) ==
  /\ \/ Step(t, "wk_load", IF rendez[loc[t].rz] = NoThread THEN loc[t].cont ELSE "wk_whom")
     \/ /\ pc[t] = "wk_whom"
        /\ pc' = [pc EXCEPT ![t] = "wk_clear"]
        /\ loc' = [loc EXCEPT ![t].whom = rendez[loc[t].rz]]
  /\ UNCHANGED <<data, conf, flags, rendez, ql, hist>>

(* ... clear it and L4_Send to the thread it named, which fails at once    *)
(* for nil (after the kernel debugger has been entered and left).          *)
WakeupClear(t) ==
  /\ Step(t, "wk_clear", IF loc[t].whom = NoThread THEN loc[t].cont ELSE "send")
  /\ rendez' = [rendez EXCEPT ![loc[t].rz] = NoThread]
  /\ UNCHANGED <<data, conf, flags, ql, hist>>

(* L4 IPC: the sender meets the receiver it names in an open L4_Wait.      *)
(* sleep returns to the loop it is called in, qlock to its caller.         *)
AfterWait == [r_wait |-> "r_cs", w_wait |-> "w_flow",
              r_lockwait |-> "r_cs", w_lockwait |-> "w_cs"]

L4Rendezvous(s) ==
  LET r == loc[s].whom
  IN  /\ pc[s] = "send"
      /\ pc[r] \in DOMAIN AfterWait
      /\ pc' = [pc EXCEPT ![s] = loc[s].cont, ![r] = AfterWait[pc[r]]]
      /\ Resume(s, loc[s].cont)
      /\ UNCHANGED <<data, conf, flags, rendez, ql, hist>>

qlock(t, l, from, wait, in) ==
  /\ IF ql[l].locked
     THEN Step(t, from, wait) /\ ql' = [ql EXCEPT ![l].queue = Append(@, t)]
     ELSE Step(t, from, in) /\ ql' = [ql EXCEPT ![l].locked = TRUE]
  /\ UNCHANGED <<data, conf, flags, rendez, hist>>

qunlock(t, l, from, cont) ==
  /\ pc[t] = from
  /\ IF ql[l].queue = <<>>
     THEN ql' = [ql EXCEPT ![l].locked = FALSE] /\ Goto(t, cont)
     ELSE /\ ql' = [ql EXCEPT ![l].queue = Tail(@)]
          /\ pc' = [pc EXCEPT ![t] = "send"]
          /\ loc' = [loc EXCEPT ![t].whom = Head(ql[l].queue), ![t].cont = cont]
  /\ UNCHANGED <<data, conf, flags, rendez, hist>>

-----------------------------------------------------------------------------
(* Readers. *)
CallRead(t) ==
  /\ pc[t] = "out"
  /\ \E op \in que.ops \cap {"qread", "qbread"}, n \in que.sizes \ {0} : loc' = [loc EXCEPT ![t] = [Idle EXCEPT !.op = op, !.n = n]]
  /\ pc' = [pc EXCEPT ![t] = "r_lock"]
  /\ UNCHANGED <<data, conf, flags, rendez, ql, hist>>

ReadLock(t)   == qlock(t, "rlock", "r_lock", "r_lockwait", "r_cs")
ReadUnlock(t) == qunlock(t, "rlock", "r_unlock", "out")

(* What a coalescing qread makes of the list before it looks for data:     *)
(* zero length blocks just go away.                                        *)
Fresh(t) == IF loc[t].op = "qread" /\ que.coalesce THEN DropEmpty(blocks) ELSE blocks

(* qwait with the queue empty: give up when it is closed, otherwise ask    *)
(* the producer for a wakeup and sleep.                                    *)
qwait(t) ==
  /\ pc[t] = "r_cs"
  /\ Fresh(t) = <<>>
  /\ blocks' = <<>>
  /\ len' = len - blockalloclen(blocks)
  /\ freeb(Len(blocks))
  /\ IF closed THEN Goto(t, "r_unlock") /\ UNCHANGED starve
     ELSE Goto(t, "r_test1") /\ starve' = TRUE
  /\ UNCHANGED <<dlen, conf, flow, closed, rendez, ql, put, got>>

(* sleep(&q->rr, notempty, q): notempty reads q->state, then q->bfirst. *)
ReadTest(t) ==
  /\ \/ Step(t, "r_test1", IF closed THEN "r_cs" ELSE "r_test2")
     \/ Step(t, "r_test2", IF blocks # <<>> THEN "r_cs" ELSE "r_sleep")
  /\ UNCHANGED <<data, conf, flags, rendez, ql, hist>>

(* ... r->p = L4_Myself(); L4_Wait: nothing happens between the two. *)
ReadSleep(t) ==
  /\ Step(t, "r_sleep", "r_wait")
  /\ rendez' = [rendez EXCEPT !["rr"] = t]
  /\ UNCHANGED <<data, conf, flags, ql, hist>>

(* qwakeup_iunlock: restart a flow controlled writer. *)
Restart(t, newLen, half, cont) ==
  LET dowakeup == flow /\ newLen < half
  IN  /\ flow' = (flow /\ ~dowakeup)
      /\ WakeupIf(dowakeup, t, "wr", cont)

(* qbread with data: take the first block, put back what is too much. *)
qbread(t) ==
  /\ pc[t] = "r_cs" /\ loc[t].op = "qbread" /\ blocks # <<>>
  /\ LET b    == Head(blocks)
         n    == loc[t].n
         rest == IF BLEN(b) > n /\ ~que.msg
                 THEN <<allocb(SubSeq(b.data, n + 1, BLEN(b)))>> ELSE <<>>
     IN  /\ blocks' = rest \o Tail(blocks)
         /\ len' = len - BALLOC(b) + blockalloclen(rest)
         /\ dlen' = dlen - BLEN(b) + blocklen(rest)
         /\ got' = got \o Copied(<<b>>, n)
         /\ live' = live - 1 + Len(rest)
  /\ Restart(t, len', limit \div 2, "r_unlock")
  /\ UNCHANGED <<conf, starve, closed, rendez, ql, put>>

(* qread with data: take blocks off the list; the copy to user space is    *)
(* made outside of the ilock.                                              *)
qread(t) ==
  /\ pc[t] = "r_cs" /\ loc[t].op = "qread" /\ Fresh(t) # <<>>
  /\ LET bs   == Fresh(t)
         k    == IF que.coalesce THEN Grab(bs, loc[t].n) ELSE 1
         rest == SubSeq(bs, k + 1, Len(bs))
     IN  /\ blocks' = rest
         /\ len' = blockalloclen(rest) + (len - blockalloclen(blocks))
         /\ dlen' = dlen - blocklen(SubSeq(bs, 1, k))
         /\ freeb(Len(blocks) - Len(bs))
         /\ loc' = [loc EXCEPT ![t].blk = SubSeq(bs, 1, k)]
  /\ pc' = [pc EXCEPT ![t] = "r_put"]
  /\ UNCHANGED <<conf, flags, rendez, ql, put, got>>

(* ... and then qputback of a left over block, a message's is freed. *)
ReadPut(t) ==
  /\ pc[t] = "r_put"
  /\ LET bs   == loc[t].blk
         rest == IF que.msg THEN <<>> ELSE LeftOver(bs, loc[t].n)
     IN  /\ got' = got \o Copied(bs, loc[t].n)
         /\ blocks' = rest \o blocks
         /\ len' = len + blockalloclen(rest)
         /\ dlen' = dlen + blocklen(rest)
         /\ freeb(Len(bs) - Len(rest))
  /\ Restart(t, len', limit \div 2, "r_unlock")
  /\ UNCHANGED <<conf, starve, closed, rendez, ql, put>>

-----------------------------------------------------------------------------
(* Writers. *)
Min2(a, b) == IF a < b THEN a ELSE b

(* The next n bytes of thread t. *)
NextBytes(t, n) == [i \in 1..n |-> <<t, put[t] + i>>]

CallWrite(t) ==
  /\ pc[t] = "out"
  /\ \E op \in que.ops \cap {"qwrite", "qbwrite"}, n \in que.sizes :
       /\ put[t] + n <= que.bytes
       /\ op = "qbwrite" => n <= MaxAtomic
       /\ loc' = [loc EXCEPT ![t] = [Idle EXCEPT !.op = op, !.n = n, !.left = n]]
  /\ pc' = [pc EXCEPT ![t] = "w_lock"]
  /\ UNCHANGED <<data, conf, flags, rendez, ql, hist>>

(* qbwrite is called with an allocated block, one Maxatomic piece of qwrite. *)
WriteLock(t)   == qlock(t, "wlock", "w_lock", "w_lockwait", "w_cs")

(* The queue is closed, or full and non-blocking: the block is freed and   *)
(* qbwrite returns (an error when closed, which qwrite does not look at).  *)
Refused == closed \/ (len >= limit /\ noblock)

Advance(t, n) == put' = [put EXCEPT ![t] = @ + n]

qbwriteDrop(t) ==
  /\ pc[t] = "w_cs" /\ Refused
  /\ LET n == Min2(loc[t].left, MaxAtomic)
     IN  /\ Advance(t, n)
         /\ loc' = [loc EXCEPT ![t].left = @ - n]
  /\ pc' = [pc EXCEPT ![t] = "w_unlock"]
  /\ UNCHANGED <<data, conf, flags, rendez, ql, got, live>>

(* qbwrite: queue the block, wake the other end when it starves. *)
qbwriteQueue(t) ==
  /\ pc[t] = "w_cs" /\ ~Refused
  /\ LET n == Min2(loc[t].left, MaxAtomic)
     IN  /\ Append1(allocb(NextBytes(t, n)))
         /\ Advance(t, n)
         /\ loc' = [loc EXCEPT ![t].left = @ - n, ![t].rz = "rr", ![t].cont = "w_flow"]
  /\ pc' = [pc EXCEPT ![t] = IF starve THEN "wk_load" ELSE "w_flow"]
  /\ UNCHANGED <<conf, flow, closed, rendez, ql, got>>

(* Mutant: the loop looks at the data bytes. *)
M_WriteTest(t) ==
  /\ \/ Step(t, "w_flow", IF noblock \/ dlen < limit THEN "w_unlock" ELSE "w_flow2")
     \/ Step(t, "w_flow2", IF closed THEN "w_unlock" ELSE "w_setflow")
     \/ Step(t, "w_test1", IF len < limit THEN "w_flow" ELSE "w_test2")
     \/ Step(t, "w_test2", IF closed THEN "w_flow" ELSE "w_sleep")
  /\ UNCHANGED <<data, conf, flags, rendez, ql, hist>>

(* Mutant: the loop does not look at q->noblock. *)
M_WriteBlocks(t) ==
  /\ \/ Step(t, "w_flow", IF len < limit THEN "w_unlock" ELSE "w_flow2")
     \/ Step(t, "w_flow2", IF closed THEN "w_unlock" ELSE "w_setflow")
     \/ Step(t, "w_test1", IF len < limit THEN "w_flow" ELSE "w_test2")
     \/ Step(t, "w_test2", IF closed THEN "w_flow" ELSE "w_sleep")
  /\ UNCHANGED <<data, conf, flags, rendez, ql, hist>>

(* Flow control: the loop tests q->noblock and q->len, then Qclosed, sets  *)
(* Qflow and sleeps on q->wr; sleep tests qnotfull once more.              *)
WriteTest(t) ==
  /\ \/ Step(t, "w_flow", IF noblock \/ len < limit THEN "w_unlock" ELSE "w_flow2")
     \/ Step(t, "w_flow2", IF closed THEN "w_unlock" ELSE "w_setflow")
     \/ Step(t, "w_test1", IF len < limit THEN "w_flow" ELSE "w_test2")
     \/ Step(t, "w_test2", IF closed THEN "w_flow" ELSE "w_sleep")
  /\ UNCHANGED <<data, conf, flags, rendez, ql, hist>>

WriteSetFlow(t) ==
  /\ Step(t, "w_setflow", "w_test1")
  /\ flow' = TRUE
  /\ UNCHANGED <<data, conf, starve, closed, rendez, ql, hist>>

WriteSleep(t) ==
  /\ Step(t, "w_sleep", "w_wait")
  /\ rendez' = [rendez EXCEPT !["wr"] = t]
  /\ UNCHANGED <<data, conf, flags, ql, hist>>

(* The end of qbwrite; qwrite goes on with the next piece. *)
WriteUnlock(t) ==
  qunlock(t, "wlock", "w_unlock",
          IF loc[t].op = "qwrite" /\ loc[t].left > 0 /\ ~que.msg THEN "w_lock" ELSE "out")

-----------------------------------------------------------------------------
(* Controllers.  A call of t: one step under ilock, then wakeups. *)
Control(t, op) ==
  /\ pc[t] = "out" /\ op \in que.ops /\ put[t] < que.ctl
  /\ Advance(t, 1)
  /\ UNCHANGED <<que, rendez, ql, got>>

(* The list is cut off and freed. *)
Emptied ==
  /\ blocks' = <<>> /\ len' = 0 /\ dlen' = 0
  /\ freeb(Len(blocks))

qclose(t) ==
  /\ Control(t, "qclose")
  /\ closed' = TRUE /\ flow' = FALSE /\ starve' = FALSE
  /\ noblock' = FALSE
  /\ Emptied
  /\ Wakeup(t, "rr", "c_wake")
  /\ UNCHANGED limit

qhangup(t) ==
  /\ Control(t, "qhangup")
  /\ closed' = TRUE
  /\ Wakeup(t, "rr", "c_wake")
  /\ UNCHANGED <<data, conf, starve, flow, live>>

(* The second wakeup of qclose and qhangup. *)
ControlWake(t) ==
  /\ pc[t] = "c_wake"
  /\ Wakeup(t, "wr", "out")
  /\ UNCHANGED <<data, conf, flags, rendez, ql, hist>>

qreopen(t) ==
  /\ Control(t, "qreopen")
  /\ closed' = FALSE /\ starve' = TRUE
  /\ limit' = Limit
  /\ Goto(t, "out")
  /\ UNCHANGED <<data, noblock, flow, live>>

qflush(t) ==
  /\ Control(t, "qflush")
  /\ Emptied
  /\ Wakeup(t, "wr", "out")
  /\ UNCHANGED <<conf, flags>>

qnoblock(t) ==
  /\ Control(t, "qnoblock")
  /\ noblock' \in BOOLEAN
  /\ Goto(t, "out")
  /\ UNCHANGED <<data, limit, flags, live>>

qsetlimit(t) ==
  /\ Control(t, "qsetlimit")
  /\ limit' \in NewLimits
  /\ Goto(t, "out")
  /\ UNCHANGED <<data, noblock, flags, live>>

-----------------------------------------------------------------------------
(* Drivers: one step under ilock, then perhaps a wakeup. *)
Drive(t, op) ==
  /\ pc[t] = "out" /\ op \in que.ops
  /\ UNCHANGED <<conf, closed, rendez, ql>>

(* Put b at the end of the list, or do not. *)
Enqueue(t, b) == Append1(b) /\ WakeupIf(starve, t, "rr", "out")

Reject(t) == Goto(t, "out") /\ UNCHANGED <<data, starve, live>>

(* qpass and qpassnolim of a block of n bytes. *)
Pass(t, op, full) ==
  \E n \in que.sizes :
    /\ put[t] + n <= que.bytes
    /\ Drive(t, op)
    /\ IF full \/ closed
       THEN Reject(t) /\ UNCHANGED flow
       ELSE Enqueue(t, allocb(NextBytes(t, n))) /\ flow' = (flow \/ len' >= limit \div 2)
    /\ Advance(t, n)
    /\ UNCHANGED got

qpass(t)      == Pass(t, "qpass", len >= limit)
qpassnolim(t) == Pass(t, "qpassnolim", FALSE)

(* qproduce does not look at Qclosed. *)
qproduce(t) ==
  \E n \in que.sizes :
    /\ put[t] + n <= que.bytes
    /\ Drive(t, "qproduce")
    /\ IF len >= limit
       THEN Reject(t) /\ flow' = TRUE
       ELSE Enqueue(t, allocb(NextBytes(t, n))) /\ flow' = (flow \/ len' >= limit)
    /\ Advance(t, n)
    /\ UNCHANGED got

(* qiwrite: Maxatomic bytes a round, until the artificial limit is hit.    *)
(* Once the reader was starving, every later round calls wakeup as well.   *)
CallQiwrite(t) ==
  \E n \in que.sizes :
    /\ put[t] + n <= que.bytes
    /\ Drive(t, "qiwrite")
    /\ loc' = [loc EXCEPT ![t] = [Idle EXCEPT !.op = "qiwrite", !.left = n]]
    /\ pc' = [pc EXCEPT ![t] = "i_cs"]
    /\ UNCHANGED <<data, starve, flow, hist>>

qiwrite(t) ==
  /\ pc[t] = "i_cs"
  /\ LET n    == Min2(loc[t].left, MaxAtomic)
         dw   == loc[t].dw \/ starve
         cont == IF loc[t].left > n /\ ~que.msg THEN "i_cs" ELSE "out"
     IN  \/ /\ dlen >= PrintLimit
            /\ Advance(t, loc[t].left)
            /\ Goto(t, "out")
            /\ UNCHANGED <<data, starve, live>>
         \/ /\ dlen < PrintLimit
            /\ Append1(allocb(NextBytes(t, n)))
            /\ Advance(t, n)
            /\ pc' = [pc EXCEPT ![t] = IF dw THEN "wk_load" ELSE cont]
            /\ loc' = IF ~dw /\ cont = "out" THEN [loc EXCEPT ![t] = Idle]
                      ELSE [loc EXCEPT ![t].left = @ - n, ![t].dw = dw,
                                       ![t].rz = "rr", ![t].cont = cont]
  /\ UNCHANGED <<conf, flow, closed, rendez, ql, got>>

(* qget: take the first block, or note that the consumer starves. *)
qget(t) ==
  /\ Drive(t, "qget")
  /\ IF blocks = <<>>
     THEN starve' = TRUE /\ Goto(t, "out") /\ UNCHANGED <<data, flow, hist>>
     ELSE LET b == Head(blocks)
          IN  /\ blocks' = Tail(blocks)
              /\ len' = len - BALLOC(b)
              /\ dlen' = dlen - BLEN(b)
              /\ got' = got \o b.data
              /\ live' = live - 1
              /\ Restart(t, len', limit \div 2, "out")
              /\ UNCHANGED <<starve, put>>

(* qconsume of up to n bytes: pass over zero length blocks, take from the  *)
(* first other one.  The blocks passed over are freed at the end, but not  *)
(* on the way out through an empty queue.                                  *)
qconsume(t) ==
  \E n \in que.sizes \ {0} :
    /\ Drive(t, "qconsume")
    /\ LET bs == DropEmpty(blocks)
           b  == Head(bs)
           m  == Min2(n, BLEN(b))
           done == que.msg \/ m = BLEN(b)
           rest == IF done THEN Tail(bs)
                   ELSE <<[b EXCEPT !.data = SubSeq(@, m + 1, BLEN(b))]>> \o Tail(bs)
       IN  IF bs = <<>>
           THEN /\ blocks' = <<>>
                /\ len' = len - blockalloclen(blocks)
                /\ starve' = TRUE
                /\ Goto(t, "out")
                /\ UNCHANGED <<dlen, flow, hist>>
           ELSE /\ blocks' = rest
                /\ len' = len - blockalloclen(blocks) + blockalloclen(rest)
                /\ dlen' = dlen - (IF done THEN BLEN(b) ELSE m)
                /\ got' = got \o SubSeq(b.data, 1, m)
                /\ freeb(Len(blocks) - Len(rest))
                /\ Restart(t, len', limit \div 2, "out")
                /\ UNCHANGED <<starve, put>>

(* qdiscard of n bytes: whole blocks while they fit, then part of one. The *)
(* writer is restarted as soon as the queue is below its limit.            *)
qdiscard(t) ==
  \E n \in que.sizes \ {0} :
    /\ Drive(t, "qdiscard")
    /\ LET m == Min2(n, blocklen(blocks))
           k == Cardinality({i \in DOMAIN blocks :
                              /\ blocklen(SubSeq(blocks, 1, i)) <= n
                              /\ blocklen(SubSeq(blocks, 1, i - 1)) < n})
           part == m - blocklen(SubSeq(blocks, 1, k))
           tail == SubSeq(blocks, k + 1, Len(blocks))
       IN  /\ blocks' = IF part = 0 THEN tail
                        ELSE <<[Head(tail) EXCEPT !.data = SubSeq(@, part + 1, Len(@))]>> \o Tail(tail)
           /\ len' = len - blockalloclen(SubSeq(blocks, 1, k))
           /\ dlen' = dlen - m
           /\ freeb(k)
           /\ got' = got \o SubSeq(Bytes(blocks), 1, m)
    /\ Restart(t, len', limit, "out")
    /\ UNCHANGED <<starve, put>>

-----------------------------------------------------------------------------
Call(t) ==
  /\ t \in que.users
  /\ \/ t \in Readers /\ CallRead(t)
     \/ t \in Writers /\ CallWrite(t)
     \/ t \in Controllers /\ (qclose(t) \/ qhangup(t) \/ qreopen(t) \/ qflush(t)
                               \/ qnoblock(t) \/ qsetlimit(t))
     \/ t \in Drivers /\ (qpass(t) \/ qpassnolim(t) \/ qproduce(t) \/ CallQiwrite(t)
                           \/ qget(t) \/ qconsume(t) \/ qdiscard(t))

Run(t) ==
  \/ ReadLock(t) \/ qwait(t) \/ ReadTest(t) \/ ReadSleep(t) \/ qbread(t) \/ qread(t)
  \/ ReadPut(t) \/ ReadUnlock(t)
  \/ WriteLock(t) \/ qbwriteDrop(t) \/ qbwriteQueue(t) \/ WriteTest(t)
  \/ WriteSetFlow(t) \/ WriteSleep(t) \/ WriteUnlock(t)
  \/ ControlWake(t) \/ qiwrite(t)
  \/ WakeupLoad(t) \/ WakeupClear(t) \/ L4Rendezvous(t)

Next == \E t \in Threads : Call(t) \/ Run(t)

Spec == Init /\ [][Next]_vars

(* A thread inside qio.c runs on; readers call again when they are back.   *)
FairSpec ==
  /\ Spec
  /\ \A t \in Threads : WF_vars(Run(t))
  /\ \A t \in Readers : WF_vars(Call(t))

-----------------------------------------------------------------------------
Places ==
  {"out", "wk_load", "wk_whom", "wk_clear", "send", "c_wake", "i_cs",
   "r_lock", "r_lockwait", "r_cs", "r_test1", "r_test2", "r_sleep", "r_wait", "r_put", "r_unlock",
   "w_lock", "w_lockwait", "w_cs", "w_flow", "w_flow2", "w_setflow", "w_test1", "w_test2",
   "w_sleep", "w_wait", "w_unlock"}

(* Type invariant. *)
TypeOK ==
  /\ \A i \in DOMAIN blocks : blocks[i].data \in Seq(Threads \X Nat) /\ blocks[i].alloc \in Nat
  /\ len \in Nat /\ dlen \in Nat /\ limit \in Nat
  /\ {starve, flow, closed, noblock} \subseteq BOOLEAN
  /\ rendez \in [{"rr", "wr"} -> Threads \cup {NoThread}]
  /\ pc \in [Threads -> Places]
  /\ live \in Nat

(* The blocks a reader has taken off the list and not yet copied out. *)
Carried(t) == IF pc[t] = "r_put" THEN loc[t].blk ELSE <<>>

(* q->len and q->dlen are what the blocks on the list add up to, after any *)
(* mixture of partial reads, put backs, discards, flushes and closes.      *)
AccountsExact ==
  /\ len = MapThenSumSet(LAMBDA i : blocks[i].alloc, DOMAIN blocks)
  /\ dlen = MapThenSumSet(LAMBDA i : Len(blocks[i].data), DOMAIN blocks)

(* Every block is on the list, in the hands of a reader, or freed: qio.c   *)
(* loses none.                                                             *)
BlocksAccounted ==
  live = Len(blocks) + MapThenSumSet(LAMBDA t : Len(Carried(t)), Readers)

(* The books of a queue are right after any mixture of operations of       *)
(* qio.c: both byte counts, and the blocks allocated.                      *)
QueueInv == TypeOK /\ AccountsExact /\ BlocksAccounted

(* The bytes of the stream in order: delivered, being copied, queued. *)
Stream ==
  got \o FlattenSeq([i \in 1..Cardinality(Readers) |-> Bytes(Carried(SetToSeq(Readers)[i]))])
      \o Bytes(blocks)

(* Nothing that was queued is lost, doubled or overtaken: as long as       *)
(* nobody closes or flushes, the stream only grows at its end.  (A read of *)
(* a message queue throws the rest of a message away.)                     *)
StreamGrows == [][~que.msg /\ que.ctl = 0 => IsPrefix(Stream, Stream')]_vars

(* Bytes of one writer are delivered in the order they were written and at *)
(* most once, whatever closes, hangups and reopens come in between.        *)
DeliveredInOrder ==
  \A i, j \in DOMAIN got : i < j /\ got[i][1] = got[j][1] => got[i][2] < got[j][2]

(* Flow control: where only writers fill the queue and nobody changes its  *)
(* limit, it exceeds the limit by no more than the block that crossed it   *)
(* and a block that a reader puts back.                                    *)
FlowBounded ==
  que.users \cap Drivers = {} /\ que.ctl = 0 => len < limit + 2 * (MaxAtomic + Hdrspc)

(* qio.c:63: rlock is the "mutex for reading processes". *)
RlockMutex ==
  LET In(t) == pc[t] \in {"r_cs", "r_test1", "r_test2", "r_sleep", "r_wait", "r_put", "r_unlock"}
  IN  \A s, t \in Readers : In(s) /\ In(t) => s = t

(* qio.c:1417: qclose - "No further IO is permitted.  All blocks are       *)
(* released."  A closed queue from which qclose has taken the blocks stays *)
(* empty until it is opened again.                                         *)
ClosedStaysEmpty == [][closed /\ closed' /\ blocks = <<>> => blocks' = <<>>]_vars

(* qio.c:1242: "make sure other end gets awakened".  A reader does not     *)
(* sleep on while there is data for it.                                    *)
ReaderAwakened ==
  \A t \in Readers : (pc[t] = "r_wait" /\ blocks # <<>>) ~> (pc[t] # "r_wait" \/ blocks = <<>>)

(* qio.c:982: "if writer flow controlled, restart".  A writer does not     *)
(* sleep on while the queue has drained.                                   *)
WriterRestarted ==
  \A t \in Writers : (pc[t] = "w_wait" /\ len = 0) ~> (pc[t] # "w_wait" \/ len > 0)

(* qio.c:56: noblock is "true if writes return immediately when q full": a *)
(* writer of such a queue never waits for a reader.                        *)
NonblockingWriteReturns ==
  \A t \in Writers : que.noblock /\ pc[t] = "w_lock" ~> pc[t] = "out"
=============================================================================
