----------------------------- MODULE Namespace -----------------------------
(***************************************************************************)
(* The mount table of a process group of LP49 (port/chan.c, port/pgrp.c,   *)
(* bindmount of port/sysfile-l4.c).  A table is a chain of mount heads, one*)
(* for each mount point; a head has the list of channels mounted there, a  *)
(* union when there are several.  The processes of a group bind, unmount,  *)
(* look names up and copy the table (rfork) at the same time, under pg->ns *)
(* and the lock of each head, both reader-writer locks (module RWLock).    *)
(*                                                                         *)
(* The hash table is one bucket.  A channel is its qid and its reference   *)
(* count; a freed channel is not used again, so a stale pointer shows.     *)
(* Binding a channel that is itself a union (new->umh) is not modelled.    *)
(***************************************************************************)
EXTENDS Integers, FiniteSetsExt, SequencesExt

CONSTANTS Procs,    \* the clerks of the processes of the group
          Qids,     \* files: mount points and what is mounted
          Uses,     \* sets of calls the processes make, each with its values of
                    \* flag&MORDER: "MREPL", "MBEFORE", "MAFTER"
          MaxOps,   \* bound: calls made by all processes
          SrvQid,   \* the file behind the descriptors, a connection to a server
          NoProc, NoQid

VARIABLES
  use,       \* one of Uses
  ns,        \* pg->ns
  mnthash,   \* pg->mnthash, the heads of the table
  head,      \* the Mheads allocated so far: from, ref, lock, mount, open
  chan,      \* the Chans allocated so far: qid, ref, mchan, free, bad
  fd,        \* the channel of each process's descriptor, 0 when closed
  mountid,   \* the last mount id given out
  stray,     \* history: a call took or closed a channel it has no reference to
  pc, loc,   \* where each process is, its locals
  nops       \* calls made so far

table == <<ns, mnthash, head, chan, mountid>>
vars  == <<use, table, fd, stray, pc, loc, nops>>

Unlocked == [w |-> NoProc, r |-> {}]
NoLocals == [q |-> NoQid, n |-> NoQid, flag |-> "MREPL", bc |-> 0, old |-> 0, new |-> 0,
             m |-> 0, cur |-> 0, nm |-> 0, c |-> 0, from |-> 0, list |-> <<>>, order |-> <<>>]
NewChan(q, mc) == [qid |-> q, ref |-> 1, mchan |-> mc, free |-> FALSE, bad |-> FALSE]

(* Each process has a descriptor for a connection to a file server. *)
Init ==
  /\ use \in Uses
  /\ ns = Unlocked /\ mnthash = <<>> /\ head = <<>>
  /\ chan = [i \in 1..Cardinality(Procs) |-> NewChan(SrvQid, 0)]
  /\ fd = CHOOSE f \in [Procs -> 1..Cardinality(Procs)] : IsInjective(f)
  /\ mountid = 0 /\ stray = FALSE
  /\ pc = [p \in Procs |-> "out"]
  /\ loc = [p \in Procs |-> NoLocals]
  /\ nops = 0

-----------------------------------------------------------------------------
(* Locks, as RWLock promises them.  The order in which waiting processes   *)
(* get a lock is left open; Waits says whom one may have to wait for.      *)
CanRead(l)     == l.w = NoProc
CanWrite(l)    == l.w = NoProc /\ l.r = {}
rlock(l, p)    == [l EXCEPT !.r = @ \cup {p}]
runlock(l, p)  == [l EXCEPT !.r = @ \ {p}]
wlock(l, p)    == [l EXCEPT !.w = p]
wunlock(l)     == [l EXCEPT !.w = NoProc]

(* References.  cclose of the last one frees the channel and closes its    *)
(* mchan; cclose of a freed channel panics.                                *)
incref(ch, c) == [ch EXCEPT ![c].ref = @ + 1]
Drop(ch, c) ==
  [ch EXCEPT ![c].ref = @ - 1, ![c].free = @ \/ ch[c].ref = 1, ![c].bad = @ \/ ch[c].free]
cclose(ch, c) ==
  IF ch[c].ref = 1 /\ ~ch[c].free /\ ch[c].mchan # 0 THEN Drop(Drop(ch, c), ch[c].mchan)
  ELSE Drop(ch, c)
CloseAll(ch, s) == FoldLeft(cclose, ch, s)

(* Mutant: the channels of the mounts stay open. *)
M_mountfree(ch, mounts) == ch

(* mountfree *)
mountfree(ch, mounts) == CloseAll(ch, [i \in DOMAIN mounts |-> mounts[i].to])

Goto(p, to) == pc' = [pc EXCEPT ![p] = to]
Step(p, from, to) == pc[p] = from /\ Goto(p, to)
Finish(p) == Goto(p, "out") /\ loc' = [loc EXCEPT ![p] = NoLocals]

Call(p, op) ==
  /\ op \in use.ops /\ nops < MaxOps
  /\ pc[p] = "out"
  /\ nops' = nops + 1

(* The head of mount point q in the table, 0 when there is none. *)
HeadOf(q) ==
  LET s == SelectSeq(mnthash, LAMBDA m : chan[head[m].from].qid = q)
  IN  IF s = <<>> THEN 0 ELSE Head(s)

-----------------------------------------------------------------------------
(* bindmount: the channel to mount (c0) is the result of namec or, for a   *)
(* mount, of attaching to the file server at a descriptor; bc is closed    *)
(* once attached.  Then namec finds the mount point (c1).                  *)
CallBind(p, q, n, flag) ==
  /\ Call(p, "bind")
  /\ chan' = chan \o <<NewChan(n, 0), NewChan(q, 0)>>
  /\ loc' = [loc EXCEPT ![p] = [NoLocals EXCEPT !.q = q, !.flag = flag,
                                !.new = Len(chan) + 1, !.old = Len(chan) + 2]]
  /\ Goto(p, "bindns")
  /\ UNCHANGED <<ns, mnthash, head, mountid, fd, stray>>

CallMount(p, q, n, flag) ==
  /\ fd[p] # 0 /\ ~chan[fd[p]].free
  /\ Call(p, "mount")
  /\ chan' = incref(chan, fd[p]) \o <<NewChan(n, fd[p]), NewChan(q, 0)>>
  /\ loc' = [loc EXCEPT ![p] = [NoLocals EXCEPT !.q = q, !.flag = flag, !.bc = fd[p],
                                !.new = Len(chan) + 1, !.old = Len(chan) + 2]]
  /\ Goto(p, "bindns")
  /\ UNCHANGED <<ns, mnthash, head, mountid, fd, stray>>

(* namec finds no mount point: _ERR_4 closes c0 and goes on to _ERR_1,     *)
(* which closes bc, though it was closed after the attach.                 *)
MountFails(p) ==
  /\ fd[p] # 0 /\ ~chan[fd[p]].free
  /\ Call(p, "mountfails")
  /\ chan' = cclose(chan, fd[p])
  /\ stray' = TRUE
  /\ UNCHANGED <<ns, mnthash, head, mountid, fd, pc, loc>>

(* fdclose of a descriptor. *)
CallClose(p) ==
  /\ fd[p] # 0
  /\ Call(p, "close")
  /\ chan' = cclose(chan, fd[p])
  /\ fd' = [fd EXCEPT ![p] = 0]
  /\ UNCHANGED <<ns, mnthash, head, mountid, stray, pc, loc>>

(* cmount, cunmount, pgrpcpy: wlock(&pg->ns). *)
WlockNs(p) ==
  /\ CanWrite(ns)
  /\ \/ Step(p, "bindns", "bindfind")
     \/ Step(p, "unmountns", "unmountfind")
     \/ Step(p, "copyns", "copyhead")
  /\ ns' = wlock(ns, p)
  /\ UNCHANGED <<mnthash, head, chan, mountid, fd, stray, loc, nops>>

(* cmount finds the head or makes one; a union has the old channel in it. *)
CmountFind(p) ==
  /\ Step(p, "bindfind", "bindlock")
  /\ LET l == loc[p]
         new == Len(head) + 1
         union == l.flag # "MREPL"
     IN  IF HeadOf(l.q) # 0
         THEN loc' = [loc EXCEPT ![p].m = HeadOf(l.q)] /\ UNCHANGED <<mnthash, head, chan, mountid>>
         ELSE /\ loc' = [loc EXCEPT ![p].m = new]
              /\ mnthash' = Append(mnthash, new)
              /\ head' = Append(head, [from |-> l.old, ref |-> 1, lock |-> Unlocked, open |-> TRUE,
                                 mount |-> IF union THEN <<[to |-> l.old, id |-> mountid + 1]>>
                                           ELSE <<>>])
              /\ mountid' = IF union THEN mountid + 1 ELSE mountid
              /\ chan' = IF union THEN incref(incref(chan, l.old), l.old) ELSE incref(chan, l.old)
  /\ UNCHANGED <<ns, fd, stray, nops>>

(* Mutant: pg->ns is given up before the head is locked. *)
M_CmountLock(p) ==
  /\ Step(p, "bindlock", "bindnew")
  /\ ns' = wunlock(ns)
  /\ UNCHANGED <<mnthash, head, chan, mountid, fd, stray, loc, nops>>

(* Lock the head, then unlock the table. *)
CmountLock(p) ==
  /\ Step(p, "bindlock", "bindnew")
  /\ CanWrite(head[loc[p].m].lock)
  /\ head' = [head EXCEPT ![loc[p].m].lock = wlock(@, p)]
  /\ ns' = wunlock(ns)
  /\ UNCHANGED <<mnthash, chan, mountid, fd, stray, loc, nops>>

(* newmount *)
CmountNew(p) ==
  /\ Step(p, "bindnew", "bindlink")
  /\ mountid' = mountid + 1
  /\ chan' = incref(chan, loc[p].new)
  /\ loc' = [loc EXCEPT ![p].nm = mountid']
  /\ UNCHANGED <<ns, mnthash, head, fd, stray, nops>>

(* Replace the list, or put the mount after or before it; then bindmount   *)
(* closes its channels and, for a mount, the descriptor.                   *)
CmountLink(p) ==
  /\ pc[p] = "bindlink"
  /\ LET l  == loc[p]
         m  == head[l.m]
         nm == <<[to |-> l.new, id |-> l.nm]>>
         ch == IF l.flag = "MREPL" THEN mountfree(chan, m.mount) ELSE chan
     IN  /\ head' = [head EXCEPT ![l.m].lock = wunlock(@),
                       ![l.m].mount = CASE l.flag = "MREPL"   -> nm
                                        [] l.flag = "MAFTER"  -> m.mount \o nm
                                        [] l.flag = "MBEFORE" -> nm \o m.mount]
         /\ chan' = CloseAll(ch, <<l.old, l.new>> \o IF l.bc # 0 /\ fd[p] # 0 THEN <<l.bc>> ELSE <<>>)
         /\ fd' = IF l.bc # 0 THEN [fd EXCEPT ![p] = 0] ELSE fd
  /\ Finish(p)
  /\ UNCHANGED <<ns, mnthash, mountid, stray, nops>>

-----------------------------------------------------------------------------
CallUnmount(p, q, n) ==
  /\ Call(p, "unmount")
  /\ loc' = [loc EXCEPT ![p] = [NoLocals EXCEPT !.q = q, !.n = n]]
  /\ Goto(p, "unmountns")
  /\ UNCHANGED <<table, fd, stray>>

(* Mutant: pg->ns stays locked when nothing is mounted there. *)
M_CunmountFind(p) ==
  /\ pc[p] = "unmountfind"
  /\ IF HeadOf(loc[p].q) = 0
     THEN Finish(p)
     ELSE Goto(p, "unmountlock") /\ loc' = [loc EXCEPT ![p].m = HeadOf(loc[p].q)]
  /\ UNCHANGED <<table, fd, stray, nops>>

CunmountFind(p) ==
  /\ pc[p] = "unmountfind"
  /\ IF HeadOf(loc[p].q) = 0
     THEN Finish(p) /\ ns' = wunlock(ns)
     ELSE Goto(p, "unmountlock") /\ loc' = [loc EXCEPT ![p].m = HeadOf(loc[p].q)] /\ UNCHANGED ns
  /\ UNCHANGED <<mnthash, head, chan, mountid, fd, stray, nops>>

(* Lock the head.  When everything there is unmounted the head leaves the  *)
(* table at once, and the table is unlocked.                               *)
CunmountLock(p) ==
  /\ pc[p] = "unmountlock" /\ CanWrite(head[loc[p].m].lock)
  /\ head' = [head EXCEPT ![loc[p].m].lock = wlock(@, p)]
  /\ IF loc[p].n = NoQid
     THEN /\ Goto(p, "unmountall")
          /\ mnthash' = Remove(mnthash, loc[p].m)
          /\ ns' = wunlock(ns)
     ELSE Goto(p, "unmountone") /\ UNCHANGED <<mnthash, ns>>
  /\ UNCHANGED <<chan, mountid, fd, stray, loc, nops>>

CunmountAll(p) ==
  /\ Step(p, "unmountall", "put")
  /\ LET m == loc[p].m
     IN  /\ chan' = cclose(mountfree(chan, head[m].mount), head[m].from)
         /\ head' = [head EXCEPT ![m].mount = <<>>, ![m].open = FALSE, ![m].lock = wunlock(@)]
  /\ UNCHANGED <<ns, mnthash, mountid, fd, stray, loc, nops>>

(* Unmount the first channel that is the given file, or that is mounted    *)
(* from the given connection; the last one takes the head with it.         *)
CunmountOne(p) ==
  /\ pc[p] = "unmountone"
  /\ ns' = wunlock(ns)
  /\ LET m  == loc[p].m
         mt == head[m].mount
         Is(c) == c # 0 /\ chan[c].qid = loc[p].n
         is == {i \in DOMAIN mt : Is(mt[i].to) \/ Is(chan[mt[i].to].mchan)}
         i  == Min(is)
         ch == mountfree(chan, <<mt[i]>>)
     IN  IF is = {}
         THEN /\ head' = [head EXCEPT ![m].lock = wunlock(@)]
              /\ Finish(p) /\ UNCHANGED <<mnthash, chan>>
         ELSE IF Len(mt) > 1
         THEN /\ head' = [head EXCEPT ![m].lock = wunlock(@), ![m].mount = RemoveAt(mt, i)]
              /\ chan' = ch
              /\ Finish(p) /\ UNCHANGED mnthash
         ELSE /\ head' = [head EXCEPT ![m].lock = wunlock(@), ![m].mount = <<>>, ![m].open = FALSE]
              /\ chan' = cclose(ch, head[m].from)
              /\ mnthash' = Remove(mnthash, m)
              /\ Goto(p, "put") /\ UNCHANGED loc
  /\ UNCHANGED <<mountid, fd, stray, nops>>

(* putmhead at the end of cunmount. *)
CunmountPut(p) ==
  /\ pc[p] = "put"
  /\ head' = [head EXCEPT ![loc[p].m].ref = @ - 1]
  /\ Finish(p)
  /\ UNCHANGED <<ns, mnthash, chan, mountid, fd, stray, nops>>

-----------------------------------------------------------------------------
(* walk steps through a mount point with domount, which calls findmount. *)
CallWalk(p, q) ==
  /\ Call(p, "walk")
  /\ loc' = [loc EXCEPT ![p] = [NoLocals EXCEPT !.q = q, !.cur = 1]]
  /\ Goto(p, "findns")
  /\ UNCHANGED <<table, fd, stray>>

(* rlock(&pg->ns), and look at the heads one by one. *)
FindmountLock(p) ==
  /\ Step(p, "findns", "find")
  /\ CanRead(ns)
  /\ ns' = rlock(ns, p)
  /\ UNCHANGED <<mnthash, head, chan, mountid, fd, stray, loc, nops>>

(* Each head is locked to compare it; the one found stays locked, and the  *)
(* table is unlocked.                                                      *)
FindmountScan(p) ==
  /\ pc[p] = "find"
  /\ LET i == loc[p].cur
     IN  IF i > Len(mnthash)
         THEN Finish(p) /\ ns' = runlock(ns, p) /\ UNCHANGED head
         ELSE /\ CanRead(head[mnthash[i]].lock)
              /\ IF chan[head[mnthash[i]].from].qid # loc[p].q
                 THEN loc' = [loc EXCEPT ![p].cur = @ + 1] /\ UNCHANGED <<pc, ns, head>>
                 ELSE /\ Goto(p, "found")
                      /\ loc' = [loc EXCEPT ![p].m = mnthash[i]]
                      /\ ns' = runlock(ns, p)
                      /\ head' = [head EXCEPT ![mnthash[i]].lock = rlock(@, p)]
  /\ UNCHANGED <<mnthash, chan, mountid, fd, stray, nops>>

(* Take a reference to the head and to the first channel mounted there.    *)
(* There is one: FindmountFinds.                                           *)
FindmountTake(p) ==
  /\ Step(p, "found", "domount")
  /\ LET m == head[loc[p].m]
     IN  /\ m.mount # <<>>
         /\ chan' = incref(chan, m.mount[1].to)
         /\ loc' = [loc EXCEPT ![p].c = m.mount[1].to]
         /\ head' = [head EXCEPT ![loc[p].m].ref = @ + 1, ![loc[p].m].lock = runlock(@, p)]
  /\ UNCHANGED <<ns, mnthash, mountid, fd, stray, nops>>

(* domount: the path refers to mh->from from now on, which an unmount may  *)
(* have closed since.                                                      *)
Domount(p) ==
  /\ Step(p, "domount", "ewalk")
  /\ LET from == head[loc[p].m].from
     IN  /\ chan' = incref(chan, from)
         /\ loc' = [loc EXCEPT ![p].from = from]
         /\ stray' = (stray \/ chan[from].free)
  /\ UNCHANGED <<ns, mnthash, head, mountid, fd, nops>>

(* ewalk finds the name in c, or not; then the rest of the union is tried  *)
(* under the lock of the head.                                             *)
Ewalk(p) ==
  /\ \/ Step(p, "ewalk", "walked") /\ UNCHANGED head
     \/ Step(p, "ewalk", "unionlock") /\ UNCHANGED head
     \/ /\ Step(p, "unionlock", "union")
        /\ CanRead(head[loc[p].m].lock)
        /\ head' = [head EXCEPT ![loc[p].m].lock = rlock(@, p)]
  /\ UNCHANGED <<ns, mnthash, chan, mountid, fd, stray, loc, nops>>

(* The mounts after mh->mount are tried.  With mh->mount nil this reads    *)
(* through a nil pointer, which this step leaves to UnionStartsAfterC.     *)
EwalkUnion(p) ==
  /\ Step(p, "union", "walked")
  /\ head' = [head EXCEPT ![loc[p].m].lock = runlock(@, p)]
  /\ UNCHANGED <<ns, mnthash, chan, mountid, fd, stray, loc, nops>>

(* walk goes on with its channel and lets c and mh go ... *)
Walked(p) ==
  /\ Step(p, "walked", "path")
  /\ chan' = cclose(chan, loc[p].c)
  /\ head' = [head EXCEPT ![loc[p].m].ref = @ - 1]
  /\ loc' = [loc EXCEPT ![p].c = 0, ![p].m = 0]
  /\ UNCHANGED <<ns, mnthash, mountid, fd, stray, nops>>

(* ... and when the result is closed, pathclose closes the mount point. *)
Pathclose(p) ==
  /\ pc[p] = "path"
  /\ chan' = cclose(chan, loc[p].from)
  /\ Finish(p)
  /\ UNCHANGED <<ns, mnthash, head, mountid, fd, stray, nops>>

-----------------------------------------------------------------------------
(* pgrpcpy: rfork copies the table of the group for the child. *)
CallCopy(p) ==
  /\ Call(p, "rfork")
  /\ loc' = [loc EXCEPT ![p] = [NoLocals EXCEPT !.cur = 1]]
  /\ Goto(p, "copyns")
  /\ UNCHANGED <<table, fd, stray>>

(* Mutant: a mount goes to the end of the list. *)
M_pgrpinsert(order, n) == Append(order, n)

(* order links the mounts that have been copied, each with its copy n, the *)
(* smallest mount id first; n.of is the id of the mount copied.            *)
pgrpinsert(order, n) ==
  LET after == {i \in DOMAIN order : n.of < order[i].of}
  IN  IF after = {} THEN Append(order, n) ELSE InsertAt(order, Min(after), n)

(* One head: newmhead, and newmount for each of its mounts. *)
PgrpcpyHead(p) ==
  /\ pc[p] = "copyhead"
  /\ loc[p].cur <= Len(mnthash)
  /\ LET m    == head[mnthash[loc[p].cur]]
         copy == [i \in DOMAIN m.mount |->
                    [to |-> m.mount[i].to, id |-> mountid + i, of |-> m.mount[i].id]]
     IN  /\ CanRead(m.lock)
         /\ chan' = FoldLeft(incref, incref(chan, m.from), [i \in DOMAIN copy |-> copy[i].to])
         /\ mountid' = mountid + Len(copy)
         /\ loc' = [loc EXCEPT ![p].cur = @ + 1,
                               ![p].list = Append(@, [from |-> m.from, mount |-> copy]),
                               ![p].order = FoldLeft(pgrpinsert, @, copy)]
  /\ UNCHANGED <<ns, mnthash, head, fd, stray, pc, nops>>

(* "Allocate mount ids in the same sequence as the parent group": along    *)
(* order, each copy gets mountid.ref++.                                    *)
PgrpcpyIds(p) ==
  /\ Step(p, "copyhead", "copied")
  /\ loc[p].cur > Len(mnthash)
  /\ LET order == loc[p].order
         Numbered(n) == [n EXCEPT !.id = mountid + (CHOOSE i \in DOMAIN order : order[i] = n) - 1]
         Copied(h) == [h EXCEPT !.mount = [i \in DOMAIN @ |-> Numbered(@[i])]]
     IN  /\ loc' = [loc EXCEPT ![p].list = [i \in DOMAIN @ |-> Copied(@[i])], ![p].order = <<>>]
         /\ mountid' = mountid + Len(order)
  /\ ns' = wunlock(ns)
  /\ UNCHANGED <<mnthash, head, chan, fd, stray, nops>>

(* closepgrp of the child's table, when the child exits. *)
Closepgrp(p) ==
  /\ pc[p] = "copied"
  /\ LET Close(ch, m) == mountfree(cclose(ch, m.from), m.mount)
     IN  chan' = FoldLeft(Close, chan, loc[p].list)
  /\ Finish(p)
  /\ UNCHANGED <<ns, mnthash, head, mountid, fd, stray, nops>>

-----------------------------------------------------------------------------
Enter(p) ==
  \/ \E q, n \in Qids, o \in use.orders : CallBind(p, q, n, o) \/ CallMount(p, q, n, o)
  \/ \E q \in Qids, n \in Qids \cup {SrvQid, NoQid} : CallUnmount(p, q, n)
  \/ \E q \in Qids : CallWalk(p, q)
  \/ MountFails(p) \/ CallClose(p) \/ CallCopy(p)

Run(p) ==
  \/ WlockNs(p)
  \/ CmountFind(p) \/ CmountLock(p) \/ CmountNew(p) \/ CmountLink(p)
  \/ CunmountFind(p) \/ CunmountLock(p) \/ CunmountAll(p) \/ CunmountOne(p) \/ CunmountPut(p)
  \/ FindmountLock(p) \/ FindmountScan(p) \/ FindmountTake(p) \/ Domount(p)
  \/ Ewalk(p) \/ EwalkUnion(p) \/ Walked(p) \/ Pathclose(p)
  \/ PgrpcpyHead(p) \/ PgrpcpyIds(p) \/ Closepgrp(p)

Next == UNCHANGED use /\ \E p \in Procs : Enter(p) \/ Run(p)

Spec == Init /\ [][Next]_vars

-----------------------------------------------------------------------------
Heads == DOMAIN head
Chans == DOMAIN chan
Mounts(m) == head[m].mount

(* Type invariant. *)
TypeOK ==
  LET Locks == [w : Procs \cup {NoProc}, r : SUBSET Procs]
      MaxId == (Cardinality(Qids) + 2) * MaxOps * MaxOps
  IN  /\ ns \in Locks
      /\ mnthash \in Seq(Heads) /\ IsInjective(mnthash)
      /\ mountid \in 0..MaxId
      /\ head \in Seq([from : Chans, ref : 0..(Cardinality(Procs) + 1), lock : Locks,
                       open : BOOLEAN, mount : Seq([to : Chans, id : 1..MaxId])])
      /\ chan \in Seq([qid : Qids \cup {SrvQid}, ref : Nat, mchan : 0..Len(chan),
                       free : BOOLEAN, bad : BOOLEAN])
      /\ fd \in [Procs -> 0..Cardinality(Procs)]
      /\ nops \in 0..MaxOps /\ stray \in BOOLEAN

(* The references of a head are its place in the table and the processes   *)
(* that walk through it or are about to put it, so none is left over; and  *)
(* a head that a process has in its hands, only locked, say, is not freed. *)
HeadRefsExact ==
  /\ \A m \in Heads :
       head[m].ref = (IF m \in ToSet(mnthash) THEN 1 ELSE 0)
         + Cardinality({p \in Procs : loc[p].m = m /\
                          pc[p] \in {"domount", "ewalk", "unionlock", "union", "walked", "unmountall", "put"}})
  /\ \A p \in Procs : loc[p].m # 0 => head[loc[p].m].ref > 0

(* The references of a channel are the pointers to it: from mounts, heads, *)
(* copied tables, descriptors, mounted channels and the calls in progress; *)
(* and it has been freed exactly when there are none.                      *)
ChanRefsExact ==
  LET InMounts(ms, c) == Cardinality({i \in DOMAIN ms : ms[i].to = c})
      InHead(m, c)    == InMounts(Mounts(m), c) + (IF head[m].open /\ head[m].from = c THEN 1 ELSE 0)
      InCopy(h, c)    == InMounts(h.mount, c) + (IF h.from = c THEN 1 ELSE 0)
      InCall(p, c)    ==
        LET l == loc[p]
        IN  MapThenSumSet(LAMBDA f : IF l[f] = c THEN 1 ELSE 0, {"old", "new", "c", "from"})
            + (IF pc[p] = "bindlink" /\ l.new = c THEN 1 ELSE 0)
            + MapThenSumSet(LAMBDA i : InCopy(l.list[i], c), DOMAIN l.list)
            + (IF fd[p] = c THEN 1 ELSE 0)
  IN  \A c \in Chans :
        /\ chan[c].ref = MapThenSumSet(LAMBDA m : InHead(m, c), Heads)
                         + MapThenSumSet(LAMBDA p : InCall(p, c), Procs)
                         + Cardinality({d \in Chans : ~chan[d].free /\ chan[d].mchan = c})
        /\ chan[c].free <=> chan[c].ref = 0

(* No head is freed in use or left over, and no channel is until a mount   *)
(* fails, which closes bc twice (MountFails), or domount takes the channel *)
(* of a mount point that was unmounted and freed after findmount found it  *)
(* (chan.c:1070).                                                          *)
RefInv == TypeOK /\ HeadRefsExact /\ (~stray => ChanRefsExact)

(* findmount reads m->mount->to of the head it found: while a process has  *)
(* a head of the table locked to read it, something is mounted there.      *)
FindmountFinds == \A p \in Procs : pc[p] = "found" => Mounts(loc[p].m) # <<>>

(* pgrp.c:125: "pgrpcpy MUST preserve the mountid allocation order of the  *)
(* parent group", whatever the order of the heads and of their unions; and *)
(* the mounts it has linked through m->order stay mounted until the ids    *)
(* are given out, whatever binds and unmounts go on.                       *)
CopyOrdered ==
  \A p \in Procs :
    /\ pc[p] = "copyhead" =>
         \A n \in ToSet(loc[p].order) : \E m \in ToSet(mnthash) :
           n.of \in {f.id : f \in ToSet(Mounts(m))}
    /\ pc[p] = "copied" =>
         \A x, y \in UNION {ToSet(h.mount) : h \in ToSet(loc[p].list)} :
           (x.of < y.of) <=> (x.id < y.id)

(* chan.c:1266: "mh->mount->to == c, so start at mh->mount->next", when    *)
(* walk has locked the head to try the rest of a union.                    *)
UnionStartsAfterC ==
  \A p \in Procs : pc[p] = "union" =>
    Mounts(loc[p].m) # <<>> /\ Mounts(loc[p].m)[1].to = loc[p].c

(* chan.c:556: no cclose finds a channel that is free, panic("cclose"). *)
NoClosePanic == \A c \in Chans : ~chan[c].bad

(* A process that waits for a lock.  A writer waits for those inside, a    *)
(* reader for a writer inside and for one that is queued (qlock.c:145).    *)
Waits(p) ==
  LET at(places)  == {w \in Procs : pc[w] \in places}
      WantsNs     == at({"bindns", "unmountns", "copyns"})
      Wants(m)    == {w \in at({"bindlock", "unmountlock"}) : loc[w].m = m}
      scanned     == IF loc[p].cur <= Len(mnthash) THEN mnthash[loc[p].cur] ELSE 0
      Reads(m)    == \/ p \in at({"unionlock"}) /\ loc[p].m = m
                     \/ p \in at({"find", "copyhead"}) /\ scanned = m
  IN  \/ p \in WantsNs /\ ~CanWrite(ns)
      \/ p \in at({"findns"}) /\ (~CanRead(ns) \/ WantsNs # {})
      \/ \E m \in Heads : p \in Wants(m) /\ ~CanWrite(head[m].lock)
      \/ \E m \in Heads : Reads(m) /\ (~CanRead(head[m].lock) \/ Wants(m) # {})
Inside(l) == {p \in Procs : p = l.w \/ p \in l.r}

(* No bind, unmount, lookup or copy is stuck: a lock is held only inside a *)
(* call, every call gives up what it took, and some call can always go on, *)
(* the locks of the table and of its heads being taken in one order.       *)
NobodyStuck ==
  /\ \A p \in Inside(ns) \cup UNION {Inside(head[m].lock) : m \in Heads} : pc[p] # "out"
  /\ (\E p \in Procs : pc[p] # "out") => \E p \in Procs : pc[p] # "out" /\ ~Waits(p)
=============================================================================
