-------------------------------- MODULE Fgrp --------------------------------
(***************************************************************************)
(* File descriptor tables: Fgrp of pgrp.c, the calls of sysfile-l4.c that  *)
(* make, use and drop descriptors, the channel's file offset, and the pipe *)
(* device (devpipe.c), whose pipes live by their channels.                 *)
(*                                                                         *)
(* A table is shared by the processes that rfork without RFFDG or RFCFDG.  *)
(* A channel is shared by every descriptor that dup, rfork or a shared     *)
(* table made for it, and by the calls in progress on it.  Both live by    *)
(* reference counts.  A section under f->_ref._lock, and an incref or      *)
(* decref, is one step; so is a section under a pipe's qlock.  Names are   *)
(* no part of the model: namec gives a new channel, of a file or of an end *)
(* of a pipe that was bound to a name before.                              *)
(***************************************************************************)
EXTENDS Integers, SequencesExt, FiniteSetsExt

CONSTANTS
  Procs,        \* processes
  Boot,         \* the one that runs at first
  Threads,      \* clerks at work for them
  ProcOf,       \* up of each thread
  DELTAFD,      \* a table grows by so many entries
  MaxNfd,       \* the 5000 of growfd
  ONERR,        \* the value of a failed device call, a large negative number
  Ops,          \* the calls that are made
  OpenModes,    \* bound: the modes files are opened with
  MaxOps        \* bound on the number of calls

ASSUME FgrpAssumption ==
  /\ Boot \in Procs /\ ProcOf \in [Threads -> Procs]
  /\ DELTAFD \in Nat \ {0} /\ MaxNfd \in Nat /\ MaxOps \in Nat
  /\ ONERR \in Int /\ ONERR < -MaxOps
  /\ OpenModes \subseteq {"OREAD", "OWRITE", "ORDWR"}

VARIABLES
  life,         \* of each process: "new", "alive", "dead"
  fgrp,         \* p->fgrp, 0 is nil
  grp,          \* the tables made so far
  chan,         \* the channels made so far
  pipe,         \* the pipes made so far
  pc, loc,      \* where a thread is, and its locals
  nops,         \* calls made
  torn          \* history: a process lost its table under another of its threads

vars == <<life, fgrp, grp, chan, pipe, pc, loc, nops, torn>>

Fds    == 0..(MaxNfd + DELTAFD - 1)
Modes  == {"OREAD", "OWRITE", "ORDWR"}
Empty  == [ref |-> 1, fd |-> [i \in Fds |-> 0], nfd |-> DELTAFD, maxfd |-> 0, freed |-> FALSE]

(* at: up->fgrp when the call began; f: the table it works on; own: the    *)
(* channels it has to close or hand on; fd, to: the descriptors it was     *)
(* given; n: bytes to write; flag: of rfork.                               *)
NoLocals == [op |-> "none", at |-> 0, f |-> 0, own |-> <<>>, fd |-> 0, to |-> 0, n |-> 0, flag |-> "none"]

(* of, end: the pipe it belongs to, or 0, and which end; open: COPEN;      *)
(* count: history, the bytes transferred.                                  *)
NewChan(mode) ==
  [ref |-> 1, mode |-> mode, offset |-> 0, count |-> 0, of |-> 0, end |-> 1, open |-> TRUE]
NewEnd(p, e)  == [NewChan("ORDWR") EXCEPT !.of = p, !.end = e]

(* ref: channels; qref: of them, open ones of each end; shut: Qclosed of   *)
(* each queue; bound: a name space has the pipe's directory.               *)
NewPipe == [ref |-> 1, qref |-> <<0, 0>>, shut |-> <<FALSE, FALSE>>, bound |-> FALSE]

(* The first process has a channel open, as one descriptor or, after a     *)
(* dup, as two, or there is a pipe in its name space.                      *)
Init ==
  /\ life = [p \in Procs |-> IF p = Boot THEN "alive" ELSE "new"]
  /\ fgrp = [p \in Procs |-> IF p = Boot THEN 1 ELSE 0]
  /\ \/ /\ grp = <<[Empty EXCEPT !.fd[0] = 1]>>
        /\ \E mode \in Modes : chan = <<NewChan(mode)>>
        /\ pipe = <<>>
     \/ /\ grp = <<[Empty EXCEPT !.fd[0] = 1, !.fd[1] = 1, !.nfd = Max({@, 2}), !.maxfd = 1]>>
        /\ chan = <<[NewChan("ORDWR") EXCEPT !.ref = 2]>>
        /\ pipe = <<>>
     \/ /\ grp = <<[Empty EXCEPT !.fd[0] = 1]>>
        /\ chan = <<NewEnd(1, 1)>>
        /\ pipe = <<[NewPipe EXCEPT !.ref = 2, !.qref[1] = 1, !.bound = TRUE]>>
  /\ pc = [t \in Threads |-> "out"] /\ loc = [t \in Threads |-> NoLocals]
  /\ nops = 0 /\ torn = FALSE

Up(t)  == fgrp[ProcOf[t]]
Own(t) == Head(loc[t].own)
Goto(t, from, to) == pc[t] = from /\ pc' = [pc EXCEPT ![t] = to]

(* Start of a call: the thread of a living process, with its arguments.    *)
(* The first thing it does that others can change is f = up->fgrp.  Once a *)
(* table was torn the calls in progress end, and no more are looked at.    *)
Enter(t, op, to, args) ==
  /\ op \in Ops /\ nops < MaxOps /\ ~torn /\ life[ProcOf[t]] = "alive"
  /\ Goto(t, "out", to)
  /\ loc' = [loc EXCEPT ![t] = [args EXCEPT !.op = op, !.at = Up(t), !.f = Up(t)]]
  /\ nops' = nops + 1

Return(t, from) == Goto(t, from, "out") /\ loc' = [loc EXCEPT ![t] = NoLocals]

(* f = up->fgrp once more; the lock follows. *)
Load(t, from, to) ==
  /\ Goto(t, from, to)
  /\ loc' = [loc EXCEPT ![t].f = Up(t)]
  /\ UNCHANGED <<life, fgrp, grp, chan, nops, torn, pipe>>

(* To lock a nil or freed table, or to index it out of its bounds, is      *)
(* undefined behaviour, at which the model lets the thread stop.           *)
Usable(t) ==
  LET l == loc[t]
  IN  \/ l.flag = "RFCFDG"
      \/ l.f # 0 /\ ~grp[l.f].freed /\ (pc[t] = "fdclose_cs" => l.fd < grp[l.f].nfd)

Sections == {"newfd_cs", "newfd2_cs", "fdtochan_cs", "dup_cs", "fdclose_cs", "fork_cs", "self_cs"}

Nilref(t) ==
  /\ pc[t] \in Sections /\ ~Usable(t)
  /\ pc' = [pc EXCEPT ![t] = "nilref"]
  /\ UNCHANGED <<life, fgrp, grp, chan, loc, nops, torn, pipe>>

Locked(t, place) == pc[t] = place /\ Usable(t)

-----------------------------------------------------------------------------
(* growfd: may entry fd be there, and the table that has it. *)
CanGrow(g, fd) == fd < g.nfd \/ (fd < g.nfd + DELTAFD /\ g.nfd < MaxNfd)
growfd(g, fd)  ==
  IF fd < g.nfd THEN g
  ELSE [g EXCEPT !.nfd = @ + DELTAFD, !.maxfd = Max({@, fd})]

(* The first free entry, which may be the one behind the last. *)
findfreefd(g, start) ==
  Min({fd \in start..g.nfd : fd = g.nfd \/ g.fd[fd] = 0})

Put(g, fd, c) == [g EXCEPT !.maxfd = Max({@, fd}), !.fd[fd] = c]

(* newfd: the channel goes into the table, or is closed by the caller. *)
newfd(t) ==
  /\ Locked(t, "newfd_cs")
  /\ LET f  == loc[t].f
         fd == findfreefd(grp[f], 0)
     IN  \/ /\ CanGrow(grp[f], fd)
            /\ grp' = [grp EXCEPT ![f] = Put(growfd(@, fd), fd, Own(t))]
            /\ Return(t, "newfd_cs")
         \/ /\ ~CanGrow(grp[f], fd)
            /\ Goto(t, "newfd_cs", "cclose") /\ UNCHANGED <<grp, loc>>
  /\ UNCHANGED <<life, fgrp, chan, nops, torn, pipe>>

(* Mutant: maxfd is left to growfd. *)
M_newfd2(t) ==
  /\ Locked(t, "newfd2_cs")
  /\ LET f   == loc[t].f
         fd0 == findfreefd(grp[f], 0)
         g0  == growfd(grp[f], fd0)
         fd1 == findfreefd(g0, fd0 + 1)
     IN  /\ CanGrow(grp[f], fd0) /\ CanGrow(g0, fd1)
         /\ grp' = [grp EXCEPT ![f] = [growfd(g0, fd1) EXCEPT !.fd[fd0] = loc[t].own[1],
                                                              !.fd[fd1] = loc[t].own[2]]]
  /\ Return(t, "newfd2_cs")
  /\ UNCHANGED <<life, fgrp, chan, nops, torn, pipe>>

(* newfd2: both channels of a pipe, or none; a table that grew stays so. *)
newfd2(t) ==
  /\ Locked(t, "newfd2_cs")
  /\ LET f   == loc[t].f
         fd0 == findfreefd(grp[f], 0)
         g0  == growfd(grp[f], fd0)
         fd1 == findfreefd(g0, fd0 + 1)
         g1  == growfd(g0, fd1)
         ok  == CanGrow(grp[f], fd0)
     IN  \/ /\ ok /\ CanGrow(g0, fd1)
            /\ grp' = [grp EXCEPT ![f] = Put([g1 EXCEPT !.fd[fd0] = loc[t].own[1]], fd1, loc[t].own[2])]
            /\ Return(t, "newfd2_cs")
         \/ /\ ~(ok /\ CanGrow(g0, fd1))
            /\ grp' = [grp EXCEPT ![f] = IF ok THEN g0 ELSE @]
            /\ Goto(t, "newfd2_cs", "cclose") /\ UNCHANGED loc
  /\ UNCHANGED <<life, fgrp, chan, nops, torn, pipe>>

incref(cs, c) == [cs EXCEPT ![c].ref = @ + 1]

(* What follows fdtochan in the calls that use it, and the mode they need. *)
After == [dup |-> "dup", close |-> "fdclose", read |-> "rd_off", write |-> "wr_off"]
MayUse(op, c) ==
  op \in {"read", "write"} =>
    chan[c].mode \in {"ORDWR", IF op = "read" THEN "OREAD" ELSE "OWRITE"}

(* fdtochan: take a reference, unless for close; a wrong mode gives it     *)
(* back, and an unused descriptor ends the call.  No channel here is a     *)
(* mounted connection (CMSG), which read and write would be refused alike. *)
fdtochan(t) ==
  /\ Locked(t, "fdtochan_cs")
  /\ LET g  == grp[loc[t].f]
         op == loc[t].op
         c  == IF loc[t].fd < g.nfd THEN g.fd[loc[t].fd] ELSE 0
     IN  \/ c = 0 /\ Return(t, "fdtochan_cs") /\ UNCHANGED chan
         \/ /\ c # 0 /\ op = "close"
            /\ Goto(t, "fdtochan_cs", After[op]) /\ UNCHANGED <<chan, loc>>
         \/ /\ c # 0 /\ op # "close"
            /\ chan' = incref(chan, c)
            /\ loc' = [loc EXCEPT ![t].own = <<c>>]
            /\ Goto(t, "fdtochan_cs", IF MayUse(op, c) THEN After[op] ELSE "cclose")
  /\ UNCHANGED <<life, fgrp, grp, nops, torn, pipe>>

(* pipeclose: who closes an end for the last time hangs up the other; with *)
(* both ends closed the queues are reopened.  A pipe is freed with its last*)
(* channel, at ref = 0.                                                    *)
pipeclose(p, c) ==
  LET q == IF c.open THEN [p EXCEPT !.qref[c.end] = @ - 1] ELSE p
      s == IF c.open /\ q.qref[c.end] = 0 THEN [q EXCEPT !.shut = <<TRUE, TRUE>>] ELSE q
      u == IF s.qref = <<0, 0>> THEN [s EXCEPT !.shut = <<FALSE, FALSE>>] ELSE s
  IN  [u EXCEPT !.ref = @ - 1]

(* cclose(c): the device is called with the last reference. *)
decref(c) ==
  /\ chan' = [chan EXCEPT ![c].ref = @ - 1]
  /\ pipe' = IF chan[c].ref = 1 /\ chan[c].of # 0
             THEN [pipe EXCEPT ![chan[c].of] = pipeclose(@, chan[c])] ELSE pipe

(* The call closes what it still has, one at a time. *)
cclose(t) ==
  /\ \/ /\ pc[t] = "cclose" /\ loc[t].own # <<>>
        /\ decref(Own(t))
        /\ loc' = [loc EXCEPT ![t].own = Tail(@)]
        /\ UNCHANGED pc
     \/ loc[t].own = <<>> /\ Return(t, "cclose") /\ UNCHANGED <<chan, pipe>>
  /\ UNCHANGED <<life, fgrp, grp, nops, torn>>

-----------------------------------------------------------------------------
(* open: namec gives a channel with one reference, here of a file. *)
sysopen(t) ==
  /\ \E mode \in OpenModes : chan' = Append(chan, NewChan(mode))
  /\ Enter(t, "open", "newfd_cs", [NoLocals EXCEPT !.own = <<Len(chan) + 1>>])
  /\ UNCHANGED <<life, fgrp, grp, torn, pipe>>

(* Here of an end of a pipe in the name space: pipewalk clones its         *)
(* directory, and pipeopen opens the end.                                  *)
pipewalk(t) ==
  /\ \E p \in DOMAIN pipe, e \in {1, 2} :
       /\ pipe[p].bound /\ pipe' = [pipe EXCEPT ![p].ref = @ + 1]
       /\ chan' = Append(chan, [NewEnd(p, e) EXCEPT !.open = FALSE])
  /\ Enter(t, "open", "pipeopen", [NoLocals EXCEPT !.own = <<Len(chan) + 1>>])
  /\ UNCHANGED <<life, fgrp, grp, torn>>

pipeopen(t) ==
  /\ Goto(t, "pipeopen", "newfd")
  /\ LET c == chan[Own(t)] IN pipe' = [pipe EXCEPT ![c.of].qref[c.end] = @ + 1]
  /\ chan' = [chan EXCEPT ![Own(t)].open = TRUE]
  /\ UNCHANGED <<life, fgrp, grp, loc, nops, torn>>

(* pipe: pipeattach, two walks and two opens, which nobody else sees. *)
syspipe(t) ==
  /\ LET p == Len(pipe) + 1 IN chan' = chan \o <<NewEnd(p, 1), NewEnd(p, 2)>>
  /\ pipe' = Append(pipe, [NewPipe EXCEPT !.ref = 2, !.qref = <<1, 1>>])
  /\ Enter(t, "pipe", "newfd2_cs", [NoLocals EXCEPT !.own = <<Len(chan) + 1, Len(chan) + 2>>])
  /\ UNCHANGED <<life, fgrp, grp, torn>>

(* dup(fd, to); -1 asks for any descriptor. *)
sysdup(t) ==
  /\ \E fd \in Fds, to \in Fds \cup {-1} :
       Enter(t, "dup", "fdtochan", [NoLocals EXCEPT !.fd = fd, !.to = to])
  /\ UNCHANGED <<life, fgrp, grp, chan, torn, pipe>>

(* dup goes on with the table it loaded at its start, or as newfd. *)
DupWhere(t) ==
  /\ Goto(t, "dup", IF loc[t].to = -1 THEN "newfd" ELSE "dup_cs")
  /\ loc' = [loc EXCEPT ![t].f = loc[t].at]
  /\ UNCHANGED <<life, fgrp, grp, chan, nops, torn, pipe>>

(* The channel replaces what the descriptor had, which is then closed; a   *)
(* descriptor out of range is refused.                                     *)
DupInstall(t) ==
  /\ Locked(t, "dup_cs")
  /\ LET f  == loc[t].f
         to == loc[t].to
         g  == growfd(grp[f], to)
         oc == g.fd[to]
     IN  \/ /\ CanGrow(grp[f], to)
            /\ grp' = [grp EXCEPT ![f] = Put(g, to, Own(t))]
            /\ loc' = [loc EXCEPT ![t].own = IF oc = 0 THEN <<>> ELSE <<oc>>]
         \/ ~CanGrow(grp[f], to) /\ UNCHANGED <<grp, loc>>
  /\ Goto(t, "dup_cs", "cclose")
  /\ UNCHANGED <<life, fgrp, chan, nops, torn, pipe>>

sysclose(t) ==
  /\ \E fd \in Fds : Enter(t, "close", "fdtochan_cs", [NoLocals EXCEPT !.fd = fd])
  /\ UNCHANGED <<life, fgrp, grp, chan, torn, pipe>>

(* The loop that lowers maxfd goes down the free entries below fd. *)
Lowered(g, fd) ==
  LET run == {i \in 0..(fd - 1) : \A j \in i..(fd - 1) : g.fd[j] = 0}
  IN  IF fd = g.maxfd /\ run # {} THEN Min(run) ELSE g.maxfd

(* fdclose: another process with the same table may have been faster. *)
fdclose(t) ==
  /\ Locked(t, "fdclose_cs")
  /\ LET f == loc[t].f
         c == grp[f].fd[loc[t].fd]
     IN  /\ grp' = [grp EXCEPT ![f].fd[loc[t].fd] = 0,
                               ![f].maxfd = IF c = 0 THEN @ ELSE Lowered(grp[f], loc[t].fd)]
         /\ loc' = [loc EXCEPT ![t].own = IF c = 0 THEN <<>> ELSE <<c>>]
  /\ Goto(t, "fdclose_cs", "cclose")
  /\ UNCHANGED <<life, fgrp, chan, nops, torn, pipe>>

-----------------------------------------------------------------------------
sysread(t) ==
  /\ \E fd \in Fds : Enter(t, "read", "fdtochan_cs", [NoLocals EXCEPT !.fd = fd])
  /\ UNCHANGED <<life, fgrp, grp, chan, torn, pipe>>

(* read: the offset is looked at without a lock; 0 means a rewind. *)
ReadOffset(t) ==
  /\ LET off == chan[Own(t)].offset
     IN  Goto(t, "rd_off", IF off < 0 THEN "cclose" ELSE IF off = 0 THEN "rd_rewind" ELSE "rd_dev")
  /\ UNCHANGED <<life, fgrp, grp, chan, loc, nops, torn, pipe>>

ReadRewind(t) ==
  /\ Goto(t, "rd_rewind", "rd_dev")
  /\ chan' = [chan EXCEPT ![Own(t)].offset = 0]
  /\ UNCHANGED <<life, fgrp, grp, loc, nops, torn, pipe>>

(* The device has read one byte, none, or failed; the result is added to   *)
(* the offset whatever it is.                                              *)
ReadDone(t) ==
  /\ Goto(t, "rd_dev", "cclose")
  /\ \E nn \in {0, 1, ONERR} :
       chan' = [chan EXCEPT ![Own(t)].offset = @ + nn, ![Own(t)].count = @ + Max({nn, 0})]
  /\ UNCHANGED <<life, fgrp, grp, loc, nops, torn, pipe>>

syswrite(t) ==
  /\ \E fd \in Fds : Enter(t, "write", "fdtochan_cs", [NoLocals EXCEPT !.fd = fd, !.n = 2])
  /\ UNCHANGED <<life, fgrp, grp, chan, torn, pipe>>

(* write reserves its part of the file before the device is called. *)
WriteReserve(t) ==
  /\ Goto(t, "wr_off", IF chan[Own(t)].offset < 0 THEN "wr_err" ELSE "wr_dev")
  /\ chan' = [chan EXCEPT ![Own(t)].offset = @ + loc[t].n]
  /\ UNCHANGED <<life, fgrp, grp, loc, nops, torn, pipe>>

(* The device has written m bytes: what was reserved too much is returned. *)
WriteDone(t) ==
  /\ \/ Goto(t, "wr_dev", "wr_err") /\ UNCHANGED chan
     \/ /\ Goto(t, "wr_dev", "cclose")
        /\ \E m \in 0..loc[t].n :
             chan' = [chan EXCEPT ![Own(t)].offset = @ - (loc[t].n - m), ![Own(t)].count = @ + m]
  /\ UNCHANGED <<life, fgrp, grp, loc, nops, torn, pipe>>

(* Mutant: the error path returns nothing. *)
M_WriteError(t) ==
  /\ Goto(t, "wr_err", "cclose")
  /\ UNCHANGED <<life, fgrp, grp, chan, loc, nops, torn, pipe>>

WriteError(t) ==
  /\ Goto(t, "wr_err", "cclose")
  /\ chan' = [chan EXCEPT ![Own(t)].offset = @ - loc[t].n]
  /\ UNCHANGED <<life, fgrp, grp, loc, nops, torn, pipe>>

-----------------------------------------------------------------------------
(* The table dupfgrp makes of g: as long as it has to be. *)
Copy(g) ==
  [g EXCEPT !.ref = 1, !.nfd = ((g.maxfd + DELTAFD) \div DELTAFD) * DELTAFD,
            !.fd = [i \in Fds |-> IF i <= g.maxfd THEN g.fd[i] ELSE 0]]

(* incref of every channel that is copied. *)
Shared(cs, g) ==
  [c \in DOMAIN cs |-> [cs[c] EXCEPT !.ref = @ + Cardinality({i \in 0..g.maxfd : g.fd[i] = c})]]

(* dupfgrp: the new table is the last one. *)
dupfgrp(f, flag) ==
  IF flag = "RFFDG" THEN grp' = Append(grp, Copy(grp[f])) /\ chan' = Shared(chan, grp[f])
  ELSE grp' = Append(grp, Empty) /\ UNCHANGED chan

Flags == {"RFFDG", "RFCFDG", "share"}

(* rfork(RFPROC): the child gets a copy, an empty table, or the same one. *)
sysrfork(t) ==
  /\ \E flag \in Flags : Enter(t, "rfork", "fork_cs", [NoLocals EXCEPT !.flag = flag])
  /\ UNCHANGED <<life, fgrp, grp, chan, torn, pipe>>

(* Mutant: a shared table is not counted. *)
M_Fork(t) ==
  /\ Locked(t, "fork_cs")
  /\ \E q \in Procs :
       /\ life[q] = "new"
       /\ life' = [life EXCEPT ![q] = "alive"]
       /\ \/ loc[t].flag = "share" /\ fgrp' = [fgrp EXCEPT ![q] = loc[t].f] /\ UNCHANGED <<grp, chan>>
          \/ /\ loc[t].flag # "share" /\ fgrp' = [fgrp EXCEPT ![q] = Len(grp) + 1]
             /\ dupfgrp(loc[t].f, loc[t].flag)
  /\ Return(t, "fork_cs") /\ UNCHANGED <<nops, torn, pipe>>

Fork(t) ==
  /\ Locked(t, "fork_cs")
  /\ \E q \in Procs :
       /\ life[q] = "new"
       /\ life' = [life EXCEPT ![q] = "alive"]
       /\ \/ /\ loc[t].flag = "share" /\ fgrp' = [fgrp EXCEPT ![q] = loc[t].f]
             /\ grp' = [grp EXCEPT ![loc[t].f].ref = @ + 1] /\ UNCHANGED chan
          \/ /\ loc[t].flag # "share" /\ fgrp' = [fgrp EXCEPT ![q] = Len(grp) + 1]
             /\ dupfgrp(loc[t].f, loc[t].flag)
  /\ Return(t, "fork_cs") /\ UNCHANGED <<nops, torn, pipe>>

(* rfork without RFPROC: the process itself changes to the new table and   *)
(* closes the old one.                                                     *)
SelfFork(t) ==
  /\ \E flag \in Flags \ {"share"} : Enter(t, "rforkself", "self_cs", [NoLocals EXCEPT !.flag = flag])
  /\ UNCHANGED <<life, fgrp, grp, chan, torn, pipe>>

Tear(t) ==
  torn' = (torn \/ \E u \in Threads \ {t} : ProcOf[u] = ProcOf[t] /\ pc[u] # "out")

SelfCopy(t) ==
  /\ Locked(t, "self_cs") /\ Goto(t, "self_cs", "closefgrp")
  /\ dupfgrp(loc[t].f, loc[t].flag)
  /\ fgrp' = [fgrp EXCEPT ![ProcOf[t]] = Len(grp) + 1]
  /\ Tear(t) /\ UNCHANGED <<life, loc, nops, pipe>>

(* pexit takes the table from the process and closes it. *)
sysexits(t) ==
  /\ Enter(t, "exits", "closefgrp", NoLocals)
  /\ life' = [life EXCEPT ![ProcOf[t]] = "dead"]
  /\ fgrp' = [fgrp EXCEPT ![ProcOf[t]] = 0]
  /\ Tear(t) /\ UNCHANGED <<grp, chan, pipe>>

(* closefgrp: with the last reference every channel is closed.  A call     *)
(* begins with a table, so the test for nil is never true here.            *)
closefgrp(t) ==
  LET f == loc[t].f
  IN  /\ pc[t] = "closefgrp"
      /\ \/ /\ grp[f].ref # 1
            /\ grp' = [grp EXCEPT ![f].ref = @ - 1]
            /\ Return(t, "closefgrp")
         \/ /\ grp[f].ref = 1
            /\ grp' = [grp EXCEPT ![f].ref = 0]
            /\ Goto(t, "closefgrp", "closeall") /\ UNCHANGED loc
      /\ UNCHANGED <<life, fgrp, chan, nops, torn, pipe>>

(* Its loop, entry by entry up to maxfd, and then the table is freed. *)
CloseEntry(t) ==
  LET f == loc[t].f
      i == loc[t].fd
      c == grp[f].fd[i]
  IN  /\ pc[t] = "closeall"
      /\ \/ /\ i <= grp[f].maxfd
            /\ grp' = [grp EXCEPT ![f].fd[i] = 0]
            /\ IF c = 0 THEN UNCHANGED <<chan, pipe>> ELSE decref(c)
            /\ loc' = [loc EXCEPT ![t].fd = i + 1]
            /\ UNCHANGED pc
         \/ /\ i > grp[f].maxfd
            /\ grp' = [grp EXCEPT ![f].freed = TRUE]
            /\ Return(t, "closeall") /\ UNCHANGED <<chan, pipe>>
      /\ UNCHANGED <<life, fgrp, nops, torn>>

-----------------------------------------------------------------------------
Loads(t) ==
  Load(t, "newfd", "newfd_cs") \/ Load(t, "fdtochan", "fdtochan_cs") \/ Load(t, "fdclose", "fdclose_cs")

Call(t) ==
  \/ sysopen(t) \/ pipewalk(t) \/ syspipe(t) \/ sysdup(t) \/ sysclose(t) \/ sysread(t) \/ syswrite(t)
  \/ sysrfork(t) \/ SelfFork(t) \/ sysexits(t)

Run(t) ==
  \/ Loads(t) \/ Nilref(t)
  \/ newfd(t) \/ newfd2(t) \/ fdtochan(t) \/ cclose(t)
  \/ pipeopen(t) \/ DupWhere(t) \/ DupInstall(t) \/ fdclose(t)
  \/ ReadOffset(t) \/ ReadRewind(t) \/ ReadDone(t)
  \/ WriteReserve(t) \/ WriteDone(t) \/ WriteError(t)
  \/ Fork(t) \/ SelfCopy(t) \/ closefgrp(t) \/ CloseEntry(t)

Next == \E t \in Threads : Call(t) \/ Run(t)

Spec == Init /\ [][Next]_vars

-----------------------------------------------------------------------------
Calls   == {"none", "open", "pipe", "dup", "close", "read", "write", "rfork", "rforkself", "exits"}
Places  ==
  Sections \cup {"out", "nilref", "newfd", "fdtochan", "cclose", "pipeopen", "dup", "fdclose", "rd_off",
                "rd_rewind", "rd_dev", "wr_off", "wr_dev", "wr_err", "closefgrp", "closeall"}
Live    == {g \in DOMAIN grp : ~grp[g].freed}

(* Type invariant. *)
TypeOK ==
  /\ life \in [Procs -> {"new", "alive", "dead"}]
  /\ fgrp \in [Procs -> 0..Len(grp)]
  /\ \A g \in DOMAIN grp :
       /\ grp[g].fd \in [Fds -> 0..Len(chan)]
       /\ grp[g].nfd \in 1..(MaxNfd + DELTAFD - 1) /\ grp[g].maxfd \in Fds
  /\ \A c \in DOMAIN chan : chan[c].mode \in Modes /\ chan[c].ref \in Int /\ chan[c].offset \in Int
  /\ pc \in [Threads -> Places]
  /\ \A t \in Threads : loc[t].op \in Calls /\ loc[t].own \in Seq(DOMAIN chan)
  /\ torn \in BOOLEAN

(* portdat.h:529 calls maxfd the "highest fd in use".  It may be higher,   *)
(* but dupfgrp copies and closefgrp closes only up to it: no descriptor in *)
(* use is above, and none is outside of the table.                         *)
MaxfdCovers ==
  \A g \in DOMAIN grp :
    /\ grp[g].maxfd < grp[g].nfd
    /\ \A i \in Fds : grp[g].fd[i] # 0 => i <= grp[g].maxfd

(* A table has one reference for each process that has it and for each     *)
(* call that is about to drop it, and is freed with the last.              *)
GrpRefsExact ==
  \A g \in DOMAIN grp :
    /\ grp[g].ref = Cardinality({p \in Procs : fgrp[p] = g})
                     + Cardinality({t \in Threads : pc[t] = "closefgrp" /\ loc[t].f = g})
    /\ grp[g].freed => grp[g].ref = 0

(* A channel has one reference for each descriptor in a table and for each *)
(* call that uses it: cclose never meets a closed channel (its panic), and *)
(* no channel stays open that nobody can reach.                            *)
ChanRefsExact ==
  \A c \in DOMAIN chan :
    chan[c].ref = MapThenSumSet(LAMBDA g : Cardinality({i \in Fds : grp[g].fd[i] = c}), Live)
                  + MapThenSumSet(LAMBDA t : Cardinality({i \in DOMAIN loc[t].own : loc[t].own[i] = c}), Threads)

(* A pipe and each of its ends count the channels that are left, through   *)
(* dup, rfork and exits (pipewalk, pipeopen, pipeclose).  A pipe whose ends*)
(* are both closed is as new; one that has no name is hung up just when    *)
(* nobody has the other end any more.                                      *)
Ends(p, e) == {c \in DOMAIN chan : chan[c].ref > 0 /\ chan[c].of = p /\ chan[c].end = e}
PipeRefsExact ==
  \A p \in DOMAIN pipe :
    /\ pipe[p].ref = Cardinality(Ends(p, 1) \cup Ends(p, 2)) + (IF pipe[p].bound THEN 1 ELSE 0)
    /\ \A e \in {1, 2} : pipe[p].qref[e] = Cardinality({c \in Ends(p, e) : chan[c].open})
    /\ ~pipe[p].bound => (TRUE \in ToSet(pipe[p].shut)) = (Cardinality(ToSet(pipe[p].qref)) = 2)
    /\ pipe[p].qref = <<0, 0>> => pipe[p].shut = <<FALSE, FALSE>>

(* What open, pipe, dup, close, rfork and exits of processes that share    *)
(* tables, channels and pipes keep, as long as no process drops its table  *)
(* under another of its own threads.                                       *)
FgrpInv == TypeOK /\ (~torn => MaxfdCovers /\ GrpRefsExact /\ ChanRefsExact /\ PipeRefsExact)

(* Sharing a table between processes is safe: only a thread whose own      *)
(* process has dropped its table under it meets a table that is freed, nil *)
(* or too short.                                                           *)
TableStays == \A t \in Threads : pc[t] = "nilref" => torn

(* The offset of a channel is the number of bytes transferred on it and of *)
(* those that the writes in progress have reserved.                        *)
OffsetCounts(c) ==
  chan[c].offset = chan[c].count + MapThenSumSet(LAMBDA t : loc[t].n,
    {t \in Threads : pc[t] \in {"wr_dev", "wr_err"} /\ loc[t].own = <<c>>})

(* sysfile-l4.c write: whatever short and failing writes of several        *)
(* processes overlap, the offset of a channel open for writing is exact.   *)
WriteOffsetExact == \A c \in DOMAIN chan : chan[c].mode = "OWRITE" => OffsetCounts(c)

(* sysfile-l4.c:992 says the same of every channel: "The number of bytes   *)
(* read on this fd (c->offset)".  It is not so with a failed read, or with *)
(* two reads at offset 0.                                                  *)
OffsetExact == \A c \in DOMAIN chan : OffsetCounts(c)
=============================================================================
