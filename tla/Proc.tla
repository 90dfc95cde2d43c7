-------------------------------- MODULE Proc --------------------------------
(***************************************************************************)
(* Process creation, exit and wait in the LP49 kernel (port/proc-l4.c:     *)
(* newproc, pexit, pwait, sleep, wakeup, pidhash, pidunhash; sysrfork and  *)
(* sysspawn of port/sysproc-l4.c).                                         *)
(*                                                                         *)
(* A thread <<p, k>> is thread k of the process in slot p of procalloc.pcb *)
(* together with the clerk that carries out its system call; thread 1 is   *)
(* the main thread.  exl is a spin lock: a section under it is one step,   *)
(* except where pexit keeps it during a wakeup.  wakeup loads and clears   *)
(* r->p in one step here: exl keeps other wakers out, and the sleeper that *)
(* stored r->p does not run before it is sent to.                          *)
(*                                                                         *)
(* Left out: the groups a process refers to (closed at the start of pexit),*)
(* times, texts, debuggers and notes.                                      *)
(***************************************************************************)
EXTENDS Lists, FiniteSets

CONSTANTS NProc,      \* slots of procalloc.pcb
          NCore,      \* the first slots hold the processes made by coreproc_setup
          Threads,    \* the threads of the process in each slot
          MaxWait,    \* the 128 of pexit
          HtSize,     \* nelem(procalloc.ht)
          Calls,      \* the system calls made
          NoThread

ASSUME ProcAssumption ==
  /\ NProc \in Nat /\ NCore \in 1..NProc
  /\ Threads \subseteq (1..NProc) \X Nat /\ \A p \in 1..NProc : <<p, 1>> \in Threads
  /\ MaxWait \in Nat \ {0}
  /\ HtSize \in Nat /\ NCore < HtSize   \* 4 and 128
  /\ NoThread \notin Threads

Pcbs   == 1..NProc
Pcb(t) == t[1]

VARIABLES
  free,     \* procalloc.free, linked through qnext
  pcb,      \* the fields of each Proc below
  ht,       \* procalloc.ht
  pidalloc, \* the last pid given out
  pc,       \* where each thread is; "none" does not exist, "user" runs the program
  loc,      \* the locals of each call: the child, the thread to send to
  reaped    \* what pwait has returned: <<pid of the parent, pid of the child>>, ...

vars == <<free, pcb, ht, pidalloc, pc, loc, reaped>>

(* waitq is the list of wait records, newest first; exl and qwaitr are the *)
(* two locks.  was keeps the pid for the properties when pexit clears it.  *)
NewPcb(pid) ==
  [pid |-> pid, was |-> pid, parent |-> 0, parentpid |-> 0, nchild |-> 0, nwait |-> 0,
   waitq |-> <<>>, waitr |-> NoThread, exl |-> 0, qwaitr |-> FALSE, thread |-> TRUE,
   moribund |-> FALSE]

clear_pcb == NewPcb(0)

NoLocals == [child |-> 0, nowait |-> FALSE, whom |-> NoThread, cont |-> "user"]

(* procinit0 and one coreproc_setup for each core process. *)
Init ==
  /\ free = [i \in 1..(NProc - NCore) |-> NCore + i]
  /\ pcb = [p \in Pcbs |-> IF p <= NCore THEN NewPcb(p) ELSE clear_pcb]
  /\ ht = [h \in 0..(HtSize - 1) |-> IF h \in 1..NCore THEN <<h>> ELSE <<>>]
  /\ pidalloc = NCore
  /\ pc = [t \in Threads |-> IF Pcb(t) <= NCore THEN "user" ELSE "none"]
  /\ loc = [t \in Threads |-> NoLocals]
  /\ reaped = <<>>

-----------------------------------------------------------------------------
Goto(t, to) ==
  /\ pc' = [pc EXCEPT ![t] = to]
  /\ loc' = [loc EXCEPT ![t] = IF to = "user" THEN NoLocals ELSE @]

Step(t, from, to) == pc[t] = from /\ Goto(t, to)

(* A system call by a thread whose process is not yet taken down. *)
Call(t, op, to) == op \in Calls /\ pcb[Pcb(t)].thread /\ Step(t, "user", to)

pidhash(p, pid) ==
  ht' = [ht EXCEPT ![pid % HtSize] = <<p>> \o @]

pidunhash(p) ==
  ht' = [ht EXCEPT ![pcb[p].pid % HtSize] = Unlink(@, p)]

(* The slot of the process with this pid, -1 when there is none. *)
procindex(pid) ==
  LET chain == ht[pid % HtSize]
      hit   == {i \in DOMAIN chain : pcb[chain[i]].pid = pid}
  IN  IF hit = {} THEN -1 ELSE chain[CHOOSE i \in hit : \A j \in hit : i <= j]

(* Mutant: r->p is not cleared. *)
M_Wakeup(t, p, cont) ==
  IF pcb[p].waitr = NoThread
  THEN Goto(t, cont) /\ UNCHANGED pcb
  ELSE /\ pc' = [pc EXCEPT ![t] = "send"]
       /\ loc' = [loc EXCEPT ![t].whom = pcb[p].waitr, ![t].cont = cont]
       /\ UNCHANGED pcb

(* wakeup(&p->waitr) by t, which then goes on at cont. *)
Wakeup(t, p, cont) ==
  IF pcb[p].waitr = NoThread
  THEN Goto(t, cont) /\ UNCHANGED pcb
  ELSE /\ pcb' = [pcb EXCEPT ![p].waitr = NoThread]
       /\ pc' = [pc EXCEPT ![t] = "send"]
       /\ loc' = [loc EXCEPT ![t].whom = pcb[p].waitr, ![t].cont = cont]

(* L4 IPC: the L4_Send of wakeup meets the L4_Wait of sleep. *)
L4Rendezvous(t) ==
  /\ pc[t] = "send"
  /\ pc[loc[t].whom] = "wt_sleep"
  /\ pc' = [pc EXCEPT ![t] = loc[t].cont, ![loc[t].whom] = "wt_take"]
  /\ UNCHANGED <<free, pcb, ht, pidalloc, loc, reaped>>

-----------------------------------------------------------------------------
(* sysrfork with RFPROC, and sysspawn. *)
CallFork(t) ==
  \/ /\ \/ Call(t, "rfork", "fk_new")
        \/ Call(t, "spawn", "sp_new")
     /\ UNCHANGED <<free, pcb, ht, pidalloc, reaped>>
  \/ /\ "rforkNowait" \in Calls /\ pc[t] = "user" /\ pcb[Pcb(t)].thread
     /\ pc' = [pc EXCEPT ![t] = "fk_new"]
     /\ loc' = [loc EXCEPT ![t].nowait = TRUE]
     /\ UNCHANGED <<free, pcb, ht, pidalloc, reaped>>

Hash == [fk_new |-> "fk_hash", sp_new |-> "sp_hash",
         fk_hash |-> "fk_link", sp_hash |-> "sp_link",
         fk_link |-> "fk_start", sp_link |-> "sp_start"]

(* newproc: unhook a slot.  With none left the caller stays here: it       *)
(* sleeps for a while (resrcwait) and looks again.                         *)
NewprocTake(t) ==
  /\ pc[t] \in {"fk_new", "sp_new"}
  /\ free # <<>>
  /\ free' = Tail(free)
  /\ pc' = [pc EXCEPT ![t] = Hash[@]]
  /\ loc' = [loc EXCEPT ![t].child = Head(free)]
  /\ UNCHANGED <<pcb, ht, pidalloc, reaped>>

(* ... clear it, give it a pid and hash it. *)
NewprocHash(t) ==
  /\ pc[t] \in {"fk_hash", "sp_hash"}
  /\ pidalloc' = pidalloc + 1
  /\ pcb' = [pcb EXCEPT ![loc[t].child] = NewPcb(pidalloc + 1)]
  /\ pidhash(loc[t].child, pidalloc + 1)
  /\ pc' = [pc EXCEPT ![t] = Hash[@]]
  /\ UNCHANGED <<free, loc, reaped>>

(* The child gets its parent and is counted, unless RFNOWAIT is given.     *)
(* parentpid is stored before exl is taken; the two are one step here, as  *)
(* only the child reads parentpid and it is not started yet.               *)
Link(t) ==
  /\ pc[t] \in {"fk_link", "sp_link"}
  /\ loc[t].nowait \/ pcb[Pcb(t)].exl = 0
  /\ LET p == Pcb(t)
     IN pcb' = [pcb EXCEPT ![loc[t].child].parent = p,
                           ![loc[t].child].parentpid = IF loc[t].nowait THEN 0 ELSE pcb[p].pid,
                           ![p].nchild = IF loc[t].nowait THEN @ ELSE @ + 1]
  /\ pc' = [pc EXCEPT ![t] = Hash[@]]
  /\ UNCHANGED <<free, ht, pidalloc, loc, reaped>>

(* mx-pager starts the child. *)
Start(t) ==
  /\ pc[t] \in {"fk_start", "sp_start"}
  /\ pc' = [u \in Threads |-> IF u = t \/ Pcb(u) = loc[t].child THEN "user" ELSE pc[u]]
  /\ loc' = [loc EXCEPT ![t] = NoLocals]
  /\ UNCHANGED <<free, pcb, ht, pidalloc, reaped>>

(* sysspawn: start_prog does not find or load the program and ONERR is     *)
(* returned; the new process stays as it is.                               *)
SpawnFails(t) ==
  /\ Step(t, "sp_start", "user")
  /\ UNCHANGED <<free, pcb, ht, pidalloc, reaped>>

-----------------------------------------------------------------------------
(* pexit: the groups are closed; a process without a parent panics.  Only  *)
(* the main thread of a program calls exits.                               *)
Pexit(t) ==
  /\ t = <<Pcb(t), 1>>
  /\ Call(t, "exits", IF pcb[Pcb(t)].parent = 0 THEN "panic" ELSE "ex_record")
  /\ UNCHANGED <<free, pcb, ht, pidalloc, reaped>>

(* The test under p->exl (nothing in LP49 makes a process Broken). *)
LeavesRecord(p) ==
  LET q == pcb[p].parent
  IN  pcb[q].pid = pcb[p].parentpid /\ pcb[q].nwait < MaxWait

(* Mutant: the record is counted and not queued. *)
M_Record(t) ==
  LET p == Pcb(t)
      q == pcb[p].parent
  IN  /\ pc[t] = "ex_record"
      /\ pcb[q].exl = 0
      /\ IF LeavesRecord(p)
         THEN /\ pcb' = [pcb EXCEPT ![q].nchild = @ - 1,
                                    ![q].nwait = @ + 1, ![q].exl = 1]
              /\ Goto(t, "ex_wake")
         ELSE Goto(t, "ex_kill") /\ UNCHANGED pcb
      /\ UNCHANGED <<free, ht, pidalloc, reaped>>

(* Leave a wait record with the parent, keeping p->exl for the wakeup, or  *)
(* do not.                                                                 *)
Record(t) ==
  LET p == Pcb(t)
      q == pcb[p].parent
  IN  /\ pc[t] = "ex_record"
      /\ pcb[q].exl = 0
      /\ IF LeavesRecord(p)
         THEN /\ pcb' = [pcb EXCEPT ![q].nchild = @ - 1,
                                    ![q].waitq = <<pcb[p].pid>> \o @,
                                    ![q].nwait = @ + 1,
                                    ![q].exl = 1]
              /\ Goto(t, "ex_wake")
         ELSE Goto(t, "ex_kill") /\ UNCHANGED pcb
      /\ UNCHANGED <<free, ht, pidalloc, reaped>>

RecordWake(t) ==
  /\ pc[t] = "ex_wake"
  /\ Wakeup(t, pcb[Pcb(t)].parent, "ex_unlock")
  /\ UNCHANGED <<free, ht, pidalloc, reaped>>

(* Mutant: exl of the parent is kept. *)
M_RecordUnlock(t) ==
  /\ Step(t, "ex_unlock", "ex_kill")
  /\ UNCHANGED <<free, pcb, ht, pidalloc, reaped>>

RecordUnlock(t) ==
  /\ Step(t, "ex_unlock", "ex_kill")
  /\ pcb' = [pcb EXCEPT ![pcb[Pcb(t)].parent].exl = 0]
  /\ UNCHANGED <<free, ht, pidalloc, reaped>>

(* The main thread and the memory of the process go. *)
Kill(t) ==
  /\ Step(t, "ex_kill", "ex_unhash")
  /\ pcb' = [pcb EXCEPT ![Pcb(t)].thread = FALSE]
  /\ UNCHANGED <<free, ht, pidalloc, reaped>>

(* lock(&up->exl): "Prevent my children from leaving waits". *)
Unhash(t) ==
  /\ Step(t, "ex_unhash", "ex_lastwake")
  /\ pcb[Pcb(t)].exl = 0
  /\ pidunhash(Pcb(t))
  /\ pcb' = [pcb EXCEPT ![Pcb(t)].pid = 0, ![Pcb(t)].exl = 1]
  /\ UNCHANGED <<free, pidalloc, reaped>>

LastWake(t) ==
  /\ pc[t] = "ex_lastwake"
  /\ Wakeup(t, Pcb(t), "ex_lastunlock")
  /\ UNCHANGED <<free, ht, pidalloc, reaped>>

LastUnlock(t) ==
  /\ Step(t, "ex_lastunlock", "ex_free")
  /\ pcb' = [pcb EXCEPT ![Pcb(t)].exl = 0]
  /\ UNCHANGED <<free, ht, pidalloc, reaped>>

(* The uncollected records are freed and stay on the list.  The slot is    *)
(* not given back: only late children and threads in pwait look at it.     *)
FreeRecords(t) ==
  /\ Step(t, "ex_free", "none")
  /\ pcb' = [pcb EXCEPT ![Pcb(t)].moribund = TRUE]
  /\ UNCHANGED <<free, ht, pidalloc, reaped>>

-----------------------------------------------------------------------------
(* pwait: only one thread of a process at a time, the others get -1. *)
Pwait(t) ==
  LET p == Pcb(t)
  IN  /\ IF pcb[p].qwaitr
         THEN Call(t, "await", "user") /\ UNCHANGED pcb
         ELSE Call(t, "await", "wt_any") /\ pcb' = [pcb EXCEPT ![p].qwaitr = TRUE]
      /\ UNCHANGED <<free, ht, pidalloc, reaped>>

(* No children and no records: -1. *)
AnyChild(t) ==
  LET p == Pcb(t)
  IN  /\ pcb[p].exl = 0
      /\ IF pcb[p].nchild = 0 /\ pcb[p].waitq = <<>>
         THEN Step(t, "wt_any", "user") /\ pcb' = [pcb EXCEPT ![p].qwaitr = FALSE]
         ELSE Step(t, "wt_any", "wt_test") /\ UNCHANGED pcb
      /\ UNCHANGED <<free, ht, pidalloc, reaped>>

(* Mutant: sleep returns whatever the condition says. *)
M_SleepTest(t) ==
  /\ Step(t, "wt_test", "wt_take")
  /\ UNCHANGED <<free, pcb, ht, pidalloc, reaped>>

(* sleep: test haswaitq; store r->p and wait. *)
SleepTest(t) ==
  /\ Step(t, "wt_test", IF pcb[Pcb(t)].waitq # <<>> THEN "wt_take" ELSE "wt_store")
  /\ UNCHANGED <<free, pcb, ht, pidalloc, reaped>>

SleepStore(t) ==
  /\ Step(t, "wt_store", "wt_sleep")
  /\ pcb' = [pcb EXCEPT ![Pcb(t)].waitr = t]
  /\ UNCHANGED <<free, ht, pidalloc, reaped>>

(* Mutant: the record stays on the list. *)
M_TakeRecord(t) ==
  LET p == Pcb(t)
  IN  /\ pcb[p].exl = 0
      /\ IF pcb[p].waitq = <<>>
         THEN Step(t, "wt_take", "nilref") /\ UNCHANGED <<pcb, reaped>>
         ELSE /\ Step(t, "wt_take", "user")
              /\ pcb' = [pcb EXCEPT ![p].nwait = @ - 1, ![p].qwaitr = FALSE]
              /\ reaped' = Append(reaped, <<pcb[p].was, Head(pcb[p].waitq)>>)
      /\ UNCHANGED <<free, ht, pidalloc>>

(* The newest record is taken and returned.  Without one the code follows  *)
(* a nil pointer, and after FreeRecords perhaps one to freed memory.       *)
TakeRecord(t) ==
  LET p == Pcb(t)
  IN  /\ pcb[p].exl = 0
      /\ \/ /\ pcb[p].waitq = <<>> \/ pcb[p].moribund
            /\ Step(t, "wt_take", "nilref")
            /\ UNCHANGED <<pcb, reaped>>
         \/ /\ pcb[p].waitq # <<>>
            /\ Step(t, "wt_take", "user")
            /\ pcb' = [pcb EXCEPT ![p].waitq = Tail(@), ![p].nwait = @ - 1,
                                  ![p].qwaitr = FALSE]
            /\ reaped' = Append(reaped, <<pcb[p].was, Head(pcb[p].waitq)>>)
      /\ UNCHANGED <<free, ht, pidalloc>>

-----------------------------------------------------------------------------
Run(t) ==
  \/ NewprocTake(t) \/ NewprocHash(t) \/ Link(t) \/ Start(t) \/ SpawnFails(t)
  \/ Record(t) \/ RecordWake(t) \/ RecordUnlock(t) \/ Kill(t)
  \/ Unhash(t) \/ LastWake(t) \/ LastUnlock(t) \/ FreeRecords(t)
  \/ AnyChild(t) \/ SleepTest(t) \/ SleepStore(t) \/ TakeRecord(t)
  \/ L4Rendezvous(t)

Next == \E t \in Threads : CallFork(t) \/ Pexit(t) \/ Pwait(t) \/ Run(t)

Spec == Init /\ [][Next]_vars

(* A call in the kernel goes on, and every process but the core ones exits *)
(* some day.                                                               *)
FairSpec ==
  /\ Spec
  /\ \A t \in Threads : WF_vars(Run(t)) /\ WF_vars(pcb[Pcb(t)].parent # 0 /\ Pexit(t))

-----------------------------------------------------------------------------
Places ==
  {"none", "user", "send", "panic", "nilref", "fk_new", "sp_new", "fk_hash", "sp_hash",
   "fk_link", "sp_link", "fk_start", "sp_start", "ex_record", "ex_wake", "ex_unlock",
   "ex_kill", "ex_unhash", "ex_lastwake", "ex_lastunlock", "ex_free",
   "wt_any", "wt_test", "wt_store", "wt_sleep", "wt_take"}

(* Type invariant. *)
TypeOK ==
  /\ free \in Seq(Pcbs)
  /\ \A p \in Pcbs :
       /\ {pcb[p].pid, pcb[p].was, pcb[p].parentpid} \subseteq 0..pidalloc
       /\ pcb[p].parent \in 0..NProc
       /\ pcb[p].nchild \in (-NProc)..NProc /\ pcb[p].nwait \in 0..MaxWait
       /\ pcb[p].waitr \in Threads \cup {NoThread}
       /\ pcb[p].exl \in {0, 1} /\ pcb[p].qwaitr \in BOOLEAN
  /\ pidalloc \in NCore..NProc
  /\ pc \in [Threads -> Places]

(* A process that is started or about to be, and not yet past the point    *)
(* where pexit leaves the record; the children p has to wait for.          *)
Leaving == {"ex_wake", "ex_unlock", "ex_kill", "ex_unhash", "ex_lastwake", "ex_lastunlock", "ex_free"}
Living(c) ==
  \/ /\ pc[<<c, 1>>] \notin Leaving \cup {"none"}
     /\ pc[<<c, 1>>] = "send" => loc[<<c, 1>>].cont \notin Leaving
  \/ \E t \in Threads : pc[t] \in {"fk_start", "sp_start"} /\ loc[t].child = c
Children(p) == {c \in Pcbs : pcb[c].parent = p /\ pcb[c].parentpid # 0 /\ Living(c)}

(* portdat.h:686 says nchild is the "Number of living children": pwait     *)
(* takes it for that when it decides whether there is anything to wait for.*)
NchildExact == \A p \in Pcbs : pcb[p].pid # 0 => pcb[p].nchild = Cardinality(Children(p))

(* pwait says "no children" only to a process that has none: nchild never  *)
(* counts less than the living children, whatever spawns fail, children    *)
(* are forked with RFNOWAIT, or exit when there are too many records.      *)
NchildCovers == \A p \in Pcbs : pcb[p].pid # 0 => pcb[p].nchild >= Cardinality(Children(p))

(* portdat.h:687: nwait is the "Number of uncollected wait records".  It   *)
(* keeps pexit from piling up records.                                     *)
NwaitExact == \A p \in Pcbs : pcb[p].nwait = Len(pcb[p].waitq)

(* pwait returns every child at most once, only to the process that made   *)
(* it, and only when it has exited.                                        *)
ReapedRightly ==
  /\ \A i, j \in DOMAIN reaped : reaped[i] = reaped[j] => i = j
  /\ \A i \in DOMAIN reaped : \E c \in Pcbs :
       /\ pcb[c].was = reaped[i][2]
       /\ pcb[c].parent # 0 /\ pcb[pcb[c].parent].was = reaped[i][1]
       /\ ~Living(c)

(* A thread in pwait that found children or records does not come back     *)
(* from sleep to an empty list, unless its process is exiting: the last    *)
(* wakeup of pexit does send it there.                                     *)
NoNilref == \A t \in Threads : pc[t] = "nilref" => pcb[Pcb(t)].pid = 0

(* wakeup names a thread that is in its L4_Wait: no exit is held up in     *)
(* L4_Send, with the exl of the parent in its hands.                       *)
SendsMeet == \A t \in Threads : pc[t] = "send" => pc[loc[t].whom] = "wt_sleep"

(* The hash table holds exactly the processes that have a pid, each where  *)
(* procindex finds it.                                                     *)
HashExact ==
  /\ \A p \in Pcbs : pcb[p].pid # 0 => procindex(pcb[p].pid) = p
  /\ \A h \in DOMAIN ht : \A i \in DOMAIN ht[h] : pcb[ht[h][i]].pid # 0

(* What fork, spawn, exit and wait keep about processes: the counts of     *)
(* children and records, and the table of pids.                            *)
ProcInv == TypeOK /\ NchildCovers /\ NwaitExact /\ HashExact

(* proc-l4.c:460: "If my parent is no longer alive ... then don't leave a  *)
(* wait record behind."                                                    *)
OrphanLeavesNothing ==
  [][\A p \in Pcbs : pcb[p].was # 0 /\ pcb[p].pid = 0 =>
                        Len(pcb'[p].waitq) <= Len(pcb[p].waitq)]_vars

(* doc/Process/proc.c:726: "Another process will awaken us after it sets   *)
(* the condition": a parent does not sleep on with a record on its list.   *)
WaiterAwakened ==
  \A t \in Threads :
    (pc[t] = "wt_sleep" /\ pcb[Pcb(t)].waitq # <<>>) ~> pc[t] # "wt_sleep"

(* A process that exits comes to the end of pexit: the spin locks exl it   *)
(* takes and the threads it sends to do not hold it up for ever.           *)
ExitEnds == \A t \in Threads : pc[t] = "ex_record" ~> pc[t] = "none"

-----------------------------------------------------------------------------
(* The inductive invariant behind ProcInv, ReapedRightly, NoNilref and     *)
(* SendsMeet.                                                              *)

(* Where t is, or goes on after its L4_Send. *)
At(t) == IF pc[t] = "send" THEN loc[t].cont ELSE pc[t]

New       == {"fk_hash", "sp_hash"}
Linking   == {"fk_link", "sp_link"}
Starting  == {"fk_start", "sp_start"}
Making    == New \cup Linking \cup Starting
Recording == {"ex_wake", "ex_unlock"}
Last      == {"ex_lastwake", "ex_lastunlock", "ex_free"}
Waiting   == {"wt_any", "wt_test", "wt_store", "wt_sleep", "wt_take", "nilref"}

PcbRecs == [pid : Nat, was : Nat, parent : 0..NProc, parentpid : Nat, nchild : Int, nwait : Nat,
            waitq : Seq(Nat), waitr : Threads \cup {NoThread}, exl : {0, 1}, qwaitr : BOOLEAN,
            thread : BOOLEAN, moribund : BOOLEAN]
LocRecs == [child : 0..NProc, nowait : BOOLEAN, whom : Threads \cup {NoThread}, cont : Places]

Types ==
  /\ free \in Seq(Pcbs) /\ pcb \in [Pcbs -> PcbRecs]
  /\ ht \in [0..(HtSize - 1) -> Seq(Pcbs)] /\ pidalloc \in Nat
  /\ pc \in [Threads -> Places] /\ loc \in [Threads -> LocRecs]
  /\ reaped \in Seq(Nat \X Nat)

(* A slot is on the free list, or in the hands of one newproc, or in use;  *)
(* its threads run only when it has been started.                          *)
SlotInv ==
  /\ IsInjective(free) /\ \A p \in Range(free) : pcb[p].was = 0
  /\ \A t \in Threads : pc[t] \in Making => loc[t].child \in Pcbs
  /\ \A t \in Threads : pc[t] \in New => pcb[loc[t].child].was = 0 /\ loc[t].child \notin Range(free)
  /\ \A t \in Threads : pc[t] \in Linking \cup Starting => pcb[loc[t].child].pid # 0
  /\ \A t, u \in Threads : pc[t] \in Making /\ pc[u] \in Making /\ loc[t].child = loc[u].child => t = u
  /\ \A t \in Threads : pc[t] # "none" => pcb[Pcb(t)].was # 0
  /\ \A t, u \in Threads : pc[t] # "none" /\ pc[u] \in Making => loc[u].child # Pcb(t)

(* Pids are given out once each, from 1 on. *)
PidInv ==
  /\ \A p \in Pcbs : pcb[p].pid \in {0, pcb[p].was} /\ pcb[p].was <= pidalloc
  /\ \A p, q \in Pcbs : pcb[p].was = pcb[q].was /\ pcb[p].was # 0 => p = q
  /\ \A i \in 1..pidalloc : \E p \in Pcbs : pcb[p].was = i

(* A child gets its parent when it is linked, and both are in use. *)
FamilyInv ==
  /\ \A p \in Pcbs : pcb[p].parent # 0 => pcb[p].was # 0 /\ pcb[pcb[p].parent].was # 0
  /\ \A t \in Threads : pc[t] \in Linking => pcb[loc[t].child].parent = 0
  /\ \A t \in Threads : pc[t] \in Starting => pcb[loc[t].child].parent = Pcb(t)

(* Only the main thread of a process with a parent exits; the process has  *)
(* its pid until it is unhashed.                                           *)
ExitInv ==
  /\ \A t \in Threads : At(t) \in {"panic", "ex_record"} \cup Leaving => t = <<Pcb(t), 1>>
  /\ \A t \in Threads : pc[t] = "send" => loc[t].cont \in {"ex_unlock", "ex_lastunlock"}
  /\ \A t \in Threads : At(t) \in {"ex_record"} \cup Leaving => pcb[Pcb(t)].parent # 0
  /\ \A t \in Threads : At(t) \in Last => pcb[Pcb(t)].pid = 0
  /\ \A t \in Threads : t = <<Pcb(t), 1>> /\ pc[t] # "none" /\ At(t) \notin Last => pcb[Pcb(t)].pid # 0

(* exl of q is held by a child that leaves a record, or by q's own exit. *)
Holds(t, q) ==
  \/ At(t) \in Recording /\ pcb[Pcb(t)].parent = q
  \/ At(t) \in {"ex_lastwake", "ex_lastunlock"} /\ Pcb(t) = q

ExlInv ==
  \A q \in Pcbs : /\ pcb[q].exl = 1 <=> \E t \in Threads : Holds(t, q)
                  /\ \A t, u \in Threads : Holds(t, q) /\ Holds(u, q) => t = u

(* One thread of a process at a time is in pwait; waitr names it while it  *)
(* sleeps, until a holder of exl is about to send to it.                   *)
WaitInv ==
  /\ \A t, u \in Threads : pc[t] \in Waiting /\ pc[u] \in Waiting /\ Pcb(t) = Pcb(u) => t = u
  /\ \A t \in Threads : pc[t] \in Waiting => pcb[Pcb(t)].qwaitr
  /\ \A p \in Pcbs : pcb[p].waitr # NoThread => pc[pcb[p].waitr] = "wt_sleep" /\ Pcb(pcb[p].waitr) = p
  /\ \A t \in Threads : pc[t] = "send" =>
       /\ loc[t].whom \in Threads /\ pc[loc[t].whom] = "wt_sleep"
       /\ Holds(t, Pcb(loc[t].whom)) /\ pcb[Pcb(loc[t].whom)].waitr = NoThread

(* Who wakes the parent has left a record there. *)
RecordInv ==
  /\ \A p \in Pcbs : /\ pcb[p].nwait = Len(pcb[p].waitq) /\ pcb[p].nwait <= MaxWait
                     /\ pcb[p].moribund => pcb[p].pid = 0
  /\ \A t \in Threads : At(t) \in Recording => pcb[pcb[Pcb(t)].parent].waitq # <<>>
  /\ \A t \in Threads : pc[t] = "wt_take" => pcb[Pcb(t)].waitq # <<>> \/ pcb[Pcb(t)].pid = 0
  /\ \A t \in Threads : pc[t] = "nilref" => pcb[Pcb(t)].pid = 0

(* A child that has come to the point where it leaves its record. *)
Past(c) ==
  /\ At(<<c, 1>>) \in Leaving \cup {"none"} /\ pcb[c].was # 0
  /\ \A t \in Threads : pc[t] \in Making => loc[t].child # c
Left(p, pid) == \E c \in Pcbs : pcb[c].was = pid /\ pcb[c].parent = p /\ Past(c)

(* A record is of one child, and is on the list or has been returned. *)
ReapInv ==
  /\ \A p \in Pcbs : IsInjective(pcb[p].waitq) /\ \A x \in Range(pcb[p].waitq) : Left(p, x)
  /\ \A i, j \in DOMAIN reaped : reaped[i] = reaped[j] => i = j
  /\ \A i \in DOMAIN reaped : \E p \in Pcbs :
       /\ pcb[p].was = reaped[i][1] /\ pcb[p].was # 0
       /\ Left(p, reaped[i][2]) /\ reaped[i][2] \notin Range(pcb[p].waitq)

(* nchild is between the children that are past their records, as a debt,  *)
(* and all children.                                                       *)
ChildInv ==
  /\ NchildCovers
  /\ \A p \in Pcbs : /\ pcb[p].nchild <= Cardinality({c \in Pcbs : pcb[c].parent = p})
                     /\ -pcb[p].nchild <= Cardinality({c \in Pcbs : pcb[c].parent = p /\ Past(c)})

(* parentpid is a pid that was given out. *)
BoundInv == NCore <= pidalloc /\ \A p \in Pcbs : pcb[p].parentpid <= pidalloc

HashInv ==
  /\ \A h \in 0..(HtSize - 1) :
       IsInjective(ht[h]) /\ \A q \in Range(ht[h]) : pcb[q].pid # 0 /\ pcb[q].pid % HtSize = h
  /\ \A q \in Pcbs : pcb[q].pid # 0 => q \in Range(ht[pcb[q].pid % HtSize])

IInv ==
  /\ Types /\ SlotInv /\ PidInv /\ FamilyInv /\ ExitInv /\ ExlInv /\ WaitInv
  /\ RecordInv /\ ReapInv /\ ChildInv /\ BoundInv /\ HashInv
=============================================================================
