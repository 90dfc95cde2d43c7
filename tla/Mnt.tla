-------------------------------- MODULE Mnt --------------------------------
(***************************************************************************)
(* The mount driver of LP49 (port/devmnt.c): the RPCs of many threads are  *)
(* multiplexed on one connection to a 9P file server.  mountio queues the  *)
(* request, writes it, and then lets one thread at a time read replies     *)
(* (mntrpcread) and hand them to their owners (mountmux); the others sleep *)
(* until their reply is there or the gate is free (mntgate).               *)
(*                                                                         *)
(* A Mntrpc header keeps its tag as long as it exists, so a header is      *)
(* named by its tag.  m->_lock is a spin lock, kept by mntgate during its  *)
(* wakeups; every other section under it is one step.  sleep and wakeup    *)
(* (proc-l4.c) take no lock; wakeup's two loads of r->p are one step, as   *)
(* with one reader nobody else clears it.  A message is the request        *)
(* <<thread, number>> it carries or answers; assembling messages from      *)
(* blocks is left to qio.  The server (not under src/9) answers each       *)
(* request once, in any order, may send a message that does not parse, and *)
(* may hang up.                                                            *)
(***************************************************************************)
EXTENDS Lists, FiniteSets

CONSTANTS Threads,    \* clerks that make RPCs
          ProcOf,     \* ProcOf[t]: the process t works for, "up"
          NTag,       \* number of tags in tagmask
          MaxFree,    \* the 10 of mntfree
          MaxRpc,     \* bound: RPCs made by all threads
          MaxFaults,  \* bound: hangup and bad messages of the server
          NoThread, NoProc

ASSUME MntAssumption ==
  /\ IsFiniteSet(Threads) /\ NoThread \notin Threads
  /\ NTag \in Nat /\ NTag >= Cardinality(Threads)
  /\ MaxFree \in Nat /\ MaxRpc \in Nat /\ MaxFaults \in Nat
  /\ \A t \in Threads : ProcOf[t] # NoProc

Tags == 1..NTag

VARIABLES
  rpcfree,  \* mntalloc.rpcfree
  exist,    \* the headers that exist, whose tags are set in tagmask
  hdr,      \* the Mntrpc headers: done, r.p, request and reply
  queue,    \* m->queue, newest first
  rip,      \* m->rip, the process of the reader in progress
  mlock,    \* m->_lock
  srv,      \* requests the server has and has not answered
  wire,     \* replies sent and not yet read
  hungup,   \* the connection is closed
  pc, loc,  \* where each thread is, its locals
  nrpc,     \* RPCs made so far, which number the requests
  garbled,  \* history: an RPC was given up because of a bad message,
  clash     \* a write error opened the gate another thread of the process holds

mnt  == <<rpcfree, exist, hdr, queue, rip, mlock>>
conn == <<srv, wire, hungup>>
hist == <<garbled, clash>>
vars == <<mnt, conn, pc, loc, nrpc, hist>>

None     == <<NoThread, 0>>
NoReply  == [tag |-> 0, req |-> None]
NoHdr    == [done |-> FALSE, p |-> NoThread, request |-> None, reply |-> NoReply]
NoLocals == [r |-> 0, q |-> 0, cur |-> 0, whom |-> NoThread, err |-> FALSE]

Init ==
  /\ rpcfree = <<>> /\ exist = {}
  /\ hdr = [h \in Tags |-> NoHdr]
  /\ queue = <<>> /\ rip = NoProc /\ mlock = FALSE
  /\ srv = {} /\ wire = <<>> /\ hungup = FALSE
  /\ pc = [t \in Threads |-> "out"]
  /\ loc = [t \in Threads |-> NoLocals]
  /\ nrpc = 0
  /\ garbled = FALSE /\ clash = FALSE

-----------------------------------------------------------------------------
Goto(t, to) == pc' = [pc EXCEPT ![t] = to]
Step(t, from, to) == pc[t] = from /\ Goto(t, to)
Mine(t) == hdr[loc[t].r]

Faults == (IF hungup THEN 1 ELSE 0) + (IF garbled THEN 1 ELSE 0)

(* In the loop that reads replies. *)
Reading(t) == pc[t] \in {"read", "mux", "muxwake", "wkclear", "send"}

(* mntralloc: a header of the free list, or a new one with the first tag   *)
(* that is not in use.                                                     *)
mntralloc(t) ==
  /\ nrpc < MaxRpc
  /\ Step(t, "out", "queue")
  /\ nrpc' = nrpc + 1
  /\ LET new == IF rpcfree # <<>> THEN Head(rpcfree)
                ELSE CHOOSE h \in Tags \ exist : \A g \in Tags \ exist : h <= g
     IN  /\ exist' = exist \cup {new}
         /\ rpcfree' = IF rpcfree # <<>> THEN Tail(rpcfree) ELSE <<>>
         /\ hdr' = [hdr EXCEPT ![new].done = FALSE, ![new].request = <<t, nrpc'>>,
                               ![new].reply = NoReply]
         /\ loc' = [loc EXCEPT ![t] = [NoLocals EXCEPT !.r = new]]
  /\ UNCHANGED <<queue, rip, mlock, conn, hist>>

(* mntfree: back to the free list, or free the header and its tag. *)
mntfree(t) ==
  /\ Step(t, "free", "out")
  /\ LET r == loc[t].r
     IN  IF Len(rpcfree) >= MaxFree
         THEN exist' = exist \ {r} /\ rpcfree' = rpcfree /\ hdr' = [hdr EXCEPT ![r] = NoHdr]
         ELSE exist' = exist /\ rpcfree' = <<r>> \o rpcfree
              /\ hdr' = [hdr EXCEPT ![r].request = None, ![r].reply = NoReply]
  /\ loc' = [loc EXCEPT ![t] = NoLocals]
  /\ UNCHANGED <<queue, rip, mlock, conn, nrpc, hist>>

-----------------------------------------------------------------------------
(* mountio: put the request on the queue of the connection ... *)
MountioQueue(t) ==
  /\ ~mlock
  /\ Step(t, "queue", "write")
  /\ queue' = <<loc[t].r>> \o queue
  /\ UNCHANGED <<rpcfree, exist, hdr, rip, mlock, conn, loc, nrpc, hist>>

(* ... and write it, which fails when the connection is closed. *)
MountioWrite(t) ==
  /\ pc[t] = "write"
  /\ IF hungup THEN Goto(t, "failed") /\ UNCHANGED srv
     ELSE Goto(t, "gate") /\ srv' = srv \cup {[tag |-> loc[t].r, req |-> Mine(t).request]}
  /\ UNCHANGED <<mnt, wire, hungup, loc, nrpc, hist>>

(* "Gate readers onto the mount point one at a time". *)
Gate(t) ==
  /\ ~mlock
  /\ IF rip = NoProc
     THEN Step(t, "gate", "read") /\ rip' = ProcOf[t]
     ELSE Step(t, "gate", "test1") /\ UNCHANGED rip
  /\ UNCHANGED <<rpcfree, exist, hdr, queue, mlock, conn, loc, nrpc, hist>>

(* sleep(&r->r, rpcattn, r): test r->done, then m->rip. *)
SleepTest(t) ==
  /\ \/ Step(t, "test1", IF Mine(t).done THEN "check" ELSE "test2")
     \/ Step(t, "test2", IF rip = NoProc THEN "check" ELSE "store")
  /\ UNCHANGED <<mnt, conn, loc, nrpc, hist>>

(* ... store r->p and wait. *)
SleepStore(t) ==
  /\ Step(t, "store", "sleep")
  /\ hdr' = [hdr EXCEPT ![loc[t].r].p = t]
  /\ UNCHANGED <<rpcfree, exist, queue, rip, mlock, conn, loc, nrpc, hist>>

(* Awake: the reply is there, or go to the gate again. *)
Check(t) ==
  /\ Step(t, "check", IF Mine(t).done THEN "free" ELSE "gate")
  /\ UNCHANGED <<mnt, conn, loc, nrpc, hist>>

(* while(r->done == 0): mntrpcread gets the next reply, into r, ...  Two   *)
(* readers take each other's blocks off m->q: anything may come out.       *)
ReadReply(t) ==
  /\ Step(t, "read", "mux")
  /\ ~Mine(t).done /\ wire # <<>>
  /\ wire' = Tail(wire)
  /\ \E m \in {Head(wire)} \cup
            {[tag |-> h, req |-> None] : h \in {g \in Tags : \E u \in Threads \ {t} : Reading(u)}} :
       hdr' = [hdr EXCEPT ![loc[t].r].reply = m]
  /\ UNCHANGED <<rpcfree, exist, queue, rip, mlock, srv, hungup, loc, nrpc, hist>>

(* ... or fails: the connection is closed, or the message is bad, and it   *)
(* or all that has arrived is thrown away.                                 *)
ReadFails(t) ==
  /\ Step(t, "read", "error")
  /\ ~Mine(t).done
  /\ \/ /\ wire = <<>> /\ hungup
        /\ UNCHANGED <<wire, garbled>>
     \/ /\ ~garbled /\ Faults < MaxFaults /\ garbled' = TRUE
        /\ \E n \in 1..Len(wire) : wire' = SubSeq(wire, n + 1, Len(wire))
  /\ UNCHANGED <<mnt, srv, hungup, loc, nrpc, clash>>

ReadDone(t) ==
  /\ Step(t, "read", "gateopen")
  /\ Mine(t).done
  /\ UNCHANGED <<mnt, conn, loc, nrpc, hist>>

mntrpcread(t) == ReadReply(t) \/ ReadFails(t) \/ ReadDone(t)

(* Mutant: the reply is not handed over to the owner of the tag. *)
M_mountmux(t) ==
  /\ ~mlock /\ pc[t] = "mux"
  /\ LET q == Mine(t).reply.tag
     IN  IF q \in Range(queue)
         THEN /\ queue' = Unlink(queue, q)
              /\ hdr' = [hdr EXCEPT ![q].done = TRUE]
              /\ IF q = loc[t].r THEN Goto(t, "read") /\ UNCHANGED loc
                 ELSE Goto(t, "muxwake") /\ loc' = [loc EXCEPT ![t].q = q]
         ELSE Goto(t, "read") /\ UNCHANGED <<queue, hdr, loc>>
  /\ UNCHANGED <<rpcfree, exist, rip, mlock, conn, nrpc, hist>>

(* ... and mountmux takes the request with the tag of the reply off the    *)
(* queue; when it is another's, gives it the reply and wakes its owner.    *)
mountmux(t) ==
  /\ ~mlock /\ pc[t] = "mux"
  /\ LET q == Mine(t).reply.tag
     IN  IF q \in Range(queue)
         THEN /\ queue' = Unlink(queue, q)
              /\ hdr' = [hdr EXCEPT ![q].done = TRUE, ![q].reply = Mine(t).reply]
              /\ IF q = loc[t].r THEN Goto(t, "read") /\ UNCHANGED loc
                 ELSE Goto(t, "muxwake") /\ loc' = [loc EXCEPT ![t].q = q]
         ELSE Goto(t, "read") /\ UNCHANGED <<queue, hdr, loc>>
  /\ UNCHANGED <<rpcfree, exist, rip, mlock, conn, nrpc, hist>>

(* wakeup: load r->p, clear it, send. *)
WakeLoad(t) ==
  /\ pc[t] = "muxwake"
  /\ IF hdr[loc[t].q].p = NoThread
     THEN Goto(t, "read") /\ loc' = [loc EXCEPT ![t].q = 0]
     ELSE Goto(t, "wkclear") /\ loc' = [loc EXCEPT ![t].whom = hdr[loc[t].q].p]
  /\ UNCHANGED <<mnt, conn, nrpc, hist>>

(* Mutant: r->p is not cleared. *)
M_WakeClear(t) ==
  /\ Step(t, "wkclear", "send")
  /\ UNCHANGED <<mnt, conn, loc, nrpc, hist>>

WakeClear(t) ==
  /\ Step(t, "wkclear", "send")
  /\ hdr' = [hdr EXCEPT ![loc[t].q].p = NoThread]
  /\ UNCHANGED <<rpcfree, exist, queue, rip, mlock, conn, loc, nrpc, hist>>

(* mntgate: open the gate, then wake the first sleeper of the queue, all   *)
(* under m->_lock.                                                         *)
GateOpen(t) ==
  /\ ~mlock
  /\ Step(t, "gateopen", "gatescan")
  /\ mlock' = TRUE /\ rip' = NoProc
  /\ loc' = [loc EXCEPT ![t].cur = 1]
  /\ UNCHANGED <<rpcfree, exist, hdr, queue, conn, nrpc, hist>>

GateScan(t) ==
  /\ pc[t] = "gatescan"
  /\ LET i == loc[t].cur
     IN  IF i > Len(queue) THEN Goto(t, "gateshut") /\ UNCHANGED loc
         ELSE IF hdr[queue[i]].done \/ hdr[queue[i]].p = NoThread
         THEN loc' = [loc EXCEPT ![t].cur = i + 1] /\ UNCHANGED pc
         ELSE /\ Goto(t, "gateclear")
              /\ loc' = [loc EXCEPT ![t].whom = hdr[queue[i]].p, ![t].q = queue[i]]
  /\ UNCHANGED <<mnt, conn, nrpc, hist>>

GateClear(t) ==
  /\ Step(t, "gateclear", "gatesend")
  /\ hdr' = [hdr EXCEPT ![loc[t].q].p = NoThread]
  /\ UNCHANGED <<rpcfree, exist, queue, rip, mlock, conn, loc, nrpc, hist>>

GateShut(t) ==
  /\ Step(t, "gateshut", IF loc[t].err THEN "qrm" ELSE "free")
  /\ mlock' = FALSE
  /\ loc' = [loc EXCEPT ![t].cur = 0]
  /\ UNCHANGED <<rpcfree, exist, hdr, queue, rip, conn, nrpc, hist>>

(* L4 IPC: the sender meets the receiver in the L4_Wait of its sleep. *)
L4Rendezvous(t) ==
  /\ pc[t] \in {"send", "gatesend"}
  /\ pc[loc[t].whom] = "sleep"
  /\ pc' = [pc EXCEPT ![t] = IF @ = "send" THEN "read" ELSE "gateshut",
                      ![loc[t].whom] = "check"]
  /\ loc' = [loc EXCEPT ![t].whom = NoThread, ![t].q = 0]
  /\ UNCHANGED <<mnt, conn, nrpc, hist>>

(* Mutant: the gate is left shut after an error. *)
M_Error(t) ==
  /\ Step(t, "failed", "qrm") \/ Step(t, "error", "qrm")
  /\ loc' = [loc EXCEPT ![t].err = TRUE]
  /\ UNCHANGED <<mnt, conn, nrpc, hist>>

(* _ERR_1 of mountio: open the gate if m->rip is the process, which is so  *)
(* when another thread of the process reads ...                            *)
Error(t) ==
  LET to == IF rip = ProcOf[t] THEN "gateopen" ELSE "qrm"
  IN  /\ Step(t, "failed", to) \/ Step(t, "error", to)
      /\ loc' = [loc EXCEPT ![t].err = TRUE]
      /\ clash' = (clash \/ (pc[t] = "failed" /\ rip = ProcOf[t]))
      /\ UNCHANGED <<mnt, conn, nrpc, garbled>>

(* Mutant: the request stays on the queue. *)
M_mntflushfree(t) ==
  /\ ~mlock
  /\ Step(t, "qrm", "free")
  /\ hdr' = [hdr EXCEPT ![loc[t].r].done = TRUE]
  /\ UNCHANGED <<rpcfree, exist, queue, rip, mlock, conn, loc, nrpc, hist>>

(* ... and mntflushfree: an unanswered request leaves the queue (mntqrm). *)
mntflushfree(t) ==
  /\ ~mlock
  /\ Step(t, "qrm", "free")
  /\ IF Mine(t).done THEN UNCHANGED <<hdr, queue>>
     ELSE /\ hdr' = [hdr EXCEPT ![loc[t].r].done = TRUE]
          /\ queue' = Unlink(queue, loc[t].r)
  /\ UNCHANGED <<rpcfree, exist, rip, mlock, conn, loc, nrpc, hist>>

-----------------------------------------------------------------------------
(* The server. *)
Answer ==
  /\ \E q \in srv : srv' = srv \ {q} /\ wire' = Append(wire, q)
  /\ UNCHANGED <<mnt, hungup, pc, loc, nrpc, hist>>

Hangup ==
  /\ ~hungup /\ Faults < MaxFaults
  /\ hungup' = TRUE /\ srv' = {}
  /\ UNCHANGED <<mnt, wire, pc, loc, nrpc, hist>>

Run(t) ==
  \/ MountioQueue(t) \/ MountioWrite(t) \/ Gate(t) \/ SleepTest(t) \/ SleepStore(t)
  \/ Check(t) \/ mntrpcread(t) \/ mountmux(t) \/ WakeLoad(t) \/ WakeClear(t)
  \/ GateOpen(t) \/ GateScan(t) \/ GateClear(t) \/ GateShut(t) \/ L4Rendezvous(t)
  \/ Error(t) \/ mntflushfree(t) \/ mntfree(t)

Next == Answer \/ Hangup \/ \E t \in Threads : mntralloc(t) \/ Run(t)

Spec == Init /\ [][Next]_vars

(* Clerks run on, spin locks are got (each is held for a bounded time), and*)
(* the server answers.                                                     *)
FairSpec == Spec /\ WF_vars(Answer) /\ \A t \in Threads : SF_vars(Run(t))

-----------------------------------------------------------------------------
Busy(t)    == pc[t] # "out"
Queued(t)  == ~(pc[t] \in {"out", "queue", "free"}) /\ ~Mine(t).done

(* Type invariant. *)
TypeOK ==
  LET Reqs == (Threads \X (1..MaxRpc)) \cup {None}
      Msgs == [tag : 0..NTag, req : Reqs]
  IN  /\ rpcfree \in Seq(Tags) /\ Len(rpcfree) <= MaxFree
      /\ exist \subseteq Tags
      /\ hdr \in [Tags -> [done : BOOLEAN, p : Threads \cup {NoThread}, request : Reqs, reply : Msgs]]
      /\ queue \in Seq(Tags)
      /\ rip \in {ProcOf[t] : t \in Threads} \cup {NoProc}
      /\ mlock \in BOOLEAN /\ hungup \in BOOLEAN
      /\ srv \subseteq Msgs
      /\ wire \in Seq(Msgs)
      /\ nrpc \in 0..MaxRpc
      /\ garbled \in BOOLEAN /\ clash \in BOOLEAN

(* No two RPCs in progress share a header and its tag, and none of them    *)
(* uses a header that is on the free list or freed.                        *)
TagsUnique ==
  /\ IsInjective(rpcfree) /\ Range(rpcfree) \subseteq exist
  /\ \A t \in Threads : Busy(t) =>
       /\ loc[t].r \in exist \ Range(rpcfree)
       /\ \A u \in Threads \ {t} : Busy(u) => loc[u].r # loc[t].r

(* m->queue lists exactly the RPCs that wait for a reply, each once: what  *)
(* mountmux and mntqrm take off under errors and hangups is taken off once.*)
QueueExact ==
  /\ IsInjective(queue)
  /\ Range(queue) = {loc[t].r : t \in {u \in Threads : Queued(u)}}

(* The headers are in one place each: in use by one RPC, queued while it   *)
(* waits, on the free list, or freed with their tags (devmnt.c:1400-1460). *)
RpcInv == TypeOK /\ TagsUnique /\ QueueExact

(* mountio without an error returns the reply to the request it wrote,     *)
(* whoever read it from the connection.  Until an RPC is given up because  *)
(* of a bad message: its tag is used again with a reply still to come; and *)
(* until two threads read (OneReader).                                     *)
OwnReply ==
  ~clash /\ ~garbled =>
    \A t \in Threads : pc[t] = "free" /\ ~loc[t].err => Mine(t).reply.req = Mine(t).request

(* devmnt.c:1082: "Gate readers onto the mount point one at a time", and   *)
(* the gate is shut only for the process of a thread that reads or is      *)
(* about to open it, errors included.                                      *)
OneAtATime ==
  /\ \A t, u \in Threads : Reading(t) /\ Reading(u) => t = u
  /\ rip # NoProc => \E t \in Threads : /\ ProcOf[t] = rip
                                        /\ Reading(t) \/ pc[t] \in {"gateopen", "error"}

(* One reader at a time, with several threads to a process, until the one  *)
(* event that ends it: a thread whose write failed finds m->rip == up,     *)
(* because another thread of its process reads (devmnt.c:1047).            *)
OneReader == ~clash => OneAtATime

(* A wakeup is sent to a thread that is asleep or is about to be: no clerk *)
(* stays in the L4_Send of a wakeup, with m->_lock held in mntgate.  As    *)
(* OneReader, until the gate is opened for a second reader.                *)
SendsMeet ==
  ~clash =>
    \A t \in Threads : pc[t] \in {"send", "gatesend", "wkclear", "gateclear"} =>
      /\ pc[loc[t].whom] = "sleep"
      /\ \A u \in Threads \ {t} :
           pc[u] \in {"send", "gatesend"} => loc[u].whom # loc[t].whom

(* doc/Process/proc.c:726: who sleeps on a condition is awakened after it  *)
(* becomes true.  Here: an RPC on a connection that answers ends.          *)
RpcEnds == \A t \in Threads : Busy(t) ~> ~Busy(t)

-----------------------------------------------------------------------------
(* The inductive invariant behind RpcInv. *)
Gating  == {"gatescan", "gateclear", "gatesend", "gateshut"}
Places  == {"out", "queue", "write", "gate", "test1", "test2", "store", "sleep", "check",
            "read", "mux", "muxwake", "wkclear", "send", "gateopen", "failed", "error", "qrm", "free"}
             \cup Gating

LocOK ==
  /\ pc \in [Threads -> Places]
  /\ loc \in [Threads -> [r : 0..NTag, q : 0..NTag, cur : Nat, whom : Threads \cup {NoThread},
                          err : BOOLEAN]]

(* Every header that exists is on the free list or has an RPC. *)
NoneLost == \A h \in exist \ Range(rpcfree) : \E t \in Threads : Busy(t) /\ loc[t].r = h

(* What a thread at p knows of its locals l and of r->done.  After the     *)
(* gate it goes out with its reply, or to mntqrm after an error.           *)
Fits(p, l, done) ==
  /\ p \in {"muxwake", "wkclear", "gateclear"} => l.q \in Tags
  /\ p \in {"wkclear", "send", "gateclear", "gatesend"} => l.whom \in Threads
  /\ p = "gatescan" => l.cur # 0
  /\ p \in Gating \cup {"gateopen"} => done \/ l.err
  /\ p = "qrm" => l.err
  /\ p = "queue" => ~done
  /\ p = "free" => done

LocalsFit == \A t \in Threads : Fits(pc[t], loc[t], Mine(t).done)

IInv == RpcInv /\ LocOK /\ NoneLost /\ LocalsFit

-----------------------------------------------------------------------------
(* The invariants behind OneReader, SendsMeet and OwnReply. *)

(* t has the gate. *)
Hold(t) == Reading(t) \/ pc[t] \in {"gateopen", "error"}

(* One thread at a time has the gate or m->_lock. *)
ReaderInv ==
  /\ \A t \in Threads : Hold(t) => rip = ProcOf[t]
  /\ \A t, u \in Threads : Hold(t) /\ Hold(u) => t = u
  /\ \A t \in Threads : pc[t] \in Gating => mlock /\ rip = NoProc
  /\ \A t, u \in Threads : pc[t] \in Gating /\ pc[u] \in Gating => t = u
  /\ mlock => \E t \in Threads : pc[t] \in Gating
  /\ rip # NoProc => \E t \in Threads : ProcOf[t] = rip /\ Hold(t)

(* r->p names the thread that sleeps on r, until a waker clears it. *)
WakeInv ==
  /\ \A h \in Tags : hdr[h].p # NoThread => loc[hdr[h].p].r = h /\ pc[hdr[h].p] = "sleep"
  /\ \A t \in Threads : pc[t] \in {"wkclear", "gateclear"} => hdr[loc[t].q].p = loc[t].whom
  /\ \A t \in Threads : pc[t] \in {"send", "gatesend"} =>
       pc[loc[t].whom] = "sleep" /\ Mine(loc[t].whom).p = NoThread

(* A message is the request of the RPC with its tag, which was written and *)
(* waits for the reply: tags are not reused while a reply is on its way.   *)
Awaited(tag, req) ==
  \E t \in Threads :
    /\ loc[t].r = tag /\ ~loc[t].err
    /\ pc[t] \notin {"out", "queue", "write", "free", "failed", "error"}
    /\ Mine(t).request = req /\ ~Mine(t).done

MessageInv ==
  /\ hungup => srv = {}
  /\ \A m \in srv : Awaited(m.tag, m.req)
  /\ \A i \in DOMAIN wire : /\ Awaited(wire[i].tag, wire[i].req)
                            /\ \A m \in srv : m.tag # wire[i].tag
                            /\ \A j \in DOMAIN wire : wire[i].tag = wire[j].tag => i = j
  /\ \A t \in Threads : pc[t] = "mux" =>
       /\ Awaited(Mine(t).reply.tag, Mine(t).reply.req)
       /\ \A m \in srv : m.tag # Mine(t).reply.tag
       /\ \A i \in DOMAIN wire : wire[i].tag # Mine(t).reply.tag

(* A request that is not yet written is not done; one that is done has the *)
(* reply to it, unless the RPC ends with an error.                         *)
ReplyInv ==
  \A t \in Threads :
    /\ pc[t] \in {"queue", "write"} => ~Mine(t).done /\ ~loc[t].err
    /\ Busy(t) /\ Mine(t).done /\ ~loc[t].err => Mine(t).reply.req = Mine(t).request

(* Until the gate is opened for a second reader; and until a bad message.  *)
IInv2 == IInv /\ (~clash => ReaderInv /\ WakeInv)
IInv3 == IInv2 /\ (~clash /\ ~garbled => MessageInv /\ ReplyInv)
=============================================================================
