------------------------------- MODULE RWLock -------------------------------
(***************************************************************************)
(* The readers/writer locks of the LP49 kernel (port/qlock.c: rlock,       *)
(* runlock, wlock, wunlock, canrlock).                                     *)
(*                                                                         *)
(* Unlike QLock the waiting list is modelled with its pointers: wlock does *)
(* not move q->tail to the node it appends (line 236 is commented out), so *)
(* head, tail and the qnext links are not the ends and links of one list.  *)
(* Nodes are addresses of the heap that all locks share: malloc returns    *)
(* any free one, also one freed a moment ago that q->tail of this or       *)
(* another lock still points to.  A thread is in one call at a time; one   *)
(* that holds a lock and asks for another is two threads here, as nothing  *)
(* names or sends to a thread because of a lock it holds.                  *)
(*                                                                         *)
(* A critical section under use.key is one step, except in wunlock, which  *)
(* keeps use while it sends to the waiting readers one after the other.    *)
(***************************************************************************)
EXTENDS Integers, FiniteSets

CONSTANTS Locks,     \* the RWlocks
          NoLock,    \* no RWlock
          Threads,   \* kernel threads that use the locks
          NoThread,  \* L4_nilthread
          Nodes,     \* heap addresses of Threadque nodes
          Nil        \* the nil pointer

ASSUME RWLockAssumption ==
  /\ NoLock \notin Locks
  /\ IsFiniteSet(Threads)
  /\ NoThread \notin Threads
  /\ Nil \notin Nodes

VARIABLES
  key,            \* of each RWlock: use.key,
  readers,        \* the readers in it,
  writer,         \* 1 when a writer is in it,
  head, tail,     \* and its list of waiting threads
  node,           \* the Threadque at each address: tid, state, qnext
  owner,          \* the lock an address is allocated for, NoLock when it is free
  pc,             \* where each thread is in qlock.c
  at,             \* the lock it calls for or holds
  dst,            \* the receiver of the L4_Send a thread is in
  panicking,      \* pc/devcons.c: panic has been called
  stray           \* history: a waiter was hung on memory that is no node of its lock

counts == <<readers, writer>>
list   == <<head, tail, node, owner>>
flags  == <<panicking, stray>>
vars   == <<key, counts, list, pc, at, dst, flags>>

(* xx_tas spins in lock(&q->use), xx_cs holds use; "wakeloop" is the loop  *)
(* of wunlock, "rsend" its L4_Send, both under use; "panic" is for(;;).    *)
Spinning == {"rlock_tas", "wlock_tas", "canrlock_tas", "runlock_tas", "wunlock_tas"}
Inside   == {"rlock_cs", "wlock_cs", "canrlock_cs", "runlock_cs", "wunlock_cs",
             "wakeloop", "rsend", "panic"}
Waits    == {"renq", "rwait", "wenq", "wwait"}
Places   == {"out", "reading", "writing", "send"} \cup Spinning \cup Inside \cup Waits

Goto(t, from, to) ==
  /\ pc[t] = from
  /\ pc' = [pc EXCEPT ![t] = to]

(* The same for a thread that is done with its lock. *)
Exit(t, from) ==
  /\ Goto(t, from, "out")
  /\ at' = [at EXCEPT ![t] = NoLock]

(* The first of the list of t's lock. *)
First(t) == node[head[at[t]]]

(* Mutant: the first node stays on the list. *)
M_Second(t) == head[at[t]]

(* The node after it. *)
Second(t) == First(t).qnext

Init ==
  /\ key = [l \in Locks |-> 0]
  /\ readers = [l \in Locks |-> 0]
  /\ writer = [l \in Locks |-> 0]
  /\ head = [l \in Locks |-> Nil]
  /\ tail = [l \in Locks |-> Nil]
  /\ node = [n \in Nodes |-> [tid |-> NoThread, state |-> "none", qnext |-> Nil]]
  /\ owner = [n \in Nodes |-> NoLock]
  /\ pc = [t \in Threads |-> "out"]
  /\ at = [t \in Threads |-> NoLock]
  /\ dst = [t \in Threads |-> NoThread]
  /\ panicking = FALSE
  /\ stray = FALSE

-----------------------------------------------------------------------------
(* taslock-l4.c: a failed tas changes nothing. *)
lock(t, from, to) ==
  /\ Goto(t, from, to)
  /\ key[at[t]] = 0
  /\ key' = [key EXCEPT ![at[t]] = 1]
  /\ UNCHANGED <<counts, list, at, dst, flags>>

unlock(t) == key' = [key EXCEPT ![at[t]] = 0]

(* malloc a node for t and hang it behind q->tail, or at q->head when tail *)
(* is nil; newTail is what the caller then stores in q->tail.              *)
Hang(t, r, state, newTail) ==
  LET l == at[t]
      fresh == [node EXCEPT ![r] = [tid |-> t, state |-> state, qnext |-> Nil]]
  IN  /\ owner[r] = NoLock
      /\ owner' = [owner EXCEPT ![r] = l]
      /\ IF tail[l] = Nil
         THEN /\ head' = [head EXCEPT ![l] = r]
              /\ node' = fresh
              /\ UNCHANGED stray
         ELSE /\ node' = [fresh EXCEPT ![tail[l]].qnext = r]
              /\ stray' = (stray \/ owner'[tail[l]] # l)
              /\ UNCHANGED head
      /\ tail' = [tail EXCEPT ![l] = newTail]

(* Take the first node off the list and free it; its thread is sent to     *)
(* next.                                                                   *)
Unhang(t) ==
  /\ head' = [head EXCEPT ![at[t]] = Second(t)]
  /\ owner' = [owner EXCEPT ![head[at[t]]] = NoLock]
  /\ dst' = [dst EXCEPT ![t] = First(t).tid]
  /\ UNCHANGED <<node, at, stray>>

(* if(q->head == 0) q->tail = 0; *)
TailReset(t) == tail' = IF head'[at[t]] = Nil THEN [tail EXCEPT ![at[t]] = Nil] ELSE tail

(* panic enters the kernel debugger and returns, since exit does; a second *)
(* one does not.                                                           *)
PanicIf(bad) == ~(bad /\ panicking) /\ panicking' = (panicking \/ bad)

-----------------------------------------------------------------------------
Call(t) ==
  /\ \/ Goto(t, "out", "rlock_tas")
     \/ Goto(t, "out", "wlock_tas")
     \/ Goto(t, "out", "canrlock_tas")
  /\ \E l \in Locks : at' = [at EXCEPT ![t] = l]
  /\ UNCHANGED <<key, counts, list, dst, flags>>

(* A holder is done and calls runlock or wunlock. *)
Return(t) ==
  /\ \/ Goto(t, "reading", "runlock_tas")
     \/ Goto(t, "writing", "wunlock_tas")
  /\ UNCHANGED <<key, counts, list, at, dst, flags>>

Spin(t) ==
  \/ lock(t, "rlock_tas", "rlock_cs")
  \/ lock(t, "wlock_tas", "wlock_cs")
  \/ lock(t, "canrlock_tas", "canrlock_cs")
  \/ lock(t, "runlock_tas", "runlock_cs")
  \/ lock(t, "wunlock_tas", "wunlock_cs")

NoWriter(t) == writer[at[t]] = 0 /\ head[at[t]] = Nil

(* Mutant: a reader gets in when no writer is queued, whoever is inside. *)
M_RlockTake(t) ==
  /\ Goto(t, "rlock_cs", "reading")
  /\ head[at[t]] = Nil
  /\ readers' = [readers EXCEPT ![at[t]] = @ + 1]
  /\ unlock(t)
  /\ UNCHANGED <<writer, list, at, dst, flags>>

(* rlock, no writer: go for it. *)
RlockTake(t) ==
  /\ Goto(t, "rlock_cs", "reading")
  /\ NoWriter(t)
  /\ readers' = [readers EXCEPT ![at[t]] = @ + 1]
  /\ unlock(t)
  /\ UNCHANGED <<writer, list, at, dst, flags>>

(* rlock behind a writer: join the list. *)
RlockEnqueue(t) ==
  /\ Goto(t, "rlock_cs", "renq")
  /\ ~NoWriter(t)
  /\ \E r \in Nodes : Hang(t, r, "QueueingR", r)
  /\ unlock(t)
  /\ UNCHANGED <<counts, at, dst, panicking>>

(* canrlock: as rlock, but give up instead of waiting. *)
Canrlock(t) ==
  /\ \/ /\ Goto(t, "canrlock_cs", "reading") /\ NoWriter(t)
        /\ readers' = [readers EXCEPT ![at[t]] = @ + 1]
        /\ UNCHANGED at
     \/ /\ Exit(t, "canrlock_cs") /\ ~NoWriter(t)
        /\ UNCHANGED readers
  /\ unlock(t)
  /\ UNCHANGED <<writer, list, dst, flags>>

Nobody(t) == readers[at[t]] = 0 /\ writer[at[t]] = 0

(* wlock, nobody inside: go for it. *)
WlockTake(t) ==
  /\ Goto(t, "wlock_cs", "writing")
  /\ Nobody(t)
  /\ writer' = [writer EXCEPT ![at[t]] = 1]
  /\ unlock(t)
  /\ UNCHANGED <<readers, list, at, dst, flags>>

(* wlock with somebody inside: hang the node and leave q->tail alone. *)
WlockEnqueue(t) ==
  /\ Goto(t, "wlock_cs", "wenq")
  /\ ~Nobody(t)
  /\ \E r \in Nodes : Hang(t, r, "QueueingW", tail[at[t]])
  /\ unlock(t)
  /\ UNCHANGED <<counts, at, dst, panicking>>

(* L4_Wait at the end of rlock and wlock. *)
Wait(t) ==
  /\ \/ Goto(t, "renq", "rwait")
     \/ Goto(t, "wenq", "wwait")
  /\ UNCHANGED <<key, counts, list, at, dst, flags>>

(* --(q->readers) > 0 || p == nil fails: t is the last reader and somebody *)
(* waits.                                                                  *)
Last(t) == readers[at[t]] - 1 <= 0 /\ head[at[t]] # Nil

RunlockReturn(t) ==
  /\ Exit(t, "runlock_cs")
  /\ ~Last(t)
  /\ readers' = [readers EXCEPT ![at[t]] = @ - 1]
  /\ unlock(t)
  /\ UNCHANGED <<writer, list, dst, flags>>

(* Start the waiting writer; if it is none, panic("runlock") first. *)
RunlockHandOver(t) ==
  /\ Goto(t, "runlock_cs", "send")
  /\ Last(t)
  /\ PanicIf(First(t).state # "QueueingW")
  /\ readers' = [readers EXCEPT ![at[t]] = @ - 1]
  /\ Unhang(t) /\ TailReset(t)
  /\ writer' = [writer EXCEPT ![at[t]] = 1]
  /\ unlock(t)

(* The second panic, for ever with use held. *)
RunlockPanic(t) ==
  /\ Goto(t, "runlock_cs", "panic")
  /\ Last(t)
  /\ First(t).state # "QueueingW" /\ panicking
  /\ readers' = [readers EXCEPT ![at[t]] = @ - 1]
  /\ UNCHANGED <<key, writer, list, at, dst, flags>>

WunlockFree(t) ==
  /\ Exit(t, "wunlock_cs")
  /\ head[at[t]] = Nil
  /\ writer' = [writer EXCEPT ![at[t]] = 0]
  /\ unlock(t)
  /\ UNCHANGED <<readers, list, dst, flags>>

(* wunlock, a writer is first: it takes over, q->writer stays 1. *)
WunlockHandOver(t) ==
  /\ Goto(t, "wunlock_cs", "send")
  /\ head[at[t]] # Nil /\ First(t).state = "QueueingW"
  /\ Unhang(t) /\ TailReset(t)
  /\ unlock(t)
  /\ UNCHANGED <<counts, panicking>>

(* wunlock, a reader is first: enter the loop that wakes readers, under    *)
(* use.  The panic of line 274 is for a node that is neither.              *)
WunlockReaders(t) ==
  /\ Goto(t, "wunlock_cs", "wakeloop")
  /\ head[at[t]] # Nil /\ First(t).state # "QueueingW"
  /\ PanicIf(First(t).state # "QueueingR")
  /\ UNCHANGED <<key, counts, list, at, dst, stray>>

ReaderFirst(t) == head[at[t]] # Nil /\ First(t).state = "QueueingR"

(* One round of the loop: count the reader in, free its node, send to it. *)
WakeReader(t) ==
  /\ Goto(t, "wakeloop", "rsend")
  /\ ReaderFirst(t)
  /\ Unhang(t)
  /\ readers' = [readers EXCEPT ![at[t]] = @ + 1]
  /\ UNCHANGED <<key, writer, tail, panicking>>

(* No reader is first any more: the writer leaves. *)
WakeDone(t) ==
  /\ Exit(t, "wakeloop")
  /\ ~ReaderFirst(t)
  /\ UNCHANGED <<readers, head, node, owner, dst, flags>>
  /\ TailReset(t)
  /\ writer' = [writer EXCEPT ![at[t]] = 0]
  /\ unlock(t)

(* L4 IPC: the sender meets the receiver it names in its open L4_Wait,     *)
(* whichever lock that waits for.                                          *)
L4Rendezvous(s, r) ==
  /\ pc[s] \in {"send", "rsend"} /\ dst[s] = r
  /\ pc[r] \in {"rwait", "wwait"}
  /\ pc' = [pc EXCEPT ![s] = IF pc[s] = "send" THEN "out" ELSE "wakeloop",
                      ![r] = IF pc[r] = "rwait" THEN "reading" ELSE "writing"]
  /\ at' = [at EXCEPT ![s] = IF pc[s] = "send" THEN NoLock ELSE @]
  /\ dst' = [dst EXCEPT ![s] = NoThread]
  /\ UNCHANGED <<key, counts, list, flags>>

Thread(t) ==
  \/ Return(t) \/ Spin(t) \/ Wait(t)
  \/ RlockTake(t) \/ RlockEnqueue(t) \/ Canrlock(t)
  \/ WlockTake(t) \/ WlockEnqueue(t)
  \/ RunlockReturn(t) \/ RunlockHandOver(t) \/ RunlockPanic(t)
  \/ WunlockFree(t) \/ WunlockHandOver(t) \/ WunlockReaders(t)
  \/ WakeReader(t) \/ WakeDone(t)
  \/ \E r \in Threads : L4Rendezvous(t, r)

Next == \E t \in Threads : Call(t) \/ Thread(t)

Spec == Init /\ [][Next]_vars

(* Fairness as for QLock: a thread inside qlock.c runs on, a holder        *)
(* returns, and spinning on use.key does not fail for ever.                *)
FairSpec ==
  /\ Spec
  /\ \A t \in Threads : WF_vars(Thread(t)) /\ SF_vars(Spin(t))

-----------------------------------------------------------------------------
(* Granted to t and not yet given back: inside the lock, or in a message   *)
(* that is on its way to t.                                                *)
Sent(t)    == \E s \in Threads : pc[s] \in {"send", "rsend"} /\ dst[s] = t
Reading(t) == \/ pc[t] \in {"reading", "runlock_tas", "runlock_cs"}
              \/ pc[t] \in {"renq", "rwait"} /\ Sent(t)
Writing(t) == \/ pc[t] \in {"writing", "wunlock_tas", "wunlock_cs", "wakeloop", "rsend"}
              \/ pc[t] \in {"wenq", "wwait"} /\ Sent(t)

Readers(l) == {t \in Threads : at[t] = l /\ Reading(t)}
Writers(l) == {t \in Threads : at[t] = l /\ Writing(t)}

(* The nodes a walk along qnext from q->head meets: those in every set     *)
(* that holds q->head and the successors of its members.                   *)
Walkable(l, S) == {head[l]} \cup {node[a].qnext : a \in S} \subseteq S \cup {Nil}
Listed(l) == {a \in Nodes : \A S \in SUBSET Nodes : Walkable(l, S) => a \in S}

(* Nothing is claimed of a kernel that has panicked, or in which a waiter  *)
(* was hung on memory that is not, or no longer, a node of its lock: the   *)
(* store may have linked it into the list of another lock.                 *)
Sound == ~panicking /\ ~stray

(* Type invariant. *)
TypeOK ==
  /\ key \in [Locks -> {0, 1}]
  /\ readers \in [Locks -> 0..Cardinality(Threads)]
  /\ writer \in [Locks -> {0, 1}]
  /\ head \in [Locks -> Nodes \cup {Nil}]
  /\ tail \in [Locks -> Nodes \cup {Nil}]
  /\ node \in [Nodes -> [tid : Threads \cup {NoThread},
                         state : {"none", "QueueingR", "QueueingW"},
                         qnext : Nodes \cup {Nil}]]
  /\ owner \in [Nodes -> Locks \cup {NoLock}]
  /\ pc \in [Threads -> Places]
  /\ at \in [Threads -> Locks \cup {NoLock}]
  /\ dst \in [Threads -> Threads \cup {NoThread}]
  /\ panicking \in BOOLEAN /\ stray \in BOOLEAN

(* rlock/wlock: a writer is alone in its lock.  The only overlap is inside *)
(* wunlock itself, when the leaving writer wakes the readers it lets in.   *)
ReaderWriterExclusion ==
  \A s, t \in Threads :
    s # t /\ at[s] = at[t] /\ Writing(s) =>
      /\ ~Writing(t)
      /\ Reading(t) => pc[s] \in {"wakeloop", "rsend"}

(* The counters tell who is inside whenever use is free: readers is the    *)
(* number of threads with a read lock, writer the number with a write lock.*)
CountersExact ==
  \A l \in Locks :
    key[l] = 0 => /\ readers[l] = Cardinality(Readers(l))
                  /\ writer[l] = Cardinality(Writers(l))

(* In every lock a writer is alone, and the counters say who is inside     *)
(* (qlock.c:135-309).  This survives lost waiters and a tail that names a  *)
(* node used again by the same lock, and lasts until a waiter is hung on   *)
(* memory that is not a node of the lock (qlock.c:165, 235), or a panic.   *)
LockInv == Sound => TypeOK /\ ReaderWriterExclusion /\ CountersExact

(* The node at q->head, and every node reachable from it, is allocated for *)
(* this lock and names a thread that is blocked in its rlock or wlock.     *)
ListNamesWaiters ==
  \A l \in Locks : \A a \in Listed(l) :
    /\ owner[a] = l
    /\ pc[node[a].tid] \in Waits /\ at[node[a].tid] = l
    /\ ~Sent(node[a].tid)
    /\ (pc[node[a].tid] \in {"renq", "rwait"}) = (node[a].state = "QueueingR")

(* wunlock sends with use held (qlock.c:287), runlock after it: every      *)
(* receiver has let go of use and comes to its L4_Wait by itself, and it   *)
(* gets one message only, so a send always ends and use does become free.  *)
SendsMeet ==
  \A s \in Threads :
    pc[s] \in {"send", "rsend"} =>
      /\ dst[s] \in Threads /\ pc[dst[s]] \in Waits /\ at[dst[s]] = at[s]
      /\ \A u \in Threads \ {s} : dst[u] # dst[s]

(* Whoever is named by the list of a lock or sent to by its unlock waits   *)
(* in rlock or wlock of that lock, and is let in once.  As LockInv, until  *)
(* a waiter is hung on memory that is no node of its lock.                 *)
WakesOnlyWaiters == Sound => ListNamesWaiters /\ SendsMeet

(* qlock.c:34 calls q->head the "list of waiting threads": every thread    *)
(* blocked in rlock or wlock can be reached from it, or has been sent to.  *)
WaitersListed ==
  \A t \in Threads :
    pc[t] \in Waits => Sent(t) \/ \E a \in Listed(at[t]) : node[a].tid = t

(* qlock.c:188 and 274: the panics of runlock and wunlock are not reached. *)
NoPanic == ~panicking

(* Every thread that asks for the lock gets it. *)
EveryoneGetsIn ==
  \A t \in Threads :
    /\ pc[t] = "rlock_tas" ~> pc[t] = "reading"
    /\ pc[t] = "wlock_tas" ~> pc[t] = "writing"

-----------------------------------------------------------------------------
(* The inductive invariant behind LockInv and WakesOnlyWaiters, while the  *)
(* heap is Sound.                                                          *)

(* use.key is 1 exactly while one thread is between lock and unlock. *)
SpinInv ==
  /\ \A s, t \in Threads : pc[s] \in Inside /\ pc[t] \in Inside /\ at[s] = at[t] => s = t
  /\ \A l \in Locks : key[l] = 1 <=> \E t \in Threads : pc[t] \in Inside /\ at[t] = l

(* A thread has a lock exactly while it is in a call or holds one. *)
AtInv == \A t \in Threads : pc[t] = "out" <=> at[t] = NoLock

(* A node of l names a thread of its own that waits for l and was not sent *)
(* to yet; freed nodes, which q->tail may point to, are not constrained.   *)
NamesWaiter(a) ==
  /\ node[a].tid \in Threads
  /\ at[node[a].tid] = owner[a]
  /\ ~Sent(node[a].tid)
  /\ \/ node[a].state = "QueueingR" /\ pc[node[a].tid] \in {"renq", "rwait"}
     \/ node[a].state = "QueueingW" /\ pc[node[a].tid] \in {"wenq", "wwait"}

Used == {a \in Nodes : owner[a] # NoLock}

NodesInv ==
  /\ \A a \in Used : NamesWaiter(a)
  /\ \A a, b \in Used : node[a].tid = node[b].tid => a = b

(* Links stay among the nodes of a lock, and no two allocated nodes, and   *)
(* not q->head and such a node, lead to the same one: freeing the first    *)
(* node leaves no link to it behind.                                       *)
LinksInv ==
  /\ \A l \in Locks : head[l] # Nil => owner[head[l]] = l
  /\ \A a \in Used : node[a].qnext # Nil => owner[node[a].qnext] = owner[a]
  /\ \A a \in Used : node[a].qnext # Nil => node[a].qnext # head[owner[a]]
  /\ \A a, b \in Used : node[a].qnext = node[b].qnext /\ node[a].qnext # Nil => a = b

(* Only a thread in L4_Send has a receiver, which waits for it alone. *)
SendInv ==
  /\ \A s \in Threads : dst[s] # NoThread => pc[s] \in {"send", "rsend"}
  /\ SendsMeet

(* The counters, also while use is held. *)
CountInv ==
  \A l \in Locks : /\ readers[l] = Cardinality(Readers(l))
                   /\ writer[l] = 1 <=> Writers(l) # {}

Good == /\ TypeOK /\ AtInv /\ SpinInv /\ NodesInv /\ LinksInv /\ SendInv /\ CountInv
        /\ ReaderWriterExclusion

IInv == Sound => Good
=============================================================================
