------------------------------- MODULE QLock -------------------------------
(***************************************************************************)
(* The sleeping lock of the LP49 kernel (port/qlock.c: qlock, canqlock,    *)
(* qunlock) over the spin lock of port/taslock-l4.c and L4's synchronous   *)
(* message passing.                                                        *)
(*                                                                         *)
(* A thread that finds the lock taken appends itself to the waiting list,  *)
(* releases the spin lock and blocks in an open L4_Wait.  The unlocking    *)
(* thread removes the first waiter and L4_Sends to it: the message is the  *)
(* lock, q->locked stays 1 across the hand-over.  L4_Send has no timeout:  *)
(* the sender blocks until the receiver has reached its L4_Wait.           *)
(*                                                                         *)
(* Between tas() and unlock() of the spin lock a thread runs its critical  *)
(* section as one step: every access to the QLock is made under use.key.   *)
(***************************************************************************)
EXTENDS Naturals, Sequences

CONSTANTS Threads,   \* the kernel threads (clerks) that use the lock
          NoThread   \* L4_nilthread

ASSUME NoThreadAssumption == NoThread \notin Threads

VARIABLES
  key,     \* q->use.key, the word tas() works on
  locked,  \* q->locked
  queue,   \* q->head .. q->tail: the tids of the Threadque list
  pc,      \* where each thread is in qlock.c
  dst      \* the receiver of the L4_Send a thread is in

vars == <<key, locked, queue, pc, dst>>

(***************************************************************************)
(* The places of a thread.  "out" is outside the lock, "in" holds it.      *)
(* xx_tas spins in lock(&q->use), xx_cs holds use; "enq" has released use  *)
(* and not yet called L4_Wait; "wait" is in L4_Wait; "send" in L4_Send.    *)
(***************************************************************************)
Spinning == {"lock_tas", "unlock_tas"}
Inside   == {"lock_cs", "can_cs", "unlock_cs"}
Places   == {"out", "can_tas", "enq", "wait", "in", "send"} \cup Spinning \cup Inside

Goto(t, from, to) ==
  /\ pc[t] = from
  /\ pc' = [pc EXCEPT ![t] = to]

Init ==
  /\ key = 0
  /\ locked = 0
  /\ queue = <<>>
  /\ pc = [t \in Threads |-> "out"]
  /\ dst = [t \in Threads |-> NoThread]

-----------------------------------------------------------------------------
(* taslock-l4.c: tas() reads the word and sets it; a failed tas changes    *)
(* nothing, so lock()'s three retry loops are the guard key = 0.           *)
lock(t, from, to) ==
  /\ key = 0
  /\ key' = 1
  /\ Goto(t, from, to)
  /\ UNCHANGED <<locked, queue, dst>>

unlock == key' = 0

-----------------------------------------------------------------------------
(* A thread calls qlock, canqlock or (when it holds the lock) qunlock.     *)
CallQlock(t)    == Goto(t, "out", "lock_tas") /\ UNCHANGED <<key, locked, queue, dst>>
CallCanqlock(t) == Goto(t, "out", "can_tas") /\ UNCHANGED <<key, locked, queue, dst>>
CallQunlock(t)  == Goto(t, "in", "unlock_tas") /\ UNCHANGED <<key, locked, queue, dst>>

QlockSpin(t)   == lock(t, "lock_tas", "lock_cs")
QunlockSpin(t) == lock(t, "unlock_tas", "unlock_cs")

(* qlock with the lock free: take it. *)
QlockTake(t) ==
  /\ locked = 0
  /\ locked' = 1
  /\ unlock
  /\ Goto(t, "lock_cs", "in")
  /\ UNCHANGED <<queue, dst>>

(* Mutant: the waiter is not put on the list. *)
M_QlockEnqueue(t) ==
  /\ locked = 1
  /\ unlock
  /\ Goto(t, "lock_cs", "enq")
  /\ UNCHANGED <<locked, queue, dst>>

(* Mutant: the waiter goes to the front of the list. *)
M_QlockEnqueueFront(t) ==
  /\ locked = 1
  /\ queue' = <<t>> \o queue
  /\ unlock
  /\ Goto(t, "lock_cs", "enq")
  /\ UNCHANGED <<locked, dst>>

(* qlock with the lock taken: join the tail of the list, release use. *)
QlockEnqueue(t) ==
  /\ locked = 1
  /\ queue' = Append(queue, t)
  /\ unlock
  /\ Goto(t, "lock_cs", "enq")
  /\ UNCHANGED <<locked, dst>>

(* ... and block in L4_Wait for a message of any thread. *)
QlockWait(t) ==
  /\ Goto(t, "enq", "wait")
  /\ UNCHANGED <<key, locked, queue, dst>>

(* canqlock: one tas, no waiting; fails when use or the lock is taken. *)
CanqlockTas(t) ==
  \/ lock(t, "can_tas", "can_cs")
  \/ /\ key = 1
     /\ Goto(t, "can_tas", "out")
     /\ UNCHANGED <<key, locked, queue, dst>>

(* Mutant: the lock is taken without looking at q->locked. *)
M_CanqlockTry(t) ==
  /\ unlock
  /\ locked' = 1
  /\ Goto(t, "can_cs", "in")
  /\ UNCHANGED <<queue, dst>>

CanqlockTry(t) ==
  /\ unlock
  /\ \/ locked = 0 /\ locked' = 1 /\ Goto(t, "can_cs", "in")
     \/ locked = 1 /\ Goto(t, "can_cs", "out") /\ UNCHANGED locked
  /\ UNCHANGED <<queue, dst>>

(* Mutant: qunlock frees the lock and forgets to wake the first waiter. *)
M_QunlockNoSend(t) ==
  /\ queue # <<>>
  /\ locked' = 0
  /\ unlock
  /\ Goto(t, "unlock_cs", "out")
  /\ UNCHANGED <<queue, dst>>

(* qunlock with waiters: take the first off the list and send to it. *)
QunlockHandOver(t) ==
  /\ queue # <<>>
  /\ queue' = Tail(queue)
  /\ dst' = [dst EXCEPT ![t] = Head(queue)]
  /\ unlock
  /\ Goto(t, "unlock_cs", "send")
  /\ UNCHANGED locked

(* qunlock without waiters. *)
QunlockFree(t) ==
  /\ queue = <<>>
  /\ locked' = 0
  /\ unlock
  /\ Goto(t, "unlock_cs", "out")
  /\ UNCHANGED <<queue, dst>>

(* L4 IPC: a blocked sender and the receiver it names meet; both run on.   *)
(* The receiver returns from qlock: it now holds the lock.                 *)
L4Rendezvous(s, r) ==
  /\ pc[s] = "send"
  /\ dst[s] = r
  /\ pc[r] = "wait"
  /\ pc' = [pc EXCEPT ![s] = "out", ![r] = "in"]
  /\ dst' = [dst EXCEPT ![s] = NoThread]
  /\ UNCHANGED <<key, locked, queue>>

Thread(t) ==
  \/ QlockSpin(t) \/ QlockTake(t) \/ QlockEnqueue(t) \/ QlockWait(t)
  \/ CanqlockTas(t) \/ CanqlockTry(t)
  \/ CallQunlock(t) \/ QunlockSpin(t) \/ QunlockHandOver(t) \/ QunlockFree(t)
  \/ \E r \in Threads : L4Rendezvous(t, r)

Next ==
  \E t \in Threads : CallQlock(t) \/ CallCanqlock(t) \/ Thread(t)

Spec == Init /\ [][Next]_vars

(***************************************************************************)
(* Fairness.  A thread inside qlock.c keeps running (L4 schedules ready    *)
(* threads round robin) and a holder eventually calls qunlock.  tas() is   *)
(* enabled only when use.key is 0: strong fairness says that a spinning    *)
(* thread, which yields or sleeps between attempts, does not miss the free *)
(* word for ever.  Nobody has to call qlock or canqlock.                   *)
(***************************************************************************)
FairSpec ==
  /\ Spec
  /\ \A t \in Threads : WF_vars(Thread(t))
  /\ \A t \in Threads : SF_vars(QlockSpin(t)) /\ SF_vars(QunlockSpin(t))

-----------------------------------------------------------------------------
(* Threads that own the lock: back from qlock, not yet past qunlock's      *)
(* critical section.                                                       *)
Holds(t) == pc[t] \in {"in", "unlock_tas", "unlock_cs"}

(* Type invariant. *)
TypeOK ==
  /\ key \in {0, 1}
  /\ locked \in {0, 1}
  /\ queue \in Seq(Threads)
  /\ pc \in [Threads -> Places]
  /\ dst \in [Threads -> Threads \cup {NoThread}]

(* qlock.c: at most one thread is between qlock and qunlock, and while the *)
(* lock is on its way from one thread to another nobody else holds it.     *)
MutualExclusion ==
  \A s, t \in Threads :
    (Holds(s) \/ pc[s] = "send") /\ (Holds(t) \/ pc[t] = "send") => s = t

(* qlock.c: no waiter is forgotten.  A thread blocked in qlock is on the   *)
(* list, or is the one an unlocking thread is sending to; and as long as   *)
(* there is a waiter somebody owns the lock and will look at the list.     *)
NoLostWaiter ==
  \A t \in Threads :
    pc[t] \in {"enq", "wait"} =>
      /\ \/ \E i \in 1..Len(queue) : queue[i] = t
         \/ \E s \in Threads : pc[s] = "send" /\ dst[s] = t
      /\ locked = 1
      /\ \E s \in Threads : Holds(s) \/ pc[s] = "send"

(***************************************************************************)
(* The lock belongs to the thread that holds it or, from the moment        *)
(* qunlock takes a waiter off the list, to that waiter.                    *)
(***************************************************************************)
Owner ==
  IF \E t \in Threads : Holds(t) THEN CHOOSE t \in Threads : Holds(t)
  ELSE IF \E s \in Threads : pc[s] = "send"
       THEN dst[CHOOSE s \in Threads : pc[s] = "send"]
       ELSE NoThread

Fifo == INSTANCE FifoLock WITH owner <- Owner, waiters <- queue

(* qlock.c implements a first-come-first-served lock: hand-overs follow    *)
(* the order of the list and canqlock overtakes nobody.                    *)
ImplementsFifoLock == Fifo!Spec

(* qunlock: every thread that asks for the lock gets it.                   *)
EveryWaiterGetsIn == \A t \in Threads : pc[t] = "lock_tas" ~> pc[t] = "in"

-----------------------------------------------------------------------------
(***************************************************************************)
(* The inductive invariant behind MutualExclusion and NoLostWaiter.        *)
(***************************************************************************)
Waiting(t) == pc[t] \in {"enq", "wait"}
Owns(t)    == Holds(t) \/ pc[t] = "send"
Queued(t)  == \E i \in 1..Len(queue) : queue[i] = t

(* The spin lock is taken exactly while one thread is inside. *)
SpinInv ==
  /\ key = 0 => \A t \in Threads : pc[t] \notin Inside
  /\ \A s, t \in Threads : pc[s] \in Inside /\ pc[t] \in Inside => s = t

(* locked says whether there is an owner; there is at most one. *)
OwnerInv ==
  /\ \A s, t \in Threads : Owns(s) /\ Owns(t) => s = t
  /\ locked = 1 <=> \E t \in Threads : Owns(t)

(* The list holds blocked threads, each once; a hand-over goes to a        *)
(* blocked thread that is off the list; there are no other blocked threads *)
(* and none while the lock is free.                                        *)
ListInv ==
  /\ \A i \in 1..Len(queue) : Waiting(queue[i])
  /\ \A i, j \in 1..Len(queue) : queue[i] = queue[j] => i = j
  /\ \A s \in Threads : pc[s] = "send" =>
       dst[s] \in Threads /\ Waiting(dst[s]) /\ ~Queued(dst[s])
  /\ \A t \in Threads : Waiting(t) =>
       Queued(t) \/ \E s \in Threads : pc[s] = "send" /\ dst[s] = t
  /\ \A t \in Threads : Waiting(t) => locked = 1

IInv == TypeOK /\ SpinInv /\ OwnerInv /\ ListInv
=============================================================================
