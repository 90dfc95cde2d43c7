---------------------------- MODULE QLockProofs ----------------------------
(***************************************************************************)
(* Proofs, for any set of threads, that qlock.c's sleeping lock excludes,  *)
(* forgets no waiter and implements the first-come-first-served lock.      *)
(***************************************************************************)
EXTENDS QLock, TLAPS

-----------------------------------------------------------------------------
(* Every action keeps the types. *)
LEMMA TypeStep == TypeOK /\ [Next]_vars => TypeOK'
<1> SUFFICES ASSUME TypeOK, [Next]_vars PROVE TypeOK'
  OBVIOUS
<1> USE NoThreadAssumption DEF TypeOK, Places, Spinning, Inside, Goto, lock, unlock
<1>1. CASE UNCHANGED vars
  BY <1>1 DEF vars
<1>2. ASSUME NEW t \in Threads, CallQlock(t) \/ CallCanqlock(t) \/ Thread(t)
      PROVE  TypeOK'
  <2>1. CASE CallQlock(t) \/ CallCanqlock(t) \/ CallQunlock(t) \/ QlockSpin(t) \/ QunlockSpin(t)
    BY <2>1 DEF CallQlock, CallCanqlock, CallQunlock, QlockSpin, QunlockSpin
  <2>2. CASE QlockTake(t) \/ QlockWait(t)
    BY <2>2 DEF QlockTake, QlockWait
  <2>3. CASE QlockEnqueue(t)
    BY <2>3 DEF QlockEnqueue
  <2>4. CASE CanqlockTas(t) \/ CanqlockTry(t)
    BY <2>4 DEF CanqlockTas, CanqlockTry
  <2>5. CASE QunlockHandOver(t)
    BY <2>5 DEF QunlockHandOver
  <2>6. CASE QunlockFree(t)
    BY <2>6 DEF QunlockFree
  <2>7. ASSUME NEW r \in Threads, L4Rendezvous(t, r) PROVE TypeOK'
    BY <2>7 DEF L4Rendezvous
  <2> QED
    BY <1>2, <2>1, <2>2, <2>3, <2>4, <2>5, <2>6, <2>7 DEF Thread
<1> QED
  BY <1>1, <1>2 DEF Next

(* The types hold always. *)
THEOREM TypeCorrect == Spec => []TypeOK
<1>1. Init => TypeOK
  BY DEF Init, TypeOK, Places
<1> QED
  BY <1>1, TypeStep, PTL DEF Spec

-----------------------------------------------------------------------------
(* Removing the first waiter: the others keep their order, the removed one *)
(* is no longer on the list.                                               *)
LEMMA TailFacts ==
  ASSUME NEW q \in Seq(Threads), q # <<>>
  PROVE  /\ Head(q) \in Threads /\ Head(q) = q[1]
         /\ Len(Tail(q)) = Len(q) - 1
         /\ 1 \in 1..Len(q)
         /\ \A i \in 1..Len(Tail(q)) : Tail(q)[i] = q[i+1] /\ i + 1 \in 1..Len(q)
         /\ \A i \in 1..Len(q) : i # 1 => i - 1 \in 1..Len(Tail(q)) /\ q[i] = Tail(q)[i-1]
OBVIOUS

(* Appending a waiter: the others keep their places. *)
LEMMA AppendFacts ==
  ASSUME NEW q \in Seq(Threads), NEW t \in Threads
  PROVE  /\ Len(Append(q, t)) = Len(q) + 1
         /\ Append(q, t)[Len(q) + 1] = t
         /\ \A i \in 1..Len(q) : Append(q, t)[i] = q[i] /\ i \in 1..(Len(q) + 1)
         /\ \A i \in 1..(Len(q) + 1) : i \in 1..Len(q) \/ i = Len(q) + 1
OBVIOUS

(* The invariant is kept by every action of every thread. *)
LEMMA InvStep == IInv /\ [Next]_vars => IInv'
<1> SUFFICES ASSUME IInv, [Next]_vars PROVE IInv'
  OBVIOUS
<1>t. TypeOK /\ TypeOK'
  BY TypeStep DEF IInv
<1> USE DEF IInv, SpinInv, OwnerInv, ListInv, Owns, Holds, Waiting, Queued, Inside
<1>1. CASE UNCHANGED vars
  BY <1>1, <1>t DEF vars
<1>2. ASSUME NEW t \in Threads, CallQlock(t) \/ CallCanqlock(t) \/ Thread(t)
      PROVE  IInv'
  <2> USE DEF Goto, lock, unlock, TypeOK
  <2>1. CASE CallQlock(t)
    BY <1>t, <2>1 DEF CallQlock
  <2>2. CASE CallCanqlock(t)
    BY <1>t, <2>2 DEF CallCanqlock
  <2>3. CASE CallQunlock(t)
    BY <1>t, <2>3 DEF CallQunlock
  <2>4. CASE QlockSpin(t)
    BY <1>t, <2>4 DEF QlockSpin
  <2>5. CASE QunlockSpin(t)
    BY <1>t, <2>5 DEF QunlockSpin
  <2>6. CASE QlockTake(t)
    BY <1>t, <2>6 DEF QlockTake
  <2>7. CASE QlockWait(t)
    BY <1>t, <2>7 DEF QlockWait
  <2>8. CASE QlockEnqueue(t)
    <3>q. queue' = Append(queue, t)
      BY <2>8 DEF QlockEnqueue
    <3>a. /\ Len(queue') = Len(queue) + 1
          /\ queue'[Len(queue) + 1] = t
          /\ Len(queue) \in Nat
          /\ \A i \in 1..Len(queue) : queue'[i] = queue[i] /\ i \in 1..Len(queue')
          /\ \A i \in 1..Len(queue') : i \in 1..Len(queue) \/ i = Len(queue) + 1
      BY <1>t, <3>q, AppendFacts DEF TypeOK
    <3>n. pc[t] = "lock_cs" /\ ~Waiting(t) /\ ~Queued(t)
      BY <1>t, <2>8 DEF QlockEnqueue
    <3>1. SpinInv' /\ OwnerInv'
      BY <1>t, <2>8 DEF QlockEnqueue
    <3>2. \A i \in 1..Len(queue') : Waiting(queue[i])'
      BY <1>t, <2>8, <3>a DEF QlockEnqueue
    <3>3. \A i, j \in 1..Len(queue') : queue'[i] = queue'[j] => i = j
      BY <1>t, <3>a, <3>n
    <3>4. Queued(t)' /\ \A u \in Threads : Queued(u) => Queued(u)'
      <4>1. Len(queue) + 1 \in 1..Len(queue')
        BY <3>a
      <4>2. Queued(t)'
        BY <4>1, <3>a
      <4>3. ASSUME NEW u \in Threads, Queued(u) PROVE Queued(u)'
        BY <4>3, <3>a
      <4> QED
        BY <4>2, <4>3
    <3>5. \A u \in Threads : Queued(u)' => Queued(u) \/ u = t
      BY <1>t, <3>a
    <3>6. \A s \in Threads : pc'[s] = "send" =>
            dst'[s] \in Threads /\ Waiting(dst[s])' /\ ~Queued(dst[s])'
      BY <1>t, <2>8, <3>5, <3>n DEF QlockEnqueue
    <3>7. \A u \in Threads : Waiting(u)' =>
            /\ locked' = 1
            /\ Queued(u)' \/ \E s \in Threads : pc'[s] = "send" /\ dst'[s] = u
      BY <1>t, <2>8, <3>4, <3>n DEF QlockEnqueue
    <3> QED
      BY <1>t, <3>1, <3>2, <3>3, <3>6, <3>7
  <2>9. CASE CanqlockTas(t)
    BY <1>t, <2>9 DEF CanqlockTas
  <2>10. CASE CanqlockTry(t)
    BY <1>t, <2>10 DEF CanqlockTry
  <2>11. CASE QunlockHandOver(t)
    <3>q. /\ queue # <<>> /\ queue' = Tail(queue)
          /\ dst' = [dst EXCEPT ![t] = Head(queue)]
          /\ pc[t] = "unlock_cs" /\ pc' = [pc EXCEPT ![t] = "send"]
          /\ key' = 0 /\ locked' = locked
      BY <2>11 DEF QunlockHandOver
    <3>h. PICK h \in Threads : h = Head(queue)
      BY <1>t, <3>q, TailFacts
    <3>a. /\ h = queue[1] /\ 1 \in 1..Len(queue)
          /\ \A i \in 1..Len(queue') : queue'[i] = queue[i+1] /\ i + 1 \in 1..Len(queue)
          /\ \A i \in 1..Len(queue) :
               i # 1 => i - 1 \in 1..Len(queue') /\ queue[i] = queue'[i-1]
      BY <1>t, <3>q, <3>h, TailFacts
    <3>n. \A s \in Threads : pc[s] # "send"
      BY <1>t, <3>q
    <3>w. Waiting(h) /\ h # t
      BY <1>t, <3>a, <3>q
    <3>1. SpinInv' /\ OwnerInv'
      BY <1>t, <3>q, <3>n
    <3>2. \A u \in Threads : Waiting(u)' <=> Waiting(u)
      BY <1>t, <3>q
    <3>3. \A i, j \in 1..Len(queue') : queue'[i] = queue'[j] => i = j
      <4> SUFFICES ASSUME NEW i \in 1..Len(queue'), NEW j \in 1..Len(queue'),
                          queue'[i] = queue'[j]
                   PROVE  i = j
        OBVIOUS
      <4>1. i + 1 = j + 1
        BY <3>a
      <4> QED
        BY <4>1, <1>t
    <3>4. ~Queued(h)'
      BY <1>t, <3>a
    <3>5. \A u \in Threads : Queued(u) => Queued(u)' \/ u = h
      BY <1>t, <3>a
    <3>6. \A i \in 1..Len(queue') : Waiting(queue[i])'
      BY <1>t, <3>a, <3>2, <3>q
    <3>7. \A s \in Threads : pc'[s] = "send" =>
            dst'[s] \in Threads /\ Waiting(dst[s])' /\ ~Queued(dst[s])'
      BY <1>t, <3>q, <3>h, <3>n, <3>a, <3>w, <3>2, <3>4
    <3>8. \A u \in Threads : Waiting(u)' =>
            /\ locked' = 1
            /\ Queued(u)' \/ \E s \in Threads : pc'[s] = "send" /\ dst'[s] = u
      BY <1>t, <3>q, <3>h, <3>n, <3>a, <3>2, <3>5
    <3> QED
      BY <1>t, <3>1, <3>3, <3>6, <3>7, <3>8
  <2>12. CASE QunlockFree(t)
    BY <1>t, <2>12 DEF QunlockFree
  <2>13. ASSUME NEW r \in Threads, L4Rendezvous(t, r) PROVE IInv'
    BY <1>t, <2>13 DEF L4Rendezvous
  <2> QED
    BY Zenon, <1>2, <2>1, <2>2, <2>3, <2>4, <2>5, <2>6, <2>7, <2>8, <2>9, <2>10,
       <2>11, <2>12, <2>13 DEF Thread
<1> QED
  BY <1>1, <1>2 DEF Next

(* The initial state satisfies it. *)
LEMMA InvInit == Init => IInv
BY DEF Init, IInv, TypeOK, Places, SpinInv, OwnerInv, ListInv, Owns, Holds,
       Waiting, Queued, Inside

(* qlock.c excludes: at most one thread is between qlock and qunlock, or   *)
(* on its way out with the lock in an L4_Send.                             *)
THEOREM Exclusion == Spec => []MutualExclusion
<1>1. IInv => MutualExclusion
  BY DEF IInv, OwnerInv, Owns, MutualExclusion
<1> QED
  BY <1>1, InvInit, InvStep, PTL DEF Spec

(* A thread blocked in qlock is on the list or being sent to, and the lock *)
(* has an owner.                                                           *)
THEOREM WaitersKept == Spec => []NoLostWaiter
<1>1. IInv => NoLostWaiter
  BY DEF IInv, OwnerInv, ListInv, Owns, Waiting, Queued, NoLostWaiter
<1> QED
  BY <1>1, InvInit, InvStep, PTL DEF Spec

-----------------------------------------------------------------------------
(* The mapped owner is the one thread that holds the lock, or the one the  *)
(* single sender names.                                                    *)
OwnerIs ==
  /\ \A t \in Threads : Holds(t) => Owner = t
  /\ \A t \in Threads : pc[t] = "send" => Owner = dst[t]
  /\ (\A t \in Threads : ~Owns(t)) => Owner = NoThread

(* The invariant determines the mapped owner. *)
LEMMA OwnerFacts == IInv => OwnerIs
<1> SUFFICES ASSUME IInv PROVE OwnerIs
  OBVIOUS
<1> USE DEF IInv, OwnerInv, Owns
<1>1. ASSUME NEW t \in Threads, Holds(t) PROVE Owner = t
  <2>1. \A u \in Threads : Holds(u) => u = t
    BY <1>1
  <2> QED
    BY <1>1, <2>1 DEF Owner
<1>2. ASSUME NEW t \in Threads, pc[t] = "send" PROVE Owner = dst[t]
  <2>1. \A u \in Threads : ~Holds(u)
    BY <1>2 DEF Holds
  <2>2. \A u \in Threads : pc[u] = "send" => u = t
    BY <1>2
  <2>3. (CHOOSE s \in Threads : pc[s] = "send") = t
    BY <1>2, <2>2
  <2> QED
    BY <1>2, <2>1, <2>3 DEF Owner
<1>3. ASSUME \A t \in Threads : ~Owns(t) PROVE Owner = NoThread
  BY <1>3 DEF Owner
<1> QED
  BY <1>1, <1>2, <1>3 DEF OwnerIs

(* qlock.c implements the first-come-first-served lock: every step of a    *)
(* thread is a step of FifoLock, or leaves its owner and list unchanged.   *)
THEOREM Refinement == Spec => ImplementsFifoLock
<1>1. Init => Fifo!Init
  BY DEF Init, Fifo!Init, Owner, Holds
<1>o. IInv' => OwnerIs'
  BY OwnerFacts, PTL
<1>2. IInv /\ IInv' /\ [Next]_vars => [Fifo!Next]_<<Owner, queue>>
  <2> SUFFICES ASSUME IInv, IInv', [Next]_vars
               PROVE  [Fifo!Next]_<<Owner, queue>>
    OBVIOUS
  <2>o. OwnerIs /\ OwnerIs'
    BY <1>o, OwnerFacts
  <2>f. OwnerInv /\ ListInv /\ TypeOK /\ OwnerInv'
    BY DEF IInv
  <2>u. ASSUME UNCHANGED vars PROVE UNCHANGED <<Owner, queue>>
    BY <2>u DEF vars, Owner, Holds
  <2>1. ASSUME NEW t \in Threads, CallQlock(t) \/ CallCanqlock(t) \/ Thread(t)
        PROVE  [Fifo!Next]_<<Owner, queue>>
    <3> USE DEF Goto, lock, unlock
    <3>s. ASSUME queue' = queue, dst' = dst, locked' = locked,
                 \A u \in Threads : Holds(u)' <=> Holds(u),
                 \A u \in Threads : pc'[u] = "send" <=> pc[u] = "send"
          PROVE  UNCHANGED <<Owner, queue>>
      BY <3>s, <2>o DEF OwnerIs, Owns
    <3>1. CASE CallQlock(t) \/ CallCanqlock(t) \/ CallQunlock(t) \/ QlockSpin(t)
               \/ QunlockSpin(t) \/ QlockWait(t) \/ CanqlockTas(t)
      <4>1. UNCHANGED <<Owner, queue>>
        BY <3>1, <3>s, <2>f DEF CallQlock, CallCanqlock, CallQunlock, QlockSpin,
             QunlockSpin, QlockWait, CanqlockTas, Holds, TypeOK
      <4> QED
        BY <4>1
    <3>2. CASE QlockTake(t) \/ (CanqlockTry(t) /\ locked = 0)
      <4>1. Owner = NoThread
        BY <3>2, <2>f, <2>o DEF OwnerInv, OwnerIs, QlockTake
      <4>2. Owner' = t
        BY <3>2, <2>f, <2>o DEF QlockTake, CanqlockTry, OwnerIs, Holds, TypeOK
      <4>3. queue = <<>> /\ queue' = queue
        <5>1. locked = 0 /\ queue' = queue
          BY <3>2 DEF QlockTake, CanqlockTry
        <5>2. \A i \in 1..Len(queue) : FALSE
          BY <5>1, <2>f DEF ListInv, TypeOK
        <5> QED
          BY <5>1, <5>2, <2>f DEF TypeOK
      <4> QED
        BY <4>1, <4>2, <4>3 DEF Fifo!Next, Fifo!Acquire
    <3>3. CASE CanqlockTry(t) /\ locked = 1
      <4>1. UNCHANGED <<Owner, queue>>
        BY <3>3, <3>s, <2>f DEF CanqlockTry, Holds, TypeOK
      <4> QED
        BY <4>1
    <3>4. CASE QlockEnqueue(t)
      <4>1. Owner' = Owner
        BY <3>4, <2>f, <2>o DEF QlockEnqueue, OwnerInv, OwnerIs, Owns, Holds, TypeOK
      <4>2. Owner \in Threads /\ Owner # t /\ ~Queued(t)
        BY <3>4, <2>f, <2>o DEF QlockEnqueue, OwnerInv, ListInv, OwnerIs, Owns, Holds,
             Waiting, Queued, TypeOK
      <4> QED
        BY <3>4, <4>1, <4>2, NoThreadAssumption
        DEF QlockEnqueue, Queued, Fifo!Next, Fifo!Join
    <3>5. CASE QunlockHandOver(t)
      <4>1. Owner = t
        BY <3>5, <2>o DEF QunlockHandOver, OwnerIs, Holds
      <4>2. Owner' = Head(queue)
        BY <3>5, <2>f, <2>o DEF QunlockHandOver, OwnerIs, TypeOK
      <4> QED
        BY <3>5, <4>1, <4>2, NoThreadAssumption
        DEF QunlockHandOver, Fifo!Next, Fifo!PassOn
    <3>6. CASE QunlockFree(t)
      <4>1. Owner = t
        BY <3>6, <2>o DEF QunlockFree, OwnerIs, Holds
      <4>2. Owner' = NoThread
        BY <3>6, <2>f, <2>o DEF QunlockFree, OwnerInv, OwnerIs
      <4> QED
        BY <3>6, <4>1, <4>2, NoThreadAssumption
        DEF QunlockFree, Fifo!Next, Fifo!Release
    <3>7. ASSUME NEW r \in Threads, L4Rendezvous(t, r)
          PROVE  UNCHANGED <<Owner, queue>>
      <4>1. Owner = r /\ Owner' = r
        BY <3>7, <2>f, <2>o DEF L4Rendezvous, OwnerIs, Holds, TypeOK
      <4> QED
        BY <3>7, <4>1 DEF L4Rendezvous
    <3> QED
      BY <2>1, <2>f, <3>1, <3>2, <3>3, <3>4, <3>5, <3>6, <3>7 DEF Thread, TypeOK
  <2> QED
    BY <2>u, <2>1 DEF Next
<1> QED
  BY <1>1, <1>2, InvInit, InvStep, PTL DEF Spec, ImplementsFifoLock, Fifo!Spec
=============================================================================
