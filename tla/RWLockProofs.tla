---------------------------- MODULE RWLockProofs ----------------------------
(***************************************************************************)
(* Proofs, for any number of locks, any finite set of threads and any heap *)
(* they share, that the readers/writer locks of qlock.c keep a writer      *)
(* alone, count who is inside, and send only to threads that wait, until a *)
(* waiter is hung on memory that is no node of its lock, or a panic.       *)
(***************************************************************************)
EXTENDS RWLock, FiniteSetTheorems, TLAPS

Sending == {"send", "rsend"}
Waking  == {"wakeloop", "rsend"}
ReadWaits  == {"renq", "rwait"}
WriteWaits == {"wenq", "wwait"}

NodeType == [tid : Threads \cup {NoThread},
             state : {"none", "QueueingR", "QueueingW"},
             qnext : Nodes \cup {Nil}]

(* TypeOK but for the range of q->readers, which follows from the count. *)
Types ==
  /\ key \in [Locks -> {0, 1}]
  /\ readers \in [Locks -> Int]
  /\ writer \in [Locks -> {0, 1}]
  /\ head \in [Locks -> Nodes \cup {Nil}]
  /\ tail \in [Locks -> Nodes \cup {Nil}]
  /\ node \in [Nodes -> NodeType]
  /\ owner \in [Nodes -> Locks \cup {NoLock}]
  /\ pc \in [Threads -> Places]
  /\ at \in [Threads -> Locks \cup {NoLock}]
  /\ dst \in [Threads -> Threads \cup {NoThread}]
  /\ panicking \in BOOLEAN /\ stray \in BOOLEAN

(* Good gives them, and that only a thread outside has no lock. *)
LEMMA GoodTypes == Good => Types /\ \A t \in Threads : pc[t] # "out" => at[t] \in Locks
<1> SUFFICES ASSUME Good PROVE Types /\ \A t \in Threads : pc[t] # "out" => at[t] \in Locks
  BY Zenon
<1>1. readers \in [Locks -> Int]
  <2>1. Cardinality(Threads) \in Nat
    BY Zenon, FS_CardinalityType, RWLockAssumption
  <2> QED
    BY <2>1 DEF Good, TypeOK
<1> QED
  BY Zenon, <1>1 DEF Good, TypeOK, Types, AtInv, NodeType

(* Every action keeps the types, and who has a lock. *)
LEMMA TypesStep == Good /\ [Next]_vars => Types' /\ AtInv'
<1> SUFFICES ASSUME Good, [Next]_vars PROVE Types' /\ AtInv'
  BY Zenon
<1>c. Types /\ AtInv /\ \A t \in Threads : pc[t] # "out" => at[t] \in Locks
  BY Zenon, GoodTypes DEF Good
<1> USE RWLockAssumption DEF Goto, Exit, lock, unlock, counts, list, flags
<1>1. CASE UNCHANGED vars
  BY Zenon, <1>1, <1>c DEF vars, Types, AtInv
<1>2. ASSUME NEW t \in Threads, Call(t) \/ Thread(t)
      PROVE  Types' /\ AtInv'
  <2> DEFINE Kept == pc' \in [Threads -> Places] /\ at' \in [Threads -> Locks \cup {NoLock}] /\ AtInv'
  <2>p. ASSUME NEW to \in Places \ {"out"}, pc' = [pc EXCEPT ![t] = to], at' = at, pc[t] # "out"
        PROVE  Kept
    BY Zenon, <2>p, <1>c DEF Types, AtInv
  <2>x. ASSUME pc' = [pc EXCEPT ![t] = "out"], at' = [at EXCEPT ![t] = NoLock], pc[t] # "out"
        PROVE  Kept
    BY Zenon, <2>x, <1>c DEF Types, AtInv, Places
  <2> HIDE DEF Kept
  <2>c. ASSUME pc[t] # "out",
               \/ readers' = [readers EXCEPT ![at[t]] = @ + 1]
               \/ readers' = [readers EXCEPT ![at[t]] = @ - 1]
        PROVE  readers' \in [Locks -> Int]
    BY <2>c, <1>c DEF Types
  <2>1. CASE Call(t)
    <3>1. PICK l \in Locks : at' = [at EXCEPT ![t] = l]
      BY Zenon, <2>1 DEF Call
    <3>2. PICK to \in Spinning : pc' = [pc EXCEPT ![t] = to]
      BY Zenon, <2>1 DEF Call, Spinning
    <3>3. to \in Places /\ to # "out"
      BY Zenon, <3>2 DEF Spinning, Places
    <3> QED
      BY Zenon, <2>1, <3>1, <3>2, <3>3, <1>c DEF Call, Types, AtInv
  <2>2. CASE Return(t) \/ Wait(t)
    BY Zenon, <2>2, <2>p, <1>c DEF Return, Wait, Types, Places, Spinning, Waits, Kept
  <2>3. CASE Spin(t)
    BY Zenon, <2>3, <2>p, <1>c DEF Spin, Types, Places, Inside, Kept
  <2>4. CASE RlockTake(t) \/ Canrlock(t) \/ WlockTake(t)
    BY Zenon, <2>4, <2>c, <2>p, <2>x, <1>c DEF RlockTake, Canrlock, WlockTake, Types, Places, Kept
  <2>5. ASSUME NEW r \in Nodes, NEW st \in {"QueueingR", "QueueingW"}, pc[t] # "out",
               NEW nt \in Nodes \cup {Nil}, Hang(t, r, st, nt)
        PROVE  /\ head' \in [Locks -> Nodes \cup {Nil}] /\ tail' \in [Locks -> Nodes \cup {Nil}]
               /\ node' \in [Nodes -> NodeType]
               /\ owner' \in [Nodes -> Locks \cup {NoLock}]
               /\ stray' \in BOOLEAN
    <3>1. /\ head' \in [Locks -> Nodes \cup {Nil}] /\ tail' \in [Locks -> Nodes \cup {Nil}]
          /\ owner' \in [Nodes -> Locks \cup {NoLock}] /\ stray' \in BOOLEAN
      <4>1. /\ head' = head \/ head' = [head EXCEPT ![at[t]] = r]
            /\ stray' = stray \/ stray' = (stray \/ owner'[tail[at[t]]] # at[t])
            /\ tail' = [tail EXCEPT ![at[t]] = nt] /\ owner' = [owner EXCEPT ![r] = at[t]]
        BY Zenon, <2>5 DEF Hang
      <4>2. stray' \in BOOLEAN
        BY Zenon, <4>1, <1>c DEF Types
      <4>3. at[t] \in Locks
        BY Zenon, <2>5, <1>c
      <4>4. head' \in [Locks -> Nodes \cup {Nil}]
        BY Zenon, <4>1, <1>c DEF Types
      <4>5. tail' \in [Locks -> Nodes \cup {Nil}] /\ owner' \in [Nodes -> Locks \cup {NoLock}]
        BY Zenon, <4>1, <4>3, <1>c DEF Types
      <4> QED
        BY Zenon, <4>2, <4>4, <4>5
    <3>2. node' \in [Nodes -> NodeType]
      BY <2>5, <1>c DEF Hang, Types, NodeType
    <3> QED
      BY Zenon, <3>1, <3>2
  <2>6. CASE RlockEnqueue(t)
    BY Zenon, <2>5, <2>6, <2>p, <1>c DEF RlockEnqueue, Types, Places, Waits, Kept
  <2>7. CASE WlockEnqueue(t)
    BY Zenon, <2>5, <2>7, <2>p, <1>c DEF WlockEnqueue, Types, Places, Waits, Kept
  <2>8. CASE RunlockReturn(t) \/ RunlockPanic(t) \/ WunlockFree(t) \/ WakeDone(t)
    BY Zenon, <2>8, <2>c, <2>p, <2>x, <1>c
    DEF RunlockReturn, RunlockPanic, WunlockFree, WakeDone, TailReset, Types, Places, Inside, Kept
  <2>9. ASSUME Unhang(t), pc[t] # "out", head[at[t]] # Nil
        PROVE  /\ head' \in [Locks -> Nodes \cup {Nil}]
               /\ node' \in [Nodes -> NodeType] /\ owner' \in [Nodes -> Locks \cup {NoLock}]
               /\ dst' \in [Threads -> Threads \cup {NoThread}]
               /\ stray' \in BOOLEAN
    <3>1. First(t).tid \in Threads \cup {NoThread} /\ Second(t) \in Nodes \cup {Nil}
      BY <2>9, <1>c DEF First, Second, NodeType, Types
    <3> QED
      BY Zenon, <3>1, <2>9, <1>c DEF Unhang, Types
  <2>10. CASE RunlockHandOver(t) \/ WunlockHandOver(t)
    <3>1. pc[t] # "out" /\ Unhang(t) /\ head[at[t]] # Nil /\ panicking' \in BOOLEAN
      BY Zenon, <2>10, <1>c DEF RunlockHandOver, WunlockHandOver, Last, PanicIf, Types
    <3>2. Kept
      BY Zenon, <2>10, <3>1, <2>p DEF RunlockHandOver, WunlockHandOver, Unhang, Places
    <3>3. tail' \in [Locks -> Nodes \cup {Nil}]
      BY Zenon, <2>10, <3>1, <1>c DEF RunlockHandOver, WunlockHandOver, TailReset, Types
    <3>4. /\ readers' \in [Locks -> Int]
          /\ writer' \in [Locks -> {0, 1}]
          /\ key' \in [Locks -> {0, 1}]
      BY Zenon, <2>10, <3>1, <2>c, <1>c DEF RunlockHandOver, WunlockHandOver, Types
    <3> QED
      BY Zenon, <3>1, <3>2, <3>3, <3>4, <2>9 DEF Types, Kept
  <2>11. CASE WunlockReaders(t)
    BY Zenon, <2>11, <2>p, <1>c DEF WunlockReaders, PanicIf, Types, Places, Inside, Kept
  <2>12. CASE WakeReader(t)
    BY Zenon, <2>12, <2>9, <2>c, <2>p, <1>c
    DEF WakeReader, ReaderFirst, Unhang, Types, Places, Inside, Kept
  <2>13. ASSUME NEW r \in Threads, L4Rendezvous(t, r) PROVE Types' /\ AtInv'
    <3>1. Types'
      BY Zenon, <2>13, <1>c DEF L4Rendezvous, Types, Places, Inside
    <3>2. AtInv'
      BY <2>13, <1>c DEF L4Rendezvous, Types, AtInv
    <3> QED
      BY Zenon, <3>1, <3>2
  <2> QED
    BY Zenon, <1>2, <2>1, <2>2, <2>3, <2>4, <2>6, <2>7, <2>8, <2>10, <2>11, <2>12, <2>13
    DEF Thread
<1> QED
  BY Zenon, <1>1, <1>2 DEF Next

-----------------------------------------------------------------------------
(* A set of threads can be counted; one more and one less change the count *)
(* by one.                                                                 *)
LEMMA CountFacts ==
  ASSUME NEW S \in SUBSET Threads
  PROVE  /\ IsFiniteSet(S)
         /\ Cardinality(S) \in 0..Cardinality(Threads)
         /\ \A x \in Threads \ S : Cardinality(S \cup {x}) = Cardinality(S) + 1
         /\ \A x \in S : Cardinality(S \ {x}) = Cardinality(S) - 1
         /\ Cardinality(S) = 0 <=> S = {}
<1>1. IsFiniteSet(S)
  BY Zenon, FS_Subset, RWLockAssumption
<1>2. Cardinality(S) \in Nat /\ Cardinality(Threads) \in Nat
      /\ Cardinality(S) <= Cardinality(Threads)
  BY Zenon, <1>1, FS_Subset, FS_CardinalityType, RWLockAssumption
<1>3. \A x \in Threads \ S : Cardinality(S \cup {x}) = Cardinality(S) + 1
  BY Zenon, <1>1, FS_AddElement
<1>4. \A x \in S : Cardinality(S \ {x}) = Cardinality(S) - 1
  BY Zenon, <1>1, FS_RemoveElement
<1>5. Cardinality(S) = 0 <=> S = {}
  BY Zenon, <1>1, FS_EmptySet
<1> QED
  BY <1>1, <1>2, <1>3, <1>4, <1>5

-----------------------------------------------------------------------------
(* use.key follows the thread inside. *)
LEMMA SpinStep == Good /\ [Next]_vars => SpinInv'
<1> SUFFICES ASSUME Good, [Next]_vars PROVE SpinInv'
  BY Zenon
<1>t. Types /\ SpinInv /\ \A t \in Threads : pc[t] # "out" => at[t] \in Locks
  BY Zenon, GoodTypes DEF Good
<1> DEFINE In(u, l) == pc[u] \in Inside /\ at[u] = l
<1>i. /\ \A u, v \in Threads, l \in Locks : In(u, l) /\ In(v, l) => u = v
      /\ \A l \in Locks : key[l] = 1 <=> \E u \in Threads : In(u, l)
  BY Zenon, <1>t DEF SpinInv
<1>s. ASSUME \A u, v \in Threads, l \in Locks : In(u, l)' /\ In(v, l)' => u = v,
             \A l \in Locks : key'[l] = 1 <=> \E u \in Threads : In(u, l)'
      PROVE  SpinInv'
  <2>1. \A u \in Threads : pc'[u] \in Inside => at'[u] \in Locks
    <3>1. Types' /\ AtInv'
      BY Zenon, TypesStep
    <3> QED
      BY Zenon, <3>1 DEF Types, AtInv, Inside
  <2> QED
    BY Zenon, <1>s, <2>1 DEF SpinInv
<1>same. ASSUME key' = key, \A u \in Threads, l \in Locks : In(u, l)' <=> In(u, l)
         PROVE  SpinInv'
  <2> HIDE DEF In
  <2>5. \A u, v \in Threads, l \in Locks : In(u, l)' /\ In(v, l)' => u = v
    BY Zenon, <1>same, <1>i
  <2>6. \A l \in Locks : key'[l] = 1 <=> \E u \in Threads : In(u, l)'
    BY Zenon, <1>same, <1>i
  <2> QED
    BY Zenon, <1>s, <2>5, <2>6
<1>take. ASSUME NEW t \in Threads, pc[t] \in Spinning, key[at[t]] = 0, at' = at,
                key' = [key EXCEPT ![at[t]] = 1], NEW to \in Inside, pc' = [pc EXCEPT ![t] = to]
         PROVE  SpinInv'
  <2>1. at[t] \in Locks /\ pc[t] \notin Inside
    BY Zenon, <1>take, <1>t DEF Spinning, Inside
  <2>2. \A u \in Threads, l \in Locks : In(u, l)' <=> In(u, l) \/ (u = t /\ l = at[t])
    BY Zenon, <1>take, <2>1, <1>t DEF Types
  <2>3. \A u \in Threads : ~In(u, at[t])
    BY <1>take, <2>1, <1>i
  <2>4. key'[at[t]] = 1 /\ \A l \in Locks \ {at[t]} : key'[l] = key[l]
    BY Zenon, <1>take, <2>1, <1>t DEF Types
  <2> HIDE DEF In
  <2>5. \A u, v \in Threads, l \in Locks : In(u, l)' /\ In(v, l)' => u = v
    <3> SUFFICES ASSUME NEW u \in Threads, NEW v \in Threads, NEW l \in Locks,
                        In(u, l)', In(v, l)'
                 PROVE  u = v
      BY Zenon
    <3>1. CASE l = at[t]
      BY Zenon, <3>1, <2>2, <2>3
    <3>2. CASE l # at[t]
      BY Zenon, <3>2, <1>i, <2>2
    <3> QED
      BY Zenon, <3>1, <3>2
  <2>6. \A l \in Locks : key'[l] = 1 <=> \E u \in Threads : In(u, l)'
    <3> TAKE l \in Locks
    <3>1. CASE l = at[t]
      BY Zenon, <3>1, <1>i, <2>1, <2>2, <2>3, <2>4
    <3>2. CASE l # at[t]
      <4>1. key'[l] = key[l] /\ \A u \in Threads : In(u, l)' <=> In(u, l)
        BY Zenon, <3>2, <2>2, <2>4
      <4> QED
        BY Zenon, <4>1, <1>i
    <3> QED
      BY Zenon, <3>1, <3>2
  <2> QED
    BY Zenon, <1>s, <2>5, <2>6
<1>leave. ASSUME NEW t \in Threads, pc[t] \in Inside, key' = [key EXCEPT ![at[t]] = 0],
                 NEW to \in Places \ Inside, pc' = [pc EXCEPT ![t] = to],
                 at' = at \/ at' = [at EXCEPT ![t] = NoLock]
          PROVE  SpinInv'
  <2>1. at[t] \in Locks /\ In(t, at[t])
    BY Zenon, <1>leave, <1>t DEF Inside
  <2>2. \A u \in Threads, l \in Locks : In(u, l)' <=> In(u, l) /\ u # t
    BY Zenon, <1>leave, <2>1, <1>t DEF Types
  <2>3. key'[at[t]] # 1 /\ \A l \in Locks \ {at[t]} : key'[l] = key[l]
    BY <1>leave, <2>1, <1>t DEF Types
  <2>4. \A l \in Locks : In(t, l) => l = at[t]
    BY Zenon
  <2> HIDE DEF In
  <2>5. \A u, v \in Threads, l \in Locks : In(u, l)' /\ In(v, l)' => u = v
    BY Zenon, <1>i, <2>1, <2>2, <2>3
  <2>6. \A l \in Locks : key'[l] = 1 <=> \E u \in Threads : In(u, l)'
    <3> TAKE l \in Locks
    <3>1. CASE l = at[t]
      BY Zenon, <3>1, <1>i, <2>1, <2>2, <2>3, <2>4
    <3>2. CASE l # at[t]
      <4>1. key'[l] = key[l] /\ \A u \in Threads : In(u, l)' <=> In(u, l)
        BY Zenon, <3>2, <2>2, <2>3, <2>4
      <4> QED
        BY Zenon, <4>1, <1>i
    <3> QED
      BY Zenon, <3>1, <3>2
  <2> QED
    BY Zenon, <1>s, <2>5, <2>6
<1> USE DEF Goto, Exit, lock, unlock
<1>1. CASE UNCHANGED vars
  BY Zenon, <1>1, <1>same DEF vars
<1>2. ASSUME NEW t \in Threads, Call(t) \/ Thread(t)
      PROVE  SpinInv'
  <2>m. ASSUME key' = key, \A u \in Threads \ {t} : pc'[u] = pc[u] /\ at'[u] = at[u],
               pc'[t] \in Inside <=> pc[t] \in Inside, pc[t] \in Inside => at'[t] = at[t]
        PROVE  SpinInv'
    BY Zenon, <2>m, <1>same
  <2>1. CASE Call(t)
    BY Zenon, <2>1, <2>m, <1>t DEF Call, Types, Inside
  <2>2. CASE Return(t) \/ Wait(t)
    BY Zenon, <2>2, <2>m, <1>t DEF Return, Wait, Types, Inside
  <2>3. CASE Spin(t)
    BY Zenon, <2>3, <1>take DEF Spin, Spinning, Inside
  <2>4. CASE RlockTake(t) \/ Canrlock(t) \/ WlockTake(t) \/ RlockEnqueue(t) \/ WlockEnqueue(t)
    <3>1. /\ pc[t] \in Inside /\ key' = [key EXCEPT ![at[t]] = 0]
          /\ at' = at \/ at' = [at EXCEPT ![t] = NoLock]
      BY Zenon, <2>4 DEF RlockTake, Canrlock, WlockTake, RlockEnqueue, WlockEnqueue, Inside
    <3>2. PICK to \in {"reading", "writing", "out", "renq", "wenq"} : pc' = [pc EXCEPT ![t] = to]
      BY Zenon, <2>4 DEF RlockTake, Canrlock, WlockTake, RlockEnqueue, WlockEnqueue
    <3>3. to \in Places \ Inside
      BY Zenon, <3>2 DEF Places, Inside, Waits
    <3> QED
      BY Zenon, <3>1, <3>2, <3>3, <1>leave
  <2>5. CASE \/ RunlockReturn(t) \/ WunlockFree(t) \/ WakeDone(t)
             \/ RunlockHandOver(t) \/ WunlockHandOver(t)
    <3>1. /\ pc[t] \in Inside /\ key' = [key EXCEPT ![at[t]] = 0]
          /\ at' = at \/ at' = [at EXCEPT ![t] = NoLock]
      BY Zenon, <2>5 DEF RunlockReturn, WunlockFree, WakeDone, RunlockHandOver, WunlockHandOver,
                         Unhang, Inside
    <3>2. PICK to \in {"out", "send"} : pc' = [pc EXCEPT ![t] = to]
      BY Zenon, <2>5 DEF RunlockReturn, WunlockFree, WakeDone, RunlockHandOver, WunlockHandOver
    <3>3. to \in Places \ Inside
      BY Zenon, <3>2 DEF Places, Inside
    <3> QED
      BY Zenon, <3>1, <3>2, <3>3, <1>leave
  <2>6. CASE WunlockReaders(t) \/ RunlockPanic(t) \/ WakeReader(t)
    BY Zenon, <2>6, <2>m, <1>t DEF WunlockReaders, RunlockPanic, WakeReader, Unhang, Types, Inside
  <2>7. ASSUME NEW r \in Threads, L4Rendezvous(t, r) PROVE SpinInv'
    <3>1. \A u \in Threads : /\ pc'[u] \in Inside <=> pc[u] \in Inside
                             /\ pc[u] \in Inside => at'[u] = at[u]
      BY <2>7, <1>t DEF L4Rendezvous, Types, Inside
    <3> QED
      BY Zenon, <2>7, <3>1, <1>same DEF L4Rendezvous
  <2> QED
    BY Zenon, <1>2, <2>1, <2>2, <2>3, <2>4, <2>5, <2>6, <2>7 DEF Thread
<1> QED
  BY Zenon, <1>1, <1>2 DEF Next

-----------------------------------------------------------------------------
(* CountInv and ReaderWriterExclusion for one lock, by its sets of readers *)
(* and writers.                                                            *)
Fine(l) ==
  /\ readers[l] = Cardinality(Readers(l))
  /\ writer[l] = 1 <=> Writers(l) # {}
  /\ \A s, u \in Writers(l) : u = s
  /\ \A s \in Writers(l) : Readers(l) # {} => pc[s] \in Waking

LEMMA GoodFine == Good => \A l \in Locks : Fine(l)
<1> SUFFICES ASSUME Good, NEW l \in Locks PROVE Fine(l)
  BY Zenon
<1>1. \A s, u \in Writers(l) : u = s
  BY Zenon DEF Good, ReaderWriterExclusion, Writers
<1>2. ASSUME NEW s \in Writers(l), NEW r \in Readers(l) PROVE pc[s] \in Waking
  <2>1. s # r
    BY Zenon, <1>2 DEF Writers, Readers, Writing, Reading
  <2> QED
    BY Zenon, <1>2, <2>1 DEF Good, ReaderWriterExclusion, Writers, Readers, Waking
<1> QED
  BY Zenon, <1>1, <1>2 DEF Good, CountInv, Fine

LEMMA Enough ==
  Types /\ AtInv /\ SpinInv /\ NodesInv /\ LinksInv /\ SendInv /\ (\A l \in Locks : Fine(l)) => Good
<1> SUFFICES ASSUME Types, AtInv, SpinInv, NodesInv, LinksInv, SendInv, \A l \in Locks : Fine(l)
             PROVE  Good
  BY Zenon
<1>1. CountInv
  BY Zenon DEF CountInv, Fine
<1>2. readers \in [Locks -> 0..Cardinality(Threads)]
  <2>1. \A l \in Locks : readers[l] \in 0..Cardinality(Threads)
    <3> TAKE l \in Locks
    <3>1. Readers(l) \in SUBSET Threads
      BY Zenon DEF Readers
    <3> QED
      BY Zenon, <3>1, CountFacts DEF Fine
  <2> QED
    BY Zenon, <2>1 DEF Types
<1>3. TypeOK
  BY Zenon, <1>2 DEF TypeOK, Types, NodeType
<1>4. ReaderWriterExclusion
  <2> SUFFICES ASSUME NEW s \in Threads, NEW t \in Threads, s # t, at[s] = at[t], Writing(s)
               PROVE  ~Writing(t) /\ (Reading(t) => pc[s] \in Waking)
    BY Zenon DEF ReaderWriterExclusion, Waking
  <2>1. at[s] \in Locks
    <3>1. CASE pc[s] # "out"
      BY Zenon, <3>1 DEF AtInv, Types
    <3>2. pc[s] # "out"
      BY Zenon DEF Writing
    <3> QED
      BY Zenon, <3>1, <3>2
  <2>2. PICK l \in Locks : l = at[s]
    BY Zenon, <2>1
  <2>3. s \in Writers(l) /\ (Writing(t) => t \in Writers(l)) /\ (Reading(t) => t \in Readers(l))
    BY Zenon, <2>2 DEF Writers, Readers
  <2> QED
    BY Zenon, <2>3 DEF Fine
<1> QED
  BY Zenon, <1>1, <1>3, <1>4 DEF Good

(* What is left to show of a step. *)
LEMMA EnoughNext ==
  ASSUME Types', AtInv', SpinInv', NodesInv', LinksInv', SendInv', \A l \in Locks : Fine(l)'
  PROVE  Good'
<1>1. (\A l \in Locks : Fine(l))'
  BY Zenon
<1> QED
  BY <1>1, Enough, PTL

(* A lock whose counters, readers and writers a step leaves alone. *)
LEMMA FineKept ==
  ASSUME NEW l \in Locks, Fine(l), readers'[l] = readers[l], writer'[l] = writer[l],
         Readers(l)' = Readers(l), Writers(l)' = Writers(l),
         \A s \in Writers(l) : pc[s] \in Waking => pc'[s] \in Waking
  PROVE  Fine(l)'
BY Zenon DEF Fine

(* One reader more, and no writer but one that wakes the readers. *)
LEMMA ReaderIn ==
  ASSUME NEW l \in Locks, Fine(l), NEW r \in Threads \ Readers(l),
         readers'[l] = readers[l] + 1, writer'[l] = writer[l],
         Readers(l)' = Readers(l) \cup {r}, Writers(l)' = Writers(l),
         \A s \in Writers(l) : pc'[s] \in Waking
  PROVE  Fine(l)'
<1>1. Readers(l) \in SUBSET Threads
  BY Zenon DEF Readers
<1>2. Cardinality(Readers(l) \cup {r}) = Cardinality(Readers(l)) + 1
  BY Zenon, <1>1, CountFacts
<1>3. readers'[l] = Cardinality(Readers(l)')
  BY Zenon, <1>2 DEF Fine
<1> QED
  BY Zenon, <1>3 DEF Fine

(* One reader less. *)
LEMMA ReaderOut ==
  ASSUME NEW l \in Locks, Fine(l), NEW r \in Readers(l),
         readers'[l] = readers[l] - 1, Readers(l)' = Readers(l) \ {r}
  PROVE  /\ readers'[l] = Cardinality(Readers(l)')
         /\ readers[l] - 1 <= 0 => Readers(l)' = {}
<1>1. Readers(l) \in SUBSET Threads /\ Readers(l) \ {r} \in SUBSET Threads
  BY Zenon DEF Readers
<1>2. Cardinality(Readers(l) \ {r}) = Cardinality(Readers(l)) - 1
  BY Zenon, <1>1, CountFacts
<1>3. readers[l] = Cardinality(Readers(l))
  BY Zenon DEF Fine
<1>4. readers'[l] = Cardinality(Readers(l)')
  BY Zenon, <1>2, <1>3
<1>5. /\ Cardinality(Readers(l)) \in Nat /\ Cardinality(Readers(l) \ {r}) \in Nat
      /\ Cardinality(Readers(l) \ {r}) = 0 <=> Readers(l) \ {r} = {}
  BY Zenon, <1>1, CountFacts, FS_CardinalityType
<1>6. readers[l] - 1 <= 0 => Cardinality(Readers(l) \ {r}) = 0
  BY <1>2, <1>3, <1>5
<1> QED
  BY Zenon, <1>4, <1>5, <1>6

(* The locks a step of a thread with lock k does not touch. *)
LEMMA Elsewhere ==
  ASSUME Good, NEW k \in Locks,
         \A l \in Locks \ {k} : readers'[l] = readers[l] /\ writer'[l] = writer[l],
         \A u \in Threads : \/ at[u] = k /\ at'[u] \in {k, NoLock}
                            \/ at'[u] = at[u] /\ pc'[u] = pc[u] /\ (Sent(u)' <=> Sent(u))
  PROVE  \A l \in Locks \ {k} : Fine(l)'
<1> TAKE l \in Locks \ {k}
<1>0. l # NoLock /\ Fine(l)
  BY Zenon, GoodFine, RWLockAssumption
<1>1. \A u \in Threads : at'[u] = l <=> at[u] = l
  BY Zenon, <1>0
<1>2. \A u \in Threads : at[u] = l => pc'[u] = pc[u] /\ (Sent(u)' <=> Sent(u))
  BY Zenon
<1>3. Readers(l)' = Readers(l) /\ Writers(l)' = Writers(l)
  <2>1. \A u \in Threads : at[u] = l => (Reading(u)' <=> Reading(u)) /\ (Writing(u)' <=> Writing(u))
    BY Zenon, <1>2 DEF Reading, Writing
  <2> QED
    BY Zenon, <1>1, <2>1 DEF Readers, Writers
<1>4. \A s \in Writers(l) : pc'[s] = pc[s]
  BY Zenon, <1>2 DEF Writers
<1> QED
  BY Zenon, <1>0, <1>3, <1>4, FineKept

-----------------------------------------------------------------------------
(* The step leaves the sends in flight and the waiters as they are. *)
SameSends ==
  /\ dst' = dst
  /\ \A u \in Threads : /\ pc'[u] \in Sending <=> pc[u] \in Sending
                        /\ pc'[u] \in ReadWaits <=> pc[u] \in ReadWaits
                        /\ pc'[u] \in WriteWaits <=> pc[u] \in WriteWaits
                        /\ pc[u] \in Sending \cup Waits => at'[u] = at[u]

(* A thread that neither sends nor waits moves on. *)
LEMMA MoveSends ==
  ASSUME NEW t \in Threads, dst' = dst, \A u \in Threads \ {t} : pc'[u] = pc[u] /\ at'[u] = at[u],
         {pc[t], pc'[t]} \cap (Sending \cup Waits) = {}
  PROVE  SameSends
<1>1. {pc[t], pc'[t]} \cap (Sending \cup ReadWaits \cup WriteWaits) = {}
  BY Zenon DEF Waits, ReadWaits, WriteWaits
<1> QED
  BY Zenon, <1>1 DEF SameSends

(* Such a step grants nobody anything by message, and keeps the facts      *)
(* about the lists, if it leaves the lists alone, and about the sends.     *)
LEMMA SameSendsKeeps ==
  ASSUME Good, SameSends
  PROVE  /\ \A u \in Threads : Sent(u)' <=> Sent(u)
         /\ SendInv'
         /\ UNCHANGED <<head, node, owner>> => NodesInv' /\ LinksInv'
<1>1. \A u \in Threads : Sent(u)' <=> Sent(u)
  BY Zenon DEF SameSends, Sent, Sending
<1>2. SendInv'
  <2>1. \A s \in Threads : pc'[s] \in Waits <=> pc[s] \in Waits
    BY Zenon DEF SameSends, Waits, ReadWaits, WriteWaits
  <2>2. SendsMeet'
    BY Zenon, <2>1 DEF Good, SendInv, SendsMeet, SameSends, Sending
  <2> QED
    BY Zenon, <2>2 DEF Good, SendInv, SameSends, Sending
<1>3. ASSUME UNCHANGED <<head, node, owner>> PROVE NodesInv' /\ LinksInv'
  <2>1. Used' = Used
    BY Zenon, <1>3 DEF Used
  <2>2. ASSUME NEW a \in Used PROVE NamesWaiter(a)'
    <3>1. NamesWaiter(a)
      BY Zenon DEF Good, NodesInv
    <3>2. pc[node[a].tid] \in Waits /\ node[a].tid \in Threads
      BY Zenon, <3>1 DEF NamesWaiter, Waits
    <3>3. at'[node[a].tid] = at[node[a].tid]
      BY Zenon, <3>2 DEF SameSends
    <3> QED
      BY Zenon, <3>1, <3>2, <3>3, <1>1, <1>3 DEF NamesWaiter, SameSends, ReadWaits, WriteWaits
  <2>3. NodesInv'
    BY Zenon, <2>1, <2>2, <1>3 DEF Good, NodesInv
  <2>4. LinksInv'
    BY Zenon, <2>1, <1>3 DEF Good, LinksInv
  <2> QED
    BY Zenon, <2>3, <2>4
<1> QED
  BY Zenon, <1>1, <1>2, <1>3

(* A step that changes neither counters nor lists, nor who is inside. *)
LEMMA QuietStep ==
  ASSUME Good, Types', AtInv', SpinInv', SameSends,
         UNCHANGED <<readers, writer, head, node, owner>>,
         \A u \in Threads : /\ Reading(u)' <=> Reading(u)
                            /\ Writing(u)' <=> Writing(u)
                            /\ Reading(u) \/ Writing(u) => at'[u] = at[u]
                            /\ pc[u] \in Waking => pc'[u] \in Waking
  PROVE  Good'
<1>1. NodesInv' /\ LinksInv' /\ SendInv'
  BY Zenon, SameSendsKeeps
<1>2. ASSUME NEW l \in Locks PROVE Fine(l)'
  <2>1. Readers(l)' = Readers(l) /\ Writers(l)' = Writers(l)
    BY Zenon DEF Readers, Writers
  <2>2. \A s \in Writers(l) : pc[s] \in Waking => pc'[s] \in Waking
    BY Zenon DEF Writers
  <2> QED
    BY Zenon, <2>1, <2>2, GoodFine, FineKept
<1> QED
  BY Zenon, <1>1, <1>2, EnoughNext

(* Granting the lock at once, in rlock, canrlock and wlock. *)
LEMMA TakeStep ==
  ASSUME Good, Types', AtInv', SpinInv', NEW t \in Threads,
         RlockTake(t) \/ Canrlock(t) \/ WlockTake(t)
  PROVE  Good'
<1> USE DEF Goto, Exit, unlock, list, flags
<1>t. PICK k \in Locks : k = at[t] /\ Types /\ Fine(k)
  BY Zenon, GoodTypes, GoodFine DEF RlockTake, Canrlock, WlockTake
<1>m. /\ \A u \in Threads \ {t} : pc'[u] = pc[u] /\ at'[u] = at[u]
      /\ pc'[t] \in {"reading", "writing", "out"}
      /\ pc[t] \in {"rlock_cs", "canrlock_cs", "wlock_cs"}
  <2>1. /\ at' = at \/ at' = [at EXCEPT ![t] = NoLock]
        /\ \E to \in {"reading", "writing", "out"} : pc' = [pc EXCEPT ![t] = to]
        /\ pc[t] \in {"rlock_cs", "canrlock_cs", "wlock_cs"}
    BY Zenon DEF RlockTake, Canrlock, WlockTake
  <2> QED
    BY Zenon, <2>1, <1>t DEF Types
<1>s. SameSends /\ UNCHANGED <<head, node, owner>>
  <2>1. {pc[t], pc'[t]} \cap (Sending \cup Waits) = {}
    BY Zenon, <1>m DEF Sending, Waits
  <2>2. dst' = dst /\ UNCHANGED <<head, node, owner>>
    BY Zenon DEF RlockTake, Canrlock, WlockTake
  <2> QED
    BY Zenon, <1>m, <2>1, <2>2, MoveSends
<1>k. NodesInv' /\ LinksInv' /\ SendInv' /\ \A u \in Threads : Sent(u)' <=> Sent(u)
  BY Zenon, <1>s, SameSendsKeeps
<1>1. ASSUME readers' = [readers EXCEPT ![k] = @ + 1], NoWriter(t), writer' = writer, at' = at,
             pc[t] \in {"rlock_cs", "canrlock_cs"}, pc' = [pc EXCEPT ![t] = "reading"]
      PROVE  Good'
  <2>0. /\ readers'[k] = readers[k] + 1 /\ writer'[k] = writer[k] /\ writer[k] # 1
        /\ \A l \in Locks \ {k} : readers'[l] = readers[l] /\ writer'[l] = writer[l]
    BY <1>1, <1>t DEF Types, NoWriter
  <2>1. Writers(k) = {}
    BY Zenon, <2>0, <1>t DEF Fine
  <2>2. t \notin Readers(k)
    BY Zenon, <1>1 DEF Readers, Reading
  <2>3. \A u \in Threads : /\ Reading(u)' <=> Reading(u) \/ u = t
                           /\ Writing(u)' <=> Writing(u)
    BY Zenon, <1>1, <1>k, <1>t DEF Reading, Writing, Types
  <2>4. Readers(k)' = Readers(k) \cup {t} /\ Writers(k)' = Writers(k)
    BY Zenon, <2>3, <1>1, <1>t DEF Readers, Writers
  <2>5. Fine(k)'
    BY Zenon, <1>t, <2>0, <2>1, <2>2, <2>4, ReaderIn
  <2>6. \A l \in Locks \ {k} : Fine(l)'
    BY Zenon, <1>1, <1>t, <1>k, <2>0, Elsewhere DEF Types
  <2> QED
    BY Zenon, <1>k, <2>5, <2>6, EnoughNext
<1>2. ASSUME UNCHANGED <<readers, writer>>, pc[t] = "canrlock_cs", pc' = [pc EXCEPT ![t] = "out"],
             at' = [at EXCEPT ![t] = NoLock]
      PROVE  Good'
  <2>1. \A u \in Threads : /\ Reading(u)' <=> Reading(u)
                           /\ Writing(u)' <=> Writing(u)
                           /\ Reading(u) \/ Writing(u) => at'[u] = at[u]
                           /\ pc[u] \in Waking => pc'[u] \in Waking
    BY Zenon, <1>2, <1>k, <1>t DEF Reading, Writing, Types, Waking
  <2> QED
    BY Zenon, <1>2, <1>s, <2>1, QuietStep
<1>3. CASE WlockTake(t)
  <2>0. /\ readers' = readers /\ writer'[k] = 1 /\ writer[k] # 1 /\ readers[k] = 0
        /\ \A l \in Locks \ {k} : readers'[l] = readers[l] /\ writer'[l] = writer[l]
    BY <1>3, <1>t DEF WlockTake, Nobody, Types
  <2>p. pc[t] = "wlock_cs" /\ pc' = [pc EXCEPT ![t] = "writing"] /\ at' = at
    BY Zenon, <1>3 DEF WlockTake
  <2>1. Writers(k) = {}
    BY Zenon, <2>0, <1>t DEF Fine
  <2>2. Readers(k) = {}
    <3>1. Readers(k) \in SUBSET Threads
      BY Zenon DEF Readers
    <3> QED
      BY Zenon, <3>1, <2>0, <1>t, CountFacts DEF Fine
  <2>3. \A u \in Threads : /\ Reading(u)' <=> Reading(u)
                           /\ Writing(u)' <=> Writing(u) \/ u = t
    BY Zenon, <2>p, <1>k, <1>t DEF Reading, Writing, Types
  <2>4. Readers(k)' = Readers(k) /\ Writers(k)' = {t}
    BY Zenon, <2>1, <2>3, <2>p, <1>t DEF Readers, Writers
  <2>5. Fine(k)'
    BY Zenon, <1>t, <2>0, <2>2, <2>4 DEF Fine
  <2>6. \A l \in Locks \ {k} : Fine(l)'
    BY Zenon, <1>t, <1>k, <2>0, <2>p, Elsewhere DEF Types
  <2> QED
    BY Zenon, <1>k, <2>5, <2>6, EnoughNext
<1> QED
  BY Zenon, <1>t, <1>1, <1>2, <1>3 DEF RlockTake, Canrlock

(* Leaving without waking anybody, in runlock and wunlock. *)
LEMMA LeaveStep ==
  ASSUME Good, Types', AtInv', SpinInv', NEW t \in Threads,
         RunlockReturn(t) \/ RunlockPanic(t) \/ WunlockFree(t) \/ WakeDone(t)
  PROVE  Good'
<1> USE DEF Goto, Exit, unlock, list, flags
<1>t. PICK k \in Locks : k = at[t] /\ Types /\ Fine(k)
  BY Zenon, GoodTypes, GoodFine DEF RunlockReturn, RunlockPanic, WunlockFree, WakeDone
<1>a. /\ at' = at \/ at' = [at EXCEPT ![t] = NoLock]
      /\ \E to \in {"out", "panic"} : pc' = [pc EXCEPT ![t] = to]
      /\ pc[t] \in {"runlock_cs", "wunlock_cs", "wakeloop"}
  BY Zenon DEF RunlockReturn, RunlockPanic, WunlockFree, WakeDone
<1>b. \A u \in Threads \ {t} : at'[u] = at[u] /\ pc'[u] = pc[u]
  BY Zenon, <1>a, <1>t DEF Types
<1>c. at'[t] \in {k, NoLock} /\ pc'[t] \in {"out", "panic"}
  BY Zenon, <1>a, <1>t DEF Types
<1>s. SameSends /\ UNCHANGED <<head, node, owner>>
  <2>1. {pc[t], pc'[t]} \cap (Sending \cup Waits) = {}
    BY Zenon, <1>a, <1>c DEF Sending, Waits
  <2>2. dst' = dst /\ UNCHANGED <<head, node, owner>>
    BY Zenon DEF RunlockReturn, RunlockPanic, WunlockFree, WakeDone
  <2> QED
    BY Zenon, <1>b, <2>1, <2>2, MoveSends
<1>k. NodesInv' /\ LinksInv' /\ SendInv' /\ \A u \in Threads : Sent(u)' <=> Sent(u)
  BY Zenon, <1>s, SameSendsKeeps
<1>e. ASSUME \A l \in Locks \ {k} : readers'[l] = readers[l] /\ writer'[l] = writer[l]
      PROVE  \A l \in Locks \ {k} : Fine(l)'
  <2>1. \A u \in Threads : \/ at[u] = k /\ at'[u] \in {k, NoLock}
                           \/ at'[u] = at[u] /\ pc'[u] = pc[u] /\ (Sent(u)' <=> Sent(u))
    BY Zenon, <1>b, <1>c, <1>k, <1>t
  <2> QED
    BY Zenon, <1>e, <1>t, <2>1, Elsewhere
<1>o. ~Reading(t)' /\ ~Writing(t)'
  BY Zenon, <1>c DEF Reading, Writing
<1>r. /\ Readers(k)' = Readers(k) \ {t}
      /\ Writers(k)' = Writers(k) \ {t}
  <2>1. \A u \in Threads \ {t} : (Reading(u)' <=> Reading(u)) /\ (Writing(u)' <=> Writing(u))
    BY Zenon, <1>b, <1>k DEF Reading, Writing
  <2> QED
    BY Zenon, <2>1, <1>b, <1>o DEF Readers, Writers
<1>1. CASE RunlockReturn(t) \/ RunlockPanic(t)
  <2>1. /\ pc[t] = "runlock_cs" /\ readers' = [readers EXCEPT ![k] = @ - 1] /\ writer' = writer
    BY Zenon, <1>t, <1>1 DEF RunlockReturn, RunlockPanic
  <2>2. t \in Readers(k) /\ t \notin Writers(k)
    BY Zenon, <1>t, <2>1 DEF Readers, Reading, Writers, Writing
  <2>3. /\ readers'[k] = readers[k] - 1 /\ writer'[k] = writer[k]
        /\ \A l \in Locks \ {k} : readers'[l] = readers[l] /\ writer'[l] = writer[l]
    BY Zenon, <2>1, <1>t DEF Types
  <2>4. readers'[k] = Cardinality(Readers(k)')
    BY Zenon, <1>r, <1>t, <2>2, <2>3, ReaderOut
  <2>5. Writers(k)' = Writers(k) /\ \A s \in Writers(k) : pc'[s] = pc[s]
    BY Zenon, <1>r, <1>b, <2>2 DEF Writers
  <2>6. Fine(k)'
    BY Zenon, <1>r, <1>t, <2>3, <2>4, <2>5 DEF Fine
  <2> QED
    BY Zenon, <1>k, <1>e, <2>3, <2>6, EnoughNext
<1>2. CASE WunlockFree(t) \/ WakeDone(t)
  <2>1. /\ pc[t] \in {"wunlock_cs", "wakeloop"} /\ readers' = readers
        /\ writer' = [writer EXCEPT ![k] = 0]
    BY Zenon, <1>t, <1>2 DEF WunlockFree, WakeDone
  <2>2. t \in Writers(k) /\ t \notin Readers(k)
    BY Zenon, <1>t, <2>1 DEF Readers, Reading, Writers, Writing
  <2>3. /\ writer'[k] # 1
        /\ \A l \in Locks \ {k} : readers'[l] = readers[l] /\ writer'[l] = writer[l]
    BY <2>1, <1>t DEF Types
  <2>4. Writers(k)' = {} /\ Readers(k)' = Readers(k)
    BY Zenon, <1>r, <1>t, <2>2 DEF Fine
  <2>5. Fine(k)'
    BY Zenon, <1>t, <2>1, <2>3, <2>4 DEF Fine
  <2> QED
    BY Zenon, <1>k, <1>e, <2>3, <2>5, EnoughNext
<1> QED
  BY Zenon, <1>1, <1>2

-----------------------------------------------------------------------------
(* Hanging a fresh node for t on a node of its lock, or on none: no        *)
(* allocated node led to it, and an old q->tail, also one that is the      *)
(* fresh node itself, only redirects a link within the lock.               *)
LEMMA HangLinks ==
  ASSUME Good, NEW t \in Threads, NEW k \in Locks, k = at[t],
         NEW r \in Nodes, NEW st \in {"QueueingR", "QueueingW"}, NEW nt, Hang(t, r, st, nt), ~stray'
  PROVE  /\ LinksInv'
         /\ owner[r] = NoLock /\ owner'[r] = k /\ \A a \in Nodes \ {r} : owner'[a] = owner[a]
         /\ node'[r].tid = t /\ node'[r].state = st
         /\ \A a \in Used : node'[a].tid = node[a].tid /\ node'[a].state = node[a].state
<1> DEFINE fresh == [node EXCEPT ![r] = [tid |-> t, state |-> st, qnext |-> Nil]]
<1>t. Types /\ Nil \notin Nodes /\ NoLock \notin Locks
  BY Zenon, GoodTypes, RWLockAssumption
<1>u. owner[r] = NoLock /\ owner'[r] = k /\ \A a \in Nodes \ {r} : owner'[a] = owner[a]
  BY Zenon, <1>t DEF Hang, Types
<1>w. Used' = Used \cup {r} /\ r \notin Used
  BY Zenon, <1>u, <1>t DEF Used
<1>f. /\ fresh[r] = [tid |-> t, state |-> st, qnext |-> Nil]
      /\ \A a \in Nodes \ {r} : fresh[a] = node[a]
      /\ fresh \in [Nodes -> NodeType]
  BY <1>t DEF Types, NodeType
<1> HIDE DEF fresh
<1>l. /\ \A l \in Locks : head[l] # Nil => owner[head[l]] = l /\ head[l] \in Used
      /\ \A a \in Used : node[a].qnext # Nil =>
           /\ owner[node[a].qnext] = owner[a] /\ node[a].qnext \in Used
           /\ node[a].qnext # head[owner[a]]
      /\ \A a, b \in Used : node[a].qnext = node[b].qnext /\ node[a].qnext # Nil => a = b
      /\ \A a \in Used : owner[a] \in Locks
  <2>1. \A l \in Locks : head[l] # Nil => owner[head[l]] = l /\ head[l] \in Used
    <3>1. \A l \in Locks : head[l] \in Nodes \cup {Nil} /\ l # NoLock
      BY Zenon, <1>t DEF Types
    <3> QED
      BY Zenon, <3>1 DEF Good, LinksInv, Used
  <2>2. \A a \in Used : node[a].qnext \in Nodes \cup {Nil} /\ owner[a] \in Locks
    BY <1>t DEF Used, Types, NodeType
  <2>3. \A a \in Used : node[a].qnext # Nil => node[a].qnext \in Used
    BY Zenon, <2>2 DEF Good, LinksInv, Used
  <2> QED
    BY Zenon, <2>1, <2>2, <2>3 DEF Good, LinksInv
<1>1. CASE tail[k] = Nil
  <2>1. head' = [head EXCEPT ![k] = r] /\ node' = fresh
    BY Zenon, <1>1 DEF Hang, fresh
  <2>2. head'[k] = r /\ \A l \in Locks \ {k} : head'[l] = head[l]
    BY Zenon, <2>1, <1>t DEF Types
  <2>3. node'[r].qnext = Nil /\ node'[r].tid = t /\ node'[r].state = st
        /\ \A a \in Used : node'[a] = node[a]
    BY <2>1, <1>f, <1>w DEF Used
  <2>4. LinksInv'
    BY <2>2, <2>3, <1>t, <1>u, <1>w, <1>l DEF LinksInv, Used
  <2> QED
    BY Zenon, <2>3, <2>4, <1>u
<1>2. CASE tail[k] # Nil
  <2>0. tail[k] \in Nodes /\ owner'[tail[k]] = k
    <3>1. stray' = (stray \/ owner'[tail[k]] # k)
      BY Zenon, <1>2 DEF Hang
    <3> QED
      BY Zenon, <3>1, <1>2, <1>t DEF Types
  <2>1. head' = head /\ node' = [fresh EXCEPT ![tail[k]].qnext = r]
    BY Zenon, <1>2 DEF Hang, fresh
  <2>2. /\ node'[tail[k]].qnext = r
        /\ \A a \in Nodes : node'[a].tid = fresh[a].tid /\ node'[a].state = fresh[a].state
        /\ \A a \in Nodes \ {tail[k]} : node'[a].qnext = fresh[a].qnext
    BY <2>0, <2>1, <1>f DEF NodeType
  <2>3. /\ node'[r].tid = t /\ node'[r].state = st /\ node'[r].qnext \in {Nil, r}
        /\ r # tail[k] => node'[r].qnext = Nil
        /\ \A a \in Used : node'[a].tid = node[a].tid /\ node'[a].state = node[a].state
        /\ \A a \in Used \ {tail[k]} : node'[a].qnext = node[a].qnext
    BY <2>2, <1>f, <1>w DEF Used
  <2>4. LinksInv'
    BY <2>0, <2>1, <2>2, <2>3, <1>t, <1>u, <1>w, <1>l DEF LinksInv, Used
  <2> QED
    BY Zenon, <2>3, <2>4, <1>u
<1> QED
  BY Zenon, <1>1, <1>2

(* rlock and wlock join the list. *)
LEMMA EnqueueStep ==
  ASSUME Good, Types', AtInv', SpinInv', ~stray', NEW t \in Threads,
         RlockEnqueue(t) \/ WlockEnqueue(t)
  PROVE  Good'
<1> USE DEF Goto, unlock, counts
<1>t. PICK k \in Locks : k = at[t] /\ Types
  BY Zenon, GoodTypes DEF RlockEnqueue, WlockEnqueue
<1>h. PICK r \in Nodes, st \in {"QueueingR", "QueueingW"}, nt \in Nodes \cup {Nil} :
        /\ Hang(t, r, st, nt)
        /\ \/ st = "QueueingR" /\ pc[t] = "rlock_cs" /\ pc' = [pc EXCEPT ![t] = "renq"]
           \/ st = "QueueingW" /\ pc[t] = "wlock_cs" /\ pc' = [pc EXCEPT ![t] = "wenq"]
  BY Zenon, <1>t DEF RlockEnqueue, WlockEnqueue, Types
<1>l. /\ LinksInv'
      /\ owner[r] = NoLock /\ owner'[r] = k /\ \A a \in Nodes \ {r} : owner'[a] = owner[a]
      /\ node'[r].tid = t /\ node'[r].state = st
      /\ \A a \in Used : node'[a].tid = node[a].tid /\ node'[a].state = node[a].state
  BY <1>h, <1>t, HangLinks
<1>w. Used' = Used \cup {r} /\ r \notin Used
  BY Zenon, <1>l, RWLockAssumption DEF Used
<1>c. UNCHANGED <<readers, writer, at, dst>>
  BY Zenon DEF RlockEnqueue, WlockEnqueue
<1>o. \A u \in Threads \ {t} : pc'[u] = pc[u]
  BY Zenon, <1>h, <1>t DEF Types
<1>p. \/ st = "QueueingR" /\ pc[t] = "rlock_cs" /\ pc'[t] = "renq"
      \/ st = "QueueingW" /\ pc[t] = "wlock_cs" /\ pc'[t] = "wenq"
  BY Zenon, <1>h, <1>t DEF Types
<1>n. ~Sent(t) /\ \A a \in Used : node[a].tid # t
  <2>1. pc[t] \notin Waits
    BY Zenon, <1>p DEF Waits
  <2> QED
    <3>1. ~Sent(t)
      BY Zenon, <2>1 DEF Good, SendInv, SendsMeet, Sent
    <3>2. \A a \in Used : pc[node[a].tid] \in Waits
      BY Zenon DEF Good, NodesInv, NamesWaiter, Waits
    <3> QED
      BY Zenon, <3>1, <3>2, <2>1
<1>s. \A u \in Threads : Sent(u)' <=> Sent(u)
  <2>1. \A u \in Threads : pc'[u] \in Sending <=> pc[u] \in Sending
    BY Zenon, <1>o, <1>p DEF Sending
  <2> QED
    BY Zenon, <2>1, <1>c DEF Sent, Sending
<1>1. NodesInv'
  <2>1. ASSUME NEW a \in Used PROVE NamesWaiter(a)'
    <3>1. NamesWaiter(a) /\ node[a].tid # t /\ a # r /\ a \in Nodes
      BY Zenon, <1>n, <1>w DEF Good, NodesInv, Used
    <3>2. /\ owner'[a] = owner[a] /\ node'[a].tid = node[a].tid /\ node'[a].state = node[a].state
          /\ pc'[node[a].tid] = pc[node[a].tid] /\ (Sent(node[a].tid)' <=> Sent(node[a].tid))
      BY Zenon, <3>1, <1>l, <1>o, <1>s DEF NamesWaiter
    <3> QED
      BY Zenon, <3>1, <3>2, <1>c, <1>s DEF NamesWaiter
  <2>2. NamesWaiter(r)'
    BY Zenon, <1>p, <1>l, <1>n, <1>s, <1>c, <1>t DEF NamesWaiter
  <2>3. \A a, b \in Used' : node'[a].tid = node'[b].tid => a = b
    <3>1. \A a \in Used : node'[a].tid # node'[r].tid
      BY Zenon, <1>l, <1>n
    <3>2. \A a, b \in Used : node'[a].tid = node'[b].tid => a = b
      <4>1. \A a, b \in Used : node[a].tid = node[b].tid => a = b
        BY Zenon DEF Good, NodesInv
      <4> TAKE a, b \in Used
      <4>2. node'[a].tid = node[a].tid /\ node'[b].tid = node[b].tid
        BY Zenon, <1>l
      <4> QED
        BY Zenon, <4>1, <4>2
    <3> QED
      BY Zenon, <3>1, <3>2, <1>w
  <2> QED
    BY Zenon, <2>1, <2>2, <2>3, <1>w DEF NodesInv
<1>2. SendInv'
  <2>1. pc'[t] \notin Sending /\ \A u \in Threads : pc[u] \in Waits => pc'[u] \in Waits
    BY Zenon, <1>o, <1>p DEF Waits, Sending
  <2>2. SendsMeet'
    BY Zenon, <2>1, <1>o, <1>c DEF Good, SendInv, SendsMeet, Sending
  <2>3. pc[t] \notin Sending
    BY Zenon, <1>p DEF Sending
  <2> QED
    BY Zenon, <2>2, <2>3, <1>o, <1>c DEF Good, SendInv, Sending
<1>3. \A u \in Threads : /\ Reading(u)' <=> Reading(u)
                         /\ Writing(u)' <=> Writing(u)
                         /\ pc[u] \in Waking => pc'[u] \in Waking
  BY Zenon, <1>o, <1>p, <1>s, <1>n DEF Reading, Writing, Waking
<1>4. ASSUME NEW l \in Locks PROVE Fine(l)'
  <2>1. Readers(l)' = Readers(l) /\ Writers(l)' = Writers(l)
    BY Zenon, <1>3, <1>c DEF Readers, Writers
  <2>2. \A s \in Writers(l) : pc[s] \in Waking => pc'[s] \in Waking
    BY Zenon, <1>3 DEF Writers
  <2> QED
    BY Zenon, <2>1, <2>2, <1>c, GoodFine, FineKept
<1> QED
  BY Zenon, <1>l, <1>1, <1>2, <1>4, EnoughNext

-----------------------------------------------------------------------------
(* t, with lock k, is about to send to h, as pc[t] = to. *)
Granted(t, k, to, h) ==
  /\ h \in Threads /\ h # t /\ ~Sent(h) /\ at[h] = k
  /\ First(t).state = "QueueingR" => pc[h] \in ReadWaits
  /\ First(t).state = "QueueingW" => pc[h] \in WriteWaits
  /\ First(t).state \in {"QueueingR", "QueueingW"}
  /\ \A u \in Threads : Sent(u)' <=> Sent(u) \/ u = h
  /\ \A u \in Threads \ {t} : pc'[u] = pc[u]
  /\ pc'[t] = to /\ at' = at

(* Taking the first node off the list to send to its thread: nothing leads *)
(* to the freed node any more, and the thread becomes the one granted.     *)
LEMMA UnhangStep ==
  ASSUME Good, NEW t \in Threads, NEW k \in Locks, k = at[t], head[k] # Nil, Unhang(t),
         pc[t] \in {"runlock_cs", "wunlock_cs", "wakeloop"},
         NEW to \in Sending, pc' = [pc EXCEPT ![t] = to],
         NEW h, h = First(t).tid
  PROVE  Granted(t, k, to, h) /\ NodesInv' /\ LinksInv' /\ SendInv'
<1>t. Types /\ NoThread \notin Threads /\ NoLock \notin Locks /\ Nil \notin Nodes
  BY Zenon, GoodTypes, RWLockAssumption
<1> DEFINE n == head[k]
<1>n. n \in Nodes /\ owner[n] = k /\ n \in Used /\ First(t) = node[n]
  <2>1. n \in Nodes
    BY Zenon, <1>t DEF Types
  <2>2. owner[n] = k
    BY Zenon DEF Good, LinksInv
  <2> QED
    BY Zenon, <2>1, <2>2, <1>t DEF Used, First
<1>u. /\ node' = node /\ at' = at
      /\ owner'[n] = NoLock /\ \A a \in Nodes \ {n} : owner'[a] = owner[a]
      /\ head'[k] = node[n].qnext /\ \A l \in Locks \ {k} : head'[l] = head[l]
      /\ dst'[t] = h /\ \A u \in Threads \ {t} : dst'[u] = dst[u]
  BY Zenon, <1>t, <1>n DEF Unhang, Second, First, Types
<1> HIDE DEF n
<1>w. Used' = Used \ {n}
  BY Zenon, <1>u, <1>n DEF Used
<1>p. pc'[t] = to /\ \A u \in Threads \ {t} : pc'[u] = pc[u]
  BY Zenon, <1>t DEF Types
<1>h. /\ h \in Threads /\ ~Sent(h) /\ at[h] = k /\ pc[h] \in Waits
      /\ First(t).state = "QueueingR" => pc[h] \in ReadWaits
      /\ First(t).state = "QueueingW" => pc[h] \in WriteWaits
      /\ First(t).state \in {"QueueingR", "QueueingW"}
  <2>1. NamesWaiter(n)
    BY Zenon, <1>n DEF Good, NodesInv
  <2>2. h = node[n].tid
    BY Zenon, <1>n
  <2> QED
    BY Zenon, <1>n, <2>1, <2>2 DEF NamesWaiter, Waits, ReadWaits, WriteWaits
<1>i. h # t
  BY Zenon, <1>h DEF Waits
<1>d. pc[t] \notin Sending /\ dst[t] = NoThread
  BY Zenon, <1>t DEF Good, SendInv, Sending, Types
<1>s. \A u \in Threads : Sent(u)' <=> Sent(u) \/ u = h
  <2> TAKE u \in Threads
  <2>1. Sent(u)' => Sent(u) \/ u = h
    BY Zenon, <1>u, <1>p DEF Sent, Sending
  <2>2. Sent(u) => Sent(u)'
    BY Zenon, <1>u, <1>p, <1>d DEF Sent, Sending
  <2>3. Sent(h)'
    BY Zenon, <1>u, <1>p DEF Sent, Sending
  <2> QED
    BY Zenon, <2>1, <2>2, <2>3
<1>1. NodesInv'
  <2>1. ASSUME NEW a \in Used' PROVE NamesWaiter(a)'
    <3>0. a \in Used /\ a # n /\ a \in Nodes
      BY Zenon, <1>w DEF Used
    <3>1. NamesWaiter(a) /\ node[a].tid # h
      BY Zenon, <3>0, <1>n DEF Good, NodesInv
    <3>2. node[a].tid # t
      BY Zenon, <3>1 DEF NamesWaiter
    <3>3. /\ pc'[node[a].tid] = pc[node[a].tid] /\ owner'[a] = owner[a]
          /\ ~Sent(node[a].tid)'
      BY Zenon, <3>0, <3>1, <3>2, <1>p, <1>u, <1>s DEF NamesWaiter
    <3> QED
      BY Zenon, <3>1, <3>3, <1>u DEF NamesWaiter
  <2> QED
    BY Zenon, <2>1, <1>u, <1>w DEF Good, NodesInv
<1>2. LinksInv'
  <2>0. \A a \in Used' : a \in Used /\ a # n /\ owner'[a] = owner[a] /\ owner[a] \in Locks
    <3>1. \A a \in Used' : a \in Used /\ a # n /\ a \in Nodes /\ owner[a] # NoLock
      BY Zenon, <1>w DEF Used
    <3>2. \A a \in Nodes : owner[a] \in Locks \cup {NoLock}
      BY Zenon, <1>t DEF Types
    <3> QED
      BY Zenon, <3>1, <3>2, <1>u
  <2>1. \A l \in Locks : head'[l] # Nil => owner'[head'[l]] = l
    <3> SUFFICES ASSUME NEW l \in Locks, head'[l] # Nil PROVE owner'[head'[l]] = l
      BY Zenon
    <3>1. CASE l = k
      <4>1. /\ head'[l] = node[n].qnext /\ node[n].qnext # n /\ node[n].qnext \in Nodes
            /\ owner[node[n].qnext] = k
        <5>1. node[n].qnext \in Nodes \cup {Nil}
          BY <1>n, <1>t DEF Types, NodeType
        <5>2. head[owner[n]] = n
          BY Zenon, <1>n DEF n
        <5> QED
          BY Zenon, <5>1, <5>2, <3>1, <1>u, <1>n DEF Good, LinksInv
      <4> QED
        BY Zenon, <3>1, <4>1, <1>u
    <3>2. CASE l # k
      <4>1. head'[l] = head[l] /\ owner[head[l]] = l /\ head[l] \in Nodes /\ head[l] # n
        <5>1. head'[l] = head[l]
          BY Zenon, <3>2, <1>u
        <5>2. owner[head[l]] = l
          BY Zenon, <5>1 DEF Good, LinksInv
        <5>3. head[l] \in Nodes
          BY Zenon, <5>1, <1>t DEF Types
        <5> QED
          BY Zenon, <5>1, <5>2, <5>3, <3>2, <1>n
      <4> QED
        BY Zenon, <4>1, <1>u
    <3> QED
      BY Zenon, <3>1, <3>2
  <2>2. \A a \in Used' : node'[a].qnext # Nil => /\ owner'[node'[a].qnext] = owner'[a]
                                                /\ node'[a].qnext # head'[owner'[a]]
    <3> SUFFICES ASSUME NEW a \in Used', node[a].qnext # Nil
                 PROVE  owner'[node[a].qnext] = owner[a] /\ node[a].qnext # head'[owner[a]]
      BY Zenon, <2>0, <1>u
    <3>1. /\ owner[node[a].qnext] = owner[a] /\ node[a].qnext # head[owner[a]]
          /\ node[a].qnext \in Nodes /\ owner[a] \in Locks
      BY <2>0, <1>t DEF Good, LinksInv, Types, NodeType, Used
    <3>2. node[a].qnext # n
      BY Zenon, <3>1, <1>n DEF n
    <3>3. node[a].qnext # head'[owner[a]]
      <4>1. CASE owner[a] = k
        <5>1. a \in Used /\ n \in Used /\ a # n /\ head'[owner[a]] = node[n].qnext
          BY Zenon, <4>1, <2>0, <1>u, <1>n
        <5>2. node[a].qnext # node[n].qnext
          BY Zenon, <5>1 DEF Good, LinksInv
        <5> QED
          BY Zenon, <5>1, <5>2
      <4>2. CASE owner[a] # k
        BY Zenon, <4>2, <3>1, <1>u
      <4> QED
        BY Zenon, <4>1, <4>2
    <3> QED
      BY Zenon, <3>1, <3>2, <3>3, <1>u
  <2>3. \A a, b \in Used' : node'[a].qnext = node'[b].qnext /\ node'[a].qnext # Nil => a = b
    BY Zenon, <2>0, <1>u DEF Good, LinksInv
  <2> QED
    BY Zenon, <2>1, <2>2, <2>3 DEF LinksInv
<1>3. SendInv'
  <2>1. \A v \in Threads : dst'[v] # NoThread => pc'[v] \in Sending
    BY Zenon, <1>u, <1>p DEF Good, SendInv, Sending
  <2>2. \A v \in Threads : pc[v] \in Waits => pc'[v] \in Waits
    BY Zenon, <1>p DEF Waits
  <2>3. \A v \in Threads : v # t => dst[v] # h
    BY Zenon, <1>h, <1>t DEF Good, SendInv, Sent
  <2>4. SendsMeet'
    <3> SUFFICES ASSUME NEW v \in Threads, pc'[v] \in Sending
                 PROVE  /\ dst'[v] \in Threads /\ pc'[dst'[v]] \in Waits /\ at'[dst'[v]] = at'[v]
                        /\ \A u \in Threads \ {v} : dst'[u] # dst'[v]
      BY Zenon DEF SendsMeet, Sending
    <3>1. CASE v = t
      BY Zenon, <3>1, <1>u, <1>h, <2>2, <2>3
    <3>2. CASE v # t
      <4>1. /\ dst[v] \in Threads /\ pc[dst[v]] \in Waits /\ at[dst[v]] = at[v]
            /\ \A u \in Threads \ {v} : dst[u] # dst[v]
        BY Zenon, <3>2, <1>p DEF Good, SendInv, SendsMeet, Sending
      <4> QED
        <5>1. dst'[v] = dst[v] /\ dst'[v] # h
          BY Zenon, <3>2, <1>u, <2>3
        <5>2. \A u \in Threads \ {v} : dst'[u] # dst'[v]
          BY Zenon, <5>1, <4>1, <1>u
        <5> QED
          BY Zenon, <5>1, <5>2, <4>1, <1>u, <2>2
    <3> QED
      BY Zenon, <3>1, <3>2
  <2> QED
    BY Zenon, <2>1, <2>4 DEF SendInv, Sending
<1> QED
  BY Zenon, <1>h, <1>i, <1>s, <1>p, <1>u, <1>1, <1>2, <1>3 DEF Granted

(* Handing the lock on: the last reader or a writer to a writer, and the   *)
(* leaving writer to the readers, one by one.                              *)
LEMMA HandOverStep ==
  ASSUME Good, Types', AtInv', SpinInv', ~panicking', NEW t \in Threads,
         RunlockHandOver(t) \/ WunlockHandOver(t) \/ WakeReader(t)
  PROVE  Good'
<1> USE DEF Goto, unlock, counts
<1>t. PICK k \in Locks : k = at[t] /\ Types /\ Fine(k)
  BY Zenon, GoodTypes, GoodFine DEF RunlockHandOver, WunlockHandOver, WakeReader
<1>g. PICK to \in Sending : pc' = [pc EXCEPT ![t] = to]
  BY Zenon DEF RunlockHandOver, WunlockHandOver, WakeReader, Sending
<1>n. /\ head[k] # Nil /\ Unhang(t) /\ pc[t] \in {"runlock_cs", "wunlock_cs", "wakeloop"}
      /\ to = "rsend" <=> WakeReader(t)
  <2>1. head[k] # Nil /\ Unhang(t)
    BY Zenon, <1>t DEF RunlockHandOver, WunlockHandOver, WakeReader, Last, ReaderFirst
  <2>2. pc[t] \in {"runlock_cs", "wunlock_cs", "wakeloop"}
    BY Zenon DEF RunlockHandOver, WunlockHandOver, WakeReader
  <2>3. pc'[t] = to
    BY Zenon, <1>g, <1>t DEF Types
  <2>4. WakeReader(t) => pc'[t] = "rsend"
    BY Zenon, <1>t DEF WakeReader, Types
  <2>5. RunlockHandOver(t) \/ WunlockHandOver(t) => pc'[t] = "send"
    BY Zenon, <1>t DEF RunlockHandOver, WunlockHandOver, Types
  <2> QED
    BY Zenon, <2>1, <2>2, <2>3, <2>4, <2>5
<1>h. PICK h : h = First(t).tid
  BY Zenon
<1>s. Granted(t, k, to, h) /\ NodesInv' /\ LinksInv' /\ SendInv'
  BY Zenon, <1>t, <1>g, <1>n, <1>h, UnhangStep
<1>u. /\ h \in Threads /\ h # t /\ ~Sent(h) /\ at[h] = k
      /\ First(t).state = "QueueingR" => pc[h] \in ReadWaits
      /\ First(t).state = "QueueingW" => pc[h] \in WriteWaits
      /\ First(t).state \in {"QueueingR", "QueueingW"}
      /\ \A u \in Threads : Sent(u)' <=> Sent(u) \/ u = h
      /\ \A u \in Threads \ {t} : pc'[u] = pc[u]
      /\ pc'[t] = to /\ at' = at
  BY Zenon, <1>s DEF Granted
<1>e. ASSUME \A l \in Locks \ {k} : readers'[l] = readers[l] /\ writer'[l] = writer[l], Fine(k)'
      PROVE  Good'
  <2>1. \A u \in Threads : \/ at[u] = k /\ at'[u] \in {k, NoLock}
                           \/ at'[u] = at[u] /\ pc'[u] = pc[u] /\ (Sent(u)' <=> Sent(u))
    BY Zenon, <1>t, <1>u
  <2>2. \A l \in Locks \ {k} : Fine(l)'
    BY Zenon, <1>e, <2>1, Elsewhere
  <2> QED
    BY Zenon, <1>e, <1>s, <2>2, EnoughNext
<1>o. \A u \in Threads \ {t, h} : (Reading(u)' <=> Reading(u)) /\ (Writing(u)' <=> Writing(u))
  BY Zenon, <1>u DEF Reading, Writing
<1>v. ~Reading(h) /\ ~Writing(h)
      /\ (Reading(h)' <=> pc[h] \in ReadWaits) /\ (Writing(h)' <=> pc[h] \in WriteWaits)
  <2>1. pc'[h] = pc[h] /\ Sent(h)'
    BY Zenon, <1>u
  <2>2. pc[h] \in ReadWaits \cup WriteWaits
    BY Zenon, <1>u
  <2> QED
    BY Zenon, <2>1, <2>2, <1>u DEF Reading, Writing, ReadWaits, WriteWaits
<1>1. CASE RunlockHandOver(t)
  <2>1. /\ pc[t] = "runlock_cs" /\ to = "send" /\ readers[k] - 1 <= 0
        /\ readers' = [readers EXCEPT ![k] = @ - 1]
        /\ writer' = [writer EXCEPT ![k] = 1]
        /\ First(t).state = "QueueingW"
    <3>1. /\ pc[t] = "runlock_cs" /\ readers[k] - 1 <= 0
          /\ readers' = [readers EXCEPT ![k] = @ - 1]
          /\ writer' = [writer EXCEPT ![k] = 1]
      BY Zenon, <1>1, <1>t DEF RunlockHandOver, Last
    <3>2. First(t).state = "QueueingW"
      BY Zenon, <1>1 DEF RunlockHandOver, PanicIf
    <3>3. to = "send"
      BY Zenon, <3>1, <1>n DEF Sending, WakeReader
    <3> QED
      BY Zenon, <3>1, <3>2, <3>3
  <2>2. /\ readers'[k] = readers[k] - 1 /\ writer'[k] = 1
        /\ \A l \in Locks \ {k} : readers'[l] = readers[l] /\ writer'[l] = writer[l]
    BY Zenon, <2>1, <1>t DEF Types
  <2>3. pc[h] \in WriteWaits /\ pc[h] \notin ReadWaits
    BY Zenon, <2>1, <1>u DEF ReadWaits, WriteWaits
  <2>4. t \in Readers(k) /\ ~Writing(t) /\ ~Reading(t)' /\ ~Writing(t)'
    BY Zenon, <2>1, <1>t, <1>u DEF Readers, Reading, Writing
  <2>5. Writers(k) = {}
    <3>1. \A s \in Writers(k) : pc[s] \in Waking
      BY Zenon, <2>4, <1>t DEF Fine
    <3>2. \A s \in Threads : pc[s] \in Inside /\ at[s] = k => s = t
      <4>1. pc[t] \in Inside
        BY Zenon, <2>1 DEF Inside
      <4> QED
        BY Zenon, <4>1, <1>t DEF Good, SpinInv
    <3>3. \A s \in Writers(k) : s = t
      BY Zenon, <3>1, <3>2 DEF Writers, Waking, Inside
    <3> QED
      BY Zenon, <3>3, <2>4 DEF Writers
  <2>6. Readers(k)' = Readers(k) \ {t}
    <3>1. ~Reading(h)'
      BY Zenon, <2>3, <1>v
    <3> QED
      BY Zenon, <3>1, <1>v, <1>o, <1>u, <2>4 DEF Readers
  <2>7. Writers(k)' = {h}
    <3>1. Writing(h)' /\ at'[h] = k
      BY Zenon, <2>3, <1>v, <1>u
    <3>2. \A u \in Threads : at[u] = k => ~Writing(u)
      BY Zenon, <2>5 DEF Writers
    <3> QED
      BY Zenon, <3>1, <3>2, <1>o, <1>u, <2>4 DEF Writers
  <2>8. readers'[k] = Cardinality(Readers(k)') /\ Readers(k)' = {}
    BY Zenon, <1>t, <2>1, <2>2, <2>4, <2>6, ReaderOut
  <2>9. Fine(k)'
    BY Zenon, <2>2, <2>7, <2>8 DEF Fine
  <2> QED
    BY Zenon, <1>e, <2>2, <2>9
<1>2. CASE WunlockHandOver(t)
  <2>1. /\ pc[t] = "wunlock_cs" /\ to = "send" /\ UNCHANGED <<readers, writer>>
        /\ First(t).state = "QueueingW"
    <3>1. pc[t] = "wunlock_cs" /\ UNCHANGED <<readers, writer>> /\ First(t).state = "QueueingW"
      BY Zenon, <1>2 DEF WunlockHandOver
    <3>3. to = "send"
      BY Zenon, <3>1, <1>n DEF Sending, WakeReader
    <3> QED
      BY Zenon, <3>1, <3>3
  <2>3. pc[h] \in WriteWaits /\ pc[h] \notin ReadWaits
    BY Zenon, <2>1, <1>u DEF ReadWaits, WriteWaits
  <2>4. t \in Writers(k) /\ ~Reading(t)' /\ ~Writing(t)' /\ pc[t] \notin Waking /\ ~Reading(t)
    BY Zenon, <2>1, <1>t, <1>u DEF Writers, Reading, Writing, Waking
  <2>5. Readers(k) = {} /\ \A s \in Writers(k) : s = t
    BY Zenon, <2>4, <1>t DEF Fine
  <2>6. Readers(k)' = Readers(k)
    <3>1. ~Reading(h)'
      BY Zenon, <2>3, <1>v
    <3> QED
      BY Zenon, <3>1, <1>v, <1>o, <1>u, <2>4 DEF Readers
  <2>7. Writers(k)' = {h}
    <3>1. Writing(h)' /\ at'[h] = k
      BY Zenon, <2>3, <1>v, <1>u
    <3>2. \A u \in Threads \ {t} : at[u] = k => ~Writing(u)
      BY Zenon, <2>5 DEF Writers
    <3> QED
      BY Zenon, <3>1, <3>2, <1>o, <1>u, <2>4 DEF Writers
  <2>8. writer'[k] = 1
    BY Zenon, <2>1, <2>4, <1>t DEF Fine
  <2>9. Fine(k)'
    BY Zenon, <2>1, <2>5, <2>6, <2>7, <2>8, <1>t DEF Fine
  <2> QED
    BY Zenon, <1>e, <2>1, <2>9
<1>3. CASE WakeReader(t)
  <2>1. /\ pc[t] = "wakeloop" /\ to = "rsend" /\ writer' = writer
        /\ readers' = [readers EXCEPT ![k] = @ + 1]
        /\ First(t).state = "QueueingR"
    BY Zenon, <1>3, <1>n, <1>t DEF WakeReader, ReaderFirst
  <2>2. /\ readers'[k] = readers[k] + 1
        /\ \A l \in Locks \ {k} : readers'[l] = readers[l] /\ writer'[l] = writer[l]
    BY Zenon, <2>1, <1>t DEF Types
  <2>3. pc[h] \in ReadWaits /\ pc[h] \notin WriteWaits
    BY Zenon, <2>1, <1>u DEF ReadWaits, WriteWaits
  <2>4. t \in Writers(k) /\ ~Reading(t)' /\ Writing(t)' /\ pc'[t] \in Waking /\ ~Reading(t) /\ Writing(t)
    BY Zenon, <2>1, <1>t, <1>u DEF Writers, Reading, Writing, Waking
  <2>5. \A s \in Writers(k) : pc'[s] \in Waking
    BY Zenon, <2>4, <1>t DEF Fine
  <2>6. Readers(k)' = Readers(k) \cup {h} /\ h \notin Readers(k)
    <3>1. Reading(h)' /\ at'[h] = k
      BY Zenon, <2>3, <1>v, <1>u
    <3> QED
      BY Zenon, <3>1, <1>v, <1>o, <1>u, <2>4 DEF Readers
  <2>7. Writers(k)' = Writers(k)
    <3>1. ~Writing(h)'
      BY Zenon, <2>3, <1>v
    <3> QED
      BY Zenon, <3>1, <1>v, <1>o, <1>u, <2>4 DEF Writers
  <2>8. Fine(k)'
    BY Zenon, <1>t, <1>u, <2>1, <2>2, <2>5, <2>6, <2>7, ReaderIn
  <2> QED
    BY Zenon, <1>e, <2>2, <2>8
<1> QED
  BY Zenon, <1>1, <1>2, <1>3

(* The message arrives: what was granted by the send is now held. *)
LEMMA RendezvousStep ==
  ASSUME Good, Types', AtInv', SpinInv', NEW t \in Threads, NEW r \in Threads, L4Rendezvous(t, r)
  PROVE  Good'
<1>t. Types /\ NoThread \notin Threads
  BY Zenon, GoodTypes, RWLockAssumption
<1>1. /\ pc[t] \in Sending /\ dst[t] = r /\ pc[r] \in {"rwait", "wwait"}
      /\ pc' = [pc EXCEPT ![t] = IF pc[t] = "send" THEN "out" ELSE "wakeloop",
                          ![r] = IF pc[r] = "rwait" THEN "reading" ELSE "writing"]
      /\ dst' = [dst EXCEPT ![t] = NoThread]
      /\ at' = [at EXCEPT ![t] = IF pc[t] = "send" THEN NoLock ELSE @]
      /\ UNCHANGED <<readers, writer, head, node, owner>>
  BY Zenon DEF L4Rendezvous, list, counts, Sending
<1>r. t # r /\ Sent(r) /\ \A u \in Threads \ {t} : dst[u] # r
  BY Zenon, <1>1 DEF Sent, Good, SendInv, SendsMeet, Sending
<1>2. /\ pc'[t] = IF pc[t] = "send" THEN "out" ELSE "wakeloop"
      /\ pc'[r] = IF pc[r] = "rwait" THEN "reading" ELSE "writing"
      /\ \A u \in Threads \ {t, r} : pc'[u] = pc[u]
      /\ dst'[t] = NoThread /\ \A u \in Threads \ {t} : dst'[u] = dst[u]
      /\ \A u \in Threads \ {t} : at'[u] = at[u]
      /\ pc[t] = "rsend" => at'[t] = at[t]
  BY <1>t, <1>1, <1>r DEF Types
<1>q. /\ pc'[t] \in {"out", "wakeloop"}
      /\ pc[t] = "send" => pc'[t] = "out"
      /\ pc[t] = "rsend" => pc'[t] = "wakeloop"
      /\ pc'[r] \in {"reading", "writing"}
      /\ pc[r] = "rwait" => pc'[r] = "reading"
      /\ pc[r] = "wwait" => pc'[r] = "writing"
  BY <1>1, <1>2
<1>3. \A u \in Threads : Sent(u)' <=> Sent(u) /\ u # r
  <2> TAKE u \in Threads
  <2>1. Sent(u)' => Sent(u) /\ u # r
    <3> SUFFICES ASSUME NEW s \in Threads, pc'[s] \in Sending, dst'[s] = u PROVE Sent(u) /\ u # r
      BY Zenon DEF Sent, Sending
    <3>1. s # t /\ s # r
      BY Zenon, <1>q DEF Sending
    <3> QED
      BY Zenon, <3>1, <1>2, <1>r DEF Sent, Sending
  <2>2. Sent(u) /\ u # r => Sent(u)'
    <3> SUFFICES ASSUME NEW s \in Threads, pc[s] \in Sending, dst[s] = u, u # r PROVE Sent(u)'
      BY Zenon DEF Sent, Sending
    <3>1. s # t /\ s # r
      BY Zenon, <1>1 DEF Sending
    <3> QED
      BY Zenon, <3>1, <1>2 DEF Sent, Sending
  <2> QED
    BY Zenon, <2>1, <2>2
<1>4. NodesInv' /\ LinksInv'
  <2>0. Used' = Used
    BY Zenon, <1>1 DEF Used
  <2>1. ASSUME NEW a \in Used PROVE NamesWaiter(a)'
    <3>1. NamesWaiter(a) /\ node[a].tid # r /\ node[a].tid # t
      BY Zenon, <1>1, <1>r DEF Good, NodesInv, NamesWaiter, Sending
    <3>2. /\ node[a].tid \in Threads /\ pc'[node[a].tid] = pc[node[a].tid]
          /\ at'[node[a].tid] = at[node[a].tid]
      BY Zenon, <3>1, <1>2 DEF NamesWaiter
    <3>3. ~Sent(node[a].tid)'
      BY Zenon, <3>1, <3>2, <1>1, <1>3 DEF NamesWaiter
    <3> QED
      BY Zenon, <3>1, <3>2, <3>3, <1>1 DEF NamesWaiter
  <2> QED
    BY Zenon, <2>0, <2>1, <1>1 DEF Good, NodesInv, LinksInv
<1>5. SendInv'
  <2>1. \A v \in Threads : pc'[v] \in Sending => v # t /\ v # r /\ pc[v] \in Sending
    BY Zenon, <1>2, <1>q DEF Sending
  <2>2. \A v \in Threads \ {t, r} : pc[v] \in Waits => pc'[v] \in Waits
    BY Zenon, <1>2
  <2>3. pc[t] \notin Waits
    BY Zenon, <1>1 DEF Waits, Sending
  <2>4. SendsMeet'
    <3> SUFFICES ASSUME NEW v \in Threads, pc'[v] \in Sending
                 PROVE  /\ dst'[v] \in Threads /\ pc'[dst'[v]] \in Waits /\ at'[dst'[v]] = at'[v]
                        /\ \A u \in Threads \ {v} : dst'[u] # dst'[v]
      BY Zenon DEF SendsMeet, Sending
    <3>1. v # t /\ v # r /\ pc[v] \in Sending
      BY Zenon, <2>1
    <3>2. /\ dst[v] \in Threads /\ pc[dst[v]] \in Waits /\ at[dst[v]] = at[v]
          /\ \A u \in Threads \ {v} : dst[u] # dst[v]
      BY Zenon, <3>1 DEF Good, SendInv, SendsMeet, Sending
    <3>3. dst'[v] = dst[v] /\ dst[v] # r /\ dst[v] # t
      BY Zenon, <3>1, <3>2, <2>3, <1>2, <1>r
    <3>4. pc'[dst[v]] \in Waits /\ at'[dst[v]] = at'[v]
      BY Zenon, <3>1, <3>2, <3>3, <2>2, <1>2
    <3>5. \A u \in Threads \ {v} : dst'[u] # dst'[v]
      BY Zenon, <3>2, <3>3, <1>2, <1>t
    <3> QED
      BY Zenon, <3>2, <3>3, <3>4, <3>5
  <2>5. \A v \in Threads : dst'[v] # NoThread => pc'[v] \in Sending
    <3> SUFFICES ASSUME NEW v \in Threads, dst'[v] # NoThread PROVE pc'[v] \in Sending
      BY Zenon
    <3>1. v # t /\ dst[v] # NoThread
      BY Zenon, <1>2
    <3>2. pc[v] \in Sending
      BY Zenon, <3>1 DEF Good, SendInv, Sending
    <3>3. v # r
      BY Zenon, <3>2, <1>1 DEF Sending
    <3> QED
      BY Zenon, <3>1, <3>2, <3>3, <1>2
  <2> QED
    BY Zenon, <2>4, <2>5 DEF SendInv, Sending
<1>6. \A u \in Threads : /\ Reading(u)' <=> Reading(u)
                         /\ Writing(u)' <=> Writing(u)
                         /\ Reading(u) \/ Writing(u) => at'[u] = at[u]
                         /\ pc[u] \in Waking => pc'[u] \in Waking
  <2>1. ASSUME NEW u \in Threads \ {t, r}
        PROVE  /\ Reading(u)' <=> Reading(u)
               /\ Writing(u)' <=> Writing(u)
               /\ at'[u] = at[u] /\ pc[u] = pc'[u]
    BY Zenon, <1>2, <1>3 DEF Reading, Writing
  <2>2. /\ Reading(r)' <=> Reading(r)
        /\ Writing(r)' <=> Writing(r)
        /\ at'[r] = at[r] /\ pc[r] \notin Waking
    <3>1. CASE pc[r] = "rwait"
      BY Zenon, <3>1, <1>q, <1>r, <1>2 DEF Reading, Writing, Waking
    <3>2. CASE pc[r] = "wwait"
      BY Zenon, <3>2, <1>q, <1>r, <1>2 DEF Reading, Writing, Waking
    <3> QED
      BY Zenon, <1>1, <3>1, <3>2
  <2>3. /\ Reading(t)' <=> Reading(t)
        /\ Writing(t)' <=> Writing(t)
        /\ Reading(t) \/ Writing(t) => at'[t] = at[t]
        /\ pc[t] \in Waking => pc'[t] \in Waking
    <3>1. CASE pc[t] = "send"
      BY Zenon, <3>1, <1>q DEF Reading, Writing, Waking
    <3>2. CASE pc[t] = "rsend"
      BY Zenon, <3>2, <1>q, <1>2 DEF Reading, Writing, Waking
    <3> QED
      BY Zenon, <1>1, <3>1, <3>2 DEF Sending
  <2> QED
    BY Zenon, <2>1, <2>2, <2>3
<1>7. ASSUME NEW l \in Locks PROVE Fine(l)'
  <2>1. Readers(l)' = Readers(l) /\ Writers(l)' = Writers(l)
    <3>1. \A u \in Threads : at'[u] = l => at[u] = l
      <4>1. at'[t] = l => at[t] = l
        <5>1. pc[t] = "send" => at'[t] = NoLock
          BY Zenon, <1>q DEF AtInv
        <5> QED
          BY Zenon, <5>1, <1>1, <1>2, RWLockAssumption DEF Sending
      <4> QED
        BY Zenon, <4>1, <1>2
    <3>2. \A u \in Threads : Reading(u) \/ Writing(u) => (at'[u] = l <=> at[u] = l)
      BY Zenon, <1>6
    <3> QED
      BY Zenon, <3>1, <3>2, <1>6 DEF Readers, Writers
  <2>2. \A s \in Writers(l) : pc[s] \in Waking => pc'[s] \in Waking
    BY Zenon, <1>6 DEF Writers
  <2> QED
    BY Zenon, <1>1, <2>1, <2>2, GoodFine, FineKept
<1> QED
  BY Zenon, <1>4, <1>5, <1>7, EnoughNext

-----------------------------------------------------------------------------
(* Every action of every thread keeps what is good, as long as the heap is *)
(* sound.                                                                  *)
LEMMA GoodStep == Good /\ [Next]_vars /\ Sound' => Good'
<1> SUFFICES ASSUME Good, [Next]_vars, Sound' PROVE Good'
  BY Zenon
<1>t. Types' /\ AtInv' /\ SpinInv' /\ Types /\ AtInv /\ ~stray' /\ ~panicking'
  <2>1. Types' /\ AtInv' /\ SpinInv'
    BY Zenon, TypesStep, SpinStep
  <2>2. Types /\ AtInv
    BY Zenon, GoodTypes DEF Good
  <2> QED
    BY Zenon, <2>1, <2>2 DEF Sound
<1>q. ASSUME UNCHANGED <<readers, writer, head, node, owner, dst>>,
             \A u \in Threads :
               \/ pc'[u] = pc[u] /\ at'[u] = at[u]
               \/ /\ {pc[u], pc'[u]} \cap (Sending \cup Waits) = {}
                  /\ {pc[u], pc'[u]} \cap {"reading", "runlock_tas", "runlock_cs"} = {}
                  /\ {pc[u], pc'[u]} \cap {"writing", "wunlock_tas", "wunlock_cs", "wakeloop"} = {}
               \/ at'[u] = at[u] /\ {pc[u], pc'[u]} \subseteq {"reading", "runlock_tas", "runlock_cs"}
               \/ at'[u] = at[u] /\ {pc[u], pc'[u]} \subseteq {"writing", "wunlock_tas", "wunlock_cs"}
               \/ at'[u] = at[u] /\ pc[u] = "wunlock_cs" /\ pc'[u] = "wakeloop"
               \/ at'[u] = at[u] /\ {pc[u], pc'[u]} \subseteq {"renq", "rwait"}
               \/ at'[u] = at[u] /\ {pc[u], pc'[u]} \subseteq {"wenq", "wwait"}
      PROVE  Good'
  <2>1. SameSends
    BY Zenon, <1>q DEF SameSends, Sending, Waits, ReadWaits, WriteWaits
  <2>2. \A u \in Threads : Sent(u)' <=> Sent(u)
    BY Zenon, <2>1, SameSendsKeeps
  <2>3. \A u \in Threads : /\ Reading(u)' <=> Reading(u)
                           /\ Writing(u)' <=> Writing(u)
                           /\ Reading(u) \/ Writing(u) => at'[u] = at[u]
                           /\ pc[u] \in Waking => pc'[u] \in Waking
    BY Zenon, <1>q, <2>2 DEF Reading, Writing, Sending, Waits, Waking
  <2> QED
    BY Zenon, <1>t, <1>q, <2>1, <2>3, QuietStep
<1> USE DEF Goto, lock, counts, list, flags
<1>1. CASE UNCHANGED vars
  BY Zenon, <1>1, <1>q DEF vars
<1>2. ASSUME NEW t \in Threads, Call(t) \/ Thread(t)
      PROVE  Good'
  <2>o. ASSUME NEW to, pc' = [pc EXCEPT ![t] = to], NEW l, at' = at \/ at' = [at EXCEPT ![t] = l]
        PROVE  pc'[t] = to /\ \A u \in Threads \ {t} : pc'[u] = pc[u] /\ at'[u] = at[u]
    BY Zenon, <2>o, <1>t DEF Types
  <2>1. CASE Call(t)
    <3>1. PICK to \in {"rlock_tas", "wlock_tas", "canrlock_tas"} : pc' = [pc EXCEPT ![t] = to]
      BY Zenon, <2>1 DEF Call
    <3>2. PICK l \in Locks : at' = [at EXCEPT ![t] = l]
      BY Zenon, <2>1 DEF Call
    <3>3. pc'[t] = to /\ \A u \in Threads \ {t} : pc'[u] = pc[u] /\ at'[u] = at[u]
      BY Zenon, <3>1, <3>2, <1>t DEF Types
    <3>4. pc[t] = "out" /\ UNCHANGED <<readers, writer, head, node, owner, dst>>
      BY Zenon, <2>1 DEF Call
    <3>5. /\ {pc[t], pc'[t]} \cap (Sending \cup Waits) = {}
          /\ {pc[t], pc'[t]} \cap {"reading", "runlock_tas", "runlock_cs"} = {}
          /\ {pc[t], pc'[t]} \cap {"writing", "wunlock_tas", "wunlock_cs", "wakeloop"} = {}
      BY <3>1, <3>3, <3>4 DEF Sending, Waits
    <3> QED
      BY Zenon, <3>3, <3>4, <3>5, <1>q
  <2>2. CASE Return(t)
    BY Zenon, <2>2, <1>t, <1>q DEF Return, Types
  <2>3. CASE Spin(t)
    <3>1. at' = at /\ UNCHANGED <<readers, writer, head, node, owner, dst>>
      BY Zenon, <2>3 DEF Spin
    <3>2. \A u \in Threads \ {t} : pc'[u] = pc[u]
      BY Zenon, <2>3, <1>t DEF Spin, Types
    <3>3. \/ pc[t] = "rlock_tas" /\ pc'[t] = "rlock_cs"
          \/ pc[t] = "wlock_tas" /\ pc'[t] = "wlock_cs"
          \/ pc[t] = "canrlock_tas" /\ pc'[t] = "canrlock_cs"
          \/ pc[t] = "runlock_tas" /\ pc'[t] = "runlock_cs"
          \/ pc[t] = "wunlock_tas" /\ pc'[t] = "wunlock_cs"
      BY Zenon, <2>3, <1>t DEF Spin, Types
    <3>4. \/ /\ {pc[t], pc'[t]} \cap (Sending \cup Waits) = {}
             /\ {pc[t], pc'[t]} \cap {"reading", "runlock_tas", "runlock_cs"} = {}
             /\ {pc[t], pc'[t]} \cap {"writing", "wunlock_tas", "wunlock_cs", "wakeloop"} = {}
          \/ {pc[t], pc'[t]} \subseteq {"reading", "runlock_tas", "runlock_cs"}
          \/ {pc[t], pc'[t]} \subseteq {"writing", "wunlock_tas", "wunlock_cs"}
      BY <3>3 DEF Sending, Waits
    <3> QED
      BY Zenon, <3>1, <3>2, <3>4, <1>q
  <2>4. CASE Wait(t)
    BY Zenon, <2>4, <1>t, <1>q DEF Wait, Types
  <2>5. CASE WunlockReaders(t)
    BY Zenon, <2>5, <1>t, <1>q DEF WunlockReaders, Types
  <2>6. CASE RlockTake(t) \/ Canrlock(t) \/ WlockTake(t)
    BY Zenon, <2>6, <1>t, TakeStep
  <2>7. CASE RlockEnqueue(t) \/ WlockEnqueue(t)
    BY Zenon, <2>7, <1>t, EnqueueStep
  <2>8. CASE RunlockReturn(t) \/ RunlockPanic(t) \/ WunlockFree(t) \/ WakeDone(t)
    BY Zenon, <2>8, <1>t, LeaveStep
  <2>9. CASE RunlockHandOver(t) \/ WunlockHandOver(t) \/ WakeReader(t)
    BY Zenon, <2>9, <1>t, HandOverStep
  <2>10. ASSUME NEW r \in Threads, L4Rendezvous(t, r) PROVE Good'
    BY Zenon, <2>10, <1>t, RendezvousStep
  <2> QED
    BY Zenon, <1>2, <2>1, <2>2, <2>3, <2>4, <2>5, <2>6, <2>7, <2>8, <2>9, <2>10 DEF Thread
<1> QED
  BY Zenon, <1>1, <1>2 DEF Next

(* A kernel that has panicked, or where a waiter was hung astray, stays so. *)
LEMMA SoundBefore == [Next]_vars /\ Sound' => Sound
<1> USE DEF flags
<1>p. panicking' = panicking => (~panicking' => ~panicking)
  OBVIOUS
<1>s. stray' = stray => (~stray' => ~stray)
  OBVIOUS
<1>u. UNCHANGED <<panicking, stray>> => (Sound' => Sound)
  BY Zenon, <1>p, <1>s DEF Sound
<1>v. UNCHANGED vars => UNCHANGED <<panicking, stray>>
  BY Zenon DEF vars
<1> SUFFICES ASSUME Next, Sound' PROVE Sound
  BY Zenon, <1>u, <1>v
<1>1. PICK t \in Threads : Call(t) \/ Thread(t)
  BY Zenon DEF Next
<1>2. CASE RlockEnqueue(t) \/ WlockEnqueue(t)
  <2>1. \/ UNCHANGED <<panicking, stray>>
        \/ panicking' = panicking /\ stray' = (stray \/ owner'[tail[at[t]]] # at[t])
    BY Zenon, <1>2 DEF RlockEnqueue, WlockEnqueue, Hang
  <2>2. stray' = (stray \/ owner'[tail[at[t]]] # at[t]) => (~stray' => ~stray)
    BY Zenon
  <2> QED
    BY Zenon, <2>1, <2>2, <1>u, <1>p DEF Sound
<1>3. CASE RunlockHandOver(t) \/ WunlockHandOver(t) \/ WakeReader(t) \/ WunlockReaders(t)
  <2>1. /\ stray' = stray
        /\ \/ panicking' = panicking
           \/ panicking' = (panicking \/ First(t).state # "QueueingW")
           \/ panicking' = (panicking \/ First(t).state # "QueueingR")
    BY Zenon, <1>3 DEF RunlockHandOver, WunlockHandOver, WakeReader, WunlockReaders, Unhang, PanicIf
  <2>2. panicking' = (panicking \/ First(t).state # "QueueingW") => (~panicking' => ~panicking)
    BY Zenon
  <2>3. panicking' = (panicking \/ First(t).state # "QueueingR") => (~panicking' => ~panicking)
    BY Zenon
  <2> QED
    BY Zenon, <2>1, <2>2, <2>3, <1>p, <1>s DEF Sound
<1>4. CASE ~(RlockEnqueue(t) \/ WlockEnqueue(t) \/ RunlockHandOver(t) \/ WunlockHandOver(t)
             \/ WakeReader(t) \/ WunlockReaders(t))
  <2>1. UNCHANGED <<panicking, stray>>
    BY Zenon, <1>1, <1>4 DEF Call, Thread, Return, Spin, lock, Wait, RlockTake, Canrlock, WlockTake,
      RunlockReturn, RunlockPanic, WunlockFree, WakeDone, L4Rendezvous
  <2> QED
    BY Zenon, <2>1, <1>u
<1> QED
  BY Zenon, <1>2, <1>3, <1>4

LEMMA InvStep == IInv /\ [Next]_vars => IInv'
<1> SUFFICES ASSUME IInv, [Next]_vars, Sound' PROVE Good'
  BY Zenon DEF IInv
<1> QED
  BY Zenon, SoundBefore, GoodStep DEF IInv

(* The initial state satisfies it. *)
LEMMA InvInit == Init => IInv
<1> SUFFICES ASSUME Init PROVE Good
  BY Zenon DEF IInv
<1>1. Used = {}
  BY Zenon DEF Init, Used
<1>2. /\ Types
      /\ \A t \in Threads : pc[t] = "out" /\ at[t] = NoLock /\ dst[t] = NoThread
      /\ \A l \in Locks : key[l] = 0 /\ readers[l] = 0 /\ writer[l] = 0 /\ head[l] = Nil
  <2>1. /\ key \in [Locks -> {0, 1}] /\ readers \in [Locks -> Int] /\ writer \in [Locks -> {0, 1}]
        /\ head \in [Locks -> Nodes \cup {Nil}] /\ tail \in [Locks -> Nodes \cup {Nil}]
        /\ owner \in [Nodes -> Locks \cup {NoLock}] /\ pc \in [Threads -> Places]
        /\ at \in [Threads -> Locks \cup {NoLock}] /\ dst \in [Threads -> Threads \cup {NoThread}]
    BY DEF Init, Places
  <2>2. node \in [Nodes -> NodeType]
    BY DEF Init, NodeType
  <2>3. panicking \in BOOLEAN /\ stray \in BOOLEAN
    BY Zenon DEF Init
  <2>4. /\ \A t \in Threads : pc[t] = "out" /\ at[t] = NoLock /\ dst[t] = NoThread
        /\ \A l \in Locks : key[l] = 0 /\ readers[l] = 0 /\ writer[l] = 0 /\ head[l] = Nil
    BY Zenon DEF Init
  <2> QED
    BY Zenon, <2>1, <2>2, <2>3, <2>4 DEF Types
<1>3. AtInv /\ NodesInv /\ LinksInv /\ SendInv
  BY Zenon, <1>1, <1>2 DEF AtInv, NodesInv, LinksInv, SendInv, SendsMeet
<1>4. SpinInv
  BY <1>2 DEF SpinInv, Inside
<1>5. ASSUME NEW l \in Locks PROVE Fine(l)
  <2>1. Readers(l) = {} /\ Writers(l) = {}
    BY Zenon, <1>2 DEF Readers, Writers, Reading, Writing
  <2>2. readers[l] = Cardinality(Readers(l)) /\ writer[l] # 1
    BY <2>1, <1>2, FS_EmptySet
  <2> QED
    BY Zenon, <2>1, <2>2 DEF Fine
<1> QED
  BY Zenon, <1>2, <1>3, <1>4, <1>5, Enough

(* Until a waiter is hung on memory that is no node of its lock, or the    *)
(* kernel panics: in every lock a writer is alone and the counters tell    *)
(* who is inside (qlock.c:135-309), for any number of locks and threads,   *)
(* although waiters get lost.                                              *)
THEOREM LockCorrect == Spec => []LockInv
<1>1. IInv => LockInv
  <2> SUFFICES ASSUME Good PROVE TypeOK /\ ReaderWriterExclusion /\ CountersExact
    BY Zenon DEF IInv, LockInv
  <2>1. ASSUME NEW l \in Locks PROVE writer[l] = Cardinality(Writers(l))
    <3>f. Fine(l) /\ writer[l] \in {0, 1}
      BY Zenon, GoodFine, GoodTypes DEF Types
    <3>1. CASE writer[l] = 0
      <4>1. Writers(l) = {}
        BY <3>1, <3>f DEF Fine
      <4> QED
        BY Zenon, <4>1, <3>1, FS_EmptySet
    <3>2. CASE writer[l] = 1
      <4>1. PICK w \in Writers(l) : TRUE
        BY Zenon, <3>2, <3>f DEF Fine
      <4>2. Writers(l) = {w}
        BY Zenon, <4>1, <3>f DEF Fine
      <4> QED
        BY Zenon, <4>2, <3>2, FS_Singleton
    <3> QED
      BY Zenon, <3>1, <3>2, <3>f
  <2> QED
    BY Zenon, <2>1 DEF Good, CountInv, CountersExact
<1> QED
  BY <1>1, InvInit, InvStep, PTL DEF Spec

(* Until then also: every node on the list of a lock is allocated for it   *)
(* and names a thread blocked in its rlock or wlock, and runlock and       *)
(* wunlock send to such threads only, to each once.                        *)
THEOREM WakesWaiters == Spec => []WakesOnlyWaiters
<1>1. IInv => WakesOnlyWaiters
  <2> SUFFICES ASSUME Good PROVE ListNamesWaiters /\ SendsMeet
    BY Zenon DEF IInv, WakesOnlyWaiters
  <2>1. ASSUME NEW l \in Locks, NEW a \in Listed(l) PROVE owner[a] = l
    <3> DEFINE S == {b \in Nodes : owner[b] = l}
    <3>0. Types /\ l # NoLock /\ S \subseteq Used
      BY Zenon, GoodTypes, RWLockAssumption DEF Used
    <3>1. head[l] \in S \cup {Nil}
      BY Zenon, <3>0 DEF Good, LinksInv, Types
    <3>2. ASSUME NEW b \in S PROVE node[b].qnext \in S \cup {Nil}
      <4>1. node[b].qnext \in Nodes \cup {Nil}
        BY <3>0 DEF Types, NodeType
      <4> QED
        BY Zenon, <4>1, <3>0 DEF Good, LinksInv
    <3>3. Walkable(l, S)
      BY Zenon, <3>1, <3>2 DEF Walkable
    <3> QED
      BY Zenon, <3>3 DEF Listed
  <2>2. ASSUME NEW l \in Locks, NEW a \in Listed(l)
        PROVE  /\ owner[a] = l
               /\ pc[node[a].tid] \in Waits /\ at[node[a].tid] = l
               /\ ~Sent(node[a].tid)
               /\ (pc[node[a].tid] \in {"renq", "rwait"}) = (node[a].state = "QueueingR")
    <3>1. a \in Used /\ owner[a] = l
      BY Zenon, <2>1, RWLockAssumption DEF Listed, Used
    <3>2. NamesWaiter(a)
      BY Zenon, <3>1 DEF Good, NodesInv
    <3>3. (pc[node[a].tid] \in {"renq", "rwait"}) = (node[a].state = "QueueingR")
      BY <3>2 DEF NamesWaiter
    <3> QED
      BY Zenon, <3>1, <3>2, <3>3 DEF NamesWaiter, Waits
  <2> QED
    BY Zenon, <2>2 DEF ListNamesWaiters, Good, SendInv
<1> QED
  BY <1>1, InvInit, InvStep, PTL DEF Spec

(* A thread leaves wunlock's check of the first waiter by a panic. *)
WunlockPanics ==
  \E t \in Threads : pc[t] = "wunlock_cs" /\ pc'[t] = "wakeloop" /\ panicking' # panicking

(* panic("wunlock") of qlock.c:274 is not reached in a sound kernel: the   *)
(* first panic, if no waiter was hung astray before, is runlock's.         *)
THEOREM WunlockNeverPanics == Spec => [][Sound => ~WunlockPanics]_vars
<1>1. IInv /\ [Next]_vars => [Sound => ~WunlockPanics]_vars
  <2> SUFFICES ASSUME Good, Next, WunlockPanics PROVE FALSE
    BY Zenon DEF IInv
  <2>t. Types
    BY Zenon, GoodTypes
  <2>1. PICK u \in Threads : pc[u] = "wunlock_cs" /\ pc'[u] = "wakeloop" /\ panicking' # panicking
    BY Zenon DEF WunlockPanics
  <2>2. PICK t \in Threads : Call(t) \/ Thread(t)
    BY Zenon DEF Next
  <2>3. WunlockReaders(t)
    <3>1. CASE \/ Call(t) \/ Return(t) \/ Spin(t) \/ Wait(t) \/ RlockTake(t) \/ Canrlock(t)
               \/ WlockTake(t) \/ RlockEnqueue(t) \/ WlockEnqueue(t) \/ RunlockReturn(t)
               \/ RunlockPanic(t) \/ WunlockFree(t) \/ WunlockHandOver(t) \/ WakeReader(t)
               \/ WakeDone(t) \/ \E r \in Threads : L4Rendezvous(t, r)
      BY Zenon, <2>1, <3>1 DEF Call, Return, Spin, lock, Wait, RlockTake, Canrlock, WlockTake,
         RlockEnqueue, WlockEnqueue, RunlockReturn, RunlockPanic, WunlockFree, WunlockHandOver,
         WakeReader, WakeDone, L4Rendezvous, flags
    <3>2. CASE RunlockHandOver(t)
      BY Zenon, <2>t, <2>1, <3>2 DEF RunlockHandOver, Goto, Types
    <3> QED
      BY Zenon, <2>2, <3>1, <3>2 DEF Thread
  <2>4. PICK k \in Locks : k = at[t] /\ pc[t] = "wunlock_cs"
    BY Zenon, <2>3, GoodTypes DEF WunlockReaders, Goto
  <2>5. head[k] \in Used
    <3>1. head[k] # Nil
      BY Zenon, <2>3, <2>4 DEF WunlockReaders
    <3>2. head[k] \in Nodes /\ k # NoLock
      BY Zenon, <3>1, <2>t, RWLockAssumption DEF Types
    <3> QED
      BY Zenon, <3>1, <3>2 DEF Good, LinksInv, Used
  <2>6. First(t).state = "QueueingR"
    BY Zenon, <2>3, <2>4, <2>5 DEF WunlockReaders, First, Good, NodesInv, NamesWaiter
  <2> QED
    BY Zenon, <2>1, <2>3, <2>6, <2>t DEF WunlockReaders, PanicIf, Types
<1> QED
  BY <1>1, InvInit, InvStep, PTL DEF Spec
=============================================================================
