-------------------------- MODULE ProcWaitProofs ---------------------------
(***************************************************************************)
(* The proofs about fork, exit and wait, continued: the exiting processes, *)
(* the lock exl, the sleepers of pwait, and the wait records.              *)
(***************************************************************************)
EXTENDS ProcProofs

(* A thread that exists keeps its process: only Unhash takes a pid away,   *)
(* and newproc and fork only touch a pcb without threads.                  *)
LEMMA Running ==
  ASSUME IInv, Types', NEW t \in Threads, CallFork(t) \/ Pexit(t) \/ Pwait(t) \/ Run(t),
         NEW u \in Threads, pc[u] # "none"
  PROVE  /\ pcb'[Pcb(u)].was = pcb[Pcb(u)].was /\ pcb'[Pcb(u)].parent = pcb[Pcb(u)].parent
         /\ pcb'[Pcb(u)].parentpid = pcb[Pcb(u)].parentpid
         /\ ~Unhash(t) \/ Pcb(u) # Pcb(t) => pcb'[Pcb(u)].pid = pcb[Pcb(u)].pid
<1>t. Types /\ SlotInv /\ ExitInv /\ Pcb(u) \in Pcbs
  BY Zenon, PcbIn DEF IInv
<1>1. CASE Plain(t)
  BY Zenon, <1>t, <1>1, Plains
<1>2. CASE NewprocTake(t) \/ Start(t)
  BY Zenon, <1>2 DEF NewprocTake, Start
<1>3. CASE NewprocHash(t)
  <2>1. PICK c : c = loc[t].child
    BY Zenon
  <2>2. c \in Pcbs /\ Sets(c, NewPcb(pidalloc + 1))
    BY Zenon, <1>t, <1>3, <2>1, NewprocFacts
  <2>3. Pcb(u) # c
    BY Zenon, <1>t, <1>3, <2>1 DEF NewprocHash, SlotInv, Making, New
  <2> QED
    BY Zenon, <1>t, <2>2, <2>3 DEF Sets
<1>4. CASE Link(t)
  <2>1. PICK p, c : p = Pcb(t) /\ c = loc[t].child
    BY Zenon
  <2>2. Pcb(u) # c
    BY Zenon, <1>t, <1>4, <2>1 DEF Link, SlotInv, Making, Linking
  <2> QED
    BY <1>t, <1>4, <2>1, <2>2, LinkFacts
<1> QED
  BY Zenon, <1>1, <1>2, <1>3, <1>4, StepCases

(* Where the thread that steps is in its exit, before and after. *)
LEMMA AtFlow ==
  ASSUME IInv, NEW t \in Threads
  PROVE  /\ CallFork(t) \/ NewprocTake(t) \/ NewprocHash(t) \/ Link(t) \/ SpawnFails(t) \/ Pwait(t)
              \/ AnyChild(t) \/ SleepTest(t) \/ SleepStore(t) \/ TakeRecord(t) =>
              /\ Others(t) /\ pc[t] \notin {"none", "send"} /\ pc'[t] \notin {"none", "send"}
              /\ At(t) \notin {"panic", "ex_record"} \cup Leaving
              /\ At(t)' \notin {"panic", "ex_record"} \cup Leaving
         /\ Pexit(t) => Others(t) /\ pc[t] = "user" /\ pc'[t] \in {"panic", "ex_record"}
         /\ Record(t) => Others(t) /\ pc[t] = "ex_record" /\ pc'[t] \in {"ex_wake", "ex_kill"}
         /\ RecordWake(t) => Others(t) /\ pc[t] = "ex_wake" /\ At(t)' = "ex_unlock"
         /\ RecordUnlock(t) => Others(t) /\ pc[t] = "ex_unlock" /\ pc'[t] = "ex_kill"
         /\ Kill(t) => Others(t) /\ pc[t] = "ex_kill" /\ pc'[t] = "ex_unhash"
         /\ Unhash(t) => Others(t) /\ pc[t] = "ex_unhash" /\ pc'[t] = "ex_lastwake"
         /\ LastWake(t) => Others(t) /\ pc[t] = "ex_lastwake" /\ At(t)' = "ex_lastunlock"
         /\ LastUnlock(t) => Others(t) /\ pc[t] = "ex_lastunlock" /\ pc'[t] = "ex_free"
         /\ FreeRecords(t) => Others(t) /\ pc[t] = "ex_free" /\ pc'[t] = "none"
<1>t. Types /\ ExitInv
  BY Zenon DEF IInv
<1>1. CallFork(t) \/ NewprocTake(t) \/ NewprocHash(t) \/ Link(t) \/ SpawnFails(t) =>
        /\ Others(t) /\ pc[t] \notin {"none", "send"} /\ pc'[t] \notin {"none", "send"}
        /\ At(t) \notin {"panic", "ex_record"} \cup Leaving
        /\ At(t)' \notin {"panic", "ex_record"} \cup Leaving
  BY Zenon, <1>t, Flow DEF At, Leaving, New, Linking, Starting
<1>2. Pwait(t) \/ AnyChild(t) \/ SleepTest(t) \/ SleepStore(t) \/ TakeRecord(t) =>
        /\ Others(t) /\ pc[t] \notin {"none", "send"} /\ pc'[t] \notin {"none", "send"}
        /\ At(t) \notin {"panic", "ex_record"} \cup Leaving
        /\ At(t)' \notin {"panic", "ex_record"} \cup Leaving
  BY Zenon, <1>t, Flow DEF At, Leaving
<1>3. /\ Pexit(t) => Others(t) /\ pc[t] = "user" /\ pc'[t] \in {"panic", "ex_record"}
      /\ Record(t) => Others(t) /\ pc[t] = "ex_record" /\ pc'[t] \in {"ex_wake", "ex_kill"}
      /\ RecordWake(t) => Others(t) /\ pc[t] = "ex_wake" /\ At(t)' = "ex_unlock"
      /\ RecordUnlock(t) => Others(t) /\ pc[t] = "ex_unlock" /\ pc'[t] = "ex_kill"
      /\ Kill(t) => Others(t) /\ pc[t] = "ex_kill" /\ pc'[t] = "ex_unhash"
      /\ Unhash(t) => Others(t) /\ pc[t] = "ex_unhash" /\ pc'[t] = "ex_lastwake"
      /\ LastWake(t) => Others(t) /\ pc[t] = "ex_lastwake" /\ At(t)' = "ex_lastunlock"
      /\ LastUnlock(t) => Others(t) /\ pc[t] = "ex_lastunlock" /\ pc'[t] = "ex_free"
      /\ FreeRecords(t) => Others(t) /\ pc[t] = "ex_free" /\ pc'[t] = "none"
  BY Zenon, <1>t, Flow
<1> QED
  BY Zenon, <1>1, <1>2, <1>3

(* What ExitInv says of one thread. *)
Exits(u) ==
  /\ At(u) \in {"panic", "ex_record"} \cup Leaving => u = <<Pcb(u), 1>>
  /\ pc[u] = "send" => loc[u].cont \in {"ex_unlock", "ex_lastunlock"}
  /\ At(u) \in {"ex_record"} \cup Leaving => pcb[Pcb(u)].parent # 0
  /\ At(u) \in Last => pcb[Pcb(u)].pid = 0
  /\ u = <<Pcb(u), 1>> /\ pc[u] # "none" /\ At(u) \notin Last => pcb[Pcb(u)].pid # 0

(* The exits are kept. *)
LEMMA ExitStep ==
  ASSUME IInv, Types', NEW t \in Threads, CallFork(t) \/ Pexit(t) \/ Pwait(t) \/ Run(t)
  PROVE  ExitInv'
<1>t. Types /\ SlotInv /\ ExitInv /\ PidInv
  BY Zenon DEF IInv
<1>e. \A u \in Threads : Exits(u)
  BY Zenon, <1>t DEF ExitInv, Exits
<1>r. \A u \in Threads : pc[u] # "none" =>
        /\ pcb'[Pcb(u)].parent = pcb[Pcb(u)].parent
        /\ ~Unhash(t) \/ Pcb(u) # Pcb(t) => pcb'[Pcb(u)].pid = pcb[Pcb(u)].pid
  BY Zenon, Running
<1> SUFFICES ASSUME NEW u \in Threads PROVE Exits(u)'
  BY Zenon DEF ExitInv, Exits
<1>1. CASE pc'[u] = pc[u] /\ loc'[u] = loc[u] /\ (~Unhash(t) \/ u # t)
  <2>1. At(u)' = At(u)
    BY Zenon, <1>1 DEF At
  <2>2. CASE pc[u] = "none"
    BY Zenon, <1>1, <2>1, <2>2 DEF Exits, At, Leaving, Last
  <2>3. CASE pc[u] # "none" /\ (~Unhash(t) \/ Pcb(u) # Pcb(t))
    BY Zenon, <1>1, <1>e, <1>r, <2>1, <2>3 DEF Exits
  <2>4. CASE pc[u] # "none" /\ Unhash(t) /\ Pcb(u) = Pcb(t)
    <3>1. pc[t] = "ex_unhash" /\ t = <<Pcb(t), 1>>
      BY Zenon, <1>e, <2>4 DEF Unhash, Step, Exits, At, Leaving
    <3>2. u # <<Pcb(u), 1>>
      BY Zenon, <1>1, <2>4, <3>1
    <3>3. At(u) \notin Last /\ At(u) \notin {"panic", "ex_record"} \cup Leaving
      BY Zenon, <1>e, <3>2 DEF Exits, Last, Leaving
    <3> QED
      BY Zenon, <1>1, <1>e, <2>1, <3>2, <3>3 DEF Exits
  <2> QED
    BY Zenon, <2>2, <2>3, <2>4
<1>2. CASE u = t /\ ~L4Rendezvous(t) /\ ~Start(t)
  <2>r. pc[t] # "none" =>
          /\ pcb'[Pcb(t)].parent = pcb[Pcb(t)].parent
          /\ ~Unhash(t) => pcb'[Pcb(t)].pid = pcb[Pcb(t)].pid
    BY Zenon, <1>r
  <2>e. Exits(t)
    BY Zenon, <1>e
  <2>1. CASE \/ CallFork(t) \/ NewprocTake(t) \/ NewprocHash(t) \/ Link(t) \/ SpawnFails(t) \/ Pwait(t)
             \/ AnyChild(t) \/ SleepTest(t) \/ SleepStore(t) \/ TakeRecord(t)
    <3>1. /\ pc[t] \notin {"none", "send"} /\ pc'[t] \notin {"none", "send"}
          /\ At(t) \notin {"panic", "ex_record"} \cup Leaving /\ At(t)' \notin {"panic", "ex_record"} \cup Leaving
      BY Zenon, <2>1, AtFlow
    <3>2. ~Unhash(t)
      BY Zenon, <3>1 DEF Unhash, Step, At, Leaving
    <3> QED
      BY Zenon, <1>2, <2>r, <2>e, <3>1, <3>2 DEF Exits, Last, Leaving
  <2>2. CASE Pexit(t)
    <3>1. pc[t] = "user" /\ ~Unhash(t) /\ pc'[t] \in {"panic", "ex_record"} /\ t = <<Pcb(t), 1>>
      BY Zenon, <2>2, AtFlow DEF Pexit, Unhash, Step
    <3>2. pc'[t] = "ex_record" => pcb[Pcb(t)].parent # 0
      BY Zenon, <1>t, <2>2 DEF Pexit, Call, Step, Goto, Types
    <3> QED
      BY Zenon, <1>2, <2>r, <2>e, <3>1, <3>2 DEF Exits, At, Last, Leaving
  <2>3. CASE Record(t) \/ RecordUnlock(t) \/ Kill(t)
    <3>1. pc[t] \in {"ex_record", "ex_unlock", "ex_kill"} /\ pc'[t] \in {"ex_wake", "ex_kill", "ex_unhash"} /\ ~Unhash(t)
      BY Zenon, <2>3, AtFlow DEF Unhash, Step
    <3> QED
      BY Zenon, <1>2, <2>r, <2>e, <3>1 DEF Exits, At, Last, Leaving
  <2>4. CASE RecordWake(t)
    <3>1. pc[t] = "ex_wake" /\ At(t)' = "ex_unlock" /\ ~Unhash(t)
      BY Zenon, <2>4, AtFlow DEF Unhash, Step
    <3> QED
      BY Zenon, <1>2, <2>r, <2>e, <3>1 DEF Exits, At, Last, Leaving
  <2>5. CASE LastWake(t)
    <3>1. pc[t] = "ex_lastwake" /\ At(t)' = "ex_lastunlock" /\ ~Unhash(t)
      BY Zenon, <2>5, AtFlow DEF Unhash, Step
    <3> QED
      BY Zenon, <1>2, <2>r, <2>e, <3>1 DEF Exits, At, Last, Leaving
  <2>6. CASE LastUnlock(t) \/ FreeRecords(t)
    <3>1. pc[t] \in {"ex_lastunlock", "ex_free"} /\ pc'[t] \in {"ex_free", "none"} /\ ~Unhash(t)
      BY Zenon, <2>6, AtFlow DEF Unhash, Step
    <3> QED
      BY Zenon, <1>2, <2>r, <2>e, <3>1 DEF Exits, At, Last, Leaving
  <2>7. CASE Unhash(t)
    <3>1. pc[t] = "ex_unhash" /\ pc'[t] = "ex_lastwake" /\ pcb'[Pcb(t)].pid = 0
      BY Zenon, <2>7, AtFlow, Frames, PcbIn
    <3> QED
      BY Zenon, <1>2, <2>r, <2>e, <3>1 DEF Exits, At, Last, Leaving
  <2> QED
    BY Zenon, <1>2, <2>1, <2>2, <2>3, <2>4, <2>5, <2>6, <2>7 DEF Run
<1>3. CASE L4Rendezvous(t)
  <2>1. PICK w : w = loc[t].whom
    BY Zenon
  <2>2. /\ pc[t] = "send" /\ pc'[t] \in {"ex_unlock", "ex_lastunlock"} /\ At(t)' = At(t)
        /\ w \in Threads /\ w # t /\ pc[w] = "wt_sleep" /\ pc'[w] = "wt_take"
        /\ \A v \in Threads \ {t, w} : pc'[v] = pc[v]
        /\ loc' = loc /\ pcb' = pcb
    BY <1>3, <2>1, SendFacts
  <2>3. CASE u = t
    BY Zenon, <1>e, <2>2, <2>3 DEF Exits
  <2>4. CASE u = w
    BY Zenon, <1>e, <2>2, <2>4 DEF Exits, At, Last, Leaving
  <2>5. CASE u \notin {t, w}
    BY Zenon, <1>e, <2>2, <2>5 DEF Exits, At
  <2> QED
    BY Zenon, <2>3, <2>4, <2>5
<1>4. CASE Start(t) /\ pc'[u] # pc[u]
  <2>1. pc'[u] = "user" /\ pcb' = pcb /\ (u = t \/ Pcb(u) = loc[t].child) /\ pc[t] \in {"fk_start", "sp_start"}
    BY Zenon, <1>4 DEF Start
  <2>2. u = <<Pcb(u), 1>> => pcb[Pcb(u)].pid # 0
    BY Zenon, <1>e, <1>t, <2>1 DEF Exits, At, Last, SlotInv, Starting
  <2> QED
    BY Zenon, <2>1, <2>2 DEF Exits, At, Last, Leaving
<1>5. CASE Start(t) /\ pc'[u] = pc[u] /\ loc'[u] # loc[u]
  <2>1. u = t /\ pc[t] \in {"fk_start", "sp_start"} /\ pc'[t] = "user"
    BY Zenon, <1>t, <1>5 DEF Start, Types
  <2> QED
    BY Zenon, <1>5, <2>1
<1>6. ~Start(t) /\ ~L4Rendezvous(t) /\ u # t => pc'[u] = pc[u] /\ loc'[u] = loc[u]
  <2>1. ~Start(t) /\ ~L4Rendezvous(t) => Others(t)
    BY Zenon, AtFlow DEF Run
  <2> QED
    BY Zenon, <2>1 DEF Others
<1>7. Start(t) => ~Unhash(t)
  BY Zenon DEF Start, Unhash, Step
<1> QED
  BY Zenon, <1>1, <1>2, <1>3, <1>4, <1>5, <1>6, <1>7

-----------------------------------------------------------------------------
(* Where a thread holds an exl. *)
Own == {"ex_lastwake", "ex_lastunlock"}

(* A step that takes and releases no exl. *)
Lockless(t) ==
  \/ CallFork(t) \/ NewprocTake(t) \/ NewprocHash(t) \/ Link(t) \/ Start(t) \/ SpawnFails(t)
  \/ Pexit(t) \/ (Record(t) /\ ~LeavesRecord(Pcb(t))) \/ RecordWake(t) \/ Kill(t) \/ LastWake(t)
  \/ FreeRecords(t) \/ Pwait(t) \/ AnyChild(t) \/ SleepTest(t) \/ SleepStore(t) \/ TakeRecord(t)
  \/ L4Rendezvous(t)

(* The other threads, and t in such a step, hold what they held. *)
LEMMA HoldsOthers ==
  ASSUME IInv, Types', NEW t \in Threads, CallFork(t) \/ Pexit(t) \/ Pwait(t) \/ Run(t),
         NEW u \in Threads, NEW x \in Pcbs
  PROVE  u # t \/ Lockless(t) => (Holds(u, x)' <=> Holds(u, x))
<1>t. Types /\ ExitInv
  BY Zenon DEF IInv
<1>r. pc[u] # "none" => pcb'[Pcb(u)].parent = pcb[Pcb(u)].parent
  BY Zenon, Running
<1>a. ASSUME At(u)' \in Recording <=> At(u) \in Recording, At(u)' \in Own <=> At(u) \in Own
      PROVE  Holds(u, x)' <=> Holds(u, x)
  <2>1. At(u) \in Recording => pc[u] # "none"
    BY Zenon DEF At, Recording
  <2> QED
    BY Zenon, <1>r, <1>a, <2>1 DEF Holds, Own
<1>1. ASSUME u # t PROVE Holds(u, x)' <=> Holds(u, x)
  <2>1. CASE L4Rendezvous(t)
    <3>1. PICK w : w = loc[t].whom
      BY Zenon
    <3>2. /\ pc[w] = "wt_sleep" /\ pc'[w] = "wt_take" /\ loc' = loc
          /\ \A v \in Threads \ {t, w} : pc'[v] = pc[v]
      BY <2>1, <3>1, SendFacts
    <3>3. u = w \/ pc'[u] = pc[u]
      BY Zenon, <1>1, <3>2
    <3> QED
      BY Zenon, <1>a, <3>2, <3>3 DEF At, Recording, Own
  <2>2. CASE Start(t)
    <3>1. pc'[u] = pc[u] \/ (pc'[u] = "user" /\ Pcb(u) = loc[t].child)
      BY Zenon, <1>1, <2>2 DEF Start
    <3>2. loc'[u] = loc[u]
      BY Zenon, <1>1, <1>t, <2>2 DEF Start, Types
    <3>3. Pcb(u) = loc[t].child => pc[u] = "none"
      BY Zenon, <2>2 DEF Start, IInv, SlotInv, Making, Starting
    <3> QED
      BY Zenon, <1>a, <3>1, <3>2, <3>3 DEF At, Recording, Own
  <2>3. CASE ~L4Rendezvous(t) /\ ~Start(t)
    <3>1. Others(t)
      BY Zenon, <2>3, AtFlow DEF Run
    <3> QED
      BY Zenon, <1>1, <1>a, <3>1 DEF Others, At
  <2> QED
    BY Zenon, <2>1, <2>2, <2>3
<1>2. ASSUME u = t, Lockless(t) PROVE Holds(t, x)' <=> Holds(t, x)
  <2> SUFFICES (At(t)' \in Recording <=> At(t) \in Recording) /\ (At(t)' \in Own <=> At(t) \in Own)
    BY Zenon, <1>a, <1>2
  <2>1. CASE \/ CallFork(t) \/ NewprocTake(t) \/ NewprocHash(t) \/ Link(t) \/ SpawnFails(t) \/ Pwait(t)
             \/ AnyChild(t) \/ SleepTest(t) \/ SleepStore(t) \/ TakeRecord(t)
    <3>1. At(t) \notin Leaving /\ At(t)' \notin Leaving
      BY Zenon, <2>1, AtFlow
    <3> QED
      BY Zenon, <3>1 DEF Leaving, Recording, Own
  <2>2. CASE Start(t)
    <3>1. pc[t] \in {"fk_start", "sp_start"} /\ pc'[t] = "user"
      BY Zenon, <2>2 DEF Start
    <3> QED
      BY Zenon, <3>1 DEF At, Recording, Own
  <2>3. CASE Pexit(t) \/ Kill(t) \/ FreeRecords(t)
    <3>1. /\ pc[t] \in {"user", "ex_kill", "ex_free"}
          /\ pc'[t] \in {"panic", "ex_record", "ex_unhash", "none"}
      BY Zenon, <2>3, AtFlow
    <3> QED
      BY Zenon, <3>1 DEF At, Recording, Own
  <2>4. CASE Record(t) /\ ~LeavesRecord(Pcb(t))
    <3>1. pc[t] = "ex_record" /\ pc'[t] = "ex_kill"
      BY Zenon, <1>t, <2>4 DEF Record, Goto, Types
    <3> QED
      BY Zenon, <3>1 DEF At, Recording, Own
  <2>5. CASE RecordWake(t) \/ LastWake(t)
    BY Zenon, <2>5, AtFlow DEF At, Recording, Own
  <2>6. CASE L4Rendezvous(t)
    BY Zenon, <2>6, SendFacts
  <2> QED
    BY Zenon, <1>2, <2>1, <2>2, <2>3, <2>4, <2>5, <2>6 DEF Lockless
<1> QED
  BY Zenon, <1>1, <1>2

(* exl is held as ExlInv says. *)
LEMMA ExlStep ==
  ASSUME IInv, Types', NEW t \in Threads, CallFork(t) \/ Pexit(t) \/ Pwait(t) \/ Run(t)
  PROVE  ExlInv'
<1>t. Types /\ SlotInv /\ ExitInv /\ ExlInv /\ FamilyInv /\ pcb \in [Pcbs -> PcbRecs]
  BY Zenon DEF IInv, Types
<1>p. \A u \in Threads : Pcb(u) \in Pcbs
  BY Zenon, PcbIn
<1>o. \A u \in Threads, x \in Pcbs : u # t \/ Lockless(t) => (Holds(u, x)' <=> Holds(u, x))
  BY Zenon, HoldsOthers
<1>a. ASSUME NEW q \in Pcbs, pcb[q].exl = 0, pcb'[q].exl = 1, \A x \in Pcbs \ {q} : pcb'[x].exl = pcb[x].exl,
             \A x \in Pcbs : ~Holds(t, x) /\ (Holds(t, x)' <=> x = q)
      PROVE  ExlInv'
  <2> SUFFICES ASSUME NEW x \in Pcbs
               PROVE  /\ pcb'[x].exl = 1 <=> \E u \in Threads : Holds(u, x)'
                      /\ \A u, v \in Threads : Holds(u, x)' /\ Holds(v, x)' => u = v
    BY Zenon DEF ExlInv
  <2>1. \A u \in Threads \ {t} : Holds(u, x)' <=> Holds(u, x)
    BY Zenon, <1>o
  <2>2. CASE x = q
    <3>1. \A u \in Threads : ~Holds(u, x)
      BY <1>t, <1>a, <2>2 DEF ExlInv
    <3> QED
      BY Zenon, <1>a, <2>1, <2>2, <3>1
  <2>3. CASE x # q
    <3>1. \A u \in Threads : Holds(u, x)' <=> Holds(u, x)
      BY Zenon, <1>a, <2>1, <2>3
    <3> QED
      BY Zenon, <1>t, <1>a, <2>3, <3>1 DEF ExlInv
  <2> QED
    BY Zenon, <2>2, <2>3
<1>b. ASSUME NEW q \in Pcbs, pcb'[q].exl = 0, \A x \in Pcbs \ {q} : pcb'[x].exl = pcb[x].exl,
             \A x \in Pcbs : ~Holds(t, x)' /\ (Holds(t, x) <=> x = q)
      PROVE  ExlInv'
  <2> SUFFICES ASSUME NEW x \in Pcbs
               PROVE  /\ pcb'[x].exl = 1 <=> \E u \in Threads : Holds(u, x)'
                      /\ \A u, v \in Threads : Holds(u, x)' /\ Holds(v, x)' => u = v
    BY Zenon DEF ExlInv
  <2>1. \A u \in Threads \ {t} : Holds(u, x)' <=> Holds(u, x)
    BY Zenon, <1>o
  <2>2. CASE x = q
    <3>1. \A u \in Threads : ~Holds(u, x)'
      BY Zenon, <1>t, <1>b, <2>1, <2>2 DEF ExlInv
    <3> QED
      BY <1>b, <2>2, <3>1
  <2>3. CASE x # q
    <3>1. \A u \in Threads : Holds(u, x)' <=> Holds(u, x)
      BY Zenon, <1>b, <2>1, <2>3
    <3> QED
      BY Zenon, <1>t, <1>b, <2>3, <3>1 DEF ExlInv
  <2> QED
    BY Zenon, <2>2, <2>3
<1>r. pc[t] # "none" => pcb'[Pcb(t)].parent = pcb[Pcb(t)].parent
  BY Zenon, Running
<1>1. CASE Record(t) /\ LeavesRecord(Pcb(t))
  <2> DEFINE p == Pcb(t)
             q == pcb[p].parent
             r == [pcb[q] EXCEPT !.nchild = @ - 1, !.waitq = <<pcb[p].pid>> \o @,
                                 !.nwait = @ + 1, !.exl = 1]
  <2>1. q \in Pcbs /\ pcb[q] \in PcbRecs /\ pc[t] = "ex_record"
    <3>1. pc[t] = "ex_record"
      BY Zenon, <1>1 DEF Record
    <3> QED
      BY Zenon, <1>t, <3>1, ParentIn DEF At
  <2>2. Sets(q, r) /\ pcb[q].exl = 0 /\ pc'[t] = "ex_wake"
    BY Zenon, <1>t, <1>1, ExitFacts
  <2>3. r.exl = 1
    BY Zenon, <2>1 DEF PcbRecs
  <2> HIDE DEF r
  <2>4. pcb'[q].exl = 1 /\ \A x \in Pcbs \ {q} : pcb'[x].exl = pcb[x].exl
    BY Zenon, <2>2, <2>3 DEF Sets
  <2>5. \A x \in Pcbs : ~Holds(t, x) /\ (Holds(t, x)' <=> x = q)
    BY Zenon, <1>r, <2>1, <2>2 DEF Holds, At, Recording
  <2> QED
    BY Zenon, <1>a, <2>1, <2>2, <2>4, <2>5
<1>2. CASE RecordUnlock(t)
  <2> DEFINE q == pcb[Pcb(t)].parent
             r == [pcb[q] EXCEPT !.exl = 0]
  <2>1. pc[t] = "ex_unlock" /\ pc'[t] = "ex_kill"
    BY Zenon, <1>2, AtFlow
  <2>2. q \in Pcbs
    BY Zenon, <1>t, <2>1, ParentIn DEF At, Leaving
  <2>3. Sets(q, r)
    BY Zenon, <1>t, <1>2, ExitFacts
  <2>4. r.exl = 0
    BY Zenon, <1>t, <2>2 DEF PcbRecs
  <2> HIDE DEF r
  <2>5. pcb'[q].exl = 0 /\ \A x \in Pcbs \ {q} : pcb'[x].exl = pcb[x].exl
    BY Zenon, <2>3, <2>4 DEF Sets
  <2>6. \A x \in Pcbs : ~Holds(t, x)' /\ (Holds(t, x) <=> x = q)
    BY Zenon, <2>1 DEF Holds, At, Recording
  <2> QED
    BY Zenon, <1>b, <2>2, <2>5, <2>6
<1>3. CASE Unhash(t)
  <2> DEFINE q == Pcb(t)
             r == [pcb[q] EXCEPT !.pid = 0, !.exl = 1]
  <2>1. pc[t] = "ex_unhash" /\ pc'[t] = "ex_lastwake" /\ q \in Pcbs
    BY Zenon, <1>3, <1>p, AtFlow
  <2>2. Sets(q, r) /\ pcb[q].exl = 0
    BY Zenon, <1>t, <1>3, ExitFacts
  <2>3. r.exl = 1
    BY Zenon, <1>t, <2>1 DEF PcbRecs
  <2> HIDE DEF r
  <2>4. pcb'[q].exl = 1 /\ \A x \in Pcbs \ {q} : pcb'[x].exl = pcb[x].exl
    BY Zenon, <2>2, <2>3 DEF Sets
  <2>5. \A x \in Pcbs : ~Holds(t, x) /\ (Holds(t, x)' <=> x = q)
    BY Zenon, <2>1 DEF Holds, At, Recording
  <2> QED
    BY Zenon, <1>a, <2>1, <2>2, <2>4, <2>5
<1>4. CASE LastUnlock(t)
  <2> DEFINE q == Pcb(t)
             r == [pcb[q] EXCEPT !.exl = 0]
  <2>1. pc[t] = "ex_lastunlock" /\ pc'[t] = "ex_free" /\ q \in Pcbs
    BY Zenon, <1>4, <1>p, AtFlow
  <2>2. Sets(q, r)
    BY Zenon, <1>t, <1>4, ExitFacts
  <2>3. r.exl = 0
    BY Zenon, <1>t, <2>1 DEF PcbRecs
  <2> HIDE DEF r
  <2>4. pcb'[q].exl = 0 /\ \A x \in Pcbs \ {q} : pcb'[x].exl = pcb[x].exl
    BY Zenon, <2>2, <2>3 DEF Sets
  <2>5. \A x \in Pcbs : ~Holds(t, x)' /\ (Holds(t, x) <=> x = q)
    BY Zenon, <2>1 DEF Holds, At, Recording
  <2> QED
    BY Zenon, <1>b, <2>1, <2>4, <2>5
<1>5. CASE NewprocHash(t)
  <2>1. PICK c : c = loc[t].child
    BY Zenon
  <2>2. c \in Pcbs /\ Sets(c, NewPcb(pidalloc + 1)) /\ pcb[c].was = 0
    BY Zenon, <1>t, <1>5, <2>1, NewprocFacts DEF NewprocHash, SlotInv, New
  <2>3. pcb'[c].exl = 0 /\ \A x \in Pcbs \ {c} : pcb'[x].exl = pcb[x].exl
    <3>1. pidalloc + 1 \in Nat
      BY <1>t DEF Types
    <3> QED
      BY Zenon, <2>2, <3>1, NewFields DEF Sets
  <2>4. \A u \in Threads : ~Holds(u, c)
    <3> SUFFICES ASSUME NEW u \in Threads, Holds(u, c) PROVE FALSE
      BY Zenon
    <3>1. pc[u] # "none"
      BY Zenon DEF Holds, At, Recording
    <3>2. CASE At(u) \in Recording /\ pcb[Pcb(u)].parent = c
      <4>1. pcb[Pcb(u)].parent # 0
        BY Zenon, <1>t, <3>2 DEF ExitInv, Recording, Leaving
      <4> QED
        BY Zenon, <1>t, <1>p, <2>2, <3>2, <4>1 DEF FamilyInv
    <3>3. CASE Pcb(u) = c
      BY Zenon, <1>t, <2>2, <3>1, <3>3 DEF SlotInv
    <3> QED
      BY Zenon, <3>2, <3>3 DEF Holds
  <2>5. Lockless(t)
    BY Zenon, <1>5 DEF Lockless
  <2>6. pcb[c].exl = 0
    BY Zenon, <1>t, <2>2, <2>4 DEF ExlInv, PcbRecs
  <2> QED
    BY Zenon, <1>t, <1>o, <2>2, <2>3, <2>5, <2>6 DEF ExlInv
<1>6. CASE Lockless(t) /\ KeepExl
  BY Zenon, <1>t, <1>o, <1>6 DEF ExlInv, KeepExl
<1>7. Lockless(t) => KeepExl \/ NewprocHash(t)
  <2>1. Record(t) /\ ~LeavesRecord(Pcb(t)) => pcb' = pcb
    BY Zenon DEF Record
  <2>2. Record(t) /\ ~LeavesRecord(Pcb(t)) => KeepExl
    BY Zenon, <2>1 DEF KeepExl
  <2> QED
    BY Zenon, <2>2, Frames DEF Lockless
<1> QED
  BY Zenon, <1>1, <1>2, <1>3, <1>4, <1>5, <1>6, <1>7 DEF Lockless, Run

-----------------------------------------------------------------------------
(* Who is in pwait, before and after. *)
LEMMA WaitFlow ==
  ASSUME IInv, NEW t \in Threads, CallFork(t) \/ Pexit(t) \/ Pwait(t) \/ Run(t)
  PROVE  /\ \A u \in Threads \ {t} :
              /\ pc'[u] \in Waiting <=> pc[u] \in Waiting
              /\ pc[u] = "wt_sleep" => pc'[u] = "wt_sleep" \/ (L4Rendezvous(t) /\ u = loc[t].whom)
              /\ pc'[u] = "send" => pc[u] = "send" /\ loc'[u] = loc[u]
         /\ pc'[t] \in Waiting => pc[t] \in Waiting \/ Pwait(t)
         /\ pc[t] # "wt_sleep"
         /\ pc[t] = "send" => L4Rendezvous(t)
         /\ pc'[t] = "send" => RecordWake(t) \/ LastWake(t)
<1>t. Types /\ SlotInv /\ ExitInv
  BY Zenon DEF IInv
<1>1. CASE L4Rendezvous(t)
  <2>1. PICK w : w = loc[t].whom
    BY Zenon
  <2>2. /\ pc[t] = "send" /\ pc'[t] \in {"ex_unlock", "ex_lastunlock"}
        /\ w \in Threads /\ w # t /\ pc[w] = "wt_sleep" /\ pc'[w] = "wt_take"
        /\ \A v \in Threads \ {t, w} : pc'[v] = pc[v]
        /\ loc' = loc
    BY <1>1, <2>1, SendFacts
  <2> QED
    BY Zenon, <1>1, <2>1, <2>2 DEF Waiting
<1>2. CASE Start(t)
  <2>1. pc[t] \in Starting /\ pc'[t] = "user" /\ \A u \in Threads \ {t} : loc'[u] = loc[u]
    BY Zenon, <1>t, <1>2 DEF Start, Starting, Types
  <2>2. \A u \in Threads \ {t} : pc'[u] = pc[u] \/ (pc'[u] = "user" /\ pc[u] = "none")
    BY Zenon, <1>t, <1>2, <2>1 DEF Start, SlotInv, Making
  <2> QED
    BY Zenon, <2>1, <2>2 DEF Waiting, Starting
<1>3. CASE ~L4Rendezvous(t) /\ ~Start(t)
  <2>1. Others(t)
    BY Zenon, <1>3, AtFlow DEF Run
  <2>2. CASE Pwait(t) \/ AnyChild(t) \/ SleepTest(t) \/ SleepStore(t) \/ TakeRecord(t)
    <3>1. /\ pc'[t] \in Waiting => pc[t] \in Waiting \/ Pwait(t)
          /\ pc[t] \in {"user", "wt_any", "wt_test", "wt_store", "wt_take"} /\ pc'[t] # "send"
      BY Zenon, <1>t, <2>2, Flow DEF Waiting
    <3> QED
      BY Zenon, <2>1, <3>1 DEF Others
  <2>3. CASE CallFork(t) \/ NewprocTake(t) \/ NewprocHash(t) \/ Link(t) \/ SpawnFails(t)
    <3>1. pc'[t] \notin Waiting /\ pc[t] \notin {"wt_sleep", "send"} /\ pc'[t] # "send"
      BY Zenon, <1>t, <2>3, Flow DEF Waiting, New, Linking, Starting
    <3> QED
      BY Zenon, <2>1, <3>1 DEF Others
  <2>4. CASE Pexit(t) \/ Record(t) \/ RecordUnlock(t) \/ Kill(t) \/ Unhash(t) \/ LastUnlock(t) \/ FreeRecords(t)
    <3>1. pc'[t] \notin Waiting /\ pc[t] \notin {"wt_sleep", "send"} /\ pc'[t] # "send"
      BY Zenon, <1>t, <2>4, Flow DEF Waiting
    <3> QED
      BY Zenon, <2>1, <3>1 DEF Others
  <2>5. CASE RecordWake(t) \/ LastWake(t)
    <3>1. pc[t] \in {"ex_wake", "ex_lastwake"} /\ At(t)' \in {"ex_unlock", "ex_lastunlock"}
      BY Zenon, <1>t, <2>5, Flow
    <3>2. pc'[t] \notin Waiting /\ pc[t] \notin {"wt_sleep", "send"}
      BY Zenon, <3>1 DEF Waiting, At
    <3> QED
      BY Zenon, <2>1, <2>5, <3>2 DEF Others
  <2> QED
    BY Zenon, <1>3, <2>2, <2>3, <2>4, <2>5 DEF Run
<1> QED
  BY Zenon, <1>1, <1>2, <1>3

(* What pwait does to qwaitr. *)
LEMMA QwaitrFacts ==
  ASSUME IInv, NEW t \in Threads, NEW p, p = Pcb(t)
  PROVE  /\ Pwait(t) => /\ pc'[t] = "wt_any" => ~pcb[p].qwaitr
                        /\ \A x \in Pcbs : pcb[x].qwaitr => pcb'[x].qwaitr
                        /\ pc'[t] = "wt_any" => pcb'[p].qwaitr
         /\ AnyChild(t) \/ TakeRecord(t) =>
                        /\ pc'[t] = "user" \/ \A x \in Pcbs : pcb'[x].qwaitr = pcb[x].qwaitr
                        /\ \A x \in Pcbs \ {p} : pcb'[x].qwaitr = pcb[x].qwaitr
<1>t. Types /\ RecordInv /\ p \in Pcbs /\ pcb[p] \in PcbRecs
  BY Zenon, PcbIn DEF IInv, Types
<1>1. ASSUME Pwait(t)
      PROVE  /\ pc'[t] = "wt_any" => ~pcb[p].qwaitr
             /\ \A x \in Pcbs : pcb[x].qwaitr => pcb'[x].qwaitr
             /\ pc'[t] = "wt_any" => pcb'[p].qwaitr
  <2> DEFINE r == [pcb[p] EXCEPT !.qwaitr = TRUE]
  <2>1. \/ pcb' = pcb /\ pc'[t] = "user"
        \/ ~pcb[p].qwaitr /\ Sets(p, r) /\ pc'[t] = "wt_any"
    BY Zenon, <1>t, <1>1, PwaitFacts
  <2>2. r.qwaitr = TRUE
    BY Zenon, <1>t DEF PcbRecs
  <2> HIDE DEF r
  <2> QED
    BY Zenon, <2>1, <2>2 DEF Sets
<1>2. ASSUME AnyChild(t)
      PROVE  /\ pc'[t] = "user" \/ \A x \in Pcbs : pcb'[x].qwaitr = pcb[x].qwaitr
             /\ \A x \in Pcbs \ {p} : pcb'[x].qwaitr = pcb[x].qwaitr
  <2>1. \/ pcb' = pcb /\ pc'[t] = "wt_test"
        \/ Sets(p, [pcb[p] EXCEPT !.qwaitr = FALSE]) /\ pc'[t] = "user"
    BY Zenon, <1>t, <1>2, PwaitFacts
  <2> QED
    BY Zenon, <2>1 DEF Sets
<1>3. ASSUME TakeRecord(t)
      PROVE  /\ pc'[t] = "user" \/ \A x \in Pcbs : pcb'[x].qwaitr = pcb[x].qwaitr
             /\ \A x \in Pcbs \ {p} : pcb'[x].qwaitr = pcb[x].qwaitr
  <2> DEFINE r == [pcb[p] EXCEPT !.waitq = Tail(@), !.nwait = @ - 1, !.qwaitr = FALSE]
  <2>1. pcb' = pcb \/ (pc'[t] = "user" /\ Sets(p, r))
    BY Zenon, <1>t, <1>3, PwaitFacts
  <2> HIDE DEF r
  <2> QED
    BY Zenon, <2>1 DEF Sets
<1> QED
  BY Zenon, <1>1, <1>2, <1>3

(* One thread of a process at a time is in pwait. *)
LEMMA OneWaits ==
  ASSUME IInv, Types', NEW t \in Threads, CallFork(t) \/ Pexit(t) \/ Pwait(t) \/ Run(t)
  PROVE  /\ \A u, v \in Threads : pc'[u] \in Waiting /\ pc'[v] \in Waiting /\ Pcb(u) = Pcb(v) => u = v
         /\ \A u \in Threads : pc'[u] \in Waiting => pcb'[Pcb(u)].qwaitr
<1>t. Types /\ WaitInv /\ ExitInv
  BY Zenon DEF IInv
<1>p. \A u \in Threads : Pcb(u) \in Pcbs
  BY Zenon, PcbIn
<1>f. /\ \A u \in Threads \ {t} : pc'[u] \in Waiting <=> pc[u] \in Waiting
      /\ pc'[t] \in Waiting => pc[t] \in Waiting \/ Pwait(t)
  BY Zenon, WaitFlow
<1>w. /\ \A u, v \in Threads : pc[u] \in Waiting /\ pc[v] \in Waiting /\ Pcb(u) = Pcb(v) => u = v
      /\ \A u \in Threads : pc[u] \in Waiting => pcb[Pcb(u)].qwaitr
  BY Zenon, <1>t DEF WaitInv
<1>1. CASE Pwait(t) /\ pc'[t] \in Waiting
  <2>1. pc'[t] = "wt_any"
    BY Zenon, <1>t, <1>1, Flow DEF Waiting
  <2>2. /\ ~pcb[Pcb(t)].qwaitr /\ pcb'[Pcb(t)].qwaitr
        /\ \A x \in Pcbs : pcb[x].qwaitr => pcb'[x].qwaitr
    BY Zenon, <1>1, <2>1, QwaitrFacts
  <2> QED
    BY Zenon, <1>p, <1>f, <1>w, <2>2
<1>2. CASE ~(Pwait(t) /\ pc'[t] \in Waiting)
  <2>1. \A u \in Threads : pc'[u] \in Waiting => pc[u] \in Waiting
    BY Zenon, <1>f, <1>2
  <2>2. ASSUME NEW u \in Threads, pc'[u] \in Waiting PROVE pcb'[Pcb(u)].qwaitr
    <3>1. pcb[Pcb(u)].qwaitr /\ pc[u] \in Waiting
      BY Zenon, <1>w, <2>1, <2>2
    <3>2. CASE Pwait(t)
      BY Zenon, <1>p, <3>1, <3>2, QwaitrFacts
    <3>3. CASE AnyChild(t) \/ TakeRecord(t)
      <4>1. pc[t] \in Waiting
        BY Zenon, <1>t, <3>3, Flow DEF Waiting
      <4>2. pc'[t] = "user" => u # t
        BY Zenon, <2>2 DEF Waiting
      <4>3. pc'[t] = "user" => Pcb(u) # Pcb(t)
        BY Zenon, <1>w, <3>1, <4>1, <4>2
      <4> QED
        BY <1>p, <3>1, <3>3, <4>3, QwaitrFacts
    <3>4. CASE NewprocHash(t)
      <4>1. PICK c : c = loc[t].child
        BY Zenon
      <4>2. pc[u] # "none"
        BY Zenon, <3>1 DEF Waiting
      <4> QED
        BY Zenon, <1>p, <3>1, <3>4, <4>1, <4>2, FreshFacts
    <3>5. CASE KeepQwaitr
      BY Zenon, <1>p, <3>1, <3>5 DEF KeepQwaitr
    <3> QED
      BY Zenon, <3>2, <3>3, <3>4, <3>5, Frames DEF Run
  <2> QED
    BY Zenon, <1>w, <2>1, <2>2
<1> QED
  BY Zenon, <1>1, <1>2

(* What sleep and wakeup do to waitr. *)
LEMMA WaitrFacts ==
  ASSUME IInv, NEW t \in Threads
  PROVE  /\ SleepStore(t) => /\ pcb'[Pcb(t)].waitr = t
                             /\ \A x \in Pcbs \ {Pcb(t)} : pcb'[x].waitr = pcb[x].waitr
         /\ RecordWake(t) \/ LastWake(t) => \E q \in Pcbs :
              /\ Holds(t, q)
              /\ \A x \in Pcbs \ {q} : pcb'[x].waitr = pcb[x].waitr
              /\ pcb'[q].waitr = NoThread
              /\ pc'[t] = "send" => pcb[q].waitr \in Threads /\ loc'[t].whom = pcb[q].waitr
<1>t. Types /\ RecordInv /\ ExitInv /\ pcb \in [Pcbs -> PcbRecs] /\ Pcb(t) \in Pcbs
  BY Zenon, PcbIn DEF IInv, Types
<1>1. ASSUME SleepStore(t)
      PROVE  pcb'[Pcb(t)].waitr = t /\ \A x \in Pcbs \ {Pcb(t)} : pcb'[x].waitr = pcb[x].waitr
  <2> DEFINE r == [pcb[Pcb(t)] EXCEPT !.waitr = t]
  <2>1. Sets(Pcb(t), r)
    BY Zenon, <1>t, <1>1, PwaitFacts
  <2>2. r.waitr = t
    BY Zenon, <1>t DEF PcbRecs
  <2> HIDE DEF r
  <2> QED
    BY Zenon, <2>1, <2>2 DEF Sets
<1>2. ASSUME NEW q \in Pcbs, NEW k \in Places \ {"send"}, Wakeup(t, q, k)
      PROVE  /\ \A x \in Pcbs \ {q} : pcb'[x].waitr = pcb[x].waitr
             /\ pcb'[q].waitr = NoThread
             /\ pc'[t] = "send" => pcb[q].waitr \in Threads /\ loc'[t].whom = pcb[q].waitr
  <2> DEFINE r == [pcb[q] EXCEPT !.waitr = NoThread]
  <2>1. \/ pcb[q].waitr = NoThread /\ pcb' = pcb /\ pc'[t] = k
        \/ /\ pcb[q].waitr \in Threads /\ Sets(q, r)
           /\ pc'[t] = "send" /\ loc'[t].whom = pcb[q].waitr
    BY Zenon, <1>t, <1>2, WakeFacts
  <2>2. r.waitr = NoThread
    BY Zenon, <1>t DEF PcbRecs
  <2> HIDE DEF r
  <2> QED
    BY Zenon, <1>2, <2>1, <2>2 DEF Sets
<1>3. {"ex_unlock", "ex_lastunlock"} \subseteq Places \ {"send"}
  BY Zenon DEF Places
<1>4. ASSUME RecordWake(t)
      PROVE  \E q \in Pcbs :
              /\ Holds(t, q)
              /\ \A x \in Pcbs \ {q} : pcb'[x].waitr = pcb[x].waitr
              /\ pcb'[q].waitr = NoThread
              /\ pc'[t] = "send" => pcb[q].waitr \in Threads /\ loc'[t].whom = pcb[q].waitr
  <2>1. pcb[Pcb(t)].parent \in Pcbs /\ Holds(t, pcb[Pcb(t)].parent)
    BY Zenon, <1>t, <1>4, ParentIn DEF RecordWake, At, Leaving, Holds, Recording
  <2>2. Wakeup(t, pcb[Pcb(t)].parent, "ex_unlock")
    BY Zenon, <1>4 DEF RecordWake
  <2> QED
    BY Zenon, <1>2, <1>3, <2>1, <2>2
<1>5. ASSUME LastWake(t)
      PROVE  \E q \in Pcbs :
              /\ Holds(t, q)
              /\ \A x \in Pcbs \ {q} : pcb'[x].waitr = pcb[x].waitr
              /\ pcb'[q].waitr = NoThread
              /\ pc'[t] = "send" => pcb[q].waitr \in Threads /\ loc'[t].whom = pcb[q].waitr
  <2>1. Holds(t, Pcb(t))
    BY Zenon, <1>5 DEF LastWake, At, Holds
  <2>2. Wakeup(t, Pcb(t), "ex_lastunlock")
    BY Zenon, <1>5 DEF LastWake
  <2> QED
    BY Zenon, <1>t, <1>2, <1>3, <2>1, <2>2
<1> QED
  BY Zenon, <1>1, <1>4, <1>5

(* The sleep and the wakeups of pwait are kept. *)
LEMMA WaitStep ==
  ASSUME IInv, Types', NEW t \in Threads, CallFork(t) \/ Pexit(t) \/ Pwait(t) \/ Run(t)
  PROVE  WaitInv'
<1>t. Types /\ WaitInv /\ ExlInv /\ NoThread \notin Threads /\ pcb \in [Pcbs -> PcbRecs]
  BY Zenon, ProcAssumption DEF IInv, Types
<1>p. \A u \in Threads : Pcb(u) \in Pcbs
  BY Zenon, PcbIn
<1>r. \A p \in Pcbs : pcb[p].waitr # NoThread => pcb[p].waitr \in Threads
  BY Zenon, <1>t DEF PcbRecs
<1>f. /\ \A u \in Threads \ {t} :
           /\ pc[u] = "wt_sleep" => pc'[u] = "wt_sleep" \/ (L4Rendezvous(t) /\ u = loc[t].whom)
           /\ pc'[u] = "send" => pc[u] = "send" /\ loc'[u] = loc[u]
      /\ pc[t] # "wt_sleep"
      /\ pc[t] = "send" => L4Rendezvous(t)
      /\ pc'[t] = "send" => RecordWake(t) \/ LastWake(t)
  BY Zenon, WaitFlow
<1>w. /\ \A p \in Pcbs : pcb[p].waitr # NoThread => pc[pcb[p].waitr] = "wt_sleep" /\ Pcb(pcb[p].waitr) = p
      /\ \A u \in Threads : pc[u] = "send" =>
           /\ loc[u].whom \in Threads /\ pc[loc[u].whom] = "wt_sleep"
           /\ Holds(u, Pcb(loc[u].whom)) /\ pcb[Pcb(loc[u].whom)].waitr = NoThread
  BY Zenon, <1>t DEF WaitInv
<1>l. L4Rendezvous(t) => pc[t] = "send"
  BY Zenon DEF L4Rendezvous
<1>c. \A x \in Pcbs : pcb'[x].waitr \in {pcb[x].waitr, NoThread} \/ (SleepStore(t) /\ x = Pcb(t) /\ pcb'[x].waitr = t)
  <2>1. CASE SleepStore(t) \/ RecordWake(t) \/ LastWake(t)
    BY Zenon, <2>1, WaitrFacts
  <2>2. CASE NewprocHash(t)
    <3>1. PICK c : c = loc[t].child
      BY Zenon
    <3> QED
      BY Zenon, <2>2, <3>1, FreshFacts
  <2>3. CASE KeepWaitr
    BY Zenon, <2>3 DEF KeepWaitr
  <2> QED
    BY Zenon, <2>1, <2>2, <2>3, Frames DEF Run
<1>1. \A p \in Pcbs : pcb'[p].waitr # NoThread => pc'[pcb'[p].waitr] = "wt_sleep" /\ Pcb(pcb'[p].waitr) = p
  <2> SUFFICES ASSUME NEW p \in Pcbs, pcb'[p].waitr # NoThread
               PROVE  pc'[pcb'[p].waitr] = "wt_sleep" /\ Pcb(pcb'[p].waitr) = p
    BY Zenon
  <2>1. CASE SleepStore(t) /\ p = Pcb(t) /\ pcb'[p].waitr = t
    <3>1. pc'[t] = "wt_sleep"
      BY Zenon, <1>t, <2>1, Flow DEF IInv
    <3> QED
      BY Zenon, <2>1, <3>1
  <2>2. CASE pcb'[p].waitr = pcb[p].waitr
    <3>1. PICK u \in Threads : u = pcb[p].waitr
      BY Zenon, <1>r, <2>2
    <3>2. pc[u] = "wt_sleep" /\ Pcb(u) = p /\ u # t
      BY <1>f, <1>w, <2>2, <3>1
    <3>3. L4Rendezvous(t) => u # loc[t].whom
      BY <1>w, <1>l, <2>2, <3>1, <3>2
    <3> QED
      BY Zenon, <1>f, <2>2, <3>1, <3>2, <3>3
  <2> QED
    BY Zenon, <1>c, <2>1, <2>2
<1>2. ASSUME NEW u \in Threads, pc'[u] = "send"
      PROVE  /\ loc'[u].whom \in Threads /\ pc'[loc'[u].whom] = "wt_sleep"
             /\ Holds(u, Pcb(loc[u].whom))' /\ pcb'[Pcb(loc'[u].whom)].waitr = NoThread
  <2>1. CASE u = t
    <3>1. RecordWake(t) \/ LastWake(t)
      BY Zenon, <1>f, <1>2, <2>1
    <3>2. PICK q \in Pcbs : /\ Holds(t, q) /\ pcb'[q].waitr = NoThread
                            /\ pcb[q].waitr \in Threads /\ loc'[t].whom = pcb[q].waitr
      BY Zenon, <1>2, <2>1, <3>1, WaitrFacts
    <3>3. PICK w \in Threads : w = pcb[q].waitr
      BY Zenon, <3>2
    <3>4. pc[w] = "wt_sleep" /\ Pcb(w) = q
      BY Zenon, <1>t, <1>w, <3>2, <3>3
    <3>5. ~L4Rendezvous(t)
      BY Zenon, <3>1, <1>l DEF RecordWake, LastWake
    <3>6. w # t /\ pc'[w] = "wt_sleep"
      BY Zenon, <1>f, <3>4, <3>5
    <3>7. Lockless(t)
      BY Zenon, <3>1 DEF Lockless
    <3>8. Holds(t, q)'
      BY Zenon, <3>2, <3>7, HoldsOthers
    <3> QED
      BY Zenon, <2>1, <3>2, <3>3, <3>4, <3>6, <3>8 DEF Holds
  <2>2. CASE u # t
    <3>1. pc[u] = "send" /\ loc'[u] = loc[u]
      BY Zenon, <1>f, <1>2, <2>2
    <3>2. PICK w \in Threads : w = loc[u].whom
      BY Zenon, <1>w, <3>1
    <3>3. pc[w] = "wt_sleep" /\ Holds(u, Pcb(w)) /\ pcb[Pcb(w)].waitr = NoThread
      BY Zenon, <1>w, <3>1, <3>2
    <3>4. Holds(u, Pcb(w))'
      BY Zenon, <1>p, <2>2, <3>3, HoldsOthers
    <3>5. ~(L4Rendezvous(t) /\ w = loc[t].whom)
      <4>1. L4Rendezvous(t) /\ w = loc[t].whom => Holds(t, Pcb(w))
        BY Zenon, <1>w, <1>l
      <4> QED
        BY Zenon, <1>t, <1>p, <2>2, <3>3, <4>1 DEF ExlInv
    <3>6. pc'[w] = "wt_sleep"
      BY Zenon, <1>f, <3>3, <3>5
    <3>7. pcb'[Pcb(w)].waitr = NoThread
      <4>1. ~(SleepStore(t) /\ Pcb(w) = Pcb(t))
        <5>1. SleepStore(t) => pc[t] = "wt_store"
          BY Zenon DEF SleepStore, Step
        <5>2. SleepStore(t) /\ Pcb(w) = Pcb(t) => w = t
          BY Zenon, <1>t, <3>3, <5>1 DEF WaitInv, Waiting
        <5> QED
          BY Zenon, <1>f, <3>3, <5>2
      <4> QED
        BY Zenon, <1>c, <1>p, <3>3, <4>1
    <3> QED
      BY Zenon, <3>1, <3>2, <3>4, <3>6, <3>7 DEF Holds
  <2> QED
    BY Zenon, <2>1, <2>2
<1>3. \A u \in Threads : pc'[u] = "send" =>
        /\ loc'[u].whom \in Threads /\ pc'[loc'[u].whom] = "wt_sleep"
        /\ Holds(u, Pcb(loc[u].whom))' /\ pcb'[Pcb(loc'[u].whom)].waitr = NoThread
  BY Zenon, <1>2
<1> QED
  BY Zenon, <1>1, <1>3, OneWaits DEF WaitInv

-----------------------------------------------------------------------------
(* The record is put in front of the others. *)
RecordLeft(t, p, q) ==
  /\ p = Pcb(t) /\ q = pcb[p].parent /\ p \in Pcbs /\ q \in Pcbs /\ pc[t] = "ex_record" /\ pc'[t] = "ex_wake"
  /\ pcb[p].pid \in Nat /\ pcb[q].pid = pcb[p].parentpid
  /\ pcb[q].nwait < MaxWait /\ pcb[q].waitq \in Seq(Nat)
  /\ \A x \in Pcbs \ {q} : pcb'[x] = pcb[x]
  /\ pcb'[q].waitq = <<pcb[p].pid>> \o pcb[q].waitq
  /\ pcb'[q].nwait = pcb[q].nwait + 1 /\ pcb'[q].nchild = pcb[q].nchild - 1

(* pexit leaves a record or does not. *)
LEMMA RecordFacts ==
  ASSUME IInv, NEW t \in Threads, Record(t)
  PROVE  \/ pcb' = pcb /\ pc'[t] = "ex_kill"
         \/ \E p, q \in Pcbs : RecordLeft(t, p, q)
<1>0. PICK p, q : p = Pcb(t) /\ q = pcb[p].parent
  BY Zenon
<1> SUFFICES ASSUME ~(pcb' = pcb /\ pc'[t] = "ex_kill") PROVE \E x, y \in Pcbs : RecordLeft(t, x, y)
  BY Zenon
<1>d. LeavesRecord(p)
  BY Zenon, <1>0 DEF Record, Goto, IInv, Types
<1>t. Types /\ ExitInv /\ pcb \in [Pcbs -> PcbRecs] /\ p \in Pcbs /\ pc[t] = "ex_record"
  BY Zenon, <1>0, PcbIn DEF IInv, Types, Record
<1>1. q \in Pcbs /\ pcb[q] \in PcbRecs
  BY Zenon, <1>0, <1>t, <1>d, ParentIn DEF At
<1> DEFINE r == [pcb[q] EXCEPT !.nchild = @ - 1, !.waitq = <<pcb[p].pid>> \o @, !.nwait = @ + 1, !.exl = 1]
<1>2. Sets(q, r) /\ pc'[t] = "ex_wake"
  BY Zenon, <1>0, <1>t, <1>d, ExitFacts
<1>3. r.waitq = <<pcb[p].pid>> \o pcb[q].waitq /\ r.nwait = pcb[q].nwait + 1 /\ r.nchild = pcb[q].nchild - 1
  BY Zenon, <1>1 DEF PcbRecs
<1>4. pcb[q].waitq \in Seq(Nat) /\ pcb[p].pid \in Nat
  BY Zenon, <1>t, <1>1 DEF PcbRecs
<1>5. pcb[q].pid = pcb[p].parentpid /\ pcb[q].nwait < MaxWait
  BY Zenon, <1>0, <1>d DEF LeavesRecord
<1> HIDE DEF r
<1> QED
  BY Zenon, <1>0, <1>t, <1>d, <1>1, <1>2, <1>3, <1>4, <1>5 DEF Sets, RecordLeft

(* A record is returned to p, or there is none. *)
LEMMA TakeRecordFacts ==
  ASSUME IInv, NEW t \in Threads, TakeRecord(t), NEW p, p = Pcb(t)
  PROVE  /\ p \in Pcbs /\ pcb[p].exl = 0 /\ pc[t] = "wt_take" /\ pcb[p].waitq \in Seq(Nat)
         /\ \/ /\ pcb' = pcb /\ reaped' = reaped /\ pc'[t] = "nilref"
               /\ pcb[p].waitq = <<>> \/ pcb[p].moribund
            \/ /\ pcb[p].waitq # <<>> /\ pc'[t] = "user"
               /\ \A x \in Pcbs \ {p} : pcb'[x] = pcb[x]
               /\ pcb'[p].waitq = Tail(pcb[p].waitq) /\ pcb'[p].nwait = pcb[p].nwait - 1
               /\ reaped' = Append(reaped, <<pcb[p].was, Head(pcb[p].waitq)>>)
<1>t. Types /\ RecordInv /\ p \in Pcbs /\ pcb[p] \in PcbRecs /\ pcb[p].exl = 0 /\ pc[t] = "wt_take"
  BY Zenon, PcbIn DEF IInv, Types, TakeRecord, Step
<1> DEFINE r == [pcb[p] EXCEPT !.waitq = Tail(@), !.nwait = @ - 1, !.qwaitr = FALSE]
<1>1. \/ /\ pcb' = pcb /\ reaped' = reaped /\ pc'[t] = "nilref"
         /\ pcb[p].waitq = <<>> \/ pcb[p].moribund
      \/ /\ pcb[p].waitq # <<>> /\ pc'[t] = "user" /\ Sets(p, r)
         /\ reaped' = Append(reaped, <<pcb[p].was, Head(pcb[p].waitq)>>)
  BY Zenon, <1>t, PwaitFacts
<1>2. r.waitq = Tail(pcb[p].waitq) /\ r.nwait = pcb[p].nwait - 1 /\ pcb[p].waitq \in Seq(Nat)
  BY Zenon, <1>t DEF PcbRecs
<1> HIDE DEF r
<1> QED
  BY Zenon, <1>t, <1>1, <1>2 DEF Sets

(* The records are kept. *)
LEMMA RecordStep ==
  ASSUME IInv, Types', NEW t \in Threads, CallFork(t) \/ Pexit(t) \/ Pwait(t) \/ Run(t)
  PROVE  RecordInv'
<1>t. Types /\ SlotInv /\ FamilyInv /\ ExitInv /\ ExlInv /\ WaitInv /\ RecordInv /\ pcb \in [Pcbs -> PcbRecs]
  BY Zenon DEF IInv, Types
<1>p. \A u \in Threads : Pcb(u) \in Pcbs
  BY Zenon, PcbIn
<1>q. \A u \in Threads : At(u) \in Recording => pcb[Pcb(u)].parent \in Pcbs /\ pc[u] # "none"
  BY Zenon, <1>t, ParentIn DEF Recording, Leaving, At
<1>r. /\ \A p \in Pcbs : /\ pcb[p].nwait = Len(pcb[p].waitq) /\ pcb[p].nwait <= MaxWait
                         /\ pcb[p].moribund => pcb[p].pid = 0
      /\ \A u \in Threads : At(u) \in Recording => pcb[pcb[Pcb(u)].parent].waitq # <<>>
      /\ \A u \in Threads : pc[u] = "wt_take" => pcb[Pcb(u)].waitq # <<>> \/ pcb[Pcb(u)].pid = 0
      /\ \A u \in Threads : pc[u] = "nilref" => pcb[Pcb(u)].pid = 0
  BY Zenon, <1>t DEF RecordInv
<1>n. \A u \in Threads : pc[u] # "none" =>
        /\ pcb'[Pcb(u)].parent = pcb[Pcb(u)].parent
        /\ pcb'[Pcb(u)].pid = pcb[Pcb(u)].pid \/ (Unhash(t) /\ Pcb(u) = Pcb(t))
  BY Zenon, Running
<1>z. Unhash(t) => pcb'[Pcb(t)].pid = 0
  BY Zenon, <1>p, Frames
<1>1. \A p \in Pcbs : pcb'[p].nwait = Len(pcb'[p].waitq) /\ pcb'[p].nwait <= MaxWait
  <2>1. CASE Record(t) /\ pcb' # pcb
    <3>1. PICK p, q \in Pcbs : RecordLeft(t, p, q)
      BY Zenon, <2>1, RecordFacts
    <3>2. /\ q \in Pcbs /\ pcb[p].pid \in Nat /\ pcb[q].nwait < MaxWait /\ pcb[q].waitq \in Seq(Nat)
          /\ \A x \in Pcbs \ {q} : pcb'[x] = pcb[x]
          /\ pcb'[q].waitq = <<pcb[p].pid>> \o pcb[q].waitq /\ pcb'[q].nwait = pcb[q].nwait + 1
      BY Zenon, <3>1 DEF RecordLeft
    <3>3. pcb[q].nwait = Len(pcb[q].waitq) /\ pcb[q].nwait \in Nat
      BY <1>r, <3>2
    <3>4. Len(pcb'[q].waitq) = Len(pcb[q].waitq) + 1
      BY <3>2
    <3>5. pcb'[q].nwait <= MaxWait
      BY <3>2, <3>3, ProcAssumption
    <3> QED
      BY Zenon, <1>r, <3>2, <3>3, <3>4, <3>5
  <2>2. CASE TakeRecord(t)
    <3>1. PICK p : p = Pcb(t)
      BY Zenon
    <3>2. CASE pcb' = pcb
      BY Zenon, <1>r, <3>2
    <3>3. CASE pcb' # pcb
      <4>1. /\ p \in Pcbs /\ pcb[p].waitq # <<>> /\ pcb[p].waitq \in Seq(Nat)
            /\ \A x \in Pcbs \ {p} : pcb'[x] = pcb[x]
            /\ pcb'[p].waitq = Tail(pcb[p].waitq) /\ pcb'[p].nwait = pcb[p].nwait - 1
        BY Zenon, <2>2, <3>1, <3>3, TakeRecordFacts
      <4>2. Len(pcb'[p].waitq) = Len(pcb[p].waitq) - 1
        BY <4>1
      <4>3. pcb[p].nwait = Len(pcb[p].waitq) /\ pcb[p].nwait <= MaxWait /\ Len(pcb[p].waitq) \in Nat
        BY <1>r, <4>1
      <4>4. pcb'[p].nwait = Len(pcb'[p].waitq) /\ pcb'[p].nwait <= MaxWait
        BY <4>1, <4>2, <4>3, ProcAssumption
      <4> QED
        BY Zenon, <1>r, <4>1, <4>4
    <3> QED
      BY Zenon, <3>2, <3>3
  <2>3. CASE NewprocHash(t)
    <3>1. PICK c : c = loc[t].child
      BY Zenon
    <3>2. /\ \A x \in Pcbs \ {c} : pcb'[x] = pcb[x]
          /\ pcb'[c].nwait = 0 /\ pcb'[c].waitq = <<>>
      BY Zenon, <2>3, <3>1, FreshFacts
    <3>3. Len(<<>>) = 0 /\ 0 <= MaxWait
      BY ProcAssumption
    <3> QED
      BY Zenon, <1>r, <3>2, <3>3
  <2>4. CASE \A x \in Pcbs : pcb'[x].nwait = pcb[x].nwait /\ pcb'[x].waitq = pcb[x].waitq
    BY Zenon, <1>r, <2>4
  <2>6. \/ (Record(t) /\ pcb' # pcb) \/ TakeRecord(t) \/ NewprocHash(t)
        \/ \A x \in Pcbs : pcb'[x].nwait = pcb[x].nwait /\ pcb'[x].waitq = pcb[x].waitq
    BY Zenon, Frames DEF Run, KeepCounts, SameCount
  <2> QED
    BY Zenon, <2>1, <2>2, <2>3, <2>4, <2>6
<1>2. \A p \in Pcbs : pcb'[p].moribund => pcb'[p].pid = 0
  <2>1. CASE FreeRecords(t)
    <3>1. pcb[Pcb(t)].pid = 0
      BY Zenon, <1>t, <2>1 DEF FreeRecords, Step, ExitInv, At, Last
    <3>2. KeepIds
      BY Zenon, <2>1, Frames
    <3>3. \A x \in Pcbs \ {Pcb(t)} : pcb'[x] = pcb[x]
      BY Zenon, <1>t, <2>1, ExitFacts DEF Sets
    <3> QED
      BY ZenonT(30), <1>r, <3>1, <3>2, <3>3 DEF KeepIds, SameIds
  <2>2. CASE NewprocHash(t)
    <3>1. PICK c : c = loc[t].child
      BY Zenon
    <3> QED
      <4>1. pcb'[c].moribund = FALSE /\ \A x \in Pcbs \ {c} : pcb'[x] = pcb[x]
        BY Zenon, <2>2, <3>1, FreshFacts
      <4> QED
        BY Zenon, <1>r, <4>1
  <2>3. CASE KeepDead /\ \A x \in Pcbs : pcb'[x].pid = pcb[x].pid \/ pcb'[x].pid = 0
    BY Zenon, <1>r, <2>3 DEF KeepDead
  <2>4. CASE Unhash(t) \/ Link(t)
    BY Zenon, <2>3, <2>4, Frames
  <2>5. CASE KeepDead /\ KeepIds
    BY Zenon, <2>3, <2>5 DEF KeepIds, SameIds
  <2> QED
    BY Zenon, <2>1, <2>2, <2>4, <2>5, Frames DEF Run
<1>3. ASSUME NEW u \in Threads, At(u)' \in Recording PROVE pcb'[pcb'[Pcb(u)].parent].waitq # <<>>
  <2>1. CASE u = t /\ Record(t)
    <3>1. pc[t] = "ex_record" /\ pc'[t] # "ex_kill"
      BY Zenon, <1>3, <2>1 DEF Record, At, Recording
    <3>2. PICK p, q \in Pcbs : RecordLeft(t, p, q)
      BY Zenon, <2>1, <3>1, RecordFacts
    <3>3. /\ pcb[p].pid \in Nat /\ pcb[q].waitq \in Seq(Nat)
          /\ pcb'[q].waitq = <<pcb[p].pid>> \o pcb[q].waitq
      BY Zenon, <3>2 DEF RecordLeft
    <3>4. pcb'[q].waitq # <<>>
      BY <3>3
    <3>5. p = Pcb(t) /\ q = pcb[p].parent
      BY Zenon, <3>2 DEF RecordLeft
    <3> QED
      BY Zenon, <1>n, <2>1, <3>1, <3>4, <3>5
  <2>2. CASE ~(u = t /\ Record(t))
    <3>1. At(u) \in Recording
      <4>1. CASE u # t \/ Lockless(t)
        <5>1. At(u)' \in Leaving /\ At(u)' \notin Own
          BY Zenon, <1>3 DEF Recording, Leaving, Own
        <5>2. PICK x : x = pcb'[Pcb(u)].parent
          BY Zenon
        <5>3. x \in Pcbs
          <6>1. pcb'[Pcb(u)].parent # 0
            BY Zenon, <5>1, ExitStep DEF ExitInv
          <6> QED
            <7>1. pcb'[Pcb(u)].parent \in 0..NProc
              BY Zenon, <1>p DEF Types, PcbRecs
            <7> QED
              BY <5>2, <6>1, <7>1, ProcAssumption DEF Pcbs
        <5>4. Holds(u, x)'
          BY Zenon, <1>3, <5>2 DEF Holds
        <5>5. Holds(u, x)
          BY Zenon, <4>1, <5>3, <5>4, HoldsOthers
        <5>6. At(u) \in Recording \/ At(u) \in Own
          BY Zenon, <5>5 DEF Holds, Own
        <5>7. At(u) \in Own => pcb[Pcb(u)].pid = 0 /\ u = <<Pcb(u), 1>> /\ pc[u] # "none"
          BY Zenon, <1>t DEF ExitInv, Own, Last, Leaving, At
        <5>8. pcb'[Pcb(u)].pid # 0
          <6>1. u = <<Pcb(u), 1>> /\ At(u)' \notin Last /\ pc'[u] # "none"
            BY Zenon, <1>3, <5>1, ExitStep DEF ExitInv, Recording, Last, At
          <6> QED
            BY Zenon, <6>1, ExitStep DEF ExitInv
        <5> QED
          BY Zenon, <1>n, <1>z, <5>6, <5>7, <5>8
      <4>2. CASE u = t /\ ~Lockless(t)
        <5>1. RecordUnlock(t) \/ Unhash(t) \/ LastUnlock(t)
          BY Zenon, <2>2, <4>2 DEF Lockless, Run
        <5>2. pc'[t] \in {"ex_kill", "ex_lastwake", "ex_free"}
          BY Zenon, <5>1, AtFlow
        <5> QED
          BY Zenon, <1>3, <4>2, <5>2 DEF At, Recording
      <4> QED
        BY Zenon, <4>1, <4>2
    <3>2. PICK q \in Pcbs : q = pcb[Pcb(u)].parent
      BY Zenon, <1>q, <3>1
    <3>3. pcb[q].waitq # <<>> /\ Holds(u, q) /\ pcb'[Pcb(u)].parent = q /\ pcb[q].was # 0
      BY <1>t, <1>p, <1>q, <1>n, <1>r, <3>1, <3>2, ProcAssumption DEF Holds, FamilyInv, Pcbs
    <3>4. pcb[q].exl = 1
      BY Zenon, <1>t, <3>3 DEF ExlInv
    <3>5. pcb'[q].waitq # <<>>
      <4>1. CASE Record(t) /\ pcb' # pcb
        <5>1. PICK p, y \in Pcbs : RecordLeft(t, p, y)
          BY Zenon, <4>1, RecordFacts
        <5>2. /\ pcb[p].pid \in Nat /\ pcb[y].waitq \in Seq(Nat)
              /\ \A x \in Pcbs \ {y} : pcb'[x] = pcb[x]
              /\ pcb'[y].waitq = <<pcb[p].pid>> \o pcb[y].waitq
          BY Zenon, <5>1 DEF RecordLeft
        <5>3. pcb'[y].waitq # <<>>
          BY <5>2
        <5> QED
          BY Zenon, <3>3, <5>2, <5>3
      <4>2. CASE TakeRecord(t)
        <5>1. PICK p : p = Pcb(t)
          BY Zenon
        <5>2. p # q
          BY <3>4, <4>2, <5>1, TakeRecordFacts
        <5> QED
          BY <3>3, <4>2, <5>1, <5>2, TakeRecordFacts
      <4>3. CASE NewprocHash(t)
        <5>1. PICK c : c = loc[t].child
          BY Zenon
        <5> QED
          BY Zenon, <3>3, <4>3, <5>1, FreshFacts
      <4>5. \/ (Record(t) /\ pcb' # pcb) \/ TakeRecord(t) \/ NewprocHash(t)
            \/ pcb'[q].waitq = pcb[q].waitq
        BY Zenon, Frames DEF Run, KeepCounts, SameCount
      <4> QED
        BY Zenon, <3>3, <4>1, <4>2, <4>3, <4>5
    <3> QED
      BY Zenon, <3>3, <3>5
  <2> QED
    BY Zenon, <2>1, <2>2
<1>4. ASSUME NEW u \in Threads, pc'[u] = "wt_take" PROVE pcb'[Pcb(u)].waitq # <<>> \/ pcb'[Pcb(u)].pid = 0
  <2>1. CASE L4Rendezvous(t) /\ pc[u] # "wt_take"
    <3>1. PICK w : w = loc[t].whom
      BY Zenon
    <3>2. /\ pc'[t] \in {"ex_unlock", "ex_lastunlock"} /\ pcb' = pcb
          /\ w \in Threads /\ Holds(t, Pcb(w)) /\ \A v \in Threads \ {t, w} : pc'[v] = pc[v]
      BY <2>1, <3>1, SendFacts
    <3>3. u = w
      BY Zenon, <1>4, <2>1, <3>2
    <3>4. CASE At(t) \in Recording /\ pcb[Pcb(t)].parent = Pcb(w)
      BY Zenon, <1>r, <3>2, <3>3, <3>4
    <3>5. CASE At(t) \in Own /\ Pcb(t) = Pcb(w)
      BY Zenon, <1>t, <3>2, <3>3, <3>5 DEF ExitInv, Own, Last
    <3> QED
      BY Zenon, <3>2, <3>4, <3>5 DEF Holds, Own
  <2>2. CASE pc[u] = "wt_take"
    <3>1. pc[u] # "none" /\ pc[u] \in Waiting
      BY Zenon, <2>2 DEF Waiting
    <3>2. CASE pcb[Pcb(u)].pid = 0
      BY Zenon, <1>n, <1>z, <3>1, <3>2
    <3>3. CASE pcb[Pcb(u)].waitq # <<>>
      <4>1. CASE Record(t) /\ pcb' # pcb
        <5>1. PICK p, y \in Pcbs : RecordLeft(t, p, y)
          BY Zenon, <4>1, RecordFacts
        <5>2. /\ pcb[p].pid \in Nat /\ pcb[y].waitq \in Seq(Nat)
              /\ \A x \in Pcbs \ {y} : pcb'[x] = pcb[x]
              /\ pcb'[y].waitq = <<pcb[p].pid>> \o pcb[y].waitq
          BY Zenon, <5>1 DEF RecordLeft
        <5>3. pcb'[y].waitq # <<>>
          BY <5>2
        <5> QED
          BY Zenon, <1>p, <3>3, <5>2, <5>3
      <4>2. CASE TakeRecord(t)
        <5>1. PICK p : p = Pcb(t)
          BY Zenon
        <5>2. pc[t] = "wt_take" /\ pc'[t] # "wt_take"
          BY Zenon, <4>2, <5>1, TakeRecordFacts
        <5>3. Pcb(u) # p
          BY Zenon, <1>t, <1>4, <2>2, <3>1, <5>1, <5>2 DEF WaitInv
        <5> QED
          BY <1>p, <3>3, <4>2, <5>1, <5>3, TakeRecordFacts
      <4>3. CASE NewprocHash(t)
        <5>1. PICK c : c = loc[t].child
          BY Zenon
        <5>2. Pcb(u) # c /\ \A x \in Pcbs \ {c} : pcb'[x] = pcb[x]
          BY Zenon, <3>1, <4>3, <5>1, FreshFacts
        <5> QED
          BY Zenon, <1>p, <3>3, <5>2
      <4>5. \/ (Record(t) /\ pcb' # pcb) \/ TakeRecord(t) \/ NewprocHash(t)
            \/ pcb'[Pcb(u)].waitq = pcb[Pcb(u)].waitq
        BY Zenon, <1>p, Frames DEF Run, KeepCounts, SameCount
      <4> QED
        BY Zenon, <3>3, <4>1, <4>2, <4>3, <4>5
    <3> QED
      BY Zenon, <1>r, <2>2, <3>2, <3>3
  <2>3. CASE ~L4Rendezvous(t) /\ pc[u] # "wt_take"
    <3>1. u = t
      <4>1. CASE Start(t)
        BY Zenon, <1>4, <2>3, <4>1 DEF Start
      <4>2. CASE ~Start(t)
        <5>1. Others(t)
          BY Zenon, <2>3, <4>2, AtFlow DEF Run
        <5> QED
          BY Zenon, <1>4, <2>3, <5>1 DEF Others
      <4> QED
        BY Zenon, <4>1, <4>2
    <3>2. pc[t] \in Waiting /\ pc[t] # "wt_sleep"
      <4>1. pc'[t] \in Waiting /\ ~Pwait(t)
        BY Zenon, <1>t, <1>4, <3>1, Flow DEF Waiting
      <4> QED
        BY Zenon, <4>1, WaitFlow
    <3>3. SleepTest(t)
      <4>1. AnyChild(t) \/ SleepTest(t) \/ SleepStore(t) \/ TakeRecord(t)
        <5>1. pc[t] \in {"wt_any", "wt_test", "wt_store", "wt_take", "nilref"}
          BY Zenon, <3>2 DEF Waiting
        <5>2. CASE CallFork(t) \/ NewprocTake(t) \/ NewprocHash(t) \/ Link(t) \/ SpawnFails(t) \/ Pwait(t)
          BY Zenon, <1>t, <5>1, <5>2, Flow DEF New, Linking
        <5>3. CASE Pexit(t) \/ Record(t) \/ RecordUnlock(t) \/ Kill(t) \/ Unhash(t) \/ LastUnlock(t) \/ FreeRecords(t)
                   \/ RecordWake(t) \/ LastWake(t)
          BY Zenon, <1>t, <5>1, <5>3, Flow
        <5>4. CASE Start(t)
          BY Zenon, <5>1, <5>4 DEF Start
        <5> QED
          BY Zenon, <2>3, <5>2, <5>3, <5>4 DEF Run
      <4>2. ~AnyChild(t) /\ ~SleepStore(t) /\ ~TakeRecord(t)
        BY Zenon, <1>t, <1>4, <3>1, Flow
      <4> QED
        BY Zenon, <4>1, <4>2
    <3>4. pcb' = pcb /\ pcb[Pcb(t)].waitq # <<>>
      BY Zenon, <1>t, <1>4, <3>1, <3>3 DEF SleepTest, Step, Goto, Types
    <3> QED
      BY Zenon, <3>1, <3>4
  <2> QED
    BY Zenon, <2>1, <2>2, <2>3
<1>5. ASSUME NEW u \in Threads, pc'[u] = "nilref" PROVE pcb'[Pcb(u)].pid = 0
  <2>1. CASE pc[u] = "nilref"
    BY Zenon, <1>n, <1>r, <1>z, <2>1
  <2>2. CASE pc[u] # "nilref"
    <3>1. CASE TakeRecord(t) /\ u = t
      <4>1. PICK p : p = Pcb(t)
        BY Zenon
      <4>2. p \in Pcbs /\ pcb' = pcb /\ pc[t] = "wt_take" /\ (pcb[p].waitq = <<>> \/ pcb[p].moribund)
        BY Zenon, <1>5, <3>1, <4>1, TakeRecordFacts
      <4>3. pcb[p].pid = 0
        BY Zenon, <1>r, <4>1, <4>2
      <4> QED
        BY Zenon, <3>1, <4>1, <4>2, <4>3
    <3>2. CASE L4Rendezvous(t)
      <4>1. PICK w : w = loc[t].whom
        BY Zenon
      <4> QED
        BY Zenon, <1>5, <2>2, <3>2, <4>1, SendFacts
    <3>3. CASE Start(t)
      BY Zenon, <1>5, <2>2, <3>3 DEF Start
    <3>4. CASE ~Start(t) /\ ~L4Rendezvous(t) /\ ~(TakeRecord(t) /\ u = t)
      <4>1. Others(t)
        BY Zenon, <3>4, AtFlow DEF Run
      <4>2. u = t
        BY Zenon, <1>5, <2>2, <4>1 DEF Others
      <4>3. pc'[t] # "nilref"
        <5>1. CASE CallFork(t) \/ NewprocTake(t) \/ NewprocHash(t) \/ Link(t) \/ SpawnFails(t) \/ Pwait(t)
          BY Zenon, <1>t, <5>1, Flow DEF New, Linking, Starting
        <5>2. CASE Pexit(t) \/ Record(t) \/ RecordUnlock(t) \/ Kill(t) \/ Unhash(t) \/ LastUnlock(t) \/ FreeRecords(t)
          BY Zenon, <1>t, <5>2, Flow
        <5>3. CASE RecordWake(t) \/ LastWake(t)
          <6>1. At(t)' \in {"ex_unlock", "ex_lastunlock"}
            BY Zenon, <1>t, <5>3, Flow
          <6> QED
            BY Zenon, <6>1 DEF At
        <5>4. CASE AnyChild(t) \/ SleepTest(t) \/ SleepStore(t)
          BY Zenon, <1>t, <5>4, Flow
        <5> QED
          BY Zenon, <3>4, <4>2, <5>1, <5>2, <5>3, <5>4 DEF Run
      <4> QED
        BY Zenon, <1>5, <4>2, <4>3
    <3> QED
      BY Zenon, <3>1, <3>2, <3>3, <3>4
  <2> QED
    BY Zenon, <2>1, <2>2
<1> QED
  <2>1. \A p \in Pcbs : /\ pcb'[p].nwait = Len(pcb'[p].waitq) /\ pcb'[p].nwait <= MaxWait
                        /\ pcb'[p].moribund => pcb'[p].pid = 0
    BY Zenon, <1>1, <1>2
  <2> QED
    BY Zenon, <1>3, <1>4, <1>5, <2>1 DEF RecordInv
=============================================================================
