---------------------------- MODULE ProcProofs ------------------------------
(***************************************************************************)
(* Proofs about fork, exit and wait, for any number of processes, threads  *)
(* and wait records.  Each part of IInv is shown to be kept by a step from *)
(* a state that satisfies all of it; here: facts about the steps, the      *)
(* types, the slots, pids and families, and the hash table.                *)
(***************************************************************************)
EXTENDS Proc, ListLemmas

(* The process of a thread is in the table. *)
LEMMA PcbIn == ASSUME NEW t \in Threads PROVE Pcb(t) \in Pcbs
BY ProcAssumption DEF Pcb, Pcbs

(* Unlinking a process from a chain of the hash table, where it need not be. *)
LEMMA HashList ==
  ASSUME Types, HashInv, NEW h \in 0..(HtSize - 1), NEW p \in Pcbs
  PROVE  /\ Unlink(ht[h], p) \in Seq(Pcbs) /\ IsInjective(Unlink(ht[h], p))
         /\ Range(Unlink(ht[h], p)) = Range(ht[h]) \ {p}
<1>1. ht[h] \in Seq(Pcbs) /\ IsInjective(ht[h])
  BY Zenon DEF Types, HashInv
<1>2. CASE p \in Range(ht[h])
  BY <1>1, <1>2, UnlinkFacts
<1>3. CASE p \notin Range(ht[h])
  BY <1>1, <1>3 DEF Unlink
<1> QED
  BY <1>2, <1>3

(* The other threads stay where they are. *)
Others(t) == \A u \in Threads \ {t} : pc'[u] = pc[u] /\ loc'[u] = loc[u]

(* Where each step of a thread starts and where it leads to. *)
LEMMA Flow ==
  ASSUME Types, ExitInv, NEW t \in Threads
  PROVE  /\ CallFork(t) => Others(t) /\ pc[t] = "user" /\ pc'[t] \in {"fk_new", "sp_new"}
         /\ NewprocTake(t) => Others(t) /\ pc[t] \in {"fk_new", "sp_new"} /\ pc'[t] \in New
         /\ NewprocHash(t) => Others(t) /\ pc[t] \in New /\ pc'[t] \in Linking /\ loc' = loc
         /\ Link(t) => Others(t) /\ pc[t] \in Linking /\ pc'[t] \in Starting /\ loc' = loc
         /\ SpawnFails(t) => Others(t) /\ pc[t] = "sp_start" /\ pc'[t] = "user"
         /\ Pexit(t) => Others(t) /\ pc[t] = "user" /\ pc'[t] \in {"panic", "ex_record"} /\ loc'[t] = loc[t]
         /\ Record(t) => Others(t) /\ pc[t] = "ex_record" /\ pc'[t] \in {"ex_wake", "ex_kill"}
         /\ RecordWake(t) => Others(t) /\ pc[t] = "ex_wake" /\ At(t)' = "ex_unlock"
         /\ RecordUnlock(t) => Others(t) /\ pc[t] = "ex_unlock" /\ pc'[t] = "ex_kill"
         /\ Kill(t) => Others(t) /\ pc[t] = "ex_kill" /\ pc'[t] = "ex_unhash"
         /\ Unhash(t) => Others(t) /\ pc[t] = "ex_unhash" /\ pc'[t] = "ex_lastwake"
         /\ LastWake(t) => Others(t) /\ pc[t] = "ex_lastwake" /\ At(t)' = "ex_lastunlock"
         /\ LastUnlock(t) => Others(t) /\ pc[t] = "ex_lastunlock" /\ pc'[t] = "ex_free"
         /\ FreeRecords(t) => Others(t) /\ pc[t] = "ex_free" /\ pc'[t] = "none"
         /\ Pwait(t) => Others(t) /\ pc[t] = "user" /\ pc'[t] \in {"user", "wt_any"}
         /\ AnyChild(t) => Others(t) /\ pc[t] = "wt_any" /\ pc'[t] \in {"user", "wt_test"}
         /\ SleepTest(t) => Others(t) /\ pc[t] = "wt_test" /\ pc'[t] \in {"wt_take", "wt_store"}
         /\ SleepStore(t) => Others(t) /\ pc[t] = "wt_store" /\ pc'[t] = "wt_sleep"
         /\ TakeRecord(t) => Others(t) /\ pc[t] = "wt_take" /\ pc'[t] \in {"user", "nilref"}
<1> USE DEF Types, Goto, Step, Call, Others, Hash, New, Linking, Starting
<1>1. CallFork(t) => Others(t) /\ pc[t] = "user" /\ pc'[t] \in {"fk_new", "sp_new"}
  BY DEF CallFork
<1>2. NewprocTake(t) => Others(t) /\ pc[t] \in {"fk_new", "sp_new"} /\ pc'[t] \in New
  BY DEF NewprocTake
<1>3. /\ NewprocHash(t) => Others(t) /\ pc[t] \in New /\ pc'[t] \in Linking /\ loc' = loc
      /\ Link(t) => Others(t) /\ pc[t] \in Linking /\ pc'[t] \in Starting /\ loc' = loc
  BY DEF NewprocHash, Link
<1>4. /\ SpawnFails(t) => Others(t) /\ pc[t] = "sp_start" /\ pc'[t] = "user"
      /\ Pexit(t) => Others(t) /\ pc[t] = "user" /\ pc'[t] \in {"panic", "ex_record"} /\ loc'[t] = loc[t]
  BY DEF SpawnFails, Pexit
<1>5. Record(t) => Others(t) /\ pc[t] = "ex_record" /\ pc'[t] \in {"ex_wake", "ex_kill"}
  BY Zenon DEF Record
<1>6. RecordWake(t) => Others(t) /\ pc[t] = "ex_wake" /\ At(t)' = "ex_unlock"
  BY DEF RecordWake, Wakeup, At, LocRecs
<1>7. LastWake(t) => Others(t) /\ pc[t] = "ex_lastwake" /\ At(t)' = "ex_lastunlock"
  BY DEF LastWake, Wakeup, At, LocRecs
<1>8. /\ RecordUnlock(t) => Others(t) /\ pc[t] = "ex_unlock" /\ pc'[t] = "ex_kill"
      /\ Kill(t) => Others(t) /\ pc[t] = "ex_kill" /\ pc'[t] = "ex_unhash"
      /\ Unhash(t) => Others(t) /\ pc[t] = "ex_unhash" /\ pc'[t] = "ex_lastwake"
      /\ LastUnlock(t) => Others(t) /\ pc[t] = "ex_lastunlock" /\ pc'[t] = "ex_free"
      /\ FreeRecords(t) => Others(t) /\ pc[t] = "ex_free" /\ pc'[t] = "none"
  BY DEF RecordUnlock, Kill, Unhash, LastUnlock, FreeRecords
<1>9. /\ Pwait(t) => Others(t) /\ pc[t] = "user" /\ pc'[t] \in {"user", "wt_any"}
      /\ AnyChild(t) => Others(t) /\ pc[t] = "wt_any" /\ pc'[t] \in {"user", "wt_test"}
      /\ SleepTest(t) => Others(t) /\ pc[t] = "wt_test" /\ pc'[t] \in {"wt_take", "wt_store"}
      /\ SleepStore(t) => Others(t) /\ pc[t] = "wt_store" /\ pc'[t] = "wt_sleep"
      /\ TakeRecord(t) => Others(t) /\ pc[t] = "wt_take" /\ pc'[t] \in {"user", "nilref"}
  BY DEF Pwait, AnyChild, SleepTest, SleepStore, TakeRecord
<1> QED
  BY <1>1, <1>2, <1>3, <1>4, <1>5, <1>6, <1>7, <1>8, <1>9

-----------------------------------------------------------------------------
(* Fields of a pcb that stay: who it is, its records, who waits. *)
SameIds(r, s)   == s.pid = r.pid /\ s.was = r.was /\ s.parent = r.parent /\ s.parentpid = r.parentpid
SameCount(r, s) == s.nchild = r.nchild /\ s.nwait = r.nwait /\ s.waitq = r.waitq
SameWait(r, s)  == s.waitr = r.waitr /\ s.qwaitr = r.qwaitr

(* What the updates of one field change and what they leave. *)
LEMMA Updates ==
  ASSUME NEW r \in PcbRecs
  PROVE  /\ \A x \in {0, 1} : LET s == [r EXCEPT !.exl = x]
                              IN  /\ s \in PcbRecs /\ SameIds(r, s) /\ SameCount(r, s) /\ SameWait(r, s)
                                  /\ s.moribund = r.moribund /\ s.exl = x
         /\ LET s == [r EXCEPT !.thread = FALSE]
            IN  /\ s \in PcbRecs /\ SameIds(r, s) /\ SameCount(r, s) /\ SameWait(r, s)
                /\ s.moribund = r.moribund /\ s.exl = r.exl
         /\ LET s == [r EXCEPT !.moribund = TRUE]
            IN  /\ s \in PcbRecs /\ SameIds(r, s) /\ SameCount(r, s) /\ SameWait(r, s)
                /\ s.moribund = TRUE /\ s.exl = r.exl
         /\ \A x \in Threads \cup {NoThread} :
              LET s == [r EXCEPT !.waitr = x]
              IN  /\ s \in PcbRecs /\ SameIds(r, s) /\ SameCount(r, s)
                  /\ s.waitr = x /\ s.qwaitr = r.qwaitr /\ s.moribund = r.moribund /\ s.exl = r.exl
         /\ \A x \in BOOLEAN : LET s == [r EXCEPT !.qwaitr = x]
                               IN  /\ s \in PcbRecs /\ SameIds(r, s) /\ SameCount(r, s)
                                   /\ s.waitr = r.waitr /\ s.qwaitr = x
                                   /\ s.moribund = r.moribund /\ s.exl = r.exl
         /\ \A n \in Int : LET s == [r EXCEPT !.nchild = n]
                           IN  /\ s \in PcbRecs /\ SameIds(r, s) /\ SameWait(r, s)
                               /\ s.nchild = n /\ s.nwait = r.nwait /\ s.waitq = r.waitq
                               /\ s.moribund = r.moribund /\ s.exl = r.exl
BY Zenon DEF PcbRecs, SameIds, SameCount, SameWait

(* ... and of several: leaving a record, taking one, the end of the pid,   *)
(* the parent.                                                             *)
LEMMA ManyUpdates ==
  ASSUME NEW r \in PcbRecs
  PROVE  /\ \A n \in Int, q \in Seq(Nat), k \in Nat :
              LET s == [r EXCEPT !.nchild = n, !.waitq = q, !.nwait = k, !.exl = 1]
              IN  /\ s \in PcbRecs /\ SameIds(r, s) /\ SameWait(r, s) /\ s.moribund = r.moribund
                  /\ s.nchild = n /\ s.waitq = q /\ s.nwait = k /\ s.exl = 1
         /\ \A q \in Seq(Nat), k \in Nat :
              LET s == [r EXCEPT !.waitq = q, !.nwait = k, !.qwaitr = FALSE]
              IN  /\ s \in PcbRecs /\ SameIds(r, s) /\ s.moribund = r.moribund /\ s.exl = r.exl
                  /\ s.nchild = r.nchild /\ s.waitq = q /\ s.nwait = k
                  /\ s.waitr = r.waitr /\ s.qwaitr = FALSE
         /\ LET s == [r EXCEPT !.pid = 0, !.exl = 1]
            IN  /\ s \in PcbRecs /\ SameCount(r, s) /\ SameWait(r, s)
                /\ s.pid = 0 /\ s.was = r.was /\ s.parent = r.parent /\ s.parentpid = r.parentpid
                /\ s.moribund = r.moribund /\ s.exl = 1
         /\ \A x \in Pcbs, y \in Nat :
              LET s == [r EXCEPT !.parent = x, !.parentpid = y]
              IN  /\ s \in PcbRecs /\ SameCount(r, s) /\ SameWait(r, s)
                  /\ s.pid = r.pid /\ s.was = r.was /\ s.parent = x /\ s.parentpid = y
                  /\ s.moribund = r.moribund /\ s.exl = r.exl
<1>1. ASSUME NEW n \in Int, NEW q \in Seq(Nat), NEW k \in Nat
      PROVE  LET s == [r EXCEPT !.nchild = n, !.waitq = q, !.nwait = k, !.exl = 1]
             IN  /\ s \in PcbRecs /\ SameIds(r, s) /\ SameWait(r, s) /\ s.moribund = r.moribund
                 /\ s.nchild = n /\ s.waitq = q /\ s.nwait = k /\ s.exl = 1
  BY Zenon DEF PcbRecs, SameIds, SameWait
<1>2. \A q \in Seq(Nat), k \in Nat :
        LET s == [r EXCEPT !.waitq = q, !.nwait = k, !.qwaitr = FALSE]
        IN  /\ s \in PcbRecs /\ SameIds(r, s) /\ s.moribund = r.moribund /\ s.exl = r.exl
            /\ s.nchild = r.nchild /\ s.waitq = q /\ s.nwait = k
            /\ s.waitr = r.waitr /\ s.qwaitr = FALSE
  BY ZenonT(30) DEF PcbRecs, SameIds
<1>3. Pcbs \subseteq 0..NProc
  BY ProcAssumption DEF Pcbs
<1>4. LET s == [r EXCEPT !.pid = 0, !.exl = 1]
      IN  /\ s \in PcbRecs /\ SameCount(r, s) /\ SameWait(r, s)
          /\ s.pid = 0 /\ s.was = r.was /\ s.parent = r.parent /\ s.parentpid = r.parentpid
          /\ s.moribund = r.moribund /\ s.exl = 1
  BY Zenon DEF PcbRecs, SameCount, SameWait
<1>5. ASSUME NEW x \in Pcbs, NEW y \in Nat
      PROVE  LET s == [r EXCEPT !.parent = x, !.parentpid = y]
             IN  /\ s \in PcbRecs /\ SameCount(r, s) /\ SameWait(r, s)
                 /\ s.pid = r.pid /\ s.was = r.was /\ s.parent = x /\ s.parentpid = y
                 /\ s.moribund = r.moribund /\ s.exl = r.exl
  BY Zenon, <1>3 DEF PcbRecs, SameCount, SameWait
<1> QED
  BY Zenon, <1>1, <1>2, <1>4, <1>5

(* A new pcb. *)
LEMMA NewFields ==
  ASSUME NEW n \in Nat
  PROVE  LET s == NewPcb(n)
         IN  /\ s \in PcbRecs /\ s.pid = n /\ s.was = n /\ s.parent = 0 /\ s.parentpid = 0
             /\ s.nchild = 0 /\ s.nwait = 0 /\ s.waitq = <<>> /\ s.waitr = NoThread
             /\ s.exl = 0 /\ s.qwaitr = FALSE /\ s.moribund = FALSE
<1> 0 \in 0..NProc /\ <<>> \in Seq(Nat)
  BY ProcAssumption
<1> QED
  BY DEF NewPcb, PcbRecs

(* A step changes the pcb of q only, to r. *)
Sets(q, r) ==
  /\ r \in PcbRecs /\ pcb' \in [Pcbs -> PcbRecs] /\ pcb'[q] = r
  /\ \A x \in Pcbs \ {q} : pcb'[x] = pcb[x]

(* A pcb that exists and a record put in its place. *)
LEMMA SetsFacts ==
  ASSUME Types, NEW q \in Pcbs, NEW r \in PcbRecs, pcb' = [pcb EXCEPT ![q] = r]
  PROVE  Sets(q, r)
BY DEF Sets, Types

(* The parent of a process that exits is in the table. *)
LEMMA ParentIn ==
  ASSUME Types, ExitInv, NEW t \in Threads, At(t) \in {"ex_record"} \cup Leaving
  PROVE  pcb[Pcb(t)].parent \in Pcbs
<1>1. pcb[Pcb(t)].parent \in 0..NProc
  BY PcbIn DEF Types, PcbRecs
<1>2. pcb[Pcb(t)].parent # 0
  BY DEF ExitInv
<1> QED
  BY <1>1, <1>2, ProcAssumption DEF Pcbs

(* What pexit does to the pcbs of the process and of its parent. *)
LEMMA ExitFacts ==
  ASSUME Types, ExitInv, NEW t \in Threads, NEW p, p = Pcb(t), NEW q, q = pcb[p].parent
  PROVE  /\ Record(t) =>
              \/ /\ ~LeavesRecord(p) /\ pcb' = pcb /\ pc'[t] = "ex_kill"
              \/ /\ LeavesRecord(p) /\ pc'[t] = "ex_wake" /\ pcb[q].exl = 0
                 /\ Sets(q, [pcb[q] EXCEPT !.nchild = @ - 1, !.waitq = <<pcb[p].pid>> \o @,
                                           !.nwait = @ + 1, !.exl = 1])
         /\ RecordUnlock(t) => Sets(q, [pcb[q] EXCEPT !.exl = 0])
         /\ Kill(t) => Sets(p, [pcb[p] EXCEPT !.thread = FALSE])
         /\ Unhash(t) => Sets(p, [pcb[p] EXCEPT !.pid = 0, !.exl = 1]) /\ pcb[p].exl = 0
         /\ LastUnlock(t) => Sets(p, [pcb[p] EXCEPT !.exl = 0])
         /\ FreeRecords(t) => Sets(p, [pcb[p] EXCEPT !.moribund = TRUE])
<1>t. pcb \in [Pcbs -> PcbRecs] /\ p \in Pcbs /\ pcb[p] \in PcbRecs /\ pc \in [Threads -> Places]
  BY PcbIn DEF Types
<1>q. At(t) \in {"ex_record"} \cup Leaving => q \in Pcbs /\ pcb[q] \in PcbRecs
  BY <1>t, ParentIn
<1>1. ASSUME Record(t)
      PROVE  \/ /\ ~LeavesRecord(p) /\ pcb' = pcb /\ pc'[t] = "ex_kill"
             \/ /\ LeavesRecord(p) /\ pc'[t] = "ex_wake" /\ pcb[q].exl = 0
                /\ Sets(q, [pcb[q] EXCEPT !.nchild = @ - 1, !.waitq = <<pcb[p].pid>> \o @,
                                          !.nwait = @ + 1, !.exl = 1])
  <2>1. q \in Pcbs /\ pcb[q] \in PcbRecs
    BY Zenon, <1>1, <1>q DEF Record, At
  <2>2. CASE ~LeavesRecord(p)
    BY <1>1, <1>t, <2>2 DEF Record, Goto
  <2>3. CASE LeavesRecord(p)
    <3> DEFINE r == [pcb[q] EXCEPT !.nchild = @ - 1, !.waitq = <<pcb[p].pid>> \o @,
                                   !.nwait = @ + 1, !.exl = 1]
    <3>1. pcb[q].nchild - 1 \in Int /\ <<pcb[p].pid>> \o pcb[q].waitq \in Seq(Nat) /\ pcb[q].nwait + 1 \in Nat
      BY <1>t, <2>1 DEF PcbRecs
    <3>2. r \in PcbRecs
      <4>1. PICK n \in Int, l \in Seq(Nat), k \in Nat :
              n = pcb[q].nchild - 1 /\ l = <<pcb[p].pid>> \o pcb[q].waitq /\ k = pcb[q].nwait + 1
        BY Zenon, <3>1
      <4>2. r = [pcb[q] EXCEPT !.nchild = n, !.waitq = l, !.nwait = k, !.exl = 1]
        BY <4>1
      <4> HIDE DEF r
      <4> QED
        BY Zenon, <2>1, <4>2, ManyUpdates
    <3>3. pcb' = [pcb EXCEPT ![q] = r] /\ pc'[t] = "ex_wake" /\ pcb[q].exl = 0
      BY ZenonT(30), <1>1, <1>t, <2>1, <2>3 DEF Record, Goto
    <3> HIDE DEF r
    <3>4. Sets(q, r)
      BY Zenon, <2>1, <3>2, <3>3, SetsFacts
    <3> QED
      BY <2>3, <3>3, <3>4 DEF r
  <2> QED
    BY <2>2, <2>3
<1>2. ASSUME RecordUnlock(t) PROVE Sets(q, [pcb[q] EXCEPT !.exl = 0])
  <2>1. q \in Pcbs /\ pcb[q] \in PcbRecs
    BY <1>2, <1>q DEF RecordUnlock, Step, At, Leaving
  <2>2. pcb' = [pcb EXCEPT ![q] = [pcb[q] EXCEPT !.exl = 0]]
    BY <1>2, <1>t, <2>1 DEF RecordUnlock
  <2> QED
    BY Zenon, <2>1, <2>2, SetsFacts, Updates
<1>3. /\ Kill(t) => Sets(p, [pcb[p] EXCEPT !.thread = FALSE])
      /\ LastUnlock(t) => Sets(p, [pcb[p] EXCEPT !.exl = 0])
      /\ FreeRecords(t) => Sets(p, [pcb[p] EXCEPT !.moribund = TRUE])
  <2>1. /\ Kill(t) => pcb' = [pcb EXCEPT ![p] = [pcb[p] EXCEPT !.thread = FALSE]]
        /\ LastUnlock(t) => pcb' = [pcb EXCEPT ![p] = [pcb[p] EXCEPT !.exl = 0]]
        /\ FreeRecords(t) => pcb' = [pcb EXCEPT ![p] = [pcb[p] EXCEPT !.moribund = TRUE]]
    BY <1>t DEF Kill, LastUnlock, FreeRecords
  <2>2. /\ [pcb[p] EXCEPT !.thread = FALSE] \in PcbRecs /\ [pcb[p] EXCEPT !.exl = 0] \in PcbRecs
        /\ [pcb[p] EXCEPT !.moribund = TRUE] \in PcbRecs
    BY Zenon, <1>t, Updates
  <2> QED
    BY Zenon, <1>t, <2>1, <2>2, SetsFacts
<1>4. Unhash(t) => Sets(p, [pcb[p] EXCEPT !.pid = 0, !.exl = 1]) /\ pcb[p].exl = 0
  <2>1. Unhash(t) => pcb' = [pcb EXCEPT ![p] = [pcb[p] EXCEPT !.pid = 0, !.exl = 1]] /\ pcb[p].exl = 0
    BY Zenon, <1>t DEF Unhash
  <2> QED
    BY Zenon, <1>t, <2>1, SetsFacts, ManyUpdates
<1> QED
  BY <1>1, <1>2, <1>3, <1>4

(* wakeup: nobody sleeps, or the sleeper is taken off and will be sent to. *)
LEMMA WakeFacts ==
  ASSUME Types, NEW t \in Threads, NEW q \in Pcbs, NEW k \in Places, Wakeup(t, q, k)
  PROVE  \/ pcb[q].waitr = NoThread /\ pcb' = pcb /\ pc'[t] = k
         \/ /\ pcb[q].waitr \in Threads /\ Sets(q, [pcb[q] EXCEPT !.waitr = NoThread])
            /\ pc'[t] = "send" /\ loc'[t].whom = pcb[q].waitr /\ loc'[t].cont = k
<1>t. pcb \in [Pcbs -> PcbRecs] /\ pcb[q] \in PcbRecs /\ pc \in [Threads -> Places] /\ loc \in [Threads -> LocRecs]
  BY DEF Types
<1>1. CASE pcb[q].waitr = NoThread
  BY <1>t, <1>1 DEF Wakeup, Goto
<1>2. CASE pcb[q].waitr # NoThread
  <2>1. pcb[q].waitr \in Threads
    BY <1>t, <1>2 DEF PcbRecs
  <2>2. pcb' = [pcb EXCEPT ![q] = [pcb[q] EXCEPT !.waitr = NoThread]]
    BY <1>t, <1>2 DEF Wakeup
  <2>3. Sets(q, [pcb[q] EXCEPT !.waitr = NoThread])
    BY Zenon, <1>t, <2>2, SetsFacts, Updates
  <2>4. pc'[t] = "send" /\ loc'[t].whom = pcb[q].waitr /\ loc'[t].cont = k
    BY <1>t, <1>2 DEF Wakeup, LocRecs
  <2> QED
    BY <2>1, <2>3, <2>4
<1> QED
  BY <1>1, <1>2

(* What pwait does to the pcb of its process. *)
LEMMA PwaitFacts ==
  ASSUME Types, RecordInv, NEW t \in Threads, NEW p, p = Pcb(t)
  PROVE  /\ Pwait(t) =>
              \/ pcb' = pcb /\ pc'[t] = "user"
              \/ ~pcb[p].qwaitr /\ Sets(p, [pcb[p] EXCEPT !.qwaitr = TRUE]) /\ pc'[t] = "wt_any"
         /\ AnyChild(t) =>
              \/ pcb' = pcb /\ pc'[t] = "wt_test"
              \/ Sets(p, [pcb[p] EXCEPT !.qwaitr = FALSE]) /\ pc'[t] = "user"
         /\ SleepStore(t) => Sets(p, [pcb[p] EXCEPT !.waitr = t])
         /\ TakeRecord(t) =>
              \/ /\ pcb' = pcb /\ reaped' = reaped /\ pc'[t] = "nilref"
                 /\ pcb[p].waitq = <<>> \/ pcb[p].moribund
              \/ /\ pcb[p].waitq # <<>> /\ pc'[t] = "user" /\ pcb[p].exl = 0
                 /\ Sets(p, [pcb[p] EXCEPT !.waitq = Tail(@), !.nwait = @ - 1, !.qwaitr = FALSE])
                 /\ reaped' = Append(reaped, <<pcb[p].was, Head(pcb[p].waitq)>>)
<1>t. pcb \in [Pcbs -> PcbRecs] /\ p \in Pcbs /\ pcb[p] \in PcbRecs /\ pc \in [Threads -> Places]
  BY PcbIn DEF Types
<1>u. /\ [pcb[p] EXCEPT !.qwaitr = TRUE] \in PcbRecs /\ [pcb[p] EXCEPT !.qwaitr = FALSE] \in PcbRecs
      /\ [pcb[p] EXCEPT !.waitr = t] \in PcbRecs
  BY Zenon, <1>t, Updates
<1>1. ASSUME Pwait(t)
      PROVE  \/ pcb' = pcb /\ pc'[t] = "user"
             \/ ~pcb[p].qwaitr /\ Sets(p, [pcb[p] EXCEPT !.qwaitr = TRUE]) /\ pc'[t] = "wt_any"
  <2>1. CASE pcb[p].qwaitr
    BY <1>1, <1>t, <2>1 DEF Pwait, Call, Step, Goto
  <2>2. CASE ~pcb[p].qwaitr
    <3>1. pcb' = [pcb EXCEPT ![p] = [pcb[p] EXCEPT !.qwaitr = TRUE]] /\ pc'[t] = "wt_any"
      BY <1>1, <1>t, <2>2 DEF Pwait, Call, Step, Goto
    <3> QED
      BY Zenon, <1>t, <1>u, <2>2, <3>1, SetsFacts
  <2> QED
    BY <2>1, <2>2
<1>2. ASSUME AnyChild(t)
      PROVE  \/ pcb' = pcb /\ pc'[t] = "wt_test"
             \/ Sets(p, [pcb[p] EXCEPT !.qwaitr = FALSE]) /\ pc'[t] = "user"
  <2>1. \/ pcb' = pcb /\ pc'[t] = "wt_test"
        \/ pcb' = [pcb EXCEPT ![p] = [pcb[p] EXCEPT !.qwaitr = FALSE]] /\ pc'[t] = "user"
    BY <1>2, <1>t DEF AnyChild, Step, Goto
  <2> QED
    BY Zenon, <1>t, <1>u, <2>1, SetsFacts
<1>3. ASSUME SleepStore(t) PROVE Sets(p, [pcb[p] EXCEPT !.waitr = t])
  <2>1. pcb' = [pcb EXCEPT ![p] = [pcb[p] EXCEPT !.waitr = t]]
    BY <1>3, <1>t DEF SleepStore
  <2> QED
    BY Zenon, <1>t, <1>u, <2>1, SetsFacts
<1>4. ASSUME TakeRecord(t)
      PROVE  \/ /\ pcb' = pcb /\ reaped' = reaped /\ pc'[t] = "nilref"
                /\ pcb[p].waitq = <<>> \/ pcb[p].moribund
             \/ /\ pcb[p].waitq # <<>> /\ pc'[t] = "user" /\ pcb[p].exl = 0
                /\ Sets(p, [pcb[p] EXCEPT !.waitq = Tail(@), !.nwait = @ - 1, !.qwaitr = FALSE])
                /\ reaped' = Append(reaped, <<pcb[p].was, Head(pcb[p].waitq)>>)
  <2>1. CASE /\ pcb[p].waitq = <<>> \/ pcb[p].moribund
             /\ Step(t, "wt_take", "nilref")
             /\ UNCHANGED <<pcb, reaped>>
    BY <1>t, <2>1 DEF Step, Goto
  <2>2. CASE /\ pcb[p].waitq # <<>>
             /\ Step(t, "wt_take", "user")
             /\ pcb' = [pcb EXCEPT ![p].waitq = Tail(@), ![p].nwait = @ - 1, ![p].qwaitr = FALSE]
             /\ reaped' = Append(reaped, <<pcb[p].was, Head(pcb[p].waitq)>>)
    <3> DEFINE r == [pcb[p] EXCEPT !.waitq = Tail(@), !.nwait = @ - 1, !.qwaitr = FALSE]
    <3>1. pcb[p].waitq \in Seq(Nat) /\ pcb[p].nwait = Len(pcb[p].waitq)
      BY <1>t DEF PcbRecs, RecordInv
    <3>q. \A q \in Seq(Nat) : q # <<>> => Tail(q) \in Seq(Nat) /\ Len(q) - 1 \in Nat
      OBVIOUS
    <3>2. PICK l \in Seq(Nat), k \in Nat : l = Tail(pcb[p].waitq) /\ k = pcb[p].nwait - 1
      <4>1. Tail(pcb[p].waitq) \in Seq(Nat) /\ pcb[p].nwait - 1 \in Nat
        BY <2>2, <3>1, <3>q
      <4> QED
        BY Zenon, <4>1
    <3>3. r = [pcb[p] EXCEPT !.waitq = l, !.nwait = k, !.qwaitr = FALSE]
      BY <3>2
    <3>4. pcb' = [pcb EXCEPT ![p] = r]
      BY Zenon, <1>t, <2>2
    <3> HIDE DEF r
    <3>5. r \in PcbRecs
      BY Zenon, <1>t, <3>3, ManyUpdates
    <3>6. Sets(p, r)
      BY Zenon, <1>t, <3>4, <3>5, SetsFacts
    <3>7. pcb[p].exl = 0 /\ pc'[t] = "user"
      BY <1>4, <1>t, <2>2 DEF TakeRecord, Step, Goto
    <3> QED
      BY <2>2, <3>6, <3>7 DEF r
  <2> QED
    BY Zenon, <1>4, <2>1, <2>2 DEF TakeRecord
<1> QED
  BY <1>1, <1>2, <1>3, <1>4

(* newproc clears the pcb of the child and gives it the next pid. *)
LEMMA NewprocFacts ==
  ASSUME Types, SlotInv, NEW t \in Threads, NEW c, c = loc[t].child, NewprocHash(t)
  PROVE  c \in Pcbs /\ Sets(c, NewPcb(pidalloc + 1))
<1>1. c \in Pcbs
  BY DEF NewprocHash, SlotInv, Making, New
<1>2. pcb' = [pcb EXCEPT ![c] = NewPcb(pidalloc + 1)]
  BY DEF NewprocHash
<1>3. NewPcb(pidalloc + 1) \in PcbRecs
  <2>1. pidalloc + 1 \in Nat
    BY DEF Types
  <2> QED
    BY Zenon, <2>1, NewFields
<1> QED
  BY Zenon, <1>1, <1>2, <1>3, SetsFacts

(* What fork and spawn do to the pcbs of the parent p and of the child c. *)
LEMMA LinkFacts ==
  ASSUME Types, SlotInv, NEW t \in Threads, NEW p, p = Pcb(t), NEW c, c = loc[t].child, Link(t)
  PROVE  /\ p \in Pcbs /\ c \in Pcbs /\ c # p /\ pcb' \in [Pcbs -> PcbRecs]
         /\ \A x \in Pcbs : /\ pcb'[x].pid = pcb[x].pid /\ pcb'[x].was = pcb[x].was
                            /\ pcb'[x].nwait = pcb[x].nwait /\ pcb'[x].waitq = pcb[x].waitq
                            /\ SameWait(pcb[x], pcb'[x])
                            /\ pcb'[x].exl = pcb[x].exl /\ pcb'[x].moribund = pcb[x].moribund
         /\ \A x \in Pcbs \ {c} : pcb'[x].parent = pcb[x].parent /\ pcb'[x].parentpid = pcb[x].parentpid
         /\ \A x \in Pcbs \ {p} : pcb'[x].nchild = pcb[x].nchild
         /\ pcb'[c].parent = p /\ pcb'[c].parentpid = IF loc[t].nowait THEN 0 ELSE pcb[p].pid
         /\ pcb'[p].nchild = IF loc[t].nowait THEN pcb[p].nchild ELSE pcb[p].nchild + 1
<1>t. pcb \in [Pcbs -> PcbRecs] /\ p \in Pcbs /\ pcb[p] \in PcbRecs /\ pc \in [Threads -> Places]
  BY PcbIn DEF Types
<1>1. c \in Pcbs /\ c # p
  BY DEF Link, SlotInv, Making, Linking
<1>2. PICK n, y : /\ n = IF loc[t].nowait THEN pcb[p].nchild ELSE pcb[p].nchild + 1
                  /\ y = IF loc[t].nowait THEN 0 ELSE pcb[p].pid
  OBVIOUS
<1>3. n \in Int /\ y \in Nat
  BY <1>t, <1>2 DEF PcbRecs
<1>4. PICK s \in PcbRecs, r \in PcbRecs :
        s = [pcb[p] EXCEPT !.nchild = n] /\ r = [pcb[c] EXCEPT !.parent = p, !.parentpid = y]
  <2>1. [pcb[p] EXCEPT !.nchild = n] \in PcbRecs
    BY Zenon, <1>t, <1>3, Updates
  <2>2. [pcb[c] EXCEPT !.parent = p, !.parentpid = y] \in PcbRecs
    BY Zenon, <1>t, <1>1, <1>3, ManyUpdates
  <2> QED
    BY <2>1, <2>2
<1>5. pcb' = [[pcb EXCEPT ![c] = r] EXCEPT ![p] = s]
  BY Zenon, <1>t, <1>1, <1>2, <1>4 DEF Link
<1>6. /\ pcb' \in [Pcbs -> PcbRecs] /\ pcb'[p] = s /\ pcb'[c] = r
      /\ \A x \in Pcbs \ {p, c} : pcb'[x] = pcb[x]
  BY Zenon, <1>t, <1>1, <1>4, <1>5
<1>7. /\ SameIds(pcb[p], s) /\ SameWait(pcb[p], s) /\ s.nwait = pcb[p].nwait /\ s.waitq = pcb[p].waitq
      /\ s.exl = pcb[p].exl /\ s.moribund = pcb[p].moribund /\ s.nchild = n
  BY <1>t, <1>4 DEF PcbRecs, SameIds, SameWait
<1>8. pcb[c] \in PcbRecs
  BY <1>t, <1>1
<1>9. /\ SameCount(pcb[c], r) /\ SameWait(pcb[c], r) /\ r.pid = pcb[c].pid /\ r.was = pcb[c].was
      /\ r.exl = pcb[c].exl /\ r.moribund = pcb[c].moribund /\ r.parent = p /\ r.parentpid = y
  BY <1>4, <1>8 DEF PcbRecs, SameCount, SameWait
<1> QED
  BY <1>t, <1>1, <1>2, <1>6, <1>7, <1>9 DEF SameIds, SameCount, SameWait

-----------------------------------------------------------------------------
(* The locals of a call after fork, newproc and wakeup have set them. *)
LEMMA LocUpdates ==
  ASSUME NEW r \in LocRecs
  PROVE  /\ [r EXCEPT !.nowait = TRUE] \in LocRecs
         /\ \A c \in Pcbs : [r EXCEPT !.child = c] \in LocRecs
         /\ \A u \in Threads, k \in Places : [r EXCEPT !.whom = u, !.cont = k] \in LocRecs
<1>1. Pcbs \subseteq 0..NProc
  BY ProcAssumption DEF Pcbs
<1>2. [r EXCEPT !.nowait = TRUE] \in LocRecs
  BY Zenon DEF LocRecs
<1>3. \A c \in 0..NProc : [r EXCEPT !.child = c] \in LocRecs
  BY DEF LocRecs
<1>4. \A u \in Threads, k \in Places : [r EXCEPT !.whom = u, !.cont = k] \in LocRecs
  <2> HIDE DEF Places
  <2> QED
    BY Zenon DEF LocRecs
<1> QED
  BY Zenon, <1>1, <1>2, <1>3, <1>4

(* The types are kept. *)
LEMMA TypesStep == ASSUME IInv, [Next]_vars PROVE Types'
<1>t. /\ free \in Seq(Pcbs) /\ pcb \in [Pcbs -> PcbRecs]
      /\ ht \in [0..(HtSize - 1) -> Seq(Pcbs)] /\ pidalloc \in Nat
      /\ pc \in [Threads -> Places] /\ loc \in [Threads -> LocRecs]
      /\ reaped \in Seq(Nat \X Nat)
  BY DEF IInv, Types
<1>n. NoLocals \in LocRecs
  BY ProcAssumption DEF NoLocals, LocRecs, Places
<1> USE <1>t
<1>1. CASE UNCHANGED vars
  BY <1>1 DEF vars, Types
<1>2. ASSUME NEW t \in Threads, CallFork(t) \/ Pexit(t) \/ Pwait(t) \/ Run(t)
      PROVE  Types'
  <2>p. Pcb(t) \in Pcbs
    BY PcbIn
  <2>g. ASSUME NEW to \in Places, Goto(t, to)
        PROVE  pc' \in [Threads -> Places] /\ loc' \in [Threads -> LocRecs]
    BY <2>g, <1>n DEF Goto
  <2>w. ASSUME NEW q \in Pcbs, NEW k \in Places, Wakeup(t, q, k)
        PROVE  pcb' \in [Pcbs -> PcbRecs] /\ pc' \in [Threads -> Places] /\ loc' \in [Threads -> LocRecs]
    <3>1. pcb' \in [Pcbs -> PcbRecs]
      BY Zenon, <2>w, WakeFacts DEF IInv, Sets
    <3>2. pcb[q].waitr \in Threads \cup {NoThread}
      BY DEF PcbRecs
    <3>3. CASE pcb[q].waitr = NoThread
      BY <2>g, <2>w, <3>1, <3>3 DEF Wakeup
    <3>4. CASE pcb[q].waitr # NoThread
      <4>1. "send" \in Places
        BY DEF Places
      <4>2. PICK u \in Threads : u = pcb[q].waitr
        BY <3>2, <3>4
      <4>3. loc' = [loc EXCEPT ![t] = [loc[t] EXCEPT !.whom = u, !.cont = k]]
        BY Zenon, <2>w, <3>4, <4>2 DEF Wakeup
      <4>4. loc' \in [Threads -> LocRecs]
        BY Zenon, <4>3, LocUpdates
      <4> QED
        BY <2>w, <3>1, <3>4, <4>1, <4>4 DEF Wakeup
    <3> QED
      BY <3>3, <3>4
  <2>1. CASE CallFork(t)
    <3>1. pc' \in [Threads -> Places]
      BY Zenon, <2>1 DEF CallFork, Call, Step, Goto, Places
    <3>2. loc' \in [Threads -> LocRecs]
      <4>1. \/ loc' = [loc EXCEPT ![t] = [loc[t] EXCEPT !.nowait = TRUE]]
            \/ loc' = [loc EXCEPT ![t] = loc[t]]
        BY <2>1 DEF CallFork, Call, Step, Goto
      <4>2. loc[t] \in LocRecs /\ [loc[t] EXCEPT !.nowait = TRUE] \in LocRecs
        BY Zenon, LocUpdates
      <4>3. PICK r \in LocRecs : loc' = [loc EXCEPT ![t] = r]
        BY Zenon, <4>1, <4>2
      <4> QED
        BY Zenon, <4>3
    <3> QED
      BY <2>1, <3>1, <3>2 DEF CallFork, Types
  <2>2. CASE NewprocTake(t)
    <3>1. Head(free) \in Pcbs /\ Tail(free) \in Seq(Pcbs)
      BY <2>2 DEF NewprocTake
    <3>2. pc' \in [Threads -> Places] /\ loc' \in [Threads -> LocRecs]
      <4>1. pc' \in [Threads -> Places]
        BY <2>2 DEF NewprocTake, Hash, Places
      <4>2. loc' = [loc EXCEPT ![t] = [loc[t] EXCEPT !.child = Head(free)]]
        BY <2>2 DEF NewprocTake
      <4> QED
        BY Zenon, <3>1, <4>1, <4>2, LocUpdates
    <3> QED
      BY <2>2, <3>1, <3>2 DEF NewprocTake, Types
  <2>3. CASE NewprocHash(t)
    <3>1. loc[t].child \in Pcbs
      BY <2>3 DEF NewprocHash, IInv, SlotInv, Making, New
    <3>2. pcb' \in [Pcbs -> PcbRecs]
      BY <2>3, NewprocFacts DEF IInv, Sets
    <3>3. ht' \in [0..(HtSize - 1) -> Seq(Pcbs)]
      <4>1. \A q \in Seq(Pcbs) : <<loc[t].child>> \o q \in Seq(Pcbs)
        BY <3>1
      <4> QED
        BY Zenon, <2>3, <4>1 DEF NewprocHash, pidhash
    <3>4. pc' \in [Threads -> Places]
      BY <2>3 DEF NewprocHash, Hash, Places
    <3> QED
      BY <2>3, <3>2, <3>3, <3>4 DEF NewprocHash, Types
  <2>4. CASE Link(t)
    <3>1. pcb' \in [Pcbs -> PcbRecs]
      BY <2>4, LinkFacts DEF IInv
    <3>2. pc' \in [Threads -> Places]
      BY <2>4 DEF Link, Hash, Places
    <3> QED
      BY Zenon, <2>4, <3>1, <3>2 DEF Link, Types
  <2>5. CASE Start(t)
    BY <2>5, <1>n DEF Start, Types, Places
  <2>6. CASE SpawnFails(t) \/ Pexit(t)
    BY <2>6, <2>g DEF SpawnFails, Pexit, Call, Step, Types, Places
  <2>7. CASE Record(t)
    <3>1. pcb' \in [Pcbs -> PcbRecs]
      BY Zenon, <2>7, ExitFacts DEF IInv, Sets
    <3> QED
      BY Zenon, <2>7, <2>g, <3>1 DEF Record, Types, Places
  <2>8. CASE RecordWake(t)
    <3>1. pcb[Pcb(t)].parent \in Pcbs
      BY <2>8, ParentIn DEF RecordWake, IInv, At, Leaving
    <3> QED
      BY <2>8, <2>w, <3>1 DEF RecordWake, Types, Places
  <2>9. CASE LastWake(t)
    BY <2>9, <2>p, <2>w DEF LastWake, Types, Places
  <2>10. CASE RecordUnlock(t) \/ Kill(t) \/ LastUnlock(t) \/ FreeRecords(t)
    <3>1. pcb' \in [Pcbs -> PcbRecs]
      BY Zenon, <2>10, ExitFacts DEF IInv, Sets
    <3> QED
      BY <2>10, <2>g, <3>1 DEF RecordUnlock, Kill, LastUnlock, FreeRecords, Step, Types, Places
  <2>11. CASE Unhash(t)
    <3>1. pcb' \in [Pcbs -> PcbRecs]
      BY Zenon, <2>11, ExitFacts DEF IInv, Sets
    <3>2. ht' \in [0..(HtSize - 1) -> Seq(Pcbs)]
      <4>1. ASSUME NEW h \in 0..(HtSize - 1) PROVE Unlink(ht[h], Pcb(t)) \in Seq(Pcbs)
        BY HashList, <2>p DEF IInv
      <4> QED
        BY Zenon, <2>11, <4>1 DEF Unhash, pidunhash
    <3> QED
      BY <2>11, <2>g, <3>1, <3>2 DEF Unhash, Step, Types, Places
  <2>12. CASE Pwait(t) \/ AnyChild(t)
    <3>1. pcb' \in [Pcbs -> PcbRecs]
      BY Zenon, <2>12, PwaitFacts DEF IInv, Sets
    <3> QED
      BY <2>12, <2>g, <3>1 DEF Pwait, AnyChild, Call, Step, Types, Places
  <2>13. CASE SleepTest(t) \/ SleepStore(t)
    <3>1. pcb' \in [Pcbs -> PcbRecs]
      BY Zenon, <2>13, PwaitFacts DEF SleepTest, IInv, Sets
    <3> QED
      BY <2>13, <2>g, <3>1 DEF SleepTest, SleepStore, Step, Types, Places
  <2>14. CASE TakeRecord(t)
    <3>1. pcb' \in [Pcbs -> PcbRecs] /\ reaped' \in Seq(Nat \X Nat)
      <4>1. pcb' \in [Pcbs -> PcbRecs]
        BY Zenon, <2>14, PwaitFacts DEF IInv, Sets
      <4>2. pcb[Pcb(t)].waitq \in Seq(Nat) /\ pcb[Pcb(t)].was \in Nat
        BY <2>p DEF PcbRecs
      <4>3. pcb[Pcb(t)].waitq # <<>> => Head(pcb[Pcb(t)].waitq) \in Nat
        BY <4>2
      <4> QED
        <5>1. PICK x, y : x \in Nat /\ x = pcb[Pcb(t)].was /\ y = Head(pcb[Pcb(t)].waitq)
          BY Zenon, <4>2
        <5>2. reaped' = reaped \/ (y \in Nat /\ reaped' = Append(reaped, <<x, y>>))
          BY <2>14, <4>3, <5>1 DEF TakeRecord
        <5> QED
          <6>1. \A z \in Nat \X Nat : Append(reaped, z) \in Seq(Nat \X Nat)
            OBVIOUS
          <6> QED
            BY Zenon, <4>1, <5>1, <5>2, <6>1
    <3> QED
      BY <2>14, <2>g, <3>1 DEF TakeRecord, Step, Types, Places
  <2>15. CASE L4Rendezvous(t)
    <3>1. loc[t].cont \in Places /\ "wt_take" \in Places
      BY DEF LocRecs, Places
    <3> QED
      BY Zenon, <2>15, <3>1 DEF L4Rendezvous, Types
  <2> QED
    BY <1>2, <2>1, <2>2, <2>3, <2>4, <2>5, <2>6, <2>7, <2>8, <2>9, <2>10, <2>11, <2>12, <2>13,
       <2>14, <2>15 DEF Run
<1> QED
  BY <1>1, <1>2 DEF Next

-----------------------------------------------------------------------------
(* What a step leaves of all pcbs. *)
KeepIds    == \A x \in Pcbs : SameIds(pcb[x], pcb'[x])
KeepCounts == \A x \in Pcbs : SameCount(pcb[x], pcb'[x])
KeepWaitr  == \A x \in Pcbs : pcb'[x].waitr = pcb[x].waitr
KeepQwaitr == \A x \in Pcbs : pcb'[x].qwaitr = pcb[x].qwaitr
KeepExl    == \A x \in Pcbs : pcb'[x].exl = pcb[x].exl
KeepDead   == \A x \in Pcbs : pcb'[x].moribund = pcb[x].moribund

(* The fields that a step of a thread leaves, but for newproc. *)
LEMMA Frames ==
  ASSUME IInv, NEW t \in Threads
  PROVE  /\ CallFork(t) \/ NewprocTake(t) \/ Start(t) \/ SpawnFails(t) \/ Pexit(t) \/ Kill(t)
              \/ SleepTest(t) \/ L4Rendezvous(t) =>
              KeepIds /\ KeepCounts /\ KeepWaitr /\ KeepQwaitr /\ KeepExl /\ KeepDead
         /\ RecordUnlock(t) \/ LastUnlock(t) =>
              KeepIds /\ KeepCounts /\ KeepWaitr /\ KeepQwaitr /\ KeepDead
         /\ FreeRecords(t) => KeepIds /\ KeepCounts /\ KeepWaitr /\ KeepQwaitr /\ KeepExl
         /\ RecordWake(t) \/ LastWake(t) \/ SleepStore(t) =>
              KeepIds /\ KeepCounts /\ KeepQwaitr /\ KeepExl /\ KeepDead
         /\ Pwait(t) \/ AnyChild(t) => KeepIds /\ KeepCounts /\ KeepWaitr /\ KeepExl /\ KeepDead
         /\ TakeRecord(t) =>
              /\ KeepIds /\ KeepWaitr /\ KeepExl /\ KeepDead
              /\ \A x \in Pcbs : pcb'[x].nchild = pcb[x].nchild
         /\ Record(t) => KeepIds /\ KeepWaitr /\ KeepQwaitr /\ KeepDead
         /\ Unhash(t) =>
              /\ KeepCounts /\ KeepWaitr /\ KeepQwaitr /\ KeepDead
              /\ \A x \in Pcbs : /\ pcb'[x].was = pcb[x].was /\ pcb'[x].parent = pcb[x].parent
                                 /\ pcb'[x].parentpid = pcb[x].parentpid
                                 /\ pcb'[x].pid = IF x = Pcb(t) THEN 0 ELSE pcb[x].pid
         /\ Link(t) =>
              /\ KeepWaitr /\ KeepQwaitr /\ KeepExl /\ KeepDead
              /\ \A x \in Pcbs : /\ pcb'[x].pid = pcb[x].pid /\ pcb'[x].was = pcb[x].was
                                 /\ pcb'[x].nwait = pcb[x].nwait /\ pcb'[x].waitq = pcb[x].waitq
<1>t. Types /\ SlotInv /\ ExitInv /\ RecordInv /\ pcb \in [Pcbs -> PcbRecs]
  BY DEF IInv, Types
<1>p. Pcb(t) \in Pcbs /\ pcb[Pcb(t)] \in PcbRecs
  BY <1>t, PcbIn
<1>q. At(t) \in {"ex_record"} \cup Leaving =>
        pcb[Pcb(t)].parent \in Pcbs /\ pcb[pcb[Pcb(t)].parent] \in PcbRecs
  BY <1>t, ParentIn
<1>a. pcb' = pcb => KeepIds /\ KeepCounts /\ KeepWaitr /\ KeepQwaitr /\ KeepExl /\ KeepDead
  BY DEF KeepIds, KeepCounts, KeepWaitr, KeepQwaitr, KeepExl, KeepDead, SameIds, SameCount
<1>b. ASSUME NEW q \in Pcbs, NEW r, Sets(q, r)
      PROVE  /\ SameIds(pcb[q], r) => KeepIds
             /\ SameCount(pcb[q], r) => KeepCounts
             /\ r.waitr = pcb[q].waitr => KeepWaitr
             /\ r.qwaitr = pcb[q].qwaitr => KeepQwaitr
             /\ r.exl = pcb[q].exl => KeepExl
             /\ r.moribund = pcb[q].moribund => KeepDead
  BY <1>b DEF Sets, KeepIds, KeepCounts, KeepWaitr, KeepQwaitr, KeepExl, KeepDead, SameIds, SameCount
<1>1. CallFork(t) \/ NewprocTake(t) \/ Start(t) \/ SpawnFails(t) \/ Pexit(t)
          \/ SleepTest(t) \/ L4Rendezvous(t) =>
        KeepIds /\ KeepCounts /\ KeepWaitr /\ KeepQwaitr /\ KeepExl /\ KeepDead
  BY <1>a DEF CallFork, NewprocTake, Start, SpawnFails, Pexit, SleepTest, L4Rendezvous
<1>c. ASSUME NEW q \in Pcbs, NEW x \in {0, 1}, Sets(q, [pcb[q] EXCEPT !.exl = x])
      PROVE  KeepIds /\ KeepCounts /\ KeepWaitr /\ KeepQwaitr /\ KeepDead
  <2> DEFINE r == [pcb[q] EXCEPT !.exl = x]
  <2>1. Sets(q, r)
    BY <1>c
  <2>2. SameIds(pcb[q], r) /\ SameCount(pcb[q], r) /\ r.waitr = pcb[q].waitr /\ r.qwaitr = pcb[q].qwaitr
        /\ r.moribund = pcb[q].moribund
    <3>1. PICK z \in PcbRecs : z = pcb[q]
      BY <1>t
    <3>2. SameIds(z, [z EXCEPT !.exl = x]) /\ SameCount(z, [z EXCEPT !.exl = x]) /\ [z EXCEPT !.exl = x].waitr = z.waitr /\ [z EXCEPT !.exl = x].qwaitr = z.qwaitr
            /\ [z EXCEPT !.exl = x].moribund = z.moribund
      BY DEF PcbRecs, SameIds, SameCount
    <3> QED
      BY <3>1, <3>2
  <2> HIDE DEF r
  <2> QED
    BY <1>b, <2>1, <2>2
<1>d. ASSUME NEW q \in Pcbs, NEW x \in Threads \cup {NoThread}, Sets(q, [pcb[q] EXCEPT !.waitr = x])
      PROVE  KeepIds /\ KeepCounts /\ KeepQwaitr /\ KeepExl /\ KeepDead
  <2> DEFINE r == [pcb[q] EXCEPT !.waitr = x]
  <2>1. Sets(q, r)
    BY <1>d
  <2>2. SameIds(pcb[q], r) /\ SameCount(pcb[q], r) /\ r.qwaitr = pcb[q].qwaitr /\ r.exl = pcb[q].exl
        /\ r.moribund = pcb[q].moribund
    <3>1. PICK z \in PcbRecs : z = pcb[q]
      BY <1>t
    <3>2. SameIds(z, [z EXCEPT !.waitr = x]) /\ SameCount(z, [z EXCEPT !.waitr = x]) /\ [z EXCEPT !.waitr = x].qwaitr = z.qwaitr /\ [z EXCEPT !.waitr = x].exl = z.exl
            /\ [z EXCEPT !.waitr = x].moribund = z.moribund
      BY DEF PcbRecs, SameIds, SameCount
    <3> QED
      BY <3>1, <3>2
  <2> HIDE DEF r
  <2> QED
    BY <1>b, <2>1, <2>2
<1>e. ASSUME NEW q \in Pcbs, NEW x \in BOOLEAN, Sets(q, [pcb[q] EXCEPT !.qwaitr = x])
      PROVE  KeepIds /\ KeepCounts /\ KeepWaitr /\ KeepExl /\ KeepDead
  <2> DEFINE r == [pcb[q] EXCEPT !.qwaitr = x]
  <2>1. Sets(q, r)
    BY <1>e
  <2>2. SameIds(pcb[q], r) /\ SameCount(pcb[q], r) /\ r.waitr = pcb[q].waitr /\ r.exl = pcb[q].exl
        /\ r.moribund = pcb[q].moribund
    <3>1. PICK z \in PcbRecs : z = pcb[q]
      BY <1>t
    <3>2. SameIds(z, [z EXCEPT !.qwaitr = x]) /\ SameCount(z, [z EXCEPT !.qwaitr = x]) /\ [z EXCEPT !.qwaitr = x].waitr = z.waitr /\ [z EXCEPT !.qwaitr = x].exl = z.exl
            /\ [z EXCEPT !.qwaitr = x].moribund = z.moribund
      BY DEF PcbRecs, SameIds, SameCount
    <3> QED
      BY <3>1, <3>2
  <2> HIDE DEF r
  <2> QED
    BY <1>b, <2>1, <2>2
<1>f. ASSUME NEW q \in Pcbs, Sets(q, [pcb[q] EXCEPT !.thread = FALSE])
      PROVE  KeepIds /\ KeepCounts /\ KeepWaitr /\ KeepQwaitr /\ KeepExl /\ KeepDead
  <2> DEFINE r == [pcb[q] EXCEPT !.thread = FALSE]
  <2>1. Sets(q, r)
    BY <1>f
  <2>2. SameIds(pcb[q], r) /\ SameCount(pcb[q], r) /\ r.waitr = pcb[q].waitr /\ r.qwaitr = pcb[q].qwaitr
        /\ r.exl = pcb[q].exl /\ r.moribund = pcb[q].moribund
    <3>1. PICK z \in PcbRecs : z = pcb[q]
      BY <1>t
    <3>2. SameIds(z, [z EXCEPT !.thread = FALSE]) /\ SameCount(z, [z EXCEPT !.thread = FALSE]) /\ [z EXCEPT !.thread = FALSE].waitr = z.waitr /\ [z EXCEPT !.thread = FALSE].qwaitr = z.qwaitr
            /\ [z EXCEPT !.thread = FALSE].exl = z.exl /\ [z EXCEPT !.thread = FALSE].moribund = z.moribund
      BY DEF PcbRecs, SameIds, SameCount
    <3> QED
      BY <3>1, <3>2
  <2> HIDE DEF r
  <2> QED
    BY <1>b, <2>1, <2>2
<1>g. ASSUME NEW q \in Pcbs, Sets(q, [pcb[q] EXCEPT !.moribund = TRUE])
      PROVE  KeepIds /\ KeepCounts /\ KeepWaitr /\ KeepQwaitr /\ KeepExl
  <2> DEFINE r == [pcb[q] EXCEPT !.moribund = TRUE]
  <2>1. Sets(q, r)
    BY <1>g
  <2>2. SameIds(pcb[q], r) /\ SameCount(pcb[q], r) /\ r.waitr = pcb[q].waitr /\ r.qwaitr = pcb[q].qwaitr
        /\ r.exl = pcb[q].exl
    <3>1. PICK z \in PcbRecs : z = pcb[q]
      BY <1>t
    <3>2. SameIds(z, [z EXCEPT !.moribund = TRUE]) /\ SameCount(z, [z EXCEPT !.moribund = TRUE]) /\ [z EXCEPT !.moribund = TRUE].waitr = z.waitr /\ [z EXCEPT !.moribund = TRUE].qwaitr = z.qwaitr
            /\ [z EXCEPT !.moribund = TRUE].exl = z.exl
      BY DEF PcbRecs, SameIds, SameCount
    <3> QED
      BY <3>1, <3>2
  <2> HIDE DEF r
  <2> QED
    BY <1>b, <2>1, <2>2
<1>2. Kill(t) => KeepIds /\ KeepCounts /\ KeepWaitr /\ KeepQwaitr /\ KeepExl /\ KeepDead
  BY Zenon, <1>t, <1>p, <1>f, ExitFacts
<1>3. RecordUnlock(t) => KeepIds /\ KeepCounts /\ KeepWaitr /\ KeepQwaitr /\ KeepDead
  <2>1. RecordUnlock(t) => pcb[Pcb(t)].parent \in Pcbs
    BY <1>q DEF RecordUnlock, Step, At, Leaving
  <2>2. RecordUnlock(t) => Sets(pcb[Pcb(t)].parent, [pcb[pcb[Pcb(t)].parent] EXCEPT !.exl = 0])
    BY Zenon, <1>t, ExitFacts
  <2> QED
    BY Zenon, <2>1, <2>2, <1>c
<1>4. LastUnlock(t) => KeepIds /\ KeepCounts /\ KeepWaitr /\ KeepQwaitr /\ KeepDead
  <2>1. LastUnlock(t) => Sets(Pcb(t), [pcb[Pcb(t)] EXCEPT !.exl = 0])
    BY Zenon, <1>t, ExitFacts
  <2> QED
    BY Zenon, <1>p, <1>c, <2>1
<1>5. FreeRecords(t) => KeepIds /\ KeepCounts /\ KeepWaitr /\ KeepQwaitr /\ KeepExl
  BY Zenon, <1>t, <1>p, <1>g, ExitFacts
<1>6. RecordWake(t) \/ LastWake(t) => KeepIds /\ KeepCounts /\ KeepQwaitr /\ KeepExl /\ KeepDead
  <2>1. ASSUME NEW q \in Pcbs, NEW k \in Places, Wakeup(t, q, k)
        PROVE  KeepIds /\ KeepCounts /\ KeepQwaitr /\ KeepExl /\ KeepDead
    <3>1. pcb' = pcb \/ Sets(q, [pcb[q] EXCEPT !.waitr = NoThread])
      BY <1>t, <2>1, WakeFacts
    <3> QED
      BY <3>1, <1>a, <1>d
  <2>2. RecordWake(t) => pcb[Pcb(t)].parent \in Pcbs
    BY <1>q DEF RecordWake, At, Leaving
  <2>3. {"ex_unlock", "ex_lastunlock"} \subseteq Places
    BY DEF Places
  <2> QED
    BY <1>p, <2>1, <2>2, <2>3 DEF RecordWake, LastWake
<1>7. SleepStore(t) => KeepIds /\ KeepCounts /\ KeepQwaitr /\ KeepExl /\ KeepDead
  <2>1. SleepStore(t) => Sets(Pcb(t), [pcb[Pcb(t)] EXCEPT !.waitr = t])
    BY Zenon, <1>t, PwaitFacts
  <2> QED
    BY <1>p, <1>d, <2>1
<1>8. Pwait(t) \/ AnyChild(t) => KeepIds /\ KeepCounts /\ KeepWaitr /\ KeepExl /\ KeepDead
  <2>1. Pwait(t) \/ AnyChild(t) =>
          pcb' = pcb \/ \E x \in BOOLEAN : Sets(Pcb(t), [pcb[Pcb(t)] EXCEPT !.qwaitr = x])
    BY Zenon, <1>t, PwaitFacts
  <2> QED
    BY Zenon, <1>p, <1>a, <1>e, <2>1
<1>9. TakeRecord(t) => /\ KeepIds /\ KeepWaitr /\ KeepExl /\ KeepDead
                       /\ \A x \in Pcbs : pcb'[x].nchild = pcb[x].nchild
  <2>1. CASE pcb' = pcb
    BY <1>a, <2>1
  <2>2. CASE TakeRecord(t) /\ pcb' # pcb
    <3> DEFINE r == [pcb[Pcb(t)] EXCEPT !.waitq = Tail(@), !.nwait = @ - 1, !.qwaitr = FALSE]
    <3>1. Sets(Pcb(t), r)
      BY Zenon, <1>t, <2>2, PwaitFacts
    <3>2. SameIds(pcb[Pcb(t)], r) /\ r.waitr = pcb[Pcb(t)].waitr /\ r.exl = pcb[Pcb(t)].exl
          /\ r.moribund = pcb[Pcb(t)].moribund /\ r.nchild = pcb[Pcb(t)].nchild
      BY <1>p DEF PcbRecs, SameIds
    <3> HIDE DEF r
    <3>3. \A x \in Pcbs : pcb'[x].nchild = pcb[x].nchild
      BY <3>1, <3>2 DEF Sets
    <3> QED
      BY <1>p, <1>b, <3>1, <3>2, <3>3
  <2> QED
    BY <2>1, <2>2
<1>10. Record(t) => KeepIds /\ KeepWaitr /\ KeepQwaitr /\ KeepDead
  <2>1. CASE pcb' = pcb
    BY <1>a, <2>1
  <2>2. CASE Record(t) /\ pcb' # pcb
    <3> DEFINE p == Pcb(t)
               q == pcb[p].parent
               r == [pcb[q] EXCEPT !.nchild = @ - 1, !.waitq = <<pcb[p].pid>> \o @,
                                   !.nwait = @ + 1, !.exl = 1]
    <3>0. q \in Pcbs /\ pcb[q] \in PcbRecs
      BY Zenon, <1>q, <2>2 DEF Record, At
    <3>1. Sets(q, r)
      BY Zenon, <1>t, <2>2, ExitFacts
    <3>2. SameIds(pcb[q], r) /\ r.waitr = pcb[q].waitr /\ r.qwaitr = pcb[q].qwaitr
          /\ r.moribund = pcb[q].moribund
      BY <3>0 DEF PcbRecs, SameIds
    <3> HIDE DEF r
    <3> QED
      BY <1>b, <3>0, <3>1, <3>2
  <2> QED
    BY <2>1, <2>2
<1>11. Unhash(t) =>
         /\ KeepCounts /\ KeepWaitr /\ KeepQwaitr /\ KeepDead
         /\ \A x \in Pcbs : /\ pcb'[x].was = pcb[x].was /\ pcb'[x].parent = pcb[x].parent
                            /\ pcb'[x].parentpid = pcb[x].parentpid
                            /\ pcb'[x].pid = IF x = Pcb(t) THEN 0 ELSE pcb[x].pid
  <2>1. Unhash(t) => Sets(Pcb(t), [pcb[Pcb(t)] EXCEPT !.pid = 0, !.exl = 1])
    BY Zenon, <1>t, ExitFacts
  <2> DEFINE r == [pcb[Pcb(t)] EXCEPT !.pid = 0, !.exl = 1]
  <2>2. /\ SameCount(pcb[Pcb(t)], r) /\ r.waitr = pcb[Pcb(t)].waitr /\ r.qwaitr = pcb[Pcb(t)].qwaitr
        /\ r.moribund = pcb[Pcb(t)].moribund /\ r.pid = 0 /\ r.was = pcb[Pcb(t)].was
        /\ r.parent = pcb[Pcb(t)].parent /\ r.parentpid = pcb[Pcb(t)].parentpid
    BY Zenon, <1>p, ManyUpdates DEF SameWait
  <2>3. Unhash(t) => Sets(Pcb(t), r)
    BY <2>1
  <2> HIDE DEF r
  <2>4. Unhash(t) => KeepCounts /\ KeepWaitr /\ KeepQwaitr /\ KeepDead
    BY <1>p, <1>b, <2>2, <2>3
  <2> QED
    BY <2>2, <2>3, <2>4 DEF Sets
<1>12. Link(t) =>
         /\ KeepWaitr /\ KeepQwaitr /\ KeepExl /\ KeepDead
         /\ \A x \in Pcbs : /\ pcb'[x].pid = pcb[x].pid /\ pcb'[x].was = pcb[x].was
                            /\ pcb'[x].nwait = pcb[x].nwait /\ pcb'[x].waitq = pcb[x].waitq
  <2> SUFFICES ASSUME Link(t), NEW x \in Pcbs
               PROVE  /\ pcb'[x].waitr = pcb[x].waitr /\ pcb'[x].qwaitr = pcb[x].qwaitr
                      /\ pcb'[x].exl = pcb[x].exl /\ pcb'[x].moribund = pcb[x].moribund
                      /\ pcb'[x].pid = pcb[x].pid /\ pcb'[x].was = pcb[x].was
                      /\ pcb'[x].nwait = pcb[x].nwait /\ pcb'[x].waitq = pcb[x].waitq
    BY Zenon DEF KeepWaitr, KeepQwaitr, KeepExl, KeepDead
  <2> QED
    BY Zenon, <1>t, LinkFacts DEF SameWait
<1> QED
  BY Zenon, <1>1, <1>2, <1>3, <1>4, <1>5, <1>6, <1>7, <1>8, <1>9, <1>10, <1>11, <1>12

-----------------------------------------------------------------------------
(* A step that makes no process: newproc and link are where they were and  *)
(* no thread comes to be.                                                  *)
Calm ==
  \A u \in Threads : /\ pc'[u] \in Making => pc'[u] = pc[u] /\ loc'[u].child = loc[u].child
                     /\ pc'[u] # "none" => pc[u] # "none"

(* The steps that make no process. *)
Plain(t) ==
  \/ CallFork(t) \/ SpawnFails(t) \/ Pexit(t) \/ Record(t) \/ RecordWake(t) \/ RecordUnlock(t)
  \/ Kill(t) \/ Unhash(t) \/ LastWake(t) \/ LastUnlock(t) \/ FreeRecords(t) \/ Pwait(t)
  \/ AnyChild(t) \/ SleepTest(t) \/ SleepStore(t) \/ TakeRecord(t) \/ L4Rendezvous(t)

(* A step of a thread is plain or one of the four that make a process. *)
LEMMA StepCases ==
  ASSUME NEW t \in Threads, CallFork(t) \/ Pexit(t) \/ Pwait(t) \/ Run(t)
  PROVE  Plain(t) \/ NewprocTake(t) \/ NewprocHash(t) \/ Link(t) \/ Start(t)
BY Zenon DEF Run, Plain

(* Where a send goes on, and whom it reaches. *)
LEMMA SendFacts ==
  ASSUME IInv, NEW t \in Threads, L4Rendezvous(t), NEW w, w = loc[t].whom
  PROVE  /\ pc[t] = "send" /\ pc'[t] = loc[t].cont /\ loc[t].cont \in {"ex_unlock", "ex_lastunlock"}
         /\ w \in Threads /\ w # t /\ pc[w] = "wt_sleep" /\ pc'[w] = "wt_take"
         /\ \A u \in Threads \ {t, w} : pc'[u] = pc[u]
         /\ loc' = loc /\ pcb' = pcb /\ At(t)' = At(t)
         /\ Holds(t, Pcb(w)) /\ pcb[Pcb(w)].waitr = NoThread
<1>1. /\ pc[t] = "send" /\ loc' = loc /\ pcb' = pcb /\ pc[w] = "wt_sleep"
      /\ pc' = [pc EXCEPT ![t] = loc[t].cont, ![w] = "wt_take"]
  BY Zenon DEF L4Rendezvous
<1>2. w \in Threads /\ loc[t].cont \in {"ex_unlock", "ex_lastunlock"} /\ pc \in [Threads -> Places]
      /\ Holds(t, Pcb(w)) /\ pcb[Pcb(w)].waitr = NoThread
  BY Zenon, <1>1 DEF IInv, WaitInv, ExitInv, Types
<1>3. w # t
  BY Zenon, <1>1
<1>4. pc'[t] = loc[t].cont /\ pc'[w] = "wt_take" /\ \A u \in Threads \ {t, w} : pc'[u] = pc[u]
  BY Zenon, <1>1, <1>2, <1>3
<1> QED
  BY Zenon, <1>1, <1>2, <1>3, <1>4 DEF At

(* The plain steps make no process. *)
LEMMA Calms == ASSUME IInv, NEW t \in Threads, Plain(t) PROVE Calm
<1>t. Types /\ ExitInv
  BY Zenon DEF IInv
<1> SUFFICES ASSUME NEW u \in Threads
             PROVE  /\ pc'[u] \in Making => pc'[u] = pc[u] /\ loc'[u].child = loc[u].child
                    /\ pc'[u] # "none" => pc[u] # "none"
  BY Zenon DEF Calm
<1>1. CASE L4Rendezvous(t)
  <2>1. PICK w : w = loc[t].whom
    BY Zenon
  <2> QED
    BY <1>1, <2>1, SendFacts DEF Making, New, Linking, Starting
<1>2. CASE ~L4Rendezvous(t)
  <2>1. Others(t) /\ pc[t] # "none" /\ pc'[t] \notin Making
    <3>1. CASE RecordWake(t) \/ LastWake(t)
      <4>1. Others(t) /\ pc[t] # "none" /\ At(t)' \in {"ex_unlock", "ex_lastunlock"}
        BY Zenon, <1>t, <3>1, Flow
      <4> QED
        BY Zenon, <4>1 DEF At, Making, New, Linking, Starting
    <3>2. CASE CallFork(t) \/ SpawnFails(t) \/ Pexit(t) \/ Record(t) \/ RecordUnlock(t) \/ Kill(t)
      BY Zenon, <1>t, <3>2, Flow DEF Making, New, Linking, Starting
    <3>3. CASE Unhash(t) \/ LastUnlock(t) \/ FreeRecords(t)
      BY Zenon, <1>t, <3>3, Flow DEF Making, New, Linking, Starting
    <3>4. CASE Pwait(t) \/ AnyChild(t) \/ SleepTest(t) \/ SleepStore(t) \/ TakeRecord(t)
      BY Zenon, <1>t, <3>4, Flow DEF Making, New, Linking, Starting
    <3> QED
      BY Zenon, <1>2, <3>1, <3>2, <3>3, <3>4 DEF Plain
  <2> QED
    BY Zenon, <2>1 DEF Others
<1> QED
  BY Zenon, <1>1, <1>2

(* What the plain steps leave of free, pidalloc and the pcbs. *)
LEMMA Plains ==
  ASSUME IInv, NEW t \in Threads, Plain(t)
  PROVE  /\ free' = free /\ pidalloc' = pidalloc
         /\ \A x \in Pcbs : /\ pcb'[x].was = pcb[x].was /\ pcb'[x].parent = pcb[x].parent
                            /\ pcb'[x].parentpid = pcb[x].parentpid
                            /\ pcb'[x].pid = pcb[x].pid \/ (Unhash(t) /\ x = Pcb(t) /\ pcb'[x].pid = 0)
<1>1. free' = free /\ pidalloc' = pidalloc
  <2> USE DEF Plain, CallFork, SpawnFails, Pexit, Record, RecordWake, RecordUnlock, Kill, Unhash, LastWake,
              LastUnlock, FreeRecords, Pwait, AnyChild, SleepTest, SleepStore, TakeRecord, L4Rendezvous
  <2> QED
    BY Zenon
<1>2. CASE Unhash(t)
  BY Zenon, <1>1, <1>2, Frames
<1>3. CASE KeepIds
  BY Zenon, <1>1, <1>3 DEF KeepIds, SameIds
<1> QED
  BY Zenon, <1>2, <1>3, Frames DEF Plain

(* The table and the pids after a plain step. *)
LEMMA SlotsPlain ==
  ASSUME IInv, NEW t \in Threads, Plain(t)
  PROVE  SlotInv' /\ PidInv' /\ FamilyInv'
<1>t. Types /\ SlotInv /\ PidInv /\ FamilyInv /\ pcb \in [Pcbs -> PcbRecs]
  BY Zenon DEF IInv, Types
<1>p. \A u \in Threads : Pcb(u) \in Pcbs
  BY Zenon, PcbIn
<1>c. Calm
  BY Zenon, Calms
<1>f. /\ free' = free /\ pidalloc' = pidalloc
      /\ \A x \in Pcbs : /\ pcb'[x].was = pcb[x].was /\ pcb'[x].parent = pcb[x].parent
                         /\ pcb'[x].pid = pcb[x].pid \/ (Unhash(t) /\ x = Pcb(t) /\ pcb'[x].pid = 0)
  BY Zenon, Plains
<1>u. Unhash(t) => pc[t] # "none"
  BY Zenon DEF Unhash, Step
<1>1. SlotInv'
  <2>1. (IsInjective(free) /\ \A p \in Range(free) : pcb[p].was = 0)'
    <3>1. Range(free) \subseteq Pcbs
      BY <1>t DEF Types, Range
    <3> QED
      BY Zenon, <1>t, <1>f, <3>1 DEF SlotInv
  <2>2. \A v \in Threads : pc'[v] \in Making => loc'[v].child \in Pcbs
    BY Zenon, <1>t, <1>c DEF SlotInv, Calm
  <2>c. \A v \in Threads : pc'[v] \in Making => pc[v] \in Making /\ pc'[v] = pc[v] /\ loc'[v].child = loc[v].child
    BY Zenon, <1>c DEF Calm
  <2>m. \A x \in New \cup Linking \cup Starting : x \in Making
    BY Zenon DEF Making
  <2>3. ASSUME NEW v \in Threads, pc'[v] \in New
        PROVE  pcb'[loc'[v].child].was = 0 /\ loc'[v].child \notin Range(free')
    <3>1. pc[v] \in New /\ loc'[v].child = loc[v].child /\ loc[v].child \in Pcbs
      BY Zenon, <2>2, <2>3, <2>c, <2>m
    <3>2. pcb[loc[v].child].was = 0 /\ loc[v].child \notin Range(free)
      BY Zenon, <1>t, <3>1 DEF SlotInv
    <3>3. pcb'[loc[v].child].was = pcb[loc[v].child].was /\ free' = free
      BY Zenon, <1>f, <3>1
    <3> QED
      BY Zenon, <3>1, <3>2, <3>3
  <2>4. ASSUME NEW v \in Threads, pc'[v] \in Linking \cup Starting
        PROVE  pcb'[loc'[v].child].pid # 0
    <3>1. /\ pc[v] \in Linking \cup Starting /\ pc[v] \in Making
          /\ loc'[v].child = loc[v].child /\ loc[v].child \in Pcbs
      BY Zenon, <2>2, <2>4, <2>c, <2>m
    <3>2. pcb[loc[v].child].pid # 0 /\ (Unhash(t) => loc[v].child # Pcb(t))
      BY Zenon, <1>t, <1>u, <3>1 DEF SlotInv
    <3> QED
      BY Zenon, <1>f, <3>1, <3>2
  <2>5. \A v, u \in Threads : pc'[v] \in Making /\ pc'[u] \in Making /\ loc'[v].child = loc'[u].child => v = u
    BY Zenon, <1>t, <1>c DEF SlotInv, Calm
  <2>6. \A v \in Threads : pc'[v] # "none" => pcb'[Pcb(v)].was # 0
    BY Zenon, <1>t, <1>p, <1>c, <1>f DEF SlotInv, Calm
  <2>7. \A v, u \in Threads : pc'[v] # "none" /\ pc'[u] \in Making => loc'[u].child # Pcb(v)
    <3>1. ASSUME NEW v \in Threads, NEW u \in Threads, pc'[v] # "none", pc'[u] \in Making
          PROVE  loc'[u].child # Pcb(v)
      <4>1. pc[v] # "none" /\ pc[u] \in Making /\ loc'[u].child = loc[u].child
        BY Zenon, <1>c, <2>c, <3>1 DEF Calm
      <4> QED
        BY Zenon, <1>t, <4>1 DEF SlotInv
    <3> QED
      BY Zenon, <3>1
  <2> QED
    BY Zenon, <2>1, <2>2, <2>3, <2>4, <2>5, <2>6, <2>7 DEF SlotInv
<1>2. PidInv'
  BY <1>t, <1>f DEF PidInv
<1>3. FamilyInv'
  <2>1. \A p \in Pcbs : pcb[p].parent # 0 => pcb[p].parent \in Pcbs
    BY <1>t, ProcAssumption DEF PcbRecs, Pcbs
  <2>2. \A p \in Pcbs : pcb'[p].parent # 0 => pcb'[p].was # 0 /\ pcb'[pcb'[p].parent].was # 0
    BY Zenon, <1>t, <1>f, <2>1 DEF FamilyInv
  <2>3. \A v \in Threads : pc'[v] \in Making => loc[v].child \in Pcbs /\ pc'[v] = pc[v] /\ loc'[v].child = loc[v].child
    BY Zenon, <1>t, <1>c DEF SlotInv, Calm
  <2>4. ASSUME NEW v \in Threads, pc'[v] \in Linking PROVE pcb'[loc'[v].child].parent = 0
    <3>1. pc[v] \in Linking /\ loc'[v].child = loc[v].child /\ loc[v].child \in Pcbs
      BY Zenon, <2>3, <2>4 DEF Making
    <3>2. pcb[loc[v].child].parent = 0
      BY Zenon, <1>t, <3>1 DEF FamilyInv
    <3>3. pcb'[loc[v].child].parent = pcb[loc[v].child].parent
      BY Zenon, <1>f, <3>1
    <3> QED
      BY Zenon, <3>1, <3>2, <3>3
  <2>5. ASSUME NEW v \in Threads, pc'[v] \in Starting PROVE pcb'[loc'[v].child].parent = Pcb(v)
    <3>1. pc[v] \in Starting /\ loc'[v].child = loc[v].child /\ loc[v].child \in Pcbs
      BY Zenon, <2>3, <2>5 DEF Making
    <3>2. pcb[loc[v].child].parent = Pcb(v)
      BY Zenon, <1>t, <3>1 DEF FamilyInv
    <3>3. pcb'[loc[v].child].parent = pcb[loc[v].child].parent
      BY Zenon, <1>f, <3>1
    <3> QED
      BY Zenon, <3>1, <3>2, <3>3
  <2> QED
    BY Zenon, <2>2, <2>4, <2>5 DEF FamilyInv
<1> QED
  BY Zenon, <1>1, <1>2, <1>3

(* newproc takes a slot that nobody has. *)
LEMMA SlotsTake ==
  ASSUME IInv, Types', NEW t \in Threads, NewprocTake(t)
  PROVE  SlotInv' /\ PidInv' /\ FamilyInv'
<1>t. Types /\ SlotInv /\ PidInv /\ FamilyInv /\ ExitInv /\ free \in Seq(Pcbs) /\ free # <<>> /\ loc \in [Threads -> LocRecs]
  BY Zenon DEF IInv, Types, NewprocTake
<1>s. pcb' = pcb /\ pidalloc' = pidalloc /\ free' = Tail(free) /\ loc' = [loc EXCEPT ![t].child = Head(free)]
  BY Zenon DEF NewprocTake
<1>p. \A u \in Threads : Pcb(u) \in Pcbs
  BY Zenon, PcbIn
<1>c. PICK c : c = Head(free)
  BY Zenon
<1>h. /\ c \in Range(free) /\ IsInjective(Tail(free)) /\ Range(Tail(free)) = Range(free) \ {c}
      /\ Range(free) \subseteq Pcbs
  <2>1. IsInjective(free)
    BY Zenon, <1>t DEF SlotInv
  <2> QED
    <3>1. Range(free) \subseteq Pcbs /\ Range(Tail(free)) \subseteq Pcbs
      BY <1>t DEF Range
    <3>2. /\ c \in Range(free) /\ c \notin Range(Tail(free)) /\ IsInjective(Tail(free))
          /\ \A k \in Pcbs \ {c} : k \in Range(Tail(free)) <=> k \in Range(free)
      BY Zenon, <1>t, <1>c, <2>1, TakeFacts
    <3> QED
      BY Zenon, <3>1, <3>2
<1>f. Others(t) /\ pc[t] \in {"fk_new", "sp_new"} /\ pc'[t] \in New
  BY Zenon, <1>t, Flow
<1>l. loc'[t].child = c
  BY Zenon, <1>t, <1>s, <1>c DEF LocRecs
<1>w. pcb[c].was = 0 /\ c \in Pcbs
  BY Zenon, <1>t, <1>h DEF SlotInv
<1>n. \A u \in Threads : pc[u] \in Making => loc[u].child # c
  <2>1. ASSUME NEW u \in Threads, pc[u] \in Making PROVE loc[u].child # c
    <3>1. CASE pc[u] \in New
      BY Zenon, <1>t, <1>h, <3>1 DEF SlotInv
    <3>2. CASE pc[u] \in Linking \cup Starting
      <4>1. pcb[loc[u].child].pid # 0
        BY Zenon, <1>t, <3>2 DEF SlotInv
      <4>2. pcb[c].pid = 0
        BY Zenon, <1>t, <1>w DEF PidInv
      <4> QED
        BY Zenon, <4>1, <4>2
    <3> QED
      BY Zenon, <2>1, <3>1, <3>2 DEF Making
  <2> QED
    BY Zenon, <2>1
<1>1. SlotInv'
  <2>1. (IsInjective(free) /\ \A p \in Range(free) : pcb[p].was = 0)'
    BY Zenon, <1>t, <1>s, <1>h DEF SlotInv
  <2>2. \A v \in Threads : pc'[v] \in Making => loc'[v].child \in Pcbs
    BY Zenon, <1>t, <1>f, <1>l, <1>w DEF SlotInv, Others
  <2>3. \A v \in Threads : pc'[v] \in New => pcb'[loc'[v].child].was = 0 /\ loc'[v].child \notin Range(free')
    BY Zenon, <1>t, <1>f, <1>l, <1>w, <1>s, <1>h DEF SlotInv, Others
  <2>4. \A v \in Threads : pc'[v] \in Linking \cup Starting => pcb'[loc'[v].child].pid # 0
    BY Zenon, <1>t, <1>f, <1>s DEF SlotInv, Others, New, Linking, Starting
  <2>5. \A v, u \in Threads : pc'[v] \in Making /\ pc'[u] \in Making /\ loc'[v].child = loc'[u].child => v = u
    BY Zenon, <1>t, <1>f, <1>l, <1>n DEF SlotInv, Others
  <2>6. \A v \in Threads : pc'[v] # "none" => pcb'[Pcb(v)].was # 0
    BY Zenon, <1>t, <1>f, <1>s DEF SlotInv, Others
  <2>7. \A v, u \in Threads : pc'[v] # "none" /\ pc'[u] \in Making => loc'[u].child # Pcb(v)
    <3>1. ASSUME NEW v \in Threads, NEW u \in Threads, pc'[v] # "none", pc'[u] \in Making
          PROVE  loc'[u].child # Pcb(v)
      <4>1. pc[v] # "none"
        <5>1. pc[t] # "none"
          BY <1>f
        <5> QED
          BY Zenon, <1>f, <3>1, <5>1 DEF Others
      <4>2. CASE u = t
        <5>1. pcb[Pcb(v)].was # 0
          BY Zenon, <1>t, <4>1 DEF SlotInv
        <5> QED
          BY Zenon, <1>l, <1>w, <4>2, <5>1
      <4>3. CASE u # t
        <5>1. pc[u] \in Making /\ loc'[u].child = loc[u].child
          BY Zenon, <1>f, <3>1, <4>3 DEF Others
        <5> QED
          BY Zenon, <1>t, <4>1, <5>1 DEF SlotInv
      <4> QED
        BY Zenon, <4>2, <4>3
    <3> QED
      BY Zenon, <3>1
  <2> QED
    BY Zenon, <2>1, <2>2, <2>3, <2>4, <2>5, <2>6, <2>7 DEF SlotInv
<1>2. PidInv'
  BY Zenon, <1>t, <1>s DEF PidInv
<1>3. FamilyInv'
  BY Zenon, <1>t, <1>s, <1>f DEF FamilyInv, Others, New, Linking, Starting
<1> QED
  BY Zenon, <1>1, <1>2, <1>3

(* newproc gives the slot the next pid. *)
LEMMA SlotsHash ==
  ASSUME IInv, Types', NEW t \in Threads, NewprocHash(t)
  PROVE  SlotInv' /\ PidInv' /\ FamilyInv'
<1>t. Types /\ SlotInv /\ PidInv /\ FamilyInv /\ ExitInv /\ pcb \in [Pcbs -> PcbRecs] /\ pidalloc \in Nat
  BY Zenon DEF IInv, Types
<1>s. free' = free /\ pidalloc' = pidalloc + 1
  BY Zenon DEF NewprocHash
<1>p. \A u \in Threads : Pcb(u) \in Pcbs
  BY Zenon, PcbIn
<1>c. PICK c : c = loc[t].child
  BY Zenon
<1>f. Others(t) /\ pc[t] \in New /\ pc'[t] \in Linking /\ loc' = loc
  BY Zenon, <1>t, Flow
<1>x. c \in Pcbs /\ Sets(c, NewPcb(pidalloc + 1))
  BY Zenon, <1>t, <1>c, NewprocFacts
<1>n. pcb'[c].pid = pidalloc + 1 /\ pcb'[c].was = pidalloc + 1 /\ pcb'[c].parent = 0
  <2>1. pidalloc + 1 \in Nat
    BY <1>t
  <2> QED
    BY Zenon, <1>x, <2>1, NewFields DEF Sets
<1>o. \A x \in Pcbs \ {c} : pcb'[x] = pcb[x]
  BY Zenon, <1>x DEF Sets
<1>w. pcb[c].was = 0 /\ c \notin Range(free)
  BY Zenon, <1>t, <1>f, <1>c DEF SlotInv
<1>u. \A v \in Threads \ {t} : pc[v] \in Making => loc[v].child # c /\ loc[v].child \in Pcbs
  BY Zenon, <1>t, <1>f, <1>c DEF SlotInv, Making
<1>1. SlotInv'
  <2>1. (IsInjective(free) /\ \A p \in Range(free) : pcb[p].was = 0)'
    <3>1. Range(free) \subseteq Pcbs
      BY <1>t DEF Types, Range
    <3> QED
      BY Zenon, <1>t, <1>s, <1>o, <1>w, <3>1 DEF SlotInv
  <2>2. \A v \in Threads : pc'[v] \in Making => loc'[v].child \in Pcbs
    BY Zenon, <1>t, <1>f, <1>c, <1>x DEF SlotInv, Others
  <2>3. ASSUME NEW v \in Threads, pc'[v] \in New
        PROVE  pcb'[loc'[v].child].was = 0 /\ loc'[v].child \notin Range(free')
    <3>1. v # t
      BY <1>f, <2>3 DEF New, Linking
    <3>2. pc[v] \in New /\ pc[v] \in Making /\ loc'[v].child = loc[v].child
      BY Zenon, <1>f, <2>3, <3>1 DEF Others, Making
    <3>3. pcb'[loc[v].child] = pcb[loc[v].child]
      BY Zenon, <1>o, <1>u, <3>1, <3>2
    <3> QED
      BY Zenon, <1>t, <1>s, <3>2, <3>3 DEF SlotInv
  <2>4. ASSUME NEW v \in Threads, pc'[v] \in Linking \cup Starting
        PROVE  pcb'[loc'[v].child].pid # 0
    <3>1. CASE v = t
      <4>1. pidalloc + 1 # 0
        BY <1>t
      <4> QED
        BY Zenon, <1>f, <1>c, <1>n, <3>1, <4>1
    <3>2. CASE v # t
      <4>1. pc[v] \in Linking \cup Starting /\ pc[v] \in Making /\ loc'[v].child = loc[v].child
        BY Zenon, <1>f, <2>4, <3>2 DEF Others, Making
      <4>2. pcb'[loc[v].child] = pcb[loc[v].child]
        BY Zenon, <1>o, <1>u, <3>2, <4>1
      <4> QED
        BY Zenon, <1>t, <4>1, <4>2 DEF SlotInv
    <3> QED
      BY Zenon, <3>1, <3>2
  <2>5. \A v, u \in Threads : pc'[v] \in Making /\ pc'[u] \in Making /\ loc'[v].child = loc'[u].child => v = u
    BY Zenon, <1>t, <1>f DEF SlotInv, Others, Making
  <2>6. \A v \in Threads : pc'[v] # "none" => pcb'[Pcb(v)].was # 0
    <3>1. ASSUME NEW v \in Threads, pc'[v] # "none" PROVE pcb'[Pcb(v)].was # 0
      <4>1. pc[v] # "none"
        <5>1. pc[t] # "none"
          BY <1>f DEF New
        <5> QED
          BY Zenon, <1>f, <3>1, <5>1 DEF Others
      <4>2. pcb[Pcb(v)].was # 0 /\ Pcb(v) # c
        BY Zenon, <1>t, <1>w, <4>1 DEF SlotInv
      <4> QED
        BY Zenon, <1>p, <1>o, <4>2
    <3> QED
      BY Zenon, <3>1
  <2>7. \A v, u \in Threads : pc'[v] # "none" /\ pc'[u] \in Making => loc'[u].child # Pcb(v)
    BY Zenon, <1>t, <1>f DEF SlotInv, Others, Making, New
  <2> QED
    BY Zenon, <2>1, <2>2, <2>3, <2>4, <2>5, <2>6, <2>7 DEF SlotInv
<1>2. PidInv'
  <2>1. \A p \in Pcbs : pcb'[p].pid \in {0, pcb'[p].was} /\ pcb'[p].was <= pidalloc'
    <3>1. \A p \in Pcbs : pcb[p].pid \in {0, pcb[p].was} /\ pcb[p].was \in Nat /\ pcb[p].was <= pidalloc
      BY Zenon, <1>t DEF PidInv, PcbRecs
    <3> QED
      BY <1>t, <1>s, <1>n, <1>o, <3>1
  <2>2. \A p, q \in Pcbs : pcb'[p].was = pcb'[q].was /\ pcb'[p].was # 0 => p = q
    <3>1. \A p \in Pcbs \ {c} : pcb'[p].was = pcb[p].was /\ pcb[p].was \in Nat /\ pcb[p].was <= pidalloc
      BY Zenon, <1>t, <1>o DEF PidInv, PcbRecs
    <3> QED
      BY <1>t, <1>n, <3>1 DEF PidInv
  <2>3. \A i \in 1..pidalloc' : \E p \in Pcbs : pcb'[p].was = i
    <3> SUFFICES ASSUME NEW i \in 1..(pidalloc + 1) PROVE \E p \in Pcbs : pcb'[p].was = i
      BY Zenon, <1>s
    <3>1. CASE i = pidalloc + 1
      BY Zenon, <1>x, <1>n, <3>1
    <3>2. CASE i # pidalloc + 1
      <4>1. i \in 1..pidalloc
        BY <1>t, <3>2
      <4>2. PICK p \in Pcbs : pcb[p].was = i
        BY Zenon, <1>t, <4>1 DEF PidInv
      <4>3. p # c
        BY <1>w, <4>1, <4>2
      <4> QED
        BY Zenon, <1>o, <4>2, <4>3
    <3> QED
      BY Zenon, <3>1, <3>2
  <2> QED
    BY Zenon, <2>1, <2>2, <2>3 DEF PidInv
<1>3. FamilyInv'
  <2>1. \A p \in Pcbs : pcb[p].parent # 0 => pcb[p].parent \in Pcbs
    BY <1>t, ProcAssumption DEF PcbRecs, Pcbs
  <2>2. \A p \in Pcbs : pcb'[p].parent # 0 => pcb'[p].was # 0 /\ pcb'[pcb'[p].parent].was # 0
    BY Zenon, <1>t, <1>n, <1>o, <1>w, <2>1 DEF FamilyInv
  <2>3. \A v \in Threads : pc'[v] \in Linking => pcb'[loc'[v].child].parent = 0
    BY Zenon, <1>t, <1>f, <1>c, <1>n, <1>o, <1>u DEF FamilyInv, Others, Making
  <2>4. \A v \in Threads : pc'[v] \in Starting => pcb'[loc'[v].child].parent = Pcb(v)
    BY Zenon, <1>t, <1>f, <1>o, <1>u DEF FamilyInv, Others, Making, Linking, Starting
  <2> QED
    BY Zenon, <2>2, <2>3, <2>4 DEF FamilyInv
<1> QED
  BY Zenon, <1>1, <1>2, <1>3

(* The child is linked to its parent. *)
LEMMA SlotsLink ==
  ASSUME IInv, Types', NEW t \in Threads, Link(t)
  PROVE  SlotInv' /\ PidInv' /\ FamilyInv'
<1>t. Types /\ SlotInv /\ PidInv /\ FamilyInv /\ ExitInv /\ pcb \in [Pcbs -> PcbRecs]
  BY Zenon DEF IInv, Types
<1>s. free' = free /\ pidalloc' = pidalloc
  BY Zenon DEF Link
<1>p. \A u \in Threads : Pcb(u) \in Pcbs
  BY Zenon, PcbIn
<1>c. PICK p, c : p = Pcb(t) /\ c = loc[t].child
  BY Zenon
<1>f. Others(t) /\ pc[t] \in Linking /\ pc'[t] \in Starting /\ loc' = loc
  BY Zenon, <1>t, Flow
<1>x. /\ c \in Pcbs /\ c # p
      /\ \A x \in Pcbs : pcb'[x].pid = pcb[x].pid /\ pcb'[x].was = pcb[x].was
      /\ \A x \in Pcbs \ {c} : pcb'[x].parent = pcb[x].parent
      /\ pcb'[c].parent = p
  BY <1>t, <1>c, LinkFacts
<1>u. \A v \in Threads \ {t} : pc[v] \in Making => loc[v].child # c
  BY Zenon, <1>t, <1>f, <1>c DEF SlotInv, Making
<1>v. \A v \in Threads : pc[v] \in Making => loc[v].child \in Pcbs
  BY Zenon, <1>t DEF SlotInv
<1>w. pcb[c].was # 0 /\ pcb[p].was # 0
  <2>1. pcb[c].was # 0
    <3>1. pcb[c].pid # 0
      BY Zenon, <1>t, <1>f, <1>c DEF SlotInv
    <3> QED
      BY Zenon, <1>t, <1>x, <3>1 DEF PidInv
  <2>2. pcb[p].was # 0
    BY Zenon, <1>t, <1>f, <1>c DEF SlotInv, Linking
  <2> QED
    BY Zenon, <2>1, <2>2
<1>1. SlotInv'
  <2>1. (IsInjective(free) /\ \A q \in Range(free) : pcb[q].was = 0)'
    <3>1. Range(free) \subseteq Pcbs
      BY <1>t DEF Types, Range
    <3> QED
      BY Zenon, <1>t, <1>s, <1>x, <3>1 DEF SlotInv
  <2>2. \A v \in Threads : pc'[v] \in Making => loc'[v].child \in Pcbs
    BY Zenon, <1>v, <1>f, <1>c, <1>x DEF Others
  <2>3. \A v \in Threads : pc'[v] \in New => pcb'[loc'[v].child].was = 0 /\ loc'[v].child \notin Range(free')
    BY Zenon, <1>t, <1>f, <1>s, <1>x, <1>v DEF SlotInv, Others, Making, New, Starting
  <2>4. \A v \in Threads : pc'[v] \in Linking \cup Starting => pcb'[loc'[v].child].pid # 0
    BY Zenon, <1>t, <1>f, <1>x, <1>v DEF SlotInv, Others, Making
  <2>5. \A v, u \in Threads : pc'[v] \in Making /\ pc'[u] \in Making /\ loc'[v].child = loc'[u].child => v = u
    BY Zenon, <1>t, <1>f DEF SlotInv, Others, Making
  <2>6. \A v \in Threads : pc'[v] # "none" => pcb'[Pcb(v)].was # 0
    BY Zenon, <1>t, <1>p, <1>f, <1>x DEF SlotInv, Others, Linking
  <2>7. \A v, u \in Threads : pc'[v] # "none" /\ pc'[u] \in Making => loc'[u].child # Pcb(v)
    BY Zenon, <1>t, <1>f DEF SlotInv, Others, Making, Linking
  <2> QED
    BY Zenon, <2>1, <2>2, <2>3, <2>4, <2>5, <2>6, <2>7 DEF SlotInv
<1>2. PidInv'
  BY <1>t, <1>s, <1>x DEF PidInv
<1>3. FamilyInv'
  <2>1. \A q \in Pcbs : pcb[q].parent # 0 => pcb[q].parent \in Pcbs
    BY <1>t, ProcAssumption DEF PcbRecs, Pcbs
  <2>2. \A q \in Pcbs : pcb'[q].parent # 0 => pcb'[q].was # 0 /\ pcb'[pcb'[q].parent].was # 0
    <3>1. ASSUME NEW q \in Pcbs, pcb'[q].parent # 0, q # c
          PROVE  pcb'[q].was # 0 /\ pcb'[pcb'[q].parent].was # 0
      BY Zenon, <1>t, <1>x, <2>1, <3>1 DEF FamilyInv
    <3>2. pcb'[c].was # 0 /\ pcb'[pcb'[c].parent].was # 0
      BY Zenon, <1>p, <1>c, <1>x, <1>w
    <3> QED
      BY Zenon, <3>1, <3>2
  <2>3. \A v \in Threads : pc'[v] \in Linking => pcb'[loc'[v].child].parent = 0
    BY Zenon, <1>t, <1>f, <1>x, <1>u, <1>v DEF FamilyInv, Others, Making, Linking, Starting
  <2>4. \A v \in Threads : pc'[v] \in Starting => pcb'[loc'[v].child].parent = Pcb(v)
    BY Zenon, <1>t, <1>f, <1>c, <1>x, <1>u, <1>v DEF FamilyInv, Others, Making
  <2> QED
    BY Zenon, <2>2, <2>3, <2>4 DEF FamilyInv
<1> QED
  BY Zenon, <1>1, <1>2, <1>3

(* The child runs. *)
LEMMA SlotsStart ==
  ASSUME IInv, Types', NEW t \in Threads, Start(t)
  PROVE  SlotInv' /\ PidInv' /\ FamilyInv'
<1>t. Types /\ SlotInv /\ PidInv /\ FamilyInv /\ pc[t] \in Starting /\ loc \in [Threads -> LocRecs]
  BY Zenon DEF IInv, Types, Start, Starting
<1>s. free' = free /\ pidalloc' = pidalloc /\ pcb' = pcb /\ loc' = [loc EXCEPT ![t] = NoLocals]
  BY Zenon DEF Start
<1>p. \A u \in Threads : Pcb(u) \in Pcbs
  BY Zenon, PcbIn
<1>c. PICK c : c = loc[t].child
  BY Zenon
<1>f. \A u \in Threads : pc'[u] = IF u = t \/ Pcb(u) = c THEN "user" ELSE pc[u]
  BY Zenon, <1>c DEF Start
<1>m. \A u \in Threads : pc'[u] \in Making => pc'[u] = pc[u] /\ loc'[u] = loc[u] /\ u # t
  BY Zenon, <1>t, <1>s, <1>f DEF Making, New, Linking, Starting
<1>w. c \in Pcbs /\ pcb[c].was # 0
  <2>1. c \in Pcbs /\ pcb[c].pid # 0
    BY Zenon, <1>t, <1>c DEF SlotInv, Making
  <2> QED
    BY Zenon, <1>t, <2>1 DEF PidInv
<1>1. SlotInv'
  <2>1. (IsInjective(free) /\ \A q \in Range(free) : pcb[q].was = 0)'
    BY Zenon, <1>t, <1>s DEF SlotInv
  <2>2. \A v \in Threads : pc'[v] \in Making => loc'[v].child \in Pcbs
    BY Zenon, <1>t, <1>m DEF SlotInv
  <2>3. \A v \in Threads : pc'[v] \in New => pcb'[loc'[v].child].was = 0 /\ loc'[v].child \notin Range(free')
    BY Zenon, <1>t, <1>m, <1>s DEF SlotInv, Making
  <2>4. \A v \in Threads : pc'[v] \in Linking \cup Starting => pcb'[loc'[v].child].pid # 0
    BY Zenon, <1>t, <1>m, <1>s DEF SlotInv, Making
  <2>5. \A v, u \in Threads : pc'[v] \in Making /\ pc'[u] \in Making /\ loc'[v].child = loc'[u].child => v = u
    BY Zenon, <1>t, <1>m DEF SlotInv
  <2>6. \A v \in Threads : pc'[v] # "none" => pcb'[Pcb(v)].was # 0
    BY Zenon, <1>t, <1>f, <1>s, <1>w DEF SlotInv, Starting
  <2>7. \A v, u \in Threads : pc'[v] # "none" /\ pc'[u] \in Making => loc'[u].child # Pcb(v)
    <3>1. \A u \in Threads : pc'[u] \in Making => loc'[u].child # c
      BY Zenon, <1>t, <1>m, <1>c DEF SlotInv, Making
    <3>2. \A v \in Threads : pc'[v] # "none" => pc[v] # "none" \/ Pcb(v) = c
      BY Zenon, <1>t, <1>f DEF Starting
    <3> QED
      BY <1>t, <1>m, <3>1, <3>2 DEF SlotInv
  <2> QED
    BY Zenon, <2>1, <2>2, <2>3, <2>4, <2>5, <2>6, <2>7 DEF SlotInv
<1>2. PidInv'
  BY Zenon, <1>t, <1>s DEF PidInv
<1>3. FamilyInv'
  BY Zenon, <1>t, <1>s, <1>m DEF FamilyInv, Making
<1> QED
  BY Zenon, <1>1, <1>2, <1>3

(* The table and the pids are kept. *)
LEMMA SlotsStep ==
  ASSUME IInv, Types', NEW t \in Threads, CallFork(t) \/ Pexit(t) \/ Pwait(t) \/ Run(t)
  PROVE  SlotInv' /\ PidInv' /\ FamilyInv'
BY Zenon, StepCases, SlotsPlain, SlotsTake, SlotsHash, SlotsLink, SlotsStart

(* A fresh pcb and the others. *)
LEMMA FreshFacts ==
  ASSUME IInv, NEW t \in Threads, NewprocHash(t), NEW c, c = loc[t].child
  PROVE  /\ c \in Pcbs /\ pcb[c].was = 0 /\ \A x \in Pcbs \ {c} : pcb'[x] = pcb[x]
         /\ pcb'[c].pid = pidalloc + 1 /\ pcb'[c].was = pidalloc + 1 /\ pidalloc + 1 # 0
         /\ pcb'[c].parent = 0 /\ pcb'[c].parentpid = 0
         /\ pcb'[c].nchild = 0 /\ pcb'[c].nwait = 0 /\ pcb'[c].waitq = <<>>
         /\ pcb'[c].waitr = NoThread /\ pcb'[c].moribund = FALSE
         /\ \A u \in Threads : pc[u] # "none" => Pcb(u) # c
<1>t. Types /\ SlotInv /\ pidalloc + 1 \in Nat /\ pidalloc + 1 # 0
  BY DEF IInv, Types
<1>1. c \in Pcbs /\ Sets(c, NewPcb(pidalloc + 1)) /\ pcb[c].was = 0
  BY Zenon, <1>t, NewprocFacts DEF NewprocHash, SlotInv, New
<1>2. \A u \in Threads : pc[u] # "none" => Pcb(u) # c
  BY Zenon, <1>t, <1>1 DEF SlotInv
<1>3. PICK r : r = NewPcb(pidalloc + 1)
  BY Zenon
<1>4. /\ r.pid = pidalloc + 1 /\ r.was = pidalloc + 1 /\ r.parent = 0 /\ r.parentpid = 0
      /\ r.nchild = 0 /\ r.nwait = 0 /\ r.waitq = <<>> /\ r.waitr = NoThread /\ r.moribund = FALSE
  BY Zenon, <1>t, <1>3, NewFields
<1>5. Sets(c, r)
  BY Zenon, <1>1, <1>3
<1> QED
  BY Zenon, <1>t, <1>1, <1>2, <1>4, <1>5 DEF Sets

(* A pid hashes to a chain of the table. *)
LEMMA ChainOf == ASSUME NEW n \in Nat PROVE n % HtSize \in 0..(HtSize - 1)
<1>1. HtSize \in Nat /\ HtSize > 0
  BY ProcAssumption
<1> QED
  BY <1>1

(* newproc puts the child into the chain of its pid. *)
LEMMA HashPut ==
  ASSUME IInv, NEW t \in Threads, NewprocHash(t)
  PROVE  HashInv'
<1>t. Types /\ PidInv /\ HashInv /\ ht \in [0..(HtSize - 1) -> Seq(Pcbs)] /\ pidalloc \in Nat
  BY Zenon DEF IInv, Types
<1>0. PICK c, n, k : c = loc[t].child /\ n = pidalloc + 1 /\ k = n % HtSize
  BY Zenon
<1>1. /\ c \in Pcbs /\ pcb[c].was = 0 /\ \A x \in Pcbs \ {c} : pcb'[x] = pcb[x]
      /\ pcb'[c].pid = n /\ n # 0
  BY Zenon, <1>0, FreshFacts
<1>2. n \in Nat /\ k \in 0..(HtSize - 1)
  BY <1>t, <1>0, ChainOf
<1>3. ht' = [ht EXCEPT ![k] = <<c>> \o @]
  BY Zenon, <1>0 DEF NewprocHash, pidhash
<1>4. pcb[c].pid = 0
  BY Zenon, <1>t, <1>1 DEF PidInv
<1>5. \A h \in 0..(HtSize - 1) : c \notin Range(ht[h])
  BY Zenon, <1>t, <1>4 DEF HashInv
<1>6. /\ ht'[k] = <<c>> \o ht[k] /\ \A h \in 0..(HtSize - 1) : h # k => ht'[h] = ht[h]
  BY Zenon, <1>t, <1>2, <1>3
<1>7. IsInjective(ht'[k]) /\ Range(ht'[k]) = Range(ht[k]) \cup {c}
  <2>1. ht[k] \in Seq(Pcbs) /\ IsInjective(ht[k]) /\ c \notin Range(ht[k])
    BY Zenon, <1>t, <1>2, <1>5 DEF HashInv
  <2> QED
    BY <1>1, <1>6, <2>1, PutFacts
<1>8. \A h \in 0..(HtSize - 1) : Range(ht[h]) \subseteq Pcbs
  BY <1>t DEF Range
<1>9. ASSUME NEW h \in 0..(HtSize - 1)
      PROVE  IsInjective(ht'[h]) /\ \A q \in Range(ht'[h]) : pcb'[q].pid # 0 /\ pcb'[q].pid % HtSize = h
  <2>1. IsInjective(ht[h]) /\ \A q \in Range(ht[h]) : pcb[q].pid # 0 /\ pcb[q].pid % HtSize = h
    BY Zenon, <1>t DEF HashInv
  <2>2. \A q \in Range(ht[h]) : pcb'[q] = pcb[q]
    BY Zenon, <1>1, <1>5, <1>8
  <2>3. CASE h = k
    BY Zenon, <1>0, <1>1, <1>7, <2>1, <2>2, <2>3
  <2>4. CASE h # k
    BY Zenon, <1>6, <2>1, <2>2, <2>4
  <2> QED
    BY Zenon, <2>3, <2>4
<1>10. ASSUME NEW q \in Pcbs, pcb'[q].pid # 0 PROVE q \in Range(ht'[pcb'[q].pid % HtSize])
  <2>1. CASE q = c
    BY Zenon, <1>0, <1>1, <1>7, <2>1
  <2>2. CASE q # c
    <3>1. PICK h : h = pcb[q].pid % HtSize
      BY Zenon
    <3>2. pcb'[q].pid = pcb[q].pid /\ q \in Range(ht[h])
      BY Zenon, <1>t, <1>1, <1>10, <2>2, <3>1 DEF HashInv
    <3>3. pcb[q].pid \in Nat
      BY Zenon, <1>t DEF Types, PcbRecs
    <3>4. h \in 0..(HtSize - 1)
      BY Zenon, <3>1, <3>3, ChainOf
    <3>5. q \in Range(ht'[h])
      BY Zenon, <1>6, <1>7, <3>2, <3>4
    <3> QED
      BY Zenon, <3>1, <3>2, <3>5
  <2> QED
    BY Zenon, <2>1, <2>2
<1> QED
  BY Zenon, <1>9, <1>10 DEF HashInv

(* pexit takes the process out of the chain of its pid, which it loses. *)
LEMMA HashTake ==
  ASSUME IInv, NEW t \in Threads, Unhash(t)
  PROVE  HashInv'
<1>t. Types /\ HashInv /\ ht \in [0..(HtSize - 1) -> Seq(Pcbs)]
  BY Zenon DEF IInv, Types
<1>0. PICK p, k : p = Pcb(t) /\ k = pcb[p].pid % HtSize
  BY Zenon
<1>1. /\ p \in Pcbs /\ \A x \in Pcbs : pcb'[x].pid = IF x = p THEN 0 ELSE pcb[x].pid
  BY Zenon, <1>0, PcbIn, Frames
<1>2. k \in 0..(HtSize - 1)
  <2>1. pcb[p].pid \in Nat
    BY Zenon, <1>t, <1>1 DEF Types, PcbRecs
  <2> QED
    BY Zenon, <1>0, <2>1, ChainOf
<1>3. ht' = [ht EXCEPT ![k] = Unlink(@, p)]
  BY Zenon, <1>0 DEF Unhash, pidunhash
<1>4. ht'[k] = Unlink(ht[k], p) /\ \A h \in 0..(HtSize - 1) : h # k => ht'[h] = ht[h]
  BY Zenon, <1>t, <1>2, <1>3
<1>5. IsInjective(ht'[k]) /\ Range(ht'[k]) = Range(ht[k]) \ {p}
  BY Zenon, <1>t, <1>1, <1>2, <1>4, HashList
<1>8. \A h \in 0..(HtSize - 1) : Range(ht[h]) \subseteq Pcbs
  BY <1>t DEF Range
<1>9. ASSUME NEW h \in 0..(HtSize - 1)
      PROVE  IsInjective(ht'[h]) /\ \A q \in Range(ht'[h]) : pcb'[q].pid # 0 /\ pcb'[q].pid % HtSize = h
  <2>1. IsInjective(ht[h]) /\ \A q \in Range(ht[h]) : pcb[q].pid # 0 /\ pcb[q].pid % HtSize = h
    BY Zenon, <1>t DEF HashInv
  <2>2. IsInjective(ht'[h]) /\ \A q \in Range(ht'[h]) : q \in Range(ht[h]) /\ q # p
    BY Zenon, <1>0, <1>4, <1>5, <2>1
  <2>3. \A q \in Range(ht'[h]) : pcb'[q].pid = pcb[q].pid
    BY Zenon, <1>1, <1>8, <2>2
  <2> QED
    BY Zenon, <2>1, <2>2, <2>3
<1>10. ASSUME NEW q \in Pcbs, pcb'[q].pid # 0 PROVE q \in Range(ht'[pcb'[q].pid % HtSize])
  <2>1. PICK h : h = pcb[q].pid % HtSize
    BY Zenon
  <2>2. q # p /\ pcb'[q].pid = pcb[q].pid
    BY Zenon, <1>1, <1>10
  <2>3. q \in Range(ht[h])
    BY Zenon, <1>t, <1>10, <2>1, <2>2 DEF HashInv
  <2>4. pcb[q].pid \in Nat
    BY Zenon, <1>t DEF Types, PcbRecs
  <2>5. h \in 0..(HtSize - 1)
    BY Zenon, <2>1, <2>4, ChainOf
  <2>6. q \in Range(ht'[h])
    BY Zenon, <1>4, <1>5, <2>2, <2>3, <2>5
  <2> QED
    BY Zenon, <2>1, <2>2, <2>6
<1> QED
  BY Zenon, <1>9, <1>10 DEF HashInv

(* The hash table is kept. *)
LEMMA HashStep ==
  ASSUME IInv, NEW t \in Threads, CallFork(t) \/ Pexit(t) \/ Pwait(t) \/ Run(t)
  PROVE  HashInv'
<1>1. CASE NewprocHash(t)
  BY Zenon, <1>1, HashPut
<1>2. CASE Unhash(t)
  BY Zenon, <1>2, HashTake
<1>3. CASE ~NewprocHash(t) /\ ~Unhash(t)
  <2>1. ht' = ht
    BY Zenon, <1>3 DEF Run, CallFork, Pexit, Pwait, NewprocTake, Link, Start, SpawnFails, Record, RecordWake,
         RecordUnlock, Kill, LastWake, LastUnlock, FreeRecords, AnyChild, SleepTest,
         SleepStore, TakeRecord, L4Rendezvous
  <2>2. \A x \in Pcbs : pcb'[x].pid = pcb[x].pid
    <3>1. CASE Plain(t)
      BY Zenon, <1>3, <3>1, Plains
    <3>2. CASE NewprocTake(t) \/ Start(t) \/ Link(t)
      BY Zenon, <3>2, Frames DEF KeepIds, SameIds
    <3> QED
      BY Zenon, <1>3, <3>1, <3>2, StepCases
  <2>3. HashInv /\ ht \in [0..(HtSize - 1) -> Seq(Pcbs)]
    BY Zenon DEF IInv, Types
  <2>4. \A h \in 0..(HtSize - 1) : Range(ht[h]) \subseteq Pcbs
    BY <2>3 DEF Range
  <2> QED
    BY Zenon, <2>1, <2>2, <2>3, <2>4 DEF HashInv
<1> QED
  BY Zenon, <1>1, <1>2, <1>3
=============================================================================
