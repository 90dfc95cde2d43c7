-------------------------- MODULE ProcReapProofs ---------------------------
(***************************************************************************)
(* The rest of the proofs about fork, exit and wait: the wait records that *)
(* pwait returns, the counts of children, and the theorems.                *)
(***************************************************************************)
EXTENDS ProcWaitProofs, FiniteSetTheorems

(* A process in use keeps its pid of old, and its parent unless fork links *)
(* it just now.                                                            *)
LEMMA WasStays ==
  ASSUME IInv, NEW t \in Threads, CallFork(t) \/ Pexit(t) \/ Pwait(t) \/ Run(t),
         NEW c \in Pcbs, pcb[c].was # 0
  PROVE  /\ pcb'[c].was = pcb[c].was
         /\ ~(Link(t) /\ c = loc[t].child) => pcb'[c].parent = pcb[c].parent
<1>1. CASE Plain(t)
  BY Zenon, <1>1, Plains
<1>2. CASE NewprocTake(t) \/ Start(t)
  BY Zenon, <1>2, Frames DEF KeepIds, SameIds
<1>3. CASE NewprocHash(t)
  <2>1. PICK d : d = loc[t].child
    BY Zenon
  <2> QED
    BY Zenon, <1>3, <2>1, FreshFacts
<1>4. CASE Link(t)
  <2>1. PICK d, p : d = loc[t].child /\ p = Pcb(t)
    BY Zenon
  <2>2. Types /\ SlotInv
    BY Zenon DEF IInv
  <2>3. /\ \A x \in Pcbs : pcb'[x].was = pcb[x].was
        /\ \A x \in Pcbs \ {d} : pcb'[x].parent = pcb[x].parent
    BY ZenonT(30), <1>4, <2>1, <2>2, LinkFacts
  <2> QED
    BY Zenon, <1>4, <2>1, <2>3
<1> QED
  BY Zenon, <1>1, <1>2, <1>3, <1>4, StepCases

(* A process whose main thread is past its record, or has ended, is so for *)
(* good, unless it is started just now.                                    *)
LEMMA AtStays ==
  ASSUME IInv, NEW t \in Threads, CallFork(t) \/ Pexit(t) \/ Pwait(t) \/ Run(t),
         NEW c \in Pcbs, NEW m \in Threads, m = <<c, 1>>, At(m) \in Leaving \cup {"none"},
         ~(Start(t) /\ loc[t].child = c)
  PROVE  At(m)' \in Leaving \cup {"none"}
<1>t. Types /\ ExitInv
  BY Zenon DEF IInv
<1>a. m \in Threads /\ Pcb(m) = c /\ At(m) \in Leaving \cup {"none"}
  BY Zenon DEF Pcb
<1>1. CASE m = t
  <2>1. pc[t] \notin {"user", "ex_record", "fk_start", "sp_start"}
    BY Zenon, <1>a, <1>1 DEF At, Leaving
  <2>2. CASE L4Rendezvous(t)
    <3>1. PICK w : w = loc[t].whom
      BY Zenon
    <3> QED
      BY Zenon, <1>a, <1>1, <2>2, <3>1, SendFacts
  <2>3. ~Start(t)
    BY Zenon, <2>1 DEF Start
  <2>4. CASE ~L4Rendezvous(t)
    <3>1. \/ At(t)' \in {"ex_unlock", "ex_lastunlock"}
          \/ pc'[t] \in {"ex_kill", "ex_unhash", "ex_lastwake", "ex_free", "none"}
      <4>1. pc[t] # "none" => At(t) \in Leaving
        BY Zenon, <1>t, <1>a, <1>1 DEF At, ExitInv
      <4> QED
        BY Zenon, <2>1, <2>3, <2>4, <4>1, AtFlow DEF Run
    <3> QED
      BY Zenon, <1>1, <3>1 DEF At, Leaving
  <2> QED
    BY Zenon, <2>2, <2>4
<1>2. CASE m # t
  <2>1. pc'[m] = pc[m] /\ loc'[m] = loc[m]
    <3>1. CASE L4Rendezvous(t)
      <4>1. PICK w : w = loc[t].whom
        BY Zenon
      <4>2. pc[w] = "wt_sleep" /\ (\A u \in Threads \ {t, w} : pc'[u] = pc[u]) /\ loc' = loc
        BY <3>1, <4>1, SendFacts
      <4>3. m # w
        BY Zenon, <1>a, <4>2 DEF At, Leaving
      <4> QED
        BY Zenon, <1>a, <1>2, <4>2, <4>3
    <3>2. CASE Start(t)
      BY Zenon, <1>t, <1>a, <1>2, <3>2 DEF Start, Making, Starting, Types
    <3>3. CASE ~L4Rendezvous(t) /\ ~Start(t)
      <4>1. Others(t)
        BY Zenon, <3>3, AtFlow DEF Run
      <4> QED
        BY Zenon, <1>a, <1>2, <4>1 DEF Others
    <3> QED
      BY Zenon, <3>1, <3>2, <3>3
  <2> QED
    BY Zenon, <1>a, <2>1 DEF At
<1> QED
  BY Zenon, <1>1, <1>2

(* A process that is past its record stays so. *)
LEMMA PastStays ==
  ASSUME IInv, NEW t \in Threads, CallFork(t) \/ Pexit(t) \/ Pwait(t) \/ Run(t),
         NEW c \in Pcbs, Past(c)
  PROVE  Past(c)' /\ pcb'[c].was = pcb[c].was /\ pcb'[c].parent = pcb[c].parent
<1>t. Types /\ SlotInv /\ ExitInv
  BY Zenon DEF IInv
<1>0. PICK m : m = <<c, 1>>
  BY Zenon
<1>1. /\ m \in Threads /\ Pcb(m) = c /\ pcb[c].was # 0
      /\ At(m) \in Leaving \cup {"none"} /\ \A u \in Threads : pc[u] \in Making => loc[u].child # c
  BY Zenon, <1>0, ProcAssumption DEF Past, Pcb, Pcbs
<1>2. pcb'[c].was = pcb[c].was /\ pcb'[c].parent = pcb[c].parent
  <2>1. Link(t) => pc[t] \in Making
    BY Zenon DEF Link, Making, Linking
  <2> QED
    BY Zenon, <1>1, <2>1, WasStays
<1>3. At(m)' \in Leaving \cup {"none"}
  <2>1. Start(t) => pc[t] \in Making
    BY Zenon DEF Start, Making, Starting
  <2> QED
    BY Zenon, <1>0, <1>1, <2>1, AtStays
<1>4. \A u \in Threads : pc'[u] \in Making => loc'[u].child # c
  <2>1. CASE Plain(t)
    BY Zenon, <1>1, <2>1, Calms DEF Calm
  <2>2. CASE NewprocTake(t)
    <3>1. Others(t) /\ loc'[t].child = Head(free) /\ free # <<>> /\ free \in Seq(Pcbs)
      BY ZenonT(30), <1>t, <2>2, AtFlow DEF NewprocTake, Types, LocRecs
    <3>2. Head(free) \in Range(free)
      BY Zenon, <1>t, <3>1, TakeFacts DEF SlotInv
    <3>3. Head(free) # c
      BY Zenon, <1>t, <1>1, <3>2 DEF SlotInv
    <3> QED
      BY Zenon, <1>1, <3>1, <3>3 DEF Others
  <2>3. CASE NewprocHash(t) \/ Link(t)
    <3>1. Others(t) /\ loc' = loc /\ pc[t] \in Making
      BY Zenon, <2>3, AtFlow DEF NewprocHash, Link, Making, New, Linking
    <3> QED
      BY Zenon, <1>1, <3>1 DEF Others
  <2>4. CASE Start(t)
    <3>1. /\ pc'[t] = "user"
          /\ \A u \in Threads \ {t} : loc'[u] = loc[u] /\ pc'[u] \in {pc[u], "user"}
      BY Zenon, <1>t, <2>4 DEF Start, Types
    <3> QED
      BY Zenon, <1>1, <3>1 DEF Making, New, Linking, Starting
  <2> QED
    BY Zenon, <2>1, <2>2, <2>3, <2>4, StepCases
<1> QED
  BY Zenon, <1>0, <1>1, <1>2, <1>3, <1>4 DEF Past

(* ... and so does what it has left. *)
LEMMA LeftStays ==
  ASSUME IInv, NEW t \in Threads, CallFork(t) \/ Pexit(t) \/ Pwait(t) \/ Run(t),
         NEW p \in Pcbs, NEW x, Left(p, x)
  PROVE  Left(p, x)'
<1>1. PICK c \in Pcbs : pcb[c].was = x /\ pcb[c].parent = p /\ Past(c)
  BY Zenon DEF Left
<1>2. Past(c)' /\ pcb'[c].was = x /\ pcb'[c].parent = p
  BY Zenon, <1>1, PastStays
<1> QED
  BY Zenon, <1>2 DEF Left

(* The pid of a process that leaves its record is not among those that     *)
(* are past theirs, and is once the step is done.                          *)
LEMMA RecordNew ==
  ASSUME IInv, NEW t \in Threads, Record(t), NEW p \in Pcbs, NEW q \in Pcbs, RecordLeft(t, p, q),
         NEW n, n = pcb[p].pid
  PROVE  n \in Nat /\ Left(q, n)' /\ \A x \in Pcbs : ~Left(x, n)
<1>t. Types /\ SlotInv /\ PidInv /\ ExitInv
  BY Zenon DEF IInv
<1>1. /\ p = Pcb(t) /\ q = pcb[p].parent /\ pc[t] = "ex_record" /\ pc'[t] = "ex_wake" /\ n \in Nat
  BY Zenon DEF RecordLeft
<1>2. t = <<p, 1>> /\ At(t) = "ex_record" /\ n # 0 /\ n = pcb[p].was
  BY Zenon, <1>t, <1>1 DEF ExitInv, PidInv, At, Last
<1>3. \A x \in Pcbs : ~Left(x, n)
  <2> SUFFICES ASSUME NEW c \in Pcbs, pcb[c].was = n, Past(c) PROVE FALSE
    BY Zenon DEF Left
  <2>1. c = p
    BY Zenon, <1>t, <1>2 DEF PidInv
  <2> QED
    BY Zenon, <1>2, <2>1 DEF Past, Leaving
<1>4. pcb'[p].was = pcb[p].was /\ pcb'[p].parent = q
  BY Zenon, <1>1, Frames DEF KeepIds, SameIds
<1>5. Past(p)'
  <2>1. At(t)' \in Leaving
    BY Zenon, <1>1 DEF At, Leaving
  <2>2. Calm
    BY Zenon, Calms DEF Plain
  <2>3. \A u \in Threads : pc'[u] \in Making => loc'[u].child # p
    BY Zenon, <1>t, <1>1, <2>2 DEF SlotInv, Calm
  <2> QED
    BY Zenon, <1>2, <1>4, <2>1, <2>3 DEF Past
<1> QED
  BY Zenon, <1>1, <1>2, <1>3, <1>4, <1>5 DEF Left

(* The record of the process with pid y was returned to the one with pid x. *)
Returned(x, y) ==
  \E p \in Pcbs : pcb[p].was = x /\ pcb[p].was # 0 /\ Left(p, y) /\ y \notin Range(pcb[p].waitq)

(* The records are each of one child, on a list or returned. *)
LEMMA ReapStep ==
  ASSUME IInv, Types', NEW t \in Threads, CallFork(t) \/ Pexit(t) \/ Pwait(t) \/ Run(t)
  PROVE  ReapInv'
<1>t. Types /\ SlotInv /\ PidInv /\ ReapInv /\ reaped \in Seq(Nat \X Nat)
  BY Zenon DEF IInv, Types
<1>q. \A p \in Pcbs : /\ pcb[p].waitq \in Seq(Nat) /\ IsInjective(pcb[p].waitq)
                      /\ \A x \in Range(pcb[p].waitq) : Left(p, x)
  BY Zenon, <1>t DEF Types, PcbRecs, ReapInv
<1>r. /\ \A i, j \in DOMAIN reaped : reaped[i] = reaped[j] => i = j
      /\ \A i \in DOMAIN reaped : Returned(reaped[i][1], reaped[i][2])
  BY Zenon, <1>t DEF ReapInv, Returned
<1>l. \A p \in Pcbs : \A x : Left(p, x) => Left(p, x)'
  BY Zenon, LeftStays
<1>w. \A p \in Pcbs : pcb[p].was # 0 => pcb'[p].was = pcb[p].was
  BY Zenon, WasStays
<1>s. ASSUME /\ \A x \in Pcbs : IsInjective(pcb'[x].waitq) /\ \A y \in Range(pcb'[x].waitq) : Left(x, y)'
             /\ \A i, j \in DOMAIN reaped' : reaped'[i] = reaped'[j] => i = j
             /\ \A i \in DOMAIN reaped' : \E x, y : reaped'[i] = <<x, y>> /\ Returned(x, y)'
      PROVE  ReapInv'
  BY <1>s DEF ReapInv, Returned
<1>e. \A i \in DOMAIN reaped : \E x, y : reaped[i] = <<x, y>> /\ Returned(x, y)
  BY <1>t, <1>r
<1>1. CASE Record(t) /\ pcb' # pcb
  <2>1. PICK p, q \in Pcbs : RecordLeft(t, p, q)
    BY Zenon, <1>1, RecordFacts
  <2>2. PICK n : n = pcb[p].pid
    BY Zenon
  <2>3. n \in Nat /\ Left(q, n)' /\ \A x \in Pcbs : ~Left(x, n)
    BY Zenon, <1>1, <2>1, <2>2, RecordNew
  <2>4. (\A x \in Pcbs \ {q} : pcb'[x] = pcb[x]) /\ pcb'[q].waitq = <<n>> \o pcb[q].waitq
    BY Zenon, <2>1, <2>2 DEF RecordLeft
  <2>5. n \notin Range(pcb[q].waitq)
    BY Zenon, <1>q, <2>3
  <2>6. IsInjective(pcb'[q].waitq) /\ Range(pcb'[q].waitq) = Range(pcb[q].waitq) \cup {n}
    BY <1>q, <2>3, <2>4, <2>5, PutFacts
  <2>7. reaped' = reaped
    BY Zenon, <1>1 DEF Record
  <2>8. \A x \in Pcbs : IsInjective(pcb'[x].waitq) /\ \A y \in Range(pcb'[x].waitq) : Left(x, y)'
    BY Zenon, <1>q, <1>l, <2>3, <2>4, <2>6
  <2>9. ASSUME NEW a, NEW y, Returned(a, y) PROVE Returned(a, y)'
    <3>1. PICK x \in Pcbs : pcb[x].was = a /\ pcb[x].was # 0 /\ Left(x, y) /\ y \notin Range(pcb[x].waitq)
      BY Zenon, <2>9 DEF Returned
    <3>2. y # n
      BY Zenon, <2>3, <3>1
    <3>3. y \notin Range(pcb'[x].waitq)
      BY Zenon, <2>4, <2>6, <3>1, <3>2
    <3> QED
      BY Zenon, <1>l, <1>w, <3>1, <3>3 DEF Returned
  <2> QED
    BY Zenon, <1>r, <1>e, <1>s, <2>7, <2>8, <2>9
<1>2. CASE TakeRecord(t) /\ pcb' # pcb
  <2>1. PICK p : p = Pcb(t)
    BY Zenon
  <2>2. /\ p \in Pcbs /\ pcb[p].waitq # <<>> /\ pc[t] = "wt_take"
        /\ \A x \in Pcbs \ {p} : pcb'[x] = pcb[x]
        /\ pcb'[p].waitq = Tail(pcb[p].waitq)
        /\ reaped' = Append(reaped, <<pcb[p].was, Head(pcb[p].waitq)>>)
    BY Zenon, <1>2, <2>1, TakeRecordFacts
  <2>3. PICK h : h = Head(pcb[p].waitq)
    BY Zenon
  <2>4. /\ h \in Range(pcb[p].waitq) /\ h \notin Range(Tail(pcb[p].waitq)) /\ IsInjective(Tail(pcb[p].waitq))
        /\ Range(Tail(pcb[p].waitq)) \subseteq Range(pcb[p].waitq)
    <3>1. PICK w : w = pcb[p].waitq
      BY Zenon
    <3>2. w \in Seq(Nat) /\ w # <<>> /\ IsInjective(w) /\ h = Head(w)
      BY Zenon, <1>q, <2>2, <2>3, <3>1
    <3>3. /\ h \in Range(w) /\ h \notin Range(Tail(w)) /\ IsInjective(Tail(w))
          /\ \A k \in Nat \ {h} : k \in Range(Tail(w)) <=> k \in Range(w)
          /\ Tail(w) \in Seq(Nat)
      BY Zenon, <3>2, TakeFacts
    <3>4. Range(Tail(w)) \subseteq Nat
      BY <3>3 DEF Range
    <3> QED
      BY Zenon, <3>1, <3>3, <3>4
  <2>5. \A x \in Pcbs : IsInjective(pcb'[x].waitq) /\ \A y \in Range(pcb'[x].waitq) : Left(x, y)'
    BY Zenon, <1>q, <1>l, <2>2, <2>4
  <2>6. /\ DOMAIN reaped' = DOMAIN reaped \cup {Len(reaped) + 1} /\ Len(reaped) + 1 \notin DOMAIN reaped
        /\ reaped'[Len(reaped) + 1] = <<pcb[p].was, h>>
        /\ \A i \in DOMAIN reaped : reaped'[i] = reaped[i] /\ reaped[i] \in Nat \X Nat
    BY <1>t, <2>2, <2>3
  <2>7. pcb[p].was # 0
    BY Zenon, <1>t, <2>1, <2>2 DEF SlotInv
  <2>8. ASSUME NEW i \in DOMAIN reaped PROVE reaped[i] # <<pcb[p].was, h>>
    <3>1. PICK x \in Pcbs : /\ pcb[x].was = reaped[i][1] /\ pcb[x].was # 0
                            /\ reaped[i][2] \notin Range(pcb[x].waitq)
      BY Zenon, <1>r DEF Returned
    <3>2. pcb[x].was = pcb[p].was => x = p
      BY Zenon, <1>t, <2>2, <3>1 DEF PidInv
    <3> QED
      BY <2>4, <3>1, <3>2
  <2>9. \A i, j \in DOMAIN reaped' : reaped'[i] = reaped'[j] => i = j
    BY Zenon, <1>r, <2>6, <2>8
  <2>10. ASSUME NEW a, NEW y, Returned(a, y) PROVE Returned(a, y)'
    <3>1. PICK x \in Pcbs : pcb[x].was = a /\ pcb[x].was # 0 /\ Left(x, y) /\ y \notin Range(pcb[x].waitq)
      BY Zenon, <2>10 DEF Returned
    <3>2. y \notin Range(pcb'[x].waitq)
      BY Zenon, <2>2, <2>4, <3>1
    <3> QED
      BY Zenon, <1>l, <1>w, <3>1, <3>2 DEF Returned
  <2>11. PICK a : a = pcb[p].was
    BY Zenon
  <2>12. Returned(a, h)'
    BY Zenon, <1>q, <1>l, <1>w, <2>2, <2>4, <2>7, <2>11 DEF Returned
  <2>13. ASSUME NEW i \in DOMAIN reaped' PROVE \E x, y : reaped'[i] = <<x, y>> /\ Returned(x, y)'
    <3>1. CASE i \in DOMAIN reaped
      <4>1. PICK x, y : reaped[i] = <<x, y>> /\ Returned(x, y)
        BY Zenon, <1>e, <3>1
      <4> QED
        BY Zenon, <2>6, <2>10, <3>1, <4>1
    <3>2. CASE i = Len(reaped) + 1
      BY Zenon, <2>6, <2>11, <2>12, <3>2
    <3> QED
      BY Zenon, <2>6, <3>1, <3>2
  <2> QED
    BY Zenon, <1>s, <2>5, <2>9, <2>13
<1>3. CASE /\ \A x \in Pcbs : pcb'[x].waitq = pcb[x].waitq \/ (pcb'[x].waitq = <<>> /\ pcb[x].was = 0)
           /\ reaped' = reaped
  <2>1. \A x \in Pcbs : IsInjective(pcb'[x].waitq) /\ \A y \in Range(pcb'[x].waitq) : Left(x, y)'
    <3>1. IsInjective(<<>>) /\ Range(<<>>) = {}
      BY DEF IsInjective, Range
    <3> QED
      BY Zenon, <1>q, <1>l, <1>3, <3>1
  <2>2. ASSUME NEW a, NEW y, Returned(a, y) PROVE Returned(a, y)'
    <3>1. PICK x \in Pcbs : pcb[x].was = a /\ pcb[x].was # 0 /\ Left(x, y) /\ y \notin Range(pcb[x].waitq)
      BY Zenon, <2>2 DEF Returned
    <3> QED
      BY Zenon, <1>l, <1>w, <1>3, <3>1 DEF Returned
  <2> QED
    BY Zenon, <1>r, <1>e, <1>s, <1>3, <2>1, <2>2
<1>4. CASE NewprocHash(t)
  <2>1. PICK c : c = loc[t].child
    BY Zenon
  <2>2. pcb[c].was = 0 /\ pcb'[c].waitq = <<>> /\ (\A x \in Pcbs \ {c} : pcb'[x] = pcb[x])
    BY Zenon, <1>4, <2>1, FreshFacts
  <2>3. reaped' = reaped
    BY Zenon, <1>4 DEF NewprocHash
  <2> QED
    BY Zenon, <1>3, <2>2, <2>3
<1>5. CASE pcb' = pcb /\ (Record(t) \/ TakeRecord(t))
  <2>1. reaped' = reaped
    <3>1. Record(t) => reaped' = reaped
      BY Zenon DEF Record
    <3>2. TakeRecord(t) => reaped' = reaped
      <4>1. PICK p : p = Pcb(t)
        BY Zenon
      <4>2. ASSUME TakeRecord(t), pcb[p].waitq # <<>> /\ pcb'[p].waitq = Tail(pcb[p].waitq) /\ p \in Pcbs
            PROVE  FALSE
        <5>1. PICK w : w = pcb[p].waitq
          BY Zenon
        <5>2. w \in Seq(Nat) /\ w # <<>>
          BY Zenon, <1>q, <4>2, <5>1
        <5>3. PICK v : v = Tail(w)
          BY Zenon
        <5>4. Len(v) = Len(w) - 1 /\ Len(w) \in Nat
          BY <5>2, <5>3
        <5>5. v = w
          BY Zenon, <1>5, <4>2, <5>1, <5>3
        <5> QED
          BY <5>4, <5>5
      <4> QED
        BY Zenon, <4>1, <4>2, TakeRecordFacts
    <3> QED
      BY Zenon, <1>5, <3>1, <3>2
  <2> QED
    BY Zenon, <1>3, <1>5, <2>1
<1>6. CASE ~Record(t) /\ ~TakeRecord(t) /\ ~NewprocHash(t)
  <2>1. \A x \in Pcbs : pcb'[x].waitq = pcb[x].waitq
    BY Zenon, <1>6, Frames DEF Run, KeepCounts, SameCount
  <2>2. reaped' = reaped
    BY Zenon, <1>6 DEF Run, CallFork, Pexit, Pwait, NewprocTake, Link, Start, SpawnFails, RecordWake,
         RecordUnlock, Kill, Unhash, LastWake, LastUnlock, FreeRecords, AnyChild, SleepTest,
         SleepStore, L4Rendezvous
  <2> QED
    BY Zenon, <1>3, <2>1, <2>2
<1> QED
  BY Zenon, <1>1, <1>2, <1>4, <1>5, <1>6

(* A process keeps its family unless fork links it just now. *)
LEMMA FamilyStays ==
  ASSUME IInv, NEW t \in Threads, CallFork(t) \/ Pexit(t) \/ Pwait(t) \/ Run(t),
         NEW c \in Pcbs, ~(Link(t) /\ c = loc[t].child)
  PROVE  /\ pcb'[c].parent = pcb[c].parent
         /\ pcb[c].parent # 0 => pcb'[c].parentpid = pcb[c].parentpid
         /\ pcb'[c].parentpid \in {0, pcb[c].parentpid}
<1>1. CASE Plain(t)
  BY Zenon, <1>1, Plains
<1>2. CASE NewprocTake(t) \/ Start(t)
  BY Zenon, <1>2, Frames DEF KeepIds, SameIds
<1>3. CASE NewprocHash(t)
  <2>1. PICK d : d = loc[t].child
    BY Zenon
  <2>2. pcb[c].parent # 0 => pcb[c].was # 0
    BY Zenon DEF IInv, FamilyInv
  <2> QED
    BY Zenon, <1>3, <2>1, <2>2, FreshFacts
<1>4. CASE Link(t)
  <2>1. PICK d, p : d = loc[t].child /\ p = Pcb(t)
    BY Zenon
  <2>2. Types /\ SlotInv
    BY Zenon DEF IInv
  <2>3. \A x \in Pcbs \ {d} : pcb'[x].parent = pcb[x].parent /\ pcb'[x].parentpid = pcb[x].parentpid
    BY Zenon, <1>4, <2>1, <2>2, LinkFacts
  <2> QED
    BY Zenon, <1>4, <2>1, <2>3
<1> QED
  BY Zenon, <1>1, <1>2, <1>3, <1>4, StepCases

(* Only fork brings a process to life. *)
LEMMA LivingNew ==
  ASSUME IInv, Types', NEW t \in Threads, CallFork(t) \/ Pexit(t) \/ Pwait(t) \/ Run(t),
         NEW c \in Pcbs, ~(Link(t) /\ c = loc[t].child), Living(c)'
  PROVE  Living(c)
<1>t. Types /\ ExitInv
  BY Zenon DEF IInv
<1>0. PICK m : m = <<c, 1>>
  BY Zenon
<1>1. m \in Threads
  BY Zenon, <1>0, ProcAssumption DEF Pcbs
<1>2. CASE pc'[m] \notin Leaving \cup {"none"} /\ (pc'[m] = "send" => loc'[m].cont \notin Leaving)
  <2>1. ExitInv'
    BY Zenon, ExitStep
  <2>2. At(m)' \notin Leaving \cup {"none"}
    BY Zenon, <1>1, <1>2, <2>1 DEF At, ExitInv, Leaving
  <2>3. CASE Start(t) /\ loc[t].child = c
    BY Zenon, <2>3 DEF Living, Start
  <2>4. CASE At(m) \notin Leaving \cup {"none"}
    BY Zenon, <1>0, <2>4 DEF At, Living, Leaving
  <2> QED
    BY Zenon, <1>0, <1>1, <2>2, <2>3, <2>4, AtStays
<1>3. CASE \E u \in Threads : pc'[u] \in Starting /\ loc'[u].child = c
  <2>1. PICK u \in Threads : pc'[u] \in Starting /\ loc'[u].child = c
    BY Zenon, <1>3
  <2>2. pc[u] \in Starting /\ loc[u].child = c
    <3>1. CASE Plain(t)
      BY Zenon, <2>1, <3>1, Calms DEF Calm, Making
    <3>2. CASE NewprocTake(t) \/ NewprocHash(t)
      BY Zenon, <1>t, <2>1, <3>2, Flow DEF Others, New, Linking, Starting
    <3>3. CASE Link(t)
      BY Zenon, <1>t, <2>1, <3>3, Flow DEF Others
    <3>4. CASE Start(t)
      BY Zenon, <1>t, <2>1, <3>4 DEF Start, Starting, Types
    <3> QED
      BY Zenon, <3>1, <3>2, <3>3, <3>4, StepCases
  <2> QED
    BY Zenon, <2>2 DEF Living, Starting
<1> QED
  BY Zenon, <1>0, <1>2, <1>3 DEF Living, Starting

Kids(p)     == {c \in Pcbs : pcb[c].parent = p}
PastKids(p) == {c \in Pcbs : pcb[c].parent = p /\ Past(c)}

(* All sets of processes are finite. *)
LEMMA FinitePcbs ==
  ASSUME NEW S \in SUBSET Pcbs
  PROVE  IsFiniteSet(S) /\ Cardinality(S) \in Nat /\ Cardinality(S) <= NProc
<1>1. IsFiniteSet(Pcbs) /\ Cardinality(Pcbs) = NProc
  <2>1. 1 <= NProc => NProc - 1 + 1 = NProc
    BY ProcAssumption
  <2> QED
    BY <2>1, ProcAssumption, FS_Interval DEF Pcbs
<1> QED
  BY Zenon, <1>1, FS_Subset, FS_CardinalityType

(* The children of a process at the two ends of a step. *)
LEMMA KidsGrow ==
  ASSUME IInv, Types', NEW t \in Threads, CallFork(t) \/ Pexit(t) \/ Pwait(t) \/ Run(t), NEW p \in Pcbs
  PROVE  /\ Kids(p) \subseteq Kids(p)' /\ PastKids(p) \subseteq PastKids(p)'
         /\ \A c \in Children(p)' : c \in Children(p) \/ (Link(t) /\ c = loc[t].child)
<1>1. ASSUME NEW c \in Pcbs, pcb[c].parent = p
      PROVE  pcb'[c].parent = p
  <2>1. Link(t) => pcb[loc[t].child].parent = 0
    BY Zenon DEF IInv, FamilyInv, Link, Linking
  <2>2. p # 0
    BY DEF Pcbs
  <2> QED
    BY Zenon, <1>1, <2>1, <2>2, FamilyStays
<1>2. Kids(p) \subseteq Kids(p)'
  BY Zenon, <1>1 DEF Kids
<1>3. PastKids(p) \subseteq PastKids(p)'
  BY Zenon, PastStays DEF PastKids
<1>4. ASSUME NEW c \in Children(p)', ~(Link(t) /\ c = loc[t].child)
      PROVE  c \in Children(p)
  <2>1. c \in Pcbs /\ pcb'[c].parent = p /\ pcb'[c].parentpid # 0 /\ Living(c)'
    BY Zenon, <1>4 DEF Children
  <2>2. p # 0
    BY DEF Pcbs
  <2>3. pcb[c].parent = p /\ pcb[c].parentpid # 0
    BY Zenon, <1>4, <2>1, <2>2, FamilyStays
  <2>4. Living(c)
    BY Zenon, <1>4, <2>1, LivingNew
  <2> QED
    BY Zenon, <2>1, <2>3, <2>4 DEF Children
<1> QED
  BY Zenon, <1>2, <1>3, <1>4

(* What the counts of one process say. *)
Counted(p) ==
  /\ pcb[p].pid # 0 => pcb[p].nchild >= Cardinality(Children(p))
  /\ pcb[p].nchild <= Cardinality(Kids(p))
  /\ -pcb[p].nchild <= Cardinality(PastKids(p))

(* Every slot is counted: ChildInv, one slot at a time. *)
LEMMA CountedAll == ChildInv <=> \A p \in Pcbs : Counted(p)
BY Zenon DEF ChildInv, Counted, NchildCovers, Kids, PastKids

(* nchild of p changes when it is made, when it forks, when a child leaves *)
(* its record.                                                             *)
LEMMA NchildFacts ==
  ASSUME IInv, NEW t \in Threads, CallFork(t) \/ Pexit(t) \/ Pwait(t) \/ Run(t),
         NEW p \in Pcbs
  PROVE  \/ NewprocHash(t) /\ p = loc[t].child
         \/ /\ Link(t) /\ p = Pcb(t) /\ ~loc[t].nowait
            /\ pcb'[p].nchild = pcb[p].nchild + 1 /\ pcb'[p].pid = pcb[p].pid
         \/ \E x \in Pcbs : RecordLeft(t, x, p) /\ pcb'[p].pid = pcb[p].pid
         \/ /\ pcb'[p].nchild = pcb[p].nchild /\ (pcb'[p].pid # 0 => pcb[p].pid # 0)
            /\ Link(t) => p # Pcb(t) \/ loc[t].nowait
<1>1. CASE NewprocHash(t) /\ p # loc[t].child
  <2>1. PICK c : c = loc[t].child
    BY Zenon
  <2>2. \A x \in Pcbs \ {c} : pcb'[x] = pcb[x]
    BY Zenon, <1>1, <2>1, FreshFacts
  <2>3. ~Link(t)
    BY Zenon, <1>1 DEF Link, NewprocHash
  <2> QED
    BY Zenon, <1>1, <2>1, <2>2, <2>3
<1>2. CASE Link(t)
  <2>1. PICK d, q : d = loc[t].child /\ q = Pcb(t)
    BY Zenon
  <2>2. Types /\ SlotInv
    BY Zenon DEF IInv
  <2>3. /\ pcb'[p].pid = pcb[p].pid /\ (p # q => pcb'[p].nchild = pcb[p].nchild)
        /\ pcb'[q].nchild = IF loc[t].nowait THEN pcb[q].nchild ELSE pcb[q].nchild + 1
    BY <1>2, <2>1, <2>2, LinkFacts
  <2> QED
    BY Zenon, <1>2, <2>1, <2>3
<1>3. CASE Record(t)
  <2>1. ~Link(t) /\ pcb'[p].pid = pcb[p].pid
    BY Zenon, <1>3, Frames DEF Link, Record, KeepIds, SameIds
  <2>2. CASE pcb' = pcb
    BY Zenon, <2>1, <2>2
  <2>3. ASSUME NEW x \in Pcbs, NEW q \in Pcbs, RecordLeft(t, x, q)
        PROVE  RecordLeft(t, x, p) \/ pcb'[p].nchild = pcb[p].nchild
    BY Zenon, <2>3 DEF RecordLeft
  <2> QED
    BY Zenon, <1>3, <2>1, <2>2, <2>3, RecordFacts
<1>4. CASE ~NewprocHash(t) /\ ~Link(t) /\ ~Record(t)
  <2>1. pcb'[p].nchild = pcb[p].nchild
    BY Zenon, <1>4, Frames DEF Run, KeepCounts, SameCount
  <2>2. pcb'[p].pid # 0 => pcb[p].pid # 0
    <3>1. CASE Plain(t)
      BY Zenon, <3>1, Plains
    <3>2. CASE NewprocTake(t) \/ Start(t)
      BY Zenon, <3>2, Frames DEF KeepIds, SameIds
    <3> QED
      BY Zenon, <1>4, <3>1, <3>2, StepCases
  <2> QED
    BY Zenon, <1>4, <2>1, <2>2
<1> QED
  BY Zenon, <1>1, <1>2, <1>3, <1>4

(* A step keeps the counts of a process. *)
LEMMA CountedStep ==
  ASSUME IInv, Types', NEW t \in Threads, CallFork(t) \/ Pexit(t) \/ Pwait(t) \/ Run(t), NEW p \in Pcbs
  PROVE  Counted(p)'
<1>t. pcb[p].nchild \in Int /\ pcb'[p].nchild \in Int /\ Counted(p)
  BY Zenon, CountedAll DEF IInv, Types, PcbRecs
<1>0. /\ Children(p) \subseteq Pcbs /\ Kids(p) \subseteq Pcbs /\ PastKids(p) \subseteq Pcbs
      /\ Children(p)' \subseteq Pcbs /\ Kids(p)' \subseteq Pcbs /\ PastKids(p)' \subseteq Pcbs
  BY Zenon DEF Children, Kids, PastKids
<1>1. PICK A, K, P, A1, K1, P1 : /\ A = Children(p) /\ K = Kids(p) /\ P = PastKids(p)
                                 /\ A1 = Children(p)' /\ K1 = Kids(p)' /\ P1 = PastKids(p)'
  BY Zenon
<1>2. /\ IsFiniteSet(A) /\ Cardinality(A) \in Nat /\ IsFiniteSet(K) /\ Cardinality(K) \in Nat
      /\ IsFiniteSet(P) /\ Cardinality(P) \in Nat /\ IsFiniteSet(A1) /\ Cardinality(A1) \in Nat
      /\ IsFiniteSet(K1) /\ Cardinality(K1) \in Nat /\ IsFiniteSet(P1) /\ Cardinality(P1) \in Nat
  BY Zenon, <1>0, <1>1, FinitePcbs
<1>3. /\ K \subseteq K1 /\ P \subseteq P1
      /\ \A c \in A1 : c \in A \/ (Link(t) /\ c = loc[t].child)
  BY Zenon, <1>1, KidsGrow
<1>4. Cardinality(K) <= Cardinality(K1) /\ Cardinality(P) <= Cardinality(P1)
  BY Zenon, <1>2, <1>3, FS_Subset
<1>5. /\ pcb[p].pid # 0 => pcb[p].nchild >= Cardinality(A)
      /\ pcb[p].nchild <= Cardinality(K) /\ -pcb[p].nchild <= Cardinality(P)
  BY Zenon, <1>t, <1>1 DEF Counted
<1>6. SUFFICES /\ pcb'[p].pid # 0 => pcb'[p].nchild >= Cardinality(A1)
               /\ pcb'[p].nchild <= Cardinality(K1) /\ -pcb'[p].nchild <= Cardinality(P1)
  BY Zenon, <1>1 DEF Counted
<1>7. CASE NewprocHash(t) /\ p = loc[t].child
  <2>1. pcb'[p].nchild = 0 /\ pcb[p].was = 0 /\ ~Link(t)
    <3>1. ~Link(t)
      BY Zenon, <1>7 DEF Link, NewprocHash
    <3> QED
      BY Zenon, <1>7, <3>1, FreshFacts
  <2>2. A = {}
    <3>1. \A c \in Pcbs : pcb[c].parent # 0 => pcb[pcb[c].parent].was # 0
      BY Zenon DEF IInv, FamilyInv
    <3>2. p # 0
      BY DEF Pcbs
    <3> QED
      BY Zenon, <1>1, <2>1, <3>1, <3>2 DEF Children
  <2>3. Cardinality(A1) = 0
    BY Zenon, <1>3, <2>1, <2>2, FS_EmptySet
  <2> QED
    BY <1>2, <2>1, <2>3
<1>8. CASE /\ Link(t) /\ p = Pcb(t) /\ ~loc[t].nowait
           /\ pcb'[p].nchild = pcb[p].nchild + 1 /\ pcb'[p].pid = pcb[p].pid
  <2>1. PICK d : d = loc[t].child
    BY Zenon
  <2>2. d \in Pcbs /\ pcb'[d].parent = p /\ pcb[d].parent = 0 /\ p # 0
    <3>1. Types /\ SlotInv /\ pcb[d].parent = 0
      BY Zenon, <1>8, <2>1 DEF IInv, FamilyInv, Link, Linking
    <3> QED
      BY <1>8, <2>1, <3>1, LinkFacts DEF Pcbs
  <2>3. d \in K1 /\ d \notin K
    BY Zenon, <1>1, <2>2 DEF Kids
  <2>4. Cardinality(K \cup {d}) = Cardinality(K) + 1 /\ Cardinality(K \cup {d}) <= Cardinality(K1)
    BY <1>2, <1>3, <2>3, FS_AddElement, FS_Subset
  <2>5. Cardinality(A1) <= Cardinality(A) + 1
    <3>1. A1 \subseteq A \cup {d}
      BY Zenon, <1>3, <2>1
    <3>2. IsFiniteSet(A \cup {d}) /\ Cardinality(A \cup {d}) \in {Cardinality(A), Cardinality(A) + 1}
      BY Zenon, <1>2, FS_AddElement
    <3>3. Cardinality(A1) <= Cardinality(A \cup {d})
      BY Zenon, <3>1, <3>2, FS_Subset
    <3> QED
      BY <1>2, <3>2, <3>3
  <2> QED
    BY <1>t, <1>2, <1>4, <1>5, <1>8, <2>4, <2>5
<1>9. ASSUME NEW x \in Pcbs, RecordLeft(t, x, p), pcb'[p].pid = pcb[p].pid
      PROVE  /\ pcb'[p].pid # 0 => pcb'[p].nchild >= Cardinality(A1)
             /\ pcb'[p].nchild <= Cardinality(K1) /\ -pcb'[p].nchild <= Cardinality(P1)
  <2>1. /\ x = Pcb(t) /\ pcb[x].parent = p /\ pc[t] = "ex_record" /\ pc'[t] = "ex_wake"
        /\ pcb[p].pid = pcb[x].parentpid /\ pcb'[p].nchild = pcb[p].nchild - 1
    BY Zenon, <1>9 DEF RecordLeft
  <2>2. t = <<x, 1>>
    BY Zenon, <2>1 DEF IInv, ExitInv, At
  <2>3. ~Link(t) /\ pcb'[x].parent = p
    <3>1. ~Link(t)
      BY Zenon, <2>1 DEF Link
    <3> QED
      BY Zenon, <2>1, <3>1, FamilyStays
  <2>4. x \in P1 /\ x \notin P
    <3>1. x \notin P
      BY Zenon, <1>1, <2>1, <2>2 DEF PastKids, Past, At, Leaving
    <3>2. pcb'[x].was # 0 /\ \A u \in Threads : pc'[u] \in Making => loc'[u].child # x
      <4>1. SlotInv'
        BY Zenon, SlotsStep
      <4> QED
        BY Zenon, <2>1, <4>1 DEF SlotInv
    <3>3. Past(x)'
      BY Zenon, <2>1, <2>2, <3>2 DEF Past, At, Leaving
    <3> QED
      BY Zenon, <1>1, <2>3, <3>1, <3>3 DEF PastKids
  <2>5. Cardinality(P \cup {x}) = Cardinality(P) + 1 /\ Cardinality(P \cup {x}) <= Cardinality(P1)
    BY <1>2, <1>3, <2>4, FS_AddElement, FS_Subset
  <2>6. pcb[p].pid # 0 => Cardinality(A1) <= Cardinality(A) - 1
    <3>1. HAVE pcb[p].pid # 0
    <3>2. x \in A
      BY Zenon, <1>1, <2>1, <2>2, <3>1 DEF Children, Living, Leaving
    <3>3. x \notin A1
      <4>1. ~Living(x)'
        <5>1. \A u \in Threads : pc'[u] \in Starting => loc'[u].child # x
          <6>1. SlotInv'
            BY Zenon, SlotsStep
          <6> QED
            BY Zenon, <2>1, <6>1 DEF SlotInv, Making
        <5> QED
          BY Zenon, <2>1, <2>2, <5>1 DEF Living, Starting, Leaving
      <4> QED
        BY Zenon, <1>1, <4>1 DEF Children
    <3>4. A1 \subseteq A \ {x}
      BY Zenon, <1>3, <2>3, <3>3
    <3>5. IsFiniteSet(A \ {x}) /\ Cardinality(A \ {x}) = Cardinality(A) - 1
      BY Zenon, <1>2, <3>2, FS_RemoveElement
    <3> QED
      BY <3>4, <3>5, FS_Subset
  <2> QED
    BY <1>t, <1>2, <1>4, <1>5, <1>9, <2>1, <2>5, <2>6
<1>10. CASE /\ pcb'[p].nchild = pcb[p].nchild /\ (pcb'[p].pid # 0 => pcb[p].pid # 0)
            /\ Link(t) => p # Pcb(t) \/ loc[t].nowait
  <2>1. A1 \subseteq A
    <3>1. SUFFICES ASSUME Link(t), NEW d, d = loc[t].child
                   PROVE  d \notin A1
      BY Zenon, <1>3
    <3>2. PICK q : q = Pcb(t)
      BY Zenon
    <3>3. Types /\ SlotInv
      BY Zenon DEF IInv
    <3>4. pcb'[d].parent = q /\ pcb'[d].parentpid = IF loc[t].nowait THEN 0 ELSE pcb[q].pid
      BY <3>1, <3>2, <3>3, LinkFacts
    <3> QED
      BY Zenon, <1>1, <1>10, <3>1, <3>2, <3>4 DEF Children
  <2>2. Cardinality(A1) <= Cardinality(A)
    BY Zenon, <1>2, <2>1, FS_Subset
  <2>3. pcb'[p].nchild = pcb[p].nchild /\ (pcb'[p].pid # 0 => pcb[p].pid # 0)
    BY Zenon, <1>10
  <2> QED
    BY <1>t, <1>2, <1>4, <1>5, <2>2, <2>3
<1> QED
  BY Zenon, <1>7, <1>8, <1>9, <1>10, NchildFacts

(* nchild covers the living children after every step. *)
LEMMA ChildStep ==
  ASSUME IInv, Types', NEW t \in Threads, CallFork(t) \/ Pexit(t) \/ Pwait(t) \/ Run(t)
  PROVE  ChildInv'
BY Zenon, CountedStep DEF ChildInv, Counted, NchildCovers, Kids, PastKids

(* No pid, and no recorded parent pid, is ahead of pidalloc. *)
LEMMA BoundStep ==
  ASSUME IInv, NEW t \in Threads, CallFork(t) \/ Pexit(t) \/ Pwait(t) \/ Run(t)
  PROVE  BoundInv'
<1>0. pidalloc \in Nat /\ NCore \in Nat /\ BoundInv
  BY ProcAssumption DEF IInv, Types
<1>1. pidalloc' \in {pidalloc, pidalloc + 1}
  BY Zenon DEF Run, CallFork, Pexit, Pwait, NewprocTake, NewprocHash, Link, Start, SpawnFails, Record,
         RecordWake, RecordUnlock, Kill, Unhash, LastWake, LastUnlock, FreeRecords, AnyChild,
         SleepTest, SleepStore, TakeRecord, L4Rendezvous
<1>2. ASSUME NEW p \in Pcbs PROVE pcb'[p].parentpid <= pidalloc'
  <2>1. pcb[p].parentpid \in Nat /\ pcb[p].parentpid <= pidalloc
    BY Zenon, <1>0 DEF IInv, Types, PcbRecs, BoundInv
  <2>2. CASE Link(t) /\ p = loc[t].child
    <3>1. PICK q : q = Pcb(t)
      BY Zenon
    <3>2. Types /\ SlotInv /\ PidInv
      BY Zenon DEF IInv
    <3>3. q \in Pcbs /\ pcb'[p].parentpid = IF loc[t].nowait THEN 0 ELSE pcb[q].pid
      BY <2>2, <3>1, <3>2, LinkFacts
    <3>4. pcb[q].pid \in {0, pcb[q].was} /\ pcb[q].was <= pidalloc
      BY Zenon, <3>2, <3>3 DEF PidInv
    <3>5. pcb[q].was \in Nat
      BY Zenon, <3>2, <3>3 DEF Types, PcbRecs
    <3> QED
      BY <1>0, <1>1, <3>3, <3>4, <3>5
  <2>3. CASE ~(Link(t) /\ p = loc[t].child)
    <3>1. pcb'[p].parentpid \in {0, pcb[p].parentpid}
      BY Zenon, <2>3, FamilyStays
    <3> QED
      BY <1>0, <1>1, <2>1, <3>1
  <2> QED
    BY Zenon, <2>2, <2>3
<1> QED
  BY <1>0, <1>1, <1>2 DEF BoundInv

(* The states of procinit0 satisfy it all. *)
LEMMA InitTypes == ASSUME Init PROVE Types
<1>1. free \in Seq(Pcbs)
  <2>1. NProc - NCore \in Nat /\ \A i \in 1..(NProc - NCore) : NCore + i \in Pcbs
    BY ProcAssumption DEF Pcbs
  <2> QED
    BY <2>1 DEF Init
<1>2. pcb \in [Pcbs -> PcbRecs]
  <2>1. \A p \in Pcbs : NewPcb(p) \in PcbRecs
    <3>1. \A p \in Pcbs : p \in Nat
      BY DEF Pcbs
    <3> QED
      BY Zenon, <3>1, NewFields
  <2>2. clear_pcb \in PcbRecs
    BY Zenon, NewFields DEF clear_pcb
  <2> QED
    BY Zenon, <2>1, <2>2 DEF Init
<1>3. ht \in [0..(HtSize - 1) -> Seq(Pcbs)]
  <2>1. \A h \in 1..NCore : <<h>> \in Seq(Pcbs)
    BY ProcAssumption DEF Pcbs
  <2> QED
    BY <2>1 DEF Init
<1>4. loc \in [Threads -> LocRecs]
  BY ProcAssumption DEF Init, NoLocals, LocRecs, Places
<1>5. pidalloc \in Nat /\ pc \in [Threads -> Places] /\ reaped \in Seq(Nat \X Nat)
  BY ProcAssumption DEF Init, Places
<1> QED
  BY Zenon, <1>1, <1>2, <1>3, <1>4, <1>5 DEF Types

(* At start NCore processes run, each with a pid of its own and no child. *)
LEMMA InitFacts ==
  ASSUME Init
  PROVE  /\ \A t \in Threads : Pcb(t) \in Pcbs /\ pc[t] \in {"user", "none"}
         /\ \A t \in Threads : pc[t] # "none" => Pcb(t) <= NCore
         /\ \A p \in Pcbs : p <= NCore => pcb[p].pid = p /\ pcb[p].was = p
         /\ \A p \in Pcbs : ~(p <= NCore) => pcb[p].pid = 0 /\ pcb[p].was = 0
         /\ \A p \in Pcbs : pcb[p].parent = 0 /\ pcb[p].parentpid = 0 /\ pcb[p].nchild = 0
         /\ \A p \in Pcbs : /\ pcb[p].nwait = 0 /\ pcb[p].waitq = <<>> /\ pcb[p].waitr = NoThread
                            /\ pcb[p].exl = 0 /\ pcb[p].moribund = FALSE
<1>1. ASSUME NEW p \in Pcbs
      PROVE  /\ p <= NCore => pcb[p].pid = p /\ pcb[p].was = p
             /\ ~(p <= NCore) => pcb[p].pid = 0 /\ pcb[p].was = 0
             /\ pcb[p].parent = 0 /\ pcb[p].parentpid = 0 /\ pcb[p].nchild = 0
             /\ pcb[p].nwait = 0 /\ pcb[p].waitq = <<>> /\ pcb[p].waitr = NoThread
             /\ pcb[p].exl = 0 /\ pcb[p].moribund = FALSE
  <2>1. PICK n \in Nat : pcb[p] = NewPcb(n) /\ (p <= NCore => n = p) /\ (~(p <= NCore) => n = 0)
    BY DEF Init, clear_pcb, Pcbs
  <2> QED
    BY Zenon, <2>1, NewFields
<1>2. \A t \in Threads : /\ Pcb(t) \in Pcbs /\ pc[t] \in {"user", "none"}
                         /\ pc[t] # "none" => Pcb(t) <= NCore
  BY Zenon, PcbIn DEF Init
<1> QED
  BY Zenon, <1>1, <1>2

(* The initial states satisfy the inductive invariant. *)
LEMMA InitInv == ASSUME Init PROVE IInv
<1>n. NCore \in Nat /\ NProc \in Nat /\ HtSize \in Nat /\ 0 < NCore /\ NCore <= NProc /\ NCore < HtSize /\ MaxWait \in Nat
  BY ProcAssumption
<1>p. /\ \A t \in Threads : Pcb(t) \in Pcbs /\ pc[t] \in {"user", "none"}
      /\ \A t \in Threads : pc[t] # "none" => Pcb(t) <= NCore
  BY Zenon, InitFacts
<1>c. /\ \A p \in Pcbs : p <= NCore => pcb[p].pid = p /\ pcb[p].was = p
      /\ \A p \in Pcbs : ~(p <= NCore) => pcb[p].pid = 0 /\ pcb[p].was = 0
  BY Zenon, InitFacts
<1>f. \A p \in Pcbs : pcb[p].parent = 0 /\ pcb[p].parentpid = 0 /\ pcb[p].nchild = 0
  BY Zenon, InitFacts
<1>w. \A p \in Pcbs : /\ pcb[p].nwait = 0 /\ pcb[p].waitq = <<>> /\ pcb[p].waitr = NoThread
                      /\ pcb[p].exl = 0 /\ pcb[p].moribund = FALSE
  BY Zenon, InitFacts
<1>i. \A p \in Pcbs : p \in Nat /\ p # 0
  BY DEF Pcbs
<1>a. \A t \in Threads : At(t) \in {"user", "none"}
  BY Zenon, <1>p DEF At
<1>1. SlotInv
  <2>1. IsInjective(free) /\ \A p \in Range(free) : p \in Pcbs /\ ~(p <= NCore)
    BY <1>n DEF Init, IsInjective, Range, Pcbs
  <2>2. \A p \in Range(free) : pcb[p].was = 0
    BY Zenon, <2>1, <1>c
  <2>3. \A t \in Threads : pc[t] \notin Making
    BY Zenon, <1>p DEF Making, New, Linking, Starting
  <2>4. \A t \in Threads : pc[t] # "none" => pcb[Pcb(t)].was # 0
    BY Zenon, <1>p, <1>c, <1>i
  <2> QED
    BY Zenon, <2>1, <2>2, <2>3, <2>4 DEF SlotInv, Making
<1>2. PidInv /\ BoundInv
  <2>1. pidalloc = NCore
    BY Zenon DEF Init
  <2>2. \A i \in 1..NCore : i \in Pcbs /\ pcb[i].was = i
    BY <1>n, <1>c DEF Pcbs
  <2> QED
    BY <1>n, <1>c, <1>f, <1>i, <2>1, <2>2 DEF PidInv, BoundInv
<1>3. FamilyInv
  BY Zenon, <1>p, <1>f DEF FamilyInv, Linking, Starting
<1>4. ExitInv
  BY Zenon, <1>p, <1>a, <1>c, <1>i DEF ExitInv, Leaving, Last, At
<1>5. ExlInv
  <2>1. \A t \in Threads : \A q \in Pcbs : ~Holds(t, q)
    BY Zenon, <1>a DEF Holds, Recording
  <2> QED
    BY <2>1, <1>w DEF ExlInv
<1>6. WaitInv
  BY Zenon, <1>p, <1>w DEF WaitInv, Waiting
<1>7. RecordInv
  BY <1>n, <1>p, <1>a, <1>w DEF RecordInv, Recording
<1>8. ReapInv
  <2>1. DOMAIN reaped = {} /\ \A p \in Pcbs : DOMAIN pcb[p].waitq = {}
    BY <1>w DEF Init
  <2> QED
    BY Zenon, <2>1 DEF ReapInv, IsInjective, Range
<1>9. ChildInv
  <2>1. ASSUME NEW p \in Pcbs PROVE Counted(p)
    <3>1. Children(p) = {}
      BY Zenon, <1>f, <1>i DEF Children
    <3>2. Cardinality(Kids(p)) \in Nat /\ Cardinality(PastKids(p)) \in Nat /\ Cardinality(Children(p)) = 0
      BY Zenon, <3>1, FinitePcbs, FS_EmptySet DEF Kids, PastKids
    <3> QED
      BY <1>f, <3>2 DEF Counted
  <2> QED
    BY Zenon, <2>1, CountedAll
<1>10. HashInv
  <2>1. \A n \in 1..NCore : n % HtSize = n
    BY <1>n
  <2>2. ASSUME NEW h \in 0..(HtSize - 1)
        PROVE  IsInjective(ht[h]) /\ \A q \in Range(ht[h]) : pcb[q].pid # 0 /\ pcb[q].pid % HtSize = h
    <3>1. CASE h \in 1..NCore
      <4>1. ht[h] = <<h>> /\ h \in Pcbs
        BY <1>n, <3>1 DEF Init, Pcbs
      <4>2. IsInjective(ht[h]) /\ Range(ht[h]) = {h}
        BY <4>1 DEF IsInjective, Range
      <4>3. pcb[h].pid = h /\ h # 0
        BY <1>n, <1>c, <3>1, <4>1
      <4> QED
        BY Zenon, <2>1, <3>1, <4>2, <4>3
    <3>2. CASE h \notin 1..NCore
      <4>1. DOMAIN ht[h] = {}
        BY <3>2 DEF Init
      <4> QED
        BY Zenon, <4>1 DEF IsInjective, Range
    <3> QED
      BY Zenon, <3>1, <3>2
  <2>3. ASSUME NEW q \in Pcbs, pcb[q].pid # 0
        PROVE  q \in Range(ht[pcb[q].pid % HtSize])
    <3>1. pcb[q].pid = q /\ q \in 1..NCore
      BY <1>n, <1>c, <1>i, <2>3
    <3>2. q % HtSize = q /\ q \in 0..(HtSize - 1)
      BY <1>n, <2>1, <3>1
    <3>3. ht[q] = <<q>>
      BY Zenon, <3>1, <3>2 DEF Init
    <3> QED
      BY <3>1, <3>2, <3>3 DEF Range
  <2> QED
    BY Zenon, <2>2, <2>3 DEF HashInv
<1> QED
  BY Zenon, <1>1, <1>2, <1>3, <1>4, <1>5, <1>6, <1>7, <1>8, <1>9, <1>10, InitTypes DEF IInv

(* IInv is inductive. *)
LEMMA IInvStep == ASSUME IInv, [Next]_vars PROVE IInv'
<1>t. Types'
  BY Zenon, TypesStep
<1>1. CASE UNCHANGED vars
  <2>1. /\ free' = free /\ pcb' = pcb /\ ht' = ht /\ pidalloc' = pidalloc /\ pc' = pc
        /\ loc' = loc /\ reaped' = reaped
    BY Zenon, <1>1 DEF vars
  <2>2. SlotInv' /\ PidInv' /\ FamilyInv'
    BY Zenon, <2>1 DEF IInv, SlotInv, PidInv, FamilyInv
  <2>3. ExitInv' /\ ExlInv'
    <3>1. ExitInv'
      BY Zenon, <2>1 DEF IInv, ExitInv, At
    <3>2. ExlInv'
      <4>1. \A u \in Threads, q \in Pcbs : Holds(u, q)' <=> Holds(u, q)
        BY Zenon, <2>1 DEF Holds, At
      <4>2. ASSUME NEW q \in Pcbs
            PROVE  /\ pcb[q].exl = 1 <=> \E u \in Threads : Holds(u, q)
                   /\ \A u, v \in Threads : Holds(u, q) /\ Holds(v, q) => u = v
        BY Zenon DEF IInv, ExlInv
      <4> QED
        BY Zenon, <2>1, <4>1, <4>2 DEF ExlInv
    <3> QED
      BY Zenon, <3>1, <3>2
  <2>4. WaitInv' /\ RecordInv'
    BY Zenon, <2>1 DEF IInv, WaitInv, RecordInv, Holds, At
  <2>5. ReapInv'
    <3>1. \A p, x : Left(p, x)' <=> Left(p, x)
      BY Zenon, <2>1 DEF Left, Past, At
    <3>2. \A x, y : Returned(x, y) => Returned(x, y)'
      BY Zenon, <2>1, <3>1 DEF Returned
    <3>3. ReapInv /\ reaped \in Seq(Nat \X Nat)
      BY Zenon DEF IInv, Types
    <3>4. \A i \in DOMAIN reaped : Returned(reaped[i][1], reaped[i][2])
      BY Zenon, <3>3 DEF ReapInv, Returned
    <3>5. \A i \in DOMAIN reaped' : \E x, y : reaped'[i] = <<x, y>> /\ Returned(x, y)'
      BY <2>1, <3>2, <3>3, <3>4
    <3>6. /\ \A p \in Pcbs : IsInjective(pcb'[p].waitq) /\ \A x \in Range(pcb'[p].waitq) : Left(p, x)'
          /\ \A i, j \in DOMAIN reaped' : reaped'[i] = reaped'[j] => i = j
      BY Zenon, <2>1, <3>1, <3>3 DEF ReapInv
    <3> QED
      BY <3>5, <3>6 DEF ReapInv, Returned
  <2>6. BoundInv' /\ HashInv'
    BY Zenon, <2>1 DEF IInv, BoundInv, HashInv
  <2>7. ChildInv'
    BY Zenon, <2>1 DEF IInv, ChildInv, NchildCovers, Children, Living, Past, At
  <2> QED
    BY Zenon, <1>t, <2>2, <2>3, <2>4, <2>5, <2>6, <2>7 DEF IInv
<1>2. ASSUME NEW t \in Threads, CallFork(t) \/ Pexit(t) \/ Pwait(t) \/ Run(t)
      PROVE  IInv'
  BY Zenon, <1>t, <1>2, SlotsStep, ExitStep, ExlStep, WaitStep, RecordStep, ReapStep, ChildStep, BoundStep,
     HashStep DEF IInv
<1> QED
  BY Zenon, <1>1, <1>2 DEF Next

(* The inductive invariant holds in every reachable state. *)
LEMMA Always == Spec => []IInv
BY InitInv, IInvStep, PTL DEF Spec

-----------------------------------------------------------------------------
(* The pids given out are not more than the slots: each slot gets one.     *)
LEMMA PidBound == ASSUME Types, PidInv PROVE pidalloc <= NProc
<1> DEFINE f == [i \in 1..pidalloc |-> CHOOSE p \in Pcbs : pcb[p].was = i]
<1>1. \A i \in 1..pidalloc : f[i] \in Pcbs /\ pcb[f[i]].was = i
  BY Zenon DEF PidInv
<1> HIDE DEF f
<1>2. f \in Injection(1..pidalloc, Pcbs)
  <2>1. f \in [1..pidalloc -> Pcbs]
    BY Zenon, <1>1 DEF f
  <2> QED
    BY <1>1, <2>1 DEF Injection, IsInjective
<1>3. IsFiniteSet(Pcbs) /\ Cardinality(Pcbs) <= NProc /\ Cardinality(Pcbs) \in Nat
  BY Zenon, FinitePcbs
<1>4. Cardinality(1..pidalloc) <= Cardinality(Pcbs)
  BY Zenon, <1>2, <1>3, FS_Injection
<1>5. Cardinality(1..pidalloc) = pidalloc /\ pidalloc \in Nat
  <2>1. pidalloc \in Nat
    BY Zenon DEF Types
  <2> QED
    BY <2>1, FS_Interval
<1> QED
  BY <1>3, <1>4, <1>5, ProcAssumption

(* The proof's types and the bound on pids give the type invariant TLC checks. *)
LEMMA TypesOK == ASSUME IInv PROVE TypeOK
<1>t. Types /\ PidInv /\ BoundInv /\ RecordInv
  BY Zenon DEF IInv
<1>1. pidalloc \in NCore..NProc /\ pidalloc \in Nat
  BY <1>t, PidBound, ProcAssumption DEF BoundInv, Types
<1>2. ASSUME NEW p \in Pcbs
      PROVE  /\ {pcb[p].pid, pcb[p].was, pcb[p].parentpid} \subseteq 0..pidalloc
             /\ pcb[p].parent \in 0..NProc
             /\ pcb[p].nchild \in (-NProc)..NProc /\ pcb[p].nwait \in 0..MaxWait
             /\ pcb[p].waitr \in Threads \cup {NoThread}
             /\ pcb[p].exl \in {0, 1} /\ pcb[p].qwaitr \in BOOLEAN
  <2>1. /\ pcb[p].was \in Nat /\ pcb[p].parentpid \in Nat /\ pcb[p].nchild \in Int /\ pcb[p].nwait \in Nat
        /\ pcb[p].parent \in 0..NProc /\ pcb[p].waitr \in Threads \cup {NoThread}
        /\ pcb[p].exl \in {0, 1} /\ pcb[p].qwaitr \in BOOLEAN
    BY Zenon, <1>t DEF Types, PcbRecs
  <2>2. /\ pcb[p].pid \in {0, pcb[p].was} /\ pcb[p].was <= pidalloc /\ pcb[p].parentpid <= pidalloc
        /\ pcb[p].nwait <= MaxWait
    BY Zenon, <1>t DEF PidInv, BoundInv, RecordInv
  <2>3. {pcb[p].pid, pcb[p].was, pcb[p].parentpid} \subseteq 0..pidalloc
    BY <1>1, <2>1, <2>2
  <2>4. pcb[p].nwait \in 0..MaxWait
    BY <2>1, <2>2, ProcAssumption
  <2>5. pcb[p].nchild \in (-NProc)..NProc
    <3>1. Counted(p)
      BY Zenon, CountedAll DEF IInv
    <3>2. /\ Cardinality(Kids(p)) \in Nat /\ Cardinality(Kids(p)) <= NProc
          /\ Cardinality(PastKids(p)) \in Nat /\ Cardinality(PastKids(p)) <= NProc
      BY Zenon, FinitePcbs DEF Kids, PastKids
    <3> QED
      BY <2>1, <3>1, <3>2, ProcAssumption DEF Counted
  <2> QED
    BY Zenon, <2>1, <2>3, <2>4, <2>5
<1> QED
  BY Zenon, <1>t, <1>1, <1>2 DEF TypeOK, Types

(* procindex finds every living process, and finds nothing else. *)
LEMMA HashFinds == ASSUME IInv PROVE HashExact
<1>t. Types /\ PidInv /\ HashInv /\ ht \in [0..(HtSize - 1) -> Seq(Pcbs)]
  BY Zenon DEF IInv, Types
<1>1. ASSUME NEW p \in Pcbs, pcb[p].pid # 0 PROVE procindex(pcb[p].pid) = p
  <2>1. PICK n, h : n = pcb[p].pid /\ h = n % HtSize
    BY Zenon
  <2>2. n \in Nat /\ h \in 0..(HtSize - 1) /\ n # 0
    BY Zenon, <1>t, <1>1, <2>1, ChainOf DEF Types, PcbRecs
  <2>3. PICK chain : chain = ht[h]
    BY Zenon
  <2>4. chain \in Seq(Pcbs) /\ IsInjective(chain) /\ p \in Range(chain)
    BY Zenon, <1>t, <1>1, <2>1, <2>2, <2>3 DEF HashInv
  <2>5. PICK k \in DOMAIN chain : chain[k] = p
    BY Zenon, <2>4 DEF Range
  <2>6. \A i \in DOMAIN chain : chain[i] \in Pcbs
    BY <2>4
  <2>7. {i \in DOMAIN chain : pcb[chain[i]].pid = n} = {k}
    <3>1. ASSUME NEW i \in DOMAIN chain, pcb[chain[i]].pid = n PROVE i = k
      <4>1. chain[i] = p
        BY <1>t, <2>1, <2>2, <2>6, <3>1 DEF PidInv
      <4> QED
        BY Zenon, <2>4, <2>5, <4>1 DEF IsInjective
    <3> QED
      BY Zenon, <2>1, <2>5, <3>1
  <2>8. k \in Nat
    BY <2>4, <2>5
  <2> DEFINE hit == {i \in DOMAIN chain : pcb[chain[i]].pid = n}
  <2>9. (CHOOSE i \in hit : \A j \in hit : i <= j) = k
    BY <2>7, <2>8
  <2>10. procindex(n) = chain[CHOOSE i \in hit : \A j \in hit : i <= j]
    BY ZenonT(30), <2>1, <2>3, <2>7 DEF procindex
  <2> HIDE DEF hit
  <2> QED
    BY Zenon, <2>1, <2>5, <2>9, <2>10
<1>2. ASSUME NEW h \in DOMAIN ht, NEW i \in DOMAIN ht[h] PROVE pcb[ht[h][i]].pid # 0
  <2>1. h \in 0..(HtSize - 1) /\ ht[h][i] \in Range(ht[h])
    BY Zenon, <1>t DEF Range
  <2> QED
    BY Zenon, <1>t, <2>1 DEF HashInv
<1> QED
  BY Zenon, <1>1, <1>2 DEF HashExact

(* What fork, spawn, exit and wait keep about processes, however many there*)
(* are: nchild never counts less than the living children, so pwait says   *)
(* "no children" only to a process that has none; nwait counts the wait    *)
(* records; procindex finds exactly the processes with a pid.              *)
THEOREM CountsAndTable == Spec => []ProcInv
<1>1. IInv => ProcInv
  <2> SUFFICES ASSUME IInv PROVE ProcInv
    BY Zenon
  <2>1. NchildCovers /\ NwaitExact
    BY Zenon DEF IInv, ChildInv, RecordInv, NwaitExact
  <2> QED
    BY Zenon, <2>1, TypesOK, HashFinds DEF ProcInv
<1> QED
  BY <1>1, Always, PTL

(* pwait returns every child at most once, only to the process that made   *)
(* it, and only when it has exited.                                        *)
THEOREM EachReapedOnce == Spec => []ReapedRightly
<1>1. IInv => ReapedRightly
  <2> SUFFICES ASSUME IInv PROVE ReapedRightly
    BY Zenon
  <2>t. ReapInv /\ ExitInv
    BY Zenon DEF IInv
  <2>1. ASSUME NEW i \in DOMAIN reaped
        PROVE  \E c \in Pcbs : /\ pcb[c].was = reaped[i][2] /\ pcb[c].parent # 0
                               /\ pcb[pcb[c].parent].was = reaped[i][1] /\ ~Living(c)
    <3>1. PICK p \in Pcbs : pcb[p].was = reaped[i][1] /\ Left(p, reaped[i][2])
      BY Zenon, <2>t DEF ReapInv
    <3>2. PICK c \in Pcbs : pcb[c].was = reaped[i][2] /\ pcb[c].parent = p /\ Past(c)
      BY Zenon, <3>1 DEF Left
    <3>3. ~Living(c)
      <4>1. PICK m : m = <<c, 1>>
        BY Zenon
      <4>2. m \in Threads
        BY Zenon, <4>1, ProcAssumption DEF Pcbs
      <4>3. /\ pc[m] = "send" => loc[m].cont \in Leaving
            /\ pc[m] # "send" => pc[m] \in Leaving \cup {"none"}
        BY Zenon, <2>t, <3>2, <4>1, <4>2 DEF Past, At, ExitInv, Leaving
      <4>4. \A u \in Threads : pc[u] \in Starting => loc[u].child # c
        BY Zenon, <3>2 DEF Past, Making
      <4> QED
        BY Zenon, <4>1, <4>3, <4>4 DEF Living, Starting
    <3>4. p # 0
      BY DEF Pcbs
    <3> QED
      BY Zenon, <3>1, <3>2, <3>3, <3>4
  <2>2. \A i, j \in DOMAIN reaped : reaped[i] = reaped[j] => i = j
    BY Zenon, <2>t DEF ReapInv
  <2> QED
    BY Zenon, <2>1, <2>2 DEF ReapedRightly
<1> QED
  BY <1>1, Always, PTL

(* pwait does not come back from sleep to an empty list of records, unless *)
(* its process is exiting.                                                 *)
THEOREM SleepFindsRecord == Spec => []NoNilref
<1>1. IInv => NoNilref
  BY Zenon DEF IInv, RecordInv, NoNilref
<1> QED
  BY <1>1, Always, PTL

(* wakeup in pexit names a thread that is in its L4_Wait: no exit is held  *)
(* up in L4_Send with the exl of the parent in its hands.                  *)
THEOREM ExitSendsMeet == Spec => []SendsMeet
<1>1. IInv => SendsMeet
  BY Zenon DEF IInv, WaitInv, SendsMeet
<1> QED
  BY <1>1, Always, PTL
=============================================================================
