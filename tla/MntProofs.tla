----------------------------- MODULE MntProofs ------------------------------
(***************************************************************************)
(* Proofs about the mount driver, for any finite set of threads and any    *)
(* number of tags that is not smaller: the headers, tags and the queue of  *)
(* the connection are exact for any assignment of threads to processes;    *)
(* the gate lets one reader in and wakeups meet sleepers until a write     *)
(* error opens the gate another thread of the process holds; and until     *)
(* then, or until a bad message, every RPC gets its own reply.             *)
(***************************************************************************)
EXTENDS Mnt, ListLemmas, FiniteSetTheorems

(* Every set of numbers that is not empty has a least one.  (The library's *)
(* induction theorems have an operator as parameter; this follows from its *)
(* theorem that the subsets of a finite set are well-founded.)             *)
LEMMA NatMin ==
  ASSUME NEW T \in SUBSET Nat, T # {}
  PROVE  \E x \in T : \A y \in T : x <= y
<1>1. PICK n \in T : TRUE
  BY Zenon
<1> DEFINE B == {k \in T : k <= n}
           F == {0..k : k \in B}
<1>2. IsFiniteSet(0..n)
  BY FS_Interval
<1>3. F \in SUBSET (SUBSET (0..n)) /\ F # {}
  BY <1>1
<1>4. PICK m \in F : \A y \in F : ~(<<y, m>> \in StrictSubsetOrdering(0..n))
  BY Zenon, <1>2, <1>3, FS_StrictSubsetOrderingWellFounded, WFMin, FS_FiniteSubsetsOfFinite
<1>5. PICK x \in B : m = 0..x
  OBVIOUS
<1>6. ASSUME NEW y \in B, y < x PROVE FALSE
  <2>1. 0..y \in F /\ 0..y \subseteq 0..x /\ 0..y # 0..x
    <3>1. x \in 0..x /\ x \notin 0..y
      BY <1>6
    <3> QED
      BY <3>1, <1>6
  <2> QED
    BY Zenon, <1>3, <1>4, <1>5, <2>1 DEF StrictSubsetOrdering
<1> QED
  BY <1>6

Reqs == (Threads \X (1..MaxRpc)) \cup {None}
Msgs == [tag : 0..NTag, req : Reqs]
Hdrs == [done : BOOLEAN, p : Threads \cup {NoThread}, request : Reqs, reply : Msgs]
Locs == [r : 0..NTag, q : 0..NTag, cur : Nat, whom : Threads \cup {NoThread}, err : BOOLEAN]
Rips == {ProcOf[u] : u \in Threads} \cup {NoProc}

(* The types of the variables, with those of a thread's locals. *)
LEMMA Typed ==
  ASSUME IInv
  PROVE  /\ rpcfree \in Seq(Tags) /\ exist \subseteq Tags /\ queue \in Seq(Tags)
         /\ hdr \in [Tags -> Hdrs] /\ loc \in [Threads -> Locs] /\ pc \in [Threads -> Places]
         /\ srv \subseteq Msgs /\ wire \in Seq(Msgs) /\ rip \in Rips
         /\ mlock \in BOOLEAN /\ hungup \in BOOLEAN /\ garbled \in BOOLEAN /\ clash \in BOOLEAN
         /\ \A t \in Threads : Busy(t) => loc[t].r \in Tags /\ Mine(t) \in Hdrs
BY Zenon DEF IInv, RpcInv, TypeOK, LocOK, Reqs, Msgs, Rips, Hdrs, Locs, TagsUnique, Mine

LEMMA NoReplyIn == NoReply \in Msgs /\ None \in Reqs
<1>1. 0 \in 0..NTag
  BY MntAssumption
<1> QED
  BY Zenon, <1>1 DEF NoReply, Msgs, Reqs

(* A step that moves no header keeps the facts about where they are, if it *)
(* leaves the RPCs that wait for a reply as they are.                      *)
LEMMA PlainKeeps ==
  ASSUME IInv, UNCHANGED <<rpcfree, exist, queue>>,
         \A u \in Threads : /\ loc'[u].r = loc[u].r
                            /\ Busy(u)' <=> Busy(u)
                            /\ Queued(u)' <=> Queued(u)
  PROVE  TagsUnique' /\ QueueExact' /\ NoneLost'
<1>1. TagsUnique' /\ NoneLost'
  BY Zenon DEF IInv, RpcInv, TagsUnique, NoneLost
<1>2. {loc'[t].r : t \in {u \in Threads : Queued(u)'}} = {loc[t].r : t \in {u \in Threads : Queued(u)}}
  BY Zenon
<1>3. QueueExact'
  BY Zenon, <1>2 DEF IInv, RpcInv, QueueExact
<1> QED
  BY Zenon, <1>1, <1>3

(* A step of t, which goes on to p with locals l; a thread that sleeps may *)
(* be awakened by it.                                                      *)
Moves(t, p, l) ==
  /\ p \in Places /\ l \in Locs /\ l.r = loc[t].r
  /\ pc[t] \notin {"out", "queue", "free"} /\ p \notin {"out", "queue"}
  /\ Fits(p, l, Mine(t).done)
  /\ loc' = [loc EXCEPT ![t] = l]
  /\ \/ pc' = [pc EXCEPT ![t] = p]
     \/ \E u \in Threads : u # t /\ pc[u] = "sleep" /\ pc' = [pc EXCEPT ![t] = p, ![u] = "check"]

(* What such a step does to each thread. *)
LEMMA MovesFacts ==
  ASSUME IInv, NEW t \in Threads, NEW p, NEW l, Moves(t, p, l)
  PROVE  /\ loc' \in [Threads -> Locs] /\ loc'[t] = l
         /\ pc' \in [Threads -> Places] /\ pc'[t] = p
         /\ \A u \in Threads : loc'[u].r = loc[u].r
         /\ \A u \in Threads \ {t} : loc'[u] = loc[u]
         /\ \A u \in Threads \ {t} : pc'[u] = pc[u] \/ (pc[u] = "sleep" /\ pc'[u] = "check")
<1>t. /\ pc \in [Threads -> Places] /\ loc \in [Threads -> Locs] /\ "check" \in Places
      /\ p \in Places /\ l \in Locs
  BY Zenon, Typed DEF Places, Moves
<1>1. loc' = [loc EXCEPT ![t] = l] /\ l.r = loc[t].r
  BY Zenon DEF Moves
<1>2. \/ pc' = [pc EXCEPT ![t] = p]
      \/ \E u \in Threads : u # t /\ pc[u] = "sleep" /\ pc' = [pc EXCEPT ![t] = p, ![u] = "check"]
  BY Zenon DEF Moves
<1>3. /\ loc' \in [Threads -> Locs] /\ loc'[t] = l
      /\ \A u \in Threads : loc'[u].r = loc[u].r
      /\ \A u \in Threads \ {t} : loc'[u] = loc[u]
  BY Zenon, <1>t, <1>1
<1>4. /\ pc' \in [Threads -> Places] /\ pc'[t] = p
      /\ \A u \in Threads \ {t} : pc'[u] = pc[u] \/ (pc[u] = "sleep" /\ pc'[u] = "check")
  <2>1. CASE pc' = [pc EXCEPT ![t] = p]
    BY Zenon, <2>1, <1>t
  <2>2. CASE pc' # [pc EXCEPT ![t] = p]
    <3>1. PICK v \in Threads : v # t /\ pc[v] = "sleep" /\ pc' = [pc EXCEPT ![t] = p, ![v] = "check"]
      BY Zenon, <1>2, <2>2
    <3>2. pc' \in [Threads -> Places] /\ pc'[t] = p
      BY Zenon, <3>1, <1>t
    <3>3. ASSUME NEW u \in Threads \ {t} PROVE pc'[u] = IF u = v THEN "check" ELSE pc[u]
      BY Zenon, <3>1, <1>t
    <3> QED
      BY Zenon, <3>1, <3>2, <3>3
  <2> QED
    BY Zenon, <2>1, <2>2
<1> QED
  BY Zenon, <1>3, <1>4

(* Such a step keeps the invariant when it moves no header and leaves      *)
(* done alone.                                                             *)
LEMMA PlainStep ==
  ASSUME IInv, UNCHANGED <<rpcfree, exist, queue, nrpc, hungup>>,
         hdr' \in [Tags -> Hdrs], \A h \in Tags : hdr'[h].done = hdr[h].done,
         srv' \subseteq Msgs, wire' \in Seq(Msgs), rip' \in Rips, mlock' \in BOOLEAN,
         garbled' \in BOOLEAN, clash' \in BOOLEAN,
         NEW t \in Threads, \E p, l : Moves(t, p, l)
  PROVE  IInv'
<1>p. PICK p, l : Moves(t, p, l)
  BY Zenon
<1>f. Fits(p, l, Mine(t).done) /\ pc[t] \notin {"out", "queue", "free"} /\ p \notin {"out", "queue"}
  BY Zenon, <1>p DEF Moves
<1>m. /\ loc' \in [Threads -> Locs] /\ loc'[t] = l
      /\ pc' \in [Threads -> Places] /\ pc'[t] = p
      /\ \A u \in Threads : loc'[u].r = loc[u].r
      /\ \A u \in Threads \ {t} : loc'[u] = loc[u]
      /\ \A u \in Threads \ {t} : pc'[u] = pc[u] \/ (pc[u] = "sleep" /\ pc'[u] = "check")
  BY Zenon, <1>p, MovesFacts
<1>b. \A u \in Threads : Busy(u)' <=> Busy(u)
  BY Zenon, <1>f, <1>m DEF Busy
<1>d. \A u \in Threads : Busy(u) => Mine(u).done' = Mine(u).done
  BY Zenon, <1>m, Typed DEF Mine
<1>1. LocalsFit'
  <2>1. Fits(pc[t], loc[t], Mine(t).done)'
    BY Zenon, <1>f, <1>m, <1>d DEF Busy
  <2>2. ASSUME NEW u \in Threads \ {t} PROVE Fits(pc[u], loc[u], Mine(u).done)'
    <3>0. Fits(pc[u], loc[u], Mine(u).done)
      BY Zenon DEF IInv, LocalsFit
    <3>1. CASE ~Busy(u)
      BY Zenon, <3>1, <1>m DEF Busy, Fits, Gating
    <3>2. CASE Busy(u) /\ pc'[u] = pc[u]
      BY Zenon, <3>0, <3>2, <1>m, <1>d
    <3>3. CASE pc'[u] = "check"
      BY Zenon, <3>3 DEF Fits, Gating
    <3> QED
      BY Zenon, <3>1, <3>2, <3>3, <1>m
  <2> QED
    BY Zenon, <2>1, <2>2 DEF LocalsFit
<1>2. ASSUME NEW u \in Threads PROVE Queued(u)' <=> Queued(u)
  <2>1. CASE u = t
    BY Zenon, <2>1, <1>f, <1>m, <1>d DEF Queued, Busy, Fits
  <2>2. CASE u # t
    BY Zenon, <2>2, <1>m, <1>d DEF Queued, Busy
  <2> QED
    BY Zenon, <2>1, <2>2
<1>3. TagsUnique' /\ QueueExact' /\ NoneLost'
  BY Zenon, <1>m, <1>b, <1>2, PlainKeeps
<1>4. TypeOK' /\ LocOK'
  BY Zenon, <1>m DEF IInv, RpcInv, TypeOK, LocOK, Hdrs, Locs, Reqs, Msgs, Rips
<1> QED
  BY Zenon, <1>1, <1>3, <1>4 DEF IInv, RpcInv

-----------------------------------------------------------------------------
(* Which place a step of mountio, sleep, wakeup or mntgate leads to, and   *)
(* with which locals.                                                      *)
LEMMA AllMove ==
  ASSUME IInv, NEW t \in Threads,
         \/ MountioWrite(t) \/ Gate(t) \/ SleepTest(t) \/ SleepStore(t) \/ Check(t)
         \/ mntrpcread(t) \/ WakeLoad(t) \/ WakeClear(t) \/ GateOpen(t) \/ GateScan(t)
         \/ GateClear(t) \/ GateShut(t) \/ L4Rendezvous(t) \/ Error(t)
  PROVE  \E p, l : Moves(t, p, l)
<1> USE DEF Goto, Step
<1>t. /\ pc \in [Threads -> Places] /\ loc \in [Threads -> Locs] /\ hdr \in [Tags -> Hdrs]
      /\ queue \in Seq(Tags) /\ wire \in Seq(Msgs)
      /\ loc[t] \in Locs /\ loc = [loc EXCEPT ![t] = loc[t]]
      /\ Fits(pc[t], loc[t], Mine(t).done)
  BY Zenon, Typed DEF IInv, LocalsFit
<1>1. CASE MountioWrite(t) \/ Gate(t) \/ SleepTest(t) \/ SleepStore(t) \/ Check(t)
  <2>1. PICK p \in {"failed", "gate", "read", "test1", "test2", "store", "sleep", "check", "free"} :
          /\ pc[t] \in {"write", "gate", "test1", "test2", "store", "check"}
          /\ pc' = [pc EXCEPT ![t] = p] /\ loc' = loc
          /\ p = "free" => Mine(t).done
    BY Zenon, <1>1 DEF MountioWrite, Gate, SleepTest, SleepStore, Check
  <2>2. p \in Places /\ Fits(p, loc[t], Mine(t).done)
    BY Zenon, <2>1 DEF Places, Fits, Gating
  <2>3. Moves(t, p, loc[t])
    BY Zenon, <1>t, <2>1, <2>2 DEF Moves
  <2> QED
    BY Zenon, <2>3
<1>2. CASE WakeClear(t) \/ GateClear(t)
  <2>1. PICK p \in {"send", "gatesend"} :
          /\ pc[t] = IF p = "send" THEN "wkclear" ELSE "gateclear"
          /\ pc' = [pc EXCEPT ![t] = p] /\ loc' = loc
    BY Zenon, <1>2 DEF WakeClear, GateClear
  <2>2. p \in Places /\ Fits(p, loc[t], Mine(t).done)
    BY Zenon, <2>1, <1>t DEF Places, Fits, Gating
  <2>3. Moves(t, p, loc[t])
    BY Zenon, <1>t, <2>1, <2>2 DEF Moves
  <2> QED
    BY Zenon, <2>3
<1>3. CASE GateShut(t)
  <2> DEFINE l == [loc[t] EXCEPT !.cur = 0]
             p == IF loc[t].err THEN "qrm" ELSE "free"
  <2>1. /\ l \in Locs /\ l.r = loc[t].r /\ l.err = loc[t].err /\ loc' = [loc EXCEPT ![t] = l]
        /\ pc[t] = "gateshut" /\ pc' = [pc EXCEPT ![t] = p]
    <3>1. 0 \in Nat
      OBVIOUS
    <3> QED
      BY Zenon, <3>1, <1>3, <1>t DEF Locs, GateShut
  <2> HIDE DEF l
  <2>2. Fits(p, l, Mine(t).done) /\ p \in Places /\ p \notin {"out", "queue"}
    BY Zenon, <1>t, <2>1 DEF Fits, Gating, Places
  <2>3. Moves(t, p, l)
    BY Zenon, <2>1, <2>2 DEF Moves
  <2> QED
    BY Zenon, <2>3
<1>9. CASE L4Rendezvous(t)
  <2> DEFINE l == [loc[t] EXCEPT !.whom = NoThread, !.q = 0]
             p == IF pc[t] = "send" THEN "read" ELSE "gateshut"
             w == loc[t].whom
  <2>0. /\ w \in Threads /\ w # t /\ pc[w] = "sleep" /\ pc[t] \in {"send", "gatesend"}
        /\ pc' = [pc EXCEPT ![t] = p, ![w] = "check"]
    BY Zenon, <1>9, <1>t DEF L4Rendezvous, Fits
  <2>1. l \in Locs /\ l.r = loc[t].r /\ l.err = loc[t].err /\ loc' = [loc EXCEPT ![t] = l]
    <3>1. 0 \in 0..NTag
      BY MntAssumption
    <3> QED
      BY Zenon, <3>1, <1>9, <1>t DEF Locs, L4Rendezvous
  <2> HIDE DEF l
  <2>2. Fits(p, l, Mine(t).done) /\ p \in Places /\ p \notin {"out", "queue"}
    BY Zenon, <1>t, <2>0, <2>1 DEF Fits, Gating, Places
  <2>3. Moves(t, p, l)
    BY Zenon, <2>0, <2>1, <2>2 DEF Moves
  <2> QED
    BY Zenon, <2>3
<1>4. CASE mntrpcread(t)
  <2>1. PICK p \in {"mux", "error", "gateopen"} :
          /\ pc[t] = "read" /\ pc' = [pc EXCEPT ![t] = p] /\ loc' = loc
          /\ p = "gateopen" => Mine(t).done
    BY Zenon, <1>4 DEF mntrpcread, ReadReply, ReadFails, ReadDone
  <2>2. p \in Places /\ Fits(p, loc[t], Mine(t).done)
    BY Zenon, <2>1 DEF Places, Fits, Gating
  <2>3. Moves(t, p, loc[t])
    BY Zenon, <1>t, <2>1, <2>2 DEF Moves
  <2> QED
    BY Zenon, <2>3
<1>5. CASE WakeLoad(t)
  <2>1. pc[t] = "muxwake" /\ loc[t].q \in Tags /\ hdr[loc[t].q].p \in Threads \cup {NoThread}
    BY Zenon, <1>5, <1>t DEF WakeLoad, Hdrs, Fits
  <2>2. CASE loc' = [loc EXCEPT ![t].q = 0] /\ pc' = [pc EXCEPT ![t] = "read"]
    <3> DEFINE l == [loc[t] EXCEPT !.q = 0]
    <3>0. 0 \in 0..NTag
      BY MntAssumption
    <3>1. l \in Locs /\ l.r = loc[t].r /\ loc' = [loc EXCEPT ![t] = l]
      BY Zenon, <3>0, <1>t, <2>2 DEF Locs
    <3> HIDE DEF l
    <3>2. Fits("read", l, Mine(t).done) /\ "read" \in Places
      BY Zenon DEF Fits, Gating, Places
    <3>3. Moves(t, "read", l)
      BY Zenon, <2>1, <2>2, <3>1, <3>2 DEF Moves
    <3> QED
      BY Zenon, <3>3
  <2>3. CASE /\ hdr[loc[t].q].p # NoThread /\ pc' = [pc EXCEPT ![t] = "wkclear"]
             /\ loc' = [loc EXCEPT ![t].whom = hdr[loc[t].q].p]
    <3> DEFINE w == hdr[loc[t].q].p
               l == [loc[t] EXCEPT !.whom = w]
    <3>1. w \in Threads /\ loc' = [loc EXCEPT ![t].whom = w]
      BY Zenon, <2>1, <2>3
    <3> HIDE DEF w
    <3>2. /\ l \in Locs /\ l.r = loc[t].r /\ l.q = loc[t].q /\ l.whom = w
          /\ loc' = [loc EXCEPT ![t] = l]
      BY Zenon, <3>1, <1>t DEF Locs
    <3> HIDE DEF l
    <3>3. Fits("wkclear", l, Mine(t).done) /\ "wkclear" \in Places
      BY Zenon, <2>1, <3>1, <3>2 DEF Fits, Gating, Places
    <3>4. Moves(t, "wkclear", l)
      BY Zenon, <2>1, <2>3, <3>2, <3>3 DEF Moves
    <3> QED
      BY Zenon, <3>4
  <2> QED
    BY Zenon, <1>5, <2>2, <2>3 DEF WakeLoad
<1>6. CASE GateOpen(t)
  <2> DEFINE l == [loc[t] EXCEPT !.cur = 1]
  <2>1. /\ l \in Locs /\ l.r = loc[t].r /\ l.cur = 1 /\ l.err = loc[t].err
        /\ loc' = [loc EXCEPT ![t] = l]
    BY Zenon, <1>6, <1>t DEF Locs, GateOpen
  <2> HIDE DEF l
  <2>2. Fits("gatescan", l, Mine(t).done) /\ "gatescan" \in Places
    BY <1>6, <1>t, <2>1 DEF Fits, Gating, Places, GateOpen
  <2>3. Moves(t, "gatescan", l)
    BY Zenon, <1>6, <2>1, <2>2 DEF Moves, GateOpen
  <2> QED
    BY Zenon, <2>3
<1>7. CASE GateScan(t)
  <2> DEFINE i == loc[t].cur
  <2>1. pc[t] = "gatescan" /\ i \in Nat /\ i # 0
    BY Zenon, <1>7, <1>t DEF GateScan, Locs, Fits
  <2>2. CASE i > Len(queue)
    <3>1. Fits("gateshut", loc[t], Mine(t).done) /\ "gateshut" \in Places
      BY Zenon, <1>t, <2>1 DEF Fits, Gating, Places
    <3>2. Moves(t, "gateshut", loc[t])
      BY Zenon, <1>7, <1>t, <2>1, <2>2, <3>1 DEF Moves, GateScan
    <3> QED
      BY Zenon, <3>2
  <2>3. CASE ~(i > Len(queue)) /\ (hdr[queue[i]].done \/ hdr[queue[i]].p = NoThread)
    <3> DEFINE l == [loc[t] EXCEPT !.cur = i + 1]
    <3>a. loc' = [loc EXCEPT ![t].cur = i + 1]
      BY Zenon, <1>7, <2>3 DEF GateScan
    <3>b. i + 1 \in Nat /\ i + 1 # 0
      <4>1. \A n \in Nat : n + 1 \in Nat /\ n + 1 # 0
        OBVIOUS
      <4> QED
        BY Zenon, <2>1, <4>1
    <3>0. loc' = [loc EXCEPT ![t].cur = i + 1] /\ i + 1 \in Nat /\ i + 1 # 0
      BY Zenon, <3>a, <3>b
    <3>1. /\ l \in Locs /\ l.r = loc[t].r /\ l.cur # 0 /\ l.err = loc[t].err
          /\ loc' = [loc EXCEPT ![t] = l]
      BY Zenon, <1>t, <3>0 DEF Locs
    <3> HIDE DEF l
    <3>2. Fits("gatescan", l, Mine(t).done) /\ "gatescan" \in Places
      BY Zenon, <1>t, <2>1, <3>1 DEF Fits, Gating, Places
    <3>3. pc' = [pc EXCEPT ![t] = "gatescan"]
      BY Zenon, <1>7, <1>t, <2>1, <2>3 DEF GateScan
    <3>4. Moves(t, "gatescan", l)
      BY Zenon, <2>1, <3>1, <3>2, <3>3 DEF Moves
    <3> QED
      BY Zenon, <3>4
  <2>4. CASE ~(i > Len(queue)) /\ ~(hdr[queue[i]].done \/ hdr[queue[i]].p = NoThread)
    <3> DEFINE w == hdr[queue[i]].p
               l == [loc[t] EXCEPT !.whom = w, !.q = queue[i]]
    <3>0. queue[i] \in Tags
      BY <1>t, <2>1, <2>4
    <3>1. w \in Threads
      BY Zenon, <1>t, <3>0, <2>4 DEF Hdrs
    <3>2. loc' = [loc EXCEPT ![t].whom = w, ![t].q = queue[i]] /\ pc' = [pc EXCEPT ![t] = "gateclear"]
      BY Zenon, <1>7, <2>4 DEF GateScan
    <3> HIDE DEF w
    <3>3. queue[i] \in 0..NTag
      BY <3>0 DEF Tags
    <3>4. /\ l \in Locs /\ l.r = loc[t].r /\ l.q = queue[i] /\ l.whom = w
          /\ l.err = loc[t].err
          /\ loc' = [loc EXCEPT ![t] = l]
      BY Zenon, <3>1, <3>2, <3>3, <1>t DEF Locs
    <3> HIDE DEF l
    <3>5. Fits("gateclear", l, Mine(t).done) /\ "gateclear" \in Places
      BY Zenon, <1>t, <2>1, <3>0, <3>1, <3>4 DEF Fits, Gating, Places
    <3>6. Moves(t, "gateclear", l)
      BY Zenon, <2>1, <3>2, <3>4, <3>5 DEF Moves
    <3> QED
      BY Zenon, <3>6
  <2> QED
    BY Zenon, <2>2, <2>3, <2>4
<1>8. CASE Error(t)
  <2> DEFINE l == [loc[t] EXCEPT !.err = TRUE]
  <2>1. l \in Locs /\ l.r = loc[t].r /\ l.err /\ loc' = [loc EXCEPT ![t] = l]
    BY Zenon, <1>8, <1>t DEF Locs, Error
  <2> HIDE DEF l
  <2>2. PICK p \in {"gateopen", "qrm"} : pc' = [pc EXCEPT ![t] = p]
    BY Zenon, <1>8 DEF Error
  <2>3. Fits(p, l, Mine(t).done) /\ p \in Places
    BY Zenon, <2>1 DEF Fits, Gating, Places
  <2>4. Moves(t, p, l)
    BY Zenon, <1>8, <2>1, <2>2, <2>3 DEF Moves, Error
  <2> QED
    BY Zenon, <2>4
<1> QED
  BY Zenon, <1>1, <1>2, <1>3, <1>4, <1>5, <1>6, <1>7, <1>8, <1>9

(* None of these steps moves a header or changes done. *)
LEMMA MoveStep ==
  ASSUME IInv, NEW t \in Threads,
         \/ MountioWrite(t) \/ Gate(t) \/ SleepTest(t) \/ SleepStore(t) \/ Check(t)
         \/ mntrpcread(t) \/ WakeLoad(t) \/ WakeClear(t) \/ GateOpen(t) \/ GateScan(t)
         \/ GateClear(t) \/ GateShut(t) \/ L4Rendezvous(t) \/ Error(t)
  PROVE  IInv'
<1> USE DEF Goto, Step, mnt, conn
<1>t. /\ hdr \in [Tags -> Hdrs] /\ loc[t] \in Locs
      /\ srv \subseteq Msgs /\ wire \in Seq(Msgs) /\ rip \in Rips /\ mlock \in BOOLEAN
      /\ Fits(pc[t], loc[t], Mine(t).done) /\ garbled \in BOOLEAN /\ clash \in BOOLEAN
      /\ Busy(t) => loc[t].r \in Tags /\ Mine(t) \in Hdrs
  BY Zenon, Typed DEF IInv, LocalsFit
<1>m. \E p, l : Moves(t, p, l)
  BY Zenon, AllMove
<1>1. UNCHANGED <<rpcfree, exist, queue, nrpc, hungup>>
  BY Zenon DEF MountioWrite, Gate, SleepTest, SleepStore, Check, mntrpcread, ReadReply, ReadFails, ReadDone, WakeLoad, WakeClear,
         GateOpen, GateScan, GateClear, GateShut, L4Rendezvous, Error
<1>2. rip' \in Rips /\ mlock' \in BOOLEAN
  BY Zenon, <1>t DEF MountioWrite, Gate, SleepTest, SleepStore, Check, mntrpcread, ReadReply, ReadFails, ReadDone, WakeLoad, WakeClear,
         GateOpen, GateScan, GateClear, GateShut, L4Rendezvous, Error, Rips
<1>5. garbled' \in BOOLEAN /\ clash' \in BOOLEAN
  <2>1. Error(t) => garbled' \in BOOLEAN /\ clash' \in BOOLEAN
    BY Zenon, <1>t DEF Error
  <2>2. mntrpcread(t) => garbled' \in BOOLEAN /\ clash' \in BOOLEAN
    BY Zenon, <1>t DEF mntrpcread, ReadReply, ReadFails, ReadDone, hist
  <2> QED
    BY Zenon, <2>1, <2>2, <1>t DEF MountioWrite, Gate, SleepTest, SleepStore, Check, WakeLoad,
         WakeClear, GateOpen, GateScan, GateClear, GateShut, L4Rendezvous, hist
<1>3. srv' \subseteq Msgs /\ wire' \in Seq(Msgs)
  <2>1. CASE MountioWrite(t)
    <3>1. loc[t].r \in Tags /\ Mine(t).request \in Reqs
      BY Zenon, <2>1, <1>t DEF MountioWrite, Busy, Hdrs
    <3>3. loc[t].r \in 0..NTag
      BY <3>1 DEF Tags
    <3>2. [tag |-> loc[t].r, req |-> Mine(t).request] \in Msgs
      BY Zenon, <3>1, <3>3 DEF Msgs
    <3> QED
      BY Zenon, <2>1, <3>2, <1>t DEF MountioWrite
  <2>2. CASE ~MountioWrite(t)
    <3>1. /\ srv' = srv
          /\ \/ wire' = wire
             \/ wire # <<>> /\ wire' = Tail(wire)
             \/ \E n \in 1..Len(wire) : wire' = SubSeq(wire, n + 1, Len(wire))
      BY Zenon, <2>2 DEF Gate, SleepTest, SleepStore, Check, mntrpcread, ReadReply, ReadFails, ReadDone, WakeLoad, WakeClear,
           GateOpen, GateScan, GateClear, GateShut, L4Rendezvous, Error
    <3>2. wire # <<>> => Tail(wire) \in Seq(Msgs)
      BY Zenon, <1>t, TailIn
    <3>3. \A n \in 1..Len(wire) : SubSeq(wire, n + 1, Len(wire)) \in Seq(Msgs)
      BY <1>t
    <3> QED
      BY Zenon, <3>1, <3>2, <3>3, <1>t
  <2> QED
    BY Zenon, <2>1, <2>2
<1>4. hdr' \in [Tags -> Hdrs] /\ \A h \in Tags : hdr'[h].done = hdr[h].done
  <2>1. CASE hdr' = hdr
    BY Zenon, <2>1, <1>t
  <2>2. CASE SleepStore(t) \/ WakeClear(t) \/ GateClear(t)
    <3>1. PICK h \in Tags, v \in Threads \cup {NoThread} : hdr' = [hdr EXCEPT ![h].p = v]
      BY Zenon, <2>2, <1>t DEF SleepStore, WakeClear, GateClear, Fits, Busy
    <3> QED
      BY Zenon, <3>1, <1>t DEF Hdrs
  <2>3. CASE mntrpcread(t) /\ hdr' # hdr
    <3>1. PICK m : /\ wire # <<>> /\ hdr' = [hdr EXCEPT ![loc[t].r].reply = m] /\ pc[t] = "read"
                   /\ m = Head(wire) \/ \E h \in Tags : m = [tag |-> h, req |-> None]
      BY Zenon, <2>3 DEF mntrpcread, ReadReply, ReadFails, ReadDone
    <3>2. Head(wire) \in Msgs
      BY <3>1, <1>t
    <3>3. \A h \in Tags : [tag |-> h, req |-> None] \in Msgs
      <4>1. \A h \in Tags : h \in 0..NTag
        BY DEF Tags
      <4> QED
        BY Zenon, <4>1, NoReplyIn DEF Msgs
    <3>4. loc[t].r \in Tags /\ m \in Msgs
      BY Zenon, <3>1, <3>2, <3>3, <1>t DEF Busy
    <3> QED
      BY Zenon, <3>1, <3>4, <1>t DEF Hdrs
  <2> QED
    BY Zenon, <2>1, <2>2, <2>3 DEF MountioWrite, Gate, SleepTest, Check, WakeLoad, GateOpen, GateScan,
         GateShut, L4Rendezvous, Error
<1> QED
  BY Zenon, <1>m, <1>1, <1>2, <1>3, <1>4, <1>5, PlainStep

(* The server's steps touch only the connection. *)
LEMMA ServerStep == ASSUME IInv, Answer \/ Hangup PROVE IInv'
<1>1. UNCHANGED <<mnt, pc, loc, nrpc, garbled, clash>>
  BY Zenon DEF Answer, Hangup, hist
<1>2. \A u \in Threads : (Busy(u)' <=> Busy(u)) /\ (Queued(u)' <=> Queued(u))
  BY Zenon, <1>1 DEF mnt, Busy, Queued, Mine
<1>3. TagsUnique' /\ QueueExact' /\ NoneLost'
  BY Zenon, <1>1, <1>2, PlainKeeps DEF mnt
<1>4. LocOK' /\ LocalsFit'
  BY Zenon, <1>1 DEF mnt, IInv, LocOK, LocalsFit, Mine
<1>5. srv' \subseteq Msgs /\ wire' \in Seq(Msgs) /\ hungup' \in BOOLEAN
  <2>1. srv \subseteq Msgs /\ wire \in Seq(Msgs) /\ hungup \in BOOLEAN
    BY Zenon, Typed
  <2>2. \A q \in Msgs : Append(wire, q) \in Seq(Msgs)
    BY <2>1
  <2> QED
    BY Zenon, <2>1, <2>2 DEF Answer, Hangup
<1>6. TypeOK'
  BY Zenon, <1>1, <1>5 DEF mnt, IInv, RpcInv, TypeOK, Msgs, Reqs
<1> QED
  BY Zenon, <1>3, <1>4, <1>6 DEF IInv, RpcInv

-----------------------------------------------------------------------------
(* The tag mask has a free tag for a thread that starts an RPC: the others *)
(* have one tag each at most.                                              *)
LEMMA FreeTag ==
  ASSUME IInv, NEW t \in Threads, ~Busy(t), rpcfree = <<>>
  PROVE  LET new == CHOOSE h \in Tags \ exist : \A g \in Tags \ exist : h <= g
         IN  new \in Tags \ exist
<1>1. Tags \ exist # {}
  <2> SUFFICES ASSUME Tags \ exist = {} PROVE FALSE
    BY Zenon
  <2> DEFINE f == [h \in Tags |-> CHOOSE u \in Threads : Busy(u) /\ loc[u].r = h]
  <2>1. ASSUME NEW h \in Tags PROVE \E u \in Threads : Busy(u) /\ loc[u].r = h
    BY DEF IInv, NoneLost, Range
  <2>2. ASSUME NEW h \in Tags PROVE f[h] \in Threads \ {t} /\ loc[f[h]].r = h
    BY Zenon, <2>1
  <2> HIDE DEF f
  <2>3. f \in [Tags -> Threads \ {t}]
    BY Zenon, <2>2 DEF f
  <2>4. IsFiniteSet(Tags) /\ Cardinality(Tags) = NTag
    BY FS_Interval, MntAssumption DEF Tags
  <2>5. IsFiniteSet(Threads \ {t}) /\ Cardinality(Threads \ {t}) = Cardinality(Threads) - 1
    BY Zenon, FS_RemoveElement, MntAssumption
  <2>6. Cardinality(Threads \ {t}) < Cardinality(Tags)
    BY <2>4, <2>5, FS_CardinalityType, MntAssumption
  <2>7. \E g, h \in Tags : g # h /\ f[g] = f[h]
    BY <2>3, <2>4, <2>5, <2>6, FS_PigeonHole
  <2> QED
    BY Zenon, <2>2, <2>7
<1>2. Tags \ exist \in SUBSET Nat
  BY MntAssumption DEF Tags
<1>3. \E h \in Tags \ exist : \A g \in Tags \ exist : h <= g
  BY Zenon, <1>1, <1>2, NatMin
<1> QED
  BY Zenon, <1>3

(* mntralloc gives t a header no other RPC has. *)
LEMMA AllocStep ==
  ASSUME IInv, NEW t \in Threads, mntralloc(t)
  PROVE  IInv'
<1> USE DEF Goto, Step, conn
<1> DEFINE new == IF rpcfree # <<>> THEN Head(rpcfree)
                  ELSE CHOOSE h \in Tags \ exist : \A g \in Tags \ exist : h <= g
           l == [NoLocals EXCEPT !.r = new]
<1>a. /\ pc[t] = "out" /\ pc' = [pc EXCEPT ![t] = "queue"]
      /\ nrpc < MaxRpc /\ nrpc' = nrpc + 1
      /\ exist' = exist \cup {new}
      /\ rpcfree' = IF rpcfree # <<>> THEN Tail(rpcfree) ELSE <<>>
      /\ hdr' = [hdr EXCEPT ![new].done = FALSE, ![new].request = <<t, nrpc'>>, ![new].reply = NoReply]
      /\ loc' = [loc EXCEPT ![t] = l]
      /\ UNCHANGED <<queue, rip, mlock, srv, wire, hungup, garbled, clash>>
  BY Zenon DEF mntralloc, hist
<1>t. /\ rpcfree \in Seq(Tags) /\ exist \subseteq Tags /\ queue \in Seq(Tags)
      /\ hdr \in [Tags -> Hdrs] /\ loc \in [Threads -> Locs] /\ pc \in [Threads -> Places]
      /\ IsInjective(rpcfree) /\ Range(rpcfree) \subseteq exist
  BY Zenon, Typed DEF IInv, RpcInv, TagsUnique
<1>1. /\ new \in Tags /\ rpcfree' \in Seq(Tags) /\ Len(rpcfree') <= MaxFree
      /\ IsInjective(rpcfree') /\ Range(rpcfree') \subseteq exist
      /\ new \notin Range(rpcfree')
      /\ \A h \in exist \ Range(rpcfree) : h # new /\ h \notin Range(rpcfree')
      /\ \A h \in Range(rpcfree) : h = new \/ h \in Range(rpcfree')
  <2>l. Len(rpcfree) \in Nat /\ Len(rpcfree) <= MaxFree /\ MaxFree \in Nat
    BY <1>t, MntAssumption DEF IInv, RpcInv, TypeOK
  <2>1. CASE rpcfree # <<>>
    <3>1. /\ Head(rpcfree) \in Tags /\ Tail(rpcfree) \in Seq(Tags)
          /\ IsInjective(Tail(rpcfree))
          /\ Head(rpcfree) \in Range(rpcfree) /\ Head(rpcfree) \notin Range(Tail(rpcfree))
          /\ \A k \in Tags \ {Head(rpcfree)} : k \in Range(Tail(rpcfree)) <=> k \in Range(rpcfree)
      BY Zenon, <2>1, <1>t, TakeFacts
    <3>2. Len(Tail(rpcfree)) <= MaxFree
      BY <2>1, <2>l, <1>t
    <3>3. new = Head(rpcfree) /\ rpcfree' = Tail(rpcfree)
      BY Zenon, <2>1, <1>a
    <3>4. Range(rpcfree') \subseteq Tags
      BY <3>1, <3>3 DEF Range
    <3> HIDE DEF new
    <3> QED
      BY Zenon, <3>1, <3>2, <3>3, <3>4, <1>t
  <2>2. CASE rpcfree = <<>>
    <3>1. new \in Tags \ exist
      BY Zenon, <2>2, <1>a, FreeTag DEF Busy
    <3>2. rpcfree' = <<>>
      BY Zenon, <2>2, <1>a
    <3> HIDE DEF new
    <3>3. Range(<<>>) = {} /\ IsInjective(<<>>) /\ <<>> \in Seq(Tags) /\ Len(<<>>) = 0
      BY DEF Range, IsInjective
    <3> QED
      BY Zenon, <3>1, <3>2, <3>3, <2>l, <2>2
  <2> QED
    BY Zenon, <2>1, <2>2
<1> HIDE DEF new
<1>2. /\ l \in Locs /\ l.r = new
  <2>1. new \in 0..NTag
    BY <1>1 DEF Tags
  <2>2. NoLocals \in Locs
    BY MntAssumption DEF NoLocals, Locs
  <2> QED
    BY Zenon, <2>1, <2>2 DEF Locs
<1> HIDE DEF l
<1>3. /\ loc' \in [Threads -> Locs] /\ loc'[t] = l /\ pc' \in [Threads -> Places] /\ pc'[t] = "queue"
      /\ \A u \in Threads \ {t} : loc'[u] = loc[u] /\ pc'[u] = pc[u]
  BY Zenon, <1>a, <1>t, <1>2 DEF Places
<1>n. nrpc' \in 1..MaxRpc /\ nrpc' \in 0..MaxRpc
  BY <1>a, MntAssumption DEF IInv, RpcInv, TypeOK
<1>4. /\ hdr' \in [Tags -> Hdrs] /\ ~hdr'[new].done
      /\ \A h \in Tags \ {new} : hdr'[h] = hdr[h]
  <2>1. <<t, nrpc'>> \in Reqs /\ NoReply \in Msgs
    BY Zenon, <1>n, NoReplyIn DEF Reqs
  <2>2. PICK rq \in Reqs, no \in Msgs :
          hdr' = [hdr EXCEPT ![new].done = FALSE, ![new].request = rq, ![new].reply = no]
    BY Zenon, <1>a, <2>1
  <2>3. hdr' \in [Tags -> Hdrs] /\ hdr'[new].done = FALSE
    BY ZenonT(30), <2>2, <1>t, <1>1 DEF Hdrs
  <2>4. \A h \in Tags \ {new} : hdr'[h] = hdr[h]
    BY Zenon, <2>2, <1>t, <1>1
  <2> QED
    BY Zenon, <2>3, <2>4
<1>5. \A u \in Threads \ {t} : Busy(u) => loc[u].r # new /\ loc[u].r \in Tags
  BY Zenon, <1>1, Typed DEF IInv, RpcInv, TagsUnique
<1>6. TagsUnique'
  BY <1>a, <1>1, <1>2, <1>3, <1>5 DEF TagsUnique, IInv, RpcInv, Busy
<1>7. NoneLost'
  BY <1>a, <1>1, <1>2, <1>3 DEF NoneLost, IInv, Busy
<1>8. \A u \in Threads \ {t} : (Busy(u) => Mine(u)' = Mine(u)) /\ (Queued(u)' <=> Queued(u))
  BY <1>3, <1>4, <1>5 DEF Mine, Queued, Busy
<1>9. QueueExact'
  <2>1. ~Queued(t) /\ ~Queued(t)'
    BY Zenon, <1>a, <1>3 DEF Queued
  <2>2. {loc'[w].r : w \in {u \in Threads : Queued(u)'}} = {loc[w].r : w \in {u \in Threads : Queued(u)}}
    BY Zenon, <2>1, <1>8, <1>3
  <2> QED
    BY Zenon, <1>a, <2>2 DEF QueueExact, IInv, RpcInv
<1>10. LocalsFit'
  <2>1. Fits(pc[t], loc[t], Mine(t).done)'
    BY Zenon, <1>2, <1>3, <1>4 DEF Fits, Gating, Mine
  <2>2. ASSUME NEW u \in Threads \ {t} PROVE Fits(pc[u], loc[u], Mine(u).done)'
    <3>1. Fits(pc[u], loc[u], Mine(u).done)
      BY Zenon DEF IInv, LocalsFit
    <3>2. CASE Busy(u)
      BY Zenon, <3>1, <3>2, <1>3, <1>8
    <3>3. CASE ~Busy(u)
      BY Zenon, <3>3, <1>3 DEF Busy, Fits, Gating
    <3> QED
      BY Zenon, <3>2, <3>3
  <2> QED
    BY Zenon, <2>1, <2>2 DEF LocalsFit
<1>11. TypeOK' /\ LocOK'
  BY Zenon, <1>a, <1>t, <1>1, <1>3, <1>4, <1>n DEF IInv, RpcInv, TypeOK, LocOK, Locs, Hdrs, Reqs, Msgs
<1> QED
  BY Zenon, <1>6, <1>7, <1>9, <1>10, <1>11 DEF IInv, RpcInv

-----------------------------------------------------------------------------
(* mntfree: only t's own header moves. *)
LEMMA FreeStep ==
  ASSUME IInv, NEW t \in Threads, mntfree(t)
  PROVE  IInv'
<1> USE DEF Goto, Step, conn
<1> DEFINE r == loc[t].r
<1>a. /\ pc[t] = "free" /\ pc' = [pc EXCEPT ![t] = "out"] /\ loc' = [loc EXCEPT ![t] = NoLocals]
      /\ UNCHANGED <<queue, rip, mlock, srv, wire, hungup, nrpc, garbled, clash>>
  BY Zenon DEF mntfree, hist
<1>b. \/ /\ exist' = exist \ {r} /\ rpcfree' = rpcfree /\ hdr' = [hdr EXCEPT ![r] = NoHdr]
      \/ /\ exist' = exist /\ rpcfree' = <<r>> \o rpcfree /\ ~(Len(rpcfree) >= MaxFree)
         /\ hdr' = [hdr EXCEPT ![r].request = None, ![r].reply = NoReply]
  BY Zenon DEF mntfree
<1>t. /\ rpcfree \in Seq(Tags) /\ exist \subseteq Tags /\ queue \in Seq(Tags)
      /\ hdr \in [Tags -> Hdrs] /\ loc \in [Threads -> Locs] /\ pc \in [Threads -> Places]
      /\ IsInjective(rpcfree) /\ Range(rpcfree) \subseteq exist
      /\ r \in Tags /\ r \in exist \ Range(rpcfree)
  BY Zenon, <1>a, Typed DEF IInv, RpcInv, TagsUnique, Busy
<1>o. \A u \in Threads \ {t} : Busy(u) => loc[u].r # r /\ loc[u].r \in exist \ Range(rpcfree)
  BY Zenon, <1>a DEF IInv, RpcInv, TagsUnique, Busy
<1> HIDE DEF r
<1>1. NoLocals \in Locs
  BY MntAssumption DEF NoLocals, Locs
<1>2. /\ loc' \in [Threads -> Locs] /\ pc' \in [Threads -> Places] /\ pc'[t] = "out"
      /\ \A u \in Threads \ {t} : loc'[u] = loc[u] /\ pc'[u] = pc[u]
  BY Zenon, <1>a, <1>t, <1>1 DEF Places
<1>3. /\ hdr' \in [Tags -> Hdrs]
      /\ \A h \in Tags \ {r} : hdr'[h] = hdr[h]
  <2>1. NoHdr \in Hdrs
    BY Zenon, NoReplyIn DEF NoHdr, Hdrs, Reqs
  <2>2. None \in Reqs /\ NoReply \in Msgs
    BY Zenon, NoReplyIn DEF Reqs
  <2>3. CASE hdr' = [hdr EXCEPT ![r] = NoHdr]
    BY Zenon, <2>1, <2>3, <1>t
  <2>4. CASE hdr' = [hdr EXCEPT ![r].request = None, ![r].reply = NoReply]
    <3>1. PICK no \in Reqs, nr \in Msgs : hdr' = [hdr EXCEPT ![r].request = no, ![r].reply = nr]
      BY Zenon, <2>2, <2>4
    <3> QED
      BY Zenon, <3>1, <1>t DEF Hdrs
  <2> QED
    BY Zenon, <1>b, <2>3, <2>4
<1>4. /\ rpcfree' \in Seq(Tags) /\ Len(rpcfree') <= MaxFree /\ IsInjective(rpcfree')
      /\ exist' \subseteq Tags /\ Range(rpcfree') \subseteq exist'
      /\ \A h \in Tags \ {r} : h \in exist' \ Range(rpcfree') <=> h \in exist \ Range(rpcfree)
      /\ r \notin exist' \ Range(rpcfree')
  <2>l. Len(rpcfree) \in Nat /\ Len(rpcfree) <= MaxFree /\ MaxFree \in Nat
    BY <1>t, MntAssumption DEF IInv, RpcInv, TypeOK
  <2>1. CASE exist' = exist \ {r} /\ rpcfree' = rpcfree
    BY Zenon, <2>1, <2>l, <1>t
  <2>2. CASE exist' = exist /\ rpcfree' = <<r>> \o rpcfree /\ ~(Len(rpcfree) >= MaxFree)
    <3>1. /\ rpcfree' \in Seq(Tags) /\ IsInjective(rpcfree')
          /\ Range(rpcfree') = Range(rpcfree) \cup {r}
      BY <2>2, <1>t, PutFacts
    <3>2. Len(rpcfree') = Len(rpcfree) + 1
      BY <2>2, <1>t
    <3>3. Len(rpcfree') <= MaxFree
      BY <2>2, <2>l, <3>2
    <3> QED
      BY Zenon, <2>2, <3>1, <3>3, <1>t
  <2> QED
    BY Zenon, <1>b, <2>1, <2>2
<1>5. TagsUnique'
  BY <1>2, <1>4, <1>o, <1>t DEF TagsUnique, IInv, RpcInv, Busy
<1>6. NoneLost'
  BY ZenonT(30), <1>2, <1>4, <1>t DEF NoneLost, IInv, Busy, r
<1>7. \A u \in Threads \ {t} : (Busy(u) => Mine(u)' = Mine(u)) /\ (Queued(u)' <=> Queued(u))
  BY <1>2, <1>3, <1>o, <1>t DEF Mine, Queued, Busy
<1>8. QueueExact'
  <2>1. ~Queued(t) /\ ~Queued(t)'
    BY Zenon, <1>a, <1>2 DEF Queued
  <2>2. {loc'[w].r : w \in {u \in Threads : Queued(u)'}} = {loc[w].r : w \in {u \in Threads : Queued(u)}}
    BY Zenon, <2>1, <1>7, <1>2
  <2> QED
    BY Zenon, <1>a, <2>2 DEF QueueExact, IInv, RpcInv
<1>9. LocalsFit'
  <2>1. Fits(pc[t], loc[t], Mine(t).done)'
    BY Zenon, <1>2 DEF Fits, Gating
  <2>2. ASSUME NEW u \in Threads \ {t} PROVE Fits(pc[u], loc[u], Mine(u).done)'
    <3>1. Fits(pc[u], loc[u], Mine(u).done)
      BY Zenon DEF IInv, LocalsFit
    <3>2. CASE Busy(u)
      BY Zenon, <3>1, <3>2, <1>2, <1>7
    <3>3. CASE ~Busy(u)
      BY Zenon, <3>3, <1>2 DEF Busy, Fits, Gating
    <3> QED
      BY Zenon, <3>2, <3>3
  <2> QED
    BY Zenon, <2>1, <2>2 DEF LocalsFit
<1>10. TypeOK' /\ LocOK'
  BY Zenon, <1>a, <1>t, <1>2, <1>3, <1>4 DEF IInv, RpcInv, TypeOK, LocOK, Locs, Hdrs, Reqs, Msgs
<1> QED
  BY Zenon, <1>5, <1>6, <1>8, <1>9, <1>10 DEF IInv, RpcInv

(* mountio puts t's own header on the queue, where it was not. *)
LEMMA QueueStep ==
  ASSUME IInv, NEW t \in Threads, MountioQueue(t)
  PROVE  IInv'
<1> USE DEF Goto, Step, conn
<1> DEFINE r == loc[t].r
<1>a. /\ pc[t] = "queue" /\ pc' = [pc EXCEPT ![t] = "write"] /\ queue' = <<r>> \o queue
      /\ UNCHANGED <<rpcfree, exist, hdr, rip, mlock, srv, wire, hungup, loc, nrpc, garbled, clash>>
  BY Zenon DEF MountioQueue, hist
<1>t. /\ pc \in [Threads -> Places] /\ queue \in Seq(Tags) /\ r \in Tags
      /\ Fits(pc[t], loc[t], Mine(t).done)
      /\ \A u \in Threads \ {t} : Busy(u) => loc[u].r # r
      /\ IsInjective(queue) /\ Range(queue) = {loc[w].r : w \in {u \in Threads : Queued(u)}}
  BY Zenon, <1>a, Typed DEF IInv, LocalsFit, RpcInv, TagsUnique, Busy, QueueExact
<1>p. pc' \in [Threads -> Places] /\ pc'[t] = "write" /\ \A u \in Threads \ {t} : pc'[u] = pc[u]
  BY Zenon, <1>a, <1>t DEF Places
<1>1. ~Queued(t) /\ Queued(t)' /\ \A u \in Threads \ {t} : Queued(u)' <=> Queued(u)
  BY Zenon, <1>a, <1>t, <1>p DEF Queued, Mine, Fits
<1>2. r \notin Range(queue)
  BY Zenon, <1>t, <1>1 DEF Queued, Busy
<1>3. queue' \in Seq(Tags) /\ IsInjective(queue') /\ Range(queue') = Range(queue) \cup {r}
  <2> HIDE DEF r
  <2> QED
    BY <1>a, <1>t, <1>2, PutFacts
<1>4. {loc'[w].r : w \in {u \in Threads : Queued(u)'}}
        = {loc[w].r : w \in {u \in Threads : Queued(u)}} \cup {r}
  BY Zenon, <1>a, <1>1
<1>5. QueueExact'
  BY Zenon, <1>3, <1>4, <1>t DEF QueueExact
<1>6. \A u \in Threads : Busy(u)' <=> Busy(u)
  BY Zenon, <1>a, <1>p DEF Busy
<1>7. TagsUnique' /\ NoneLost'
  BY Zenon, <1>a, <1>6 DEF IInv, RpcInv, TagsUnique, NoneLost
<1>8. LocalsFit'
  <2>1. Fits(pc[t], loc[t], Mine(t).done)'
    BY Zenon, <1>p DEF Fits, Gating
  <2>2. ASSUME NEW u \in Threads \ {t} PROVE Fits(pc[u], loc[u], Mine(u).done)'
    BY Zenon, <1>a, <1>p DEF IInv, LocalsFit, Mine
  <2> QED
    BY Zenon, <2>1, <2>2 DEF LocalsFit
<1>9. TypeOK' /\ LocOK'
  BY Zenon, <1>a, <1>p, <1>3 DEF IInv, RpcInv, TypeOK, LocOK
<1> QED
  BY Zenon, <1>5, <1>7, <1>8, <1>9 DEF IInv, RpcInv

-----------------------------------------------------------------------------
(* A header that waits for its reply is taken off the queue when it is     *)
(* done, by its owner or by the reader t, which goes on at p with locals l.*)
TakesOff(t, q, p, l) ==
  /\ q \in Range(queue) /\ queue' = Unlink(queue, q)
  /\ hdr' \in [Tags -> Hdrs] /\ hdr'[q].done
  /\ \A h \in Tags \ {q} : hdr'[h].done = hdr[h].done
  /\ pc' = [pc EXCEPT ![t] = p] /\ p \in Places
  /\ pc[t] \notin {"out", "queue", "free"} /\ p \notin {"out", "queue"}
  /\ loc' = [loc EXCEPT ![t] = l] /\ l \in Locs /\ l.r = loc[t].r
  /\ Fits(p, l, hdr'[l.r].done)
  /\ UNCHANGED <<rpcfree, exist, rip, mlock, srv, wire, hungup, nrpc, garbled, clash>>

(* Such a step keeps the invariant. *)
LEMMA TakeOffStep ==
  ASSUME IInv, NEW t \in Threads, NEW q, NEW p, NEW l, TakesOff(t, q, p, l)
  PROVE  IInv'
<1>a. /\ q \in Range(queue) /\ queue' = Unlink(queue, q)
      /\ hdr' \in [Tags -> Hdrs] /\ hdr'[q].done
      /\ \A h \in Tags \ {q} : hdr'[h].done = hdr[h].done
      /\ pc' = [pc EXCEPT ![t] = p] /\ p \in Places
      /\ pc[t] \notin {"out", "queue", "free"} /\ p \notin {"out", "queue"}
      /\ loc' = [loc EXCEPT ![t] = l] /\ l \in Locs /\ l.r = loc[t].r
      /\ Fits(p, l, hdr'[l.r].done)
      /\ UNCHANGED <<rpcfree, exist, rip, mlock, srv, wire, hungup, nrpc, garbled, clash>>
  BY Zenon DEF TakesOff
<1>t. /\ pc \in [Threads -> Places] /\ loc \in [Threads -> Locs] /\ queue \in Seq(Tags)
      /\ IsInjective(queue) /\ Range(queue) = {loc[w].r : w \in {u \in Threads : Queued(u)}}
      /\ \A u \in Threads : Busy(u) => loc[u].r \in Tags
      /\ \A u, v \in Threads : Busy(u) /\ Busy(v) /\ loc[u].r = loc[v].r => u = v
  BY Zenon, Typed DEF IInv, RpcInv, TagsUnique, QueueExact
<1>p. pc' \in [Threads -> Places] /\ pc'[t] = p /\ \A u \in Threads \ {t} : pc'[u] = pc[u]
  BY Zenon, <1>a, <1>t
<1>l. /\ loc' \in [Threads -> Locs] /\ loc'[t] = l
      /\ \A u \in Threads \ {t} : loc'[u] = loc[u]
      /\ \A u \in Threads : loc'[u].r = loc[u].r
  BY Zenon, <1>a, <1>t
<1>w. PICK w \in Threads : Queued(w) /\ loc[w].r = q
  BY Zenon, <1>a, <1>t
<1>b. \A u \in Threads : Busy(u)' <=> Busy(u)
  BY Zenon, <1>a, <1>p DEF Busy
<1>d. \A u \in Threads : Busy(u) => (Mine(u).done' <=> Mine(u).done \/ u = w)
  <2>1. Busy(w) /\ Mine(w).done'
    BY Zenon, <1>w, <1>a, <1>l DEF Queued, Busy, Mine
  <2>2. ASSUME NEW u \in Threads \ {w}, Busy(u) PROVE Mine(u).done' = Mine(u).done
    <3>1. loc[u].r \in Tags \ {q} /\ loc'[u].r = loc[u].r
      BY Zenon, <2>1, <2>2, <1>w, <1>t, <1>l
    <3> QED
      BY Zenon, <3>1, <1>a DEF Mine
  <2> QED
    BY Zenon, <2>1, <2>2
<1>1. ASSUME NEW u \in Threads PROVE Queued(u)' <=> Queued(u) /\ u # w
  <2>1. CASE ~Busy(u)
    BY Zenon, <2>1, <1>b DEF Queued, Busy
  <2>2. CASE Busy(u) /\ u # t
    BY Zenon, <2>2, <1>p, <1>d, <1>w DEF Queued
  <2>3. CASE u = t
    <3>1. Busy(t) /\ pc'[t] \notin {"out", "queue"} /\ (pc'[t] = "free" => Mine(t).done')
      BY Zenon, <1>a, <1>p, <1>l DEF Busy, Fits, Mine
    <3> QED
      BY Zenon, <2>3, <3>1, <1>a, <1>d, <1>w DEF Queued
  <2> QED
    BY Zenon, <2>1, <2>2, <2>3
<1>2. queue' \in Seq(Tags) /\ IsInjective(queue') /\ Range(queue') = Range(queue) \ {q}
  BY Zenon, <1>a, <1>t, UnlinkFacts
<1>3. QueueExact'
  <2>1. ASSUME NEW u \in Threads, Queued(u), u # w PROVE loc[u].r # q
    BY Zenon, <2>1, <1>t, <1>w DEF Queued, Busy
  <2>2. {loc'[v].r : v \in {u \in Threads : Queued(u)'}}
          = {loc[v].r : v \in {u \in Threads : Queued(u)}} \ {q}
    BY Zenon, <1>l, <1>1, <1>w, <2>1
  <2> QED
    BY Zenon, <1>2, <1>t, <2>2 DEF QueueExact
<1>4. TagsUnique' /\ NoneLost'
  <2>1. UNCHANGED <<rpcfree, exist>>
    BY Zenon, <1>a
  <2>2. TagsUnique'
    BY Zenon, <2>1, <1>b, <1>l DEF IInv, RpcInv, TagsUnique
  <2>3. NoneLost'
    BY Zenon, <2>1, <1>b, <1>l DEF IInv, NoneLost
  <2> QED
    BY Zenon, <2>2, <2>3
<1>5. LocalsFit'
  <2>1. Fits(pc[t], loc[t], Mine(t).done)'
    BY Zenon, <1>a, <1>p, <1>l DEF Mine
  <2>2. ASSUME NEW u \in Threads \ {t} PROVE Fits(pc[u], loc[u], Mine(u).done)'
    <3>1. Fits(pc[u], loc[u], Mine(u).done) /\ loc'[u] = loc[u] /\ pc'[u] = pc[u]
      BY Zenon, <1>p, <1>l DEF IInv, LocalsFit
    <3>2. CASE ~Busy(u)
      BY Zenon, <3>1, <3>2 DEF Busy, Fits, Gating
    <3>3. CASE Busy(u) /\ u # w
      <4>1. Mine(u).done' = Mine(u).done
        BY Zenon, <3>1, <3>3, <1>a, <1>t, <1>w DEF Mine, Queued, Busy
      <4> QED
        BY Zenon, <3>1, <4>1
    <3>4. CASE u = w
      <4>1. pc[u] # "queue" /\ Mine(u).done' /\ pc[u] # "free"
        BY Zenon, <3>1, <3>4, <1>w, <1>a DEF Queued, Mine
      <4> QED
        BY Zenon, <3>1, <4>1 DEF Fits
    <3> QED
      BY Zenon, <3>2, <3>3, <3>4
  <2> QED
    BY Zenon, <2>1, <2>2 DEF LocalsFit
<1>6. TypeOK' /\ LocOK'
  BY Zenon, <1>a, <1>p, <1>l, <1>2 DEF IInv, RpcInv, TypeOK, LocOK, Hdrs, Locs, Reqs, Msgs
<1> QED
  BY Zenon, <1>3, <1>4, <1>5, <1>6 DEF IInv, RpcInv

(* mountmux, which takes the answered request off the queue. *)
LEMMA MuxStep ==
  ASSUME IInv, NEW t \in Threads, mountmux(t)
  PROVE  IInv'
<1> USE DEF Goto, Step, mnt, conn, hist
<1>t. /\ hdr \in [Tags -> Hdrs] /\ loc[t] \in Locs /\ loc[t].r \in Tags /\ queue \in Seq(Tags)
      /\ srv \subseteq Msgs /\ wire \in Seq(Msgs) /\ rip \in Rips /\ mlock \in BOOLEAN
      /\ garbled \in BOOLEAN /\ clash \in BOOLEAN
      /\ loc = [loc EXCEPT ![t] = loc[t]] /\ Mine(t).reply \in Msgs /\ pc[t] = "mux"
  <2>1. pc[t] = "mux"
    BY Zenon DEF mountmux
  <2> QED
    BY Zenon, <2>1, Typed DEF Busy, Hdrs
<1> DEFINE k == Mine(t).reply.tag
<1>1. CASE k \in Range(queue)
  <2>0. Range(queue) \subseteq Tags /\ Tags \subseteq 0..NTag
    <3>1. Range(queue) \subseteq Tags
      BY <1>t DEF Range
    <3>2. Tags \subseteq 0..NTag
      BY DEF Tags
    <3> QED
      BY Zenon, <3>1, <3>2
  <2>1. PICK q \in Tags, v \in Msgs :
          /\ q = k /\ q \in Range(queue) /\ queue' = Unlink(queue, q)
          /\ hdr' = [hdr EXCEPT ![q].done = TRUE, ![q].reply = v]
    BY Zenon, <1>1, <1>t, <2>0 DEF mountmux
  <2>2. /\ hdr' \in [Tags -> Hdrs] /\ hdr'[q].done
        /\ \A h \in Tags \ {q} : hdr'[h].done = hdr[h].done
    <3>1. hdr' = [hdr EXCEPT ![q].done = TRUE, ![q].reply = v] /\ hdr \in [Tags -> Hdrs]
      BY Zenon, <2>1, <1>t
    <3>2. hdr' \in [Tags -> Hdrs]
      BY ZenonT(30), <3>1 DEF Hdrs
    <3>3. hdr'[q].done = TRUE
      BY Zenon, <3>1 DEF Hdrs
    <3>4. \A h \in Tags \ {q} : hdr'[h] = hdr[h]
      BY Zenon, <3>1
    <3> QED
      BY Zenon, <3>2, <3>3, <3>4
  <2>3. UNCHANGED <<rpcfree, exist, rip, mlock, srv, wire, hungup, nrpc, garbled, clash>>
    BY Zenon DEF mountmux
  <2>4. CASE k = loc[t].r
    <3>1. pc' = [pc EXCEPT ![t] = "read"] /\ loc' = loc
      BY Zenon, <1>1, <2>4 DEF mountmux
    <3>2. Fits("read", loc[t], hdr'[loc[t].r].done) /\ "read" \in Places
      BY Zenon DEF Fits, Gating, Places
    <3>3. TakesOff(t, q, "read", loc[t])
      BY Zenon, <2>1, <2>2, <2>3, <3>1, <3>2, <1>t DEF TakesOff
    <3> QED
      BY Zenon, <3>3, TakeOffStep
  <2>5. CASE k # loc[t].r
    <3>1. pc' = [pc EXCEPT ![t] = "muxwake"] /\ loc' = [loc EXCEPT ![t].q = q]
      BY Zenon, <1>1, <2>1, <2>5 DEF mountmux
    <3> DEFINE l == [loc[t] EXCEPT !.q = q]
    <3>2. l \in Locs /\ l.r = loc[t].r /\ l.q = q /\ loc' = [loc EXCEPT ![t] = l]
      BY Zenon, <3>1, <2>0, <1>t DEF Locs
    <3> HIDE DEF l
    <3>3. Fits("muxwake", l, hdr'[l.r].done) /\ "muxwake" \in Places
      BY Zenon, <3>2 DEF Fits, Gating, Places
    <3>4. TakesOff(t, q, "muxwake", l)
      BY Zenon, <2>1, <2>2, <2>3, <3>1, <3>2, <3>3, <1>t DEF TakesOff
    <3> QED
      BY Zenon, <3>4, TakeOffStep
  <2> QED
    BY Zenon, <2>4, <2>5
<1>2. CASE k \notin Range(queue)
  <2>1. /\ pc' = [pc EXCEPT ![t] = "read"] /\ UNCHANGED <<queue, hdr>>
        /\ UNCHANGED <<rpcfree, exist, rip, mlock, srv, wire, hungup, loc, nrpc, garbled, clash>>
    BY Zenon, <1>2 DEF mountmux
  <2>2. Fits("read", loc[t], Mine(t).done) /\ "read" \in Places
    BY Zenon DEF Fits, Gating, Places
  <2>3. Moves(t, "read", loc[t])
    BY Zenon, <1>t, <2>1, <2>2 DEF Moves
  <2> QED
    BY Zenon, <1>t, <2>1, <2>3, PlainStep
<1> QED
  BY Zenon, <1>1, <1>2

(* mntflushfree, which takes the unanswered request off the queue. *)
LEMMA FlushStep ==
  ASSUME IInv, NEW t \in Threads, mntflushfree(t)
  PROVE  IInv'
<1> USE DEF Goto, Step, mnt, conn, hist
<1>t. /\ hdr \in [Tags -> Hdrs] /\ loc[t] \in Locs /\ loc[t].r \in Tags
      /\ garbled \in BOOLEAN /\ clash \in BOOLEAN
      /\ srv \subseteq Msgs /\ wire \in Seq(Msgs) /\ rip \in Rips /\ mlock \in BOOLEAN
      /\ loc = [loc EXCEPT ![t] = loc[t]] /\ pc[t] = "qrm"
  <2>1. pc[t] = "qrm"
    BY Zenon DEF mntflushfree
  <2> QED
    BY Zenon, <2>1, Typed DEF Busy
<1>a. /\ pc' = [pc EXCEPT ![t] = "free"]
      /\ UNCHANGED <<rpcfree, exist, rip, mlock, srv, wire, hungup, loc, nrpc, garbled, clash>>
  BY Zenon DEF mntflushfree
<1>1. CASE Mine(t).done
  <2>1. UNCHANGED <<queue, hdr>>
    BY Zenon, <1>1 DEF mntflushfree
  <2>2. Fits("free", loc[t], Mine(t).done) /\ "free" \in Places
    BY Zenon, <1>1 DEF Fits, Gating, Places
  <2>3. Moves(t, "free", loc[t])
    BY Zenon, <1>t, <1>a, <2>2 DEF Moves
  <2> QED
    BY Zenon, <1>t, <1>a, <2>1, <2>3, PlainStep
<1>2. CASE ~Mine(t).done
  <2>1. loc[t].r \in Range(queue)
    BY Zenon, <1>2, <1>t DEF IInv, RpcInv, QueueExact, Queued
  <2>2. PICK q \in Tags : /\ q = loc[t].r /\ q \in Range(queue) /\ queue' = Unlink(queue, q)
                          /\ hdr' = [hdr EXCEPT ![q].done = TRUE]
    BY Zenon, <1>2, <1>t, <2>1 DEF mntflushfree
  <2>3. /\ hdr' \in [Tags -> Hdrs] /\ hdr'[q].done
        /\ \A h \in Tags \ {q} : hdr'[h].done = hdr[h].done
    <3>1. hdr' = [hdr EXCEPT ![q].done = TRUE] /\ hdr \in [Tags -> Hdrs]
      BY Zenon, <2>2, <1>t
    <3> QED
      BY Zenon, <3>1 DEF Hdrs
  <2>4. Fits("free", loc[t], hdr'[loc[t].r].done) /\ "free" \in Places
    BY Zenon, <2>2, <2>3 DEF Fits, Gating, Places
  <2>5. TakesOff(t, q, "free", loc[t])
    BY Zenon, <2>2, <2>3, <2>4, <1>t, <1>a DEF TakesOff
  <2> QED
    BY Zenon, <2>5, TakeOffStep
<1> QED
  BY Zenon, <1>1, <1>2

-----------------------------------------------------------------------------
(* Every step keeps the invariant. *)
LEMMA InvStep == ASSUME IInv, [Next]_vars PROVE IInv'
<1>1. CASE UNCHANGED vars
  <2>1. TypeOK' /\ LocOK' /\ LocalsFit'
    BY Zenon, <1>1 DEF vars, mnt, conn, hist, IInv, RpcInv, TypeOK, LocOK, LocalsFit, Mine
  <2>2. \A u \in Threads : (Busy(u)' <=> Busy(u)) /\ (Queued(u)' <=> Queued(u))
    BY Zenon, <1>1 DEF vars, mnt, Busy, Queued, Mine
  <2>3. TagsUnique' /\ QueueExact' /\ NoneLost'
    BY Zenon, <1>1, <2>2, PlainKeeps DEF vars, mnt
  <2> QED
    BY Zenon, <2>1, <2>3 DEF IInv, RpcInv
<1>2. ASSUME NEW t \in Threads, Run(t) PROVE IInv'
  BY Zenon, <1>2, MoveStep, QueueStep, MuxStep, FlushStep, FreeStep DEF Run
<1> QED
  BY Zenon, <1>1, <1>2, AllocStep, ServerStep DEF Next

(* No header exists at the start. *)
LEMMA InvInit == ASSUME Init PROVE IInv
<1>1. /\ Range(<<>>) = {} /\ IsInjective(<<>>) /\ <<>> \in Seq(Tags) /\ Len(<<>>) = 0
      /\ <<>> \in Seq(Msgs)
  BY DEF Range, IsInjective
<1>2. NoLocals \in Locs /\ NoHdr \in Hdrs
  <2>1. NoLocals \in Locs
    BY MntAssumption DEF NoLocals, Locs
  <2> QED
    BY Zenon, <2>1, NoReplyIn DEF NoHdr, Hdrs
<1>3. TypeOK
  <2>1. hdr \in [Tags -> Hdrs]
    BY Zenon, <1>2 DEF Init
  <2>2. /\ rpcfree \in Seq(Tags) /\ Len(rpcfree) <= MaxFree /\ exist \subseteq Tags
        /\ queue \in Seq(Tags) /\ rip \in Rips /\ mlock \in BOOLEAN /\ hungup \in BOOLEAN
        /\ srv \subseteq Msgs /\ wire \in Seq(Msgs) /\ nrpc \in 0..MaxRpc
        /\ garbled \in BOOLEAN /\ clash \in BOOLEAN
    <3>1. Len(rpcfree) <= MaxFree /\ nrpc \in 0..MaxRpc
      BY <1>1, MntAssumption DEF Init
    <3> QED
      BY Zenon, <1>1, <3>1 DEF Init, Rips
  <2> QED
    BY Zenon, <2>1, <2>2 DEF TypeOK, Hdrs, Reqs, Msgs, Rips
<1>4. \A t \in Threads : pc[t] = "out"
  BY Zenon DEF Init
<1>5. LocOK
  BY Zenon, <1>2 DEF Init, LocOK, Locs, Places
<1>6. TagsUnique /\ NoneLost /\ LocalsFit
  BY Zenon, <1>1, <1>4 DEF Init, TagsUnique, NoneLost, LocalsFit, Busy, Fits, Gating
<1>7. QueueExact
  BY Zenon, <1>1, <1>4 DEF Init, QueueExact, Queued
<1> QED
  BY Zenon, <1>3, <1>5, <1>6, <1>7 DEF IInv, RpcInv

(* mntalloc and m->queue are exact (devmnt.c:1400-1460, mountmux, mntqrm): *)
(* in every reachable state a header is in use by one RPC, on the free     *)
(* list or freed, and the queue lists the RPCs that wait, each once.  This *)
(* holds whichever processes the threads work for.                         *)
THEOREM HeadersExact == Spec => []RpcInv
<1>1. IInv /\ [Next]_vars => IInv'
  BY Zenon, InvStep
<1>2. IInv => RpcInv
  BY Zenon DEF IInv
<1> QED
  BY <1>1, <1>2, InvInit, PTL DEF Spec

(***************************************************************************)
(* The gate, the wakeups and the replies, until a write error opens the    *)
(* gate another thread of the process holds.                               *)
(***************************************************************************)

(* Where each step of a thread starts and where it leads to. *)
LEMMA Flow ==
  ASSUME IInv, NEW t \in Threads
  PROVE  /\ mntralloc(t) => pc[t] = "out" /\ pc'[t] = "queue"
         /\ MountioQueue(t) => pc[t] = "queue" /\ pc'[t] = "write"
         /\ MountioWrite(t) => pc[t] = "write" /\ pc'[t] \in {"failed", "gate"}
         /\ Gate(t) => pc[t] = "gate" /\ pc'[t] \in {"read", "test1"}
         /\ SleepTest(t) => pc[t] \in {"test1", "test2"} /\ pc'[t] \in {"check", "test2", "store"}
         /\ SleepStore(t) => pc[t] = "store" /\ pc'[t] = "sleep"
         /\ Check(t) => pc[t] = "check" /\ pc'[t] \in {"free", "gate"} /\ (pc'[t] = "free" => Mine(t).done)
         /\ mntrpcread(t) => pc[t] = "read" /\ pc'[t] \in {"mux", "error", "gateopen"}
         /\ mountmux(t) => pc[t] = "mux" /\ pc'[t] \in {"read", "muxwake"}
         /\ WakeLoad(t) => pc[t] = "muxwake" /\ pc'[t] \in {"read", "wkclear"}
         /\ WakeClear(t) => pc[t] = "wkclear" /\ pc'[t] = "send"
         /\ GateOpen(t) => pc[t] = "gateopen" /\ pc'[t] = "gatescan"
         /\ GateScan(t) => pc[t] = "gatescan" /\ pc'[t] \in {"gatescan", "gateclear", "gateshut"}
         /\ GateClear(t) => pc[t] = "gateclear" /\ pc'[t] = "gatesend"
         /\ GateShut(t) => /\ pc[t] = "gateshut" /\ pc'[t] \in {"free", "qrm"}
                           /\ pc'[t] = "free" => Mine(t).done
                           /\ pc'[t] = "qrm" => loc[t].err
         /\ L4Rendezvous(t) => /\ pc[t] \in {"send", "gatesend"}
                               /\ pc'[t] = IF pc[t] = "send" THEN "read" ELSE "gateshut"
         /\ Error(t) => pc[t] \in {"failed", "error"} /\ pc'[t] \in {"gateopen", "qrm"}
         /\ mntflushfree(t) => pc[t] = "qrm" /\ pc'[t] = "free"
         /\ mntfree(t) => pc[t] = "free" /\ pc'[t] = "out"
<1>t. pc \in [Threads -> Places] /\ Fits(pc[t], loc[t], Mine(t).done)
  BY Zenon, Typed DEF IInv, LocalsFit
<1> USE <1>t DEF Goto, Step
<1>1. /\ mntralloc(t) => pc[t] = "out" /\ pc'[t] = "queue"
      /\ MountioQueue(t) => pc[t] = "queue" /\ pc'[t] = "write"
      /\ MountioWrite(t) => pc[t] = "write" /\ pc'[t] \in {"failed", "gate"}
      /\ Gate(t) => pc[t] = "gate" /\ pc'[t] \in {"read", "test1"}
  BY Zenon DEF mntralloc, MountioQueue, MountioWrite, Gate
<1>2. /\ SleepTest(t) => pc[t] \in {"test1", "test2"} /\ pc'[t] \in {"check", "test2", "store"}
      /\ SleepStore(t) => pc[t] = "store" /\ pc'[t] = "sleep"
      /\ Check(t) => pc[t] = "check" /\ pc'[t] \in {"free", "gate"} /\ (pc'[t] = "free" => Mine(t).done)
  BY Zenon DEF SleepTest, SleepStore, Check
<1>3. /\ mntrpcread(t) => pc[t] = "read" /\ pc'[t] \in {"mux", "error", "gateopen"}
      /\ mountmux(t) => pc[t] = "mux" /\ pc'[t] \in {"read", "muxwake"}
  BY Zenon DEF mntrpcread, ReadReply, ReadFails, ReadDone, mountmux
<1>4. /\ WakeLoad(t) => pc[t] = "muxwake" /\ pc'[t] \in {"read", "wkclear"}
      /\ WakeClear(t) => pc[t] = "wkclear" /\ pc'[t] = "send"
      /\ GateOpen(t) => pc[t] = "gateopen" /\ pc'[t] = "gatescan"
      /\ GateScan(t) => pc[t] = "gatescan" /\ pc'[t] \in {"gatescan", "gateclear", "gateshut"}
      /\ GateClear(t) => pc[t] = "gateclear" /\ pc'[t] = "gatesend"
  BY Zenon DEF WakeLoad, WakeClear, GateOpen, GateScan, GateClear
<1>5. GateShut(t) => /\ pc[t] = "gateshut" /\ pc'[t] \in {"free", "qrm"}
                     /\ pc'[t] = "free" => Mine(t).done
                     /\ pc'[t] = "qrm" => loc[t].err
  BY Zenon DEF GateShut, Fits, Gating
<1>6. L4Rendezvous(t) => /\ pc[t] \in {"send", "gatesend"}
                         /\ pc'[t] = IF pc[t] = "send" THEN "read" ELSE "gateshut"
  <2> SUFFICES ASSUME L4Rendezvous(t)
               PROVE  /\ pc[t] \in {"send", "gatesend"}
                      /\ pc'[t] = IF pc[t] = "send" THEN "read" ELSE "gateshut"
    BY Zenon
  <2>1. loc[t].whom \in Threads \ {t} /\ pc[t] \in {"send", "gatesend"}
    BY Zenon DEF L4Rendezvous, Fits
  <2> QED
    BY Zenon, <2>1 DEF L4Rendezvous
<1>7. /\ Error(t) => pc[t] \in {"failed", "error"} /\ pc'[t] \in {"gateopen", "qrm"}
      /\ mntflushfree(t) => pc[t] = "qrm" /\ pc'[t] = "free"
      /\ mntfree(t) => pc[t] = "free" /\ pc'[t] = "out"
  BY Zenon DEF Error, mntflushfree, mntfree
<1> QED
  BY Zenon, <1>1, <1>2, <1>3, <1>4, <1>5, <1>6, <1>7

(* What a step of t leaves alone: the locals of the others, and where they *)
(* are, but for the sleeper that t's L4_Send meets.                        *)
LEMMA Others ==
  ASSUME IInv, NEW t \in Threads, mntralloc(t) \/ Run(t)
  PROVE  /\ \A u \in Threads \ {t} : loc'[u] = loc[u]
         /\ \A u \in Threads \ {t} : pc'[u] = pc[u] \/ (pc[u] = "sleep" /\ pc'[u] = "check")
         /\ ~L4Rendezvous(t) => \A u \in Threads \ {t} : pc'[u] = pc[u]
<1>t. pc \in [Threads -> Places] /\ loc \in [Threads -> Locs]
  BY Zenon, Typed
<1>1. loc' = loc \/ \E l : loc' = [loc EXCEPT ![t] = l]
  <2>1. CASE \/ WakeLoad(t) \/ GateOpen(t) \/ GateScan(t) \/ GateShut(t)
             \/ L4Rendezvous(t) \/ Error(t)
    BY Zenon, <2>1, AllMove DEF Moves
  <2>2. CASE mountmux(t)
    BY Zenon, <2>2 DEF mountmux
  <2> QED
    BY Zenon, <2>1, <2>2 DEF Run, mntralloc, MountioQueue, MountioWrite, Gate, SleepTest, SleepStore,
         Check, mntrpcread, ReadReply, ReadFails, ReadDone, WakeClear, GateClear, mntflushfree, mntfree
<1>2. \A u \in Threads \ {t} : loc'[u] = loc[u]
  BY Zenon, <1>1, <1>t
<1>3. ~L4Rendezvous(t) => pc' = pc \/ \E p : pc' = [pc EXCEPT ![t] = p]
  BY Zenon DEF Run, mntralloc, MountioQueue, MountioWrite, Gate, SleepTest, SleepStore, Check,
         mntrpcread, ReadReply, ReadFails, ReadDone, mountmux, WakeLoad, WakeClear, GateOpen, GateScan, GateClear, GateShut,
         Error, mntflushfree, mntfree, Goto, Step
<1>4. ~L4Rendezvous(t) => \A u \in Threads \ {t} : pc'[u] = pc[u]
  BY Zenon, <1>3, <1>t
<1>5. L4Rendezvous(t) =>
        \A u \in Threads \ {t} : pc'[u] = pc[u] \/ (pc[u] = "sleep" /\ pc'[u] = "check")
  BY Zenon, <1>t DEF L4Rendezvous
<1> QED
  BY Zenon, <1>2, <1>4, <1>5

-----------------------------------------------------------------------------
(* One thread at a time has the gate or is in mntgate. *)
LEMMA Alone ==
  ASSUME ReaderInv, NEW t \in Threads, NEW u \in Threads,
         Hold(t) \/ pc[t] \in Gating, Hold(u) \/ pc[u] \in Gating
  PROVE  t = u
BY Zenon, MntAssumption DEF ReaderInv

(* A step that leaves the gate alone, by a thread that neither gets nor    *)
(* gives it up.                                                            *)
LEMMA ReaderKeeps ==
  ASSUME ReaderInv, NEW t \in Threads, UNCHANGED <<rip, mlock>>,
         \A u \in Threads \ {t} : pc'[u] = pc[u] \/ (pc[u] = "sleep" /\ pc'[u] = "check"),
         Hold(t)' <=> Hold(t), pc'[t] \in Gating <=> pc[t] \in Gating
  PROVE  ReaderInv'
<1>1. \A u \in Threads : /\ Hold(u)' <=> Hold(u)
                         /\ pc'[u] \in Gating <=> pc[u] \in Gating
  BY DEF Hold, Reading, Gating
<1> QED
  BY Zenon, <1>1 DEF ReaderInv

(* Every step keeps the gate, but for the one that opens another's.        *)
LEMMA ReaderStep ==
  ASSUME IInv, ReaderInv, NEW t \in Threads, mntralloc(t) \/ Run(t), ~clash'
  PROVE  ReaderInv'
<1>o. \A u \in Threads \ {t} : pc'[u] = pc[u] \/ (pc[u] = "sleep" /\ pc'[u] = "check")
  BY Zenon, Others
<1>1. CASE Gate(t) /\ rip = NoProc
  <2>1. pc[t] = "gate" /\ pc'[t] = "read" /\ rip' = ProcOf[t] /\ ~mlock /\ mlock' = mlock
    BY Zenon, <1>1, Typed DEF Gate, Step, Goto
  <2>2. \A u \in Threads : ~Hold(u) /\ pc[u] \notin Gating
    BY Zenon, <2>1, <1>1, MntAssumption DEF ReaderInv
  <2>3. \A u \in Threads \ {t} : ~Hold(u)' /\ pc'[u] \notin Gating
    BY Zenon, <2>2, <1>o DEF Hold, Reading, Gating
  <2>4. Hold(t)' /\ pc'[t] \notin Gating
    BY Zenon, <2>1 DEF Hold, Reading, Gating
  <2> QED
    BY Zenon, <2>1, <2>3, <2>4 DEF ReaderInv
<1>2. CASE GateOpen(t)
  <2>1. pc[t] = "gateopen" /\ pc'[t] = "gatescan" /\ rip' = NoProc /\ ~mlock /\ mlock' = TRUE
    BY Zenon, <1>2, Flow DEF GateOpen
  <2>2. \A u \in Threads \ {t} : ~Hold(u) /\ pc[u] \notin Gating
    BY Zenon, <2>1, Alone DEF Hold
  <2>3. \A u \in Threads \ {t} : ~Hold(u)' /\ pc'[u] \notin Gating
    BY Zenon, <2>2, <1>o DEF Hold, Reading, Gating
  <2>4. ~Hold(t)' /\ pc'[t] \in Gating
    BY Zenon, <2>1 DEF Hold, Reading, Gating
  <2> QED
    BY Zenon, <2>1, <2>3, <2>4 DEF ReaderInv
<1>3. CASE GateShut(t)
  <2>1. /\ pc[t] = "gateshut" /\ pc'[t] \in {"free", "qrm"}
        /\ rip' = rip /\ mlock' = FALSE /\ rip = NoProc
    BY Zenon, <1>3, Flow DEF GateShut, ReaderInv, Gating
  <2>2. \A u \in Threads \ {t} : ~Hold(u) /\ pc[u] \notin Gating
    BY Zenon, <2>1, Alone DEF Gating
  <2>3. \A u \in Threads \ {t} : ~Hold(u)' /\ pc'[u] \notin Gating
    BY Zenon, <2>2, <1>o DEF Hold, Reading, Gating
  <2>4. ~Hold(t)' /\ pc'[t] \notin Gating
    BY Zenon, <2>1 DEF Hold, Reading, Gating
  <2> QED
    BY Zenon, <2>1, <2>3, <2>4 DEF ReaderInv
<1>4. CASE Error(t)
  <2>1. /\ pc[t] \in {"failed", "error"} /\ UNCHANGED <<rip, mlock>>
        /\ pc'[t] = IF rip = ProcOf[t] THEN "gateopen" ELSE "qrm"
        /\ pc[t] = "failed" => rip # ProcOf[t]
    BY Zenon, <1>4, Typed DEF Error, Step, Goto, mnt
  <2>2. pc[t] = "error" => rip = ProcOf[t]
    BY Zenon DEF ReaderInv, Hold
  <2>3. (Hold(t)' <=> Hold(t)) /\ pc'[t] \notin Gating /\ pc[t] \notin Gating
    BY Zenon, <2>1, <2>2 DEF Hold, Reading, Gating
  <2> QED
    BY Zenon, <2>1, <2>3, <1>o, ReaderKeeps
<1>5. CASE ~(\/ (Gate(t) /\ rip = NoProc) \/ GateOpen(t) \/ GateShut(t) \/ Error(t))
  <2>1. UNCHANGED <<rip, mlock>>
    BY Zenon, <1>5 DEF Run, mntralloc, MountioQueue, MountioWrite, Gate, SleepTest, SleepStore, Check,
         mntrpcread, ReadReply, ReadFails, ReadDone, mountmux, WakeLoad, WakeClear, GateScan, GateClear, L4Rendezvous,
         mntflushfree, mntfree, mnt
  <2>2. Gate(t) => pc'[t] = "test1"
    BY Zenon, <1>5, Typed DEF Gate, Step, Goto
  <2>3. /\ Hold(t)' <=> Hold(t)
        /\ pc'[t] \in Gating <=> pc[t] \in Gating
    BY Zenon, <1>5, <2>2, Flow DEF Run, Hold, Reading, Gating
  <2> QED
    BY Zenon, <2>1, <2>3, <1>o, ReaderKeeps
<1> QED
  BY Zenon, <1>1, <1>2, <1>3, <1>4, <1>5

-----------------------------------------------------------------------------
Clearing == {"wkclear", "gateclear"}
Sending  == {"send", "gatesend"}

(* A step that stores no thread in r->p, and clears r->p at most in a      *)
(* header on which nobody sleeps.                                          *)
LEMMA WakeKeeps ==
  ASSUME IInv, WakeInv, NEW t \in Threads,
         \A u \in Threads \ {t} : loc'[u] = loc[u] /\ pc'[u] = pc[u],
         pc[t] # "sleep", pc'[t] # "sleep", pc'[t] \notin Sending,
         \A h \in Tags : \/ hdr'[h].p = hdr[h].p
                         \/ /\ hdr'[h].p = NoThread
                            /\ \A u \in Threads : loc[u].r = h => pc[u] # "sleep",
         pc'[t] \in Clearing => hdr'[loc'[t].q].p = loc'[t].whom
  PROVE  WakeInv'
<1>t. /\ hdr \in [Tags -> Hdrs] /\ \A u \in Threads : Busy(u) => loc[u].r \in Tags
      /\ \A u \in Threads : pc[u] \in Clearing => loc[u].q \in Tags
      /\ \A u \in Threads : pc[u] \in Clearing \cup Sending => loc[u].whom \in Threads
  BY Zenon, Typed DEF IInv, LocalsFit, Fits, Clearing, Sending
<1>1. ASSUME NEW h \in Tags, hdr'[h].p # NoThread
      PROVE  loc'[hdr'[h].p].r = h /\ pc'[hdr'[h].p] = "sleep"
  <2>1. hdr'[h].p = hdr[h].p /\ hdr[h].p \in Threads
    BY Zenon, <1>1, <1>t DEF Hdrs
  <2>2. loc[hdr[h].p].r = h /\ pc[hdr[h].p] = "sleep"
    BY Zenon, <1>1, <2>1 DEF WakeInv
  <2> QED
    BY Zenon, <2>1, <2>2
<1>2. ASSUME NEW u \in Threads, pc'[u] \in Clearing
      PROVE  hdr'[loc'[u].q].p = loc'[u].whom
  <2>1. CASE u # t
    <3>1. pc[u] \in Clearing /\ loc'[u] = loc[u]
      BY Zenon, <1>2, <2>1
    <3>2. hdr[loc[u].q].p = loc[u].whom /\ loc[u].q \in Tags /\ loc[u].whom \in Threads
      BY Zenon, <3>1, <1>t DEF WakeInv, Clearing
    <3>3. loc[loc[u].whom].r = loc[u].q /\ pc[loc[u].whom] = "sleep"
      BY <3>2, MntAssumption DEF WakeInv
    <3>4. hdr'[loc[u].q].p = hdr[loc[u].q].p
      BY Zenon, <3>2, <3>3
    <3> QED
      BY Zenon, <3>1, <3>2, <3>4
  <2> QED
    BY Zenon, <1>2, <2>1
<1>3. ASSUME NEW u \in Threads, pc'[u] \in Sending
      PROVE  pc'[loc'[u].whom] = "sleep" /\ hdr'[loc'[loc'[u].whom].r].p = NoThread
  <2>1. u # t /\ pc[u] \in Sending /\ loc'[u] = loc[u]
    BY Zenon, <1>3
  <2> DEFINE w == loc[u].whom
  <2>2. w \in Threads /\ pc[w] = "sleep" /\ hdr[loc[w].r].p = NoThread
    BY Zenon, <2>1, <1>t DEF WakeInv, Sending, Mine
  <2>3. w # t /\ loc[w].r \in Tags
    BY Zenon, <2>2, <1>t DEF Busy
  <2> HIDE DEF w
  <2>4. pc'[w] = "sleep" /\ loc'[w] = loc[w] /\ hdr'[loc[w].r].p = NoThread
    BY Zenon, <2>2, <2>3
  <2> QED
    BY Zenon, <2>1, <2>4 DEF w
<1> QED
  BY Zenon, <1>1, <1>2, <1>3 DEF WakeInv, Mine, Clearing, Sending

(* Every step keeps r->p and the wakeups on their way. *)
LEMMA WakeupStep ==
  ASSUME IInv, ReaderInv, WakeInv, NEW t \in Threads, mntralloc(t) \/ Run(t)
  PROVE  WakeInv'
<1>t. /\ hdr \in [Tags -> Hdrs] /\ loc \in [Threads -> Locs] /\ pc \in [Threads -> Places]
      /\ \A u \in Threads : Busy(u) => loc[u].r \in Tags
      /\ \A u, v \in Threads : Busy(u) /\ Busy(v) /\ loc[u].r = loc[v].r => u = v
      /\ \A u \in Threads : pc[u] \in Clearing => loc[u].q \in Tags
      /\ \A u \in Threads : pc[u] \in Clearing \cup Sending => loc[u].whom \in Threads
  BY Zenon, Typed DEF IInv, LocalsFit, Fits, Clearing, Sending, RpcInv, TagsUnique
<1>o. /\ \A u \in Threads \ {t} : loc'[u] = loc[u]
      /\ ~L4Rendezvous(t) => \A u \in Threads \ {t} : pc'[u] = pc[u]
  BY Zenon, Others
<1>c. \A u \in Threads \ {t} : pc[t] \in Clearing \cup Sending => pc[u] \notin Clearing \cup Sending
  BY Zenon, Alone DEF Hold, Reading, Gating, Clearing, Sending
<1>1. CASE SleepStore(t)
  <2>1. /\ pc[t] = "store" /\ pc'[t] = "sleep" /\ loc' = loc /\ loc[t].r \in Tags
        /\ hdr' = [hdr EXCEPT ![loc[t].r].p = t]
    BY Zenon, <1>1, <1>t, Flow DEF SleepStore, Busy
  <2>2. /\ hdr'[loc[t].r].p = t
        /\ \A h \in Tags \ {loc[t].r} : hdr'[h].p = hdr[h].p
    BY Zenon, <2>1, <1>t DEF Hdrs
  <2>3. ~L4Rendezvous(t)
    BY Zenon, <2>1 DEF L4Rendezvous
  <2>4. ASSUME NEW u \in Threads, pc'[u] \in Clearing
        PROVE  hdr'[loc'[u].q].p = loc'[u].whom
    <3>1. u # t /\ pc[u] \in Clearing
      BY Zenon, <2>1, <2>3, <2>4, <1>o DEF Clearing
    <3>2. hdr[loc[u].q].p = loc[u].whom /\ loc[u].q \in Tags /\ loc[u].whom \in Threads
      BY Zenon, <3>1, <1>t DEF WakeInv, Clearing
    <3>3. loc[loc[u].whom].r = loc[u].q /\ pc[loc[u].whom] = "sleep"
      BY <3>2, MntAssumption DEF WakeInv
    <3>4. loc[u].q # loc[t].r
      BY Zenon, <3>2, <3>3, <2>1, <1>t DEF Busy
    <3> QED
      BY Zenon, <2>1, <2>2, <3>2, <3>4
  <2>5. ASSUME NEW u \in Threads, pc'[u] \in Sending
        PROVE  pc'[loc'[u].whom] = "sleep" /\ hdr'[loc'[loc'[u].whom].r].p = NoThread
    <3>1. u # t /\ pc[u] \in Sending
      BY Zenon, <2>1, <2>3, <2>5, <1>o DEF Sending
    <3> DEFINE w == loc[u].whom
    <3>2. w \in Threads /\ pc[w] = "sleep" /\ hdr[loc[w].r].p = NoThread
      BY Zenon, <3>1, <1>t DEF WakeInv, Sending, Mine
    <3>3. w # t /\ loc[w].r \in Tags /\ loc[w].r # loc[t].r
      BY Zenon, <3>2, <2>1, <1>t DEF Busy
    <3>4. pc'[w] = "sleep"
      BY Zenon, <3>2, <3>3, <2>3, <1>o
    <3> QED
      BY Zenon, <3>2, <3>3, <3>4, <2>1, <2>2
  <2>6. ASSUME NEW h \in Tags, hdr'[h].p # NoThread
        PROVE  loc'[hdr'[h].p].r = h /\ pc'[hdr'[h].p] = "sleep"
    <3>1. CASE h = loc[t].r
      BY Zenon, <3>1, <2>1, <2>2
    <3>2. CASE h # loc[t].r
      <4>1. hdr[h].p \in Threads /\ loc[hdr[h].p].r = h /\ pc[hdr[h].p] = "sleep"
        BY <3>2, <2>2, <2>6, <1>t DEF WakeInv, Hdrs
      <4> QED
        BY Zenon, <3>2, <4>1, <2>1, <2>2, <2>3, <1>o
    <3> QED
      BY Zenon, <3>1, <3>2
  <2> QED
    BY Zenon, <2>4, <2>5, <2>6 DEF WakeInv, Mine, Clearing, Sending
<1>2. CASE WakeClear(t) \/ GateClear(t)
  <2> DEFINE q == loc[t].q
             w == loc[t].whom
  <2>1. /\ pc[t] \in Clearing /\ pc'[t] \in Sending /\ loc' = loc
        /\ hdr' = [hdr EXCEPT ![q].p = NoThread]
    BY Zenon, <1>2, Flow DEF WakeClear, GateClear, Clearing, Sending
  <2>2. /\ q \in Tags /\ w \in Threads /\ hdr[q].p = w
    BY Zenon, <2>1, <1>t DEF WakeInv, Clearing
  <2>3. loc[w].r = q /\ pc[w] = "sleep" /\ w # t
    BY <2>1, <2>2, MntAssumption DEF WakeInv, Clearing
  <2>4. /\ hdr'[q].p = NoThread
        /\ \A h \in Tags \ {q} : hdr'[h].p = hdr[h].p
    BY Zenon, <2>1, <2>2, <1>t DEF Hdrs
  <2>5. \A u \in Threads \ {t} : pc'[u] = pc[u]
    BY Zenon, <2>1, <1>o DEF L4Rendezvous, Clearing
  <2>6. \A u \in Threads : pc'[u] \notin Clearing /\ (pc'[u] \in Sending => u = t)
    BY Zenon, <2>1, <2>5, <1>c DEF Clearing, Sending
  <2>7. ASSUME NEW h \in Tags, hdr'[h].p # NoThread
        PROVE  loc'[hdr'[h].p].r = h /\ pc'[hdr'[h].p] = "sleep"
    <3>1. h # q /\ hdr'[h].p = hdr[h].p /\ hdr[h].p \in Threads
      BY Zenon, <2>7, <2>4, <1>t DEF Hdrs
    <3>2. loc[hdr[h].p].r = h /\ pc[hdr[h].p] = "sleep"
      BY Zenon, <3>1, <2>7 DEF WakeInv
    <3>3. hdr[h].p # t
      BY Zenon, <3>2, <2>1 DEF Clearing
    <3> QED
      BY Zenon, <3>1, <3>2, <3>3, <2>1, <2>5
  <2>8. pc'[w] = "sleep" /\ hdr'[loc'[w].r].p = NoThread
    BY Zenon, <2>1, <2>2, <2>3, <2>4, <2>5
  <2> QED
    BY Zenon, <2>1, <2>6, <2>7, <2>8 DEF WakeInv, Mine, Clearing, Sending
<1>3. CASE L4Rendezvous(t)
  <2> DEFINE w == loc[t].whom
  <2>1. pc[t] \in Sending /\ pc'[t] \in {"read", "gateshut"} /\ hdr' = hdr
    BY Zenon, <1>3, Flow DEF L4Rendezvous, Sending, mnt
  <2>2. w \in Threads /\ pc[w] = "sleep" /\ hdr[loc[w].r].p = NoThread /\ loc[w].r \in Tags
    BY Zenon, <2>1, <1>t DEF WakeInv, Sending, Mine, Busy
  <2>3. \A u \in Threads \ {t, w} : pc'[u] = pc[u]
    BY Zenon, <1>3, <1>t DEF L4Rendezvous
  <2>4. pc'[w] = "check"
    BY Zenon, <1>3, <2>2, <2>1, <1>t DEF L4Rendezvous
  <2>5. \A u \in Threads : pc'[u] \notin Clearing \cup Sending
    BY Zenon, <2>1, <2>3, <2>4, <1>c DEF Clearing, Sending
  <2>6. ASSUME NEW h \in Tags, hdr'[h].p # NoThread
        PROVE  loc'[hdr'[h].p].r = h /\ pc'[hdr'[h].p] = "sleep"
    <3>1. hdr[h].p \in Threads /\ loc[hdr[h].p].r = h /\ pc[hdr[h].p] = "sleep"
      BY <2>6, <2>1, <1>t DEF WakeInv, Hdrs
    <3>2. hdr[h].p # w /\ hdr[h].p # t
      BY Zenon, <3>1, <2>1, <2>2, <2>6 DEF Sending
    <3> QED
      BY Zenon, <3>1, <3>2, <2>1, <2>3, <1>o
  <2> QED
    BY Zenon, <2>5, <2>6 DEF WakeInv, Mine, Clearing, Sending
<1>4. CASE ~(SleepStore(t) \/ WakeClear(t) \/ GateClear(t) \/ L4Rendezvous(t))
  <2>1. pc[t] # "sleep" /\ pc'[t] # "sleep" /\ pc'[t] \notin Sending
    BY Zenon, <1>4, Flow DEF Run, Sending
  <2>2. \A u \in Threads \ {t} : loc'[u] = loc[u] /\ pc'[u] = pc[u]
    BY Zenon, <1>4, <1>o
  <2>3. ASSUME NEW h \in Tags
        PROVE  \/ hdr'[h].p = hdr[h].p
               \/ /\ hdr'[h].p = NoThread
                  /\ \A u \in Threads : loc[u].r = h => pc[u] # "sleep"
    <3>1. CASE hdr' = hdr
      BY Zenon, <3>1
    <3>2. CASE mntralloc(t)
      <4>1. PICK new, rq : hdr' = [hdr EXCEPT ![new].done = FALSE, ![new].request = rq, ![new].reply = NoReply]
        BY Zenon, <3>2 DEF mntralloc
      <4> QED
        BY Zenon, <4>1, <1>t DEF Hdrs
    <3>3. CASE mntrpcread(t) /\ hdr' # hdr
      <4>1. PICK v : hdr' = [hdr EXCEPT ![loc[t].r].reply = v]
        BY Zenon, <3>3 DEF mntrpcread, ReadReply, ReadFails, ReadDone, mnt
      <4> QED
        BY Zenon, <4>1, <1>t DEF Hdrs
    <3>4. CASE mountmux(t) /\ hdr' # hdr
      <4>1. PICK q, v : hdr' = [hdr EXCEPT ![q].done = TRUE, ![q].reply = v]
        BY Zenon, <3>4 DEF mountmux
      <4> QED
        BY Zenon, <4>1, <1>t DEF Hdrs
    <3>5. CASE mntflushfree(t) /\ hdr' # hdr
      <4>1. hdr' = [hdr EXCEPT ![loc[t].r].done = TRUE]
        BY Zenon, <3>5 DEF mntflushfree
      <4> QED
        BY Zenon, <4>1, <1>t DEF Hdrs
    <3>6. CASE mntfree(t)
      <4>1. pc[t] = "free" /\ loc[t].r \in Tags
        BY Zenon, <3>6, <1>t DEF mntfree, Step, Busy
      <4>2. hdr'[h].p = hdr[h].p \/ (hdr'[h].p = NoThread /\ h = loc[t].r)
        <5>1. CASE hdr' = [hdr EXCEPT ![loc[t].r] = NoHdr]
          BY Zenon, <5>1, <4>1, <1>t DEF NoHdr, Hdrs
        <5>2. CASE hdr' = [hdr EXCEPT ![loc[t].r].request = None, ![loc[t].r].reply = NoReply]
          BY Zenon, <5>2, <4>1, <1>t DEF Hdrs
        <5> QED
          BY Zenon, <5>1, <5>2, <3>6 DEF mntfree
      <4>3. \A u \in Threads : loc[u].r = loc[t].r => pc[u] # "sleep"
        BY Zenon, <4>1, <1>t DEF Busy
      <4> QED
        BY Zenon, <4>2, <4>3
    <3> QED
      BY Zenon, <1>4, <3>1, <3>2, <3>3, <3>4, <3>5, <3>6 DEF Run, MountioQueue, MountioWrite, Gate,
           SleepTest, Check, WakeLoad, GateOpen, GateScan, GateShut, Error, mnt
  <2>4. ASSUME pc'[t] \in Clearing PROVE hdr'[loc'[t].q].p = loc'[t].whom
    <3>1. \/ WakeLoad(t) /\ pc'[t] = "wkclear"
          \/ GateScan(t) /\ pc'[t] = "gateclear"
      BY Zenon, <1>4, <2>4, Flow DEF Run, Clearing
    <3>2. CASE WakeLoad(t)
      <4>1. hdr' = hdr /\ loc' = [loc EXCEPT ![t].whom = hdr[loc[t].q].p]
        BY Zenon, <3>1, <3>2, <1>t, Flow DEF WakeLoad, mnt, Goto
      <4> QED
        BY Zenon, <4>1, <1>t DEF Locs
    <3>3. CASE GateScan(t)
      <4>1. /\ hdr' = hdr
            /\ loc' = [loc EXCEPT ![t].whom = hdr[queue[loc[t].cur]].p, ![t].q = queue[loc[t].cur]]
        BY Zenon, <3>1, <3>3, <1>t, Flow DEF GateScan, mnt, Goto
      <4> QED
        BY Zenon, <4>1, <1>t DEF Locs
    <3> QED
      BY Zenon, <3>1, <3>2, <3>3
  <2> QED
    BY Zenon, <2>1, <2>2, <2>3, <2>4, WakeKeeps
<1> QED
  BY Zenon, <1>1, <1>2, <1>3, <1>4

-----------------------------------------------------------------------------
(* t waits for the reply to what it wrote. *)
Waits(t) ==
  pc[t] \notin {"out", "queue", "write", "free", "failed", "error"} /\ ~loc[t].err /\ ~Mine(t).done

(* The request, reply and done of an RPC change by steps of its own thread *)
(* and by mountmux only.                                                   *)
LEMMA HeaderKept ==
  ASSUME IInv, NEW t \in Threads, mntralloc(t) \/ Run(t), ~mountmux(t),
         NEW u \in Threads \ {t}, Busy(u)
  PROVE  /\ Mine(u).request' = Mine(u).request
         /\ Mine(u).reply' = Mine(u).reply
         /\ Mine(u).done' = Mine(u).done
<1>t. /\ hdr \in [Tags -> Hdrs] /\ loc \in [Threads -> Locs] /\ loc[u].r \in Tags
      /\ Busy(t) => loc[t].r # loc[u].r
      /\ loc'[u] = loc[u]
  BY Zenon, Typed, Others DEF IInv, RpcInv, TagsUnique
<1> DEFINE h == loc[u].r
<1>1. /\ hdr'[h].request = hdr[h].request /\ hdr'[h].reply = hdr[h].reply
      /\ hdr'[h].done = hdr[h].done
  <2>1. CASE hdr' = hdr
    BY Zenon, <2>1
  <2>2. CASE mntralloc(t)
    <3>1. PICK new, rq : /\ hdr' = [hdr EXCEPT ![new].done = FALSE, ![new].request = rq, ![new].reply = NoReply]
                         /\ loc' = [loc EXCEPT ![t] = [NoLocals EXCEPT !.r = new]]
                         /\ pc' = [pc EXCEPT ![t] = "queue"]
      BY Zenon, <2>2 DEF mntralloc, Step, Goto
    <3>2. pc'[t] = "queue" /\ pc'[u] = pc[u] /\ loc'[t].r = new
      BY Zenon, <3>1, Typed DEF NoLocals
    <3>3. loc'[u].r # loc'[t].r
      <4>1. TagsUnique'
        BY Zenon, <2>2, InvStep DEF Next, IInv, RpcInv
      <4> QED
        BY Zenon, <4>1, <3>2 DEF TagsUnique, Busy
    <3> QED
      BY Zenon, <3>1, <3>2, <3>3, <1>t
  <2>3. CASE SleepStore(t) \/ WakeClear(t) \/ GateClear(t)
    <3>1. PICK g, v : hdr' = [hdr EXCEPT ![g].p = v]
      BY Zenon, <2>3 DEF SleepStore, WakeClear, GateClear
    <3> QED
      BY Zenon, <3>1, <1>t DEF Hdrs
  <2>4. CASE (mntrpcread(t) \/ mntflushfree(t) \/ mntfree(t)) /\ hdr' # hdr
    <3>1. PICK v : hdr' = [hdr EXCEPT ![loc[t].r] = v]
      <4>1. CASE mntrpcread(t)
        BY Zenon, <2>4, <4>1 DEF mntrpcread, ReadReply, ReadFails, ReadDone, mnt
      <4>2. CASE mntflushfree(t)
        BY Zenon, <2>4, <4>2 DEF mntflushfree
      <4>3. CASE mntfree(t) /\ Len(rpcfree) >= MaxFree
        BY Zenon, <4>3 DEF mntfree
      <4>4. CASE mntfree(t) /\ ~(Len(rpcfree) >= MaxFree)
        <5>1. hdr' = [hdr EXCEPT ![loc[t].r].request = None, ![loc[t].r].reply = NoReply]
          BY Zenon, <4>4 DEF mntfree
        <5>2. hdr' = [hdr EXCEPT ![loc[t].r] = [@ EXCEPT !.request = None, !.reply = NoReply]]
          BY Zenon, <5>1, <1>t DEF Hdrs
        <5> QED
          BY Zenon, <5>2
      <4> QED
        BY Zenon, <2>4, <4>1, <4>2, <4>3, <4>4
    <3>2. Busy(t)
      BY Zenon, <2>4, Flow DEF Busy
    <3> QED
      BY Zenon, <3>1, <3>2, <1>t
  <2> QED
    BY Zenon, <2>1, <2>2, <2>3, <2>4 DEF Run, MountioQueue, MountioWrite, Gate,
         SleepTest, Check, WakeLoad, GateOpen, GateScan, GateShut, L4Rendezvous, Error, mnt
<1> QED
  BY Zenon, <1>1, <1>t DEF Mine

(* ... and those of t's own by these. *)
LEMMA OwnHeaderKept ==
  ASSUME IInv, NEW t \in Threads, Run(t), ~mountmux(t), ~mntfree(t)
  PROVE  /\ loc'[t].r = loc[t].r /\ Busy(t)
         /\ Mine(t).request' = Mine(t).request
         /\ ~mntflushfree(t) => Mine(t).done' = Mine(t).done
         /\ ~mntrpcread(t) => Mine(t).reply' = Mine(t).reply
         /\ ~Error(t) => loc'[t].err = loc[t].err
<1>t. /\ hdr \in [Tags -> Hdrs] /\ loc \in [Threads -> Locs] /\ Busy(t) /\ loc[t].r \in Tags
  <2>1. Busy(t)
    BY Zenon, Flow DEF Run, Busy
  <2> QED
    BY Zenon, <2>1, Typed
<1>1. loc'[t].r = loc[t].r /\ (~Error(t) => loc'[t].err = loc[t].err)
  <2>1. CASE loc' = loc
    BY Zenon, <2>1
  <2>2. CASE L4Rendezvous(t)
    <3>1. PICK v, c : loc' = [loc EXCEPT ![t].whom = v, ![t].q = c]
      BY Zenon, <2>2 DEF L4Rendezvous
    <3> QED
      BY Zenon, <3>1, <1>t DEF Locs
  <2>3. CASE WakeLoad(t)
    <3>1. PICK v : loc' = [loc EXCEPT ![t].whom = v] \/ loc' = [loc EXCEPT ![t].q = v]
      BY Zenon, <2>3 DEF WakeLoad
    <3>2. CASE loc' = [loc EXCEPT ![t].whom = v]
      BY Zenon, <3>2, <1>t DEF Locs
    <3>3. CASE loc' = [loc EXCEPT ![t].q = v]
      BY Zenon, <3>3, <1>t DEF Locs
    <3> QED
      BY Zenon, <3>1, <3>2, <3>3
  <2>4. CASE GateOpen(t) \/ GateShut(t) \/ (GateScan(t) /\ loc' # loc)
    <3>1. PICK v, c : loc' = [loc EXCEPT ![t].cur = v] \/ loc' = [loc EXCEPT ![t].whom = v, ![t].q = c]
      BY Zenon, <2>4 DEF GateOpen, GateShut, GateScan
    <3> QED
      BY <3>1, <1>t DEF Locs
  <2>5. CASE Error(t)
    <3>1. PICK v : loc' = [loc EXCEPT ![t].err = v]
      BY Zenon, <2>5 DEF Error
    <3> QED
      BY Zenon, <2>5, <3>1, <1>t DEF Locs
  <2> QED
    BY Zenon, <2>1, <2>2, <2>3, <2>4, <2>5 DEF Run, MountioQueue, MountioWrite, Gate, SleepTest,
         SleepStore, Check, mntrpcread, ReadReply, ReadFails, ReadDone, WakeClear, GateClear, mntflushfree
<1>2. /\ hdr'[loc[t].r].request = hdr[loc[t].r].request
      /\ ~mntflushfree(t) => hdr'[loc[t].r].done = hdr[loc[t].r].done
      /\ ~mntrpcread(t) => hdr'[loc[t].r].reply = hdr[loc[t].r].reply
  <2>1. CASE hdr' = hdr
    BY Zenon, <2>1
  <2>2. CASE SleepStore(t) \/ WakeClear(t) \/ GateClear(t)
    <3>1. PICK g, v : hdr' = [hdr EXCEPT ![g].p = v]
      BY Zenon, <2>2 DEF SleepStore, WakeClear, GateClear
    <3> QED
      BY Zenon, <3>1, <1>t DEF Hdrs
  <2>3. CASE mntrpcread(t) /\ hdr' # hdr
    <3>1. PICK v : hdr' = [hdr EXCEPT ![loc[t].r].reply = v]
      BY Zenon, <2>3 DEF mntrpcread, ReadReply, ReadFails, ReadDone, mnt
    <3> QED
      BY Zenon, <2>3, <3>1, <1>t DEF Hdrs
  <2>4. CASE mntflushfree(t) /\ hdr' # hdr
    <3>1. hdr' = [hdr EXCEPT ![loc[t].r].done = TRUE]
      BY Zenon, <2>4 DEF mntflushfree
    <3> QED
      BY Zenon, <2>4, <3>1, <1>t DEF Hdrs
  <2> QED
    BY Zenon, <2>1, <2>2, <2>3, <2>4 DEF Run, MountioQueue, MountioWrite, Gate,
         SleepTest, Check, WakeLoad, GateOpen, GateScan, GateShut, L4Rendezvous, Error, mnt
<1> QED
  BY Zenon, <1>1, <1>2, <1>t DEF Mine

(* Every step but mountmux and the reader's error keeps who waits. *)
LEMMA WaitsKept ==
  ASSUME IInv, NEW t \in Threads, mntralloc(t) \/ Run(t), ~mountmux(t),
         ~(mntrpcread(t) /\ pc'[t] = "error"), NEW w \in Threads, Waits(w)
  PROVE  Waits(w)' /\ loc'[w].r = loc[w].r /\ Mine(w).request' = Mine(w).request
<1>1. CASE w # t
  <2>1. Busy(w) /\ loc'[w] = loc[w] /\ (pc'[w] = pc[w] \/ pc'[w] = "check")
    BY Zenon, <1>1, Others DEF Waits, Busy
  <2> QED
    BY Zenon, <1>1, <2>1, HeaderKept DEF Waits
<1>2. CASE w = t
  <2>1. ~mntralloc(t) /\ ~mntfree(t) /\ ~MountioQueue(t) /\ ~MountioWrite(t) /\ ~Error(t)
    BY Zenon, <1>2, Flow DEF Waits
  <2>2. ~mntflushfree(t)
    BY Zenon, <1>2, Flow DEF Waits, IInv, LocalsFit, Fits
  <2>3. pc'[t] \notin {"out", "queue", "write", "free", "failed", "error"}
    BY Zenon, <1>2, <2>1, <2>2, Flow DEF Waits, Run
  <2> QED
    BY Zenon, <1>2, <2>1, <2>2, <2>3, OwnHeaderKept DEF Waits
<1> QED
  BY Zenon, <1>1, <1>2

(* A message stays awaited if the thread that waits for it stays. *)
LEMMA AwaitedKept ==
  ASSUME NEW tag, NEW req, Awaited(tag, req),
         \A w \in Threads : Waits(w) /\ loc[w].r = tag =>
           Waits(w)' /\ loc'[w].r = loc[w].r /\ Mine(w).request' = Mine(w).request
  PROVE  Awaited(tag, req)'
BY Zenon DEF Awaited, Waits

(* MessageInv in three parts: the messages have different tags, each is    *)
(* awaited, and so is the one the reader is about to hand over.            *)
Distinct ==
  /\ hungup => srv = {}
  /\ \A i \in DOMAIN wire : /\ \A m \in srv : m.tag # wire[i].tag
                            /\ \A j \in DOMAIN wire : wire[i].tag = wire[j].tag => i = j
AllAwaited ==
  /\ \A m \in srv : Awaited(m.tag, m.req)
  /\ \A i \in DOMAIN wire : Awaited(wire[i].tag, wire[i].req)
MuxAwaited ==
  \A t \in Threads : pc[t] = "mux" =>
       /\ Awaited(Mine(t).reply.tag, Mine(t).reply.req)
       /\ \A m \in srv : m.tag # Mine(t).reply.tag
       /\ \A i \in DOMAIN wire : wire[i].tag # Mine(t).reply.tag

(* Every step keeps the messages in order. *)
LEMMA MessageStep ==
  ASSUME IInv, ReaderInv, MessageInv, ReplyInv, NEW t \in Threads, mntralloc(t) \/ Run(t), ~garbled'
  PROVE  MessageInv'
<1>i. IInv /\ ReaderInv /\ Distinct /\ AllAwaited /\ MuxAwaited /\ ReplyInv
  BY Zenon DEF MessageInv, Distinct, AllAwaited, MuxAwaited
<1>t. /\ hdr \in [Tags -> Hdrs] /\ loc \in [Threads -> Locs] /\ pc \in [Threads -> Places]
      /\ srv \subseteq Msgs /\ wire \in Seq(Msgs)
      /\ \A u, v \in Threads : Busy(u) /\ Busy(v) /\ loc[u].r = loc[v].r => u = v
  BY Zenon, <1>i, Typed DEF IInv, RpcInv, TagsUnique
<1>o. /\ \A u \in Threads \ {t} : loc'[u] = loc[u]
      /\ \A u \in Threads \ {t} : pc'[u] = "mux" <=> pc[u] = "mux"
  BY Zenon, <1>i, Others
<1>a. \A u \in Threads \ {t} : Reading(t) => ~Reading(u) /\ pc[u] # "mux"
  BY Zenon, <1>i, Alone DEF Hold, Reading
<1>k. ASSUME NEW tag, NEW req, Awaited(tag, req), ~mountmux(t), ~(mntrpcread(t) /\ pc'[t] = "error")
      PROVE  Awaited(tag, req)'
  BY Zenon, <1>k, <1>i, WaitsKept, AwaitedKept
<1>1. CASE MountioWrite(t)
  <2>1. pc[t] = "write" /\ UNCHANGED <<wire, hungup, loc, hdr>> /\ pc'[t] \in {"failed", "gate"}
    BY Zenon, <1>1, <1>i, Flow DEF MountioWrite, mnt
  <2>2. ~mountmux(t) /\ ~mntrpcread(t)
    BY Zenon, <2>1 DEF mountmux, Step, mntrpcread, ReadReply, ReadFails, ReadDone
  <2>3. ASSUME srv' = srv PROVE MuxAwaited' /\ Distinct' /\ AllAwaited'
    <3>1. Distinct' /\ AllAwaited'
      BY Zenon, <2>1, <2>2, <2>3, <1>i, <1>k DEF Distinct, AllAwaited
    <3>2. MuxAwaited'
      <4>1. \A m, n : Awaited(m, n) => Awaited(m, n)'
        BY Zenon, <2>2, <1>k
      <4> QED
        BY Zenon, <4>1, <2>1, <2>3, <1>i, <1>o DEF MuxAwaited, Mine
    <3> QED
      BY Zenon, <3>1, <3>2
  <2>4. ASSUME srv' # srv PROVE MuxAwaited' /\ Distinct' /\ AllAwaited'
    <3>x. PICK x : x = [tag |-> loc[t].r, req |-> Mine(t).request]
      BY Zenon
    <3>1. ~hungup /\ pc'[t] = "gate" /\ srv' = srv \cup {x}
      BY Zenon, <2>4, <3>x, <1>1, <1>t DEF MountioWrite, Goto
    <3>y. x.tag = loc[t].r /\ x.req = Mine(t).request
      BY Zenon, <3>x
    <3>2. Awaited(x.tag, x.req)'
      BY Zenon, <2>1, <3>1, <3>y, <1>i DEF ReplyInv, Awaited, Mine
    <3>3. \A req : ~Awaited(x.tag, req)
      BY Zenon, <2>1, <3>y, <1>t DEF Awaited, Busy
    <3>k. \A m, n : Awaited(m, n) => Awaited(m, n)'
      BY Zenon, <2>2, <1>k
    <3>4. AllAwaited'
      BY Zenon, <2>1, <3>1, <3>2, <3>k, <1>i DEF AllAwaited
    <3>5. Distinct'
      BY Zenon, <2>1, <3>1, <3>3, <1>i DEF Distinct, AllAwaited
    <3>6. MuxAwaited'
      BY Zenon, <2>1, <3>1, <3>3, <3>k, <1>i, <1>o DEF MuxAwaited, Mine
    <3> QED
      BY Zenon, <3>4, <3>5, <3>6
  <2> QED
    BY Zenon, <2>3, <2>4 DEF MessageInv, Distinct, AllAwaited, MuxAwaited
<1>2. CASE mntrpcread(t) /\ pc'[t] = "mux"
  <2>1. /\ pc[t] = "read" /\ wire # <<>> /\ wire' = Tail(wire) /\ ~Mine(t).done
        /\ hdr' = [hdr EXCEPT ![loc[t].r].reply = Head(wire)]
        /\ UNCHANGED <<loc, srv, hungup>>
    <3>0. ~ReadFails(t) /\ ~ReadDone(t)
      BY Zenon, <1>2, <1>t DEF ReadFails, ReadDone, Goto, Step
    <3>1. ReadReply(t) /\ pc[t] = "read"
      BY Zenon, <3>0, <1>2, <1>i, Flow DEF mntrpcread
    <3>2. {g \in Tags : \E u \in Threads \ {t} : Reading(u)} = {}
      BY Zenon, <3>1, <1>a DEF Reading
    <3>3. \A m : m \in {Head(wire)} \cup
             {[tag |-> h, req |-> None] : h \in {g \in Tags : \E u \in Threads \ {t} : Reading(u)}}
             => m = Head(wire)
      BY Zenon, <3>2
    <3> QED
      BY Zenon, <3>1, <3>3 DEF ReadReply
  <2>2. ~mountmux(t) /\ pc'[t] # "error"
    BY Zenon, <1>2, <2>1 DEF mountmux
  <2>3. /\ 1 \in DOMAIN wire /\ Head(wire) = wire[1]
        /\ \A i \in DOMAIN wire' : i + 1 \in DOMAIN wire /\ wire'[i] = wire[i+1] /\ i + 1 # 1 /\ i \in Nat
    BY <2>1, <1>t
  <2>4. Mine(t).reply' = wire[1]
    <3>1. loc[t].r \in Tags
      BY Zenon, <2>1, <1>i, Typed DEF Busy
    <3>3. hdr'[loc[t].r].reply = Head(wire)
      BY Zenon, <2>1, <3>1, <1>t DEF Hdrs
    <3> QED
      BY Zenon, <3>3, <2>1, <2>3 DEF Mine
  <2>5. AllAwaited'
    BY Zenon, <2>1, <2>2, <2>3, <1>i, <1>k DEF AllAwaited
  <2>6. Distinct'
    <3>1. \A i \in DOMAIN wire' : \A m \in srv' : m.tag # wire'[i].tag
      BY <2>1, <2>3, <1>i DEF Distinct
    <3>2. ASSUME NEW i \in DOMAIN wire', NEW j \in DOMAIN wire', wire'[i].tag = wire'[j].tag
          PROVE  i = j
      <4>1. i + 1 = j + 1
        BY <3>2, <2>3, <1>i DEF Distinct
      <4> QED
        BY <4>1, <2>3
    <3> QED
      BY Zenon, <3>1, <3>2, <2>1, <1>i DEF Distinct
  <2>7. \A u \in Threads \ {t} : pc'[u] # "mux"
    BY Zenon, <2>1, <1>a, <1>o DEF Reading
  <2>h. PICK m : m = wire[1]
    BY Zenon
  <2>8. /\ Awaited(m.tag, m.req)'
        /\ \A n \in srv' : n.tag # m.tag
        /\ \A i \in DOMAIN wire' : wire'[i].tag # m.tag
    BY Zenon, <2>1, <2>2, <2>3, <2>h, <1>i, <1>k DEF AllAwaited, Distinct
  <2>9. MuxAwaited'
    BY Zenon, <2>4, <2>7, <2>8, <2>h, <1>2 DEF MuxAwaited
  <2> QED
    BY Zenon, <2>5, <2>6, <2>9 DEF MessageInv, Distinct, AllAwaited, MuxAwaited
<1>3. CASE mntrpcread(t) /\ pc'[t] = "error"
  <2>1. pc[t] = "read" /\ wire = <<>> /\ hungup /\ UNCHANGED <<wire, srv, hungup>>
    <3>1. ReadFails(t)
      BY Zenon, <1>3, <1>t DEF mntrpcread, ReadReply, ReadDone, Goto, Step
    <3> QED
      BY Zenon, <3>1 DEF ReadFails, Step
  <2>2. srv' = {} /\ DOMAIN wire' = {}
    BY <2>1, <1>i DEF Distinct
  <2>3. \A u \in Threads : pc'[u] # "mux"
    BY Zenon, <2>1, <1>3, <1>a, <1>o DEF Reading
  <2> QED
    BY Zenon, <2>2, <2>3 DEF MessageInv
<1>4. CASE mountmux(t)
  <2> DEFINE q == Mine(t).reply.tag
  <2>1. /\ pc[t] = "mux" /\ pc'[t] \in {"read", "muxwake"} /\ UNCHANGED <<srv, wire, hungup>>
        /\ \/ hdr' = hdr
           \/ hdr' = [hdr EXCEPT ![q].done = TRUE, ![q].reply = Mine(t).reply]
    BY Zenon, <1>4, <1>i, Flow DEF mountmux, conn
  <2>l. loc'[t].r = loc[t].r /\ loc'[t].err = loc[t].err
    <3>1. loc' = loc \/ \E v : loc' = [loc EXCEPT ![t].q = v]
      BY Zenon, <1>4 DEF mountmux
    <3> QED
      BY Zenon, <3>1, <1>t DEF Locs
  <2>2. \A u \in Threads : pc'[u] # "mux"
    BY Zenon, <2>1, <1>a, <1>o DEF Reading
  <2>3. ASSUME NEW tag, NEW req, Awaited(tag, req), tag # q PROVE Awaited(tag, req)'
    <3>1. ASSUME NEW w \in Threads, Waits(w), loc[w].r = tag
          PROVE  Waits(w)' /\ loc'[w].r = loc[w].r /\ Mine(w).request' = Mine(w).request
      <4>1. loc[w].r \in Tags /\ loc[w].r # q /\ loc'[w].r = loc[w].r /\ loc'[w].err = loc[w].err
        BY Zenon, <3>1, <2>l, <2>3, <1>i, <1>o, Typed DEF Waits, Busy
      <4>2. hdr'[loc[w].r] = hdr[loc[w].r]
        BY Zenon, <4>1, <2>1, <1>t
      <4>3. pc'[w] = pc[w] \/ pc'[w] \in {"check", "read", "muxwake"}
        BY Zenon, <2>1, <1>i, Others
      <4> QED
        BY Zenon, <3>1, <4>1, <4>2, <4>3 DEF Waits, Mine
    <3> QED
      BY Zenon, <2>3, <3>1, AwaitedKept
  <2>4. (\A m \in srv : m.tag # q) /\ \A i \in DOMAIN wire : wire[i].tag # q
    BY Zenon, <2>1, <1>i DEF MuxAwaited
  <2>5. AllAwaited'
    BY Zenon, <2>1, <2>3, <2>4, <1>i DEF AllAwaited
  <2>6. Distinct'
    BY Zenon, <2>1, <1>i DEF Distinct
  <2> QED
    BY Zenon, <2>2, <2>5, <2>6 DEF MessageInv, Distinct, AllAwaited, MuxAwaited
<1>5. CASE ~MountioWrite(t) /\ ~mountmux(t) /\ ~(mntrpcread(t) /\ pc'[t] \in {"mux", "error"})
  <2>1. UNCHANGED <<srv, wire, hungup>>
    <3>1. mntrpcread(t) => UNCHANGED <<srv, wire, hungup>>
      <4>1. ~ReadReply(t) /\ ~ReadFails(t)
        BY Zenon, <1>5, <1>t DEF mntrpcread, ReadReply, ReadFails, Goto, Step
      <4> QED
        BY Zenon, <4>1 DEF mntrpcread, ReadDone, conn
    <3> QED
      BY Zenon, <1>5, <3>1 DEF Run, mntralloc, MountioQueue, Gate, SleepTest, SleepStore, Check,
           WakeLoad, WakeClear, GateOpen, GateScan, GateClear, GateShut, L4Rendezvous, Error,
           mntflushfree, mntfree, conn
  <2>2. pc'[t] # "mux"
    BY Zenon, <1>5, <1>i, Flow DEF Run
  <2>3. Distinct' /\ AllAwaited'
    BY Zenon, <2>1, <1>5, <1>i, <1>k DEF Distinct, AllAwaited
  <2>4. ASSUME NEW u \in Threads, pc'[u] = "mux"
        PROVE  /\ Awaited(Mine(u).reply.tag, Mine(u).reply.req)'
               /\ \A m \in srv' : m.tag # Mine(u).reply.tag'
               /\ \A i \in DOMAIN wire' : wire'[i].tag # Mine(u).reply.tag'
    <3>1. u # t /\ pc[u] = "mux" /\ loc'[u] = loc[u]
      BY Zenon, <2>2, <2>4, <1>o
    <3>2. Mine(u).reply' = Mine(u).reply
      BY Zenon, <3>1, <1>5, <1>i, HeaderKept DEF Busy
    <3>3. Awaited(Mine(u).reply.tag, Mine(u).reply.req) /\ ~(mntrpcread(t) /\ pc'[t] = "error")
      BY Zenon, <3>1, <1>5, <1>i DEF MuxAwaited
    <3> DEFINE qq == Mine(u).reply.tag
               rr == Mine(u).reply.req
    <3>4. \A m, n : Awaited(m, n) => Awaited(m, n)'
      BY Zenon, <1>5, <1>k, <3>3
    <3>5. \E m, n : m = qq /\ n = rr /\ Awaited(m, n)'
      BY Zenon, <3>3, <3>4
    <3>6. Awaited(Mine(u).reply.tag, Mine(u).reply.req)'
      BY Zenon, <3>1, <3>2, <3>5 DEF Awaited
    <3> QED
      BY Zenon, <3>1, <3>2, <3>6, <2>1, <1>i DEF MuxAwaited
  <2>5. MuxAwaited'
    BY Zenon, <2>4 DEF MuxAwaited
  <2> QED
    BY Zenon, <2>3, <2>5 DEF MessageInv, Distinct, AllAwaited, MuxAwaited
<1> QED
  <2>1. mntrpcread(t) => pc'[t] \in {"mux", "error", "gateopen"}
    BY Zenon, <1>i, Flow
  <2> QED
    BY Zenon, <2>1, <1>1, <1>2, <1>3, <1>4, <1>5

-----------------------------------------------------------------------------
(* mountmux gives the reply it read to the RPC that wrote the request. *)
LEMMA MuxReply ==
  ASSUME IInv, MessageInv, ReplyInv, NEW t \in Threads, mountmux(t)
  PROVE  ReplyInv'
<1>i. IInv /\ ReplyInv
  OBVIOUS
<1>t. /\ hdr \in [Tags -> Hdrs] /\ loc \in [Threads -> Locs] /\ pc \in [Threads -> Places]
      /\ \A u \in Threads : Busy(u) => loc[u].r \in Tags
      /\ \A u, v \in Threads : Busy(u) /\ Busy(v) /\ loc[u].r = loc[v].r => u = v
  BY Zenon, <1>i, Typed DEF IInv, RpcInv, TagsUnique
<1> DEFINE q == Mine(t).reply.tag
<1>1. /\ pc[t] = "mux" /\ pc'[t] \in {"read", "muxwake"}
      /\ \/ hdr' = hdr
         \/ hdr' = [hdr EXCEPT ![q].done = TRUE, ![q].reply = Mine(t).reply]
  BY Zenon, <1>i, Flow DEF mountmux
<1>2. \A u \in Threads \ {t} : pc'[u] = pc[u] /\ loc'[u] = loc[u]
  BY Zenon, <1>1, <1>i, Others DEF Run, L4Rendezvous
<1>l. \A u \in Threads : loc'[u].r = loc[u].r /\ loc'[u].err = loc[u].err
  <2>1. loc' = loc \/ \E v : loc' = [loc EXCEPT ![t].q = v]
    BY Zenon DEF mountmux
  <2>2. CASE loc' = loc
    BY Zenon, <2>2
  <2>3. ASSUME NEW v, loc' = [loc EXCEPT ![t].q = v]
        PROVE  loc'[t].r = loc[t].r /\ loc'[t].err = loc[t].err
    BY Zenon, <2>3, <1>t DEF Locs
  <2> QED
    BY Zenon, <2>1, <2>2, <2>3, <1>2
<1>3. Awaited(q, Mine(t).reply.req)
  BY Zenon, <1>1 DEF MessageInv
<1>4. PICK w \in Threads : /\ loc[w].r = q /\ pc[w] \notin {"out", "queue", "write"}
                           /\ Mine(w).request = Mine(t).reply.req
  BY Zenon, <1>3 DEF Awaited
<1>5. ASSUME NEW u \in Threads
      PROVE  /\ pc'[u] \in {"queue", "write"} => ~Mine(u).done' /\ ~loc'[u].err
             /\ Busy(u)' /\ Mine(u).done' /\ ~loc'[u].err => Mine(u).reply.req' = Mine(u).request'
  <2>1. /\ pc[u] \in {"queue", "write"} => ~Mine(u).done /\ ~loc[u].err
        /\ Busy(u) /\ Mine(u).done /\ ~loc[u].err => Mine(u).reply.req = Mine(u).request
    BY Zenon, <1>i DEF ReplyInv
  <2>2. Busy(u)' <=> Busy(u)
    BY Zenon, <1>1, <1>2 DEF Busy
  <2>3. pc'[u] \in {"queue", "write"} => pc[u] \in {"queue", "write"}
    BY Zenon, <1>1, <1>2
  <2>4. CASE Busy(u) /\ u # w
    <3>1. hdr'[loc[u].r] = hdr[loc[u].r]
      BY <2>4, <1>1, <1>4, <1>t DEF Busy
    <3> QED
      BY Zenon, <3>1, <2>1, <2>2, <2>3, <1>l DEF Mine
  <2>5. CASE u = w /\ hdr' = hdr
    BY Zenon, <2>5, <2>1, <2>2, <2>3, <1>l DEF Mine
  <2>6. CASE u = w /\ hdr' # hdr
    <3>1. q \in Tags
      BY Zenon, <1>4, <1>t DEF Busy
    <3>2. PICK v : v = Mine(t).reply
      BY Zenon
    <3>3. hdr' = [hdr EXCEPT ![q].done = TRUE, ![q].reply = v]
      BY Zenon, <2>6, <3>2, <1>1
    <3>4. hdr'[q].reply = v /\ hdr'[q].request = hdr[q].request
      BY Zenon, <3>1, <3>3, <1>t DEF Hdrs
    <3>5. pc'[u] \notin {"queue", "write"}
      BY Zenon, <2>3, <2>6, <1>1, <1>2, <1>4
    <3>6. Mine(u).reply' = v /\ Mine(u).request' = Mine(u).request
      BY Zenon, <2>6, <3>4, <1>l, <1>4 DEF Mine
    <3> QED
      BY Zenon, <2>6, <3>2, <3>5, <3>6, <1>4
  <2>7. CASE ~Busy(u)
    BY Zenon, <2>7, <2>2, <2>3 DEF Busy
  <2> QED
    BY Zenon, <2>4, <2>5, <2>6, <2>7
<1> QED
  BY Zenon, <1>5 DEF ReplyInv

(* Every step keeps replies with their requests. *)
LEMMA ReplyStep ==
  ASSUME IInv, MessageInv, ReplyInv, NEW t \in Threads, mntralloc(t) \/ Run(t)
  PROVE  ReplyInv'
<1>i. IInv /\ ReplyInv
  OBVIOUS
<1>t. /\ hdr \in [Tags -> Hdrs] /\ loc \in [Threads -> Locs] /\ pc \in [Threads -> Places]
  BY Zenon, <1>i, Typed
<1>1. ASSUME ~mountmux(t), NEW u \in Threads \ {t}
      PROVE  /\ pc'[u] \in {"queue", "write"} => ~Mine(u).done' /\ ~loc'[u].err
             /\ Busy(u)' /\ Mine(u).done' /\ ~loc'[u].err => Mine(u).reply.req' = Mine(u).request'
  <2>1. /\ pc[u] \in {"queue", "write"} => ~Mine(u).done /\ ~loc[u].err
        /\ Busy(u) /\ Mine(u).done /\ ~loc[u].err => Mine(u).reply.req = Mine(u).request
    BY Zenon, <1>i DEF ReplyInv
  <2>2. /\ Busy(u)' => Busy(u) /\ loc'[u] = loc[u]
        /\ pc'[u] \in {"queue", "write"} => pc[u] \in {"queue", "write"}
    BY Zenon, <1>i, Others DEF Busy
  <2>3. CASE Busy(u)
    <3>1. /\ Mine(u).request' = Mine(u).request /\ Mine(u).reply' = Mine(u).reply
          /\ Mine(u).done' = Mine(u).done /\ loc'[u] = loc[u]
      BY <2>3, <1>1, <1>i, HeaderKept, Others
    <3> QED
      BY Zenon, <2>1, <2>2, <3>1
  <2>4. CASE ~Busy(u)
    BY Zenon, <2>2, <2>4 DEF Busy
  <2> QED
    BY Zenon, <2>3, <2>4
<1>2. ASSUME ~mountmux(t)
      PROVE  /\ pc'[t] \in {"queue", "write"} => ~Mine(t).done' /\ ~loc'[t].err
             /\ Busy(t)' /\ Mine(t).done' /\ ~loc'[t].err => Mine(t).reply.req' = Mine(t).request'
  <2>1. /\ pc[t] \in {"queue", "write"} => ~Mine(t).done /\ ~loc[t].err
        /\ Busy(t) /\ Mine(t).done /\ ~loc[t].err => Mine(t).reply.req = Mine(t).request
    BY Zenon, <1>i DEF ReplyInv
  <2>2. CASE mntralloc(t)
    <3>1. PICK new, rq : /\ hdr' = [hdr EXCEPT ![new].done = FALSE, ![new].request = rq, ![new].reply = NoReply]
                         /\ loc' = [loc EXCEPT ![t] = [NoLocals EXCEPT !.r = new]]
      BY Zenon, <2>2 DEF mntralloc
    <3>2. loc'[t].r = new /\ ~loc'[t].err /\ pc'[t] = "queue"
      BY Zenon, <3>1, <2>2, <1>t, <1>i, Flow DEF NoLocals
    <3>3. loc'[t].r \in Tags
      <4>1. TagsUnique' /\ TypeOK'
        BY Zenon, <2>2, <1>i, InvStep DEF Next, IInv, RpcInv
      <4> QED
        BY Zenon, <4>1, <3>2 DEF TagsUnique, TypeOK, Busy
    <3>4. ~hdr'[new].done
      BY Zenon, <3>1, <3>2, <3>3, <1>t DEF Hdrs
    <3> QED
      BY Zenon, <3>2, <3>4 DEF Mine
  <2>3. CASE mntfree(t)
    BY Zenon, <2>3, <1>i, Flow DEF Busy
  <2>4. CASE mntflushfree(t)
    <3>1. loc[t].err /\ pc'[t] = "free"
      BY Zenon, <2>4, <1>i, Flow DEF IInv, LocalsFit, Fits
    <3> QED
      BY Zenon, <3>1, <2>4 DEF mntflushfree
  <2>5. CASE Run(t) /\ ~mntfree(t) /\ ~mntflushfree(t) /\ ~Error(t)
    <3>1. /\ Busy(t) /\ Mine(t).request' = Mine(t).request /\ Mine(t).done' = Mine(t).done
          /\ loc'[t].err = loc[t].err /\ (~mntrpcread(t) => Mine(t).reply' = Mine(t).reply)
      BY Zenon, <2>5, <1>2, <1>i, OwnHeaderKept
    <3>2. pc'[t] \in {"queue", "write"} => pc[t] = "queue"
      BY Zenon, <2>5, <1>2, <1>i, Flow DEF Run
    <3>3. mntrpcread(t) => Mine(t).reply' = Mine(t).reply \/ ~Mine(t).done
      <4>1. mntrpcread(t) => ~Mine(t).done \/ (hdr' = hdr)
        BY Zenon DEF mntrpcread, ReadReply, ReadFails, ReadDone, mnt
      <4>2. loc'[t].r = loc[t].r
        BY Zenon, <2>5, <1>2, <1>i, OwnHeaderKept
      <4> QED
        BY Zenon, <4>1, <4>2 DEF Mine
    <3> QED
      BY Zenon, <2>1, <3>1, <3>2, <3>3
  <2>6. CASE Error(t)
    <3>1. pc'[t] \in {"gateopen", "qrm"}
      BY Zenon, <2>6, <1>i, Flow
    <3>2. loc'[t].err
      <4>1. PICK v \in {TRUE} : loc' = [loc EXCEPT ![t].err = v]
        BY Zenon, <2>6 DEF Error
      <4> QED
        BY Zenon, <4>1, <1>t DEF Locs
    <3> QED
      BY Zenon, <3>1, <3>2
  <2> QED
    BY Zenon, <2>2, <2>3, <2>4, <2>5, <2>6
<1>3. ASSUME ~mountmux(t) PROVE ReplyInv'
  BY Zenon, <1>1, <1>2, <1>3 DEF ReplyInv
<1> QED
  BY Zenon, <1>3, MuxReply

(* The server's steps keep the gate and the messages in order. *)
LEMMA ServerGate ==
  ASSUME ReaderInv, WakeInv, Answer \/ Hangup
  PROVE  ReaderInv' /\ WakeInv'
<1>1. UNCHANGED <<rpcfree, exist, hdr, queue, rip, mlock, pc, loc, nrpc>>
  BY Zenon DEF Answer, Hangup, mnt
<1> QED
  BY Zenon, <1>1 DEF ReaderInv, WakeInv, Hold, Reading, Mine

LEMMA ServerKeeps ==
  ASSUME IInv, MessageInv, ReplyInv, Answer \/ Hangup
  PROVE  MessageInv' /\ ReplyInv'
<1>1. UNCHANGED <<rpcfree, exist, hdr, queue, rip, mlock, pc, loc, nrpc>>
  BY Zenon DEF Answer, Hangup, mnt
<1>3. ReplyInv'
  BY Zenon, <1>1 DEF ReplyInv, Mine, Busy
<1>k. \A m, n : Awaited(m, n) => Awaited(m, n)'
  BY Zenon, <1>1 DEF Awaited, Mine
<1>i. Distinct /\ AllAwaited /\ MuxAwaited
  BY Zenon DEF MessageInv, Distinct, AllAwaited, MuxAwaited
<1>t. /\ srv \subseteq Msgs /\ wire \in Seq(Msgs)
      /\ \A u, v \in Threads : Busy(u) /\ Busy(v) /\ loc[u].r = loc[v].r => u = v
  BY Zenon, Typed DEF IInv, RpcInv, TagsUnique
<1>4. CASE Hangup
  <2>1. hungup' /\ srv' = {} /\ wire' = wire
    BY Zenon, <1>4 DEF Hangup
  <2>2. Distinct' /\ AllAwaited'
    BY Zenon, <2>1, <1>i, <1>k DEF Distinct, AllAwaited
  <2>3. MuxAwaited'
    BY Zenon, <2>1, <1>1, <1>i, <1>k DEF MuxAwaited, Mine
  <2> QED
    BY Zenon, <1>3, <2>2, <2>3 DEF MessageInv, Distinct, AllAwaited, MuxAwaited
<1>5. CASE Answer
  <2>1. PICK q \in srv : srv' = srv \ {q} /\ wire' = Append(wire, q) /\ hungup' = hungup
    BY Zenon, <1>5 DEF Answer
  <2>2. /\ \A i \in DOMAIN wire' : \/ i \in DOMAIN wire /\ wire'[i] = wire[i]
                                   \/ i = Len(wire) + 1 /\ wire'[i] = q
        /\ Len(wire) \in Nat
    BY <2>1, <1>t
  <2>3. \A m \in srv : m # q => m.tag # q.tag
    <3>1. ASSUME NEW m \in srv, m.tag = q.tag PROVE m.req = q.req
      BY Zenon, <3>1, <1>i, <1>t DEF AllAwaited, Awaited, Busy
    <3>2. \A m \in srv : m.tag = q.tag => m = q
      BY <3>1, <1>t DEF Msgs
    <3> QED
      BY Zenon, <3>2
  <2>4. AllAwaited'
    BY Zenon, <2>1, <2>2, <1>i, <1>k DEF AllAwaited
  <2>5. Distinct'
    <3>1. \A i \in DOMAIN wire' : \A m \in srv' : m.tag # wire'[i].tag
      BY Zenon, <2>1, <2>2, <2>3, <1>i DEF Distinct
    <3>2. \A i \in DOMAIN wire', j \in DOMAIN wire' : wire'[i].tag = wire'[j].tag => i = j
      BY <2>1, <2>2, <1>i DEF Distinct
    <3> QED
      BY Zenon, <2>1, <3>1, <3>2, <1>i DEF Distinct
  <2>6. MuxAwaited'
    <3>1. \A u \in Threads : Mine(u).reply' = Mine(u).reply
      BY Zenon, <1>1 DEF Mine
    <3>2. \A u \in Threads : pc'[u] = "mux" =>
            \A i \in DOMAIN wire' : wire'[i].tag # Mine(u).reply.tag'
      BY Zenon, <2>1, <2>2, <3>1, <1>1, <1>i DEF MuxAwaited
    <3> QED
      BY Zenon, <2>1, <3>2, <1>1, <1>i, <1>k DEF MuxAwaited, Mine
  <2> QED
    BY Zenon, <1>3, <2>4, <2>5, <2>6 DEF MessageInv, Distinct, AllAwaited, MuxAwaited
<1> QED
  BY Zenon, <1>4, <1>5

-----------------------------------------------------------------------------
(* The history is never taken back. *)
LEMMA HistStep ==
  ASSUME IInv, [Next]_vars
  PROVE  (~clash' => ~clash) /\ (~garbled' => ~garbled)
<1>t. clash \in BOOLEAN /\ garbled \in BOOLEAN
  BY Zenon, Typed
<1>1. ASSUME NEW t \in Threads, Error(t) PROVE (~clash' => ~clash) /\ (~garbled' => ~garbled)
  BY Zenon, <1>1, <1>t DEF Error
<1>2. ASSUME NEW t \in Threads, mntrpcread(t) PROVE (~clash' => ~clash) /\ (~garbled' => ~garbled)
  BY Zenon, <1>2, <1>t DEF mntrpcread, ReadReply, ReadFails, ReadDone, hist
<1>3. ASSUME NEW t \in Threads, mntralloc(t) \/ Run(t), ~Error(t), ~mntrpcread(t)
      PROVE  clash' = clash /\ garbled' = garbled
  BY Zenon, <1>3 DEF Run, mntralloc, MountioQueue, MountioWrite, Gate, SleepTest, SleepStore, Check,
       mountmux, WakeLoad, WakeClear, GateOpen, GateScan, GateClear, GateShut, L4Rendezvous,
       mntflushfree, mntfree, hist
<1>4. ASSUME NEW t \in Threads, mntralloc(t) \/ Run(t)
      PROVE  (~clash' => ~clash) /\ (~garbled' => ~garbled)
  <2>1. CASE clash' = clash /\ garbled' = garbled
    BY Zenon, <2>1
  <2> QED
    BY Zenon, <2>1, <1>1, <1>2, <1>3, <1>4
<1>5. ASSUME Answer \/ Hangup \/ UNCHANGED vars
      PROVE  (~clash' => ~clash) /\ (~garbled' => ~garbled)
  <2>1. clash' = clash /\ garbled' = garbled
    BY Zenon, <1>5 DEF Answer, Hangup, vars, hist
  <2> QED
    BY Zenon, <2>1
<1> QED
  BY Zenon, <1>4, <1>5 DEF Next

(* Every step keeps the invariant. *)
LEMMA GateStep == ASSUME IInv3, [Next]_vars PROVE IInv3'
<1>i. IInv
  BY Zenon DEF IInv3, IInv2
<1>h. (~clash' => ~clash) /\ (~garbled' => ~garbled)
  BY Zenon, <1>i, HistStep
<1>1. IInv'
  BY Zenon, <1>i, InvStep
<1>2. ASSUME ~clash' PROVE ReaderInv' /\ WakeInv'
  <2>1. ReaderInv /\ WakeInv
    BY Zenon, <1>2, <1>h DEF IInv3, IInv2
  <2>2. CASE UNCHANGED vars
    <3>1. UNCHANGED <<hdr, rip, mlock, pc, loc>>
      BY Zenon, <2>2 DEF vars, mnt
    <3> QED
      BY Zenon, <3>1, <2>1 DEF ReaderInv, WakeInv, Hold, Reading, Mine
  <2>3. ASSUME NEW t \in Threads, mntralloc(t) \/ Run(t) PROVE ReaderInv' /\ WakeInv'
    BY Zenon, <2>1, <2>3, <1>i, <1>2, ReaderStep, WakeupStep
  <2> QED
    BY Zenon, <2>1, <2>2, <2>3, ServerGate DEF Next
<1>3. ASSUME ~clash', ~garbled' PROVE MessageInv' /\ ReplyInv'
  <2>1. ReaderInv /\ MessageInv /\ ReplyInv
    BY Zenon, <1>3, <1>h DEF IInv3, IInv2
  <2>2. CASE UNCHANGED vars
    <3>1. UNCHANGED <<hdr, srv, wire, hungup, pc, loc>>
      BY Zenon, <2>2 DEF vars, mnt, conn
    <3> QED
      BY Zenon, <3>1, <2>1 DEF MessageInv, ReplyInv, Awaited, Mine, Busy
  <2>3. ASSUME NEW t \in Threads, mntralloc(t) \/ Run(t) PROVE MessageInv' /\ ReplyInv'
    BY Zenon, <2>1, <2>3, <1>i, <1>3, MessageStep, ReplyStep
  <2> QED
    BY Zenon, <2>1, <2>2, <2>3, <1>i, ServerKeeps DEF Next
<1> QED
  BY Zenon, <1>1, <1>2, <1>3 DEF IInv3, IInv2

(* Nobody reads, sleeps or waits for a reply at the start. *)
LEMMA GateInit == ASSUME Init PROVE IInv3
<1>1. IInv
  BY Zenon, InvInit
<1>2. /\ \A t \in Threads : pc[t] = "out"
      /\ \A h \in Tags : hdr[h].p = NoThread
      /\ rip = NoProc /\ mlock = FALSE /\ srv = {} /\ wire = <<>>
  BY Zenon DEF Init, NoHdr
<1>3. ReaderInv /\ WakeInv /\ ReplyInv
  <2>1. ReaderInv
    BY Zenon, <1>2 DEF ReaderInv, Hold, Reading, Gating
  <2>2. WakeInv
    BY Zenon, <1>2 DEF WakeInv
  <2>3. ReplyInv
    <3>1. \A t \in Threads : ~Busy(t) /\ pc[t] \notin {"queue", "write"}
      BY Zenon, <1>2 DEF Busy
    <3> QED
      BY Zenon, <3>1 DEF ReplyInv
  <2> QED
    BY Zenon, <2>1, <2>2, <2>3
<1>4. MessageInv
  BY <1>2 DEF MessageInv
<1> QED
  BY Zenon, <1>1, <1>3, <1>4 DEF IInv3, IInv2

(* IInv3 holds in every reachable state. *)
LEMMA GateAlways == Spec => []IInv3
<1>1. Init => IInv3
  BY Zenon, GateInit
<1>2. IInv3 /\ [Next]_vars => IInv3'
  BY Zenon, GateStep
<1> QED
  BY <1>1, <1>2, PTL DEF Spec

(* mountio's gate (devmnt.c:1082): one reader at a time, and the gate is   *)
(* shut only for one that will open it, after bad messages and hangups     *)
(* too, for any number of threads and any assignment of them to processes; *)
(* until a thread whose write failed opens the gate that another thread of *)
(* its process holds (devmnt.c:1047).                                      *)
THEOREM GateExact == Spec => []OneReader
<1>1. IInv3 => OneReader
  <2> SUFFICES ASSUME IInv3, ~clash PROVE OneAtATime
    BY Zenon DEF OneReader
  <2>1. ReaderInv
    BY Zenon DEF IInv3, IInv2
  <2> QED
    BY Zenon, <2>1 DEF OneAtATime, ReaderInv, Hold
<1> QED
  BY <1>1, GateAlways, PTL

(* Every L4_Send of a wakeup (mountmux, mntgate) meets a sleeper, whom no  *)
(* other sender means; until the same event.                               *)
THEOREM WakeupsMeet == Spec => []SendsMeet
<1>1. IInv3 => SendsMeet
  <2> SUFFICES ASSUME IInv3, ~clash, NEW t \in Threads, pc[t] \in Clearing \cup Sending
               PROVE  /\ pc[loc[t].whom] = "sleep"
                      /\ \A u \in Threads \ {t} : pc[u] \notin Sending
    BY Zenon DEF SendsMeet, Clearing, Sending
  <2>i. IInv /\ ReaderInv /\ WakeInv
    BY Zenon DEF IInv3, IInv2
  <2>1. \A u \in Threads \ {t} : pc[u] \notin Sending
    BY Zenon, <2>i, Alone DEF Hold, Reading, Gating, Clearing, Sending
  <2>2. CASE pc[t] \in Sending
    BY Zenon, <2>i, <2>1, <2>2 DEF WakeInv, Sending
  <2>3. CASE pc[t] \in Clearing
    <3>1. loc[t].q \in Tags /\ loc[t].whom \in Threads
      BY Zenon, <2>i, <2>3 DEF IInv, LocalsFit, Fits, Clearing
    <3>2. hdr[loc[t].q].p = loc[t].whom /\ loc[t].whom # NoThread
      BY Zenon, <2>i, <2>3, <3>1, MntAssumption DEF WakeInv, Clearing
    <3> QED
      BY <2>i, <2>1, <3>1, <3>2 DEF WakeInv
  <2> QED
    BY Zenon, <2>2, <2>3
<1> QED
  BY <1>1, GateAlways, PTL

(* mountio without an error ends with the reply to the request it wrote,   *)
(* whichever thread read it, in whatever order the server answers; until   *)
(* two threads read at once or an RPC is given up for a bad message.       *)
THEOREM RepliesMatch == Spec => []OwnReply
<1>1. IInv3 => OwnReply
  <2> SUFFICES ASSUME IInv3, ~clash, ~garbled, NEW t \in Threads, pc[t] = "free", ~loc[t].err
               PROVE  Mine(t).reply.req = Mine(t).request
    BY Zenon DEF OwnReply
  <2>1. IInv /\ ReplyInv
    BY Zenon DEF IInv3, IInv2
  <2> QED
    BY Zenon, <2>1 DEF IInv, LocalsFit, Fits, ReplyInv, Busy
<1> QED
  BY <1>1, GateAlways, PTL
=============================================================================
