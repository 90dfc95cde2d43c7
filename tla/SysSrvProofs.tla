---------------------------- MODULE SysSrvProofs ----------------------------
(***************************************************************************)
(* Theorems about the system call server: for every finite set of clerks,  *)
(* any clients and any calls.                                              *)
(***************************************************************************)
EXTENDS SysSrv, ListLemmas, FiniteSetTheorems

-----------------------------------------------------------------------------
(* clerkpool_setup puts every clerk on the free list, once. *)
LEMMA SetupFacts ==
  ASSUME NEW q \in Injection(1..Cardinality(Clerks), Clerks)
  PROVE  q \in Seq(Clerks) /\ IsInjective(q) /\ \A k \in Clerks : k \in Range(q)
<1> DEFINE n == Cardinality(Clerks)
<1>1. n \in Nat
  BY FS_CardinalityType, SysSrvAssumption
<1>2. IsFiniteSet(1..n) /\ Cardinality(1..n) = n
  BY <1>1, FS_Interval
<1>3. q \in Surjection(1..n, Clerks)
  BY <1>2, FS_Injection, SysSrvAssumption
<1> HIDE DEF n
<1>4. q \in [1..n -> Clerks] /\ IsInjective(q)
  BY DEF Injection, n
<1>5. \A k \in Clerks : k \in Range(q)
  BY <1>3, <1>4 DEF Surjection, Range
<1>6. q \in Seq(Clerks)
  BY <1>1, <1>4
<1> QED
  BY <1>4, <1>5, <1>6

(* The invariant holds when the manager starts. *)
LEMMA InvInit == Init => IInv
<1> SUFFICES ASSUME Init PROVE IInv
  OBVIOUS
<1>1. pool \in Seq(Clerks) /\ IsInjective(pool) /\ \A k \in Clerks : k \in Range(pool)
  BY SetupFacts DEF Init
<1>2. TypeOK
  BY <1>1, SysSrvAssumption DEF Init, TypeOK, NoJob
<1>3. PoolExact
  BY <1>1, SysSrvAssumption DEF Init, PoolExact, Busy
<1>4. HoldsClerk /\ ServedInv
  BY DEF Init, HoldsClerk, ServedInv, Serving
<1> QED
  BY <1>2, <1>3, <1>4 DEF IInv

-----------------------------------------------------------------------------
(* Every step of a thread keeps the places of the clerks and the types. *)
LEMMA PlacesStep == IInv /\ [Next]_vars => TypeOK' /\ PoolExact' /\ HoldsClerk'
<1> SUFFICES ASSUME IInv, [Next]_vars PROVE TypeOK' /\ PoolExact' /\ HoldsClerk'
  OBVIOUS
<1> USE SysSrvAssumption
<1>0. TypeOK /\ PoolExact /\ HoldsClerk
  BY DEF IInv
<1>1. ASSUME NEW c \in Clients, ClientCall(c) PROVE TypeOK' /\ PoolExact' /\ HoldsClerk'
  BY <1>0, <1>1 DEF ClientCall, TypeOK, PoolExact, HoldsClerk, Busy
<1>2. CASE allocclerk
  <2>1. CASE pool = <<>>
    BY <1>0, <1>2, <2>1 DEF allocclerk, TypeOK, PoolExact, HoldsClerk, Busy
  <2>2. CASE pool # <<>>
    <3>1. /\ Head(pool) \in Clerks /\ Tail(pool) \in Seq(Clerks)
          /\ IsInjective(Tail(pool))
          /\ Head(pool) \in Range(pool) /\ Head(pool) \notin Range(Tail(pool))
          /\ \A k \in Clerks \ {Head(pool)} : k \in Range(Tail(pool)) <=> k \in Range(pool)
      BY <1>0, <2>2, TakeFacts DEF TypeOK, PoolExact
    <3>2. cp = NoClerk /\ mpc' = "wait" /\ cp' = Head(pool) /\ pool' = Tail(pool)
          /\ UNCHANGED <<cpc, job, cl, call, events>>
      BY <1>0, <1>2, <2>2 DEF allocclerk, HoldsClerk
    <3>3. TypeOK' /\ HoldsClerk'
      BY <1>0, <3>1, <3>2 DEF TypeOK, HoldsClerk
    <3>4. PoolExact'
      BY <1>0, <3>1, <3>2 DEF PoolExact, Busy
    <3> QED
      BY <3>3, <3>4
  <2> QED
    BY <2>1, <2>2
<1>3. ASSUME NEW c \in Clients, ManagerFails(c) PROVE TypeOK' /\ PoolExact' /\ HoldsClerk'
  <2>1. cp \in Clerks /\ cp \notin Range(pool) /\ ~Busy(cp)
    BY <1>0, <1>3 DEF ManagerFails, TypeOK, PoolExact, HoldsClerk
  <2>2. /\ pool' \in Seq(Clerks) /\ IsInjective(pool')
        /\ Range(pool') = Range(pool) \cup {cp}
    BY <1>0, <1>3, <2>1, PutFacts DEF ManagerFails, TypeOK, PoolExact
  <2>3. TypeOK' /\ HoldsClerk'
    BY <1>0, <1>3, <2>2 DEF ManagerFails, Back, TypeOK, HoldsClerk
  <2>4. mpc' = "alloc" /\ cp' = NoClerk /\ cpc' = cpc
    BY <1>3 DEF ManagerFails
  <2>5. PoolExact'
    BY <1>0, <2>1, <2>2, <2>4 DEF PoolExact, Busy
  <2> QED
    BY <2>3, <2>5
<1>4. ASSUME NEW c \in Clients, ManagerReceive(c) PROVE TypeOK' /\ PoolExact' /\ HoldsClerk'
  BY <1>0, <1>4 DEF ManagerReceive, TypeOK, PoolExact, HoldsClerk, Busy
<1>5. CASE ManagerSend
  BY <1>0, <1>5 DEF ManagerSend, TypeOK, PoolExact, HoldsClerk, Busy
<1>6. ASSUME NEW k \in Clerks, ClerkRun(k) PROVE TypeOK' /\ PoolExact' /\ HoldsClerk'
  <2>1. events' \in 0..MaxEvents
    BY <1>0, <1>6 DEF ClerkRun, TypeOK
  <2> QED
    BY <1>0, <1>6, <2>1 DEF ClerkRun, Clerk, TypeOK, PoolExact, HoldsClerk, Busy
<1>7. ASSUME NEW k \in Clerks, ClerkExec(k) \/ ClerkReply(k)
      PROVE  TypeOK' /\ PoolExact' /\ HoldsClerk'
  <2>1. /\ cl' \in [Clients -> {"user", "send", "wait", "dead"}]
        /\ call' \in [Clients -> Calls \cup {"none"}]
    BY <1>0, <1>7 DEF ClerkExec, ClerkReply, BackIfThere, Back, TypeOK
  <2>2. /\ Busy(k) /\ cpc' = [cpc EXCEPT ![k] = "free"]
        /\ UNCHANGED <<pool, mpc, cp, job, events>>
    BY <1>7 DEF ClerkExec, ClerkReply, Clerk, Busy
  <2> QED
    BY <1>0, <2>1, <2>2 DEF TypeOK, PoolExact, HoldsClerk, Busy
<1>8. ASSUME NEW k \in Clerks, ClerkExits(k) PROVE TypeOK' /\ PoolExact' /\ HoldsClerk'
  BY Zenon, <1>0, <1>8 DEF ClerkExits, Clerk, TypeOK, PoolExact, HoldsClerk, Busy
<1>9. ASSUME NEW k \in Clerks, freeclerk(k) PROVE TypeOK' /\ PoolExact' /\ HoldsClerk'
  <2>1. k \notin Range(pool) /\ k # cp
    BY <1>0, <1>9 DEF freeclerk, Clerk, PoolExact, Busy
  <2>2. /\ pool' \in Seq(Clerks) /\ IsInjective(pool')
        /\ Range(pool') = Range(pool) \cup {k}
    BY <1>0, <1>9, <2>1, PutFacts DEF freeclerk, TypeOK, PoolExact
  <2>3. TypeOK' /\ HoldsClerk'
    BY <1>0, <1>9, <2>2 DEF freeclerk, Clerk, NoJob, TypeOK, HoldsClerk
  <2>4. cpc' = [cpc EXCEPT ![k] = "loop"] /\ cp' = cp
    BY <1>9 DEF freeclerk, Clerk
  <2>5. PoolExact'
    BY <1>0, <2>1, <2>2, <2>4 DEF TypeOK, PoolExact, Busy
  <2> QED
    BY <2>3, <2>5
<1>10. ASSUME NEW k \in Clerks, ClerkLoop(k) PROVE TypeOK' /\ PoolExact' /\ HoldsClerk'
  BY <1>0, <1>10 DEF ClerkLoop, Clerk, TypeOK, PoolExact, HoldsClerk, Busy
<1>11. CASE UNCHANGED vars
  BY <1>0, <1>11 DEF vars, TypeOK, PoolExact, HoldsClerk, Busy
<1> QED
  BY <1>1, <1>2, <1>3, <1>4, <1>5, <1>6, <1>7, <1>8, <1>9, <1>10, <1>11
  DEF Next, Manager, Serve

-----------------------------------------------------------------------------
(* Every step of a thread keeps a client bound to the clerk that serves    *)
(* it: only the end of the service unbinds them.                           *)
LEMMA ServedStep == IInv /\ [Next]_vars => ServedInv'
<1> SUFFICES ASSUME IInv, [Next]_vars PROVE ServedInv'
  OBVIOUS
<1> USE SysSrvAssumption
<1>0. TypeOK /\ PoolExact /\ HoldsClerk /\ ServedInv
  BY DEF IInv
<1>1. ASSUME NEW c \in Clients, ClientCall(c) PROVE ServedInv'
  BY <1>0, <1>1 DEF ClientCall, TypeOK, ServedInv, Serving
<1>2. CASE allocclerk
  BY <1>0, <1>2 DEF allocclerk, ServedInv, Serving
<1>3. ASSUME NEW c \in Clients, ManagerFails(c) PROVE ServedInv'
  BY <1>0, <1>3 DEF ManagerFails, Back, TypeOK, ServedInv, Serving
<1>4. ASSUME NEW c \in Clients, ManagerReceive(c) PROVE ServedInv'
  <2>1. cp \in Clerks /\ ~Busy(cp)
    BY <1>0, <1>4 DEF ManagerReceive, TypeOK, PoolExact, HoldsClerk
  <2>2. /\ cl[c] = "send" /\ cl' = [cl EXCEPT ![c] = "wait"] /\ call' = call
        /\ job' = [job EXCEPT ![cp] = [client |-> c, op |-> call[c]]]
        /\ mpc = "wait" /\ mpc' = "send" /\ cpc' = cpc /\ cp' = cp
    BY <1>4 DEF ManagerReceive
  <2>3. job'[cp].client = c /\ job'[cp].op = call[c] /\ cl'[c] = "wait"
    BY <1>0, <2>1, <2>2 DEF TypeOK
  <2>4. ASSUME NEW k \in Clerks \ {cp}, Serving(k)'
        PROVE  /\ Serving(k) /\ job'[k] = job[k] /\ job[k].client # c
               /\ cl'[job[k].client] = cl[job[k].client]
    BY <1>0, <2>2, <2>4 DEF TypeOK, ServedInv, Serving
  <2> QED
    BY <1>0, <2>1, <2>2, <2>3, <2>4 DEF ServedInv
<1>5. CASE ManagerSend
  <2>1. \A k \in Clerks : Serving(k)' => Serving(k)
    BY <1>0, <1>5 DEF ManagerSend, TypeOK, Serving
  <2> QED
    BY <1>0, <1>5, <2>1 DEF ManagerSend, ServedInv
<1>6. ASSUME NEW k \in Clerks, ClerkRun(k) PROVE ServedInv'
  <2>1. \A j \in Clerks : Serving(j)' => Serving(j)
    BY <1>0, <1>6 DEF ClerkRun, Clerk, TypeOK, Serving
  <2> QED
    BY <1>0, <1>6, <2>1 DEF ClerkRun, ServedInv
<1>7. ASSUME NEW k \in Clerks, ClerkExec(k) \/ ClerkReply(k) PROVE ServedInv'
  <2>1. /\ cpc[k] \in {"run", "reply"} /\ cpc' = [cpc EXCEPT ![k] = "free"]
        /\ BackIfThere(job[k].client) /\ UNCHANGED <<pool, mpc, cp, job, events>>
    BY <1>7 DEF ClerkExec, ClerkReply, Clerk
  <2>2. Serving(k) /\ k # cp
    BY <1>0, <2>1 DEF PoolExact, Busy, Serving
  <2>3. ASSUME NEW j \in Clerks, Serving(j)' PROVE j # k /\ Serving(j)
    BY <1>0, <2>1, <2>2, <2>3 DEF TypeOK, Serving
  <2>4. ASSUME NEW j \in Clerks, Serving(j)'
        PROVE  /\ cl'[job[j].client] = cl[job[j].client]
               /\ call'[job[j].client] = call[job[j].client]
    <3>1. job[j].client # job[k].client /\ job[j].client \in Clients /\ job[k].client \in Clients
      BY <1>0, <2>2, <2>3, <2>4 DEF ServedInv
    <3> QED
      BY <1>0, <2>1, <3>1 DEF BackIfThere, Back, TypeOK
  <2> QED
    BY <1>0, <2>1, <2>3, <2>4 DEF ServedInv
<1>8. ASSUME NEW k \in Clerks, ClerkExits(k) PROVE ServedInv'
  <2>1. ASSUME NEW j \in Clerks, Serving(j)' PROVE Serving(j)
    BY <1>0, <1>8, <2>1 DEF ClerkExits, Clerk, TypeOK, Serving
  <2>2. \A c \in Clients : cl'[c] \in {cl[c], "dead"}
    BY <1>0, <1>8 DEF ClerkExits, TypeOK
  <2> QED
    BY <1>0, <1>8, <2>1, <2>2 DEF ClerkExits, ServedInv
<1>9. ASSUME NEW k \in Clerks, freeclerk(k) PROVE ServedInv'
  <2>1. /\ cpc[k] = "free" /\ cpc' = [cpc EXCEPT ![k] = "loop"]
        /\ job' = [job EXCEPT ![k] = NoJob] /\ UNCHANGED <<mpc, cp, cl, call, events>>
    BY <1>9 DEF freeclerk, Clerk
  <2>2. k # cp
    BY <1>0, <2>1 DEF PoolExact, Busy
  <2>3. ASSUME NEW j \in Clerks, Serving(j)' PROVE Serving(j) /\ job'[j] = job[j]
    BY <1>0, <2>1, <2>2, <2>3 DEF TypeOK, Serving
  <2> QED
    BY <1>0, <2>1, <2>3 DEF ServedInv
<1>10. ASSUME NEW k \in Clerks, ClerkLoop(k) PROVE ServedInv'
  <2>1. \A j \in Clerks : Serving(j)' => Serving(j)
    BY <1>0, <1>10 DEF ClerkLoop, Clerk, TypeOK, Serving
  <2> QED
    BY <1>0, <1>10, <2>1 DEF ClerkLoop, ServedInv
<1>11. CASE UNCHANGED vars
  BY <1>0, <1>11 DEF vars, ServedInv, Serving
<1> QED
  BY <1>1, <1>2, <1>3, <1>4, <1>5, <1>6, <1>7, <1>8, <1>9, <1>10, <1>11
  DEF Next, Manager, Serve

-----------------------------------------------------------------------------
(* The inductive invariant holds in every reachable state. *)
THEOREM Invariant == Spec => []IInv
<1>1. IInv /\ [Next]_vars => IInv'
  BY PlacesStep, ServedStep DEF IInv
<1> QED
  BY InvInit, <1>1, PTL DEF Spec

(* Type correctness of the manager, the clerks and the clients. *)
THEOREM TypeCorrect == Spec => []TypeOK
<1>1. IInv => TypeOK
  BY DEF IInv
<1> QED
  BY Invariant, <1>1, PTL

(* allocclerk and freeclerk lose no clerk and give none away twice. *)
THEOREM PoolKept == Spec => []PoolExact
<1>1. IInv => PoolExact
  BY DEF IInv
<1> QED
  BY Invariant, <1>1, PTL

(* clerk_thread works on, and replies to, the call its client has made,    *)
(* and no two clerks work for one client.                                  *)
THEOREM AnswersRight == Spec => []AnswersOwnCall
<1>1. IInv => AnswersOwnCall
  BY DEF IInv, ServedInv, Serving, AnswersOwnCall
<1> QED
  BY Invariant, <1>1, PTL

(* service_loop never fills in the Clerkjob of a clerk that is at work. *)
THEOREM JobsKept == Spec => JobKept
<1> DEFINE Kept == \A k \in Clerks : Busy(k) /\ Busy(k)' => job'[k] = job[k]
<1>1. IInv /\ [Next]_vars => [Kept]_vars
  <2> SUFFICES ASSUME IInv, Next, NEW k \in Clerks, Busy(k), Busy(k)'
               PROVE  job'[k] = job[k]
    OBVIOUS
  <2>0. TypeOK /\ PoolExact
    BY DEF IInv
  <2>1. ASSUME NEW c \in Clients, ManagerReceive(c) PROVE job'[k] = job[k]
    BY <2>0, <2>1 DEF ManagerReceive, TypeOK, PoolExact
  <2>2. ASSUME NEW j \in Clerks, freeclerk(j) PROVE job'[k] = job[k]
    BY <2>0, <2>2 DEF freeclerk, Clerk, TypeOK, Busy
  <2> QED
    BY <2>1, <2>2 DEF Next, Manager, Serve, ClientCall, allocclerk, ManagerFails, ManagerSend,
       ClerkRun, ClerkExec, ClerkExits, ClerkReply, ClerkLoop
<1> QED
  BY Invariant, <1>1, PTL DEF Spec, JobKept
=============================================================================
