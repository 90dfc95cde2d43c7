------------------------------- MODULE SysSrv -------------------------------
(***************************************************************************)
(* The system call server of LP49 (port/syssrv-l4.c): client threads call  *)
(* the manager thread (service_loop), which hands each call to a clerk of  *)
(* a fixed pool (allocclerk, freeclerk); the clerk carries it out and      *)
(* replies in the manager's name (clerk_thread).                           *)
(*                                                                         *)
(* A system call is one of: "work", which returns; "block", which sleeps   *)
(* until an "unblock" call of another client has been carried out (a read  *)
(* of an empty pipe, a wait for a child); "exits"; "exec"; and "long", a   *)
(* message that overflows the receive buffers of the manager.              *)
(*                                                                         *)
(* cpoollock is held for a few instructions: allocclerk and freeclerk are  *)
(* single steps.                                                           *)
(***************************************************************************)
EXTENDS Integers, Sequences, FiniteSets, Functions

CONSTANTS Clients,    \* threads of user processes
          Main,       \* Main[c]: the main thread of the process of c
          Clerks,     \* the clerk threads
          Calls,      \* the kinds of calls made
          NoClient, NoClerk,
          MaxEvents   \* bound: "unblock" calls not yet consumed

ASSUME SysSrvAssumption ==
  /\ IsFiniteSet(Clerks)
  /\ MaxEvents \in Nat
  /\ Main \in [Clients -> Clients]
  /\ NoClient \notin Clients /\ NoClerk \notin Clerks

VARIABLES
  pool,    \* the free list behind cpoolhead
  mpc,     \* the manager: "alloc", "wait", "send", or stopped in "kdb"
  cp,      \* the clerk the manager has in its hands
  cpc,     \* clerks: "recv", "run", "reply", "free", "loop"
  job,     \* the Clerkjob of each clerk: client and call
  cl,      \* clients: "user", "send" and "wait" of L4_Call, "dead"
  call,    \* the last call of each client
  events   \* "unblock" calls carried out and not yet consumed

vars == <<pool, mpc, cp, cpc, job, cl, call, events>>

NoJob == [client |-> NoClient, op |-> "none"]

(* Client c is back in its program: the call is over. *)
Back(c) == cl' = [cl EXCEPT ![c] = "user"] /\ call' = [call EXCEPT ![c] = "none"]

(* ... if it is still in L4_Call. *)
BackIfThere(c) == IF cl[c] = "wait" THEN Back(c) ELSE UNCHANGED <<cl, call>>

(* clerkpool_setup: freeclerk of every clerk, one after the other; the     *)
(* order of their thread ids does not matter.                              *)
Init ==
  /\ pool \in Injection(1..Cardinality(Clerks), Clerks)
  /\ mpc = "alloc" /\ cp = NoClerk
  /\ cpc = [k \in Clerks |-> "recv"]
  /\ job = [k \in Clerks |-> NoJob]
  /\ cl = [c \in Clients |-> "user"]
  /\ call = [c \in Clients |-> "none"]
  /\ events = 0

-----------------------------------------------------------------------------
(* L4_Call by a client: send to the manager, then wait for the reply. *)
ClientCall(c) ==
  /\ cl[c] = "user"
  /\ cl' = [cl EXCEPT ![c] = "send"]
  /\ \E op \in Calls : call' = [call EXCEPT ![c] = op]
  /\ UNCHANGED <<pool, mpc, cp, cpc, job, events>>

-----------------------------------------------------------------------------
(* The manager.  A clerk is allocated before the call is received, its     *)
(* buffers take the arguments; without one the kernel stops.               *)
allocclerk ==
  /\ mpc = "alloc"
  /\ IF pool = <<>>
     THEN mpc' = "kdb" /\ UNCHANGED <<pool, cp>>
     ELSE mpc' = "wait" /\ cp' = Head(pool) /\ pool' = Tail(pool)
  /\ UNCHANGED <<cpc, job, cl, call, events>>

(* Mutant: cp is reset before it is put back. *)
M_ManagerFails(c) ==
  /\ mpc = "wait" /\ cl[c] = "send" /\ call[c] = "long"
  /\ mpc' = "alloc" /\ cp' = NoClerk /\ pool' = <<NoClerk>> \o pool
  /\ Back(c)
  /\ UNCHANGED <<cpc, job, events>>

(* L4_Wait fails: the clerk goes back to the pool. *)
ManagerFails(c) ==
  /\ mpc = "wait" /\ cl[c] = "send" /\ call[c] = "long"
  /\ mpc' = "alloc" /\ cp' = NoClerk /\ pool' = <<cp>> \o pool
  /\ Back(c)
  /\ UNCHANGED <<cpc, job, events>>

(* Receive a call and fill in the job. *)
ManagerReceive(c) ==
  /\ mpc = "wait" /\ cl[c] = "send" /\ call[c] # "long"
  /\ mpc' = "send"
  /\ cl' = [cl EXCEPT ![c] = "wait"]
  /\ job' = [job EXCEPT ![cp] = [client |-> c, op |-> call[c]]]
  /\ UNCHANGED <<pool, cp, cpc, call, events>>

(* L4_Send(cp->tid) meets the clerk's L4_Receive(SrvManager). *)
ManagerSend ==
  /\ mpc = "send" /\ cpc[cp] = "recv"
  /\ cpc' = [cpc EXCEPT ![cp] = "run"]
  /\ mpc' = "alloc" /\ cp' = NoClerk
  /\ UNCHANGED <<pool, job, cl, call, events>>

-----------------------------------------------------------------------------
(* A clerk. *)
Clerk(k, from, to) == cpc[k] = from /\ cpc' = [cpc EXCEPT ![k] = to]

ClerkRun(k) ==
  /\ Clerk(k, "run", "reply")
  /\ \/ job[k].op = "work" /\ events' = events
     \/ job[k].op = "block" /\ events > 0 /\ events' = events - 1
     \/ job[k].op = "unblock" /\ events' = IF events < MaxEvents THEN events + 1 ELSE events
     \/ job[k].op = "exec" /\ events' = events   \* the program is not found
  /\ UNCHANGED <<pool, mpc, cp, job, cl, call>>

(* exec starts the client in its new program, and there is no reply. *)
ClerkExec(k) ==
  /\ Clerk(k, "run", "free")
  /\ job[k].op = "exec"
  /\ BackIfThere(job[k].client)
  /\ UNCHANGED <<pool, mpc, cp, job, events>>

(* exits deletes the main thread of the process, wherever it is, and there *)
(* is no reply.                                                            *)
ClerkExits(k) ==
  /\ Clerk(k, "run", "free")
  /\ job[k].op = "exits"
  /\ cl' = [cl EXCEPT ![Main[job[k].client]] = "dead"]
  /\ UNCHANGED <<pool, mpc, cp, job, call, events>>

(* Mutant: no reply when the call is done. *)
M_ClerkReply(k) ==
  /\ Clerk(k, "reply", "free")
  /\ UNCHANGED <<pool, mpc, cp, job, cl, call, events>>

(* L4_Reply does not wait: it reaches the client in its L4_Call, or fails. *)
ClerkReply(k) ==
  /\ Clerk(k, "reply", "free")
  /\ BackIfThere(job[k].client)
  /\ UNCHANGED <<pool, mpc, cp, job, events>>

(* Mutant: the clerk is put back before it has replied. *)
M_freeclerk(k) ==
  /\ cpc[k] \in {"reply", "free"} /\ k \notin Range(pool)
  /\ pool' = <<k>> \o pool
  /\ cpc' = [cpc EXCEPT ![k] = IF @ = "free" THEN "loop" ELSE @]
  /\ UNCHANGED <<mpc, cp, job, cl, call, events>>

(* The fields of the job are not read again before the manager fills them  *)
(* in: the model forgets them here.                                        *)
freeclerk(k) ==
  /\ Clerk(k, "free", "loop")
  /\ pool' = <<k>> \o pool
  /\ job' = [job EXCEPT ![k] = NoJob]
  /\ UNCHANGED <<mpc, cp, cl, call, events>>

ClerkLoop(k) ==
  /\ Clerk(k, "loop", "recv")
  /\ UNCHANGED <<pool, mpc, cp, job, cl, call, events>>

-----------------------------------------------------------------------------
Manager  == allocclerk \/ ManagerSend \/ \E c \in Clients : ManagerReceive(c) \/ ManagerFails(c)
Serve(k) == ClerkRun(k) \/ ClerkExec(k) \/ ClerkExits(k) \/ ClerkReply(k) \/ freeclerk(k) \/ ClerkLoop(k)

Next ==
  \/ Manager
  \/ \E k \in Clerks : Serve(k)
  \/ \E c \in Clients : ClientCall(c)

Spec == Init /\ [][Next]_vars

(* Threads in the kernel run on, and L4 keeps the senders of a thread in a *)
(* queue: a client is not passed over for ever.                            *)
FairSpec ==
  /\ Spec
  /\ WF_vars(Manager)
  /\ \A k \in Clerks : WF_vars(Serve(k))
  /\ \A c \in Clients : SF_vars(ManagerReceive(c)) /\ SF_vars(ManagerFails(c))

-----------------------------------------------------------------------------
Busy(k) == cpc[k] \in {"run", "reply", "free"}

(* Type invariant. *)
TypeOK ==
  /\ pool \in Seq(Clerks)
  /\ mpc \in {"alloc", "wait", "send", "kdb"}
  /\ cp \in Clerks \cup {NoClerk}
  /\ cpc \in [Clerks -> {"recv", "run", "reply", "free", "loop"}]
  /\ job \in [Clerks -> [client : Clients \cup {NoClient}, op : Calls \cup {"none"}]]
  /\ cl \in [Clients -> {"user", "send", "wait", "dead"}]
  /\ call \in [Clients -> Calls \cup {"none"}]
  /\ events \in 0..MaxEvents

(* Every clerk is in exactly one of three places: on the free list, once;  *)
(* in the hands of the manager; or at work.                                *)
PoolExact ==
  /\ IsInjective(pool)
  /\ \A k \in Clerks :
       \/ k \in Range(pool) /\ k # cp /\ ~Busy(k)
       \/ k \notin Range(pool) /\ k = cp /\ ~Busy(k)
       \/ k \notin Range(pool) /\ k # cp /\ Busy(k)

(* A client in L4_Call has one clerk at most, and it works on the call the *)
(* client has made: no answer goes to the wrong client or the wrong call.  *)
AnswersOwnCall ==
  \A k \in Clerks : cpc[k] \in {"run", "reply"} =>
    /\ cl[job[k].client] \in {"wait", "dead"}
    /\ job[k].op = call[job[k].client]
    /\ \A j \in Clerks \ {k} : cpc[j] \in {"run", "reply"} => job[j].client # job[k].client

-----------------------------------------------------------------------------
(* The inductive invariant.  The manager has a clerk exactly from          *)
(* allocclerk to L4_Send, and from the moment it has filled in a job the   *)
(* client is bound to that clerk.                                          *)
HoldsClerk == cp # NoClerk <=> mpc \in {"wait", "send"}

Serving(k) == cpc[k] \in {"run", "reply"} \/ (mpc = "send" /\ k = cp)

ServedInv ==
  \A k \in Clerks : Serving(k) =>
    /\ job[k].client \in Clients
    /\ cl[job[k].client] \in {"wait", "dead"}
    /\ job[k].op = call[job[k].client]
    /\ \A j \in Clerks \ {k} : Serving(j) => job[j].client # job[k].client

(* Type correctness, the places of the clerks, and the bond of a client to *)
(* its clerk, which also covers a job the manager is about to hand over.   *)
IInv == TypeOK /\ PoolExact /\ HoldsClerk /\ ServedInv

-----------------------------------------------------------------------------
(* The job of a clerk is not touched while the clerk works on it. *)
JobKept == [][\A k \in Clerks : Busy(k) /\ Busy(k)' => job'[k] = job[k]]_vars

(* syssrv-l4.c:312: the manager does not stop in L4_KDB_Enter("out-of-     *)
(* clerks").                                                               *)
NeverOutOfClerks == mpc # "kdb"

(* A call that does not wait for another process is answered, unless the   *)
(* kernel has run out of clerks or the client is deleted.                  *)
WorkAnswered ==
  \A c \in Clients :
    (cl[c] = "send" /\ call[c] = "work") ~> (cl[c] \in {"user", "dead"} \/ mpc = "kdb")
=============================================================================
