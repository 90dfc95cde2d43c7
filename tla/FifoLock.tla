------------------------------ MODULE FifoLock ------------------------------
(***************************************************************************)
(* What a sleeping lock promises its callers: at most one owner, and the   *)
(* lock passes from owner to owner in the order in which the others queued *)
(* for it.  A caller that only tries (canqlock) may win a free lock but    *)
(* never overtakes a queued thread.                                        *)
(***************************************************************************)
EXTENDS Naturals, Sequences

CONSTANTS Threads, NoThread

VARIABLES owner,   \* the thread the lock belongs to, or NoThread
          waiters  \* the threads that queued for it, oldest first

Init == owner = NoThread /\ waiters = <<>>

Acquire(t) ==
  /\ owner = NoThread
  /\ waiters = <<>>
  /\ owner' = t
  /\ UNCHANGED waiters

Join(t) ==
  /\ owner \notin {NoThread, t}
  /\ \A i \in 1..Len(waiters) : waiters[i] # t
  /\ waiters' = Append(waiters, t)
  /\ UNCHANGED owner

PassOn ==
  /\ owner # NoThread
  /\ waiters # <<>>
  /\ owner' = Head(waiters)
  /\ waiters' = Tail(waiters)

Release ==
  /\ owner # NoThread
  /\ waiters = <<>>
  /\ owner' = NoThread
  /\ UNCHANGED waiters

Next == PassOn \/ Release \/ \E t \in Threads : Acquire(t) \/ Join(t)

Spec == Init /\ [][Next]_<<owner, waiters>>
=============================================================================
