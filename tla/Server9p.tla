------------------------------ MODULE Server9p ------------------------------
(***************************************************************************)
(* What a 9P server promises to its clients, and what module Mnt assumes   *)
(* of one: each request is answered once, in whatever order suits the      *)
(* server, but a flush only after the request it flushes.                  *)
(***************************************************************************)
EXTENDS Sequences

CONSTANT Tags

VARIABLES asked,    \* tags of the requests received and not answered
          after,    \* after[t]: the tags that have to be answered before t
          out       \* tags of the answers under way to the client

vars == <<asked, after, out>>

Init ==
  /\ asked = {} /\ after = [t \in Tags |-> {}] /\ out = <<>>

(* A request with tag t; old is the tag it flushes, if it is a flush. *)
Ask(t, old) ==
  /\ t \notin asked /\ \A i \in DOMAIN out : out[i] # t
  /\ UNCHANGED out
  /\ asked' = asked \cup {t}
  /\ after' = [after EXCEPT ![t] = old \cap asked]

Answer(t) ==
  /\ t \in asked /\ after[t] = {}
  /\ asked' = asked \ {t}
  /\ out' = Append(out, t)
  /\ after' = [u \in Tags |-> after[u] \ {t}]

Receive ==
  /\ out # <<>> /\ out' = Tail(out)
  /\ UNCHANGED <<asked, after>>

Next ==
  \/ \E t \in Tags : Answer(t) \/ Ask(t, {}) \/ \E u \in Tags : Ask(t, {u})
  \/ Receive

Spec == Init /\ [][Next]_vars
=============================================================================
