------------------------------ MODULE MCLib9p ------------------------------
(* lib9p for TLC: requests that make and take fids, requests that use one, *)
(* and flushes of requests that are being answered.                        *)
EXTENDS Lib9p
CONSTANT w1

MCWorkers == {w1}
MCUses    ==
  {[types |-> {"attach", "walk", "clunk"}, tags |-> {1, 2}, fids |-> {1, 2}, reqs |-> 3],
   [types |-> {"auth", "flush"}, tags |-> {1, 2, 3}, fids |-> {1}, reqs |-> 4],
   [types |-> {"auth", "attach", "remove"}, tags |-> {1}, fids |-> {1, 2}, reqs |-> 3],
   [types |-> {"version", "attach", "open", "create", "read", "write", "stat"},
    tags |-> {1, 2}, fids |-> {1}, reqs |-> 3]}
=============================================================================
