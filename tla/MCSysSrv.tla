------------------------------ MODULE MCSysSrv ------------------------------
EXTENDS SysSrv
CONSTANTS c1, c2, k1, k2
MCClients == {c1, c2}

(* Two threads of one process. *)
MCMain   == [c \in MCClients |-> c1]
MCClerks == {k1, k2}
MCCalls  == {"work", "block", "unblock", "exits", "exec", "long"}
=============================================================================
