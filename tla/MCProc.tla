------------------------------- MODULE MCProc -------------------------------
EXTENDS Proc

(* The second process has two threads; the first one never exits. *)
MCThreads == {<<1, 1>>, <<2, 1>>, <<2, 2>>, <<3, 1>>}
MCCalls   == {"rfork", "rforkNowait", "spawn", "exits", "await"}
=============================================================================
