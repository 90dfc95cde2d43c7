-------------------------------- MODULE MCIl --------------------------------
(* IL for TLC, four cases: two messages that may overtake one another;     *)
(* conversations that are closed and used again while a packet of the last *)
(* connection is about; a client whose timer process, and a server whose   *)
(* writer and timer process, are overtaken by what arrives.                *)
EXTENDS Il

MCCases ==
  { [starts |-> [c |-> <<10>>, s |-> <<40>>], msgs |-> [c |-> 2, s |-> 0],
     closers |-> {}, racing |-> {}, cut |-> FALSE, cap |-> 2],
    [starts |-> [c |-> <<10, 20>>, s |-> <<40, 50>>], msgs |-> [c |-> 1, s |-> 0],
     closers |-> Ends, racing |-> {}, cut |-> FALSE, cap |-> 1],
    [starts |-> [c |-> <<10>>, s |-> <<40, 50>>], msgs |-> [c |-> 0, s |-> 0],
     closers |-> Ends, racing |-> {"c"}, cut |-> TRUE, cap |-> 1],
    [starts |-> [c |-> <<10>>, s |-> <<40>>], msgs |-> [c |-> 0, s |-> 1],
     closers |-> {"c"}, racing |-> {"s"}, cut |-> TRUE, cap |-> 1] }
=============================================================================
