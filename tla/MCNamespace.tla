---------------------------- MODULE MCNamespace -----------------------------
EXTENDS Namespace
CONSTANTS p1, p2, a, b
MCProcs   == {p1, p2}
MCQids    == {a, b}

(* A mount does what a bind does, with a channel that has an mchan. *)
MCUses ==
  {[ops |-> {"mount", "unmount", "walk", "rfork", "close"}, orders |-> {"MREPL", "MBEFORE", "MAFTER"}],
   [ops |-> {"bind", "unmount", "walk", "rfork", "mountfails"}, orders |-> {"MAFTER"}]}
=============================================================================
