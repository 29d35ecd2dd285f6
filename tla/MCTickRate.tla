---------------------------- MODULE MCTickRate ----------------------------
(***************************************************************************)
(* Two counters, measured in a window of eight units with suspensions both *)
(* shorter and longer than that.                                           *)
(***************************************************************************)
EXTENDS TickRate
===========================================================================
