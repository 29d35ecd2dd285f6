---------------------------- MODULE MCFormatter ----------------------------
(***************************************************************************)
(* Two threads that set patterns, four addresses, two specs, and times on  *)
(* both sides of midnight and of the start of 1970.                        *)
(***************************************************************************)
EXTENDS Formatter
CONSTANTS c1, c2, a0, a1, a2, a3
MCMinSecond == -2
=============================================================================
