------------------------------ MODULE MCSink ------------------------------
(***************************************************************************)
(* Two threads that set sinks, the two standard streams and three          *)
(* addresses for opened files.                                             *)
(***************************************************************************)
EXTENDS Sink
CONSTANTS c1, c2, stdout, stderr, f1, f2, f3
=============================================================================
