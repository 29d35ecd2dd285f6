------------------------------ MODULE MCOutput ------------------------------
(***************************************************************************)
(* Two threads that set and log, two levels, two settings of each kind.    *)
(***************************************************************************)
EXTENDS Output
MCOrder == <<"t1", "t2">>
=============================================================================
