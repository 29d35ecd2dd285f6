----------------------------- MODULE MCBackend -----------------------------
(***************************************************************************)
(* The main thread, a thread it joins and one that is detached, and as     *)
(* many node addresses as threads, so that addresses are reused.           *)
(***************************************************************************)
EXTENDS Backend, TLC

CONSTANTS m, j, d, n1, n2, n3

(* Addresses are only compared; threads are told apart by Main and Joined. *)
Symmetry == Permutations(Addrs)

=============================================================================
