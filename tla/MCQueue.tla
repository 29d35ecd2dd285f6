------------------------------ MODULE MCQueue ------------------------------
(***************************************************************************)
(* The queue with a capacity of four cells and a 4-bit size_t, so that     *)
(* positions wrap around the capacity several times and around size_t      *)
(* once, with sizes that fit, fill the queue or never fit.                 *)
(***************************************************************************)
EXTENDS Queue, Bitwise

Width == 4
MCCapacity == BitCeil(3, Width)
MCSizeMod == 2^Width

(* The code masks a position with capacity - 1 instead of dividing, and    *)
(* rounds the requested capacity up to a power of two for that purpose.    *)
ASSUME MaskIsRemainder ==
  \A requested \in 0..2^(Width - 1) :
    LET capacity == BitCeil(requested, Width)
    IN  /\ requested <= capacity /\ (requested > 1 => capacity < 2 * requested)
        /\ \A pos \in 0..(MCSizeMod - 1) : pos & (capacity - 1) = pos % capacity

=============================================================================
