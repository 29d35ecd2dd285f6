-------------------------------- MODULE Fifo --------------------------------
(***************************************************************************)
(* What a bounded event queue promises its two clients: an event that is   *)
(* accepted is handed over exactly once, whole, and in the order of        *)
(* acceptance; the events accepted and not yet handed over never exceed    *)
(* the capacity; and every accepted event is handed over in the end.  An   *)
(* event that does not fit is dropped, which leaves no trace.              *)
(***************************************************************************)
EXTENDS Integers, Sequences

CONSTANTS Capacity, Sizes

VARIABLES sent, received

vars == <<sent, received>>

StreamLength(s) == IF s = <<>> THEN 0 ELSE s[Len(s)].start + s[Len(s)].size

Init == sent = <<>> /\ received = <<>>

Put(size) ==
  /\ StreamLength(sent) + size <= StreamLength(received) + Capacity
  /\ sent' = Append(sent, [start |-> StreamLength(sent), size |-> size])
  /\ UNCHANGED received

Get ==
  /\ Len(received) < Len(sent)
  /\ received' = Append(received, sent[Len(received) + 1])
  /\ UNCHANGED sent

Next == (\E size \in Sizes : Put(size)) \/ Get

Spec == Init /\ [][Next]_vars

FairSpec == Spec /\ WF_vars(Get)

=============================================================================
