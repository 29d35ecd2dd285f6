------------------------------- MODULE Queue -------------------------------
(***************************************************************************)
(* The single-producer single-consumer byte queue of detail/queue.h, with  *)
(* the two clients the program gives it: push_log_event() on the logging   *)
(* thread, which reserves, encodes and commits one event or drops it, and  *)
(* poll_threads() on the backend thread, which reserves, decodes and       *)
(* commits one event.                                                      *)
(*                                                                         *)
(* Positions are size_t values, so they live modulo SizeMod; the buffer is *)
(* twice the capacity and an event that starts before the end of the first *)
(* half runs on into the second.  The unit of the buffer is a cell, the    *)
(* first cell of an event holds its header.                                *)
(*                                                                         *)
(* Memory model: the two shared positions are atomics with one writer      *)
(* each.  atomic_w and atomic_r hold all the values ever stored, in order; *)
(* an acquire load returns the latest one or, as C++ permits, any older    *)
(* one not older than what the loading thread has already synchronised     *)
(* with.                                                                   *)
(***************************************************************************)
EXTENDS Integers, Sequences

CONSTANTS
  Capacity,   \* _capacity, in cells
  SizeMod,    \* 2^n for an n-bit size_t
  Sizes,      \* the event sizes (header plus arguments) that are logged
  MaxWritten  \* bound on the cells ever committed (model checking only)

ASSUME QueueAssumption ==
  /\ Capacity \in Nat \ {0}
  /\ SizeMod \in Nat
  /\ \E k \in 1..SizeMod : SizeMod = Capacity * k
  /\ 2 * Capacity < SizeMod
  /\ Sizes \subseteq 1..(SizeMod - 1)
  /\ MaxWritten \in Nat

VARIABLES
  atomic_r, atomic_w,      \* the stores made to the shared positions
  w, cached_r, acq_r,      \* producer: own position, copy of the other's,
                           \*   and the store that copy was read from
  r, cached_w, acq_w,      \* consumer: likewise
  buffer,
  prod, write,             \* producer's program point and reservation
  cons, read,              \* consumer's program point and reservation
  sent, received           \* history: events committed, events decoded

producerVars == <<atomic_w, w, cached_r, acq_r, prod, write, sent>>
consumerVars == <<atomic_r, r, cached_w, acq_w, cons, read, received>>
vars == <<producerVars, consumerVars, buffer>>

-----------------------------------------------------------------------------
(* std::bit_ceil: the least power of two that is not below n.              *)
BitCeil(n, width) ==
  LET Powers == {2^i : i \in 0..(width - 1)}
  IN  CHOOSE p \in Powers : p >= n /\ \A q \in Powers : q >= n => p <= q

BufferSize == 2 * Capacity

(* An event is known by its place in the stream of all cells ever          *)
(* committed, a number that does not wrap.                                 *)
Event == [start : Nat, size : Sizes]
Cell == [ev : Event \cup {[start |-> 0, size |-> 0]}, at : Nat]
ZeroCell == [ev |-> [start |-> 0, size |-> 0], at |-> 0]
Torn == [start |-> 0, size |-> 0]

Position == 0..(SizeMod - 1)
Null == -1

(* The value of the i-th store to an atomic that is 0 initially.           *)
Value(stores, i) == IF i = 0 THEN 0 ELSE stores[i]

(* An acquire load by a thread that has synchronised with store acq.       *)
Loadable(stores, acq) == acq..Len(stores)

Cells(off, size) == off..(off + size - 1)

(* Cells of the stream that the first k committed events occupy.           *)
StreamEnd(k) == IF k = 0 THEN 0 ELSE sent[k].start + sent[k].size
Written == StreamEnd(Len(sent))

Init ==
  /\ atomic_r = <<>> /\ atomic_w = <<>>
  /\ w = 0 /\ cached_r = 0 /\ acq_r = 0
  /\ r = 0 /\ cached_w = 0 /\ acq_w = 0
  /\ buffer = [i \in 0..(BufferSize - 1) |-> ZeroCell]
  /\ prod = "idle" /\ write = [buffer |-> Null, new_write_pos |-> 0, size |-> 0]
  /\ cons = "idle" /\ read = [buffer |-> Null, current_read_pos |-> 0, size |-> 0]
  /\ sent = <<>> /\ received = <<>>

-----------------------------------------------------------------------------
(* Producer: push_log_event().                                             *)

(* Fault: the index is not masked.                                         *)
WrapIndex_NoMask(pos) == pos
WrapIndex(pos) == pos % Capacity

(* Fault: one cell is kept free, as in a ring whose positions do not run   *)
(* past the capacity; a full queue then wraps to a huge free space.        *)
FreeSpace_KeepOneFree(copy) == (copy + Capacity - w - 1) % SizeMod
(* Fault: the size of the allocation is taken for the capacity.            *)
FreeSpace_WholeBuffer(copy) == (copy + BufferSize - w) % SizeMod
FreeSpace(copy) == (copy + Capacity - w) % SizeMod

(* Fault: the load is relaxed and synchronises with nothing.               *)
LoadR_Relaxed ==
  /\ \E i \in Loadable(atomic_r, acq_r) : cached_r' = Value(atomic_r, i)
  /\ UNCHANGED acq_r
LoadR ==
  \E i \in Loadable(atomic_r, acq_r) :
    /\ cached_r' = Value(atomic_r, i)
    /\ acq_r' = i

ReserveWrite(size) ==
  /\ prod \in {"idle", "dropped"}
  /\ Written + size <= MaxWritten
  /\ IF FreeSpace(cached_r) < size
     THEN LoadR
     ELSE UNCHANGED <<cached_r, acq_r>>
  /\ IF FreeSpace(cached_r') < size
     THEN /\ prod' = "dropped"
          /\ write' = [buffer |-> Null, new_write_pos |-> 0, size |-> size]
     ELSE /\ prod' = "reserved"
          /\ write' = [buffer |-> WrapIndex(w),
                       new_write_pos |-> (w + size) % SizeMod,
                       size |-> size]
  /\ UNCHANGED <<atomic_w, w, sent, consumerVars, buffer>>

NewEvent == [start |-> Written, size |-> write.size]

Encode ==
  /\ prod = "reserved"
  /\ buffer' = [i \in DOMAIN buffer |->
                  IF i \in Cells(write.buffer, write.size)
                  THEN [ev |-> NewEvent, at |-> i - write.buffer]
                  ELSE buffer[i]]
  /\ prod' = "encoded"
  /\ UNCHANGED <<atomic_w, w, cached_r, acq_r, write, sent, consumerVars>>

(* Fault: the position is published before the event is encoded.           *)
CommitWrite_BeforeEncode ==
  /\ prod = "reserved"
  /\ w' = write.new_write_pos
  /\ atomic_w' = Append(atomic_w, w')
  /\ sent' = Append(sent, NewEvent)
  /\ prod' = "idle"
  /\ UNCHANGED <<cached_r, acq_r, write, consumerVars, buffer>>
CommitWrite ==
  /\ prod = "encoded"
  /\ w' = write.new_write_pos
  /\ atomic_w' = Append(atomic_w, w')
  /\ sent' = Append(sent, NewEvent)
  /\ prod' = "idle"
  /\ UNCHANGED <<cached_r, acq_r, write, consumerVars, buffer>>

-----------------------------------------------------------------------------
(* Consumer: one visit of poll_threads() to this queue.                    *)

LoadW ==
  \E i \in Loadable(atomic_w, acq_w) :
    /\ cached_w' = Value(atomic_w, i)
    /\ acq_w' = i

(* Fault: a write position that has wrapped counts as empty.               *)
IsEmpty_AtOrBelow == cached_w <= r /\ cached_w' <= r
IsEmpty == cached_w <= r /\ cached_w' = r

ReserveRead ==
  /\ cons = "idle"
  /\ IF cached_w <= r
     THEN LoadW
     ELSE UNCHANGED <<cached_w, acq_w>>
  /\ IF IsEmpty
     THEN UNCHANGED <<cons, read>>
     ELSE /\ cons' = "reserved"
          /\ read' = [buffer |-> WrapIndex(r), current_read_pos |-> r, size |-> 0]
  /\ UNCHANGED <<atomic_r, r, received, producerVars, buffer>>

(* The event whose header lies at offset off, if all its cells follow.     *)
EventAt(off) ==
  LET ev == buffer[off].ev
  IN  IF \A j \in Cells(0, ev.size) :
            off + j \in DOMAIN buffer /\ buffer[off + j] = [ev |-> ev, at |-> j]
      THEN ev
      ELSE Torn

Decode ==
  /\ cons = "reserved"
  /\ received' = Append(received, EventAt(read.buffer))
  /\ read' = [read EXCEPT !.size = buffer[read.buffer].ev.size]
  /\ cons' = "decoded"
  /\ UNCHANGED <<atomic_r, r, cached_w, acq_w, producerVars, buffer>>

(* Fault: the position is kept in a type wider than size_t.                *)
NewReadPos_Wide == read.current_read_pos + read.size
(* Fault: the payload size is taken for the size of the event.             *)
NewReadPos_PayloadOnly == (read.current_read_pos + read.size - 1) % SizeMod
NewReadPos == (read.current_read_pos + read.size) % SizeMod

CommitRead ==
  /\ cons = "decoded"
  /\ r' = NewReadPos
  /\ atomic_r' = Append(atomic_r, r')
  /\ cons' = "idle"
  /\ UNCHANGED <<cached_w, acq_w, read, received, producerVars, buffer>>

-----------------------------------------------------------------------------
Producer == (\E size \in Sizes : ReserveWrite(size)) \/ Encode \/ CommitWrite
Consumer == ReserveRead \/ Decode \/ CommitRead
Next == Producer \/ Consumer

Spec == Init /\ [][Next]_vars

(* The backend thread polls until it is told to stop, a reservation is     *)
(* always completed, and a store becomes visible in finite time: a load    *)
(* that could return something new does so eventually.                     *)
FairSpec ==
  /\ Spec
  /\ WF_vars(Encode) /\ WF_vars(CommitWrite)
  /\ WF_vars(ReserveRead) /\ WF_vars(Decode) /\ WF_vars(CommitRead)

-----------------------------------------------------------------------------
(* The cells that the consumer reads for event k.                          *)
EventCells(k) == Cells(WrapIndex(Value(atomic_w, k - 1)), sent[k].size)

(* Every variable has a value of its C++ type.                             *)
TypeOK ==
  /\ atomic_r \in Seq(Position) /\ atomic_w \in Seq(Position)
  /\ w \in Position /\ cached_r \in Position /\ acq_r \in Nat
  /\ r \in Position /\ cached_w \in Position /\ acq_w \in Nat
  /\ buffer \in [0..(BufferSize - 1) -> Cell]
  /\ prod \in {"idle", "reserved", "encoded", "dropped"}
  /\ write \in [buffer : {Null} \cup 0..(Capacity - 1),
                new_write_pos : Position, size : Sizes \cup {0}]
  /\ cons \in {"idle", "reserved", "decoded"}
  /\ read \in [buffer : {Null} \cup 0..(Capacity - 1),
               current_read_pos : Position, size : Sizes \cup {0}]
  /\ sent \in Seq(Event) /\ received \in Seq(Event)

(* A reservation of reserve_write() or reserve_read() never runs past the  *)
(* end of the allocation, although events are not split at the capacity.   *)
InBounds ==
  /\ prod \in {"reserved", "encoded"} =>
       Cells(write.buffer, write.size) \subseteq DOMAIN buffer
  /\ cons \in {"reserved", "decoded"} =>
       Cells(read.buffer, sent[Len(atomic_r) + 1].size) \subseteq DOMAIN buffer

(* The two threads never touch the same cell without synchronisation: the  *)
(* producer encodes only into cells whose release by commit_read() it has  *)
(* acquired, and the consumer decodes only an event whose commit_write()   *)
(* it has acquired.                                                        *)
NoDataRace ==
  /\ prod \in {"reserved", "encoded"} =>
       \A k \in (acq_r + 1)..Len(sent) :
         Cells(write.buffer, write.size) \cap EventCells(k) = {}
  /\ cons \in {"reserved", "decoded"} => Len(atomic_r) + 1 <= acq_w

(* What the backend decodes are the events that were committed, each once, *)
(* none torn or skipped, in the order in which they were logged.           *)
DeliveredInOrder ==
  /\ Len(received) <= Len(sent)
  /\ \A k \in 1..Len(received) : received[k] = sent[k]

(* reserve_write() succeeds exactly when the event fits between what has   *)
(* been committed and what the producer knows to be released, also when a  *)
(* position has wrapped around SizeMod and another has not.                *)
ReservationExact ==
  [][\A size \in Sizes : ReserveWrite(size) =>
       (prod' = "reserved" <=> Written + size <= StreamEnd(acq_r') + Capacity)]_vars

(* The queue implements the abstract bounded FIFO.                         *)
F == INSTANCE Fifo
ImplementsFifo == F!Spec
ImplementsFairFifo == F!FairSpec

-----------------------------------------------------------------------------
(* The inductive invariant.  It ties every position to the stream position *)
(* it stands for, which never wraps.                                       *)

OrderInv ==
  /\ Len(atomic_w) = Len(sent)
  /\ acq_r <= Len(atomic_r) /\ Len(atomic_r) <= acq_w /\ acq_w <= Len(sent)
  /\ Len(received) = Len(atomic_r) + IF cons = "decoded" THEN 1 ELSE 0
  /\ cons \in {"reserved", "decoded"} => Len(atomic_r) < acq_w

StreamInv ==
  /\ \A k \in 1..Len(sent) : sent[k].start = StreamEnd(k - 1)
  /\ \A i, j \in 0..Len(sent) : i < j => StreamEnd(i) < StreamEnd(j)
  /\ Written <= StreamEnd(acq_r) + Capacity

PositionInv ==
  /\ \A k \in 1..Len(atomic_w) : atomic_w[k] = StreamEnd(k) % SizeMod
  /\ \A k \in 1..Len(atomic_r) : atomic_r[k] = StreamEnd(k) % SizeMod
  /\ w = Written % SizeMod
  /\ r = StreamEnd(Len(atomic_r)) % SizeMod
  /\ cached_r = StreamEnd(acq_r) % SizeMod
  /\ cached_w = StreamEnd(acq_w) % SizeMod

ReservationInv ==
  /\ prod \in {"reserved", "encoded"} =>
       /\ write.size \in Sizes
       /\ write.buffer = Written % Capacity
       /\ write.new_write_pos = (Written + write.size) % SizeMod
       /\ Written + write.size <= StreamEnd(acq_r) + Capacity
  /\ cons \in {"reserved", "decoded"} =>
       /\ read.buffer = StreamEnd(Len(atomic_r)) % Capacity
       /\ read.current_read_pos = r
  /\ cons = "decoded" => read.size = sent[Len(atomic_r) + 1].size

ContentInv ==
  /\ \A k \in (Len(atomic_r) + 1)..Len(sent) : \A j \in Cells(0, sent[k].size) :
       buffer[(StreamEnd(k - 1) % Capacity) + j] = [ev |-> sent[k], at |-> j]
  /\ prod = "encoded" =>
       \A j \in Cells(0, write.size) :
         buffer[write.buffer + j] = [ev |-> NewEvent, at |-> j]

(* Everything the queue's correctness rests on, one conjunct per concern:  *)
(* the order of the four positions, the stream, the wrapped positions, the *)
(* reservations and the cells of the events not yet released.              *)
IInv ==
  /\ TypeOK /\ OrderInv /\ StreamInv /\ PositionInv
  /\ ReservationInv /\ ContentInv /\ DeliveredInOrder

=============================================================================
