---------------------------- MODULE QueueProofs ----------------------------
(***************************************************************************)
(* Proofs about the SPSC queue, for every capacity, width of size_t, set   *)
(* of event sizes and length of run.                                       *)
(***************************************************************************)
EXTENDS Queue, TLAPS

-----------------------------------------------------------------------------
(* Facts about % that the proofs about wrapping positions rest on.  They   *)
(* hold for every modulus; each proof names the quotients, so that what is *)
(* left to the solver is linear in them.                                   *)

(* Quotient and remainder.                                                 *)
LEMMA ModDef ==
  ASSUME NEW a \in Int, NEW m \in Nat, m > 0
  PROVE  a = m * (a \div m) + (a % m) /\ a \div m \in Int /\ a % m \in 0..(m - 1)
  OBVIOUS

(* A remainder is determined by any quotient that leaves it.               *)
LEMMA ModUnique ==
  ASSUME NEW a \in Int, NEW q \in Int, NEW m \in Nat, m > 0,
         NEW u \in 0..(m - 1), a = m * q + u
  PROVE  a % m = u
  OBVIOUS

(* Moving on by at most one lap wraps at most once: what & _wrap_mask does *)
(* to a position that grows.                                               *)
LEMMA ModPlus ==
  ASSUME NEW a \in Int, NEW m \in Nat, m > 0, NEW d \in 0..m
  PROVE  (a + d) % m = IF (a % m) + d < m THEN (a % m) + d ELSE (a % m) + d - m
<1> DEFINE q == a \div m
           u == a % m
<1>1. a = m * q + u /\ q \in Int /\ u \in 0..(m - 1)
  BY ModDef
<1>2. SUFFICES (a + d) % m = IF u + d < m THEN u + d ELSE u + d - m
  OBVIOUS
<1> HIDE DEF q, u
<1>3. CASE u + d < m
  <2>1. a + d = m * q + (u + d) /\ u + d \in 0..(m - 1) /\ a + d \in Int
    BY <1>1, <1>3
  <2>2. (a + d) % m = u + d
    BY ONLY <2>1, <1>1, ModUnique, m \in Nat, m > 0
  <2> QED
    BY <2>2, <1>3
<1>4. CASE ~(u + d < m)
  <2>1. m * (q + 1) = m * q + m
    BY <1>1
  <2>2. a + d = m * (q + 1) + (u + d - m) /\ u + d - m \in 0..(m - 1)
        /\ q + 1 \in Int /\ a + d \in Int
    BY <1>1, <1>4, <2>1
  <2>3. (a + d) % m = u + d - m
    BY ONLY <2>2, ModUnique, m \in Nat, m > 0
  <2> QED
    BY <2>3, <1>4
<1> QED
  BY <1>3, <1>4

(* Wrapping to a multiple of m first makes no difference modulo m: why a   *)
(* power-of-two capacity may index with a position that has overflowed.    *)
LEMMA ModMod ==
  ASSUME NEW a \in Int, NEW m \in Nat, m > 0, NEW k \in Nat, k > 0
  PROVE  (a % (m * k)) % m = a % m
<1> DEFINE n == m * k
           q == a \div n
           u == a % n
           x == u \div m
           v == u % m
<1>1. n \in Nat /\ n > 0
  OBVIOUS
<1>2. a = n * q + u /\ q \in Int /\ u \in 0..(n - 1)
  BY <1>1, ModDef
<1>3. u = m * x + v /\ x \in Int /\ v \in 0..(m - 1)
  BY <1>2, ModDef
<1>4. a = m * (k * q + x) + v /\ k * q + x \in Int
  <2> HIDE DEF q, u, x, v
  <2> QED
    BY <1>2, <1>3
<1>5. a % m = v
  BY <1>4, <1>3, ModUnique
<1> QED
  BY <1>5

(* An operand of a sum may be wrapped before the sum is.                   *)
LEMMA ModAdd ==
  ASSUME NEW a \in Int, NEW b \in Int, NEW m \in Nat, m > 0
  PROVE  ((a % m) + b) % m = (a + b) % m
<1> DEFINE q == a \div m
           u == a % m
           x == (u + b) \div m
           v == (u + b) % m
<1>1. a = m * q + u /\ q \in Int /\ u \in 0..(m - 1)
  BY ModDef
<1>2. u + b = m * x + v /\ x \in Int /\ v \in 0..(m - 1)
  BY <1>1, ModDef
<1> SUFFICES v = (a + b) % m
  OBVIOUS
<1> HIDE DEF q, u, x, v
<1>3. a + b = m * (q + x) + v /\ q + x \in Int /\ a + b \in Int
  BY <1>1, <1>2
<1> QED
  BY ONLY <1>3, <1>2, ModUnique, m \in Nat, m > 0

(* A difference that fits in the width is computed exactly from wrapped    *)
(* operands: the free space of reserve_write().                            *)
LEMMA ModDiff ==
  ASSUME NEW a \in Int, NEW b \in Int, NEW c \in Int, NEW m \in Nat, m > 0,
         a + c - b \in 0..(m - 1)
  PROVE  ((a % m) + c - (b % m)) % m = a + c - b
<1> DEFINE q == a \div m
           u == a % m
           x == b \div m
           v == b % m
<1>1. a = m * q + u /\ q \in Int /\ u \in 0..(m - 1)
  BY ModDef
<1>2. b = m * x + v /\ x \in Int /\ v \in 0..(m - 1)
  BY ModDef
<1> SUFFICES (u + c - v) % m = a + c - b
  OBVIOUS
<1> HIDE DEF q, u, x, v
<1>3. u + c - v = m * (x - q) + (a + c - b) /\ x - q \in Int /\ u + c - v \in Int
  BY <1>1, <1>2
<1> QED
  BY ONLY <1>3, ModUnique, m \in Nat, m > 0, a + c - b \in 0..(m - 1)

(* Positions less than one lap apart that wrap to the same value are the   *)
(* same: what is_empty() concludes from equal positions.                   *)
LEMMA ModEqual ==
  ASSUME NEW a \in Int, NEW b \in Int, NEW m \in Nat, m > 0,
         a <= b, b < a + m, a % m = b % m
  PROVE  a = b
<1>1. b - a \in 0..m /\ a + (b - a) = b
  OBVIOUS
<1>2. b % m = IF (a % m) + (b - a) < m THEN (a % m) + (b - a)
                                       ELSE (a % m) + (b - a) - m
  BY <1>1, ModPlus
<1>3. a % m \in 0..(m - 1)
  BY ModDef
<1> QED
  BY <1>2, <1>3

(* Two consecutive pieces of a stream that together are no longer than the *)
(* ring do not meet in a buffer of two ring lengths in which a piece is    *)
(* never split.                                                            *)
LEMMA RingDisjoint ==
  ASSUME NEW p \in Nat, NEW q \in Nat, NEW s \in Nat, NEW t \in Nat,
         NEW m \in Nat, m > 0, t > 0,
         p + s <= q, q + t <= p + m,
         NEW i \in 0..(s - 1), NEW j \in 0..(t - 1)
  PROVE  (p % m) + i # (q % m) + j
<1>1. PICK d \in 0..m : q = p + d
  <2> WITNESS q - p \in 0..m
  <2> QED
    OBVIOUS
<1>2. (p + d) % m = IF (p % m) + d < m THEN (p % m) + d ELSE (p % m) + d - m
  <2>1. p \in Int
    OBVIOUS
  <2> QED
    BY ONLY <2>1, ModPlus, m \in Nat, m > 0, d \in 0..m, Zenon
<1>3. p % m \in 0..(m - 1)
  BY ModDef
<1> QED
  BY <1>1, <1>2, <1>3

(* Elementary consequences of the assumption on the constants.             *)
LEMMA ConstantFacts ==
  /\ Capacity \in Nat /\ Capacity > 0
  /\ SizeMod \in Nat /\ SizeMod > 0 /\ 2 * Capacity < SizeMod
  /\ \A s \in Sizes : s \in Nat /\ s > 0 /\ s < SizeMod
  /\ MaxWritten \in Nat
  BY QueueAssumption

(* Indexing with a position that has wrapped around SizeMod.               *)
LEMMA WrapIndexOfWrapped ==
  ASSUME NEW a \in Nat
  PROVE  /\ WrapIndex(a % SizeMod) = a % Capacity
         /\ a % Capacity \in 0..(Capacity - 1)
         /\ a % SizeMod \in Position
<1>1. PICK k \in 1..SizeMod : SizeMod = Capacity * k
  BY QueueAssumption
<1>2. a \in Int /\ k \in Nat /\ k > 0 /\ Capacity \in Nat /\ Capacity > 0
      /\ SizeMod \in Nat /\ SizeMod > 0
  BY <1>1, ConstantFacts
<1>3. (a % (Capacity * k)) % Capacity = a % Capacity
  BY ONLY <1>2, ModMod, Zenon
<1>4. a % Capacity \in 0..(Capacity - 1) /\ a % SizeMod \in 0..(SizeMod - 1)
  BY <1>2, ModDef
<1> QED
  BY <1>1, <1>3, <1>4 DEF WrapIndex, Position

(* Stream positions are natural numbers.                                   *)
LEMMA StreamEndNat ==
  ASSUME TypeOK, NEW k \in 0..Len(sent)
  PROVE  StreamEnd(k) \in Nat
<1>1. CASE k = 0
  BY <1>1 DEF StreamEnd
<1>2. CASE k # 0
  <2>1. sent[k] \in Event
    BY <1>2 DEF TypeOK
  <2>2. sent[k].size \in Nat /\ sent[k].start \in Nat
    BY <2>1, ConstantFacts DEF Event
  <2> QED
    BY <1>2, <2>2 DEF StreamEnd
<1> QED
  BY <1>1, <1>2

(* The initial state.                                                      *)
LEMMA InitInv == Init => IInv
<1> SUFFICES ASSUME Init PROVE IInv
  OBVIOUS
<1> USE DEF Init
<1>1. 0 % SizeMod = 0
  BY ConstantFacts
<1>2. TypeOK
  BY ConstantFacts DEF TypeOK, Position, Cell, ZeroCell, Event, BufferSize, Null
<1>3. OrderInv
  BY DEF OrderInv
<1>4. StreamInv
  BY ConstantFacts DEF StreamInv, StreamEnd, Written
<1>5. PositionInv
  BY <1>1 DEF PositionInv, StreamEnd, Written
<1>6. ReservationInv
  BY DEF ReservationInv
<1>7. ContentInv
  BY DEF ContentInv
<1>8. DeliveredInOrder
  BY DEF DeliveredInOrder
<1> QED
  BY <1>2, <1>3, <1>4, <1>5, <1>6, <1>7, <1>8 DEF IInv

(* The free space that reserve_write() computes from wrapped positions is  *)
(* the free space in the stream.                                           *)
LEMMA FreeSpaceExact ==
  ASSUME IInv, NEW i \in acq_r..Len(atomic_r)
  PROVE  /\ StreamEnd(i) + Capacity - Written \in 0..Capacity
         /\ FreeSpace(StreamEnd(i) % SizeMod) = StreamEnd(i) + Capacity - Written
<1>1. /\ acq_r \in 0..Len(sent) /\ i \in 0..Len(sent) /\ Len(sent) \in 0..Len(sent)
      /\ acq_r <= i /\ i <= Len(sent)
  BY DEF IInv, OrderInv, TypeOK
<1>2. StreamEnd(acq_r) \in Nat /\ StreamEnd(i) \in Nat /\ Written \in Nat
  BY <1>1, StreamEndNat DEF IInv, Written
<1>3. StreamEnd(acq_r) <= StreamEnd(i) /\ StreamEnd(i) <= Written
  <2>1. acq_r = i \/ StreamEnd(acq_r) < StreamEnd(i)
    BY <1>1 DEF IInv, StreamInv
  <2>2. i = Len(sent) \/ StreamEnd(i) < StreamEnd(Len(sent))
    BY <1>1 DEF IInv, StreamInv
  <2> QED
    BY <1>2, <2>1, <2>2 DEF Written
<1>4. Written <= StreamEnd(acq_r) + Capacity
  BY DEF IInv, StreamInv
<1> HIDE DEF Written
<1>5. StreamEnd(i) + Capacity - Written \in 0..Capacity
  BY <1>2, <1>3, <1>4, ConstantFacts
<1>6. StreamEnd(i) + Capacity - Written \in 0..(SizeMod - 1)
  BY <1>5, ConstantFacts
<1>7. w = Written % SizeMod
  BY DEF IInv, PositionInv
<1>8. ((StreamEnd(i) % SizeMod) + Capacity - (Written % SizeMod)) % SizeMod
        = StreamEnd(i) + Capacity - Written
  <2>1. StreamEnd(i) \in Int /\ Written \in Int /\ Capacity \in Int
        /\ SizeMod \in Nat /\ SizeMod > 0
    BY <1>2, ConstantFacts
  <2> QED
    BY ONLY <2>1, <1>6, ModDiff, Zenon
<1> QED
  BY <1>5, <1>7, <1>8 DEF FreeSpace

(* What reserve_write() leaves behind.                                     *)
LEMMA ReserveWriteFacts ==
  ASSUME IInv, NEW size \in Sizes, ReserveWrite(size)
  PROVE  /\ acq_r' \in acq_r..Len(atomic_r)
         /\ cached_r' = StreamEnd(acq_r') % SizeMod
         /\ FreeSpace(cached_r') = StreamEnd(acq_r') + Capacity - Written
         /\ prod' = "reserved" <=> Written + size <= StreamEnd(acq_r') + Capacity
         /\ prod' \in {"reserved", "dropped"}
<1>1. acq_r \in Nat /\ acq_r <= Len(atomic_r) /\ Len(atomic_r) \in Nat
      /\ Len(atomic_r) <= Len(sent) /\ Len(sent) \in Nat
  BY DEF IInv, OrderInv, TypeOK
<1>2. acq_r' \in acq_r..Len(atomic_r) /\ cached_r' = StreamEnd(acq_r') % SizeMod
  <2>1. CASE FreeSpace(cached_r) < size
    <3>1. PICK i \in acq_r..Len(atomic_r) :
            cached_r' = Value(atomic_r, i) /\ acq_r' = i
      BY <2>1 DEF ReserveWrite, LoadR, Loadable
    <3>2. CASE i = 0
      <4>1. 0 % SizeMod = 0
        BY ConstantFacts
      <4> QED
        BY <3>1, <3>2, <4>1, <1>1 DEF Value, StreamEnd
    <3>3. CASE i # 0
      BY <3>1, <3>3, <1>1 DEF Value, IInv, PositionInv
    <3> QED
      BY <3>2, <3>3
  <2>2. CASE ~(FreeSpace(cached_r) < size)
    BY <2>2, <1>1 DEF ReserveWrite, IInv, PositionInv
  <2> QED
    BY <2>1, <2>2
<1>3. /\ StreamEnd(acq_r') + Capacity - Written \in 0..Capacity
      /\ FreeSpace(cached_r') = StreamEnd(acq_r') + Capacity - Written
  BY <1>2, FreeSpaceExact
<1>4. acq_r' \in 0..Len(sent) /\ Len(sent) \in 0..Len(sent)
  BY <1>1, <1>2
<1>5. StreamEnd(acq_r') \in Nat /\ Written \in Nat
  BY <1>4, StreamEndNat DEF IInv, Written
<1>6. size \in Nat /\ Capacity \in Nat
  BY ConstantFacts
<1>7. /\ prod' \in {"reserved", "dropped"}
      /\ prod' = "dropped" <=> FreeSpace(cached_r') < size
  BY DEF ReserveWrite
<1> QED
  BY <1>2, <1>3, <1>5, <1>6, <1>7

(* reserve_write() keeps the invariant.                                    *)
LEMMA ReserveWriteInv ==
  ASSUME IInv, NEW size \in Sizes, ReserveWrite(size)
  PROVE  IInv'
<1> USE DEF IInv
<1>1. /\ UNCHANGED <<atomic_w, w, sent, atomic_r, r, cached_w, acq_w, cons,
                     read, received, buffer>>
      /\ prod \in {"idle", "dropped"}
      /\ prod' = "reserved" =>
           write' = [buffer |-> WrapIndex(w), new_write_pos |-> (w + size) % SizeMod,
                     size |-> size]
      /\ prod' = "dropped" =>
           write' = [buffer |-> Null, new_write_pos |-> 0, size |-> size]
  BY DEF ReserveWrite, consumerVars
<1>2. /\ acq_r' \in acq_r..Len(atomic_r)
      /\ cached_r' = StreamEnd(acq_r') % SizeMod
      /\ prod' = "reserved" <=> Written + size <= StreamEnd(acq_r') + Capacity
      /\ prod' \in {"reserved", "dropped"}
  BY ReserveWriteFacts
<1>3. \A k : StreamEnd(k)' = StreamEnd(k)
  BY <1>1 DEF StreamEnd
<1>4. Written' = Written /\ StreamEnd(acq_r)' = StreamEnd(acq_r')
  BY <1>1 DEF Written, StreamEnd
<1>5. /\ acq_r \in Nat /\ acq_r' \in Nat /\ Len(atomic_r) \in Nat /\ Len(sent) \in Nat
      /\ acq_r' \in 0..Len(sent) /\ acq_r \in 0..Len(sent)
      /\ Len(sent) \in 0..Len(sent)
  BY <1>2 DEF OrderInv, TypeOK
<1>6. StreamEnd(acq_r') \in Nat /\ StreamEnd(acq_r) \in Nat /\ Written \in Nat
  BY <1>5, StreamEndNat DEF Written
<1>7. /\ WrapIndex(w) = Written % Capacity
      /\ Written % Capacity \in 0..(Capacity - 1)
      /\ (Written + size) % SizeMod = (w + size) % SizeMod
      /\ (w + size) % SizeMod \in Position
  <2>1. w = Written % SizeMod /\ w \in Nat /\ size \in Int /\ Written \in Int
        /\ SizeMod \in Nat /\ SizeMod > 0
    BY <1>6, ConstantFacts DEF PositionInv, TypeOK, Position
  <2>2. ((Written % SizeMod) + size) % SizeMod = (Written + size) % SizeMod
    BY ONLY <2>1, ModAdd, Zenon
  <2>3. w + size \in Nat
    BY <2>1, ConstantFacts
  <2> QED
    BY <1>6, <2>1, <2>2, <2>3, WrapIndexOfWrapped
<1>8. TypeOK'
  <2>1. write' \in [buffer : {Null} \cup 0..(Capacity - 1),
                    new_write_pos : Position, size : Sizes \cup {0}]
    BY <1>1, <1>2, <1>7, ConstantFacts DEF Position
  <2>2. cached_r' \in Position
    BY <1>2, <1>6, WrapIndexOfWrapped
  <2> QED
    BY <1>1, <1>2, <1>5, <2>1, <2>2 DEF TypeOK, BufferSize
<1>9. OrderInv'
  BY <1>1, <1>2, <1>5 DEF OrderInv
<1>10. StreamInv'
  <2>1. Written <= StreamEnd(acq_r') + Capacity
    <3>1. StreamEnd(acq_r') + Capacity - Written \in 0..Capacity
      BY <1>2, FreeSpaceExact
    <3> QED
      BY <3>1, <1>6, ConstantFacts
  <2> QED
    BY <1>1, <1>3, <1>4, <2>1 DEF StreamInv
<1>11. PositionInv'
  BY <1>1, <1>2, <1>3, <1>4 DEF PositionInv
<1>12. ReservationInv'
  <2>1. (prod \in {"reserved", "encoded"})' =>
          /\ write.size' \in Sizes
          /\ write.buffer' = Written % Capacity
          /\ write.new_write_pos' = (Written + write.size') % SizeMod
          /\ Written + write.size' <= StreamEnd(acq_r') + Capacity
    BY <1>1, <1>2, <1>7
  <2> QED
    BY <1>1, <1>3, <1>4, <2>1 DEF ReservationInv
<1>13. ContentInv'
  BY <1>1, <1>2, <1>3 DEF ContentInv
<1>14. DeliveredInOrder'
  BY <1>1 DEF DeliveredInOrder
<1> QED
  BY <1>8, <1>9, <1>10, <1>11, <1>12, <1>13, <1>14

(* Facts about one committed event.                                        *)
LEMMA EventFacts ==
  ASSUME IInv, NEW k \in 1..Len(sent)
  PROVE  /\ sent[k] \in Event /\ sent[k].size \in Nat /\ sent[k].size > 0
         /\ sent[k].size \in Sizes
         /\ StreamEnd(k - 1) \in Nat /\ StreamEnd(k) \in Nat /\ Written \in Nat
         /\ StreamEnd(k) = StreamEnd(k - 1) + sent[k].size
         /\ sent[k].start = StreamEnd(k - 1)
         /\ StreamEnd(k) <= Written
<1> USE DEF IInv
<1>1. sent[k] \in Event
  BY DEF TypeOK
<1>2. sent[k].size \in Nat /\ sent[k].size > 0 /\ sent[k].size \in Sizes
  BY <1>1, ConstantFacts DEF Event
<1>3. k - 1 \in 0..Len(sent) /\ k \in 0..Len(sent) /\ Len(sent) \in 0..Len(sent)
  BY DEF TypeOK
<1>4. StreamEnd(k - 1) \in Nat /\ StreamEnd(k) \in Nat /\ Written \in Nat
  BY <1>3, StreamEndNat DEF Written
<1>5. sent[k].start = StreamEnd(k - 1)
  BY DEF StreamInv
<1>6. StreamEnd(k) = StreamEnd(k - 1) + sent[k].size
  BY <1>5 DEF StreamEnd
<1>7. StreamEnd(k) <= Written
  <2>1. k = Len(sent) \/ StreamEnd(k) < StreamEnd(Len(sent))
    BY <1>3 DEF StreamInv
  <2> QED
    BY <2>1, <1>4 DEF Written
<1> QED
  BY <1>1, <1>2, <1>4, <1>5, <1>6, <1>7

(* A reservation and an event whose release the producer has not seen have *)
(* no cell in common.                                                      *)
LEMMA LiveDisjoint ==
  ASSUME IInv, prod \in {"reserved", "encoded"},
         NEW k \in (acq_r + 1)..Len(sent),
         NEW i \in Cells(0, sent[k].size), NEW j \in Cells(0, write.size)
  PROVE  (StreamEnd(k - 1) % Capacity) + i # write.buffer + j
<1> USE DEF IInv
<1>1. k \in 1..Len(sent) /\ acq_r \in 0..Len(sent) /\ k - 1 \in 0..Len(sent)
      /\ acq_r <= k - 1
  BY DEF TypeOK, OrderInv
<1>2. /\ write.size \in Nat /\ write.size > 0
      /\ write.buffer = Written % Capacity
      /\ Written + write.size <= StreamEnd(acq_r) + Capacity
  BY ConstantFacts DEF ReservationInv
<1>3. StreamEnd(acq_r) \in Nat
  BY <1>1, StreamEndNat
<1>4. StreamEnd(acq_r) <= StreamEnd(k - 1)
  <2>1. acq_r = k - 1 \/ StreamEnd(acq_r) < StreamEnd(k - 1)
    BY <1>1 DEF StreamInv
  <2>2. StreamEnd(k - 1) \in Nat
    BY <1>1, StreamEndNat
  <2> QED
    BY <2>1, <2>2, <1>3
<1> DEFINE p == StreamEnd(k - 1)
           q == Written
           s == sent[k].size
           t == write.size
<1>5. /\ p \in Nat /\ q \in Nat /\ s \in Nat /\ t \in Nat /\ t > 0
      /\ p + s <= q
  BY <1>1, <1>2, EventFacts
<1>6. q + t <= p + Capacity
  <2> HIDE DEF q, t
  <2>1. q + t <= StreamEnd(acq_r) + Capacity
    BY <1>2 DEF q, t
  <2> QED
    BY <2>1, <1>3, <1>4, <1>5, ConstantFacts DEF p
<1>7. i \in 0..(s - 1) /\ j \in 0..(t - 1) /\ Capacity \in Nat /\ Capacity > 0
  BY <1>5, ConstantFacts DEF Cells
<1>8. (p % Capacity) + i # (q % Capacity) + j
  <2> HIDE DEF p, q, s, t
  <2> QED
    BY ONLY <1>5, <1>6, <1>7, RingDisjoint, Zenon
<1> QED
  BY <1>8, <1>2

(* An event fits into the capacity, hence in the buffer of twice its size. *)
LEMMA EventFits ==
  ASSUME IInv, NEW k \in (Len(atomic_r) + 1)..Len(sent)
  PROVE  sent[k].size <= Capacity
<1> USE DEF IInv
<1>1. /\ acq_r \in Nat /\ acq_r <= Len(atomic_r) /\ Len(atomic_r) \in Nat
      /\ Len(sent) \in Nat /\ k \in 1..Len(sent)
  BY DEF OrderInv, TypeOK
<1>2. /\ sent[k].size \in Nat
      /\ StreamEnd(k - 1) \in Nat /\ StreamEnd(k) = StreamEnd(k - 1) + sent[k].size
      /\ StreamEnd(k) <= Written /\ Written \in Nat
  BY <1>1, EventFacts
<1>3. acq_r \in 0..Len(sent) /\ k - 1 \in 0..Len(sent)
      /\ (acq_r = k - 1 \/ acq_r < k - 1)
  BY <1>1
<1>4. StreamEnd(acq_r) \in Nat
  BY <1>3, StreamEndNat
<1>5. acq_r = k - 1 \/ StreamEnd(acq_r) < StreamEnd(k - 1)
  BY <1>3 DEF StreamInv
<1>6. Written <= StreamEnd(acq_r) + Capacity
  BY DEF StreamInv
<1> QED
  BY <1>2, <1>4, <1>5, <1>6, ConstantFacts

(* Encoding into the reservation keeps the invariant.                      *)
LEMMA EncodeInv ==
  ASSUME IInv, Encode
  PROVE  IInv'
<1> USE DEF IInv
<1>1. /\ UNCHANGED <<atomic_w, w, cached_r, acq_r, write, sent, atomic_r, r,
                     cached_w, acq_w, cons, read, received>>
      /\ prod = "reserved" /\ prod' = "encoded"
  BY DEF Encode, consumerVars
<1>2. (\A k : StreamEnd(k)' = StreamEnd(k)) /\ Written' = Written
  BY <1>1 DEF StreamEnd, Written
<1>3. StreamEnd(acq_r)' = StreamEnd(acq_r)
      /\ StreamEnd(acq_w)' = StreamEnd(acq_w)
      /\ StreamEnd(Len(atomic_r))' = StreamEnd(Len(atomic_r))
  BY <1>1 DEF StreamEnd
<1>4. /\ write.size \in Sizes /\ write.size \in Nat /\ write.size > 0
      /\ Written \in Nat /\ write.buffer \in 0..(Capacity - 1)
      /\ NewEvent \in Event
  <2>1. Len(sent) \in 0..Len(sent)
    BY DEF TypeOK
  <2>2. Written \in Nat
    BY <2>1, StreamEndNat DEF Written
  <2> QED
    BY <1>1, <2>2, ConstantFacts, WrapIndexOfWrapped
       DEF ReservationInv, NewEvent, Event
<1>5. /\ DOMAIN buffer = 0..(BufferSize - 1) /\ DOMAIN buffer' = DOMAIN buffer
      /\ \A i \in DOMAIN buffer :
           buffer'[i] = IF i \in Cells(write.buffer, write.size)
                        THEN [ev |-> NewEvent, at |-> i - write.buffer]
                        ELSE buffer[i]
  BY DEF Encode, TypeOK
<1>6. TypeOK'
  <2>1. buffer' \in [0..(BufferSize - 1) -> Cell]
    <3>1. ASSUME NEW i \in 0..(BufferSize - 1),
                 i \in Cells(write.buffer, write.size)
          PROVE  i - write.buffer \in Nat
      BY <3>1, <1>4, ConstantFacts DEF Cells, BufferSize
    <3>2. ASSUME NEW i \in 0..(BufferSize - 1)
          PROVE  (IF i \in Cells(write.buffer, write.size)
                  THEN [ev |-> NewEvent, at |-> i - write.buffer]
                  ELSE buffer[i]) \in Cell
      <4>1. buffer[i] \in Cell
        BY DEF TypeOK
      <4> QED
        BY <4>1, <3>1, <1>4 DEF Cell
    <3> QED
      BY <3>2, <1>5 DEF Encode
  <2> QED
    BY <1>1, <2>1 DEF TypeOK
<1>7. OrderInv'
  BY <1>1 DEF OrderInv
<1>8. StreamInv'
  BY <1>1, <1>2, <1>3 DEF StreamInv
<1>9. PositionInv'
  BY <1>1, <1>2, <1>3 DEF PositionInv
<1>10. ReservationInv'
  BY <1>1, <1>2, <1>3 DEF ReservationInv
<1>11. ContentInv'
  <2>1. ASSUME NEW k \in (Len(atomic_r) + 1)..Len(sent),
               NEW j \in Cells(0, sent[k].size)
        PROVE  buffer'[(StreamEnd(k - 1) % Capacity) + j]
                 = [ev |-> sent[k], at |-> j]
    <3> DEFINE c == (StreamEnd(k - 1) % Capacity) + j
    <3>1. k \in 1..Len(sent) /\ k \in (acq_r + 1)..Len(sent)
      BY DEF OrderInv, TypeOK
    <3>2. buffer[c] = [ev |-> sent[k], at |-> j]
      BY DEF ContentInv
    <3>3. c \in DOMAIN buffer
      <4>1. sent[k].size <= Capacity
        BY EventFits
      <4>2. StreamEnd(k - 1) % Capacity \in 0..(Capacity - 1)
        BY <3>1, EventFacts, WrapIndexOfWrapped
      <4>3. sent[k].size \in Nat /\ j \in 0..(sent[k].size - 1)
        BY <3>1, EventFacts DEF Cells
      <4> QED
        BY <4>1, <4>2, <4>3, <1>5, ConstantFacts DEF BufferSize
    <3>4. c \notin Cells(write.buffer, write.size)
      <4> SUFFICES ASSUME c \in Cells(write.buffer, write.size) PROVE FALSE
        OBVIOUS
      <4> DEFINE d == c - write.buffer
      <4>1. d \in Cells(0, write.size) /\ c = write.buffer + d
        BY <3>3, <1>4, <1>5, ConstantFacts DEF Cells, BufferSize
      <4> QED
        BY <4>1, <3>1, <1>1, LiveDisjoint
    <3> QED
      BY <3>2, <3>3, <3>4, <1>5
  <2>2. ASSUME NEW j \in Cells(0, write.size)
        PROVE  buffer'[write.buffer + j] = [ev |-> NewEvent, at |-> j]
    <3>1. j \in Nat /\ j < write.size
      BY <1>4 DEF Cells
    <3>2. write.size <= Capacity
      <4>1. Written + write.size <= StreamEnd(acq_r) + Capacity
        BY <1>1 DEF ReservationInv
      <4>2. StreamEnd(acq_r) \in Nat /\ StreamEnd(acq_r) <= Written
        <5>1. acq_r \in 0..Len(sent) /\ Len(sent) \in 0..Len(sent)
          BY DEF OrderInv, TypeOK
        <5>2. acq_r = Len(sent) \/ StreamEnd(acq_r) < StreamEnd(Len(sent))
          BY <5>1 DEF StreamInv
        <5> QED
          BY <5>1, <5>2, <1>4, StreamEndNat DEF Written
      <4> QED
        BY <4>1, <4>2, <1>4, ConstantFacts
    <3>3. write.buffer + j \in DOMAIN buffer
          /\ write.buffer + j \in Cells(write.buffer, write.size)
          /\ (write.buffer + j) - write.buffer = j
      BY <3>1, <3>2, <1>4, <1>5, ConstantFacts DEF Cells, BufferSize
    <3> QED
      BY <3>3, <1>5
  <2>3. NewEvent' = NewEvent
    BY <1>1, <1>2 DEF NewEvent
  <2> QED
    BY <2>1, <2>2, <2>3, <1>1, <1>2 DEF ContentInv
<1>12. DeliveredInOrder'
  BY <1>1 DEF DeliveredInOrder
<1> QED
  BY <1>6, <1>7, <1>8, <1>9, <1>10, <1>11, <1>12

(* Committing an event moves no earlier stream position.                   *)
LEMMA CommitWriteStream ==
  ASSUME IInv, CommitWrite
  PROVE  /\ Len(sent) \in Nat /\ Len(sent') = Len(sent) + 1
         /\ sent' \in Seq(Event)
         /\ \A k \in 1..Len(sent) : sent'[k] = sent[k]
         /\ sent'[Len(sent) + 1] = NewEvent
         /\ \A k \in 0..Len(sent) : StreamEnd(k)' = StreamEnd(k)
         /\ \A k : k = Len(sent) + 1 => StreamEnd(k)' = Written + write.size
         /\ Written' = Written + write.size
         /\ Written \in Nat /\ write.size \in Nat /\ write.size > 0
         /\ write.size \in Sizes /\ NewEvent \in Event
<1> USE DEF IInv
<1>1. Len(sent) \in Nat /\ Len(sent) \in 0..Len(sent) /\ sent \in Seq(Event)
  BY DEF TypeOK
<1>2. Written \in Nat
  BY <1>1, StreamEndNat DEF Written
<1>3. write.size \in Sizes /\ write.size \in Nat /\ write.size > 0
  BY ConstantFacts DEF CommitWrite, ReservationInv
<1>4. NewEvent \in Event /\ NewEvent.start = Written /\ NewEvent.size = write.size
  BY <1>2, <1>3 DEF NewEvent, Event
<1>5. sent' = Append(sent, NewEvent)
  BY DEF CommitWrite
<1> HIDE DEF NewEvent
<1>6. /\ Len(sent') = Len(sent) + 1 /\ sent' \in Seq(Event)
      /\ \A k \in 1..Len(sent) : sent'[k] = sent[k]
      /\ sent'[Len(sent) + 1] = NewEvent
  BY <1>1, <1>4, <1>5
<1>7. \A k \in 0..Len(sent) : StreamEnd(k)' = StreamEnd(k)
  BY <1>1, <1>6 DEF StreamEnd
<1>8. \A k : k = Len(sent) + 1 => StreamEnd(k)' = Written + write.size
  BY <1>1, <1>4, <1>6 DEF StreamEnd
<1>9. Written' = Written + write.size
  BY <1>1, <1>4, <1>6 DEF StreamEnd, Written
<1> QED
  BY <1>1, <1>2, <1>3, <1>4, <1>6, <1>7, <1>8, <1>9

(* commit_write() keeps the invariant.                                     *)
LEMMA CommitWriteInv ==
  ASSUME IInv, CommitWrite
  PROVE  IInv'
<1> USE DEF IInv
<1> DEFINE n == Len(sent)
<1>1. /\ UNCHANGED <<cached_r, acq_r, write, atomic_r, r, cached_w, acq_w, cons,
                     read, received, buffer>>
      /\ prod = "encoded" /\ prod' = "idle"
      /\ w' = write.new_write_pos /\ atomic_w' = Append(atomic_w, w')
  BY DEF CommitWrite, consumerVars
<1>2. /\ n \in Nat /\ Len(sent') = n + 1
      /\ sent' \in Seq(Event)
      /\ \A k \in 1..n : sent'[k] = sent[k]
      /\ sent'[n + 1] = NewEvent
      /\ \A k \in 0..n : StreamEnd(k)' = StreamEnd(k)
      /\ \A k : k = n + 1 => StreamEnd(k)' = Written + write.size
      /\ Written' = Written + write.size
      /\ Written \in Nat /\ write.size \in Nat /\ write.size > 0
      /\ write.size \in Sizes /\ NewEvent \in Event
  BY CommitWriteStream
<1>3. /\ acq_r \in 0..n /\ acq_w \in 0..n /\ Len(atomic_r) \in 0..n
      /\ Len(atomic_w) = n /\ acq_r <= Len(atomic_r) /\ Len(atomic_r) <= acq_w
  BY DEF TypeOK, OrderInv
<1>4. /\ StreamEnd(acq_r)' = StreamEnd(acq_r)
      /\ StreamEnd(acq_w)' = StreamEnd(acq_w)
      /\ StreamEnd(Len(atomic_r))' = StreamEnd(Len(atomic_r))
  <2>1. \A k \in 0..n : \A m : m = k => StreamEnd(m)' = StreamEnd(k)
    BY <1>2
  <2> QED
    BY <1>1, <1>2, <1>3 DEF StreamEnd
<1>5. /\ write.new_write_pos = (Written + write.size) % SizeMod
      /\ Written + write.size <= StreamEnd(acq_r) + Capacity
      /\ write.new_write_pos \in Position
  <2>1. Written + write.size \in Nat
    BY <1>2
  <2>2. (Written + write.size) % SizeMod \in Position
    BY <2>1, WrapIndexOfWrapped
  <2> QED
    BY <1>1, <2>2 DEF ReservationInv
<1>6. /\ atomic_w' \in Seq(Position) /\ Len(atomic_w') = n + 1
      /\ \A k \in 1..n : atomic_w'[k] = atomic_w[k]
      /\ atomic_w'[n + 1] = w'
  BY <1>1, <1>2, <1>3, <1>5 DEF TypeOK
<1> HIDE DEF n
<1>7. TypeOK'
  BY <1>1, <1>2, <1>5, <1>6 DEF TypeOK
<1>8. OrderInv'
  BY <1>1, <1>2, <1>3, <1>6 DEF OrderInv, n
<1>9. StreamInv'
  <2>1. ASSUME NEW k \in 1..Len(sent') PROVE sent'[k].start = StreamEnd(k - 1)'
    <3>1. CASE k \in 1..n
      <4>1. k - 1 \in 0..n
        BY <3>1, <1>2
      <4> QED
        BY <3>1, <4>1, <1>2 DEF StreamInv, n
    <3>2. CASE k = n + 1
      <4>1. k - 1 = n /\ n \in 0..n
        BY <3>2, <1>2
      <4>2. StreamEnd(k - 1)' = StreamEnd(n)
        BY <4>1, <1>2
      <4> QED
        BY <3>2, <4>2, <1>2 DEF NewEvent, Written, n
    <3> QED
      BY <3>1, <3>2, <1>2
  <2>2. ASSUME NEW i \in 0..Len(sent'), NEW j \in 0..Len(sent'), i < j
        PROVE  StreamEnd(i)' < StreamEnd(j)'
    <3>1. i \in 0..n
      BY <2>2, <1>2
    <3>2. CASE j \in 0..n
      BY <2>2, <3>1, <3>2, <1>2 DEF StreamInv, n
    <3>3. CASE j = n + 1
      <4>1. StreamEnd(j)' = Written + write.size /\ StreamEnd(i)' = StreamEnd(i)
        BY <3>1, <3>3, <1>2
      <4>2. StreamEnd(i) \in Nat
        BY <3>1, StreamEndNat DEF n
      <4>3. i = n \/ StreamEnd(i) < StreamEnd(n)
        <5>1. n \in 0..n /\ (i = n \/ i < n)
          BY <3>1, <1>2
        <5> QED
          BY <3>1, <5>1 DEF StreamInv, n
      <4> QED
        BY <4>1, <4>2, <4>3, <1>2 DEF Written, n
    <3> QED
      BY <3>2, <3>3, <1>2
  <2> QED
    BY <2>1, <2>2, <1>2, <1>4, <1>5 DEF StreamInv
<1>10. PositionInv'
  <2>1. ASSUME NEW k \in 1..Len(atomic_w')
        PROVE  atomic_w'[k] = StreamEnd(k)' % SizeMod
    <3>1. CASE k \in 1..n
      BY <3>1, <1>2, <1>3, <1>6 DEF PositionInv, n
    <3>2. CASE k = n + 1
      BY <3>2, <1>1, <1>2, <1>5, <1>6
    <3> QED
      BY <3>1, <3>2, <1>2, <1>6
  <2>2. ASSUME NEW k \in 1..Len(atomic_r')
        PROVE  atomic_r'[k] = StreamEnd(k)' % SizeMod
    BY <1>1, <1>2, <1>3 DEF PositionInv
  <2> QED
    BY <2>1, <2>2, <1>1, <1>2, <1>4, <1>5 DEF PositionInv
<1>11. ReservationInv'
  <2>1. cons = "decoded" => Len(atomic_r) + 1 \in 1..n
    BY <1>2, <1>3 DEF OrderInv, n
  <2> QED
    BY <2>1, <1>1, <1>2, <1>4 DEF ReservationInv
<1>12. ContentInv'
  <2>1. ASSUME NEW k \in (Len(atomic_r) + 1)..(n + 1),
               NEW j \in Cells(0, sent'[k].size)
        PROVE  buffer[(StreamEnd(k - 1)' % Capacity) + j]
                 = [ev |-> sent'[k], at |-> j]
    <3>1. CASE k # n + 1
      <4>1. k \in (Len(atomic_r) + 1)..n /\ k \in 1..n /\ k - 1 \in 0..n
        BY <3>1, <1>2, <1>3
      <4> QED
        BY <4>1, <1>2 DEF ContentInv, n
    <3>2. CASE k = n + 1
      <4>1. k - 1 = n /\ n \in 0..n
        BY <3>2, <1>2
      <4>2. StreamEnd(k - 1)' = Written
        BY <4>1, <1>2 DEF Written, n
      <4>3. sent'[k].size = write.size /\ sent'[k] = NewEvent
        BY <3>2, <1>2 DEF NewEvent
      <4>4. write.buffer = Written % Capacity
        BY <1>1 DEF ReservationInv
      <4> QED
        BY <4>2, <4>3, <4>4, <1>1 DEF ContentInv
    <3> QED
      BY <3>1, <3>2
  <2> QED
    BY <2>1, <1>1, <1>2 DEF ContentInv
<1>13. DeliveredInOrder'
  <2>1. Len(received) \in Nat /\ Len(received) <= n
    BY DEF DeliveredInOrder, n, TypeOK
  <2>2. \A k \in 1..Len(received) : k \in 1..n /\ received[k] = sent[k]
    BY <2>1, <1>2 DEF DeliveredInOrder
  <2> QED
    BY <2>1, <2>2, <1>1, <1>2 DEF DeliveredInOrder
<1> QED
  BY <1>7, <1>8, <1>9, <1>10, <1>11, <1>12, <1>13

(* Polling: is_empty() answers for the events the consumer has acquired,   *)
(* whichever of the two positions has wrapped.                             *)
LEMMA ReserveReadFacts ==
  ASSUME IInv, ReserveRead
  PROVE  /\ acq_w' \in acq_w..Len(sent)
         /\ cached_w' = StreamEnd(acq_w') % SizeMod
         /\ cons' \in {"idle", "reserved"}
         /\ cons' = "reserved" <=> Len(atomic_r) < acq_w'
<1> USE DEF IInv
<1> DEFINE b == Len(atomic_r)
<1>1. /\ acq_w \in Nat /\ acq_w <= Len(sent) /\ Len(sent) \in Nat
      /\ Len(atomic_w) = Len(sent) /\ b \in Nat /\ b <= acq_w
      /\ acq_r \in Nat /\ acq_r <= b
      /\ cached_w = StreamEnd(acq_w) % SizeMod /\ r = StreamEnd(b) % SizeMod
  BY DEF OrderInv, TypeOK, PositionInv
<1>2. acq_w' \in acq_w..Len(sent) /\ cached_w' = StreamEnd(acq_w') % SizeMod
  <2>1. CASE cached_w <= r
    <3>1. PICK i \in acq_w..Len(sent) : cached_w' = Value(atomic_w, i) /\ acq_w' = i
      BY <2>1, <1>1 DEF ReserveRead, LoadW, Loadable
    <3>2. CASE i = 0
      <4>1. 0 % SizeMod = 0
        BY ConstantFacts
      <4> QED
        BY <3>1, <3>2, <4>1, <1>1 DEF Value, StreamEnd
    <3>3. CASE i # 0
      BY <3>1, <3>3, <1>1 DEF Value, PositionInv
    <3> QED
      BY <3>2, <3>3
  <2>2. CASE ~(cached_w <= r)
    BY <2>2, <1>1 DEF ReserveRead
  <2> QED
    BY <2>1, <2>2
<1>3. ASSUME NEW i \in b..Len(sent)
      PROVE  StreamEnd(i) % SizeMod = r <=> i = b
  <2>1. i \in 0..Len(sent) /\ b \in 0..Len(sent) /\ acq_r \in 0..Len(sent)
        /\ Len(sent) \in 0..Len(sent)
    BY <1>1
  <2>2. StreamEnd(i) \in Nat /\ StreamEnd(b) \in Nat /\ StreamEnd(acq_r) \in Nat
        /\ StreamEnd(Len(sent)) \in Nat
    BY <2>1, StreamEndNat
  <2>3. /\ i = b \/ StreamEnd(b) < StreamEnd(i)
        /\ i = Len(sent) \/ StreamEnd(i) < StreamEnd(Len(sent))
        /\ acq_r = b \/ StreamEnd(acq_r) < StreamEnd(b)
    <3>1. (i = b \/ b < i) /\ (i = Len(sent) \/ i < Len(sent)) /\ (acq_r = b \/ acq_r < b)
      BY <1>1, <2>1
    <3> QED
      BY <2>1, <3>1 DEF StreamInv
  <2>4. StreamEnd(Len(sent)) <= StreamEnd(acq_r) + Capacity
    BY DEF StreamInv, Written
  <2> HIDE DEF b
  <2>5. StreamEnd(i) - StreamEnd(b) \in 0..(SizeMod - 1)
    BY <2>2, <2>3, <2>4, ConstantFacts
  <2>6. CASE i # b
    <3> DEFINE x == StreamEnd(i)
               y == StreamEnd(b)
    <3>1. x \in Int /\ y \in Int /\ SizeMod \in Nat /\ SizeMod > 0 /\ x # y
          /\ x - y \in 0..(SizeMod - 1)
      BY <2>2, <2>3, <2>5, <2>6, ConstantFacts
    <3>2. x % SizeMod # y % SizeMod
      <4> HIDE DEF x, y
      <4> QED
        BY ONLY <3>1, ModEqual
    <3> QED
      BY <3>2, <2>6, <1>1
  <2> QED
    BY <2>6, <1>1
<1>4. acq_w' \in b..Len(sent) /\ acq_w \in b..Len(sent)
  BY <1>1, <1>2
<1>5. /\ cons' \in {"idle", "reserved"}
      /\ cons' = "idle" <=> (cached_w <= r /\ cached_w' = r)
      /\ ~(cached_w <= r) => cached_w' = cached_w
  BY DEF ReserveRead, IsEmpty
<1>6. cached_w' = r <=> acq_w' = b
  BY <1>2, <1>3, <1>4
<1>7. ~(cached_w <= r) => cached_w' # r
  BY <1>5, <1>1, ConstantFacts DEF TypeOK, Position
<1> QED
  BY <1>1, <1>2, <1>4, <1>5, <1>6, <1>7

(* reserve_read() keeps the invariant.                                     *)
LEMMA ReserveReadInv ==
  ASSUME IInv, ReserveRead
  PROVE  IInv'
<1> USE DEF IInv
<1>1. /\ UNCHANGED <<atomic_w, w, cached_r, acq_r, prod, write, sent, atomic_r, r,
                     received, buffer>>
      /\ cons = "idle"
      /\ cons' = "reserved" =>
           read' = [buffer |-> WrapIndex(r), current_read_pos |-> r, size |-> 0]
      /\ cons' = "idle" => read' = read
  BY DEF ReserveRead, producerVars
<1>2. /\ acq_w' \in acq_w..Len(sent)
      /\ cached_w' = StreamEnd(acq_w') % SizeMod
      /\ cons' \in {"idle", "reserved"}
      /\ cons' = "reserved" <=> Len(atomic_r) < acq_w'
  BY ReserveReadFacts
<1>3. (\A k : StreamEnd(k)' = StreamEnd(k)) /\ Written' = Written
  BY <1>1 DEF StreamEnd, Written
<1>4. /\ StreamEnd(acq_r)' = StreamEnd(acq_r)
      /\ StreamEnd(acq_w)' = StreamEnd(acq_w')
      /\ StreamEnd(Len(atomic_r))' = StreamEnd(Len(atomic_r))
  BY <1>1 DEF StreamEnd
<1>5. /\ acq_w \in Nat /\ acq_w' \in Nat /\ Len(sent) \in Nat /\ Len(atomic_r) \in Nat
      /\ acq_w' \in 0..Len(sent) /\ Len(atomic_r) \in 0..Len(sent)
  BY <1>2 DEF OrderInv, TypeOK
<1>6. StreamEnd(acq_w') \in Nat /\ StreamEnd(Len(atomic_r)) \in Nat
  BY <1>5, StreamEndNat
<1>7. /\ cached_w' \in Position /\ r \in Position
      /\ WrapIndex(r) = StreamEnd(Len(atomic_r)) % Capacity
      /\ WrapIndex(r) \in 0..(Capacity - 1)
  BY <1>2, <1>6, WrapIndexOfWrapped DEF PositionInv
<1>8. TypeOK'
  <2>1. read' \in [buffer : {Null} \cup 0..(Capacity - 1),
                   current_read_pos : Position, size : Sizes \cup {0}]
    BY <1>1, <1>2, <1>7 DEF TypeOK
  <2> QED
    BY <1>1, <1>2, <1>5, <1>7, <2>1 DEF TypeOK
<1>9. OrderInv'
  BY <1>1, <1>2, <1>5 DEF OrderInv
<1>10. StreamInv'
  BY <1>1, <1>3, <1>4 DEF StreamInv
<1>11. PositionInv'
  BY <1>1, <1>2, <1>3, <1>4 DEF PositionInv
<1>12. ReservationInv'
  <2>1. (cons \in {"reserved", "decoded"})' =>
          /\ read.buffer' = StreamEnd(Len(atomic_r)) % Capacity
          /\ read.current_read_pos' = r
    BY <1>1, <1>2, <1>7
  <2> QED
    BY <1>1, <1>2, <1>3, <1>4, <2>1 DEF ReservationInv
<1>13. ContentInv'
  BY <1>1, <1>3 DEF ContentInv, NewEvent
<1>14. DeliveredInOrder'
  BY <1>1 DEF DeliveredInOrder
<1> QED
  BY <1>8, <1>9, <1>10, <1>11, <1>12, <1>13, <1>14

(* What the backend decodes from a read reservation is the next event.     *)
LEMMA DecodeFacts ==
  ASSUME IInv, Decode
  PROVE  /\ Len(atomic_r) + 1 \in 1..Len(sent)
         /\ Len(received) = Len(atomic_r)
         /\ EventAt(read.buffer) = sent[Len(atomic_r) + 1]
         /\ buffer[read.buffer].ev = sent[Len(atomic_r) + 1]
<1> USE DEF IInv
<1> DEFINE k == Len(atomic_r) + 1
           off == StreamEnd(k - 1) % Capacity
<1>1. k \in 1..Len(sent) /\ k \in k..Len(sent) /\ k - 1 = Len(atomic_r)
      /\ Len(received) = Len(atomic_r)
  BY DEF Decode, OrderInv, TypeOK
<1>2. read.buffer = off
  BY <1>1 DEF Decode, ReservationInv
<1>3. \A j \in Cells(0, sent[k].size) : buffer[off + j] = [ev |-> sent[k], at |-> j]
  BY <1>1 DEF ContentInv
<1>4. /\ sent[k].size \in Nat /\ sent[k].size > 0 /\ off \in 0..(Capacity - 1)
      /\ sent[k].size <= Capacity
  <2>1. sent[k].size \in Nat /\ sent[k].size > 0 /\ StreamEnd(k - 1) \in Nat
    BY <1>1, EventFacts
  <2>2. sent[k].size <= Capacity
    BY <1>1, EventFits
  <2> QED
    BY <2>1, <2>2, WrapIndexOfWrapped
<1> HIDE DEF k, off
<1>5. buffer[off].ev = sent[k]
  <2>1. 0 \in Cells(0, sent[k].size) /\ off + 0 = off
    BY <1>4, ConstantFacts DEF Cells
  <2>2. buffer[off + 0] = [ev |-> sent[k], at |-> 0]
    BY <1>3, <2>1
  <2> QED
    BY <2>1, <2>2
<1>6. \A j \in Cells(0, sent[k].size) : off + j \in DOMAIN buffer
  <2>1. DOMAIN buffer = 0..(2 * Capacity - 1)
    BY DEF TypeOK, BufferSize
  <2> DEFINE size == sent[k].size
  <2>2. \A j \in 0..(size - 1) : off + j \in 0..(2 * Capacity - 1)
    <3>1. size \in Nat /\ size <= Capacity /\ off \in 0..(Capacity - 1)
      BY <1>4
    <3> HIDE DEF size
    <3> QED
      BY ONLY <3>1, ConstantFacts
  <2>3. Cells(0, size) = 0..(size - 1)
    BY <1>4 DEF Cells
  <2> QED
    BY <2>1, <2>2, <2>3
<1>7. EventAt(off) = sent[k]
  BY <1>3, <1>5, <1>6 DEF EventAt
<1> QED
  BY <1>1, <1>2, <1>5, <1>7 DEF k

(* Decoding an event keeps the invariant.                                  *)
LEMMA DecodeInv ==
  ASSUME IInv, Decode
  PROVE  IInv'
<1> USE DEF IInv
<1> DEFINE k == Len(atomic_r) + 1
<1>1. /\ UNCHANGED <<atomic_w, w, cached_r, acq_r, prod, write, sent, atomic_r, r,
                     cached_w, acq_w, buffer>>
      /\ cons = "reserved" /\ cons' = "decoded"
  BY DEF Decode, producerVars
<1>2. k \in 1..Len(sent) /\ Len(received) = Len(atomic_r)
  BY DecodeFacts
<1>3. /\ received' = Append(received, sent[k])
      /\ read' = [read EXCEPT !.size = sent[k].size]
  BY DecodeFacts DEF Decode
<1>4. sent[k] \in Event /\ sent[k].size \in Sizes
  BY <1>2, EventFacts
<1>5. /\ received' \in Seq(Event) /\ Len(received') = Len(received) + 1
      /\ \A i \in 1..Len(received) : received'[i] = received[i]
      /\ received'[Len(received) + 1] = sent[k] /\ Len(received) \in Nat
  BY <1>3, <1>4 DEF TypeOK
<1>6. (\A i : StreamEnd(i)' = StreamEnd(i)) /\ Written' = Written
  BY <1>1 DEF StreamEnd, Written
<1>7. /\ StreamEnd(acq_r)' = StreamEnd(acq_r)
      /\ StreamEnd(acq_w)' = StreamEnd(acq_w)
      /\ StreamEnd(Len(atomic_r))' = StreamEnd(Len(atomic_r))
  BY <1>1 DEF StreamEnd
<1>8. TypeOK'
  <2>1. read' \in [buffer : {Null} \cup 0..(Capacity - 1),
                   current_read_pos : Position, size : Sizes \cup {0}]
    BY <1>3, <1>4 DEF TypeOK
  <2> QED
    BY <1>1, <1>5, <2>1 DEF TypeOK
<1>9. OrderInv'
  BY <1>1, <1>2, <1>5 DEF OrderInv
<1>10. StreamInv'
  BY <1>1, <1>6, <1>7 DEF StreamInv
<1>11. PositionInv'
  BY <1>1, <1>6, <1>7 DEF PositionInv
<1>12. ReservationInv'
  <2>1. /\ read.buffer' = read.buffer /\ read.current_read_pos' = read.current_read_pos
        /\ read.size' = sent[k].size
    BY <1>3 DEF TypeOK
  <2> QED
    BY <2>1, <1>1, <1>6, <1>7 DEF ReservationInv
<1>13. ContentInv'
  BY <1>1, <1>6 DEF ContentInv, NewEvent
<1>14. DeliveredInOrder'
  <2>1. \A i \in 1..Len(received') : received'[i] = sent[i]
    <3>1. \A i \in 1..Len(received) : received'[i] = sent[i]
      BY <1>5 DEF DeliveredInOrder
    <3> QED
      BY <3>1, <1>2, <1>5
  <2>2. Len(received') <= Len(sent)
    BY <1>2, <1>5
  <2> QED
    BY <2>1, <2>2, <1>1 DEF DeliveredInOrder
<1> QED
  BY <1>8, <1>9, <1>10, <1>11, <1>12, <1>13, <1>14

(* commit_read() keeps the invariant.                                      *)
LEMMA CommitReadInv ==
  ASSUME IInv, CommitRead
  PROVE  IInv'
<1> USE DEF IInv
<1> DEFINE b == Len(atomic_r)
<1>1. /\ UNCHANGED <<atomic_w, w, cached_r, acq_r, prod, write, sent, cached_w,
                     acq_w, read, received, buffer>>
      /\ cons = "decoded" /\ cons' = "idle"
      /\ r' = (read.current_read_pos + read.size) % SizeMod
      /\ atomic_r' = Append(atomic_r, r')
  BY DEF CommitRead, NewReadPos, producerVars
<1>2. /\ b \in Nat /\ acq_w \in Nat /\ Len(sent) \in Nat
      /\ b + 1 <= acq_w /\ acq_w <= Len(sent) /\ Len(received) = b + 1
      /\ b + 1 \in 1..Len(sent)
  BY <1>1 DEF OrderInv, TypeOK
<1>3. r' = StreamEnd(b + 1) % SizeMod /\ r' \in Position
  <2>1. /\ StreamEnd(b) \in Nat /\ sent[b + 1].size \in Nat
        /\ StreamEnd(b + 1) = StreamEnd(b) + sent[b + 1].size
        /\ StreamEnd(b + 1) \in Nat
    <3>1. (b + 1) - 1 = b
      BY <1>2
    <3> QED
      BY <3>1, <1>2, EventFacts
  <2>2. read.current_read_pos = StreamEnd(b) % SizeMod
        /\ read.size = sent[b + 1].size
    BY <1>1 DEF ReservationInv, PositionInv
  <2> DEFINE x == StreamEnd(b)
             y == sent[b + 1].size
  <2>3. x \in Int /\ y \in Int /\ SizeMod \in Nat /\ SizeMod > 0
    BY <2>1, ConstantFacts
  <2>4. ((x % SizeMod) + y) % SizeMod = (x + y) % SizeMod
    <3> HIDE DEF x, y
    <3> QED
      BY ONLY <2>3, ModAdd, Zenon
  <2>5. r' = StreamEnd(b + 1) % SizeMod
    BY <2>1, <2>2, <2>4, <1>1
  <2> QED
    BY <2>1, <2>5, WrapIndexOfWrapped
<1>4. /\ atomic_r' \in Seq(Position) /\ Len(atomic_r') = b + 1
      /\ \A k \in 1..b : atomic_r'[k] = atomic_r[k]
      /\ atomic_r'[b + 1] = r'
  BY <1>1, <1>3 DEF TypeOK
<1>5. (\A k : StreamEnd(k)' = StreamEnd(k)) /\ Written' = Written
  BY <1>1 DEF StreamEnd, Written
<1>6. /\ StreamEnd(acq_r)' = StreamEnd(acq_r)
      /\ StreamEnd(acq_w)' = StreamEnd(acq_w)
      /\ StreamEnd(Len(atomic_r))' = StreamEnd(b + 1)
  BY <1>1, <1>4 DEF StreamEnd
<1> HIDE DEF b
<1>7. TypeOK'
  BY <1>1, <1>3, <1>4 DEF TypeOK
<1>8. OrderInv'
  BY <1>1, <1>2, <1>4 DEF OrderInv, TypeOK, b
<1>9. StreamInv'
  BY <1>1, <1>5, <1>6 DEF StreamInv
<1>10. PositionInv'
  <2>1. \A k \in 1..Len(atomic_r') : atomic_r'[k] = StreamEnd(k) % SizeMod
    <3>1. \A k \in 1..b : atomic_r'[k] = StreamEnd(k) % SizeMod
      BY <1>4 DEF PositionInv, b
    <3> QED
      BY <3>1, <1>2, <1>3, <1>4
  <2> QED
    BY <2>1, <1>1, <1>3, <1>4, <1>5, <1>6 DEF PositionInv
<1>11. ReservationInv'
  BY <1>1, <1>5, <1>6 DEF ReservationInv
<1>12. ContentInv'
  <2>1. \A k \in (Len(atomic_r') + 1)..Len(sent) : k \in (Len(atomic_r) + 1)..Len(sent)
    BY <1>2, <1>4 DEF b
  <2> QED
    BY <2>1, <1>1, <1>5 DEF ContentInv, NewEvent
<1>13. DeliveredInOrder'
  BY <1>1 DEF DeliveredInOrder
<1> QED
  BY <1>7, <1>8, <1>9, <1>10, <1>11, <1>12, <1>13

-----------------------------------------------------------------------------
(* IInv is preserved by every step.                                        *)
LEMMA NextInv == IInv /\ [Next]_vars => IInv'
<1> SUFFICES ASSUME IInv, [Next]_vars PROVE IInv'
  OBVIOUS
<1>1. CASE \E size \in Sizes : ReserveWrite(size)
  BY <1>1, ReserveWriteInv
<1>2. CASE Encode
  BY <1>2, EncodeInv
<1>3. CASE CommitWrite
  BY <1>3, CommitWriteInv
<1>4. CASE ReserveRead
  BY <1>4, ReserveReadInv
<1>5. CASE Decode
  BY <1>5, DecodeInv
<1>6. CASE CommitRead
  BY <1>6, CommitReadInv
<1>7. CASE UNCHANGED vars
  <2>1. UNCHANGED <<atomic_w, w, cached_r, acq_r, prod, write, sent, atomic_r, r,
                    cached_w, acq_w, cons, read, received, buffer>>
    BY <1>7 DEF vars, producerVars, consumerVars
  <2>2. (\A k : StreamEnd(k)' = StreamEnd(k)) /\ Written' = Written
    BY <2>1 DEF StreamEnd, Written
  <2>3. /\ StreamEnd(acq_r)' = StreamEnd(acq_r)
        /\ StreamEnd(acq_w)' = StreamEnd(acq_w)
        /\ StreamEnd(Len(atomic_r))' = StreamEnd(Len(atomic_r))
    BY <2>1 DEF StreamEnd
  <2>4. TypeOK' /\ OrderInv' /\ DeliveredInOrder'
    BY <2>1 DEF IInv, TypeOK, OrderInv, DeliveredInOrder
  <2>5. StreamInv' /\ PositionInv' /\ ReservationInv'
    BY <2>1, <2>2, <2>3 DEF IInv, StreamInv, PositionInv, ReservationInv
  <2>6. ContentInv'
    BY <2>1, <2>2 DEF IInv, ContentInv, NewEvent
  <2> QED
    BY <2>4, <2>5, <2>6 DEF IInv
<1> QED
  BY <1>1, <1>2, <1>3, <1>4, <1>5, <1>6, <1>7 DEF Next, Producer, Consumer

(* The four positions, the stream behind them and the buffer's content     *)
(* stay in the relation IInv states, for every capacity, width of size_t   *)
(* and set of event sizes.                                                 *)
THEOREM Invariance == Spec => []IInv
  BY InitInv, NextInv, PTL DEF Spec

(* Every variable keeps its type.                                          *)
THEOREM TypeCorrect == Spec => []TypeOK
<1>1. IInv => TypeOK
  BY DEF IInv
<1> QED
  BY <1>1, Invariance, PTL

(* The backend decodes the committed events, each once, whole and in       *)
(* order.                                                                  *)
THEOREM InOrder == Spec => []DeliveredInOrder
<1>1. IInv => DeliveredInOrder
  BY DEF IInv
<1> QED
  BY <1>1, Invariance, PTL

(* The cells of an event or a reservation, addressed as the code does.     *)
LEMMA EventCellsOf ==
  ASSUME IInv, NEW k \in 1..Len(sent)
  PROVE  EventCells(k) = Cells(StreamEnd(k - 1) % Capacity, sent[k].size)
<1> USE DEF IInv
<1>1. k - 1 \in 0..Len(sent) /\ k \in Nat /\ StreamEnd(k - 1) \in Nat
  BY EventFacts DEF TypeOK
<1>2. Value(atomic_w, k - 1) = StreamEnd(k - 1) % SizeMod
  <2>1. CASE k = 1
    <3>1. 0 % SizeMod = 0 /\ k - 1 = 0
      BY <2>1, ConstantFacts
    <3> QED
      BY <3>1 DEF Value, StreamEnd
  <2>2. CASE k # 1
    <3>1. k - 1 \in 1..Len(atomic_w) /\ k - 1 # 0
      BY <2>2, <1>1 DEF OrderInv, TypeOK
    <3> QED
      BY <3>1 DEF Value, PositionInv
  <2> QED
    BY <2>1, <2>2
<1> QED
  BY <1>1, <1>2, WrapIndexOfWrapped DEF EventCells

(* No unsynchronised access: an encoded cell is never one the consumer may *)
(* still read, a decoded event is one whose commit was acquired.           *)
THEOREM RaceFree == Spec => []NoDataRace
<1>1. IInv => NoDataRace
  <2> SUFFICES ASSUME IInv PROVE NoDataRace
    OBVIOUS
  <2>1. ASSUME prod \in {"reserved", "encoded"}, NEW k \in (acq_r + 1)..Len(sent)
        PROVE  Cells(write.buffer, write.size) \cap EventCells(k) = {}
    <3> SUFFICES ASSUME NEW c \in Cells(write.buffer, write.size),
                        c \in EventCells(k)
                 PROVE  FALSE
      OBVIOUS
    <3>1. k \in 1..Len(sent)
      BY DEF IInv, TypeOK
    <3>2. c \in Cells(StreamEnd(k - 1) % Capacity, sent[k].size)
      BY <3>1, EventCellsOf
    <3>3. /\ sent[k].size \in Nat /\ StreamEnd(k - 1) % Capacity \in 0..(Capacity - 1)
          /\ write.size \in Nat /\ write.buffer \in 0..(Capacity - 1)
      <4>1. sent[k].size \in Nat /\ StreamEnd(k - 1) \in Nat /\ Written \in Nat
        BY <3>1, EventFacts
      <4>2. write.size \in Nat /\ write.buffer = Written % Capacity
        BY <2>1, ConstantFacts DEF IInv, ReservationInv
      <4> QED
        BY <4>1, <4>2, WrapIndexOfWrapped
    <3> DEFINE o == StreamEnd(k - 1) % Capacity
               b == write.buffer
               s == sent[k].size
               t == write.size
    <3>4. o \in Nat /\ b \in Nat /\ s \in Nat /\ t \in Nat
          /\ c \in o..(o + s - 1) /\ c \in b..(b + t - 1)
      BY <3>2, <3>3, ConstantFacts DEF Cells
    <3>5. c - o \in Cells(0, s) /\ c - b \in Cells(0, t) /\ o + (c - o) = b + (c - b)
      <4> HIDE DEF o, b, s, t
      <4> QED
        BY <3>4 DEF Cells
    <3> QED
      BY <2>1, <3>5, LiveDisjoint
  <2>2. ASSUME cons \in {"reserved", "decoded"}
        PROVE  Len(atomic_r) + 1 <= acq_w
    BY <2>2 DEF IInv, OrderInv, TypeOK
  <2> QED
    BY <2>1, <2>2 DEF NoDataRace
<1> QED
  BY <1>1, Invariance, PTL

(* Reservations stay within the allocation of twice the capacity.          *)
THEOREM Bounded == Spec => []InBounds
<1>1. IInv => InBounds
  <2> SUFFICES ASSUME IInv PROVE InBounds
    OBVIOUS
  <2> USE DEF IInv
  <2>1. DOMAIN buffer = 0..(2 * Capacity - 1)
    BY DEF TypeOK, BufferSize
  <2>2. ASSUME prod \in {"reserved", "encoded"}
        PROVE  Cells(write.buffer, write.size) \subseteq DOMAIN buffer
    <3>1. acq_r \in 0..Len(sent) /\ Len(sent) \in 0..Len(sent) /\ Len(sent) \in Nat
          /\ (acq_r = Len(sent) \/ acq_r < Len(sent))
      BY DEF OrderInv, TypeOK
    <3>2. StreamEnd(acq_r) \in Nat /\ Written \in Nat
      BY <3>1, StreamEndNat DEF Written
    <3>3. StreamEnd(acq_r) <= Written
      BY <3>1, <3>2 DEF StreamInv, Written
    <3>4. write.size \in Nat /\ write.buffer = Written % Capacity
          /\ Written + write.size <= StreamEnd(acq_r) + Capacity
      BY <2>2, ConstantFacts DEF ReservationInv
    <3>5. write.buffer \in 0..(Capacity - 1)
      BY <3>2, <3>4, WrapIndexOfWrapped
    <3>6. write.size <= Capacity
      BY <3>2, <3>3, <3>4, ConstantFacts
    <3> QED
      BY <2>1, <3>4, <3>5, <3>6, ConstantFacts DEF Cells
  <2>3. ASSUME cons \in {"reserved", "decoded"}
        PROVE  Cells(read.buffer, sent[Len(atomic_r) + 1].size) \subseteq DOMAIN buffer
    <3> DEFINE k == Len(atomic_r) + 1
    <3>1. k \in 1..Len(sent) /\ k \in (Len(atomic_r) + 1)..Len(sent)
          /\ k - 1 = Len(atomic_r)
      BY <2>3 DEF OrderInv, TypeOK
    <3>2. sent[k].size \in Nat /\ StreamEnd(k - 1) \in Nat
      BY <3>1, EventFacts
    <3>3. sent[k].size <= Capacity
      BY <3>1, EventFits
    <3>4. read.buffer \in 0..(Capacity - 1)
      BY <2>3, <3>1, <3>2, WrapIndexOfWrapped DEF ReservationInv
    <3> QED
      BY <2>1, <3>2, <3>3, <3>4, ConstantFacts DEF Cells
  <2> QED
    BY <2>2, <2>3 DEF InBounds
<1> QED
  BY <1>1, Invariance, PTL

(* The free space computed from wrapped positions decides exactly whether  *)
(* the event fits.                                                         *)
THEOREM ReservationsExact == Spec => ReservationExact
<1>1. IInv /\ [Next]_vars =>
        [\A size \in Sizes : ReserveWrite(size) =>
           (prod' = "reserved" <=> Written + size <= StreamEnd(acq_r') + Capacity)]_vars
  BY ReserveWriteFacts
<1> QED
  BY <1>1, Invariance, PTL DEF Spec, ReservationExact

(* The queue implements the bounded FIFO: commit_write() is Put, decoding  *)
(* the event is Get, and every other step, a drop included, is invisible.  *)
THEOREM Refinement == Spec => ImplementsFifo
<1>1. Init => F!Init
  BY DEF Init, F!Init
<1>2. IInv /\ [Next]_vars => [F!Next]_F!vars
  <2> SUFFICES ASSUME IInv, [Next]_vars PROVE [F!Next]_F!vars
    OBVIOUS
  <2> USE DEF IInv
  <2>1. CASE CommitWrite
    <3>1. /\ sent' = Append(sent, NewEvent) /\ received' = received
          /\ prod = "encoded"
      BY <2>1 DEF CommitWrite, consumerVars
    <3>2. /\ write.size \in Sizes /\ write.size \in Nat
          /\ Written + write.size <= StreamEnd(acq_r) + Capacity
      BY <3>1, ConstantFacts DEF ReservationInv
    <3>3. /\ acq_r \in 0..Len(sent) /\ Len(received) \in 0..Len(sent)
          /\ Len(sent) \in 0..Len(sent) /\ Len(received) \in Nat
          /\ (acq_r = Len(received) \/ acq_r < Len(received))
      BY DEF OrderInv, TypeOK
    <3>4. /\ StreamEnd(acq_r) \in Nat /\ StreamEnd(Len(received)) \in Nat
          /\ Written \in Nat
      BY <3>3, StreamEndNat DEF Written
    <3>5. StreamEnd(acq_r) <= StreamEnd(Len(received))
      BY <3>3, <3>4 DEF StreamInv
    <3>6. F!StreamLength(sent) = Written
      BY DEF F!StreamLength, Written, StreamEnd, TypeOK
    <3>7. F!StreamLength(received) = StreamEnd(Len(received))
      <4>1. CASE received = <<>>
        BY <4>1 DEF F!StreamLength, StreamEnd
      <4>2. CASE received # <<>>
        <5>1. Len(received) \in 1..Len(received) /\ Len(received) # 0
          BY <4>2, <3>3 DEF TypeOK
        <5>2. received[Len(received)] = sent[Len(received)]
          BY <5>1 DEF DeliveredInOrder
        <5> QED
          BY <4>2, <5>1, <5>2 DEF F!StreamLength, StreamEnd
      <4> QED
        BY <4>1, <4>2
    <3>8. F!StreamLength(sent) + write.size <= F!StreamLength(received) + Capacity
      BY <3>2, <3>4, <3>5, <3>6, <3>7, ConstantFacts
    <3>9. F!Put(write.size)
      BY <3>1, <3>6, <3>8 DEF F!Put, NewEvent
    <3> QED
      BY <3>2, <3>9 DEF F!Next
  <2>2. CASE Decode
    <3>1. /\ received' = Append(received, sent[Len(received) + 1])
          /\ Len(received) < Len(sent) /\ sent' = sent
      BY <2>2, DecodeFacts DEF Decode, producerVars, TypeOK
    <3> QED
      BY <3>1 DEF F!Next, F!Get
  <2>3. CASE \/ \E size \in Sizes : ReserveWrite(size)
             \/ Encode \/ ReserveRead \/ CommitRead \/ UNCHANGED vars
    BY <2>3 DEF ReserveWrite, Encode, ReserveRead, CommitRead, vars,
                producerVars, consumerVars, F!vars
  <2> QED
    BY <2>1, <2>2, <2>3 DEF Next, Producer, Consumer
<1> QED
  BY <1>1, <1>2, Invariance, PTL DEF Spec, ImplementsFifo, F!Spec

=============================================================================
