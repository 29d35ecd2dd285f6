------------------------------- MODULE Codec -------------------------------
(***************************************************************************)
(* How an event becomes bytes and is read back: Codec of detail/codec.h,   *)
(* push_log_event() and decode_and_format() of detail/core.h.  The bytes   *)
(* between the two are a sequence, which module Queue implements.          *)
(*                                                                         *)
(* The k-th byte of the object representation of a value v is the pair     *)
(* <<v, k>>.  All values are numbers: characters, addresses, time stamps.  *)
(* The caller has one text, which it passes as a string of characters of   *)
(* one or four bytes or as a pointer to it, and may change at any time.    *)
(***************************************************************************)
EXTENDS Integers, Sequences

CONSTANTS
  Abis,       \* the targets: sizes, and the alignment of uint64_t
  CallSites,  \* for every logging statement, the types of its arguments
  Texts,      \* what the caller's text may be
  MaxQueued,  \* bound on the events in the queue
  MaxLogged   \* bound on the events logged

Types == {"char", "int", "string", "u32string", "pointer"}

(* Members of LogEventHeader: where the struct has them, and its size.     *)
RoundUp(n, align) == ((n + align - 1) \div align) * align
Layout(abi) ==
  LET timestamp == RoundUp(2 * abi.ptr, abi.align64)
  IN  [static_data |-> 0, thread_name |-> abi.ptr, timestamp |-> timestamp,
       payload_size |-> timestamp + 8,
       size |-> RoundUp(timestamp + 8 + abi.ptr, abi.align64)]

(* The struct has no padding, as the disabled assertion at core.h:80 says. *)
ASSUME CodecAssumption ==
  /\ Abis \subseteq [ptr : {4, 8}, align64 : {4, 8}]
  /\ \A abi \in Abis : Layout(abi).size = 3 * abi.ptr + 8
  /\ CallSites \in Seq(Seq(Types)) /\ Texts \subseteq Seq(Nat)
  /\ MaxQueued \in Nat /\ MaxLogged \in Nat

VARIABLES
  abi,
  text,     \* the caller's text
  count,    \* number of events logged, which serves as time stamp
  buffer,   \* the bytes in the queue
  queued,   \* history: the events that these bytes stand for
  slack,    \* history: bytes that the last event left of its reservation
  decoded   \* history: the event the last step decoded, and the one it was

vars == <<abi, text, count, buffer, queued, slack, decoded>>

Garbage == -1
TextAddress == 1000
ThreadName == 2000

Init ==
  /\ abi \in Abis /\ text \in Texts /\ count = 0
  /\ buffer = <<>> /\ queued = <<>> /\ slack = 0 /\ decoded = {}

-----------------------------------------------------------------------------
Bytes(value, n) == [k \in 1 .. n |-> <<value, k>>]

(* n bytes of the buffer from offset pos on, and the value they make.      *)
Read(pos, n) ==
  [k \in 1 .. n |-> IF pos + k <= Len(buffer) THEN buffer[pos + k] ELSE <<Garbage, 0>>]
Value(bytes) ==
  IF bytes = Bytes(bytes[1][1], Len(bytes)) THEN bytes[1][1] ELSE Garbage

Width(type) == CASE type = "string" -> 1 [] type = "u32string" -> 4
IsString(type) == type \in {"string", "u32string"}
SizeOf(type) == CASE type = "char" -> 1 [] type = "int" -> 4 [] type = "pointer" -> abi.ptr

(* What the caller passes: the text, its address, or a number.             *)
Argument(type) ==
  IF IsString(type) THEN text ELSE IF type = "pointer" THEN TextAddress ELSE count

(* Fault: characters are taken for bytes.                                  *)
EncodedSize_Chars(type, value) ==
  IF IsString(type) THEN abi.ptr + Len(value) ELSE SizeOf(type)
EncodedSize(type, value) ==
  IF IsString(type) THEN abi.ptr + Len(value) * Width(type) ELSE SizeOf(type)

(* The bytes of an array of characters of that width.                      *)
Data(value, width) ==
  [k \in 1 .. Len(value) * width |->
     <<value[((k - 1) \div width) + 1], ((k - 1) % width) + 1>>]

(* Fault: the length is stored in bytes.                                   *)
Encode_ByteLength(type, value) ==
  IF IsString(type)
  THEN Bytes(Len(value) * Width(type), abi.ptr) \o Data(value, Width(type))
  ELSE Bytes(value, SizeOf(type))
(* A string is encoded as its length and its characters.                   *)
Encode(type, value) ==
  IF IsString(type)
  THEN Bytes(Len(value), abi.ptr) \o Data(value, Width(type))
  ELSE Bytes(value, SizeOf(type))

(* The value at pos and the position after it.                             *)
Decode(type, pos) ==
  IF IsString(type)
  THEN LET length == Value(Read(pos, abi.ptr))
           start == pos + abi.ptr
           char(i) == Value(Read(start + (i - 1) * Width(type), Width(type)))
       IN  [value |-> [i \in 1 .. length |-> char(i)], pos |-> start + length * Width(type)]
  ELSE [value |-> Value(Read(pos, SizeOf(type))), pos |-> pos + SizeOf(type)]

-----------------------------------------------------------------------------
(* The caller changes its text.                                            *)
Assign(new) ==
  /\ new # text /\ text' = new
  /\ decoded' = {}
  /\ UNCHANGED <<abi, count, buffer, queued, slack>>

(* What the fold over the arguments has made of the first k of them: of    *)
(* their sizes the sum, of their bytes what encode() has written.          *)
Sums(numbers) ==
  LET sum[k \in 0 .. Len(numbers)] == IF k = 0 THEN 0 ELSE sum[k - 1] + numbers[k]
  IN  sum
Joined(seqs) ==
  LET joined[k \in 0 .. Len(seqs)] == IF k = 0 THEN <<>> ELSE joined[k - 1] \o seqs[k]
  IN  joined

TotalArgsSize(types, args) ==
  Sums([i \in DOMAIN types |-> EncodedSize(types[i], args[i])])[Len(types)]
EncodedArgs(types, args) ==
  Joined([i \in DOMAIN types |-> Encode(types[i], args[i])])[Len(types)]

(* What push_log_event() writes: the members of the header, one after the  *)
(* other, and the arguments.                                               *)
Written(event) ==
  LET types == CallSites[event.static_data]
  IN  Bytes(event.static_data, abi.ptr) \o Bytes(event.thread_name, abi.ptr)
        \o Bytes(event.timestamp, 8) \o Bytes(TotalArgsSize(types, event.args), abi.ptr)
        \o EncodedArgs(types, event.args)

(* push_log_event() of the call site with that number.  The reservation is *)
(* committed as a whole, whatever was written of it.                       *)
PushLogEvent(site) ==
  LET types == CallSites[site]
      event == [static_data |-> site, thread_name |-> ThreadName, timestamp |-> count,
                args |-> [i \in DOMAIN types |-> Argument(types[i])]]
      written == Written(event)
      reserved == TotalArgsSize(types, event.args) + Layout(abi).size
  IN
  /\ count < MaxLogged /\ Len(queued) < MaxQueued
  /\ buffer' = buffer \o [k \in 1 .. reserved |->
                            IF k <= Len(written) THEN written[k] ELSE <<Garbage, 0>>]
  /\ slack' = reserved - Len(written)
  /\ queued' = Append(queued, event)
  /\ count' = count + 1
  /\ decoded' = {}
  /\ UNCHANGED <<abi, text>>

(* Fault: the first members are decoded in the other order.                *)
Header_Swapped ==
  [static_data |-> Value(Read(Layout(abi).thread_name, abi.ptr)),
   thread_name |-> Value(Read(Layout(abi).static_data, abi.ptr)),
   timestamp |-> Value(Read(Layout(abi).timestamp, 8)),
   payload_size |-> Value(Read(Layout(abi).payload_size, abi.ptr))]
(* The header as a struct.                                                 *)
Header ==
  [static_data |-> Value(Read(Layout(abi).static_data, abi.ptr)),
   thread_name |-> Value(Read(Layout(abi).thread_name, abi.ptr)),
   timestamp |-> Value(Read(Layout(abi).timestamp, 8)),
   payload_size |-> Value(Read(Layout(abi).payload_size, abi.ptr))]

TotalEventSize(header) == Layout(abi).size + header.payload_size

(* decode_and_format(): the arguments one after the other.  What a pointer *)
(* leads to is read now, when it is formatted, not when it was logged.     *)
Positions(types, start) ==
  LET pos[k \in 0 .. Len(types)] == IF k = 0 THEN start ELSE Decode(types[k], pos[k - 1]).pos
  IN  pos
DecodedArgs(types, start) ==
  [i \in DOMAIN types |-> Decode(types[i], Positions(types, start)[i - 1]).value]

(* read_and_process_single_event() and commit_read().                      *)
ReadAndProcessSingleEvent ==
  /\ queued # <<>>
  /\ LET header == Header
         types == IF header.static_data \in DOMAIN CallSites
                  THEN CallSites[header.static_data] ELSE <<>>
     IN  /\ decoded' = {[static_data |-> header.static_data,
                         thread_name |-> header.thread_name,
                         timestamp |-> header.timestamp,
                         args |-> DecodedArgs(types, Layout(abi).size),
                         was |-> Head(queued)]}
         /\ buffer' = SubSeq(buffer, TotalEventSize(header) + 1, Len(buffer))
  /\ queued' = Tail(queued)
  /\ UNCHANGED <<abi, text, count, slack>>

Done == count = MaxLogged /\ queued = <<>> /\ UNCHANGED vars

Next ==
  \/ \E new \in Texts : Assign(new)
  \/ \E site \in DOMAIN CallSites : PushLogEvent(site)
  \/ ReadAndProcessSingleEvent
  \/ Done

Spec == Init /\ [][Next]_vars

-----------------------------------------------------------------------------
(* Every variable has a value of its type; what was decoded names a call   *)
(* site, through whose pointers the backend goes on.                       *)
TypeOK ==
  /\ abi \in Abis /\ text \in Texts /\ count \in 0 .. MaxLogged
  /\ \A i \in DOMAIN buffer : buffer[i] \in Int \X (0 .. 8)
  /\ Len(queued) <= MaxQueued /\ slack \in Int
  /\ \A d \in decoded : d.static_data \in DOMAIN CallSites

(* What the backend decodes is what was logged: the same call site, thread *)
(* and time stamp, and the arguments as they were at the call, also if the *)
(* caller has changed its text since (of a pointer: the address).  Every   *)
(* event is found where the one before it ended.                           *)
DecodedAsLogged ==
  \A d \in decoded :
    d.was = [static_data |-> d.static_data, thread_name |-> d.thread_name,
             timestamp |-> d.timestamp, args |-> d.args]

(* An event fills its reservation exactly: nothing is written past it, and *)
(* nothing that is committed with it is left unwritten.                    *)
FillsReservation == slack = 0

=============================================================================
