------------------------------- MODULE Output -------------------------------
(***************************************************************************)
(* What an event meets on its way out: the composition of the queues, the  *)
(* two hand-overs, the minimum level and the backend's loop of             *)
(* detail/core.h.                                                          *)
(*                                                                         *)
(* The parts appear as what they promise: a queue is a sequence (modules   *)
(* Queue and Fifo), a handler of sinks or patterns is an instance of       *)
(* Handover, which Sink and Formatter implement.  All threads are          *)
(* registered and live until main has joined them and runs ~Backend();     *)
(* registration and exit are the matter of module Backend.                 *)
(*                                                                         *)
(* Settings of a kind are numbered in the order in which they are queued   *)
(* or stored; number 0 is the initial one.  The pending slots are accessed *)
(* by exchange only, which acts on the latest value.  The minimum level is *)
(* read by a load, which may return any value that is not older than the   *)
(* backend's view of it: what it has loaded before, and what a thread had  *)
(* stored before it published an event whose publication the backend has   *)
(* seen.  The backend sees publications by the acquire load of a queue's   *)
(* write position, which it makes only when its copy of it is used up.     *)
(***************************************************************************)
EXTENDS Integers, Sequences

CONSTANTS
  Order,        \* the registered threads, in the order of the list
  Levels,       \* log levels, numbers
  MaxSettings,  \* bound on the sinks and the patterns that are set
  MaxLevels,    \* bound on the levels that are set
  MaxLogged     \* bound on the events that are logged

Threads == {Order[i] : i \in DOMAIN Order}

ASSUME OutputAssumption ==
  /\ Order \in Seq(Threads) /\ Order # <<>>
  /\ Levels \subseteq Nat /\ 0 \in Levels
  /\ MaxSettings \in Nat /\ MaxLevels \in Nat /\ MaxLogged \in Nat

VARIABLES
  queue,                     \* per thread: the events in its queue
  logged,                    \* number of events logged
  pending_new_sink, file,
  pending_new_formatter, formatter,
  min_log_level,             \* the levels stored, in order
  known,                     \* per thread: the last settings it made itself
  sinks, patterns,           \* number of settings queued so far
  before,                    \* history: for each sink, the pattern that its
                             \*   setter had set before
  running, bpc, visit,       \* backend: program point, place in the list
  cached,                    \* per thread: how many events of its queue the
                             \*   backend's copy of the write position covers
  level_seen,                \* the backend's view of min_log_level: the oldest
                             \*   one it may still load
  served,                    \* history: the newest sink and pattern when the
                             \*   slots were polled last
  out                        \* history: what became of the event that the
                             \*   last step read, if it read one

settings == <<pending_new_sink, pending_new_formatter, min_log_level, known, sinks, patterns,
              before>>
current == <<file, formatter>>
backendVars == <<bpc, visit, cached, level_seen, served>>
vars == <<queue, logged, settings, current, running, backendVars, out>>

None == -1
Serving == bpc \notin {"drain", "stopped"}

SinkSlot == INSTANCE Handover WITH
  Values <- 0 .. MaxSettings, Initial <- 0, None <- None,
  pending <- pending_new_sink, current <- file, serving <- Serving
PatternSlot == INSTANCE Handover WITH
  Values <- 0 .. MaxSettings, Initial <- 0, None <- None,
  pending <- pending_new_formatter, current <- formatter, serving <- Serving

Init ==
  /\ queue = [t \in Threads |-> <<>>] /\ logged = 0
  /\ running = TRUE /\ bpc = "loop" /\ visit = 1 /\ level_seen = 1
  /\ cached = [t \in Threads |-> 0]
  /\ SinkSlot!Init /\ PatternSlot!Init
  /\ min_log_level = <<0>>
  /\ known = [t \in Threads |-> [sink |-> 0, pattern |-> 0, level |-> 1]]
  /\ sinks = 0 /\ patterns = 0 /\ before = [k \in 0 .. MaxSettings |-> 0]
  /\ served = [sink |-> 0, pattern |-> 0]
  /\ out = {}

-----------------------------------------------------------------------------
(* Logging threads, until ~Backend().                                      *)

SetSink(t) ==
  /\ running /\ sinks < MaxSettings
  /\ sinks' = sinks + 1
  /\ UNCHANGED bpc /\ SinkSlot!Queue(sinks')
  /\ before' = [before EXCEPT ![sinks'] = known[t].pattern]
  /\ known' = [known EXCEPT ![t].sink = sinks']
  /\ UNCHANGED <<queue, logged, pending_new_formatter, formatter, min_log_level, patterns,
                 running, visit, cached, level_seen, served>>
  /\ out' = {}

(* PAPPER_SET_PATTERN.                                                     *)
SetPattern(t) ==
  /\ running /\ patterns < MaxSettings
  /\ patterns' = patterns + 1
  /\ UNCHANGED bpc /\ PatternSlot!Queue(patterns')
  /\ known' = [known EXCEPT ![t].pattern = patterns']
  /\ UNCHANGED <<queue, logged, pending_new_sink, file, min_log_level, sinks, before,
                 running, visit, cached, level_seen, served>>
  /\ out' = {}

SetLevel(t, level) ==
  /\ running /\ Len(min_log_level) <= MaxLevels
  /\ min_log_level' = Append(min_log_level, level)
  /\ known' = [known EXCEPT ![t].level = Len(min_log_level')]
  /\ UNCHANGED <<queue, logged, pending_new_sink, pending_new_formatter, sinks, patterns,
                 before, current, running, backendVars>>
  /\ out' = {}

(* push_log_event() with a level of the call site; made is what the thread *)
(* had set before.                                                         *)
Log(t, level) ==
  /\ running /\ logged < MaxLogged
  /\ queue' = [queue EXCEPT ![t] = Append(@, [level |-> level, made |-> known[t]])]
  /\ logged' = logged + 1
  /\ UNCHANGED <<settings, current, running, backendVars>>
  /\ out' = {}

(* ~Backend().                                                             *)
StopBackend ==
  /\ running
  /\ running' = FALSE
  /\ UNCHANGED <<queue, logged, settings, current, backendVars>>
  /\ out' = {}

-----------------------------------------------------------------------------
(* The backend thread.                                                     *)

(* Fault: patterns are polled before sinks.                                *)
Then_PatternFirst(point) ==
  CASE point = "loop" -> "pattern" [] point = "pattern" -> "sink" [] point = "sink" -> "poll"
(* The order of the calls in the loop.                                     *)
Then(point) ==
  CASE point = "loop" -> "sink" [] point = "sink" -> "pattern" [] point = "pattern" -> "poll"

CheckRunning ==
  /\ bpc = "loop"
  /\ bpc' = IF running THEN Then("loop") ELSE "drain"
  /\ visit' = 1
  /\ UNCHANGED <<queue, logged, settings, current, running, cached, level_seen, served>>
  /\ out' = {}

(* Fault: the slot is taken over without a check for null.                 *)
TakeSink_NoNullCheck == file' = pending_new_sink /\ pending_new_sink' = None
(* Fault: a sink is taken over only when there is nothing to write.        *)
TakeSink_WhenIdle ==
  IF pending_new_sink = None \/ \E t \in Threads : queue[t] # <<>>
  THEN UNCHANGED <<pending_new_sink, file>>
  ELSE SinkSlot!Take
TakeSink ==
  IF pending_new_sink = None
  THEN UNCHANGED <<pending_new_sink, file>>
  ELSE SinkSlot!Take

PollForPendingSinkSwitch ==
  /\ bpc = "sink" /\ bpc' = Then("sink")
  /\ TakeSink
  /\ served' = [served EXCEPT !.sink = sinks]
  /\ UNCHANGED <<queue, logged, pending_new_formatter, formatter, min_log_level, known,
                 sinks, patterns, before, running, visit, cached, level_seen>>
  /\ out' = {}

PollForPendingFormatterSwitch ==
  /\ bpc = "pattern" /\ bpc' = Then("pattern")
  /\ IF pending_new_formatter = None
     THEN UNCHANGED <<pending_new_formatter, formatter>>
     ELSE PatternSlot!Take
  /\ served' = [served EXCEPT !.pattern = patterns]
  /\ UNCHANGED <<queue, logged, pending_new_sink, file, min_log_level, known, sinks,
                 patterns, before, running, visit, cached, level_seen>>
  /\ out' = {}

(* Fault: the load of the write position is relaxed.                       *)
Acquired_Relaxed(t, n) == level_seen
(* The backend's view of min_log_level once its copy of the write position *)
(* of t covers n events: a load in is_empty() that returns the position    *)
(* after event n acquires all that t did before it published that event.   *)
Acquired(t, n) ==
  IF cached[t] = 0 /\ queue[t][n].made.level > level_seen
  THEN queue[t][n].made.level
  ELSE level_seen

(* On to the next queue; after the last one the round is over.             *)
NextVisit ==
  IF visit < Len(Order)
  THEN visit' = visit + 1 /\ UNCHANGED bpc
  ELSE visit' = 1 /\ bpc' = IF bpc = "poll" THEN "loop" ELSE bpc

(* reserve_read() and read_and_process_single_event(): the first event of  *)
(* the queue, of the n covered by the copy of the write position, which is *)
(* loaded anew if it covers none; the level decides whether the event is   *)
(* written with the current pattern to the current sink.                   *)
ProcessEvent ==
  LET t == Order[visit] IN
  /\ bpc \in {"poll", "drain"} /\ queue[t] # <<>>
  /\ \E n \in IF cached[t] = 0 THEN 1 .. Len(queue[t]) ELSE {cached[t]} :
       /\ cached' = [cached EXCEPT ![t] = n - 1]
       /\ \E j \in Acquired(t, n) .. Len(min_log_level) :
            /\ level_seen' = j
            /\ LET event == Head(queue[t]) IN
               out' = {[written |-> event.level >= min_log_level[j], level |-> event.level,
                        made |-> event.made, sink |-> file, pattern |-> formatter]}
  /\ queue' = [queue EXCEPT ![t] = Tail(@)]
  /\ NextVisit
  /\ UNCHANGED <<logged, settings, current, running, served>>

(* The queue is empty, or the load of its write position returns an old    *)
(* one; in the drain loop it does not (module Backend).                    *)
SkipQueue ==
  /\ \/ bpc = "poll" /\ cached[Order[visit]] = 0
     \/ bpc = "drain" /\ queue[Order[visit]] = <<>> /\ \E t \in Threads : queue[t] # <<>>
  /\ NextVisit
  /\ UNCHANGED <<queue, logged, settings, current, running, cached, level_seen, served>>
  /\ out' = {}

(* The contexts of the joined threads are deleted once they are empty.     *)
Drained ==
  /\ bpc = "drain" /\ \A t \in Threads : queue[t] = <<>>
  /\ bpc' = "stopped"
  /\ UNCHANGED <<queue, logged, settings, current, running, visit, cached, level_seen, served>>
  /\ out' = {}

Terminated == bpc = "stopped" /\ UNCHANGED vars

Next ==
  \/ \E t \in Threads :
       \/ SetSink(t) \/ SetPattern(t)
       \/ \E level \in Levels : SetLevel(t, level) \/ Log(t, level)
  \/ StopBackend
  \/ CheckRunning \/ PollForPendingSinkSwitch \/ PollForPendingFormatterSwitch
  \/ ProcessEvent \/ SkipQueue \/ Drained
  \/ Terminated

Spec == Init /\ [][Next]_vars

-----------------------------------------------------------------------------
Number == 0 .. MaxSettings
Settings == [sink : Number, pattern : Number, level : 1 .. MaxLevels + 1]
Event == [level : Levels, made : Settings]

(* Every variable has a value of its type; the current sink and formatter  *)
(* are never null.                                                         *)
TypeOK ==
  /\ queue \in [Threads -> Seq(Event)] /\ logged \in 0 .. MaxLogged
  /\ cached \in [Threads -> Nat]
  /\ pending_new_sink \in Number \cup {None} /\ file \in Number
  /\ pending_new_formatter \in Number \cup {None} /\ formatter \in Number
  /\ min_log_level \in Seq(Levels) /\ level_seen \in DOMAIN min_log_level
  /\ known \in [Threads -> Settings]
  /\ sinks \in Number /\ patterns \in Number /\ before \in [Number -> Number]
  /\ running \in BOOLEAN /\ visit \in DOMAIN Order
  /\ bpc \in {"loop", "sink", "pattern", "poll", "drain", "stopped"}
  /\ served \in [sink : Number, pattern : Number]
  /\ out \subseteq [written : BOOLEAN, level : Levels, made : Settings, sink : Number,
                    pattern : Number]

(* "Any pattern change must be queued before constructing the capture"     *)
(* (test_logging.cpp:35-36): a line that is written to a sink is formatted *)
(* with the pattern that the caller of set_sink() had set before it, or    *)
(* with a newer one.  This rests on the loop polling sinks first.          *)
PatternBeforeSink == \A e \in out : e.written => e.pattern >= before[e.sink]

(* An event is judged by the minimum level its thread set before logging   *)
(* it or by one that was set later, never by an earlier one, although the  *)
(* event may be read from an old copy of the write position, long after    *)
(* the load that acquired what its thread had done.                        *)
JudgedByLevelOfCall ==
  \A e \in out : \E j \in e.made.level .. Len(min_log_level) :
    e.written <=> e.level >= min_log_level[j]

(* A setting takes effect in the next round, however busy the backend is:  *)
(* an event gets an older sink or pattern than its thread had set before   *)
(* logging it only if the backend has not polled for settings since.  This *)
(* includes all that is set after the last round before the drain loop.    *)
LagsOneRound ==
  \A e \in out :
    /\ e.sink < e.made.sink => e.made.sink > served.sink
    /\ e.pattern < e.made.pattern => e.made.pattern > served.pattern

=============================================================================
