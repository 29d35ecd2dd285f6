# A TLA+ model of papper

papper is a header-only C++20 logging library: a thread that logs copies the
arguments into a queue of its own and returns; one backend thread takes the
events from all queues, formats them and writes them to a sink. This directory
holds TLA+ models of the library's own logic (`src/include/papper`), TLC
configurations and TLAPS proofs.

## The system

| component | state | operations | interacts with |
|---|---|---|---|
| Queue (`detail/queue.h`) | buffer of twice the capacity; `_atomic_r`, `_atomic_w`; each side's own position and its copy of the other's | `reserve_write`, `commit_write`, `reserve_read` (with `is_empty`), `commit_read` | written by `push_log_event` on the logging thread, read by `poll_threads` on the backend thread |
| Backend and registry (`detail/core.h`) | `_head` and the list of `ThreadContextNode`s, `_is_alive` per context, `_running` | `get_or_create_instance`, `register_thread`, `poll_threads`, `remove_and_delete_node`, thread exit, `~Backend` with the drain loop | logging threads push to the list; only the backend thread unlinks and deletes |
| SinkHandler (`detail/sink.h`) | `_file`, `_pending_new_sink`, the open streams | `queue_new_sink` on any thread; `poll_for_pending_sink_switch`, writing and the destructor | exchanges on the pending slot |
| PatternFormatterHandler (`detail/pattern.h`) | `_formatter`, `_pending_new_formatter` | as SinkHandler | as SinkHandler |
| Pattern parser and formatter (`detail/pattern.h`) | none (constant evaluation); the cached HMS string | `parse_pattern`, `format`, `process_time_arg` | called for each event |
| Clock (`detail/time.h`) | sync point, UTC offset, ns per tick; the times of the last resynchronisations | `init`, `recalculate_utc_offset`, `sync_to_system_clock`, `timestamp_to_local_system_time`; `get_tsc_ns_per_tick` with its sources | used by the backend thread only; time stamps are taken by the logging threads |
| Codec (`detail/codec.h`) | none | `encoded_size`, `encode`, `decode` | between `push_log_event` and the backend |
| Levels (`detail/level.h`, `core.h`) | `min_log_level` | `set_level`, the filter in `read_and_process_single_event` | any thread stores, the backend loads |
| Public API (`papper.h`) | the default queue size | `set_sink`, `set_level`, `init_thread`, the macros | forwards to the above |

Hard to test here: the lock-free queue under a weak memory model and with
positions that wrap around `size_t`; pushes racing with unlinking and deletion;
what happens to events logged just before a thread or the program ends; the
hand-over of sinks and formatters, and which settings an event meets; time that
passes, or clocks and zones that change, between the reads of a
resynchronisation or between a call and its conversion; end-of-year offsets. `PROJECT.json` lists these hazards line by line.

What makes each part correct:
- queue: an accepted event is delivered once, whole and in order; no cell is
  touched by both threads without synchronisation; no access leaves the buffer;
  an event is dropped exactly if it does not fit;
- backend: no use of freed nodes or contexts; every registered context is found
  until it is deleted, and is deleted in the end; no thread starves; the program
  can end; nothing logged is lost;
- sinks: every stream that is handed over once has one owner until it is closed,
  the last sink set wins;
- formatters: every formatter has one owner until it is deleted; an event shows
  the text of its own second, but for the second before 1970 began (see below);
- settings: what a thread sets before it logs applies to what it logs, but for
  the one round that the backend is behind;
- clock: the time shown is that of the call, within the error of the reads, of
  doubles and of the rate, and the reads are recent;
- codec: an event is decoded as it was logged and takes the room it reserved;
- patterns: exactly the meant patterns compile, and they print what they say.

## Modules

- `Queue` models the queue with its two clients. A position is a number modulo
  `SizeMod`. The two atomics are the sequences of the values stored to them, and
  an acquire load (`LoadR`, `LoadW`) returns any store that is not older than the
  one the thread synchronised with last (`acq_r`, `acq_w`). The buffer's unit is
  a cell; the first cell of an event carries its header, hence its size. One
  action per call: `ReserveWrite` (reserve or drop), `Encode`, `CommitWrite`,
  `ReserveRead`, `Decode`, `CommitRead`. `sent` and `received` are history.
- `Fifo` is what a bounded queue promises; `Queue` is shown to implement it.
- `Backend` models thread registration, logging, exit, polling, deletion and
  shutdown. A queue is represented by its promise: a number of events. The
  backend's loop is one action per access to shared state: `CheckRunning`,
  `PollThreads`, `ReserveRead`, `ProcessEvent`, `CheckAlive`, `RemoveHead`,
  `WalkOn`, `WalkRaces`, `UnlinkNode`, `CheckDrained`. `main` follows the thread that
  runs `~Backend`; `Joined` are the threads joined before, the others are
  detached and may do anything until the process ends. Loads of `_head`,
  `_running` and `_is_alive` return the latest value: a stale one would only
  miss a push, a stop or an exit, which is the same as making the load earlier,
  since every other store to the list is the backend's own. Loads of a write
  position may be stale (`StaleLoads`), because there it matters what the
  backend has synchronised with (`known`). The nodes are plain memory, so a load
  of `_head` also has to make their contents visible. That of `poll_threads` is
  an acquire, and every store to `_head` is a read-modify-write, so it synchronises
  with the makers of all nodes in the list (`synced`). The failing compare-and-swap
  of `remove_and_delete_node` is relaxed (`core.h:203-204`): a node pushed since is
  in the walk but not in `synced`, and reading its `next` (217) is a data race in
  the terms of C++. This is the action `WalkRaces`, after which nothing is claimed
  and the behaviour ends. `AddressDependency` says that the target orders an access
  through a pointer after the load of the pointer, as x86-64 and AArch64 do although
  the language does not ask for it; there the step is an ordinary `WalkOn`.
- `Sink` models `SinkHandler` with callers of `set_sink` and the backend loop. A
  caller may give a stream that it has just opened, a standard one, or one that
  the library still holds, e.g. to change when it is flushed. The code then closes
  the stream at the switch and goes on with it; such streams are remembered in
  `again`, and what the C library does with a closed one is not modelled.
- `Formatter` models `PatternFormatterHandler` in the same way, with the addresses
  of formatters, which `new` may reuse, and with the text of the whole second that
  `process_time_arg` keeps in a static per time spec. Times of events are
  arbitrary: they come from several queues and the clock may be set back, before 1970
  too. The code starts with -1 as the second of the last update, so as long as
  a spec has shown no other second (it is not in `dated`), events of the second -1
  show an empty text; `ShowsOwnSecond` says that these are the only exception.
- `Handover` is what both handlers promise: a setting that is queued replaces a
  pending one, the backend takes it over in the end, and nothing is taken over in
  the drain loop. `Sink` and `Formatter` implement it; the step that takes the
  slot (`PollForPending...Switch`) is `Take`, the switch after it stutters.
- `Output` composes them: two instances of `Handover`, a sequence per queue as
  `Fifo` promises, the minimum level and the backend's loop in the order of its
  calls. Settings are numbered; an event carries the numbers of those that its
  thread had made before. An exchange acts on the latest value; the load of
  `min_log_level` is relaxed and returns any store from the backend's view on
  (`level_seen`). Two things raise the view: coherence with its own earlier loads,
  and the acquire load of a write position, which brings what the thread had stored
  before it published that position (`Acquired`). The backend makes that load only
  when its copy of the position (`cached`) is used up, not for every event.
- `Clock` models the clock in a world where true time passes between any two
  steps, the system clock is set and the zone changes its offset. The three reads
  of `sync_to_system_clock` are three actions. Doubles are integers with a
  granularity `Ulp` where they lose precision (the average of two time stamps) and
  exact elsewhere; the rate is a fraction of the true one. The broken-down times of
  `recalculate_utc_offset` come from a calendar (`BrokenDown`, with `YearOf` for the
  year of a day before or after 1970).
- `TickRate` models where the rate comes from: the choice between leaf 15h, the
  model name (in MHz, GHz or THz) and a measurement, over everything cpuid may say,
  and the measurement with delays of any length around its reads, longer than the
  window too: the code asks once and takes what it gets. `Clock` takes any rate of the result.
- `Codec` models the bytes of events: the header, written field by field and read
  as a struct, and arguments of trivially copyable types, strings with characters
  of one and four bytes, and pointers. A byte is a pair of value and position.
  `Written` is what `push_log_event` encodes, `DecodedArgs` what
  `decode_and_format` gets back, each argument where the one before it ended.
- `Pattern` models `parse_pattern` as the loop it is, one action per branch, with
  the limits of its arrays (`Push` past the end of `fmt_str` is an error of
  constant evaluation), and `format_impl` with what it uses of `fmt::vformat`
  (`Scan`, a token at a time). Patterns and format strings are sequences of tokens:
  braces, colon, words; lengths are in characters (`fmt_str_len`, `Chars`). The
  reference is a grammar: a prefix is `WellFormed` if some shorter one is and what
  is between them is an item; `Reading` adds up the fields, the characters and the
  text of its items. There is no scanning order, search for braces or table lookup
  in it. The code takes the spec `path` with every field, as the reference does.
- `XProofs` holds the proofs about module `X`; `QueueProofs` also has the facts
  about `%` that those about `Clock` use, and `ClockProofs` the theorems about
  `TickRate`.
- The modules whose names begin with `MC` give the constants their values.

An operator `X_Something` before a definition `X` is that definition with one
plausible mistake; `PROJECT.json` pairs each property with one that it detects.

Left out of the models: the formatting of messages by fmt, and wording; the back-off
sleep of the loop, which only takes time; allocation failure; buffering modes; the
digits of a time below the second.

## Runs

| run | checks | bounds and why they suffice |
|---|---|---|
| `queue` | `TypeOK`, `InBounds`, `NoDataRace`, `DeliveredInOrder`, `IInv`, `ReservationExact`, `ImplementsFifo`, `ImplementsFairFifo` | capacity 4, 4-bit `size_t`, sizes 1, 3 and 5 (fits, crosses the capacity, never fits), 20 cells: each position wraps the capacity five times and `size_t` once, alone and together |
| `backend_safety` | `TypeOK`, `NoUseAfterFree`, `ListIntact`, `StoppedClean`, `DrainLosesNothing` | main, a joined and a detached thread, two events per queue, three addresses (symmetric): removal of a first, inner and last node with pushes in between, and reuse of addresses; `AddressDependency` is false, so that walks meet unsynchronised nodes |
| `backend_liveness` | `NoStarvation`, `Reclaimed`, `ShutdownEnds` | two threads that log without bound into queues of two; `AddressDependency` is true, since nothing is promised after a race |
| `backend_exit_loss` | `DeletedWhenRead`, violated | two threads, sequentially consistent loads |
| `sink` | `TypeOK`, `OneHolder`, `LastQueuedWins`, `ImplementsHandover` | two callers, two standard streams, three addresses for files, any of which may be given again |
| `pattern` | `TypeOK`, `StopsAtFirstFault`, `AcceptsExactly`, `FormatsAsWritten` | all patterns of up to 5 of 7 tokens, and all sequences of up to 4 of 11 items (fields with every spec, escapes, stray braces); limits of 2 fields and 13 characters, so that each is met exactly and exceeded |
| `formatter` | `TypeOK`, `OneHolder`, `ShowsOwnSecond`, `ImplementsHandover` | two callers, four addresses, two specs, the seconds -2, -1 and 0 with days of three: both sides of midnight and of the start of 1970, with a clock that goes back |
| `output` | `TypeOK`, `PatternBeforeSink`, `JudgedByLevelOfCall`, `LagsOneRound` | two threads that set and log, two sinks and two patterns besides the initial ones (so that one replaces a pending one), two levels of which one is set once, two events, of one thread or of two |
| `clock` | `TypeOK`, `Accuracy`, `Fresh` | rates 3/4 and 5/4, time stamps rounded to even ones, 8 ticks, intervals of 1 and 3, a start at boot and long after it, one change of clock or zone: events of before and after a resynchronisation |
| `clock_local_time` | `LocalTimeOfCall`, violated | as `clock`, with an exact rate |
| `tick_rate` | `RateTypeOK`, `RateOfCounter` | 2000 and 2500 MHz, every combination of absent, zero and full leaves, names in each unit, true and false ones, and vendors; a window of 8 with delays up to 10 |
| `codec` | `TypeOK`, `DecodedAsLogged`, `FillsReservation` | four call sites, texts of 0 to 2 characters, two events in the queue, 64-bit and 32-bit x86 |

`MCQueue` also evaluates, for every requested capacity of a 4-bit `size_t`, that
rounding up to a power of two and masking is taking the remainder. `MCClock`
evaluates the UTC offset in all zones from -12 to +14 hours, in steps of a quarter
of an hour, around the ends of the years and Februaries from 1971 to 2037.

`backend_exit_loss` is a real disagreement between the code and its comments and
test: `poll_threads` checks that a queue is empty before it checks whether the
thread is alive. A thread that logs and exits between the two checks has its
context deleted with the event in it. `DrainLosesNothing` shows that this cannot
happen in the drain loop to a thread that was joined before `~Backend`, because
reading `_running` with acquire order makes the emptiness check conclusive; it
depends on that order, as the relaxed variant of `CheckRunning` shows.

`clock_local_time` shows what a comment of the tests does not hold for: a
time stamp is converted with the UTC offset stored last, so around a change of
the zone's offset events show a time that is an hour off the one of the call, for
up to a second after the change, or before it if they are read after it.

`Accuracy` is relative to the clock and the zone as they were read last; how far
apart two sync points can put events of the same tick follows from it.
`PatternBeforeSink` depends on the order of two lines of the loop, `LagsOneRound`
on polling in every round; neither says that a setting applies at once, which
the code does not provide. `CodecAssumption` is the assertion on the padding of
`LogEventHeader` that is disabled in the code; TLC evaluates it for the targets.

Fairness: the backend thread is scheduled (weak fairness of its steps), a write
reservation is always completed, and a registration that has begun proceeds. A
store becomes visible in finite time, as the C++ standard asks of
implementations: in `Queue` a poll that could return something new is not
postponed forever, in `Backend` polls that load the latest position are strongly
fair. In
`Sink` and `Formatter` a round of the loop ends. No fairness is assumed of logging, of
setting, of thread exit or of the end of the program. Deadlock is checked in every run; the end of the process, of a call or
of the bounded input is an explicit action.

## Proofs

Every theorem is for all values of the constants that satisfy the named assumption
of the module; the bounds on the length of a run (`MaxWritten`, `MaxTick`, ...) are
constants like the others and arbitrary. An invariant of a module is a consequence
of an inductive one, called `IInv` in each module of proofs, whose conjuncts are
named for what they say. The queue's is part of its run; the others were also
checked with TLC, on the constants of the runs (`PrintsSoFar` of `PatternProofs`,
which speaks of every format string, as the state of `Scan` after the one made so
far).

| module | theorems | for all |
|---|---|---|
| `QueueProofs` | `Invariance`, `TypeCorrect`, `InOrder`, `RaceFree`, `Bounded`, `ReservationsExact` (an action property), `Refinement` (`Spec => F!Spec`) | capacities that divide the range of `size_t`, widths, sets of event sizes |
| `BackendProofs` | `TypeCorrect`, `ListStaysIntact`, `NothingDangles`, `StopsClean`, `DrainIsLossless` (an action property) | sets of threads, joined or not, addresses and their reuse, queue sizes, with and without stale loads and address dependencies |
| `SinkProofs` | `TypeCorrect`, `ExactlyOneHolder`, `LastQueuedIsCurrent`, `RefinesHandover` (`Spec => H!Spec`) | sets of callers, files and standard streams |
| `FormatterProofs` | `TypeCorrect`, `ExactlyOneHolder`, `OwnSecondShown`, `RefinesHandover` | sets of callers, addresses and time specs, ranges of seconds, before 1970 too, and lengths of a day |
| `OutputProofs` | `TypeCorrect`, `PatternNotOlderThanSink`, `LevelNotOlderThanCall`, `AtMostOneRoundLate`, `SlotsFollowHandover` | sets of threads, orders of the list, numbers of settings, levels and events |
| `ClockProofs` | `TypeCorrect`, `TimesAreAccurate`, `SettingsAreFresh` | rates, precisions of doubles, intervals, dates, zones and changes of the clock |
| | `RateTypeCorrect`, `RateIsThatOfCounter` (of `TickRate`) | frequencies, windows, and delays of any length |
| `CodecProofs` | `QueueHoldsEvents`, `CodecTypeCorrect`, `EventsDecodedAsLogged`, `EventsFillReservation` | lists of call sites with any number of arguments, texts, lengths of the queue, pointer sizes for which the header has no padding |
| `PatternProofs` | `ReadsWholeItems`, `PatternTypeCorrect`, `PatternStopsAtFirstFault`, `PatternAcceptsExactly`, `PatternFormatsAsWritten` | patterns of any length over any words, limits of `PatternFormatter` |

**Queue.** None of the properties is inductive. `IInv` adds what the code relies on
silently: each position is the end of a prefix of the stream of committed events,
taken modulo `SizeMod` (`PositionInv`); the four positions are ordered and the
producer is never more than a capacity ahead of the read position it has acquired
(`OrderInv`, `StreamInv`); reservations point where the stream ends
(`ReservationInv`); and every cell of an unreleased event holds what was encoded
(`ContentInv`). `FreeSpaceExact` and `ReserveReadFacts` then show that the wrapped
comparisons of the code decide what the stream positions would, and `LiveDisjoint`
that a reservation shares no cell with an unreleased event; both come down to the
facts about `%` at the head of the module. In the refinement `CommitWrite` is `Put` and
`Decode` is `Get`. `QueueAssumption`: the capacity divides `SizeMod`, which the power
of two guarantees, and twice the capacity is below it.

**Backend.** The argument is that one thread unlinks. Hence the node that
`poll_threads` visits stays in the list, and the successor it has read stays the
successor while others push in front (`VisitInv`); the walk of
`remove_and_delete_node` starts at a head that is at or before the node it looks
for and meets it with the right predecessor (`WalkInv`), so its null check never
fires. `SyncInv` says that from the visited node on the list is synchronised,
because pushes only come before it: so a race can be met in the walk up to that node
but not in `poll_threads`, and the theorems hold up to a step `WalkRaces` and, where
the target has address dependencies, without that restriction. A node under registration belongs to a thread that is in no list
(`RegisterInv`), which keeps addresses apart when they are reused and makes the
compare-and-swap of `register_thread` safe from ABA: nothing is read from the old
head. `StopInv` and `DrainInv` follow the shutdown: once the backend has read that
`_running` is false with acquire order it knows all events of the threads that were
joined, so an empty look is an empty queue (`known = queued`).
`BackendAssumption` only says that null is no address and that the main thread
exists.

**Sink and Formatter.** `ControlInv` ties the locals of the callers and of the
backend to the program points, and `HolderInv` says of every file (formatter)
separately that no two places hold it (`Apart`) and that it is open (exists) exactly
if some place does; the count in `OneHolder` follows. For sinks this is about the
streams that were not given `again`. `LastInv` finds the setting
queued last in the slot, on its way, or in use. `CacheInv` relates the cached text to
the second in which it was made, and to none for a spec that is not in `dated`. The simulations of `Handover` map the exchange of
the backend to `Take`, that of a caller to `Queue`, and every other step to a stutter.

**Output.** `SlotInv` says that the slot holds the setting queued last unless it is
already in use, and `OrderInv` that outside the gap between the two polls the pattern
in use is at least the one that was set before the sink in use. `ViewInv` carries
the release/acquire chain: along a queue the levels of the calls do not decrease, and
the backend's view has caught up with every event that its copy of the write position
covers, so that whichever load made an event visible (`HeadAcquired`) brought the
level of the call too. `SlotsFollowHandover`
closes the composition: `Output` treats its two slots as `Handover` allows, and
`RefinesHandover` says that the two handlers do nothing else. `OutputAssumption` asks
for at least one registered thread; with none there is no event to speak of.

**Clock.** `ReadInv` orders the three reads of `sync_to_system_clock`, `SyncInv` puts
the sync point next to the middle of them, `OffsetInv` says that the UTC offset is
that of the zone as read last, and `AgeInv` that what a round remembers of the age of
a setting never makes it younger. The lemmas follow the arithmetic: `HalfError` and
`AverageError` (doubles), `AgeIsDifference` (the signed wrapping difference),
`TruncationError`, and `ConversionError`, which adds them up to the bound of
`Accuracy`. `OffsetIsZone` is the theorem about `recalculate_utc_offset`: the
difference of two broken-down times is the zone's offset on every date, before 1970
too, because `YearOf` always finds a year (`YearExists`) and dates at most a day
apart are in the same year or in consecutive ones (`DaysApart`). `ClockAssumption`
asks that the counter stays in half the range of `uint64_t`, which is 97 years of
uptime at 3 GHz; `ZoneAssumption` that zones are between -12 and +14 hours.

**TickRate.** `CpuFacts` collects what the machines of the model have in common;
`MeasurementError` bounds the error of `measure_tsc_tick` by how late its two reads
really were, whatever the delays are; it says nothing of how small that error is.

**Codec.** The properties speak of the event decoded last; what makes them inductive
is `BufferHoldsQueued`: the bytes of the queue are the encodings of the queued events,
one behind the other (`Joined(WrittenAll(queued))`). The argument goes from the
inside out. `DecodeEncoded`: wherever in the buffer the encoding of a value stands,
`Decode` returns the value and the position behind it. `JoinedPlaces`: in what is
joined of several pieces, each begins at the sum of the sizes before it. Together
they give `ArgsDecoded`, that each `decode` begins where the `encode` of the same
argument began, for argument lists of any length; `EventDecoded` adds the header,
which is written member by member and read as a struct, so that it needs
`CodecAssumption` (no padding). `JoinedAppend` and `JoinedTail` then carry the
invariant over a push and a read.

**Pattern.** `IInv` relates the state of the parser to the reference: what is before
`i` is well-formed (`Consumed`), the counters are those of `Reading` (`Counted`), an
error of the pattern means that no item begins at `i` (`StoppedAtFault`), an error of
the limits that the item there exceeds one (`StoppedAtLimit`). The reference says
nothing of where to cut a pattern, so the proof has to show that there is one way
only: `ItemUnique` (from a given place on at most one item begins) and `Cuts` (an
item that begins where a well-formed prefix ends does not cross the end of a longer
one), from which `NoItemNoPrefix` follows: without an item at `i` no longer prefix is
well-formed, and the first fault is final. `FieldFound` and `FieldComplete` say that
the search for the closing brace, the split at the colon and the table lookups accept
exactly the tokens that the grammar calls a field. `FormatsAsWritten` needs a second
invariant, `PrintsSoFar`: the format string made so far `Prints` the text of the items
with the arguments of the fields, wherever in a larger string it stands outside of
braces. `Prints` is closed under concatenation (`JoinPrints`), so that it is enough to
look at a word, a doubled brace and the three shapes of a placeholder. That a text
that ends in a brace may be followed by a field that begins with one is covered
by this: after each item `vformat` is outside of braces.

Both modules prove by induction over data, for which the library's rules cannot be
used (they take an operator as a parameter). They rest on `Least` and `UpTo` instead,
which state induction for a set of numbers; a recursive function is shown to exist by
extending it one argument at a time (`ScanRecursion`, `ReadingRecursion`, ...).

What stays with TLC, and why:

- liveness under fairness: `NoStarvation`, `Reclaimed`, `ShutdownEnds`,
  `ImplementsFairFifo` and the fairness in `ImplementsHandover`; the safety part of
  the last two is proved (`Refinement`, `RefinesHandover`);
- the constant evaluations in `MCQueue` and `MCClock`;
- the two violated properties, which are false.

Every invariant and action property of a passing run is a theorem.

## Plan

Logging from destructors that run after the one of `ThreadContextHandler`, as
a question of its own to `Backend`, is left.

## Not modelled

cpuid, rdtsc, fmt and stdio themselves, which are not the library's; the text
processing of the CPU's model name, of which only the result matters; the
exception of the backend's constructor, after which nothing happens; the plain
store of `set_default_queue_size`; buffering modes, which the library passes on
to `setvbuf`; the benchmarks, tests and example, which are not part of the library.
