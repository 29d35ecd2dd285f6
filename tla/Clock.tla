------------------------------- MODULE Clock -------------------------------
(***************************************************************************)
(* Clock of detail/time.h and its use by the backend: the sync point and   *)
(* the UTC offset, when they are renewed, and the conversion of the time   *)
(* stamps that the logging threads have put into their events.             *)
(*                                                                         *)
(* True time advances by itself, in ticks.  A tick is one nanosecond of    *)
(* true time, so the rate the clock works with, rate.num / rate.den        *)
(* (module TickRate), is right if it is 1.  The system clock is true time  *)
(* plus adj, which an administrator or NTP may change; the time zone may   *)
(* change its offset.  System times are counted from the second epoch of   *)
(* Unix time.  TicksPerSecond is 10^9 in the code.                         *)
(***************************************************************************)
EXTENDS Integers

CONSTANTS
  TscMod,          \* range of uint64_t
  Ulp,             \* distance of doubles at the size of the time stamps; 1 if
                   \*   they are so small that halves are exact
  TicksPerSecond,
  Rates,           \* rates that get_tsc_ns_per_tick() may find
  Boots,           \* time stamps at which the program may start
  Epochs, Zones,   \* Unix times at time stamp 0; offsets of time zones, seconds
  Steps,           \* amounts by which the system clock may be set
  OffsetInterval, SyncInterval,
  MaxTick, MaxChanges, MaxEvents  \* bounds

ASSUME ClockAssumption ==
  /\ TscMod \in Nat /\ Ulp \in Nat \ {0} /\ TicksPerSecond \in Nat \ {0}
  /\ Rates \subseteq [num : Nat \ {0}, den : Nat \ {0}]
  /\ Boots \subseteq Nat /\ Epochs \subseteq Nat /\ Steps \subseteq Int
  /\ OffsetInterval \in Nat /\ SyncInterval \in Nat
  /\ MaxTick \in Nat /\ MaxChanges \in Nat /\ MaxEvents \in Nat
  /\ \A b \in Boots : b <= MaxTick
  /\ 2 * (MaxTick + Ulp) < TscMod   \* the counter stays in half its range, 97 years
                                    \*   at 3 GHz
ASSUME ZoneAssumption == \A z \in Zones : z \in Int /\ -43200 <= z /\ z <= 50400

VARIABLES
  tick, adj, zone, epoch, changes,          \* the world
  rate, sync_point, utc_offset_ns,          \* the clock
  bpc, ready, now, tsc1, t,                 \* backend: program point, whether
                                            \*   init() is done, locals
  last_utc_offset_resync, last_system_clock_resync,
  events,                                   \* logged and not yet converted
  logged,                                   \* number of events logged
  synced,   \* history: the ticks of the first and the last read behind the sync
            \*   point and adj as it was read; zone as it was read, and when
  shown     \* history: the event converted last in this round and its time

world == <<tick, adj, zone, epoch, changes>>
locals == <<now, tsc1, t>>
lasts == <<last_utc_offset_resync, last_system_clock_resync>>
vars == <<world, rate, sync_point, utc_offset_ns, bpc, ready, locals, lasts, events, logged,
          synced, shown>>

-----------------------------------------------------------------------------
(* The calendar of gmtime() and localtime().                               *)

DaysBefore(year) ==
  LET y == year - 1
  IN  365 * (year - 1970) + (y \div 4 - y \div 100 + y \div 400) - 477

(* 400 years have 146097 days, so that 1970 + guess misses by one at most. *)
YearOf(day) ==
  LET guess == (400 * day) \div 146097
  IN  CHOOSE y \in 1969 + guess .. 1971 + guess :
        DaysBefore(y) <= day /\ day < DaysBefore(y + 1)

BrokenDown(time) ==
  LET day == time \div 86400
      s == time % 86400
      year == YearOf(day)
  IN  [tm_year |-> year, tm_yday |-> day - DaysBefore(year),
       tm_hour |-> s \div 3600, tm_min |-> (s \div 60) % 60, tm_sec |-> s % 60]

-----------------------------------------------------------------------------
Abs(x) == IF x < 0 THEN -x ELSE x

(* Conversion of a double to int64_t, for the double x / y.                *)
Truncated(x, y) == IF x < 0 THEN -((-x) \div y) ELSE x \div y

(* The double nearest to x / 2, converted to uint64_t.                     *)
RoundedHalf(x) == IF Ulp = 1 THEN x \div 2 ELSE ((x + Ulp) \div (2 * Ulp)) * Ulp

(* Fault: the difference stays unsigned.                                   *)
SignedAge_Unsigned(ts, base) == (ts - base) % TscMod
(* (int64_t)(ts - base), a wrapping difference.                            *)
SignedAge(ts, base) ==
  LET d == (ts - base) % TscMod IN IF d >= TscMod \div 2 THEN d - TscMod ELSE d

Init ==
  /\ tick \in Boots /\ adj = 0 /\ zone \in Zones /\ epoch \in Epochs /\ changes = 0
  /\ rate \in Rates
  /\ sync_point = [ts |-> 0, system_time |-> 0] /\ utc_offset_ns = 0
  /\ bpc = "recalculate" /\ ready = FALSE /\ now = 0 /\ tsc1 = 0
  /\ t = [time |-> 0, adj |-> 0]
  /\ last_utc_offset_resync = 0 /\ last_system_clock_resync = 0
  /\ events = {} /\ logged = 0
  /\ synced = [from |-> 0, to |-> 0, adj |-> 0, zone |-> 0, at |-> 0]
  /\ shown = {}

-----------------------------------------------------------------------------
(* The world.                                                              *)

Tick ==
  /\ tick < MaxTick
  /\ tick' = tick + 1
  /\ UNCHANGED <<adj, zone, epoch, changes, rate, sync_point, utc_offset_ns, bpc, ready,
                 locals, lasts, events, logged, synced, shown>>

SetSystemClock(step) ==
  /\ changes < MaxChanges
  /\ adj' = adj + step /\ changes' = changes + 1
  /\ UNCHANGED <<tick, zone, epoch, rate, sync_point, utc_offset_ns, bpc, ready, locals,
                 lasts, events, logged, synced, shown>>

(* Daylight saving time begins or ends.                                    *)
ChangeZone(z) ==
  /\ changes < MaxChanges /\ z # zone
  /\ zone' = z /\ changes' = changes + 1
  /\ UNCHANGED <<tick, adj, epoch, rate, sync_point, utc_offset_ns, bpc, ready, locals,
                 lasts, events, logged, synced, shown>>

(* A thread reads the time stamp of an event.  The history of the event    *)
(* keeps what a clock on the wall showed then.                             *)
Log ==
  /\ ready /\ logged < MaxEvents
  /\ events' = events \cup {[ts |-> tick, adj |-> adj, zone |-> zone]}
  /\ logged' = logged + 1
  /\ UNCHANGED <<world, rate, sync_point, utc_offset_ns, bpc, ready, locals, lasts, synced,
                 shown>>

-----------------------------------------------------------------------------
(* The backend: init(), then rounds of try_resync_clock() and conversions. *)

DayDiff(local, utc) ==
  IF local.tm_year # utc.tm_year
  THEN IF local.tm_year > utc.tm_year THEN 1 ELSE -1
  ELSE local.tm_yday - utc.tm_yday

UtcOffset(local, utc) ==
  TicksPerSecond * (DayDiff(local, utc) * 86400 + (local.tm_hour - utc.tm_hour) * 3600
                    + (local.tm_min - utc.tm_min) * 60 + (local.tm_sec - utc.tm_sec))

RecalculateUtcOffset ==
  /\ bpc = "recalculate"
  /\ LET unix == epoch + (tick + adj) \div TicksPerSecond
     IN  utc_offset_ns' = UtcOffset(BrokenDown(unix + zone), BrokenDown(unix))
  /\ synced' = [synced EXCEPT !.zone = zone, !.at = tick]
  /\ IF ready THEN bpc' = "check_sync" /\ last_utc_offset_resync' = now
              ELSE bpc' = "read_tsc1" /\ UNCHANGED last_utc_offset_resync
  /\ UNCHANGED <<world, rate, sync_point, ready, locals, last_system_clock_resync, events,
                 logged, shown>>

(* sync_to_system_clock(): three reads, between which time passes.         *)
ReadTsc1 ==
  /\ bpc = "read_tsc1" /\ bpc' = "read_clock"
  /\ tsc1' = tick
  /\ UNCHANGED <<world, rate, sync_point, utc_offset_ns, ready, now, t, lasts, events, logged,
                 synced, shown>>

ReadSystemClock ==
  /\ bpc = "read_clock" /\ bpc' = "read_tsc2"
  /\ t' = [time |-> tick + adj, adj |-> adj]
  /\ UNCHANGED <<world, rate, sync_point, utc_offset_ns, ready, now, tsc1, lasts, events,
                 logged, synced, shown>>

(* Fault: half the distance is added to the second time stamp.             *)
Average_FromSecond(first, second) ==
  RoundedHalf(2 * RoundedHalf(2 * second) + (second - first))
(* Average of two time stamps, computed with doubles.                      *)
Average(first, second) == RoundedHalf(2 * RoundedHalf(2 * first) + (second - first))

(* The second time stamp, the sync point, and the return to the caller.    *)
SyncToSystemClock ==
  /\ bpc = "read_tsc2"
  /\ sync_point' = [ts |-> Average(tsc1, tick), system_time |-> t.time]
  /\ synced' = [synced EXCEPT !.from = tsc1, !.to = tick, !.adj = t.adj]
  /\ bpc' = IF ready THEN "poll" ELSE "check_offset"
  /\ ready' = TRUE /\ tsc1' = 0 /\ t' = [time |-> 0, adj |-> 0]
  /\ last_system_clock_resync' = IF ready THEN now ELSE last_system_clock_resync
  /\ UNCHANGED <<world, rate, utc_offset_ns, now, last_utc_offset_resync, events, logged,
                 shown>>

(* read_timestamp_ns(), in units of 1 / rate.den.                          *)
read_timestamp_ns == rate.num * tick

Due(time, last, interval) == time - last > interval * rate.den

CheckUtcOffset ==
  /\ bpc = "check_offset"
  /\ now' = read_timestamp_ns
  /\ bpc' = IF Due(now', last_utc_offset_resync, OffsetInterval)
            THEN "recalculate" ELSE "check_sync"
  /\ UNCHANGED <<world, rate, sync_point, utc_offset_ns, ready, tsc1, t, lasts, events, logged,
                 synced, shown>>

(* Fault: the age of the other setting is looked at.                       *)
CheckSystemClock_OtherAge ==
  /\ bpc = "check_sync"
  /\ now' = read_timestamp_ns
  /\ bpc' = IF Due(now', last_utc_offset_resync, SyncInterval)
            THEN "read_tsc1" ELSE "poll"
  /\ UNCHANGED <<world, rate, sync_point, utc_offset_ns, ready, tsc1, t, lasts, events, logged,
                 synced, shown>>
CheckSystemClock ==
  /\ bpc = "check_sync"
  /\ now' = read_timestamp_ns
  /\ bpc' = IF Due(now', last_system_clock_resync, SyncInterval)
            THEN "read_tsc1" ELSE "poll"
  /\ UNCHANGED <<world, rate, sync_point, utc_offset_ns, ready, tsc1, t, lasts, events, logged,
                 synced, shown>>

timestamp_to_local_system_time(ts) ==
  sync_point.system_time
    + Truncated(rate.num * SignedAge(ts, sync_point.ts), rate.den) + utc_offset_ns

(* The backend reads an event and converts its time stamp.  Events of      *)
(* different queues come in any order.                                     *)
Convert(e) ==
  /\ bpc = "poll" /\ e \in events
  /\ events' = events \ {e}
  /\ shown' = {[event |-> e, time |-> timestamp_to_local_system_time(e.ts)]}
  /\ UNCHANGED <<world, rate, sync_point, utc_offset_ns, bpc, ready, locals, lasts, logged,
                 synced>>

EndRound ==
  /\ bpc = "poll" /\ bpc' = "check_offset"
  /\ now' = 0 /\ shown' = {}
  /\ UNCHANGED <<world, rate, sync_point, utc_offset_ns, ready, tsc1, t, lasts, events, logged,
                 synced>>

BackendStep ==
  \/ RecalculateUtcOffset \/ ReadTsc1 \/ ReadSystemClock \/ SyncToSystemClock
  \/ CheckUtcOffset \/ CheckSystemClock \/ (\E e \in events : Convert(e)) \/ EndRound

Next ==
  \/ Tick \/ (\E s \in Steps : SetSystemClock(s)) \/ (\E z \in Zones : ChangeZone(z))
  \/ Log \/ BackendStep

Spec == Init /\ [][Next]_vars

-----------------------------------------------------------------------------
Stamp == 0 .. MaxTick
Event == [ts : Stamp, adj : Int, zone : Zones]

(* Every variable has a value of its type; in particular the average of    *)
(* two time stamps is one.                                                 *)
TypeOK ==
  /\ tick \in Stamp /\ adj \in Int /\ zone \in Zones /\ epoch \in Epochs
  /\ changes \in 0 .. MaxChanges /\ rate \in Rates
  /\ sync_point \in [ts : 0 .. MaxTick + Ulp, system_time : Int]
  /\ utc_offset_ns \in Int
  /\ bpc \in {"recalculate", "read_tsc1", "read_clock", "read_tsc2", "check_offset",
              "check_sync", "poll"}
  /\ ready \in BOOLEAN /\ now \in Nat /\ tsc1 \in Stamp /\ t \in [time : Int, adj : Int]
  /\ last_utc_offset_resync \in Nat /\ last_system_clock_resync \in Nat
  /\ events \subseteq Event /\ logged \in 0 .. MaxEvents
  /\ synced \in [from : Stamp, to : Stamp, adj : Int, zone : Zones \cup {0}, at : Stamp]
  /\ shown \subseteq [event : Event, time : Int]

(* The time an event shows is the one of its call by the system clock and  *)
(* the zone as they were read last, but for half the time that the three   *)
(* reads took, the rounding of doubles, and the error of the rate over the *)
(* time between the call and the reads, whichever came first.              *)
Accuracy ==
  \A s \in shown :
    LET error == s.time - (s.event.ts + synced.adj + TicksPerSecond * synced.zone)
    IN  2 * rate.den * Abs(error) <=
          rate.den * (synced.to - synced.from + 2 * (Ulp + 1))
            + 2 * Abs(rate.num - rate.den) * Abs(s.event.ts - sync_point.ts)

(* No round converts time stamps with a sync point or an offset that was   *)
(* older than its interval when the round looked at it, also if it is from *)
(* init() and none was renewed since.                                      *)
Fresh ==
  /\ bpc = "check_sync" => ~Due(now, rate.num * synced.at, OffsetInterval)
  /\ bpc = "poll" => ~Due(now, rate.num * synced.from, SyncInterval)

(* "The timestamp should be the local wall clock time of the call"         *)
(* (test_logging.cpp:159), within the five seconds that the test allows.   *)
LocalTimeOfCall ==
  \A s \in shown :
    Abs(s.time - (s.event.ts + s.event.adj + TicksPerSecond * s.event.zone))
      <= 5 * TicksPerSecond

=============================================================================
