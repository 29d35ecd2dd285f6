------------------------------ MODULE MCClock ------------------------------
(***************************************************************************)
(* Rates that are too small and too large, and time stamps that doubles    *)
(* cannot tell apart, at the end of a leap year.                           *)
(***************************************************************************)
EXTENDS Clock
MCRates == {[num |-> 3, den |-> 4], [num |-> 5, den |-> 4]}
ExactRate == {[num |-> 1, den |-> 1]}
(* 2024-12-31 23:59:59 UTC, the last second of a leap year.                *)
YearEnd == {1735689599}
Back == {-4}
Eastern == {-18000, -14400}

(* recalculate_utc_offset() finds the offset of every zone, around the end *)
(* of every year and of every February that a 32-bit time can express.     *)
ASSUME OffsetOfZone ==
  \A year \in 1971 .. 2037, day \in {-1, 0, 58, 59}, second \in {0, 3599, 43200, 86399} :
    \A quarter \in -48 .. 56 :
      LET unix == 86400 * (DaysBefore(year) + day) + second
      IN  UtcOffset(BrokenDown(unix + 900 * quarter), BrokenDown(unix))
            = TicksPerSecond * 900 * quarter
=============================================================================
