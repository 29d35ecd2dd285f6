------------------------------ MODULE TickRate ------------------------------
(***************************************************************************)
(* get_tsc_ns_per_tick() of detail/time.h: whether the time stamp counter  *)
(* can be used, and how long a tick is, which Clock takes for true.        *)
(*                                                                         *)
(* Frequencies are in MHz and ticks in ns, so that the rate of a CPU is    *)
(* 1000 / mhz.  Doubles are fractions.  A CPU is what cpuid says of it, a  *)
(* model name is the number, a fraction, and the unit it ends in.  A       *)
(* thread may be suspended for any time between two readings of a clock.   *)
(***************************************************************************)
EXTENDS Integers

CONSTANTS
  Frequencies,  \* of the counters of real CPUs
  Window,       \* the 10 ms of measure_tsc_tick(), in some unit of time
  MaxDelay      \* bound on the time a thread is suspended between two reads

ASSUME TickRateAssumption ==
  /\ Frequencies \subseteq Nat \ {0}
  /\ Window \in Nat \ {0} /\ MaxDelay \in Nat

VARIABLES
  cpu,
  pc,
  tick_time,    \* the result
  source,       \* history: where it is from
  start_tick, end_tick  \* when measure_tsc_tick() reads the counter, counted
                        \*   from its first look at the steady clock

readings == <<start_tick, end_tick>>
rateVars == <<cpu, pc, tick_time, source, readings>>

Multiplier == [M |-> 1, G |-> 1000, T |-> 1000000]
Units == DOMAIN Multiplier

(* Leaf 15h: ebx / eax is the ratio of the counter to a crystal of ecx MHz *)
(* (0: not enumerated).                                                    *)
Leaf15(mhz) ==
  {l \in [eax : {1, 2}, ebx : {0, 80, 100, 125, 200}, ecx : {0, 20, 25}] :
     l.ebx # 0 /\ l.ecx # 0 => l.ebx * l.ecx = l.eax * mhz}

Named(num, den, unit, apple) == [num |-> num, den |-> den, unit |-> unit, apple |-> apple]

(* The names that give a frequency, in any unit, and give the right one.   *)
TrueNames(mhz) ==
  {name \in {Named(mhz, 1, "M", FALSE)}
            \cup {Named(num, den, "G", FALSE) : num \in 1 .. 6, den \in 1 .. 2}
            \cup {Named(1, den, "T", FALSE) : den \in {400, 500}} :
     name.num * Multiplier[name.unit] = name.den * mhz}

(* The machines the code runs on.  The model name of an Intel CPU gives    *)
(* the rate of its counter, if any; Rosetta, which claims to be            *)
(* GenuineIntel, gives one that has nothing to do with it.                 *)
Machine(arch, mhz, vendor, leaves, names) ==
  [arch : {arch}, mhz : {mhz}, vendor : {vendor},
   max_extended : BOOLEAN, invariant : BOOLEAN, max_leaf : BOOLEAN,
   leaf15 : leaves, name : names]

NoLeaf == {[eax |-> 0, ebx |-> 0, ecx |-> 0]}
NoName == Named(0, 1, "none", FALSE)

Cpus ==
  UNION {
    Machine("x86", mhz, "GenuineIntel", Leaf15(mhz),
            TrueNames(mhz) \cup {Named(0, 1, "G", FALSE), Named(3, 1, "none", FALSE)})
    \cup Machine("x86", mhz, "GenuineIntel", NoLeaf,
                 {Named(3, 1, "G", TRUE), Named(3, 1, "none", TRUE)})
    \cup Machine("x86", mhz, "AuthenticAMD", NoLeaf, {Named(8, 1, "none", FALSE)})
    \cup Machine("x86", mhz, "other", NoLeaf, {Named(3, 1, "G", FALSE)})
    \cup Machine("aarch64", mhz, "none", NoLeaf, {NoName})
    : mhz \in Frequencies}

RateInit ==
  /\ cpu \in Cpus
  /\ pc = "start" /\ tick_time = [num |-> 0, den |-> 1] /\ source = "none"
  /\ start_tick = 0 /\ end_tick = 0

-----------------------------------------------------------------------------
Return(from, time) ==
  /\ pc' = "true" /\ source' = from /\ tick_time' = time
  /\ UNCHANGED cpu

GoOn(point) == pc' = point /\ UNCHANGED <<cpu, tick_time, source, readings>>

(* The counter's frequency is in a register of its own.                    *)
ReadFrequency ==
  /\ pc = "start" /\ cpu.arch = "aarch64"
  /\ Return("register", [num |-> 1000, den |-> cpu.mhz])
  /\ UNCHANGED readings

(* Leaf 80000007h exists and says that the counter is invariant.           *)
CheckInvariant ==
  /\ pc = "start" /\ cpu.arch = "x86"
  /\ GoOn(IF cpu.max_extended /\ cpu.invariant THEN "leaf15" ELSE "false")

(* Fault: the leaf is used as soon as it exists.                           *)
Leaf15Enumerated_IfExists == cpu.max_leaf
Leaf15Enumerated == cpu.max_leaf /\ cpu.leaf15.ebx # 0 /\ cpu.leaf15.ecx # 0

ExtractTickTimeFromLeaf15h ==
  /\ pc = "leaf15"
  /\ IF Leaf15Enumerated
     THEN /\ Return("leaf", [num |-> 1000 * cpu.leaf15.eax,
                             den |-> cpu.leaf15.ebx * cpu.leaf15.ecx])
          /\ UNCHANGED readings
     ELSE GoOn("name")

on_intel == cpu.vendor = "GenuineIntel"
on_amd == cpu.vendor = "AuthenticAMD"

(* Only with these two it is known how to read the model name; of others   *)
(* it is the name of the vendor.                                           *)
cpu_model_name == IF on_amd \/ on_intel THEN cpu.name ELSE NoName

(* Fault: the vendor is looked at, which Rosetta does not reveal.          *)
on_apple_rosetta_ByVendor == cpu.vendor = "VirtualApple"
on_apple_rosetta == cpu_model_name.apple

NamesFrequency == cpu_model_name.unit \in Units /\ cpu_model_name.num # 0
NamedTickTime ==
  [num |-> 1000 * cpu_model_name.den,
   den |-> cpu_model_name.num * Multiplier[cpu_model_name.unit]]

(* The frequency at the end of cpu_model_name().                           *)
ExtractTickTimeFromName ==
  /\ pc = "name"
  /\ IF on_intel /\ ~on_apple_rosetta /\ NamesFrequency
     THEN Return("name", NamedTickTime) /\ UNCHANGED readings
     ELSE GoOn("measure")

(* measure_tsc_tick(): the steady clock is read, and after a delay the     *)
(* counter.                                                                *)
StartMeasuring(delay) ==
  /\ pc = "measure"
  /\ start_tick' = delay
  /\ pc' = "spin"
  /\ UNCHANGED <<cpu, tick_time, source, end_tick>>

(* The loop looks at the steady clock at least once, which takes time, and *)
(* is left when the window is over; then the counter is read again.        *)
LatestOf(s, t) == IF s > t THEN s ELSE t

EndMeasuring(delay) ==
  /\ pc = "spin"
  /\ end_tick' = LatestOf(Window, start_tick + 1) + delay
  /\ Return("measured", [num |-> 1000 * Window, den |-> (end_tick' - start_tick) * cpu.mhz])
  /\ UNCHANGED start_tick

(* Clock::init() goes on, or fails.                                        *)
Returned == pc \in {"true", "false"} /\ UNCHANGED rateVars

Delays == 0 .. MaxDelay

RateNext ==
  \/ ReadFrequency \/ CheckInvariant \/ ExtractTickTimeFromLeaf15h \/ ExtractTickTimeFromName
  \/ \E delay \in Delays : StartMeasuring(delay) \/ EndMeasuring(delay)
  \/ Returned

RateSpec == RateInit /\ [][RateNext]_rateVars

-----------------------------------------------------------------------------
Magnitude(x) == IF x < 0 THEN -x ELSE x

(* Every variable has a value of its type; the tick is a finite number.    *)
RateTypeOK ==
  /\ cpu \in Cpus
  /\ pc \in {"start", "leaf15", "name", "measure", "spin", "true", "false"}
  /\ tick_time.num \in Nat /\ tick_time.den \in Nat \ {0}
  /\ source \in {"none", "register", "leaf", "name", "measured"}
  /\ start_tick \in Delays /\ end_tick \in Nat

(* By how much the two readings of the counter miss the window's ends.     *)
Lateness == LatestOf(start_tick, end_tick - Window)

(* If a rate is returned, the counter has a constant rate, and it is that  *)
(* one: exactly if the CPU tells it in leaf or name, whatever the unit.    *)
(* If it was measured, the frequency is off by at most the fraction of the *)
(* window by which the readings of the counter were late: one suspension   *)
(* of the length of the window makes it any frequency up to twice the true *)
(* one.  Rosetta's name is no source.  "CPU does not have an invariant     *)
(* TSC" (core.h:304) is the only reason to return none: every CPU that     *)
(* hides its rate is measured.                                             *)
RateOfCounter ==
  /\ pc = "true" =>
       LET error == Magnitude(tick_time.num * cpu.mhz - 1000 * tick_time.den)
       IN  /\ cpu.arch = "x86" => cpu.max_extended /\ cpu.invariant
           /\ IF source = "measured"
              THEN error * Window <= tick_time.num * cpu.mhz * Lateness
              ELSE error = 0
  /\ pc = "false" => ~(cpu.max_extended /\ cpu.invariant)

=============================================================================
