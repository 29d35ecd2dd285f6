----------------------------- MODULE Formatter -----------------------------
(***************************************************************************)
(* PatternFormatterHandler of detail/pattern.h with its callers: the macro *)
(* PAPPER_SET_PATTERN on any thread, and the backend's loop, which takes   *)
(* over a pending formatter and formats events with the current one.       *)
(*                                                                         *)
(* A formatter is known by its address, which new may reuse after delete.  *)
(* What matters of its pattern is the spec of its time field: all          *)
(* formatters with the same spec share one cached text of the last second  *)
(* they printed, the statics of process_time_arg().                        *)
(***************************************************************************)
EXTENDS Integers, FiniteSets

CONSTANTS
  Callers,    \* the threads that set patterns
  Addrs,      \* addresses of formatters
  Default,    \* the formatter that the constructor makes
  Null,
  TimeSpecs,  \* the specs of process_time_arg()
  DefaultSpec,
  MinSecond, MaxSecond,  \* bounds on the local times, in seconds since the
                         \*   start of 1970; times before that are negative
  Day         \* the seconds of a day

ASSUME FormatterAssumption ==
  /\ Default \in Addrs /\ Null \notin Addrs /\ DefaultSpec \in TimeSpecs
  /\ MinSecond \in Int /\ MaxSecond \in Int /\ Day \in Nat \ {0}

VARIABLES
  live, spec,          \* the formatters that exist, and their time specs
  cpc, arg, prev,      \* per caller: program point, formatter and prev of
                       \*   queue_new_formatter()
  pending_new_formatter, formatter,
  bpc, new_formatter,  \* backend thread: program point, formatter taken
  running,
  last_update, HMS_part,  \* the statics, per spec
  shown,               \* history: the last event formatted, if any
  dated,               \* history: the specs with which an event in a second
                       \*   other than -1 has been formatted
  last                 \* history: the formatter queued last

callerVars == <<cpc, arg, prev>>
heapVars == <<live, spec>>
cacheVars == <<last_update, HMS_part, shown, dated>>
vars == <<heapVars, callerVars, pending_new_formatter, formatter, bpc, new_formatter,
          running, cacheVars, last>>

Second == MinSecond .. MaxSecond
NoText == -1
(* The second that last_update starts with, the last one of 1969.          *)
NeverUpdated == -1

(* Fault: the remainder of C++, which is negative before 1970.             *)
HMS_Truncated(second) == IF second < 0 THEN -((-second) % Day) ELSE second % Day
(* The text of %H:%M:%S, which repeats every day.                          *)
HMS(second) == second % Day

Init ==
  /\ live = {Default} /\ spec = [a \in Addrs |-> DefaultSpec]
  /\ cpc = [c \in Callers |-> "idle"]
  /\ arg = [c \in Callers |-> Null] /\ prev = [c \in Callers |-> Null]
  /\ pending_new_formatter = Null /\ formatter = Default
  /\ bpc = "loop" /\ new_formatter = Null /\ running = TRUE
  /\ last_update = [s \in TimeSpecs |-> NeverUpdated] /\ HMS_part = [s \in TimeSpecs |-> NoText]
  /\ shown = {} /\ dated = {}
  /\ last = Default

-----------------------------------------------------------------------------
(* PAPPER_SET_PATTERN makes a formatter and queues it.                     *)
SetPattern(c, s) ==
  /\ cpc[c] = "idle" /\ bpc \notin {"destructor", "destroyed"}
  /\ \E a \in Addrs \ live :
       /\ live' = live \cup {a}
       /\ spec' = [spec EXCEPT ![a] = s]
       /\ arg' = [arg EXCEPT ![c] = a]
  /\ cpc' = [cpc EXCEPT ![c] = "queue"]
  /\ UNCHANGED <<prev, pending_new_formatter, formatter, bpc, new_formatter, running,
                 cacheVars, last>>

(* Fault: the slot is read, then written.                                  *)
QueueNewFormatter_NotAtomic(c) ==
  /\ \/ /\ cpc[c] = "queue"
        /\ prev' = [prev EXCEPT ![c] = pending_new_formatter]
        /\ cpc' = [cpc EXCEPT ![c] = "store"]
        /\ UNCHANGED <<arg, pending_new_formatter, last>>
     \/ /\ cpc[c] = "store"
        /\ pending_new_formatter' = arg[c] /\ last' = arg[c]
        /\ arg' = [arg EXCEPT ![c] = Null]
        /\ cpc' = [cpc EXCEPT ![c] = IF prev[c] = Null THEN "idle" ELSE "delete"]
        /\ UNCHANGED prev
  /\ UNCHANGED <<heapVars, formatter, bpc, new_formatter, running, cacheVars>>
(* The exchange of queue_new_formatter().                                  *)
QueueNewFormatter(c) ==
  /\ cpc[c] = "queue"
  /\ pending_new_formatter' = arg[c] /\ last' = arg[c]
  /\ prev' = [prev EXCEPT ![c] = pending_new_formatter]
  /\ arg' = [arg EXCEPT ![c] = Null]
  /\ cpc' = [cpc EXCEPT ![c] = IF pending_new_formatter = Null THEN "idle" ELSE "delete"]
  /\ UNCHANGED <<heapVars, formatter, bpc, new_formatter, running, cacheVars>>

DeletePrev(c) ==
  /\ cpc[c] = "delete"
  /\ live' = live \ {prev[c]}
  /\ prev' = [prev EXCEPT ![c] = Null]
  /\ cpc' = [cpc EXCEPT ![c] = "idle"]
  /\ UNCHANGED <<spec, arg, pending_new_formatter, formatter, bpc, new_formatter, running,
                 cacheVars, last>>

-----------------------------------------------------------------------------
(* The backend thread, and the thread that runs the destructors.           *)

CheckRunning ==
  /\ bpc = "loop"
  /\ bpc' = IF running THEN "poll" ELSE "drain"
  /\ UNCHANGED <<heapVars, callerVars, pending_new_formatter, formatter, new_formatter,
                 running, cacheVars, last>>

(* Fault: a pending formatter waits until the current one has been used.   *)
PollForPendingFormatterSwitch_WhenUsed ==
  /\ bpc = "poll"
  /\ LET take == HMS_part[spec[formatter]] # NoText
     IN  /\ new_formatter' = IF take THEN pending_new_formatter ELSE Null
         /\ pending_new_formatter' = IF take THEN Null ELSE pending_new_formatter
         /\ bpc' = IF new_formatter' = Null THEN "format" ELSE "switch"
  /\ UNCHANGED <<heapVars, callerVars, formatter, running, cacheVars, last>>
(* The exchange of poll_for_pending_formatter_switch().                    *)
PollForPendingFormatterSwitch ==
  /\ bpc = "poll"
  /\ new_formatter' = pending_new_formatter
  /\ pending_new_formatter' = Null
  /\ bpc' = IF pending_new_formatter = Null THEN "format" ELSE "switch"
  /\ UNCHANGED <<heapVars, callerVars, formatter, running, cacheVars, last>>

SwitchFormatter ==
  /\ bpc = "switch"
  /\ live' = live \ {formatter}
  /\ formatter' = new_formatter
  /\ new_formatter' = Null
  /\ bpc' = "format"
  /\ UNCHANGED <<spec, callerVars, pending_new_formatter, running, cacheVars, last>>

ShowEvent(s, second) ==
  /\ shown' = {[spec |-> s, second |-> second, text |-> HMS_part'[s]]}
  /\ dated' = IF second = -1 THEN dated ELSE dated \cup {s}

(* Fault: the cached text is renewed only when time moves on.              *)
ProcessTimeArg_Forward(s, second) ==
  /\ IF second > last_update[s]
     THEN /\ HMS_part' = [HMS_part EXCEPT ![s] = HMS(second)]
          /\ last_update' = [last_update EXCEPT ![s] = second]
     ELSE UNCHANGED <<HMS_part, last_update>>
  /\ ShowEvent(s, second)
(* process_time_arg() for a time stamp in the given second.                *)
ProcessTimeArg(s, second) ==
  /\ IF second # last_update[s]
     THEN /\ HMS_part' = [HMS_part EXCEPT ![s] = HMS(second)]
          /\ last_update' = [last_update EXCEPT ![s] = second]
     ELSE UNCHANGED <<HMS_part, last_update>>
  /\ ShowEvent(s, second)

(* One event of poll_threads(), in the loop or in the drain loop.  Events  *)
(* come from several queues and the clock may be set back: their times are *)
(* in no order.                                                            *)
Format(second) ==
  /\ bpc \in {"format", "drain"}
  /\ ProcessTimeArg(spec[formatter], second)
  /\ UNCHANGED <<heapVars, callerVars, pending_new_formatter, formatter, bpc,
                 new_formatter, running, last>>

EndRound ==
  /\ bpc = "format"
  /\ bpc' = "loop"
  /\ UNCHANGED <<heapVars, callerVars, pending_new_formatter, formatter, new_formatter,
                 running, cacheVars, last>>

(* ~Backend() tells the backend thread to stop.                            *)
StopBackend ==
  /\ running
  /\ running' = FALSE
  /\ UNCHANGED <<heapVars, callerVars, pending_new_formatter, formatter, bpc,
                 new_formatter, cacheVars, last>>

(* ~Backend() joins the thread once it has drained the queues; no macro is *)
(* running then.                                                           *)
JoinBackend ==
  /\ bpc = "drain" /\ \A c \in Callers : cpc[c] = "idle"
  /\ bpc' = "destructor"
  /\ UNCHANGED <<heapVars, callerVars, pending_new_formatter, formatter, new_formatter,
                 running, cacheVars, last>>

(* ~PatternFormatterHandler().                                             *)
DestroyHandler ==
  /\ bpc = "destructor"
  /\ pending_new_formatter' = Null
  /\ live' = live \ {pending_new_formatter, formatter}
  /\ bpc' = "destroyed"
  /\ UNCHANGED <<spec, callerVars, formatter, new_formatter, running, cacheVars, last>>

Terminated == bpc = "destroyed" /\ UNCHANGED vars

SwitchStep ==
  CheckRunning \/ PollForPendingFormatterSwitch \/ SwitchFormatter \/ EndRound

Next ==
  \/ \E c \in Callers : (\E s \in TimeSpecs : SetPattern(c, s)) \/ QueueNewFormatter(c)
                        \/ DeletePrev(c)
  \/ SwitchStep \/ (\E second \in Second : Format(second))
  \/ StopBackend \/ JoinBackend \/ DestroyHandler \/ Terminated

Spec == Init /\ [][Next]_vars

(* The backend thread is scheduled and a round ends.                       *)
FairSpec == Spec /\ WF_vars(SwitchStep)

-----------------------------------------------------------------------------
MaybeAddr == Addrs \cup {Null}

(* Every variable has a value of its type; the current formatter, through  *)
(* which the backend calls, is never null.                                 *)
TypeOK ==
  /\ live \subseteq Addrs /\ spec \in [Addrs -> TimeSpecs]
  /\ cpc \in [Callers -> {"idle", "queue", "store", "delete"}]
  /\ arg \in [Callers -> MaybeAddr] /\ prev \in [Callers -> MaybeAddr]
  /\ pending_new_formatter \in MaybeAddr /\ formatter \in Addrs
  /\ new_formatter \in MaybeAddr
  /\ bpc \in {"loop", "poll", "switch", "format", "drain", "destructor", "destroyed"}
  /\ running \in BOOLEAN /\ last \in Addrs
  /\ last_update \in [TimeSpecs -> Second \cup {NeverUpdated}]
  /\ HMS_part \in [TimeSpecs -> 0 .. Day - 1 \cup {NoText}]
  /\ shown \subseteq [spec : TimeSpecs, second : Second, text : 0 .. Day - 1 \cup {NoText}]
  /\ dated \subseteq TimeSpecs

(* Who will delete or hand on a formatter.                                 *)
Holders(a) ==
  {<<"arg", c>> : c \in {c \in Callers : arg[c] = a}}
    \cup {<<"prev", c>> : c \in {c \in Callers : prev[c] = a}}
    \cup (IF pending_new_formatter = a THEN {<<"pending", Null>>} ELSE {})
    \cup (IF new_formatter = a THEN {<<"new", Null>>} ELSE {})
    \cup (IF formatter = a /\ bpc # "destroyed" THEN {<<"formatter", Null>>} ELSE {})

(* Every formatter is held in exactly one place while it exists and        *)
(* nowhere afterwards: none is leaked, deleted twice or used after its     *)
(* deletion, however callers and the backend race for the pending slot.    *)
OneHolder ==
  \A a \in Addrs : Cardinality(Holders(a)) = IF a \in live THEN 1 ELSE 0

(* An event shows the text of its own second, whatever was printed before, *)
(* by this formatter or by others with the same spec, also after the clock *)
(* was set back and for times before 1970.  The only exception is second   *)
(* -1, with which last_update starts: an event in it shows an empty text,  *)
(* but no longer once the spec has been used in any other second.          *)
ShowsOwnSecond ==
  \A e \in shown :
    e.text = IF e.second = -1 /\ e.spec \notin dated THEN NoText ELSE HMS(e.second)

(* The handler implements the hand-over of a setting.                      *)
H == INSTANCE Handover WITH
       Values <- Addrs, Initial <- Default, None <- Null,
       pending <- pending_new_formatter,
       current <- IF bpc = "switch" THEN new_formatter ELSE formatter,
       serving <- bpc \notin {"drain", "destructor", "destroyed"}
ImplementsHandover == H!FairSpec

=============================================================================
