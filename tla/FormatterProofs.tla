-------------------------- MODULE FormatterProofs --------------------------
(***************************************************************************)
(* Proofs about PatternFormatterHandler and the cached time texts, for     *)
(* every set of callers, addresses and specs, and for any time stamps.     *)
(***************************************************************************)
EXTENDS Formatter, FiniteSetTheorems, TLAPS

(* The program points tell which local variables hold a formatter.         *)
ControlInv ==
  /\ \A c \in Callers : /\ cpc[c] \in {"idle", "queue", "delete"}
                        /\ cpc[c] = "queue" <=> arg[c] # Null
                        /\ cpc[c] = "delete" <=> prev[c] # Null
  /\ bpc = "switch" <=> new_formatter # Null
  /\ bpc \in {"destructor", "destroyed"} => \A c \in Callers : cpc[c] = "idle"

InUse(a) == formatter = a /\ bpc # "destroyed"

(* No two places hold the same formatter.                                  *)
Apart(a) ==
  /\ \A c, d \in Callers :
       /\ arg[c] = a /\ arg[d] = a => c = d
       /\ prev[c] = a /\ prev[d] = a => c = d
       /\ ~(arg[c] = a /\ prev[d] = a)
  /\ \A c \in Callers :
       arg[c] = a \/ prev[c] = a =>
         pending_new_formatter # a /\ new_formatter # a /\ ~InUse(a)
  /\ pending_new_formatter = a => new_formatter # a /\ ~InUse(a)
  /\ new_formatter = a => ~InUse(a)

Held(a) ==
  \/ \E c \in Callers : arg[c] = a \/ prev[c] = a
  \/ pending_new_formatter = a \/ new_formatter = a \/ InUse(a)

HolderInv == \A a \in Addrs : Apart(a) /\ (a \in live <=> Held(a))

(* A cached text is the one of the second it was made in; there is none as *)
(* long as the spec has met no second but the one last_update starts with. *)
CacheInv ==
  \A s \in TimeSpecs :
    /\ s \in dated => HMS_part[s] = HMS(last_update[s])
    /\ s \notin dated => HMS_part[s] = NoText /\ last_update[s] = NeverUpdated

(* The inductive invariant.                                                *)
IInv == TypeOK /\ ControlInv /\ HolderInv /\ CacheInv /\ ShowsOwnSecond

-----------------------------------------------------------------------------
(* The text of a second is one of those of a day.                          *)
LEMMA TextOfSecond == \A second \in Second : HMS(second) \in 0 .. Day - 1
  BY FormatterAssumption DEF Second, HMS

(* The initial state.                                                      *)
LEMMA InitInv == Init => IInv
<1> SUFFICES ASSUME Init PROVE IInv
  OBVIOUS
<1> USE FormatterAssumption DEF Init
<1>1. TypeOK
  BY DEF TypeOK, MaybeAddr
<1>2. ControlInv
  BY DEF ControlInv
<1>3. HolderInv
  BY DEF HolderInv, Apart, Held, InUse
<1>4. CacheInv /\ ShowsOwnSecond
  BY DEF CacheInv, ShowsOwnSecond
<1> QED
  BY <1>1, <1>2, <1>3, <1>4 DEF IInv

(* What every step preserves, one part of the invariant at a time.         *)
LEMMA StepType ==
  TypeOK /\ ControlInv /\ [Next]_vars => TypeOK'
<1> SUFFICES ASSUME TypeOK, ControlInv, [Next]_vars PROVE TypeOK'
  OBVIOUS
<1> USE FormatterAssumption DEF TypeOK, MaybeAddr, heapVars, callerVars, cacheVars
<1>1. ASSUME NEW c \in Callers, NEW s \in TimeSpecs, SetPattern(c, s) PROVE TypeOK'
  BY <1>1 DEF SetPattern
<1>2. ASSUME NEW c \in Callers, QueueNewFormatter(c) PROVE TypeOK'
  BY <1>2 DEF QueueNewFormatter, ControlInv
<1>3. ASSUME NEW c \in Callers, DeletePrev(c) PROVE TypeOK'
  BY <1>3 DEF DeletePrev
<1>4. CASE SwitchStep
  BY <1>4 DEF SwitchStep, CheckRunning, PollForPendingFormatterSwitch, SwitchFormatter,
              EndRound, ControlInv
<1>5. ASSUME NEW second \in Second, Format(second) PROVE TypeOK'
  <2> DEFINE s == spec[formatter]
  <2>1. s \in TimeSpecs /\ HMS(second) \in 0 .. Day - 1
    BY TextOfSecond
  <2>2. /\ HMS_part' \in [TimeSpecs -> 0 .. Day - 1 \cup {NoText}]
        /\ last_update' \in [TimeSpecs -> Second \cup {NeverUpdated}]
    BY <1>5, <2>1 DEF Format, ProcessTimeArg
  <2>3. HMS_part'[s] \in 0 .. Day - 1 \cup {NoText}
    BY <2>1, <2>2
  <2>4. /\ shown' = {[spec |-> s, second |-> second, text |-> HMS_part'[s]]}
        /\ dated' \subseteq TimeSpecs
    BY <1>5, <2>1 DEF Format, ProcessTimeArg, ShowEvent
  <2>5. shown' \subseteq [spec : TimeSpecs, second : Second, text : 0 .. Day - 1 \cup {NoText}]
    BY <2>1, <2>3, <2>4
  <2> QED
    BY <1>5, <2>2, <2>4, <2>5 DEF Format
<1>6. CASE StopBackend \/ JoinBackend \/ DestroyHandler
  BY <1>6 DEF StopBackend, JoinBackend, DestroyHandler
<1>7. CASE Terminated \/ UNCHANGED vars
  BY <1>7 DEF Terminated, vars
<1> QED
  BY <1>1, <1>2, <1>3, <1>4, <1>5, <1>6, <1>7 DEF Next

(* A local variable is set and cleared together with its program point.    *)
LEMMA StepControl == TypeOK /\ ControlInv /\ [Next]_vars => ControlInv'
<1> SUFFICES ASSUME TypeOK, ControlInv, [Next]_vars PROVE ControlInv'
  OBVIOUS
<1> USE FormatterAssumption DEF TypeOK, MaybeAddr, ControlInv, callerVars
<1>1. ASSUME NEW c \in Callers, NEW s \in TimeSpecs, SetPattern(c, s) PROVE ControlInv'
  BY <1>1 DEF SetPattern
<1>2. ASSUME NEW c \in Callers, QueueNewFormatter(c) PROVE ControlInv'
  BY <1>2 DEF QueueNewFormatter
<1>3. ASSUME NEW c \in Callers, DeletePrev(c) PROVE ControlInv'
  BY <1>3 DEF DeletePrev
<1>4. CASE SwitchStep
  BY <1>4 DEF SwitchStep, CheckRunning, PollForPendingFormatterSwitch, SwitchFormatter,
              EndRound
<1>5. ASSUME NEW second \in Second, Format(second) PROVE ControlInv'
  BY <1>5 DEF Format
<1>6. CASE StopBackend \/ JoinBackend \/ DestroyHandler
  BY <1>6 DEF StopBackend, JoinBackend, DestroyHandler
<1>7. CASE Terminated \/ UNCHANGED vars
  BY <1>7 DEF Terminated, vars
<1> QED
  BY <1>1, <1>2, <1>3, <1>4, <1>5, <1>6, <1>7 DEF Next

(* A formatter moves from place to place and is deleted by its holder.     *)
LEMMA StepHolder == TypeOK /\ ControlInv /\ HolderInv /\ [Next]_vars => HolderInv'
<1> SUFFICES ASSUME TypeOK, ControlInv, HolderInv, [Next]_vars, NEW a \in Addrs
             PROVE  Apart(a)' /\ (a \in live' <=> Held(a)')
  BY DEF HolderInv
<1>0. Apart(a) /\ (a \in live <=> Held(a)) /\ a # Null
  BY FormatterAssumption DEF HolderInv
<1> USE <1>0 DEF TypeOK, ControlInv, Apart, Held, InUse, heapVars, callerVars
<1>1. ASSUME NEW c \in Callers, NEW s \in TimeSpecs, SetPattern(c, s)
      PROVE  Apart(a)' /\ (a \in live' <=> Held(a)')
  BY <1>1 DEF SetPattern
<1>2. ASSUME NEW c \in Callers, QueueNewFormatter(c)
      PROVE  Apart(a)' /\ (a \in live' <=> Held(a)')
  BY <1>2 DEF QueueNewFormatter
<1>3. ASSUME NEW c \in Callers, DeletePrev(c)
      PROVE  Apart(a)' /\ (a \in live' <=> Held(a)')
  BY <1>3 DEF DeletePrev
<1>4. CASE CheckRunning \/ PollForPendingFormatterSwitch \/ EndRound
  BY <1>4 DEF CheckRunning, PollForPendingFormatterSwitch, EndRound
<1>5. CASE SwitchFormatter
  BY <1>5 DEF SwitchFormatter
<1>6. ASSUME NEW second \in Second, Format(second)
      PROVE  Apart(a)' /\ (a \in live' <=> Held(a)')
  BY <1>6 DEF Format
<1>7. CASE StopBackend \/ JoinBackend
  BY <1>7 DEF StopBackend, JoinBackend
<1>8. CASE DestroyHandler
  BY <1>8, FormatterAssumption DEF DestroyHandler
<1>9. CASE Terminated \/ UNCHANGED vars
  BY <1>9 DEF Terminated, vars
<1> QED
  BY <1>1, <1>2, <1>3, <1>4, <1>5, <1>6, <1>7, <1>8, <1>9 DEF Next, SwitchStep

(* Only process_time_arg() writes the cache, text and second together.     *)
LEMMA StepCache ==
  TypeOK /\ CacheInv /\ ShowsOwnSecond /\ [Next]_vars => CacheInv' /\ ShowsOwnSecond'
<1> SUFFICES ASSUME TypeOK, CacheInv, ShowsOwnSecond, [Next]_vars
             PROVE  CacheInv' /\ ShowsOwnSecond'
  OBVIOUS
<1>1. CASE UNCHANGED cacheVars
  BY <1>1 DEF cacheVars, CacheInv, ShowsOwnSecond
<1>2. ASSUME NEW second \in Second, Format(second) PROVE CacheInv' /\ ShowsOwnSecond'
  <2> DEFINE s == spec[formatter]
  <2>1. s \in TimeSpecs
    BY DEF TypeOK
  <2>2. /\ shown' = {[spec |-> s, second |-> second, text |-> HMS_part'[s]]}
        /\ dated' = IF second = -1 THEN dated ELSE dated \cup {s}
    BY <1>2 DEF Format, ProcessTimeArg, ShowEvent
  <2>3. /\ HMS_part' = [HMS_part EXCEPT ![s] = HMS_part'[s]]
        /\ last_update' = [last_update EXCEPT ![s] = second]
        /\ HMS_part'[s] = IF second # last_update[s] THEN HMS(second) ELSE HMS_part[s]
    BY <1>2, <2>1 DEF Format, ProcessTimeArg, TypeOK
  <2>4. HMS_part'[s] = IF second = -1 /\ s \notin dated' THEN NoText ELSE HMS(second)
    BY <2>1, <2>2, <2>3 DEF CacheInv, NeverUpdated
  <2>5. ShowsOwnSecond'
    BY <2>2, <2>4 DEF ShowsOwnSecond
  <2>6. CacheInv'
    <3> SUFFICES ASSUME NEW t \in TimeSpecs
                 PROVE  /\ t \in dated' => HMS_part'[t] = HMS(last_update'[t])
                        /\ t \notin dated' => /\ HMS_part'[t] = NoText
                                             /\ last_update'[t] = NeverUpdated
      BY DEF CacheInv, HMS
    <3>1. CASE t = s
      <4>1. last_update'[s] = second
        BY <2>1, <2>3 DEF TypeOK
      <4>2. s \notin dated' => second = -1
        BY <2>2
      <4> QED
        BY <3>1, <2>4, <4>1, <4>2 DEF NeverUpdated
    <3>2. CASE t # s
      <4>1. last_update'[t] = last_update[t] /\ HMS_part'[t] = HMS_part[t]
        BY <3>2, <2>3 DEF TypeOK
      <4>2. t \in dated' <=> t \in dated
        BY <3>2, <2>2
      <4> QED
        BY <4>1, <4>2 DEF CacheInv
    <3> QED
      BY <3>1, <3>2
  <2> QED
    BY <2>5, <2>6
<1> QED
  BY <1>1, <1>2
     DEF Next, SetPattern, QueueNewFormatter, DeletePrev, SwitchStep, CheckRunning,
         PollForPendingFormatterSwitch, SwitchFormatter, EndRound, StopBackend, JoinBackend,
         DestroyHandler, Terminated, vars

(* The invariant is inductive.                                             *)
LEMMA Invariance == Spec => []IInv
<1>1. IInv /\ [Next]_vars => IInv'
  BY StepType, StepControl, StepHolder, StepCache DEF IInv
<1> QED
  BY InitInv, <1>1, PTL DEF Spec

-----------------------------------------------------------------------------
(* Every variable has a value of its type; in particular the formatter     *)
(* that the backend calls through is never null.                           *)
THEOREM TypeCorrect == Spec => []TypeOK
  BY Invariance, PTL DEF IInv

(* A formatter that is in one place at most has one holder or none.        *)
LEMMA HolderCount == HolderInv => OneHolder
<1> SUFFICES ASSUME HolderInv, NEW a \in Addrs
             PROVE  Cardinality(Holders(a)) = IF a \in live THEN 1 ELSE 0
  BY DEF OneHolder
<1>1. Apart(a) /\ (a \in live <=> Held(a))
  BY DEF HolderInv
<1>2. ASSUME a \notin live PROVE Holders(a) = {}
  BY <1>1, <1>2 DEF Held, InUse, Holders
<1>3. ASSUME a \in live PROVE \E h : Holders(a) = {h}
  <2> USE <1>1 DEF Apart, InUse, Holders
  <2>1. ASSUME NEW c \in Callers, arg[c] = a PROVE Holders(a) = {<<"arg", c>>}
    BY <2>1
  <2>2. ASSUME NEW c \in Callers, prev[c] = a PROVE Holders(a) = {<<"prev", c>>}
    BY <2>2
  <2>3. ASSUME pending_new_formatter = a PROVE Holders(a) = {<<"pending", Null>>}
    BY <2>3
  <2>4. ASSUME new_formatter = a PROVE Holders(a) = {<<"new", Null>>}
    BY <2>4
  <2>5. ASSUME InUse(a) PROVE Holders(a) = {<<"formatter", Null>>}
    BY <2>5
  <2> QED
    BY <1>3, <2>1, <2>2, <2>3, <2>4, <2>5 DEF Held
<1> QED
  BY <1>2, <1>3, FS_EmptySet, FS_Singleton

(* A formatter made by PAPPER_SET_PATTERN or by the constructor is held in *)
(* one place while it exists and nowhere after: whatever the interleaving  *)
(* of any number of callers with the exchanges of the backend and the      *)
(* destructor, none is deleted twice, used after that, or leaked, also if  *)
(* its address is reused.                                                  *)
THEOREM ExactlyOneHolder == Spec => []OneHolder
  BY Invariance, HolderCount, PTL DEF IInv

(* Every event shows the text of its own second, before 1970 and after,    *)
(* whatever the order of the time stamps and however formatters with the   *)
(* same spec share the cache, except where last_update's first value meets *)
(* an event: second -1 is shown as an empty text until the spec has been   *)
(* used in another second, and correctly from then on.                     *)
THEOREM OwnSecondShown == Spec => []ShowsOwnSecond
  BY Invariance, PTL DEF IInv

-----------------------------------------------------------------------------
(* Every step of the handler is one of the hand-over or changes nothing it *)
(* speaks of.                                                              *)
LEMMA StepSimulation == IInv /\ [Next]_vars => [H!Next]_H!vars
<1> SUFFICES ASSUME IInv, [Next]_vars PROVE [H!Next]_H!vars
  OBVIOUS
<1> USE FormatterAssumption DEF IInv, TypeOK, ControlInv, MaybeAddr, H!vars
<1>1. ASSUME NEW c \in Callers, QueueNewFormatter(c) PROVE H!Next
  <2>1. arg[c] \in Addrs
    BY <1>1 DEF QueueNewFormatter
  <2>2. H!Queue(arg[c])
    BY <1>1 DEF QueueNewFormatter, H!Queue
  <2> QED
    BY <2>1, <2>2 DEF H!Next
<1>2. ASSUME NEW c \in Callers, (\E s \in TimeSpecs : SetPattern(c, s)) \/ DeletePrev(c)
      PROVE  UNCHANGED H!vars
  BY <1>2 DEF SetPattern, DeletePrev
<1>3. CASE CheckRunning
  BY <1>3 DEF CheckRunning, H!Next, H!Stop
<1>4. CASE PollForPendingFormatterSwitch
  BY <1>4 DEF PollForPendingFormatterSwitch, H!Next, H!Take
<1>5. CASE SwitchFormatter \/ EndRound \/ StopBackend \/ JoinBackend
  BY <1>5 DEF SwitchFormatter, EndRound, StopBackend, JoinBackend
<1>6. ASSUME NEW second \in Second, Format(second) PROVE UNCHANGED H!vars
  BY <1>6 DEF Format
<1>7. CASE DestroyHandler
  BY <1>7 DEF DestroyHandler, H!Next, H!Discard
<1>8. CASE Terminated \/ UNCHANGED vars
  BY <1>8 DEF Terminated, vars
<1> QED
  BY <1>1, <1>2, <1>3, <1>4, <1>5, <1>6, <1>7, <1>8 DEF Next, SwitchStep

(* The formatter handler implements the safety part of the hand-over of a  *)
(* setting, the same abstract specification as the sink handler.           *)
THEOREM RefinesHandover == Spec => H!Spec
<1>1. Init => H!Init
  BY DEF Init, H!Init
<1> QED
  BY <1>1, Invariance, StepSimulation, PTL DEF Spec, H!Spec

=============================================================================
