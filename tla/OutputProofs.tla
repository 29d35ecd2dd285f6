---------------------------- MODULE OutputProofs ----------------------------
(***************************************************************************)
(* Proofs about the way of an event through settings, levels and the       *)
(* backend's loop, for any number of threads, settings, levels and events. *)
(***************************************************************************)
EXTENDS Output, TLAPS

(* The setting queued last is the pending one or, if none is pending, the  *)
(* current one; what was served when a slot was polled last has not been   *)
(* replaced by an older setting.                                           *)
SlotInv ==
  /\ pending_new_sink = (IF file = sinks THEN None ELSE sinks) /\ file <= sinks
  /\ pending_new_formatter = (IF formatter = patterns THEN None ELSE patterns)
  /\ formatter <= patterns
  /\ served.sink <= file /\ served.pattern <= formatter

(* No thread knows of a pattern that was not queued, and none was set      *)
(* before a sink.                                                          *)
PatternInv ==
  /\ \A t \in Threads : known[t].pattern <= patterns
  /\ \A k \in Number : before[k] <= patterns

(* Between the two polls the pattern may be older than the one set before  *)
(* the sink.                                                               *)
OrderInv == bpc # "pattern" => before[file] <= formatter

LevelInv == Len(min_log_level) <= MaxLevels + 1

OutInv == PatternBeforeSink /\ JudgedByLevelOfCall /\ LagsOneRound

BaseInv == TypeOK /\ SlotInv /\ PatternInv /\ OrderInv /\ LevelInv /\ OutInv

LevelAt(t, i) == queue[t][i].made.level

(* What release and acquire carry: a thread logs its events with ever      *)
(* later levels, and the backend's view has caught up with every event     *)
(* that its copy of the write position covers.                             *)
ViewInv ==
  \A t \in Threads :
    /\ cached[t] <= Len(queue[t]) /\ known[t].level <= Len(min_log_level)
    /\ \A i \in 1 .. Len(queue[t]) : LevelAt(t, i) <= known[t].level
    /\ \A i, k \in 1 .. Len(queue[t]) : i <= k => LevelAt(t, i) <= LevelAt(t, k)
    /\ \A i \in 1 .. cached[t] : LevelAt(t, i) <= level_seen

(* The inductive invariant.                                                *)
IInv == BaseInv /\ ViewInv

-----------------------------------------------------------------------------
(* Elementary consequences of the assumption on the constants.             *)
LEMMA ConstantFacts ==
  /\ Levels \subseteq Nat /\ 0 \in Levels
  /\ MaxSettings \in Nat /\ MaxLevels \in Nat /\ MaxLogged \in Nat
  /\ Len(Order) \in Nat /\ Len(Order) > 0 /\ DOMAIN Order = 1 .. Len(Order)
  /\ \A i \in DOMAIN Order : Order[i] \in Threads
  BY OutputAssumption DEF Threads

(* The initial state.                                                      *)
LEMMA InitInv == Init => IInv
<1> SUFFICES ASSUME Init PROVE IInv
  OBVIOUS
<1> USE ConstantFacts DEF Init, SinkSlot!Init, PatternSlot!Init
<1>1. TypeOK
  BY DEF TypeOK, Number, Settings, Event, None
<1>2. SlotInv
  BY DEF SlotInv
<1>3. PatternInv /\ OrderInv
  BY DEF PatternInv, OrderInv, Number
<1>4. LevelInv
  BY DEF LevelInv
<1>5. OutInv
  BY DEF OutInv, PatternBeforeSink, JudgedByLevelOfCall, LagsOneRound
<1>6. ViewInv
  BY DEF ViewInv
<1> QED
  BY <1>1, <1>2, <1>3, <1>4, <1>5, <1>6 DEF IInv, BaseInv

(* Numbers of settings can be compared.                                     *)
LEMMA NumberFacts ==
  ASSUME TypeOK
  PROVE  /\ None \notin Nat /\ Number \subseteq Nat
         /\ sinks \in Nat /\ patterns \in Nat /\ file \in Nat /\ formatter \in Nat
         /\ served.sink \in Nat /\ served.pattern \in Nat
         /\ \A t \in Threads : known[t].pattern \in Nat
         /\ \A k \in Number : before[k] \in Nat
<1>1. sinks \in Number /\ patterns \in Number /\ file \in Number /\ formatter \in Number
      /\ served \in [sink : Number, pattern : Number]
      /\ known \in [Threads -> Settings] /\ before \in [Number -> Number]
  BY DEF TypeOK
<1>2. None \notin Nat /\ Number \subseteq Nat
  BY ConstantFacts DEF None, Number
<1> QED
  BY <1>1, <1>2 DEF Settings

-----------------------------------------------------------------------------
(* A new sink replaces the pending one and remembers the pattern known to  *)
(* its setter.                                                             *)
LEMMA SetSinkInv == ASSUME IInv, NEW t \in Threads, SetSink(t) PROVE BaseInv'
<1> USE ConstantFacts DEF IInv, BaseInv
<1>1. sinks \in Nat /\ sinks' = sinks + 1 /\ sinks' \in Number /\ file \in Nat
      /\ file <= sinks
  <2>1. sinks \in Nat /\ file \in Nat
    BY NumberFacts
  <2> QED
    BY <2>1 DEF SetSink, SlotInv, Number
<1>2. known[t] \in Settings /\ known[t].pattern \in Number
      /\ known' = [known EXCEPT ![t] = [@ EXCEPT !.sink = sinks']]
      /\ before' = [before EXCEPT ![sinks'] = known[t].pattern]
  BY DEF SetSink, TypeOK, Settings
<1>3. /\ pending_new_sink' = sinks' /\ file' = file /\ bpc' = bpc /\ out' = {}
      /\ UNCHANGED <<queue, logged, pending_new_formatter, formatter, min_log_level, patterns,
                     running, visit, cached, level_seen, served>>
  BY DEF SetSink, SinkSlot!Queue
<1>4. known' \in [Threads -> Settings] /\ \A u \in Threads : known'[u].pattern = known[u].pattern
  BY <1>1, <1>2 DEF TypeOK, Settings
<1>5. before' \in [Number -> Number] /\ before'[file] = before[file]
      /\ \A k \in Number : before'[k] \in {before[k], known[t].pattern}
  BY <1>1, <1>2 DEF TypeOK
<1>6. TypeOK'
  BY <1>1, <1>3, <1>4, <1>5 DEF TypeOK
<1>7. SlotInv'
  BY <1>1, <1>3 DEF SlotInv
<1>8. PatternInv'
  BY <1>3, <1>4, <1>5 DEF PatternInv
<1>9. OrderInv' /\ LevelInv' /\ OutInv'
  BY <1>3, <1>5 DEF OrderInv, LevelInv, OutInv, PatternBeforeSink, JudgedByLevelOfCall,
                    LagsOneRound
<1> QED
  BY <1>6, <1>7, <1>8, <1>9

(* A new pattern replaces the pending one.                                 *)
LEMMA SetPatternInv == ASSUME IInv, NEW t \in Threads, SetPattern(t) PROVE BaseInv'
<1> USE ConstantFacts DEF IInv, BaseInv
<1>1. patterns \in Nat /\ patterns' = patterns + 1 /\ patterns' \in Number
      /\ formatter \in Nat /\ formatter <= patterns
  <2>1. patterns \in Nat /\ formatter \in Nat
    BY NumberFacts
  <2> QED
    BY <2>1 DEF SetPattern, SlotInv, Number
<1>2. known[t] \in Settings /\ known' = [known EXCEPT ![t] = [@ EXCEPT !.pattern = patterns']]
  BY DEF SetPattern, TypeOK
<1>3. /\ pending_new_formatter' = patterns' /\ formatter' = formatter /\ bpc' = bpc
      /\ out' = {}
      /\ UNCHANGED <<queue, logged, pending_new_sink, file, min_log_level, sinks, before,
                     running, visit, cached, level_seen, served>>
  BY DEF SetPattern, PatternSlot!Queue
<1>4. known' \in [Threads -> Settings]
      /\ \A u \in Threads : known'[u].pattern \in {known[u].pattern, patterns'}
  BY <1>1, <1>2 DEF TypeOK, Settings
<1>5. TypeOK'
  BY <1>1, <1>3, <1>4 DEF TypeOK
<1>6. SlotInv'
  BY <1>1, <1>3 DEF SlotInv
<1>7. PatternInv'
  <2>1. (\A u \in Threads : known[u].pattern \in Nat) /\ (\A k \in Number : before[k] \in Nat)
    BY NumberFacts
  <2> QED
    BY <1>1, <1>3, <1>4, <2>1 DEF PatternInv
<1>8. OrderInv' /\ LevelInv' /\ OutInv'
  BY <1>3 DEF OrderInv, LevelInv, OutInv, PatternBeforeSink, JudgedByLevelOfCall,
              LagsOneRound
<1> QED
  BY <1>5, <1>6, <1>7, <1>8

(* A new level is the last one stored.                                     *)
LEMMA SetLevelInv ==
  ASSUME IInv, NEW t \in Threads, NEW level \in Levels, SetLevel(t, level) PROVE BaseInv'
<1> USE ConstantFacts DEF IInv, BaseInv, SetLevel, current, backendVars
<1>0. known[t] \in Settings /\ min_log_level \in Seq(Levels)
  BY DEF TypeOK
<1>1. min_log_level' \in Seq(Levels) /\ Len(min_log_level') = Len(min_log_level) + 1
      /\ Len(min_log_level') \in 1 .. MaxLevels + 1 /\ level_seen' \in DOMAIN min_log_level'
  BY <1>0 DEF TypeOK
<1>2. TypeOK'
  BY <1>0, <1>1 DEF TypeOK, Settings
<1>3. SlotInv' /\ PatternInv' /\ OrderInv'
  BY <1>0 DEF SlotInv, PatternInv, OrderInv, TypeOK, Settings
<1>4. LevelInv' /\ OutInv'
  BY <1>1 DEF LevelInv, OutInv, PatternBeforeSink, JudgedByLevelOfCall, LagsOneRound
<1> QED
  BY <1>2, <1>3, <1>4

(* An event carries what its thread had set.                               *)
LEMMA LogInv ==
  ASSUME IInv, NEW t \in Threads, NEW level \in Levels, Log(t, level) PROVE BaseInv'
<1> USE ConstantFacts DEF IInv, BaseInv, Log, settings, current, backendVars
<1>1. TypeOK'
  <2>1. [level |-> level, made |-> known[t]] \in Event
    BY DEF TypeOK, Event
  <2>2. queue' \in [Threads -> Seq(Event)]
    BY <2>1 DEF TypeOK
  <2> QED
    BY <2>2 DEF TypeOK
<1>2. SlotInv' /\ PatternInv' /\ OrderInv'
  BY DEF SlotInv, PatternInv, OrderInv
<1>3. LevelInv' /\ OutInv'
  BY DEF LevelInv, OutInv, PatternBeforeSink, JudgedByLevelOfCall, LagsOneRound
<1> QED
  BY <1>1, <1>2, <1>3

(* The steps that read no event and touch no setting.                      *)
LEMMA QuietInv ==
  ASSUME IInv, StopBackend \/ CheckRunning \/ SkipQueue \/ Drained PROVE BaseInv'
<1> USE DEF IInv, BaseInv
<1>1. UNCHANGED <<queue, logged, settings, current, cached, level_seen, served>>
      /\ out' = {}
  BY DEF StopBackend, CheckRunning, SkipQueue, Drained, backendVars
<1>2. bpc = "pattern" => bpc' = "pattern"
  BY DEF StopBackend, CheckRunning, SkipQueue, Drained, NextVisit, Then, backendVars
<1>3. TypeOK'
  <2>1. running' \in BOOLEAN
    BY DEF StopBackend, CheckRunning, SkipQueue, Drained, TypeOK
  <2>2. bpc' \in {"loop", "sink", "pattern", "poll", "drain", "stopped"}
    BY DEF StopBackend, CheckRunning, SkipQueue, Drained, NextVisit, Then, backendVars, TypeOK
  <2>3. visit' \in DOMAIN Order
    <3>1. visit \in 1 .. Len(Order)
      BY ConstantFacts DEF TypeOK
    <3>2. visit' \in {visit, 1} \/ (visit < Len(Order) /\ visit' = visit + 1)
      BY DEF StopBackend, CheckRunning, SkipQueue, Drained, NextVisit, backendVars
    <3> QED
      BY <3>1, <3>2, ConstantFacts
  <2> QED
    BY <1>1, <2>1, <2>2, <2>3 DEF TypeOK, settings, current
<1>4. SlotInv' /\ PatternInv' /\ OrderInv'
  BY <1>1, <1>2 DEF SlotInv, PatternInv, OrderInv, settings, current
<1>5. LevelInv'
  BY <1>1 DEF LevelInv, settings
<1>6. OutInv'
  BY <1>1 DEF OutInv, PatternBeforeSink, JudgedByLevelOfCall, LagsOneRound
<1> QED
  BY <1>3, <1>4, <1>5, <1>6

(* After the poll the current sink is the one queued last.                 *)
LEMMA PollForPendingSinkSwitchInv == ASSUME IInv, PollForPendingSinkSwitch PROVE BaseInv'
<1> USE ConstantFacts
        DEF IInv, BaseInv, PollForPendingSinkSwitch, TakeSink, SinkSlot!Take, Then
<1>0. file' = sinks /\ pending_new_sink' = None /\ bpc' = "pattern"
  BY NumberFacts DEF SlotInv
<1>1. TypeOK'
  BY <1>0 DEF TypeOK, Number
<1>2. SlotInv'
  BY <1>0 DEF SlotInv, TypeOK, Number
<1>3. PatternInv' /\ OrderInv'
  BY <1>0 DEF PatternInv, OrderInv
<1>4. LevelInv' /\ OutInv'
  BY DEF LevelInv, OutInv, PatternBeforeSink, JudgedByLevelOfCall, LagsOneRound
<1> QED
  BY <1>1, <1>2, <1>3, <1>4

(* After the poll the current pattern is the one queued last, hence not    *)
(* older than the one set before the sink just taken.                      *)
LEMMA PollForPendingFormatterSwitchInv ==
  ASSUME IInv, PollForPendingFormatterSwitch PROVE BaseInv'
<1> USE ConstantFacts DEF IInv, BaseInv, PollForPendingFormatterSwitch, PatternSlot!Take, Then
<1>0. formatter' = patterns /\ pending_new_formatter' = None /\ bpc' = "poll"
  BY NumberFacts DEF SlotInv
<1>1. TypeOK'
  BY <1>0 DEF TypeOK, Number
<1>2. SlotInv'
  BY <1>0 DEF SlotInv, TypeOK, Number
<1>3. PatternInv' /\ OrderInv'
  BY <1>0 DEF PatternInv, OrderInv, TypeOK
<1>4. LevelInv' /\ OutInv'
  BY DEF LevelInv, OutInv, PatternBeforeSink, JudgedByLevelOfCall, LagsOneRound
<1> QED
  BY <1>1, <1>2, <1>3, <1>4

(* Levels of events and views can be compared.                             *)
LEMMA ViewFacts ==
  ASSUME TypeOK
  PROVE  /\ level_seen \in Nat \ {0} /\ Len(min_log_level) \in Nat
         /\ \A t \in Threads :
              /\ queue[t] \in Seq(Event) /\ Len(queue[t]) \in Nat /\ cached[t] \in Nat
              /\ known[t].level \in Nat \ {0}
              /\ \A i \in 1 .. Len(queue[t]) : LevelAt(t, i) \in Nat \ {0}
<1>1. level_seen \in Nat \ {0} /\ Len(min_log_level) \in Nat
  BY DEF TypeOK
<1> SUFFICES ASSUME NEW t \in Threads
             PROVE  /\ queue[t] \in Seq(Event) /\ Len(queue[t]) \in Nat /\ cached[t] \in Nat
                    /\ known[t].level \in Nat \ {0}
                    /\ \A i \in 1 .. Len(queue[t]) : LevelAt(t, i) \in Nat \ {0}
  BY <1>1
<1>2. queue[t] \in Seq(Event) /\ Len(queue[t]) \in Nat /\ cached[t] \in Nat
  BY DEF TypeOK
<1>3. known[t].level \in Nat \ {0}
  BY ConstantFacts DEF TypeOK, Settings
<1>4. ASSUME NEW i \in 1 .. Len(queue[t]) PROVE LevelAt(t, i) \in Nat \ {0}
  <2>1. queue[t][i] \in Event
    BY <1>2
  <2> QED
    BY <2>1, ConstantFacts DEF LevelAt, Event, Settings
<1> QED
  BY <1>2, <1>3, <1>4

(* The backend's view has caught up with the event it reads: by the load   *)
(* of the write position now, or by the one that made the copy.            *)
LEMMA HeadAcquired ==
  ASSUME IInv, NEW t \in Threads, queue[t] # <<>>,
         NEW n \in (IF cached[t] = 0 THEN 1 .. Len(queue[t]) ELSE {cached[t]})
  PROVE  /\ n \in 1 .. Len(queue[t]) /\ Head(queue[t]).made.level \in Nat \ {0}
         /\ Acquired(t, n) \in Int /\ Head(queue[t]).made.level <= Acquired(t, n)
         /\ level_seen <= Acquired(t, n)
         /\ \A i \in 1 .. n : LevelAt(t, i) <= Acquired(t, n)
<1> TypeOK /\ ViewInv
  BY DEF IInv, BaseInv
<1>1. Len(queue[t]) \in Nat \ {0} /\ Head(queue[t]).made.level = LevelAt(t, 1)
  BY ViewFacts DEF LevelAt
<1>2. n \in 1 .. Len(queue[t])
  BY <1>1, ViewFacts DEF ViewInv
<1>3. Acquired(t, n) = IF cached[t] = 0 /\ LevelAt(t, n) > level_seen
                       THEN LevelAt(t, n) ELSE level_seen
  BY DEF Acquired, LevelAt
<1>4. LevelAt(t, n) \in Nat /\ level_seen \in Nat
  BY <1>2, ViewFacts
<1>5. Acquired(t, n) \in Int /\ level_seen <= Acquired(t, n)
      /\ (cached[t] = 0 => LevelAt(t, n) <= Acquired(t, n))
  BY ONLY <1>3, <1>4
<1>6. ASSUME NEW i \in 1 .. n PROVE LevelAt(t, i) <= Acquired(t, n)
  <2>1. i \in 1 .. Len(queue[t]) /\ i <= n
    BY <1>1, <1>2
  <2>2. LevelAt(t, i) \in Nat
    BY <2>1, ViewFacts
  <2>3. CASE cached[t] = 0
    <3>1. LevelAt(t, i) <= LevelAt(t, n)
      BY <1>2, <2>1 DEF ViewInv
    <3> QED
      BY ONLY <1>4, <1>5, <2>2, <2>3, <3>1
  <2>4. CASE cached[t] # 0
    <3>1. LevelAt(t, i) <= level_seen
      BY <2>4 DEF ViewInv
    <3> QED
      BY ONLY <1>4, <1>5, <2>2, <3>1
  <2> QED
    BY <2>3, <2>4
<1> QED
  BY <1>1, <1>2, <1>5, <1>6, ViewFacts

(* The event at the head of the queue meets the settings of the moment.    *)
LEMMA ProcessEventInv == ASSUME IInv, ProcessEvent PROVE BaseInv'
<1> DEFINE t == Order[visit]
           event == Head(queue[t])
<1> USE ConstantFacts DEF IInv, BaseInv
<1>1. t \in Threads /\ queue[t] \in Seq(Event) /\ queue[t] # <<>>
  BY DEF TypeOK, ProcessEvent
<1>2. event \in Event /\ Tail(queue[t]) \in Seq(Event)
  BY <1>1
<1>3. PICK n \in (IF cached[t] = 0 THEN 1 .. Len(queue[t]) ELSE {cached[t]}) :
        /\ cached' = [cached EXCEPT ![t] = n - 1]
        /\ \E j \in Acquired(t, n) .. Len(min_log_level) :
             /\ level_seen' = j
             /\ out' = {[written |-> event.level >= min_log_level[j], level |-> event.level,
                         made |-> event.made, sink |-> file, pattern |-> formatter]}
  BY DEF ProcessEvent
<1>a. PICK j \in Acquired(t, n) .. Len(min_log_level) :
        /\ level_seen' = j
        /\ out' = {[written |-> event.level >= min_log_level[j], level |-> event.level,
                    made |-> event.made, sink |-> file, pattern |-> formatter]}
  BY <1>3
<1>b. n \in 1 .. Len(queue[t]) /\ event.made.level \in Nat \ {0}
      /\ Acquired(t, n) \in Int /\ event.made.level <= Acquired(t, n)
  BY <1>1, <1>2, <1>3, HeadAcquired
<1>4. j \in DOMAIN min_log_level /\ j \in event.made.level .. Len(min_log_level)
  BY <1>b DEF TypeOK
<1>5. queue' = [queue EXCEPT ![t] = Tail(@)] /\ NextVisit /\ bpc \in {"poll", "drain"}
      /\ UNCHANGED <<logged, settings, current, running, served>>
  BY DEF ProcessEvent
<1> HIDE DEF t, event
<1>6. TypeOK'
  <2>0. cached' \in [Threads -> Nat]
    BY <1>1, <1>3, <1>b DEF TypeOK
  <2>1. queue' \in [Threads -> Seq(Event)]
    BY <1>1, <1>2, <1>5 DEF TypeOK
  <2>2. visit' \in DOMAIN Order /\ bpc' \in {"poll", "drain", "loop"}
    BY <1>5 DEF TypeOK, NextVisit
  <2>3. (event.level >= min_log_level[j]) \in BOOLEAN
    OBVIOUS
  <2>4. out' \subseteq [written : BOOLEAN, level : Levels, made : Settings, sink : Number,
                        pattern : Number]
    BY <1>2, <1>a, <2>3 DEF TypeOK, Event
  <2> QED
    BY <1>a, <1>4, <1>5, <2>0, <2>1, <2>2, <2>4 DEF TypeOK, settings, current
<1>7. SlotInv' /\ PatternInv'
  BY <1>5 DEF SlotInv, PatternInv, settings, current
<1>8. OrderInv'
  BY <1>5 DEF OrderInv, NextVisit, settings, current
<1>9. LevelInv'
  BY <1>5 DEF LevelInv, settings
<1>10. PatternBeforeSink'
  BY <1>a, <1>5 DEF PatternBeforeSink, OrderInv, settings, TypeOK
<1>11. JudgedByLevelOfCall'
  <2>1. min_log_level' = min_log_level
    BY <1>5 DEF settings
  <2>2. \A e \in out' : e.made = event.made
    BY <1>a
  <2>3. \A e \in out' : e.level = event.level /\ e.written = (event.level >= min_log_level[j])
    BY <1>a
  <2>4. \A e \in out' : e.written <=> e.level >= min_log_level[j]
    BY ONLY <2>3, Zenon
  <2> QED
    BY <1>4, <2>1, <2>2, <2>4 DEF JudgedByLevelOfCall
<1>12. LagsOneRound'
  <2>1. event.made.sink \in Nat /\ event.made.pattern \in Nat
    BY <1>2, NumberFacts DEF Event, Settings
  <2>2. served' = served /\ served.sink <= file /\ served.pattern <= formatter
    BY <1>5 DEF SlotInv
  <2>3. file \in Nat /\ formatter \in Nat /\ served.sink \in Nat /\ served.pattern \in Nat
    BY NumberFacts
  <2>4. \A e \in out' : e.made = event.made /\ e.sink = file /\ e.pattern = formatter
    BY <1>a
  <2> QED
    BY ONLY <2>1, <2>2, <2>3, <2>4 DEF LagsOneRound
<1> QED
  BY <1>6, <1>7, <1>8, <1>9, <1>10, <1>11, <1>12 DEF OutInv

(* What a view consists of, for steps that leave most of it alone.         *)
LEMMA ViewKept ==
  ASSUME TypeOK, ViewInv, UNCHANGED <<queue, cached, level_seen, min_log_level>>,
         \A t \in Threads : known'[t].level = known[t].level
  PROVE  ViewInv'
  BY DEF ViewInv, LevelAt

(* A thread that stores a level knows the last one from then on.           *)
LEMMA SetLevelView ==
  ASSUME IInv, NEW t \in Threads, NEW level \in Levels, SetLevel(t, level) PROVE ViewInv'
<1> TypeOK /\ ViewInv
  BY DEF IInv, BaseInv
<1>1. UNCHANGED <<queue, cached, level_seen>>
  BY DEF SetLevel, backendVars
<1>2. Len(min_log_level') = Len(min_log_level) + 1 /\ Len(min_log_level) \in Nat
  BY DEF SetLevel, TypeOK
<1>3. \A u \in Threads : known'[u].level = IF u = t THEN Len(min_log_level') ELSE known[u].level
  <2>1. known[t] \in Settings
    BY DEF TypeOK
  <2> QED
    BY <2>1 DEF SetLevel, TypeOK, Settings
<1>4. \A u \in Threads : /\ known[u].level <= known'[u].level
                         /\ known'[u].level <= Len(min_log_level')
                         /\ known'[u].level \in Nat
  <2>1. \A u \in Threads : known[u].level \in Nat /\ known[u].level <= Len(min_log_level)
    BY ViewFacts DEF ViewInv
  <2> QED
    BY ONLY <1>2, <1>3, <2>1
<1>5. \A u \in Threads : \A i \in 1 .. Len(queue[u]) : LevelAt(u, i) <= known'[u].level
  <2> TAKE u \in Threads
  <2> TAKE i \in 1 .. Len(queue[u])
  <2>1. LevelAt(u, i) \in Nat /\ known[u].level \in Nat /\ LevelAt(u, i) <= known[u].level
    BY ViewFacts DEF ViewInv
  <2>2. known[u].level <= known'[u].level /\ known'[u].level \in Nat
    BY <1>4
  <2> QED
    BY ONLY <2>1, <2>2
<1> QED
  BY <1>1, <1>4, <1>5 DEF ViewInv, LevelAt

(* A new event carries the last level its thread has stored.               *)
LEMMA LogView ==
  ASSUME IInv, NEW t \in Threads, NEW level \in Levels, Log(t, level) PROVE ViewInv'
<1> TypeOK /\ ViewInv
  BY DEF IInv, BaseInv
<1>0. PICK len \in Nat : len = Len(queue[t])
  BY ViewFacts
<1>1. UNCHANGED <<cached, level_seen, min_log_level, known>>
  BY DEF Log, backendVars, settings
<1>2. /\ queue' = [queue EXCEPT ![t] = Append(@, [level |-> level, made |-> known[t]])]
      /\ queue \in [Threads -> Seq(Event)] /\ len \in Nat /\ cached[t] \in Nat
  BY ViewFacts DEF Log, TypeOK
<1>3. [level |-> level, made |-> known[t]] \in Event
  BY DEF TypeOK, Event
<1>4. \A u \in Threads : u # t => queue'[u] = queue[u]
  BY <1>2
<1>5. /\ Len(queue'[t]) = len + 1
      /\ \A i \in 1 .. len : queue'[t][i] = queue[t][i]
      /\ queue'[t][len + 1].made = known[t]
  BY <1>0, <1>2, <1>3
<1>6. ASSUME NEW u \in Threads, u # t
      PROVE  /\ cached'[u] <= Len(queue'[u]) /\ known'[u].level <= Len(min_log_level')
             /\ \A i \in 1 .. Len(queue'[u]) : LevelAt(u, i)' <= known'[u].level
             /\ \A i, k \in 1 .. Len(queue'[u]) : i <= k => LevelAt(u, i)' <= LevelAt(u, k)'
             /\ \A i \in 1 .. cached'[u] : LevelAt(u, i)' <= level_seen'
  BY <1>1, <1>4, <1>6 DEF ViewInv, LevelAt
<1>7. /\ \A i \in 1 .. len : LevelAt(t, i)' = LevelAt(t, i)
      /\ LevelAt(t, len + 1)' = known[t].level
  BY <1>5 DEF LevelAt
<1>8. /\ cached[t] <= len /\ known[t].level \in Nat
      /\ \A i \in 1 .. len : LevelAt(t, i) <= known[t].level /\ LevelAt(t, i) \in Nat
      /\ \A i, k \in 1 .. len : i <= k => LevelAt(t, i) <= LevelAt(t, k)
      /\ \A i \in 1 .. cached[t] : LevelAt(t, i) <= level_seen
      /\ known[t].level <= Len(min_log_level)
  BY <1>0, ViewFacts DEF ViewInv
<1>9. /\ cached'[t] <= Len(queue'[t]) /\ known'[t].level <= Len(min_log_level')
      /\ \A i \in 1 .. Len(queue'[t]) : LevelAt(t, i)' <= known'[t].level
      /\ \A i, k \in 1 .. Len(queue'[t]) : i <= k => LevelAt(t, i)' <= LevelAt(t, k)'
      /\ \A i \in 1 .. cached'[t] : LevelAt(t, i)' <= level_seen'
  <2>1. \A i \in 1 .. len + 1 : i \in 1 .. len \/ i = len + 1
    BY <1>2
  <2>2. \A i \in 1 .. cached[t] : i \in 1 .. len
    BY ONLY <1>2, <1>8
  <2> QED
    BY ONLY <1>1, <1>2, <1>5, <1>7, <1>8, <2>1, <2>2
<1> QED
  BY <1>6, <1>9 DEF ViewInv

(* Reading an event moves the others up by one place.                      *)
LEMMA ProcessEventView == ASSUME IInv, ProcessEvent PROVE ViewInv'
<1> TypeOK /\ ViewInv
  BY DEF IInv, BaseInv
<1>0. PICK t \in Threads : t = Order[visit]
  BY ConstantFacts DEF TypeOK
<1>a. PICK len \in Nat : len = Len(queue[t])
  BY ViewFacts
<1>1. t \in Threads /\ queue[t] \in Seq(Event) /\ queue[t] # <<>>
  BY <1>0 DEF TypeOK, ProcessEvent
<1>2. PICK n \in (IF cached[t] = 0 THEN 1 .. Len(queue[t]) ELSE {cached[t]}) :
        /\ cached' = [cached EXCEPT ![t] = n - 1]
        /\ \E j \in Acquired(t, n) .. Len(min_log_level) : level_seen' = j
  BY <1>0 DEF ProcessEvent
<1>3. queue' = [queue EXCEPT ![t] = Tail(@)] /\ UNCHANGED <<known, min_log_level>>
  BY <1>0 DEF ProcessEvent, settings
<1>4. /\ n \in 1 .. len /\ Acquired(t, n) \in Int /\ level_seen <= Acquired(t, n)
      /\ \A i \in 1 .. n : LevelAt(t, i) <= Acquired(t, n)
  BY <1>1, <1>2, <1>a, HeadAcquired
<1>5. level_seen' \in Int /\ Acquired(t, n) <= level_seen' /\ level_seen \in Int
      /\ level_seen <= level_seen'
  <2>1. Len(min_log_level) \in Nat /\ level_seen \in Nat
    BY ViewFacts
  <2> QED
    BY <1>2, <1>4, <2>1
<1>6. ASSUME NEW u \in Threads, u # t
      PROVE  /\ cached'[u] <= Len(queue'[u]) /\ known'[u].level <= Len(min_log_level')
             /\ \A i \in 1 .. Len(queue'[u]) : LevelAt(u, i)' <= known'[u].level
             /\ \A i, k \in 1 .. Len(queue'[u]) : i <= k => LevelAt(u, i)' <= LevelAt(u, k)'
             /\ \A i \in 1 .. cached'[u] : LevelAt(u, i)' <= level_seen'
  <2>1. queue'[u] = queue[u] /\ cached'[u] = cached[u] /\ \A i : LevelAt(u, i)' = LevelAt(u, i)
    BY <1>2, <1>3, <1>6 DEF TypeOK, LevelAt
  <2>2. \A i \in 1 .. cached[u] : LevelAt(u, i) \in Int /\ LevelAt(u, i) <= level_seen
    <3>1. cached[u] <= Len(queue[u]) /\ cached[u] \in Nat /\ Len(queue[u]) \in Nat
      BY ViewFacts DEF ViewInv
    <3>2. \A i \in 1 .. cached[u] : i \in 1 .. Len(queue[u])
      BY ONLY <3>1
    <3> QED
      BY <3>2, ViewFacts DEF ViewInv
  <2>3. \A i \in 1 .. cached[u] : LevelAt(u, i) <= level_seen'
    BY ONLY <1>5, <2>2
  <2> QED
    BY <1>3, <2>1, <2>3 DEF ViewInv
<1>7. /\ len \in Nat /\ Len(queue'[t]) = len - 1 /\ cached'[t] = n - 1
      /\ \A i \in 1 .. len - 1 : queue'[t][i] = queue[t][i + 1]
  <2>1. len \in Nat /\ queue'[t] = Tail(queue[t]) /\ cached'[t] = n - 1
    BY <1>1, <1>2, <1>3 DEF TypeOK
  <2>2. Len(Tail(queue[t])) = len - 1
        /\ \A i \in 1 .. len - 1 : Tail(queue[t])[i] = queue[t][i + 1]
    BY <1>1, <1>a
  <2> QED
    BY <2>1, <2>2
<1>8. \A i \in 1 .. len - 1 : LevelAt(t, i)' = LevelAt(t, i + 1)
  BY <1>7 DEF LevelAt
<1>9. /\ \A i \in 1 .. len : LevelAt(t, i) <= known[t].level
      /\ \A i, k \in 1 .. len : i <= k => LevelAt(t, i) <= LevelAt(t, k)
      /\ \A i \in 1 .. len : LevelAt(t, i) \in Int
      /\ known[t].level <= Len(min_log_level)
  BY <1>1, <1>a, ViewFacts DEF ViewInv
<1>10. \A i \in 1 .. n : LevelAt(t, i) <= level_seen'
  <2>1. \A i \in 1 .. n : i \in 1 .. len
    BY <1>4, <1>7
  <2> QED
    BY ONLY <1>4, <1>5, <1>9, <2>1
<1>11. /\ cached'[t] <= Len(queue'[t]) /\ known'[t].level <= Len(min_log_level')
       /\ \A i \in 1 .. Len(queue'[t]) : LevelAt(t, i)' <= known'[t].level
       /\ \A i, k \in 1 .. Len(queue'[t]) : i <= k => LevelAt(t, i)' <= LevelAt(t, k)'
       /\ \A i \in 1 .. cached'[t] : LevelAt(t, i)' <= level_seen'
  <2>1. n - 1 <= len - 1 /\ (\A i \in 1 .. n - 1 : i + 1 \in 1 .. n /\ i \in 1 .. len - 1)
    BY ONLY <1>4, <1>7
  <2>2. \A i \in 1 .. len - 1 : i + 1 \in 1 .. len
    BY ONLY <1>7
  <2>3. \A i \in 1 .. Len(queue'[t]) : LevelAt(t, i)' <= known'[t].level
    BY ONLY <1>3, <1>7, <1>8, <1>9, <2>2
  <2>4. \A i, k \in 1 .. Len(queue'[t]) : i <= k => LevelAt(t, i)' <= LevelAt(t, k)'
    BY ONLY <1>7, <1>8, <1>9, <2>2
  <2>5. \A i \in 1 .. cached'[t] : LevelAt(t, i)' <= level_seen'
    BY ONLY <1>7, <1>8, <1>10, <2>1
  <2> QED
    BY ONLY <1>3, <1>7, <1>9, <2>1, <2>3, <2>4, <2>5
<1> QED
  BY <1>6, <1>11 DEF ViewInv

(* Views and publications in every step.                                   *)
LEMMA StepView == ASSUME IInv, [Next]_vars PROVE ViewInv'
<1> TypeOK /\ ViewInv
  BY DEF IInv, BaseInv
<1>1. ASSUME NEW t \in Threads, SetSink(t) \/ SetPattern(t) PROVE ViewInv'
  <2>1. known[t] \in Settings /\ known \in [Threads -> Settings]
    BY DEF TypeOK
  <2>2. \A u \in Threads : known'[u].level = known[u].level
    BY <1>1, <2>1 DEF SetSink, SetPattern, Settings
  <2> QED
    BY <1>1, <2>2, ViewKept DEF SetSink, SetPattern
<1>2. CASE StopBackend \/ CheckRunning \/ SkipQueue \/ Drained \/ PollForPendingSinkSwitch
           \/ PollForPendingFormatterSwitch \/ Terminated \/ UNCHANGED vars
  <2>1. UNCHANGED <<queue, cached, level_seen, min_log_level, known>>
    BY <1>2 DEF StopBackend, CheckRunning, SkipQueue, Drained, PollForPendingSinkSwitch,
                PollForPendingFormatterSwitch, Terminated, vars, settings, backendVars
  <2> QED
    BY <2>1, ViewKept
<1> QED
  BY <1>1, <1>2, SetLevelView, LogView, ProcessEventView DEF Next

(* The invariant is inductive.                                             *)
LEMMA Invariance == Spec => []IInv
<1>1. ASSUME IInv, UNCHANGED vars PROVE BaseInv'
  BY <1>1 DEF IInv, BaseInv, TypeOK, SlotInv, PatternInv, OrderInv, LevelInv, OutInv,
              PatternBeforeSink, JudgedByLevelOfCall, LagsOneRound, vars, settings, current,
              backendVars
<1>2. IInv /\ [Next]_vars => IInv'
  BY <1>1, SetSinkInv, SetPatternInv, SetLevelInv, LogInv, QuietInv,
     PollForPendingSinkSwitchInv, PollForPendingFormatterSwitchInv, ProcessEventInv, StepView
     DEF Next, Terminated, IInv
<1> QED
  BY InitInv, <1>2, PTL DEF Spec

-----------------------------------------------------------------------------
(* Every variable has a value of its type; in particular the current sink  *)
(* and formatter are never null, and a level that was loaded was stored.   *)
THEOREM TypeCorrect == Spec => []TypeOK
  BY Invariance, PTL DEF IInv, BaseInv

(* A line is formatted with the pattern that the caller of set_sink() had  *)
(* set before its sink, or with a newer one: the loop polls sinks first.   *)
THEOREM PatternNotOlderThanSink == Spec => []PatternBeforeSink
  BY Invariance, PTL DEF IInv, BaseInv, OutInv

(* An event is judged by no minimum level older than the one its thread    *)
(* set before it was logged, although the load may return an old value:    *)
(* the acquire load of the write position that first covered the event has *)
(* brought the backend's view up to the level its thread had stored.       *)
THEOREM LevelNotOlderThanCall == Spec => []JudgedByLevelOfCall
  BY Invariance, PTL DEF IInv, BaseInv, OutInv

(* An event meets an older sink or pattern than its thread had set only if *)
(* the backend has not polled the slot since.                              *)
THEOREM AtMostOneRoundLate == Spec => []LagsOneRound
  BY Invariance, PTL DEF IInv, BaseInv, OutInv

-----------------------------------------------------------------------------
(* Every step of the composition is one of each hand-over, or none.        *)
LEMMA StepSimulation ==
  ASSUME TypeOK, [Next]_vars
  PROVE  [SinkSlot!Next]_SinkSlot!vars /\ [PatternSlot!Next]_PatternSlot!vars
<1> USE DEF SinkSlot!vars, PatternSlot!vars, Serving
<1>1. ASSUME NEW t \in Threads, SetSink(t)
      PROVE  SinkSlot!Next /\ UNCHANGED PatternSlot!vars
  <2>1. sinks' \in 0 .. MaxSettings
    <3>1. sinks \in Nat
      BY NumberFacts
    <3> QED
      BY <1>1, <3>1, ConstantFacts DEF SetSink
  <2>2. SinkSlot!Queue(sinks') /\ UNCHANGED PatternSlot!vars
    BY <1>1 DEF SetSink
  <2> QED
    BY <2>1, <2>2 DEF SinkSlot!Next
<1>2. ASSUME NEW t \in Threads, SetPattern(t)
      PROVE  PatternSlot!Next /\ UNCHANGED SinkSlot!vars
  <2>1. patterns' \in 0 .. MaxSettings
    <3>1. patterns \in Nat
      BY NumberFacts
    <3> QED
      BY <1>2, <3>1, ConstantFacts DEF SetPattern
  <2>2. PatternSlot!Queue(patterns') /\ UNCHANGED SinkSlot!vars
    BY <1>2 DEF SetPattern
  <2> QED
    BY <2>1, <2>2 DEF PatternSlot!Next
<1>3. CASE CheckRunning
  BY <1>3 DEF CheckRunning, Then, settings, current, SinkSlot!Next, SinkSlot!Stop,
              PatternSlot!Next, PatternSlot!Stop
<1>4. CASE PollForPendingSinkSwitch
  BY <1>4 DEF PollForPendingSinkSwitch, Then, TakeSink, SinkSlot!Next, SinkSlot!Take
<1>5. CASE PollForPendingFormatterSwitch
  BY <1>5 DEF PollForPendingFormatterSwitch, Then, PatternSlot!Next, PatternSlot!Take
<1>6. CASE (\E t \in Threads, level \in Levels : SetLevel(t, level) \/ Log(t, level))
           \/ StopBackend \/ ProcessEvent \/ SkipQueue \/ Drained
  BY <1>6 DEF SetLevel, Log, StopBackend, ProcessEvent, SkipQueue, Drained, NextVisit,
              settings, current, backendVars
<1>7. CASE Terminated \/ UNCHANGED vars
  BY <1>7 DEF Terminated, vars, settings, current, backendVars
<1> QED
  BY <1>1, <1>2, <1>3, <1>4, <1>5, <1>6, <1>7 DEF Next

(* In the loop of the backend both slots follow the hand-over that the     *)
(* handlers implement: together with RefinesHandover of SinkProofs and of  *)
(* FormatterProofs, the composition uses them within their contract.       *)
THEOREM SlotsFollowHandover == Spec => SinkSlot!Spec /\ PatternSlot!Spec
<1>1. Init => SinkSlot!Init /\ PatternSlot!Init
  BY DEF Init
<1>2. TypeOK /\ [Next]_vars => [SinkSlot!Next]_SinkSlot!vars
  BY StepSimulation
<1>3. TypeOK /\ [Next]_vars => [PatternSlot!Next]_PatternSlot!vars
  BY StepSimulation
<1> QED
  BY <1>1, <1>2, <1>3, TypeCorrect, PTL DEF Spec, SinkSlot!Spec, PatternSlot!Spec

=============================================================================
