----------------------------- MODULE SinkProofs -----------------------------
(***************************************************************************)
(* Proofs about SinkHandler, for every set of callers and of files.        *)
(***************************************************************************)
EXTENDS Sink, FiniteSetTheorems, TLAPS

(* The program points tell which local variables hold a file.              *)
ControlInv ==
  /\ \A c \in Callers : (cpc[c] = "queue" <=> arg[c] # NoFile)
                        /\ (cpc[c] = "close" <=> prev[c] # NoFile)
  /\ bpc = "switch" <=> new_sink # NoFile
  /\ bpc \in {"destructor", "destroyed"} => \A c \in Callers : cpc[c] = "idle"
  /\ bpc = "destroyed" => pending_new_sink = NoFile

HeldAsFile(f) == file = f /\ bpc # "destroyed"

(* No two places hold the same file.                                       *)
Apart(f) ==
  /\ \A c, d \in Callers :
       /\ arg[c] = f /\ arg[d] = f => c = d
       /\ prev[c] = f /\ prev[d] = f => c = d
       /\ ~(arg[c] = f /\ prev[d] = f)
  /\ \A c \in Callers :
       arg[c] = f \/ prev[c] = f => pending_new_sink # f /\ new_sink # f /\ ~HeldAsFile(f)
  /\ pending_new_sink = f => new_sink # f /\ ~HeldAsFile(f)
  /\ new_sink = f => ~HeldAsFile(f)

Held(f) ==
  \/ \E c \in Callers : arg[c] = f \/ prev[c] = f
  \/ pending_new_sink = f \/ new_sink = f \/ HeldAsFile(f)

HolderInv == \A f \in Files \ (Std \cup again) : Apart(f) /\ (f \in open <=> Held(f))

(* The sink queued last is in the slot, on its way, or the current one.    *)
LastInv ==
  bpc # "destroyed" =>
    last = IF pending_new_sink # NoFile THEN pending_new_sink
           ELSE IF bpc = "switch" THEN new_sink ELSE file

(* The inductive invariant.                                                *)
IInv == TypeOK /\ ControlInv /\ HolderInv /\ LastInv

-----------------------------------------------------------------------------
(* The initial state.                                                      *)
LEMMA InitInv == Init => IInv
<1> SUFFICES ASSUME Init PROVE IInv
  OBVIOUS
<1> USE SinkAssumption DEF Init
<1>1. TypeOK
  BY DEF TypeOK, MaybeFile
<1>2. ControlInv
  BY DEF ControlInv
<1>3. HolderInv
  BY DEF HolderInv, Apart, Held, HeldAsFile
<1>4. LastInv
  BY DEF LastInv
<1> QED
  BY <1>1, <1>2, <1>3, <1>4 DEF IInv

(* What every step preserves, one part of the invariant at a time.         *)
LEMMA StepType == TypeOK /\ ControlInv /\ [Next]_vars => TypeOK'
<1> SUFFICES ASSUME TypeOK, ControlInv, [Next]_vars PROVE TypeOK'
  OBVIOUS
<1> USE SinkAssumption DEF TypeOK, MaybeFile
<1>1. ASSUME NEW c \in Callers, SetSink(c) PROVE TypeOK'
  BY <1>1 DEF SetSink
<1>2. ASSUME NEW c \in Callers, QueueNewSink(c) PROVE TypeOK'
  BY <1>2 DEF QueueNewSink, ControlInv
<1>3. ASSUME NEW c \in Callers, ClosePrev(c) PROVE TypeOK'
  BY <1>3 DEF ClosePrev, CloseFile
<1>4. CASE BackendStep
  BY <1>4 DEF BackendStep, CheckRunning, PollForPendingSinkSwitch, SwitchSink, WriteEvents,
              CloseFile, ControlInv, callerVars
<1>5. CASE StopBackend \/ Drain \/ DestroySinkHandler
  BY <1>5 DEF StopBackend, Drain, DestroySinkHandler, callerVars
<1>6. CASE Terminated \/ UNCHANGED vars
  BY <1>6 DEF Terminated, vars, callerVars
<1> QED
  BY <1>1, <1>2, <1>3, <1>4, <1>5, <1>6 DEF Next

(* A local variable is set and cleared together with its program point.    *)
LEMMA StepControl == TypeOK /\ ControlInv /\ [Next]_vars => ControlInv'
<1> SUFFICES ASSUME TypeOK, ControlInv, [Next]_vars PROVE ControlInv'
  OBVIOUS
<1> USE SinkAssumption DEF TypeOK, MaybeFile, ControlInv
<1>1. ASSUME NEW c \in Callers, SetSink(c) PROVE ControlInv'
  BY <1>1 DEF SetSink
<1>2. ASSUME NEW c \in Callers, QueueNewSink(c) PROVE ControlInv'
  BY <1>2 DEF QueueNewSink
<1>3. ASSUME NEW c \in Callers, ClosePrev(c) PROVE ControlInv'
  BY <1>3 DEF ClosePrev, CloseFile
<1>4. CASE BackendStep
  BY <1>4 DEF BackendStep, CheckRunning, PollForPendingSinkSwitch, SwitchSink, WriteEvents,
              CloseFile, callerVars
<1>5. CASE StopBackend \/ Drain \/ DestroySinkHandler
  BY <1>5 DEF StopBackend, Drain, DestroySinkHandler, callerVars
<1>6. CASE Terminated \/ UNCHANGED vars
  BY <1>6 DEF Terminated, vars, callerVars
<1> QED
  BY <1>1, <1>2, <1>3, <1>4, <1>5, <1>6 DEF Next

(* A file moves from place to place, and is closed as its holder lets go.  *)
LEMMA StepHolder == TypeOK /\ ControlInv /\ HolderInv /\ [Next]_vars => HolderInv'
<1> SUFFICES ASSUME TypeOK, ControlInv, HolderInv, [Next]_vars,
                    NEW f \in Files \ (Std \cup again')
             PROVE  Apart(f)' /\ (f \in open' <=> Held(f)')
  BY DEF HolderInv
<1>a. again \subseteq again'
  BY DEF Next, SetSink, QueueNewSink, ClosePrev, BackendStep, CheckRunning,
         PollForPendingSinkSwitch, SwitchSink, WriteEvents, StopBackend, Drain,
         DestroySinkHandler, Terminated, vars
<1>0. Apart(f) /\ (f \in open <=> Held(f)) /\ f # NoFile
  BY SinkAssumption, <1>a DEF HolderInv
<1> USE <1>0 DEF TypeOK, ControlInv, Apart, Held, HeldAsFile
<1>1. ASSUME NEW c \in Callers, SetSink(c) PROVE Apart(f)' /\ (f \in open' <=> Held(f)')
  BY <1>1 DEF SetSink
<1>2. ASSUME NEW c \in Callers, QueueNewSink(c)
      PROVE  Apart(f)' /\ (f \in open' <=> Held(f)')
  BY <1>2 DEF QueueNewSink
<1>3. ASSUME NEW c \in Callers, ClosePrev(c)
      PROVE  Apart(f)' /\ (f \in open' <=> Held(f)')
  BY <1>3 DEF ClosePrev, CloseFile
<1>4. CASE CheckRunning \/ PollForPendingSinkSwitch \/ WriteEvents
  BY <1>4 DEF CheckRunning, PollForPendingSinkSwitch, WriteEvents, callerVars
<1>5. CASE SwitchSink
  BY <1>5 DEF SwitchSink, CloseFile, callerVars
<1>6. CASE StopBackend \/ Drain
  BY <1>6 DEF StopBackend, Drain, callerVars
<1>7. CASE DestroySinkHandler
  BY <1>7 DEF DestroySinkHandler, callerVars
<1>8. CASE Terminated \/ UNCHANGED vars
  BY <1>8 DEF Terminated, vars, callerVars
<1> QED
  BY <1>1, <1>2, <1>3, <1>4, <1>5, <1>6, <1>7, <1>8 DEF Next, BackendStep

(* The exchanges never lose the sink queued last.                          *)
LEMMA StepLast == TypeOK /\ ControlInv /\ LastInv /\ [Next]_vars => LastInv'
<1> SUFFICES ASSUME TypeOK, ControlInv, LastInv, [Next]_vars PROVE LastInv'
  OBVIOUS
<1> USE DEF TypeOK, ControlInv, LastInv
<1>1. ASSUME NEW c \in Callers, SetSink(c) \/ QueueNewSink(c) \/ ClosePrev(c) PROVE LastInv'
  BY <1>1 DEF SetSink, QueueNewSink, ClosePrev
<1>2. CASE BackendStep
  BY <1>2 DEF BackendStep, CheckRunning, PollForPendingSinkSwitch, SwitchSink, WriteEvents
<1>3. CASE StopBackend \/ Drain \/ DestroySinkHandler
  BY <1>3 DEF StopBackend, Drain, DestroySinkHandler
<1>4. CASE Terminated \/ UNCHANGED vars
  BY <1>4 DEF Terminated, vars
<1> QED
  BY <1>1, <1>2, <1>3, <1>4 DEF Next

(* The invariant is inductive.                                             *)
LEMMA Invariance == Spec => []IInv
<1>1. IInv /\ [Next]_vars => IInv'
  BY StepType, StepControl, StepHolder, StepLast DEF IInv
<1> QED
  BY InitInv, <1>1, PTL DEF Spec

-----------------------------------------------------------------------------
(* Every variable of the sink handler, its callers and the backend's       *)
(* polling loop has a value of its type; the current sink is never null.   *)
THEOREM TypeCorrect == Spec => []TypeOK
  BY Invariance, PTL DEF IInv

(* A file that is in one place at most has one holder or none.             *)
LEMMA HolderCount == HolderInv => OneHolder
<1> SUFFICES ASSUME HolderInv, NEW f \in Files \ (Std \cup again)
             PROVE  Cardinality(Holders(f)) = IF f \in open THEN 1 ELSE 0
  BY DEF OneHolder
<1>1. Apart(f) /\ (f \in open <=> Held(f))
  BY DEF HolderInv
<1>2. ASSUME f \notin open PROVE Holders(f) = {}
  BY <1>1, <1>2 DEF Held, HeldAsFile, Holders
<1>3. ASSUME f \in open PROVE \E h : Holders(f) = {h}
  <2> USE <1>1 DEF Apart, HeldAsFile, Holders
  <2>1. ASSUME NEW c \in Callers, arg[c] = f PROVE Holders(f) = {<<"arg", c>>}
    BY <2>1
  <2>2. ASSUME NEW c \in Callers, prev[c] = f PROVE Holders(f) = {<<"prev", c>>}
    BY <2>2
  <2>3. ASSUME pending_new_sink = f PROVE Holders(f) = {<<"pending", NoFile>>}
    BY <2>3
  <2>4. ASSUME new_sink = f PROVE Holders(f) = {<<"new", NoFile>>}
    BY <2>4
  <2>5. ASSUME HeldAsFile(f) PROVE Holders(f) = {<<"file", NoFile>>}
    BY <2>5
  <2> QED
    BY <1>3, <2>1, <2>2, <2>3, <2>4, <2>5 DEF Held
<1> QED
  BY <1>2, <1>3, FS_EmptySet, FS_Singleton

(* A file that is not given to set_sink() again while the library holds it *)
(* is held in one place while it is open and nowhere once it is closed:    *)
(* whatever the interleaving of any number of callers with the exchanges   *)
(* and closes of the backend and the destructor, it is not closed twice,   *)
(* written to after that, or leaked, also if other files are given again.  *)
THEOREM ExactlyOneHolder == Spec => []OneHolder
  BY Invariance, HolderCount, PTL DEF IInv

(* With nothing pending or being switched, the backend writes to the sink  *)
(* that was queued last.                                                   *)
THEOREM LastQueuedIsCurrent == Spec => []LastQueuedWins
<1>1. IInv => LastQueuedWins
  BY DEF IInv, LastInv, LastQueuedWins
<1> QED
  BY Invariance, <1>1, PTL

-----------------------------------------------------------------------------
(* Every step of the handler is one of the hand-over or changes nothing it *)
(* speaks of.                                                              *)
LEMMA StepSimulation == IInv /\ [Next]_vars => [H!Next]_H!vars
<1> SUFFICES ASSUME IInv, [Next]_vars PROVE [H!Next]_H!vars
  OBVIOUS
<1> USE SinkAssumption DEF IInv, TypeOK, ControlInv, MaybeFile, H!vars
<1>1. ASSUME NEW c \in Callers, QueueNewSink(c) PROVE H!Next
  <2>1. arg[c] \in Files
    BY <1>1 DEF QueueNewSink
  <2>2. H!Queue(arg[c])
    BY <1>1 DEF QueueNewSink, H!Queue
  <2> QED
    BY <2>1, <2>2 DEF H!Next
<1>2. ASSUME NEW c \in Callers, SetSink(c) \/ ClosePrev(c) PROVE UNCHANGED H!vars
  BY <1>2 DEF SetSink, ClosePrev
<1>3. CASE CheckRunning
  BY <1>3 DEF CheckRunning, H!Next, H!Stop
<1>4. CASE PollForPendingSinkSwitch
  BY <1>4 DEF PollForPendingSinkSwitch, H!Next, H!Take
<1>5. CASE SwitchSink \/ WriteEvents \/ StopBackend \/ Drain
  BY <1>5 DEF SwitchSink, WriteEvents, StopBackend, Drain
<1>6. CASE DestroySinkHandler
  BY <1>6 DEF DestroySinkHandler, H!Next, H!Discard
<1>7. CASE Terminated \/ UNCHANGED vars
  BY <1>7 DEF Terminated, vars
<1> QED
  BY <1>1, <1>2, <1>3, <1>4, <1>5, <1>6, <1>7 DEF Next, BackendStep

(* The sink handler implements the safety part of the hand-over of a       *)
(* setting: a queued sink replaces a pending one, the backend takes over   *)
(* exactly what is pending and, once it has stopped serving, nothing.      *)
THEOREM RefinesHandover == Spec => H!Spec
<1>1. Init => H!Init
  BY DEF Init, H!Init
<1> QED
  BY <1>1, Invariance, StepSimulation, PTL DEF Spec, H!Spec

=============================================================================
