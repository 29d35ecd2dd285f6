------------------------------- MODULE Sink -------------------------------
(***************************************************************************)
(* SinkHandler of detail/sink.h, with its callers: set_sink() on any       *)
(* thread, the backend's loop that takes over a pending sink and writes to *)
(* the current one, the drain loop that only writes, and the destructor.   *)
(*                                                                         *)
(* A FILE is known by its address, which fopen() may reuse after fclose(). *)
(* A SinkDescriptor is represented by its file; the buffering mode that    *)
(* setvbuf() is given is left out.  Nothing is said of what the C library  *)
(* does with a stream that is used after it was closed: the model follows  *)
(* the pointers, and OneHolder says when that cannot happen.               *)
(***************************************************************************)
EXTENDS Integers, FiniteSets

CONSTANTS
  Callers,  \* the threads that call set_sink()
  Files,    \* addresses of FILE objects
  Std,      \* stdout and stderr, which are never closed
  Stdout,   \* the initial sink
  NoFile    \* nullptr

ASSUME SinkAssumption ==
  Std \subseteq Files /\ Stdout \in Std /\ NoFile \notin Files

VARIABLES
  open,               \* the streams that are open
  cpc, arg, prev,     \* per caller: program point, file and prev of
                      \*   queue_new_sink()
  pending_new_sink, file,  \* _pending_new_sink, _file
  bpc, new_sink,      \* backend thread: program point, descriptor taken
  running,
  last,               \* history: the sink queued last
  again               \* history: the streams that set_sink() was given while
                      \*   the library still held them

callerVars == <<cpc, arg, prev>>
vars == <<open, callerVars, pending_new_sink, file, bpc, new_sink, running, last,
          again>>

Init ==
  /\ open = Std
  /\ cpc = [c \in Callers |-> "idle"]
  /\ arg = [c \in Callers |-> NoFile] /\ prev = [c \in Callers |-> NoFile]
  /\ pending_new_sink = NoFile /\ file = Stdout
  /\ bpc = "loop" /\ new_sink = NoFile /\ running = TRUE
  /\ last = Stdout /\ again = {}

(* Fault: the standard streams are closed as well.                         *)
CloseFile_Any(f) == open' = open \ {f}
CloseFile(f) == open' = IF f \in Std THEN open ELSE open \ {f}

-----------------------------------------------------------------------------
(* Callers, until the destructor runs.                                     *)

(* set_sink(filename) with an fopen() that succeeds, or set_sink(file) on  *)
(* a stream the caller has opened, on a standard stream or, say to change  *)
(* its buffering, on a stream that was set before and is still held.  A    *)
(* null file or a failed fopen() changes nothing.                          *)
SetSink(c) ==
  /\ cpc[c] = "idle" /\ bpc \notin {"destructor", "destroyed"}
  /\ \E f \in Files :
       /\ open' = open \cup {f}
       /\ again' = again \cup ({f} \cap (open \ Std))
       /\ arg' = [arg EXCEPT ![c] = f]
  /\ cpc' = [cpc EXCEPT ![c] = "queue"]
  /\ UNCHANGED <<prev, pending_new_sink, file, bpc, new_sink, running, last>>

(* Fault: the descriptor that was pending is forgotten.                    *)
QueueNewSink_Forget(c) ==
  /\ cpc[c] = "queue"
  /\ pending_new_sink' = arg[c] /\ last' = arg[c]
  /\ arg' = [arg EXCEPT ![c] = NoFile]
  /\ cpc' = [cpc EXCEPT ![c] = "idle"]
  /\ UNCHANGED <<open, prev, file, bpc, new_sink, running, again>>
(* Fault: a sink is queued only if none is pending.                        *)
QueueNewSink_KeepFirst(c) ==
  /\ cpc[c] = "queue"
  /\ IF pending_new_sink = NoFile
     THEN /\ pending_new_sink' = arg[c]
          /\ cpc' = [cpc EXCEPT ![c] = "idle"]
          /\ UNCHANGED prev
     ELSE /\ prev' = [prev EXCEPT ![c] = arg[c]]
          /\ cpc' = [cpc EXCEPT ![c] = "close"]
          /\ UNCHANGED pending_new_sink
  /\ last' = arg[c]
  /\ arg' = [arg EXCEPT ![c] = NoFile]
  /\ UNCHANGED <<open, file, bpc, new_sink, running, again>>
(* The exchange of queue_new_sink().                                       *)
QueueNewSink(c) ==
  /\ cpc[c] = "queue"
  /\ pending_new_sink' = arg[c] /\ last' = arg[c]
  /\ prev' = [prev EXCEPT ![c] = pending_new_sink]
  /\ arg' = [arg EXCEPT ![c] = NoFile]
  /\ cpc' = [cpc EXCEPT ![c] = IF pending_new_sink = NoFile THEN "idle" ELSE "close"]
  /\ UNCHANGED <<open, file, bpc, new_sink, running, again>>

ClosePrev(c) ==
  /\ cpc[c] = "close"
  /\ CloseFile(prev[c])
  /\ prev' = [prev EXCEPT ![c] = NoFile]
  /\ cpc' = [cpc EXCEPT ![c] = "idle"]
  /\ UNCHANGED <<arg, pending_new_sink, file, bpc, new_sink, running, last, again>>

-----------------------------------------------------------------------------
(* The backend thread, and the thread that runs the destructors.           *)

CheckRunning ==
  /\ bpc = "loop"
  /\ bpc' = IF running THEN "poll" ELSE "drain"
  /\ UNCHANGED <<open, callerVars, pending_new_sink, file, new_sink, running, last, again>>

(* Fault: the poll does not look at the pending slot.                      *)
PollForPendingSinkSwitch_Skip ==
  /\ bpc = "poll"
  /\ bpc' = "write"
  /\ UNCHANGED <<open, callerVars, pending_new_sink, file, new_sink, running, last, again>>
(* The exchange of poll_for_pending_sink_switch().                         *)
PollForPendingSinkSwitch ==
  /\ bpc = "poll"
  /\ new_sink' = pending_new_sink
  /\ pending_new_sink' = NoFile
  /\ bpc' = IF pending_new_sink = NoFile THEN "write" ELSE "switch"
  /\ UNCHANGED <<open, callerVars, file, running, last, again>>

SwitchSink ==
  /\ bpc = "switch"
  /\ CloseFile(file)
  /\ file' = new_sink
  /\ new_sink' = NoFile
  /\ bpc' = "write"
  /\ UNCHANGED <<callerVars, pending_new_sink, running, last, again>>

(* poll_threads(): any number of write_str_and_endl() to file.             *)
WriteEvents ==
  /\ bpc = "write"
  /\ bpc' = "loop"
  /\ UNCHANGED <<open, callerVars, pending_new_sink, file, new_sink, running, last, again>>

(* ~Backend() tells the backend thread to stop.                            *)
StopBackend ==
  /\ running
  /\ running' = FALSE
  /\ UNCHANGED <<open, callerVars, pending_new_sink, file, bpc, new_sink, last, again>>

(* The drain loop writes what is left; then ~Backend() joins the thread    *)
(* and the members are destroyed.  No call of set_sink() is left then.     *)
Drain ==
  /\ bpc = "drain" /\ \A c \in Callers : cpc[c] = "idle"
  /\ bpc' = "destructor"
  /\ UNCHANGED <<open, callerVars, pending_new_sink, file, new_sink, running, last, again>>

(* ~SinkHandler().                                                         *)
DestroySinkHandler ==
  /\ bpc = "destructor"
  /\ pending_new_sink' = NoFile
  /\ open' = open \ ({pending_new_sink, file} \ Std)
  /\ bpc' = "destroyed"
  /\ UNCHANGED <<callerVars, file, new_sink, running, last, again>>

Terminated == bpc = "destroyed" /\ UNCHANGED vars

BackendStep ==
  CheckRunning \/ PollForPendingSinkSwitch \/ SwitchSink \/ WriteEvents

Next ==
  \/ \E c \in Callers : SetSink(c) \/ QueueNewSink(c) \/ ClosePrev(c)
  \/ BackendStep \/ StopBackend \/ Drain \/ DestroySinkHandler
  \/ Terminated

Spec == Init /\ [][Next]_vars

(* The backend thread is scheduled.                                        *)
FairSpec == Spec /\ WF_vars(BackendStep)

-----------------------------------------------------------------------------
MaybeFile == Files \cup {NoFile}

(* Every variable has a value of its type.                                 *)
TypeOK ==
  /\ open \subseteq Files /\ Std \subseteq open
  /\ cpc \in [Callers -> {"idle", "queue", "close"}]
  /\ arg \in [Callers -> MaybeFile] /\ prev \in [Callers -> MaybeFile]
  /\ pending_new_sink \in MaybeFile /\ file \in Files /\ new_sink \in MaybeFile
  /\ bpc \in {"loop", "poll", "switch", "write", "drain", "destructor", "destroyed"}
  /\ running \in BOOLEAN /\ last \in Files /\ again \subseteq Files \ Std

(* Who will close or hand on a file.                                       *)
Holders(f) ==
  {<<"arg", c>> : c \in {c \in Callers : arg[c] = f}}
    \cup {<<"prev", c>> : c \in {c \in Callers : prev[c] = f}}
    \cup (IF pending_new_sink = f THEN {<<"pending", NoFile>>} ELSE {})
    \cup (IF new_sink = f THEN {<<"new", NoFile>>} ELSE {})
    \cup (IF file = f /\ bpc # "destroyed" THEN {<<"file", NoFile>>} ELSE {})

(* A stream is held in exactly one place as long as it is open and nowhere *)
(* once it is closed, however callers and the backend race for the pending *)
(* slot: it is neither closed twice, nor written to after being closed,    *)
(* nor leaked.  This takes a caller that hands a stream over: one that is  *)
(* given to set_sink() again while the library holds it, as the current    *)
(* sink or on its way to be, has two holders, and the first of them to let *)
(* go closes it under the other.  The other streams keep their one holder. *)
OneHolder ==
  \A f \in Files \ (Std \cup again) :
    Cardinality(Holders(f)) = IF f \in open THEN 1 ELSE 0

(* The sink queued last wins: with nothing pending or being switched, it   *)
(* is the current one.                                                     *)
LastQueuedWins ==
  pending_new_sink = NoFile /\ bpc \notin {"switch", "destroyed"} => file = last

(* The handler implements the hand-over of a setting: from the exchange on *)
(* a sink that the backend has taken counts as the current one.  A queued  *)
(* sink is hence installed in the end, unless another one replaces it or   *)
(* the backend is told to stop.                                            *)
H == INSTANCE Handover WITH
       Values <- Files, Initial <- Stdout, None <- NoFile,
       pending <- pending_new_sink,
       current <- IF bpc = "switch" THEN new_sink ELSE file,
       serving <- bpc \notin {"drain", "destructor", "destroyed"}
ImplementsHandover == H!FairSpec

=============================================================================
