------------------------------ MODULE Backend ------------------------------
(***************************************************************************)
(* The life of logging threads and of the backend thread, detail/core.h:   *)
(* the list of thread contexts that logging threads push to and only the   *)
(* backend thread unlinks from, poll_threads(), the deletion of a dead     *)
(* thread's context, and ~Backend() with the drain loop it waits for.      *)
(*                                                                         *)
(* A thread's queue is the one of module Queue seen through its promise    *)
(* (module Fifo): the number of its events that are committed and not yet  *)
(* processed.  Dropping an event leaves no trace.  What remains of the     *)
(* weak memory model is that the backend's load of a write position may    *)
(* return any value not older than what it has synchronised with: it finds *)
(* between known[t] and queued[t] events.                                  *)
(*                                                                         *)
(* Nodes are plain memory.  The backend synchronises with the threads that *)
(* made them by the acquire load of _head with which a poll begins, but    *)
(* not when its compare-and-swap fails and returns, by a relaxed load, a   *)
(* head pushed since: following that pointer is a data race, action        *)
(* WalkRaces, unless the target orders an access after the load of its     *)
(* address.                                                                *)
(*                                                                         *)
(* Addresses of freed nodes are reused.                                    *)
(***************************************************************************)
EXTENDS Integers, SequencesExt

CONSTANTS
  Threads,    \* the threads that may log
  Main,       \* the one whose exit runs ~Backend()
  Joined,     \* the ones Main joins before that; the others are detached
  Addrs,      \* addresses of list nodes
  Null,       \* nullptr
  StaleLoads, \* whether a load may miss a store already made (C++ memory
              \*   model) or not (sequential consistency)
  AddressDependency, \* whether the target orders an access after the load
              \*   that its address comes from, as x86-64 and AArch64 do
              \*   and the C++ memory model does not ask for
  Slots       \* the events that a queue has room for

ASSUME BackendAssumption ==
  /\ Main \in Threads /\ Joined \subseteq Threads
  /\ Null \notin Addrs /\ Null \notin Threads
  /\ StaleLoads \in BOOLEAN /\ AddressDependency \in BOOLEAN /\ Slots \in Nat

VARIABLES
  pc, reg,              \* per thread: program point, node being registered
  alive,                \* per thread: _is_alive of its context
  context,              \* per thread: its context is "none", "live", "freed"
  queued,               \* per thread: events in its queue
  cached, known,        \* per thread: how many of them are in the backend's
                        \*   copy of the write position, and the least
                        \*   number that its next copy will show
  head, node,           \* _head; the nodes, by address
  list,                 \* history: the addresses in the list, in order
  synced,               \* history: the nodes in it whose making happened
                        \*   before what the backend does now
  running,              \* _running
  bpc, draining,        \* backend thread: program point, which loop
  visit, next,          \* backend thread: node and next of poll_threads(),
  current, previous,    \*   current and previous of remove_and_delete_node()
  main                  \* ~Backend(): "live", "joining", "destroyed"

threadVars == <<pc, reg, alive>>
queueVars == <<queued, cached, known>>
walkVars == <<current, previous>>
backendVars == <<context, bpc, draining, visit, next, walkVars>>
listVars == <<head, node, list, synced>>
vars == <<threadVars, queueVars, backendVars, listVars, running, main>>

-----------------------------------------------------------------------------
Free == [context |-> Null, next |-> Null]
Allocated == {a \in Addrs : node[a] # Free}

Init ==
  /\ pc = [t \in Threads |-> "new"] /\ reg = [t \in Threads |-> Null]
  /\ alive = [t \in Threads |-> FALSE] /\ context = [t \in Threads |-> "none"]
  /\ queued = [t \in Threads |-> 0]
  /\ cached = [t \in Threads |-> 0] /\ known = [t \in Threads |-> 0]
  /\ head = Null /\ node = [a \in Addrs |-> Free] /\ list = <<>> /\ synced = {}
  /\ running = FALSE /\ bpc = "none" /\ draining = FALSE
  /\ visit = Null /\ next = Null /\ current = Null /\ previous = Null
  /\ main = "live"

-----------------------------------------------------------------------------
(* Logging threads.  A thread takes steps until the process ends, or until *)
(* what it does is undefined.                                              *)
ProcessRuns == main # "destroyed" /\ bpc # "undefined"

(* The first use of the library constructs the backend and starts its      *)
(* thread.                                                                 *)
CreateInstance ==
  /\ bpc = "none" /\ \E t \in Threads : pc[t] = "new"
  /\ running' = TRUE /\ bpc' = "check"
  /\ UNCHANGED <<threadVars, queueVars, context, draining, visit, next, walkVars,
                 listVars, main>>

(* First log or init_thread(): a context, and a node that is to be the     *)
(* new head.                                                               *)
RegisterThread(t) ==
  /\ pc[t] = "new" /\ bpc # "none" /\ ProcessRuns
  /\ \E a \in Addrs \ Allocated :
       /\ node' = [node EXCEPT ![a] = [context |-> t, next |-> head]]
       /\ reg' = [reg EXCEPT ![t] = a]
  /\ context' = [context EXCEPT ![t] = "live"]
  /\ alive' = [alive EXCEPT ![t] = TRUE]
  /\ pc' = [pc EXCEPT ![t] = "registering"]
  /\ UNCHANGED <<queueVars, bpc, draining, visit, next, walkVars, head, list,
                 synced, running, main>>

(* Fault: the head is stored without comparing.                            *)
PushNode_Store(t) ==
  /\ pc[t] = "registering" /\ ProcessRuns
  /\ head' = reg[t]
  /\ list' = <<reg[t]>> \o list
  /\ pc' = [pc EXCEPT ![t] = "logging"]
  /\ reg' = [reg EXCEPT ![t] = Null]
  /\ UNCHANGED <<alive, queueVars, backendVars, node, synced, running, main>>
(* One turn of the compare_exchange_weak() loop.                           *)
PushNode(t) ==
  LET a == reg[t]
  IN  /\ pc[t] = "registering" /\ ProcessRuns
      /\ IF head = node[a].next
         THEN /\ head' = a
              /\ list' = <<a>> \o list
              /\ pc' = [pc EXCEPT ![t] = "logging"]
              /\ reg' = [reg EXCEPT ![t] = Null]
              /\ UNCHANGED node
         ELSE /\ node' = [node EXCEPT ![a].next = head]
              /\ UNCHANGED <<head, list, pc, reg>>
      /\ UNCHANGED <<alive, queueVars, backendVars, synced, running, main>>

(* push_log_event() that finds room.                                       *)
Log(t) ==
  /\ pc[t] = "logging" /\ queued[t] < Slots /\ ProcessRuns
  /\ queued' = [queued EXCEPT ![t] = @ + 1]
  /\ UNCHANGED <<threadVars, cached, known, backendVars, listVars, running, main>>

(* ~ThreadContextHandler() at thread exit; a thread that never logged just *)
(* ends.                                                                   *)
Exit(t) ==
  /\ pc[t] \in {"new", "logging"} /\ ProcessRuns
  /\ pc' = [pc EXCEPT ![t] = "exited"]
  /\ alive' = [alive EXCEPT ![t] = FALSE]
  /\ UNCHANGED <<reg, queueVars, backendVars, listVars, running, main>>

(* Fault: the backend thread is joined without being told to stop.         *)
StopBackend_NoStore ==
  /\ main = "live" /\ bpc \notin {"none", "undefined"}
  /\ \A t \in Joined \cup {Main} : pc[t] = "exited"
  /\ main' = "joining"
  /\ UNCHANGED <<threadVars, queueVars, backendVars, listVars, running>>
(* ~Backend() runs after Main's thread-local objects are gone.             *)
StopBackend ==
  /\ main = "live" /\ bpc \notin {"none", "undefined"}
  /\ \A t \in Joined \cup {Main} : pc[t] = "exited"
  /\ running' = FALSE
  /\ main' = "joining"
  /\ UNCHANGED <<threadVars, queueVars, backendVars, listVars>>

JoinBackend ==
  /\ main = "joining" /\ bpc = "stopped"
  /\ main' = "destroyed"
  /\ UNCHANGED <<threadVars, queueVars, backendVars, listVars, running>>

-----------------------------------------------------------------------------
(* The backend thread.                                                     *)

(* Fault: _running is read with a relaxed load.                            *)
CheckRunning_Relaxed ==
  /\ bpc = "check"
  /\ draining' = ~running
  /\ bpc' = IF running THEN "poll" ELSE "drain"
  /\ UNCHANGED <<threadVars, queueVars, context, visit, next, walkVars, listVars,
                 running, main>>
(* Reading false from _running synchronises with ~Backend(), hence with    *)
(* every thread that Main joined.                                          *)
CheckRunning ==
  /\ bpc = "check"
  /\ draining' = ~running
  /\ known' = [t \in Threads |->
                 IF ~running /\ t \in Joined \cup {Main} THEN queued[t] ELSE known[t]]
  /\ bpc' = IF running THEN "poll" ELSE "drain"
  /\ UNCHANGED <<threadVars, queued, cached, context, visit, next, walkVars,
                 listVars, running, main>>

(* Fault: the drain loop does not look at the list.                        *)
CheckDrained_Unchecked ==
  /\ bpc = "drain"
  /\ bpc' = "stopped"
  /\ UNCHANGED <<threadVars, queueVars, context, draining, visit, next, walkVars,
                 listVars, running, main>>
CheckDrained ==
  /\ bpc = "drain"
  /\ bpc' = IF head = Null THEN "stopped" ELSE "poll"
  /\ UNCHANGED <<threadVars, queueVars, context, draining, visit, next, walkVars,
                 listVars, running, main>>

(* On to node a of the list; the end of the list ends poll_threads().      *)
GoTo(a) ==
  IF a = Null
  THEN bpc' = (IF draining THEN "drain" ELSE "check") /\ visit' = Null
  ELSE bpc' = "visit" /\ visit' = a

(* The acquire load of _head.  All its stores are read-modify-writes, so   *)
(* that it synchronises with the thread of every node in the list.  (The   *)
(* load of the drain loop's condition does so too, just before.)           *)
PollThreads ==
  /\ bpc = "poll"
  /\ GoTo(head)
  /\ synced' = {list[i] : i \in 1..Len(list)}
  /\ UNCHANGED <<threadVars, queueVars, context, draining, next, walkVars, head, node,
                 list, running, main>>

(* What a load of the write position of t may find in the queue.           *)
Loadable(t) == IF StaleLoads THEN known[t]..queued[t] ELSE {queued[t]}

(* Fault: a null reservation is read from.                                 *)
ReserveRead_NoNullCheck(t, load) ==
  /\ bpc = "visit" /\ node[visit].context = t
  /\ load \in IF cached[t] = 0 THEN Loadable(t) ELSE {cached[t]}
  /\ next' = node[visit].next
  /\ cached' = [cached EXCEPT ![t] = load]
  /\ known' = [known EXCEPT ![t] = IF load > @ THEN load ELSE @]
  /\ bpc' = "process"
  /\ UNCHANGED <<threadVars, queued, context, draining, visit, walkVars, listVars,
                 running, main>>
(* reserve_read(), which loads the write position if its copy says empty.  *)
ReserveRead(t, load) ==
  /\ bpc = "visit" /\ node[visit].context = t
  /\ load \in IF cached[t] = 0 THEN Loadable(t) ELSE {cached[t]}
  /\ next' = node[visit].next
  /\ cached' = [cached EXCEPT ![t] = load]
  /\ known' = [known EXCEPT ![t] = IF load > @ THEN load ELSE @]
  /\ bpc' = IF load = 0 THEN "empty" ELSE "process"
  /\ UNCHANGED <<threadVars, queued, context, draining, visit, walkVars, listVars,
                 running, main>>

TakeEvent(t) ==
  /\ queued' = [queued EXCEPT ![t] = @ - 1]
  /\ cached' = [cached EXCEPT ![t] = @ - 1]
  /\ known' = [known EXCEPT ![t] = @ - 1]

(* Fault: a queue is emptied before the next one is visited.               *)
ProcessEvent_UntilEmpty ==
  /\ bpc = "process"
  /\ TakeEvent(node[visit].context)
  /\ bpc' = "visit"
  /\ UNCHANGED <<threadVars, context, draining, visit, next, walkVars, listVars,
                 running, main>>
(* read_and_process_single_event() and commit_read(): one event, however   *)
(* many there are.                                                         *)
ProcessEvent ==
  /\ bpc = "process"
  /\ TakeEvent(node[visit].context)
  /\ GoTo(next)
  /\ UNCHANGED <<threadVars, context, draining, next, walkVars, listVars, running,
                 main>>

(* Fault: an empty queue is reason enough to delete its context.           *)
CheckAlive_Unchecked ==
  /\ bpc = "empty"
  /\ bpc' = "remove"
  /\ UNCHANGED <<threadVars, queueVars, context, draining, visit, next, walkVars,
                 listVars, running, main>>
CheckAlive ==
  /\ bpc = "empty"
  /\ IF alive[node[visit].context]
     THEN GoTo(next)
     ELSE bpc' = "remove" /\ UNCHANGED visit
  /\ UNCHANGED <<threadVars, queueVars, context, draining, next, walkVars,
                 listVars, running, main>>

DeleteNode(a) ==
  /\ context' = [context EXCEPT ![node[a].context] = "freed"]
  /\ list' = RemoveFirst(list, a)
  /\ synced' = synced \ {a}
  /\ GoTo(next)

(* Fault: a failed swap is left to the next round.                         *)
RemoveHead_GiveUp ==
  /\ bpc = "remove"
  /\ IF head = visit
     THEN /\ head' = node[visit].next
          /\ node' = [node EXCEPT ![visit] = Free]
          /\ DeleteNode(visit)
     ELSE GoTo(next) /\ UNCHANGED <<context, listVars>>
  /\ UNCHANGED <<threadVars, queueVars, draining, next, walkVars, running, main>>
(* remove_and_delete_node(): the head goes by compare-and-swap; if that    *)
(* fails, it returns the head to walk from, which it has read with a       *)
(* relaxed load: what is new in the list is not synchronised with.         *)
RemoveHead ==
  /\ bpc = "remove"
  /\ IF head = visit
     THEN /\ head' = node[visit].next
          /\ node' = [node EXCEPT ![visit] = Free]
          /\ DeleteNode(visit)
          /\ UNCHANGED walkVars
     ELSE /\ current' = head /\ previous' = Null
          /\ bpc' = "walk"
          /\ UNCHANGED <<context, visit, listVars>>
  /\ UNCHANGED <<threadVars, queueVars, draining, next, running, main>>

(* To the next node; if current is not synchronised with, this is what an  *)
(* address dependency guarantees and one of the outcomes without it.       *)
WalkOn ==
  /\ bpc = "walk" /\ current \notin {Null, visit}
  /\ previous' = current
  /\ current' = node[current].next
  /\ UNCHANGED <<threadVars, queueVars, context, bpc, draining, visit, next,
                 listVars, running, main>>

(* current->next of a node pushed since the poll began is a plain read     *)
(* that races with the plain writes of register_thread().  (The write to   *)
(* previous->next comes after this read of the same node.)                 *)
WalkRaces ==
  /\ ~AddressDependency
  /\ bpc = "walk" /\ current \notin {Null, visit} /\ current \notin synced
  /\ bpc' = "undefined"
  /\ UNCHANGED <<threadVars, queueVars, context, draining, visit, next, walkVars,
                 listVars, running, main>>

UnlinkNode ==
  /\ bpc = "walk" /\ current \in {Null, visit}
  /\ IF current = Null
     THEN GoTo(next) /\ UNCHANGED <<context, node, list, synced>>
     ELSE /\ node' = [node EXCEPT ![previous].next = node[current].next,
                                  ![current] = Free]
          /\ DeleteNode(visit)
  /\ UNCHANGED <<threadVars, queueVars, draining, next, walkVars, head, running,
                 main>>

(* The process has ended, or nothing can be said of it any more.           *)
Terminated ==
  /\ ~ProcessRuns \/ (bpc = "none" /\ \A t \in Threads : pc[t] = "exited")
  /\ UNCHANGED vars

-----------------------------------------------------------------------------
ThreadStep(t) == RegisterThread(t) \/ PushNode(t) \/ Log(t) \/ Exit(t)

PollVisit(t) == \E load \in 0..Slots : ReserveRead(t, load)

BackendStep ==
  \/ CheckRunning \/ CheckDrained \/ PollThreads
  \/ \E t \in Threads : PollVisit(t)
  \/ ProcessEvent \/ CheckAlive
  \/ RemoveHead \/ WalkOn \/ WalkRaces \/ UnlinkNode

Next ==
  \/ CreateInstance \/ StopBackend \/ JoinBackend
  \/ \E t \in Threads : ThreadStep(t)
  \/ BackendStep
  \/ Terminated

Spec == Init /\ [][Next]_vars

(* The backend thread is scheduled, and a registration that has begun      *)
(* proceeds; that a thread logs, exits or that the process ends is nowhere *)
(* assumed.  A store becomes visible in finite time: of infinitely many    *)
(* polls of a queue, infinitely many load its latest write position.       *)
PollVisitLatest(t) == ReserveRead(t, queued[t])

FairSpec ==
  /\ Spec
  /\ WF_vars(BackendStep) /\ WF_vars(JoinBackend)
  /\ \A t \in Threads : WF_vars(PushNode(t)) /\ SF_vars(PollVisitLatest(t))

-----------------------------------------------------------------------------
Address == Addrs \cup {Null}
Count == 0..Slots

(* Every variable has a value of its type.                                 *)
TypeOK ==
  /\ pc \in [Threads -> {"new", "registering", "logging", "exited"}]
  /\ reg \in [Threads -> Address]
  /\ alive \in [Threads -> BOOLEAN]
  /\ context \in [Threads -> {"none", "live", "freed"}]
  /\ queued \in [Threads -> Count]
  /\ cached \in [Threads -> Count] /\ known \in [Threads -> Count]
  /\ head \in Address
  /\ node \in [Addrs -> [context : Threads \cup {Null}, next : Address]]
  /\ list \in Seq(Addrs) /\ synced \subseteq Addrs
  /\ running \in BOOLEAN /\ draining \in BOOLEAN
  /\ bpc \in {"none", "check", "drain", "poll", "visit", "process", "empty",
              "remove", "walk", "stopped", "undefined"}
  /\ visit \in Address /\ next \in Address
  /\ current \in Address /\ previous \in Address
  /\ main \in {"live", "joining", "destroyed"}

Visiting == bpc \in {"visit", "process", "empty", "remove", "walk"}

(* No pointer that is going to be followed dangles: the node the backend   *)
(* visits, the next one it has saved, the ones its walk stands on, and the *)
(* context a thread logs to, exist.  The backend has synchronised with the *)
(* makers of all of them but those the walk passes before it comes to the  *)
(* visited node; from where it reads one of these without the protection   *)
(* of an address dependency, nothing is claimed.                           *)
NoUseAfterFree ==
  /\ Visiting =>
       visit \in Allocated \cap synced /\ context[node[visit].context] = "live"
  /\ Visiting /\ bpc # "visit" => next \in (Allocated \cap synced) \cup {Null}
  /\ bpc = "walk" =>
       /\ current \in Allocated \cup {Null}
       /\ current = visit => previous \in Allocated
  /\ \A t \in Threads : pc[t] \in {"registering", "logging"} => context[t] = "live"

(* Pushing by several threads and unlinking by the backend never lose,     *)
(* duplicate or revive a context: what can be reached from _head is        *)
(* exactly one node for each thread that has registered and has not been   *)
(* deleted.                                                                *)
ListIntact ==
  /\ head = (IF list = <<>> THEN Null ELSE list[1])
  /\ \A i \in 1..Len(list) :
       /\ list[i] \in Allocated
       /\ node[list[i]].next = (IF i = Len(list) THEN Null ELSE list[i + 1])
  /\ \A i, j \in 1..Len(list) : i # j => node[list[i]].context # node[list[j]].context
  /\ \A t \in Threads :
       (pc[t] \in {"logging", "exited"} /\ context[t] = "live")
         <=> \E i \in 1..Len(list) : node[list[i]].context = t

(* When ~Backend() returns, the contexts of the threads it had to wait for *)
(* have been deleted.                                                      *)
StoppedClean ==
  main = "destroyed" => \A t \in Joined \cup {Main} : context[t] # "live"

(* In the drain loop the queue of a thread that was joined before          *)
(* ~Backend() is deleted only once all its events are processed, although  *)
(* the emptiness check still precedes the check of _is_alive.              *)
DrainLosesNothing ==
  [][\A t \in Joined \cup {Main} :
       draining /\ context[t] = "live" /\ context'[t] = "freed"
         => queued[t] = 0]_vars

(* "let the background thread delete it when all remaining queue events    *)
(* have been read" (core.h:395-397).                                       *)
DeletedWhenRead ==
  \A t \in Threads : context[t] = "freed" => queued[t] = 0

(* As long as a thread is alive and has events in its queue, the backend   *)
(* keeps processing them, however much the other threads log.              *)
NoStarvation ==
  \A t \in Threads :
    queued[t] > 0 ~>
      \/ bpc = "process" /\ node[visit].context = t
      \/ ~alive[t]
      \/ main = "destroyed"

(* The context of a joined thread is deleted in the end.                   *)
Reclaimed ==
  \A t \in Joined \cup {Main} :
    pc[t] = "exited" /\ context[t] = "live" ~> context[t] = "freed"

(* Once every thread has exited, ~Backend() returns.                       *)
ShutdownEnds ==
  main = "joining" /\ (\A t \in Threads : pc[t] = "exited") ~> main = "destroyed"

=============================================================================
