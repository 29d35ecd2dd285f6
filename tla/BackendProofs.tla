--------------------------- MODULE BackendProofs ---------------------------
(***************************************************************************)
(* Proofs about the list of thread contexts, poll_threads() and the drain  *)
(* loop, for every set of threads and addresses and any capacity.          *)
(***************************************************************************)
EXTENDS Backend, SequenceTheorems, TLAPS

WaitedFor == Joined \cup {Main}

(* A node that is being registered belongs to its thread and, since a node *)
(* in the list belongs to a thread that is not registering, is not in the  *)
(* list.  What its next points to is not known: head may have been freed.  *)
RegisterInv ==
  \A t \in Threads :
    /\ pc[t] = "new" => context[t] = "none"
    /\ pc[t] = "registering" => reg[t] \in Addrs /\ node[reg[t]].context = t
    /\ pc[t] \in {"registering", "logging"} => context[t] = "live" /\ alive[t]
    /\ pc[t] = "exited" => ~alive[t]

OwnedInv == \A i \in 1..Len(list) : node[list[i]].context \in Threads

(* Only the backend thread unlinks, so the node it visits stays in the     *)
(* list and the successor it has read stays the successor.                 *)
VisitInv ==
  Visiting =>
    /\ \E i \in 1..Len(list) : list[i] = visit
    /\ bpc # "visit" => next = node[visit].next
    /\ bpc = "process" => cached[node[visit].context] > 0
    /\ bpc \in {"remove", "walk"} => ~alive[node[visit].context]

(* The walk is at or before the node that it looks for, whatever has been  *)
(* pushed in front of where it started.                                    *)
WalkInv ==
  bpc = "walk" =>
    \E k, i \in 1..Len(list) :
      /\ k <= i /\ list[k] = current /\ list[i] = visit
      /\ k = i => k > 1 /\ previous = list[k - 1]

CountInv == \A t \in Threads : cached[t] <= known[t] /\ known[t] <= queued[t]

(* The process goes down in order: the threads exit, ~Backend() clears     *)
(* _running, the backend drains, and the destructor returns.               *)
StopInv ==
  /\ main # "live" => \A t \in WaitedFor : pc[t] = "exited"
  /\ bpc = "none" => main = "live"
  /\ bpc # "none" /\ ~running => main # "live"
  /\ draining => ~running /\ bpc \notin {"none", "check"}
  /\ bpc \in {"drain", "stopped"} => draining
  /\ main = "destroyed" => bpc = "stopped"
  /\ bpc = "stopped" => \A t \in WaitedFor : context[t] # "live"

(* In the drain loop the backend knows of every event of the threads that  *)
(* were joined: an empty look is an empty queue.                           *)
DrainInv ==
  draining =>
    \A t \in WaitedFor :
      /\ known[t] = queued[t]
      /\ bpc \in {"empty", "remove", "walk"} /\ node[visit].context = t => queued[t] = 0

(* The acquire load that began the poll has synchronised with every node   *)
(* from the visited one on: what is pushed later comes before them.        *)
SyncInv ==
  Visiting =>
    \E i \in 1..Len(list) : /\ list[i] = visit
                            /\ \A k \in i..Len(list) : list[k] \in synced

(* The inductive invariant.                                                *)
IInv ==
  /\ TypeOK /\ ListIntact /\ RegisterInv /\ OwnedInv /\ VisitInv /\ WalkInv /\ SyncInv
  /\ CountInv /\ StopInv /\ DrainInv

-----------------------------------------------------------------------------
(* Lemmas about the list.                                                  *)

(* Removing an element of a sequence without duplicates closes the gap.    *)
LEMMA RemoveFirstOfDistinct ==
  ASSUME NEW S, NEW s \in Seq(S), NEW i \in 1..Len(s),
         \A k, l \in 1..Len(s) : s[k] = s[l] => k = l
  PROVE  /\ RemoveFirst(s, s[i]) \in Seq(S)
         /\ Len(RemoveFirst(s, s[i])) = Len(s) - 1
         /\ \A k \in 1..Len(s) - 1 :
              RemoveFirst(s, s[i])[k] = IF k < i THEN s[k] ELSE s[k + 1]
<1> DEFINE I == {k \in 1..Len(s) : s[k] = s[i]}
           left == SubSeq(s, 1, i - 1)
           right == SubSeq(s, i + 1, Len(s))
<1>1. I = {i}
  OBVIOUS
<1>2. Min(I) = i
  BY <1>1 DEF Min
<1>3. SelectInSeq(s, LAMBDA v : v = s[i]) = i
  BY <1>1, <1>2 DEF SelectInSeq
<1>4. RemoveFirst(s, s[i]) = left \o right
  BY <1>3 DEF RemoveFirst, RemoveAt
<1>5. left \in Seq(S) /\ Len(left) = i - 1 /\ \A k \in 1..i - 1 : left[k] = s[k]
  BY SubSeqProperties
<1>6. right \in Seq(S) /\ Len(right) = Len(s) - i
      /\ \A k \in 1..Len(s) - i : right[k] = s[i + k]
  BY SubSeqProperties
<1> HIDE DEF left, right
<1>7. left \o right \in Seq(S) /\ Len(left \o right) = Len(s) - 1
  BY <1>5, <1>6
<1>8. ASSUME NEW k \in 1..Len(s) - 1
      PROVE  (left \o right)[k] = IF k < i THEN s[k] ELSE s[k + 1]
  <2>1. CASE k < i
    BY <1>5, <1>6, <2>1
  <2>2. CASE ~(k < i)
    <3>1. (left \o right)[k] = right[k - (i - 1)]
      BY <1>5, <1>6, <2>2
    <3>2. k - (i - 1) \in 1..Len(s) - i /\ i + (k - (i - 1)) = k + 1
      BY <2>2
    <3> QED
      BY <1>6, <2>2, <3>1, <3>2
  <2> QED
    BY <2>1, <2>2
<1> QED
  BY <1>4, <1>7, <1>8

(* The list has no duplicates, and its nodes are well-formed.              *)
LEMMA ListFacts ==
  ASSUME IInv
  PROVE  /\ list \in Seq(Addrs) /\ Len(list) \in Nat
         /\ \A i \in 1..Len(list) : list[i] \in Addrs /\ list[i] # Null
         /\ \A i, j \in 1..Len(list) : list[i] = list[j] => i = j
         /\ list = <<>> <=> Len(list) = 0
  BY BackendAssumption DEF IInv, TypeOK, ListIntact

(* A node that belongs to a thread is allocated.                           *)
LEMMA OwnedAllocated ==
  \A a \in Addrs : node[a].context \in Threads => a \in Allocated
  BY BackendAssumption DEF Allocated, Free

(* A thread that is registering is not yet in the list.                    *)
LEMMA NotListed ==
  ASSUME IInv, NEW t \in Threads, pc[t] = "registering"
  PROVE  \A i \in 1..Len(list) : list[i] # reg[t] /\ node[list[i]].context # t
  BY DEF IInv, RegisterInv, ListIntact

(* The successor of the visited node is next to it in the list.            *)
LEMMA NextListed ==
  ASSUME IInv, Visiting, bpc # "visit", next # Null
  PROVE  \E i \in 1..Len(list) - 1 : list[i] = visit /\ list[i + 1] = next
<1>1. PICK i \in 1..Len(list) : list[i] = visit
  BY DEF IInv, VisitInv
<1>2. next = (IF i = Len(list) THEN Null ELSE list[i + 1])
  BY <1>1 DEF IInv, VisitInv, ListIntact
<1> QED
  BY <1>1, <1>2, ListFacts

(* A thread is in the list.                                                *)
Registered(t) == pc[t] \in {"logging", "exited"} /\ context[t] = "live"

(* Steps that change no node of the list leave it intact.                  *)
LEMMA ListFrame ==
  ASSUME ListIntact, OwnedInv, list' = list, head' = head,
         list \in Seq(Addrs),
         \A i \in 1..Len(list) : node'[list[i]] = node[list[i]],
         \A t \in Threads : Registered(t)' <=> Registered(t)
  PROVE  ListIntact' /\ OwnedInv'
<1>1. OwnedInv'
  BY DEF OwnedInv
<1>2. \A i \in 1..Len(list) : list[i] \in Allocated'
  BY DEF ListIntact, Allocated
<1>3. ListIntact'
  BY <1>2 DEF ListIntact, Registered
<1> QED
  BY <1>1, <1>3

(* The node that becomes the head.                                         *)
LEMMA ListPush ==
  ASSUME IInv, NEW t \in Threads, pc[t] = "registering",
         list' = <<reg[t]>> \o list, head' = reg[t], node' = node,
         node[reg[t]].next = head, context' = context,
         pc' = [pc EXCEPT ![t] = "logging"]
  PROVE  /\ ListIntact' /\ OwnedInv' /\ list' \in Seq(Addrs)
         /\ Len(list') = Len(list) + 1
         /\ \A i \in 1..Len(list) : list'[i + 1] = list[i]
<1> DEFINE a == reg[t]
<1>1. a \in Addrs /\ node[a].context = t /\ context[t] = "live"
  BY DEF IInv, RegisterInv
<1>2. list' \in Seq(Addrs) /\ Len(list') = Len(list) + 1 /\ list'[1] = a
      /\ \A i \in 1..Len(list) : list'[i + 1] = list[i]
  BY <1>1, ListFacts
<1>3. \A i \in 1..Len(list') : i = 1 \/ (i - 1 \in 1..Len(list) /\ list'[i] = list[i - 1])
  BY <1>2, ListFacts
<1> HIDE DEF a
<1>4. OwnedInv'
  BY <1>1, <1>2, <1>3 DEF OwnedInv, IInv
<1>5. head' = (IF list' = <<>> THEN Null ELSE list'[1])
  BY <1>2, ListFacts DEF a
<1>6. \A i \in 1..Len(list') : list'[i] \in Allocated'
  BY <1>1, <1>2, <1>3, OwnedAllocated DEF IInv, ListIntact, Allocated
<1>7. ASSUME NEW i \in 1..Len(list')
      PROVE  node'[list'[i]].next = (IF i = Len(list') THEN Null ELSE list'[i + 1])
  <2>1. CASE i = 1
    <3>1. node'[list'[i]].next = head
      BY <1>2, <2>1 DEF a
    <3>2. head = (IF list = <<>> THEN Null ELSE list[1])
      BY DEF IInv, ListIntact
    <3> QED
      BY <1>2, <2>1, <3>1, <3>2, ListFacts
  <2>2. CASE i # 1
    <3>1. i - 1 \in 1..Len(list) /\ list'[i] = list[i - 1]
      BY <1>3, <2>2
    <3>2. node[list[i - 1]].next = (IF i - 1 = Len(list) THEN Null ELSE list[(i - 1) + 1])
      BY <3>1 DEF IInv, ListIntact
    <3>3. i # Len(list') => i \in 1..Len(list) /\ list'[i + 1] = list[i]
      BY <1>2, ListFacts
    <3> QED
      BY <1>2, <3>1, <3>2, <3>3, ListFacts
  <2> QED
    BY <2>1, <2>2
<1>8. ASSUME NEW i \in 1..Len(list'), NEW j \in 1..Len(list'), i # j
      PROVE  node'[list'[i]].context # node'[list'[j]].context
  <2>1. ASSUME NEW k \in 2..Len(list')
        PROVE  k - 1 \in 1..Len(list) /\ node'[list'[k]] = node[list[k - 1]]
               /\ node[list[k - 1]].context # t
    BY <1>2, <1>3, ListFacts, NotListed
  <2>2. node'[list'[1]].context = t
    BY <1>1, <1>2
  <2>3. CASE i = 1 \/ j = 1
    BY <1>8, <2>1, <2>2, <2>3
  <2>4. CASE i # 1 /\ j # 1
    <3>1. i \in 2..Len(list') /\ j \in 2..Len(list') /\ i - 1 # j - 1
      BY <1>8, <2>4
    <3>2. /\ i - 1 \in 1..Len(list) /\ node'[list'[i]] = node[list[i - 1]]
          /\ j - 1 \in 1..Len(list) /\ node'[list'[j]] = node[list[j - 1]]
      BY <2>1, <3>1
    <3>3. node[list[i - 1]].context # node[list[j - 1]].context
      BY <3>1, <3>2 DEF IInv, ListIntact
    <3> QED
      BY <3>2, <3>3
  <2> QED
    BY <2>3, <2>4
<1>9. ASSUME NEW u \in Threads
      PROVE  (pc'[u] \in {"logging", "exited"} /\ context'[u] = "live")
               <=> \E i \in 1..Len(list') : node'[list'[i]].context = u
  <2>1. CASE u = t
    <3>1. pc'[u] = "logging" /\ context'[u] = "live"
      BY <1>1, <2>1 DEF IInv, TypeOK
    <3>2. 1 \in 1..Len(list') /\ node'[list'[1]].context = u
      BY <1>1, <1>2, <2>1, ListFacts
    <3> QED
      BY <3>1, <3>2
  <2>2. CASE u # t
    <3>1. (\E i \in 1..Len(list') : node'[list'[i]].context = u)
            <=> \E i \in 1..Len(list) : node[list[i]].context = u
      <4>1. ASSUME NEW i \in 1..Len(list'), node'[list'[i]].context = u
            PROVE  \E k \in 1..Len(list) : node[list[k]].context = u
        BY <1>1, <1>2, <1>3, <2>2, <4>1
      <4>2. ASSUME NEW i \in 1..Len(list), node[list[i]].context = u
            PROVE  \E k \in 1..Len(list') : node'[list'[k]].context = u
        <5>1. i + 1 \in 1..Len(list') /\ list'[i + 1] = list[i]
          BY <1>2, ListFacts
        <5> QED
          BY <4>2, <5>1
      <4> QED
        BY <4>1, <4>2
    <3>2. pc'[u] = pc[u]
      BY <2>2 DEF IInv, TypeOK
    <3> QED
      BY <3>1, <3>2 DEF IInv, ListIntact
  <2> QED
    BY <2>1, <2>2
<1>10. ListIntact'
  BY <1>5, <1>6, <1>7, <1>8, <1>9 DEF ListIntact
<1> QED
  BY <1>2, <1>4, <1>10

(* The node at place i is unlinked: its predecessor, or head, points to    *)
(* its successor.                                                          *)
LEMMA ListDelete ==
  ASSUME IInv, NEW i \in 1..Len(list),
         list' = RemoveFirst(list, list[i]),
         head' = IF i = 1 THEN node[list[1]].next ELSE head,
         \A k \in 1..Len(list) : k # i => 
           node'[list[k]] = IF k = i - 1 THEN [node[list[k]] EXCEPT !.next = node[list[i]].next]
                                         ELSE node[list[k]],
         pc' = pc,
         context' = [context EXCEPT ![node[list[i]].context] = "freed"]
  PROVE  /\ ListIntact' /\ OwnedInv' /\ list' \in Seq(Addrs)
         /\ Len(list') = Len(list) - 1
         /\ \A k \in 1..Len(list) - 1 : list'[k] = IF k < i THEN list[k] ELSE list[k + 1]
<1> DEFINE t == node[list[i]].context
           Old(k) == IF k < i THEN k ELSE k + 1
<1>1. t \in Threads
  BY DEF IInv, OwnedInv
<1>2. list' \in Seq(Addrs) /\ Len(list') = Len(list) - 1
      /\ \A k \in 1..Len(list) - 1 : list'[k] = IF k < i THEN list[k] ELSE list[k + 1]
  BY ListFacts, RemoveFirstOfDistinct
<1>3. ASSUME NEW k \in 1..Len(list')
      PROVE  /\ Old(k) \in 1..Len(list) /\ Old(k) # i /\ list'[k] = list[Old(k)]
             /\ node'[list'[k]].context = node[list[Old(k)]].context
             /\ node'[list'[k]].next =
                  IF Old(k) = i - 1 THEN node[list[i]].next ELSE node[list[Old(k)]].next
  <2>1. Old(k) \in 1..Len(list) /\ Old(k) # i /\ list'[k] = list[Old(k)]
    BY <1>2, ListFacts
  <2>2. node[list[Old(k)]] \in [context : Threads \cup {Null}, next : Address]
    BY <2>1, ListFacts DEF IInv, TypeOK
  <2> HIDE DEF Old
  <2> QED
    BY <2>1, <2>2
<1>4. \A k, l \in 1..Len(list') : k # l => Old(k) # Old(l)
  BY ListFacts, <1>2
<1>5. OwnedInv'
  BY <1>3 DEF OwnedInv, IInv
<1>6. head' = (IF list' = <<>> THEN Null ELSE list'[1])
  <2>0. \A s \in Seq(Addrs) : s = <<>> <=> Len(s) = 0
    OBVIOUS
  <2>1. Len(list) \in Nat /\ 1 \in 1..Len(list) /\ list # <<>>
    BY ListFacts
  <2>2. /\ head = (IF list = <<>> THEN Null ELSE list[1])
        /\ node[list[1]].next = (IF 1 = Len(list) THEN Null ELSE list[1 + 1])
    BY <2>1 DEF IInv, ListIntact
  <2>3. list' # <<>> => list'[1] = IF i = 1 THEN list[1 + 1] ELSE list[1]
    BY <1>2, <2>0, <2>1
  <2>4. list' = <<>> <=> Len(list) = 1
    <3>1. list' = <<>> <=> Len(list') = 0
      BY ONLY <1>2, <2>0, Zenon
    <3> QED
      BY ONLY <1>2, <2>1, <3>1
  <2> QED
    BY <2>1, <2>2, <2>3, <2>4
<1>7. ASSUME NEW k \in 1..Len(list')
      PROVE  node'[list'[k]].next = (IF k = Len(list') THEN Null ELSE list'[k + 1])
  <2>1. \A l \in 1..Len(list) :
          node[list[l]].next = (IF l = Len(list) THEN Null ELSE list[l + 1])
    BY DEF IInv, ListIntact
  <2>2. k # Len(list') =>
          list'[k + 1] = IF k + 1 < i THEN list[k + 1] ELSE list[(k + 1) + 1]
    <3>1. k # Len(list') => k + 1 \in 1..Len(list) - 1
      BY <1>2, ListFacts
    <3> QED
      BY <1>2, <3>1
  <2>3. CASE k < i - 1
    <3>1. Old(k) = k /\ k # Len(list') /\ k # Len(list) /\ k + 1 < i
      BY <1>2, <2>3, ListFacts
    <3>2. node'[list'[k]].next = node[list[k]].next /\ k \in 1..Len(list)
      BY <1>3, <2>3, <3>1
    <3> QED
      BY <2>1, <2>2, <3>1, <3>2
  <2>4. CASE k = i - 1
    <3>1. Old(k) = i - 1 /\ ~(k + 1 < i) /\ (k + 1) + 1 = i + 1
          /\ (k = Len(list') <=> i = Len(list))
      BY <1>2, <2>4, ListFacts
    <3>2. node'[list'[k]].next = node[list[i]].next
      BY <1>3, <3>1
    <3> QED
      BY <2>1, <2>2, <3>1, <3>2
  <2>5. CASE k > i - 1
    <3>1. Old(k) = k + 1 /\ Old(k) # i - 1 /\ k + 1 \in 1..Len(list)
          /\ ~(k + 1 < i) /\ (k = Len(list') <=> k + 1 = Len(list))
      BY <1>2, <2>5, ListFacts
    <3>2. node'[list'[k]].next = node[list[k + 1]].next
      BY <1>3, <3>1
    <3> QED
      BY <2>1, <2>2, <3>1, <3>2
  <2> QED
    BY <1>2, <2>3, <2>4, <2>5, ListFacts
<1> HIDE DEF Old
<1>8. \A k \in 1..Len(list') : list'[k] \in Allocated'
  <2> SUFFICES ASSUME NEW k \in 1..Len(list') PROVE list'[k] \in Addrs /\ node'[list'[k]] # Free
    BY DEF Allocated
  <2>1. node'[list'[k]].context \in Threads
    BY <1>5 DEF OwnedInv
  <2> QED
    BY <1>2, <2>1, BackendAssumption DEF Free
<1>9. \A k, l \in 1..Len(list') : k # l => node'[list'[k]].context # node'[list'[l]].context
  BY <1>3, <1>4 DEF IInv, ListIntact
<1>10. ASSUME NEW u \in Threads
       PROVE  (pc'[u] \in {"logging", "exited"} /\ context'[u] = "live")
                <=> \E k \in 1..Len(list') : node'[list'[k]].context = u
  <2>1. CASE u = t
    <3>1. context'[u] = "freed"
      BY <1>1, <2>1 DEF IInv, TypeOK
    <3>2. ASSUME NEW k \in 1..Len(list') PROVE node'[list'[k]].context # u
      BY <1>3, <2>1 DEF IInv, ListIntact
    <3> QED
      BY <3>1, <3>2
  <2>2. CASE u # t
    <3>1. context'[u] = context[u]
      BY <1>1, <2>2 DEF IInv, TypeOK
    <3>2. ASSUME NEW l \in 1..Len(list), node[list[l]].context = u
          PROVE  \E k \in 1..Len(list') : node'[list'[k]].context = u
      <4> DEFINE k == IF l < i THEN l ELSE l - 1
      <4>1. l # i
        BY <2>2, <3>2
      <4>2. k \in 1..Len(list') /\ Old(k) = l
        BY <1>2, <4>1, ListFacts DEF Old
      <4> QED
        BY <1>3, <3>2, <4>2
    <3>3. ASSUME NEW k \in 1..Len(list'), node'[list'[k]].context = u
          PROVE  \E l \in 1..Len(list) : node[list[l]].context = u
      BY <1>3, <3>3
    <3> QED
      BY <3>1, <3>2, <3>3 DEF IInv, ListIntact
  <2> QED
    BY <2>1, <2>2
<1>11. ListIntact'
  BY <1>6, <1>7, <1>8, <1>9, <1>10 DEF ListIntact
<1> QED
  BY <1>2, <1>5, <1>11

-----------------------------------------------------------------------------
(* What the backend does when it unlinks the node at place i and goes on.  *)
Deletes(i) ==
  /\ Visiting /\ bpc # "visit" /\ list[i] = visit
  /\ bpc \in {"remove", "walk"}
  /\ list' = RemoveFirst(list, list[i]) /\ synced' = synced \ {visit}
  /\ head' = IF i = 1 THEN node[list[1]].next ELSE head
  /\ node' \in [Addrs -> [context : Threads \cup {Null}, next : Address]]
  /\ \A k \in 1..Len(list) : k # i =>
       node'[list[k]] = IF k = i - 1 THEN [node[list[k]] EXCEPT !.next = node[list[i]].next]
                                     ELSE node[list[k]]
  /\ \A a \in Addrs : (\A k \in 1..Len(list) : list[k] # a) => node'[a] = node[a]
  /\ context' = [context EXCEPT ![node[list[i]].context] = "freed"]
  /\ GoTo(next)
  /\ UNCHANGED <<threadVars, queueVars, draining, next, walkVars, running, main>>

(* If the compare-and-swap succeeds, the visited node was the first.       *)
LEMMA RemoveHeadDeletes ==
  ASSUME IInv, RemoveHead, head = visit
  PROVE  \E i \in 1..Len(list) : Deletes(i)
<1>1. bpc = "remove" /\ Visiting
  BY DEF RemoveHead, Visiting
<1>2. PICK i \in 1..Len(list) : list[i] = visit
  BY <1>1 DEF IInv, VisitInv
<1>3. i = 1
  BY <1>2, ListFacts DEF IInv, ListIntact
<1>4. node' = [node EXCEPT ![visit] = Free] /\ head' = node[visit].next /\ DeleteNode(visit)
      /\ UNCHANGED <<threadVars, queueVars, draining, next, walkVars, running, main>>
  BY DEF RemoveHead
<1>5. visit \in Addrs /\ Free \in [context : Threads \cup {Null}, next : Address]
  BY <1>2, ListFacts DEF Free, Address
<1>6. node' \in [Addrs -> [context : Threads \cup {Null}, next : Address]]
  BY <1>4, <1>5 DEF IInv, TypeOK
<1>7. \A k \in 1..Len(list) : k # i => node'[list[k]] = node[list[k]]
  BY <1>2, <1>4, ListFacts DEF IInv, TypeOK
<1>8. \A a \in Addrs : a # visit => node'[a] = node[a]
  BY <1>4 DEF IInv, TypeOK
<1>9. \A a \in Addrs : (\A k \in 1..Len(list) : list[k] # a) => node'[a] = node[a]
  BY <1>2, <1>8
<1>10. \A k \in 1..Len(list) : k # i =>
         node'[list[k]] = IF k = i - 1 THEN [node[list[k]] EXCEPT !.next = node[list[i]].next]
                                       ELSE node[list[k]]
  BY <1>3, <1>7
<1>11. list' = RemoveFirst(list, list[i]) /\ synced' = synced \ {visit}
       /\ context' = [context EXCEPT ![node[list[i]].context] = "freed"] /\ GoTo(next)
  BY <1>2, <1>4 DEF DeleteNode
<1>12. head' = IF i = 1 THEN node[list[1]].next ELSE head
  BY <1>2, <1>3, <1>4
<1>13. Deletes(i)
  BY <1>1, <1>2, <1>4, <1>6, <1>9, <1>10, <1>11, <1>12, Zenon DEF Deletes
<1> QED
  BY <1>13

(* The walk always finds the node: the null check of the code is never     *)
(* needed, and previous is the node before it.                             *)
LEMMA UnlinkNodeDeletes ==
  ASSUME IInv, UnlinkNode
  PROVE  \E i \in 1..Len(list) : Deletes(i)
<1>1. bpc = "walk" /\ Visiting
  BY DEF UnlinkNode, Visiting
<1>2. PICK k, i \in 1..Len(list) : /\ k <= i /\ list[k] = current /\ list[i] = visit
                                   /\ k = i => k > 1 /\ previous = list[k - 1]
  BY <1>1 DEF IInv, WalkInv
<1>3. current = visit /\ current # Null
  BY <1>2, ListFacts DEF UnlinkNode
<1>4. k = i /\ i > 1 /\ i - 1 \in 1..Len(list) /\ previous = list[i - 1] /\ previous # visit
  BY <1>2, <1>3, ListFacts
<1>5. visit \in Addrs /\ previous \in Addrs
  BY <1>2, <1>4, ListFacts
<1>6. node' = [node EXCEPT ![previous].next = node[visit].next, ![visit] = Free]
      /\ DeleteNode(visit) /\ head' = head
      /\ UNCHANGED <<threadVars, queueVars, draining, next, walkVars, running, main>>
  BY <1>3 DEF UnlinkNode
<1>7. /\ node'[visit] = Free
      /\ node'[previous] = [node[previous] EXCEPT !.next = node[visit].next]
      /\ \A a \in Addrs : a # visit /\ a # previous => node'[a] = node[a]
  BY <1>4, <1>5, <1>6 DEF IInv, TypeOK
<1>8. node' \in [Addrs -> [context : Threads \cup {Null}, next : Address]]
  BY <1>5, <1>6 DEF IInv, TypeOK, Free, Address
<1>9. \A l \in 1..Len(list) : l # i =>
        node'[list[l]] = IF l = i - 1 THEN [node[list[l]] EXCEPT !.next = node[list[i]].next]
                                      ELSE node[list[l]]
  BY <1>2, <1>4, <1>7, ListFacts
<1>10. \A a \in Addrs : (\A l \in 1..Len(list) : list[l] # a) => node'[a] = node[a]
  BY <1>2, <1>4, <1>7
<1>11. list' = RemoveFirst(list, list[i]) /\ synced' = synced \ {visit}
       /\ context' = [context EXCEPT ![node[list[i]].context] = "freed"] /\ GoTo(next)
  BY <1>2, <1>6 DEF DeleteNode
<1>12. head' = IF i = 1 THEN node[list[1]].next ELSE head
  BY <1>4, <1>6
<1>13. Deletes(i)
  BY <1>1, <1>2, <1>6, <1>8, <1>9, <1>10, <1>11, <1>12, Zenon DEF Deletes
<1> QED
  BY <1>13

(* The compare-and-swap of remove_and_delete_node() fails.                 *)
StartWalk ==
  /\ bpc = "remove" /\ head # visit
  /\ current' = head /\ previous' = Null /\ bpc' = "walk"
  /\ UNCHANGED <<context, visit, listVars>>
  /\ UNCHANGED <<threadVars, queueVars, draining, next, running, main>>

(* The two outcomes of a turn of the compare-and-swap loop.                *)
Pushes(t) == PushNode(t) /\ head = node[reg[t]].next
Retries(t) == PushNode(t) /\ head # node[reg[t]].next

(* Every step is one of these.                                             *)
LEMMA StepCases ==
  ASSUME IInv, [Next]_vars
  PROVE  \/ CreateInstance \/ StopBackend \/ JoinBackend
         \/ \E t \in Threads :
              RegisterThread(t) \/ Pushes(t) \/ Retries(t) \/ Log(t) \/ Exit(t)
         \/ CheckRunning \/ CheckDrained \/ PollThreads
         \/ \E t \in Threads, load \in 0..Slots : ReserveRead(t, load)
         \/ ProcessEvent \/ CheckAlive \/ StartWalk \/ WalkOn \/ WalkRaces
         \/ \E i \in 1..Len(list) : Deletes(i)
         \/ UNCHANGED vars
<1>1. RemoveHead /\ head # visit => StartWalk
  BY DEF RemoveHead, StartWalk
<1> QED
  BY <1>1, RemoveHeadDeletes, UnlinkNodeDeletes
     DEF Next, ThreadStep, BackendStep, PollVisit, Pushes, Retries, Terminated

-----------------------------------------------------------------------------
(* One lemma for each part of the invariant, one step for each action that *)
(* can disturb it.                                                         *)

(* Types: new values are addresses, and counts stay within the capacity.   *)
LEMMA StepType == IInv /\ [Next]_vars => TypeOK'
<1> SUFFICES ASSUME IInv, [Next]_vars PROVE TypeOK'
  OBVIOUS
<1>0. TypeOK
  BY DEF IInv
<1> USE BackendAssumption, <1>0
        DEF threadVars, queueVars, walkVars, backendVars, listVars
<1>1. CASE CreateInstance \/ StopBackend \/ JoinBackend
  BY <1>1 DEF TypeOK, CreateInstance, StopBackend, JoinBackend
<1>2. ASSUME NEW t \in Threads, RegisterThread(t) PROVE TypeOK'
  BY <1>2 DEF TypeOK, RegisterThread, Address
<1>3. ASSUME NEW t \in Threads, Pushes(t) PROVE TypeOK'
  <2>1. pc[t] = "registering" /\ list' = <<reg[t]>> \o list /\ head' = reg[t]
        /\ UNCHANGED <<alive, queueVars, backendVars, node, synced, running, main>>
        /\ pc' = [pc EXCEPT ![t] = "logging"] /\ reg' = [reg EXCEPT ![t] = Null]
        /\ node[reg[t]].next = head
    BY <1>3 DEF Pushes, PushNode
  <2>2. list' \in Seq(Addrs)
    BY <2>1, ListPush
  <2> QED
    BY <2>1, <2>2 DEF TypeOK, Address
<1>4. ASSUME NEW t \in Threads, Retries(t) PROVE TypeOK'
  <2>1. pc[t] = "registering" /\ node' = [node EXCEPT ![reg[t]].next = head]
        /\ UNCHANGED <<head, list, pc, reg, alive, queueVars, backendVars, synced, running,
                       main>>
    BY <1>4 DEF Retries, PushNode
  <2>2. reg[t] \in Addrs
    BY <2>1 DEF IInv, RegisterInv
  <2>3. node' \in [Addrs -> [context : Threads \cup {Null}, next : Address]]
    BY <2>1, <2>2 DEF TypeOK
  <2> QED
    BY <2>1, <2>3 DEF TypeOK
<1>5. ASSUME NEW t \in Threads, Log(t) PROVE TypeOK'
  <2>1. queued' \in [Threads -> Count]
    BY <1>5 DEF TypeOK, Log, Count
  <2> QED
    BY <1>5, <2>1 DEF TypeOK, Log
<1>6. ASSUME NEW t \in Threads, Exit(t) PROVE TypeOK'
  BY <1>6 DEF TypeOK, Exit
<1>7. CASE CheckRunning
  BY <1>7 DEF TypeOK, CheckRunning
<1>8. CASE CheckDrained \/ PollThreads
  <2>1. CASE CheckDrained
    BY <2>1 DEF TypeOK, CheckDrained
  <2>2. CASE PollThreads
    <3>1. synced' \subseteq Addrs
      BY <2>2, ListFacts DEF PollThreads
    <3> QED
      BY <2>2, <3>1 DEF TypeOK, PollThreads, GoTo
  <2> QED
    BY <1>8, <2>1, <2>2
<1>9. ASSUME NEW t \in Threads, NEW load \in 0..Slots, ReserveRead(t, load) PROVE TypeOK'
  <2>1. visit \in Addrs
    <3>1. Visiting
      BY <1>9 DEF ReserveRead, Visiting
    <3> QED
      BY <3>1, ListFacts DEF IInv, VisitInv
  <2>2. next' \in Address
    BY <1>9, <2>1 DEF TypeOK, ReserveRead
  <2>3. cached' \in [Threads -> Count] /\ known' \in [Threads -> Count]
    BY <1>9 DEF TypeOK, ReserveRead, Count
  <2> QED
    BY <1>9, <2>2, <2>3 DEF TypeOK, ReserveRead
<1>10. CASE ProcessEvent
  <2>1. Visiting /\ bpc = "process"
    BY <1>10 DEF ProcessEvent, Visiting
  <2> DEFINE t == node[visit].context
  <2>2. t \in Threads
    BY <2>1 DEF IInv, VisitInv, OwnedInv
  <2>3. 0 < cached[t] /\ cached[t] <= known[t] /\ known[t] <= queued[t]
    BY <2>1, <2>2 DEF IInv, VisitInv, CountInv
  <2>4. TakeEvent(t)
    BY <1>10 DEF ProcessEvent
  <2> HIDE DEF t
  <2>5. queued[t] \in Count /\ cached[t] \in Count /\ known[t] \in Count
    BY <2>2 DEF TypeOK
  <2>6. queued[t] - 1 \in Count /\ cached[t] - 1 \in Count /\ known[t] - 1 \in Count
    BY <2>3, <2>5 DEF Count
  <2>7. /\ queued' \in [Threads -> Count] /\ cached' \in [Threads -> Count]
        /\ known' \in [Threads -> Count]
    BY <2>4, <2>6 DEF TypeOK, TakeEvent
  <2> QED
    BY <1>10, <2>7 DEF TypeOK, ProcessEvent, GoTo
<1>11. CASE CheckAlive
  BY <1>11 DEF TypeOK, CheckAlive, GoTo
<1>12. CASE StartWalk
  BY <1>12 DEF TypeOK, StartWalk, Address
<1>13. CASE WalkOn
  <2>1. current \in Addrs
    BY <1>13 DEF TypeOK, WalkOn, Address
  <2> QED
    BY <1>13, <2>1 DEF TypeOK, WalkOn
<1>14. ASSUME NEW i \in 1..Len(list), Deletes(i) PROVE TypeOK'
  <2>1. list' \in Seq(Addrs)
    BY <1>14, ListFacts, RemoveFirstOfDistinct DEF Deletes
  <2>2. head' \in Address
    <3>1. list[1] \in Addrs
      BY ListFacts
    <3> QED
      BY <1>14, <3>1 DEF TypeOK, Deletes
  <2>3. current' \in Address /\ previous' \in Address
    BY <1>14 DEF TypeOK, Deletes
  <2>4. context' \in [Threads -> {"none", "live", "freed"}]
    BY <1>14 DEF TypeOK, Deletes
  <2> QED
    BY <1>14, <2>1, <2>2, <2>3, <2>4 DEF TypeOK, Deletes, GoTo
<1>15. CASE WalkRaces
  BY <1>15 DEF TypeOK, WalkRaces
<1>16. CASE UNCHANGED vars
  BY <1>16 DEF TypeOK, vars
<1> QED
  BY <1>1, <1>2, <1>3, <1>4, <1>5, <1>6, <1>7, <1>8, <1>9, <1>10, <1>11, <1>12, <1>13,
     <1>14, <1>15, <1>16, StepCases

(* Pushes and unlinks leave the list intact; nothing else touches it.      *)
LEMMA StepList == IInv /\ [Next]_vars => ListIntact' /\ OwnedInv'
<1> SUFFICES ASSUME IInv, [Next]_vars PROVE ListIntact' /\ OwnedInv'
  OBVIOUS
<1>0. TypeOK /\ ListIntact /\ OwnedInv /\ RegisterInv /\ list \in Seq(Addrs)
  BY DEF IInv, TypeOK
<1>1. CASE UNCHANGED <<head, node, list, pc, context>>
  BY <1>0, <1>1, ListFrame DEF Registered
<1>2. ASSUME NEW t \in Threads, RegisterThread(t) PROVE ListIntact' /\ OwnedInv'
  <2>1. PICK a \in Addrs \ Allocated : node' = [node EXCEPT ![a] = [context |-> t, next |-> head]]
    BY <1>2 DEF RegisterThread
  <2>2. \A i \in 1..Len(list) : node'[list[i]] = node[list[i]]
    BY <1>0, <2>1, ListFacts DEF ListIntact, TypeOK
  <2>3. \A u \in Threads : Registered(u)' <=> Registered(u)
    BY <1>0, <1>2 DEF RegisterThread, Registered, TypeOK
  <2> QED
    BY <1>0, <1>2, <2>2, <2>3, ListFrame DEF RegisterThread
<1>3. ASSUME NEW t \in Threads, Pushes(t) PROVE ListIntact' /\ OwnedInv'
  <2>1. pc[t] = "registering" /\ list' = <<reg[t]>> \o list /\ head' = reg[t]
        /\ node[reg[t]].next = head /\ pc' = [pc EXCEPT ![t] = "logging"]
        /\ node' = node /\ context' = context
    BY <1>3 DEF Pushes, PushNode, backendVars
  <2> QED
    BY <2>1, ListPush
<1>4. ASSUME NEW t \in Threads, Retries(t) PROVE ListIntact' /\ OwnedInv'
  <2>1. pc[t] = "registering" /\ node' = [node EXCEPT ![reg[t]].next = head]
        /\ UNCHANGED <<head, list, pc, context>>
    BY <1>4 DEF Retries, PushNode, backendVars
  <2>2. \A i \in 1..Len(list) : node'[list[i]] = node[list[i]]
    BY <1>0, <2>1, NotListed, ListFacts DEF TypeOK
  <2> QED
    BY <1>0, <2>1, <2>2, ListFrame DEF Registered
<1>5. ASSUME NEW t \in Threads, Exit(t) PROVE ListIntact' /\ OwnedInv'
  <2>1. \A u \in Threads : Registered(u)' <=> Registered(u)
    BY <1>0, <1>5 DEF Exit, Registered, TypeOK, RegisterInv, backendVars
  <2>2. list' = list /\ head' = head /\ node' = node
    BY <1>5 DEF Exit, listVars
  <2> QED
    BY <1>0, <2>1, <2>2, ListFrame
<1>6. ASSUME NEW i \in 1..Len(list), Deletes(i) PROVE ListIntact' /\ OwnedInv'
  <2>1. pc' = pc
    BY <1>6 DEF Deletes, threadVars
  <2> QED
    BY <1>6, <2>1, ListDelete DEF Deletes
<1> QED
  BY <1>1, <1>2, <1>3, <1>4, <1>5, <1>6, StepCases
     DEF CreateInstance, StopBackend, JoinBackend, Log, CheckRunning, CheckDrained,
         PollThreads, ReserveRead, ProcessEvent, CheckAlive, StartWalk, WalkOn, WalkRaces,
         vars, threadVars, backendVars, listVars

(* A thread's context is made at registration and outlives it.             *)
LEMMA StepRegister == IInv /\ [Next]_vars => RegisterInv'
<1> SUFFICES ASSUME IInv, [Next]_vars PROVE RegisterInv'
  OBVIOUS
<1>0. TypeOK /\ RegisterInv
  BY DEF IInv
<1>1. CASE UNCHANGED <<threadVars, context, node>>
  BY <1>0, <1>1 DEF RegisterInv, threadVars
<1>2. ASSUME NEW t \in Threads, RegisterThread(t) PROVE RegisterInv'
  <2>1. PICK a \in Addrs \ Allocated : /\ node' = [node EXCEPT ![a] = [context |-> t, next |-> head]]
                                       /\ reg' = [reg EXCEPT ![t] = a]
    BY <1>2 DEF RegisterThread
  <2>2. ASSUME NEW u \in Threads, u # t, pc[u] = "registering"
        PROVE  reg'[u] \in Addrs /\ node'[reg'[u]].context = u
    BY <1>0, <2>1, <2>2, OwnedAllocated DEF RegisterInv, TypeOK
  <2>3. reg'[t] \in Addrs /\ node'[reg'[t]].context = t
    BY <1>0, <2>1 DEF TypeOK
  <2> QED
    BY <1>0, <1>2, <2>2, <2>3 DEF RegisterThread, RegisterInv, TypeOK
<1>3. ASSUME NEW t \in Threads, Pushes(t) PROVE RegisterInv'
  BY <1>0, <1>3 DEF Pushes, PushNode, RegisterInv, TypeOK, backendVars
<1>4. ASSUME NEW t \in Threads, Retries(t) PROVE RegisterInv'
  <2>1. node' = [node EXCEPT ![reg[t]].next = head] /\ UNCHANGED <<pc, reg, alive, context>>
    BY <1>4 DEF Retries, PushNode, backendVars
  <2>2. \A a \in Addrs : node'[a].context = node[a].context
    BY <1>0, <2>1 DEF TypeOK
  <2> QED
    BY <1>0, <2>1, <2>2 DEF RegisterInv
<1>5. ASSUME NEW t \in Threads, Exit(t) PROVE RegisterInv'
  BY <1>0, <1>5 DEF Exit, RegisterInv, TypeOK, backendVars, listVars
<1>6. ASSUME NEW i \in 1..Len(list), Deletes(i) PROVE RegisterInv'
  <2> DEFINE t == node[list[i]].context
  <2>1. ~alive[t] /\ t \in Threads
    BY <1>6 DEF Deletes, IInv, VisitInv, OwnedInv
  <2>2. pc[t] = "exited"
    BY <2>1 DEF IInv, ListIntact, RegisterInv
  <2>3. context' = [context EXCEPT ![t] = "freed"] /\ UNCHANGED <<pc, reg, alive>>
    BY <1>6 DEF Deletes, threadVars
  <2>4. ASSUME NEW u \in Threads, pc[u] = "registering"
        PROVE  node'[reg[u]] = node[reg[u]]
    BY <1>0, <1>6, <2>4, NotListed DEF Deletes, RegisterInv
  <2> HIDE DEF t
  <2> QED
    BY <1>0, <2>1, <2>2, <2>3, <2>4 DEF RegisterInv, TypeOK
<1> QED
  BY <1>1, <1>2, <1>3, <1>4, <1>5, <1>6, StepCases
     DEF CreateInstance, StopBackend, JoinBackend, Log, CheckRunning, CheckDrained,
         PollThreads, ReserveRead, ProcessEvent, CheckAlive, StartWalk, WalkOn, WalkRaces,
         vars, backendVars, listVars

(* What a step of a logging thread does to the list as the backend sees    *)
(* it: d nodes are pushed, and the ones that were there stay as they are.  *)
Grows(d) ==
  /\ d \in {0, 1} /\ Len(list') = Len(list) + d
  /\ \A i \in 1..Len(list) :
       /\ list'[i + d] = list[i] /\ node'[list[i]] = node[list[i]]
       /\ ~alive[node[list[i]].context] => ~alive'[node[list[i]].context]
  /\ UNCHANGED <<bpc, draining, visit, next, current, previous, cached, known, synced>>

(* Logging threads only push to the list.                                  *)
LEMMA ThreadsGrow ==
  ASSUME IInv, NEW t \in Threads,
         RegisterThread(t) \/ Pushes(t) \/ Retries(t) \/ Log(t) \/ Exit(t)
  PROVE  \E d \in {0, 1} : Grows(d)
<1>0. TypeOK /\ ListIntact /\ OwnedInv /\ RegisterInv
  BY DEF IInv
<1>1. UNCHANGED <<bpc, draining, visit, next, current, previous, cached, known, synced>>
  BY DEF RegisterThread, Pushes, Retries, PushNode, Log, Exit, queueVars, backendVars,
         walkVars, listVars
<1>2. CASE RegisterThread(t)
  <2>1. PICK a \in Addrs \ Allocated : node' = [node EXCEPT ![a] = [context |-> t, next |-> head]]
    BY <1>2 DEF RegisterThread
  <2>2. \A i \in 1..Len(list) : node'[list[i]] = node[list[i]]
    BY <1>0, <2>1, ListFacts DEF ListIntact, TypeOK
  <2>3. \A i \in 1..Len(list) : node[list[i]].context \in Threads \ {t}
    BY <1>0, <1>2 DEF RegisterThread, OwnedInv, ListIntact
  <2>4. alive' = [alive EXCEPT ![t] = TRUE] /\ list' = list
    BY <1>2 DEF RegisterThread
  <2>5. Grows(0)
    BY <1>0, <1>1, <2>2, <2>3, <2>4, ListFacts DEF Grows, TypeOK
  <2> QED
    BY <2>5
<1>3. CASE Pushes(t)
  <2>1. pc[t] = "registering" /\ list' = <<reg[t]>> \o list /\ head' = reg[t]
        /\ node[reg[t]].next = head /\ pc' = [pc EXCEPT ![t] = "logging"]
        /\ node' = node /\ context' = context /\ alive' = alive
    BY <1>3 DEF Pushes, PushNode, backendVars
  <2>2. Len(list') = Len(list) + 1 /\ \A i \in 1..Len(list) : list'[i + 1] = list[i]
    BY <2>1, ListPush
  <2>3. Grows(1)
    BY <1>1, <2>1, <2>2 DEF Grows
  <2> QED
    BY <2>3
<1>4. CASE Retries(t)
  <2>1. pc[t] = "registering" /\ node' = [node EXCEPT ![reg[t]].next = head]
        /\ UNCHANGED <<list, alive>>
    BY <1>4 DEF Retries, PushNode
  <2>2. \A i \in 1..Len(list) : node'[list[i]] = node[list[i]]
    BY <1>0, <2>1, NotListed, ListFacts DEF TypeOK
  <2>3. Grows(0)
    BY <1>1, <2>1, <2>2, ListFacts DEF Grows
  <2> QED
    BY <2>3
<1>5. CASE Log(t) \/ Exit(t)
  <2>1. list' = list /\ node' = node /\ alive' \in {alive, [alive EXCEPT ![t] = FALSE]}
    BY <1>5 DEF Log, Exit, threadVars, listVars
  <2>2. Grows(0)
    BY <1>0, <1>1, <2>1, ListFacts DEF Grows, TypeOK, OwnedInv
  <2> QED
    BY <2>2
<1> QED
  BY <1>2, <1>3, <1>4, <1>5

(* The visited node stays in the list until the backend goes on.           *)
LEMMA StepVisit == IInv /\ [Next]_vars => VisitInv'
<1> SUFFICES ASSUME IInv, [Next]_vars PROVE VisitInv'
  OBVIOUS
<1>0. TypeOK /\ VisitInv
  BY DEF IInv
<1>1. CASE CreateInstance \/ StopBackend \/ JoinBackend \/ UNCHANGED vars
  BY <1>0, <1>1 DEF CreateInstance, StopBackend, JoinBackend, VisitInv, Visiting, vars,
                    threadVars, queueVars, backendVars, listVars
<1>2. ASSUME NEW t \in Threads,
             RegisterThread(t) \/ Pushes(t) \/ Retries(t) \/ Log(t) \/ Exit(t)
      PROVE  VisitInv'
  <2> SUFFICES ASSUME Visiting' PROVE VisitInv'
    BY DEF VisitInv
  <2>1. PICK d \in {0, 1} : Grows(d)
    BY <1>2, ThreadsGrow
  <2>2. Visiting
    BY <2>1 DEF Grows, Visiting
  <2>3. PICK i \in 1..Len(list) : list[i] = visit
    BY <1>0, <2>2 DEF VisitInv
  <2>4. i + d \in 1..Len(list') /\ list'[i + d] = visit'
    BY <2>1, <2>3, ListFacts DEF Grows
  <2>5. node'[visit'] = node[visit]
        /\ (~alive[node[visit].context] => ~alive'[node[visit].context])
    BY <2>1, <2>3 DEF Grows
  <2> QED
    BY <1>0, <2>1, <2>2, <2>4, <2>5 DEF VisitInv, Grows
<1>3. CASE CheckRunning \/ CheckDrained
  BY <1>3 DEF CheckRunning, CheckDrained, VisitInv, Visiting
<1>4. CASE PollThreads
  <2>1. CASE head = Null
    BY <1>4, <2>1 DEF PollThreads, GoTo, VisitInv, Visiting
  <2>2. CASE head # Null
    <3>1. bpc' = "visit" /\ visit' = head /\ list' = list
      BY <1>4, <2>2 DEF PollThreads, GoTo
    <3>2. 1 \in 1..Len(list) /\ list[1] = head
      BY <2>2, ListFacts DEF IInv, ListIntact
    <3> QED
      BY <3>1, <3>2 DEF VisitInv, Visiting
  <2> QED
    BY <2>1, <2>2
<1>5. ASSUME NEW t \in Threads, NEW load \in 0..Slots, ReserveRead(t, load) PROVE VisitInv'
  <2>1. Visiting /\ node[visit].context = t
    BY <1>5 DEF ReserveRead, Visiting
  <2>2. cached'[t] = load
    BY <1>0, <1>5 DEF ReserveRead, TypeOK
  <2> QED
    BY <1>0, <1>5, <2>1, <2>2 DEF ReserveRead, VisitInv, listVars
<1>6. CASE GoTo(next) /\ UNCHANGED list /\ Visiting /\ bpc # "visit"
  <2>1. CASE next = Null
    BY <1>6, <2>1 DEF GoTo, VisitInv, Visiting
  <2>2. CASE next # Null
    <3>1. bpc' = "visit" /\ visit' = next
      BY <1>6, <2>2 DEF GoTo
    <3>2. PICK i \in 1..Len(list) - 1 : list[i + 1] = next
      BY <1>6, <2>2, NextListed
    <3>3. i + 1 \in 1..Len(list)
      BY ListFacts
    <3> QED
      BY <1>6, <3>1, <3>2, <3>3 DEF VisitInv, Visiting
  <2> QED
    BY <2>1, <2>2
<1>7. CASE ProcessEvent
  BY <1>6, <1>7 DEF ProcessEvent, Visiting, listVars
<1>8. CASE CheckAlive
  <2>1. Visiting /\ bpc = "empty" /\ UNCHANGED <<list, node, alive, next>>
    BY <1>8 DEF CheckAlive, Visiting, listVars, threadVars
  <2>2. CASE alive[node[visit].context]
    BY <1>6, <1>8, <2>1, <2>2 DEF CheckAlive
  <2>3. CASE ~alive[node[visit].context]
    BY <1>0, <1>8, <2>1, <2>3 DEF CheckAlive, VisitInv
  <2> QED
    BY <2>2, <2>3
<1>9. CASE StartWalk \/ WalkOn
  BY <1>0, <1>9 DEF StartWalk, WalkOn, VisitInv, Visiting, threadVars, listVars
<1>10. ASSUME NEW i \in 1..Len(list), Deletes(i) PROVE VisitInv'
  <2>1. CASE next = Null
    BY <1>10, <2>1 DEF Deletes, GoTo, VisitInv, Visiting
  <2>2. CASE next # Null
    <3>1. bpc' = "visit" /\ visit' = next
      BY <1>10, <2>2 DEF Deletes, GoTo
    <3>2. PICK k \in 1..Len(list) - 1 : list[k] = visit /\ list[k + 1] = next
      BY <1>10, <2>2, NextListed DEF Deletes
    <3>3. k = i
      BY <1>10, <3>2, ListFacts DEF Deletes
    <3>4. Len(list') = Len(list) - 1 /\ list'[i] = list[i + 1]
      BY <1>10, <3>2, <3>3, ListFacts, RemoveFirstOfDistinct DEF Deletes
    <3> QED
      BY <3>1, <3>2, <3>3, <3>4 DEF VisitInv, Visiting
  <2> QED
    BY <2>1, <2>2
<1>11. CASE WalkRaces
  BY <1>11 DEF WalkRaces, VisitInv, Visiting
<1> QED
  BY <1>1, <1>2, <1>3, <1>4, <1>5, <1>7, <1>8, <1>9, <1>10, <1>11, StepCases

(* The walk reaches the visited node with its predecessor at hand.         *)
LEMMA StepWalk == IInv /\ [Next]_vars => WalkInv'
<1> SUFFICES ASSUME IInv, [Next]_vars, bpc' = "walk"
             PROVE  \E k, i \in 1..Len(list') :
                      /\ k <= i /\ list'[k] = current' /\ list'[i] = visit'
                      /\ k = i => k > 1 /\ previous' = list'[k - 1]
  BY DEF WalkInv
<1>0. TypeOK /\ WalkInv
  BY DEF IInv
<1>1. CASE StopBackend \/ JoinBackend \/ UNCHANGED vars
  BY <1>0, <1>1 DEF StopBackend, JoinBackend, WalkInv, vars, walkVars, backendVars, listVars
<1>2. ASSUME NEW t \in Threads,
             RegisterThread(t) \/ Pushes(t) \/ Retries(t) \/ Log(t) \/ Exit(t)
      PROVE  \E k, i \in 1..Len(list') :
               /\ k <= i /\ list'[k] = current' /\ list'[i] = visit'
               /\ k = i => k > 1 /\ previous' = list'[k - 1]
  <2>1. PICK d \in {0, 1} : Grows(d)
    BY <1>2, ThreadsGrow
  <2>2. PICK k, i \in 1..Len(list) : /\ k <= i /\ list[k] = current /\ list[i] = visit
                                     /\ k = i => k > 1 /\ previous = list[k - 1]
    BY <1>0, <2>1 DEF WalkInv, Grows
  <2>3. k + d \in 1..Len(list') /\ i + d \in 1..Len(list') /\ k + d <= i + d
        /\ list'[k + d] = current' /\ list'[i + d] = visit'
    BY <2>1, <2>2, ListFacts DEF Grows
  <2>4. ASSUME k + d = i + d PROVE k + d > 1 /\ previous' = list'[(k + d) - 1]
    <3>1. k > 1 /\ k - 1 \in 1..Len(list) /\ previous = list[k - 1]
      BY <2>2, <2>4, ListFacts
    <3>2. list'[(k - 1) + d] = previous' /\ (k - 1) + d = (k + d) - 1
      BY <2>1, <3>1 DEF Grows
    <3> QED
      BY <3>1, <3>2
  <2> QED
    BY <2>3, <2>4
<1>3. CASE StartWalk
  <2>1. PICK i \in 1..Len(list) : list[i] = visit
    BY <1>3 DEF StartWalk, IInv, VisitInv, Visiting
  <2>2. head = list[1] /\ i # 1 /\ 1 \in 1..Len(list) /\ 1 <= i
    BY <1>3, <2>1, ListFacts DEF StartWalk, IInv, ListIntact
  <2> QED
    BY <1>3, <2>1, <2>2 DEF StartWalk, listVars
<1>4. CASE WalkOn
  <2>1. PICK k, i \in 1..Len(list) : k <= i /\ list[k] = current /\ list[i] = visit
    BY <1>0, <1>4 DEF WalkOn, WalkInv
  <2>2. k # i /\ k < Len(list) /\ k + 1 \in 1..Len(list) /\ k + 1 <= i
    BY <1>4, <2>1, ListFacts DEF WalkOn
  <2>3. node[current].next = list[k + 1]
    BY <2>1, <2>2 DEF IInv, ListIntact
  <2>4. list' = list /\ visit' = visit /\ current' = list[k + 1] /\ previous' = list[k]
        /\ (k + 1) - 1 = k /\ k + 1 > 1
    BY <1>4, <2>1, <2>3 DEF WalkOn, listVars
  <2> QED
    BY <2>1, <2>2, <2>4
<1> QED
  BY <1>1, <1>2, <1>3, <1>4, StepCases
     DEF CreateInstance, CheckRunning, CheckDrained, PollThreads, ReserveRead, ProcessEvent,
         CheckAlive, WalkRaces, Deletes, GoTo

(* Pushes come before the visited node, and deletions close the gap.       *)
LEMMA StepSync == IInv /\ [Next]_vars => SyncInv'
<1> SUFFICES ASSUME IInv, [Next]_vars, Visiting'
             PROVE  \E i \in 1..Len(list') : /\ list'[i] = visit'
                                             /\ \A k \in i..Len(list') : list'[k] \in synced'
  BY DEF SyncInv
<1> DEFINE Goal == \E i \in 1..Len(list') :
                     /\ list'[i] = visit'
                     /\ \A k \in i..Len(list') : list'[k] \in synced'
<1>0. Len(list) \in Nat
  BY ListFacts
<1>a. ASSUME Visiting
      PROVE  \E i \in 1..Len(list) : list[i] = visit /\ \A k \in i..Len(list) : list[k] \in synced
  BY <1>a DEF IInv, SyncInv
<1>1. CASE UNCHANGED <<list, synced, visit>> /\ Visiting
  BY <1>a, <1>1
<1>2. ASSUME NEW t \in Threads,
             RegisterThread(t) \/ Pushes(t) \/ Retries(t) \/ Log(t) \/ Exit(t)
      PROVE  Goal
  <2>1. PICK d \in {0, 1} : Grows(d)
    BY <1>2, ThreadsGrow
  <2>2. Visiting
    BY <2>1 DEF Grows, Visiting
  <2>3. PICK i \in 1..Len(list) : list[i] = visit /\ \A k \in i..Len(list) : list[k] \in synced
    BY <1>a, <2>2
  <2>4. /\ Len(list') = Len(list) + d /\ synced' = synced /\ visit' = visit
        /\ \A k \in 1..Len(list) : list'[k + d] = list[k]
    BY <2>1 DEF Grows
  <2>5. i + d \in 1..Len(list') /\ list'[i + d] = visit'
    BY <1>0, <2>3, <2>4
  <2>6. ASSUME NEW k \in i + d..Len(list') PROVE list'[k] \in synced'
    <3>1. k - d \in i..Len(list) /\ k - d \in 1..Len(list) /\ (k - d) + d = k
      BY <1>0, <2>4
    <3> QED
      BY <2>3, <2>4, <3>1
  <2> QED
    BY <2>5, <2>6
<1>3. CASE PollThreads
  <2>1. head # Null /\ visit' = head /\ list' = list
        /\ synced' = {list[i] : i \in 1..Len(list)}
    BY <1>3 DEF PollThreads, GoTo, Visiting
  <2>2. 1 \in 1..Len(list) /\ list[1] = head
    BY <2>1, ListFacts DEF IInv, ListIntact
  <2> QED
    BY <2>1, <2>2
<1>4. ASSUME Visiting, bpc # "visit", next # Null
      PROVE  \E i \in 1..Len(list) - 1 : /\ list[i] = visit /\ list[i + 1] = next
                                         /\ \A k \in i..Len(list) : list[k] \in synced
  <2>1. PICK i \in 1..Len(list) : list[i] = visit /\ \A k \in i..Len(list) : list[k] \in synced
    BY <1>a, <1>4
  <2>2. PICK j \in 1..Len(list) - 1 : list[j] = visit /\ list[j + 1] = next
    BY <1>4, NextListed
  <2>3. i = j
    BY <2>1, <2>2, ListFacts
  <2> QED
    BY <2>1, <2>2, <2>3
<1>5. ASSUME GoTo(next), UNCHANGED <<list, synced>>, Visiting, bpc # "visit" PROVE Goal
  <2>1. next # Null /\ visit' = next
    BY <1>5 DEF GoTo, Visiting
  <2>2. PICK i \in 1..Len(list) - 1 : /\ list[i + 1] = next
                                      /\ \A k \in i..Len(list) : list[k] \in synced
    BY <1>4, <1>5, <2>1
  <2>3. i + 1 \in 1..Len(list) /\ \A k \in i + 1..Len(list) : k \in i..Len(list)
    BY <1>0
  <2> QED
    BY <1>5, <2>1, <2>2, <2>3
<1>6. CASE ProcessEvent
  BY <1>5, <1>6 DEF ProcessEvent, Visiting, listVars
<1>7. CASE CheckAlive
  <2>1. Visiting /\ bpc # "visit" /\ UNCHANGED <<list, synced>>
    BY <1>7 DEF CheckAlive, Visiting, listVars
  <2>2. GoTo(next) \/ UNCHANGED visit
    BY <1>7 DEF CheckAlive
  <2> QED
    BY <1>1, <1>5, <2>1, <2>2
<1>8. ASSUME NEW i \in 1..Len(list), Deletes(i) PROVE Goal
  <2>1. next # Null /\ visit' = next /\ Visiting /\ bpc # "visit" /\ list[i] = visit
        /\ synced' = synced \ {visit}
    BY <1>8 DEF Deletes, GoTo, Visiting
  <2>2. PICK j \in 1..Len(list) - 1 : /\ list[j] = visit /\ list[j + 1] = next
                                      /\ \A k \in j..Len(list) : list[k] \in synced
    BY <1>4, <2>1
  <2>3. i = j
    BY <2>1, <2>2, ListFacts
  <2>4. /\ Len(list') = Len(list) - 1
        /\ \A k \in 1..Len(list) - 1 : list'[k] = IF k < i THEN list[k] ELSE list[k + 1]
    BY <1>8, ListFacts, RemoveFirstOfDistinct DEF Deletes
  <2>5. i \in 1..Len(list') /\ list'[i] = visit'
    BY <1>0, <2>1, <2>2, <2>3, <2>4
  <2>6. ASSUME NEW k \in i..Len(list') PROVE list'[k] \in synced'
    <3>1. list'[k] = list[k + 1] /\ k + 1 \in i..Len(list) /\ k + 1 \in 1..Len(list) /\ k + 1 # i
      BY <1>0, <2>4
    <3>2. list[k + 1] # list[i]
      BY <3>1, ListFacts
    <3> QED
      BY <2>1, <2>2, <2>3, <3>1, <3>2
  <2> QED
    BY <2>5, <2>6
<1> QED
  BY <1>1, <1>2, <1>3, <1>6, <1>7, <1>8, StepCases
     DEF CreateInstance, StopBackend, JoinBackend, CheckRunning, CheckDrained, ReserveRead,
         StartWalk, WalkOn, WalkRaces, Visiting, backendVars, listVars, vars

(* The backend's copy of a write position is never ahead of the position.  *)
LEMMA StepCount == IInv /\ [Next]_vars => CountInv'
<1> SUFFICES ASSUME IInv, [Next]_vars PROVE CountInv'
  OBVIOUS
<1>0. TypeOK /\ CountInv
  BY DEF IInv
<1>n. \A t \in Threads : queued[t] \in Nat /\ cached[t] \in Nat /\ known[t] \in Nat
  BY <1>0, BackendAssumption DEF TypeOK, Count
<1>1. CASE UNCHANGED queueVars
  BY <1>0, <1>1 DEF CountInv, queueVars
<1>2. ASSUME NEW t \in Threads, Log(t) PROVE CountInv'
  BY <1>0, <1>n, <1>2 DEF Log, CountInv, TypeOK
<1>3. CASE CheckRunning
  BY <1>0, <1>n, <1>3 DEF CheckRunning, CountInv
<1>4. ASSUME NEW t \in Threads, NEW load \in 0..Slots, ReserveRead(t, load) PROVE CountInv'
  <2>1. load \in Nat /\ load <= queued[t]
    BY <1>0, <1>n, <1>4, BackendAssumption DEF ReserveRead, Loadable, CountInv
  <2>2. UNCHANGED queued /\ cached' = [cached EXCEPT ![t] = load]
        /\ known' = [known EXCEPT ![t] = IF load > known[t] THEN load ELSE known[t]]
    BY <1>4 DEF ReserveRead
  <2> QED
    BY <1>0, <1>n, <2>1, <2>2 DEF CountInv, TypeOK
<1>5. CASE ProcessEvent
  <2> DEFINE t == node[visit].context
  <2>1. TakeEvent(t)
    BY <1>5 DEF ProcessEvent
  <2> HIDE DEF t
  <2> QED
    BY <1>0, <1>n, <2>1 DEF TakeEvent, CountInv, TypeOK
<1> QED
  BY <1>1, <1>2, <1>3, <1>4, <1>5, StepCases
     DEF CreateInstance, StopBackend, JoinBackend, RegisterThread, Pushes, Retries, PushNode,
         Exit, CheckDrained, PollThreads, CheckAlive, StartWalk, WalkOn, WalkRaces, Deletes,
         vars

(* The drain loop ends when the list is empty, hence when every thread     *)
(* that was joined has lost its context.                                   *)
LEMMA StepStop == IInv /\ [Next]_vars => StopInv'
<1> SUFFICES ASSUME IInv, [Next]_vars PROVE StopInv'
  OBVIOUS
<1>0. TypeOK /\ StopInv /\ WaitedFor \subseteq Threads
  BY BackendAssumption DEF IInv, WaitedFor
<1> USE <1>0 DEF StopInv
<1>1. CASE CreateInstance
  BY <1>1 DEF CreateInstance, threadVars
<1>2. CASE StopBackend
  BY <1>2 DEF StopBackend, WaitedFor, threadVars, backendVars
<1>3. CASE JoinBackend
  BY <1>3 DEF JoinBackend, threadVars, backendVars
<1>4. ASSUME NEW t \in Threads, RegisterThread(t) PROVE StopInv'
  <2>1. main # "live" => t \notin WaitedFor
    BY <1>4 DEF RegisterThread
  <2>2. pc' = [pc EXCEPT ![t] = "registering"] /\ context' = [context EXCEPT ![t] = "live"]
        /\ UNCHANGED <<main, bpc, running, draining>> /\ bpc # "none"
    BY <1>4 DEF RegisterThread
  <2> QED
    BY <2>1, <2>2 DEF TypeOK
<1>5. ASSUME NEW t \in Threads, Pushes(t) \/ Retries(t) \/ Log(t) \/ Exit(t) PROVE StopInv'
  <2>1. \A u \in Threads : pc[u] = "exited" => pc'[u] = "exited"
    BY <1>5 DEF Pushes, Retries, PushNode, Log, Exit, TypeOK, threadVars
  <2>2. UNCHANGED <<main, bpc, running, draining, context>>
    BY <1>5 DEF Pushes, Retries, PushNode, Log, Exit, backendVars
  <2> QED
    BY <2>1, <2>2
<1>6. CASE CheckRunning
  BY <1>6 DEF CheckRunning, threadVars
<1>7. CASE CheckDrained
  <2>1. UNCHANGED <<main, running, draining, pc, context>> /\ bpc = "drain"
        /\ bpc' = IF head = Null THEN "stopped" ELSE "poll"
    BY <1>7 DEF CheckDrained, threadVars
  <2>2. ASSUME head = Null, NEW t \in WaitedFor PROVE context[t] # "live"
    <3>1. pc[t] = "exited"
      BY <2>1
    <3>2. Len(list) = 0
      BY <2>2, ListFacts DEF IInv, ListIntact
    <3> QED
      BY <3>1, <3>2 DEF IInv, ListIntact
  <2>3. draining /\ ~running /\ main # "live" /\ main # "destroyed"
    BY <2>1
  <2> QED
    BY <2>1, <2>2, <2>3
<1>8. ASSUME bpc \in {"poll", "visit", "process", "empty", "remove", "walk"},
             UNCHANGED <<main, running, draining, pc>>,
             bpc' \in {"visit", "process", "empty", "remove", "walk"} \/ GoTo(Null)
      PROVE  StopInv'
  BY <1>8 DEF GoTo
<1>9. ASSUME NEW a, GoTo(a) PROVE bpc' = "visit" \/ GoTo(Null)
  BY <1>9 DEF GoTo
<1>10. CASE PollThreads
  BY <1>8, <1>9, <1>10 DEF PollThreads, threadVars
<1>11. ASSUME NEW t \in Threads, NEW load \in 0..Slots, ReserveRead(t, load) PROVE StopInv'
  BY <1>8, <1>11 DEF ReserveRead, threadVars
<1>12. CASE ProcessEvent \/ CheckAlive
  BY <1>8, <1>9, <1>12 DEF ProcessEvent, CheckAlive, threadVars
<1>13. CASE StartWalk \/ WalkOn
  BY <1>8, <1>13 DEF StartWalk, WalkOn, threadVars
<1>14. ASSUME NEW i \in 1..Len(list), Deletes(i) PROVE StopInv'
  BY <1>8, <1>9, <1>14 DEF Deletes, threadVars
<1>15. CASE WalkRaces
  BY <1>15 DEF WalkRaces, threadVars
<1>16. CASE UNCHANGED vars
  BY <1>16 DEF vars, threadVars, backendVars
<1> QED
  BY <1>1, <1>2, <1>3, <1>4, <1>5, <1>6, <1>7, <1>10, <1>11, <1>12, <1>13, <1>14, <1>15,
     <1>16, StepCases

(* The acquire of _running shows the drain loop every event of the threads *)
(* that were joined, and no more come.                                     *)
LEMMA StepDrain == IInv /\ [Next]_vars => DrainInv'
<1> SUFFICES ASSUME IInv, [Next]_vars, draining', NEW t \in WaitedFor
             PROVE  /\ known'[t] = queued'[t]
                    /\ bpc' \in {"empty", "remove", "walk"} /\ node'[visit'].context = t
                         => queued'[t] = 0
  BY DEF DrainInv
<1>0. TypeOK /\ StopInv /\ DrainInv /\ CountInv /\ t \in Threads
      /\ queued[t] \in Nat /\ known[t] \in Nat /\ cached[t] \in Nat
  BY BackendAssumption DEF IInv, WaitedFor, TypeOK, Count
<1> DEFINE Goal == /\ known'[t] = queued'[t]
                   /\ bpc' \in {"empty", "remove", "walk"} /\ node'[visit'].context = t
                        => queued'[t] = 0
<1>1. CASE CheckRunning
  BY <1>0, <1>1 DEF CheckRunning, WaitedFor
<1>3. CASE CreateInstance \/ StopBackend \/ JoinBackend \/ UNCHANGED vars
  BY <1>0, <1>3 DEF CreateInstance, StopBackend, JoinBackend, DrainInv, vars, queueVars,
                    backendVars, listVars
<1>4. ASSUME NEW u \in Threads,
             RegisterThread(u) \/ Pushes(u) \/ Retries(u) \/ Log(u) \/ Exit(u)
      PROVE  Goal
  <2>1. PICK d \in {0, 1} : Grows(d)
    BY <1>4, ThreadsGrow
  <2>2. draining /\ UNCHANGED <<bpc, visit, known, cached>>
    BY <2>1 DEF Grows
  <2>3. pc[t] = "exited"
    BY <1>0, <2>2 DEF StopInv
  <2>4. queued'[t] = queued[t]
    BY <1>0, <1>4, <2>3 DEF RegisterThread, Pushes, Retries, PushNode, Log, Exit, queueVars,
                            TypeOK
  <2>5. ASSUME bpc \in {"empty", "remove", "walk"} PROVE node'[visit] = node[visit]
    <3>1. Visiting
      BY <2>5 DEF Visiting
    <3>2. PICK i \in 1..Len(list) : list[i] = visit
      BY <3>1 DEF IInv, VisitInv
    <3> QED
      BY <2>1, <3>2 DEF Grows
  <2> QED
    BY <1>0, <2>2, <2>4, <2>5 DEF DrainInv
<1>5. CASE CheckDrained \/ PollThreads \/ (\E i \in 1..Len(list) : Deletes(i))
  <2>1. UNCHANGED <<draining, queued, known>> /\ bpc' \notin {"empty", "remove", "walk"}
    BY <1>5 DEF CheckDrained, PollThreads, Deletes, GoTo, queueVars
  <2> QED
    BY <1>0, <2>1 DEF DrainInv
<1>6. ASSUME NEW u \in Threads, NEW load \in 0..Slots, ReserveRead(u, load) PROVE Goal
  <2>1. draining /\ queued' = queued /\ visit' = visit /\ node' = node
        /\ node[visit].context = u
    BY <1>6 DEF ReserveRead, listVars
  <2>2. known[t] = queued[t]
    BY <1>0, <2>1 DEF DrainInv
  <2>3. CASE u # t
    BY <1>0, <1>6, <2>1, <2>2, <2>3 DEF ReserveRead, TypeOK
  <2>4. CASE u = t
    <3>1. load \in IF cached[t] = 0 THEN {queued[t]} ELSE {cached[t]}
      BY <1>0, <1>6, <2>2, <2>4 DEF ReserveRead, Loadable
    <3>2. load <= queued[t] /\ (load = 0 => queued[t] = 0)
      BY <1>0, <3>1 DEF CountInv
    <3>3. known'[t] = IF load > known[t] THEN load ELSE known[t]
      BY <1>0, <1>6, <2>4 DEF ReserveRead, TypeOK
    <3>4. bpc' = IF load = 0 THEN "empty" ELSE "process"
      BY <1>6 DEF ReserveRead
    <3> QED
      BY <1>0, <2>1, <2>2, <3>1, <3>2, <3>3, <3>4
  <2> QED
    BY <2>3, <2>4
<1>7. CASE ProcessEvent
  <2>1. TakeEvent(node[visit].context) /\ draining
        /\ bpc' \notin {"empty", "remove", "walk"}
    BY <1>7 DEF ProcessEvent, GoTo
  <2>2. known[t] = queued[t]
    BY <1>0, <2>1 DEF DrainInv
  <2>3. known'[t] = queued'[t]
    BY <1>0, <2>1, <2>2 DEF TakeEvent, TypeOK
  <2> QED
    BY <2>1, <2>3
<1>8. CASE CheckAlive
  <2>1. UNCHANGED <<draining, queued, known, node>> /\ bpc = "empty"
    BY <1>8 DEF CheckAlive, queueVars, listVars
  <2>2. bpc' \in {"empty", "remove", "walk"} => visit' = visit
    BY <1>8 DEF CheckAlive, GoTo
  <2> QED
    BY <1>0, <2>1, <2>2 DEF DrainInv
<1>9. CASE StartWalk \/ WalkOn \/ WalkRaces
  BY <1>0, <1>9 DEF StartWalk, WalkOn, WalkRaces, DrainInv, queueVars, listVars
<1> QED
  BY <1>1, <1>3, <1>4, <1>5, <1>6, <1>7, <1>8, <1>9, StepCases

(* The initial state.                                                      *)
LEMMA InitInv == Init => IInv
<1> SUFFICES ASSUME Init PROVE IInv
  OBVIOUS
<1> USE BackendAssumption DEF Init
<1>1. TypeOK
  <2>1. node \in [Addrs -> [context : Threads \cup {Null}, next : Address]]
    BY DEF Free, Address
  <2>2. 0 \in Count
    BY DEF Count
  <2>3. list \in Seq(Addrs)
    OBVIOUS
  <2> QED
    BY <2>1, <2>2, <2>3 DEF TypeOK, Address
<1>2. ListIntact /\ OwnedInv
  BY DEF ListIntact, OwnedInv
<1>3. RegisterInv
  BY DEF RegisterInv
<1>4. VisitInv /\ WalkInv /\ SyncInv /\ DrainInv
  BY DEF VisitInv, Visiting, WalkInv, SyncInv, DrainInv
<1>5. CountInv /\ StopInv
  BY DEF CountInv, StopInv
<1> QED
  BY <1>1, <1>2, <1>3, <1>4, <1>5 DEF IInv

(* The invariant is inductive.                                             *)
LEMMA Invariance == Spec => []IInv
<1>1. IInv /\ [Next]_vars => IInv'
  BY StepType, StepList, StepRegister, StepVisit, StepWalk, StepSync, StepCount, StepStop,
     StepDrain DEF IInv
<1> QED
  BY InitInv, <1>1, PTL DEF Spec

-----------------------------------------------------------------------------
(* Every variable has a value of its type.                                 *)
THEOREM TypeCorrect == Spec => []TypeOK
  BY Invariance, PTL DEF IInv

(* The lock-free list that any number of threads push to while the backend *)
(* unlinks never loses, duplicates or revives a context, although node     *)
(* addresses are reused: the compare-and-swap loop of register_thread()    *)
(* and remove_and_delete_node() are safe against each other because only   *)
(* one thread unlinks.                                                     *)
THEOREM ListStaysIntact == Spec => []ListIntact
  BY Invariance, PTL DEF IInv

(* No pointer that the backend or a logging thread follows dangles: node   *)
(* and next of poll_threads(), current and previous of                     *)
(* remove_and_delete_node(), and the context behind the thread's cached    *)
(* queue pointer.  poll_threads() follows none that its acquire load of    *)
(* _head has not synchronised with.  Without address dependencies this     *)
(* holds up to the step in which the walk reads a node pushed since, whose *)
(* pointer it has from the relaxed failure of the compare-and-swap: that   *)
(* step makes the program undefined and ends the behaviour.                *)
THEOREM NothingDangles == Spec => []NoUseAfterFree
<1>1. IInv => NoUseAfterFree
  <2> SUFFICES ASSUME IInv PROVE NoUseAfterFree
    OBVIOUS
  <2>0. \A i \in 1..Len(list) : list[i] \in Allocated
    BY DEF IInv, ListIntact
  <2>1. ASSUME Visiting
        PROVE  visit \in Allocated \cap synced /\ context[node[visit].context] = "live"
    <3>0. visit \in synced
      <4>1. PICK i \in 1..Len(list) : list[i] = visit /\ \A k \in i..Len(list) : list[k] \in synced
        BY <2>1 DEF IInv, SyncInv
      <4> QED
        BY <4>1, ListFacts
    <3>1. PICK i \in 1..Len(list) : list[i] = visit
      BY <2>1 DEF IInv, VisitInv
    <3>2. node[visit].context \in Threads
      BY <3>1 DEF IInv, OwnedInv
    <3> QED
      BY <2>0, <3>0, <3>1, <3>2 DEF IInv, ListIntact
  <2>2. ASSUME Visiting, bpc # "visit", next # Null PROVE next \in Allocated \cap synced
    <3>1. PICK i \in 1..Len(list) - 1 : list[i] = visit /\ list[i + 1] = next
      BY <2>2, NextListed
    <3>2. PICK j \in 1..Len(list) : list[j] = visit /\ \A k \in j..Len(list) : list[k] \in synced
      BY <2>2 DEF IInv, SyncInv
    <3>3. i = j /\ i + 1 \in 1..Len(list) /\ i + 1 \in j..Len(list)
      BY <3>1, <3>2, ListFacts
    <3> QED
      BY <2>0, <3>1, <3>2, <3>3
  <2>3. ASSUME bpc = "walk"
        PROVE  current \in Allocated /\ (current = visit => previous \in Allocated)
    <3>1. PICK k, i \in 1..Len(list) : /\ k <= i /\ list[k] = current /\ list[i] = visit
                                       /\ k = i => k > 1 /\ previous = list[k - 1]
      BY <2>3 DEF IInv, WalkInv
    <3>2. ASSUME current = visit PROVE k - 1 \in 1..Len(list) /\ previous = list[k - 1]
      BY <3>1, <3>2, ListFacts
    <3> QED
      BY <2>0, <3>1, <3>2
  <2>4. \A t \in Threads : pc[t] \in {"registering", "logging"} => context[t] = "live"
    BY DEF IInv, RegisterInv
  <2> QED
    BY <2>1, <2>2, <2>3, <2>4 DEF NoUseAfterFree
<1> QED
  BY Invariance, <1>1, PTL

(* When ~Backend() returns, no context of a thread that it waited for is   *)
(* left.                                                                   *)
THEOREM StopsClean == Spec => []StoppedClean
<1>1. IInv => StoppedClean
  BY DEF IInv, StopInv, StoppedClean, WaitedFor
<1> QED
  BY Invariance, <1>1, PTL

(* The drain loop deletes the context of a joined thread only with an      *)
(* empty queue, under the memory model in which a load of a write position *)
(* may be stale: nothing that was logged before ~Backend() is lost.        *)
THEOREM DrainIsLossless == Spec => DrainLosesNothing
<1>1. ASSUME IInv, [Next]_vars, NEW t \in Joined \cup {Main},
             draining, context[t] = "live", context'[t] = "freed"
      PROVE  queued[t] = 0
  <2>0. t \in Threads /\ TypeOK /\ DrainInv
    BY <1>1, BackendAssumption DEF IInv
  <2>1. \E i \in 1..Len(list) : Deletes(i)
    BY <1>1, <2>0, StepCases
       DEF CreateInstance, StopBackend, JoinBackend, RegisterThread, Pushes, Retries,
           PushNode, Log, Exit, CheckRunning, CheckDrained, PollThreads, ReserveRead,
           ProcessEvent, CheckAlive, StartWalk, WalkOn, WalkRaces, vars, backendVars, TypeOK
  <2>2. PICK i \in 1..Len(list) : Deletes(i)
    BY <2>1
  <2>3. node[visit].context = t /\ bpc \in {"remove", "walk"}
    BY <1>1, <2>0, <2>2 DEF Deletes, TypeOK
  <2> QED
    BY <1>1, <2>0, <2>3 DEF DrainInv, WaitedFor
<1>2. IInv /\ [Next]_vars =>
        [\A t \in Joined \cup {Main} :
           draining /\ context[t] = "live" /\ context'[t] = "freed" => queued[t] = 0]_vars
  BY <1>1
<1> QED
  BY Invariance, <1>2, PTL DEF Spec, DrainLosesNothing

=============================================================================
