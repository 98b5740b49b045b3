--------------------------- MODULE EventBusProofs ---------------------------
(***************************************************************************)
(* CalledOnceInOrder and MissesAreRemovals for any handlers, any number of *)
(* concurrent emissions and any number of registrations.                   *)
(*                                                                         *)
(* The argument: entries are only appended, with ever larger numbers, so   *)
(* every list is sorted; a removal moves entries towards the front, never  *)
(* across the cursor from behind.  Hence whatever lies beyond the cursor   *)
(* of an emission is newer than all it has delivered to (BeyondCursor).    *)
(* And only a removal moves an entry across the cursor, one at a time, so  *)
(* that those left behind without a delivery are no more than the removals *)
(* behind the cursor (SkippedInv).                                         *)
(***************************************************************************)
EXTENDS EventBus, SequenceTheorems, FiniteSetTheorems, TLAPS

Sorted(list) == \A i, j \in 1..Len(list) : i < j => list[i].id < list[j].id

ListsSorted ==
  /\ Sorted(handlers)
  /\ \A i \in 1..Len(handlers) : handlers[i].id <= registered
  /\ \A e \in Emitters : Sorted(orphan[e])
  /\ \A e \in Emitters : \A i \in 1..Len(orphan[e]) : orphan[e][i].id <= registered

CalledAreOld ==
  \A e \in Emitters : \A i \in 1..Len(called[e]) : called[e][i].id <= registered

BeyondCursor ==
  \A e \in awaiting : \A i \in 1..Len(called[e]), p \in cursor[e] + 1..Len(List(e)) :
    called[e][i].id < List(e)[p].id

IInv == TypeOK /\ ListsSorted /\ CalledAreOld /\ BeyondCursor /\ CalledOnceInOrder

-----------------------------------------------------------------------------
(* Sequences.                                                              *)

LEMMA RemoveAtProperties ==
  ASSUME NEW S, NEW s \in Seq(S), NEW p \in 1..Len(s)
  PROVE  /\ RemoveAt(s, p) \in Seq(S)
         /\ Len(RemoveAt(s, p)) = Len(s) - 1
         /\ \A i \in 1..Len(s) - 1 :
              RemoveAt(s, p)[i] = IF i < p THEN s[i] ELSE s[i + 1]
<1> DEFINE front == SubSeq(s, 1, p - 1)
           back == SubSeq(s, p + 1, Len(s))
<1>1. /\ front \in Seq(S) /\ Len(front) = p - 1
      /\ \A i \in 1..p - 1 : front[i] = s[i]
  OBVIOUS
<1>2. /\ back \in Seq(S) /\ Len(back) = Len(s) - p
      /\ \A i \in 1..Len(s) - p : back[i] = s[i + p]
  OBVIOUS
<1>3. RemoveAt(s, p) = front \o back
  BY DEF RemoveAt
<1> HIDE DEF front, back
<1>4. /\ front \o back \in Seq(S)
      /\ Len(front \o back) = Len(front) + Len(back)
      /\ \A i \in 1..Len(front) + Len(back) :
           (front \o back)[i] = IF i <= Len(front) THEN front[i] ELSE back[i - Len(front)]
  BY <1>1, <1>2, ConcatProperties
<1>5. Len(s) \in Nat
  OBVIOUS
<1>6. ASSUME NEW i \in 1..Len(s) - 1
      PROVE  RemoveAt(s, p)[i] = IF i < p THEN s[i] ELSE s[i + 1]
  <2>1. CASE i < p
    BY <1>1, <1>2, <1>3, <1>4, <1>5, <2>1
  <2>2. CASE ~(i < p)
    <3>1. i - (p - 1) \in 1..Len(s) - p /\ (i - (p - 1)) + p = i + 1
      BY <1>5, <2>2
    <3>2. (front \o back)[i] = back[i - (p - 1)]
      BY <1>1, <1>2, <1>4, <1>5, <2>2
    <3>3. QED
      BY <1>2, <1>3, <2>2, <3>1, <3>2
  <2>3. QED
    BY <2>1, <2>2
<1>7. QED
  BY <1>1, <1>2, <1>3, <1>4, <1>5, <1>6

\* Removing an entry keeps a list sorted.
LEMMA RemoveAtSorted ==
  ASSUME NEW s \in Seq(Entries), NEW p \in 1..Len(s), Sorted(s)
  PROVE  Sorted(RemoveAt(s, p))
<1> DEFINE t == RemoveAt(s, p)
<1>1. /\ Len(s) \in Nat /\ Len(t) = Len(s) - 1
      /\ \A i \in 1..Len(s) - 1 : t[i] = IF i < p THEN s[i] ELSE s[i + 1]
  BY RemoveAtProperties
<1> HIDE DEF t
<1>2. ASSUME NEW i \in 1..Len(t), NEW j \in 1..Len(t), i < j
      PROVE  t[i].id < t[j].id
  <2>1. PICK a \in 1..Len(s) : t[i] = s[a] /\ a = IF i < p THEN i ELSE i + 1
    BY <1>1, <1>2
  <2>2. PICK b \in 1..Len(s) : t[j] = s[b] /\ b = IF j < p THEN j ELSE j + 1
    BY <1>1, <1>2
  <2>3. a < b
    <3>1. i \in Nat /\ j \in Nat
      BY <1>1, <1>2
    <3>2. QED
      BY <1>2, <2>1, <2>2, <3>1
  <2>4. QED
    BY <2>1, <2>2, <2>3 DEF Sorted
<1>3. QED
  BY <1>2 DEF Sorted, t

LEMMA ListType ==
  ASSUME TypeOK, NEW e \in Emitters
  PROVE  List(e) \in Seq(Entries) /\ Len(List(e)) \in Nat
BY DEF TypeOK, List

\* Every registration number is a natural number, whatever list it is in.
LEMMA IdTypes ==
  ASSUME TypeOK
  PROVE  /\ registered \in Nat /\ Len(handlers) \in Nat
         /\ \A i \in 1..Len(handlers) : handlers[i].id \in Nat
         /\ \A e \in Emitters :
              /\ Len(orphan[e]) \in Nat /\ Len(called[e]) \in Nat
              /\ \A i \in 1..Len(orphan[e]) : orphan[e][i].id \in Nat
              /\ \A i \in 1..Len(called[e]) : called[e][i].id \in Nat
<1>1. ASSUME NEW s \in Seq(Entries)
      PROVE  Len(s) \in Nat /\ \A i \in 1..Len(s) : s[i].id \in Nat
  <2>1. \A i \in 1..Len(s) : s[i] \in Entries
    OBVIOUS
  <2>2. \A x \in Entries : x.id \in Nat
    BY BusAssumption DEF Entries
  <2>3. QED
    BY <2>1, <2>2
<1>2. QED
  BY <1>1, BusAssumption DEF TypeOK

-----------------------------------------------------------------------------

LEMMA InitInv == Init => IInv
BY BusAssumption
   DEF Init, IInv, TypeOK, ListsSorted, Sorted, CalledAreOld, BeyondCursor, CalledOnceInOrder

\* subscribe() puts a new registration behind all the others.
LEMMA SubscribeInv ==
  ASSUME IInv, NEW h \in Handlers, Subscribe(h)
  PROVE  IInv'
<1> USE BusAssumption DEF IInv, TypeOK, Subscribe
<1> DEFINE x == [handler |-> h, id |-> registered + 1]
<1>1. x \in Entries /\ x.id = registered + 1
  BY DEF Entries
<1>2. handlers' = Append(handlers, x)
  OBVIOUS
<1> HIDE DEF x
<1>3. /\ handlers' \in Seq(Entries) /\ Len(handlers') = Len(handlers) + 1
      /\ \A i \in 1..Len(handlers) : handlers'[i] = handlers[i]
      /\ handlers'[Len(handlers) + 1] = x
  BY <1>1, <1>2
<1>4. TypeOK'
  BY <1>3
<1>5. ListsSorted'
  <2>1. \A i \in 1..Len(handlers') : handlers'[i].id <= registered'
    BY <1>1, <1>3, IdTypes DEF ListsSorted
  <2>2. Sorted(handlers')
    <3>1. SUFFICES ASSUME NEW i \in 1..Len(handlers'), NEW j \in 1..Len(handlers'), i < j
                   PROVE  handlers'[i].id < handlers'[j].id
      BY DEF Sorted
    <3>2. CASE j <= Len(handlers)
      <4>1. /\ i \in 1..Len(handlers) /\ j \in 1..Len(handlers)
            /\ handlers'[i] = handlers[i] /\ handlers'[j] = handlers[j]
        BY <1>3, <3>1, <3>2
      <4>2. QED
        BY <3>1, <4>1 DEF ListsSorted, Sorted
    <3>3. CASE j = Len(handlers) + 1
      <4>1. i \in 1..Len(handlers) /\ handlers'[i] = handlers[i] /\ handlers'[j] = x
        BY <1>3, <3>1, <3>3
      <4>2. handlers[i].id <= registered /\ handlers[i].id \in Nat /\ registered \in Nat
        BY <4>1, IdTypes DEF ListsSorted
      <4> HIDE DEF IInv, TypeOK, Subscribe
      <4>3. QED
        BY <1>1, <4>1, <4>2
    <3>4. QED
      BY <1>3, <3>1, <3>2, <3>3
  <2>3. ASSUME NEW e \in Emitters, NEW i \in 1..Len(orphan[e])
        PROVE  orphan[e][i].id <= registered + 1
    <3>1. orphan[e][i].id \in Nat /\ registered \in Nat
      BY IdTypes
    <3>2. orphan[e][i].id <= registered
      BY DEF ListsSorted
    <3> HIDE DEF IInv, TypeOK, Subscribe
    <3>3. QED
      BY <3>1, <3>2
  <2>4. QED
    BY <2>1, <2>2, <2>3 DEF ListsSorted
<1>6. CalledAreOld'
  BY IdTypes DEF CalledAreOld
<1>7. BeyondCursor'
  <2>1. SUFFICES ASSUME NEW e \in awaiting, NEW i \in 1..Len(called[e]),
                        NEW p \in cursor[e] + 1..Len(List(e)')
                 PROVE  called[e][i].id < List(e)'[p].id
    BY DEF BeyondCursor
  <2>2. CASE e \in detached
    BY <2>2 DEF BeyondCursor, List
  <2>3. CASE e \notin detached /\ p <= Len(handlers)
    BY <1>3, <2>3 DEF BeyondCursor, List
  <2>4. CASE e \notin detached /\ p = Len(handlers) + 1
    <3>1. called[e][i].id \in Nat /\ called[e][i].id <= registered /\ registered \in Nat
      BY IdTypes DEF CalledAreOld
    <3>2. List(e)'[p] = x
      BY <1>3, <2>4 DEF List
    <3> HIDE DEF IInv, TypeOK, Subscribe
    <3>3. QED
      BY <1>1, <3>1, <3>2
  <2>5. QED
    BY <1>3, <2>2, <2>3, <2>4 DEF List
<1>8. CalledOnceInOrder'
  BY DEF CalledOnceInOrder
<1> HIDE DEF TypeOK, Subscribe
<1>9. QED
  BY <1>4, <1>5, <1>6, <1>7, <1>8

\* unsubscribe() moves entries towards the front of the live list.
LEMMA UnsubscribeInv ==
  ASSUME IInv, NEW h \in Handlers, Unsubscribe(h)
  PROVE  IInv'
<1> USE BusAssumption DEF IInv, TypeOK, Unsubscribe
<1>1. PICK q \in 1..Len(handlers) : handlers' = RemoveAt(handlers, q)
  OBVIOUS
<1>2. /\ handlers' \in Seq(Entries) /\ Len(handlers') = Len(handlers) - 1
      /\ \A i \in 1..Len(handlers) - 1 :
           handlers'[i] = IF i < q THEN handlers[i] ELSE handlers[i + 1]
  BY <1>1, RemoveAtProperties
<1>3. TypeOK'
  BY <1>2
<1>4. ListsSorted'
  <2>1. Sorted(handlers')
    BY <1>1, RemoveAtSorted DEF ListsSorted
  <2>2. \A i \in 1..Len(handlers') : handlers'[i].id <= registered
    <3>1. TAKE i \in 1..Len(handlers')
    <3>2. PICK j \in 1..Len(handlers) : handlers'[i] = handlers[j]
      BY <1>2
    <3>3. QED
      BY <3>2 DEF ListsSorted
  <2>3. QED
    BY <2>1, <2>2 DEF ListsSorted
<1>5. CalledAreOld' /\ CalledOnceInOrder'
  BY DEF CalledAreOld, CalledOnceInOrder
<1>6. BeyondCursor'
  <2>1. SUFFICES ASSUME NEW e \in awaiting, NEW i \in 1..Len(called[e]),
                        NEW p \in cursor[e] + 1..Len(List(e)')
                 PROVE  called[e][i].id < List(e)'[p].id
    BY DEF BeyondCursor
  <2>2. CASE e \in detached
    BY <2>2 DEF BeyondCursor, List
  <2>3. CASE e \notin detached
    <3>1. p \in 1..Len(handlers) - 1 /\ p >= cursor[e] + 1
      BY <1>2, <2>3 DEF List
    <3>2. cursor[e] \in Nat /\ Len(handlers) \in Nat
      BY IdTypes
    <3>3. p \in cursor[e] + 1..Len(handlers) /\ p + 1 \in cursor[e] + 1..Len(handlers)
      BY <3>1, <3>2
    <3>4. handlers'[p] = handlers[p] \/ handlers'[p] = handlers[p + 1]
      BY <1>2, <3>1
    <3>5. PICK r \in cursor[e] + 1..Len(handlers) : handlers'[p] = handlers[r]
      BY <3>3, <3>4
    <3>6. QED
      BY <2>3, <3>5 DEF BeyondCursor, List
  <2>4. QED
    BY <2>2, <2>3
<1> HIDE DEF TypeOK, Unsubscribe
<1>7. QED
  BY <1>3, <1>4, <1>5, <1>6

\* clear() leaves the emissions in flight the lists they have.
LEMMA ClearInv ==
  ASSUME IInv, Clear
  PROVE  IInv'
<1> USE DEF IInv, Clear
<1>1. \A e \in awaiting : e \in Emitters /\ List(e)' = List(e)
  BY DEF TypeOK, List
<1>2. TypeOK'
  BY ListType DEF TypeOK
<1>3. ListsSorted'
  <2>1. Len(handlers') = 0 /\ Sorted(handlers')
    BY DEF Sorted
  <2>2. ASSUME NEW e \in Emitters
        PROVE  /\ Sorted(orphan'[e])
               /\ \A i \in 1..Len(orphan'[e]) : orphan'[e][i].id <= registered
    <3>1. CASE e \in awaiting
      <4>1. orphan'[e] = List(e)
        BY <3>1 DEF TypeOK
      <4>2. QED
        BY <4>1 DEF ListsSorted, List
    <3>2. CASE e \notin awaiting
      <4>1. Len(orphan'[e]) = 0
        BY <3>2 DEF TypeOK
      <4>2. QED
        BY <4>1 DEF Sorted
    <3>3. QED
      BY <3>1, <3>2
  <2>3. QED
    BY <2>1, <2>2 DEF ListsSorted
<1>4. BeyondCursor'
  BY <1>1 DEF BeyondCursor
<1>5. QED
  BY <1>2, <1>3, <1>4 DEF CalledAreOld, CalledOnceInOrder

\* emit() delivers to the first entry of the live list.
LEMMA EmitInv ==
  ASSUME IInv, NEW e \in Emitters, Emit(e)
  PROVE  IInv'
<1> USE DEF IInv, TypeOK, Emit
<1>1. /\ 1 \in 1..Len(handlers) /\ handlers[1] \in Entries
      /\ called'[e] = <<handlers[1]>> /\ Len(called'[e]) = 1 /\ called'[e][1] = handlers[1]
      /\ e \notin detached
  OBVIOUS
<1>2. TypeOK'
  BY <1>1
<1>3. ListsSorted'
  BY DEF ListsSorted
<1>4. CalledAreOld' /\ CalledOnceInOrder'
  <2>1. \A f \in Emitters \ {e} : called'[f] = called[f]
    OBVIOUS
  <2>2. handlers[1].id <= registered
    BY <1>1 DEF ListsSorted
  <2>3. CalledAreOld'
    BY <1>1, <2>1, <2>2 DEF CalledAreOld
  <2>4. CalledOnceInOrder'
    BY <1>1, <2>1 DEF CalledOnceInOrder
  <2>5. QED
    BY <2>3, <2>4
<1>5. BeyondCursor'
  <2>1. SUFFICES ASSUME NEW f \in awaiting', NEW i \in 1..Len(called'[f]),
                        NEW p \in cursor'[f] + 1..Len(List(f)')
                 PROVE  called'[f][i].id < List(f)'[p].id
    BY DEF BeyondCursor
  <2>2. CASE f = e
    BY <1>1, <2>2 DEF ListsSorted, Sorted, List
  <2>3. CASE f # e
    BY <2>3 DEF BeyondCursor, List
  <2>4. QED
    BY <2>2, <2>3
<1>6. QED
  BY <1>2, <1>3, <1>4, <1>5

\* The next delivery is to the entry just beyond the cursor.
LEMMA DeliverInv ==
  ASSUME IInv, NEW e \in Emitters, Deliver(e)
  PROVE  IInv'
<1> USE DEF IInv, TypeOK, Deliver
<1> DEFINE L == List(e)  n == Len(called[e])  c == cursor[e] + 1
<1>1. /\ L \in Seq(Entries) /\ c \in 1..Len(L) /\ L[c] \in Entries /\ n \in Nat
      /\ L[c].id \in Nat
  <2>1. L \in Seq(Entries) /\ Len(L) \in Nat /\ n \in Nat
    BY ListType, IdTypes
  <2>2. c \in 1..Len(L)
    BY <2>1
  <2>3. L[c] \in Entries
    BY <2>1, <2>2
  <2>4. L[c].id \in Nat
    BY <2>3, BusAssumption DEF Entries
  <2>5. QED
    BY <2>1, <2>2, <2>3, <2>4
<1>2. /\ called'[e] = Append(called[e], L[c]) /\ called'[e] \in Seq(Entries)
      /\ Len(called'[e]) = n + 1 /\ called'[e][n + 1] = L[c]
      /\ \A i \in 1..n : called'[e][i] = called[e][i]
      /\ \A f \in Emitters \ {e} : called'[f] = called[f]
  BY <1>1
<1>3. Sorted(L) /\ \A i \in 1..Len(L) : L[i].id <= registered
  BY DEF ListsSorted, List
<1>4. \A i \in 1..n : called[e][i].id < L[c].id
  BY <1>1 DEF BeyondCursor
<1>5. TypeOK'
  BY <1>2
<1>6. ListsSorted'
  BY DEF ListsSorted
<1>7. CalledAreOld'
  <2>1. SUFFICES ASSUME NEW f \in Emitters, NEW i \in 1..Len(called'[f])
                 PROVE  called'[f][i].id <= registered
    BY DEF CalledAreOld
  <2>2. CASE f # e
    BY <1>2, <2>2 DEF CalledAreOld
  <2>3. CASE f = e /\ i = n + 1
    BY <1>1, <1>2, <1>3, <2>3
  <2>4. CASE f = e /\ i \in 1..n
    BY <1>2, <2>4 DEF CalledAreOld
  <2>5. f = e => i = n + 1 \/ i \in 1..n
    <3>1. n \in Nat /\ (f = e => i \in 1..n + 1)
      BY <1>1, <1>2
    <3> HIDE DEF IInv, TypeOK, Deliver, n
    <3>2. QED
      BY <3>1
  <2>6. QED
    BY <2>2, <2>3, <2>4, <2>5
<1>8. CalledOnceInOrder'
  <2>1. SUFFICES ASSUME NEW f \in Emitters, NEW i \in 1..Len(called'[f]),
                        NEW j \in 1..Len(called'[f]), i < j
                 PROVE  called'[f][i].id < called'[f][j].id
    BY DEF CalledOnceInOrder
  <2>2. CASE f # e
    BY <1>2, <2>1, <2>2 DEF CalledOnceInOrder
  <2>3. CASE f = e /\ j = n + 1
    BY <1>1, <1>2, <1>4, <2>1, <2>3
  <2>4. CASE f = e /\ j \in 1..n
    BY <1>1, <1>2, <2>1, <2>4 DEF CalledOnceInOrder
  <2>5. f = e => j = n + 1 \/ j \in 1..n
    BY <1>1, <1>2
  <2>6. QED
    BY <2>2, <2>3, <2>4, <2>5
<1>9. BeyondCursor'
  <2>1. \A p \in c + 1..Len(L) : L[c].id < L[p].id
    BY <1>1, <1>3 DEF Sorted
  <2>2. ASSUME NEW f \in awaiting
        PROVE  List(f)' = List(f) /\ (f # e => cursor'[f] = cursor[f] /\ called'[f] = called[f])
    BY DEF List
  <2>3. cursor'[e] = c /\ awaiting' = awaiting
    OBVIOUS
  <2>4. ASSUME NEW i \in 1..n, NEW p \in c + 1..Len(L)
        PROVE  called[e][i].id < L[p].id
    <3>1. p \in cursor[e] + 1..Len(List(e))
      BY <1>1
    <3>2. QED
      BY <3>1 DEF BeyondCursor
  <2> HIDE DEF TypeOK, Deliver
  <2>5. ASSUME NEW f \in awaiting, NEW i \in 1..Len(called'[f]),
               NEW p \in cursor'[f] + 1..Len(List(f)')
        PROVE  called'[f][i].id < List(f)'[p].id
    <3>1. CASE f = e
      <4>1. p \in c + 1..Len(L) /\ List(f)'[p] = L[p]
        BY <2>2, <2>3, <3>1
      <4>2. i = n + 1 \/ i \in 1..n
        BY <1>1, <1>2, <3>1
      <4>3. CASE i = n + 1
        BY <1>2, <2>1, <3>1, <4>1, <4>3
      <4>4. CASE i \in 1..n
        BY <1>2, <2>4, <3>1, <4>1, <4>4
      <4>5. QED
        BY <4>2, <4>3, <4>4
    <3>2. CASE f # e
      BY <2>2, <3>2 DEF BeyondCursor
    <3>3. QED
      BY <3>1, <3>2
  <2>6. QED
    BY <2>3, <2>5 DEF BeyondCursor
<1> HIDE DEF TypeOK, Deliver
<1>10. QED
  BY <1>5, <1>6, <1>7, <1>8, <1>9

\* An emission that ends takes its list and its history with it.
LEMMA LeaveInv ==
  ASSUME IInv, NEW e \in Emitters, Leave(e)
  PROVE  IInv'
<1> USE BusAssumption DEF IInv, TypeOK, Leave
<1>1. TypeOK'
  OBVIOUS
<1>2. \A f \in awaiting' : List(f)' = List(f) /\ called'[f] = called[f] /\ cursor'[f] = cursor[f]
  BY DEF List
<1>a. /\ Len(orphan'[e]) = 0 /\ Len(called'[e]) = 0
      /\ \A f \in Emitters \ {e} : orphan'[f] = orphan[f] /\ called'[f] = called[f]
  OBVIOUS
<1>3. ListsSorted'
  <2>1. \A f \in Emitters : Sorted(orphan'[f])
    BY <1>a DEF ListsSorted, Sorted
  <2>2. \A f \in Emitters : \A i \in 1..Len(orphan'[f]) : orphan'[f][i].id <= registered
    BY <1>a DEF ListsSorted
  <2>3. QED
    BY <2>1, <2>2 DEF ListsSorted
<1>4. CalledAreOld' /\ CalledOnceInOrder'
  <2>1. CalledAreOld'
    BY <1>a DEF CalledAreOld
  <2>2. CalledOnceInOrder'
    BY <1>a DEF CalledOnceInOrder
  <2>3. QED
    BY <2>1, <2>2
<1>b. awaiting' \subseteq awaiting
  OBVIOUS
<1> HIDE DEF TypeOK, Leave
<1>5. BeyondCursor'
  BY <1>2, <1>b DEF BeyondCursor
<1>6. QED
  BY <1>1, <1>3, <1>4, <1>5

LEMMA NextInv == IInv /\ [Next]_vars => IInv'
<1> SUFFICES ASSUME IInv, [Next]_vars PROVE IInv'
  OBVIOUS
<1>1. CASE \E h \in Handlers : Subscribe(h) \/ Unsubscribe(h)
  BY <1>1, SubscribeInv, UnsubscribeInv
<1>2. CASE Clear
  BY <1>2, ClearInv
<1>3. CASE \E e \in Emitters : Emit(e) \/ Deliver(e)
  BY <1>3, EmitInv, DeliverInv
<1>4. CASE \E e \in Emitters : Return(e) \/ Cancel(e)
  BY <1>4, LeaveInv DEF Return, Cancel
<1>5. CASE UNCHANGED vars
  BY <1>5 DEF vars, IInv, TypeOK, ListsSorted, CalledAreOld, BeyondCursor,
     CalledOnceInOrder, List
<1>6. QED
  BY <1>1, <1>2, <1>3, <1>4, <1>5 DEF Next, Registrations, Emissions

THEOREM BusInvariant == Spec => []IInv
<1>1. Init => IInv
  BY InitInv
<1>2. IInv /\ [Next]_vars => IInv'
  BY NextInv
<1>3. QED
  BY <1>1, <1>2, PTL DEF Spec

\* The lists and cursors of the bus keep their types.
THEOREM BusTypeCorrect == Spec => []TypeOK
BY BusInvariant, PTL DEF IInv

\* emit() delivers to a registration at most once, in registration order,
\* although it iterates over a list that others change.
THEOREM BusCalledOnceInOrder == Spec => []CalledOnceInOrder
BY BusInvariant, PTL DEF IInv

-----------------------------------------------------------------------------
(* What an emission misses.                                                *)

\* Entries the iterator has left behind without delivering to them, of those that
\* were registered when the emission began.
Skipped(e) ==
  {x \in {List(e)[p] : p \in {q \in 1..Len(List(e)) : q <= cursor[e]}} \ Range(called[e]) :
     x.id <= since[e]}

\* Each was moved there by a removal of its own.
FewSkipped(e) ==
  /\ since[e] <= registered
  /\ IsFiniteSet(Skipped(e)) /\ Cardinality(Skipped(e)) <= behind[e]

SkippedInv == \A e \in awaiting : FewSkipped(e)

\* A set grows by one element at most.
LEMMA OneMore ==
  ASSUME NEW S, IsFiniteSet(S), NEW T, NEW x, T \subseteq S \cup {x}
  PROVE  /\ IsFiniteSet(T) /\ Cardinality(T) \in Nat /\ Cardinality(S) \in Nat
         /\ Cardinality(T) <= Cardinality(S) + 1
<1>1. IsFiniteSet(S \cup {x}) /\ Cardinality(S \cup {x}) <= Cardinality(S) + 1
      /\ Cardinality(S) \in Nat /\ Cardinality(S \cup {x}) \in Nat
  BY FS_AddElement, FS_CardinalityType
<1>2. IsFiniteSet(T) /\ Cardinality(T) <= Cardinality(S \cup {x})
  BY <1>1, FS_Subset
<1>3. Cardinality(T) \in Nat
  BY <1>2, FS_CardinalityType
<1>4. QED
  BY <1>1, <1>2, <1>3

\* An emission whose list, cursor and history a step leaves alone, or makes miss no
\* more than it missed.
LEMMA NothingMoreSkipped ==
  ASSUME IInv, SkippedInv, NEW e \in awaiting, Skipped(e)' \subseteq Skipped(e),
         since'[e] <= registered', behind'[e] = behind[e]
  PROVE  FewSkipped(e)'
<1>1. IsFiniteSet(Skipped(e)) /\ Cardinality(Skipped(e)) <= behind[e] /\ behind[e] \in Nat
  BY DEF SkippedInv, FewSkipped, IInv, TypeOK
<1>2. IsFiniteSet(Skipped(e)') /\ Cardinality(Skipped(e)') <= Cardinality(Skipped(e))
  BY <1>1, FS_Subset
<1>3. Cardinality(Skipped(e)') \in Nat /\ Cardinality(Skipped(e)) \in Nat
  BY <1>1, <1>2, FS_CardinalityType
<1>4. QED
  BY <1>1, <1>2, <1>3 DEF FewSkipped

LEMMA SkippedStep ==
  ASSUME IInv, SkippedInv, [Next]_vars
  PROVE  SkippedInv'
<1>1. SUFFICES ASSUME NEW e \in awaiting'
               PROVE  FewSkipped(e)'
  BY DEF SkippedInv
<1>types. /\ TypeOK /\ (e \in awaiting => e \in Emitters)
          /\ \A f \in awaiting : since[f] <= registered /\ since[f] \in Nat /\ cursor[f] \in Nat
          /\ registered \in Nat /\ handlers \in Seq(Entries) /\ Len(handlers) \in Nat
  BY BusAssumption DEF IInv, TypeOK, SkippedInv, FewSkipped
<1>same. ASSUME e \in awaiting, List(e)' = List(e),
             UNCHANGED <<registered, cursor, called, since, behind>>
      PROVE  FewSkipped(e)'
  BY <1>same, <1>types, NothingMoreSkipped DEF Skipped
<1>2. ASSUME NEW h \in Handlers, Subscribe(h)
      PROVE  FewSkipped(e)'
  <2> DEFINE x == [handler |-> h, id |-> registered + 1]
  <2>1. /\ registered < MaxRegistrations /\ registered' = registered + 1
        /\ handlers' = Append(handlers, x) /\ x.id = registered + 1
        /\ UNCHANGED <<detached, orphan, awaiting, cursor, called, since, behind>>
    BY <1>2 DEF Subscribe
  <2>2. x \in Entries
    BY <2>1, <1>types, BusAssumption DEF Entries
  <2> HIDE DEF x
  <2>3. /\ Len(handlers') = Len(handlers) + 1
        /\ \A i \in 1..Len(handlers) : handlers'[i] = handlers[i]
        /\ handlers'[Len(handlers) + 1] = x
    BY <1>types, <2>1, <2>2, AppendProperties
  <2>4. e \in awaiting
    BY <1>1, <2>1
  <2>5. since'[e] <= registered' /\ behind'[e] = behind[e]
    BY <1>types, <2>1, <2>4
  <2>6. Skipped(e)' \subseteq Skipped(e)
    <3>1. CASE e \in detached
      BY <2>1, <3>1 DEF Skipped, List
    <3>2. CASE e \notin detached
      <4>1. List(e) = handlers /\ List(e)' = handlers'
        BY <2>1, <3>2 DEF List
      <4>2. SUFFICES ASSUME NEW p \in 1..Len(handlers'), p <= cursor[e],
                            handlers'[p] \notin Range(called[e]), handlers'[p].id <= since[e]
                     PROVE  handlers'[p] \in Skipped(e)
        BY <2>1, <4>1 DEF Skipped
      <4>3. p # Len(handlers) + 1
        BY <1>types, <2>1, <2>3, <2>4, <4>2
      <4>4. p \in 1..Len(handlers) /\ handlers'[p] = handlers[p]
        BY <1>types, <2>3, <4>3
      <4>5. QED
        BY <4>1, <4>2, <4>4 DEF Skipped
    <3>3. QED
      BY <3>1, <3>2
  <2>7. QED
    BY <2>4, <2>5, <2>6, NothingMoreSkipped
<1>3. ASSUME NEW h \in Handlers, Unsubscribe(h)
      PROVE  FewSkipped(e)'
  <2>1. PICK q \in 1..Len(handlers) :
          /\ handlers' = RemoveAt(handlers, q)
          /\ behind' = [f \in Emitters |->
               IF f \in awaiting \ detached /\ q <= cursor[f] THEN behind[f] + 1 ELSE behind[f]]
    BY <1>3 DEF Unsubscribe
  <2>2. UNCHANGED <<registered, detached, orphan, awaiting, cursor, called, since>>
    BY <1>3 DEF Unsubscribe
  <2>3. /\ Len(handlers') = Len(handlers) - 1
        /\ \A i \in 1..Len(handlers) - 1 :
             handlers'[i] = IF i < q THEN handlers[i] ELSE handlers[i + 1]
    BY <1>types, <2>1, RemoveAtProperties
  <2>4. e \in awaiting /\ e \in Emitters /\ since'[e] <= registered'
    BY <1>1, <1>types, <2>2
  <2>5. CASE e \in detached
    <3>1. List(e)' = List(e) /\ behind'[e] = behind[e]
      BY <2>1, <2>2, <2>4, <2>5 DEF List
    <3>2. Skipped(e)' \subseteq Skipped(e)
      BY <2>2, <3>1 DEF Skipped
    <3>3. QED
      BY <2>4, <3>1, <3>2, NothingMoreSkipped
  <2>6. CASE e \notin detached
    <3>1. List(e) = handlers /\ List(e)' = handlers'
      BY <2>2, <2>6 DEF List
    <3>2. ASSUME NEW y \in Skipped(e)'
          PROVE  y \in Skipped(e) \/ (q <= cursor[e] /\ y = handlers[cursor[e] + 1])
      <4>1. PICK p \in 1..Len(handlers') :
              p <= cursor[e] /\ y = handlers'[p] /\ y \notin Range(called[e]) /\ y.id <= since[e]
        BY <2>2, <3>1, <3>2 DEF Skipped
      <4>2. p \in 1..Len(handlers) /\ p + 1 \in 1..Len(handlers) /\ cursor[e] \in Nat
        BY <1>types, <2>3, <2>4, <4>1
      <4>3. CASE p < q
        BY <2>3, <3>1, <4>1, <4>2, <4>3 DEF Skipped
      <4>4. CASE ~(p < q) /\ p + 1 <= cursor[e]
        BY <2>3, <3>1, <4>1, <4>2, <4>4 DEF Skipped
      <4>5. CASE ~(p < q) /\ ~(p + 1 <= cursor[e])
        <5>1. p = cursor[e] /\ q <= cursor[e]
          BY <4>1, <4>2, <4>5
        <5>2. y = handlers[p + 1]
          BY <2>3, <4>1, <4>2, <4>5
        <5>3. QED
          BY <5>1, <5>2
      <4>6. QED
        BY <4>3, <4>4, <4>5
    <3>3. CASE q <= cursor[e]
      <4>1. behind'[e] = behind[e] + 1 /\ behind[e] \in Nat
        BY <1>types, <2>1, <2>4, <2>6, <3>3 DEF TypeOK
      <4>2. IsFiniteSet(Skipped(e)) /\ Cardinality(Skipped(e)) <= behind[e]
        BY <2>4 DEF SkippedInv, FewSkipped
      <4>3. Skipped(e)' \subseteq Skipped(e) \cup {handlers[cursor[e] + 1]}
        BY <3>2
      <4>4. /\ IsFiniteSet(Skipped(e)') /\ Cardinality(Skipped(e)') \in Nat
            /\ Cardinality(Skipped(e)) \in Nat
            /\ Cardinality(Skipped(e)') <= Cardinality(Skipped(e)) + 1
        BY <4>2, <4>3, OneMore
      <4>5. QED
        BY <2>4, <4>1, <4>2, <4>4 DEF FewSkipped
    <3>4. CASE ~(q <= cursor[e])
      <4>1. Skipped(e)' \subseteq Skipped(e) /\ behind'[e] = behind[e]
        BY <2>1, <2>4, <3>2, <3>4
      <4>2. QED
        BY <2>4, <4>1, NothingMoreSkipped
    <3>5. QED
      BY <3>3, <3>4
  <2>7. QED
    BY <2>5, <2>6
<1>4. CASE Clear
  <2>1. e \in awaiting /\ e \in Emitters
    BY <1>1, <1>4, <1>types DEF Clear
  <2>2. List(e)' = List(e)
    BY <1>4, <2>1 DEF Clear, List
  <2>3. QED
    BY <1>4, <1>same, <2>1, <2>2 DEF Clear
<1>5. ASSUME NEW f \in Emitters, Emit(f)
      PROVE  FewSkipped(e)'
  <2>1. CASE e = f
    <3>1. /\ e \notin detached /\ cursor'[e] = 1 /\ called'[e] = <<handlers[1]>>
          /\ since'[e] = registered /\ behind'[e] \in Nat
          /\ UNCHANGED <<handlers, registered, detached, orphan>>
      BY <1>5, <2>1 DEF Emit, IInv, TypeOK
    <3>2. List(e)' = handlers /\ handlers[1] \in Range(called'[e])
      BY <3>1 DEF List, Range
    <3>3. Skipped(e)' = {}
      BY <3>1, <3>2 DEF Skipped
    <3>4. IsFiniteSet({}) /\ Cardinality({}) = 0
      BY FS_EmptySet
    <3>5. QED
      BY <1>types, <3>1, <3>3, <3>4 DEF FewSkipped
  <2>2. CASE e # f
    <3>1. /\ e \in awaiting /\ List(e)' = List(e) /\ behind'[e] = behind[e]
          /\ cursor'[e] = cursor[e] /\ called'[e] = called[e] /\ since'[e] = since[e]
          /\ registered' = registered
      BY <1>1, <1>5, <2>2 DEF Emit, IInv, TypeOK, List
    <3>2. Skipped(e)' \subseteq Skipped(e)
      BY <3>1 DEF Skipped
    <3>3. QED
      BY <1>types, <3>1, <3>2, NothingMoreSkipped
  <2>3. QED
    BY <2>1, <2>2
<1>6. ASSUME NEW f \in Emitters, Deliver(f)
      PROVE  FewSkipped(e)'
  <2>1. /\ e \in awaiting /\ List(e)' = List(e)
        /\ UNCHANGED <<registered, since, behind>>
    BY <1>1, <1>6 DEF Deliver, List
  <2>2. CASE e = f
    <3> DEFINE x == List(e)[cursor[e] + 1]
    <3>1. /\ cursor'[e] = cursor[e] + 1 /\ called'[e] = Append(called[e], x)
          /\ cursor[e] + 1 \in 1..Len(List(e)) /\ called[e] \in Seq(Entries)
          /\ List(e) \in Seq(Entries)
      BY <1>6, <1>types, <2>1, <2>2, ListType DEF Deliver, TypeOK
    <3>2. x \in Entries
      BY <3>1
    <3> HIDE DEF x
    <3>3. /\ Len(called'[e]) = Len(called[e]) + 1 /\ Len(called[e]) \in Nat
          /\ \A i \in 1..Len(called[e]) : called'[e][i] = called[e][i]
          /\ called'[e][Len(called[e]) + 1] = x
          /\ DOMAIN called[e] = 1..Len(called[e]) /\ DOMAIN called'[e] = 1..Len(called'[e])
      BY <3>1, <3>2, AppendProperties, LenProperties
    <3>4. Range(called[e]) \cup {x} \subseteq Range(called'[e])
      BY <3>3 DEF Range
    <3>5. Skipped(e)' \subseteq Skipped(e)
      <4>1. SUFFICES ASSUME NEW p \in 1..Len(List(e)), p <= cursor[e] + 1,
                            List(e)[p] \notin Range(called'[e]), List(e)[p].id <= since[e]
                     PROVE  List(e)[p] \in Skipped(e)
        BY <2>1, <3>1 DEF Skipped
      <4>2. p # cursor[e] + 1
        BY <3>4, <4>1 DEF x
      <4>3. p <= cursor[e]
        BY <1>types, <2>1, <4>1, <4>2
      <4>4. QED
        BY <3>4, <4>1, <4>3 DEF Skipped
    <3>6. QED
      BY <1>types, <2>1, <3>5, NothingMoreSkipped
  <2>3. CASE e # f
    <3>1. cursor'[e] = cursor[e] /\ called'[e] = called[e]
      BY <1>6, <2>3 DEF Deliver, IInv, TypeOK
    <3>2. Skipped(e)' \subseteq Skipped(e)
      BY <2>1, <3>1 DEF Skipped
    <3>3. QED
      BY <1>types, <2>1, <3>2, NothingMoreSkipped
  <2>4. QED
    BY <2>2, <2>3
<1>7. ASSUME NEW f \in Emitters, Leave(f)
      PROVE  FewSkipped(e)'
  <2>1. /\ e \in awaiting /\ List(e)' = List(e) /\ behind'[e] = behind[e]
        /\ cursor'[e] = cursor[e] /\ called'[e] = called[e] /\ since'[e] = since[e]
        /\ registered' = registered
    BY <1>1, <1>7 DEF Leave, IInv, TypeOK, List
  <2>2. Skipped(e)' \subseteq Skipped(e)
    BY <2>1 DEF Skipped
  <2>3. QED
    BY <1>types, <2>1, <2>2, NothingMoreSkipped
<1>8. CASE UNCHANGED vars
  BY <1>1, <1>8, <1>same DEF vars, List
<1>9. QED
  BY <1>2, <1>3, <1>4, <1>5, <1>6, <1>7, <1>8 DEF Next, Registrations, Emissions, Return, Cancel

LEMMA BusSkipped == Spec => []SkippedInv
<1>1. Init => SkippedInv
  BY DEF Init, SkippedInv
<1>2. IInv /\ SkippedInv /\ [Next]_vars => SkippedInv'
  BY SkippedStep
<1>3. QED
  BY <1>1, <1>2, BusInvariant, PTL DEF Spec

\* An emission that returns has missed at most as many of the handlers that stayed
\* registered as were removed behind its cursor (EventBus.emit, unsubscribe, clear).
THEOREM BusMissesAreRemovals == Spec => MissesAreRemovals
<1>1. IInv /\ SkippedInv =>
        \A e \in Emitters : Return(e) => Cardinality(Undelivered(e)) <= behind[e]
  <2>1. SUFFICES ASSUME IInv, SkippedInv, NEW e \in Emitters, Return(e)
                 PROVE  Cardinality(Undelivered(e)) <= behind[e]
    OBVIOUS
  <2>2. /\ List(e) \in Seq(Entries) /\ DOMAIN List(e) = 1..Len(List(e)) /\ Len(List(e)) \in Nat
        /\ e \in awaiting /\ cursor[e] >= Len(List(e)) /\ cursor[e] \in Nat
    BY <2>1, ListType, LenProperties DEF Return, IInv, TypeOK
  <2>3. {q \in 1..Len(List(e)) : q <= cursor[e]} = DOMAIN List(e)
    BY <2>2
  <2>4. Undelivered(e) = Skipped(e)
    BY <2>3 DEF Undelivered, Skipped, Range
  <2>5. QED
    BY <2>1, <2>2, <2>4 DEF SkippedInv, FewSkipped
<1>2. IInv /\ SkippedInv /\ [Next]_vars =>
        [\A e \in Emitters : Return(e) => Cardinality(Undelivered(e)) <= behind[e]]_vars
  BY <1>1
<1>3. QED
  BY <1>2, BusInvariant, BusSkipped, PTL DEF Spec, MissesAreRemovals
=============================================================================
