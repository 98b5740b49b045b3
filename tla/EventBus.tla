------------------------------ MODULE EventBus ------------------------------
(***************************************************************************)
(* One topic of the publish/subscribe bus of core/events.py.               *)
(*                                                                         *)
(* emit() and _emit_system_event() loop over the LIVE list of handlers and *)
(* await each one, so the list may change between two deliveries: by the   *)
(* handler that is running or by any other task.  The loop is Python's     *)
(* list iterator: a cursor, compared with the length of the list at every  *)
(* step.  clear() drops the dictionary of lists; an emission in flight     *)
(* keeps iterating over the list it took, which nobody can reach any more. *)
(*                                                                         *)
(* The entries of the list carry the number of their registration, so that *)
(* two registrations of one handler can be told apart.                     *)
(***************************************************************************)
EXTENDS SequencesExt, Integers

CONSTANTS
  Handlers,          \* the handler functions
  Emitters,          \* the tasks that may have an emission in progress
  MaxRegistrations   \* bound: registrations made in a behaviour

ASSUME BusAssumption == MaxRegistrations \in Nat

VARIABLES
  handlers,    \* EventBus._handlers[topic]
  registered,  \* registrations made so far
  detached,    \* emissions whose list clear() has dropped from the bus
  orphan,      \* the list a detached emission iterates over
  awaiting,    \* emissions that are awaiting a handler
  cursor,      \* entries the emission's iterator has consumed
  called,      \* history: entries the emission has delivered to, in order
  since,       \* history: registrations made before the emission began
  behind       \* history: removals behind the cursor during the emission

vars == <<handlers, registered, detached, orphan, awaiting, cursor, called,
          since, behind>>

Entries == [handler : Handlers, id : 1..MaxRegistrations]

\* The list the iterator of emission e refers to.
List(e) == IF e \in detached THEN orphan[e] ELSE handlers

Init ==
  /\ handlers = <<>>
  /\ registered = 0
  /\ detached = {}
  /\ orphan = [e \in Emitters |-> <<>>]
  /\ awaiting = {}
  /\ cursor = [e \in Emitters |-> 0]
  /\ called = [e \in Emitters |-> <<>>]
  /\ since = [e \in Emitters |-> 0]
  /\ behind = [e \in Emitters |-> 0]

-----------------------------------------------------------------------------
(* Registration.                                                           *)

\* Mutation of Subscribe: the handler is put in front of the others.
SubscribeFirst(h) ==
  /\ registered < MaxRegistrations
  /\ registered' = registered + 1
  /\ handlers' = <<[handler |-> h, id |-> registered + 1]>> \o handlers
  /\ UNCHANGED <<detached, orphan, awaiting, cursor, called, since, behind>>

\* subscribe(), and the decorator of on(): append, never checking for doubles.
Subscribe(h) ==
  /\ registered < MaxRegistrations
  /\ registered' = registered + 1
  /\ handlers' = Append(handlers, [handler |-> h, id |-> registered + 1])
  /\ UNCHANGED <<detached, orphan, awaiting, cursor, called, since, behind>>

\* p is the entry of h that list.remove() takes, the first one.
IsFirst(h, p) ==
  /\ handlers[p].handler = h
  /\ \A q \in 1..p - 1 : handlers[q].handler # h

\* unsubscribe(); for a handler that is not registered it is a no-op.
Unsubscribe(h) ==
  /\ \E p \in 1..Len(handlers) :
       /\ IsFirst(h, p)
       /\ handlers' = RemoveAt(handlers, p)
       /\ behind' = [e \in Emitters |->
            IF e \in awaiting \ detached /\ p <= cursor[e] THEN behind[e] + 1 ELSE behind[e]]
  /\ UNCHANGED <<registered, detached, orphan, awaiting, cursor, called, since>>

\* clear(): emissions in flight keep the lists they have taken.
Clear ==
  /\ handlers' = <<>>
  /\ detached' = awaiting
  /\ orphan' = [e \in Emitters |-> IF e \in awaiting THEN List(e) ELSE <<>>]
  /\ UNCHANGED <<registered, awaiting, cursor, called, since, behind>>

-----------------------------------------------------------------------------
(* Emission.                                                               *)

\* emit() is called.  No await separates taking the list from the first
\* delivery; without handlers it returns at once and nothing changes.
Emit(e) ==
  /\ e \notin awaiting
  /\ handlers # <<>>
  /\ awaiting' = awaiting \cup {e}
  /\ cursor' = [cursor EXCEPT ![e] = 1]
  /\ called' = [called EXCEPT ![e] = <<handlers[1]>>]
  /\ since' = [since EXCEPT ![e] = registered]
  /\ UNCHANGED <<handlers, registered, detached, orphan, behind>>

\* The handler returns or raises (an Exception is logged and swallowed) and
\* the iterator finds another entry.
Deliver(e) ==
  /\ e \in awaiting /\ cursor[e] < Len(List(e))
  /\ cursor' = [cursor EXCEPT ![e] = @ + 1]
  /\ called' = [called EXCEPT ![e] = Append(@, List(e)[cursor[e] + 1])]
  /\ UNCHANGED <<handlers, registered, detached, orphan, awaiting, since, behind>>

\* The emission is over: its iterator and a list it alone knew are dropped, and
\* so is its history, which the properties read in the state before.
Leave(e) ==
  /\ awaiting' = awaiting \ {e}
  /\ detached' = detached \ {e}
  /\ orphan' = [orphan EXCEPT ![e] = <<>>]
  /\ cursor' = [cursor EXCEPT ![e] = 0]
  /\ called' = [called EXCEPT ![e] = <<>>]
  /\ since' = [since EXCEPT ![e] = 0]
  /\ behind' = [behind EXCEPT ![e] = 0]
  /\ UNCHANGED <<handlers, registered>>

\* Mutation of Return: an exception of the handler ends the loop.
ReturnEarly(e) ==
  /\ e \in awaiting
  /\ Leave(e)

\* Mutation of Return: the iterator waits for one more entry.
ReturnLate(e) ==
  /\ e \in awaiting /\ cursor[e] > Len(List(e))
  /\ Leave(e)

\* The handler returns or raises and the iterator is exhausted.
Return(e) ==
  /\ e \in awaiting /\ cursor[e] >= Len(List(e))
  /\ Leave(e)

\* CancelledError is no Exception: it leaves emit() and ends the emission.
Cancel(e) ==
  /\ e \in awaiting
  /\ Leave(e)

-----------------------------------------------------------------------------

Registrations == Clear \/ \E h \in Handlers : Subscribe(h) \/ Unsubscribe(h)

Emissions == \E e \in Emitters : Emit(e) \/ Deliver(e) \/ Return(e) \/ Cancel(e)

Next == Registrations \/ Emissions

Spec == Init /\ [][Next]_vars

\* Every handler ends, and the event loop resumes the emission that awaits it.
FairSpec == Spec /\ \A e \in Emitters : WF_vars(Deliver(e) \/ Return(e))

-----------------------------------------------------------------------------
(* Properties.                                                             *)

\* The shapes of the variables: only an emission in flight can be detached,
\* and a detached one keeps the only reference to its list.
TypeOK ==
  /\ handlers \in Seq(Entries)
  /\ registered \in 0..MaxRegistrations
  /\ detached \subseteq awaiting
  /\ orphan \in [Emitters -> Seq(Entries)]
  /\ awaiting \subseteq Emitters
  /\ cursor \in [Emitters -> Nat]
  /\ called \in [Emitters -> Seq(Entries)]
  /\ since \in [Emitters -> 0..MaxRegistrations]
  /\ behind \in [Emitters -> Nat]

\* However the list changes under an emission, emit() delivers to a
\* registration at most once and in the order of registration.
CalledOnceInOrder ==
  \A e \in Emitters : \A i, j \in 1..Len(called[e]) :
    i < j => called[e][i].id < called[e][j].id

\* The registrations that were there when the emission began and still are,
\* but have not been delivered to.
Undelivered(e) == {x \in Range(List(e)) \ Range(called[e]) : x.id <= since[e]}

\* An emission that returns has missed at most as many of the handlers that
\* stayed registered as were removed behind its cursor: neither an exception
\* nor a subscription nor clear() makes it miss any.
MissesAreRemovals ==
  [][\A e \in Emitters :
       Return(e) => Cardinality(Undelivered(e)) <= behind[e]]_vars

\* An emission ends once registrations cease (MaxRegistrations bounds them);
\* the live list would otherwise let it run for ever.
EmissionReturns == \A e \in Emitters : e \in awaiting ~> e \notin awaiting
=============================================================================
