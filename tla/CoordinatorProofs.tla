---- MODULE CoordinatorProofs ----
(***************************************************************************)
(* That the answers of the coordinator are fresh and that the bus and the  *)
(* client are told the same, for any number of concurrent calls, any set   *)
(* of services and any module that never answers.                          *)
(***************************************************************************)
EXTENDS Coordinator, SequenceTheorems, FiniteSetTheorems, TLAPS

(***************************************************************************)
(* The inductive invariant                                                 *)
(***************************************************************************)
ShapeInv ==
    /\ DOMAIN got = Calls /\ DOMAIN answer = Calls /\ DOMAIN events = Calls
    /\ since \in [Calls -> [failed : SUBSET Modules, measured : Nat]]

\* Every call in progress may still be measured, once.
Busy == {c \in Calls : pc[c] # "idle"}
CountInv == measured + Cardinality(Busy) <= begun

Announced == <<"invocation">>

\* Where a call is, or how it has ended, says which events it has put on the bus.
EventInv(c) ==
    /\ pc[c] # "idle" => outcome[c] = "none"
    /\ pc[c] = "announce" => events[c] = <<>>
    /\ pc[c] \in {"ask", "wait", "inner"} => events[c] = Announced
    /\ pc[c] = "inner" => answer[c].code # "ok"
    /\ pc[c] = "tell" =>
           \/ events[c] = Announced
           \/ events[c] = <<"invocation", "error">> /\ answer[c].code # "ok"
    /\ outcome[c] = "answered" =>
           \/ answer[c].code = "ok" /\ events[c] = <<"invocation", "completed">>
           \/ /\ answer[c].code # "ok"
              /\ events[c] \in {<<"invocation", "error">>, <<"invocation", "error", "error">>}
    /\ outcome[c] = "refused" => events[c] = <<>>
    /\ outcome[c] = "raised" => events[c] = Announced

\* What was known when a call began is still known, until Guardian has stopped.
SinceInv(c) ==
    /\ engine # "down" => since[c].failed \subseteq failed
    /\ since[c].measured <= measured

\* What a call has heard is no older than the call.
HeardInv(c) ==
    /\ "guardian" \in DOMAIN got[c] =>
           \/ got[c]["guardian"] = None
           \/ \E f \in SUBSET Modules : /\ got[c]["guardian"] = <<f>>
                                        /\ engine # "down" => since[c].failed \subseteq f
    /\ "pulse.list" \in DOMAIN got[c] =>
           \/ got[c]["pulse.list"] = None
           \/ LET n == got[c]["pulse.list"][1]
              IN  got[c]["pulse.list"] = <<n>> /\ n \in Nat /\ since[c].measured <= n

\* A call that is not waiting for answers holds none.
IdleInv(c) == pc[c] # "wait" => got[c] = <<>>

\* AnswersAreFresh, from the moment the answer exists.
FreshInv(c) ==
    /\ answer[c].verdict = "green" /\ engine # "down" => since[c].failed = {}
    /\ answer[c].verdict = "normal" /\ "guardian" \in answer[c].evidence /\ engine # "down"
         => since[c].failed = {}
    /\ answer[c].verdict = "empty" /\ Delegate(entry[c]) = "progress" => since[c].measured = 0

CallInv(c) == EventInv(c) /\ SinceInv(c) /\ IdleInv(c) /\ HeardInv(c) /\ FreshInv(c)

IInv == TypeOK /\ ShapeInv /\ CountInv /\ \A c \in Calls : CallInv(c)

------------------------------------------------------------------------------
(* Tools and answers                                                       *)

LEMMA Delegates ==
  /\ Entries \subseteq Exposed
  /\ \A e \in Exposed : Delegate(e) \in Tools
  BY CoordinatorAssumption DEF Exposed, Tools, Aliases, Delegate

\* An answer that sounds well says so of the guardian's records or of Pulse's: a
\* system is green only by records of no failure, normal with Guardian as a witness
\* only by the same, and a period is empty only by a count of none.
LEMMA AnswerIsFromTheHeard ==
  ASSUME NEW t \in Tools, NEW r,
         NEW Failed, NEW count \in Nat, NEW e,
         "guardian" \in DOMAIN r =>
             \/ r["guardian"] = None
             \/ \E f \in SUBSET Modules : r["guardian"] = <<f>> /\ (e # "down" => Failed \subseteq f),
         "pulse.list" \in DOMAIN r =>
             \/ r["pulse.list"] = None
             \/ LET n == r["pulse.list"][1]
                IN  r["pulse.list"] = <<n>> /\ n \in Nat /\ count <= n
  PROVE  /\ AnswerTo(t, r).verdict = "green" /\ e # "down" => Failed = {}
         /\ AnswerTo(t, r).verdict = "normal" /\ "guardian" \in AnswerTo(t, r).evidence /\ e # "down"
              => Failed = {}
         /\ AnswerTo(t, r).verdict = "empty" /\ t = "progress" => count = 0
<1>1. "guardian" \in Answered(r) /\ ParseDiagnostics(Got(r, "guardian")) = {} /\ e # "down" => Failed = {}
  BY DEF Answered, Got, ParseDiagnostics, None
<1> USE DEF AnswerTo, Reply, Error
<1>2. CASE t = "status"
  <2>1. AnswerTo(t, r) = Status(r)
    BY <1>2
  <2>2. Status(r).verdict \in {"green", "red", "yellow", "none"}
    BY DEF Status
  <2>3. Status(r).verdict = "green" =>
            "guardian" \in Answered(r) /\ ParseDiagnostics(Got(r, "guardian")) = {}
    BY DEF Status
  <2> QED
    BY <1>1, <1>2, <2>1, <2>2, <2>3
<1>3. CASE t = "health"
  <2>1. AnswerTo(t, r) = Health(r)
    BY <1>3
  <2>2. Health(r).verdict \in {"green", "red", "none"}
    BY DEF Health
  <2>3. Health(r).verdict = "green" =>
            "guardian" \in Answered(r) /\ ParseDiagnostics(Got(r, "guardian")) = {}
    BY DEF Health, Answered, Got
  <2> QED
    BY <1>1, <1>3, <2>1, <2>2, <2>3
<1>4. CASE t = "recommend"
  <2>1. AnswerTo(t, r) = Recommend(r)
    BY <1>4
  <2>2. Recommend(r).verdict \in {"advice", "normal", "red", "none"}
    BY DEF Recommend
  <2>3. Recommend(r).verdict = "normal" /\ "guardian" \in Recommend(r).evidence =>
            "guardian" \in Answered(r) /\ ParseDiagnostics(Got(r, "guardian")) = {}
    BY DEF Recommend
  <2> QED
    BY <1>1, <1>4, <2>1, <2>2, <2>3
<1>5. CASE t = "progress"
  <2>1. AnswerTo(t, r) = Progress(r)
    BY <1>5
  <2>2. \A n, trend : InterpretTrend(n, trend) \in {"low", "rising", "falling", "stable"}
    BY DEF InterpretTrend
  <2>3. Progress(r).verdict \in {"empty", "low", "rising", "falling", "stable", "none"}
    BY <2>2 DEF Progress
  <2>4. Progress(r).verdict = "empty" => Got(r, "pulse.list") = <<0>>
    BY <2>2 DEF Progress
  <2>5. Got(r, "pulse.list") = <<0>> => count = 0
    BY DEF Got, None
  <2> QED
    BY <1>5, <2>1, <2>3, <2>4, <2>5
<1>6. CASE t = "history"
  <2>1. AnswerTo(t, r) = History(r) /\ History(r).verdict \in {"entries", "empty", "none"}
    BY <1>6 DEF History
  <2> QED
    BY <1>6, <2>1
<1>7. CASE t = "insights"
  <2>1. AnswerTo(t, r) = Insights(r) /\ Insights(r).verdict \in {"entries", "empty", "none"}
    BY <1>7 DEF Insights
  <2> QED
    BY <1>7, <2>1
<1>8. CASE t = "logs"
  <2>1. AnswerTo(t, r) = Logs(r) /\ Logs(r).verdict \in {"entries", "empty", "none"}
    BY <1>8 DEF Logs
  <2> QED
    BY <1>8, <2>1
<1> QED
  BY <1>2, <1>3, <1>4, <1>5, <1>6, <1>7, <1>8 DEF Tools

------------------------------------------------------------------------------
(* Types and counts                                                        *)

LEMMA BusyMoves ==
  ASSUME TypeOK, NEW c \in Calls, NEW w \in {"idle", "announce", "ask", "wait", "inner", "tell"},
         pc' = [pc EXCEPT ![c] = w]
  PROVE  /\ Cardinality(Busy) \in Nat /\ Cardinality(Busy') \in Nat
         /\ (pc[c] = "idle") = (w = "idle") => Cardinality(Busy') = Cardinality(Busy)
         /\ pc[c] # "idle" /\ w = "idle" => Cardinality(Busy) = Cardinality(Busy') + 1
         /\ pc[c] = "idle" /\ w # "idle" => Cardinality(Busy') = Cardinality(Busy) + 1
<1>1. IsFiniteSet(Calls)
  BY CoordinatorAssumption, FS_Interval DEF Calls
<1>2. Busy \subseteq Calls /\ Busy' \subseteq Calls
  BY DEF Busy
<1>3. IsFiniteSet(Busy) /\ IsFiniteSet(Busy')
  BY <1>1, <1>2, FS_Subset
<1>4. (pc[c] = "idle") = (w = "idle") => Busy' = Busy
  BY DEF Busy, TypeOK
<1>5. pc[c] # "idle" /\ w = "idle" => Busy = Busy' \cup {c} /\ c \notin Busy'
  BY DEF Busy, TypeOK
<1>6. pc[c] = "idle" /\ w # "idle" => Busy' = Busy \cup {c} /\ c \notin Busy
  BY DEF Busy, TypeOK
<1>7. Cardinality(Busy) \in Nat /\ Cardinality(Busy') \in Nat
  BY <1>3, FS_CardinalityType
<1> QED
  BY <1>3, <1>4, <1>5, <1>6, <1>7, FS_AddElement

\* What a measurement can add.
LEMMA EmitMeasures ==
  ASSUME TypeOK, NEW c \in Calls, NEW topic, Emit(c, topic)
  PROVE  /\ measured \in Nat /\ measured' \in {measured, measured + 1}
         /\ topic # "completed" => measured' = measured
         /\ events' = [events EXCEPT ![c] = Append(@, topic)]
  BY DEF Emit, TypeOK

Places == {"idle", "announce", "ask", "wait", "inner", "tell"}

\* The types that do not depend on the counts.
PlainTypes ==
    /\ offered \in Loadouts /\ failed \subseteq Modules
    /\ engine \in {"up", "stopping", "down"} /\ begun \in 0..MaxCalls
    /\ entry \in [Calls -> Exposed] /\ pc \in [Calls -> Places]
    /\ waiting \in [Calls -> SUBSET offered]
    /\ \A c \in Calls : waiting[c] \subseteq DOMAIN got[c]
    /\ outcome \in [Calls -> {"none", "answered", "refused", "raised", "cancelled"}]

LEMMA CountsAreTypes ==
  ASSUME PlainTypes', measured' \in Nat, CountInv' PROVE TypeOK'
<1>1. IsFiniteSet(Calls)
  BY CoordinatorAssumption, FS_Interval DEF Calls
<1>2. Busy' \subseteq Calls
  BY DEF Busy
<1>3. Cardinality(Busy') \in Nat
  BY <1>1, <1>2, FS_Subset, FS_CardinalityType
<1>4. begun' \in Nat
  BY DEF PlainTypes
<1>5. measured' \in 0..begun'
  BY <1>3, <1>4 DEF CountInv
<1> QED
  BY <1>5 DEF TypeOK, PlainTypes, Places

LEMMA TypeStep ==
  ASSUME IInv, [Next]_vars
  PROVE  TypeOK' /\ ShapeInv' /\ CountInv'
<1> DEFINE Kept == PlainTypes' /\ ShapeInv' /\ CountInv' /\ measured' \in Nat
<1>1. SUFFICES Kept
  BY <1>1, CountsAreTypes
<1>2. /\ PlainTypes /\ ShapeInv /\ CountInv /\ measured \in Nat /\ begun \in Nat /\ MaxCalls \in Nat
      /\ TypeOK
  BY CoordinatorAssumption DEF IInv, TypeOK, PlainTypes, Places
<1>3. \A e \in Entries : e \in Exposed
  BY Delegates
<1> USE DEF PlainTypes, ShapeInv, Places, system, local
<1>4. ASSUME NEW c \in Calls, Invoke(c) PROVE Kept
  <2>1. measured' = measured
    BY <1>2, <1>4, EmitMeasures DEF Invoke
  <2>2. CountInv'
    BY <1>2, <1>4, <2>1, BusyMoves DEF Invoke, CountInv
  <2> QED
    BY <1>2, <1>4, <2>1, <2>2 DEF Invoke, Emit
<1>5. ASSUME NEW c \in Calls, Ask(c) PROVE Kept
  <2>1. PICK w \in {"wait", "tell"} : pc' = [pc EXCEPT ![c] = w]
    BY <1>5 DEF Ask
  <2>2. CountInv'
    BY <1>2, <1>5, <2>1, BusyMoves DEF Ask, CountInv
  <2>3. CASE /\ waiting' = [waiting EXCEPT ![c] = Asked(Delegate(entry[c]))]
             /\ got' = [got EXCEPT ![c] = [s \in Asked(Delegate(entry[c])) |-> None]]
             /\ UNCHANGED answer
    <3>1. Asked(Delegate(entry[c])) \subseteq offered
      BY DEF Asked
    <3> QED
      BY <1>2, <1>5, <2>1, <2>2, <2>3, <3>1 DEF Ask
  <2>4. CASE UNCHANGED <<waiting, got>> /\ \E a : answer' = [answer EXCEPT ![c] = a]
    BY <1>2, <1>5, <2>1, <2>2, <2>4 DEF Ask
  <2> QED
    BY <1>5, <2>3, <2>4 DEF Ask
<1>6. ASSUME NEW c \in Calls, AskRaises(c) PROVE Kept
  <2>1. CountInv'
    <3>1. /\ Cardinality(Busy) \in Nat /\ Cardinality(Busy') \in Nat
          /\ Cardinality(Busy) = Cardinality(Busy') + 1
      BY <1>2, <1>6, BusyMoves DEF AskRaises, End
    <3>2. measured' = measured /\ begun' = begun
      BY <1>6 DEF AskRaises
    <3> QED
      BY <1>2, <3>1, <3>2 DEF CountInv
  <2> QED
    BY <1>2, <1>6, <2>1 DEF AskRaises, End
<1>7. ASSUME NEW c \in Calls, Conclude(c) PROVE Kept
  <2>1. PICK w \in {"inner", "tell"} : pc' = [pc EXCEPT ![c] = w]
    BY <1>7 DEF Conclude
  <2>2. CountInv'
    BY <1>2, <1>7, <2>1, BusyMoves DEF Conclude, CountInv
  <2> QED
    BY <1>2, <1>7, <2>1, <2>2 DEF Conclude
<1>8. ASSUME NEW c \in Calls, TellInner(c) PROVE Kept
  <2>1. Result(c) # "completed"
    BY <1>8 DEF IInv, CallInv, EventInv, TellInner, Result
  <2>2. measured' = measured
    BY <1>2, <1>8, <2>1, EmitMeasures DEF TellInner
  <2>3. CountInv'
    BY <1>2, <1>8, <2>2, BusyMoves DEF TellInner, CountInv
  <2> QED
    BY <1>2, <1>8, <2>2, <2>3 DEF TellInner, Emit
<1>9. ASSUME NEW c \in Calls, Tell(c) PROVE Kept
  <2>1. measured' \in {measured, measured + 1}
    BY <1>2, <1>9, EmitMeasures DEF Tell
  <2>2. Cardinality(Busy) \in Nat /\ Cardinality(Busy') \in Nat /\ Cardinality(Busy) = Cardinality(Busy') + 1
    BY <1>2, <1>9, BusyMoves DEF Tell, End
  <2>3. begun' = begun
    BY <1>9 DEF Tell
  <2>4. CountInv'
    BY <1>2, <2>1, <2>2, <2>3 DEF CountInv
  <2>5. measured' \in Nat
    BY <1>2, <2>1
  <2> QED
    BY <1>2, <1>9, <2>4, <2>5 DEF Tell, End, Emit
<1>10. ASSUME NEW c \in Calls, NEW s \in Services, QueryFails(c, s) PROVE Kept
  <2>1. CountInv'
    BY <1>2, <1>10 DEF QueryFails, CountInv, Busy
  <2> QED
    BY <1>2, <1>10, <2>1 DEF QueryFails
<1>11. ASSUME NEW c \in Calls, Cancel(c) PROVE Kept
  <2>1. CountInv'
    <3>1. /\ Cardinality(Busy) \in Nat /\ Cardinality(Busy') \in Nat
          /\ Cardinality(Busy) = Cardinality(Busy') + 1
      BY <1>2, <1>11, BusyMoves DEF Cancel, End
    <3>2. measured' = measured /\ begun' = begun
      BY <1>11 DEF Cancel
    <3> QED
      BY <1>2, <3>1, <3>2 DEF CountInv
  <2> QED
    BY <1>2, <1>11, <2>1 DEF Cancel, End
<1>12. ASSUME NEW c \in Calls, NEW e \in Entries, Begin(c, e) PROVE Kept
  <2>1. CountInv'
    <3>1. /\ Cardinality(Busy) \in Nat /\ Cardinality(Busy') \in Nat
          /\ Cardinality(Busy') = Cardinality(Busy) + 1
      BY <1>2, <1>12, BusyMoves DEF Begin, Arrives
    <3>2. measured' = measured /\ begun' = begun + 1
      BY <1>12 DEF Begin, Arrives
    <3> QED
      BY <1>2, <3>1, <3>2 DEF CountInv
  <2> QED
    BY <1>2, <1>3, <1>12, <2>1 DEF Begin, Arrives
<1>13. ASSUME NEW c \in Calls, NEW e \in Entries, Refuse(c, e) PROVE Kept
  <2>1. Cardinality(Busy) \in Nat
    <3>1. IsFiniteSet(Calls) /\ Busy \subseteq Calls
      BY CoordinatorAssumption, FS_Interval DEF Calls, Busy
    <3> QED
      BY <3>1, FS_Subset, FS_CardinalityType
  <2>2. CountInv'
    BY <1>2, <1>13, <2>1 DEF Refuse, Arrives, CountInv, Busy
  <2> QED
    BY <1>2, <1>3, <1>13, <2>2 DEF Refuse, Arrives
<1>14. ASSUME NEW c \in Calls, NEW s \in Services, AnswerComes(c, s) PROVE Kept
  <2>1. CountInv'
    BY <1>2, <1>14 DEF AnswerComes, CountInv, Busy
  <2> QED
    BY <1>2, <1>14, <2>1 DEF AnswerComes
<1>15. CASE EngineStops \/ GuardianStops \/ UNCHANGED vars
  <2>1. CountInv'
    BY <1>2, <1>15 DEF EngineStops, GuardianStops, vars, CountInv, Busy
  <2> QED
    BY <1>2, <1>15, <2>1 DEF EngineStops, GuardianStops, vars
<1> QED
  BY <1>4, <1>5, <1>6, <1>7, <1>8, <1>9, <1>10, <1>11, <1>12, <1>13, <1>14, <1>15 DEF Next, Step

------------------------------------------------------------------------------
(* The calls                                                               *)

LEMMA Appending ==
  /\ \A x, y : Append(<<x>>, y) = <<x, y>>
  /\ \A x, y, z : Append(<<x, y>>, z) = <<x, y, z>>
<1>1. ASSUME NEW x, NEW y PROVE Append(<<x>>, y) = <<x, y>>
  <2> DEFINE S == {x, y}
             a == Append(<<x>>, y)
             b == <<x, y>>
  <2>1. <<x>> \in Seq(S) /\ Len(<<x>>) = 1 /\ <<x>>[1] = x /\ y \in S
    OBVIOUS
  <2>2. a \in Seq(S) /\ Len(a) = 2 /\ a[1] = x /\ a[2] = y
    BY <2>1, AppendProperties
  <2>3. b \in Seq(S) /\ Len(b) = 2 /\ b[1] = x /\ b[2] = y
    OBVIOUS
  <2> HIDE DEF a, b, S
  <2>4. a = b
    BY <2>2, <2>3, SeqEqual
  <2> QED
    BY <2>4 DEF a, b
<1>2. ASSUME NEW x, NEW y, NEW z PROVE Append(<<x, y>>, z) = <<x, y, z>>
  <2> DEFINE S == {x, y, z}
             a == Append(<<x, y>>, z)
             b == <<x, y, z>>
  <2>1. <<x, y>> \in Seq(S) /\ Len(<<x, y>>) = 2 /\ <<x, y>>[1] = x /\ <<x, y>>[2] = y /\ z \in S
    OBVIOUS
  <2>2. a \in Seq(S) /\ Len(a) = 3 /\ a[1] = x /\ a[2] = y /\ a[3] = z
    BY <2>1, AppendProperties
  <2>3. b \in Seq(S) /\ Len(b) = 3 /\ b[1] = x /\ b[2] = y /\ b[3] = z
    OBVIOUS
  <2> HIDE DEF a, b, S
  <2>4. a = b
    BY <2>2, <2>3, SeqEqual
  <2> QED
    BY <2>4 DEF a, b
<1> QED
  BY <1>1, <1>2

\* A step of another call can only add to what is known and measured.
LEMMA OthersStay ==
  ASSUME NEW d \in Calls, CallInv(d), TypeOK, measured' \in {measured, measured + 1},
         UNCHANGED <<failed, engine>>, entry'[d] = entry[d], pc'[d] = pc[d], got'[d] = got[d],
         answer'[d] = answer[d], events'[d] = events[d], outcome'[d] = outcome[d],
         since'[d] = since[d], since[d].measured \in Nat
  PROVE  CallInv(d)'
<1>1. EventInv(d)'
  BY DEF CallInv, EventInv
<1>2. SinceInv(d)'
  BY DEF CallInv, SinceInv, TypeOK
<1>3. IdleInv(d)' /\ HeardInv(d)'
  BY DEF CallInv, IdleInv, HeardInv
<1>4. FreshInv(d)'
  BY DEF CallInv, FreshInv
<1> QED
  BY <1>1, <1>2, <1>3, <1>4 DEF CallInv

LEMMA CallStep ==
  ASSUME IInv, [Next]_vars, NEW d \in Calls
  PROVE  CallInv(d)'
<1>1. /\ TypeOK /\ ShapeInv /\ CallInv(d) /\ since[d] \in [failed : SUBSET Modules, measured : Nat]
      /\ measured \in Nat /\ Delegate(entry[d]) \in Tools
  BY Delegates DEF IInv, TypeOK, ShapeInv
<1> USE DEF ShapeInv, system, local
<1>2. ASSUME NEW c \in Calls, Invoke(c) PROVE CallInv(d)'
  <2>1. measured' = measured /\ events' = [events EXCEPT ![c] = Append(@, "invocation")]
    BY <1>1, <1>2, EmitMeasures DEF Invoke
  <2>2. CASE d # c
    BY <1>1, <1>2, <2>1, <2>2, OthersStay DEF Invoke, TypeOK
  <2>3. CASE d = c
    <3>1. events'[d] = Announced /\ pc'[d] = "ask"
      BY <1>1, <1>2, <2>1, <2>3 DEF Invoke, CallInv, EventInv, Announced, TypeOK
    <3>2. EventInv(d)'
      BY <1>1, <1>2, <2>3, <3>1 DEF Invoke, CallInv, EventInv, TypeOK
    <3> QED
      BY <1>1, <1>2, <2>1, <2>3, <3>2 DEF Invoke, CallInv, SinceInv, IdleInv, HeardInv, FreshInv
  <2> QED
    BY <2>2, <2>3
<1>3. ASSUME NEW c \in Calls, Ask(c) PROVE CallInv(d)'
  <2>1. CASE d # c
    BY <1>1, <1>3, <2>1, OthersStay DEF Ask, TypeOK
  <2>2. CASE d = c
    <3>1. \/ pc'[d] = "wait" /\ answer' = answer /\ got'[d] = [s \in Asked(Delegate(entry[c])) |-> None]
          \/ /\ pc'[d] = "tell" /\ got' = got
             /\ \E code : answer'[d] = Error(code)
      BY <1>1, <1>3, <2>2 DEF Ask, TypeOK
    <3>2. EventInv(d)'
      BY <1>1, <1>3, <2>2, <3>1 DEF Ask, CallInv, EventInv, TypeOK
    <3>3. SinceInv(d)'
      BY <1>1, <1>3 DEF Ask, CallInv, SinceInv
    <3>4. HeardInv(d)' /\ IdleInv(d)'
      BY <1>1, <1>3, <2>2, <3>1 DEF Ask, CallInv, HeardInv, IdleInv
    <3>5. FreshInv(d)'
      BY <1>1, <1>3, <3>1 DEF Ask, CallInv, FreshInv, Error
    <3> QED
      BY <3>2, <3>3, <3>4, <3>5 DEF CallInv
  <2> QED
    BY <2>1, <2>2
<1>4. ASSUME NEW c \in Calls, AskRaises(c) PROVE CallInv(d)'
  <2>1. CASE d # c
    BY <1>1, <1>4, <2>1, OthersStay DEF AskRaises, End, TypeOK
  <2>2. CASE d = c
    BY <1>1, <1>4, <2>2 DEF AskRaises, End, CallInv, EventInv, SinceInv, IdleInv, HeardInv, FreshInv, TypeOK
  <2> QED
    BY <2>1, <2>2
<1>5. ASSUME NEW c \in Calls, Conclude(c) PROVE CallInv(d)'
  <2>1. CASE d # c
    BY <1>1, <1>5, <2>1, OthersStay DEF Conclude, TypeOK
  <2>2. CASE d = c
    <3> DEFINE a == AnswerTo(Delegate(entry[d]), got[d])
    <3>1. /\ a.verdict = "green" /\ engine # "down" => since[d].failed = {}
          /\ a.verdict = "normal" /\ "guardian" \in a.evidence /\ engine # "down" => since[d].failed = {}
          /\ a.verdict = "empty" /\ Delegate(entry[d]) = "progress" => since[d].measured = 0
      <4>1. since[d].measured \in Nat /\ Delegate(entry[d]) \in Tools /\ HeardInv(d)
        BY <1>1 DEF CallInv
      <4>2. "guardian" \in DOMAIN got[d] =>
                \/ got[d]["guardian"] = None
                \/ \E f \in SUBSET Modules : /\ got[d]["guardian"] = <<f>>
                                             /\ engine # "down" => since[d].failed \subseteq f
        BY <4>1 DEF HeardInv
      <4>3. "pulse.list" \in DOMAIN got[d] =>
                \/ got[d]["pulse.list"] = None
                \/ LET n == got[d]["pulse.list"][1]
                   IN  got[d]["pulse.list"] = <<n>> /\ n \in Nat /\ since[d].measured <= n
        BY <4>1 DEF HeardInv
      <4> QED
        BY <4>1, <4>2, <4>3, AnswerIsFromTheHeard
    <3>2. answer'[d] = a /\ got'[d] = <<>> /\ UNCHANGED <<system, entry, events, outcome, since>>
      BY <1>1, <1>5, <2>2 DEF Conclude
    <3>3. pc[d] = "wait" /\ (pc'[d] = "tell" \/ (pc'[d] = "inner" /\ a.code # "ok"))
      BY <1>1, <1>5, <2>2 DEF Conclude, TypeOK
    <3> HIDE DEF a
    <3>4. EventInv(d)'
      BY <1>1, <3>2, <3>3 DEF CallInv, EventInv
    <3>5. SinceInv(d)' /\ IdleInv(d)' /\ HeardInv(d)' /\ FreshInv(d)'
      BY <1>1, <3>1, <3>2 DEF CallInv, SinceInv, IdleInv, HeardInv, FreshInv
    <3> QED
      BY <3>4, <3>5 DEF CallInv
  <2> QED
    BY <2>1, <2>2
<1>6. ASSUME NEW c \in Calls, TellInner(c) PROVE CallInv(d)'
  <2>1. /\ measured' \in {measured, measured + 1}
        /\ events' = [events EXCEPT ![c] = Append(@, Result(c))]
    BY <1>1, <1>6, EmitMeasures DEF TellInner
  <2>2. CASE d # c
    BY <1>1, <1>6, <2>1, <2>2, OthersStay DEF TellInner, TypeOK
  <2>3. CASE d = c
    <3>1. answer[d].code # "ok" /\ events[d] = Announced
      BY <1>1, <1>6, <2>3 DEF TellInner, CallInv, EventInv
    <3>2. events'[d] = <<"invocation", "error">> /\ pc'[d] = "tell"
      <4>1. events'[d] = Append(events[d], "error")
        BY <1>1, <2>1, <2>3, <3>1 DEF Result
      <4> QED
        BY <1>1, <1>6, <2>3, <3>1, <4>1, Appending DEF TellInner, Announced, TypeOK
    <3>3. EventInv(d)'
      BY <1>1, <1>6, <2>3, <3>1, <3>2 DEF TellInner, CallInv, EventInv, TypeOK
    <3> QED
      BY <1>1, <1>6, <2>1, <2>3, <3>3 DEF TellInner, CallInv, SinceInv, IdleInv, HeardInv, FreshInv
  <2> QED
    BY <2>2, <2>3
<1>7. ASSUME NEW c \in Calls, Tell(c) PROVE CallInv(d)'
  <2>1. /\ measured' \in {measured, measured + 1}
        /\ events' = [events EXCEPT ![c] = Append(@, Result(c))]
    BY <1>1, <1>7, EmitMeasures DEF Tell
  <2>2. CASE d # c
    BY <1>1, <1>7, <2>1, <2>2, OthersStay DEF Tell, End, TypeOK
  <2>3. CASE d = c
    <3>1. \/ events[d] = Announced
          \/ events[d] = <<"invocation", "error">> /\ answer[d].code # "ok"
      BY <1>1, <1>7, <2>3 DEF Tell, CallInv, EventInv
    <3>2. \/ answer[d].code = "ok" /\ events'[d] = <<"invocation", "completed">>
          \/ /\ answer[d].code # "ok"
             /\ events'[d] \in {<<"invocation", "error">>, <<"invocation", "error", "error">>}
      <4>1. events'[d] = Append(events[d], IF answer[d].code = "ok" THEN "completed" ELSE "error")
        BY <1>1, <2>1, <2>3 DEF Result
      <4>2. CASE answer[d].code = "ok"
        BY <3>1, <4>1, <4>2, Appending DEF Announced
      <4>3. CASE answer[d].code # "ok"
        BY <3>1, <4>1, <4>3, Appending DEF Announced
      <4> QED
        BY <4>2, <4>3
    <3>3. pc'[d] = "idle" /\ outcome'[d] = "answered" /\ got'[d] = <<>>
          /\ UNCHANGED <<failed, engine, entry, answer, since>>
      BY <1>1, <1>7, <2>3 DEF Tell, End, TypeOK
    <3>4. EventInv(d)'
      BY <3>2, <3>3 DEF EventInv
    <3>5. SinceInv(d)' /\ IdleInv(d)' /\ HeardInv(d)' /\ FreshInv(d)'
      BY <1>1, <2>1, <3>3 DEF CallInv, SinceInv, IdleInv, HeardInv, FreshInv
    <3> QED
      BY <3>4, <3>5 DEF CallInv
  <2> QED
    BY <2>2, <2>3
<1>8. ASSUME NEW c \in Calls, NEW s \in Services, QueryFails(c, s) PROVE CallInv(d)'
  BY <1>1, <1>8, OthersStay DEF QueryFails, TypeOK
<1>9. ASSUME NEW c \in Calls, Cancel(c) PROVE CallInv(d)'
  <2>1. CASE d # c
    BY <1>1, <1>9, <2>1, OthersStay DEF Cancel, End, TypeOK
  <2>2. CASE d = c
    BY <1>1, <1>9, <2>2
       DEF Cancel, End, CallInv, EventInv, SinceInv, IdleInv, HeardInv, FreshInv, NoAnswer, Error, TypeOK
  <2> QED
    BY <2>1, <2>2
<1>10. ASSUME NEW c \in Calls, NEW e \in Entries, Begin(c, e) PROVE CallInv(d)'
  <2>1. CASE d # c
    BY <1>1, <1>10, <2>1, OthersStay DEF Begin, Arrives, TypeOK
  <2>2. CASE d = c
    <3>1. /\ since'[d] = [failed |-> failed, measured |-> measured]
          /\ answer'[d] = NoAnswer /\ events'[d] = <<>> /\ outcome'[d] = "none" /\ pc'[d] = "announce"
          /\ UNCHANGED <<system, got>> /\ engine # "down"
      BY <1>1, <1>10, <2>2 DEF Begin, Arrives, TypeOK
    <3>2. got'[d] = <<>>
      BY <1>1, <1>10, <2>2, <3>1 DEF Begin, Arrives, CallInv, IdleInv
    <3> QED
      BY <1>1, <3>1, <3>2 DEF CallInv, EventInv, SinceInv, IdleInv, HeardInv, FreshInv, NoAnswer, Error
  <2> QED
    BY <2>1, <2>2
<1>11. ASSUME NEW c \in Calls, NEW e \in Entries, Refuse(c, e) PROVE CallInv(d)'
  <2>1. CASE d # c
    BY <1>1, <1>11, <2>1, OthersStay DEF Refuse, Arrives, TypeOK
  <2>2. CASE d = c
    BY <1>1, <1>11, <2>2
       DEF Refuse, Arrives, CallInv, EventInv, SinceInv, IdleInv, HeardInv, FreshInv, Error, TypeOK
  <2> QED
    BY <2>1, <2>2
<1>12. ASSUME NEW c \in Calls, NEW s \in Services, AnswerComes(c, s) PROVE CallInv(d)'
  <2>1. CASE d # c
    BY <1>1, <1>12, <2>1, OthersStay DEF AnswerComes, TypeOK
  <2>2. CASE d = c
    <3>1. PICK x \in Says(s) : got' = [got EXCEPT ![c][s] = <<x>>]
      BY <1>12 DEF AnswerComes
    <3>2. /\ s = "guardian" => x = failed
          /\ s = "pulse.list" => x = measured
      BY <3>1 DEF Says
    <3>3. DOMAIN got'[d] = DOMAIN got[d] /\ \A u \in DOMAIN got[d] :
              got'[d][u] = IF u = s THEN <<x>> ELSE got[d][u]
      BY <1>1, <2>2, <3>1
    <3>4. UNCHANGED <<system, entry, pc, answer, events, outcome, since>>
      BY <1>12 DEF AnswerComes
    <3>5. HeardInv(d)'
      <4>1. "guardian" \in DOMAIN got'[d] =>
                \/ got'[d]["guardian"] = None
                \/ \E f \in SUBSET Modules : /\ got'[d]["guardian"] = <<f>>
                                             /\ engine' # "down" => since'[d].failed \subseteq f
        BY <1>1, <3>2, <3>3, <3>4 DEF CallInv, HeardInv, SinceInv, TypeOK
      <4>2. "pulse.list" \in DOMAIN got'[d] =>
                \/ got'[d]["pulse.list"] = None
                \/ LET n == got'[d]["pulse.list"][1]
                   IN  got'[d]["pulse.list"] = <<n>> /\ n \in Nat /\ since'[d].measured <= n
        BY <1>1, <3>2, <3>3, <3>4 DEF CallInv, HeardInv, SinceInv
      <4> QED
        BY <4>1, <4>2 DEF HeardInv
    <3> QED
      BY <1>1, <1>12, <2>2, <3>4, <3>5 DEF CallInv, EventInv, SinceInv, IdleInv, FreshInv, AnswerComes, TypeOK
  <2> QED
    BY <2>1, <2>2
<1>13. CASE EngineStops
  BY <1>1, <1>13 DEF EngineStops, CallInv, EventInv, SinceInv, IdleInv, HeardInv, FreshInv
<1>14. CASE GuardianStops
  BY <1>1, <1>14 DEF GuardianStops, CallInv, EventInv, SinceInv, IdleInv, HeardInv, FreshInv
<1>15. CASE UNCHANGED vars
  BY <1>1, <1>15 DEF vars, CallInv, EventInv, SinceInv, IdleInv, HeardInv, FreshInv
<1> QED
  BY <1>2, <1>3, <1>4, <1>5, <1>6, <1>7, <1>8, <1>9, <1>10, <1>11, <1>12, <1>13, <1>14, <1>15
     DEF Next, Step

------------------------------------------------------------------------------
(* The theorems                                                            *)

\* The types, the count of measurements and the facts about each call support each
\* other and hold at all times.
THEOREM CoordinatorInvariant == Spec => []IInv
<1>1. Init => IInv
  <2>1. SUFFICES ASSUME Init PROVE IInv
    OBVIOUS
  <2>2. Busy = {}
    BY <2>1 DEF Init, Busy
  <2>3. CountInv
    BY <2>1, <2>2, FS_EmptySet DEF Init, CountInv
  <2>4. TypeOK /\ ShapeInv
    BY <2>1, CoordinatorAssumption DEF Init, TypeOK, ShapeInv, Exposed, Tools, NoAnswer
  <2>5. \A c \in Calls : CallInv(c)
    BY <2>1 DEF Init, CallInv, EventInv, SinceInv, IdleInv, HeardInv, FreshInv, NoAnswer, Error
  <2> QED
    BY <2>3, <2>4, <2>5 DEF IInv
<1>2. IInv /\ [Next]_vars => IInv'
  <2>1. SUFFICES ASSUME IInv, [Next]_vars PROVE IInv'
    OBVIOUS
  <2>2. \A c \in Calls : CallInv(c)'
    BY <2>1, CallStep
  <2>3. (\A c \in Calls : CallInv(c))'
    BY <2>2
  <2> QED
    BY <2>1, <2>3, TypeStep DEF IInv
<1> QED
  BY <1>1, <1>2, PTL DEF Spec

\* Every variable keeps to its values; in particular Pulse never counts more work
\* units than calls have begun, although health reports its errors twice.
THEOREM CoordinatorTypeCorrect == Spec => []TypeOK
<1>1. IInv => TypeOK
  BY DEF IInv
<1> QED
  BY <1>1, CoordinatorInvariant, PTL

\* No tool calls the system sound, or a period empty, against what was known when the
\* call began (coordinator.py:583-697, 851-988, 991-1123, 1224-1358).
THEOREM CoordinatorAnswersAreFresh == Spec => []AnswersAreFresh
<1>1. IInv => AnswersAreFresh
  BY DEF IInv, CallInv, FreshInv, AnswersAreFresh, Answers
<1> QED
  BY <1>1, CoordinatorInvariant, PTL

\* How often each topic occurs in what a call can have put on the bus.
LEMMA CountingTopics ==
  ASSUME NEW c, NEW topic \in {"completed", "error"}
  PROVE  /\ events[c] \in {<<>>, <<"invocation">>} => Told(c, topic) = 0
         /\ events[c] = <<"invocation", "completed">> =>
                Told(c, "completed") = 1 /\ Told(c, "error") = 0
         /\ events[c] = <<"invocation", "error">> =>
                Told(c, "completed") = 0 /\ Told(c, "error") = 1
         /\ events[c] = <<"invocation", "error", "error">> =>
                Told(c, "completed") = 0 /\ Told(c, "error") = 2
<1> DEFINE S(t) == {i \in DOMAIN events[c] : events[c][i] = t}
<1>1. events[c] = <<>> => S(topic) = {}
  OBVIOUS
<1>2. events[c] = <<"invocation">> => S(topic) = {}
  OBVIOUS
<1>3. events[c] = <<"invocation", "completed">> => S("completed") = {2} /\ S("error") = {}
  OBVIOUS
<1>4. events[c] = <<"invocation", "error">> => S("completed") = {} /\ S("error") = {2}
  OBVIOUS
<1>5. events[c] = <<"invocation", "error", "error">> => S("completed") = {} /\ S("error") = {2, 3}
  OBVIOUS
<1>6. Cardinality({2}) = 1 /\ IsFiniteSet({2})
  BY FS_Singleton
<1>7. Cardinality({2, 3}) = 2
  <2>1. {2, 3} = {2} \cup {3} /\ 3 \notin {2}
    OBVIOUS
  <2> QED
    BY <1>6, <2>1, FS_AddElement
<1>8. \A t : Told(c, t) = Cardinality(S(t))
  BY DEF Told
<1> HIDE DEF S
<1> QED
  BY <1>1, <1>2, <1>3, <1>4, <1>5, <1>6, <1>7, <1>8, FS_EmptySet

\* What the envelope tells the client and what the events tell the listeners of the
\* bus agree, for every call that ends (coordinator.py:148-183, server.py:290-348).
THEOREM CoordinatorEventsTellTheAnswer == Spec => []EventsTellTheAnswer
<1>1. IInv => EventsTellTheAnswer
  <2>1. SUFFICES ASSUME IInv, NEW c \in Calls, outcome[c] \in {"answered", "refused", "raised"}
                 PROVE  /\ Told(c, "completed") = (IF EnvelopeOk(c) THEN 1 ELSE 0)
                        /\ outcome[c] = "answered" =>
                             /\ events[c][1] = "invocation"
                             /\ Told(c, "error") > 0 <=> ~EnvelopeOk(c)
                        /\ outcome[c] = "refused" => events[c] = <<>>
                        /\ outcome[c] = "raised" => events[c] = <<"invocation">>
    BY DEF EventsTellTheAnswer
  <2>2. EventInv(c)
    BY <2>1 DEF IInv, CallInv
  <2>3. CASE outcome[c] = "answered" /\ answer[c].code = "ok"
    <3>1. events[c] = <<"invocation", "completed">> /\ events[c][1] = "invocation"
      BY <2>2, <2>3 DEF EventInv
    <3>2. Told(c, "completed") = 1 /\ Told(c, "error") = 0
      BY <3>1, CountingTopics
    <3> QED
      BY <2>3, <3>1, <3>2 DEF EnvelopeOk
  <2>4. CASE outcome[c] = "answered" /\ answer[c].code # "ok"
    <3>1. events[c] \in {<<"invocation", "error">>, <<"invocation", "error", "error">>}
      BY <2>2, <2>4 DEF EventInv
    <3>2. events[c][1] = "invocation"
      BY <3>1
    <3>3. Told(c, "completed") = 0 /\ Told(c, "error") \in {1, 2}
      BY <3>1, CountingTopics
    <3> QED
      BY <2>4, <3>2, <3>3 DEF EnvelopeOk
  <2>5. CASE outcome[c] = "refused"
    <3>1. events[c] = <<>>
      BY <2>2, <2>5 DEF EventInv
    <3>2. Told(c, "completed") = 0
      BY <3>1, CountingTopics
    <3> QED
      BY <2>5, <3>1, <3>2 DEF EnvelopeOk
  <2>6. CASE outcome[c] = "raised"
    <3>1. events[c] = <<"invocation">>
      BY <2>2, <2>6 DEF EventInv, Announced
    <3>2. Told(c, "completed") = 0
      BY <3>1, CountingTopics
    <3> QED
      BY <2>6, <3>1, <3>2 DEF EnvelopeOk
  <2> QED
    BY <2>1, <2>3, <2>4, <2>5, <2>6
<1> QED
  BY <1>1, CoordinatorInvariant, PTL
====
