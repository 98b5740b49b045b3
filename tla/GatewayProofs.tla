--------------------------- MODULE GatewayProofs ---------------------------
(***************************************************************************)
(* The properties of the gateway for any modules, owners, tools and  *)
(* number of calls.                                                        *)
(*                                                                         *)
(* The argument for EveryToolCallable: a start finds no names, so that a   *)
(* name is held only by a tool the loop has passed, under its own name or  *)
(* its prefixed one (NamesInv).  The name a tool gets is therefore free:   *)
(* its own if nobody has it, else the prefixed one, which is nobody's own  *)
(* and nobody else's (PrefixesAreFresh).  Nothing is ever replaced, and    *)
(* the tools passed stay callable (RegisterInv).                           *)
(***************************************************************************)
EXTENDS Gateway, TLAPS

Tool(h) == ToolsOf[h[1]][h[2]]
PassedAt(h, a, k) == \E i \in 1..Len(Owners) :
    h[1] = Owners[i] /\ (i < a \/ (i = a /\ h[2] < k))
Passed(h) == PassedAt(h, at, next)

EngineInv ==
  /\ engines <= calls
  /\ engine => engines >= 1
  /\ pc # "idle" => engine
  /\ pc \in {"engine", "wire", "register"} => server
  /\ pc \in {"stop_engine", "stop_modules"} => ~server
  /\ StopLeavesNothing

NamesInv == \A n \in Registered :
    n = Tool(slots[n]) \/ n = Prefixed[<<slots[n][1], Tool(slots[n])>>]

RegisterInv ==
  /\ pc \in {"engine", "wire"} => Registered = {}
  /\ pc = "register" => /\ \A n \in Registered : Passed(slots[n])
                        /\ \A h \in Handlers : Passed(h) => Callable(h)
  /\ EveryToolCallable

\* Whoever has registered a tool is on the bus that the tool's calls are told to.
ListenInv ==
  /\ pc = "register" => listening
  /\ Registered # {} => listening
  /\ CompletionsAreMeasured

IInv == TypeOK /\ EngineInv /\ NamesInv /\ RegisterInv /\ ListenInv

-----------------------------------------------------------------------------
(* The tables.                                                             *)

\* Every tool in the loop's reach is a handler with a name, plain or prefixed.
LEMMA ToolsHaveNames ==
  ASSUME NEW i \in 1..Len(Owners), NEW k \in 1..Len(ToolsOf[Owners[i]])
  PROVE  /\ Owners[i] \in Range(Owners)
         /\ <<Owners[i], k>> \in Handlers
         /\ ToolsOf[Owners[i]][k] \in Names
         /\ Prefixed[<<Owners[i], ToolsOf[Owners[i]][k]>>] \in Names
<1>1. Owners \in Seq(Range(Owners)) /\ Owners[i] \in Range(Owners)
  BY GatewayAssumption DEF Range
<1>2. ToolsOf[Owners[i]] \in Seq(Names)
  BY <1>1, GatewayAssumption
<1>3. ToolsOf[Owners[i]][k] \in Names
  BY <1>2
<1>4. <<Owners[i], k>> \in {Owners[i]} \X (1..Len(ToolsOf[Owners[i]]))
  OBVIOUS
<1>5. <<Owners[i], k>> \in Handlers
  BY <1>1, <1>4 DEF Handlers
<1>6. <<Owners[i], ToolsOf[Owners[i]][k]>> \in Range(Owners) \X Names
  BY <1>1, <1>3
<1> QED
  BY <1>1, <1>3, <1>5, <1>6, GatewayAssumption

\* A handler is a place in the tables.
LEMMA HandlersArePlaces ==
  ASSUME NEW h \in Handlers
  PROVE  /\ h[1] \in Range(Owners)
         /\ h[2] \in 1..Len(ToolsOf[h[1]])
         /\ h = <<h[1], h[2]>>
         /\ Tool(h) \in Range(ToolsOf[h[1]])
<1>1. PICK o \in Range(Owners) : h \in {o} \X (1..Len(ToolsOf[o]))
  BY DEF Handlers
<1>2. h[1] = o /\ h[2] \in 1..Len(ToolsOf[o]) /\ h = <<h[1], h[2]>>
  BY <1>1
<1>3. ToolsOf[o] \in Seq(Names)
  BY GatewayAssumption
<1>4. Tool(h) \in Range(ToolsOf[o])
  BY <1>2, <1>3 DEF Tool, Range
<1> QED
  BY <1>2, <1>4

\* PrefixesAreFresh, for two tools.
LEMMA TwoPrefixes ==
  ASSUME NEW o \in Range(Owners), NEW p \in Range(Owners),
         NEW n \in Range(ToolsOf[o]), NEW m \in Range(ToolsOf[p])
  PROVE  /\ Prefixed[<<o, n>>] \notin Plain
         /\ Prefixed[<<o, n>>] = Prefixed[<<p, m>>] => o = p /\ n = m
<1>1. /\ Prefixed[<<o, n>>] \notin Plain
      /\ Prefixed[<<o, n>>] = Prefixed[<<p, m>>] => <<o, n>> = <<p, m>>
  BY PrefixesAreFresh
<1> QED
  BY <1>1

\* How far the loop is: nothing, one tool more, an owner more, everything.
LEMMA Passing ==
  ASSUME NEW h \in Handlers, NEW a \in Nat, NEW k \in Nat \ {0}
  PROVE  /\ ~PassedAt(h, 1, 1)
         /\ a \in 1..Len(Owners) =>
              (PassedAt(h, a, k + 1) <=> PassedAt(h, a, k) \/ h = <<Owners[a], k>>)
         /\ a \in 1..Len(Owners) /\ k > Len(ToolsOf[Owners[a]]) =>
              (PassedAt(h, a + 1, 1) <=> PassedAt(h, a, k))
         /\ a > Len(Owners) => PassedAt(h, a, k)
<1>1. h[1] \in Range(Owners) /\ h = <<h[1], h[2]>> /\ ToolsOf[h[1]] \in Seq(Names)
  BY HandlersArePlaces, GatewayAssumption
<1>2. h[2] \in Nat /\ h[2] >= 1 /\ h[2] <= Len(ToolsOf[h[1]])
  BY <1>1, HandlersArePlaces
<1>3. ~PassedAt(h, 1, 1)
  BY <1>2 DEF PassedAt
<1>4. ASSUME a \in 1..Len(Owners)
      PROVE  PassedAt(h, a, k + 1) <=> PassedAt(h, a, k) \/ h = <<Owners[a], k>>
  <2>1. PassedAt(h, a, k + 1) => PassedAt(h, a, k) \/ h = <<Owners[a], k>>
    BY <1>1, <1>2 DEF PassedAt
  <2>2. PassedAt(h, a, k) => PassedAt(h, a, k + 1)
    BY <1>2 DEF PassedAt
  <2>3. h = <<Owners[a], k>> => PassedAt(h, a, k + 1)
    BY <1>4 DEF PassedAt
  <2> QED
    BY <2>1, <2>2, <2>3
<1>5. ASSUME a \in 1..Len(Owners), k > Len(ToolsOf[Owners[a]])
      PROVE  PassedAt(h, a + 1, 1) <=> PassedAt(h, a, k)
  <2>1. ASSUME NEW i \in 1..Len(Owners), h[1] = Owners[i]
        PROVE  (i < a + 1 \/ (i = a + 1 /\ h[2] < 1)) <=> (i < a \/ (i = a /\ h[2] < k))
    <3>1. i = a => h[2] < k
      BY <1>1, <1>2, <1>5, <2>1
    <3>2. i \in Nat /\ a \in Nat
      OBVIOUS
    <3> QED
      BY <1>2, <3>1, <3>2
  <2> QED
    BY <2>1 DEF PassedAt
<1>6. ASSUME a > Len(Owners) PROVE PassedAt(h, a, k)
  <2>1. PICK i \in 1..Len(Owners) : h[1] = Owners[i]
    BY <1>1, GatewayAssumption DEF Range
  <2>2. i < a
    <3>1. Len(Owners) \in Nat
      BY GatewayAssumption
    <3> QED
      BY <1>6, <3>1
  <2> QED
    BY <2>1, <2>2 DEF PassedAt
<1> QED
  BY <1>3, <1>4, <1>5, <1>6

\* Without names nobody is registered.
LEMMA NoSlotsAreEmpty == /\ NoSlots \in [Names -> Handlers \cup {None}]
                         /\ \A n \in Names : NoSlots[n] = None
  BY DEF NoSlots

-----------------------------------------------------------------------------
(* One step of the registration.                                           *)

\* The name a tool gets is free.
LEMMA FinalNameIsFree ==
  ASSUME TypeOK, NamesInv, \A n \in Registered : Passed(slots[n]),
         at \in 1..Len(Owners), next \in 1..Len(ToolsOf[Owners[at]])
  PROVE  LET f == FinalName(Owners[at], ToolsOf[Owners[at]][next])
         IN  f \in Names /\ slots[f] = None
<1> DEFINE o == Owners[at]
           n == ToolsOf[o][next]
           f == FinalName(o, n)
<1>1. o \in Range(Owners) /\ n \in Names /\ Prefixed[<<o, n>>] \in Names /\ <<o, next>> \in Handlers
  BY ToolsHaveNames
<1>2. CASE n \notin Registered
  BY <1>1, <1>2 DEF FinalName, Registered
<1>3. CASE n \in Registered
  <2>1. f = Prefixed[<<o, n>>] /\ f \in Names
    BY <1>1, <1>3 DEF FinalName
  <2>2. SUFFICES ASSUME slots[f] # None PROVE FALSE
    BY <2>1
  <2> DEFINE h == slots[f]
  <2>3. f \in Registered /\ h \in Handlers
    BY <2>1, <2>2 DEF Registered, TypeOK
  <2>4. /\ h[1] \in Range(Owners) /\ h[2] \in 1..Len(ToolsOf[h[1]])
        /\ Tool(h) \in Range(ToolsOf[h[1]])
    BY <2>3, HandlersArePlaces
  <2>5. n \in Range(ToolsOf[o])
    <3>1. ToolsOf[o] \in Seq(Names)
      BY <1>1, GatewayAssumption
    <3> QED
      BY <3>1 DEF Range
  <2>6. f # Tool(h)
    <3>1. Range(ToolsOf[h[1]]) \subseteq Plain
      BY <2>4 DEF Plain
    <3>2. f \notin Plain
      BY <2>1, <1>1, <2>4, <2>5, TwoPrefixes
    <3> QED
      BY <3>1, <3>2, <2>4
  <2>7. Prefixed[<<o, n>>] = Prefixed[<<h[1], Tool(h)>>]
    BY <2>1, <2>3, <2>6 DEF NamesInv
  <2>8. o = h[1] /\ n = Tool(h)
    BY <2>7, <1>1, <2>4, <2>5, TwoPrefixes
  <2>9. h[2] = next
    <3>1. IsInjective(ToolsOf[o])
      BY <1>1, PrefixesAreFresh
    <3>2. ToolsOf[o][h[2]] = ToolsOf[o][next] /\ h[2] \in 1..Len(ToolsOf[o])
      BY <2>8, <2>4 DEF Tool
    <3>3. ToolsOf[o] \in Seq(Names)
      BY <1>1, GatewayAssumption
    <3>4. DOMAIN ToolsOf[o] = 1..Len(ToolsOf[o])
      BY <3>3
    <3> QED
      BY <3>1, <3>2, <3>4 DEF IsInjective
  <2>10. PICK i \in 1..Len(Owners) : h[1] = Owners[i] /\ (i < at \/ (i = at /\ h[2] < next))
    BY <2>3 DEF Passed, PassedAt
  <2>11. i = at
    <3>1. DOMAIN Owners = 1..Len(Owners)
      BY GatewayAssumption
    <3> QED
      BY <2>8, <2>10, <3>1, GatewayAssumption DEF IsInjective
  <2> QED
    BY <2>9, <2>10, <2>11
<1> QED
  BY <1>2, <1>3

\* The turn of the loop: one free name is given away, and one more tool is passed.
LEMMA RegisterToolTurn ==
  ASSUME IInv, RegisterTool
  PROVE  \E f \in Names :
           /\ at \in 1..Len(Owners) /\ next \in 1..Len(ToolsOf[Owners[at]])
           /\ <<Owners[at], next>> \in Handlers
           /\ slots[f] = None /\ slots' = [slots EXCEPT ![f] = <<Owners[at], next>>]
           /\ f = ToolsOf[Owners[at]][next] \/ f = Prefixed[<<Owners[at], ToolsOf[Owners[at]][next]>>]
           /\ next' = next + 1 /\ at' = at
<1>1. Owners \in Seq(Range(Owners)) /\ at \in 1..Len(Owners)
  BY GatewayAssumption DEF IInv, TypeOK, RegisterTool
<1>2. ToolsOf[Owners[at]] \in Seq(Names)
  BY <1>1, GatewayAssumption DEF Range
<1>3. next \in 1..Len(ToolsOf[Owners[at]])
  BY <1>2 DEF IInv, TypeOK, RegisterTool
<1>4. pc = "register" /\ \A n \in Registered : Passed(slots[n])
  BY DEF IInv, RegisterInv, RegisterTool
<1>5. LET f == FinalName(Owners[at], ToolsOf[Owners[at]][next])
      IN  f \in Names /\ slots[f] = None
  BY <1>1, <1>3, <1>4, FinalNameIsFree DEF IInv
<1>6. <<Owners[at], next>> \in Handlers
  BY <1>1, <1>3, ToolsHaveNames
<1> QED
  BY <1>1, <1>3, <1>5, <1>6 DEF RegisterTool, FinalName

-----------------------------------------------------------------------------
(* Each part of the invariant is preserved.                                *)

\* A measurement belongs to an engine that was created.
LEMMA MeasuredStep ==
  ASSUME TypeOK, engines' \in Nat, engines' >= engines,
         \/ measured' = measured
         \/ /\ engines >= 1
            /\ \E topic \in Topics : measured' = measured \cup {<<engines, topic>>},
         completed' = completed \/ (engines >= 1 /\ completed' = completed \cup {engines})
  PROVE  measured' \subseteq (1..engines') \X Topics /\ completed' \subseteq 1..engines'
<1>1. 1..engines \subseteq 1..engines'
  BY DEF TypeOK
<1>2. engines >= 1 => engines \in 1..engines'
  BY DEF TypeOK
<1>3. measured \subseteq (1..engines) \X Topics /\ completed \subseteq 1..engines
  BY DEF TypeOK
<1>4. measured \subseteq (1..engines') \X Topics
  BY <1>1, <1>3
<1>5. measured' \subseteq (1..engines') \X Topics
  BY <1>2, <1>4
<1>6. completed' \subseteq 1..engines'
  BY <1>1, <1>2, <1>3
<1> QED
  BY <1>5, <1>6

LEMMA TypeStep ==
  ASSUME IInv, [Next]_vars
  PROVE  TypeOK'
<1> USE GatewayAssumption DEF IInv, TypeOK
<1>1. ASSUME NEW serve \in BOOLEAN, CallStart(serve) PROVE TypeOK'
  <2>1. engines' \in 0..MaxCalls /\ calls' \in 0..MaxCalls /\ engines' >= engines
    BY <1>1 DEF CallStart, EngineInv
  <2>2. measured' \subseteq (1..engines') \X Topics /\ completed' \subseteq 1..engines'
    BY <1>1, <2>1, MeasuredStep DEF CallStart
  <2>3. ~server' => Registered' = {}
    BY <1>1 DEF CallStart, Registered
  <2> QED
    BY <1>1, <2>1, <2>2, <2>3 DEF CallStart
<1>2. CASE EngineStarts
  BY <1>2 DEF EngineStarts, Registered, wiring
<1>3. CASE EngineRaises
  BY <1>3 DEF EngineRaises, Return, Registered, wiring
<1>4. CASE Wire
  BY <1>4 DEF Wire, Registered
<1>5. CASE RegisterTool
  <2>1. PICK f \in Names : /\ <<Owners[at], next>> \in Handlers
                           /\ slots' = [slots EXCEPT ![f] = <<Owners[at], next>>]
                           /\ next' = next + 1 /\ at' = at
    BY <1>5, RegisterToolTurn
  <2>2. slots' \in [Names -> Handlers \cup {None}]
    BY <2>1
  <2>3. server' = TRUE
    BY <1>5 DEF RegisterTool, EngineInv
  <2> QED
    BY <1>5, <2>1, <2>2, <2>3 DEF RegisterTool, wiring
<1>6. CASE NextOwner
  BY <1>6 DEF NextOwner, Registered, wiring
<1>7. CASE RegisterRaises
  BY <1>7 DEF RegisterRaises, Return, Registered, wiring
<1>8. CASE StartDone
  BY <1>8 DEF StartDone, Return, Registered, wiring
<1>9. CASE CallStop
  <2>1. ~server' => Registered' = {}
    BY <1>9, NoSlotsAreEmpty DEF CallStop, Registered
  <2>2. slots' \in [Names -> Handlers \cup {None}]
    BY <1>9, NoSlotsAreEmpty DEF CallStop
  <2>3. calls' \in 0..MaxCalls
    BY <1>9 DEF CallStop
  <2>4. server' \in BOOLEAN /\ serving' \in BOOLEAN
        /\ pc' \in {"idle", "engine", "wire", "register", "stop_engine", "stop_modules", "serve"}
        /\ outcome' \in {"none", "started", "skipped", "raised", "stopped", "served"}
    BY <1>9 DEF CallStop
  <2> QED
    BY <1>9, <2>1, <2>2, <2>3, <2>4 DEF CallStop, wiring
<1>10. CASE EngineStops
  BY <1>10 DEF EngineStops, Return, Registered, wiring
<1>11. CASE EngineStopCancelled
  BY <1>11 DEF EngineStopCancelled, Return, Registered, wiring
<1>12. CASE Serve
  BY <1>12 DEF Serve, Registered, wiring
<1>13. CASE ServeEnds
  BY <1>13 DEF ServeEnds, Return, Registered, wiring
<1>14. CASE UNCHANGED vars
  BY <1>14 DEF vars, wiring, Registered
<1>15. CASE EngineStopping
  BY <1>15 DEF EngineStopping, Emitted, Registered
<1>16. ASSUME NEW n \in Names, CallTool(n) PROVE TypeOK'
  <2>1. measured' \subseteq (1..engines') \X Topics /\ completed' \subseteq 1..engines'
    BY <1>16, MeasuredStep DEF CallTool, Emitted, EngineInv, Topics
  <2> QED
    BY <1>16, <2>1 DEF CallTool, Registered
<1> QED
  BY <1>1, <1>2, <1>3, <1>4, <1>5, <1>6, <1>7, <1>8, <1>9, <1>10, <1>11, <1>12, <1>13, <1>14,
     <1>15, <1>16 DEF Next, Step

LEMMA EngineStep ==
  ASSUME IInv, [Next]_vars
  PROVE  EngineInv'
<1> USE GatewayAssumption DEF IInv, TypeOK, EngineInv, StopLeavesNothing
<1>1. ASSUME NEW serve \in BOOLEAN, CallStart(serve) PROVE EngineInv'
  BY <1>1 DEF CallStart, Registered
<1>2. CASE EngineStarts
  BY <1>2 DEF EngineStarts, wiring
<1>3. CASE EngineRaises
  BY <1>3 DEF EngineRaises, Return, wiring
<1>4. CASE Wire
  BY <1>4 DEF Wire
<1>5. CASE RegisterTool
  BY <1>5 DEF RegisterTool, wiring
<1>6. CASE NextOwner
  BY <1>6 DEF NextOwner, wiring
<1>7. CASE RegisterRaises
  BY <1>7 DEF RegisterRaises, Return, wiring
<1>8. CASE StartDone
  BY <1>8 DEF StartDone, Return, wiring
<1>9. CASE CallStop
  BY <1>9, NoSlotsAreEmpty DEF CallStop, Registered, wiring
<1>10. CASE EngineStops
  BY <1>10 DEF EngineStops, Return, Registered
<1>11. CASE EngineStopCancelled
  BY <1>11 DEF EngineStopCancelled, Return
<1>12. CASE Serve
  BY <1>12 DEF Serve, wiring
<1>13. CASE ServeEnds
  BY <1>13 DEF ServeEnds, Return, wiring
<1>14. CASE UNCHANGED vars
  BY <1>14 DEF vars, wiring, Registered
<1>15. CASE EngineStopping
  BY <1>15 DEF EngineStopping
<1>16. ASSUME NEW n \in Names, CallTool(n) PROVE EngineInv'
  BY <1>16 DEF CallTool
<1> QED
  BY <1>1, <1>2, <1>3, <1>4, <1>5, <1>6, <1>7, <1>8, <1>9, <1>10, <1>11, <1>12, <1>13, <1>14,
     <1>15, <1>16 DEF Next, Step

\* Outside the registration loop the slots stay, or are emptied.
LEMMA SlotsStep ==
  ASSUME [Next]_vars, ~RegisterTool
  PROVE  slots' = slots \/ slots' = NoSlots
  BY DEF Next, Step, CallStart, EngineStarts, EngineRaises, Wire, NextOwner, RegisterRaises,
     StartDone, CallStop, EngineStopping, EngineStops, EngineStopCancelled, Serve, CallTool,
     ServeEnds, vars

LEMMA NamesStep ==
  ASSUME IInv, [Next]_vars
  PROVE  NamesInv'
<1>1. CASE RegisterTool
  <2>1. PICK f \in Names :
           /\ <<Owners[at], next>> \in Handlers
           /\ slots[f] = None /\ slots' = [slots EXCEPT ![f] = <<Owners[at], next>>]
           /\ f = ToolsOf[Owners[at]][next] \/ f = Prefixed[<<Owners[at], ToolsOf[Owners[at]][next]>>]
    BY <1>1, RegisterToolTurn
  <2>2. TypeOK /\ NamesInv
    BY DEF IInv
  <2>3. SUFFICES ASSUME NEW n \in Names, slots'[n] # None
                 PROVE  n = Tool(slots'[n]) \/ n = Prefixed[<<slots'[n][1], Tool(slots'[n])>>]
    BY DEF NamesInv, Registered, Tool
  <2>4. CASE n = f
    <3>1. slots'[n] = <<Owners[at], next>>
      BY <2>1, <2>2, <2>4 DEF TypeOK
    <3> QED
      BY <2>1, <2>4, <3>1 DEF Tool
  <2>5. CASE n # f
    <3>1. slots'[n] = slots[n]
      BY <2>1, <2>2, <2>5 DEF TypeOK
    <3> QED
      BY <2>2, <2>3, <3>1 DEF NamesInv, Registered
  <2> QED
    BY <2>4, <2>5
<1>2. CASE slots' = slots
  BY <1>2 DEF IInv, NamesInv, Registered, Tool
<1>3. CASE slots' = NoSlots
  BY <1>3, NoSlotsAreEmpty DEF NamesInv, Registered
<1> QED
  BY <1>1, <1>2, <1>3, SlotsStep

LEMMA ListenStep ==
  ASSUME IInv, [Next]_vars
  PROVE  ListenInv'
<1> USE DEF IInv, ListenInv, CompletionsAreMeasured
<1>1. ASSUME NEW serve \in BOOLEAN, CallStart(serve) PROVE ListenInv'
  BY <1>1 DEF CallStart, EngineInv, StopLeavesNothing, Registered
<1>2. CASE CallStop
  <2>1. Registered' = {} \/ Registered' = Registered
    BY <1>2, NoSlotsAreEmpty DEF CallStop, Registered
  <2> QED
    BY <1>2, <2>1 DEF CallStop, wiring
<1>3. CASE Wire \/ RegisterTool
  BY <1>3 DEF Wire, RegisterTool, wiring
<1>4. CASE EngineStarts \/ EngineRaises \/ NextOwner \/ RegisterRaises \/ StartDone \/ EngineStops
            \/ EngineStopCancelled \/ Serve \/ ServeEnds \/ UNCHANGED vars
  BY <1>4 DEF EngineStarts, EngineRaises, NextOwner, RegisterRaises, StartDone, EngineStops,
     EngineStopCancelled, Serve, ServeEnds, Return, vars, wiring, Registered
<1>5. CASE EngineStopping
  BY <1>5 DEF EngineStopping, Emitted, Registered
<1>6. ASSUME NEW n \in Names, CallTool(n) PROVE ListenInv'
  <2>1. listening /\ pc = "serve"
    BY <1>6 DEF CallTool
  <2>2. measured \subseteq measured'
    BY <1>6 DEF CallTool, Emitted
  <2>3. module[Pulse] = "running" => <<engines, "completed">> \in measured'
    BY <1>6, <2>1 DEF CallTool, Emitted
  <2> QED
    BY <1>6, <2>1, <2>2, <2>3 DEF CallTool, Registered
<1> QED
  BY <1>1, <1>2, <1>3, <1>4, <1>5, <1>6 DEF Next, Step

LEMMA RegisterStep ==
  ASSUME IInv, [Next]_vars
  PROVE  RegisterInv'
<1> USE DEF IInv
<1>1. ASSUME NEW serve \in BOOLEAN, CallStart(serve) PROVE RegisterInv'
  BY <1>1 DEF CallStart, RegisterInv, EveryToolCallable, Registered, EngineInv, StopLeavesNothing
<1>2. CASE EngineStarts \/ EngineRaises \/ RegisterRaises \/ EngineStopping \/ EngineStops
            \/ EngineStopCancelled \/ ServeEnds \/ CallStop
  BY <1>2 DEF EngineStarts, EngineRaises, RegisterRaises, EngineStopping, EngineStops,
     EngineStopCancelled, ServeEnds, CallStop, Return, RegisterInv, EveryToolCallable, Registered
<1>3. CASE Serve \/ UNCHANGED vars
  BY <1>3 DEF Serve, vars, wiring, RegisterInv, EveryToolCallable, Callable, Passed, PassedAt, Registered
<1>4. CASE Wire
  <2>1. pc' = "register" /\ Registered' = {} /\ at' = 1 /\ next' = 1
    BY <1>4 DEF Wire, RegisterInv, Registered
  <2>2. ASSUME NEW h \in Handlers PROVE ~Passed(h)'
    BY <2>1, Passing DEF Passed
  <2> QED
    BY <2>1, <2>2 DEF RegisterInv, EveryToolCallable
<1>5. CASE RegisterTool
  <2>1. PICK f \in Names :
           /\ at \in 1..Len(Owners) /\ next \in 1..Len(ToolsOf[Owners[at]])
           /\ <<Owners[at], next>> \in Handlers
           /\ slots[f] = None /\ slots' = [slots EXCEPT ![f] = <<Owners[at], next>>]
           /\ next' = next + 1 /\ at' = at
    BY <1>5, RegisterToolTurn
  <2>2. pc = "register" /\ pc' = "register"
    BY <1>5 DEF RegisterTool
  <2>3. slots \in [Names -> Handlers \cup {None}] /\ slots'[f] = <<Owners[at], next>>
    BY <2>1 DEF TypeOK
  <2>4. ASSUME NEW h \in Handlers
        PROVE  PassedAt(h, at', next') <=> Passed(h) \/ h = <<Owners[at], next>>
    <3>1. at \in Nat /\ next \in Nat \ {0}
      BY <2>1 DEF TypeOK
    <3> QED
      BY <2>1, <3>1, Passing DEF Passed
  <2>5. ASSUME NEW n \in Names, slots'[n] # None PROVE PassedAt(slots'[n], at', next')
    <3>1. CASE n = f
      BY <3>1, <2>1, <2>3, <2>4
    <3>2. CASE n # f
      <4>1. slots'[n] = slots[n] /\ slots[n] \in Handlers
        BY <2>1, <2>3, <2>5, <3>2
      <4>2. Passed(slots[n])
        BY <2>2, <2>5, <4>1 DEF RegisterInv, Registered
      <4> QED
        BY <2>4, <4>1, <4>2
    <3> QED
      BY <3>1, <3>2
  <2>6. ASSUME NEW h \in Handlers, PassedAt(h, at', next') PROVE Callable(h)'
    <3>1. CASE Passed(h)
      <4>1. PICK n \in Names : slots[n] = h
        BY <2>2, <3>1 DEF RegisterInv, Callable
      <4>2. h # None
        BY HandlersArePlaces DEF None
      <4>3. slots'[n] = h
        BY <2>1, <2>3, <4>1, <4>2
      <4> QED
        BY <4>3 DEF Callable
    <3>2. CASE h = <<Owners[at], next>>
      BY <2>3, <3>2 DEF Callable
    <3> QED
      BY <2>4, <2>6, <3>1, <3>2
  <2>7. \A n \in Registered' : Passed(slots[n])'
    BY <2>5 DEF Registered, Passed
  <2>8. \A h \in Handlers : Passed(h)' => Callable(h)'
    BY <2>6 DEF Passed
  <2> QED
    BY <2>2, <2>7, <2>8 DEF RegisterInv, EveryToolCallable
<1>6. CASE NextOwner
  <2>1. /\ pc = "register" /\ pc' = "register" /\ slots' = slots
        /\ at \in 1..Len(Owners) /\ next > Len(ToolsOf[Owners[at]])
        /\ at' = at + 1 /\ next' = 1
    BY <1>6, GatewayAssumption DEF NextOwner, TypeOK
  <2>2. at \in Nat /\ next \in Nat \ {0} /\ slots \in [Names -> Handlers \cup {None}]
    BY <2>1 DEF TypeOK
  <2>3. ASSUME NEW h \in Handlers PROVE PassedAt(h, at', next') <=> Passed(h)
    BY <2>1, <2>2, Passing DEF Passed
  <2>4. \A n \in Registered : slots[n] \in Handlers
    BY <2>2 DEF Registered
  <2>5. \A n \in Registered' : Passed(slots[n])'
    BY <2>1, <2>3, <2>4 DEF RegisterInv, Registered, Passed
  <2>6. \A h \in Handlers : Passed(h)' => Callable(h)'
    BY <2>1, <2>3 DEF RegisterInv, Passed, Callable
  <2> QED
    BY <2>1, <2>5, <2>6 DEF RegisterInv, EveryToolCallable
<1>7. CASE StartDone
  <2>1. /\ pc = "register" /\ at \in Nat /\ at > Len(Owners) /\ slots' = slots
        /\ next \in Nat \ {0} /\ pc' \in {"idle", "serve"}
    BY <1>7, GatewayAssumption DEF StartDone, Return, TypeOK
  <2>2. ASSUME NEW h \in Handlers PROVE Callable(h)
    BY <2>1, Passing DEF RegisterInv, Passed
  <2> QED
    BY <2>1, <2>2 DEF RegisterInv, EveryToolCallable, Callable
<1>8. ASSUME NEW n \in Names, CallTool(n) PROVE RegisterInv'
  BY <1>8 DEF CallTool, RegisterInv, EveryToolCallable, Callable, Passed, PassedAt, Registered
<1> QED
  BY <1>1, <1>2, <1>3, <1>4, <1>5, <1>6, <1>7, <1>8 DEF Next, Step

-----------------------------------------------------------------------------
(* The theorems.                                                           *)

LEMMA InitIInv == Init => IInv
<1> SUFFICES ASSUME Init PROVE IInv
  OBVIOUS
<1>1. Registered = {}
  BY NoSlotsAreEmpty DEF Init, Registered
<1>2. TypeOK
  <2>1. Len(Owners) \in Nat
    BY GatewayAssumption
  <2>2. at \in 1..(Len(Owners) + 1) /\ next \in Nat \ {0} /\ engines \in 0..MaxCalls /\ calls \in 0..MaxCalls
    BY <2>1, GatewayAssumption DEF Init
  <2>3. slots \in [Names -> Handlers \cup {None}]
    BY NoSlotsAreEmpty DEF Init
  <2>4. module \in [Modules -> {"fresh", "running", "failed", "down"}] /\ measured = {} /\ completed = {}
    BY DEF Init
  <2> QED
    BY <1>1, <2>2, <2>3, <2>4 DEF Init, TypeOK
<1>3. EngineInv /\ NamesInv /\ ListenInv
  BY <1>1 DEF Init, EngineInv, StopLeavesNothing, NamesInv, ListenInv, CompletionsAreMeasured
<1>4. RegisterInv
  BY DEF Init, RegisterInv, EveryToolCallable
<1> QED
  BY <1>2, <1>3, <1>4 DEF IInv

\* The inductive invariant holds in every state.
THEOREM GatewayInvariant == Spec => []IInv
<1>1. IInv /\ [Next]_vars => IInv'
  BY TypeStep, EngineStep, NamesStep, RegisterStep, ListenStep DEF IInv
<1> QED
  BY InitIInv, <1>1, PTL DEF Spec

\* The names, handlers, module states and measurements keep their types, whatever
\* fails or is cancelled in start, stop and serve of the manager.
THEOREM GatewayTypeCorrect == Spec => []TypeOK
<1>1. IInv => TypeOK
  BY DEF IInv
<1> QED
  BY GatewayInvariant, <1>1, PTL

\* A start that ran to its end leaves every tool callable: the adapter's renaming
\* never replaces a tool, however often start failed on the registry before.
THEOREM GatewayEveryToolCallable == Spec => []EveryToolCallable
<1>1. IInv => EveryToolCallable
  BY DEF IInv, RegisterInv
<1> QED
  BY GatewayInvariant, <1>1, PTL

\* A manager without an engine has no running module and no registered tool, so
\* that the stop it skips and the start it makes lose nothing.
THEOREM GatewayStopLeavesNothing == Spec => []StopLeavesNothing
<1>1. IInv => StopLeavesNothing
  BY DEF IInv, EngineInv
<1> QED
  BY GatewayInvariant, <1>1, PTL

\* The subscriber is on the bus that the coordinator of a registered tool tells its calls to,
\* whatever raised, was cancelled or skipped before: each engine under which a call was
\* completed while Pulse ran has been measured.
THEOREM GatewayCompletionsAreMeasured == Spec => []CompletionsAreMeasured
<1>1. IInv => CompletionsAreMeasured
  BY DEF IInv, ListenInv
<1> QED
  BY GatewayInvariant, <1>1, PTL
=============================================================================
