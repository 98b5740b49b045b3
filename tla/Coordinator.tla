---- MODULE Coordinator ----
(***************************************************************************)
(* ApochCoordinator (apoch/public_api/coordinator.py): concurrent calls of *)
(* the public tools and of their legacy aliases, the parallel queries each *)
(* makes with a timeout of its own, the answer put together from whatever  *)
(* came back, and the events that tell the bus, and through it Pulse, how  *)
(* the call went.  The modules behind the tools are duck-typed services:   *)
(* any may be missing, raise, or not answer at all.  Before and after it   *)
(* stands OpenCodeAdapter._dispatch, which turns bad arguments and         *)
(* exceptions into envelopes.                                              *)
(***************************************************************************)
EXTENDS Naturals, Sequences, FiniteSets

CONSTANTS
    Concurrent,  \* bound: calls at the same time
    Entries,     \* the tools and aliases that clients call, a subset of Exposed
    Loadouts,    \* the sets of services that the loaded modules may offer
    Varied,      \* the services that may have nothing to tell
    Modules,     \* the modules Guardian keeps diagnostics of
    Low,         \* _PROGRESS_LOW_THRESHOLD
    Before,      \* the work units Pulse counted in the period before this one
    MaxCalls     \* bound: calls begun

Tools == {"status", "health", "history", "recommend", "progress", "insights", "logs"}

Aliases == {"vision_state", "chronicle_query", "guardian_diagnostics",
            "guardian_all_diagnostics", "vision_logs"}

Exposed == Tools \cup Aliases

\* What the modules are asked for, by the attribute the coordinator looks up.
Services == {"vision.module_state", "vision.recent", "guardian", "chronicle", "oracle.status",
             "oracle.recommendations", "pulse.list", "pulse.trend", "optimizer.hypotheses"}

ASSUME CoordinatorAssumption ==
    /\ Entries \subseteq Exposed /\ Varied \subseteq Services /\ Loadouts \subseteq SUBSET Services
    /\ Low \in Nat /\ Before \in Nat /\ Concurrent \in Nat /\ MaxCalls \in Nat

Calls == 1..Concurrent

VARIABLES
    offered,     \* the services of the registry, as the modules loaded have them
    failed,      \* the modules whose failure Guardian has on record
    engine,      \* "up", or "stopping": first with Guardian's records, then without
    measured,    \* the work units of this period in Pulse
    entry, pc,   \* what each call was made to, and where it is
    waiting,     \* the services it still waits for
    got,         \* what the others answered
    answer,      \* what it will return
    events,      \* the events it has put on the bus
    outcome,     \* how it ended
    since,       \* what had failed and what had been measured when it began
    begun        \* the number of calls begun

system == <<offered, failed, engine, measured>>
local == <<waiting, got, answer, events, outcome>>
vars == <<system, entry, pc, local, since, begun>>

\* The tool an alias delegates to.
Delegate(e) ==
    CASE e = "vision_state"    -> "status"
      [] e = "chronicle_query" -> "history"
      [] e \in {"guardian_diagnostics", "guardian_all_diagnostics"} -> "health"
      [] e = "vision_logs"     -> "logs"
      [] OTHER                 -> e

\* Arguments: fine, rejected, or such that examining them raises (a level that is no
\* string, a period that cannot be hashed, so many hours that the date overflows).
\* chronicle_query passes only values of its own.
Arguments(e) ==
    IF e \in {"history", "progress", "logs", "vision_logs"} THEN {"fine", "invalid", "broken"}
    ELSE {"fine"}

\* An answer is the sequence of its one value; None is no answer at all.
None == <<>>

(***************************************************************************)
(* What a call asks for                                                    *)
(***************************************************************************)
Wanted(t) ==
    CASE t = "status"    -> {"vision.module_state", "guardian", "chronicle", "oracle.status"}
      [] t = "history"   -> {"chronicle"}
      [] t = "health"    -> {"guardian", "vision.module_state"}
      [] t = "recommend" -> {"oracle.recommendations", "guardian", "vision.module_state"}
      [] t = "progress"  -> {"pulse.list", "pulse.trend"}
      [] t = "insights"  -> {"optimizer.hypotheses", "pulse.list"}
      [] t = "logs"      -> {"vision.recent"}

Asked(t) == Wanted(t) \cap offered

\* The modules without which there is nothing to query.
Required(t) ==
    CASE t = "progress" -> {"pulse.list", "pulse.trend"} \cap offered # {}
      [] t = "insights" -> "optimizer.hypotheses" \in offered
      [] t = "logs"     -> "vision.recent" \in offered
      [] OTHER          -> TRUE

(***************************************************************************)
(* What comes back: r holds what each service asked answered, or None      *)
(***************************************************************************)
Answered(r) == {s \in DOMAIN r : r[s] # None}
Got(r, s) == IF s \in DOMAIN r THEN r[s] ELSE None

\* Guardian's snapshot holds the modules it saw fail; each is a problem of severity ERROR.
ParseDiagnostics(g) == IF g = None THEN {} ELSE g[1]

\* The share of the services queried that answered, in percent.
Confidence(r) ==
    IF DOMAIN r = {} THEN 0
    ELSE (100 * Cardinality(Answered(r))) \div Cardinality(DOMAIN r)

Reply(verdict, confidence, evidence) ==
    [code |-> "ok", verdict |-> verdict, confidence |-> confidence, evidence |-> evidence]

Error(code) == [code |-> code, verdict |-> "none", confidence |-> 0, evidence |-> {}]

(***************************************************************************)
(* The answers                                                             *)
(***************************************************************************)
Status(r) ==
    LET problems  == ParseDiagnostics(Got(r, "guardian"))
        mandatory == {"vision.module_state", "guardian", "chronicle"} \subseteq Answered(r)
    IN IF Answered(r) = {} THEN Error("ERR_TIMEOUT")
       ELSE Reply(CASE problems # {} -> "red"
                    [] problems = {} /\ ~mandatory -> "yellow"
                    [] OTHER -> "green",
                  Confidence(r), Answered(r))

History(r) ==
    LET found == Got(r, "chronicle")
    IN CASE found = None -> Error("ERR_DEPENDENCY_UNAVAILABLE")
         [] found = <<1>> -> Reply("entries", 50, {"chronicle"})
         [] OTHER -> Reply("empty", 30, {"chronicle"})

Health(r) ==
    LET guardian == Got(r, "guardian")
    IN IF guardian = None THEN Error("ERR_DEPENDENCY_UNAVAILABLE")
       ELSE Reply(IF ParseDiagnostics(guardian) # {} THEN "red" ELSE "green",
                  50 * Cardinality(Answered(r)), Answered(r))

\* Oracle is cited once it was asked, also when it did not answer.
Recommend(r) ==
    LET oracle == {"oracle.recommendations"} \cap DOMAIN r
        others == Answered(r) \ {"oracle.recommendations"}
    IN CASE Answered(r) = {} -> Error("ERR_TIMEOUT")
         [] Got(r, "oracle.recommendations") = <<1>> -> Reply("advice", 100, oracle \cup others)
         [] OTHER ->
              IF ParseDiagnostics(Got(r, "guardian")) # {} THEN Reply("red", 50, others)
              ELSE Reply("normal", IF oracle # {} THEN 85 ELSE 100, oracle \cup others)

\* Two points of the trend are compared, this period's and the one before.
Comparable(trend) == trend \notin {None, <<0>>} /\ Before > 0

InterpretTrend(count, trend) ==
    CASE count < Low -> "low"
      [] count >= Low /\ Comparable(trend) /\ trend # <<Before>> ->
           IF trend[1] > Before THEN "rising" ELSE "falling"
      [] OTHER -> "stable"

Progress(r) ==
    LET units == Got(r, "pulse.list")
        trend == Got(r, "pulse.trend")
    IN CASE units = None  -> Error("ERR_DEPENDENCY_UNAVAILABLE")
         [] units = <<0>> -> Reply("empty", 30, {"pulse.list"})
         [] OTHER -> Reply(InterpretTrend(units[1], trend),
                           IF Comparable(trend) THEN 70 ELSE 50, {"pulse.list"})

\* The confidence of the patterns is scaled by how well Pulse was to be had.
PulseFactor(r) ==
    CASE "pulse.list" \notin DOMAIN r -> 50
      [] Got(r, "pulse.list") = None /\ "pulse.list" \in DOMAIN r -> 70
      [] OTHER -> 100

Insights(r) ==
    LET patterns == Got(r, "optimizer.hypotheses")
    IN CASE patterns = None -> Error("ERR_DEPENDENCY_UNAVAILABLE")
         [] patterns = <<1>> -> Reply("entries", PulseFactor(r), Answered(r))
         [] OTHER -> Reply("empty", 0, {"optimizer.hypotheses"})

Logs(r) ==
    LET entries == Got(r, "vision.recent")
    IN CASE entries = None -> Error("ERR_DEPENDENCY_UNAVAILABLE")
         [] entries = <<1>> -> Reply("entries", 100, {"vision.recent"})
         [] OTHER            -> Reply("empty", 30, {"vision.recent"})

AnswerTo(t, r) ==
    CASE t = "status"    -> Status(r)
      [] t = "history"   -> History(r)
      [] t = "health"    -> Health(r)
      [] t = "recommend" -> Recommend(r)
      [] t = "progress"  -> Progress(r)
      [] t = "insights"  -> Insights(r)
      [] t = "logs"      -> Logs(r)

(***************************************************************************)
(* A call                                                                  *)
(***************************************************************************)
NoAnswer == Error("none")

Init ==
    /\ offered \in Loadouts /\ failed \in SUBSET Modules /\ engine = "up" /\ measured = 0
    /\ entry = [c \in Calls |-> "status"]
    /\ pc = [c \in Calls |-> "idle"]
    /\ waiting = [c \in Calls |-> {}]
    /\ got = [c \in Calls |-> <<>>]
    /\ answer = [c \in Calls |-> NoAnswer]
    /\ events = [c \in Calls |-> <<>>]
    /\ outcome = [c \in Calls |-> "none"]
    /\ since = [c \in Calls |-> [failed |-> {}, measured |-> 0]]
    /\ begun = 0

\* A call takes the first free place among the calls.
Arrives(c) ==
    /\ pc[c] = "idle" /\ \A d \in 1..(c - 1) : pc[d] # "idle"
    /\ engine = "up" /\ begun < MaxCalls
    /\ begun' = begun + 1

\* The schema of the tool does not allow the arguments: the tool is not called.
Refuse(c, e) ==
    /\ Arrives(c) /\ Arguments(e) # {"fine"}
    /\ entry' = [entry EXCEPT ![c] = e]
    /\ answer' = [answer EXCEPT ![c] = Error("ERR_INVALID_ARGUMENT")]
    /\ events' = [events EXCEPT ![c] = <<>>]
    /\ outcome' = [outcome EXCEPT ![c] = "refused"]
    /\ UNCHANGED <<system, pc, waiting, got, since>>

Begin(c, e) ==
    /\ Arrives(c)
    /\ entry' = [entry EXCEPT ![c] = e]
    /\ since' = [since EXCEPT ![c] = [failed |-> failed, measured |-> measured]]
    /\ answer' = [answer EXCEPT ![c] = NoAnswer]
    /\ events' = [events EXCEPT ![c] = <<>>]
    /\ outcome' = [outcome EXCEPT ![c] = "none"]
    /\ pc' = [pc EXCEPT ![c] = "announce"]
    /\ UNCHANGED <<system, waiting, got>>

End(c, how) ==
    /\ pc' = [pc EXCEPT ![c] = "idle"]
    /\ waiting' = [waiting EXCEPT ![c] = {}]
    /\ got' = [got EXCEPT ![c] = <<>>]
    /\ outcome' = [outcome EXCEPT ![c] = how]

\* Mutation of Emit: a call that fails is reported as completed.
EmitCompleted(c, topic) ==
    /\ events' = [events EXCEPT ![c] = Append(@, IF topic = "error" THEN "completed" ELSE topic)]
    /\ measured' = IF topic # "invocation" /\ "pulse.list" \in offered
                    THEN measured + 1 ELSE measured

\* The bus calls Pulse's subscriber, which measures every call that completes.
Emit(c, topic) ==
    /\ events' = [events EXCEPT ![c] = Append(@, topic)]
    /\ measured' = IF topic = "completed" /\ "pulse.list" \in offered
                    THEN measured + 1 ELSE measured

Invoke(c) ==
    /\ pc[c] = "announce"
    /\ Emit(c, "invocation")
    /\ pc' = [pc EXCEPT ![c] = "ask"]
    /\ UNCHANGED <<offered, failed, engine, entry, waiting, got, answer, outcome, since, begun>>

\* The arguments are examined and the queries begun, all at once.
Ask(c) ==
    /\ pc[c] = "ask"
    /\ LET t == Delegate(entry[c]) IN
         \E a \in Arguments(entry[c]) \ {"broken"} :
            IF a = "fine" /\ Required(t)
              THEN /\ waiting' = [waiting EXCEPT ![c] = Asked(t)]
                   /\ got' = [got EXCEPT ![c] = [s \in Asked(t) |-> None]]
                   /\ pc' = [pc EXCEPT ![c] = "wait"]
                   /\ UNCHANGED answer
              ELSE /\ answer' = [answer EXCEPT ![c] = Error(
                          IF a = "invalid" THEN "ERR_INVALID_ARGUMENT"
                          ELSE "ERR_DEPENDENCY_UNAVAILABLE")]
                   /\ pc' = [pc EXCEPT ![c] = "tell"]
                   /\ UNCHANGED <<waiting, got>>
    /\ UNCHANGED <<system, entry, events, outcome, since, begun>>

\* The method raises and the wrapper around it does not catch.
AskRaises(c) ==
    /\ pc[c] = "ask" /\ "broken" \in Arguments(entry[c])
    /\ End(c, "raised")
    /\ UNCHANGED <<system, entry, answer, events, since, begun>>

\* What a service says when it is read.
Says(s) ==
    CASE s = "guardian" -> {failed}
      [] s = "vision.module_state" -> {0}
      [] s \in {"pulse.list", "pulse.trend"} -> {measured}
      [] OTHER -> IF s \in Varied THEN {0, 1} ELSE {1}

AnswerComes(c, s) ==
    /\ s \in waiting[c]
    /\ waiting' = [waiting EXCEPT ![c] = @ \ {s}]
    /\ \E x \in Says(s) : got' = [got EXCEPT ![c][s] = <<x>>]
    /\ UNCHANGED <<system, entry, pc, answer, events, outcome, since, begun>>

\* Mutation of QueryFails: a service that is silent counts as one that has nothing to say.
QueryFailsEmpty(c, s) ==
    /\ s \in waiting[c]
    /\ waiting' = [waiting EXCEPT ![c] = @ \ {s}]
    /\ got' = [got EXCEPT ![c][s] = <<IF s = "guardian" THEN {} ELSE 0>>]
    /\ UNCHANGED <<system, entry, pc, answer, events, outcome, since, begun>>

\* Mutation of QueryFails: only the first of the queries is given a timeout.
QueryFailsOnce(c, s) ==
    /\ s \in waiting[c] /\ waiting[c] = DOMAIN got[c]
    /\ waiting' = [waiting EXCEPT ![c] = @ \ {s}]
    /\ UNCHANGED <<system, entry, pc, got, answer, events, outcome, since, begun>>

\* It raises, or its own timeout is over: the result is None.
QueryFails(c, s) ==
    /\ s \in waiting[c]
    /\ waiting' = [waiting EXCEPT ![c] = @ \ {s}]
    /\ UNCHANGED <<system, entry, pc, got, answer, events, outcome, since, begun>>

\* Everything asked has answered or failed.  health tells of its own error first.
Conclude(c) ==
    /\ pc[c] = "wait" /\ waiting[c] = {}
    /\ LET t == Delegate(entry[c]) IN
         /\ answer' = [answer EXCEPT ![c] = AnswerTo(t, got[c])]
         /\ pc' = [pc EXCEPT ![c] =
                IF t = "health" /\ AnswerTo(t, got[c]).code # "ok" THEN "inner" ELSE "tell"]
    /\ got' = [got EXCEPT ![c] = <<>>]
    /\ UNCHANGED <<system, entry, waiting, events, outcome, since, begun>>

Result(c) == IF answer[c].code = "ok" THEN "completed" ELSE "error"

\* health's own _emit_tool_result on an error, which the wrapper's repeats.
TellInner(c) ==
    /\ pc[c] = "inner"
    /\ Emit(c, Result(c))
    /\ pc' = [pc EXCEPT ![c] = "tell"]
    /\ UNCHANGED <<offered, failed, engine, entry, waiting, got, answer, outcome, since, begun>>

\* The wrapper's _emit_tool_result; nothing but the return comes after it.
Tell(c) ==
    /\ pc[c] = "tell"
    /\ Emit(c, Result(c))
    /\ End(c, "answered")
    /\ UNCHANGED <<offered, failed, engine, entry, answer, since, begun>>

\* Mutation of EnvelopeOk: the answer of a tool is wrapped as it is.
EnvelopeAny(c) == outcome[c] = "answered"

\* The envelope the client gets says ok, which it does for no exception, and for no
\* answer that is an error.
EnvelopeOk(c) == outcome[c] = "answered" /\ answer[c].code = "ok"

\* The client gives up, wherever the call is waiting; no event tells of it.
Cancel(c) ==
    /\ pc[c] \in {"announce", "wait", "inner", "tell"}
    /\ End(c, "cancelled")
    /\ answer' = [answer EXCEPT ![c] = NoAnswer]
    /\ UNCHANGED <<system, entry, events, since, begun>>

(***************************************************************************)
(* The engine behind the calls                                             *)
(***************************************************************************)
\* The engine begins to stop, with calls under way; modules may fail to.
EngineStops ==
    /\ engine = "up" /\ engine' = "stopping"
    /\ failed' \in {f \in SUBSET Modules : failed \subseteq f}
    /\ UNCHANGED <<offered, measured, entry, pc, local, since, begun>>

\* Guardian.stop clears its records.
GuardianStops ==
    /\ engine = "stopping" /\ engine' = "down"
    /\ failed' = {}
    /\ UNCHANGED <<offered, measured, entry, pc, local, since, begun>>

Step(c) ==
    \/ Invoke(c) \/ Ask(c) \/ AskRaises(c) \/ Conclude(c) \/ TellInner(c) \/ Tell(c)
    \/ \E s \in Services : QueryFails(c, s)

Next ==
    \/ \E c \in Calls :
          \/ Step(c) \/ Cancel(c)
          \/ \E e \in Entries : Begin(c, e) \/ Refuse(c, e)
          \/ \E s \in Services : AnswerComes(c, s)
    \/ EngineStops \/ GuardianStops

Spec == Init /\ [][Next]_vars
\* The event loop runs the call, and the timer of each query ends it.
FairSpec == Spec /\ \A c \in Calls : WF_vars(Step(c))

(***************************************************************************)
(* Properties                                                              *)
(***************************************************************************)
TypeOK ==
    /\ offered \in Loadouts /\ failed \subseteq Modules
    /\ engine \in {"up", "stopping", "down"} /\ measured \in 0..begun /\ begun \in 0..MaxCalls
    /\ entry \in [Calls -> Exposed]
    /\ pc \in [Calls -> {"idle", "announce", "ask", "wait", "inner", "tell"}]
    /\ waiting \in [Calls -> SUBSET offered]
    /\ \A c \in Calls : waiting[c] \subseteq DOMAIN got[c]
    /\ outcome \in [Calls -> {"none", "answered", "refused", "raised", "cancelled"}]

Answers(c, verdicts) == outcome[c] = "answered" /\ answer[c].verdict \in verdicts

\* An answer takes in everything that had happened when the call began: no tool calls
\* the system sound that Guardian knew to have a failed module, unless Guardian was
\* not heard (recommend) or was stopped under the call; and progress never finds a
\* period empty in which a call had been measured (coordinator.py:583-697, 851-988,
\* 991-1123, 1224-1358).
AnswersAreFresh ==
    \A c \in Calls :
        /\ Answers(c, {"green"}) /\ engine # "down" => since[c].failed = {}
        /\ Answers(c, {"normal"}) /\ "guardian" \in answer[c].evidence /\ engine # "down"
             => since[c].failed = {}
        /\ Answers(c, {"empty"}) /\ Delegate(entry[c]) = "progress" => since[c].measured = 0

Told(c, topic) == Cardinality({i \in DOMAIN events[c] : events[c][i] = topic})

\* The client and the listeners of the bus are told the same: the envelope says ok
\* exactly when the call was announced and completed once, a bad answer never counts as
\* completed, what was refused was never announced, and a call that raised has been
\* announced and nothing more (coordinator.py:148-183, server.py:290-348).
EventsTellTheAnswer ==
    \A c \in Calls : outcome[c] \in {"answered", "refused", "raised"} =>
        /\ Told(c, "completed") = (IF EnvelopeOk(c) THEN 1 ELSE 0)
        /\ outcome[c] = "answered" =>
             /\ events[c][1] = "invocation"
             /\ Told(c, "error") > 0 <=> ~EnvelopeOk(c)
        /\ outcome[c] = "refused" => events[c] = <<>>
        /\ outcome[c] = "raised" => events[c] = <<"invocation">>

\* Every call returns, also when a module never answers.
CallsReturn == \A c \in Calls : pc[c] # "idle" ~> pc[c] = "idle"
====
