-------------------------- MODULE AnalyzerContext --------------------------
(***************************************************************************)
(* One sql_analyzer used by several threads: analyzer_context is its only  *)
(* state.  A call takes the context with a compare-and-exchange, installs  *)
(* its own options, source, comments, placeholders and host parameters,    *)
(* analyses, moves its result out, and a finalizer clears the context and  *)
(* releases it.  Everything a call leaves in the context is represented by *)
(* the call's own mark <<thread, number of the call>>.                     *)
(***************************************************************************)
EXTENDS Naturals, FiniteSets

CONSTANTS
    Threads,    \* the threads that share one sql_analyzer
    MaxCalls    \* bound: calls of each thread

VARIABLES
    initialized,    \* initialized_, the atomic flag
    inputs,         \* options_, source_, comments_, placeholders_, host_parameters_
    diagnostics,    \* diagnostics_
    resolutions,    \* types_, values_ and the expression analyzer's two maps
    pending,        \* the expression analyzer's own diagnostics
    pc,             \* where each thread is
    calls,          \* how many calls each thread has begun
    outcome,        \* what the last call of each thread gave
    delivered       \* the diagnostics that call returned

ASSUME MaxCallsAssumption == MaxCalls \in Nat

stored == <<inputs, diagnostics, resolutions, pending>>
results == <<outcome, delivered>>
vars == <<initialized, stored, pc, calls, results>>

Marks == Threads \X (1..MaxCalls)
Mark(t) == <<t, calls[t]>>
Outcomes == {"none", "refused", "plan", "errors", "thrown"}
Stages == {"idle", "install", "clear", "analyze", "collect", "failed",
           "succeeded", "finalize", "release"}

TypeOK ==
    /\ initialized \in BOOLEAN
    /\ inputs \in SUBSET Marks
    /\ diagnostics \in SUBSET Marks
    /\ resolutions \in SUBSET Marks
    /\ pending \in SUBSET Marks
    /\ pc \in [Threads -> Stages]
    /\ calls \in [Threads -> 0..MaxCalls]
    /\ outcome \in [Threads -> Outcomes]
    /\ delivered \in [Threads -> SUBSET Marks]

Init ==
    /\ initialized = FALSE
    /\ inputs = {} /\ diagnostics = {} /\ resolutions = {} /\ pending = {}
    /\ pc = [t \in Threads |-> "idle"]
    /\ calls = [t \in Threads |-> 0]
    /\ outcome = [t \in Threads |-> "none"]
    /\ delivered = [t \in Threads |-> {}]

Goto(t, from, to) == pc[t] = from /\ pc' = [pc EXCEPT ![t] = to]

(***************************************************************************)
(* initialize(): the flag is exchanged before the finalizer exists, so a   *)
(* call that is refused finalizes nothing.                                 *)
(***************************************************************************)
(* Mutant of Refuse: the finalizer exists before the flag is exchanged.    *)
RefuseFinalizing(t) ==
    /\ pc[t] = "idle" /\ calls[t] < MaxCalls /\ initialized
    /\ calls' = [calls EXCEPT ![t] = @ + 1]
    /\ outcome' = [outcome EXCEPT ![t] = "refused"]
    /\ inputs' = {} /\ diagnostics' = {} /\ resolutions' = {} /\ pending' = {}
    /\ initialized' = FALSE
    /\ UNCHANGED <<pc, delivered>>

Refuse(t) ==
    /\ pc[t] = "idle" /\ calls[t] < MaxCalls /\ initialized
    /\ calls' = [calls EXCEPT ![t] = @ + 1]
    /\ outcome' = [outcome EXCEPT ![t] = "refused"]
    /\ delivered' = [delivered EXCEPT ![t] = {}]
    /\ UNCHANGED <<initialized, stored, pc>>

(* Mutant of Enter: the flag is set without looking at it.                 *)
EnterUnchecked(t) ==
    /\ Goto(t, "idle", "install") /\ calls[t] < MaxCalls
    /\ initialized' = TRUE
    /\ calls' = [calls EXCEPT ![t] = @ + 1]
    /\ outcome' = [outcome EXCEPT ![t] = "none"]
    /\ delivered' = [delivered EXCEPT ![t] = {}]
    /\ UNCHANGED stored

Enter(t) ==
    /\ ~initialized
    /\ Goto(t, "idle", "install") /\ calls[t] < MaxCalls
    /\ initialized' = TRUE
    /\ calls' = [calls EXCEPT ![t] = @ + 1]
    /\ outcome' = [outcome EXCEPT ![t] = "none"]
    /\ delivered' = [delivered EXCEPT ![t] = {}]
    /\ UNCHANGED stored

Install(t) ==
    /\ Goto(t, "install", "clear")
    /\ inputs' = {Mark(t)}
    /\ UNCHANGED <<initialized, diagnostics, resolutions, pending, calls, results>>

Clear(t) ==
    /\ Goto(t, "clear", "analyze")
    /\ diagnostics' = {} /\ resolutions' = {} /\ pending' = {}
    /\ UNCHANGED <<initialized, inputs, calls, results>>

(***************************************************************************)
(* analyze_statement(): it records resolutions, it reports - and either    *)
(* goes on or gives up - and the expression analyzer leaves diagnostics    *)
(* that resolve() moves into the context.                                  *)
(***************************************************************************)
Resolve(t) ==
    /\ pc[t] = "analyze"
    /\ resolutions' = resolutions \cup {Mark(t)}
    /\ UNCHANGED <<initialized, inputs, diagnostics, pending, pc, calls, results>>

ResolveBadly(t) ==
    /\ Goto(t, "analyze", "collect")
    /\ pending' = pending \cup {Mark(t)}
    /\ UNCHANGED <<initialized, inputs, diagnostics, resolutions, calls, results>>

Collect(t) ==
    /\ Goto(t, "collect", "failed")
    /\ diagnostics' = diagnostics \cup pending
    /\ pending' = {}
    /\ UNCHANGED <<initialized, inputs, resolutions, calls, results>>

Report(t) ==
    /\ Goto(t, "analyze", "failed")
    /\ diagnostics' = diagnostics \cup {Mark(t)}
    /\ UNCHANGED <<initialized, inputs, resolutions, pending, calls, results>>

ReportAndGoOn(t) ==
    /\ pc[t] = "analyze"
    /\ diagnostics' = diagnostics \cup {Mark(t)}
    /\ UNCHANGED <<initialized, inputs, resolutions, pending, pc, calls, results>>

Succeed(t) ==
    /\ Goto(t, "analyze", "succeeded")
    /\ UNCHANGED <<initialized, stored, calls, results>>

(***************************************************************************)
(* impl::process(): the diagnostics are moved out, or the plan is, before  *)
(* the finalizer runs; an exception runs the finalizer too.                *)
(***************************************************************************)
(* Mutant of DeliverDiagnostics: the finalizer clears them first.          *)
DeliverDiagnosticsLate(t) ==
    /\ Goto(t, "failed", "finalize")
    /\ outcome' = [outcome EXCEPT ![t] = "errors"]
    /\ UNCHANGED <<initialized, stored, calls, delivered>>

DeliverDiagnostics(t) ==
    /\ Goto(t, "failed", "finalize")
    /\ outcome' = [outcome EXCEPT ![t] = "errors"]
    /\ delivered' = [delivered EXCEPT ![t] = diagnostics]
    /\ diagnostics' = {}
    /\ UNCHANGED <<initialized, inputs, resolutions, pending, calls>>

DeliverPlan(t) ==
    /\ Goto(t, "succeeded", "finalize")
    /\ outcome' = [outcome EXCEPT ![t] = "plan"]
    /\ UNCHANGED <<initialized, stored, calls, delivered>>

(* Mutant of Throw: an exception leaves without the finalizer.             *)
ThrowUnguarded(t) ==
    /\ \E stage \in {"analyze", "collect"} : Goto(t, stage, "idle")
    /\ outcome' = [outcome EXCEPT ![t] = "thrown"]
    /\ UNCHANGED <<initialized, stored, calls, delivered>>

Throw(t) ==
    /\ \E stage \in {"analyze", "collect"} : Goto(t, stage, "finalize")
    /\ outcome' = [outcome EXCEPT ![t] = "thrown"]
    /\ UNCHANGED <<initialized, stored, calls, delivered>>

Finalize(t) ==
    /\ Goto(t, "finalize", "release")
    /\ inputs' = {} /\ diagnostics' = {} /\ resolutions' = {} /\ pending' = {}
    /\ UNCHANGED <<initialized, calls, results>>

Release(t) ==
    /\ Goto(t, "release", "idle")
    /\ initialized' = FALSE
    /\ UNCHANGED <<stored, calls, results>>

Step(t) ==
    \/ Install(t) \/ Clear(t)
    \/ Resolve(t) \/ ResolveBadly(t) \/ Collect(t)
    \/ Report(t) \/ ReportAndGoOn(t) \/ Succeed(t) \/ Throw(t)
    \/ DeliverDiagnostics(t) \/ DeliverPlan(t)
    \/ Finalize(t) \/ Release(t)

Call(t) == Enter(t) \/ Refuse(t)

Next == \E t \in Threads : Call(t) \/ Step(t)

(***************************************************************************)
(* A thread that has entered keeps running: the syntax tree is finite, so  *)
(* the analysis ends.  No thread has to call.                              *)
(***************************************************************************)
Fairness == \A t \in Threads : WF_vars(Step(t))
Spec == Init /\ [][Next]_vars /\ Fairness

Inside(t) == pc[t] # "idle"
Analysing(t) == pc[t] \in {"analyze", "collect", "failed", "succeeded"}

(***************************************************************************)
(* The context serves one call at a time, and is free exactly when no call *)
(* is inside: a refused call does not free another's context, and a call   *)
(* that throws frees its own.                                              *)
(***************************************************************************)
OneCallInside ==
    /\ \A s, t \in Threads : Inside(s) /\ Inside(t) => s = t
    /\ initialized <=> \E t \in Threads : Inside(t)

(***************************************************************************)
(* The context is taken and given back as one lock, and each of its parts  *)
(* holds what that part may hold.                                          *)
(***************************************************************************)
Exclusion == TypeOK /\ OneCallInside

(***************************************************************************)
(* While a call is analysed the context holds its own inputs and nothing   *)
(* that another call, or an earlier one of the thread, has left.           *)
(***************************************************************************)
NothingStale ==
    \A t \in Threads : Analysing(t) =>
        /\ inputs = {Mark(t)}
        /\ diagnostics \cup resolutions \cup pending \subseteq {Mark(t)}

(***************************************************************************)
(* A free context keeps nothing: neither the borrowed inputs, which may be *)
(* destroyed once the call has returned, nor the analysis.                 *)
(***************************************************************************)
FreeIsEmpty ==
    ~initialized => inputs \cup diagnostics \cup resolutions \cup pending = {}

(***************************************************************************)
(* At every moment the context holds one call's data or none.              *)
(***************************************************************************)
ContextIsolated == NothingStale /\ FreeIsEmpty

(***************************************************************************)
(* The diagnostics a call returns are its own, and a call that fails       *)
(* returns at least one of them.                                           *)
(***************************************************************************)
DeliveredOwn ==
    \A t \in Threads :
        delivered[t] = IF outcome[t] = "errors" THEN {Mark(t)} ELSE {}

(***************************************************************************)
(* A context that has been taken is given back, whatever happens.          *)
(***************************************************************************)
GivenBack == initialized ~> ~initialized

=============================================================================
