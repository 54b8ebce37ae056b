----------------------- MODULE AnalyzerContextProofs -----------------------
(***************************************************************************)
(* The safety properties of AnalyzerContext for any set of threads and any *)
(* number of calls.                                                        *)
(***************************************************************************)
EXTENDS AnalyzerContext, TLAPS

(***************************************************************************)
(* What the context holds at each stage of the call that is inside.  The   *)
(* flag alone is not inductive: that a refused call is harmless rests on   *)
(* the context being occupied by exactly one call at a known stage.        *)
(***************************************************************************)
StageContents ==
    \A t \in Threads :
        /\ pc[t] \in {"clear", "analyze", "collect", "failed", "succeeded"}
               => inputs = {Mark(t)}
        /\ pc[t] \in {"analyze", "succeeded"}
               => /\ pending = {}
                  /\ diagnostics \cup resolutions \subseteq {Mark(t)}
        /\ pc[t] = "collect"
               => /\ pending = {Mark(t)}
                  /\ diagnostics \cup resolutions \subseteq {Mark(t)}
        /\ pc[t] = "failed"
               => /\ pending = {} /\ diagnostics = {Mark(t)}
                  /\ resolutions \subseteq {Mark(t)}
        /\ pc[t] = "release"
               => inputs \cup diagnostics \cup resolutions \cup pending = {}
        /\ pc[t] \notin {"idle", "finalize", "release"}
               => outcome[t] = "none"

IInv == TypeOK /\ OneCallInside /\ FreeIsEmpty /\ StageContents /\ DeliveredOwn

(***************************************************************************)
(* A step of a thread that is inside finds every other thread idle.        *)
(***************************************************************************)
LEMMA OthersIdle ==
    ASSUME OneCallInside, NEW t \in Threads, Inside(t)
    PROVE  /\ initialized
           /\ \A s \in Threads : s # t => pc[s] = "idle"
BY DEF OneCallInside, Inside

(***************************************************************************)
(* A thread that is inside has called, so its mark is one of the marks.    *)
(***************************************************************************)
CalledInside == \A t \in Threads : pc[t] # "idle" => calls[t] # 0

LEMMA CalledStep ==
    ASSUME TypeOK, CalledInside, [Next]_vars
    PROVE  CalledInside'
<1> USE DEF CalledInside, TypeOK
<1>1. ASSUME NEW t \in Threads, Call(t) PROVE CalledInside'
  BY <1>1, MaxCallsAssumption DEF Call, Enter, Refuse, Goto, stored
<1>2. ASSUME NEW t \in Threads, Step(t) PROVE CalledInside'
  BY <1>2 DEF Step, Goto, Install, Clear, Resolve, ResolveBadly, Collect, Report,
       ReportAndGoOn, Succeed, Throw, DeliverDiagnostics, DeliverPlan, Finalize, Release
<1>3. CASE UNCHANGED vars
  BY <1>3 DEF vars
<1> QED BY <1>1, <1>2, <1>3 DEF Next

LEMMA MarkTyped ==
    ASSUME TypeOK, CalledInside, NEW t \in Threads, Inside(t)
    PROVE  Mark(t) \in Marks
BY MaxCallsAssumption DEF TypeOK, CalledInside, Inside, Mark, Marks

(***************************************************************************)
(* Type correctness for any threads and any number of calls.               *)
(***************************************************************************)
LEMMA TypeStep ==
    ASSUME TypeOK, CalledInside, [Next]_vars
    PROVE  TypeOK'
<1>1. ASSUME NEW t \in Threads, Call(t) PROVE TypeOK'
  <2> USE MaxCallsAssumption DEF TypeOK, Goto, stored, Stages, Outcomes
  <2>1. calls[t] + 1 \in 0..MaxCalls
    BY <1>1 DEF Call, Enter, Refuse
  <2>2. CASE Enter(t)
    BY <2>1, <2>2 DEF Enter
  <2>3. CASE Refuse(t)
    BY <2>1, <2>3 DEF Refuse
  <2> QED BY <1>1, <2>2, <2>3 DEF Call
<1>2. ASSUME NEW t \in Threads, Step(t) PROVE TypeOK'
  <2> USE <1>2 DEF TypeOK, Goto, Stages, Outcomes, stored, results
  <2>1. Inside(t) => Mark(t) \in Marks
    BY MarkTyped
  <2>2. CASE Install(t) BY <2>1, <2>2 DEF Install, Inside
  <2>3. CASE Clear(t) BY <2>3 DEF Clear
  <2>4. CASE Resolve(t) BY <2>1, <2>4 DEF Resolve, Inside
  <2>5. CASE ResolveBadly(t) BY <2>1, <2>5 DEF ResolveBadly, Inside
  <2>6. CASE Collect(t) BY <2>6 DEF Collect
  <2>7. CASE Report(t) BY <2>1, <2>7 DEF Report, Inside
  <2>8. CASE ReportAndGoOn(t) BY <2>1, <2>8 DEF ReportAndGoOn, Inside
  <2>9. CASE Succeed(t) BY <2>9 DEF Succeed
  <2>10. CASE Throw(t) BY <2>10 DEF Throw
  <2>11. CASE DeliverDiagnostics(t) BY <2>11 DEF DeliverDiagnostics
  <2>12. CASE DeliverPlan(t) BY <2>12 DEF DeliverPlan
  <2>13. CASE Finalize(t) BY <2>13 DEF Finalize
  <2>14. CASE Release(t) BY <2>14 DEF Release
  <2> QED BY <2>2, <2>3, <2>4, <2>5, <2>6, <2>7, <2>8, <2>9, <2>10, <2>11, <2>12,
             <2>13, <2>14 DEF Step
<1>3. CASE UNCHANGED vars
  BY <1>3 DEF TypeOK, vars, stored, results
<1> QED BY <1>1, <1>2, <1>3 DEF Next

(***************************************************************************)
(* Only Enter lets a thread in and only Release lets it out, and both      *)
(* change the flag with it.                                                *)
(***************************************************************************)
LEMMA ExclusionStep ==
    ASSUME TypeOK, OneCallInside, [Next]_vars
    PROVE  OneCallInside'
<1> USE DEF OneCallInside, Inside, TypeOK
<1>1. ASSUME NEW t \in Threads, Enter(t) PROVE OneCallInside'
  BY <1>1 DEF Enter, Goto
<1>2. ASSUME NEW t \in Threads, Refuse(t) PROVE OneCallInside'
  BY <1>2 DEF Refuse, stored
<1>3. ASSUME NEW t \in Threads, Release(t) PROVE OneCallInside'
  BY <1>3 DEF Release, Goto
<1>4. ASSUME NEW t \in Threads, Step(t), ~Release(t) PROVE OneCallInside'
  <2>1. /\ pc[t] # "idle" /\ pc'[t] # "idle"
        /\ \A s \in Threads \ {t} : pc'[s] = pc[s]
        /\ initialized' = initialized
    BY <1>4 DEF Step, Goto, Install, Clear, Resolve, ResolveBadly, Collect, Report,
         ReportAndGoOn, Succeed, Throw, DeliverDiagnostics, DeliverPlan, Finalize
  <2> QED BY <2>1
<1>5. CASE UNCHANGED vars
  BY <1>5 DEF vars
<1> QED BY <1>1, <1>2, <1>3, <1>4, <1>5 DEF Next, Call

(***************************************************************************)
(* The contents at each stage, by the action that leads there.             *)
(***************************************************************************)
LEMMA ContentsStep ==
    ASSUME TypeOK, OneCallInside, FreeIsEmpty, StageContents, [Next]_vars
    PROVE  StageContents' /\ FreeIsEmpty'
<1> USE DEF TypeOK
<1>1. ASSUME NEW t \in Threads, Enter(t) PROVE StageContents' /\ FreeIsEmpty'
  <2>1. \A s \in Threads : pc[s] = "idle"
    BY <1>1 DEF OneCallInside, Inside, Enter
  <2> QED BY <1>1, <2>1 DEF Enter, Goto, StageContents, FreeIsEmpty, Mark, stored
<1>2. ASSUME NEW t \in Threads, Refuse(t) PROVE StageContents' /\ FreeIsEmpty'
  BY <1>2 DEF Refuse, StageContents, FreeIsEmpty, Mark, stored
<1>3. ASSUME NEW t \in Threads, Step(t) PROVE StageContents' /\ FreeIsEmpty'
  <2>1. Inside(t)
    BY <1>3 DEF Inside, Step, Goto, Install, Clear, Resolve, ResolveBadly, Collect, Report,
         ReportAndGoOn, Succeed, Throw, DeliverDiagnostics, DeliverPlan, Finalize, Release
  <2>2. initialized /\ \A s \in Threads : s # t => pc[s] = "idle"
    BY <2>1, OthersIdle
  <2> USE <2>2 DEF StageContents, FreeIsEmpty, Mark, Goto, stored, results
  <2>3. CASE Install(t) BY <2>3 DEF Install
  <2>4. CASE Clear(t) BY <2>4 DEF Clear
  <2>5. CASE Resolve(t) BY <2>5 DEF Resolve
  <2>6. CASE ResolveBadly(t) BY <2>6 DEF ResolveBadly
  <2>7. CASE Collect(t) BY <2>7 DEF Collect
  <2>8. CASE Report(t) BY <2>8 DEF Report
  <2>9. CASE ReportAndGoOn(t) BY <2>9 DEF ReportAndGoOn
  <2>10. CASE Succeed(t) BY <2>10 DEF Succeed
  <2>11. CASE Throw(t) BY <2>11 DEF Throw
  <2>12. CASE DeliverDiagnostics(t) BY <2>12 DEF DeliverDiagnostics
  <2>13. CASE DeliverPlan(t) BY <2>13 DEF DeliverPlan
  <2>14. CASE Finalize(t) BY <2>14 DEF Finalize
  <2>15. CASE Release(t) BY <2>15 DEF Release
  <2> QED BY <1>3, <2>3, <2>4, <2>5, <2>6, <2>7, <2>8, <2>9, <2>10, <2>11, <2>12,
             <2>13, <2>14, <2>15 DEF Step
<1>4. CASE UNCHANGED vars
  BY <1>4 DEF vars, StageContents, FreeIsEmpty, Mark, stored, results
<1> QED BY <1>1, <1>2, <1>3, <1>4 DEF Next, Call

(***************************************************************************)
(* A thread's delivered diagnostics change only when it calls and when the *)
(* result is moved out, and there the context holds its own.               *)
(***************************************************************************)
LEMMA DeliveredStep ==
    ASSUME TypeOK, StageContents, DeliveredOwn, [Next]_vars
    PROVE  DeliveredOwn'
<1> USE DEF TypeOK, DeliveredOwn, Mark
<1>1. ASSUME NEW t \in Threads, Call(t) PROVE DeliveredOwn'
  BY <1>1 DEF Call, Enter, Refuse
<1>2. ASSUME NEW t \in Threads, Step(t) PROVE DeliveredOwn'
  <2>1. CASE DeliverDiagnostics(t)
    BY <2>1 DEF DeliverDiagnostics, Goto, StageContents
  <2>2. CASE DeliverPlan(t)
    BY <2>2 DEF DeliverPlan, Goto, StageContents
  <2>3. CASE Throw(t)
    BY <2>3 DEF Throw, Goto, StageContents
  <2>4. CASE ~DeliverDiagnostics(t) /\ ~DeliverPlan(t) /\ ~Throw(t)
    BY <1>2, <2>4 DEF Step, Install, Clear, Resolve, ResolveBadly, Collect, Report,
         ReportAndGoOn, Succeed, Finalize, Release, results
  <2> QED BY <2>1, <2>2, <2>3, <2>4
<1>3. CASE UNCHANGED vars
  BY <1>3 DEF vars, results
<1> QED BY <1>1, <1>2, <1>3 DEF Next

LEMMA Inductive == Spec => [](IInv /\ CalledInside)
<1>1. Init => IInv /\ CalledInside
  <2> SUFFICES ASSUME Init PROVE IInv /\ CalledInside
    OBVIOUS
  <2> USE DEF Init
  <2>5. 0 \in 0..MaxCalls
    BY MaxCallsAssumption
  <2>6. /\ initialized \in BOOLEAN
        /\ inputs \in SUBSET Marks /\ diagnostics \in SUBSET Marks
        /\ resolutions \in SUBSET Marks /\ pending \in SUBSET Marks
    OBVIOUS
  <2>7. pc \in [Threads -> Stages] /\ outcome \in [Threads -> Outcomes]
    BY DEF Stages, Outcomes
  <2>8. calls \in [Threads -> 0..MaxCalls] /\ delivered \in [Threads -> SUBSET Marks]
    BY <2>5
  <2>1. TypeOK
    BY <2>6, <2>7, <2>8 DEF TypeOK
  <2>2. OneCallInside /\ FreeIsEmpty /\ CalledInside
    BY DEF OneCallInside, Inside, FreeIsEmpty, CalledInside
  <2>4. DeliveredOwn
    BY DEF DeliveredOwn
  <2>3. StageContents
    BY DEF StageContents
  <2> QED BY <2>1, <2>2, <2>3, <2>4 DEF IInv
<1>2. IInv /\ CalledInside /\ [Next]_vars => IInv' /\ CalledInside'
  BY CalledStep, TypeStep, ExclusionStep, ContentsStep, DeliveredStep DEF IInv
<1> QED BY <1>1, <1>2, PTL DEF Spec

(***************************************************************************)
(* Whatever the threads do, one call at a time is inside, and the context  *)
(* is taken exactly while one is.                                          *)
(***************************************************************************)
THEOREM Exclusive == Spec => []Exclusion
<1>1. IInv => Exclusion BY DEF IInv, Exclusion
<1> QED BY <1>1, Inductive, PTL

(***************************************************************************)
(* A call sees nothing that another call has left, and a free context      *)
(* keeps no inputs and no analysis.                                        *)
(***************************************************************************)
THEOREM Isolated == Spec => []ContextIsolated
<1>1. IInv => NothingStale BY DEF IInv, StageContents, NothingStale, Analysing
<1>2. IInv => FreeIsEmpty BY DEF IInv
<1>3. IInv => ContextIsolated BY <1>1, <1>2 DEF ContextIsolated
<1> QED BY <1>3, Inductive, PTL

(***************************************************************************)
(* A call returns its own diagnostics and no others.                       *)
(***************************************************************************)
THEOREM OwnDiagnostics == Spec => []DeliveredOwn
<1>1. IInv => DeliveredOwn BY DEF IInv
<1> QED BY <1>1, Inductive, PTL

=============================================================================
