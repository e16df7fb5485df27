---------------------- MODULE ClosedLoopRecovery_proofs ----------------------
(***************************************************************************)
(* That a calibration is only reported, and only carried out, as           *)
(* ClosedLoopRecovery says, for every number of runs and executions, every *)
(* tolerance and every set of preconditions.  IInv is inductive.           *)
(***************************************************************************)
EXTENDS ClosedLoopRecovery, TLAPS

(* Two loops never overlap, so that the last to operate the device is the  *)
(* one that observes it.                                                   *)
LoopIsAlone == \A e, f \in ToolCalls : Looping(e) /\ Looping(f) => e = f

(* What an execution has done follows from how far it has come.            *)
ExecutionIsOrdered ==
    \A e \in ToolCalls : executions[e] # Nil =>
        /\ executions[e].pc # "ended" => executions[e].outcome = Nil
        /\ executions[e].pc \in {"claimed", "guarded"} => ~ executions[e].operated
        /\ executions[e].pc = "operated" => operator = e
        /\ executions[e].outcome \in {"DENIED", "BLOCKED"} => ~ executions[e].operated
        /\ executions[e].outcome = "SUCCEEDED" => e \in witnessed

IsAdmitted(e) == executions[e] # Nil /\ executions[e].outcome # "DENIED"

(* An approval admits one execution, and is spent by it.                   *)
AdmissionIsExclusive ==
    /\ \A e \in ToolCalls : IsAdmitted(e) => approvals[executions[e].run] = "consumed"
    /\ \A e, f \in ToolCalls :
          IsAdmitted(e) /\ IsAdmitted(f) /\ executions[e].run = executions[f].run => e = f

(* What ended the run is what its own execution answered.                  *)
IsOwn(r, e, outcome) ==
    /\ e # Nil
    /\ executions[e] # Nil
    /\ executions[e].run = r
    /\ executions[e].outcome = outcome

(* The run and its approval keep step.                                     *)
RunIsOrdered(r, run, approval) ==
    /\ run.pc \in {"model", "preparing"} => approval = "unknown"
    /\ run.pc = "preparing" => Recoverable(run.status)
    /\ run.pc = "approval" => approval = "proposed"
    /\ run.pc = "executing" => run.execution # Nil
    /\ run.pc # "ended" => run.outcome = Nil
    /\ run.execution # Nil =>
          executions[run.execution] # Nil /\ executions[run.execution].run = r
    /\ run.outcome \in {"NOT_REQUIRED", "INCOMPLETE", "answered"} => approval = "unknown"
    /\ run.outcome = "BLOCKED" =>
          approval \in {"unknown", "rejected"} \/ IsOwn(r, run.execution, "BLOCKED")
    /\ run.outcome = "SUCCEEDED" => IsOwn(r, run.execution, "SUCCEEDED")

GraphIsOrdered ==
    \A r \in RecoveryRuns : recoveries[r] # Nil => RunIsOrdered(r, recoveries[r], approvals[r])

(* Only what was prepared, or found to need it, is put to a human.         *)
AskedWasPrepared ==
    \A r \in RecoveryRuns : approvals[r] # "unknown" =>
        recoveries[r] # Nil /\ (recoveries[r].prepared \/ Recoverable(recoveries[r].status))

IInv ==
    /\ RecoveryTypeOK
    /\ LoopIsAlone
    /\ ExecutionIsOrdered
    /\ AdmissionIsExclusive
    /\ GraphIsOrdered
    /\ AskedWasPrepared
-----------------------------------------------------------------------------
LEMMA InitIInv == InitRecovery => IInv
<1> SUFFICES ASSUME InitRecovery PROVE IInv
  OBVIOUS
<1>1. RecoveryTypeOK
  BY DEF InitRecovery, RecoveryTypeOK, Phases
<1>. QED
  BY <1>1 DEF InitRecovery, IInv, LoopIsAlone, Looping, ExecutionIsOrdered, IsAdmitted,
              AdmissionIsExclusive, GraphIsOrdered, AskedWasPrepared

(* An execution moves on: it is of the same run, the others stay.          *)
ExecutionMoves(e, pc, operated, outcome) ==
    executions' = [executions EXCEPT ![e] =
        [run |-> executions[e].run, pc |-> pc, operated |-> operated, outcome |-> outcome]]

Pcs      == {"claimed", "guarded", "operated", "ended"}
Outcomes == {"SUCCEEDED", "FAILED", "BLOCKED", "DENIED", "ERROR", Nil}

LEMMA MovedRecord ==
  ASSUME NEW x \in Execution, NEW pc, NEW operated, NEW outcome
  PROVE  /\ [x EXCEPT !.pc = pc] =
               [run |-> x.run, pc |-> pc, operated |-> x.operated, outcome |-> x.outcome]
         /\ [x EXCEPT !.pc = pc, !.outcome = outcome] =
               [run |-> x.run, pc |-> pc, operated |-> x.operated, outcome |-> outcome]
         /\ [x EXCEPT !.pc = pc, !.operated = operated] =
               [run |-> x.run, pc |-> pc, operated |-> operated, outcome |-> x.outcome]
<1>1. [x EXCEPT !.pc = pc] =
        [run |-> x.run, pc |-> pc, operated |-> x.operated, outcome |-> x.outcome]
  BY DEF Execution
<1>2. [x EXCEPT !.pc = pc, !.outcome = outcome] =
        [run |-> x.run, pc |-> pc, operated |-> x.operated, outcome |-> outcome]
  <2> DEFINE y == [x EXCEPT !.pc = pc]
  <2>1. [x EXCEPT !.pc = pc, !.outcome = outcome] = [y EXCEPT !.outcome = outcome]
    BY DEF Execution
  <2>2. y = [run |-> x.run, pc |-> pc, operated |-> x.operated, outcome |-> x.outcome]
    BY <1>1
  <2> HIDE DEF y
  <2>3. [y EXCEPT !.outcome = outcome] =
          [run |-> x.run, pc |-> pc, operated |-> x.operated, outcome |-> outcome]
    BY <2>2
  <2>. QED
    BY <2>1, <2>3
<1>3. [x EXCEPT !.pc = pc, !.operated = operated] =
        [run |-> x.run, pc |-> pc, operated |-> operated, outcome |-> x.outcome]
  <2> DEFINE y == [x EXCEPT !.pc = pc]
  <2>1. [x EXCEPT !.pc = pc, !.operated = operated] = [y EXCEPT !.operated = operated]
    BY DEF Execution
  <2>2. y = [run |-> x.run, pc |-> pc, operated |-> x.operated, outcome |-> x.outcome]
    BY <1>1
  <2> HIDE DEF y
  <2>3. [y EXCEPT !.operated = operated] =
          [run |-> x.run, pc |-> pc, operated |-> operated, outcome |-> x.outcome]
    BY <2>2
  <2>. QED
    BY <2>1, <2>3
<1>. QED
  BY <1>1, <1>2, <1>3

LEMMA EndedExecution ==
  ASSUME NEW e \in ToolCalls, NEW outcome, executions[e] \in Execution,
         ExecutionEnds(e, outcome)
  PROVE  ExecutionMoves(e, "ended", executions[e].operated, outcome)
<1>1. [executions[e] EXCEPT !.pc = "ended", !.outcome = outcome] =
        [run |-> executions[e].run, pc |-> "ended", operated |-> executions[e].operated,
         outcome |-> outcome]
  BY MovedRecord
<1>. QED
  BY <1>1 DEF ExecutionEnds, ExecutionMoves

(* What a moving execution leaves to the others, the runs and approvals.   *)
LEMMA MovedExecution ==
  ASSUME IInv, NEW e \in ToolCalls, NEW pc \in Pcs, NEW operated \in BOOLEAN,
         NEW outcome \in Outcomes, ExecutionMoves(e, pc, operated, outcome),
         executions[e] # Nil, executions[e].pc # "ended", outcome # "DENIED",
         UNCHANGED <<approvals, recoveries>>
  PROVE  /\ executions' \in [ToolCalls -> Execution \union {Nil}]
         /\ executions'[e] # Nil
         /\ executions'[e].pc = pc
         /\ executions'[e].operated = operated
         /\ executions'[e].outcome = outcome
         /\ \A f \in ToolCalls : f # e => executions'[f] = executions[f]
         /\ AdmissionIsExclusive' /\ GraphIsOrdered' /\ AskedWasPrepared'
<1> DEFINE moved == [run |-> executions[e].run, pc |-> pc, operated |-> operated,
                     outcome |-> outcome]
<1>1. executions[e] \in Execution /\ executions[e].run \in RecoveryRuns
  BY DEF IInv, RecoveryTypeOK, Execution
<1>2. moved \in Execution
  BY <1>1 DEF Execution, Pcs, Outcomes
<1>3. moved # Nil
  BY <1>2, NilAssumption
<1>4. /\ moved.run = executions[e].run
      /\ moved.pc = pc
      /\ moved.operated = operated
      /\ moved.outcome = outcome
  OBVIOUS
<1>5. executions[e].outcome = Nil /\ Nil # "DENIED" /\ Nil # "BLOCKED" /\ Nil # "SUCCEEDED"
  BY NilAssumption DEF IInv, ExecutionIsOrdered
<1>6. executions' = [executions EXCEPT ![e] = moved]
  BY DEF ExecutionMoves
<1> HIDE DEF moved
<1>7. /\ executions' \in [ToolCalls -> Execution \union {Nil}]
      /\ executions'[e] = moved
      /\ \A f \in ToolCalls : f # e => executions'[f] = executions[f]
  BY <1>2, <1>6 DEF IInv, RecoveryTypeOK
<1>8. \A f \in ToolCalls : /\ IsAdmitted(f)' => IsAdmitted(f)
                           /\ executions'[f] # Nil => /\ executions[f] # Nil
                                                      /\ executions'[f].run = executions[f].run
  BY <1>3, <1>4, <1>5, <1>7 DEF IsAdmitted
<1>9. AdmissionIsExclusive'
  <2>1. AdmissionIsExclusive /\ UNCHANGED approvals
    BY DEF IInv
  <2>2. \A f \in ToolCalls : IsAdmitted(f) => executions[f] # Nil
    BY DEF IsAdmitted
  <2>3. \A f \in ToolCalls : IsAdmitted(f)' => executions'[f] # Nil
    BY DEF IsAdmitted
  <2>. QED
    BY <1>8, <2>1, <2>2, <2>3 DEF AdmissionIsExclusive
<1>10. GraphIsOrdered'
  <2>1. \A r \in RecoveryRuns, f \in ToolCalls \union {Nil}, answer \in {"BLOCKED", "SUCCEEDED"} :
           IsOwn(r, f, answer) => IsOwn(r, f, answer)'
    BY <1>5, <1>7 DEF IsOwn
  <2>2. ASSUME NEW r \in RecoveryRuns, recoveries[r] # Nil
        PROVE  recoveries[r].execution \in ToolCalls \union {Nil}
    BY <2>2 DEF IInv, RecoveryTypeOK, Recovery
  <2>3. \A f \in ToolCalls : executions[f] # Nil =>
           executions'[f] # Nil /\ executions'[f].run = executions[f].run
    BY <1>3, <1>4, <1>7
  <2>. QED
    BY <2>1, <2>2, <2>3 DEF IInv, GraphIsOrdered, RunIsOrdered
<1>. QED
  BY <1>3, <1>4, <1>7, <1>9, <1>10 DEF IInv, AskedWasPrepared

(* The steps of the closed loop keep the strengthened invariant.           *)
LEMMA LoopKeepsIInv ==
  ASSUME IInv, NEW e \in ToolCalls,
         \/ \E observed \in Observations : Observes(e, observed)
         \/ Operates(e)
         \/ OperationFails(e)
         \/ Verifies(e)
         \/ IsCutShort(e)
  PROVE  IInv'
<1>0. /\ executions[e] # Nil
      /\ executions[e] \in Execution
      /\ executions[e].pc # "ended"
      /\ UNCHANGED <<approvals, recoveries>>
  BY DEF Observes, Operates, OperationFails, Verifies, IsCutShort, ExecutionEnds, IInv, RecoveryTypeOK
<1>1. ASSUME NEW observed \in Observations, Observes(e, observed) PROVE IInv'
  <2>1. /\ executions[e].pc = "claimed" /\ ~ executions[e].operated
        /\ \A f \in ToolCalls : ~ Looping(f)
        /\ UNCHANGED <<device, operator, witnessed>>
    BY <1>1 DEF Observes, IInv, ExecutionIsOrdered
  <2>2. PICK pc \in Pcs, outcome \in Outcomes :
           /\ ExecutionMoves(e, pc, FALSE, outcome)
           /\ \/ pc = "guarded" /\ outcome = Nil
              \/ pc = "ended" /\ outcome = "BLOCKED"
    <3>1. executions[e].outcome = Nil /\ executions[e].operated = FALSE
      BY <1>0, <2>1 DEF IInv, ExecutionIsOrdered, Execution
    <3>2. CASE PreconditionsPassed(observed)
      <4>1. [executions[e] EXCEPT !.pc = "guarded"] =
              [run |-> executions[e].run, pc |-> "guarded", operated |-> FALSE, outcome |-> Nil]
        BY <1>0, <3>1, MovedRecord
      <4>2. ExecutionMoves(e, "guarded", FALSE, Nil)
        BY <1>1, <3>2, <4>1 DEF Observes, ExecutionMoves
      <4>3. "guarded" \in Pcs /\ Nil \in Outcomes
        BY DEF Pcs, Outcomes
      <4>. QED
        BY <4>2, <4>3
    <3>3. CASE ~ PreconditionsPassed(observed)
      <4>1. ExecutionMoves(e, "ended", FALSE, "BLOCKED")
        BY <1>0, <1>1, <3>1, <3>3, EndedExecution DEF Observes
      <4>. QED
        BY <4>1 DEF Pcs, Outcomes
    <3>. QED
      BY <3>2, <3>3
  <2>3. outcome # "DENIED" /\ outcome # "SUCCEEDED"
    BY <2>2, NilAssumption
  <2>4. LoopIsAlone'
    <3>1. \A f \in ToolCalls : f # e => executions'[f] = executions[f]
      BY <1>0, <2>2, <2>3, MovedExecution
    <3>. QED
      BY <2>1, <3>1 DEF LoopIsAlone, Looping
  <2>5. ExecutionIsOrdered'
    <3>1. \A f \in ToolCalls : f # e => executions'[f] = executions[f]
      BY <1>0, <2>2, <2>3, MovedExecution
    <3>2. /\ executions'[e].pc = pc
          /\ ~ executions'[e].operated
          /\ executions'[e].outcome = outcome
      BY <1>0, <2>2, <2>3, MovedExecution
    <3>. QED
      BY <2>1, <2>2, <2>3, <3>1, <3>2 DEF IInv, ExecutionIsOrdered
  <2>. QED
    BY <1>0, <2>1, <2>2, <2>3, <2>4, <2>5, MovedExecution DEF IInv, RecoveryTypeOK
<1>2. CASE Operates(e)
  <2>1. /\ executions[e].pc = "guarded"
        /\ executions[e].outcome = Nil
        /\ operator' = e
        /\ UNCHANGED witnessed
        /\ Looping(e)
    BY <1>0, <1>2 DEF Operates, IInv, ExecutionIsOrdered, Looping
  <2>2. ExecutionMoves(e, "operated", TRUE, Nil)
    <3>1. [executions[e] EXCEPT !.pc = "operated", !.operated = TRUE] =
            [run |-> executions[e].run, pc |-> "operated", operated |-> TRUE, outcome |-> Nil]
      BY <1>0, <2>1, MovedRecord
    <3>. QED
      BY <1>2, <3>1 DEF Operates, ExecutionMoves
  <2>3. Nil # "DENIED" /\ Nil # "SUCCEEDED" /\ Nil # "BLOCKED"
    BY NilAssumption
  <2>4. device' \in DeviceState
    BY <1>2 DEF Operates, IInv, RecoveryTypeOK, DeviceState
  <2>5. /\ executions' \in [ToolCalls -> Execution \union {Nil}]
        /\ executions'[e].pc = "operated"
        /\ executions'[e].outcome = Nil
        /\ \A f \in ToolCalls : f # e => executions'[f] = executions[f]
        /\ AdmissionIsExclusive' /\ GraphIsOrdered' /\ AskedWasPrepared'
    <3>1. "operated" \in Pcs /\ Nil \in Outcomes
      BY DEF Pcs, Outcomes
    <3>. QED
      BY <1>0, <2>2, <2>3, <3>1, MovedExecution DEF ExecutionMoves
  <2>6. \A f \in ToolCalls : f # e => ~ Looping(f)
    BY <2>1 DEF IInv, LoopIsAlone
  <2>7. LoopIsAlone'
    BY <2>5, <2>6 DEF LoopIsAlone, Looping
  <2>8. ExecutionIsOrdered'
    BY <2>1, <2>3, <2>5, <2>6 DEF IInv, ExecutionIsOrdered, Looping
  <2>. QED
    BY <1>0, <2>1, <2>4, <2>5, <2>7, <2>8 DEF IInv, RecoveryTypeOK
<1>3. CASE OperationFails(e)
  <2>1. /\ executions[e].pc = "guarded" /\ UNCHANGED <<device, operator, witnessed>>
        /\ ExecutionMoves(e, "ended", executions[e].operated, "FAILED")
    BY <1>0, <1>3, EndedExecution DEF OperationFails
  <2>2. executions[e].operated \in BOOLEAN
    BY <1>0 DEF Execution
  <2>3. ExecutionIsOrdered' /\ LoopIsAlone'
    BY <1>0, <2>1, <2>2, MovedExecution
       DEF IInv, ExecutionIsOrdered, LoopIsAlone, Looping, Pcs, Outcomes
  <2>. QED
    BY <1>0, <2>1, <2>2, <2>3, MovedExecution DEF IInv, RecoveryTypeOK, Pcs, Outcomes
<1>4. CASE Verifies(e)
  <2> DEFINE outcome == IF device.deviation = Nil THEN "ERROR"
                        ELSE IF Verified(device) THEN "SUCCEEDED" ELSE "FAILED"
  <2>1. /\ executions[e].pc = "operated"
        /\ operator = e
        /\ operator' = Nil
        /\ witnessed' = IF Verified(device) THEN witnessed \union {e} ELSE witnessed
        /\ device' = device
    BY <1>0, <1>4 DEF Verifies, Witness, IInv, ExecutionIsOrdered
  <2>2. /\ ExecutionMoves(e, "ended", executions[e].operated, outcome)
        /\ executions[e].operated \in BOOLEAN
        /\ outcome \in Outcomes
        /\ outcome # "DENIED" /\ outcome # "BLOCKED"
    <3>1. ExecutionEnds(e, outcome)
      BY <1>4 DEF Verifies
    <3>2. executions[e].operated \in BOOLEAN
      BY <1>0 DEF Execution
    <3>3. outcome \in Outcomes /\ outcome # "DENIED" /\ outcome # "BLOCKED"
      BY DEF Outcomes
    <3> HIDE DEF outcome
    <3>. QED
      BY <1>0, <3>1, <3>2, <3>3, EndedExecution
  <2>3. outcome = "SUCCEEDED" => e \in witnessed'
    BY <2>1
  <2> HIDE DEF outcome
  <2>4. \A f \in ToolCalls : f # e => ~ Looping(f)
    BY <1>0, <2>1 DEF IInv, LoopIsAlone, Looping
  <2>5. \A f \in ToolCalls : executions[f] # Nil /\ f # e => executions[f].pc # "operated"
    BY <2>4 DEF Looping
  <2>6. witnessed \subseteq witnessed'
    BY <2>1
  <2>7. ExecutionIsOrdered'
    BY <1>0, <2>2, <2>3, <2>5, <2>6, MovedExecution DEF IInv, ExecutionIsOrdered, Pcs
  <2>8. LoopIsAlone'
    BY <1>0, <2>2, <2>4, MovedExecution DEF LoopIsAlone, Looping, Pcs
  <2>. QED
    BY <1>0, <2>1, <2>2, <2>7, <2>8, MovedExecution DEF IInv, RecoveryTypeOK, Pcs
<1>5. CASE IsCutShort(e)
  <2>1. /\ ExecutionMoves(e, "ended", executions[e].operated, "ERROR")
        /\ UNCHANGED <<device, witnessed>>
        /\ operator' = IF operator = e THEN Nil ELSE operator
    BY <1>0, <1>5, EndedExecution DEF IsCutShort
  <2>0. executions[e].operated \in BOOLEAN
    BY <1>0 DEF Execution
  <2>2. ExecutionIsOrdered' /\ LoopIsAlone'
    BY <1>0, <2>0, <2>1, MovedExecution
       DEF IInv, ExecutionIsOrdered, LoopIsAlone, Looping, Pcs, Outcomes
  <2>. QED
    BY <1>0, <2>0, <2>1, <2>2, MovedExecution DEF IInv, RecoveryTypeOK, Pcs, Outcomes
<1>. QED
  BY <1>1, <1>2, <1>3, <1>4, <1>5

(* A new execution changes no run, and no other execution.                 *)
LEMMA NewExecutionIsOrdered ==
  ASSUME IInv, NEW e \in ToolCalls, NEW r \in RecoveryRuns, executions[e] = Nil,
         NEW pc, NEW outcome,
         (pc = "claimed" /\ outcome = Nil) \/ (pc = "ended" /\ outcome = "DENIED"),
         executions' = [executions EXCEPT ![e] = NewExecution(r, pc, outcome)],
         UNCHANGED <<device, operator, witnessed>>
  PROVE  /\ executions' \in [ToolCalls -> Execution \union {Nil}]
         /\ executions'[e] # Nil
         /\ executions'[e].run = r
         /\ executions'[e].outcome = outcome
         /\ \A f \in ToolCalls : f # e => executions'[f] = executions[f]
         /\ LoopIsAlone' /\ ExecutionIsOrdered'
         /\ \A q \in RecoveryRuns, f \in ToolCalls \union {Nil}, answer \in {"BLOCKED", "SUCCEEDED"} :
               IsOwn(q, f, answer) => IsOwn(q, f, answer)'
<1> DEFINE new == NewExecution(r, pc, outcome)
<1>1. /\ new \in Execution
      /\ new.run = r
      /\ new.pc = pc
      /\ new.operated = FALSE
      /\ new.outcome = outcome
  BY DEF NewExecution, Execution
<1>2. new # Nil /\ Nil # "DENIED" /\ Nil # "SUCCEEDED" /\ Nil # "BLOCKED"
  BY <1>1, NilAssumption
<1> HIDE DEF new
<1>3. executions' = [executions EXCEPT ![e] = new]
  BY DEF new
<1>4. /\ executions' \in [ToolCalls -> Execution \union {Nil}]
      /\ executions'[e] = new
      /\ \A f \in ToolCalls : f # e => executions'[f] = executions[f]
  BY <1>1, <1>3 DEF IInv, RecoveryTypeOK
<1>5. LoopIsAlone'
  BY <1>1, <1>4 DEF IInv, LoopIsAlone, Looping
<1>6. ExecutionIsOrdered'
  BY <1>1, <1>2, <1>4 DEF IInv, ExecutionIsOrdered
<1>7. \A q \in RecoveryRuns, f \in ToolCalls \union {Nil}, answer \in {"BLOCKED", "SUCCEEDED"} :
         IsOwn(q, f, answer) => IsOwn(q, f, answer)'
  BY <1>4 DEF IsOwn
<1>. QED
  BY <1>1, <1>2, <1>4, <1>5, <1>6, <1>7

(* What the approvals and the admissions become when the tool is called.   *)
LEMMA CalledIsExclusive ==
  ASSUME IInv, NEW e \in ToolCalls, NEW r \in RecoveryRuns, Claims(e, r) \/ IsDenied(e, r),
         UNCHANGED <<device, operator, witnessed>>
  PROVE  /\ executions' \in [ToolCalls -> Execution \union {Nil}]
         /\ executions'[e] # Nil
         /\ executions'[e].run = r
         /\ \A f \in ToolCalls : executions[f] # Nil => executions'[f] = executions[f]
         /\ approvals' \in [RecoveryRuns -> Phases]
         /\ \A q \in RecoveryRuns : approvals'[q] # approvals[q] =>
               q = r /\ approvals[q] = "approved" /\ approvals'[q] = "consumed"
         /\ LoopIsAlone' /\ ExecutionIsOrdered' /\ AdmissionIsExclusive'
         /\ \A q \in RecoveryRuns, f \in ToolCalls \union {Nil}, answer \in {"BLOCKED", "SUCCEEDED"} :
               IsOwn(q, f, answer) => IsOwn(q, f, answer)'
<1>1. CASE Claims(e, r)
  <2>1. /\ executions[e] = Nil
        /\ approvals[r] = "approved"
        /\ executions' = [executions EXCEPT ![e] = NewExecution(r, "claimed", Nil)]
        /\ approvals' = [approvals EXCEPT ![r] = "consumed"]
    BY <1>1 DEF Claims
  <2>2. /\ approvals' \in [RecoveryRuns -> Phases]
        /\ approvals'[r] = "consumed"
        /\ \A q \in RecoveryRuns : q # r => approvals'[q] = approvals[q]
    BY <2>1 DEF IInv, RecoveryTypeOK, Phases
  <2>3. /\ executions'[e].run = r
        /\ \A f \in ToolCalls : f # e => executions'[f] = executions[f]
    BY <2>1, NewExecutionIsOrdered
  <2>4. \A f \in ToolCalls : IsAdmitted(f) => executions[f].run # r
    BY <2>1 DEF IInv, AdmissionIsExclusive
  <2>5. \A f \in ToolCalls : IsAdmitted(f) => executions[f].run \in RecoveryRuns
    BY DEF IsAdmitted, IInv, RecoveryTypeOK, Execution
  <2>6. \A f \in ToolCalls : f # e => /\ IsAdmitted(f)' <=> IsAdmitted(f)
                                      /\ executions'[f] = executions[f]
    BY <2>3 DEF IsAdmitted
  <2>7. AdmissionIsExclusive'
    <3>1. AdmissionIsExclusive
      BY DEF IInv
    <3>2. ASSUME NEW f \in ToolCalls, IsAdmitted(f)'
          PROVE  approvals'[executions'[f].run] = "consumed"
      BY <2>2, <2>3, <2>4, <2>5, <2>6, <3>1, <3>2 DEF AdmissionIsExclusive
    <3>3. ASSUME NEW f \in ToolCalls, NEW g \in ToolCalls, IsAdmitted(f)', IsAdmitted(g)',
                 executions'[f].run = executions'[g].run
          PROVE  f = g
      BY <2>3, <2>4, <2>6, <3>1, <3>3 DEF AdmissionIsExclusive
    <3>. QED
      BY <3>2, <3>3 DEF AdmissionIsExclusive
  <2>. QED
    BY <2>1, <2>2, <2>7, NewExecutionIsOrdered
<1>2. CASE IsDenied(e, r)
  <2>1. /\ executions[e] = Nil
        /\ executions' = [executions EXCEPT ![e] = NewExecution(r, "ended", "DENIED")]
        /\ approvals' = approvals
    BY <1>2 DEF IsDenied
  <2>2. /\ executions'[e].outcome = "DENIED"
        /\ \A f \in ToolCalls : f # e => executions'[f] = executions[f]
    BY <2>1, NewExecutionIsOrdered
  <2>3. \A f \in ToolCalls : IsAdmitted(f)' => IsAdmitted(f) /\ executions'[f] = executions[f]
    BY <2>2 DEF IsAdmitted
  <2>4. AdmissionIsExclusive'
    BY <2>1, <2>3 DEF IInv, AdmissionIsExclusive
  <2>. QED
    BY <2>1, <2>4, NewExecutionIsOrdered DEF IInv, RecoveryTypeOK
<1>. QED
  BY <1>1, <1>2

(* A run that moves leaves the others alone.                               *)
LEMMA MovedRun ==
  ASSUME IInv, NEW r \in RecoveryRuns, NEW run \in Recovery,
         recoveries' = [recoveries EXCEPT ![r] = run],
         approvals' \in [RecoveryRuns -> Phases],
         \A q \in RecoveryRuns : q # r => approvals'[q] = approvals[q],
         approvals[r] = "consumed" => approvals'[r] = "consumed",
         UNCHANGED <<device, operator, witnessed, executions>>,
         RunIsOrdered(r, run, approvals'[r]),
         approvals'[r] # "unknown" => run.prepared \/ Recoverable(run.status)
  PROVE  IInv'
<1>1. /\ recoveries' \in [RecoveryRuns -> Recovery \union {Nil}]
      /\ recoveries'[r] = run
      /\ \A q \in RecoveryRuns : q # r => recoveries'[q] = recoveries[q]
  BY DEF IInv, RecoveryTypeOK
<1>2. run # Nil
  BY NilAssumption
<1>3. RecoveryTypeOK' /\ LoopIsAlone' /\ ExecutionIsOrdered'
  BY <1>1 DEF IInv, RecoveryTypeOK, LoopIsAlone, Looping, ExecutionIsOrdered
<1>4. AdmissionIsExclusive'
  <2>1. \A f \in ToolCalls : IsAdmitted(f)' <=> IsAdmitted(f)
    BY DEF IsAdmitted
  <2>. QED
    BY <2>1 DEF IInv, AdmissionIsExclusive, IsAdmitted, RecoveryTypeOK, Execution
<1>5. GraphIsOrdered'
  <2>1. ASSUME NEW q \in RecoveryRuns, recoveries'[q] # Nil
        PROVE  RunIsOrdered(q, recoveries'[q], approvals'[q])
    <3>1. CASE q = r
      BY <1>1, <3>1
    <3>2. CASE q # r
      BY <1>1, <2>1, <3>2 DEF IInv, GraphIsOrdered
    <3>. QED
      BY <3>1, <3>2
  <2>. QED
    BY <2>1 DEF GraphIsOrdered, RunIsOrdered, IsOwn
<1>6. AskedWasPrepared'
  BY <1>1, <1>2 DEF IInv, AskedWasPrepared
<1>. QED
  BY <1>3, <1>4, <1>5, <1>6 DEF IInv

LEMMA CallKeepsIInv ==
  ASSUME IInv, NEW r \in RecoveryRuns, NEW e \in ToolCalls, CallsExecute(r, e) \/ OtherCalls(r, e)
  PROVE  IInv'
<1>1. /\ Claims(e, r) \/ IsDenied(e, r)
      /\ UNCHANGED <<device, operator, witnessed>>
      /\ approvals[r] # "unknown"
  BY DEF CallsExecute, OtherCalls
<1>2. /\ recoveries' \in [RecoveryRuns -> Recovery \union {Nil}]
      /\ \A q \in RecoveryRuns : recoveries'[q] # Nil <=> recoveries[q] # Nil
      /\ \A q \in RecoveryRuns : recoveries[q] # Nil =>
            /\ recoveries'[q].prepared = recoveries[q].prepared
            /\ recoveries'[q].status = recoveries[q].status
            /\ \/ recoveries'[q] = recoveries[q]
               \/ /\ q = r /\ recoveries'[r].execution = e
                  /\ recoveries'[r].pc = "executing" /\ recoveries'[r].outcome = Nil
  <2>1. CASE OtherCalls(r, e)
    BY <2>1 DEF OtherCalls, IInv, RecoveryTypeOK
  <2>2. CASE CallsExecute(r, e)
    <3> DEFINE called == [recoveries[r] EXCEPT !.pc = "executing", !.execution = e]
    <3>1. recoveries[r] \in Recovery /\ recoveries[r] # Nil /\ recoveries[r].outcome = Nil
      BY <2>2 DEF CallsExecute, At, IInv, RecoveryTypeOK, GraphIsOrdered, RunIsOrdered
    <3>2. /\ called \in Recovery
          /\ called.prepared = recoveries[r].prepared
          /\ called.status = recoveries[r].status
          /\ called.execution = e
          /\ called.pc = "executing"
          /\ called.outcome = Nil
      BY <3>1 DEF Recovery
    <3>3. called # Nil /\ recoveries' = [recoveries EXCEPT ![r] = called]
      BY <2>2, <3>2, NilAssumption DEF CallsExecute
    <3> HIDE DEF called
    <3>. QED
      BY <3>1, <3>2, <3>3 DEF IInv, RecoveryTypeOK
  <2>. QED
    BY <2>1, <2>2
<1>3. \A q \in RecoveryRuns : recoveries[q] # Nil => recoveries[q].execution \in ToolCalls \union {Nil}
  BY DEF IInv, RecoveryTypeOK, Recovery
<1>4. RecoveryTypeOK'
  BY <1>1, <1>2, CalledIsExclusive DEF IInv, RecoveryTypeOK
<1>5. GraphIsOrdered'
  <2> SUFFICES ASSUME NEW q \in RecoveryRuns, recoveries'[q] # Nil
               PROVE  RunIsOrdered(q, recoveries[q], approvals[q])'
    BY DEF GraphIsOrdered
  <2>1. /\ executions'[e] # Nil
        /\ executions'[e].run = r
        /\ \A f \in ToolCalls : executions[f] # Nil => executions'[f] = executions[f]
        /\ approvals'[q] # approvals[q] =>
              q = r /\ approvals[q] = "approved" /\ approvals'[q] = "consumed"
        /\ \A f \in ToolCalls \union {Nil}, answer \in {"BLOCKED", "SUCCEEDED"} :
              IsOwn(q, f, answer) => IsOwn(q, f, answer)'
    BY <1>1, CalledIsExclusive
  <2>2. RunIsOrdered(q, recoveries[q], approvals[q])
    BY <1>2 DEF IInv, GraphIsOrdered
  <2>3. CASE recoveries'[q] = recoveries[q]
    <3>1. approvals[q] = "approved" => ~ IsOwn(q, recoveries[q].execution, "BLOCKED")
      BY <1>2, <1>3, NilAssumption DEF IsOwn, IInv, AdmissionIsExclusive, IsAdmitted
    <3>. QED
      BY <1>2, <1>3, <2>1, <2>2, <2>3, <3>1 DEF RunIsOrdered
  <2>4. CASE recoveries'[q] # recoveries[q]
    <3>1. Nil \notin {"NOT_REQUIRED", "INCOMPLETE", "answered", "BLOCKED", "SUCCEEDED"}
      BY NilAssumption
    <3>. QED
      BY <1>2, <2>1, <2>4, <3>1, NilAssumption DEF RunIsOrdered
  <2>. QED
    BY <2>3, <2>4
<1>6. AskedWasPrepared'
  <2>1. \A q \in RecoveryRuns : approvals'[q] # "unknown" => approvals[q] # "unknown"
    BY <1>1, CalledIsExclusive
  <2>. QED
    BY <1>2, <2>1 DEF IInv, AskedWasPrepared
<1>. QED
  BY <1>1, <1>4, <1>5, <1>6, CalledIsExclusive DEF IInv

(* A run that ends keeps what it has seen and called.                      *)
LEMMA EndedRun ==
  ASSUME IInv, NEW r \in RecoveryRuns, recoveries[r] # Nil,
         NEW outcome \in {"SUCCEEDED", "NOT_REQUIRED", "FAILED", "BLOCKED", "INCOMPLETE",
                          "answered", "error"},
         Ends(r, outcome), UNCHANGED <<device, operator, witnessed, approvals, executions>>,
         outcome \in {"NOT_REQUIRED", "INCOMPLETE", "answered"} => approvals[r] = "unknown",
         outcome = "BLOCKED" => \/ approvals[r] \in {"unknown", "rejected"}
                                \/ IsOwn(r, recoveries[r].execution, "BLOCKED"),
         outcome = "SUCCEEDED" => IsOwn(r, recoveries[r].execution, "SUCCEEDED")
  PROVE  IInv'
<1> DEFINE ended == [recoveries[r] EXCEPT !.pc = "ended", !.outcome = outcome]
<1>1. recoveries[r] \in Recovery /\ RunIsOrdered(r, recoveries[r], approvals[r])
  BY DEF IInv, RecoveryTypeOK, GraphIsOrdered
<1>2. /\ ended \in Recovery
      /\ ended.pc = "ended"
      /\ ended.outcome = outcome
      /\ ended.execution = recoveries[r].execution
      /\ ended.prepared = recoveries[r].prepared
      /\ ended.status = recoveries[r].status
  BY <1>1 DEF Recovery
<1>3. recoveries' = [recoveries EXCEPT ![r] = ended]
  BY DEF Ends
<1> HIDE DEF ended
<1>4. RunIsOrdered(r, ended, approvals'[r])
  BY <1>1, <1>2 DEF RunIsOrdered
<1>5. approvals' \in [RecoveryRuns -> Phases]
  BY DEF IInv, RecoveryTypeOK
<1>6. approvals'[r] # "unknown" => ended.prepared \/ Recoverable(ended.status)
  BY <1>2 DEF IInv, AskedWasPrepared
<1>. QED
  BY <1>2, <1>3, <1>4, <1>5, <1>6, MovedRun

(* The steps of the graph that call nothing keep the strengthened          *)
(* invariant.                                                              *)
LEMMA GraphKeepsIInv ==
  ASSUME IInv, NEW r \in RecoveryRuns, GraphStep(r), \A e \in ToolCalls : ~ CallsExecute(r, e)
  PROVE  IInv'
<1>0. recoveries[r] # Nil =>
        recoveries[r] \in Recovery /\ RunIsOrdered(r, recoveries[r], approvals[r])
  BY DEF IInv, RecoveryTypeOK, GraphIsOrdered
<1>a. Nil \notin {"SUCCEEDED", "NOT_REQUIRED", "BLOCKED", "INCOMPLETE", "answered"}
  BY NilAssumption
<1>b. approvals \in [RecoveryRuns -> Phases]
  BY DEF IInv, RecoveryTypeOK
<1>1. ASSUME NEW kind \in {"recovery", "troubleshooting"}, Begins(r, kind) PROVE IInv'
  <2> DEFINE run == [kind |-> kind, pc |-> "model", status |-> Nil, prepared |-> FALSE,
                     execution |-> Nil, outcome |-> Nil]
  <2>1. run \in Recovery
    BY DEF Recovery
  <2>2. approvals[r] = "unknown"
    BY <1>1 DEF Begins, IInv, AskedWasPrepared
  <2>3. RunIsOrdered(r, run, approvals[r])
    BY <1>a, <2>2 DEF RunIsOrdered
  <2>4. /\ recoveries' = [recoveries EXCEPT ![r] = run]
        /\ UNCHANGED <<device, operator, witnessed, approvals, executions>>
    BY <1>1 DEF Begins
  <2> HIDE DEF run
  <2>. QED
    BY <1>b, <2>1, <2>2, <2>3, <2>4, MovedRun
<1>2. CASE ReadsStatus(r)
  <2> DEFINE status == StatusOf(device)
             read == [recoveries[r] EXCEPT !.status = status]
             preparing == [read EXCEPT !.pc = "preparing"]
             healthy == [read EXCEPT !.pc = "ended", !.outcome = "NOT_REQUIRED"]
  <2>1. /\ recoveries[r] \in Recovery
        /\ recoveries[r].pc = "model"
        /\ RunIsOrdered(r, recoveries[r], approvals[r])
        /\ approvals[r] = "unknown"
    BY <1>0, <1>2 DEF ReadsStatus, At, RunIsOrdered
  <2>2. status \in DeviceStatus \union {Nil}
    BY DEF IInv, RecoveryTypeOK, DeviceState, DeviceStatus, StatusOf
  <2> HIDE DEF status
  <2>3. /\ read \in Recovery
        /\ read.status = status
        /\ read.pc = "model"
        /\ read.execution = recoveries[r].execution
        /\ read.outcome = recoveries[r].outcome
    BY <2>1, <2>2 DEF Recovery
  <2> HIDE DEF read
  <2>4. /\ preparing \in Recovery
        /\ preparing.status = status
        /\ preparing.pc = "preparing"
        /\ preparing.execution = recoveries[r].execution
        /\ preparing.outcome = recoveries[r].outcome
    BY <2>3 DEF Recovery
  <2>5. /\ healthy \in Recovery
        /\ healthy.pc = "ended"
        /\ healthy.execution = recoveries[r].execution
        /\ healthy.outcome = "NOT_REQUIRED"
    BY <2>3 DEF Recovery
  <2>6. /\ UNCHANGED <<device, operator, witnessed, approvals, executions>>
        /\ recoveries' = [recoveries EXCEPT ![r] =
               IF Recoverable(status) THEN preparing
               ELSE IF Healthy(status) THEN healthy ELSE read]
    BY <1>2 DEF ReadsStatus, status, read
  <2> HIDE DEF preparing, healthy
  <2>7. CASE Recoverable(status)
    <3>1. RunIsOrdered(r, preparing, approvals[r])
      BY <2>1, <2>4, <2>7 DEF RunIsOrdered
    <3>. QED
      BY <1>b, <2>1, <2>4, <2>6, <2>7, <3>1, MovedRun
  <2>8. CASE ~ Recoverable(status) /\ Healthy(status)
    <3>1. RunIsOrdered(r, healthy, approvals[r])
      BY <2>1, <2>5 DEF RunIsOrdered
    <3>. QED
      BY <1>b, <2>1, <2>5, <2>6, <2>8, <3>1, MovedRun
  <2>9. CASE ~ Recoverable(status) /\ ~ Healthy(status)
    <3>1. RunIsOrdered(r, read, approvals[r])
      BY <2>1, <2>3 DEF RunIsOrdered
    <3>. QED
      BY <1>b, <2>1, <2>3, <2>6, <2>9, <3>1, MovedRun
  <2>. QED
    BY <2>7, <2>8, <2>9
<1>3. ASSUME NEW observed \in Observations, CallsPrepare(r, observed) PROVE IInv'
  <2> DEFINE run == [recoveries[r] EXCEPT !.prepared = @ \/ IsTrustedPreparation(observed)]
  <2>1. /\ recoveries[r] \in Recovery
        /\ recoveries[r].pc = "model"
        /\ RunIsOrdered(r, recoveries[r], approvals[r])
        /\ approvals[r] = "unknown"
    BY <1>0, <1>3 DEF CallsPrepare, At, RunIsOrdered
  <2>2. IsTrustedPreparation(observed) \in BOOLEAN
    BY DEF IsTrustedPreparation
  <2> HIDE DEF IsTrustedPreparation
  <2>3. /\ run \in Recovery
        /\ run.pc = "model"
        /\ run.execution = recoveries[r].execution
        /\ run.outcome = recoveries[r].outcome
    BY <2>1, <2>2 DEF Recovery
  <2>4. recoveries' = [recoveries EXCEPT ![r] = run]
    BY <1>3 DEF CallsPrepare
  <2> HIDE DEF run
  <2>5. RunIsOrdered(r, run, approvals[r])
    BY <2>1, <2>3 DEF RunIsOrdered
  <2>. QED
    BY <1>3, <1>b, <2>1, <2>3, <2>4, <2>5, MovedRun DEF CallsPrepare
<1>4. ASSUME PutsToHuman(r), recoveries[r] # Nil, recoveries[r].pc \in {"model", "preparing"},
             recoveries[r].prepared \/ Recoverable(recoveries[r].status),
             UNCHANGED <<device, operator, witnessed, executions>>
      PROVE  IInv'
  <2> DEFINE run == [recoveries[r] EXCEPT !.pc = "approval"]
  <2>1. /\ run \in Recovery
        /\ run.pc = "approval"
        /\ run.execution = recoveries[r].execution
        /\ run.outcome = recoveries[r].outcome
        /\ run.prepared = recoveries[r].prepared
        /\ run.status = recoveries[r].status
    BY <1>0, <1>4 DEF Recovery
  <2>2. /\ recoveries' = [recoveries EXCEPT ![r] = run]
        /\ approvals' = [approvals EXCEPT ![r] = "proposed"]
    BY <1>4 DEF PutsToHuman
  <2>3. approvals[r] = "unknown"
    BY <1>0, <1>4 DEF RunIsOrdered
  <2>4. /\ approvals' \in [RecoveryRuns -> Phases]
        /\ approvals'[r] = "proposed"
        /\ \A q \in RecoveryRuns : q # r => approvals'[q] = approvals[q]
    BY <1>b, <2>2 DEF Phases
  <2> HIDE DEF run
  <2>5. recoveries[r].outcome = Nil
    BY <1>0, <1>4 DEF RunIsOrdered
  <2>6. RunIsOrdered(r, run, approvals'[r])
    BY <1>0, <1>4, <1>a, <2>1, <2>4, <2>5 DEF RunIsOrdered
  <2>. QED
    BY <1>4, <2>1, <2>2, <2>3, <2>4, <2>6, MovedRun
<1>5. ASSUME NEW observed \in Observations, Prepares(r, observed) PROVE IInv'
  <2>1. /\ recoveries[r] # Nil
        /\ recoveries[r].pc = "preparing"
        /\ approvals[r] = "unknown"
        /\ Recoverable(recoveries[r].status)
    BY <1>0, <1>5 DEF Prepares, At, RunIsOrdered
  <2>2. CASE IsTrustedPreparation(observed) /\ ~ IsBlocked(observed)
    BY <1>4, <1>5, <2>1, <2>2 DEF Prepares
  <2>3. CASE ~ (IsTrustedPreparation(observed) /\ ~ IsBlocked(observed))
    BY <1>5, <2>1, <2>3, EndedRun DEF Prepares
  <2>. QED
    BY <2>2, <2>3
<1>6. CASE Proposes(r)
  BY <1>4, <1>6 DEF Proposes, At
<1>7. CASE Finishes(r)
  <2>1. recoveries[r] # Nil /\ approvals[r] = "unknown"
    BY <1>0, <1>7 DEF Finishes, At, RunIsOrdered
  <2>. QED
    BY <1>7, <2>1, EndedRun DEF Finishes
<1>8. ASSUME NEW decision \in {"approved", "rejected"}, Decides(r, decision) PROVE IInv'
  <2> DEFINE run == [recoveries[r] EXCEPT !.pc = "deciding"]
  <2>1. /\ recoveries[r] # Nil
        /\ recoveries[r].pc = "approval"
        /\ approvals[r] = "proposed"
        /\ recoveries[r].outcome = Nil
    BY <1>0, <1>8 DEF Decides, At, RunIsOrdered
  <2>2. /\ run \in Recovery
        /\ run.pc = "deciding"
        /\ run.execution = recoveries[r].execution
        /\ run.outcome = Nil
        /\ run.prepared = recoveries[r].prepared
        /\ run.status = recoveries[r].status
    BY <1>0, <2>1 DEF Recovery
  <2>3. /\ recoveries' = [recoveries EXCEPT ![r] = run]
        /\ approvals' = [approvals EXCEPT ![r] = decision]
        /\ UNCHANGED <<device, operator, witnessed, executions>>
    BY <1>8 DEF Decides
  <2>4. /\ approvals' \in [RecoveryRuns -> Phases]
        /\ \A q \in RecoveryRuns : q # r => approvals'[q] = approvals[q]
    BY <1>b, <2>3 DEF Phases
  <2> HIDE DEF run
  <2>5. RunIsOrdered(r, run, approvals'[r])
    BY <1>0, <1>a, <2>1, <2>2 DEF RunIsOrdered
  <2>6. run.prepared \/ Recoverable(run.status)
    BY <2>1, <2>2 DEF IInv, AskedWasPrepared
  <2>. QED
    BY <2>1, <2>2, <2>3, <2>4, <2>5, <2>6, MovedRun
<1>9. CASE Cancels(r)
  BY <1>9, EndedRun DEF Cancels, At
<1>10. CASE Receives(r)
  <2> DEFINE execution == recoveries[r].execution
             outcome == OutcomeOf(executions[execution])
  <2>1. /\ recoveries[r] # Nil
        /\ execution # Nil
        /\ executions[execution] # Nil
        /\ executions[execution].run = r
    BY <1>0, <1>10 DEF Receives, At, RunIsOrdered
  <2>2. /\ outcome \in {"SUCCEEDED", "BLOCKED", "FAILED", "error"}
        /\ outcome \in {"SUCCEEDED", "BLOCKED"} => executions[execution].outcome = outcome
    BY DEF OutcomeOf
  <2>3. Ends(r, outcome) /\ UNCHANGED <<device, operator, witnessed, approvals, executions>>
    BY <1>10 DEF Receives
  <2> HIDE DEF outcome
  <2>. QED
    BY <2>1, <2>2, <2>3, EndedRun DEF IsOwn
<1>11. CASE Fails(r)
  BY <1>11, EndedRun DEF Fails
<1>. QED
  BY <1>1, <1>2, <1>3, <1>5, <1>6, <1>7, <1>8, <1>9, <1>10, <1>11 DEF GraphStep

LEMMA StepKeepsIInv == IInv /\ [NextRecovery]_recoveryVars => IInv'
<1> SUFFICES ASSUME IInv, [NextRecovery]_recoveryVars PROVE IInv'
  OBVIOUS
<1>1. ASSUME NEW r \in RecoveryRuns, GraphStep(r) PROVE IInv'
  BY <1>1, GraphKeepsIInv, CallKeepsIInv
<1>2. ASSUME NEW e \in ToolCalls, ServerStep(e) PROVE IInv'
  BY <1>2, LoopKeepsIInv, CallKeepsIInv DEF ServerStep
<1>3. ASSUME UNCHANGED <<operator, witnessed, approvals, recoveries, executions>>,
             device' \in DeviceState
      PROVE  IInv'
  BY <1>3 DEF IInv, RecoveryTypeOK, LoopIsAlone, Looping, ExecutionIsOrdered, AdmissionIsExclusive,
              IsAdmitted, GraphIsOrdered, RunIsOrdered, IsOwn, AskedWasPrepared
<1>4. CASE ReferenceLost
  BY <1>3, <1>4 DEF ReferenceLost
<1>5. CASE UNCHANGED recoveryVars
  BY <1>3, <1>5 DEF recoveryVars, IInv, RecoveryTypeOK
<1>. QED
  BY <1>1, <1>2, <1>4, <1>5 DEF NextRecovery

THEOREM StrengthenedInvariant == RecoverySpec => []IInv
BY InitIInv, StepKeepsIInv, PTL DEF RecoverySpec

(* Every device state, run and execution is one of its kind.               *)
THEOREM TypeCorrect == RecoverySpec => []RecoveryTypeOK
BY StrengthenedInvariant, PTL DEF IInv

(* A run that reports success had its own execution observe the device as  *)
(* it had calibrated it (ADR-018).                                         *)
THEOREM SuccessIsAlwaysWitnessed == RecoverySpec => []SuccessIsWitnessed
<1>1. IInv => SuccessIsWitnessed
  <2> SUFFICES ASSUME IInv, NEW r \in RecoveryRuns, recoveries[r] # Nil,
                      recoveries[r].outcome = "SUCCEEDED"
               PROVE  /\ recoveries[r].execution \in witnessed
                      /\ executions[recoveries[r].execution].run = r
    BY DEF SuccessIsWitnessed
  <2>1. IsOwn(r, recoveries[r].execution, "SUCCEEDED")
    BY DEF IInv, GraphIsOrdered, RunIsOrdered
  <2>2. recoveries[r].execution \in ToolCalls
    BY <2>1 DEF IsOwn, IInv, RecoveryTypeOK, Recovery
  <2>. QED
    BY <2>1, <2>2 DEF IsOwn, IInv, ExecutionIsOrdered
<1>. QED
  BY <1>1, StrengthenedInvariant, PTL

(* A run that ended without a calibration has operated nothing, and nobody *)
(* operates the device with its approval afterwards.                       *)
THEOREM UnrecoveredStaysUntouched == RecoverySpec => []UnrecoveredIsUntouched
<1>1. IInv => UnrecoveredIsUntouched
  <2> SUFFICES ASSUME IInv, NEW r \in RecoveryRuns, NEW e \in ToolCalls, recoveries[r] # Nil,
                      recoveries[r].outcome \in {"BLOCKED", "NOT_REQUIRED", "INCOMPLETE",
                                                 "answered"},
                      executions[e] # Nil, executions[e].run = r
               PROVE  ~ executions[e].operated
    BY DEF UnrecoveredIsUntouched
  <2>1. \/ approvals[r] \in {"unknown", "rejected"}
        \/ IsOwn(r, recoveries[r].execution, "BLOCKED")
    BY DEF IInv, GraphIsOrdered, RunIsOrdered
  <2>2. CASE approvals[r] \in {"unknown", "rejected"}
    BY <2>2 DEF IInv, AdmissionIsExclusive, IsAdmitted, ExecutionIsOrdered
  <2>3. CASE IsOwn(r, recoveries[r].execution, "BLOCKED")
    <3>1. recoveries[r].execution \in ToolCalls
      BY <2>3 DEF IsOwn, IInv, RecoveryTypeOK, Recovery
    <3>2. IsAdmitted(recoveries[r].execution)
      BY <2>3 DEF IsOwn, IsAdmitted
    <3>3. CASE IsAdmitted(e)
      BY <2>3, <3>1, <3>2, <3>3 DEF IsOwn, IInv, AdmissionIsExclusive, ExecutionIsOrdered
    <3>4. CASE ~ IsAdmitted(e)
      BY <3>4 DEF IsAdmitted, IInv, ExecutionIsOrdered
    <3>. QED
      BY <3>3, <3>4
  <2>. QED
    BY <2>1, <2>2, <2>3
<1>. QED
  BY <1>1, StrengthenedInvariant, PTL

(* Nothing is calibrated but what its run had prepared by the server, or   *)
(* found invalid and out of tolerance, whoever sends the call.             *)
THEOREM CalibratedAlwaysWasPrepared == RecoverySpec => []CalibratedWasPrepared
<1>1. IInv => CalibratedWasPrepared
  <2> SUFFICES ASSUME IInv, NEW e \in ToolCalls, executions[e] # Nil, executions[e].operated
               PROVE  LET recovery == recoveries[executions[e].run]
                      IN recovery # Nil /\ (recovery.prepared \/ Recoverable(recovery.status))
    BY DEF CalibratedWasPrepared
  <2>1. IsAdmitted(e)
    BY DEF IsAdmitted, IInv, ExecutionIsOrdered
  <2>2. executions[e].run \in RecoveryRuns /\ approvals[executions[e].run] # "unknown"
    BY <2>1 DEF IInv, AdmissionIsExclusive, RecoveryTypeOK, Execution
  <2>. QED
    BY <2>2 DEF IInv, AskedWasPrepared
<1>. QED
  BY <1>1, StrengthenedInvariant, PTL
-----------------------------------------------------------------------------
(* The abstract state under the steps that touch it.                       *)
LEMMA SamePerformed ==
  ASSUME \A r \in RecoveryRuns : OperatedFor(r)' = OperatedFor(r)
  PROVE  performedBar' = performedBar
<1>1. performedBar' = [r \in RecoveryRuns |-> OperatedFor(r)']
  BY DEF performedBar, OperatedFor
<1> HIDE DEF OperatedFor
<1>2. \A r \in RecoveryRuns : performedBar'[r] = performedBar[r]
  BY <1>1 DEF performedBar
<1>. QED
  BY <1>1, <1>2 DEF performedBar

LEMMA SameOperated ==
  ASSUME \A e \in ToolCalls : \/ executions'[e] = executions[e]
                              \/ /\ executions[e] # Nil => ~ executions[e].operated
                                 /\ executions'[e] # Nil => ~ executions'[e].operated
  PROVE  performedBar' = performedBar
<1>1. \A r \in RecoveryRuns : OperatedFor(r)' = OperatedFor(r)
  BY DEF OperatedFor
<1>. QED
  BY <1>1, SamePerformed

LEMMA SameBound ==
  ASSUME \A r \in RecoveryRuns : approvals'[r] = "unknown" <=> approvals[r] = "unknown"
  PROVE  boundBar' = boundBar
BY DEF boundBar

(* The device is operated under a spent approval, for the first time.      *)
LEMMA OperationRefines ==
  ASSUME IInv, NEW e \in ToolCalls, Operates(e)
  PROVE  Approval!Next
<1>0. executions[e].run \in RecoveryRuns
  BY DEF Operates, IInv, RecoveryTypeOK, Execution
<1> PICK r \in RecoveryRuns : r = executions[e].run
  BY <1>0
<1> DEFINE operating == [executions[e] EXCEPT !.pc = "operated", !.operated = TRUE]
<1>1. /\ executions[e] # Nil
      /\ executions[e] \in Execution
      /\ executions[e].run = r
      /\ IsAdmitted(e)
      /\ ~ executions[e].operated
  BY NilAssumption
     DEF Operates, IInv, RecoveryTypeOK, Execution, ExecutionIsOrdered, IsAdmitted
<1>2. approvals[r] = "consumed" /\ boundBar[r] = {CalibrationAction}
  BY <1>1 DEF IInv, AdmissionIsExclusive, boundBar
<1>3. operating # Nil /\ operating.run = r /\ operating.operated
  <2>1. operating \in Execution
    BY <1>1 DEF Execution
  <2>. QED
    BY <1>1, <2>1, NilAssumption DEF Execution
<1>4. executions' = [executions EXCEPT ![e] = operating]
  BY DEF Operates
<1> HIDE DEF operating
<1>5. executions'[e] = operating /\ \A f \in ToolCalls : f # e => executions'[f] = executions[f]
  BY <1>4 DEF IInv, RecoveryTypeOK
<1>6. performedBar[r] = {}
  <2>1. \A f \in ToolCalls :
           executions[f] # Nil /\ executions[f].run = r => ~ executions[f].operated
    BY <1>1 DEF IInv, AdmissionIsExclusive, IsAdmitted, ExecutionIsOrdered
  <2>. QED
    BY <1>1, <2>1 DEF performedBar, OperatedFor
<1>7. performedBar' = [performedBar EXCEPT ![r] = boundBar[r]]
  <2>1. OperatedFor(r)' = {CalibrationAction}
    BY <1>3, <1>5 DEF OperatedFor
  <2>2. \A q \in RecoveryRuns : q # r => OperatedFor(q)' = OperatedFor(q)
    BY <1>1, <1>3, <1>5 DEF OperatedFor
  <2>. QED
    BY <1>1, <1>2, <2>1, <2>2 DEF performedBar
<1>8. UNCHANGED <<approvals, boundBar>>
  BY DEF Operates, boundBar
<1>9. Approval!Perform(r)
  BY <1>2, <1>6, <1>7, <1>8 DEF Approval!Perform
<1>. QED
  BY <1>1, <1>9 DEF Approval!Next

(* The approval of a run moves as the abstract one.                        *)
LEMMA ApprovalRefines ==
  ASSUME IInv, NEW r \in RecoveryRuns, NEW phase,
         approvals' = [approvals EXCEPT ![r] = phase], performedBar' = performedBar,
         \/ approvals[r] = "unknown" /\ phase = "proposed"
         \/ approvals[r] = "proposed" /\ phase \in {"approved", "rejected"}
         \/ approvals[r] = "approved" /\ phase = "consumed"
  PROVE  Approval!Next
<1>1. approvals'[r] = phase /\ \A q \in RecoveryRuns : q # r => approvals'[q] = approvals[q]
  BY DEF IInv, RecoveryTypeOK
<1>2. CASE approvals[r] = "unknown" /\ phase = "proposed"
  <2>1. boundBar' = [boundBar EXCEPT ![r] = {CalibrationAction}]
    BY <1>1, <1>2 DEF boundBar
  <2>2. Approval!Propose(r, CalibrationAction)
    BY <1>2, <2>1 DEF Approval!Propose
  <2>. QED
    BY <2>2 DEF Approval!Next
<1>3. CASE approvals[r] # "unknown" /\ phase # "unknown"
  <2>1. boundBar' = boundBar
    BY <1>1, <1>3, SameBound
  <2>2. \/ phase \in {"approved", "rejected"} /\ Approval!Decide(r, phase)
        \/ Approval!Consume(r)
    BY <1>3, <2>1 DEF Approval!Decide, Approval!Consume
  <2>. QED
    BY <2>2 DEF Approval!Next
<1>. QED
  BY <1>2, <1>3

LEMMA StepsRefine ==
  ASSUME IInv, [NextRecovery]_recoveryVars
  PROVE  Approval!Next \/ UNCHANGED <<approvals, boundBar, performedBar>>
<1>1. ASSUME UNCHANGED approvals,
             \A e \in ToolCalls : \/ executions'[e] = executions[e]
                                  \/ /\ executions[e] # Nil => ~ executions[e].operated
                                     /\ executions'[e] # Nil => ~ executions'[e].operated
      PROVE  UNCHANGED <<approvals, boundBar, performedBar>>
  BY <1>1, SameOperated, SameBound
<1>2. ASSUME NEW r \in RecoveryRuns, NEW e \in ToolCalls, CallsExecute(r, e) \/ OtherCalls(r, e)
      PROVE  Approval!Next \/ UNCHANGED <<approvals, boundBar, performedBar>>
  <2>1. Claims(e, r) \/ IsDenied(e, r)
    BY <1>2 DEF CallsExecute, OtherCalls
  <2>2. PICK pc \in {"claimed", "ended"}, outcome \in {Nil, "DENIED"} :
           /\ executions[e] = Nil
           /\ executions' = [executions EXCEPT ![e] = NewExecution(r, pc, outcome)]
    BY <2>1 DEF Claims, IsDenied
  <2>3. \A f \in ToolCalls : \/ executions'[f] = executions[f]
                             \/ executions[f] = Nil /\ ~ executions'[f].operated
    BY <2>2 DEF NewExecution, IInv, RecoveryTypeOK
  <2>4. performedBar' = performedBar
    BY <2>3, SameOperated
  <2>5. CASE Claims(e, r)
    BY <2>4, <2>5, ApprovalRefines DEF Claims
  <2>6. CASE IsDenied(e, r)
    BY <2>3, <2>6, <1>1 DEF IsDenied
  <2>. QED
    BY <2>1, <2>5, <2>6
<1>3. ASSUME NEW r \in RecoveryRuns, GraphStep(r), \A e \in ToolCalls : ~ CallsExecute(r, e)
      PROVE  Approval!Next \/ UNCHANGED <<approvals, boundBar, performedBar>>
  <2>1. executions' = executions
    BY <1>3 DEF GraphStep, Begins, ReadsStatus, CallsPrepare, Prepares, Proposes, Finishes,
                Decides, Cancels, Receives, Fails
  <2>2. performedBar' = performedBar
    BY <2>1, SameOperated
  <2>3. recoveries[r] # Nil => RunIsOrdered(r, recoveries[r], approvals[r])
    BY DEF IInv, GraphIsOrdered
  <2>4. CASE \/ \E observed \in Observations : Prepares(r, observed)
             \/ Proposes(r)
    <3>1. UNCHANGED approvals \/ PutsToHuman(r)
      BY <2>4 DEF Prepares, Proposes
    <3>2. approvals[r] = "unknown"
      BY <2>3, <2>4 DEF Prepares, Proposes, At, RunIsOrdered
    <3>. QED
      BY <1>1, <2>1, <2>2, <3>1, <3>2, ApprovalRefines DEF PutsToHuman
  <2>5. CASE \E decision \in {"approved", "rejected"} : Decides(r, decision)
    BY <2>2, <2>3, <2>5, ApprovalRefines DEF Decides, At, RunIsOrdered
  <2>6. CASE UNCHANGED approvals
    BY <1>1, <2>1, <2>6
  <2>. QED
    BY <1>3, <2>4, <2>5, <2>6
       DEF GraphStep, Begins, ReadsStatus, CallsPrepare, Finishes, Cancels, Receives, Fails
<1>4. ASSUME NEW e \in ToolCalls, ServerStep(e), \A r \in RecoveryRuns : ~ OtherCalls(r, e),
             ~ Operates(e)
      PROVE  UNCHANGED <<approvals, boundBar, performedBar>>
  <2>1. UNCHANGED approvals
    BY <1>4 DEF ServerStep, Observes, OperationFails, Verifies, IsCutShort
  <2>2. executions[e] # Nil /\ executions[e] \in Execution
    BY <1>4 DEF ServerStep, Observes, OperationFails, Verifies, IsCutShort, IInv, RecoveryTypeOK
  <2>3. PICK pc \in Pcs, outcome \in Outcomes :
           \/ executions' = [executions EXCEPT ![e] = [@ EXCEPT !.pc = pc]]
           \/ executions' = [executions EXCEPT ![e] = [@ EXCEPT !.pc = pc, !.outcome = outcome]]
    BY <1>4 DEF ServerStep, Observes, OperationFails, Verifies, IsCutShort, ExecutionEnds,
                Pcs, Outcomes
  <2> DEFINE moved == [executions[e] EXCEPT !.pc = pc]
             ended == [executions[e] EXCEPT !.pc = pc, !.outcome = outcome]
  <2>4. /\ moved \in Execution /\ ended \in Execution
        /\ moved.run = executions[e].run /\ ended.run = executions[e].run
        /\ moved.operated = executions[e].operated /\ ended.operated = executions[e].operated
    BY <2>2 DEF Execution, Pcs, Outcomes
  <2>5. \/ executions' = [executions EXCEPT ![e] = moved]
        \/ executions' = [executions EXCEPT ![e] = ended]
    BY <2>3
  <2> HIDE DEF moved, ended
  <2>6. /\ executions'[e] # Nil
        /\ executions'[e].run = executions[e].run
        /\ executions'[e].operated = executions[e].operated
        /\ \A f \in ToolCalls : f # e => executions'[f] = executions[f]
    BY <2>2, <2>4, <2>5, NilAssumption DEF IInv, RecoveryTypeOK
  <2>7. ASSUME NEW r \in RecoveryRuns PROVE OperatedFor(r)' = OperatedFor(r)
    <3>1. ASSUME NEW f \in ToolCalls
          PROVE  (executions'[f] # Nil /\ executions'[f].run = r /\ executions'[f].operated)
                 <=> (executions[f] # Nil /\ executions[f].run = r /\ executions[f].operated)
      <4>1. CASE f = e
        BY <2>2, <2>6, <4>1
      <4>2. CASE f # e
        BY <2>6, <4>2
      <4>. QED
        BY <4>1, <4>2
    <3>. QED
      BY <3>1 DEF OperatedFor
  <2>8. performedBar' = performedBar
    BY <2>7, SamePerformed
  <2>. QED
    BY <2>1, <2>8, SameBound
<1>5. CASE ReferenceLost \/ UNCHANGED recoveryVars
  BY <1>1, <1>5 DEF ReferenceLost, recoveryVars
<1>. QED
  BY <1>2, <1>3, <1>4, <1>5, OperationRefines DEF NextRecovery, ServerStep

(* Claims, operations and decisions are those of the abstract approval: a  *)
(* calibration is carried out under a decided and spent approval, once.    *)
THEOREM ApprovalIsImplemented == RecoverySpec => ImplementsApproval
<1>1. InitRecovery => Approval!Init
  BY DEF InitRecovery, Approval!Init, boundBar, performedBar, OperatedFor
<1>2. IInv /\ [NextRecovery]_recoveryVars => [Approval!Next]_(Approval!vars)
  BY StepsRefine DEF Approval!vars
<1>. QED
  BY <1>1, <1>2, StrengthenedInvariant, PTL DEF RecoverySpec, ImplementsApproval, Approval!Spec
=============================================================================
