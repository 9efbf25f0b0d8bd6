----------------------- MODULE SagaCoordinatorProofs ------------------------
(***************************************************************************)
(* SafeInv is inductive.  Requests first: types, then what one step of one *)
(* thread may do to the journal, the world and the other threads, then     *)
(* each conjunct.  Then recovery, the arrival of a request, a crash and a  *)
(* restart; and the theorems about any number of threads and crashes.      *)
(***************************************************************************)
EXTENDS SagaInvariant, SagaFronts, FiniteSetTheorems, SequenceTheorems, TLAPS

(* The step that a thread works on is a step.                              *)
LEMMA CurrentType ==
  ASSUME TypeOK, NEW t \in Thread, PositionOK(t), pc[t] \in StepPC \/ doubt[t]
  PROVE  Current(t) \in Step /\ Tail(todo[t]) \in Seq(Step)
BY DEF TypeOK, PositionOK, Current

(* The step that a rollback works on is one of the completed steps.        *)
LEMMA UndoingType ==
  ASSUME TypeOK, NEW t \in Thread, PositionOK(t), pc[t] \in UndoPC
  PROVE  Undoing(t) \in Step /\ cursor[t] \in 1..Len(completed)
BY DEF TypeOK, PositionOK, Undoing

(* Leaving a rollback keeps the types of the thread.                       *)
LEMMA LeaveType ==
  ASSUME TypeOK, NEW t \in Thread, LeaveRollback(t)
  PROVE  pc' \in [Thread -> ThreadPC] /\ todo' \in [Thread -> Seq(Step)]
<1>1. CASE doubt[t]
  BY <1>1 DEF LeaveRollback, TypeOK, Goto, ThreadPC
<1>2. CASE ~doubt[t]
  <2>1. Return(t)
    BY <1>2 DEF LeaveRollback
  <2> QED
    BY <2>1 DEF Return, TypeOK, Goto, ThreadPC
<1> QED
  BY <1>1, <1>2

(* prepare_effect keeps the types of the store.                            *)
LEMMA PrepareType ==
  ASSUME TypeOK, NEW t \in Thread, PositionOK(t), Prepare(t)
  PROVE  StoreTypeOK'
<1>1. Current(t) \in Step
  BY CurrentType DEF Prepare, StepPC
<1>2. order' = order \/ order' = Append(order, Current(t))
  BY DEF Prepare, PrepareEffect
<1>3. order' \in Seq(Step)
  <2>1. order \in Seq(Step)
    BY DEF TypeOK, StoreTypeOK
  <2> QED
    BY <1>1, <1>2, <2>1
<1>4. effect' \in [Step -> EffectState \cup {"ABSENT"}]
  BY DEF Prepare, PrepareEffect, EffectState, TypeOK, StoreTypeOK
<1> QED
  BY <1>3, <1>4 DEF Prepare, PrepareEffect, TypeOK, StoreTypeOK

(* commit_effect keeps the types of the store.                             *)
LEMMA CommitStepType ==
  ASSUME TypeOK, NEW t \in Thread, PositionOK(t), CommitStep(t)
  PROVE  StoreTypeOK' /\ todo' \in [Thread -> Seq(Step)]
<1>1. Current(t) \in Step /\ Tail(todo[t]) \in Seq(Step)
  BY CurrentType DEF CommitStep, StepPC
<1>2. CASE CanMove(Current(t), {"APPLIED"})
  <2>1. PublishCommit(Current(t)) /\ todo' = [todo EXCEPT ![t] = Tail(@)]
    BY <1>2 DEF CommitStep
  <2>2. KeyOf[Current(t)] \in Key \cup {NoKey}
    BY <1>1, KeyAssumption
  <2>3. StoreTypeOK'
    BY <2>1, <2>2 DEF PublishCommit, TypeOK, StoreTypeOK, EffectState
  <2> QED
    BY <1>1, <2>1, <2>3 DEF TypeOK
<1>3. CASE ~CanMove(Current(t), {"APPLIED"})
  BY <1>3 DEF CommitStep, storeVars, TypeOK, StoreTypeOK
<1> QED
  BY <1>2, <1>3

(* Recording a compensation keeps the types of the store and the cursor.   *)
LEMMA RecordCompensatedType ==
  ASSUME TypeOK, NEW t \in Thread, PositionOK(t), RecordCompensated(t)
  PROVE  StoreTypeOK' /\ cursor' \in [Thread -> Nat]
<1>1. cursor[t] > 0
  BY DEF RecordCompensated, UndoPC, PositionOK
<1>2. CASE CanMove(Undoing(t), {"COMPENSATING"})
  <2>1. /\ MoveEffect(Undoing(t), "COMPENSATED")
        /\ cursor' = [cursor EXCEPT ![t] = @ - 1]
    BY <1>2 DEF RecordCompensated
  <2>2. StoreTypeOK'
    BY <2>1 DEF MoveEffect, TypeOK, StoreTypeOK, EffectState
  <2>3. cursor \in [Thread -> Nat]
    BY DEF TypeOK
  <2> QED
    BY <1>1, <2>1, <2>2, <2>3
<1>3. CASE ~CanMove(Undoing(t), {"COMPENSATING"})
  BY <1>3 DEF RecordCompensated, storeVars, TypeOK, StoreTypeOK
<1> QED
  BY <1>2, <1>3

(* Every step of a request keeps the types.                                *)
LEMMA WorkType ==
  ASSUME TypeOK, NEW t \in Thread, PositionOK(t), Work(t)
  PROVE  TypeOK'
<1> USE KeyAssumption, CoordinatorAssumption
<1> USE DEF TypeOK, StoreTypeOK, storeVars, memVars, threadVars, recVars,
   worldVars, envVars, Goto, Return
<1>a. CASE ReadPending(t)
  BY <1>a DEF ReadPending, ThreadPC
<1>b. CASE TakeNothing(t)
  BY <1>b DEF TakeNothing, ThreadPC
<1>1. CASE TakePending(t)
  <2>1. Current(t) \in Step
    BY <1>1, CurrentType DEF TakePending, StepPC
  <2> QED
    BY <1>1, <2>1 DEF TakePending, ThreadPC, SagaStatus
<1>2. CASE Resume(t)
  BY <1>2 DEF Resume, WriteStatusHolding, ThreadPC, SagaStatus
<1>3. CASE Rejecting(t)
  BY <1>3 DEF Rejecting, WriteStatusHolding, ThreadPC, SagaStatus
<1>4. CASE SkipCommitted(t)
  BY <1>4, SMTT(40) DEF SkipCommitted
<1>5. CASE RejectStep(t)
  BY <1>5 DEF RejectStep, ThreadPC
<1>6. CASE HoldForApproval(t)
  BY <1>6 DEF HoldForApproval, ThreadPC, SagaStatus
<1>7. CASE Await(t)
  BY <1>7 DEF Await, WriteStatusHolding, ThreadPC, SagaStatus
<1>8. CASE AdmitStep(t)
  BY <1>8 DEF AdmitStep, ThreadPC
<1>9. CASE Prepare(t)
  BY <1>9, PrepareType DEF Prepare, ThreadPC
<1>10. CASE MarkExecuting(t)
  BY <1>10, ZenonT(60) DEF MarkExecuting, CanMove, MoveEffect, ThreadPC, EffectState
<1>11. CASE Execute(t)
  <2>1. Current(t) \in Step
    BY <1>11, CurrentType DEF Execute, StepPC
  <2>2. hits' \in [Step -> Nat]
    BY <1>11, <2>1 DEF Execute
  <2> QED
    BY <1>11, <2>2 DEF Execute, ThreadPC
<1>12. CASE RecordApplied(t)
  BY <1>12, ZenonT(60) DEF RecordApplied, CanMove, MoveEffect, ThreadPC, EffectState
<1>13. CASE RecordAborted(t)
  BY <1>13 DEF RecordAborted, CanMove, MoveEffect, ThreadPC, EffectState
<1>14. CASE AppendCompleted(t)
  <2>1. Current(t) \in Step
    BY <1>14, CurrentType DEF AppendCompleted, StepPC
  <2> QED
    BY <1>14, <2>1 DEF AppendCompleted, ThreadPC
<1>15. CASE CommitStep(t)
  BY <1>15, CommitStepType, ZenonT(60) DEF CommitStep, ThreadPC
<1>16. CASE FinishSteps(t)
  BY <1>16 DEF FinishSteps, ThreadPC, SagaStatus
<1>17. CASE Finish(t)
  BY <1>17 DEF Finish, WriteStatus, ThreadPC, SagaStatus
<1>18. CASE Rollback(t)
  BY <1>18 DEF Rollback, WriteStatus, ThreadPC, SagaStatus
<1>19. CASE PickEffect(t)
  BY <1>19 DEF PickEffect, CanMove, ThreadPC
<1>20. CASE MarkCompensating(t)
  BY <1>20, ZenonT(60) DEF MarkCompensating, CanMove, MoveEffect, ThreadPC, EffectState
<1>21. CASE Undo(t)
  <2>1. Undoing(t) \in Step
    BY <1>21, UndoingType DEF Undo, UndoPC
  <2>2. undos' \in [Step -> Nat]
    BY <1>21, <2>1 DEF Undo
  <2> QED
    BY <1>21, <2>2 DEF Undo, ThreadPC
<1>22. CASE RecordCompensated(t)
  BY <1>22, RecordCompensatedType, ZenonT(60) DEF RecordCompensated, ThreadPC
<1>23. CASE CompensationsDone(t)
  BY <1>23 DEF CompensationsDone, ThreadPC, SagaStatus
<1>24. CASE Close(t)
  BY <1>24, LeaveType DEF Close, WriteStatus, SagaStatus
<1>25. CASE Fail(t)
  BY <1>25 DEF Fail, ThreadPC, SagaStatus
<1>26. CASE FailStatus(t)
  BY <1>26 DEF FailStatus, WriteStatus, ThreadPC, SagaStatus
<1>27. CASE FailEffect(t)
  BY <1>27 DEF FailEffect, CanMove, MoveEffect, ThreadPC, EffectState
<1>28. CASE FailDead(t)
  <2>1. Undoing(t) \in Step
    BY <1>28, UndoingType DEF FailDead, UndoPC
  <2>2. dead' \subseteq Step
    BY <1>28, <2>1 DEF FailDead, PushDeadLetter
  <2> QED
    BY <1>28, <2>2, LeaveType DEF FailDead, PushDeadLetter
<1>29. CASE MarkAmbiguous(t)
  BY <1>29 DEF MarkAmbiguous, CanMove, MoveEffect, ThreadPC, EffectState
<1>30. CASE AmbiguousStatus(t)
  BY <1>30 DEF AmbiguousStatus, WriteStatus, ThreadPC, SagaStatus
<1>31. CASE AmbiguousDead(t)
  <2>1. Current(t) \in Step
    BY <1>31, CurrentType DEF AmbiguousDead, StepPC
  <2>2. dead' \subseteq Step
    BY <1>31, <2>1 DEF AmbiguousDead, PushDeadLetter
  <2> QED
    BY <1>31, <2>2, SMTT(40) DEF AmbiguousDead, PushDeadLetter, ThreadPC
<1> QED
  BY <1>a, <1>b, <1>1, <1>2, <1>3, <1>4, <1>5, <1>6, <1>7, <1>8, <1>9, <1>10, <1>11,
     <1>12, <1>13, <1>14, <1>15, <1>16, <1>17, <1>18, <1>19, <1>20, <1>21,
     <1>22, <1>23, <1>24, <1>25, <1>26, <1>27, <1>28, <1>29, <1>30, <1>31
  DEF Work

(* What a step of thread t leaves to the other threads and to recovery.    *)
LEMMA WorkFrame ==
  ASSUME TypeOK, NEW t \in Thread, Work(t)
  PROVE  /\ UNCHANGED <<proc, rpc, rcur, snap, submitted, crashes, hook>>
         /\ \A u \in Thread \ {t} :
              /\ pc'[u] = pc[u] /\ todo'[u] = todo[u]
              /\ cursor'[u] = cursor[u] /\ doubt'[u] = doubt[u]
BY DEF Work, ReadPending, TakeNothing, TakePending, Resume, Rejecting, SkipCommitted, RejectStep,
   HoldForApproval, Await, AdmitStep, Prepare, MarkExecuting, Execute,
   RecordApplied, RecordAborted, AppendCompleted, CommitStep, FinishSteps,
   Finish, Rollback, PickEffect, MarkCompensating, Undo, RecordCompensated,
   CompensationsDone, Close, Fail, FailStatus, FailEffect, FailDead,
   MarkAmbiguous, AmbiguousStatus, AmbiguousDead, Goto, Return, LeaveRollback,
   TypeOK, threadVars, recVars, envVars

(* The list of completed steps changes only by a step appended to it.      *)
LEMMA WorkCompleted ==
  ASSUME TypeOK, NEW t \in Thread, PositionOK(t), Work(t)
  PROVE  \/ completed' = completed
         \/ /\ Current(t) \in Step
            /\ completed' = Append(completed, Current(t))
<1>1. CASE AppendCompleted(t) 
  BY <1>1, CurrentType DEF AppendCompleted, StepPC
<1>2. CASE ~AppendCompleted(t)
  BY <1>2 DEF Work, ReadPending, TakeNothing, TakePending, Resume, Rejecting, SkipCommitted, RejectStep,
     HoldForApproval, Await, AdmitStep, Prepare, MarkExecuting, Execute,
     RecordApplied, RecordAborted, CommitStep, FinishSteps, Finish, Rollback,
     PickEffect, MarkCompensating, Undo, RecordCompensated, CompensationsDone,
     Close, Fail, FailStatus, FailEffect, FailDead, MarkAmbiguous,
     AmbiguousStatus, AmbiguousDead, memVars
<1> QED BY <1>1, <1>2

(* Positions in the list of completed steps stay valid.                    *)
LEMMA WorkGrows ==
  ASSUME TypeOK, NEW t \in Thread, PositionOK(t), Work(t)
  PROVE  /\ Len(completed') >= Len(completed)
         /\ \A i \in 1..Len(completed) : completed'[i] = completed[i]
<1>1. completed \in Seq(Step)
  BY DEF TypeOK
<1>2. CASE completed' = completed
  BY <1>1, <1>2
<1>3. CASE Current(t) \in Step /\ completed' = Append(completed, Current(t))
  BY <1>1, <1>3, AppendProperties
<1> QED
  BY <1>2, <1>3, WorkCompleted

(* How a step of thread t moves a journal record; only the owner of an     *)
(* EXECUTING effect moves it.                                              *)
LEMMA WorkJournal ==
  ASSUME TypeOK, NEW t \in Thread, SureOK(t), Work(t), NEW s \in Step
  PROVE  \/ effect'[s] = effect[s]
         \/ effect[s] = "ABSENT" /\ effect'[s] = "PREPARED"
         \/ /\ s = Current(t)
            /\ effect[s] = "PREPARED" /\ effect'[s] = "EXECUTING"
         \/ /\ s = Current(t) /\ Owns(t)
            /\ effect[s] = "EXECUTING"
            /\ effect'[s] \in {"APPLIED", "ABORTED", "AMBIGUOUS"}
         \/ effect[s] = "APPLIED" /\ effect'[s] = "COMMITTED"
         \/ /\ effect[s] \in {"APPLIED", "COMMITTED"}
            /\ effect'[s] = "COMPENSATING"
         \/ effect[s] = "COMPENSATING" /\ effect'[s] \in Reversing
<1> effect \in [Step -> EffectState \cup {"ABSENT"}]
  BY DEF TypeOK, StoreTypeOK
<1>1. CASE Prepare(t)
  BY <1>1 DEF Prepare, PrepareEffect, Reversing, storeVars
<1>2. CASE MarkExecuting(t)
  BY <1>2 DEF MarkExecuting, CanMove, MoveEffect, Reversing, storeVars
<1>3. CASE RecordApplied(t)
  BY <1>3 DEF RecordApplied, CanMove, MoveEffect, SureOK, Owns, DoubtPC,
     Reversing, storeVars
<1>4. CASE RecordAborted(t)
  BY <1>4 DEF RecordAborted, CanMove, MoveEffect, SureOK, Owns, DoubtPC,
     Reversing, storeVars
<1>5. CASE CommitStep(t)
  BY <1>5 DEF CommitStep, CanMove, PublishCommit, Reversing, storeVars
<1>6. CASE MarkCompensating(t)
  BY <1>6 DEF MarkCompensating, CanMove, MoveEffect, Reversing, storeVars
<1>7. CASE RecordCompensated(t)
  BY <1>7 DEF RecordCompensated, CanMove, MoveEffect, Reversing, storeVars
<1>8. CASE FailEffect(t)
  BY <1>8 DEF FailEffect, CanMove, MoveEffect, Reversing, storeVars
<1>9. CASE MarkAmbiguous(t)
  BY <1>9 DEF MarkAmbiguous, CanMove, MoveEffect, SureOK, Owns, DoubtPC,
     Reversing, storeVars
<1>10. CASE ~ \/ Prepare(t) \/ MarkExecuting(t) \/ RecordApplied(t)
              \/ RecordAborted(t) \/ CommitStep(t) \/ MarkCompensating(t)
              \/ RecordCompensated(t) \/ FailEffect(t) \/ MarkAmbiguous(t)
  BY <1>10 DEF Work, ReadPending, TakeNothing, TakePending, Resume, Rejecting, SkipCommitted,
     RejectStep, HoldForApproval, Await, AdmitStep, Execute, AppendCompleted,
     FinishSteps, Finish, Rollback, PickEffect, Undo, CompensationsDone,
     Close, Fail, FailStatus, FailDead, AmbiguousStatus, AmbiguousDead,
     WriteStatus, WriteStatusHolding, PushDeadLetter, storeVars
<1> QED
  BY <1>1, <1>2, <1>3, <1>4, <1>5, <1>6, <1>7, <1>8, <1>9, <1>10

(* No step of a request returns a record to where nothing was done.        *)
LEMMA WorkMonotone ==
  ASSUME TypeOK, NEW t \in Thread, SureOK(t), Work(t), NEW s \in Step
  PROVE  /\ effect[s] \notin Untouched => effect'[s] \notin Untouched
         /\ effect[s] \in Reversing => effect'[s] \in Reversing
BY WorkJournal DEF Untouched, Reversing

(* When a step of thread t touches the world, and that it leaves the       *)
(* journal alone then.                                                     *)
LEMMA WorkWorld ==
  ASSUME TypeOK, NEW t \in Thread, Work(t), NEW s \in Step
  PROVE  /\ \/ hits'[s] = hits[s]
            \/ /\ pc[t] = "execute"
               /\ s = Current(t)
               /\ hits'[s] = hits[s] + 1
               /\ effect' = effect
         /\ \/ undos'[s] = undos[s]
            \/ pc[t] = "undo" /\ s = Undoing(t) /\ effect' = effect
BY SMTT(40) DEF Work, ReadPending, TakeNothing, TakePending, Resume, Rejecting, SkipCommitted, RejectStep,
   HoldForApproval, Await, AdmitStep, Prepare, MarkExecuting, Execute,
   RecordApplied, RecordAborted, AppendCompleted, CommitStep, FinishSteps,
   Finish, Rollback, PickEffect, MarkCompensating, Undo, RecordCompensated,
   CompensationsDone, Close, Fail, FailStatus, FailEffect, FailDead,
   MarkAmbiguous, AmbiguousStatus, AmbiguousDead, CanMove, MoveEffect,
   PrepareEffect, PublishCommit, WriteStatus, WriteStatusHolding,
   PushDeadLetter, Goto, Return, LeaveRollback, threadVars, storeVars,
   memVars, recVars, worldVars, envVars, TypeOK

(* An idle thread does nothing by itself.                                  *)
LEMMA WorkBusy ==
  ASSUME NEW t \in Thread, Work(t)
  PROVE  pc[t] # "idle"
BY DEF Work, ReadPending, TakeNothing, TakePending, Resume, Rejecting, SkipCommitted, RejectStep,
   HoldForApproval, Await, AdmitStep, Prepare, MarkExecuting, Execute,
   RecordApplied, RecordAborted, AppendCompleted, CommitStep, FinishSteps,
   Finish, Rollback, PickEffect, MarkCompensating, Undo, RecordCompensated,
   CompensationsDone, Close, Fail, FailStatus, FailEffect, FailDead,
   MarkAmbiguous, AmbiguousStatus, AmbiguousDead

(* A thread is in doubt exactly where its effect is.                       *)
LEMMA WorkSure ==
  ASSUME TypeOK, NEW t \in Thread, SureOK(t), Work(t)
  PROVE  (pc[t] \in SurePC => ~doubt[t])' /\ (pc[t] \in DoubtPC => doubt[t])'
BY ZenonT(60) DEF Work, ReadPending, TakeNothing, TakePending, Resume, Rejecting, SkipCommitted, RejectStep,
   HoldForApproval, Await, AdmitStep, Prepare, MarkExecuting, Execute,
   RecordApplied, RecordAborted, AppendCompleted, CommitStep, FinishSteps,
   Finish, Rollback, PickEffect, MarkCompensating, Undo, RecordCompensated,
   CompensationsDone, Close, Fail, FailStatus, FailEffect, FailDead,
   MarkAmbiguous, AmbiguousStatus, AmbiguousDead, CanMove, MoveEffect,
   PrepareEffect, PublishCommit, WriteStatus, WriteStatusHolding,
   PushDeadLetter, Goto, Return, LeaveRollback, threadVars, storeVars,
   memVars, recVars, worldVars, envVars, TypeOK, SureOK, SurePC, DoubtPC

(* Thread t keeps a current step, or a completed step to undo, wherever it *)
(* needs one.                                                              *)
LEMMA WorkPosition ==
  ASSUME TypeOK, NEW t \in Thread, PositionOK(t), SureOK(t), Work(t)
  PROVE  PositionOK(t)'
<1> USE DEF PositionOK, StepPC, UndoPC, Goto, Return
<1> /\ pc \in [Thread -> ThreadPC]
    /\ todo \in [Thread -> Seq(Step)]
    /\ cursor \in [Thread -> Nat]
    /\ doubt \in [Thread -> BOOLEAN]
    /\ completed \in Seq(Step)
  BY DEF TypeOK
<1>a. CASE ReadPending(t)
  BY <1>a DEF ReadPending, memVars, SureOK, SurePC
<1>b. CASE TakeNothing(t)
  BY <1>b DEF TakeNothing, memVars, SureOK, SurePC
<1>1. CASE TakePending(t)
  BY <1>1 DEF TakePending, memVars, SureOK, SurePC
<1>2. CASE Resume(t)
  BY <1>2 DEF Resume, memVars, SureOK, SurePC
<1>3. CASE Rejecting(t)
  BY <1>3 DEF Rejecting, memVars, SureOK, SurePC
<1>4. CASE SkipCommitted(t)
  BY <1>4 DEF SkipCommitted, memVars, SureOK, SurePC
<1>5. CASE RejectStep(t)
  BY <1>5 DEF RejectStep, memVars, SureOK, SurePC
<1>6. CASE HoldForApproval(t)
  BY <1>6 DEF HoldForApproval, memVars, SureOK, SurePC
<1>7. CASE Await(t)
  BY <1>7 DEF Await, memVars, SureOK, SurePC
<1>8. CASE AdmitStep(t)
  BY <1>8 DEF AdmitStep, memVars, SureOK, SurePC
<1>9. CASE Prepare(t)
  BY <1>9 DEF Prepare, memVars, SureOK, SurePC
<1>10. CASE MarkExecuting(t)
  BY <1>10 DEF MarkExecuting, memVars, SureOK, SurePC
<1>11. CASE Execute(t)
  BY <1>11 DEF Execute, memVars, SureOK, SurePC
<1>12. CASE RecordApplied(t)
  BY <1>12 DEF RecordApplied, memVars, SureOK, SurePC
<1>13. CASE RecordAborted(t)
  BY <1>13 DEF RecordAborted, memVars, SureOK, SurePC
<1>14. CASE AppendCompleted(t)
  BY <1>14 DEF AppendCompleted, memVars, SureOK, SurePC
<1>15. CASE CommitStep(t)
  BY <1>15 DEF CommitStep, memVars, SureOK, SurePC
<1>16. CASE FinishSteps(t)
  BY <1>16 DEF FinishSteps, memVars, SureOK, SurePC
<1>17. CASE Finish(t)
  BY <1>17 DEF Finish, memVars, SureOK, SurePC
<1>18. CASE Rollback(t)
  BY <1>18 DEF Rollback, memVars, SureOK, SurePC
<1>19. CASE PickEffect(t)
  BY <1>19 DEF PickEffect, memVars, SureOK, SurePC
<1>20. CASE MarkCompensating(t)
  BY <1>20 DEF MarkCompensating, memVars, SureOK, SurePC
<1>21. CASE Undo(t)
  BY <1>21 DEF Undo, memVars, SureOK, SurePC
<1>22. CASE RecordCompensated(t)
  BY <1>22 DEF RecordCompensated, memVars, SureOK, SurePC
<1>23. CASE CompensationsDone(t)
  BY <1>23 DEF CompensationsDone, memVars, SureOK, SurePC
<1>24. CASE Close(t)
  BY <1>24 DEF Close, LeaveRollback, memVars
<1>25. CASE Fail(t)
  BY <1>25 DEF Fail, memVars, SureOK, SurePC
<1>26. CASE FailStatus(t)
  BY <1>26 DEF FailStatus, memVars, SureOK, SurePC
<1>27. CASE FailEffect(t)
  BY <1>27 DEF FailEffect, memVars, SureOK, SurePC
<1>28. CASE FailDead(t)
  BY <1>28 DEF FailDead, LeaveRollback, memVars
<1>29. CASE MarkAmbiguous(t)
  BY <1>29 DEF MarkAmbiguous, memVars, SureOK, SurePC
<1>30. CASE AmbiguousStatus(t)
  BY <1>30 DEF AmbiguousStatus, memVars, SureOK, SurePC
<1>31. CASE AmbiguousDead(t)
  BY <1>31 DEF AmbiguousDead, memVars
<1> QED
  BY <1>a, <1>b, <1>1, <1>2, <1>3, <1>4, <1>5, <1>6, <1>7, <1>8, <1>9, <1>10, <1>11,
     <1>12, <1>13, <1>14, <1>15, <1>16, <1>17, <1>18, <1>19, <1>20, <1>21,
     <1>22, <1>23, <1>24, <1>25, <1>26, <1>27, <1>28, <1>29, <1>30, <1>31
  DEF Work

(* A thread becomes an owner only from PREPARED.                           *)
LEMMA WorkOwner ==
  ASSUME TypeOK, NEW t \in Thread, PositionOK(t), OwnerOK(t), Work(t), Owns(t)'
  PROVE  /\ Current(t)' = Current(t) /\ effect'[Current(t)] = "EXECUTING"
         /\ Owns(t) \/ effect[Current(t)] = "PREPARED"
<1> USE DEF Owns, Goto, Return, Current
<1> /\ pc \in [Thread -> ThreadPC]
    /\ todo \in [Thread -> Seq(Step)]
    /\ doubt \in [Thread -> BOOLEAN]
    /\ effect \in [Step -> EffectState \cup {"ABSENT"}]
  BY DEF TypeOK, StoreTypeOK
<1>a. CASE ReadPending(t)
  BY <1>a, CurrentType DEF ReadPending, OwnerOK, SureOK, SurePC, DoubtPC, storeVars,
     StepPC
<1>b. CASE TakeNothing(t)
  BY <1>b, CurrentType DEF TakeNothing, OwnerOK, SureOK, SurePC, DoubtPC, storeVars,
     StepPC
<1>1. CASE TakePending(t)
  BY <1>1, CurrentType DEF TakePending, OwnerOK, SureOK, SurePC, DoubtPC, storeVars,
     StepPC
<1>2. CASE Resume(t)
  BY <1>2, CurrentType DEF Resume, WriteStatusHolding, OwnerOK, SureOK, SurePC,
     DoubtPC, storeVars, StepPC
<1>3. CASE Rejecting(t)
  BY <1>3, CurrentType DEF Rejecting, WriteStatusHolding, OwnerOK, SureOK, SurePC,
     DoubtPC, storeVars, StepPC
<1>4. CASE SkipCommitted(t)
  BY <1>4, CurrentType DEF SkipCommitted, OwnerOK, SureOK, SurePC, DoubtPC, storeVars,
     StepPC
<1>5. CASE RejectStep(t)
  BY <1>5, CurrentType DEF RejectStep, OwnerOK, SureOK, SurePC, DoubtPC, storeVars,
     StepPC
<1>6. CASE HoldForApproval(t)
  BY <1>6, CurrentType DEF HoldForApproval, OwnerOK, SureOK, SurePC, DoubtPC,
     storeVars, StepPC
<1>7. CASE Await(t)
  BY <1>7, CurrentType DEF Await, WriteStatusHolding, OwnerOK, SureOK, SurePC,
     DoubtPC, storeVars, StepPC
<1>8. CASE AdmitStep(t)
  BY <1>8, CurrentType DEF AdmitStep, OwnerOK, SureOK, SurePC, DoubtPC, storeVars,
     StepPC
<1>9. CASE Prepare(t)
  BY <1>9, CurrentType DEF Prepare, PrepareEffect, OwnerOK, SureOK, SurePC, DoubtPC,
     storeVars, StepPC
<1>10. CASE MarkExecuting(t)
  BY <1>10, CurrentType DEF MarkExecuting, CanMove, MoveEffect, OwnerOK,
     SureOK, SurePC, DoubtPC, storeVars, StepPC
<1>11. CASE Execute(t)
  BY <1>11, CurrentType DEF Execute, OwnerOK, SureOK, SurePC, DoubtPC, storeVars,
     StepPC
<1>12. CASE RecordApplied(t)
  BY <1>12, CurrentType DEF RecordApplied, CanMove, MoveEffect, OwnerOK,
     SureOK, SurePC, DoubtPC, storeVars, StepPC
<1>13. CASE RecordAborted(t)
  BY <1>13, CurrentType DEF RecordAborted, CanMove, MoveEffect, OwnerOK,
     SureOK, SurePC, DoubtPC, storeVars, StepPC
<1>14. CASE AppendCompleted(t)
  BY <1>14, CurrentType DEF AppendCompleted, OwnerOK, SureOK, SurePC, DoubtPC,
     storeVars, StepPC
<1>15. CASE CommitStep(t)
  BY <1>15, CurrentType DEF CommitStep, CanMove, PublishCommit, OwnerOK,
     SureOK, SurePC, DoubtPC, storeVars, StepPC
<1>16. CASE FinishSteps(t)
  BY <1>16, CurrentType DEF FinishSteps, OwnerOK, SureOK, SurePC, DoubtPC, storeVars,
     StepPC
<1>17. CASE Finish(t)
  BY <1>17, CurrentType DEF Finish, WriteStatus, OwnerOK, SureOK, SurePC, DoubtPC,
     storeVars, StepPC
<1>18. CASE Rollback(t)
  BY <1>18, CurrentType DEF Rollback, WriteStatus, OwnerOK, SureOK, SurePC, DoubtPC,
     storeVars, StepPC
<1>19. CASE PickEffect(t)
  BY <1>19, CurrentType DEF PickEffect, CanMove, OwnerOK, SureOK, SurePC, DoubtPC,
     storeVars, StepPC
<1>20. CASE MarkCompensating(t)
  BY <1>20, CurrentType DEF MarkCompensating, CanMove, MoveEffect, OwnerOK,
     SureOK, SurePC, DoubtPC, storeVars, StepPC
<1>21. CASE Undo(t)
  BY <1>21, CurrentType DEF Undo, OwnerOK, SureOK, SurePC, DoubtPC, storeVars, StepPC
<1>22. CASE RecordCompensated(t)
  BY <1>22, CurrentType DEF RecordCompensated, CanMove, MoveEffect, OwnerOK,
     SureOK, SurePC, DoubtPC, storeVars, StepPC
<1>23. CASE CompensationsDone(t)
  BY <1>23, CurrentType DEF CompensationsDone, OwnerOK, SureOK, SurePC, DoubtPC,
     storeVars, StepPC
<1>24. CASE Close(t)
  BY <1>24, CurrentType DEF Close, WriteStatus, LeaveRollback, OwnerOK,
     SureOK, SurePC, DoubtPC, storeVars, StepPC
<1>25. CASE Fail(t)
  BY <1>25, CurrentType DEF Fail, OwnerOK, SureOK, SurePC, DoubtPC, storeVars, StepPC
<1>26. CASE FailStatus(t)
  BY <1>26, CurrentType DEF FailStatus, WriteStatus, OwnerOK, SureOK, SurePC, DoubtPC,
     storeVars, StepPC
<1>27. CASE FailEffect(t)
  BY <1>27, CurrentType DEF FailEffect, CanMove, MoveEffect, OwnerOK, SureOK, SurePC,
     DoubtPC, storeVars, StepPC
<1>28. CASE FailDead(t)
  BY <1>28, CurrentType DEF FailDead, PushDeadLetter, LeaveRollback, OwnerOK,
     SureOK, SurePC, DoubtPC, storeVars, StepPC
<1>29. CASE MarkAmbiguous(t)
  BY <1>29, CurrentType DEF MarkAmbiguous, CanMove, MoveEffect, OwnerOK,
     SureOK, SurePC, DoubtPC, storeVars, StepPC
<1>30. CASE AmbiguousStatus(t)
  BY <1>30, CurrentType DEF AmbiguousStatus, WriteStatus, OwnerOK, SureOK, SurePC,
     DoubtPC, storeVars, StepPC
<1>31. CASE AmbiguousDead(t)
  BY <1>31, CurrentType DEF AmbiguousDead, PushDeadLetter, OwnerOK, SureOK, SurePC,
     DoubtPC, storeVars, StepPC
<1> QED
  BY <1>a, <1>b, <1>1, <1>2, <1>3, <1>4, <1>5, <1>6, <1>7, <1>8, <1>9, <1>10, <1>11,
     <1>12, <1>13, <1>14, <1>15, <1>16, <1>17, <1>18, <1>19, <1>20, <1>21,
     <1>22, <1>23, <1>24, <1>25, <1>26, <1>27, <1>28, <1>29, <1>30, <1>31
  DEF Work

(* A thread about to call the tool is the first to do so.                  *)
LEMMA WorkExecute ==
  ASSUME TypeOK, NEW t \in Thread, PositionOK(t), Work(t),
         \A s \in Step : EffectOK(s), pc'[t] = "execute"
  PROVE  /\ Current(t)' = Current(t) /\ hits'[Current(t)] = 0
         /\ effect[Current(t)] = "PREPARED"
         /\ effect'[Current(t)] = "EXECUTING"
<1>1. CASE MarkExecuting(t)
  <2>1. Current(t) \in Step
    BY <1>1, CurrentType DEF MarkExecuting, StepPC
  <2>2. Current(t)' = Current(t)
    BY <1>1 DEF MarkExecuting, Current
  <2> QED
  BY <1>1, <2>1, <2>2 DEF MarkExecuting, CanMove, MoveEffect, Goto, TypeOK,
     StoreTypeOK, EffectOK, Untouched, worldVars
<1>2. CASE ~MarkExecuting(t)
  BY <1>2 DEF Work, ReadPending, TakeNothing, TakePending, Resume, Rejecting, SkipCommitted, RejectStep,
     HoldForApproval, Await, AdmitStep, Prepare, MarkExecuting, Execute,
     RecordApplied, RecordAborted, AppendCompleted, CommitStep, FinishSteps,
     Finish, Rollback, PickEffect, MarkCompensating, Undo, RecordCompensated,
     CompensationsDone, Close, Fail, FailStatus, FailEffect, FailDead,
     MarkAmbiguous, AmbiguousStatus, AmbiguousDead, CanMove, MoveEffect,
     PrepareEffect, PublishCommit, WriteStatus, WriteStatusHolding,
     PushDeadLetter, Goto, Return, LeaveRollback, threadVars, storeVars,
     memVars, recVars, worldVars, envVars, TypeOK
<1> QED
  BY <1>1, <1>2

(* A thread about to run a compensation has marked it.                     *)
LEMMA WorkUndo ==
  ASSUME TypeOK, NEW t \in Thread, PositionOK(t), UndoOK(t), Work(t),
         pc'[t] = "undo"
  PROVE  Undoing(t)' = Undoing(t) /\ effect'[Undoing(t)] \in Reversing
<1>1. CASE PickEffect(t)
  BY <1>1 DEF PickEffect, Goto, TypeOK, Undoing, storeVars, memVars, CanMove,
     Reversing
<1>2. CASE MarkCompensating(t)
  <2>1. Undoing(t) \in Step
    BY <1>2, UndoingType DEF MarkCompensating, UndoPC
  <2> QED
  BY <1>2, <2>1 DEF MarkCompensating, MoveEffect, CanMove, Goto, TypeOK,
     StoreTypeOK, Undoing, memVars, Reversing
<1>3. CASE ~(PickEffect(t) \/ MarkCompensating(t))
  BY <1>3 DEF Work, ReadPending, TakeNothing, TakePending, Resume, Rejecting, SkipCommitted, RejectStep,
     HoldForApproval, Await, AdmitStep, Prepare, MarkExecuting, Execute,
     RecordApplied, RecordAborted, AppendCompleted, CommitStep, FinishSteps,
     Finish, Rollback, PickEffect, MarkCompensating, Undo, RecordCompensated,
     CompensationsDone, Close, Fail, FailStatus, FailEffect, FailDead,
     MarkAmbiguous, AmbiguousStatus, AmbiguousDead, CanMove, MoveEffect,
     PrepareEffect, PublishCommit, WriteStatus, WriteStatusHolding,
     PushDeadLetter, Goto, Return, LeaveRollback, threadVars, storeVars,
     memVars, recVars, worldVars, envVars, TypeOK
<1> QED
  BY <1>1, <1>2, <1>3

(* Every step of a request keeps the inductive invariant.                  *)
LEMMA WorkStep ==
  ASSUME SafeInv, NEW t \in Thread, Work(t)
  PROVE  SafeInv'
<1>1. TypeOK /\ PositionOK(t) /\ SureOK(t) /\ OwnerOK(t) /\ UndoOK(t)
  BY DEF SafeInv, OwnerOK
<1>2. TypeOK'
  BY <1>1, WorkType
<1>3. proc = "up" /\ rpc = "off"
  BY WorkBusy DEF SafeInv, ProcessOK
<1>4. UNCHANGED <<proc, rpc, rcur, snap>>
  BY <1>1, WorkFrame
<1>5. ProcessOK'
  BY <1>3, <1>4 DEF ProcessOK
<1>6. ASSUME NEW u \in Thread \ {t}
      PROVE  /\ pc'[u] = pc[u] /\ todo'[u] = todo[u]
             /\ cursor'[u] = cursor[u] /\ doubt'[u] = doubt[u]
             /\ Current(u)' = Current(u) /\ Owns(u)' = Owns(u)
             /\ PositionOK(u) /\ OwnerOK(u) /\ UndoOK(u)
  BY <1>1, <1>6, WorkFrame DEF Current, Owns, SafeInv
<1>7. ASSUME NEW u \in Thread
      PROVE  PositionOK(u)'
  <2>1. CASE u = t
    BY <1>1, <2>1, WorkPosition
  <2>2. CASE u # t
    <3>1. Len(completed') >= Len(completed)
      BY <1>1, WorkGrows
    <3>2. cursor[u] \in Nat
      BY DEF SafeInv, TypeOK
    <3> QED
      BY <1>1, <1>2, <1>6, <2>2, <3>1, <3>2, SMTT(40) DEF PositionOK, TypeOK
  <2> QED
    BY <2>1, <2>2
<1>8. ASSUME NEW u \in Thread, u # t, Owns(u)
      PROVE  effect'[Current(u)] = "EXECUTING"
  <2>1. Current(u) \in Step /\ effect[Current(u)] = "EXECUTING"
    BY <1>1, <1>6, <1>8, CurrentType DEF OwnerOK, Owns
  <2>2. ~(Owns(t) /\ Current(u) = Current(t))
    BY <1>8 DEF SafeInv, OneOwner
  <2> QED
    BY <1>1, <2>1, <2>2, WorkJournal
<1>9. ASSUME NEW u \in Thread
      PROVE  OwnerOK(u)'
  <2>1. CASE u = t
    <3>1. Owns(t)' => (effect[Current(t)] = "EXECUTING")'
      BY <1>1, WorkOwner
    <3>2. (pc[t] = "execute")' => (hits[Current(t)] = 0)'
      BY <1>1, WorkExecute DEF SafeInv
    <3> QED
      BY <1>1, <2>1, <3>1, <3>2, WorkSure DEF OwnerOK, SureOK
  <2>2. CASE u # t
    <3>1. ASSUME pc[u] = "execute"
          PROVE  hits'[Current(u)] = 0
      <4>1. Owns(u) /\ Owns(t) => Current(u) # Current(t)
        BY <2>2 DEF SafeInv, OneOwner
      <4>2. Owns(u) /\ Current(u) \in Step /\ hits[Current(u)] = 0
        BY <1>1, <1>6, <2>2, <3>1, CurrentType DEF OwnerOK, SureOK, Owns, DoubtPC
      <4>3. pc[t] = "execute" => Owns(t)
        BY <1>1 DEF OwnerOK, SureOK, Owns, DoubtPC
      <4> QED
        BY <1>1, <4>1, <4>2, <4>3, WorkWorld
    <3> QED
      BY <1>6, <1>8, <2>2, <3>1 DEF OwnerOK, SureOK
  <2> QED
    BY <2>1, <2>2
<1>10. ASSUME NEW u \in Thread
       PROVE  UndoOK(u)'
  <2>1. CASE u = t
    BY <1>1, <2>1, WorkUndo DEF UndoOK
  <2>2. CASE u # t /\ pc[u] = "undo"
    <3>1. Undoing(u) \in Step /\ cursor[u] \in 1..Len(completed)
      BY <1>1, <1>6, <2>2, UndoingType DEF UndoPC
    <3>2. Undoing(u)' = Undoing(u)
      BY <1>1, <1>6, <2>2, <3>1, WorkGrows DEF Undoing
    <3> QED
      BY <1>1, <1>6, <2>2, <3>1, <3>2, WorkMonotone DEF UndoOK
  <2>3. CASE u # t /\ pc[u] # "undo"
    BY <1>6, <2>3 DEF UndoOK
  <2> QED
    BY <2>1, <2>2, <2>3
<1>11. OneOwner'
  <2> SUFFICES ASSUME NEW u \in Thread, u # t, Owns(t)', Owns(u),
                      Current(t)' = Current(u)
               PROVE  FALSE
    BY <1>6 DEF SafeInv, OneOwner
  <2>1. /\ Current(t)' = Current(t)
        /\ (Owns(t) \/ effect[Current(t)] = "PREPARED")
    BY <1>1, WorkOwner
  <2>2. effect[Current(u)] = "EXECUTING"
    BY <1>6 DEF OwnerOK
  <2> QED
    BY <2>1, <2>2 DEF SafeInv, OneOwner
<1>12. ASSUME NEW s \in Step
       PROVE  EffectOK(s)'
  <2>1. EffectOK(s) /\ hits[s] \in Nat /\ hits'[s] \in Nat
    BY <1>2 DEF SafeInv, TypeOK
  <2>2. CASE hits'[s] = hits[s] /\ undos'[s] = undos[s]
    BY <1>1, <2>1, <2>2, WorkMonotone DEF EffectOK
  <2>3. CASE /\ pc[t] = "execute"
             /\ s = Current(t)
             /\ hits'[s] = hits[s] + 1
             /\ effect' = effect
    <3>1. effect[s] = "EXECUTING" /\ hits[s] = 0
      BY <1>1, <2>3 DEF OwnerOK, SureOK, Owns, DoubtPC
    <3>2. undos'[s] = undos[s]
      BY <1>1, <2>3, WorkWorld
    <3> QED
      BY <2>1, <2>3, <3>1, <3>2 DEF EffectOK, Untouched
  <2>4. CASE pc[t] = "undo" /\ s = Undoing(t) /\ effect' = effect
    <3>1. effect[s] \in Reversing
      BY <1>1, <2>4 DEF UndoOK
    <3>2. hits'[s] = hits[s]
      BY <1>1, <2>4, WorkWorld
    <3> QED
      BY <2>1, <2>4, <3>1, <3>2 DEF EffectOK
  <2> QED
    BY <1>1, <2>2, <2>3, <2>4, WorkWorld
<1>13. RecoveryOK'
  BY <1>1, <1>3, <1>4, WorkMonotone DEF SafeInv, RecoveryOK
<1> QED
  BY <1>2, <1>5, <1>7, <1>9, <1>10, <1>11, <1>12, <1>13 DEF SafeInv

-----------------------------------------------------------------------------
(***************************************************************************)
(* Recovery.                                                               *)
(***************************************************************************)

(* The record that recovery examines is that of a step.                    *)
LEMMA ExaminedType ==
  ASSUME TypeOK, RecoveryOK, rpc # "off", rcur > 0
  PROVE  Examined \in Step
<1>1. order \in Seq(Step) /\ rcur \in 1..Len(order)
  BY DEF TypeOK, StoreTypeOK, RecoveryOK
<1> QED
  BY <1>1 DEF Examined

(* transition_effect in recovery keeps the types.                          *)
LEMMA RecoverMoveType ==
  ASSUME TypeOK, NEW from, NEW new \in EffectState, NEW where \in RecoveryPC,
         NEW i \in Nat, RecoverMove(from, new, where, i)
  PROVE  TypeOK'
<1>1. CASE CanMove(Examined, from)
  <2>1. MoveEffect(Examined, new) /\ Proceed(where, i) /\ UNCHANGED snap
    BY <1>1 DEF RecoverMove
  <2> QED
    BY <2>1 DEF RecoverMove, MoveEffect, Proceed, TypeOK, StoreTypeOK,
       memVars, threadVars, worldVars, envVars
<1>2. CASE ~CanMove(Examined, from)
  <2>1. UNCHANGED storeVars /\ Serve
    BY <1>2 DEF RecoverMove
  <2> QED
    BY <2>1 DEF RecoverMove, Serve, RecoveryGone, TypeOK, StoreTypeOK,
       storeVars, memVars, threadVars, worldVars, RecoveryPC
<1> QED
  BY <1>1, <1>2

(* So does the transition of an effect that is found applied.              *)
LEMMA RecoverPresentType ==
  ASSUME TypeOK, RecoverPresent
  PROVE  TypeOK'
<1>1. CASE CanMove(Examined, {"EXECUTING", "AMBIGUOUS"})
  <2>1. /\ MoveEffect(Examined, "APPLIED")
        /\ snap' = [snap EXCEPT ![Examined] = "APPLIED"]
        /\ Proceed("walk", rcur)
    BY <1>1 DEF RecoverPresent
  <2> QED
    BY <2>1 DEF RecoverPresent, MoveEffect, Proceed, TypeOK, StoreTypeOK,
       EffectState, RecoveryPC, memVars, threadVars, worldVars, envVars
<1>2. CASE ~CanMove(Examined, {"EXECUTING", "AMBIGUOUS"})
  <2>1. UNCHANGED storeVars /\ Serve
    BY <1>2 DEF RecoverPresent
  <2> QED
    BY <2>1 DEF RecoverPresent, Serve, RecoveryGone, TypeOK, StoreTypeOK,
       storeVars, memVars, threadVars, worldVars, RecoveryPC
<1> QED
  BY <1>1, <1>2

(* The steps restored for an approval are steps.                           *)
LEMMA RestoredType ==
  ASSUME TypeOK, RecoverApproval
  PROVE  completed' \in Seq(Step)
<1>1. order \in Seq(Step)
  BY DEF TypeOK, StoreTypeOK
<1>2. IsFiniteSet(CommittedAt)
  <2>1. CommittedAt \subseteq 1..Len(order)
    BY <1>1 DEF CommittedAt
  <2>2. 1 \in Int /\ Len(order) \in Int
    BY <1>1
  <2>3. IsFiniteSet(1..Len(order))
    BY <2>2, FS_Interval
  <2> QED
    BY <2>1, <2>3, FS_Subset
<1>3. PICK f \in [1..Cardinality(CommittedAt) -> CommittedAt] :
        completed' = [i \in DOMAIN f |-> order[f[i]]]
  BY DEF RecoverApproval
<1>4. Cardinality(CommittedAt) \in Nat
  BY <1>2, FS_CardinalityType
<1>5. \A i \in DOMAIN f : order[f[i]] \in Step
  BY <1>1, <1>3 DEF CommittedAt
<1> QED
  BY <1>3, <1>4, <1>5

(* Every step of recovery keeps the types.                                 *)
LEMMA RecoveryType ==
  ASSUME TypeOK, RecoveryOK, Recovery
  PROVE  TypeOK'
<1> USE DEF TypeOK, StoreTypeOK, storeVars, memVars, threadVars, recVars,
   worldVars, envVars
<1>1. CASE RecoverNothing
  BY <1>1 DEF RecoverNothing, Serve, RecoveryGone, ThreadPC, RecoveryPC,
     EffectState
<1>2. CASE RecoverApproval
  BY <1>2, RestoredType DEF RecoverApproval, Serve, RecoveryGone, RecoveryPC,
     SagaStatus
<1>3. CASE RecoverBegin
  BY <1>3 DEF RecoverBegin, Proceed, ThreadPC, RecoveryPC, EffectState
<1>4. CASE RecoverDone
  BY <1>4 DEF RecoverDone, WriteStatus, Serve, RecoveryGone, ThreadPC,
     RecoveryPC, EffectState, SagaStatus
<1>5. CASE RecoverSkip
  BY <1>5 DEF RecoverSkip, Examining, Proceed, ThreadPC, RecoveryPC
<1>6. CASE RecoverKeepFailed
  BY <1>6 DEF RecoverKeepFailed, Examining, Proceed, ThreadPC, RecoveryPC
<1>7. CASE RecoverPrepared
  <2>1. rcur - 1 \in Nat
    BY <1>7 DEF RecoverPrepared, Examining, RecoveryOK
  <2> QED
    BY <1>7, <2>1, RecoverMoveType DEF RecoverPrepared, EffectState,
       RecoveryPC
<1>8. CASE RecoverResolve
  <2>1. PICK a \in ForwardAnswer(Examined) :
          Proceed(a[1], rcur) /\ hits' = [hits EXCEPT ![Examined] = a[2]]
    BY <1>8 DEF RecoverResolve
  <2>2. a[1] \in RecoveryPC /\ a[2] \in Nat
    BY <1>8, ExaminedType DEF ForwardAnswer, RecoverResolve, Examining,
       RecoveryPC
  <2> QED
    BY <1>8, <2>1, <2>2 DEF RecoverResolve, Proceed
<1>9. CASE RecoverAbsent
  <2>1. rcur - 1 \in Nat
    BY <1>9 DEF RecoverAbsent, Examining, RecoveryOK
  <2> QED
    BY <1>9, <2>1, RecoverMoveType DEF RecoverAbsent, EffectState, RecoveryPC
<1>10. CASE RecoverPresent
  BY <1>10, RecoverPresentType
<1>11. CASE RecoverUnknown
  <2>1. CASE snap[Examined] = "EXECUTING"
    BY <1>11, <2>1, RecoverMoveType DEF RecoverUnknown, EffectState,
       RecoveryPC
  <2>2. CASE snap[Examined] # "EXECUTING"
    BY <1>11, <2>2 DEF RecoverUnknown, Proceed, RecoveryPC
  <2> QED
    BY <2>1, <2>2
<1>12. CASE RecoverMark
  BY <1>12, RecoverMoveType DEF RecoverMark, EffectState, RecoveryPC
<1>13. CASE RecoverInterrupted
  <2>1. PICK where \in BackwardAnswer(Examined) : Proceed(where, rcur)
    BY <1>13 DEF RecoverInterrupted
  <2>2. where \in RecoveryPC
    BY DEF BackwardAnswer, RecoveryPC
  <2> QED
    BY <1>13, <2>1, <2>2 DEF RecoverInterrupted, Proceed
<1>14. CASE RecoverUndo
  <2>1. Examined \in Step
    BY <1>14, ExaminedType DEF RecoverUndo, RecoveryOK
  <2>2. undos' \in [Step -> Nat]
    BY <1>14, <2>1 DEF RecoverUndo
  <2> QED
    BY <1>14, <2>2 DEF RecoverUndo, Proceed, RecoveryPC
<1>15. CASE RecoverUndone
  <2>1. rcur - 1 \in Nat
    BY <1>15 DEF RecoverUndone, Examining, RecoveryOK
  <2> QED
    BY <1>15, <2>1, RecoverMoveType DEF RecoverUndone, EffectState, RecoveryPC
<1>16. CASE RecoverGiveUp
  BY <1>16, RecoverMoveType DEF RecoverGiveUp, EffectState, RecoveryPC
<1>17. CASE RecoverFailStatus
  BY <1>17 DEF RecoverFailStatus, WriteStatus, Proceed, ThreadPC, RecoveryPC,
     SagaStatus
<1>18. CASE RecoverDeadLetter
  <2>1. Examined \in Step
    BY <1>18, ExaminedType DEF RecoverDeadLetter, RecoveryOK
  <2>2. dead' \subseteq Step
    BY <1>18, <2>1 DEF RecoverDeadLetter, PushDeadLetter
  <2> QED
    BY <1>18, <2>2 DEF RecoverDeadLetter, PushDeadLetter, Serve, RecoveryGone,
       RecoveryPC
<1> QED
  BY <1>1, <1>2, <1>3, <1>4, <1>5, <1>6, <1>7, <1>8, <1>9, <1>10, <1>11,
     <1>12, <1>13, <1>14, <1>15, <1>16, <1>17, <1>18 DEF Recovery

(* Recovery leaves threads and journal order alone, and ends by serving.   *)
LEMMA RecoveryFrame ==
  ASSUME Recovery
  PROVE  /\ rpc # "off"
         /\ UNCHANGED <<pc, todo, cursor, doubt, order>>
         /\ rpc' = "off" \/ UNCHANGED proc
BY DEF Recovery, RecoverNothing, RecoverApproval, RecoverBegin, RecoverDone,
   RecoverSkip, RecoverKeepFailed, RecoverPrepared, RecoverResolve,
   RecoverAbsent, RecoverPresent, RecoverUnknown, RecoverMark,
   RecoverInterrupted, RecoverUndo, RecoverUndone, RecoverGiveUp,
   RecoverFailStatus, RecoverDeadLetter, RecoverMove, CanMove, MoveEffect,
   WriteStatus, PushDeadLetter, Serve, RecoveryGone, Proceed, Examining,
   storeVars, threadVars, worldVars, memVars, envVars

(* How recovery moves a journal record.                                    *)
LEMMA RecoveryJournal ==
  ASSUME TypeOK, Recovery, NEW s \in Step
  PROVE  \/ effect'[s] = effect[s]
         \/ effect[s] = "PREPARED" /\ effect'[s] = "ABORTED"
         \/ /\ effect[s] \in {"EXECUTING", "AMBIGUOUS"}
            /\ effect'[s] \in {"APPLIED", "ABORTED", "AMBIGUOUS"}
         \/ /\ effect[s] \in {"APPLIED", "COMMITTED"}
            /\ effect'[s] = "COMPENSATING"
         \/ effect[s] = "COMPENSATING" /\ effect'[s] \in Reversing
BY DEF Recovery, RecoverNothing, RecoverApproval, RecoverBegin, RecoverDone,
   RecoverSkip, RecoverKeepFailed, RecoverPrepared, RecoverResolve,
   RecoverAbsent, RecoverPresent, RecoverUnknown, RecoverMark,
   RecoverInterrupted, RecoverUndo, RecoverUndone, RecoverGiveUp,
   RecoverFailStatus, RecoverDeadLetter, RecoverMove, CanMove, MoveEffect,
   WriteStatus, PushDeadLetter, Serve, RecoveryGone, Proceed, Examining,
   storeVars, threadVars, worldVars, memVars, envVars, TypeOK, StoreTypeOK,
   Reversing

(* No step of recovery returns a record to where nothing was done.         *)
LEMMA RecoveryMonotone ==
  ASSUME TypeOK, Recovery, NEW s \in Step
  PROVE  /\ effect[s] \notin Untouched => effect'[s] \notin Untouched
         /\ effect[s] \in Reversing => effect'[s] \in Reversing
BY RecoveryJournal DEF Untouched, Reversing

(* When recovery touches the world, and that it leaves the journal alone   *)
(* then.                                                                   *)
LEMMA RecoveryWorld ==
  ASSUME TypeOK, RecoveryOK, Recovery, NEW s \in Step
  PROVE  /\ \/ hits'[s] = hits[s]
            \/ /\ s = Examined /\ snap[s] \in {"EXECUTING", "AMBIGUOUS"}
               /\ hits'[s] = 1 /\ effect' = effect
         /\ \/ undos'[s] = undos[s]
            \/ rpc = "undo" /\ s = Examined /\ effect' = effect
<1>1. CASE RecoverResolve
  <2>1. PICK a \in ForwardAnswer(Examined) :
          hits' = [hits EXCEPT ![Examined] = a[2]]
    BY <1>1 DEF RecoverResolve
  <2>2. Examined \in Step
    BY <1>1, ExaminedType DEF RecoverResolve, Examining
  <2>3. a[2] = hits[Examined] \/ a[2] = 1
    BY DEF ForwardAnswer
  <2> QED
    BY <1>1, <2>1, <2>2, <2>3 DEF RecoverResolve, Examining, storeVars, TypeOK
<1>2. CASE RecoverUndo
  BY <1>2 DEF RecoverUndo, storeVars, TypeOK
<1>3. CASE ~(RecoverResolve \/ RecoverUndo)
  BY <1>3 DEF Recovery, RecoverNothing, RecoverApproval, RecoverBegin,
     RecoverDone, RecoverSkip, RecoverKeepFailed, RecoverPrepared,
     RecoverAbsent, RecoverPresent, RecoverUnknown, RecoverMark,
     RecoverInterrupted, RecoverUndone, RecoverGiveUp, RecoverFailStatus,
     RecoverDeadLetter, RecoverMove, CanMove, MoveEffect, WriteStatus,
     PushDeadLetter, Serve, RecoveryGone, Proceed, Examining, storeVars,
     threadVars, worldVars, memVars, envVars
<1> QED
  BY <1>1, <1>2, <1>3

(* What recovery holds about a record changes only to what is in the       *)
(* store.                                                                  *)
LEMMA RecoverySnap ==
  ASSUME TypeOK, RecoveryOK, Recovery, NEW s \in Step
  PROVE  \/ snap'[s] = snap[s] \/ snap'[s] = "ABSENT"
         \/ snap'[s] = effect'[s]
<1>1. CASE RecoverPresent
  <2>1. Examined \in Step
    BY <1>1, ExaminedType DEF RecoverPresent, RecoveryOK
  <2> QED
    BY <1>1, <2>1 DEF RecoverPresent, CanMove, MoveEffect, Proceed, Serve,
       RecoveryGone, TypeOK, StoreTypeOK
<1>2. CASE ~RecoverPresent
  BY <1>2 DEF Recovery, RecoverNothing, RecoverApproval, RecoverBegin,
     RecoverDone, RecoverSkip, RecoverKeepFailed, RecoverPrepared,
     RecoverResolve, RecoverAbsent, RecoverUnknown, RecoverMark,
     RecoverInterrupted, RecoverUndo, RecoverUndone, RecoverGiveUp,
     RecoverFailStatus, RecoverDeadLetter, RecoverMove, CanMove, MoveEffect,
     WriteStatus, PushDeadLetter, Serve, RecoveryGone, Proceed, Examining,
     storeVars, threadVars, worldVars, memVars, envVars
<1> QED
  BY <1>1, <1>2

(* A transition that recovery asks the store for either takes it to its    *)
(* next place or ends recovery.                                            *)
LEMMA MoveCursor ==
  ASSUME NEW from, NEW new, NEW where, NEW i, RecoverMove(from, new, where, i)
  PROVE  \/ rpc' = where /\ rcur' = i
         \/ rpc' = "off" /\ rcur' = 0
BY DEF RecoverMove, Proceed, Serve, RecoveryGone

(* Recovery stays inside the journal.                                      *)
LEMMA RecoveryCursor ==
  ASSUME TypeOK, RecoveryOK, Recovery
  PROVE  /\ (rpc \in {"off", "list"} => rcur = 0)'
         /\ (rpc # "off" => rcur <= Len(order))'
         /\ (rpc \notin {"off", "list", "walk"} => rcur > 0)'
<1> DEFINE Ends == rpc' = "off" /\ rcur' = 0
           Stays == rcur' = rcur /\ rcur > 0 /\ rpc' \notin {"off", "list"}
           Descends == rcur' = rcur - 1 /\ rcur > 0 /\ rpc' = "walk"
<1>1. order' = order /\ rpc # "off"
  BY RecoveryFrame
<1>2. rcur \in Nat /\ Len(order) \in Nat /\ rcur <= Len(order)
  BY <1>1 DEF TypeOK, StoreTypeOK, RecoveryOK
<1>3. rpc \notin {"list", "walk"} => rcur > 0
  BY <1>1 DEF RecoveryOK
<1>4. Ends \/ Stays \/ Descends \/ (rcur' = Len(order) /\ rpc' = "walk")
  <2>1. CASE RecoverNothing \/ RecoverApproval \/ RecoverDone
    BY <2>1 DEF RecoverNothing, RecoverApproval, RecoverDone, Serve,
       RecoveryGone
  <2>2. CASE RecoverBegin
    BY <2>2 DEF RecoverBegin, Proceed
  <2>3. CASE RecoverSkip \/ RecoverKeepFailed
    BY <2>3 DEF RecoverSkip, RecoverKeepFailed, Examining, Proceed
  <2>4. CASE RecoverPrepared
    BY <2>4, MoveCursor DEF RecoverPrepared, Examining
  <2>5. CASE RecoverResolve
    <3>1. rpc' \in {"present", "absent", "unknown"}
      BY <2>5 DEF RecoverResolve, Proceed, ForwardAnswer
    <3> QED
      BY <2>5, <3>1 DEF RecoverResolve, Examining, Proceed
  <2>6. CASE RecoverAbsent
    BY <2>6, <1>3, MoveCursor DEF RecoverAbsent
  <2>7. CASE RecoverPresent
    BY <2>7, <1>3 DEF RecoverPresent, Proceed, Serve, RecoveryGone
  <2>8. CASE RecoverUnknown
    <3>1. rpc = "unknown" /\ rcur > 0
      BY <2>8, <1>3 DEF RecoverUnknown
    <3>2. CASE RecoverMove({"EXECUTING"}, "AMBIGUOUS", "failstatus", rcur)
      BY <3>1, <3>2, MoveCursor
    <3>3. CASE Proceed("failstatus", rcur)
      BY <3>1, <3>3 DEF Proceed
    <3> QED
      BY <2>8, <3>2, <3>3 DEF RecoverUnknown
  <2>9. CASE RecoverMark
    BY <2>9, MoveCursor DEF RecoverMark, Examining
  <2>10. CASE RecoverInterrupted
    <3>1. rpc' \in {"undone", "undo", "giveup"}
      BY <2>10 DEF RecoverInterrupted, Proceed, BackwardAnswer
    <3> QED
      BY <2>10, <3>1 DEF RecoverInterrupted, Examining, Proceed
  <2>11. CASE RecoverUndo
    BY <2>11, <1>3 DEF RecoverUndo, Proceed
  <2>12. CASE RecoverUndone
    BY <2>12, <1>3, MoveCursor DEF RecoverUndone
  <2>13. CASE RecoverGiveUp
    BY <2>13, <1>3, MoveCursor DEF RecoverGiveUp
  <2>14. CASE RecoverFailStatus
    BY <2>14, <1>3 DEF RecoverFailStatus, Proceed
  <2>15. CASE RecoverDeadLetter
    BY <2>15 DEF RecoverDeadLetter, Serve, RecoveryGone
  <2> QED
    BY <2>1, <2>2, <2>3, <2>4, <2>5, <2>6, <2>7, <2>8, <2>9, <2>10, <2>11,
       <2>12, <2>13, <2>14, <2>15 DEF Recovery
<1>5. CASE Ends
  BY <1>5
<1>6. CASE Stays
  BY <1>1, <1>2, <1>6
<1>7. CASE Descends
  BY <1>1, <1>2, <1>7
<1>8. CASE rcur' = Len(order) /\ rpc' = "walk"
  BY <1>1, <1>2, <1>8
<1> QED
  BY <1>4, <1>5, <1>6, <1>7, <1>8

(* Recovery about to run a compensation has marked it.                     *)
LEMMA RecoveryUndo ==
  ASSUME TypeOK, RecoveryOK, Recovery, rpc' = "undo"
  PROVE  (effect[Examined] \in Reversing)'
<1>1. Examined' = Examined /\ rcur > 0
  BY DEF Recovery, RecoverNothing, RecoverApproval, RecoverBegin, RecoverDone,
     RecoverSkip, RecoverKeepFailed, RecoverPrepared, RecoverResolve,
     RecoverAbsent, RecoverPresent, RecoverUnknown, RecoverMark,
     RecoverInterrupted, RecoverUndo, RecoverUndone, RecoverGiveUp,
     RecoverFailStatus, RecoverDeadLetter, RecoverMove, CanMove, MoveEffect,
     WriteStatus, PushDeadLetter, Serve, RecoveryGone, Proceed, Examining,
     storeVars, threadVars, worldVars, memVars, envVars, Examined, RecoveryOK
<1>2. Examined \in Step
  BY <1>1, ExaminedType DEF Recovery, RecoverNothing, RecoverApproval,
     RecoverBegin, RecoverDone, RecoverSkip, RecoverKeepFailed,
     RecoverPrepared, RecoverResolve, RecoverAbsent, RecoverPresent,
     RecoverUnknown, RecoverMark, RecoverInterrupted, RecoverUndo,
     RecoverUndone, RecoverGiveUp, RecoverFailStatus, RecoverDeadLetter,
     Examining
<1>3. CASE RecoverMark
  BY <1>1, <1>2, <1>3 DEF RecoverMark, RecoverMove, CanMove, MoveEffect,
     Serve, RecoveryGone, TypeOK, StoreTypeOK, Reversing
<1>4. CASE RecoverInterrupted
  BY <1>1, <1>2, <1>4 DEF RecoverInterrupted, Examining, RecoveryOK, storeVars
<1>5. CASE RecoverResolve
  BY <1>5 DEF RecoverResolve, ForwardAnswer, Proceed
<1>6. CASE ~(RecoverMark \/ RecoverInterrupted \/ RecoverResolve)
  BY <1>6 DEF Recovery, RecoverNothing, RecoverApproval, RecoverBegin,
     RecoverDone, RecoverSkip, RecoverKeepFailed, RecoverPrepared,
     RecoverAbsent, RecoverPresent, RecoverUnknown, RecoverUndo,
     RecoverUndone, RecoverGiveUp, RecoverFailStatus, RecoverDeadLetter,
     RecoverMove, Serve, RecoveryGone, Proceed
<1> QED
  BY <1>3, <1>4, <1>5, <1>6

(* Every step of recovery keeps the inductive invariant.                   *)
LEMMA RecoveryStep ==
  ASSUME SafeInv, Recovery
  PROVE  SafeInv'
<1>1. TypeOK /\ RecoveryOK /\ ProcessOK
  BY DEF SafeInv
<1>2. TypeOK'
  BY <1>1, RecoveryType
<1>3. rpc # "off" /\ UNCHANGED <<pc, todo, cursor, doubt, order>>
  BY RecoveryFrame
<1>4. ASSUME NEW t \in Thread
      PROVE  (pc[t] = "idle" /\ ~doubt[t])'
  <2>1. pc[t] = "idle"
    BY <1>1, <1>3 DEF ProcessOK
  <2> QED
    BY <1>3, <2>1 DEF SafeInv, OwnerOK, SureOK, SurePC
<1>5. ProcessOK'
  BY <1>1, <1>3, <1>4, RecoveryFrame DEF ProcessOK
<1>6. ASSUME NEW t \in Thread
      PROVE  PositionOK(t)' /\ OwnerOK(t)' /\ UndoOK(t)'
  BY <1>4 DEF PositionOK, OwnerOK, SureOK, UndoOK, Owns, StepPC, UndoPC, SurePC,
     DoubtPC
<1>7. OneOwner'
  BY <1>4 DEF OneOwner, Owns
<1>8. ASSUME NEW s \in Step
      PROVE  EffectOK(s)'
  <2>1. EffectOK(s) /\ hits[s] \in Nat /\ hits'[s] \in Nat
    BY <1>2 DEF SafeInv, TypeOK
  <2>2. CASE hits'[s] = hits[s] /\ undos'[s] = undos[s]
    BY <1>1, <2>1, <2>2, RecoveryMonotone DEF EffectOK
  <2>3. CASE /\ s = Examined /\ snap[s] \in {"EXECUTING", "AMBIGUOUS"}
             /\ hits'[s] = 1 /\ effect' = effect /\ undos'[s] = undos[s]
    BY <1>1, <2>1, <2>3 DEF EffectOK, RecoveryOK, Untouched
  <2>4. CASE /\ rpc = "undo" /\ s = Examined /\ effect' = effect
             /\ hits'[s] = hits[s]
    BY <1>1, <2>1, <2>4 DEF EffectOK, RecoveryOK
  <2>5. CASE /\ rpc = "undo"
             /\ s = Examined
             /\ snap[s] \in {"EXECUTING", "AMBIGUOUS"}
             /\ hits'[s] = 1 /\ effect' = effect
    BY <1>1, <2>1, <2>5 DEF EffectOK, RecoveryOK, Untouched
  <2> QED
    BY <1>1, <2>2, <2>3, <2>4, <2>5, RecoveryWorld
<1>9. RecoveryOK'
  <2>1. ASSUME NEW s \in Step
        PROVE  /\ (snap[s] \notin Untouched => effect[s] \notin Untouched)'
               /\ (snap[s] = "COMPENSATING" => effect[s] \in Reversing)'
    BY <1>1, RecoverySnap, RecoveryMonotone DEF RecoveryOK, Untouched,
       Reversing
  <2> QED
    BY <1>1, <2>1, RecoveryCursor, RecoveryUndo DEF RecoveryOK
<1> QED
  BY <1>2, <1>5, <1>6, <1>7, <1>8, <1>9 DEF SafeInv

-----------------------------------------------------------------------------
(* A crash keeps the types.                                                *)
LEMMA CrashType ==
  ASSUME TypeOK, Crash
  PROVE  TypeOK'
<1>1. pc' \in [Thread -> ThreadPC] /\ todo' \in [Thread -> Seq(Step)]
  BY DEF Crash, ThreadPC
<1>2. completed' \in Seq(Step) /\ pending' \in Seq(Step) /\ crashes' \in Nat
  BY DEF Crash, TypeOK
<1>3. StoreTypeOK'
  BY DEF Crash, TypeOK, StoreTypeOK, storeVars
<1> QED
  BY <1>1, <1>2, <1>3 DEF Crash, RecoveryGone, RecoveryPC, SagaStatus, TypeOK,
     worldVars

(* The arrival of a request, a crash and a restart keep the types.         *)
LEMMA RequestType ==
  ASSUME TypeOK, Start \/ (\E t \in Thread : Request(t)) \/ Crash \/ Restart
  PROVE  TypeOK'
<1> USE KeyAssumption, CoordinatorAssumption
<1> USE DEF TypeOK, StoreTypeOK, storeVars, memVars, threadVars, recVars,
   worldVars, envVars, Goto
<1>1. CASE Start
  BY <1>1 DEF Start, WriteStatus, SagaStatus
<1>2. ASSUME NEW t \in Thread, NEW b \in Batch, Submit(t, b)
      PROVE  TypeOK'
  BY <1>2 DEF Submit, ThreadPC
<1>3. ASSUME NEW t \in Thread, Approve(t)
      PROVE  TypeOK'
  BY <1>3 DEF Approve, ThreadPC
<1>4. ASSUME NEW t \in Thread, Reject(t)
      PROVE  TypeOK'
  BY <1>4 DEF Reject, ThreadPC
<1>5. CASE Crash
  BY <1>5, CrashType DEF Crash
<1>6. CASE Restart
  BY <1>6 DEF Restart, RecoveryPC
<1> QED
  BY <1>1, <1>2, <1>3, <1>4, <1>5, <1>6 DEF Request

(* The arrival of a request, a crash and a restart keep the inductive      *)
(* invariant.                                                              *)
LEMMA RequestStep ==
  ASSUME SafeInv, Start \/ (\E t \in Thread : Request(t)) \/ Crash \/ Restart
  PROVE  SafeInv'
<1>1. TypeOK /\ RecoveryOK /\ ProcessOK
  BY DEF SafeInv
<1>2. TypeOK'
  BY <1>1, RequestType
<1>3. UNCHANGED <<effect, order, hits, undos>>
  BY DEF Start, Request, Submit, Approve, Reject, Crash, Restart, WriteStatus,
     storeVars, worldVars
<1>4. \A s \in Step : EffectOK(s)'
  BY <1>3 DEF SafeInv, EffectOK
<1>5. CASE Start
  <2>1. UNCHANGED <<proc, completed, threadVars, recVars>>
    BY <1>5 DEF Start, envVars
  <2>2. \A t \in Thread : PositionOK(t)' /\ OwnerOK(t)' /\ UndoOK(t)'
    BY <1>3, <2>1 DEF SafeInv, PositionOK, OwnerOK, SureOK, UndoOK, Owns, Current,
       Undoing, threadVars
  <2>3. OneOwner' /\ ProcessOK' /\ RecoveryOK'
    BY <1>3, <2>1 DEF SafeInv, OneOwner, ProcessOK, RecoveryOK, Owns, Current,
       Examined, threadVars, recVars
  <2> QED
    BY <1>2, <1>4, <2>2, <2>3 DEF SafeInv
<1>6. ASSUME NEW t \in Thread, Request(t)
      PROVE  SafeInv'
  <2>1. proc = "up" /\ pc[t] = "idle" /\ ~doubt[t]
    BY <1>6 DEF Request, Submit, Approve, Reject, SafeInv, OwnerOK, SureOK, SurePC
  <2>2. UNCHANGED <<proc, completed, cursor, doubt, recVars>>
    BY <1>6 DEF Request, Submit, Approve, Reject, memVars, envVars
  <2>3. pc'[t] \in {"check", "approve", "rejecting"}
    BY <1>6 DEF Request, Submit, Approve, Reject, Goto, TypeOK, SafeInv
  <2>4. \A u \in Thread \ {t} : pc'[u] = pc[u] /\ todo'[u] = todo[u]
    BY <1>6 DEF Request, Submit, Approve, Reject, Goto, TypeOK, SafeInv
  <2>5. ASSUME NEW u \in Thread
        PROVE  PositionOK(u)' /\ OwnerOK(u)' /\ UndoOK(u)'
    <3>1. CASE u = t
      BY <2>1, <2>2, <2>3, <3>1 DEF PositionOK, OwnerOK, SureOK, UndoOK, Owns, StepPC,
         UndoPC, SurePC, DoubtPC
    <3>2. CASE u # t
      BY <1>3, <2>2, <2>4, <3>2 DEF SafeInv, PositionOK, OwnerOK, SureOK, UndoOK,
         Owns, Current, Undoing
    <3> QED
      BY <3>1, <3>2
  <2>6. OneOwner'
    BY <2>1, <2>2, <2>4 DEF SafeInv, OneOwner, Owns, Current
  <2>7. ProcessOK' /\ RecoveryOK'
    BY <1>3, <2>1, <2>2, <2>4 DEF SafeInv, ProcessOK, RecoveryOK, Examined,
       recVars
  <2> QED
    BY <1>2, <1>4, <2>5, <2>6, <2>7 DEF SafeInv
<1>7. CASE Crash \/ Restart
  <2>1. ASSUME NEW t \in Thread
        PROVE  pc'[t] = "idle" /\ ~doubt'[t]
    <3>1. CASE Crash
      BY <3>1 DEF Crash
    <3>2. CASE Restart
      BY <1>1, <3>2 DEF Restart, ProcessOK, SafeInv, OwnerOK, SureOK, SurePC,
         threadVars
    <3> QED
      BY <1>7, <3>1, <3>2
  <2>2. ASSUME NEW t \in Thread
        PROVE  PositionOK(t)' /\ OwnerOK(t)' /\ UndoOK(t)'
    BY <2>1 DEF PositionOK, OwnerOK, SureOK, UndoOK, Owns, StepPC, UndoPC, SurePC,
       DoubtPC
  <2>3. OneOwner' /\ ProcessOK'
    BY <1>7, <2>1 DEF OneOwner, Owns, ProcessOK, Crash, Restart, RecoveryGone
  <2>4. RecoveryOK'
    <3>1. CASE Crash
      BY <1>3, <3>1 DEF Crash, RecoveryGone, RecoveryOK, Untouched
    <3>2. CASE Restart
      <4>1. rcur = 0 /\ rpc = "off"
        BY <1>1, <3>2 DEF Restart, RecoveryOK, ProcessOK
      <4>2. Len(order) \in Nat
        BY <1>1 DEF TypeOK, StoreTypeOK
      <4> QED
        BY <1>1, <1>3, <3>2, <4>1, <4>2 DEF Restart, RecoveryOK
    <3> QED
      BY <1>7, <3>1, <3>2
  <2> QED
    BY <1>2, <1>4, <2>2, <2>3, <2>4 DEF SafeInv
<1> QED
  BY <1>5, <1>6, <1>7

(* The inductive invariant holds initially.                                *)
LEMMA SafeInit ==
  ASSUME Init
  PROVE  SafeInv
<1>1. TypeOK
  <2>1. StoreTypeOK
    BY DEF Init, StoreInit, StoreTypeOK
  <2>2. /\ pc \in [Thread -> ThreadPC] /\ todo \in [Thread -> Seq(Step)]
        /\ cursor \in [Thread -> Nat] /\ doubt \in [Thread -> BOOLEAN]
    BY DEF Init, ThreadPC
  <2>3. /\ snap \in [Step -> EffectState \cup {"ABSENT"}]
        /\ hits \in [Step -> Nat] /\ undos \in [Step -> Nat]
    BY DEF Init
  <2>4. /\ completed \in Seq(Step) /\ pending \in Seq(Step)
        /\ approved \subseteq Step /\ submitted \subseteq Batch
        /\ memStatus \in SagaStatus /\ rpc \in RecoveryPC
    BY DEF Init, SagaStatus, RecoveryPC
  <2> QED
    BY <2>1, <2>2, <2>3, <2>4 DEF Init, TypeOK
<1> QED
  BY <1>1 DEF Init, StoreInit, SafeInv, ProcessOK, PositionOK, OwnerOK, SureOK,
     UndoOK, OneOwner, Owns, EffectOK, RecoveryOK, StepPC, UndoPC, SurePC,
     DoubtPC, Untouched

(* It is inductive.                                                        *)
LEMMA SafeNext ==
  ASSUME SafeInv, [Next]_vars
  PROVE  SafeInv'
<1>1. CASE Next
  BY <1>1, WorkStep, RecoveryStep, RequestStep DEF Next
<1>2. CASE UNCHANGED vars
  BY <1>2 DEF vars, storeVars, memVars, threadVars, recVars, worldVars,
     envVars, SafeInv, TypeOK, StoreTypeOK, ProcessOK, PositionOK, OwnerOK, SureOK,
     UndoOK, OneOwner, Owns, EffectOK, RecoveryOK, Current, Undoing, Examined
<1> QED
  BY <1>1, <1>2

(* The inductive invariant holds of every run: for every set of threads,   *)
(* steps, keys and batches, every sandbox and any number of crashes.       *)
THEOREM SafeInvHolds == Spec => []SafeInv
<1>1. Init => SafeInv
  BY SafeInit
<1>2. SafeInv /\ [Next]_vars => SafeInv'
  BY SafeNext
<1> QED
  BY <1>1, <1>2, PTL DEF Spec

(* Type correctness.                                                       *)
THEOREM TypeCorrect == Spec => []TypeOK
<1>1. SafeInv => TypeOK
  BY DEF SafeInv
<1> QED
  BY <1>1, SafeInvHolds, PTL

(* The compare-and-set of the journal lets each forward effect take place  *)
(* at most once, with any number of request threads, resubmissions and     *)
(* crashes.                                                                *)
THEOREM AtMostOnceHolds == Spec => []AtMostOnce
<1>1. SafeInv => AtMostOnce
  BY DEF SafeInv, EffectOK, AtMostOnce
<1> QED
  BY <1>1, SafeInvHolds, PTL

(* Write-ahead: no tool call and no compensation takes place before the    *)
(* journal says that it may.                                               *)
THEOREM IntentHolds == Spec => []IntentBeforeEffect
<1>1. SafeInv => IntentBeforeEffect
  BY DEF SafeInv, TypeOK, EffectOK, IntentBeforeEffect, Untouched, Reversing
<1> QED
  BY <1>1, SafeInvHolds, PTL

-----------------------------------------------------------------------------
(***************************************************************************)
(* The other fronts: what survives when two processes work on one store,   *)
(* and when a Temporal activity is run again.  A server that recovers a    *)
(* live saga takes EXECUTING effects from their owners, so SafeInv does    *)
(* not hold; what holds is that a tool is called by the thread alone that  *)
(* left PREPARED.                                                          *)
(***************************************************************************)

(* A thread about to call the tool is the first to do so.                  *)
CallOK(t) ==
  pc[t] = "execute" =>
    hits[Current(t)] = 0 /\ effect[Current(t)] \notin Untouched

(* ... and the only one.                                                   *)
OneCaller ==
  \A t1, t2 \in Thread :
    pc[t1] = "execute" /\ pc[t2] = "execute" /\ Current(t1) = Current(t2)
      => t1 = t2

(* The inductive invariant of a store that a second process recovers.      *)
PeerInv ==
  /\ TypeOK
  /\ \A t \in Thread : PositionOK(t) /\ SureOK(t) /\ UndoOK(t) /\ CallOK(t)
  /\ OneCaller
  /\ \A s \in Step : EffectOK(s)
  /\ RecoveryOK
  /\ hook # "idempotent"

(* The journal grows at its end only.                                      *)
LEMMA PeerWorkOrder ==
  ASSUME TypeOK, NEW t \in Thread, PositionOK(t), Work(t)
  PROVE  /\ Len(order') >= Len(order)
         /\ \A i \in 1..Len(order) : order'[i] = order[i]
<1>1. order \in Seq(Step)
  BY DEF TypeOK, StoreTypeOK
<1>2. CASE order' = order
  BY <1>1, <1>2
<1>3. CASE Prepare(t) /\ order' = Append(order, Current(t))
  <2>1. Current(t) \in Step
    BY <1>3, CurrentType DEF Prepare, StepPC
  <2> QED
    BY <1>1, <1>3, <2>1, AppendProperties
<1>4. order' = order \/ (Prepare(t) /\ order' = Append(order, Current(t)))
  BY DEF Work, ReadPending, TakeNothing, TakePending, Resume, Rejecting, SkipCommitted, RejectStep,
     HoldForApproval, Await, AdmitStep, Prepare, MarkExecuting, Execute,
     RecordApplied, RecordAborted, AppendCompleted, CommitStep, FinishSteps,
     Finish, Rollback, PickEffect, MarkCompensating, Undo, RecordCompensated,
     CompensationsDone, Close, Fail, FailStatus, FailEffect, FailDead,
     MarkAmbiguous, AmbiguousStatus, AmbiguousDead, CanMove, MoveEffect,
     PrepareEffect, PublishCommit, WriteStatus, WriteStatusHolding,
     PushDeadLetter, storeVars
<1> QED
  BY <1>2, <1>3, <1>4

(* Without execute_idempotent recovery calls no tool.                      *)
LEMMA RecoveryCallsNothing ==
  ASSUME TypeOK, RecoveryOK, Recovery, hook # "idempotent"
  PROVE  hits' = hits /\ hook' = hook
<1>1. CASE RecoverResolve
  <2>1. PICK a \in ForwardAnswer(Examined) :
          Proceed(a[1], rcur) /\ hits' = [hits EXCEPT ![Examined] = a[2]]
    BY <1>1 DEF RecoverResolve
  <2>2. a[2] = hits[Examined]
    BY DEF ForwardAnswer
  <2>3. hits \in [Step -> Nat]
    BY DEF TypeOK
  <2> QED
    BY <2>1, <2>2, <2>3 DEF Proceed, envVars
<1>2. CASE ~RecoverResolve
  BY <1>2 DEF Recovery, RecoverNothing, RecoverApproval, RecoverBegin,
     RecoverDone, RecoverSkip, RecoverKeepFailed, RecoverPrepared,
     RecoverAbsent, RecoverPresent, RecoverUnknown, RecoverMark,
     RecoverInterrupted, RecoverUndo, RecoverUndone, RecoverGiveUp,
     RecoverFailStatus, RecoverDeadLetter, RecoverMove, Serve, RecoveryGone,
     Proceed, Examining, worldVars, envVars
<1> QED
  BY <1>1, <1>2

(* A step of a request keeps the invariant while recovery is under way.    *)
LEMMA PeerWork ==
  ASSUME PeerInv, NEW t \in Thread, Work(t)
  PROVE  PeerInv'
<1>1. /\ TypeOK /\ RecoveryOK /\ PositionOK(t) /\ SureOK(t) /\ UndoOK(t)
      /\ CallOK(t) /\ \A s \in Step : EffectOK(s)
  BY DEF PeerInv
<1>2. TypeOK'
  BY <1>1, WorkType
<1>3. UNCHANGED <<rpc, rcur, snap, hook>>
  BY <1>1, WorkFrame
<1>4. ASSUME NEW u \in Thread \ {t}
      PROVE  /\ pc'[u] = pc[u] /\ todo'[u] = todo[u]
             /\ cursor'[u] = cursor[u] /\ doubt'[u] = doubt[u]
             /\ Current(u)' = Current(u)
             /\ PositionOK(u) /\ SureOK(u) /\ UndoOK(u) /\ CallOK(u)
  BY <1>1, <1>4, WorkFrame DEF Current, PeerInv
<1>5. ASSUME NEW u \in Thread
      PROVE  PositionOK(u)'
  <2>1. CASE u = t
    BY <1>1, <2>1, WorkPosition
  <2>2. CASE u # t
    <3>1. Len(completed') >= Len(completed)
      BY <1>1, WorkGrows
    <3>2. cursor[u] \in Nat
      BY <1>1 DEF TypeOK
    <3> QED
      BY <1>1, <1>2, <1>4, <2>2, <3>1, <3>2, SMTT(40) DEF PositionOK, TypeOK
  <2> QED
    BY <2>1, <2>2
<1>6. ASSUME NEW u \in Thread
      PROVE  SureOK(u)'
  <2>1. CASE u = t
    BY <1>1, <2>1, WorkSure DEF SureOK
  <2>2. CASE u # t
    BY <1>4, <2>2 DEF SureOK
  <2> QED
    BY <2>1, <2>2
<1>7. ASSUME NEW u \in Thread
      PROVE  UndoOK(u)'
  <2>1. CASE u = t
    BY <1>1, <2>1, WorkUndo DEF UndoOK
  <2>2. CASE u # t /\ pc[u] = "undo"
    <3>1. Undoing(u) \in Step /\ cursor[u] \in 1..Len(completed)
      BY <1>1, <1>4, <2>2, UndoingType DEF UndoPC
    <3>2. Undoing(u)' = Undoing(u)
      BY <1>1, <1>4, <2>2, <3>1, WorkGrows DEF Undoing
    <3> QED
      BY <1>1, <1>4, <2>2, <3>1, <3>2, WorkMonotone DEF UndoOK
  <2>3. CASE u # t /\ pc[u] # "undo"
    BY <1>4, <2>3 DEF UndoOK
  <2> QED
    BY <2>1, <2>2, <2>3
<1>8. ASSUME NEW u \in Thread, u # t, pc[u] = "execute"
      PROVE  /\ Current(u) \in Step
             /\ hits[Current(u)] = 0 /\ effect[Current(u)] \notin Untouched
             /\ pc[t] = "execute" => Current(t) # Current(u)
  <2>1. Current(u) \in Step
    BY <1>1, <1>4, <1>8, CurrentType DEF StepPC
  <2> QED
    BY <1>4, <1>8, <2>1 DEF CallOK, PeerInv, OneCaller
<1>9. ASSUME NEW u \in Thread
      PROVE  CallOK(u)'
  <2>1. CASE u = t
    BY <1>1, <2>1, WorkExecute DEF CallOK, Untouched
  <2>2. CASE u # t
    BY <1>1, <1>4, <1>8, <2>2, WorkWorld, WorkMonotone DEF CallOK
  <2> QED
    BY <2>1, <2>2
<1>10. OneCaller'
  <2> SUFFICES ASSUME NEW u \in Thread, u # t, pc'[t] = "execute",
                      pc[u] = "execute", Current(t)' = Current(u)
               PROVE  FALSE
    BY <1>4 DEF PeerInv, OneCaller
  <2>1. effect[Current(u)] = "PREPARED"
    BY <1>1, WorkExecute
  <2> QED
    BY <1>8, <2>1 DEF Untouched
<1>11. ASSUME NEW s \in Step
       PROVE  EffectOK(s)'
  <2>1. EffectOK(s) /\ hits[s] \in Nat /\ hits'[s] \in Nat
    BY <1>1, <1>2 DEF TypeOK
  <2>2. CASE hits'[s] = hits[s] /\ undos'[s] = undos[s]
    BY <1>1, <2>1, <2>2, WorkMonotone DEF EffectOK
  <2>3. CASE /\ pc[t] = "execute"
             /\ s = Current(t)
             /\ hits'[s] = hits[s] + 1
             /\ effect' = effect
    <3>1. undos'[s] = undos[s]
      BY <1>1, <2>3, WorkWorld
    <3> QED
      BY <1>1, <2>1, <2>3, <3>1 DEF EffectOK, CallOK
  <2>4. CASE pc[t] = "undo" /\ s = Undoing(t) /\ effect' = effect
    <3>1. effect[s] \in Reversing
      BY <1>1, <2>4 DEF UndoOK
    <3>2. hits'[s] = hits[s]
      BY <1>1, <2>4, WorkWorld
    <3> QED
      BY <2>1, <2>4, <3>1, <3>2 DEF EffectOK
  <2> QED
    BY <1>1, <2>2, <2>3, <2>4, WorkWorld
<1>12. RecoveryOK'
  <2>1. ASSUME NEW s \in Step
        PROVE  /\ (snap[s] \notin Untouched => effect[s] \notin Untouched)'
               /\ (snap[s] = "COMPENSATING" => effect[s] \in Reversing)'
    BY <1>1, <1>3, WorkMonotone DEF RecoveryOK
  <2>2. rcur \in Nat /\ Len(order) \in Nat /\ Len(order') \in Nat
    BY <1>1, <1>2 DEF TypeOK, StoreTypeOK
  <2>3. (rpc # "off" => rcur <= Len(order))'
    BY <1>1, <1>3, <2>2, PeerWorkOrder DEF RecoveryOK
  <2>4. ASSUME rpc = "undo"
        PROVE  effect'[Examined'] \in Reversing
    <3>1. rcur \in 1..Len(order) /\ effect[Examined] \in Reversing
      BY <1>1, <2>2, <2>4 DEF RecoveryOK
    <3>2. Examined' = Examined
      BY <1>1, <1>3, <3>1, PeerWorkOrder DEF Examined
    <3>3. Examined \in Step
      BY <1>1, <2>2, <2>4, <3>1, ExaminedType
    <3> QED
      BY <1>1, <3>1, <3>2, <3>3, WorkMonotone
  <2> QED
    BY <1>1, <1>3, <2>1, <2>3, <2>4 DEF RecoveryOK
<1> QED
  BY <1>2, <1>3, <1>5, <1>6, <1>7, <1>9, <1>10, <1>11, <1>12 DEF PeerInv

(* A step of the second process's recovery keeps the invariant while       *)
(* requests are under way.                                                 *)
LEMMA PeerRecovers ==
  ASSUME PeerInv, Recovery, UNCHANGED memVars
  PROVE  PeerInv'
<1>1. TypeOK /\ RecoveryOK /\ hook # "idempotent"
  BY DEF PeerInv
<1>2. TypeOK'
  BY <1>1, RecoveryType
<1>3. /\ UNCHANGED <<pc, todo, cursor, doubt, order, completed>>
      /\ hits' = hits /\ hook' = hook
  BY <1>1, RecoveryFrame, RecoveryCallsNothing DEF memVars
<1>4. ASSUME NEW t \in Thread
      PROVE  PositionOK(t)' /\ SureOK(t)'
  BY <1>3 DEF PeerInv, PositionOK, SureOK
<1>5. ASSUME NEW t \in Thread
      PROVE  UndoOK(t)' /\ CallOK(t)'
  <2>1. /\ PositionOK(t) /\ UndoOK(t) /\ CallOK(t)
        /\ Undoing(t)' = Undoing(t) /\ Current(t)' = Current(t)
    BY <1>3 DEF PeerInv, Undoing, Current
  <2>2. ASSUME pc[t] = "undo"
        PROVE  Undoing(t) \in Step
    BY <1>1, <2>1, <2>2, UndoingType DEF UndoPC
  <2>3. ASSUME pc[t] = "execute"
        PROVE  Current(t) \in Step
    BY <1>1, <2>1, <2>3, CurrentType DEF StepPC
  <2> QED
    BY <1>1, <1>3, <2>1, <2>2, <2>3, RecoveryMonotone DEF UndoOK, CallOK
<1>6. OneCaller'
  BY <1>3 DEF PeerInv, OneCaller, Current
<1>7. ASSUME NEW s \in Step
      PROVE  EffectOK(s)'
  <2>1. EffectOK(s)
    BY DEF PeerInv
  <2>2. CASE undos'[s] = undos[s]
    BY <1>1, <1>3, <2>1, <2>2, RecoveryMonotone DEF EffectOK
  <2>3. CASE rpc = "undo" /\ s = Examined /\ effect' = effect
    BY <1>1, <1>3, <2>1, <2>3 DEF EffectOK, RecoveryOK
  <2> QED
    BY <1>1, <2>2, <2>3, RecoveryWorld
<1>8. RecoveryOK'
  <2>1. ASSUME NEW s \in Step
        PROVE  /\ (snap[s] \notin Untouched => effect[s] \notin Untouched)'
               /\ (snap[s] = "COMPENSATING" => effect[s] \in Reversing)'
    BY <1>1, RecoverySnap, RecoveryMonotone DEF RecoveryOK, Untouched,
       Reversing
  <2> QED
    BY <1>1, <2>1, RecoveryCursor, RecoveryUndo DEF RecoveryOK
<1> QED
  BY <1>1, <1>2, <1>3, <1>4, <1>5, <1>6, <1>7, <1>8 DEF PeerInv

(* The arrival of a request, and the start and the end of the second       *)
(* process's recovery, keep the invariant.                                 *)
LEMMA PeerArrives ==
  ASSUME PeerInv,
         Start \/ (\E t \in Thread : Request(t)) \/ PeerStart \/ PeerRestores
  PROVE  PeerInv'
<1>1. TypeOK /\ RecoveryOK
  BY DEF PeerInv
<1>2. UNCHANGED <<effect, order, hits, undos, completed, cursor, doubt, hook>>
  BY DEF Start, Request, Submit, Approve, Reject, PeerStart, PeerRestores,
     Serve, WriteStatus, storeVars, worldVars, memVars, threadVars, envVars
<1>3. TypeOK'
  <2>1. CASE Start \/ \E t \in Thread : Request(t)
    BY <1>1, <2>1, RequestType
  <2>2. CASE PeerStart
    BY <1>1, <2>2 DEF PeerStart, TypeOK, StoreTypeOK, RecoveryPC, storeVars,
       memVars, threadVars, worldVars
  <2>3. CASE PeerRestores
    BY <1>1, <2>3 DEF PeerRestores, Serve, RecoveryGone, TypeOK, StoreTypeOK,
       RecoveryPC, storeVars, memVars, threadVars, worldVars
  <2> QED
    BY <2>1, <2>2, <2>3
<1>4. \A s \in Step : EffectOK(s)'
  BY <1>2 DEF PeerInv, EffectOK
<1>5. RecoveryOK'
  <2>1. CASE Start \/ \E t \in Thread : Request(t)
    <3>1. UNCHANGED <<rpc, rcur, snap>>
      BY <2>1 DEF Start, Request, Submit, Approve, Reject, recVars
    <3> QED
      BY <1>1, <1>2, <3>1 DEF RecoveryOK, Examined
  <2>2. CASE PeerStart
    <3>1. rcur = 0 /\ Len(order) \in Nat
      BY <1>1, <2>2 DEF PeerStart, RecoveryOK, TypeOK, StoreTypeOK
    <3> QED
      BY <1>1, <1>2, <2>2, <3>1 DEF PeerStart, RecoveryOK
  <2>3. CASE PeerRestores
    BY <1>1, <1>2, <2>3 DEF PeerRestores, Serve, RecoveryGone, RecoveryOK,
       Untouched
  <2> QED
    BY <2>1, <2>2, <2>3
<1>6. ASSUME NEW u \in Thread
      PROVE  \/ pc'[u] = pc[u] /\ todo'[u] = todo[u]
             \/ pc[u] = "idle" /\ pc'[u] \in {"check", "approve", "rejecting"}
  BY <1>1 DEF Start, Request, Submit, Approve, Reject, PeerStart,
     PeerRestores, threadVars, Goto, TypeOK
<1>7. ASSUME NEW u \in Thread
      PROVE  PositionOK(u)' /\ SureOK(u)' /\ UndoOK(u)' /\ CallOK(u)'
  <2>1. PositionOK(u) /\ SureOK(u) /\ UndoOK(u) /\ CallOK(u)
    BY DEF PeerInv
  <2>2. CASE pc'[u] = pc[u] /\ todo'[u] = todo[u]
    BY <1>2, <2>1, <2>2 DEF PositionOK, SureOK, UndoOK, CallOK, Current,
       Undoing
  <2>3. CASE pc[u] = "idle" /\ pc'[u] \in {"check", "approve", "rejecting"}
    BY <1>2, <2>1, <2>3 DEF PositionOK, SureOK, UndoOK, CallOK, StepPC,
       UndoPC, SurePC, DoubtPC
  <2> QED
    BY <1>6, <2>2, <2>3
<1>8. OneCaller'
  BY <1>6 DEF PeerInv, OneCaller, Current
<1> QED
  BY <1>2, <1>3, <1>4, <1>5, <1>7, <1>8 DEF PeerInv

(* The invariant holds at first, when the sandbox has no                   *)
(* execute_idempotent.                                                     *)
LEMMA PeerInit ==
  ASSUME Init, "idempotent" \notin Hooks
  PROVE  PeerInv
<1>1. SafeInv
  BY SafeInit
<1>2. \A t \in Thread : PositionOK(t) /\ SureOK(t) /\ UndoOK(t)
  BY <1>1 DEF SafeInv, OwnerOK
<1>3. \A t \in Thread : pc[t] # "execute"
  BY DEF Init
<1> QED
  BY <1>1, <1>2, <1>3 DEF SafeInv, PeerInv, CallOK, OneCaller, Init

(* It is inductive.                                                        *)
LEMMA PeerStep ==
  ASSUME PeerInv, [PeerNext]_vars
  PROVE  PeerInv'
<1>1. CASE PeerNext
  BY <1>1, PeerWork, PeerRecovers, PeerArrives DEF PeerNext, PeerRecovery
<1>2. CASE UNCHANGED vars
  BY <1>2 DEF vars, storeVars, memVars, threadVars, recVars, worldVars,
     envVars, PeerInv, TypeOK, StoreTypeOK, PositionOK, SureOK, UndoOK,
     CallOK, OneCaller, EffectOK, RecoveryOK, Current, Undoing, Examined
<1> QED
  BY <1>1, <1>2

(* The server that recovers over a live store never makes a tool run       *)
(* twice, unless its sandbox runs tools again by itself.                   *)
THEOREM PeerAtMostOnce ==
  ASSUME "idempotent" \notin Hooks
  PROVE  PeerSpec => []AtMostOnce
<1>1. Init => PeerInv
  BY PeerInit
<1>2. PeerInv /\ [PeerNext]_vars => PeerInv'
  BY PeerStep
<1>3. PeerInv => AtMostOnce
  BY DEF PeerInv, EffectOK, AtMostOnce
<1> QED
  BY <1>1, <1>2, <1>3, PTL DEF PeerSpec

(* Nor does it make a tool or a compensation run before the journal says   *)
(* that it may.                                                            *)
THEOREM PeerIntent ==
  ASSUME "idempotent" \notin Hooks
  PROVE  PeerSpec => []IntentBeforeEffect
<1>1. Init => PeerInv
  BY PeerInit
<1>2. PeerInv /\ [PeerNext]_vars => PeerInv'
  BY PeerStep
<1>3. PeerInv => IntentBeforeEffect
  BY DEF PeerInv, TypeOK, EffectOK, IntentBeforeEffect, Untouched, Reversing
<1> QED
  BY <1>1, <1>2, <1>3, PTL DEF PeerSpec

-----------------------------------------------------------------------------
(* An attempt of the activity, and its delivery to another worker, keep    *)
(* the invariant of one process.                                           *)
LEMMA ActivityArrives ==
  ASSUME SafeInv, (\E t \in Thread : Attempt(t)) \/ Redeliver
  PROVE  SafeInv'
<1>1. TypeOK /\ RecoveryOK /\ ProcessOK
  BY DEF SafeInv
<1>2. UNCHANGED <<effect, order, hits, undos, completed, cursor, doubt, rpc,
                  rcur, snap>>
  BY DEF Attempt, Redeliver, WriteStatus, storeVars, worldVars, memVars,
     threadVars, recVars
<1>3. ASSUME NEW u \in Thread
      PROVE  \/ pc'[u] = pc[u] /\ todo'[u] = todo[u]
             \/ pc[u] = "idle" /\ pc'[u] = "check"
  BY <1>1 DEF Attempt, Redeliver, threadVars, Goto, TypeOK
<1>4. TypeOK'
  <2>1. ASSUME NEW t \in Thread, Attempt(t)
        PROVE  TypeOK'
    BY <1>1, <2>1, KeyAssumption, CoordinatorAssumption DEF Attempt,
       WriteStatus, SagaStatus, Goto, ThreadPC, TypeOK, StoreTypeOK,
       storeVars, recVars, worldVars
  <2>2. CASE Redeliver
    BY <1>1, <2>2 DEF Redeliver, TypeOK, StoreTypeOK, storeVars, memVars,
       threadVars, recVars, worldVars
  <2> QED
    BY <2>1, <2>2
<1>5. ASSUME NEW u \in Thread
      PROVE  /\ PositionOK(u)' /\ OwnerOK(u)' /\ UndoOK(u)'
             /\ Owns(u)' => Owns(u) /\ Current(u)' = Current(u)
  <2>1. PositionOK(u) /\ OwnerOK(u) /\ UndoOK(u)
    BY DEF SafeInv
  <2>2. CASE pc'[u] = pc[u] /\ todo'[u] = todo[u]
    BY <1>2, <2>1, <2>2 DEF PositionOK, OwnerOK, SureOK, UndoOK, Owns,
       Current, Undoing
  <2>3. CASE pc[u] = "idle" /\ pc'[u] = "check"
    BY <1>2, <2>1, <2>3 DEF PositionOK, OwnerOK, SureOK, UndoOK, Owns, StepPC,
       UndoPC, SurePC, DoubtPC
  <2> QED
    BY <1>3, <2>2, <2>3
<1>6. OneOwner'
  BY <1>5 DEF SafeInv, OneOwner
<1>7. (\A s \in Step : EffectOK(s)') /\ RecoveryOK'
  BY <1>2 DEF SafeInv, EffectOK, RecoveryOK, Examined
<1>8. ProcessOK'
  BY <1>1, <1>2, <1>3 DEF ProcessOK, Attempt, Redeliver, threadVars
<1> QED
  BY <1>4, <1>5, <1>6, <1>7, <1>8 DEF SafeInv

(* However often Temporal runs the activity again, no tool runs twice: the *)
(* second attempt meets the journal of the first.                          *)
THEOREM RetriedAtMostOnce == ActivitySpec => []AtMostOnce
<1>1. Init => SafeInv
  BY SafeInit
<1>2. SafeInv /\ [ActivityNext]_vars => SafeInv'
  <2>1. ASSUME SafeInv, ActivityNext
        PROVE  SafeInv'
    BY <2>1, WorkStep, RequestStep, ActivityArrives DEF ActivityNext
  <2>2. ASSUME SafeInv, UNCHANGED vars
        PROVE  SafeInv'
    BY <2>2, SafeNext
  <2> QED
    BY <2>1, <2>2
<1>3. SafeInv => AtMostOnce
  BY DEF SafeInv, EffectOK, AtMostOnce
<1> QED
  BY <1>1, <1>2, <1>3, PTL DEF ActivitySpec
=============================================================================
