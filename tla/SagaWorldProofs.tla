-------------------------- MODULE SagaWorldProofs ---------------------------
(***************************************************************************)
(* What the journal claims is so: WorldInv is inductive relative to        *)
(* SafeInv, when no two steps share an idempotency key.  Then the theorems *)
(* about a process that does not crash, and those about a saga of one      *)
(* batch that crashes anywhere.                                            *)
(***************************************************************************)
EXTENDS SagaCoordinatorProofs

(* A request records an outcome only where it knows it.                    *)
LEMMA WorkClaims ==
  ASSUME TypeOK, NEW t \in Thread, Work(t), NEW s \in Step,
         effect'[s] # effect[s]
  PROVE  /\ effect'[s] = "APPLIED" => pc[t] = "record" /\ s = Current(t)
         /\ effect'[s] = "ABORTED" => pc[t] = "abort" /\ s = Current(t)
         /\ effect'[s] = "COMPENSATED" => pc[t] = "undone" /\ s = Undoing(t)
BY DEF Work, ReadPending, TakeNothing, TakePending, Resume, Rejecting, SkipCommitted, RejectStep,
   HoldForApproval, Await, AdmitStep, Prepare, MarkExecuting, Execute,
   RecordApplied, RecordAborted, AppendCompleted, CommitStep, FinishSteps,
   Finish, Rollback, PickEffect, MarkCompensating, Undo, RecordCompensated,
   CompensationsDone, Close, Fail, FailStatus, FailEffect, FailDead,
   MarkAmbiguous, AmbiguousStatus, AmbiguousDead, CanMove, MoveEffect,
   PrepareEffect, PublishCommit, WriteStatus, WriteStatusHolding,
   PushDeadLetter, storeVars, TypeOK, StoreTypeOK

(* A request publishes a key only with the commit of its step.             *)
LEMMA WorkKeys ==
  ASSUME TypeOK, NEW t \in Thread, PositionOK(t), Work(t)
  PROVE  \/ idem' = idem
         \/ /\ idem' = idem \cup ({KeyOf[Current(t)]} \ {NoKey})
            /\ Current(t) \in Step
            /\ effect'[Current(t)] = "COMMITTED"
<1>1. CASE CommitStep(t)
  BY <1>1, CurrentType DEF CommitStep, PublishCommit, storeVars, StepPC,
     TypeOK, StoreTypeOK
<1>2. CASE ~CommitStep(t)
  BY <1>2 DEF Work, ReadPending, TakeNothing, TakePending, Resume, Rejecting, SkipCommitted, RejectStep,
     HoldForApproval, Await, AdmitStep, Prepare, MarkExecuting, Execute,
     RecordApplied, RecordAborted, AppendCompleted, FinishSteps, Finish,
     Rollback, PickEffect, MarkCompensating, Undo, RecordCompensated,
     CompensationsDone, Close, Fail, FailStatus, FailEffect, FailDead,
     MarkAmbiguous, AmbiguousStatus, AmbiguousDead, MoveEffect, PrepareEffect,
     WriteStatus, WriteStatusHolding, PushDeadLetter, storeVars
<1> QED
  BY <1>1, <1>2

(* How a request adds to the journal.                                      *)
LEMMA WorkJournaled ==
  ASSUME TypeOK, NEW t \in Thread, PositionOK(t), Work(t)
  PROVE  \/ order' = order
         \/ /\ Current(t) \in Step
            /\ order' = Append(order, Current(t))
            /\ effect[Current(t)] = "ABSENT"
            /\ effect'[Current(t)] = "PREPARED"
<1>1. CASE Prepare(t)
  BY <1>1, CurrentType DEF Prepare, PrepareEffect, StepPC, TypeOK, StoreTypeOK
<1>2. CASE ~Prepare(t)
  BY <1>2 DEF Work, ReadPending, TakeNothing, TakePending, Resume, Rejecting, SkipCommitted, RejectStep,
     HoldForApproval, Await, AdmitStep, MarkExecuting, Execute,
     RecordApplied, RecordAborted, AppendCompleted, CommitStep, FinishSteps,
     Finish, Rollback, PickEffect, MarkCompensating, Undo, RecordCompensated,
     CompensationsDone, Close, Fail, FailStatus, FailEffect, FailDead,
     MarkAmbiguous, AmbiguousStatus, AmbiguousDead, MoveEffect, PublishCommit,
     WriteStatus, WriteStatusHolding, PushDeadLetter, storeVars
<1> QED
  BY <1>1, <1>2

(* The call that a request has just made has given the outcome that it is  *)
(* about to record.                                                        *)
LEMMA WorkLearns ==
  ASSUME TypeOK, NEW t \in Thread, PositionOK(t), OwnerOK(t), Work(t)
  PROVE  ThreadKnows(t)'
<1>1. CASE Execute(t)
  <2>1. Current(t) \in Step /\ hits[Current(t)] = 0 /\ Current(t)' = Current(t)
    BY <1>1, CurrentType DEF Execute, StepPC, OwnerOK, Current
  <2>2. PICK o \in ToolOutcome :
          /\ hits' = IF o \in {"ok", "lost"}
                     THEN [hits EXCEPT ![Current(t)] = @ + 1]
                     ELSE hits
          /\ Goto(t, CASE o = "ok" -> "record"
                       [] o = "failed" -> "abort"
                       [] OTHER -> "rollback")
    BY <1>1 DEF Execute
  <2>3. pc' = [pc EXCEPT ![t] = CASE o = "ok" -> "record"
                                  [] o = "failed" -> "abort"
                                  [] OTHER -> "rollback"]
    BY <2>2 DEF Goto
  <2>4. pc'[t] = CASE o = "ok" -> "record"
                   [] o = "failed" -> "abort"
                   [] OTHER -> "rollback"
    BY <2>3 DEF TypeOK
  <2>5. CASE o = "ok"
    BY <2>1, <2>2, <2>4, <2>5 DEF ThreadKnows, TypeOK
  <2>6. CASE o = "failed"
    BY <2>1, <2>2, <2>4, <2>6 DEF ThreadKnows, TypeOK
  <2>7. CASE o \notin {"ok", "failed"}
    BY <2>4, <2>7 DEF ThreadKnows
  <2> QED
    BY <2>5, <2>6, <2>7
<1>2. CASE Undo(t)
  <2>1. Undoing(t) \in Step /\ Undoing(t)' = Undoing(t)
    BY <1>2, UndoingType DEF Undo, UndoPC, Undoing, memVars
  <2>2. PICK o \in UndoOutcome :
          /\ undos' = IF o \in {"ok", "lost"}
                      THEN [undos EXCEPT ![Undoing(t)] = @ + 1]
                      ELSE undos
          /\ Goto(t, IF o = "ok" THEN "undone" ELSE "fail")
    BY <1>2 DEF Undo
  <2>3. pc'[t] = IF o = "ok" THEN "undone" ELSE "fail"
    BY <2>2 DEF Goto, TypeOK
  <2> QED
    BY <2>1, <2>2, <2>3 DEF ThreadKnows, TypeOK
<1>3. CASE ~(Execute(t) \/ Undo(t))
  <2>1. pc'[t] \notin {"record", "abort", "undone"}
    BY <1>3 DEF Work, ReadPending, TakeNothing, TakePending, Resume, Rejecting, SkipCommitted, RejectStep,
       HoldForApproval, Await, AdmitStep, Prepare, MarkExecuting,
       RecordApplied, RecordAborted, AppendCompleted, CommitStep, FinishSteps,
       Finish, Rollback, PickEffect, MarkCompensating, RecordCompensated,
       CompensationsDone, Close, Fail, FailStatus, FailEffect, FailDead,
       MarkAmbiguous, AmbiguousStatus, AmbiguousDead, Goto, Return,
       LeaveRollback, TypeOK
  <2> QED
    BY <2>1 DEF ThreadKnows
<1> QED
  BY <1>1, <1>2, <1>3

(* A request keeps the list of records.                                    *)
LEMMA WorkOrder ==
  ASSUME TypeOK, TypeOK', NEW t \in Thread, PositionOK(t), SureOK(t), Work(t), OrderOK
  PROVE  OrderOK'
<1>1. order \in Seq(Step)
  BY DEF TypeOK, StoreTypeOK
<1>2. \A s \in Step : effect[s] # "ABSENT" => effect'[s] # "ABSENT"
  BY WorkJournal DEF Reversing
<1>3. CASE order' = order
  BY <1>1, <1>2, <1>3 DEF OrderOK
<1>4. CASE /\ Current(t) \in Step
           /\ order' = Append(order, Current(t))
           /\ effect[Current(t)] = "ABSENT"
           /\ effect'[Current(t)] = "PREPARED"
  <2>1. /\ DOMAIN order' = 1..(Len(order) + 1)
        /\ \A i \in 1..Len(order) : order'[i] = order[i] /\ order[i] \in Step
        /\ order'[Len(order) + 1] = Current(t)
        /\ DOMAIN order = 1..Len(order) /\ Len(order) \in Nat
    BY <1>1, <1>4, AppendProperties
  <2>2. \A i \in 1..Len(order) : order'[i] # Current(t)
    BY <1>4, <2>1 DEF OrderOK
  <2>3. \A i \in DOMAIN order' : i \in 1..Len(order) \/ i = Len(order) + 1
    BY <2>1
  <2>4. \A i \in DOMAIN order' : effect'[order'[i]] # "ABSENT"
    BY <1>2, <1>4, <2>1, <2>3 DEF OrderOK
  <2>5. \A i, j \in DOMAIN order' : order'[i] = order'[j] => i = j
    BY <2>1, <2>2, <2>3 DEF OrderOK
  <2> QED
    BY <2>4, <2>5 DEF OrderOK
<1> QED
  BY <1>3, <1>4, WorkJournaled

(* A request keeps the journal true.                                       *)
LEMMA WorkRecord ==
  ASSUME SafeInv, WorldInv, NEW t \in Thread, Work(t), NEW s \in Step
  PROVE  RecordOK(s)'
<1>1. TypeOK /\ PositionOK(t) /\ SureOK(t) /\ OwnerOK(t) /\ UndoOK(t)
  BY DEF SafeInv, OwnerOK
<1>2. RecordOK(s) /\ EffectOK(s) /\ ThreadKnows(t) /\ hits[s] \in Nat /\ undos[s] \in Nat
  BY DEF SafeInv, WorldInv, TypeOK
<1>3. \/ hits'[s] = hits[s]
      \/ effect' = effect /\ effect[s] = "EXECUTING"
  BY <1>1, WorkWorld DEF OwnerOK, SureOK, Owns, DoubtPC
<1>4. undos[s] > 0 => undos'[s] > 0
  <2>1. CASE Undo(t)
    BY <1>1, <1>2, <2>1 DEF Undo, TypeOK
  <2>2. CASE ~Undo(t)
    BY <2>2 DEF Work, ReadPending, TakeNothing, TakePending, Resume, Rejecting, SkipCommitted, RejectStep,
       HoldForApproval, Await, AdmitStep, Prepare, MarkExecuting, Execute,
       RecordApplied, RecordAborted, AppendCompleted, CommitStep, FinishSteps,
       Finish, Rollback, PickEffect, MarkCompensating, RecordCompensated,
       CompensationsDone, Close, Fail, FailStatus, FailEffect, FailDead,
       MarkAmbiguous, AmbiguousStatus, AmbiguousDead, worldVars
  <2> QED
    BY <2>1, <2>2
<1>5. CASE effect'[s] = effect[s]
  BY <1>2, <1>3, <1>4, <1>5 DEF RecordOK
<1>6. CASE effect'[s] # effect[s]
  BY <1>1, <1>2, <1>3, <1>4, <1>6, WorkJournal, WorkClaims
     DEF RecordOK, ThreadKnows, Reversing
<1> QED
  BY <1>5, <1>6

(* Where no two steps share a key, a request keeps every key it publishes  *)
(* true.                                                                   *)
LEMMA WorkVouches ==
  ASSUME SafeInv, DistinctKeys, NEW t \in Thread, Work(t), NEW s \in Step,
         KeyVouches(s)
  PROVE  KeyVouches(s)'
<1>1. TypeOK /\ PositionOK(t) /\ SureOK(t)
  BY DEF SafeInv, OwnerOK
<1>2. CASE AlreadyCommitted(s)
  BY <1>1, <1>2, WorkJournal DEF KeyVouches, Reversing
<1>3. CASE ~AlreadyCommitted(s) /\ AlreadyCommitted(s)'
  <2>1. KeyOf[s] # NoKey /\ KeyOf[s] = KeyOf[Current(t)]
        /\ Current(t) \in Step /\ effect'[Current(t)] = "COMMITTED"
    BY <1>1, <1>3, WorkKeys DEF AlreadyCommitted
  <2> QED
    BY <2>1 DEF DistinctKeys, KeyVouches
<1> QED
  BY <1>2, <1>3 DEF KeyVouches

(* A request leaves the others what they know.                             *)
LEMMA WorkOthersKnow ==
  ASSUME SafeInv, WorldInv, NEW t \in Thread, Work(t), NEW u \in Thread, u # t
  PROVE  ThreadKnows(u)'
<1>1. TypeOK /\ PositionOK(t) /\ SureOK(t) /\ OwnerOK(t)
  BY DEF SafeInv, OwnerOK
<1>2. PositionOK(u) /\ SureOK(u) /\ OwnerOK(u) /\ ThreadKnows(u)
  BY DEF SafeInv, OwnerOK, WorldInv
<1>3. /\ pc'[u] = pc[u] /\ todo'[u] = todo[u] /\ cursor'[u] = cursor[u]
      /\ Current(u)' = Current(u)
  BY <1>1, WorkFrame DEF Current
<1>4. ASSUME pc[u] \in {"record", "abort"}
      PROVE  hits'[Current(u)] = hits[Current(u)]
  <2>1. Current(u) \in Step /\ Owns(u)
    BY <1>1, <1>2, <1>4, CurrentType DEF StepPC, SureOK, DoubtPC, Owns
  <2>2. pc[t] = "execute" => Current(t) # Current(u)
    BY <1>1, <2>1 DEF SafeInv, OneOwner, SureOK, DoubtPC, Owns
  <2> QED
    BY <1>1, <2>1, <2>2, WorkWorld
<1>5. ASSUME pc[u] = "undone"
      PROVE  undos'[Undoing(u)] > 0 /\ Undoing(u)' = Undoing(u)
  <2>1. Undoing(u) \in Step /\ cursor[u] \in 1..Len(completed)
    BY <1>1, <1>2, <1>5, UndoingType DEF UndoPC
  <2>2. undos[Undoing(u)] > 0 /\ undos[Undoing(u)] \in Nat
    BY <1>1, <1>2, <1>5, <2>1 DEF ThreadKnows, TypeOK
  <2>3. undos'[Undoing(u)] > 0
    <3>1. CASE Undo(t)
      BY <1>1, <2>1, <2>2, <3>1 DEF Undo, TypeOK
    <3>2. CASE ~Undo(t)
      BY <2>2, <3>2 DEF Work, ReadPending, TakeNothing, TakePending, Resume, Rejecting, SkipCommitted,
         RejectStep, HoldForApproval, Await, AdmitStep, Prepare, MarkExecuting,
         Execute, RecordApplied, RecordAborted, AppendCompleted, CommitStep,
         FinishSteps, Finish, Rollback, PickEffect, MarkCompensating,
         RecordCompensated, CompensationsDone, Close, Fail, FailStatus,
         FailEffect, FailDead, MarkAmbiguous, AmbiguousStatus, AmbiguousDead,
         worldVars
    <3> QED
      BY <3>1, <3>2
  <2>4. Undoing(u)' = Undoing(u)
    BY <1>1, <1>3, <2>1, WorkGrows DEF Undoing
  <2> QED
    BY <2>3, <2>4
<1> QED
  BY <1>2, <1>3, <1>4, <1>5 DEF ThreadKnows

(* Every step of a request keeps the journal and its readers right.        *)
LEMMA WorkWorldInv ==
  ASSUME SafeInv, SafeInv', WorldInv, NEW t \in Thread, Work(t)
  PROVE  WorldInv'
<1>1. TypeOK /\ TypeOK' /\ PositionOK(t) /\ SureOK(t) /\ OwnerOK(t)
  BY DEF SafeInv, OwnerOK
<1>2. OrderOK'
  BY <1>1, WorkOrder DEF WorldInv
<1>3. \A s \in Step : RecordOK(s)'
  BY WorkRecord
<1>4. \A u \in Thread : ThreadKnows(u)'
  BY <1>1, WorkLearns, WorkOthersKnow
<1>5. rpc' = "off" /\ rcur' = 0
  BY <1>1, WorkBusy, WorkFrame DEF SafeInv, ProcessOK, RecoveryOK
<1>6. RecoveryKnows'
  BY <1>5 DEF RecoveryKnows
<1> QED
  BY <1>2, <1>3, <1>4, <1>6 DEF WorldInv

-----------------------------------------------------------------------------
(* Recovery moves the record under examination only, and records an        *)
(* outcome only where it knows it.                                         *)
LEMMA RecoveryClaims ==
  ASSUME TypeOK, Recovery, NEW s \in Step, effect'[s] # effect[s]
  PROVE  /\ s = Examined
         /\ effect'[s] = "APPLIED" => rpc = "present"
         /\ effect'[s] = "ABORTED" => rpc = "absent" \/ effect[s] = "PREPARED"
         /\ effect'[s] = "COMPENSATED" => rpc = "undone"
BY DEF Recovery, RecoverNothing, RecoverApproval, RecoverBegin, RecoverDone,
   RecoverSkip, RecoverKeepFailed, RecoverPrepared, RecoverResolve,
   RecoverAbsent, RecoverPresent, RecoverUnknown, RecoverMark,
   RecoverInterrupted, RecoverUndo, RecoverUndone, RecoverGiveUp,
   RecoverFailStatus, RecoverDeadLetter, RecoverMove, CanMove, MoveEffect,
   WriteStatus, PushDeadLetter, Serve, RecoveryGone, Proceed, Examining,
   storeVars,
   TypeOK, StoreTypeOK

(* Recovery publishes no key.                                              *)
LEMMA RecoveryKeys ==
  ASSUME Recovery
  PROVE  idem' = idem
BY DEF Recovery, RecoverNothing, RecoverApproval, RecoverBegin, RecoverDone,
   RecoverSkip, RecoverKeepFailed, RecoverPrepared, RecoverResolve,
   RecoverAbsent, RecoverPresent, RecoverUnknown, RecoverMark,
   RecoverInterrupted, RecoverUndo, RecoverUndone, RecoverGiveUp,
   RecoverFailStatus, RecoverDeadLetter, RecoverMove, CanMove, MoveEffect,
   WriteStatus, PushDeadLetter, Serve, RecoveryGone, Proceed, Examining,
   storeVars

(* The record under examination is in the journal, and what recovery       *)
(* holds of it is current.                                                 *)
LEMMA ExaminedCurrent ==
  ASSUME TypeOK, RecoveryOK, RecoveryKnows, rpc \in {"walk", "absent", "present", "unknown"},
         rcur > 0
  PROVE  Examined \in Step /\ snap[Examined] = effect[Examined]
<1>1. Examined \in Step
  BY ExaminedType
<1>2. rcur \in Nat
  BY DEF TypeOK
<1> QED
  BY <1>1, <1>2 DEF RecoveryKnows, Examined

(* Recovery keeps the journal true.                                        *)
LEMMA RecoveryRecord ==
  ASSUME SafeInv, WorldInv, Recovery, NEW s \in Step
  PROVE  RecordOK(s)'
<1>1. TypeOK /\ RecoveryOK /\ RecoveryKnows
  BY DEF SafeInv, WorldInv
<1>2. RecordOK(s) /\ EffectOK(s) /\ hits[s] \in Nat /\ undos[s] \in Nat
  BY DEF SafeInv, WorldInv, TypeOK
<1>3. \/ hits'[s] = hits[s]
      \/ effect' = effect /\ effect[s] \in {"EXECUTING", "AMBIGUOUS"}
  <2>1. CASE RecoverResolve
    <3>1. rpc = "walk" /\ rcur > 0 /\ effect' = effect
      BY <2>1 DEF RecoverResolve, Examining, storeVars
    <3>2. snap[Examined] = effect[Examined]
      BY <1>1, <3>1, ExaminedCurrent
    <3> QED
      BY <1>1, <3>1, <3>2, RecoveryWorld
  <2>2. CASE ~RecoverResolve
    BY <2>2 DEF Recovery, RecoverNothing, RecoverApproval, RecoverBegin, RecoverDone,
   RecoverSkip, RecoverKeepFailed, RecoverPrepared, RecoverResolve,
   RecoverAbsent, RecoverPresent, RecoverUnknown, RecoverMark,
   RecoverInterrupted, RecoverUndo, RecoverUndone, RecoverGiveUp,
   RecoverFailStatus, RecoverDeadLetter, RecoverMove, CanMove, MoveEffect,
   WriteStatus, PushDeadLetter, Serve, RecoveryGone, Proceed, Examining,
   storeVars,
       worldVars
  <2> QED
    BY <2>1, <2>2
<1>4. undos[s] > 0 => undos'[s] > 0
  <2>1. CASE RecoverUndo
    BY <1>1, <1>2, <2>1 DEF RecoverUndo, TypeOK
  <2>2. CASE ~RecoverUndo
    BY <2>2 DEF Recovery, RecoverNothing, RecoverApproval, RecoverBegin, RecoverDone,
   RecoverSkip, RecoverKeepFailed, RecoverPrepared, RecoverResolve,
   RecoverAbsent, RecoverPresent, RecoverUnknown, RecoverMark,
   RecoverInterrupted, RecoverUndo, RecoverUndone, RecoverGiveUp,
   RecoverFailStatus, RecoverDeadLetter, RecoverMove, CanMove, MoveEffect,
   WriteStatus, PushDeadLetter, Serve, RecoveryGone, Proceed, Examining,
   storeVars,
       worldVars
  <2> QED
    BY <2>1, <2>2
<1>5. CASE effect'[s] = effect[s]
  BY <1>2, <1>3, <1>4, <1>5 DEF RecordOK
<1>6. CASE effect'[s] # effect[s]
  <2>1. hits'[s] = hits[s]
    BY <1>3, <1>6
  <2>2. /\ effect'[s] = "APPLIED" => hits[s] = 1
        /\ effect'[s] = "ABORTED" => hits[s] = 0
        /\ effect'[s] = "COMPENSATED" => undos[s] > 0
    BY <1>1, <1>2, <1>6, RecoveryClaims DEF RecoveryKnows, EffectOK, Untouched
  <2> QED
    BY <1>1, <1>2, <1>4, <2>1, <2>2, RecoveryJournal DEF RecordOK, Reversing
<1> QED
  BY <1>5, <1>6

(* Recovery either ends, or reads the journal, or goes down from the       *)
(* record under examination, or stays there.                               *)
LEMMA RecoveryMoves ==
  ASSUME TypeOK, RecoveryOK, Recovery
  PROVE  \/ rpc' = "off" /\ rcur' = 0
         \/ rcur' = Len(order) /\ snap' = effect /\ effect' = effect /\ rpc' = "walk"
         \/ /\ rpc # "list" /\ rcur > 0
            /\ \/ rcur' = rcur - 1 /\ rpc' = "walk" /\ snap' = snap
               \/ rcur' = rcur /\ rpc' \notin {"off", "list"}
<1>1. CASE RecoverPresent
  BY <1>1 DEF RecoverPresent, Serve, RecoveryGone, Proceed, RecoveryOK
<1>2. CASE RecoverResolve
  <2>1. rpc' \in {"present", "absent", "unknown"}
    BY <1>2 DEF RecoverResolve, Proceed, ForwardAnswer
  <2> QED
    BY <1>2, <2>1 DEF RecoverResolve, Examining, Proceed
<1>3. CASE RecoverInterrupted
  <2>1. rpc' \in {"undone", "undo", "giveup"}
    BY <1>3 DEF RecoverInterrupted, Proceed, BackwardAnswer
  <2> QED
    BY <1>3, <2>1 DEF RecoverInterrupted, Examining, Proceed
<1>4. CASE ~(RecoverPresent \/ RecoverResolve \/ RecoverInterrupted)
  BY <1>4 DEF Recovery, RecoverNothing, RecoverApproval, RecoverBegin, RecoverDone,
   RecoverSkip, RecoverKeepFailed, RecoverPrepared, RecoverResolve,
   RecoverAbsent, RecoverPresent, RecoverUnknown, RecoverMark,
   RecoverInterrupted, RecoverUndo, RecoverUndone, RecoverGiveUp,
   RecoverFailStatus, RecoverDeadLetter, RecoverMove, CanMove, MoveEffect,
   WriteStatus, PushDeadLetter, Serve, RecoveryGone, Proceed, Examining,
   storeVars,
     RecoveryOK
<1> QED
  BY <1>1, <1>2, <1>3, <1>4

(* Records that are not under examination stay as they are, in the store   *)
(* and in recovery's copy.                                                 *)
LEMMA RecoveryElsewhere ==
  ASSUME TypeOK, Recovery, rpc # "list", rpc' # "off", NEW s \in Step, s # Examined
  PROVE  effect'[s] = effect[s] /\ snap'[s] = snap[s]
BY DEF Recovery, RecoverNothing, RecoverApproval, RecoverBegin, RecoverDone,
   RecoverSkip, RecoverKeepFailed, RecoverPrepared, RecoverResolve,
   RecoverAbsent, RecoverPresent, RecoverUnknown, RecoverMark,
   RecoverInterrupted, RecoverUndo, RecoverUndone, RecoverGiveUp,
   RecoverFailStatus, RecoverDeadLetter, RecoverMove, CanMove, MoveEffect,
   WriteStatus, PushDeadLetter, Serve, RecoveryGone, Proceed, Examining,
   storeVars,
   TypeOK, StoreTypeOK

(* Where recovery stays at a record whose state it has still to use, it    *)
(* knows the state.                                                        *)
LEMMA RecoveryStays ==
  ASSUME TypeOK, RecoveryOK, RecoveryKnows, Recovery, rcur > 0, rcur' = rcur,
         rpc' \in {"walk", "absent", "present", "unknown"}, rpc # "list"
  PROVE  snap'[Examined] = effect'[Examined]
<1>1. rcur \in Nat
  BY DEF TypeOK
<1>2. CASE RecoverResolve
  BY <1>2, ExaminedCurrent DEF RecoverResolve, Examining, storeVars
<1>3. CASE RecoverPresent
  BY <1>3, ExaminedCurrent DEF RecoverPresent, Serve, RecoveryGone, MoveEffect, TypeOK, StoreTypeOK
<1>4. CASE ~(RecoverResolve \/ RecoverPresent)
  BY <1>1, <1>4 DEF Recovery, RecoverNothing, RecoverApproval, RecoverBegin, RecoverDone,
   RecoverSkip, RecoverKeepFailed, RecoverPrepared, RecoverResolve,
   RecoverAbsent, RecoverPresent, RecoverUnknown, RecoverMark,
   RecoverInterrupted, RecoverUndo, RecoverUndone, RecoverGiveUp,
   RecoverFailStatus, RecoverDeadLetter, RecoverMove, CanMove, MoveEffect,
   WriteStatus, PushDeadLetter, Serve, RecoveryGone, Proceed, Examining,
   storeVars,
     BackwardAnswer
<1> QED
  BY <1>2, <1>3, <1>4

(* The answer about an interrupted call that recovery acts on is true.     *)
LEMMA RecoveryLearns ==
  ASSUME TypeOK, RecoveryOK, Recovery, NEW s \in Step, s = Examined,
         EffectOK(s), RecordOK(s), NoFalseWitness,
         snap[s] = effect[s] \/ rpc # "walk"
  PROVE  /\ rpc' = "present" => hits'[s] = 1
         /\ rpc' = "absent" => hits'[s] = 0
         /\ rpc' = "undone" => undos'[s] > 0
<1>1. hits[s] \in Nat /\ undos[s] \in Nat
  BY DEF TypeOK
<1>2. CASE RecoverResolve
  <2>1. PICK a \in ForwardAnswer(s) :
          rpc' = a[1] /\ hits' = [hits EXCEPT ![s] = a[2]]
    BY <1>2 DEF RecoverResolve, Proceed
  <2>2. effect[s] \in {"EXECUTING", "AMBIGUOUS"}
    BY <1>2 DEF RecoverResolve, Examining
  <2>3. ~AlreadyCommitted(s)
    BY <2>2 DEF NoFalseWitness
  <2>4. hits'[s] = a[2]
    BY <2>1 DEF TypeOK
  <2>5. /\ a[1] = "present" => a[2] = 1
        /\ a[1] = "absent" => a[2] = 0
        /\ a[1] # "undone"
    BY <1>1, <2>3 DEF ForwardAnswer, EffectOK
  <2> QED
    BY <2>1, <2>4, <2>5
<1>3. CASE RecoverUndo
  BY <1>1, <1>3 DEF RecoverUndo, Proceed, TypeOK
<1>4. CASE RecoverInterrupted
  BY <1>1, <1>4 DEF RecoverInterrupted, Proceed, BackwardAnswer, worldVars
<1>5. CASE ~(RecoverResolve \/ RecoverUndo \/ RecoverInterrupted)
  BY <1>5 DEF Recovery, RecoverNothing, RecoverApproval, RecoverBegin, RecoverDone,
   RecoverSkip, RecoverKeepFailed, RecoverPrepared, RecoverResolve,
   RecoverAbsent, RecoverPresent, RecoverUnknown, RecoverMark,
   RecoverInterrupted, RecoverUndo, RecoverUndone, RecoverGiveUp,
   RecoverFailStatus, RecoverDeadLetter, RecoverMove, CanMove, MoveEffect,
   WriteStatus, PushDeadLetter, Serve, RecoveryGone, Proceed, Examining,
   storeVars
<1> QED
  BY <1>2, <1>3, <1>4, <1>5

(* Recovery keeps what it knows.                                           *)
LEMMA RecoveryKnowsStep ==
  ASSUME SafeInv, WorldInv, NoFalseWitness, Recovery
  PROVE  RecoveryKnows'
<1>1. TypeOK /\ RecoveryOK /\ RecoveryKnows /\ OrderOK
  BY DEF SafeInv, WorldInv
<1>2. order' = order
  BY RecoveryFrame
<1>3. order \in Seq(Step) /\ rcur \in Nat /\ (rpc # "off" => rcur <= Len(order))
  BY <1>1 DEF TypeOK, StoreTypeOK, RecoveryOK
<1>4. CASE rpc' = "off" /\ rcur' = 0
  BY <1>4 DEF RecoveryKnows
<1>5. CASE rcur' = Len(order) /\ snap' = effect /\ effect' = effect /\ rpc' = "walk"
  BY <1>5 DEF RecoveryKnows
<1>6. CASE /\ rpc # "list" /\ rcur > 0 /\ rpc' # "off"
           /\ \/ rcur' = rcur - 1 /\ rpc' = "walk" /\ snap' = snap
              \/ rcur' = rcur /\ rpc' \notin {"off", "list"}
  <2>1. rpc # "off" /\ Examined \in Step
    BY <1>1, <1>6, RecoveryFrame, ExaminedType
  <2>2. ASSUME NEW i \in 1..(rcur - 1)
        PROVE  snap'[order'[i]] = effect'[order'[i]]
    <3>1. i \in 1..rcur /\ i < rcur /\ i \in DOMAIN order /\ rcur \in DOMAIN order
      BY <1>3, <1>6, <2>1
    <3>2. order[i] \in Step /\ order[i] # Examined
      BY <1>1, <1>3, <3>1 DEF OrderOK, Examined
    <3>3. snap[order[i]] = effect[order[i]]
      BY <1>1, <3>1 DEF RecoveryKnows
    <3> QED
      BY <1>1, <1>2, <1>6, <3>2, <3>3, RecoveryElsewhere
  <2>3. CASE rcur' = rcur - 1 /\ rpc' = "walk" /\ snap' = snap
    BY <1>3, <2>2, <2>3 DEF RecoveryKnows
  <2>4. CASE rcur' = rcur
    <3>1. Examined' = Examined
      BY <1>2, <2>4 DEF Examined
    <3>2. rpc' \in {"walk", "absent", "present", "unknown"} =>
            snap'[order'[rcur']] = effect'[order'[rcur']]
      BY <1>1, <1>2, <1>6, <2>4, RecoveryStays DEF Examined
    <3>3. \A i \in 1..rcur' : i < rcur' => i \in 1..(rcur - 1)
      BY <1>3, <2>4
    <3>4. \A i \in 1..rcur' : i < rcur' \/ i = rcur'
      BY <1>3, <2>4
    <3>5. snap[Examined] = effect[Examined] \/ rpc # "walk"
      BY <1>1, <1>6, ExaminedCurrent
    <3>6. EffectOK(Examined) /\ RecordOK(Examined)
      BY <2>1 DEF SafeInv, WorldInv
    <3>7. /\ rpc' = "present" => hits'[Examined] = 1
          /\ rpc' = "absent" => hits'[Examined] = 0
          /\ rpc' = "undone" => undos'[Examined] > 0
      BY <1>1, <2>1, <3>5, <3>6, RecoveryLearns
    <3> QED
      BY <2>2, <3>1, <3>2, <3>3, <3>4, <3>7 DEF RecoveryKnows
  <2> QED
    BY <1>6, <2>3, <2>4
<1> QED
  BY <1>1, <1>4, <1>5, <1>6, RecoveryMoves

(* Every step of recovery keeps the journal and its readers right.         *)
LEMMA RecoveryWorldInv ==
  ASSUME SafeInv, SafeInv', WorldInv, NoFalseWitness, Recovery
  PROVE  WorldInv'
<1>1. TypeOK /\ TypeOK' /\ OrderOK
  BY DEF SafeInv, WorldInv
<1>2. order' = order /\ order \in Seq(Step)
  BY <1>1, RecoveryFrame DEF TypeOK, StoreTypeOK
<1>3. \A s \in Step : effect[s] # "ABSENT" => effect'[s] # "ABSENT"
  BY <1>1, RecoveryJournal DEF Reversing
<1>4. OrderOK'
  BY <1>1, <1>2, <1>3 DEF OrderOK
<1>5. \A t \in Thread : ThreadKnows(t)'
  BY RecoveryFrame DEF SafeInv, ProcessOK, ThreadKnows
<1> QED
  BY <1>4, <1>5, RecoveryRecord, RecoveryKnowsStep DEF WorldInv

-----------------------------------------------------------------------------
(* The arrival of a request, a crash and a restart change nothing of it.   *)
LEMMA RequestWorldInv ==
  ASSUME SafeInv, WorldInv, Start \/ (\E t \in Thread : Request(t)) \/ Crash \/ Restart
  PROVE  WorldInv'
<1>1. UNCHANGED <<effect, order, idem, hits, undos>>
  BY DEF Start, Request, Submit, Approve, Reject, Crash, Restart, WriteStatus,
     storeVars, worldVars
<1>2. OrderOK' /\ \A s \in Step : RecordOK(s)'
  BY <1>1 DEF WorldInv, OrderOK, RecordOK
<1>3. CASE Start
  <2>1. UNCHANGED <<completed, threadVars, recVars>>
    BY <1>3 DEF Start
  <2>2. (\A t \in Thread : ThreadKnows(t)') /\ RecoveryKnows'
    BY <1>1, <2>1 DEF WorldInv, ThreadKnows, RecoveryKnows, Current, Undoing,
       Examined, threadVars, recVars
  <2> QED
    BY <1>2, <2>2 DEF WorldInv
<1>4. ASSUME NEW t \in Thread, Request(t)
      PROVE  WorldInv'
  <2>1. UNCHANGED <<completed, cursor, rpc, rcur, snap>>
    BY <1>4 DEF Request, Submit, Approve, Reject, memVars, recVars
  <2>2. pc'[t] \in {"check", "approve", "rejecting"}
    BY <1>4 DEF Request, Submit, Approve, Reject, Goto, TypeOK, SafeInv
  <2>3. \A u \in Thread \ {t} : pc'[u] = pc[u] /\ todo'[u] = todo[u]
    BY <1>4 DEF Request, Submit, Approve, Reject, Goto, TypeOK, SafeInv
  <2>4. \A u \in Thread : ThreadKnows(u)'
    BY <1>1, <2>1, <2>2, <2>3 DEF WorldInv, ThreadKnows, Current, Undoing
  <2>5. RecoveryKnows'
    BY <1>1, <2>1 DEF WorldInv, RecoveryKnows, Examined
  <2> QED
    BY <1>2, <2>4, <2>5 DEF WorldInv
<1>5. CASE Crash
  BY <1>2, <1>5 DEF Crash, RecoveryGone, WorldInv, ThreadKnows, RecoveryKnows
<1>6. CASE Restart
  <2>1. rcur' = 0 /\ rpc' = "list"
    BY <1>6 DEF Restart, SafeInv, RecoveryOK, ProcessOK
  <2>2. RecoveryKnows'
    BY <2>1 DEF RecoveryKnows
  <2>3. \A t \in Thread : ThreadKnows(t)'
    BY <1>6 DEF Restart, SafeInv, ProcessOK, ThreadKnows, threadVars
  <2> QED
    BY <1>2, <2>2, <2>3 DEF WorldInv
<1> QED
  BY <1>3, <1>4, <1>5, <1>6

(* No other step touches a key or a record.                                *)
LEMMA OtherVouches ==
  ASSUME SafeInv, Start \/ (\E t \in Thread : Request(t)) \/ Crash \/ Restart \/ Recovery,
         NEW s \in Step, KeyVouches(s)
  PROVE  KeyVouches(s)'
<1>1. CASE Recovery
  BY <1>1, RecoveryKeys, RecoveryJournal
     DEF SafeInv, KeyVouches, AlreadyCommitted, Reversing
<1>2. CASE ~Recovery
  BY <1>2 DEF Start, Request, Submit, Approve, Reject, Crash, Restart, WriteStatus,
     storeVars, KeyVouches, AlreadyCommitted
<1> QED
  BY <1>1, <1>2

(* Every step keeps the journal and its readers right, as long as recovery *)
(* finds no key that speaks for an open call.                              *)
LEMMA WorldStep ==
  ASSUME SafeInv, SafeInv', WorldInv, NoFalseWitness, [Next]_vars
  PROVE  WorldInv'
<1>1. CASE Next
  BY <1>1, WorkWorldInv, RecoveryWorldInv, RequestWorldInv DEF Next
<1>2. CASE UNCHANGED vars
  BY <1>2 DEF vars, storeVars, memVars, threadVars, recVars, worldVars,
     envVars, WorldInv, OrderOK, RecordOK, ThreadKnows,
     RecoveryKnows, Current, Undoing, Examined
<1> QED
  BY <1>1, <1>2

(* Nothing is claimed in the beginning.                                    *)
LEMMA WorldInit ==
  ASSUME Init
  PROVE  WorldInv
BY DEF Init, StoreInit, WorldInv, OrderOK, RecordOK, ThreadKnows, RecoveryKnows

(* What the journal claims is right wherever WorldInv holds.               *)
LEMMA WorldMatches ==
  ASSUME SafeInv, WorldInv
  PROVE  JournalMatchesWorld
BY DEF SafeInv, WorldInv, EffectOK, RecordOK, JournalMatchesWorld, TypeOK, Reversing

(* Where no two steps share a key, a journal state that claims an outcome  *)
(* is right about the world, in every run: for every set of threads, steps *)
(* and batches, every sandbox and any number of crashes.                   *)
THEOREM JournalHolds ==
  ASSUME DistinctKeys
  PROVE  Spec => []JournalMatchesWorld
<1> DEFINE Vouched == \A s \in Step : KeyVouches(s)
<1>1. Init => WorldInv /\ Vouched
  BY WorldInit DEF Init, StoreInit, KeyVouches, AlreadyCommitted
<1>2. Vouched => NoFalseWitness
  BY DEF KeyVouches, NoFalseWitness, Reversing
<1>3. SafeInv /\ Vouched /\ [Next]_vars => Vouched'
  <2>1. CASE Next
    BY <2>1, WorkVouches, OtherVouches DEF Next
  <2>2. CASE UNCHANGED vars
    BY <2>2 DEF vars, storeVars, KeyVouches, AlreadyCommitted
  <2> QED
    BY <2>1, <2>2
<1>4. SafeInv /\ SafeInv' /\ WorldInv /\ Vouched /\ [Next]_vars => WorldInv'
  BY <1>2, WorldStep
<1>5. SafeInv /\ WorldInv => JournalMatchesWorld
  BY WorldMatches
<1> QED
  BY <1>1, <1>3, <1>4, <1>5, SafeInvHolds, PTL DEF Spec

-----------------------------------------------------------------------------
(***************************************************************************)
(* The theorems about a process that does not crash.  With any number of   *)
(* threads a flagged saga has its dead letter; where one thread serves the *)
(* requests one at a time, a rollback that claims to be complete is, and   *)
(* no effect is lost from sight.  With two threads the last two are false; *)
(* with a crash NoOrphan is, as the run rest_crash shows.                  *)
(***************************************************************************)

(* A request flags the saga only on its way to a dead letter.              *)
LEMMA WorkFlags ==
  ASSUME TypeOK, NEW t \in Thread, PositionOK(t), Work(t)
  PROVE  /\ dead \subseteq dead'
         /\ status' = "COMPENSATION_FAILED" =>
              status = "COMPENSATION_FAILED" \/ pc'[t] \in {"faileffect", "ambdead"}
         /\ pc[t] \in {"faileffect", "faildead", "ambdead"} =>
              pc'[t] = "faildead" \/ dead' # {}
BY DEF Work, ReadPending, TakeNothing, TakePending, Resume, Rejecting, SkipCommitted, RejectStep,
   HoldForApproval, Await, AdmitStep, Prepare, MarkExecuting, Execute,
   RecordApplied, RecordAborted, AppendCompleted, CommitStep, FinishSteps,
   Finish, Rollback, PickEffect, MarkCompensating, Undo, RecordCompensated,
   CompensationsDone, Close, Fail, FailStatus, FailEffect, FailDead,
   MarkAmbiguous, AmbiguousStatus, AmbiguousDead, CanMove, MoveEffect,
   PrepareEffect, PublishCommit, WriteStatus, WriteStatusHolding,
   PushDeadLetter, Goto, Return, storeVars, TypeOK

(* Without crashes there is no recovery.                                   *)
LEMMA NoCrash ==
  ASSUME MaxCrash = 0, SafeInv, proc = "up", Next
  PROVE  /\ proc' = "up"
         /\ Start \/ \E t \in Thread : Request(t) \/ Work(t)
<1>1. ~Crash
  BY DEF SafeInv, TypeOK, Crash
<1>2. ~Recovery
  BY RecoveryFrame DEF SafeInv, ProcessOK
<1>3. ~Restart
  BY DEF Restart
<1>4. Start \/ \E t \in Thread : Request(t) \/ Work(t)
  BY <1>1, <1>2, <1>3 DEF Next
<1>5. proc' = "up"
  BY <1>4, WorkFrame DEF Start, Request, Submit, Approve, Reject, envVars, SafeInv
<1> QED
  BY <1>4, <1>5

(* Without crashes a flagged saga at rest has a dead letter, with any      *)
(* number of threads.                                                      *)
THEOREM FlaggedHolds ==
  ASSUME MaxCrash = 0
  PROVE  Spec => []FlaggedIsReported
<1>1. Init => FlagOK
  BY DEF Init, StoreInit, FlagOK
<1>2. SafeInv /\ FlagOK /\ [Next]_vars => FlagOK'
  <2> SUFFICES ASSUME SafeInv, FlagOK, [Next]_vars
               PROVE  FlagOK'
    OBVIOUS
  <2>1. TypeOK
    BY DEF SafeInv
  <2>2. CASE Start \/ \E t \in Thread : Request(t)
    <3>1. proc' = "up" /\ dead' = dead /\ (status' = status \/ status' = "RUNNING")
      BY <2>2 DEF Start, Request, Submit, Approve, Reject, WriteStatus, FlagOK,
         storeVars, envVars
    <3>2. \A t \in Thread : pc[t] # "idle" => pc'[t] = pc[t]
      BY <2>1, <2>2 DEF Start, Request, Submit, Approve, Reject, Goto, TypeOK,
         threadVars
    <3> QED
      BY <3>1, <3>2 DEF FlagOK
  <2>3. ASSUME NEW t \in Thread, Work(t)
        PROVE  FlagOK'
    <3>1. PositionOK(t) /\ proc' = "up"
      BY <2>1, <2>3, WorkFrame DEF SafeInv, FlagOK
    <3>2. \A u \in Thread : u # t => pc'[u] = pc[u]
      BY <2>1, <2>3, WorkFrame
    <3> QED
      BY <2>1, <2>3, <3>1, <3>2, WorkFlags DEF FlagOK
  <2>4. CASE UNCHANGED vars
    BY <2>4 DEF FlagOK, vars, storeVars, threadVars, envVars
  <2> QED
    BY <2>2, <2>3, <2>4, NoCrash DEF FlagOK
<1>3. FlagOK => FlaggedIsReported
  BY DEF FlagOK, FlaggedIsReported, AtRest
<1> QED
  BY <1>1, <1>2, <1>3, SafeInvHolds, PTL DEF Spec

(* One thread's request keeps track of every effect.                       *)
LEMMA SerialWork ==
  ASSUME SafeInv, SafeInv', NEW t \in Thread, SerialInv(t), Work(t)
  PROVE  SerialInv(t)'
<1> USE DEF SerialInv, RollbackOK, UndoneFrom, Known, Attended, VerdictOK,
   InPlace, Current, Undoing, Goto, Return, CanMove, MoveEffect, WriteStatus,
   WriteStatusHolding, PushDeadLetter, storeVars, memVars, threadVars,
   worldVars, envVars, UndoPC
<1>0. /\ pc \in [Thread -> ThreadPC] /\ todo \in [Thread -> Seq(Step)]
      /\ cursor \in [Thread -> Nat] /\ doubt \in [Thread -> BOOLEAN]
      /\ completed \in Seq(Step) /\ hits \in [Step -> Nat]
      /\ undos \in [Step -> Nat]
      /\ effect \in [Step -> EffectState \cup {"ABSENT"}]
      /\ PositionOK(t) /\ OwnerOK(t) /\ SureOK(t)
  BY DEF SafeInv, TypeOK, StoreTypeOK, OwnerOK
<1>a. CASE ReadPending(t)
  <2>1. /\ pc[t] = "approve" /\ pc'[t] = "take" /\ ~doubt[t] /\ ~doubt'[t]
        /\ UNCHANGED <<proc, completed, effect, hits, undos, dead, status, known>>
    BY <1>0, <1>a DEF ReadPending, SureOK, SurePC
  <2>2. \A s \in Step : InPlace(s) => Known(t, s)' /\ Attended(t, s)'
    BY <2>1
  <2> QED
    BY <2>1, <2>2
<1>b. CASE TakeNothing(t)
  BY <1>0, <1>b DEF TakeNothing
<1>1. CASE TakePending(t)
  BY <1>0, <1>1 DEF TakePending
<1>2. CASE Resume(t)
  BY <1>0, <1>2 DEF Resume
<1>3. CASE Rejecting(t)
  BY <1>0, <1>3 DEF Rejecting
<1>4. CASE SkipCommitted(t)
  <2>1. pc' = pc /\ ~doubt[t] /\ pc[t] = "check"
    BY <1>0, <1>4 DEF SkipCommitted, SureOK, SurePC
  <2> QED
    BY <1>0, <1>4, <2>1 DEF SkipCommitted
<1>5. CASE RejectStep(t)
  BY <1>0, <1>5 DEF RejectStep
<1>6. CASE HoldForApproval(t)
  BY <1>0, <1>6 DEF HoldForApproval
<1>7. CASE Await(t)
  <2>1. pc[t] = "await" /\ ~doubt[t] /\ pc'[t] = "idle"
    BY <1>0, <1>7 DEF Await, SureOK, SurePC
  <2>2. status' = "AWAITING_APPROVAL"
    BY <1>7 DEF Await
  <2> QED
    BY <1>0, <1>7, <2>1, <2>2 DEF Await
<1>8. CASE AdmitStep(t)
  BY <1>0, <1>8 DEF AdmitStep
<1>9. CASE Prepare(t)
  <2>1. /\ Current(t) \in Step
        /\ effect' = effect \/ effect' = [effect EXCEPT ![Current(t)] = "PREPARED"]
    BY <1>0, <1>9, CurrentType DEF Prepare, PrepareEffect, StepPC, SafeInv
  <2>2. effect[Current(t)] = "COMMITTED" => effect'[Current(t)] = "COMMITTED"
    BY <1>0, <1>9 DEF Prepare, PrepareEffect
  <2>3. pc[t] = "prepare" /\ pc'[t] = "mark" /\ UNCHANGED <<dead, status>>
    BY <1>0, <1>9 DEF Prepare, PrepareEffect
  <2> QED
    BY <1>0, <1>9, <2>1, <2>2, <2>3 DEF Prepare
<1>10. CASE MarkExecuting(t)
  BY <1>0, <1>10, SMTT(40) DEF MarkExecuting
<1>11. CASE Execute(t)
  <2>1. pc[t] = "execute" /\ doubt[t] /\ Current(t) \in Step /\ hits[Current(t)] = 0
    BY <1>0, <1>11, CurrentType DEF Execute, SureOK, OwnerOK, DoubtPC, StepPC, SafeInv
  <2>2. \A s \in Step : s # Current(t) => hits'[s] = hits[s]
    BY <1>0, <1>11 DEF Execute
  <2>3. pc'[t] \in {"record", "abort", "rollback"}
    BY <1>0, <1>11 DEF Execute
  <2>4. pc'[t] = "abort" => hits'[Current(t)] = 0
    BY <1>0, <1>11, <2>1 DEF Execute
  <2>5. UNCHANGED <<undos, todo, cursor, doubt, effect, dead, status, completed, known, proc>>
    BY <1>11 DEF Execute
  <2> QED
    BY <1>0, <2>1, <2>2, <2>3, <2>4, <2>5
<1>12. CASE RecordApplied(t)
  <2>1. Current(t) \in Step /\ effect[Current(t)] = "EXECUTING" /\ pc[t] = "record"
    BY <1>0, <1>12, CurrentType DEF RecordApplied, SureOK, OwnerOK, Owns, DoubtPC, StepPC, SafeInv
  <2>2. /\ effect' = [effect EXCEPT ![Current(t)] = "APPLIED"]
        /\ doubt' = [doubt EXCEPT ![t] = FALSE] /\ pc' = [pc EXCEPT ![t] = "append"]
    BY <1>12, <2>1 DEF RecordApplied
  <2>3. UNCHANGED <<undos, hits, todo, cursor, dead, status, completed, known, proc>>
    BY <1>12, <2>1 DEF RecordApplied
  <2> QED
    BY <1>0, <2>1, <2>2, <2>3
<1>13. CASE RecordAborted(t)
  BY <1>0, <1>13 DEF RecordAborted
<1>14. CASE AppendCompleted(t)
  <2>1. Current(t) \in Step /\ pc[t] = "append" /\ ~doubt[t]
    BY <1>0, <1>14, CurrentType DEF AppendCompleted, SureOK, SurePC, StepPC, SafeInv
  <2>2. /\ DOMAIN completed' = 1..(Len(completed) + 1)
        /\ \A i \in DOMAIN completed : i \in DOMAIN completed' /\ completed'[i] = completed[i]
        /\ Len(completed) + 1 \in DOMAIN completed'
        /\ completed'[Len(completed) + 1] = Current(t)
    BY <1>0, <1>14, <2>1, SMTT(40) DEF AppendCompleted
  <2>3. UNCHANGED <<undos, hits, todo, cursor, doubt, effect, dead, status, known, proc>>
    BY <1>14 DEF AppendCompleted
  <2>4. pc' = [pc EXCEPT ![t] = "commit"]
    BY <1>14 DEF AppendCompleted
  <2> QED
    BY <1>0, <2>1, <2>2, <2>3, <2>4
<1>15. CASE CommitStep(t)
  <2>1. Current(t) \in Step /\ effect[Current(t)] = "APPLIED" /\ pc[t] = "commit" /\ ~doubt[t]
    BY <1>0, <1>15, CurrentType DEF CommitStep, SureOK, SurePC, StepPC, SafeInv
  <2>2. /\ effect' = [effect EXCEPT ![Current(t)] = "COMMITTED"]
        /\ pc' = [pc EXCEPT ![t] = "check"]
    BY <1>15, <2>1 DEF CommitStep, PublishCommit
  <2>3. UNCHANGED <<undos, hits, cursor, doubt, dead, status, completed, known, proc>>
    BY <1>15, <2>1 DEF CommitStep, PublishCommit
  <2> QED
    BY <1>0, <2>1, <2>2, <2>3
<1>16. CASE FinishSteps(t)
  BY <1>0, <1>16 DEF FinishSteps
<1>17. CASE Finish(t)
  <2>1. pc[t] = "finish" /\ ~doubt[t] /\ pc'[t] = "idle"
    BY <1>0, <1>17 DEF Finish, SureOK, SurePC
  <2>2. status' = "COMMITTED"
    BY <1>17 DEF Finish
  <2> QED
    BY <1>0, <1>17, <2>1, <2>2 DEF Finish
<1>18. CASE Rollback(t)
  BY <1>0, <1>18 DEF Rollback
<1>19. CASE PickEffect(t)
  BY <1>0, <1>19 DEF PickEffect
<1>20. CASE MarkCompensating(t)
  BY <1>0, <1>20 DEF MarkCompensating
<1>21. CASE Undo(t)
  <2>1. pc[t] = "undo" /\ Undoing(t) \in Step /\ cursor[t] \in 1..Len(completed)
    BY <1>0, <1>21, UndoingType DEF Undo, SafeInv
  <2>2. \A s \in Step : undos[s] > 0 => undos'[s] > 0
    BY <1>0, <1>21, <2>1 DEF Undo
  <2>3. pc'[t] \in {"undone", "fail"}
    BY <1>0, <1>21 DEF Undo
  <2>4. pc'[t] = "undone" => undos'[Undoing(t)] > 0
    BY <1>0, <1>21, <2>1 DEF Undo
  <2>5. UNCHANGED <<hits, todo, cursor, doubt, effect, dead, status, completed, known, proc>>
    BY <1>21 DEF Undo
  <2>6. \A s \in Step : undos'[s] = 0 => undos[s] = 0
    <3>1. \A s \in Step : undos[s] \in Nat
      BY <1>0
    <3> QED
      BY <2>2, <3>1
  <2>7. \A j \in (cursor[t] + 1)..Len(completed) : completed[j] \in Step
    BY <1>0
  <2>8. UndoneFrom(cursor[t] + 1)'
    BY <1>0, <2>1, <2>2, <2>5, <2>7
  <2> QED
    BY <1>0, <2>1, <2>3, <2>4, <2>5, <2>6, <2>8
<1>22. CASE RecordCompensated(t)
  <2>1. pc[t] = "undone" /\ Undoing(t) \in Step /\ cursor[t] \in 1..Len(completed)
    BY <1>0, <1>22, UndoingType DEF RecordCompensated, SafeInv
  <2>2. CASE effect[Undoing(t)] = "COMPENSATING"
    <3>1. /\ effect' = [effect EXCEPT ![Undoing(t)] = "COMPENSATED"]
          /\ cursor' = [cursor EXCEPT ![t] = @ - 1]
          /\ pc' = [pc EXCEPT ![t] = "pick"]
      BY <1>22, <2>2 DEF RecordCompensated
    <3>2. UNCHANGED <<undos, hits, todo, doubt, dead, status, completed, known, proc>>
      BY <1>22, <2>2 DEF RecordCompensated
    <3>3. undos[Undoing(t)] > 0
      BY <2>1
    <3>4. UndoneFrom(cursor[t])
      BY <1>0, <2>1, <3>3
    <3>5. cursor'[t] + 1 = cursor[t]
      BY <1>0, <3>1, <2>1
    <3>6. UndoneFrom(cursor[t] + 1)'
      BY <1>0, <3>2, <3>4, <3>5
    <3>7. pc'[t] = "pick" /\ pc' = [pc EXCEPT ![t] = "pick"]
      BY <1>0, <3>1
    <3>8. RollbackOK(t)'
      BY <3>6, <3>7
    <3>9. ASSUME NEW s \in Step, InPlace(s)'
          PROVE  Known(t, s)' /\ Attended(t, s)'
      BY <1>0, <2>1, <3>1, <3>2, <3>3, <3>7, <3>9
    <3>10. VerdictOK(t)'
      BY <2>1, <3>2, <3>7
    <3> QED
      BY <1>0, <3>2, <3>7, <3>8, <3>9, <3>10
  <2>3. CASE effect[Undoing(t)] # "COMPENSATING"
    BY <1>0, <1>22, <2>1, <2>3 DEF RecordCompensated
  <2> QED
    BY <2>2, <2>3
<1>23. CASE CompensationsDone(t)
  BY <1>0, <1>23 DEF CompensationsDone
<1>24. CASE Close(t)
  <2>1. pc[t] = "close" /\ status' = "ROLLED_BACK"
    BY <1>24 DEF Close
  <2>2. UNCHANGED <<undos, hits, cursor, doubt, effect, dead, completed, known, proc>>
    BY <1>24 DEF Close
  <2>3. CASE doubt[t]
    <3>1. pc' = [pc EXCEPT ![t] = "ambiguous"] /\ todo' = todo
      BY <1>24, <2>3 DEF Close, LeaveRollback
    <3> QED
      BY <1>0, <2>1, <2>2, <2>3, <3>1
  <2>4. CASE ~doubt[t]
    <3>1. pc' = [pc EXCEPT ![t] = "idle"]
      BY <1>24, <2>4 DEF Close, LeaveRollback
    <3>2. \A i \in DOMAIN completed : undos[completed[i]] > 0
      BY <1>0, <2>1
    <3>3. \A s \in Step : InPlace(s) => s \in dead
      BY <1>0, <2>1, <2>4, <3>2
    <3> QED
      BY <1>0, <2>1, <2>2, <2>4, <3>1, <3>3
  <2> QED
    BY <1>0, <2>3, <2>4
<1>25. CASE Fail(t)
  BY <1>0, <1>25 DEF Fail
<1>26. CASE FailStatus(t)
  BY <1>0, <1>26 DEF FailStatus
<1>27. CASE FailEffect(t)
  BY <1>0, <1>27 DEF FailEffect
<1>28. CASE FailDead(t)
  <2>1. pc[t] = "faildead" /\ status = "COMPENSATION_FAILED" /\ dead' = dead \cup {Undoing(t)}
    BY <1>28 DEF FailDead
  <2>2. UNCHANGED <<undos, hits, cursor, doubt, effect, status, completed, known, proc>>
    BY <1>28 DEF FailDead
  <2>3. CASE doubt[t]
    <3>1. pc' = [pc EXCEPT ![t] = "ambiguous"] /\ todo' = todo
      BY <1>28, <2>3 DEF FailDead, LeaveRollback
    <3> QED
      BY <1>0, <2>1, <2>2, <2>3, <3>1
  <2>4. CASE ~doubt[t]
    <3>1. pc' = [pc EXCEPT ![t] = "idle"]
      BY <1>28, <2>4 DEF FailDead, LeaveRollback
    <3> QED
      BY <1>0, <2>1, <2>2, <2>4, <3>1
  <2> QED
    BY <1>0, <2>3, <2>4
<1>29. CASE MarkAmbiguous(t)
  BY <1>0, <1>29 DEF MarkAmbiguous
<1>30. CASE AmbiguousStatus(t)
  BY <1>0, <1>30 DEF AmbiguousStatus
<1>31. CASE AmbiguousDead(t)
  BY <1>0, <1>31 DEF AmbiguousDead
<1> QED
  BY <1>a, <1>b, <1>1, <1>2, <1>3, <1>4, <1>5, <1>6, <1>7, <1>8, <1>9, <1>10, <1>11,
     <1>12, <1>13, <1>14, <1>15, <1>16, <1>17, <1>18, <1>19, <1>20, <1>21, <1>22,
     <1>23, <1>24, <1>25, <1>26, <1>27, <1>28, <1>29, <1>30, <1>31 DEF Work

(* The arrival of a request finds nothing in doubt.                        *)
LEMMA SerialRequest ==
  ASSUME SafeInv, NEW t \in Thread, SerialInv(t), Start \/ Request(t)
  PROVE  SerialInv(t)'
<1> USE DEF SerialInv, RollbackOK, Known, Attended, VerdictOK, InPlace, Goto,
   WriteStatus, storeVars, memVars, threadVars, worldVars, envVars, UndoPC
<1>1. TypeOK /\ SureOK(t)
  BY DEF SafeInv, OwnerOK
<1>2. CASE Start
  <2>1. pc[t] = "idle" /\ (\A s \in Step : hits[s] = 0)
    BY <1>2 DEF Start
  <2>2. status' = "RUNNING" /\ UNCHANGED <<hits, undos, pc, proc>>
    BY <1>2 DEF Start
  <2> QED
    BY <2>1, <2>2
<1>3. CASE Request(t)
  <2>1. /\ pc[t] = "idle" /\ ~doubt[t] /\ known
        /\ UNCHANGED <<hits, undos, effect, dead, status, completed, known, doubt, proc>>
    BY <1>1, <1>3 DEF Request, Submit, Approve, Reject, SureOK, SurePC
  <2>2. pc'[t] \in {"check", "approve", "rejecting"}
    BY <1>1, <1>3 DEF Request, Submit, Approve, Reject, TypeOK
  <2>3. \A s \in Step : InPlace(s) => (Known(t, s) /\ Attended(t, s))'
    BY <2>1
  <2>4. VerdictOK(t)' /\ RollbackOK(t)'
    BY <2>1, <2>2
  <2>5. pc'[t] = "approve" => pending' # <<>>
    BY <1>1, <1>3 DEF Request, Submit, Approve, Reject, TypeOK
  <2> QED
    BY <2>1, <2>2, <2>3, <2>4, <2>5
<1> QED
  BY <1>2, <1>3

(* One thread and no crash: nothing is out of sight.                       *)
LEMMA SerialHolds ==
  ASSUME NEW t, Thread = {t}, MaxCrash = 0
  PROVE  Spec => []SerialInv(t)
<1>1. Init => SerialInv(t)
  BY DEF Init, StoreInit, SerialInv, RollbackOK, Known, Attended, VerdictOK,
     InPlace, UndoPC
<1>2. SafeInv /\ SafeInv' /\ SerialInv(t) /\ [Next]_vars => SerialInv(t)'
  <2> SUFFICES ASSUME SafeInv, SafeInv', SerialInv(t), [Next]_vars
               PROVE  SerialInv(t)'
    OBVIOUS
  <2>1. CASE Next
    <3>1. Start \/ Request(t) \/ Work(t)
      BY <2>1, NoCrash DEF SerialInv
    <3> QED
      BY <3>1, SerialRequest, SerialWork
  <2>2. CASE UNCHANGED vars
    BY <2>2 DEF vars, storeVars, memVars, threadVars, worldVars, envVars,
       SerialInv, RollbackOK, UndoneFrom, Undoing, Current, Known, Attended,
       VerdictOK, InPlace
  <2> QED
    BY <2>1, <2>2
<1> QED
  BY <1>1, <1>2, SafeInvHolds, PTL DEF Spec

(* RolledBackMeansUndone for a process that serves one request at a time   *)
(* and does not crash: when execute_compensations leaves ROLLED_BACK and   *)
(* the request returns, every effect of the saga was compensated or is     *)
(* named by a dead letter.                                                 *)
THEOREM RolledBackHolds ==
  ASSUME NEW t, Thread = {t}, MaxCrash = 0
  PROVE  Spec => []RolledBackMeansUndone
<1>1. SerialInv(t) => RolledBackMeansUndone
  BY DEF SerialInv, VerdictOK, RolledBackMeansUndone, AtRest
<1> QED
  BY <1>1, SerialHolds, PTL

(* NoOrphan under the same assumptions: whatever gate, failure or outcome  *)
(* a step met, an effect that stays in place is recorded as COMMITTED in a *)
(* saga that is committed or held for approval, or an operator is told.    *)
THEOREM NoOrphanHolds ==
  ASSUME NEW t, Thread = {t}, MaxCrash = 0
  PROVE  Spec => []NoOrphan
<1>1. SafeInv /\ SerialInv(t) => NoOrphan
  <2> SUFFICES ASSUME SafeInv, SerialInv(t), AtRest,
                      NEW s \in Step, InPlace(s)
               PROVE  \/ /\ effect[s] = "COMMITTED"
                         /\ status \in {"COMMITTED", "AWAITING_APPROVAL"}
                      \/ status = "COMPENSATION_FAILED"
                      \/ s \in dead
    BY DEF NoOrphan
  <2>1. pc[t] = "idle" /\ ~doubt[t]
    BY DEF AtRest, SafeInv, OwnerOK, SureOK, SurePC
  <2>2. s \in dead \/ effect[s] = "COMMITTED"
    BY <2>1 DEF SerialInv, Attended, UndoPC
  <2>3. hits[s] # 0 /\ hits[s] > 0
    BY DEF InPlace, SafeInv, TypeOK
  <2>4. \/ status \in {"COMMITTED", "AWAITING_APPROVAL", "COMPENSATION_FAILED"}
        \/ s \in dead
    BY <2>1, <2>3 DEF SerialInv, VerdictOK, SafeInv, TypeOK, StoreTypeOK,
       SagaStatus
  <2> QED
    BY <2>2, <2>4
<1> QED
  BY <1>1, SerialHolds, SafeInvHolds, PTL

-----------------------------------------------------------------------------
(* A move of a record that is there leaves both orders alone.              *)
LEMMA LifoMove ==
  ASSUME TypeOK, NEW t \in Thread, LifoInv(t), NEW s \in Step,
         NEW new \in EffectState, effect[s] # "ABSENT",
         effect' = [effect EXCEPT ![s] = new],
         UNCHANGED <<order, completed>>,
         \/ new \in Owing \cup {"COMPENSATED"}
         \/ effect[s] \notin Owing \cup {"COMPENSATED"}
  PROVE  JournalOK'
<1>1. /\ effect \in [Step -> EffectState \cup {"ABSENT"}]
      /\ \A i \in DOMAIN order : order[i] \in Step
      /\ \A i \in DOMAIN completed : completed[i] \in Step
      /\ new # "ABSENT"
  BY DEF TypeOK, StoreTypeOK, EffectState
<1>2. \A r \in Step : effect'[r] # "ABSENT" => effect[r] # "ABSENT"
  BY <1>1
<1>3. \A r \in Step : effect[r] # "ABSENT" => effect'[r] # "ABSENT"
  BY <1>1
<1>4. OrderOK'
  BY <1>1, <1>3 DEF LifoInv, JournalOK, OrderOK
<1>5. \A i \in DOMAIN completed : effect'[completed[i]] \in Owing \cup {"COMPENSATED"}
  BY <1>1 DEF LifoInv, JournalOK, CompletedOK
<1>6. CompletedOK'
  BY <1>5 DEF LifoInv, JournalOK, CompletedOK
<1> QED
  BY <1>2, <1>4, <1>6 DEF LifoInv, JournalOK

(* What a step of the thread does to the journal and to its own list keeps *)
(* them in the same order.                                                 *)
LEMMA LifoWork ==
  ASSUME SafeInv, SafeInv', NEW t \in Thread, LifoInv(t), Work(t),
         pc[t] \in {"append", "commit"} => effect[Current(t)] = "APPLIED"
  PROVE  LifoInv(t)'
<1>0. /\ pc \in [Thread -> ThreadPC] /\ todo \in [Thread -> Seq(Step)]
      /\ cursor \in [Thread -> Nat] /\ completed \in Seq(Step)
      /\ order \in Seq(Step)
      /\ effect \in [Step -> EffectState \cup {"ABSENT"}]
      /\ PositionOK(t) /\ SureOK(t) /\ OwnerOK(t)
  BY DEF SafeInv, TypeOK, StoreTypeOK, OwnerOK
<1> USE DEF LifoInv, JournalOK, OrderOK, CompletedOK, LastOK, AheadOK, Owing, Current,
   Undoing, Goto, Return, CanMove, MoveEffect, WriteStatus, WriteStatusHolding,
   PushDeadLetter, storeVars, memVars, threadVars, UndoPC
<1>a. CASE ReadPending(t)
  BY <1>0, <1>a DEF ReadPending
<1>b. CASE TakeNothing(t)
  BY <1>0, <1>b DEF TakeNothing
<1>1. CASE TakePending(t)
  BY <1>0, <1>1 DEF TakePending
<1>2. CASE Resume(t)
  BY <1>0, <1>2 DEF Resume
<1>3. CASE Rejecting(t)
  BY <1>0, <1>3 DEF Rejecting
<1>4. CASE SkipCommitted(t)
  BY <1>0, <1>4 DEF SkipCommitted
<1>5. CASE RejectStep(t)
  BY <1>0, <1>5 DEF RejectStep
<1>6. CASE HoldForApproval(t)
  BY <1>0, <1>6 DEF HoldForApproval
<1>7. CASE Await(t)
  BY <1>0, <1>7 DEF Await
<1>8. CASE AdmitStep(t)
  BY <1>0, <1>8 DEF AdmitStep
<1>9. CASE Prepare(t)
  <2>1. /\ Current(t) \in Step /\ pc[t] = "prepare"
        /\ pc' = [pc EXCEPT ![t] = "mark"]
        /\ UNCHANGED <<completed, todo, cursor>>
    BY <1>0, <1>9, CurrentType DEF Prepare, StepPC, SafeInv
  <2>2. CASE effect[Current(t)] = "ABSENT"
    <3>1. /\ effect' = [effect EXCEPT ![Current(t)] = "PREPARED"]
          /\ order' = Append(order, Current(t))
      BY <1>9, <2>2 DEF Prepare, PrepareEffect
    <3>2. /\ DOMAIN order' = 1..(Len(order) + 1) /\ DOMAIN order = 1..Len(order)
          /\ Len(order') = Len(order) + 1 /\ Len(order) \in Nat
          /\ \A i \in DOMAIN order : order'[i] = order[i]
          /\ order'[Len(order) + 1] = Current(t)
      BY <1>0, <2>1, <3>1
    <3>3. \A i \in DOMAIN completed : completed[i] # Current(t)
      BY <1>0, <2>2
    <3>4. \A i \in DOMAIN order : order[i] \in Step /\ order[i] # Current(t)
      BY <1>0, <2>2
    <3>5. OrderOK'
      BY <1>0, <2>1, <3>1, <3>2, <3>4
    <3>6. ASSUME NEW s \in Step, effect'[s] # "ABSENT"
          PROVE  \E p \in DOMAIN order' : order'[p] = s
      <4>1. CASE s = Current(t)
        BY <3>2, <4>1
      <4>2. CASE s # Current(t)
        <5>1. PICK p \in DOMAIN order : order[p] = s
          BY <1>0, <2>1, <3>1, <3>6, <4>2
        <5>2. p \in DOMAIN order' /\ order'[p] = s
          BY <3>2, <5>1
        <5> QED
          BY <5>2
      <4> QED
        BY <4>1, <4>2
    <3>7. CompletedOK'
      BY <1>0, <2>1, <3>1, <3>2, <3>3
    <3>8. LastOK(t)'
      BY <1>0, <2>1, <3>1, <3>2
    <3>9. AheadOK(t)'
      BY <1>0, <2>1, <3>1
    <3> QED
      BY <3>5, <3>6, <3>7, <3>8, <3>9
  <2>3. CASE effect[Current(t)] # "ABSENT"
    <3>1. UNCHANGED <<effect, order>>
      BY <1>9, <2>3 DEF Prepare, PrepareEffect
    <3> QED
      BY <1>0, <2>1, <3>1
  <2> QED
    BY <2>2, <2>3
<1>10. CASE MarkExecuting(t)
  <2>1. Current(t) \in Step /\ pc[t] = "mark"
    BY <1>0, <1>10, CurrentType DEF MarkExecuting, StepPC, SafeInv
  <2>2. CASE effect[Current(t)] = "PREPARED"
    <3>1. /\ effect' = [effect EXCEPT ![Current(t)] = "EXECUTING"]
          /\ pc' = [pc EXCEPT ![t] = "execute"]
          /\ UNCHANGED <<order, completed, todo, cursor>>
      BY <1>10, <2>2 DEF MarkExecuting
    <3>2. JournalOK'
      BY <2>1, <2>2, <3>1, LifoMove DEF EffectState, SafeInv
    <3>3. LastOK(t)' /\ AheadOK(t)'
      BY <1>0, <2>1, <2>2, <3>1
    <3> QED
      BY <3>2, <3>3
  <2>3. CASE effect[Current(t)] # "PREPARED"
    BY <1>0, <1>10, <2>1, <2>3 DEF MarkExecuting
  <2> QED
    BY <2>2, <2>3
<1>11. CASE Execute(t)
  <2>1. pc[t] = "execute" /\ pc'[t] \in {"record", "abort", "rollback"}
    BY <1>0, <1>11 DEF Execute
  <2>2. UNCHANGED <<effect, order, completed, todo, cursor>>
    BY <1>11 DEF Execute
  <2> QED
    BY <1>0, <2>1, <2>2
<1>12. CASE RecordApplied(t)
  <2>1. /\ Current(t) \in Step /\ effect[Current(t)] = "EXECUTING" /\ pc[t] = "record"
    BY <1>0, <1>12, CurrentType DEF RecordApplied, SureOK, OwnerOK, Owns, DoubtPC, StepPC, SafeInv
  <2>2. /\ effect' = [effect EXCEPT ![Current(t)] = "APPLIED"]
        /\ pc' = [pc EXCEPT ![t] = "append"]
        /\ UNCHANGED <<order, completed, todo, cursor>>
    BY <1>12, <2>1 DEF RecordApplied
  <2>3. JournalOK'
    BY <2>1, <2>2, LifoMove DEF EffectState, SafeInv
  <2>4. \A i \in DOMAIN completed : completed[i] # Current(t)
    BY <2>1
  <2>5. LastOK(t)'
    BY <1>0, <2>1, <2>2, <2>4
  <2>6. AheadOK(t)'
    BY <1>0, <2>1, <2>2
  <2> QED
    BY <2>3, <2>5, <2>6
<1>13. CASE RecordAborted(t)
  <2>1. /\ Current(t) \in Step /\ effect[Current(t)] = "EXECUTING" /\ pc[t] = "abort"
    BY <1>0, <1>13, CurrentType DEF RecordAborted, SureOK, OwnerOK, Owns, DoubtPC, StepPC, SafeInv
  <2>2. /\ effect' = [effect EXCEPT ![Current(t)] = "ABORTED"]
        /\ pc' = [pc EXCEPT ![t] = "rollback"]
        /\ UNCHANGED <<order, completed, todo, cursor>>
    BY <1>13, <2>1 DEF RecordAborted
  <2> QED
    BY <1>0, <2>1, <2>2
<1>14. CASE AppendCompleted(t)
  <2>1. /\ Current(t) \in Step /\ pc[t] = "append" /\ effect[Current(t)] = "APPLIED"
        /\ pc' = [pc EXCEPT ![t] = "commit"]
        /\ UNCHANGED <<effect, order, todo, cursor>>
    BY <1>0, <1>14, CurrentType DEF AppendCompleted, StepPC, SafeInv
  <2>2. /\ DOMAIN completed' = 1..(Len(completed) + 1)
        /\ DOMAIN completed = 1..Len(completed) /\ Len(completed) \in Nat
        /\ \A i \in DOMAIN completed : completed'[i] = completed[i]
        /\ completed'[Len(completed) + 1] = Current(t)
    BY <1>0, <1>14, <2>1 DEF AppendCompleted
  <2>3. \A i \in DOMAIN completed : completed[i] # Current(t)
    BY <2>1
  <2>4. \A i \in DOMAIN completed' : i \in DOMAIN completed \/ i = Len(completed) + 1
    BY <2>2
  <2>5. \A i, j \in DOMAIN completed' : completed'[i] = completed'[j] => i = j
    BY <2>2, <2>3, <2>4
  <2>6. \A i \in DOMAIN completed' : effect'[completed'[i]] \in Owing \cup {"COMPENSATED"}
    BY <2>1, <2>2, <2>4
  <2>7. \A p \in DOMAIN order : order[p] = Current(t) => p = Len(order)
    BY <1>0, <2>1
  <2>8. ASSUME NEW i \in DOMAIN completed', NEW j \in DOMAIN completed',
               NEW p \in DOMAIN order, NEW q \in DOMAIN order,
               i < j, order[p] = completed'[i], order[q] = completed'[j]
        PROVE  p < q
    <3>1. i \in DOMAIN completed
      BY <2>2, <2>4, <2>8
    <3>2. CASE j \in DOMAIN completed
      BY <2>2, <2>8, <3>1, <3>2
    <3>3. CASE j = Len(completed) + 1
      <4>1. q = Len(order) /\ order[p] # Current(t)
        BY <2>2, <2>3, <2>7, <2>8, <3>1, <3>3
      <4>2. p \in 1..Len(order) /\ p # q /\ Len(order) \in Nat
        BY <1>0, <2>1, <2>2, <2>8, <3>3, <4>1
      <4> QED
        BY <4>1, <4>2
    <3> QED
      BY <2>4, <3>2, <3>3
  <2>9. CompletedOK'
    BY <2>1, <2>5, <2>6, <2>8
  <2>10. AheadOK(t)'
    <3>1. ASSUME NEW s \in Step, effect[s] \in Owing
          PROVE  \E i \in DOMAIN completed' : completed'[i] = s
      BY <2>1, <2>2, <2>4, <3>1
    <3> QED
      BY <1>0, <2>1, <3>1
  <2>11. LastOK(t)'
    BY <1>0, <2>1
  <2> QED
    BY <2>1, <2>9, <2>10, <2>11
<1>15. CASE CommitStep(t)
  <2>1. Current(t) \in Step /\ effect[Current(t)] = "APPLIED" /\ pc[t] = "commit"
    BY <1>0, <1>15, CurrentType DEF CommitStep, StepPC, SafeInv
  <2>2. /\ effect' = [effect EXCEPT ![Current(t)] = "COMMITTED"]
        /\ pc' = [pc EXCEPT ![t] = "check"]
        /\ UNCHANGED <<order, completed, cursor>>
    BY <1>15, <2>1 DEF CommitStep, PublishCommit
  <2> QED
    BY <1>0, <2>1, <2>2
<1>16. CASE FinishSteps(t)
  BY <1>0, <1>16 DEF FinishSteps
<1>17. CASE Finish(t)
  BY <1>0, <1>17 DEF Finish
<1>18. CASE Rollback(t)
  BY <1>0, <1>18 DEF Rollback
<1>19. CASE PickEffect(t)
  <2>1. pc[t] = "pick" /\ pc'[t] \in UndoPC
    BY <1>0, <1>19 DEF PickEffect
  <2>2. UNCHANGED <<effect, order, completed, todo, cursor>>
    BY <1>19 DEF PickEffect
  <2> QED
    BY <1>0, <2>1, <2>2
<1>20. CASE MarkCompensating(t)
  <2>1. pc[t] = "marking" /\ Undoing(t) \in Step /\ cursor[t] \in DOMAIN completed
    BY <1>0, <1>20, UndoingType DEF MarkCompensating, SafeInv
  <2>2. CASE effect[Undoing(t)] \in {"APPLIED", "COMMITTED"}
    <3>1. /\ effect' = [effect EXCEPT ![Undoing(t)] = "COMPENSATING"]
          /\ pc' = [pc EXCEPT ![t] = "undo"]
          /\ UNCHANGED <<order, completed, todo, cursor>>
      BY <1>20, <2>2 DEF MarkCompensating
    <3>2. JournalOK'
      BY <2>1, <2>2, <3>1, LifoMove DEF EffectState, SafeInv
    <3>3. LastOK(t)' /\ AheadOK(t)'
      BY <1>0, <2>1, <2>2, <3>1
    <3> QED
      BY <3>2, <3>3
  <2>3. CASE effect[Undoing(t)] \notin {"APPLIED", "COMMITTED"}
    BY <1>0, <1>20, <2>1, <2>3 DEF MarkCompensating
  <2> QED
    BY <2>2, <2>3
<1>21. CASE Undo(t)
  <2>1. pc[t] = "undo" /\ pc'[t] \in {"undone", "fail"}
    BY <1>0, <1>21 DEF Undo
  <2>2. UNCHANGED <<effect, order, completed, todo, cursor>>
    BY <1>21 DEF Undo
  <2> QED
    BY <1>0, <2>1, <2>2
<1>22. CASE RecordCompensated(t)
  <2>1. pc[t] = "undone" /\ Undoing(t) \in Step /\ cursor[t] \in DOMAIN completed
    BY <1>0, <1>22, UndoingType DEF RecordCompensated, SafeInv
  <2>2. CASE effect[Undoing(t)] = "COMPENSATING"
    <3>1. /\ effect' = [effect EXCEPT ![Undoing(t)] = "COMPENSATED"]
          /\ cursor' = [cursor EXCEPT ![t] = @ - 1]
          /\ pc' = [pc EXCEPT ![t] = "pick"]
          /\ UNCHANGED <<order, completed, todo>>
      BY <1>22, <2>2 DEF RecordCompensated
    <3>2. \A j \in DOMAIN completed : j > cursor'[t] => j > cursor[t] \/ j = cursor[t]
      BY <1>0, <2>1, <3>1
    <3>3. \A j \in DOMAIN completed : j > cursor'[t] => effect'[completed[j]] \notin Owing
      BY <1>0, <2>1, <3>1, <3>2
    <3>4. AheadOK(t)'
      BY <1>0, <2>1, <3>1, <3>3
    <3> QED
      BY <1>0, <2>1, <3>1, <3>4
  <2>3. CASE effect[Undoing(t)] # "COMPENSATING"
    BY <1>0, <1>22, <2>1, <2>3 DEF RecordCompensated
  <2> QED
    BY <2>2, <2>3
<1>23. CASE CompensationsDone(t)
  BY <1>0, <1>23 DEF CompensationsDone
<1>24. CASE Close(t)
  BY <1>0, <1>24 DEF Close, LeaveRollback
<1>25. CASE Fail(t)
  BY <1>0, <1>25 DEF Fail
<1>26. CASE FailStatus(t)
  BY <1>0, <1>26 DEF FailStatus
<1>27. CASE FailEffect(t)
  <2>1. pc[t] = "faileffect" /\ Undoing(t) \in Step /\ cursor[t] \in DOMAIN completed
    BY <1>0, <1>27, UndoingType DEF FailEffect, SafeInv
  <2>2. CASE effect[Undoing(t)] = "COMPENSATING"
    <3>1. /\ effect' = [effect EXCEPT ![Undoing(t)] = "COMPENSATION_FAILED"]
          /\ pc' = [pc EXCEPT ![t] = "faildead"]
          /\ UNCHANGED <<order, completed, todo, cursor>>
      BY <1>27, <2>2 DEF FailEffect
    <3>2. JournalOK'
      BY <2>1, <2>2, <3>1, LifoMove DEF EffectState, SafeInv
    <3>3. LastOK(t)' /\ AheadOK(t)'
      BY <1>0, <2>1, <2>2, <3>1
    <3> QED
      BY <3>2, <3>3
  <2>3. CASE effect[Undoing(t)] # "COMPENSATING"
    BY <1>0, <1>27, <2>1, <2>3 DEF FailEffect
  <2> QED
    BY <2>2, <2>3
<1>28. CASE FailDead(t)
  BY <1>0, <1>28 DEF FailDead, LeaveRollback
<1>29. CASE MarkAmbiguous(t)
  <2>1. Current(t) \in Step /\ pc[t] = "ambiguous"
    BY <1>0, <1>29, CurrentType DEF MarkAmbiguous, StepPC, SafeInv
  <2>2. CASE effect[Current(t)] = "EXECUTING"
    <3>1. /\ effect' = [effect EXCEPT ![Current(t)] = "AMBIGUOUS"]
          /\ pc' = [pc EXCEPT ![t] = "ambstatus"]
          /\ UNCHANGED <<order, completed, todo, cursor>>
      BY <1>29, <2>2 DEF MarkAmbiguous
    <3>2. JournalOK'
      BY <2>1, <2>2, <3>1, LifoMove DEF EffectState, SafeInv
    <3>3. LastOK(t)' /\ AheadOK(t)'
      BY <1>0, <2>1, <2>2, <3>1
    <3> QED
      BY <3>2, <3>3
  <2>3. CASE effect[Current(t)] # "EXECUTING"
    BY <1>0, <1>29, <2>1, <2>3 DEF MarkAmbiguous
  <2> QED
    BY <2>2, <2>3
<1>30. CASE AmbiguousStatus(t)
  BY <1>0, <1>30 DEF AmbiguousStatus
<1>31. CASE AmbiguousDead(t)
  BY <1>0, <1>31 DEF AmbiguousDead
<1> QED
  BY <1>a, <1>b, <1>1, <1>2, <1>3, <1>4, <1>5, <1>6, <1>7, <1>8, <1>9, <1>10, <1>11, <1>12,
     <1>13, <1>14, <1>15, <1>16, <1>17, <1>18, <1>19, <1>20, <1>21, <1>22, <1>23,
     <1>24, <1>25, <1>26, <1>27, <1>28, <1>29, <1>30, <1>31 DEF Work

(* A compensation runs where everything behind it has been compensated.    *)
LEMMA LifoUndo ==
  ASSUME SafeInv, NEW t \in Thread, LifoInv(t), Work(t),
         NEW i \in DOMAIN order, NEW j \in DOMAIN order,
         i < j, undos'[order[i]] # undos[order[i]]
  PROVE  effect[order[j]] \notin Owing
<1>1. /\ cursor[t] \in Nat /\ completed \in Seq(Step) /\ order \in Seq(Step)
      /\ undos \in [Step -> Nat] /\ PositionOK(t)
  BY DEF SafeInv, TypeOK, StoreTypeOK
<1>2. Undo(t)
  BY DEF Work, ReadPending, TakeNothing, TakePending, Resume, Rejecting, SkipCommitted, RejectStep,
     HoldForApproval, Await, AdmitStep, Prepare, MarkExecuting, Execute,
     RecordApplied, RecordAborted, AppendCompleted, CommitStep, FinishSteps,
     Finish, Rollback, PickEffect, MarkCompensating, RecordCompensated,
     CompensationsDone, Close, Fail, FailStatus, FailEffect, FailDead,
     MarkAmbiguous, AmbiguousStatus, AmbiguousDead, worldVars
<1>3. pc[t] = "undo" /\ order[i] = completed[cursor[t]] /\ cursor[t] \in DOMAIN completed
  BY <1>1, <1>2 DEF Undo, PositionOK, UndoPC, Undoing
<1>4. SUFFICES ASSUME effect[order[j]] \in Owing
               PROVE  FALSE
  OBVIOUS
<1>5. PICK k \in DOMAIN completed : completed[k] = order[j]
  BY <1>1, <1>3, <1>4 DEF LifoInv, AheadOK, JournalOK
<1>6. ~(k > cursor[t])
  BY <1>3, <1>4, <1>5 DEF LifoInv, AheadOK, JournalOK, UndoPC
<1>7. i \in Nat /\ j \in Nat /\ k \in Nat
  BY <1>1
<1>8. k # cursor[t]
  BY <1>3, <1>5, <1>7 DEF LifoInv, JournalOK, OrderOK
<1>9. j < i
  BY <1>1, <1>3, <1>5, <1>6, <1>7, <1>8 DEF LifoInv, JournalOK, CompletedOK
<1> QED
  BY <1>7, <1>9

(* LifoCompensation for a process that serves one request at a time and    *)
(* does not crash: execute_compensations walks its list of completed steps *)
(* backwards, and that list follows the journal.                           *)
THEOREM LifoHolds ==
  ASSUME NEW t, Thread = {t}, MaxCrash = 0
  PROVE  Spec => LifoCompensation
<1>1. Init => LifoInv(t)
  BY DEF Init, StoreInit, LifoInv, JournalOK, OrderOK, CompletedOK, LastOK, AheadOK,
     Owing, UndoPC
<1>2. SafeInv /\ SafeInv' /\ SerialInv(t) /\ LifoInv(t) /\ [Next]_vars => LifoInv(t)'
  <2> SUFFICES ASSUME SafeInv, SafeInv', SerialInv(t), LifoInv(t), [Next]_vars
               PROVE  LifoInv(t)'
    OBVIOUS
  <2>1. CASE Work(t)
    BY <2>1, LifoWork DEF SerialInv
  <2>2. CASE Start \/ Request(t)
    <3>1. UNCHANGED <<effect, order, completed>>
      BY <2>2 DEF Start, Request, Submit, Approve, Reject, WriteStatus,
         storeVars, memVars
    <3>2. UNCHANGED <<pc, todo, cursor>> \/
          (pc[t] = "idle" /\ pc'[t] \in {"check", "approve", "rejecting"})
      BY <2>2 DEF Start, Request, Submit, Approve, Reject, Goto, threadVars,
         SafeInv, TypeOK
    <3> QED
      BY <3>1, <3>2 DEF LifoInv, JournalOK, OrderOK, CompletedOK, LastOK, AheadOK,
         Current, UndoPC
  <2>3. CASE UNCHANGED vars
    BY <2>3 DEF vars, storeVars, memVars, threadVars, LifoInv, JournalOK, OrderOK,
       CompletedOK, LastOK, AheadOK, Current
  <2> QED
    BY <2>1, <2>2, <2>3, NoCrash DEF SerialInv
<1>3. SafeInv /\ SerialInv(t) /\ LifoInv(t) /\ [Next]_vars =>
        [\A i, j \in DOMAIN order :
           i < j /\ undos'[order[i]] # undos[order[i]] =>
             effect[order[j]] \notin
               {"APPLIED", "COMMITTED", "COMPENSATING", "COMPENSATION_FAILED"}]_vars
  <2> SUFFICES ASSUME SafeInv, SerialInv(t), LifoInv(t), Next,
                      NEW i \in DOMAIN order, NEW j \in DOMAIN order,
                      i < j, undos'[order[i]] # undos[order[i]]
               PROVE  effect[order[j]] \notin Owing
    BY DEF Owing
  <2>1. ~Start /\ ~Request(t)
    BY DEF Start, Request, Submit, Approve, Reject, worldVars
  <2>2. Work(t)
    BY <2>1, NoCrash DEF SerialInv
  <2> QED
    BY <2>2, LifoUndo
<1> QED
  BY <1>1, <1>2, <1>3, SafeInvHolds, SerialHolds, PTL DEF Spec, LifoCompensation

-----------------------------------------------------------------------------
(***************************************************************************)
(* A saga of one batch that one thread serves, with a process that crashes *)
(* anywhere and any number of times, recovery included: BatchInv is        *)
(* inductive, and with it the coordinator implements SagaOutcome, loses no *)
(* effect from sight and compensates in the order of the journal.  The     *)
(* tools report what they did: after a call that raised or timed out, a    *)
(* crash between the write of ROLLED_BACK and the mark of AMBIGUOUS leaves *)
(* an effect in place under that status.                                   *)
(***************************************************************************)

(* A request neither meets nor forgets a saga.                             *)
LEMMA WorkKnows ==
  ASSUME NEW t \in Thread, Work(t)
  PROVE  known' = known
BY DEF Work, ReadPending, TakeNothing, TakePending, Resume, Rejecting, SkipCommitted, RejectStep,
   HoldForApproval, Await, AdmitStep, Prepare, MarkExecuting, Execute,
   RecordApplied, RecordAborted, AppendCompleted, CommitStep, FinishSteps,
   Finish, Rollback, PickEffect, MarkCompensating, Undo, RecordCompensated,
   CompensationsDone, Close, Fail, FailStatus, FailEffect, FailDead,
   MarkAmbiguous, AmbiguousStatus, AmbiguousDead, memVars

(* A request moves the two statuses together.                              *)
LEMMA BatchStage ==
  ASSUME SafeInv, SafeInv', WorldInv, NEW t \in Thread, BatchInv(t), Work(t),
         ToolOutcome \subseteq {"ok", "failed"}
  PROVE  StageOK(t)' /\ KnownOK(t)' /\ UnbegunOK(t)'
<1>0. /\ pc \in [Thread -> ThreadPC] /\ todo \in [Thread -> Seq(Step)]
      /\ doubt \in [Thread -> BOOLEAN]
      /\ effect \in [Step -> EffectState \cup {"ABSENT"}]
      /\ OwnerOK(t) /\ SureOK(t) /\ proc = "up" /\ known /\ submitted # {}
      /\ StageOK(t) /\ KnownOK(t) /\ UnbegunOK(t) /\ MiddleOK(t) /\ ForwardOK(t)
      /\ UNCHANGED <<proc, known, submitted>>
  <2>1. pc[t] # "idle" /\ UNCHANGED <<proc, submitted>>
    BY WorkBusy, WorkFrame DEF SafeInv
  <2>2. UNCHANGED known
    BY WorkKnows
  <2> QED
    BY <2>1, <2>2 DEF SafeInv, TypeOK, StoreTypeOK, OwnerOK, ProcessOK, BatchInv,
       KnownOK, UnbegunOK
<1> USE DEF StageOK, KnownOK, UnbegunOK, MiddleOK, ForwardOK, MidPC, ForwardPC,
   RollbackPC, Decided, Terminal, Goto, Return, CanMove, MoveEffect, WriteStatus,
   WriteStatusHolding, PushDeadLetter, LeaveRollback, storeVars, memVars, threadVars,
   worldVars, envVars
<1>a. CASE ReadPending(t)
  BY <1>0, <1>a DEF ReadPending
<1>b. CASE TakeNothing(t)
  BY <1>0, <1>b DEF TakeNothing
<1>1. CASE TakePending(t)
  BY <1>0, <1>1 DEF TakePending
<1>2. CASE Resume(t)
  BY <1>0, <1>2 DEF Resume
<1>3. CASE Rejecting(t)
  BY <1>0, <1>3 DEF Rejecting
<1>4. CASE SkipCommitted(t)
  BY <1>0, <1>4 DEF SkipCommitted
<1>5. CASE RejectStep(t)
  BY <1>0, <1>5 DEF RejectStep
<1>6. CASE HoldForApproval(t)
  BY <1>0, <1>6 DEF HoldForApproval
<1>7. CASE Await(t)
  BY <1>0, <1>7 DEF Await
<1>8. CASE AdmitStep(t)
  BY <1>0, <1>8 DEF AdmitStep
<1>9. CASE Prepare(t)
  BY <1>0, <1>9 DEF Prepare, PrepareEffect
<1>10. CASE MarkExecuting(t)
  BY <1>0, <1>10 DEF MarkExecuting
<1>11. CASE Execute(t)
  BY <1>0, <1>11 DEF Execute
<1>12. CASE RecordApplied(t)
  BY <1>0, <1>12 DEF RecordApplied, OwnerOK, Owns, SureOK, DoubtPC
<1>13. CASE RecordAborted(t)
  BY <1>0, <1>13 DEF RecordAborted, OwnerOK, Owns, SureOK, DoubtPC
<1>14. CASE AppendCompleted(t)
  BY <1>0, <1>14 DEF AppendCompleted
<1>15. CASE CommitStep(t)
  BY <1>0, <1>15 DEF CommitStep, PublishCommit
<1>16. CASE FinishSteps(t)
  BY <1>0, <1>16 DEF FinishSteps
<1>17. CASE Finish(t)
  BY <1>0, <1>17 DEF Finish
<1>18. CASE Rollback(t)
  BY <1>0, <1>18 DEF Rollback
<1>19. CASE PickEffect(t)
  BY <1>0, <1>19 DEF PickEffect
<1>20. CASE MarkCompensating(t)
  BY <1>0, <1>20 DEF MarkCompensating
<1>21. CASE Undo(t)
  BY <1>0, <1>21 DEF Undo
<1>22. CASE RecordCompensated(t)
  BY <1>0, <1>22 DEF RecordCompensated
<1>23. CASE CompensationsDone(t)
  BY <1>0, <1>23 DEF CompensationsDone
<1>24. CASE Close(t)
  BY <1>0, <1>24 DEF Close
<1>25. CASE Fail(t)
  BY <1>0, <1>25 DEF Fail
<1>26. CASE FailStatus(t)
  BY <1>0, <1>26 DEF FailStatus
<1>27. CASE FailEffect(t)
  BY <1>0, <1>27 DEF FailEffect
<1>28. CASE FailDead(t)
  BY <1>0, <1>28 DEF FailDead
<1>29. CASE MarkAmbiguous(t)
  BY <1>0, <1>29 DEF MarkAmbiguous
<1>30. CASE AmbiguousStatus(t)
  BY <1>0, <1>30 DEF AmbiguousStatus
<1>31. CASE AmbiguousDead(t)
  BY <1>0, <1>31 DEF AmbiguousDead
<1> QED
  BY <1>a, <1>b, <1>1, <1>2, <1>3, <1>4, <1>5, <1>6, <1>7, <1>8, <1>9, <1>10, <1>11,
     <1>12, <1>13, <1>14, <1>15, <1>16, <1>17, <1>18, <1>19, <1>20, <1>21,
     <1>22, <1>23, <1>24, <1>25, <1>26, <1>27, <1>28, <1>29, <1>30, <1>31
     DEF Work

(* The head of the list moves on.                                          *)
LEMMA HeadMoves ==
  ASSUME TypeOK, NEW list \in Seq(Step), list # <<>>, Remaining(list, TRUE),
         effect[Head(list)] # "COMMITTED",
         NEW new, effect' = [effect EXCEPT ![Head(list)] = new]
  PROVE  Remaining(list, TRUE)'
<1>1. Head(list) = list[1] /\ 1 \in DOMAIN list /\ \A i \in DOMAIN list : list[i] \in Step
  OBVIOUS
<1>2. \A s \in Step : s # list[1] => effect'[s] = effect[s]
  BY <1>1 DEF TypeOK, StoreTypeOK
<1>3. \A i \in DOMAIN list : i > 1 => list[i] # list[1]
  BY <1>1 DEF Remaining
<1>4. \A s \in Step : Done(s) => Done(s)'
  BY <1>1, <1>2 DEF Done, SameKey
<1> QED
  BY <1>1, <1>2, <1>3, <1>4 DEF Remaining

(* ... and is done.                                                        *)
LEMMA HeadDone ==
  ASSUME TypeOK, NEW list \in Seq(Step), list # <<>>, Remaining(list, TRUE),
         effect' = [effect EXCEPT ![Head(list)] = "COMMITTED"]
  PROVE  Remaining(Tail(list), FALSE)'
<1>1. /\ Head(list) = list[1] /\ 1 \in DOMAIN list
      /\ \A i \in DOMAIN list : list[i] \in Step
      /\ \A i \in DOMAIN Tail(list) : Tail(list)[i] = list[i + 1] /\ i + 1 \in DOMAIN list
                                      /\ i + 1 > 1 /\ i \in Nat
      /\ \A i \in DOMAIN list : i = 1 \/ (i > 1 /\ i - 1 \in DOMAIN Tail(list)
                                      /\ Tail(list)[i - 1] = list[i])
  OBVIOUS
<1>2. /\ \A s \in Step : s # list[1] => effect'[s] = effect[s]
      /\ effect'[list[1]] = "COMMITTED"
  BY <1>1 DEF TypeOK, StoreTypeOK
<1>3. \A i \in DOMAIN list : i > 1 => list[i] # list[1]
  BY <1>1 DEF Remaining
<1>4. \A s \in Step : Done(s) => Done(s)'
  BY <1>1, <1>2 DEF Done, SameKey
<1>5. Done(list[1])'
  BY <1>1, <1>2 DEF Done, SameKey
<1>6. \A i, j \in DOMAIN Tail(list) : Tail(list)[i] = Tail(list)[j] => i = j
  BY <1>1 DEF Remaining
<1>7. \A i \in DOMAIN Tail(list) : effect'[Tail(list)[i]] = "ABSENT"
  BY <1>1, <1>2, <1>3 DEF Remaining
<1>8. \A s \in Step : effect'[s] \in {"ABSENT", "COMMITTED"}
  BY <1>2 DEF Remaining
<1>9. \A s \in Step : Done(s)' \/ \E i \in DOMAIN Tail(list) : Tail(list)[i] = s
  <2> SUFFICES ASSUME NEW s \in Step, ~Done(s)'
               PROVE  \E i \in DOMAIN Tail(list) : Tail(list)[i] = s
    OBVIOUS
  <2>1. PICK i \in DOMAIN list : list[i] = s
    BY <1>4 DEF Remaining
  <2>2. i - 1 \in DOMAIN Tail(list) /\ Tail(list)[i - 1] = s
    BY <1>1, <1>5, <2>1
  <2> QED
    BY <2>2
<1> QED
  BY <1>6, <1>7, <1>8, <1>9 DEF Remaining

(* A head that is skipped counts as done.                                  *)
LEMMA HeadSkipped ==
  ASSUME TypeOK, KeyOK, NEW list \in Seq(Step), list # <<>>, Remaining(list, FALSE),
         AlreadyCommitted(Head(list)), effect' = effect
  PROVE  Remaining(Tail(list), FALSE)'
<1>1. /\ Head(list) = list[1] /\ 1 \in DOMAIN list
      /\ \A i \in DOMAIN list : list[i] \in Step
      /\ \A i \in DOMAIN Tail(list) : Tail(list)[i] = list[i + 1] /\ i + 1 \in DOMAIN list
                                      /\ i + 1 > 1 /\ i \in Nat
      /\ \A i \in DOMAIN list : i = 1 \/ (i > 1 /\ i - 1 \in DOMAIN Tail(list)
                                      /\ Tail(list)[i - 1] = list[i])
  OBVIOUS
<1>2. Done(list[1])
  <2>1. PICK r \in SameKey[list[1]] : effect[r] \in {"COMMITTED"} \cup Reversing
    BY <1>1 DEF KeyOK
  <2>2. r \in Step
    BY <1>1, <2>1 DEF SameKey
  <2> QED
    BY <2>1, <2>2 DEF Remaining, Done, Reversing
<1>3. \A s \in Step : Done(s)' = Done(s)
  BY DEF Done
<1>4. \A i, j \in DOMAIN Tail(list) : Tail(list)[i] = Tail(list)[j] => i = j
  BY <1>1 DEF Remaining
<1>5. \A i \in DOMAIN Tail(list) : effect[Tail(list)[i]] = "ABSENT"
  BY <1>1 DEF Remaining
<1>6. \A s \in Step : Done(s) \/ \E i \in DOMAIN Tail(list) : Tail(list)[i] = s
  <2> SUFFICES ASSUME NEW s \in Step, ~Done(s)
               PROVE  \E i \in DOMAIN Tail(list) : Tail(list)[i] = s
    OBVIOUS
  <2>1. PICK i \in DOMAIN list : list[i] = s
    BY DEF Remaining
  <2>2. i - 1 \in DOMAIN Tail(list) /\ Tail(list)[i - 1] = s
    BY <1>1, <1>2, <2>1
  <2> QED
    BY <2>2
<1> QED
  BY <1>3, <1>4, <1>5, <1>6 DEF Remaining

(* The remainder of a batch is a matter of the journal.                    *)
LEMMA RemainingStays ==
  ASSUME NEW list, NEW begun, Remaining(list, begun), effect' = effect
  PROVE  Remaining(list, begun)'
BY DEF Remaining, Done

(* It is the same list under any name.                                     *)
LEMMA RemainingThere ==
  ASSUME NEW list
  PROVE  /\ \A t \in Thread : todo'[t] = list =>
              /\ Remaining(list, TRUE)' => Remaining(todo[t], TRUE)'
              /\ Remaining(list, FALSE)' => Remaining(todo[t], FALSE)'
         /\ held' = list /\ Remaining(list, FALSE)' => Remaining(held, FALSE)'
BY DEF Remaining, Done

(* The batch goes on from its head.                                        *)
LEMMA BatchForward ==
  ASSUME SafeInv, SafeInv', WorldInv, NEW t \in Thread, BatchInv(t), Work(t),
         ToolOutcome \subseteq {"ok", "failed"}
  PROVE  ForwardOK(t)' /\ MiddleOK(t)'
<1>0. /\ pc \in [Thread -> ThreadPC] /\ todo \in [Thread -> Seq(Step)]
      /\ OwnerOK(t) /\ PositionOK(t) /\ held \in Seq(Step)
      /\ effect \in [Step -> EffectState \cup {"ABSENT"}]
      /\ StageOK(t) /\ MiddleOK(t) /\ ForwardOK(t) /\ StageOK(t)'
  BY BatchStage DEF SafeInv, TypeOK, StoreTypeOK, BatchInv
<1> USE DEF StageOK, MiddleOK, ForwardOK, MidPC, ForwardPC,
   RollbackPC, Goto, Return, CanMove, MoveEffect, WriteStatus,
   WriteStatusHolding, PushDeadLetter, LeaveRollback, storeVars, memVars, threadVars
<1>a. CASE ReadPending(t)
  <2>1. /\ pc[t] = "approve" /\ pc'[t] \in {"take", "nothing"} /\ todo'[t] = held
        /\ UNCHANGED <<effect, status, held>>
    BY <1>0, <1>a DEF ReadPending
  <2>2. PICK list \in Seq(Step) : list = held
    BY <1>0
  <2>3. Remaining(list, FALSE) /\ list # <<>>
    BY <1>0, <2>1, <2>2
  <2>4. Remaining(list, FALSE)'
    BY <2>1, <2>3, RemainingStays
  <2>5. Remaining(held, FALSE)'
    BY <2>1, <2>2, <2>4, RemainingThere
  <2> QED
    BY <1>0, <2>1, <2>2, <2>3, <2>5
<1>b. CASE TakeNothing(t)
  BY <1>0, <1>b DEF TakeNothing
<1>1. CASE TakePending(t)
  <2>1. /\ pc[t] = "take" /\ pc'[t] = "resume"
        /\ UNCHANGED <<effect, todo, status, held>>
    BY <1>0, <1>1 DEF TakePending
  <2>2. PICK list \in Seq(Step) : list = held
    BY <1>0
  <2>3. Remaining(list, FALSE) /\ list # <<>>
    BY <1>0, <2>1, <2>2
  <2>4. Remaining(list, FALSE)'
    BY <2>1, <2>3, RemainingStays
  <2>5. Remaining(held, FALSE)'
    BY <2>1, <2>2, <2>4, RemainingThere
  <2> QED
    BY <1>0, <2>1, <2>2, <2>3, <2>5
<1>2. CASE Resume(t)
  <2>1. /\ pc[t] = "resume" /\ pc'[t] = "check"
        /\ UNCHANGED <<effect, idem, todo>>
    BY <1>0, <1>2 DEF Resume
  <2>2. PICK list \in Seq(Step) : list = todo[t]
    BY <1>0
  <2>3. Remaining(list, FALSE)
    BY <1>0, <2>1, <2>2
  <2>4. Remaining(list, FALSE)'
    BY <2>1, <2>3, RemainingStays
  <2>5. todo'[t] = list /\ Current(t)' = Current(t)
    BY <2>1, <2>2 DEF Current
  <2>6. Remaining(todo[t], FALSE)'
    BY <2>4, <2>5, RemainingThere
  <2> QED
    BY <1>0, <2>1, <2>5, <2>6 DEF AlreadyCommitted
<1>3. CASE Rejecting(t)
  BY <1>0, <1>3 DEF Rejecting
<1>4. CASE SkipCommitted(t)
  <2>1. /\ pc[t] = "check" /\ todo[t] # <<>> /\ AlreadyCommitted(Head(todo[t]))
        /\ todo' = [todo EXCEPT ![t] = Tail(@)]
        /\ UNCHANGED <<effect, status, held, pc>>
    BY <1>4 DEF SkipCommitted, Current
  <2>2. PICK list \in Seq(Step) : list = todo[t]
    BY <1>0
  <2>3. Remaining(list, FALSE)
    BY <1>0, <2>1, <2>2
  <2>4. list # <<>> /\ AlreadyCommitted(Head(list))
    BY <2>1, <2>2
  <2>5. Remaining(Tail(list), FALSE)'
    BY <2>1, <2>3, <2>4, HeadSkipped DEF SafeInv, BatchInv
  <2>6. todo'[t] = Tail(list)
    BY <1>0, <2>1, <2>2
  <2>7. Remaining(todo[t], FALSE)'
    BY <2>5, <2>6, RemainingThere
  <2> QED
    BY <1>0, <2>1, <2>7
<1>5. CASE RejectStep(t)
  BY <1>0, <1>5 DEF RejectStep
<1>6. CASE HoldForApproval(t)
  <2>1. /\ pc[t] = "check" /\ pc'[t] = "await" /\ todo[t] # <<>> /\ pending' = todo[t]
        /\ UNCHANGED <<effect, todo, status, held>>
    BY <1>0, <1>6 DEF HoldForApproval
  <2>2. PICK list \in Seq(Step) : list = todo[t]
    BY <1>0
  <2>3. Remaining(list, FALSE)
    BY <1>0, <2>1, <2>2
  <2>4. Remaining(list, FALSE)'
    BY <2>1, <2>3, RemainingStays
  <2>5. Remaining(todo[t], FALSE)'
    BY <2>1, <2>2, <2>4, RemainingThere
  <2> QED
    BY <1>0, <2>1, <2>5
<1>7. CASE Await(t)
  <2>1. /\ pc[t] = "await" /\ pc'[t] = "idle" /\ effect' = effect /\ held' = todo[t]
    BY <1>0, <1>7 DEF Await
  <2>2. PICK list \in Seq(Step) : list = todo[t]
    BY <1>0
  <2>3. Remaining(list, FALSE) /\ list # <<>>
    BY <1>0, <2>1, <2>2
  <2>4. Remaining(list, FALSE)'
    BY <2>1, <2>3, RemainingStays
  <2>5. Remaining(held, FALSE)'
    BY <2>1, <2>2, <2>4, RemainingThere
  <2> QED
    BY <1>0, <2>1, <2>2, <2>3, <2>5
<1>8. CASE AdmitStep(t)
  <2>1. /\ pc[t] = "check" /\ todo[t] # <<>> /\ ~AlreadyCommitted(Current(t))
        /\ pc' = [pc EXCEPT ![t] = "prepare"]
        /\ UNCHANGED <<effect, idem, status, held, todo>>
    BY <1>8 DEF AdmitStep
  <2>2. PICK list \in Seq(Step) : list = todo[t]
    BY <1>0
  <2>3. Remaining(list, FALSE) /\ 1 \in DOMAIN list /\ Current(t) = list[1]
    <3>1. list # <<>> /\ Current(t) = Head(list)
      BY <2>1, <2>2 DEF Current
    <3>2. 1 \in DOMAIN list /\ Head(list) = list[1]
      BY <3>1
    <3> QED
      BY <1>0, <2>1, <2>2, <3>1, <3>2
  <2>4. pc'[t] = "prepare" /\ todo'[t] = list /\ Current(t)' = Current(t)
    BY <1>0, <2>1, <2>2 DEF Current
  <2>5. Remaining(list, TRUE)' /\ effect'[Current(t)] = "ABSENT"
    BY <2>1, <2>3 DEF Remaining, Done
  <2>6. Remaining(todo[t], TRUE)'
    BY <2>4, <2>5, RemainingThere
  <2> QED
    BY <1>0, <2>1, <2>4, <2>5, <2>6 DEF AlreadyCommitted
<1>9. CASE Prepare(t)
  <2>1. /\ Current(t) \in Step /\ pc[t] = "prepare" /\ todo[t] # <<>>
        /\ effect[Current(t)] = "ABSENT"
    BY <1>0, <1>9, CurrentType DEF Prepare, StepPC, SafeInv, PositionOK, OwnerOK, Owns, SureOK, DoubtPC
  <2>2. /\ effect' = [effect EXCEPT ![Current(t)] = "PREPARED"]
        /\ pc' = [pc EXCEPT ![t] = "mark"]
        /\ UNCHANGED <<todo, idem, status, held>>
    BY <1>9, <2>1 DEF Prepare, PrepareEffect
  <2>3. PICK list \in Seq(Step) : list = todo[t]
    BY <1>0
  <2>4. Remaining(list, TRUE)
    BY <1>0, <2>1, <2>3
  <2>5. Remaining(list, TRUE)'
    BY <2>1, <2>2, <2>3, <2>4, HeadMoves DEF SafeInv, Current
  <2>6. pc'[t] = "mark" /\ todo'[t] = list
    BY <1>0, <2>2, <2>3
  <2>7. Remaining(todo[t], TRUE)'
    BY <2>5, <2>6, RemainingThere
  <2>8. Current(t)' = Current(t) /\ effect'[Current(t)] = "PREPARED"
    BY <1>0, <2>1, <2>2 DEF Current
  <2> QED
    BY <1>0, <2>1, <2>2, <2>6, <2>7, <2>8 DEF AlreadyCommitted
<1>10. CASE MarkExecuting(t)
  <2>1. /\ Current(t) \in Step /\ pc[t] = "mark" /\ todo[t] # <<>>
        /\ effect[Current(t)] = "PREPARED"
    BY <1>0, <1>10, CurrentType DEF MarkExecuting, StepPC, SafeInv, PositionOK, OwnerOK, Owns, SureOK, DoubtPC
  <2>2. /\ effect' = [effect EXCEPT ![Current(t)] = "EXECUTING"]
        /\ pc' = [pc EXCEPT ![t] = "execute"]
        /\ UNCHANGED <<todo, idem, status, held>>
    BY <1>10, <2>1 DEF MarkExecuting, PrepareEffect
  <2>3. PICK list \in Seq(Step) : list = todo[t]
    BY <1>0
  <2>4. Remaining(list, TRUE)
    BY <1>0, <2>1, <2>3
  <2>5. Remaining(list, TRUE)'
    BY <2>1, <2>2, <2>3, <2>4, HeadMoves DEF SafeInv, Current
  <2>6. pc'[t] = "execute" /\ todo'[t] = list
    BY <1>0, <2>2, <2>3
  <2>7. Remaining(todo[t], TRUE)'
    BY <2>5, <2>6, RemainingThere
  <2>8. Current(t)' = Current(t) /\ effect'[Current(t)] = "EXECUTING"
    BY <1>0, <2>1, <2>2 DEF Current
  <2> QED
    BY <1>0, <2>1, <2>2, <2>6, <2>7, <2>8 DEF AlreadyCommitted
<1>11. CASE Execute(t)
  <2>1. /\ pc[t] = "execute" /\ pc'[t] \in {"record", "abort"}
        /\ UNCHANGED <<effect, idem, todo, status, held>>
    BY <1>0, <1>11 DEF Execute
  <2>2. PICK list \in Seq(Step) : list = todo[t]
    BY <1>0
  <2>3. Remaining(list, TRUE)
    BY <1>0, <2>1, <2>2
  <2>4. Remaining(list, TRUE)'
    BY <2>1, <2>3, RemainingStays
  <2>5. todo'[t] = list /\ Current(t)' = Current(t)
    BY <2>1, <2>2 DEF Current
  <2>6. Remaining(todo[t], TRUE)'
    BY <2>4, <2>5, RemainingThere
  <2> QED
    BY <1>0, <2>1, <2>5, <2>6 DEF AlreadyCommitted
<1>12. CASE RecordApplied(t)
  <2>1. /\ Current(t) \in Step /\ pc[t] = "record" /\ todo[t] # <<>>
        /\ effect[Current(t)] = "EXECUTING"
    BY <1>0, <1>12, CurrentType DEF RecordApplied, StepPC, SafeInv, PositionOK, OwnerOK, Owns, SureOK, DoubtPC
  <2>2. /\ effect' = [effect EXCEPT ![Current(t)] = "APPLIED"]
        /\ pc' = [pc EXCEPT ![t] = "append"]
        /\ UNCHANGED <<todo, idem, status, held>>
    BY <1>12, <2>1 DEF RecordApplied, PrepareEffect
  <2>3. PICK list \in Seq(Step) : list = todo[t]
    BY <1>0
  <2>4. Remaining(list, TRUE)
    BY <1>0, <2>1, <2>3
  <2>5. Remaining(list, TRUE)'
    BY <2>1, <2>2, <2>3, <2>4, HeadMoves DEF SafeInv, Current
  <2>6. pc'[t] = "append" /\ todo'[t] = list
    BY <1>0, <2>2, <2>3
  <2>7. Remaining(todo[t], TRUE)'
    BY <2>5, <2>6, RemainingThere
  <2>8. Current(t)' = Current(t) /\ effect'[Current(t)] = "APPLIED"
    BY <1>0, <2>1, <2>2 DEF Current
  <2> QED
    BY <1>0, <2>1, <2>2, <2>6, <2>7, <2>8 DEF AlreadyCommitted
<1>13. CASE RecordAborted(t)
  BY <1>0, <1>13 DEF RecordAborted
<1>14. CASE AppendCompleted(t)
  <2>1. /\ pc[t] = "append" /\ pc'[t] = "commit"
        /\ UNCHANGED <<effect, idem, todo, status, held>>
    BY <1>0, <1>14 DEF AppendCompleted
  <2>2. PICK list \in Seq(Step) : list = todo[t]
    BY <1>0
  <2>3. Remaining(list, TRUE)
    BY <1>0, <2>1, <2>2
  <2>4. Remaining(list, TRUE)'
    BY <2>1, <2>3, RemainingStays
  <2>5. todo'[t] = list /\ Current(t)' = Current(t)
    BY <2>1, <2>2 DEF Current
  <2>6. Remaining(todo[t], TRUE)'
    BY <2>4, <2>5, RemainingThere
  <2> QED
    BY <1>0, <2>1, <2>5, <2>6 DEF AlreadyCommitted
<1>15. CASE CommitStep(t)
  <2>1. /\ Current(t) \in Step /\ pc[t] = "commit" /\ todo[t] # <<>>
        /\ effect[Current(t)] = "APPLIED"
    BY <1>0, <1>15, CurrentType DEF CommitStep, StepPC, SafeInv, PositionOK
  <2>2. /\ effect' = [effect EXCEPT ![Current(t)] = "COMMITTED"]
        /\ pc' = [pc EXCEPT ![t] = "check"]
        /\ todo' = [todo EXCEPT ![t] = Tail(@)]
        /\ UNCHANGED <<status, held>>
    BY <1>0, <1>15, <2>1 DEF CommitStep, PublishCommit
  <2>3. PICK list \in Seq(Step) : list = todo[t]
    BY <1>0
  <2>4. Remaining(list, TRUE)
    BY <1>0, <2>1, <2>3
  <2>5. Remaining(Tail(list), FALSE)'
    BY <2>1, <2>2, <2>3, <2>4, HeadDone DEF SafeInv, Current
  <2>6. pc'[t] = "check" /\ todo'[t] = Tail(list)
    BY <1>0, <2>2, <2>3
  <2>7. Remaining(todo[t], FALSE)'
    BY <2>5, <2>6, RemainingThere
  <2> QED
    BY <1>0, <2>1, <2>2, <2>6, <2>7
<1>16. CASE FinishSteps(t)
  <2>1. /\ pc[t] = "check" /\ pc'[t] = "finish" /\ todo[t] = <<>>
        /\ UNCHANGED <<effect, status, held>>
    BY <1>0, <1>16 DEF FinishSteps
  <2>2. Remaining(<<>>, FALSE)
    BY <1>0, <2>1
  <2>3. Remaining(<<>>, FALSE)'
    BY <2>1, <2>2, RemainingStays
  <2> QED
    BY <1>0, <2>1, <2>3
<1>17. CASE Finish(t)
  BY <1>0, <1>17 DEF Finish
<1>18. CASE Rollback(t)
  BY <1>0, <1>18 DEF Rollback
<1>19. CASE PickEffect(t)
  BY <1>0, <1>19 DEF PickEffect
<1>20. CASE MarkCompensating(t)
  BY <1>0, <1>20 DEF MarkCompensating
<1>21. CASE Undo(t)
  BY <1>0, <1>21 DEF Undo
<1>22. CASE RecordCompensated(t)
  BY <1>0, <1>22 DEF RecordCompensated
<1>23. CASE CompensationsDone(t)
  BY <1>0, <1>23 DEF CompensationsDone
<1>24. CASE Close(t)
  BY <1>0, <1>24 DEF Close
<1>25. CASE Fail(t)
  BY <1>0, <1>25 DEF Fail
<1>26. CASE FailStatus(t)
  BY <1>0, <1>26 DEF FailStatus
<1>27. CASE FailEffect(t)
  BY <1>0, <1>27 DEF FailEffect
<1>28. CASE FailDead(t)
  BY <1>0, <1>28 DEF FailDead
<1>29. CASE MarkAmbiguous(t)
  BY <1>0, <1>29 DEF MarkAmbiguous
<1>30. CASE AmbiguousStatus(t)
  BY <1>0, <1>30 DEF AmbiguousStatus
<1>31. CASE AmbiguousDead(t)
  BY <1>0, <1>31 DEF AmbiguousDead
<1> QED
  BY <1>a, <1>b, <1>1, <1>2, <1>3, <1>4, <1>5, <1>6, <1>7, <1>8, <1>9, <1>10, <1>11,
     <1>12, <1>13, <1>14, <1>15, <1>16, <1>17, <1>18, <1>19, <1>20, <1>21,
     <1>22, <1>23, <1>24, <1>25, <1>26, <1>27, <1>28, <1>29, <1>30, <1>31
     DEF Work

(* A call that becomes open is the one that the thread is about to make,   *)
(* or one whose outcome it gives up.                                       *)
LEMMA WorkOpens ==
  ASSUME TypeOK, NEW t \in Thread, Work(t), NEW s \in Step,
         effect'[s] # effect[s], effect'[s] \in {"EXECUTING", "AMBIGUOUS"}
  PROVE  \/ MarkExecuting(t) /\ effect[Current(t)] = "PREPARED" /\ s = Current(t)
         \/ pc[t] = "ambiguous"
BY SMTT(40) DEF Work, ReadPending, TakeNothing, TakePending, Resume, Rejecting, SkipCommitted, RejectStep,
   HoldForApproval, Await, AdmitStep, Prepare, MarkExecuting, Execute,
   RecordApplied, RecordAborted, AppendCompleted, CommitStep, FinishSteps,
   Finish, Rollback, PickEffect, MarkCompensating, Undo, RecordCompensated,
   CompensationsDone, Close, Fail, FailStatus, FailEffect, FailDead,
   MarkAmbiguous, AmbiguousStatus, AmbiguousDead, CanMove, MoveEffect,
   PrepareEffect, PublishCommit, WriteStatus, WriteStatusHolding,
   PushDeadLetter, storeVars, TypeOK, StoreTypeOK

(* The thread still knows all there is to undo.                            *)
LEMMA BatchReach ==
  ASSUME SafeInv, SafeInv', WorldInv, NEW t \in Thread, BatchInv(t), Work(t),
         ToolOutcome \subseteq {"ok", "failed"}
  PROVE  ReachOK(t)'
<1>0. /\ pc \in [Thread -> ThreadPC] /\ pc[t] # "idle"
      /\ effect \in [Step -> EffectState \cup {"ABSENT"}]
      /\ OwnerOK(t) /\ PositionOK(t) /\ SureOK(t) /\ cursor[t] \in Nat /\ completed \in Seq(Step)
      /\ known /\ known' /\ LifoInv(t)
      /\ StageOK(t) /\ MiddleOK(t) /\ ReachOK(t) /\ StageOK(t)'
  <2>1. pc[t] # "idle"
    BY WorkBusy DEF SafeInv
  <2>2. known /\ known'
    BY <2>1, WorkKnows DEF BatchInv, KnownOK, SafeInv, TypeOK
  <2> QED
    BY <2>1, <2>2, BatchStage DEF SafeInv, TypeOK, StoreTypeOK, BatchInv, ReachOK, OwnerOK
<1>1. LifoInv(t)'
  BY <1>0, LifoWork DEF MiddleOK
<1>2. ASSUME ~Decided', NEW s \in Step, effect'[s] \in {"EXECUTING", "AMBIGUOUS"}
      PROVE  pc'[t] \in {"execute", "record", "abort"} /\ s = Current(t)'
  <2> USE DEF Goto, Return, CanMove, MoveEffect, PrepareEffect, PublishCommit,
      WriteStatus, WriteStatusHolding, PushDeadLetter, LeaveRollback, storeVars, Current
  <2>1. CASE effect'[s] # effect[s]
    <3>1. MarkExecuting(t) /\ effect[Current(t)] = "PREPARED" /\ s = Current(t)
      BY <1>0, <1>2, <2>1, WorkOpens DEF StageOK, SafeInv
    <3> QED
      BY <1>0, <3>1 DEF MarkExecuting
  <2>2. CASE effect'[s] = effect[s]
    <3>1. ~Decided
      BY <1>0, <1>2 DEF Work, ReadPending, TakeNothing, TakePending, Resume, Rejecting, SkipCommitted,
         RejectStep, HoldForApproval, Await, AdmitStep, Prepare, MarkExecuting,
         Execute, RecordApplied, RecordAborted, AppendCompleted, CommitStep,
         FinishSteps, Finish, Rollback, PickEffect, MarkCompensating, Undo,
         RecordCompensated, CompensationsDone, Close, Fail, FailStatus, FailEffect,
         FailDead, MarkAmbiguous, AmbiguousStatus, AmbiguousDead, StageOK,
         Decided, Terminal, ForwardPC, MidPC, RollbackPC
    <3>2. pc[t] \in {"execute", "record", "abort"} /\ s = Current(t)
      BY <1>0, <1>2, <2>2, <3>1 DEF ReachOK
    <3>3. effect[s] = "EXECUTING"
      BY <1>0, <3>2 DEF OwnerOK, Owns, SureOK, DoubtPC
    <3>4. Execute(t)
      BY <1>0, <2>2, <3>2, <3>3 DEF Work, ReadPending, TakeNothing, TakePending, Resume, Rejecting, SkipCommitted,
         RejectStep, HoldForApproval, Await, AdmitStep, Prepare, MarkExecuting,
         Execute, RecordApplied, RecordAborted, AppendCompleted, CommitStep,
         FinishSteps, Finish, Rollback, PickEffect, MarkCompensating, Undo,
         RecordCompensated, CompensationsDone, Close, Fail, FailStatus, FailEffect,
         FailDead, MarkAmbiguous, AmbiguousStatus, AmbiguousDead
    <3> QED
      BY <1>0, <3>2, <3>4 DEF Execute
  <2> QED
    BY <2>1, <2>2
<1>3. ASSUME pc'[t] = "close"
      PROVE  \A j \in DOMAIN completed' : effect'[completed'[j]] \notin Owing
  <2>1. CompensationsDone(t)
    BY <1>0, <1>3 DEF Work, ReadPending, TakeNothing, TakePending, Resume, Rejecting, SkipCommitted,
       RejectStep, HoldForApproval, Await, AdmitStep, Prepare, MarkExecuting,
       Execute, RecordApplied, RecordAborted, AppendCompleted, CommitStep,
       FinishSteps, Finish, Rollback, PickEffect, MarkCompensating, Undo,
       RecordCompensated, CompensationsDone, Close, Fail, FailStatus, FailEffect,
       FailDead, MarkAmbiguous, AmbiguousStatus, AmbiguousDead, Goto, Return,
       LeaveRollback
  <2>2. pc[t] = "pick" /\ cursor[t] = 0 /\ UNCHANGED <<completed, effect>>
    BY <2>1 DEF CompensationsDone, storeVars
  <2>3. \A j \in DOMAIN completed : j > cursor[t]
    BY <1>0, <2>2
  <2> QED
    BY <1>0, <2>2, <2>3 DEF LifoInv, AheadOK
<1> QED
  BY <1>1, <1>2, <1>3 DEF ReachOK

(* A key is published with its step only, and while no call is open.       *)
LEMMA BatchKeys ==
  ASSUME SafeInv, SafeInv', WorldInv, NEW t \in Thread, BatchInv(t), Work(t),
         ToolOutcome \subseteq {"ok", "failed"}
  PROVE  KeyOK'
<1>0. /\ TypeOK /\ PositionOK(t) /\ OwnerOK(t) /\ SureOK(t) /\ known
      /\ KeyOK /\ StageOK(t) /\ MiddleOK(t) /\ ReachOK(t)
  BY WorkBusy DEF SafeInv, BatchInv, OwnerOK, KnownOK
<1>1. ASSUME NEW s \in Step, AlreadyCommitted(s)'
      PROVE  \E r \in SameKey[s] : effect'[r] \in {"COMMITTED"} \cup Reversing
  <2>1. CASE AlreadyCommitted(s)
    <3>1. PICK r \in SameKey[s] : effect[r] \in {"COMMITTED"} \cup Reversing
      BY <1>0, <2>1 DEF KeyOK
    <3>2. r \in Step
      BY <3>1 DEF SameKey
    <3>3. effect'[r] \in {"COMMITTED"} \cup Reversing
      BY <1>0, <3>1, <3>2, WorkJournal DEF Reversing
    <3> QED
      BY <3>1, <3>3
  <2>2. CASE ~AlreadyCommitted(s)
    <3>1. /\ KeyOf[s] # NoKey /\ KeyOf[s] = KeyOf[Current(t)]
          /\ Current(t) \in Step /\ effect'[Current(t)] = "COMMITTED"
      BY <1>0, <1>1, <2>2, WorkKeys DEF AlreadyCommitted
    <3>2. Current(t) \in SameKey[s]
      BY <3>1 DEF SameKey
    <3> QED
      BY <3>1, <3>2
  <2> QED
    BY <2>1, <2>2
<1>2. ASSUME NEW s \in Step, effect'[s] \in {"EXECUTING", "AMBIGUOUS"}
      PROVE  ~AlreadyCommitted(s)'
  <2> USE DEF CanMove, MoveEffect, PrepareEffect, PublishCommit, WriteStatus,
      WriteStatusHolding, PushDeadLetter, storeVars
  <2>1. CASE effect'[s] # effect[s]
    <3>1. MarkExecuting(t) /\ effect[Current(t)] = "PREPARED" /\ s = Current(t)
      BY <1>0, <1>2, <2>1, WorkOpens DEF StageOK, SafeInv
    <3> QED
      BY <1>0, <3>1 DEF MarkExecuting, MiddleOK, MidPC, AlreadyCommitted
  <2>2. CASE effect'[s] = effect[s]
    <3>1. ~AlreadyCommitted(s)
      BY <1>0, <1>2, <2>2 DEF KeyOK, NoFalseWitness
    <3>2. CASE idem' = idem
      BY <3>1, <3>2 DEF AlreadyCommitted
    <3>3. CASE idem' # idem
      <4>1. CommitStep(t)
        BY <3>3 DEF Work, ReadPending, TakeNothing, TakePending, Resume, Rejecting, SkipCommitted,
           RejectStep, HoldForApproval, Await, AdmitStep, Prepare, MarkExecuting,
           Execute, RecordApplied, RecordAborted, AppendCompleted,
           FinishSteps, Finish, Rollback, PickEffect, MarkCompensating, Undo,
           RecordCompensated, CompensationsDone, Close, Fail, FailStatus,
           FailEffect, FailDead, MarkAmbiguous, AmbiguousStatus, AmbiguousDead
      <4>2. pc[t] = "commit" /\ ~Decided
        BY <1>0, <4>1 DEF CommitStep, StageOK, ForwardPC, MidPC, Decided, Terminal
      <4> QED
        BY <1>0, <1>2, <2>2, <4>2 DEF ReachOK
    <3> QED
      BY <3>2, <3>3
  <2> QED
    BY <2>1, <2>2
<1> QED
  BY <1>1, <1>2 DEF KeyOK, NoFalseWitness

(* Whatever stands in place has a compensation to run, or its call is open. *)
LEMMA InPlaceOwing ==
  ASSUME SafeInv, WorldInv, NEW s \in Step, InPlace(s)
  PROVE  effect[s] \in Owing \cup {"EXECUTING", "AMBIGUOUS"}
<1>1. /\ EffectOK(s) /\ RecordOK(s) /\ hits[s] \in Nat /\ undos[s] \in Nat
      /\ effect[s] \in EffectState \cup {"ABSENT"}
  BY DEF SafeInv, WorldInv, TypeOK, StoreTypeOK
<1> QED
  BY <1>1 DEF EffectOK, RecordOK, InPlace, Owing, EffectState, Untouched

(* A request gives its verdict when it holds.                              *)
LEMMA BatchDecides ==
  ASSUME SafeInv, SafeInv', WorldInv, NEW t \in Thread, BatchInv(t), Work(t),
         ToolOutcome \subseteq {"ok", "failed"}
  PROVE  DecisionOK'
<1>0. /\ TypeOK /\ PositionOK(t) /\ pc[t] # "idle" /\ pc[t] \in ThreadPC /\ known
      /\ StageOK(t) /\ ReachOK(t) /\ ForwardOK(t)
  BY WorkBusy DEF SafeInv, BatchInv, KnownOK, TypeOK
<1> USE DEF CanMove, MoveEffect, PrepareEffect, PublishCommit, WriteStatus,
    WriteStatusHolding, PushDeadLetter, storeVars, worldVars
<1>1. status \notin {"COMMITTED", "ROLLED_BACK"}
  BY <1>0 DEF StageOK, ForwardPC, MidPC, RollbackPC, ThreadPC
<1>2. ASSUME status' = "COMMITTED", NEW s \in Step
      PROVE  effect'[s] \in {"ABSENT", "COMMITTED"}
  <2>1. Finish(t)
    BY <1>1, <1>2 DEF Work, ReadPending, TakeNothing, TakePending, Resume, Rejecting, SkipCommitted,
       RejectStep, HoldForApproval, Await, AdmitStep, Prepare, MarkExecuting,
       Execute, RecordApplied, RecordAborted, AppendCompleted, CommitStep,
       FinishSteps, Rollback, PickEffect, MarkCompensating, Undo,
       RecordCompensated, CompensationsDone, Close, Fail, FailStatus,
       FailEffect, FailDead, MarkAmbiguous, AmbiguousStatus, AmbiguousDead
  <2> QED
    BY <1>0, <2>1 DEF Finish, ForwardOK, Remaining
<1>3. ASSUME status' = "ROLLED_BACK", NEW s \in Step
      PROVE  ~InPlace(s)'
  <2>1. Close(t)
    BY <1>1, <1>3 DEF Work, ReadPending, TakeNothing, TakePending, Resume, Rejecting, SkipCommitted,
       RejectStep, HoldForApproval, Await, AdmitStep, Prepare, MarkExecuting,
       Execute, RecordApplied, RecordAborted, AppendCompleted, CommitStep,
       FinishSteps, Finish, Rollback, PickEffect, MarkCompensating, Undo,
       RecordCompensated, CompensationsDone, Fail, FailStatus,
       FailEffect, FailDead, MarkAmbiguous, AmbiguousStatus, AmbiguousDead
  <2>2. pc[t] = "close" /\ UNCHANGED <<hits, undos>> /\ ~Decided
    BY <1>0, <2>1 DEF Close, StageOK, RollbackPC, Decided, Terminal
  <2>3. effect[s] \notin {"EXECUTING", "AMBIGUOUS"}
    BY <1>0, <2>2 DEF ReachOK
  <2>4. effect[s] \notin Owing
    BY <1>0, <2>2 DEF ReachOK, LifoInv, AheadOK
  <2> QED
    BY <2>2, <2>3, <2>4, InPlaceOwing DEF InPlace
<1>4. \A s \in Step : effect'[s] # "ABSENT" => \E p \in DOMAIN order' : order'[p] = s
  BY <1>0, BatchReach, WorkKnows DEF ReachOK, LifoInv, JournalOK
<1> QED
  BY <1>2, <1>3, <1>4 DEF DecisionOK

(* A request keeps all of it.                                              *)
LEMMA BatchWork ==
  ASSUME SafeInv, SafeInv', WorldInv, NEW t \in Thread, BatchInv(t), Work(t),
         ToolOutcome \subseteq {"ok", "failed"}
  PROVE  BatchInv(t)'
<1>1. rpc = "off" /\ rpc' = "off"
  BY WorkBusy, WorkFrame DEF SafeInv, ProcessOK
<1>2. BehindOK'
  BY <1>1 DEF BehindOK
<1> QED
  BY <1>2, BatchStage, BatchForward, BatchReach, BatchKeys, BatchDecides DEF BatchInv

-----------------------------------------------------------------------------
(* Recovery goes to the end of the journal unless it gives up on a record, *)
(* and it leaves nothing in place behind it.                               *)
LEMMA RecoveryBehind ==
  ASSUME SafeInv, WorldInv, BehindOK, Recovery,
         status = "AWAITING_APPROVAL" => held # <<>>
  PROVE  /\ BehindOK'
         /\ rpc' = "off" => \/ ~Incomplete' /\ UNCHANGED memVars
                            \/ RecoverApproval
<1>0. /\ TypeOK /\ RecoveryOK /\ RecoveryKnows
      /\ rcur \in Nat /\ order \in Seq(Step) /\ order' = order
      /\ effect \in [Step -> EffectState \cup {"ABSENT"}]
      /\ status \in SagaStatus \cup {"NONE"}
      /\ rpc # "off" /\ rcur <= Len(order)
      /\ \A i \in DOMAIN order : order[i] \in Step
      /\ \A i, j \in DOMAIN order : order[i] = order[j] => i = j
      /\ rcur \in DOMAIN order \/ rcur = 0
  <2>1. /\ TypeOK /\ RecoveryOK /\ RecoveryKnows
        /\ rcur \in Nat /\ order \in Seq(Step) /\ rpc # "off" /\ order' = order
    BY RecoveryFrame DEF SafeInv, WorldInv, TypeOK, StoreTypeOK
  <2>2. rcur <= Len(order)
    BY <2>1 DEF RecoveryOK
  <2>3. rcur \in DOMAIN order \/ rcur = 0
    BY <2>1, <2>2
  <2> QED
    BY <2>1, <2>2, <2>3 DEF SafeInv, WorldInv, TypeOK, StoreTypeOK, OrderOK
<1>1. rcur > 0 => Examined \in Step /\ Examined = order[rcur] /\ rcur \in DOMAIN order
  BY <1>0, ExaminedType DEF Examined
<1>2. rcur > 0 /\ rpc \in {"walk", "absent", "present", "unknown"} =>
        snap[Examined] = effect[Examined]
  BY <1>0, ExaminedCurrent
<1>3. rpc \notin {"list", "walk"} => rcur > 0
  BY <1>0 DEF RecoveryOK
<1>4. ASSUME rpc # "list", rpc' # "off", NEW j \in DOMAIN order, j > rcur
      PROVE  effect'[order[j]] \in {"ABORTED", "COMPENSATED"}
  <2>1. order[j] # order[rcur] \/ rcur = 0
    BY <1>0, <1>4
  <2>2. effect[order[j]] \in {"ABORTED", "COMPENSATED"} /\ order[j] \in Step
    BY <1>0, <1>4 DEF BehindOK
  <2>3. CASE rcur > 0
    BY <1>0, <1>1, <1>4, <2>1, <2>2, <2>3, RecoveryElsewhere
  <2>4. CASE rcur = 0
    <3>1. effect' = effect
      BY <1>3, <1>4, <2>4 DEF Recovery, RecoverNothing, RecoverApproval, RecoverBegin,
         RecoverDone, RecoverSkip, RecoverKeepFailed, RecoverPrepared, RecoverResolve,
         RecoverAbsent, RecoverPresent, RecoverUnknown, RecoverMark,
         RecoverInterrupted, RecoverUndo, RecoverUndone, RecoverGiveUp,
         RecoverFailStatus, RecoverDeadLetter, Examining, WriteStatus
    <3> QED
      BY <2>2, <3>1
  <2> QED
    BY <1>0, <2>3, <2>4
<1>5. ASSUME rcur > 0, rpc # "list", rpc' # "off", effect'[Examined] \in {"ABORTED", "COMPENSATED"},
             NEW j \in DOMAIN order, j > rcur - 1
      PROVE  effect'[order[j]] \in {"ABORTED", "COMPENSATED"}
  <2>1. j > rcur \/ j = rcur
    BY <1>0, <1>5
  <2> QED
    BY <1>1, <1>4, <1>5, <2>1
<1> DEFINE Goal == /\ rpc' # "off" => BehindOK'
                   /\ rpc' = "off" => \/ ~Incomplete' /\ UNCHANGED memVars
                                      \/ RecoverApproval
<1> SUFFICES Goal
  BY DEF BehindOK
<1> USE DEF RecoverMove, CanMove, MoveEffect, WriteStatus, PushDeadLetter, Serve,
    RecoveryGone, Proceed, Examining, storeVars, Incomplete, Terminal
<1>6. CASE RecoverNothing
  BY <1>6 DEF RecoverNothing
<1>7. CASE RecoverApproval
  BY <1>7 DEF RecoverApproval
<1>8. CASE RecoverBegin
  BY <1>0, <1>8 DEF RecoverBegin, BehindOK, SagaStatus
<1>9. CASE RecoverDone
  BY <1>9 DEF RecoverDone
<1>10. CASE RecoverSkip
  <2>1. effect'[Examined] \in {"ABORTED", "COMPENSATED"} /\ rpc = "walk" /\ rcur > 0
        /\ rpc' = "walk" /\ rcur' = rcur - 1 /\ status' = status
    BY <1>2, <1>10 DEF RecoverSkip
  <2> QED
    BY <1>0, <1>5, <2>1 DEF BehindOK
<1>11. CASE RecoverKeepFailed
  BY <1>0, <1>4, <1>11 DEF RecoverKeepFailed, BehindOK
<1>12. CASE RecoverPrepared
  <2>1. effect'[Examined] = "ABORTED" /\ rpc = "walk" /\ rcur > 0
        /\ rpc' = "walk" /\ rcur' = rcur - 1 /\ status' = status
    BY <1>0, <1>1, <1>2, <1>12 DEF RecoverPrepared
  <2> QED
    BY <1>0, <1>5, <2>1 DEF BehindOK
<1>13. CASE RecoverResolve
  <2>1. rpc' \in {"present", "absent", "unknown"}
    BY <1>13 DEF RecoverResolve, ForwardAnswer
  <2>2. effect[Examined] \in {"EXECUTING", "AMBIGUOUS"} /\ rpc = "walk" /\ rcur > 0
        /\ rcur' = rcur /\ status' = status /\ effect' = effect /\ Examined' = Examined
    BY <1>0, <1>2, <1>13 DEF RecoverResolve, Examined
  <2> QED
    BY <1>0, <1>4, <2>1, <2>2 DEF BehindOK
<1>14. CASE RecoverAbsent
  <2>1. effect'[Examined] = "ABORTED" /\ rpc = "absent" /\ rcur > 0
        /\ rpc' = "walk" /\ rcur' = rcur - 1 /\ status' = status
    BY <1>0, <1>1, <1>3, <1>14 DEF RecoverAbsent, BehindOK
  <2> QED
    BY <1>0, <1>5, <2>1 DEF BehindOK
<1>15. CASE RecoverPresent
  <2>1. rpc = "present" /\ rpc' = "walk" /\ rcur' = rcur /\ status' = status
    BY <1>15 DEF RecoverPresent, BehindOK
  <2> QED
    BY <1>0, <1>4, <2>1 DEF BehindOK
<1>16. CASE RecoverUnknown
  <2>1. rpc = "unknown" /\ rpc' = "failstatus" /\ rcur' = rcur /\ status' = status
    BY <1>2, <1>3, <1>16 DEF RecoverUnknown
  <2> QED
    BY <1>0, <1>4, <2>1 DEF BehindOK
<1>17. CASE RecoverMark
  <2>1. effect'[Examined] = "COMPENSATING" /\ rpc = "walk" /\ rcur > 0 /\ Examined' = Examined
        /\ rpc' = "undo" /\ rcur' = rcur /\ status' = status
    BY <1>0, <1>1, <1>2, <1>17 DEF RecoverMark, Examined
  <2> QED
    BY <1>0, <1>4, <2>1 DEF BehindOK
<1>18. CASE RecoverInterrupted
  <2>1. rpc' \in {"undone", "undo", "giveup"}
    BY <1>18 DEF RecoverInterrupted, BackwardAnswer
  <2>2. effect'[Examined] = "COMPENSATING" /\ rpc = "walk" /\ rcur > 0 /\ Examined' = Examined
        /\ rcur' = rcur /\ status' = status
    BY <1>0, <1>2, <1>18 DEF RecoverInterrupted, Examined
  <2> QED
    BY <1>0, <1>4, <2>1, <2>2 DEF BehindOK
<1>19. CASE RecoverUndo
  <2>1. rpc = "undo" /\ rpc' \in {"undone", "giveup"} /\ rcur' = rcur /\ status' = status
        /\ effect' = effect /\ Examined' = Examined
    BY <1>0, <1>19 DEF RecoverUndo, Examined
  <2> QED
    BY <1>0, <1>4, <2>1 DEF BehindOK
<1>20. CASE RecoverUndone
  <2>1. effect'[Examined] = "COMPENSATED" /\ rpc = "undone" /\ rcur > 0
        /\ rpc' = "walk" /\ rcur' = rcur - 1 /\ status' = status
    BY <1>0, <1>1, <1>3, <1>20 DEF RecoverUndone, BehindOK
  <2> QED
    BY <1>0, <1>5, <2>1 DEF BehindOK
<1>21. CASE RecoverGiveUp
  <2>1. rpc = "giveup" /\ rpc' = "failstatus" /\ rcur' = rcur /\ status' = status
    BY <1>21 DEF RecoverGiveUp, BehindOK
  <2> QED
    BY <1>0, <1>4, <2>1 DEF BehindOK
<1>22. CASE RecoverFailStatus
  BY <1>0, <1>4, <1>22 DEF RecoverFailStatus, BehindOK
<1>23. CASE RecoverDeadLetter
  BY <1>23 DEF RecoverDeadLetter, BehindOK
<1> QED
  BY <1>6, <1>7, <1>8, <1>9, <1>10, <1>11, <1>12, <1>13, <1>14, <1>15, <1>16,
     <1>17, <1>18, <1>19, <1>20, <1>21, <1>22, <1>23 DEF Recovery

(* A saga that is put back in memory has all of its committed steps.       *)
LEMMA RestoredReach ==
  ASSUME SafeInv, WorldInv, RecoverApproval, NEW t \in Thread,
         Remaining(held, FALSE), DecisionOK
  PROVE  LifoInv(t)'
<1>1. /\ order \in Seq(Step) /\ effect \in [Step -> EffectState \cup {"ABSENT"}]
      /\ UNCHANGED <<order, effect, pc, todo, cursor>> /\ pc[t] = "idle"
      /\ OrderOK
      /\ \A s \in Step : effect[s] \in {"ABSENT", "COMMITTED"}
  BY DEF SafeInv, WorldInv, TypeOK, StoreTypeOK, RecoverApproval, storeVars, threadVars,
     ProcessOK, Remaining
<1>2. PICK f \in [1..Cardinality(CommittedAt) -> CommittedAt] :
        /\ \A i, j \in DOMAIN f : i < j => f[i] < f[j]
        /\ completed' = [i \in DOMAIN f |-> order[f[i]]]
  BY DEF RecoverApproval
<1> DEFINE N == Cardinality(CommittedAt)
<1>3. IsFiniteSet(CommittedAt) /\ N \in Nat
  <2>1. IsFiniteSet(1..Len(order)) /\ CommittedAt \subseteq 1..Len(order)
    BY <1>1, FS_Interval DEF CommittedAt
  <2> QED
    BY <2>1, FS_Subset, FS_CardinalityType
<1>4. IsFiniteSet(1..N) /\ Cardinality(1..N) = N
  BY <1>3, FS_Interval
<1>5. /\ DOMAIN f = 1..N /\ DOMAIN completed' = 1..N
      /\ \A i \in 1..N : f[i] \in CommittedAt /\ completed'[i] = order[f[i]]
      /\ \A i \in CommittedAt : i \in DOMAIN order /\ i \in Nat /\ effect[order[i]] = "COMMITTED"
  BY <1>1, <1>2 DEF CommittedAt
<1>6. \A i, j \in 1..N : f[i] = f[j] => i = j
  <2> SUFFICES ASSUME NEW i \in 1..N, NEW j \in 1..N, f[i] = f[j], i # j
               PROVE  FALSE
    OBVIOUS
  <2>1. i < j \/ j < i
    BY <1>3
  <2>2. f[i] \in Nat /\ f[j] \in Nat
    BY <1>5
  <2> QED
    BY <1>2, <1>5, <2>1, <2>2
<1>7. f \in Surjection(1..N, CommittedAt)
  <2>1. f \in Injection(1..N, CommittedAt)
    BY <1>2, <1>5, <1>6 DEF Injection, IsInjective
  <2> QED
    BY <1>3, <1>4, <2>1, FS_Injection
<1>8. CompletedOK'
  <2>1. \A i, j \in DOMAIN completed' : completed'[i] = completed'[j] => i = j
    BY <1>1, <1>5, <1>6 DEF OrderOK
  <2>2. \A i \in DOMAIN completed' : effect'[completed'[i]] \in Owing \cup {"COMPENSATED"}
    BY <1>1, <1>5 DEF Owing
  <2>3. ASSUME NEW i \in DOMAIN completed', NEW j \in DOMAIN completed',
               NEW p \in DOMAIN order', NEW q \in DOMAIN order',
               i < j, order'[p] = completed'[i], order'[q] = completed'[j]
        PROVE  p < q
    <3>1. p = f[i] /\ q = f[j]
      BY <1>1, <1>5, <2>3 DEF OrderOK
    <3> QED
      BY <1>2, <1>5, <2>3, <3>1
  <2> QED
    BY <2>1, <2>2, <2>3 DEF CompletedOK
<1>9. ASSUME NEW s \in Step, effect[s] \in Owing
      PROVE  \E i \in DOMAIN completed' : completed'[i] = s
  <2>1. effect[s] = "COMMITTED"
    BY <1>1, <1>9 DEF Owing
  <2>2. PICK p \in DOMAIN order : order[p] = s
    BY <2>1 DEF DecisionOK
  <2>3. p \in CommittedAt
    BY <2>1, <2>2 DEF CommittedAt
  <2>4. PICK i \in 1..N : f[i] = p
    BY <1>7, <2>3 DEF Surjection
  <2> QED
    BY <1>5, <2>2, <2>4
<1>10. JournalOK'
  BY <1>1, <1>8 DEF JournalOK, OrderOK, DecisionOK
<1>11. LastOK(t)' /\ AheadOK(t)'
  BY <1>1, <1>9 DEF LastOK, AheadOK, UndoPC
<1> QED
  BY <1>10, <1>11 DEF LifoInv

(* Recovery finds what the crash left, and keeps all of it.                *)
LEMMA BatchRecovery ==
  ASSUME SafeInv, SafeInv', WorldInv, NEW t \in Thread, BatchInv(t), Recovery
  PROVE  BatchInv(t)'
<1>0. /\ TypeOK /\ RecoveryOK /\ pc[t] = "idle" /\ pc'[t] = "idle" /\ ~doubt'[t]
      /\ proc = "recovering" /\ ~known /\ completed = <<>> /\ memStatus = "RUNNING"
      /\ pending = <<>> /\ order \in Seq(Step) /\ effect \in [Step -> EffectState \cup {"ABSENT"}]
      /\ ForwardOK(t) /\ KnownOK(t) /\ UnbegunOK(t) /\ BehindOK /\ KeyOK /\ DecisionOK
      /\ UNCHANGED <<order, todo>> /\ rpc # "off"
  <2>1. proc = "recovering" /\ pc[t] = "idle" /\ UNCHANGED <<pc, order, todo>> /\ rpc # "off"
    BY RecoveryFrame DEF SafeInv, ProcessOK
  <2>2. ~doubt'[t]
    BY <2>1 DEF SafeInv, OwnerOK, SureOK, SurePC
  <2> QED
    BY <2>1, <2>2 DEF SafeInv, TypeOK, StoreTypeOK, BatchInv, KnownOK
<1>1. /\ BehindOK'
      /\ rpc' = "off" => \/ ~Incomplete' /\ UNCHANGED memVars
                         \/ RecoverApproval
  BY <1>0, RecoveryBehind DEF ForwardOK
<1>2. /\ UNCHANGED submitted /\ idem' = idem
      /\ proc' = IF rpc' = "off" THEN "up" ELSE proc
      /\ UNCHANGED memVars \/ RecoverApproval
      /\ held' = held
      /\ rpc = "list" => UNCHANGED <<effect, status>>
      /\ status' = status \/ status' \in {"ROLLED_BACK", "COMPENSATION_FAILED"}
  BY RecoveryKeys DEF Recovery, RecoverNothing, RecoverApproval, RecoverBegin, RecoverDone,
     RecoverSkip, RecoverKeepFailed, RecoverPrepared, RecoverResolve,
     RecoverAbsent, RecoverPresent, RecoverUnknown, RecoverMark,
     RecoverInterrupted, RecoverUndo, RecoverUndone, RecoverGiveUp,
     RecoverFailStatus, RecoverDeadLetter, RecoverMove, CanMove, MoveEffect,
     WriteStatus, PushDeadLetter, Serve, RecoveryGone, Proceed, Examining,
     ForwardAnswer, BackwardAnswer, storeVars, envVars
<1>3. status' = "AWAITING_APPROVAL" => rpc = "list" /\ status = "AWAITING_APPROVAL"
  BY <1>0, <1>2 DEF BehindOK
<1>4. CASE RecoverApproval
  <2>1. /\ status = "AWAITING_APPROVAL" /\ held # <<>> /\ pending' = held /\ known'
        /\ memStatus' = "AWAITING_APPROVAL" /\ proc' = "up" /\ rpc = "list"
        /\ UNCHANGED <<storeVars, submitted>>
    BY <1>4 DEF RecoverApproval, Serve
  <2>2. submitted # {}
    BY <1>0, <2>1 DEF UnbegunOK
  <2>3. PICK list : list = held
    OBVIOUS
  <2>4. Remaining(list, FALSE)
    BY <1>0, <2>1, <2>3 DEF ForwardOK
  <2>5. Remaining(held, FALSE)'
    BY <2>1, <2>3, <2>4, RemainingStays, RemainingThere DEF storeVars
  <2>6. ForwardOK(t)' /\ MiddleOK(t)' /\ StageOK(t)'
    BY <1>0, <2>1, <2>5 DEF ForwardOK, MiddleOK, StageOK, ForwardPC, MidPC, RollbackPC, storeVars
  <2>7. KnownOK(t)' /\ UnbegunOK(t)'
    BY <1>0, <2>1, <2>2 DEF KnownOK, UnbegunOK, storeVars
  <2>8. LifoInv(t)'
    BY <1>0, <1>4, <2>3, <2>4, RestoredReach
  <2>9. \A s \in Step : effect'[s] \notin {"EXECUTING", "AMBIGUOUS"}
    BY <2>1, <2>4 DEF Remaining, storeVars
  <2>10. ReachOK(t)'
    BY <1>0, <2>8, <2>9 DEF ReachOK
  <2>11. KeyOK' /\ DecisionOK'
    BY <1>0, <1>2, <2>1 DEF KeyOK, NoFalseWitness, AlreadyCommitted, DecisionOK, storeVars
  <2> QED
    BY <1>1, <2>6, <2>7, <2>10, <2>11 DEF BatchInv
<1>5. CASE UNCHANGED memVars
  <2>1. ~known' /\ completed' = <<>> /\ memStatus' = "RUNNING" /\ pending' = <<>>
    BY <1>0, <1>5 DEF memVars
  <2>2. ForwardOK(t)'
    <3>1. PICK list : list = held
      OBVIOUS
    <3>2. CASE status' = "AWAITING_APPROVAL"
      <4>1. Remaining(list, FALSE) /\ held # <<>>
        BY <1>0, <1>3, <3>1, <3>2 DEF ForwardOK
      <4>2. Remaining(held, FALSE)'
        BY <1>2, <1>3, <3>1, <3>2, <4>1, RemainingStays, RemainingThere
      <4> QED
        BY <1>0, <1>2, <4>1, <4>2 DEF ForwardOK, ForwardPC, MidPC
    <3>3. CASE status' # "AWAITING_APPROVAL"
      BY <1>0, <3>3 DEF ForwardOK, ForwardPC, MidPC
    <3> QED
      BY <3>2, <3>3
  <2>3. MiddleOK(t)' /\ StageOK(t)'
    BY <1>0 DEF MiddleOK, StageOK, ForwardPC, MidPC, RollbackPC
  <2>4. KnownOK(t)'
    <3>1. rpc' = "off" => Decided' \/ status' = "NONE"
      BY <1>1, <2>1 DEF Incomplete, Decided, RecoverApproval
    <3> QED
      BY <1>0, <1>2, <2>1, <3>1 DEF KnownOK
  <2>5. UnbegunOK(t)'
    <3>1. ASSUME submitted = {}
          PROVE  /\ \A s \in Step : effect'[s] = "ABSENT"
                 /\ status' \in {"NONE", "RUNNING", "ROLLED_BACK"}
      <4>1. \A s \in Step : effect[s] = "ABSENT"
        BY <1>0, <3>1 DEF UnbegunOK
      <4>2. \A s \in Step : effect'[s] = "ABSENT"
        BY <1>0, <4>1, RecoveryJournal
      <4>3. DOMAIN order = {}
        BY <1>0, <4>1 DEF WorldInv, OrderOK
      <4>4. Len(order) = 0
        BY <1>0, <4>3
      <4>5. rcur = 0
        BY <1>0, <4>4 DEF RecoveryOK, TypeOK
      <4>6. rpc \in {"list", "walk"}
        BY <1>0, <4>5 DEF RecoveryOK
      <4>7. ~RecoverFailStatus
        BY <4>6 DEF RecoverFailStatus
      <4>8. status' # status => status' = "ROLLED_BACK"
        BY <4>7 DEF Recovery, RecoverNothing, RecoverApproval, RecoverBegin,
           RecoverDone, RecoverSkip, RecoverKeepFailed, RecoverPrepared, RecoverResolve,
           RecoverAbsent, RecoverPresent, RecoverUnknown, RecoverMark,
           RecoverInterrupted, RecoverUndo, RecoverUndone, RecoverGiveUp,
           RecoverDeadLetter, RecoverMove, MoveEffect, WriteStatus, PushDeadLetter,
           storeVars
      <4> QED
        BY <1>0, <3>1, <4>2, <4>8 DEF UnbegunOK
    <3> QED
      BY <1>0, <1>2, <2>1, <3>1 DEF UnbegunOK
  <2>6. ReachOK(t)'
    BY <1>0, <2>1 DEF ReachOK
  <2>7. KeyOK'
    <3>1. ASSUME NEW s \in Step, AlreadyCommitted(s)'
          PROVE  \E r \in SameKey[s] : effect'[r] \in {"COMMITTED"} \cup Reversing
      <4>1. AlreadyCommitted(s)
        BY <1>2, <3>1 DEF AlreadyCommitted
      <4>2. PICK r \in SameKey[s] : effect[r] \in {"COMMITTED"} \cup Reversing
        BY <1>0, <4>1 DEF KeyOK
      <4>3. r \in Step
        BY <4>2 DEF SameKey
      <4>4. effect'[r] \in {"COMMITTED"} \cup Reversing
        BY <1>0, <4>2, <4>3, RecoveryJournal DEF Reversing
      <4> QED
        BY <4>2, <4>4
    <3>2. ASSUME NEW s \in Step, effect'[s] \in {"EXECUTING", "AMBIGUOUS"}
          PROVE  ~AlreadyCommitted(s)'
      <4>1. effect[s] \in {"EXECUTING", "AMBIGUOUS"}
        BY <1>0, <3>2, RecoveryJournal DEF Reversing
      <4> QED
        BY <1>0, <1>2, <4>1 DEF KeyOK, NoFalseWitness, AlreadyCommitted
    <3> QED
      BY <3>1, <3>2 DEF KeyOK, NoFalseWitness
  <2>8. DecisionOK'
    <3>1. \A s \in Step : effect'[s] # "ABSENT" => \E p \in DOMAIN order' : order'[p] = s
      <4>1. \A s \in Step : effect'[s] # "ABSENT" => effect[s] # "ABSENT"
        BY <1>0, RecoveryJournal
      <4> QED
        BY <1>0, <4>1 DEF DecisionOK
    <3>2. CASE rpc = "list"
      <4>1. UNCHANGED <<effect, status>>
        BY <1>2, <3>2
      <4>2. UNCHANGED <<hits, undos>>
        BY <3>2 DEF Recovery, RecoverNothing, RecoverApproval, RecoverBegin,
           RecoverDone, RecoverSkip, RecoverKeepFailed, RecoverPrepared, RecoverResolve,
           RecoverAbsent, RecoverPresent, RecoverUnknown, RecoverMark,
           RecoverInterrupted, RecoverUndo, RecoverUndone, RecoverGiveUp,
           RecoverFailStatus, RecoverDeadLetter, Examining, worldVars
      <4> QED
        BY <1>0, <3>1, <4>1, <4>2 DEF DecisionOK, InPlace
    <3>3. CASE rpc # "list"
      <4>1. status \notin {"COMMITTED", "ROLLED_BACK"}
        BY <1>0, <3>3 DEF BehindOK
      <4>2. status' # "COMMITTED"
        BY <1>2, <4>1
      <4>3. ASSUME status' = "ROLLED_BACK", NEW s \in Step
            PROVE  ~InPlace(s)'
        <5>1. RecoverDone
          BY <4>1, <4>3 DEF Recovery, RecoverNothing, RecoverApproval, RecoverBegin,
             RecoverSkip, RecoverKeepFailed, RecoverPrepared, RecoverResolve,
             RecoverAbsent, RecoverPresent, RecoverUnknown, RecoverMark,
             RecoverInterrupted, RecoverUndo, RecoverUndone, RecoverGiveUp,
             RecoverFailStatus, RecoverDeadLetter, RecoverMove, MoveEffect, WriteStatus,
             PushDeadLetter, storeVars
        <5>2. rpc = "walk" /\ rcur = 0 /\ UNCHANGED <<hits, undos>>
          BY <5>1 DEF RecoverDone, worldVars
        <5>3. \A j \in DOMAIN order : j > rcur
          BY <1>0, <5>2
        <5>4. effect[s] \in {"ABSENT", "ABORTED", "COMPENSATED"}
          BY <1>0, <5>2, <5>3 DEF DecisionOK, BehindOK
        <5> QED
          BY <5>2, <5>4, InPlaceOwing DEF InPlace, Owing
      <4> QED
        BY <3>1, <4>2, <4>3 DEF DecisionOK
    <3> QED
      BY <3>2, <3>3
  <2> QED
    BY <1>1, <2>2, <2>3, <2>4, <2>5, <2>6, <2>7, <2>8 DEF BatchInv
<1> QED
  BY <1>2, <1>4, <1>5

-----------------------------------------------------------------------------
(* A step that leaves the journal and the world alone keeps what is said   *)
(* of them.                                                                *)
LEMMA BatchQuiet ==
  ASSUME KeyOK, DecisionOK, UNCHANGED <<effect, order, idem, hits, undos>>,
         status' = status \/ status' = "RUNNING"
  PROVE  KeyOK' /\ DecisionOK'
BY DEF KeyOK, NoFalseWitness, AlreadyCommitted, DecisionOK, InPlace

(* The arrival of a request begins the batch or takes up what is held.     *)
LEMMA BatchRequest ==
  ASSUME SafeInv, SafeInv', WorldInv, NEW t \in Thread, BatchInv(t),
         NEW b, Batch = {b}, Whole(b), Start \/ Request(t)
  PROVE  BatchInv(t)'
<1>0. /\ pc \in [Thread -> ThreadPC] /\ todo \in [Thread -> Seq(Step)]
      /\ submitted \subseteq {b} /\ completed \in Seq(Step) /\ OwnerOK(t) /\ SureOK(t)
      /\ ForwardOK(t) /\ StageOK(t) /\ KnownOK(t) /\ UnbegunOK(t) /\ ReachOK(t)
      /\ KeyOK /\ DecisionOK /\ OrderOK
  BY DEF SafeInv, TypeOK, BatchInv, OwnerOK, WorldInv
<1>1. proc = "up" /\ rpc = "off" /\ UNCHANGED <<proc, rpc>>
  BY DEF Start, Request, Submit, Approve, Reject, SafeInv, ProcessOK, recVars, envVars
<1>2. BehindOK'
  BY <1>1 DEF BehindOK
<1>3. KeyOK' /\ DecisionOK'
  <2>1. UNCHANGED <<effect, order, idem, hits, undos>> /\ (status' = status \/ status' = "RUNNING")
    BY DEF Start, Request, Submit, Approve, Reject, WriteStatus, storeVars, worldVars
  <2> QED
    BY <1>0, <2>1, BatchQuiet
<1> USE DEF ForwardPC, MidPC, RollbackPC, Goto, WriteStatus, storeVars, memVars, threadVars,
    worldVars, envVars
<1>4. CASE Start
  <2>1. /\ status' = "RUNNING" /\ known' /\ memStatus' = "RUNNING" /\ submitted = {}
        /\ pc[t] = "idle" /\ completed = <<>> /\ ~doubt[t]
        /\ \A s \in Step : effect[s] = "ABSENT"
        /\ UNCHANGED <<effect, order, idem, held, completed, pending, pc, todo, cursor, doubt,
                       submitted, proc>>
    BY <1>0, <1>4 DEF Start, UnbegunOK, SureOK, SurePC
  <2>2. ForwardOK(t)' /\ MiddleOK(t)' /\ StageOK(t)'
    BY <2>1 DEF ForwardOK, MiddleOK, StageOK
  <2>3. KnownOK(t)' /\ UnbegunOK(t)'
    BY <1>0, <1>1, <2>1 DEF KnownOK, UnbegunOK
  <2>4. LifoInv(t)'
    BY <1>0, <2>1 DEF LifoInv, JournalOK, OrderOK, CompletedOK, LastOK, AheadOK, Owing, UndoPC
  <2>5. ReachOK(t)'
    BY <2>1, <2>4 DEF ReachOK
  <2> QED
    BY <1>2, <1>3, <2>2, <2>3, <2>5 DEF BatchInv
<1>5. ASSUME Request(t)
      PROVE  ReachOK(t)'
  <2>1. /\ UNCHANGED <<effect, order, completed, known, cursor>>
        /\ pc[t] = "idle" /\ known /\ pc'[t] \in {"check", "approve", "rejecting"}
        /\ status' = status
    BY <1>0, <1>5 DEF Request, Submit, Approve, Reject
  <2>2. LifoInv(t)'
    BY <1>0, <2>1 DEF ReachOK, LifoInv, JournalOK, OrderOK, CompletedOK, LastOK, AheadOK, UndoPC
  <2> QED
    BY <1>0, <2>1, <2>2 DEF ReachOK, Decided
<1>6. CASE Submit(t, b)
  <2>1. /\ submitted = {} /\ submitted' = {b} /\ pc' = [pc EXCEPT ![t] = "check"]
        /\ todo' = [todo EXCEPT ![t] = b] /\ known /\ pc[t] = "idle" /\ ~doubt[t]
        /\ UNCHANGED <<effect, idem, held, status, completed, known, memStatus, pending,
                       doubt, proc>>
    BY <1>0, <1>6 DEF Submit, SureOK, SurePC
  <2>2. /\ status = "RUNNING" /\ memStatus = "RUNNING"
        /\ \A s \in Step : effect[s] = "ABSENT"
    BY <1>0, <2>1 DEF UnbegunOK
  <2>3. pc'[t] = "check" /\ todo'[t] = b
    BY <1>0, <2>1
  <2>4. Remaining(b, FALSE)'
    <3>1. \A i \in DOMAIN b : b[i] \in Step
      BY CoordinatorAssumption
    <3> QED
      BY <2>1, <2>2, <3>1 DEF Remaining, Whole
  <2>5. Remaining(todo[t], FALSE)'
    BY <2>3, <2>4, RemainingThere
  <2>6. ForwardOK(t)' /\ MiddleOK(t)' /\ StageOK(t)'
    BY <2>1, <2>2, <2>3, <2>5 DEF ForwardOK, MiddleOK, StageOK
  <2>7. KnownOK(t)' /\ UnbegunOK(t)'
    BY <1>0, <1>1, <2>1, <2>2, <2>3 DEF KnownOK, UnbegunOK
  <2> QED
    BY <1>2, <1>3, <1>5, <1>6, <2>6, <2>7 DEF BatchInv, Request
<1>7. CASE Approve(t) \/ Reject(t)
  <2>1. /\ memStatus = "AWAITING_APPROVAL" /\ pc[t] = "idle" /\ ~doubt[t] /\ known
        /\ UNCHANGED <<effect, idem, held, status, completed, known, memStatus, doubt,
                       submitted, proc>>
    BY <1>0, <1>7 DEF Approve, Reject, SureOK, SurePC
  <2>2. status = "AWAITING_APPROVAL" /\ (pending # <<>> => pending = held)
    BY <1>0, <2>1 DEF KnownOK
  <2>3. /\ pc'[t] \in {"approve", "rejecting"}
        /\ pc'[t] = "approve" => pending # <<>> /\ pending' = held
    BY <1>0, <1>7, <2>2 DEF Approve, Reject
  <2>4. PICK list : list = held
    OBVIOUS
  <2>5. Remaining(list, FALSE) /\ held # <<>>
    BY <1>0, <2>2, <2>4 DEF ForwardOK
  <2>6. Remaining(held, FALSE)'
    BY <2>1, <2>4, <2>5, RemainingStays, RemainingThere
  <2>7. submitted # {}
    BY <1>0, <2>1 DEF UnbegunOK
  <2>8. ForwardOK(t)' /\ MiddleOK(t)' /\ StageOK(t)'
    BY <2>1, <2>2, <2>3, <2>5, <2>6 DEF ForwardOK, MiddleOK, StageOK
  <2>9. KnownOK(t)' /\ UnbegunOK(t)'
    BY <1>0, <1>1, <2>1, <2>2, <2>3, <2>7 DEF KnownOK, UnbegunOK
  <2> QED
    BY <1>2, <1>3, <1>5, <1>7, <2>8, <2>9 DEF BatchInv, Request
<1> QED
  BY <1>4, <1>6, <1>7 DEF Request

(* A crash leaves the store, and a restart only looks at it.               *)
LEMMA BatchCrash ==
  ASSUME SafeInv, NEW t \in Thread, BatchInv(t), Crash \/ Restart
  PROVE  BatchInv(t)'
<1>0. /\ ForwardOK(t) /\ StageOK(t) /\ KnownOK(t) /\ UnbegunOK(t) /\ BehindOK
      /\ KeyOK /\ DecisionOK /\ OwnerOK(t) /\ SureOK(t)
      /\ proc # "up" => pc[t] = "idle"
  BY DEF SafeInv, ProcessOK, BatchInv, OwnerOK
<1>1. /\ UNCHANGED <<effect, order, idem, status, held, hits, undos, submitted>>
      /\ rpc' \in {"off", "list"} /\ proc' # "up"
  BY DEF Crash, Restart, RecoveryGone, storeVars, worldVars
<1>2. /\ ~known' /\ pc'[t] = "idle" /\ completed' = <<>> /\ memStatus' = "RUNNING"
      /\ pending' = <<>> /\ ~doubt'[t]
  <2>1. CASE Crash
    BY <2>1 DEF Crash
  <2>2. CASE Restart
    BY <1>0, <2>2 DEF Restart, KnownOK, SureOK, SurePC, memVars, threadVars
  <2> QED
    BY <2>1, <2>2
<1>3. BehindOK' /\ KeyOK' /\ DecisionOK'
  BY <1>0, <1>1, BatchQuiet DEF BehindOK
<1>4. ForwardOK(t)'
  <2>1. PICK list : list = held
    OBVIOUS
  <2>2. status = "AWAITING_APPROVAL" => Remaining(list, FALSE) /\ held # <<>>
    BY <1>0, <2>1 DEF ForwardOK
  <2>3. status = "AWAITING_APPROVAL" => Remaining(held, FALSE)'
    BY <1>1, <2>1, <2>2, RemainingStays, RemainingThere
  <2> QED
    BY <1>1, <1>2, <2>2, <2>3 DEF ForwardOK, ForwardPC, MidPC
<1>5. MiddleOK(t)' /\ StageOK(t)'
  BY <1>2 DEF MiddleOK, StageOK, ForwardPC, MidPC, RollbackPC
<1>6. KnownOK(t)' /\ UnbegunOK(t)'
  BY <1>0, <1>1, <1>2 DEF KnownOK, UnbegunOK
<1>7. ReachOK(t)'
  BY <1>2 DEF ReachOK
<1> QED
  BY <1>3, <1>4, <1>5, <1>6, <1>7 DEF BatchInv

(* Nothing has been done in the beginning.                                 *)
LEMMA BatchInit ==
  ASSUME Init, NEW t \in Thread
  PROVE  BatchInv(t)
BY DEF Init, StoreInit, BatchInv, ForwardOK, MiddleOK, StageOK, KnownOK, UnbegunOK,
   ReachOK, BehindOK, KeyOK, NoFalseWitness, DecisionOK, AlreadyCommitted, ForwardPC,
   MidPC, RollbackPC

(* Every step keeps what a saga of one batch and one thread needs.         *)
LEMMA BatchStep ==
  ASSUME SafeInv, SafeInv', WorldInv, NEW t, Thread = {t}, BatchInv(t),
         NEW b, Batch = {b}, Whole(b), ToolOutcome \subseteq {"ok", "failed"},
         [Next]_vars
  PROVE  BatchInv(t)'
<1>1. CASE Next
  BY <1>1, BatchWork, BatchRequest, BatchCrash, BatchRecovery DEF Next
<1>2. CASE UNCHANGED vars
  <2> USE <1>2 DEF vars, storeVars, memVars, threadVars, recVars, worldVars, envVars
  <2>1. /\ ForwardOK(t) /\ MiddleOK(t) /\ StageOK(t) /\ KnownOK(t) /\ UnbegunOK(t)
        /\ ReachOK(t) /\ BehindOK /\ KeyOK /\ DecisionOK
    BY DEF BatchInv
  <2>2. ForwardOK(t)' /\ MiddleOK(t)'
    BY <2>1 DEF ForwardOK, MiddleOK, Remaining, Done, Current, AlreadyCommitted
  <2>3. StageOK(t)' /\ KnownOK(t)' /\ UnbegunOK(t)'
    BY <2>1 DEF StageOK, KnownOK, UnbegunOK, Decided
  <2>4. ReachOK(t)'
    BY <2>1 DEF ReachOK, Decided, LifoInv, JournalOK, OrderOK, CompletedOK, LastOK,
       AheadOK, Current
  <2>5. BehindOK' /\ KeyOK' /\ DecisionOK'
    BY <2>1 DEF BehindOK, KeyOK, NoFalseWitness, AlreadyCommitted, DecisionOK, InPlace,
       Examined
  <2> QED
    BY <2>2, <2>3, <2>4, <2>5 DEF BatchInv
<1> QED
  BY <1>1, <1>2

(* The invariant of a saga of one batch that one thread serves and that    *)
(* crashes anywhere.                                                       *)
LEMMA BatchHolds ==
  ASSUME NEW t, Thread = {t}, NEW b, Batch = {b}, Whole(b),
         ToolOutcome \subseteq {"ok", "failed"}
  PROVE  Spec => []SafeInv /\ []WorldInv /\ []BatchInv(t)
<1>1. Init => WorldInv /\ BatchInv(t)
  BY WorldInit, BatchInit
<1>2. BatchInv(t) => NoFalseWitness
  BY DEF BatchInv, KeyOK
<1>3. SafeInv /\ SafeInv' /\ WorldInv /\ BatchInv(t) /\ [Next]_vars => WorldInv'
  BY <1>2, WorldStep
<1>4. SafeInv /\ SafeInv' /\ WorldInv /\ BatchInv(t) /\ [Next]_vars => BatchInv(t)'
  BY BatchStep
<1> QED
  BY <1>1, <1>3, <1>4, SafeInvHolds, PTL DEF Spec

-----------------------------------------------------------------------------
(* The verdict of a saga of one batch is its status.                       *)
LEMMA BatchVerdict ==
  ASSUME NEW t, Thread = {t}, StageOK(t), StageOK(t)'
  PROVE  /\ status = "COMMITTED" => Verdict = "committed"
         /\ status = "ROLLED_BACK" => Verdict = "undone"
         /\ status = "COMPENSATION_FAILED" => Verdict = "flagged"
         /\ status \notin Terminal => Verdict = "open"
         /\ status' = "COMMITTED" => Verdict' = "committed"
         /\ status' = "ROLLED_BACK" => Verdict' = "undone"
         /\ status' = "COMPENSATION_FAILED" => Verdict' = "flagged"
         /\ status' \notin Terminal => Verdict' = "open"
BY DEF Verdict, Terminal, StageOK, ForwardPC, MidPC

(* A final status stays.                                                   *)
LEMMA BatchFinal ==
  ASSUME SafeInv, NEW t, Thread = {t}, BatchInv(t), [Next]_vars, status \in Terminal
  PROVE  status' = status
<1>1. StageOK(t) /\ BehindOK /\ pc[t] \in ThreadPC
  BY DEF BatchInv, SafeInv, TypeOK
<1>2. CASE Work(t)
  <2>1. pc[t] \in {"faileffect", "faildead"}
    BY <1>1, <1>2, WorkBusy DEF StageOK, ForwardPC, MidPC, RollbackPC, ThreadPC, Terminal
  <2> QED
    BY <1>2, <2>1 DEF Work, ReadPending, TakeNothing, TakePending, Resume, Rejecting, SkipCommitted,
       RejectStep, HoldForApproval, Await, AdmitStep, Prepare, MarkExecuting,
       Execute, RecordApplied, RecordAborted, AppendCompleted, CommitStep,
       FinishSteps, Finish, Rollback, PickEffect, MarkCompensating, Undo,
       RecordCompensated, CompensationsDone, Close, Fail, FailStatus,
       FailEffect, FailDead, MarkAmbiguous, AmbiguousStatus, AmbiguousDead,
       MoveEffect, PushDeadLetter, storeVars
<1>3. CASE Recovery
  <2>1. rpc \in {"list", "faildead"}
    BY <1>1, <1>3, RecoveryFrame DEF BehindOK, Terminal
  <2> QED
    BY <1>3, <2>1 DEF Recovery, RecoverNothing, RecoverApproval, RecoverBegin,
       RecoverDone, RecoverSkip, RecoverKeepFailed, RecoverPrepared, RecoverResolve,
       RecoverAbsent, RecoverPresent, RecoverUnknown, RecoverMark,
       RecoverInterrupted, RecoverUndo, RecoverUndone, RecoverGiveUp,
       RecoverFailStatus, RecoverDeadLetter, Examining, PushDeadLetter, storeVars
<1>4. CASE Start \/ Request(t) \/ Crash \/ Restart \/ UNCHANGED vars
  BY <1>4 DEF Start, Request, Submit, Approve, Reject, Crash, Restart, vars, storeVars,
     Terminal
<1> QED
  BY <1>2, <1>3, <1>4 DEF Next

(* A step changes the world or the status, not both.                       *)
LEMMA WorldOrStatus ==
  ASSUME NEW t, Thread = {t}, [Next]_vars
  PROVE  UNCHANGED <<hits, undos>> \/ status' = status
<1>1. CASE Work(t)
  BY <1>1 DEF Work, ReadPending, TakeNothing, TakePending, Resume, Rejecting, SkipCommitted,
     RejectStep, HoldForApproval, Await, AdmitStep, Prepare, MarkExecuting,
     Execute, RecordApplied, RecordAborted, AppendCompleted, CommitStep,
     FinishSteps, Finish, Rollback, PickEffect, MarkCompensating, Undo,
     RecordCompensated, CompensationsDone, Close, Fail, FailStatus,
     FailEffect, FailDead, MarkAmbiguous, AmbiguousStatus, AmbiguousDead,
     storeVars, worldVars
<1>2. CASE Recovery
  BY <1>2 DEF Recovery, RecoverNothing, RecoverApproval, RecoverBegin,
     RecoverDone, RecoverSkip, RecoverKeepFailed, RecoverPrepared, RecoverResolve,
     RecoverAbsent, RecoverPresent, RecoverUnknown, RecoverMark, RecoverMove,
     RecoverInterrupted, RecoverUndo, RecoverUndone, RecoverGiveUp,
     RecoverFailStatus, RecoverDeadLetter, storeVars, worldVars
<1>3. CASE Start \/ Request(t) \/ Crash \/ Restart \/ UNCHANGED vars
  BY <1>3 DEF Start, Request, Submit, Approve, Reject, Crash, Restart, vars, worldVars
<1> QED
  BY <1>1, <1>2, <1>3 DEF Next

(* The world outside changes by one effect of a saga that is open.         *)
LEMMA WorldMoves ==
  ASSUME SafeInv, WorldInv, NEW t, Thread = {t}, BatchInv(t), [Next]_vars,
         ToolOutcome \subseteq {"ok", "failed"}
  PROVE  \/ UNCHANGED <<hits, undos>>
         \/ /\ status \notin Terminal
            /\ \E s \in Step :
                 \/ /\ hits[s] = 0 /\ undos[s] = 0
                    /\ hits' = [hits EXCEPT ![s] = 1] /\ undos' = undos
                 \/ hits' = hits /\ undos' = [undos EXCEPT ![s] = @ + 1]
<1>1. /\ hits \in [Step -> Nat] /\ undos \in [Step -> Nat] /\ OwnerOK(t) /\ StageOK(t)
      /\ \A s \in Step : EffectOK(s)
      /\ BehindOK /\ RecoveryOK /\ RecoveryKnows /\ PositionOK(t)
  BY DEF SafeInv, TypeOK, BatchInv, WorldInv
<1>2. CASE Execute(t)
  <2>1. Current(t) \in Step /\ hits[Current(t)] = 0 /\ undos[Current(t)] = 0
        /\ status \notin Terminal
    <3>1. pc[t] = "execute" /\ Current(t) \in Step
      BY <1>2, CurrentType DEF Execute, StepPC, SafeInv
    <3>2. effect[Current(t)] = "EXECUTING" /\ hits[Current(t)] = 0
      BY <1>1, <3>1 DEF OwnerOK, SureOK, DoubtPC, Owns
    <3> QED
      BY <1>1, <3>1, <3>2 DEF EffectOK, Reversing, StageOK, ForwardPC, MidPC, Terminal
  <2>2. undos' = undos /\ (hits' = hits \/ hits' = [hits EXCEPT ![Current(t)] = @ + 1])
    BY <1>2 DEF Execute
  <2>3. hits' = hits \/ hits' = [hits EXCEPT ![Current(t)] = 1]
    BY <1>1, <2>1, <2>2
  <2> QED
    BY <2>1, <2>2, <2>3
<1>3. CASE Undo(t)
  <2>1. Undoing(t) \in Step /\ status \notin Terminal
    BY <1>1, <1>3, UndoingType DEF Undo, UndoPC, SafeInv, StageOK, RollbackPC, Terminal
  <2>2. hits' = hits /\ (undos' = undos \/ undos' = [undos EXCEPT ![Undoing(t)] = @ + 1])
    BY <1>3 DEF Undo
  <2> QED
    BY <2>1, <2>2
<1>4. CASE RecoverResolve
  <2>1. Examined \in Step /\ rpc = "walk" /\ effect[Examined] \in {"EXECUTING", "AMBIGUOUS"}
        /\ undos' = undos
    <3>1. rpc = "walk" /\ rcur > 0 /\ snap[Examined] \in {"EXECUTING", "AMBIGUOUS"}
          /\ undos' = undos
      BY <1>4 DEF RecoverResolve, Examining
    <3>2. Examined \in Step /\ snap[Examined] = effect[Examined]
      BY <1>1, <3>1, ExaminedCurrent DEF SafeInv
    <3> QED
      BY <3>1, <3>2
  <2>2. undos[Examined] = 0 /\ status \notin Terminal /\ hits[Examined] \in {0, 1}
    BY <1>1, <2>1 DEF EffectOK, Reversing, BehindOK, Terminal
  <2>3. PICK answer \in ForwardAnswer(Examined) :
          hits' = [hits EXCEPT ![Examined] = answer[2]]
    BY <1>4 DEF RecoverResolve
  <2>4. answer[2] \in {hits[Examined], 1}
    BY <2>3 DEF ForwardAnswer
  <2>5. answer[2] = hits[Examined] \/ (hits[Examined] = 0 /\ answer[2] = 1)
    BY <2>2, <2>4
  <2> QED
    BY <1>1, <2>1, <2>2, <2>3, <2>5
<1>5. CASE RecoverUndo
  <2>1. Examined \in Step /\ status \notin Terminal
    <3>1. rpc = "undo" /\ rcur > 0
      BY <1>1, <1>5 DEF RecoverUndo, RecoveryOK
    <3>2. Examined \in Step
      BY <1>1, <3>1, ExaminedType DEF SafeInv
    <3> QED
      BY <1>1, <3>1, <3>2 DEF BehindOK, Terminal
  <2>2. hits' = hits /\ (undos' = undos \/ undos' = [undos EXCEPT ![Examined] = @ + 1])
    BY <1>5 DEF RecoverUndo
  <2> QED
    BY <2>1, <2>2
<1>6. CASE Work(t) /\ ~Execute(t) /\ ~Undo(t)
  BY <1>6 DEF Work, ReadPending, TakeNothing, TakePending, Resume, Rejecting, SkipCommitted,
     RejectStep, HoldForApproval, Await, AdmitStep, Prepare, MarkExecuting,
     RecordApplied, RecordAborted, AppendCompleted, CommitStep,
     FinishSteps, Finish, Rollback, PickEffect, MarkCompensating,
     RecordCompensated, CompensationsDone, Close, Fail, FailStatus,
     FailEffect, FailDead, MarkAmbiguous, AmbiguousStatus, AmbiguousDead, worldVars
<1>7. CASE Recovery /\ ~RecoverResolve /\ ~RecoverUndo
  BY <1>7 DEF Recovery, RecoverNothing, RecoverApproval, RecoverBegin, RecoverDone,
     RecoverSkip, RecoverKeepFailed, RecoverPrepared, RecoverAbsent, RecoverPresent,
     RecoverUnknown, RecoverMark, RecoverInterrupted, RecoverUndone, RecoverGiveUp,
     RecoverFailStatus, RecoverDeadLetter, RecoverMove, worldVars
<1>8. CASE Start \/ Request(t) \/ Crash \/ Restart \/ UNCHANGED vars
  BY <1>8 DEF Start, Request, Submit, Approve, Reject, Crash, Restart, vars, worldVars
<1> QED
  BY <1>2, <1>3, <1>4, <1>5, <1>6, <1>7, <1>8 DEF Next

(* An effect begins or ends in the abstract saga as it does in the real one. *)
LEMMA LiveMoves ==
  ASSUME hits \in [Step -> Nat], undos \in [Step -> Nat], NEW s \in Step,
         \/ hits[s] = 0 /\ undos[s] = 0 /\ hits' = [hits EXCEPT ![s] = 1] /\ undos' = undos
         \/ hits' = hits /\ undos' = [undos EXCEPT ![s] = @ + 1]
  PROVE  \/ s \notin Live /\ Live' = Live \cup {s}
         \/ s \in Live /\ Live' = Live \ {s}
         \/ Live' = Live
<1>1. CASE hits[s] = 0 /\ undos[s] = 0 /\ hits' = [hits EXCEPT ![s] = 1] /\ undos' = undos
  <2>1. s \notin Live
    BY <1>1 DEF Live, InPlace
  <2>2. \A r \in Step : InPlace(r)' <=> (InPlace(r) \/ r = s)
    BY <1>1 DEF InPlace
  <2> QED
    BY <2>1, <2>2 DEF Live
<1>2. CASE hits' = hits /\ undos' = [undos EXCEPT ![s] = @ + 1]
  <2>1. undos'[s] > 0 /\ \A r \in Step : r # s => undos'[r] = undos[r]
    BY <1>2
  <2>2. \A r \in Step : InPlace(r)' <=> (InPlace(r) /\ r # s)
    BY <1>2, <2>1 DEF InPlace
  <2>3. Live' = Live \ {s}
    BY <2>2 DEF Live
  <2> QED
    BY <2>3
<1> QED
  BY <1>1, <1>2

(* COMMITTED is written where every step, or one with its key, is in place. *)
LEMMA CommitMeansDone ==
  ASSUME SafeInv, WorldInv, NEW t, Thread = {t}, BatchInv(t), Finish(t)
  PROVE  \A s \in Step : SameKey[s] \cap Live # {}
<1>1. Remaining(<<>>, FALSE) /\ \A s \in Step : RecordOK(s) /\ EffectOK(s)
  BY DEF Finish, BatchInv, ForwardOK, WorldInv, SafeInv
<1>2. TAKE s \in Step
<1>3. Done(s)
  BY <1>1 DEF Remaining
<1>4. PICK r \in SameKey[s] : effect[r] = "COMMITTED"
  BY <1>3 DEF Done
<1>5. r \in Step
  BY <1>4 DEF SameKey
<1>6. hits[r] = 1 /\ ~(undos[r] > 0)
  BY <1>1, <1>4, <1>5 DEF RecordOK, EffectOK, Reversing
<1>7. undos[r] = 0
  BY <1>5, <1>6 DEF SafeInv, TypeOK
<1>8. r \in Live
  BY <1>5, <1>6, <1>7 DEF Live, InPlace
<1> QED
  BY <1>4, <1>8

(* The only request that writes COMMITTED is one that is done.             *)
LEMMA OnlyFinishCommits ==
  ASSUME NEW t, Thread = {t}, [Next]_vars, status # "COMMITTED", status' = "COMMITTED"
  PROVE  Finish(t)
<1>1. ~Recovery
  BY DEF Recovery, RecoverNothing, RecoverApproval, RecoverBegin, RecoverDone,
     RecoverSkip, RecoverKeepFailed, RecoverPrepared, RecoverResolve, RecoverAbsent,
     RecoverPresent, RecoverUnknown, RecoverMark, RecoverInterrupted, RecoverUndo,
     RecoverUndone, RecoverGiveUp, RecoverFailStatus, RecoverDeadLetter, RecoverMove,
     MoveEffect, WriteStatus, PushDeadLetter, storeVars
<1>2. ~Start /\ ~Request(t) /\ ~Crash /\ ~Restart /\ ~UNCHANGED vars
  BY DEF Start, Request, Submit, Approve, Reject, Crash, Restart, WriteStatus, vars,
     storeVars
<1>3. Work(t)
  BY <1>1, <1>2 DEF Next
<1> QED
  BY <1>3 DEF Work, ReadPending, TakeNothing, TakePending, Resume, Rejecting, SkipCommitted,
     RejectStep, HoldForApproval, Await, AdmitStep, Prepare, MarkExecuting,
     Execute, RecordApplied, RecordAborted, AppendCompleted, CommitStep,
     FinishSteps, Rollback, PickEffect, MarkCompensating, Undo,
     RecordCompensated, CompensationsDone, Close, Fail, FailStatus,
     FailEffect, FailDead, MarkAmbiguous, AmbiguousStatus, AmbiguousDead,
     PrepareEffect, MoveEffect, PublishCommit, WriteStatus, WriteStatusHolding,
     PushDeadLetter, LeaveRollback, storeVars

(* A step of the coordinator is a step of the abstract saga, or none.      *)
LEMMA OutcomeStep ==
  ASSUME SafeInv, SafeInv', WorldInv, NEW t, Thread = {t}, BatchInv(t), BatchInv(t)',
         [Next]_vars, ToolOutcome \subseteq {"ok", "failed"}
  PROVE  [Outcome!Next]_(Outcome!vars)
<1> USE DEF Outcome!vars
<1>1. StageOK(t) /\ StageOK(t)' /\ status \in SagaStatus \cup {"NONE"}
      /\ status' \in SagaStatus \cup {"NONE"}
  BY DEF BatchInv, SafeInv, TypeOK, StoreTypeOK
<1>2. CASE ~UNCHANGED <<hits, undos>>
  <2>1. UNCHANGED status /\ status \notin Terminal
    BY <1>2, WorldMoves, WorldOrStatus
  <2>2. Verdict = "open" /\ Verdict' = "open"
    BY <1>1, <2>1, BatchVerdict
  <2>3. PICK s \in Step :
          \/ /\ hits[s] = 0 /\ undos[s] = 0
             /\ hits' = [hits EXCEPT ![s] = 1] /\ undos' = undos
          \/ hits' = hits /\ undos' = [undos EXCEPT ![s] = @ + 1]
    BY <1>2, WorldMoves
  <2>4. \/ s \notin Live /\ Live' = Live \cup {s}
        \/ s \in Live /\ Live' = Live \ {s}
        \/ Live' = Live
    BY <2>3, LiveMoves DEF SafeInv, TypeOK
  <2> QED
    BY <2>2, <2>4 DEF Outcome!Next, Outcome!Apply, Outcome!Undo
<1>3. CASE UNCHANGED <<hits, undos>>
  <2>1. Live' = Live
    BY <1>3 DEF Live, InPlace
  <2>2. CASE status \in Terminal
    <3>1. status' = status
      BY <2>2, BatchFinal
    <3>2. Verdict' = Verdict
      BY <1>1, <2>2, <3>1, BatchVerdict DEF Terminal
    <3> QED
      BY <2>1, <3>2
  <2>3. CASE status \notin Terminal
    <3>1. Verdict = "open"
      BY <1>1, <2>3, BatchVerdict
    <3>2. CASE status' = "COMMITTED"
      <4>1. Finish(t)
        BY <2>3, <3>2, OnlyFinishCommits DEF Terminal
      <4>2. \A s \in Step : SameKey[s] \cap Live # {}
        BY <4>1, CommitMeansDone
      <4>3. Verdict' = "committed"
        BY <1>1, <3>2, BatchVerdict
      <4> QED
        BY <2>1, <3>1, <4>2, <4>3 DEF Outcome!Next, Outcome!Commit
    <3>3. CASE status' = "ROLLED_BACK"
      <4>1. Live' = {}
        BY <3>3 DEF BatchInv, DecisionOK, Live
      <4>2. Verdict' = "undone"
        BY <1>1, <3>3, BatchVerdict
      <4> QED
        BY <2>1, <3>1, <4>1, <4>2 DEF Outcome!Next, Outcome!Abort
    <3>4. CASE status' = "COMPENSATION_FAILED"
      <4>1. Verdict' = "flagged"
        BY <1>1, <3>4, BatchVerdict
      <4> QED
        BY <2>1, <3>1, <4>1 DEF Outcome!Next, Outcome!Flag
    <3>5. CASE status' \notin Terminal
      <4>1. Verdict' = "open"
        BY <1>1, <3>5, BatchVerdict
      <4> QED
        BY <2>1, <3>1, <4>1
    <3> QED
      BY <3>2, <3>3, <3>4, <3>5 DEF Terminal
  <2> QED
    BY <2>2, <2>3
<1> QED
  BY <1>2, <1>3

-----------------------------------------------------------------------------
(* ImplementsOutcome for a saga of one batch that one thread serves, with  *)
(* any number of crashes, every recovery hook, and a compensation that may *)
(* fail or go unreported: if a tool reports what it did, every step of     *)
(* execute_saga, execute_compensations and recover is a step of the        *)
(* abstract saga or leaves it alone.                                       *)
THEOREM OutcomeHolds ==
  ASSUME NEW t, Thread = {t}, NEW b, Batch = {b}, Whole(b),
         ToolOutcome \subseteq {"ok", "failed"}
  PROVE  Spec => ImplementsOutcome
<1>1. Init => Outcome!Init
  BY DEF Init, StoreInit, Outcome!Init, Live, InPlace, Verdict
<1>2. SafeInv /\ SafeInv' /\ WorldInv /\ BatchInv(t) /\ BatchInv(t)' /\ [Next]_vars =>
        [Outcome!Next]_(Outcome!vars)
  BY OutcomeStep
<1> QED
  BY <1>1, <1>2, BatchHolds, PTL DEF Spec, ImplementsOutcome, Outcome!Spec

(* NoOrphan under the same hypotheses: wherever the process crashes, no    *)
(* effect in place is lost from sight.  A second batch refutes this: when  *)
(* it runs while the first waits for an approval, recovery restores the    *)
(* waiting saga and leaves an interrupted call of the second as it is.     *)
THEOREM BatchNoOrphan ==
  ASSUME NEW t, Thread = {t}, NEW b, Batch = {b}, Whole(b),
         ToolOutcome \subseteq {"ok", "failed"}
  PROVE  Spec => []NoOrphan
<1>1. SafeInv /\ WorldInv /\ BatchInv(t) => NoOrphan
  <2> SUFFICES ASSUME SafeInv, WorldInv, BatchInv(t), AtRest, NEW s \in Step, InPlace(s),
                      status # "COMPENSATION_FAILED"
               PROVE  effect[s] = "COMMITTED" /\ status \in {"COMMITTED", "AWAITING_APPROVAL"}
    BY DEF NoOrphan
  <2>1. effect[s] # "ABSENT" /\ effect[s] \in EffectState \cup {"ABSENT"}
    BY InPlaceOwing DEF Owing, SafeInv, TypeOK, StoreTypeOK
  <2>2. pc[t] = "idle" /\ proc = "up"
    BY DEF AtRest
  <2>3. submitted # {}
    BY <2>1 DEF BatchInv, UnbegunOK
  <2>4. status \in {"COMMITTED", "ROLLED_BACK", "AWAITING_APPROVAL"}
    BY <2>2, <2>3 DEF BatchInv, KnownOK, UnbegunOK, Decided, Terminal
  <2>5. status # "ROLLED_BACK"
    BY DEF BatchInv, DecisionOK
  <2>6. CASE status = "COMMITTED"
    BY <2>1, <2>6 DEF BatchInv, DecisionOK
  <2>7. CASE status = "AWAITING_APPROVAL"
    BY <2>1, <2>7 DEF BatchInv, ForwardOK, Remaining
  <2> QED
    BY <2>4, <2>5, <2>6, <2>7
<1> QED
  BY <1>1, BatchHolds, PTL

(* LifoCompensation under the same hypotheses, in the request and in       *)
(* recovery: execute_compensations walks back over what the process knows, *)
(* restored or not, and recover walks back over the journal.               *)
THEOREM BatchLifo ==
  ASSUME NEW t, Thread = {t}, NEW b, Batch = {b}, Whole(b),
         ToolOutcome \subseteq {"ok", "failed"}
  PROVE  Spec => LifoCompensation
<1>1. SafeInv /\ WorldInv /\ BatchInv(t) /\ [Next]_vars =>
        [\A i, j \in DOMAIN order :
           i < j /\ undos'[order[i]] # undos[order[i]] =>
             effect[order[j]] \notin
               {"APPLIED", "COMMITTED", "COMPENSATING", "COMPENSATION_FAILED"}]_vars
  <2> SUFFICES ASSUME SafeInv, WorldInv, BatchInv(t), Next,
                      NEW i \in DOMAIN order, NEW j \in DOMAIN order,
                      i < j, undos'[order[i]] # undos[order[i]]
               PROVE  effect[order[j]] \notin Owing
    BY DEF Owing
  <2>1. ~Start /\ ~Request(t) /\ ~Crash /\ ~Restart
    BY DEF Start, Request, Submit, Approve, Reject, Crash, Restart, worldVars
  <2>2. CASE Work(t)
    <3>1. pc[t] # "idle"
      BY <2>2, WorkBusy DEF SafeInv
    <3>2. LifoInv(t)
      BY <3>1 DEF BatchInv, KnownOK, ReachOK
    <3> QED
      BY <2>2, <3>2, LifoUndo
  <2>3. CASE Recovery
    <3>1. RecoverUndo
      BY <2>3 DEF Recovery, RecoverNothing, RecoverApproval, RecoverBegin, RecoverDone,
         RecoverSkip, RecoverKeepFailed, RecoverPrepared, RecoverResolve, RecoverAbsent,
         RecoverPresent, RecoverUnknown, RecoverMark, RecoverInterrupted, RecoverUndone,
         RecoverGiveUp, RecoverFailStatus, RecoverDeadLetter, RecoverMove, worldVars
    <3>2. /\ rpc = "undo" /\ rcur \in DOMAIN order /\ Examined \in Step
          /\ order \in Seq(Step) /\ undos \in [Step -> Nat]
      <4>1. rpc = "undo" /\ RecoveryOK /\ TypeOK
        BY <3>1 DEF RecoverUndo, SafeInv
      <4>2. rcur > 0 /\ rcur \in Nat /\ rcur <= Len(order) /\ order \in Seq(Step)
        BY <4>1 DEF RecoveryOK, TypeOK, StoreTypeOK
      <4>3. rcur \in DOMAIN order
        BY <4>2
      <4>4. Examined \in Step
        BY <4>1, <4>2, ExaminedType
      <4> QED
        BY <4>1, <4>2, <4>3, <4>4 DEF TypeOK
    <3>3. order[i] = order[rcur]
      BY <3>1, <3>2 DEF RecoverUndo, Examined
    <3>4. i = rcur
      BY <3>2, <3>3 DEF WorldInv, OrderOK
    <3>5. effect[order[j]] \in {"ABORTED", "COMPENSATED"}
      BY <3>2, <3>4 DEF BatchInv, BehindOK
    <3> QED
      BY <3>5 DEF Owing
  <2> QED
    BY <2>1, <2>2, <2>3 DEF Next
<1> QED
  BY <1>1, BatchHolds, PTL DEF Spec, LifoCompensation

(* RolledBackMeansUndone under the same hypotheses; there is not even an   *)
(* effect in place that a dead letter names.                               *)
THEOREM BatchRolledBack ==
  ASSUME NEW t, Thread = {t}, NEW b, Batch = {b}, Whole(b),
         ToolOutcome \subseteq {"ok", "failed"}
  PROVE  Spec => /\ []RolledBackMeansUndone
                 /\ [](status = "ROLLED_BACK" => \A s \in Step : ~InPlace(s))
<1>1. BatchInv(t) => /\ RolledBackMeansUndone
                     /\ status = "ROLLED_BACK" => \A s \in Step : ~InPlace(s)
  BY DEF BatchInv, DecisionOK, RolledBackMeansUndone
<1> QED
  BY <1>1, BatchHolds, PTL

(* JournalMatchesWorld under the same hypotheses, steps that repeat a key  *)
(* included: the batch skips a step whose key is published, so no key      *)
(* vouches for a call of another step.                                     *)
THEOREM BatchJournal ==
  ASSUME NEW t, Thread = {t}, NEW b, Batch = {b}, Whole(b),
         ToolOutcome \subseteq {"ok", "failed"}
  PROVE  Spec => []JournalMatchesWorld
<1> QED
  BY BatchHolds, WorldMatches, PTL
=============================================================================
