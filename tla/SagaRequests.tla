---------------------------- MODULE SagaRequests ----------------------------
(***************************************************************************)
(* The requests of SagaCoordinator in coordinator.py, for one saga:        *)
(* execute_saga, resume_after_approval, reject_pending and                 *)
(* execute_compensations.                                                  *)
(*                                                                         *)
(* One action is one call that leaves the thread (to the store or to a     *)
(* tool) or one write of the state shared in active_sagas.  The endpoints  *)
(* of main.py run in a thread pool and neither they nor the coordinator    *)
(* hold a lock, so the actions of different threads interleave freely.     *)
(***************************************************************************)
EXTENDS SagaState

(***************************************************************************)
(* Requests.                                                               *)
(***************************************************************************)

(* start_transaction_log.  The caller learns the saga_id from the          *)
(* response, so nobody can observe the two writes apart.                   *)
Start ==
  /\ proc = "up" /\ status = "NONE"
  /\ known' = TRUE
  /\ memStatus' = "RUNNING"
  /\ WriteStatus("RUNNING")
  /\ UNCHANGED <<completed, pending, approved>>
  /\ UNCHANGED <<threadVars, recVars, worldVars, envVars>>

(* The call of execute_saga: an unknown saga is refused, no status is.     *)
Submit(t, b) ==
  /\ proc = "up" /\ pc[t] = "idle"
  /\ known
  /\ b \notin submitted
  /\ submitted' = submitted \cup {b}
  /\ todo' = [todo EXCEPT ![t] = b]
  /\ Goto(t, "check")
  /\ UNCHANGED <<cursor, doubt, proc, crashes, hook>>
  /\ UNCHANGED <<storeVars, memVars, recVars, worldVars>>

(* resume_after_approval: its check ...                                    *)
Approve(t) ==
  /\ proc = "up" /\ pc[t] = "idle"
  /\ known /\ memStatus = "AWAITING_APPROVAL" /\ pending # <<>>
  /\ Goto(t, "approve")
  /\ UNCHANGED <<todo, cursor, doubt>>
  /\ UNCHANGED <<storeVars, memVars, recVars, worldVars, envVars>>

(* ... its read of pending_steps, which another request may have emptied   *)
(* or filled anew since ...                                                *)
ReadPending(t) ==
  /\ pc[t] = "approve"
  /\ todo' = [todo EXCEPT ![t] = pending]
  /\ Goto(t, IF pending = <<>> THEN "nothing" ELSE "take")
  /\ UNCHANGED <<cursor, doubt>>
  /\ UNCHANGED <<storeVars, memVars, recVars, worldVars, envVars>>

(* ... if nothing was in it, IndexError, once the list is emptied ...      *)
TakeNothing(t) ==
  /\ pc[t] = "nothing"
  /\ pending' = <<>>
  /\ Goto(t, "idle")
  /\ UNCHANGED <<known, memStatus, completed, approved, todo, cursor, doubt>>
  /\ UNCHANGED <<storeVars, recVars, worldVars, envVars>>

(* ... its writes of the shared transaction ...                            *)
TakePending(t) ==
  /\ pc[t] = "take"
  /\ pending' = <<>>
  /\ approved' = approved \cup {Current(t)}
  /\ memStatus' = "RUNNING"
  /\ Goto(t, "resume")
  /\ UNCHANGED <<known, completed, todo, cursor, doubt>>
  /\ UNCHANGED <<storeVars, recVars, worldVars, envVars>>

(* ... and its durable write, before it calls execute_saga.                *)
Resume(t) ==
  /\ pc[t] = "resume"
  /\ WriteStatusHolding("RUNNING", <<>>)
  /\ Goto(t, "check")
  /\ UNCHANGED <<todo, cursor, doubt, memVars, recVars, worldVars, envVars>>

(* reject_pending: it checks the status but not that a step is pending.    *)
Reject(t) ==
  /\ proc = "up" /\ pc[t] = "idle"
  /\ known /\ memStatus = "AWAITING_APPROVAL"
  /\ pending' = <<>>
  /\ Goto(t, "rejecting")
  /\ UNCHANGED <<known, memStatus, completed, approved, todo, cursor, doubt>>
  /\ UNCHANGED <<storeVars, recVars, worldVars, envVars>>

Rejecting(t) ==
  /\ pc[t] = "rejecting"
  /\ WriteStatusHolding("COMPENSATING", <<>>)
  /\ Goto(t, "rollback")
  /\ UNCHANGED <<todo, cursor, doubt, memVars, recVars, worldVars, envVars>>

(* A request returns.                                                      *)
Return(t) ==
  /\ Goto(t, "idle")
  /\ todo' = [todo EXCEPT ![t] = <<>>]

-----------------------------------------------------------------------------
(***************************************************************************)
(* execute_saga: the gates in front of a step.                             *)
(***************************************************************************)

(* A step whose key is already published is skipped; it is neither         *)
(* journaled nor appended to completed_steps.                              *)
SkipCommitted(t) ==
  /\ pc[t] = "check" /\ todo[t] # <<>>
  /\ AlreadyCommitted(Current(t))
  /\ todo' = [todo EXCEPT ![t] = Tail(@)]
  /\ UNCHANGED <<pc, cursor, doubt>>
  /\ UNCHANGED <<storeVars, memVars, recVars, worldVars, envVars>>

(* The verifier rejects the step, or the sandbox's validate raises: the    *)
(* saga is rolled back before anything is journaled for the step.          *)
RejectStep(t) ==
  /\ pc[t] = "check" /\ todo[t] # <<>>
  /\ ~AlreadyCommitted(Current(t))
  /\ Goto(t, "rollback")
  /\ UNCHANGED <<todo, cursor, doubt>>
  /\ UNCHANGED <<storeVars, memVars, recVars, worldVars, envVars>>

NeedsApproval(s) == s \in Gated \ approved

(* The approval gate keeps this step and the ones behind it.               *)
HoldForApproval(t) ==
  /\ pc[t] = "check" /\ todo[t] # <<>>
  /\ ~AlreadyCommitted(Current(t))
  /\ NeedsApproval(Current(t))
  /\ memStatus' = "AWAITING_APPROVAL"
  /\ pending' = todo[t]
  /\ Goto(t, "await")
  /\ UNCHANGED <<known, completed, approved, todo, cursor, doubt>>
  /\ UNCHANGED <<storeVars, recVars, worldVars, envVars>>

Await(t) ==
  /\ pc[t] = "await"
  /\ WriteStatusHolding("AWAITING_APPROVAL", todo[t])
  /\ Return(t)
  /\ UNCHANGED <<cursor, doubt, memVars, recVars, worldVars, envVars>>

(* A step that is executed before it is journaled (a mutant of AdmitStep). *)
AdmitUnjournaled(t) ==
  /\ pc[t] = "check" /\ todo[t] # <<>>
  /\ ~AlreadyCommitted(Current(t))
  /\ ~NeedsApproval(Current(t))
  /\ Goto(t, "execute")
  /\ UNCHANGED <<todo, cursor, doubt>>
  /\ UNCHANGED <<storeVars, memVars, recVars, worldVars, envVars>>

AdmitStep(t) ==
  /\ pc[t] = "check" /\ todo[t] # <<>>
  /\ ~AlreadyCommitted(Current(t))
  /\ ~NeedsApproval(Current(t))
  /\ Goto(t, "prepare")
  /\ UNCHANGED <<todo, cursor, doubt>>
  /\ UNCHANGED <<storeVars, memVars, recVars, worldVars, envVars>>

-----------------------------------------------------------------------------
(***************************************************************************)
(* execute_saga: write-ahead, execute, record, commit.                     *)
(***************************************************************************)

Prepare(t) ==
  /\ pc[t] = "prepare"
  /\ PrepareEffect(Current(t))
  /\ Goto(t, "mark")
  /\ UNCHANGED <<todo, cursor, doubt, memVars, recVars, worldVars, envVars>>

(* PREPARED -> EXECUTING, after which the call is in doubt.  A lost        *)
(* compare-and-set raises and rolls the saga back.                         *)
MarkExecuting(t) ==
  /\ pc[t] = "mark"
  /\ IF CanMove(Current(t), {"PREPARED"})
     THEN /\ MoveEffect(Current(t), "EXECUTING")
          /\ doubt' = [doubt EXCEPT ![t] = TRUE]
          /\ Goto(t, "execute")
     ELSE /\ Goto(t, "rollback")
          /\ UNCHANGED <<storeVars, doubt>>
  /\ UNCHANGED <<todo, cursor, memVars, recVars, worldVars, envVars>>

(* sandbox.execute.                                                        *)
Execute(t) ==
  /\ pc[t] = "execute"
  /\ \E o \in ToolOutcome :
       /\ hits' = IF o \in {"ok", "lost"}
                  THEN [hits EXCEPT ![Current(t)] = @ + 1]
                  ELSE hits
       /\ Goto(t, CASE o = "ok" -> "record"
                    [] o = "failed" -> "abort"
                    [] OTHER -> "rollback")
  /\ UNCHANGED <<undos, todo, cursor, doubt>>
  /\ UNCHANGED <<storeVars, memVars, recVars, envVars>>

(* EXECUTING -> APPLIED.                                                   *)
RecordApplied(t) ==
  /\ pc[t] = "record"
  /\ IF CanMove(Current(t), {"EXECUTING"})
     THEN /\ MoveEffect(Current(t), "APPLIED")
          /\ doubt' = [doubt EXCEPT ![t] = FALSE]
          /\ Goto(t, "append")
     ELSE /\ Goto(t, "rollback")
          /\ UNCHANGED <<storeVars, doubt>>
  /\ UNCHANGED <<todo, cursor, memVars, recVars, worldVars, envVars>>

(* EXECUTING -> ABORTED for an explicit failed result, which then raises.  *)
RecordAborted(t) ==
  /\ pc[t] = "abort"
  /\ IF CanMove(Current(t), {"EXECUTING"})
     THEN /\ MoveEffect(Current(t), "ABORTED")
          /\ doubt' = [doubt EXCEPT ![t] = FALSE]
     ELSE UNCHANGED <<storeVars, doubt>>
  /\ Goto(t, "rollback")
  /\ UNCHANGED <<todo, cursor, memVars, recVars, worldVars, envVars>>

(* completed.append forgotten (a mutant of AppendCompleted).               *)
AppendNothing(t) ==
  /\ pc[t] = "append"
  /\ Goto(t, "commit")
  /\ UNCHANGED <<todo, cursor, doubt>>
  /\ UNCHANGED <<storeVars, memVars, recVars, worldVars, envVars>>

AppendCompleted(t) ==
  /\ pc[t] = "append"
  /\ completed' = Append(completed, Current(t))
  /\ Goto(t, "commit")
  /\ UNCHANGED <<known, memStatus, pending, approved, todo, cursor, doubt>>
  /\ UNCHANGED <<storeVars, recVars, worldVars, envVars>>

(* commit_effect: APPLIED -> COMMITTED with the idempotency key.           *)
CommitStep(t) ==
  /\ pc[t] = "commit"
  /\ IF CanMove(Current(t), {"APPLIED"})
     THEN /\ PublishCommit(Current(t))
          /\ todo' = [todo EXCEPT ![t] = Tail(@)]
          /\ Goto(t, "check")
     ELSE /\ Goto(t, "rollback")
          /\ UNCHANGED <<storeVars, todo>>
  /\ UNCHANGED <<cursor, doubt, memVars, recVars, worldVars, envVars>>

(* All steps done: the transaction becomes COMMITTED, whatever it was.     *)
FinishSteps(t) ==
  /\ pc[t] = "check" /\ todo[t] = <<>>
  /\ memStatus' = "COMMITTED"
  /\ Goto(t, "finish")
  /\ UNCHANGED <<known, completed, pending, approved, todo, cursor, doubt>>
  /\ UNCHANGED <<storeVars, recVars, worldVars, envVars>>

Finish(t) ==
  /\ pc[t] = "finish"
  /\ WriteStatus("COMMITTED")
  /\ Return(t)
  /\ UNCHANGED <<cursor, doubt, memVars, recVars, worldVars, envVars>>

-----------------------------------------------------------------------------
(***************************************************************************)
(* execute_compensations: completed steps last in, first out.              *)
(***************************************************************************)

(* The list is shared: reversed() fixes where the iteration starts, steps  *)
(* that other threads append later are not visited.                        *)
Rollback(t) ==
  /\ pc[t] = "rollback"
  /\ WriteStatus("COMPENSATING")
  /\ cursor' = [cursor EXCEPT ![t] = Len(completed)]
  /\ Goto(t, "pick")
  /\ UNCHANGED <<todo, doubt, memVars, recVars, worldVars, envVars>>

(* get_effect: a committed or applied effect is marked, one that is        *)
(* already COMPENSATING is compensated again, any other raises.            *)
PickEffect(t) ==
  /\ pc[t] = "pick" /\ cursor[t] > 0
  /\ Goto(t, CASE CanMove(Undoing(t), {"APPLIED", "COMMITTED"}) -> "marking"
               [] effect[Undoing(t)] = "COMPENSATING" -> "undo"
               [] OTHER -> "fail")
  /\ UNCHANGED <<todo, cursor, doubt>>
  /\ UNCHANGED <<storeVars, memVars, recVars, worldVars, envVars>>

MarkCompensating(t) ==
  /\ pc[t] = "marking"
  /\ IF CanMove(Undoing(t), {"APPLIED", "COMMITTED"})
     THEN /\ MoveEffect(Undoing(t), "COMPENSATING")
          /\ Goto(t, "undo")
     ELSE /\ Goto(t, "fail")
          /\ UNCHANGED storeVars
  /\ UNCHANGED <<todo, cursor, doubt, memVars, recVars, worldVars, envVars>>

(* The result of a compensation not looked at (a mutant of Undo).          *)
UndoUnchecked(t) ==
  /\ pc[t] = "undo"
  /\ \E o \in UndoOutcome :
       undos' = IF o \in {"ok", "lost"}
                THEN [undos EXCEPT ![Undoing(t)] = @ + 1]
                ELSE undos
  /\ Goto(t, "undone")
  /\ UNCHANGED <<hits, todo, cursor, doubt>>
  /\ UNCHANGED <<storeVars, memVars, recVars, envVars>>

(* sandbox.execute_compensation.                                           *)
Undo(t) ==
  /\ pc[t] = "undo"
  /\ \E o \in UndoOutcome :
       /\ undos' = IF o \in {"ok", "lost"}
                   THEN [undos EXCEPT ![Undoing(t)] = @ + 1]
                   ELSE undos
       /\ Goto(t, IF o = "ok" THEN "undone" ELSE "fail")
  /\ UNCHANGED <<hits, todo, cursor, doubt>>
  /\ UNCHANGED <<storeVars, memVars, recVars, envVars>>

RecordCompensated(t) ==
  /\ pc[t] = "undone"
  /\ IF CanMove(Undoing(t), {"COMPENSATING"})
     THEN /\ MoveEffect(Undoing(t), "COMPENSATED")
          /\ cursor' = [cursor EXCEPT ![t] = @ - 1]
          /\ Goto(t, "pick")
     ELSE /\ Goto(t, "fail")
          /\ UNCHANGED <<storeVars, cursor>>
  /\ UNCHANGED <<todo, doubt, memVars, recVars, worldVars, envVars>>

(* The effect in doubt left as it is (a mutant of LeaveRollback).          *)
LeaveInDoubt(t) == Return(t)

(* Where execute_compensations returns to: the caller's handling of an     *)
(* effect in doubt, or the end of the request.                             *)
LeaveRollback(t) ==
  IF doubt[t]
  THEN Goto(t, "ambiguous") /\ UNCHANGED todo
  ELSE Return(t)

CompensationsDone(t) ==
  /\ pc[t] = "pick" /\ cursor[t] = 0
  /\ memStatus' = "ROLLED_BACK"
  /\ Goto(t, "close")
  /\ UNCHANGED <<known, completed, pending, approved, todo, cursor, doubt>>
  /\ UNCHANGED <<storeVars, recVars, worldVars, envVars>>

Close(t) ==
  /\ pc[t] = "close"
  /\ WriteStatus("ROLLED_BACK")
  /\ LeaveRollback(t)
  /\ UNCHANGED <<cursor, doubt, memVars, recVars, worldVars, envVars>>

(* _handle_compensation_failure: memory, durable status, effect, and dead  *)
(* letter, in this order.                                                  *)
Fail(t) ==
  /\ pc[t] = "fail"
  /\ memStatus' = "COMPENSATION_FAILED"
  /\ Goto(t, "failstatus")
  /\ UNCHANGED <<known, completed, pending, approved, todo, cursor, doubt>>
  /\ UNCHANGED <<storeVars, recVars, worldVars, envVars>>

FailStatus(t) ==
  /\ pc[t] = "failstatus"
  /\ WriteStatus("COMPENSATION_FAILED")
  /\ Goto(t, "faileffect")
  /\ UNCHANGED <<todo, cursor, doubt, memVars, recVars, worldVars, envVars>>

FailEffect(t) ==
  /\ pc[t] = "faileffect"
  /\ IF CanMove(Undoing(t), {"COMPENSATING"})
     THEN MoveEffect(Undoing(t), "COMPENSATION_FAILED")
     ELSE UNCHANGED storeVars
  /\ Goto(t, "faildead")
  /\ UNCHANGED <<todo, cursor, doubt, memVars, recVars, worldVars, envVars>>

(* A failure that is flagged but not reported (a mutant of FailDead).      *)
FailSilently(t) ==
  /\ pc[t] = "faildead"
  /\ LeaveRollback(t)
  /\ UNCHANGED <<cursor, doubt>>
  /\ UNCHANGED <<storeVars, memVars, recVars, worldVars, envVars>>

FailDead(t) ==
  /\ pc[t] = "faildead"
  /\ PushDeadLetter(Undoing(t))
  /\ LeaveRollback(t)
  /\ UNCHANGED <<cursor, doubt, memVars, recVars, worldVars, envVars>>

-----------------------------------------------------------------------------
(***************************************************************************)
(* The end of execute_saga's exception path for an effect in doubt: the    *)
(* rollback has been written, now the effect is quarantined.  A lost       *)
(* compare-and-set is swallowed.  memStatus is not touched.                *)
(***************************************************************************)

MarkAmbiguous(t) ==
  /\ pc[t] = "ambiguous"
  /\ IF CanMove(Current(t), {"EXECUTING"})
     THEN MoveEffect(Current(t), "AMBIGUOUS")
     ELSE UNCHANGED storeVars
  /\ Goto(t, "ambstatus")
  /\ UNCHANGED <<todo, cursor, doubt, memVars, recVars, worldVars, envVars>>

AmbiguousStatus(t) ==
  /\ pc[t] = "ambstatus"
  /\ WriteStatus("COMPENSATION_FAILED")
  /\ Goto(t, "ambdead")
  /\ UNCHANGED <<todo, cursor, doubt, memVars, recVars, worldVars, envVars>>

AmbiguousDead(t) ==
  /\ pc[t] = "ambdead"
  /\ PushDeadLetter(Current(t))
  /\ Return(t)
  /\ doubt' = [doubt EXCEPT ![t] = FALSE]
  /\ UNCHANGED <<cursor, memVars, recVars, worldVars, envVars>>

-----------------------------------------------------------------------------
(* What clients do, at any time or never.                                  *)
Request(t) ==
  \/ \E b \in Batch : Submit(t, b)
  \/ Approve(t)
  \/ Reject(t)

(* The rest of a request that thread t serves.                             *)
Work(t) ==
  \/ ReadPending(t) \/ TakeNothing(t) \/ TakePending(t) \/ Resume(t) \/ Rejecting(t)
  \/ SkipCommitted(t) \/ RejectStep(t) \/ HoldForApproval(t) \/ Await(t)
  \/ AdmitStep(t) \/ Prepare(t) \/ MarkExecuting(t) \/ Execute(t)
  \/ RecordApplied(t) \/ RecordAborted(t) \/ AppendCompleted(t)
  \/ CommitStep(t) \/ FinishSteps(t) \/ Finish(t)
  \/ Rollback(t) \/ PickEffect(t) \/ MarkCompensating(t) \/ Undo(t)
  \/ RecordCompensated(t) \/ CompensationsDone(t) \/ Close(t)
  \/ Fail(t) \/ FailStatus(t) \/ FailEffect(t) \/ FailDead(t)
  \/ MarkAmbiguous(t) \/ AmbiguousStatus(t) \/ AmbiguousDead(t)

=============================================================================
