---------------------------- MODULE SagaRecovery ----------------------------
(***************************************************************************)
(* Crash, restart, and SagaCoordinator.recover, which the lifespan of the  *)
(* application runs before it serves the first request.                    *)
(***************************************************************************)
EXTENDS SagaState

(* The local variables of recover.                                         *)
RecoveryGone ==
  /\ rpc' = "off"
  /\ rcur' = 0
  /\ snap' = [s \in Step |-> "ABSENT"]

(***************************************************************************)
(* Crash and restart.  The volatile state is gone; the store is not.       *)
(***************************************************************************)

Crash ==
  /\ proc # "down" /\ crashes < MaxCrash
  /\ crashes' = crashes + 1
  /\ proc' = "down"
  /\ known' = FALSE
  /\ memStatus' = "RUNNING"
  /\ completed' = <<>>
  /\ pending' = <<>>
  /\ approved' = {}
  /\ pc' = [t \in Thread |-> "idle"]
  /\ todo' = [t \in Thread |-> <<>>]
  /\ cursor' = [t \in Thread |-> 0]
  /\ doubt' = [t \in Thread |-> FALSE]
  /\ RecoveryGone
  /\ UNCHANGED <<submitted, hook, storeVars, worldVars>>

(* The lifespan of the application calls recover before it serves.         *)
Restart ==
  /\ proc = "down"
  /\ proc' = "recovering"
  /\ rpc' = "list"
  /\ UNCHANGED <<rcur, snap, submitted, crashes, hook>>
  /\ UNCHANGED <<storeVars, memVars, threadVars, worldVars>>

-----------------------------------------------------------------------------
(***************************************************************************)
(* recover.                                                                *)
(***************************************************************************)

(* recover returns, or is left by an exception that the lifespan logs; the *)
(* application serves in both cases.                                       *)
Serve ==
  /\ proc' = "up"
  /\ RecoveryGone
  /\ UNCHANGED <<submitted, crashes, hook>>

(* recover goes on, at journal position i.                                 *)
Proceed(where, i) ==
  /\ rpc' = where
  /\ rcur' = i
  /\ UNCHANGED envVars

(* The journal walked from its beginning (a mutant of Examined).           *)
ExaminedForward == order[Len(order) + 1 - rcur]

(* The journal record under examination: recover works on the copy that    *)
(* list_incomplete returned.                                               *)
Examined == order[rcur]

Examining(states) ==
  /\ rpc = "walk" /\ rcur > 0
  /\ snap[Examined] \in states

(* transition_effect in recover: a conflict leaves recover altogether.     *)
RecoverMove(from, new, where, i) ==
  /\ IF CanMove(Examined, from)
     THEN MoveEffect(Examined, new) /\ Proceed(where, i) /\ UNCHANGED snap
     ELSE UNCHANGED storeVars /\ Serve
  /\ UNCHANGED <<memVars, threadVars, worldVars>>

(* list_incomplete does not return this saga.                              *)
RecoverNothing ==
  /\ rpc = "list" /\ ~Incomplete
  /\ Serve
  /\ UNCHANGED <<storeVars, memVars, threadVars, worldVars>>

(* Journal positions of the committed effects.                             *)
CommittedAt == {i \in DOMAIN order : effect[order[i]] = "COMMITTED"}

(* A saga with a stored pending step is put back in memory as it was, its  *)
(* committed steps in journal order; the journal is otherwise left alone.  *)
RecoverApproval ==
  /\ rpc = "list" /\ status = "AWAITING_APPROVAL" /\ held # <<>>
  /\ known' = TRUE
  /\ memStatus' = "AWAITING_APPROVAL"
  /\ \E f \in [1..Cardinality(CommittedAt) -> CommittedAt] :
       /\ \A i, j \in DOMAIN f : i < j => f[i] < f[j]
       /\ completed' = [i \in DOMAIN f |-> order[f[i]]]
  /\ pending' = held
  /\ UNCHANGED approved
  /\ Serve
  /\ UNCHANGED <<storeVars, threadVars, worldVars>>

RecoverBegin ==
  /\ rpc = "list" /\ Incomplete
  /\ ~(status = "AWAITING_APPROVAL" /\ held # <<>>)
  /\ snap' = effect
  /\ Proceed("walk", Len(order))
  /\ UNCHANGED <<storeVars, memVars, threadVars, worldVars>>

RecoverDone ==
  /\ rpc = "walk" /\ rcur = 0
  /\ WriteStatus("ROLLED_BACK")
  /\ Serve
  /\ UNCHANGED <<memVars, threadVars, worldVars>>

RecoverSkip ==
  /\ Examining({"ABORTED", "COMPENSATED"})
  /\ Proceed("walk", rcur - 1)
  /\ UNCHANGED <<snap, storeVars, memVars, threadVars, worldVars>>

RecoverKeepFailed ==
  /\ Examining({"COMPENSATION_FAILED"})
  /\ Proceed("failstatus", rcur)
  /\ UNCHANGED <<snap, storeVars, memVars, threadVars, worldVars>>

RecoverPrepared ==
  /\ Examining({"PREPARED"})
  /\ RecoverMove({"PREPARED"}, "ABORTED", "walk", rcur - 1)

(* An interrupted call taken for one that never happened (a mutant of      *)
(* ForwardAnswer).                                                         *)
AnswerAbsent(s) == {<<"absent", hits[s]>>}

(* _resolve_forward_effect and _normalise_resolution: where to go, and how *)
(* often the effect took place afterwards.  A published key answers first; *)
(* a resolver tells the truth or fails; execute_idempotent runs the tool   *)
(* again under the step's key.                                             *)
ForwardAnswer(s) ==
  IF AlreadyCommitted(s) THEN {<<"present", hits[s]>>}
  ELSE CASE hook = "resolver" ->
              {<<IF hits[s] > 0 THEN "present" ELSE "absent", hits[s]>>,
               <<"unknown", hits[s]>>}
         [] hook = "idempotent" /\ KeyOf[s] # NoKey ->
              {<<IF o = "ok" THEN "present" ELSE "unknown",
                 IF o \in {"ok", "lost"} THEN 1 ELSE hits[s]>> : o \in ToolOutcome}
         [] OTHER -> {<<"unknown", hits[s]>>}

RecoverResolve ==
  /\ Examining({"EXECUTING", "AMBIGUOUS"})
  /\ \E a \in ForwardAnswer(Examined) :
       /\ Proceed(a[1], rcur)
       /\ hits' = [hits EXCEPT ![Examined] = a[2]]
  /\ UNCHANGED <<undos, snap, storeVars, memVars, threadVars>>

RecoverAbsent ==
  /\ rpc = "absent"
  /\ RecoverMove({"EXECUTING", "AMBIGUOUS"}, "ABORTED", "walk", rcur - 1)

(* The record that transition_effect returns replaces the copy.            *)
RecoverPresent ==
  /\ rpc = "present"
  /\ IF CanMove(Examined, {"EXECUTING", "AMBIGUOUS"})
     THEN /\ MoveEffect(Examined, "APPLIED")
          /\ snap' = [snap EXCEPT ![Examined] = "APPLIED"]
          /\ Proceed("walk", rcur)
     ELSE UNCHANGED storeVars /\ Serve
  /\ UNCHANGED <<memVars, threadVars, worldVars>>

(* A dead letter without the mark in the journal (a mutant of              *)
(* RecoverUnknown).                                                        *)
RecoverUnmarked ==
  /\ rpc = "unknown"
  /\ Proceed("failstatus", rcur)
  /\ UNCHANGED <<snap, storeVars, memVars, threadVars, worldVars>>

(* _mark_ambiguous.                                                        *)
RecoverUnknown ==
  /\ rpc = "unknown"
  /\ IF snap[Examined] = "EXECUTING"
     THEN RecoverMove({"EXECUTING"}, "AMBIGUOUS", "failstatus", rcur)
     ELSE /\ Proceed("failstatus", rcur)
          /\ UNCHANGED snap
          /\ UNCHANGED <<storeVars, memVars, threadVars, worldVars>>

RecoverMark ==
  /\ Examining({"APPLIED", "COMMITTED"})
  /\ RecoverMove({"APPLIED", "COMMITTED"}, "COMPENSATING", "undo", rcur)

(* _resolve_compensation of a compensation that was interrupted.           *)
BackwardAnswer(s) ==
  IF hook = "resolver"
  THEN {IF undos[s] > 0 THEN "undone" ELSE "undo", "giveup"}
  ELSE {"giveup"}

RecoverInterrupted ==
  /\ Examining({"COMPENSATING"})
  /\ \E where \in BackwardAnswer(Examined) : Proceed(where, rcur)
  /\ UNCHANGED <<snap, storeVars, memVars, threadVars, worldVars>>

(* _recover_compensation calls sandbox.execute_compensation.               *)
RecoverUndo ==
  /\ rpc = "undo"
  /\ \E o \in UndoOutcome :
       /\ undos' = IF o \in {"ok", "lost"}
                   THEN [undos EXCEPT ![Examined] = @ + 1]
                   ELSE undos
       /\ Proceed(IF o = "ok" THEN "undone" ELSE "giveup", rcur)
  /\ UNCHANGED <<hits, snap, storeVars, memVars, threadVars>>

RecoverUndone ==
  /\ rpc = "undone"
  /\ RecoverMove({"COMPENSATING"}, "COMPENSATED", "walk", rcur - 1)

(* _fail_recovery_compensation.                                            *)
RecoverGiveUp ==
  /\ rpc = "giveup"
  /\ RecoverMove({"COMPENSATING"}, "COMPENSATION_FAILED", "failstatus", rcur)

(* _dead_letter_recovery: the status first, then the dead letter.          *)
RecoverFailStatus ==
  /\ rpc = "failstatus"
  /\ WriteStatus("COMPENSATION_FAILED")
  /\ Proceed("faildead", rcur)
  /\ UNCHANGED <<snap, memVars, threadVars, worldVars>>

RecoverDeadLetter ==
  /\ rpc = "faildead"
  /\ PushDeadLetter(Examined)
  /\ Serve
  /\ UNCHANGED <<memVars, threadVars, worldVars>>

-----------------------------------------------------------------------------
Recovery ==
  \/ RecoverNothing \/ RecoverApproval \/ RecoverBegin \/ RecoverDone
  \/ RecoverSkip \/ RecoverKeepFailed \/ RecoverPrepared \/ RecoverResolve
  \/ RecoverAbsent \/ RecoverPresent \/ RecoverUnknown \/ RecoverMark
  \/ RecoverInterrupted \/ RecoverUndo \/ RecoverUndone \/ RecoverGiveUp
  \/ RecoverFailStatus \/ RecoverDeadLetter

=============================================================================
