----------------------------- MODULE SagaState ------------------------------
(***************************************************************************)
(* The state of one saga in one process: the durable store, the transaction*)
(* in active_sagas, the request threads, recovery, and the world outside.  *)
(***************************************************************************)
EXTENDS EffectJournal

CONSTANTS
  Thread,       \* request threads of the process
  Batch,        \* step lists that clients submit, each at most once
  Gated,        \* steps with requires_approval
  ToolOutcome,  \* what a forward tool call may do
  UndoOutcome,  \* what a compensation call may do
  Hooks,        \* recovery hooks a sandbox may have
  MaxCrash      \* bound on the number of crashes

(***************************************************************************)
(* "ok": done and reported.  "failed": not done and reported.  "raised"    *)
(* and "lost": the call raised or timed out, without and with its external *)
(* effect.  A compensation never reports more than a Boolean, so "lost"    *)
(* there is a False for a compensation that did take place.                *)
(***************************************************************************)
ASSUME CoordinatorAssumption ==
  /\ Batch \subseteq Seq(Step)
  /\ Gated \subseteq Step
  /\ ToolOutcome \subseteq {"ok", "failed", "raised", "lost"}
  /\ UndoOutcome \subseteq {"ok", "failed", "lost"}
  /\ Hooks \subseteq {"none", "resolver", "idempotent"}
  /\ MaxCrash \in Nat

VARIABLES
  proc,       \* the process: "up", "down" or "recovering"
  known,      \* saga_id \in active_sagas
  memStatus,  \* SagaTransaction.status
  completed,  \* SagaTransaction.completed_steps
  pending,    \* SagaTransaction.pending_steps
  approved,   \* steps whose approved flag is set
  submitted,  \* batches already submitted
  pc,         \* where each thread is
  todo,       \* steps each thread has still to execute, the current one first
  cursor,     \* index into completed of each thread's reversed() iterator
  doubt,      \* execution_ambiguous of each thread
  rpc,        \* where recovery is
  rcur,       \* recovery's position in the journal
  snap,       \* the journal states that recovery read in list_incomplete
  hits,       \* how often the forward effect of each step took place
  undos,      \* how often the compensation of each step took place
  crashes,
  hook        \* the recovery hook of this sandbox

memVars == <<known, memStatus, completed, pending, approved>>
threadVars == <<pc, todo, cursor, doubt>>
recVars == <<rpc, rcur, snap>>
worldVars == <<hits, undos>>
envVars == <<proc, submitted, crashes, hook>>
vars == <<storeVars, memVars, threadVars, recVars, worldVars, envVars>>

ThreadPC ==
  {"idle", "approve", "nothing", "take", "resume", "rejecting", "check",
   "await", "prepare", "mark", "execute", "record", "abort", "append",
   "commit", "finish", "rollback", "pick", "marking", "undo", "undone",
   "fail", "failstatus", "faileffect", "faildead", "close", "ambiguous",
   "ambstatus", "ambdead"}

RecoveryPC ==
  {"off", "list", "walk", "absent", "present", "unknown", "undo", "undone",
   "giveup", "failstatus", "faildead"}

TypeOK ==
  /\ StoreTypeOK
  /\ proc \in {"up", "down", "recovering"}
  /\ known \in BOOLEAN
  /\ memStatus \in SagaStatus
  /\ completed \in Seq(Step)
  /\ pending \in Seq(Step)
  /\ approved \subseteq Step
  /\ submitted \subseteq Batch
  /\ pc \in [Thread -> ThreadPC]
  /\ todo \in [Thread -> Seq(Step)]
  /\ cursor \in [Thread -> Nat]
  /\ doubt \in [Thread -> BOOLEAN]
  /\ rpc \in RecoveryPC
  /\ rcur \in Nat
  /\ snap \in [Step -> EffectState \cup {"ABSENT"}]
  /\ hits \in [Step -> Nat]
  /\ undos \in [Step -> Nat]
  /\ crashes \in Nat
  /\ hook \in Hooks

Init ==
  /\ StoreInit
  /\ proc = "up"
  /\ known = FALSE
  /\ memStatus = "RUNNING"
  /\ completed = <<>>
  /\ pending = <<>>
  /\ approved = {}
  /\ submitted = {}
  /\ pc = [t \in Thread |-> "idle"]
  /\ todo = [t \in Thread |-> <<>>]
  /\ cursor = [t \in Thread |-> 0]
  /\ doubt = [t \in Thread |-> FALSE]
  /\ rpc = "off"
  /\ rcur = 0
  /\ snap = [s \in Step |-> "ABSENT"]
  /\ hits = [s \in Step |-> 0]
  /\ undos = [s \in Step |-> 0]
  /\ crashes = 0
  /\ hook \in Hooks

Goto(t, where) == pc' = [pc EXCEPT ![t] = where]

(* The step that execute_saga is working on.                               *)
Current(t) == Head(todo[t])

(* First in, first out (a mutant of Undoing).                              *)
UndoingForward(t) == completed[Len(completed) + 1 - cursor[t]]

(* The step that execute_compensations is working on.                      *)
Undoing(t) == completed[cursor[t]]

=============================================================================
