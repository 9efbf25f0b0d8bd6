---------------------------- MODULE EffectJournal ----------------------------
(***************************************************************************)
(* The durable store of one saga: SagaStateStore of state_store.py.        *)
(*                                                                         *)
(* Every operation of the store is keyed by saga_id, so one saga is        *)
(* modelled.  Each operator below is one call of the store as its durable  *)
(* backends run it: a PostgreSQL statement or transaction, a Redis script  *)
(* or WATCH transaction.  Payloads (tool names, arguments, results) are    *)
(* abstracted to the identity of the step that carries them; record_step,  *)
(* an audit log that no code reads back, is left out.                      *)
(***************************************************************************)
EXTENDS Naturals, Sequences, FiniteSets

CONSTANTS
  Step,      \* step identities, the step_id of a SagaStep
  Key,       \* idempotency keys
  NoKey,     \* the absent idempotency key (None)
  KeyOf      \* the key each step carries

ASSUME KeyAssumption ==
  /\ NoKey \notin Key
  /\ KeyOf \in [Step -> Key \cup {NoKey}]

VARIABLES
  effect,    \* journal record of each step: its EffectState, or "ABSENT"
  order,     \* steps in journal order (the seq column)
  idem,      \* published idempotency keys
  status,    \* durable saga status, or "NONE" before /saga/start
  held,      \* metadata.pending_steps: steps waiting for an approval
  dead       \* steps named by the dead letters of this saga

storeVars == <<effect, order, idem, status, held, dead>>

EffectState ==
  {"PREPARED", "EXECUTING", "APPLIED", "COMMITTED", "ABORTED", "AMBIGUOUS",
   "COMPENSATING", "COMPENSATED", "COMPENSATION_FAILED"}

SagaStatus ==
  {"RUNNING", "AWAITING_APPROVAL", "COMMITTED", "COMPENSATING",
   "ROLLED_BACK", "COMPENSATION_FAILED"}

(* _TERMINAL: the statuses that list_incomplete passes over.               *)
Terminal == {"COMMITTED", "ROLLED_BACK", "COMPENSATION_FAILED"}

StoreTypeOK ==
  /\ effect \in [Step -> EffectState \cup {"ABSENT"}]
  /\ order \in Seq(Step)
  /\ idem \subseteq Key
  /\ status \in SagaStatus \cup {"NONE"}
  /\ held \in Seq(Step)
  /\ dead \subseteq Step

StoreInit ==
  /\ effect = [s \in Step |-> "ABSENT"]
  /\ order = <<>>
  /\ idem = {}
  /\ status = "NONE"
  /\ held = <<>>
  /\ dead = {}

-----------------------------------------------------------------------------
(***************************************************************************)
(* Journal operations.                                                     *)
(***************************************************************************)

(* prepare_effect: insert a PREPARED record, or return the existing record *)
(* of the same step in whatever state it is.                               *)
PrepareEffect(s) ==
  /\ IF effect[s] = "ABSENT"
     THEN /\ effect' = [effect EXCEPT ![s] = "PREPARED"]
          /\ order' = Append(order, s)
     ELSE UNCHANGED <<effect, order>>
  /\ UNCHANGED <<idem, status, held, dead>>

(* A compare-and-set that forgot the comparison (a mutant of CanMove).     *)
CanAlwaysMove(s, from) == TRUE

(* The comparison of transition_effect and commit_effect: without it the   *)
(* store raises JournalConflictError and changes nothing.                  *)
CanMove(s, from) == effect[s] \in from

(* The update of transition_effect.                                        *)
MoveEffect(s, new) ==
  /\ effect' = [effect EXCEPT ![s] = new]
  /\ UNCHANGED <<order, idem, status, held, dead>>

(* A commit that publishes None as a key (a mutant of PublishCommit).      *)
PublishAnyKey(s) ==
  /\ effect' = [effect EXCEPT ![s] = "COMMITTED"]
  /\ idem' = idem \cup {KeyOf[s]}
  /\ UNCHANGED <<order, status, held, dead>>

(* The update of commit_effect: the state and the idempotency key are      *)
(* published in one transaction.                                           *)
PublishCommit(s) ==
  /\ effect' = [effect EXCEPT ![s] = "COMMITTED"]
  /\ idem' = idem \cup ({KeyOf[s]} \ {NoKey})
  /\ UNCHANGED <<order, status, held, dead>>

(* step_already_committed for a step that carries a key.                   *)
AlreadyCommitted(s) == KeyOf[s] \in idem

-----------------------------------------------------------------------------
(***************************************************************************)
(* Saga status and dead letters.                                           *)
(***************************************************************************)

(* write_transaction_state with metadata that leaves pending_steps alone.  *)
WriteStatus(new) ==
  /\ status' = new
  /\ UNCHANGED <<effect, order, idem, held, dead>>

(* write_transaction_state with a pending_steps entry in its metadata.     *)
WriteStatusHolding(new, steps) ==
  /\ status' = new
  /\ held' = steps
  /\ UNCHANGED <<effect, order, idem, dead>>

(* push_dead_letter.                                                       *)
PushDeadLetter(s) ==
  /\ dead' = dead \cup {s}
  /\ UNCHANGED <<effect, order, idem, status, held>>

(* A query for running sagas only (a mutant of Incomplete).                *)
OnlyRunning == status = "RUNNING"

(* list_incomplete: does recovery see this saga at all?                    *)
Incomplete == status \notin Terminal \cup {"NONE"}

-----------------------------------------------------------------------------
(***************************************************************************)
(* The journal as an abstract specification: one call is one step.         *)
(***************************************************************************)

journalVars == <<effect, order, idem>>

(* The compare-and-set transitions that the coordinator asks for.          *)
Moves ==
  {<<{"PREPARED"}, "EXECUTING">>,
   <<{"PREPARED"}, "ABORTED">>,
   <<{"EXECUTING"}, "APPLIED">>,
   <<{"EXECUTING"}, "ABORTED">>,
   <<{"EXECUTING"}, "AMBIGUOUS">>,
   <<{"EXECUTING", "AMBIGUOUS"}, "APPLIED">>,
   <<{"EXECUTING", "AMBIGUOUS"}, "ABORTED">>,
   <<{"APPLIED", "COMMITTED"}, "COMPENSATING">>,
   <<{"COMPENSATING"}, "COMPENSATED">>,
   <<{"COMPENSATING"}, "COMPENSATION_FAILED">>}

JournalStep ==
  \E s \in Step :
    \/ PrepareEffect(s)
    \/ \E m \in Moves : CanMove(s, m[1]) /\ MoveEffect(s, m[2])
    \/ CanMove(s, {"APPLIED"}) /\ PublishCommit(s)

JournalSpec ==
  /\ effect = [s \in Step |-> "ABSENT"] /\ order = <<>> /\ idem = {}
  /\ [][JournalStep]_journalVars

=============================================================================
