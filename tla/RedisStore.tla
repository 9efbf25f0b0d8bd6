----------------------------- MODULE RedisStore -----------------------------
(***************************************************************************)
(* The Redis backend of SagaStateStore, command by command, for one saga.  *)
(* Redis executes one command, script or EXEC at a time, so an action is   *)
(* one of these; the calls of different threads and processes interleave   *)
(* between them, and a client may die between two.  prepare_effect and     *)
(* commit_effect are one script each; transition_effect is an optimistic   *)
(* WATCH transaction; write_transaction_state is three separate commands.  *)
(*                                                                         *)
(* EffectJournal is the abstract specification of the journal part.        *)
(***************************************************************************)
EXTENDS Naturals, Sequences

CONSTANTS
  Client,   \* threads, of any number of processes, that use the store
  Step, Key, NoKey, KeyOf,
  Written,  \* the statuses that are written
  NoCall    \* the state of a client that is in no call of several commands

ASSUME RedisAssumption ==
  /\ NoKey \notin Key
  /\ KeyOf \in [Step -> Key \cup {NoKey}]
  /\ Written \subseteq
       {"RUNNING", "AWAITING_APPROVAL", "COMMITTED", "COMPENSATING",
        "ROLLED_BACK", "COMPENSATION_FAILED"}

VARIABLES
  hash,     \* saga:<id>:effect:<step>: the state field, "ABSENT" if no key
  list,     \* saga:<id>:effects
  idem,     \* saga:<id>:idem
  status,   \* saga:<id>: the status field
  pending,  \* saga:<id>: whether metadata holds pending_steps
  listed,   \* saga_id \in sagas:incomplete
  pc,       \* where each client's call is
  call,     \* its arguments
  touched,  \* clients whose watched key was written since their WATCH
  raced     \* history: a write overlapped another one, or was cut short

journal == <<hash, list, idem>>
saga == <<status, pending, listed>>
vars == <<journal, saga, pc, call, touched, raced>>

J == INSTANCE EffectJournal WITH
  effect <- hash, order <- list,
  held <- <<>>, dead <- {}

(* A transition, and a status write with the metadata that it read.        *)
MoveCall == [step : Step, move : J!Moves]
WriteCall == [status : Written, pending : BOOLEAN]

TypeOK ==
  /\ hash \in [Step -> J!EffectState \cup {"ABSENT"}]
  /\ list \in Seq(Step)
  /\ idem \subseteq Key
  /\ status \in J!SagaStatus
  /\ pending \in BOOLEAN
  /\ listed \in BOOLEAN
  /\ pc \in [Client -> {"idle", "watch", "get", "exec", "store", "list"}]
  /\ call \in [Client -> MoveCall \cup WriteCall \cup {NoCall}]
  /\ touched \subseteq Client
  /\ raced \in BOOLEAN

(* After start_transaction_log.                                            *)
Init ==
  /\ hash = [s \in Step |-> "ABSENT"]
  /\ list = <<>>
  /\ idem = {}
  /\ status = "RUNNING" /\ pending = FALSE /\ listed = TRUE
  /\ pc = [c \in Client |-> "idle"]
  /\ call = [c \in Client |-> NoCall]
  /\ touched = {}
  /\ raced = FALSE

Goto(c, label) == pc' = [pc EXCEPT ![c] = label]

(* The end of a call; it also ends a WATCH.                                *)
Return(c) ==
  /\ Goto(c, "idle")
  /\ call' = [call EXCEPT ![c] = NoCall]

(* A write of a step's key breaks the WATCH of every other client on it.   *)
Watching(s) == {c \in Client : pc[c] \in {"get", "exec"} /\ call[c].step = s}
SetState(c, s, new) ==
  /\ hash' = [hash EXCEPT ![s] = new]
  /\ touched' = (touched \cup Watching(s)) \ {c}

-----------------------------------------------------------------------------
(***************************************************************************)
(* Scripts.                                                                *)
(***************************************************************************)

(* An insert that does not look first (a mutant of Prepare).               *)
PrepareAgain(c, s) ==
  /\ pc[c] = "idle"
  /\ Len(list) < 3
  /\ SetState(c, s, "PREPARED")
  /\ list' = Append(list, s)
  /\ UNCHANGED <<idem, saga, pc, call, raced>>

(* _redis_prepare_effect: EXISTS, HSET and RPUSH in one script.            *)
Prepare(c, s) ==
  /\ pc[c] = "idle"
  /\ hash[s] = "ABSENT"
  /\ SetState(c, s, "PREPARED")
  /\ list' = Append(list, s)
  /\ UNCHANGED <<idem, saga, pc, call, raced>>

(* A commit with KEYS or ARGV in the wrong order, which publishes the step *)
(* in place of its key (a mutant of Commit).                               *)
CommitSwapped(c, s) ==
  /\ pc[c] = "idle"
  /\ hash[s] = "APPLIED"
  /\ SetState(c, s, "COMMITTED")
  /\ idem' = IF KeyOf[s] = NoKey THEN idem ELSE idem \cup {s}
  /\ UNCHANGED <<list, saga, pc, call, raced>>

(* commit_effect: HGET, HSET and SADD in one script.                       *)
Commit(c, s) ==
  /\ pc[c] = "idle"
  /\ hash[s] = "APPLIED"
  /\ SetState(c, s, "COMMITTED")
  /\ idem' = IF KeyOf[s] = NoKey THEN idem ELSE idem \cup {KeyOf[s]}
  /\ UNCHANGED <<list, saga, pc, call, raced>>

-----------------------------------------------------------------------------
(***************************************************************************)
(* _redis_transition_effect.                                               *)
(***************************************************************************)

Transition(c) ==
  /\ pc[c] = "idle"
  /\ \E s \in Step, m \in J!Moves :
       /\ hash[s] # "ABSENT"
       /\ call' = [call EXCEPT ![c] = [step |-> s, move |-> m]]
  /\ Goto(c, "watch")
  /\ UNCHANGED <<journal, saga, touched, raced>>

(* A retry that keeps the broken WATCH (a mutant of Watch).                *)
WatchOnce(c) ==
  /\ pc[c] = "watch"
  /\ Goto(c, "get")
  /\ UNCHANGED <<journal, saga, call, touched, raced>>

(* WATCH, again after every WatchError.                                    *)
Watch(c) ==
  /\ pc[c] = "watch"
  /\ touched' = touched \ {c}
  /\ Goto(c, "get")
  /\ UNCHANGED <<journal, saga, call, raced>>

(* HGET: an unexpected state raises JournalConflictError.                  *)
Get(c) ==
  /\ pc[c] = "get"
  /\ IF hash[call[c].step] \in call[c].move[1]
     THEN Goto(c, "exec") /\ UNCHANGED <<call, touched>>
     ELSE Return(c) /\ touched' = touched \ {c}
  /\ UNCHANGED <<journal, saga, raced>>

(* A transaction without its WATCH (a mutant of Exec).                     *)
ExecUnwatched(c) ==
  /\ pc[c] = "exec"
  /\ SetState(c, call[c].step, call[c].move[2])
  /\ Return(c)
  /\ UNCHANGED <<list, idem, saga, raced>>

(* MULTI, HSET, EXEC: nothing happens if the key was written meanwhile.    *)
Exec(c) ==
  /\ pc[c] = "exec"
  /\ IF c \in touched
     THEN /\ Goto(c, "watch")
          /\ UNCHANGED <<hash, touched, call>>
     ELSE /\ SetState(c, call[c].step, call[c].move[2])
          /\ Return(c)
  /\ UNCHANGED <<list, idem, saga, raced>>

-----------------------------------------------------------------------------
(***************************************************************************)
(* write_transaction_state.                                                *)
(***************************************************************************)

Writing == {c \in Client : pc[c] \in {"store", "list"}}

(* HGET of the metadata, merged with what the call brings: an approval     *)
(* that is awaited brings pending steps, a resumption or a rejection an    *)
(* empty list, every other write of the coordinator nothing.               *)
ReadMetadata(c) ==
  /\ pc[c] = "idle"
  /\ \E new \in Written, p \in BOOLEAN :
       /\ \/ new = "AWAITING_APPROVAL" /\ p
          \/ new \in {"RUNNING", "COMPENSATING"} /\ ~p
          \/ new # "AWAITING_APPROVAL" /\ p = pending
       /\ call' = [call EXCEPT ![c] = [status |-> new, pending |-> p]]
  /\ raced' = (raced \/ Writing # {})
  /\ Goto(c, "store")
  /\ UNCHANGED <<journal, saga, touched>>

(* HSET of both fields.                                                    *)
StoreStatus(c) ==
  /\ pc[c] = "store"
  /\ status' = call[c].status
  /\ pending' = call[c].pending
  /\ Goto(c, "list")
  /\ UNCHANGED <<journal, listed, call, touched, raced>>

(* An index that keeps committed sagas (a mutant of UpdateIndex).          *)
IndexCommitted(c) ==
  /\ pc[c] = "list"
  /\ listed' = (call[c].status \notin {"ROLLED_BACK", "COMPENSATION_FAILED"})
  /\ Return(c)
  /\ UNCHANGED <<journal, status, pending, touched, raced>>

(* SREM or SADD on the set that list_incomplete reads.                     *)
UpdateIndex(c) ==
  /\ pc[c] = "list"
  /\ listed' = (call[c].status \notin J!Terminal)
  /\ Return(c)
  /\ UNCHANGED <<journal, status, pending, touched, raced>>

-----------------------------------------------------------------------------
(* A client dies in the middle of a call.                                  *)
Die(c) ==
  /\ pc[c] # "idle"
  /\ Return(c)
  /\ touched' = touched \ {c}
  /\ raced' = (raced \/ c \in Writing)
  /\ UNCHANGED <<journal, saga>>

Progress(c) == Watch(c) \/ Get(c) \/ Exec(c) \/ StoreStatus(c) \/ UpdateIndex(c)

Next ==
  \E c \in Client :
    \/ \E s \in Step : Prepare(c, s) \/ Commit(c, s)
    \/ Transition(c) \/ ReadMetadata(c)
    \/ Progress(c)
    \/ Die(c)

(* A client that does not die gets its answers.                            *)
Spec == Init /\ [][Next]_vars /\ \A c \in Client : WF_vars(Progress(c))

-----------------------------------------------------------------------------
(***************************************************************************)
(* Properties.                                                             *)
(***************************************************************************)

(* Whatever interleaves between WATCH and EXEC, the journal changes as if  *)
(* every transition were one atomic compare-and-set: the linearization     *)
(* that SagaRequests takes for granted.                                    *)
ImplementsJournal == J!JournalSpec

(* The list of effects names every record once: recovery, which reads the  *)
(* journal through the list, misses none and repeats none.                 *)
ListIsComplete ==
  /\ \A s \in Step : hash[s] # "ABSENT" <=> \E i \in 1..Len(list) : list[i] = s
  /\ \A i, j \in 1..Len(list) : list[i] = list[j] => i = j

(* Status writes that neither overlap nor are cut short leave the index of *)
(* incomplete sagas in agreement with the status.                          *)
IndexAgrees ==
  Writing = {} /\ ~raced => (listed <=> status \notin J!Terminal)

(* The retry loop of a transition ends, although other clients may break   *)
(* its WATCH: no effect returns to a state it has left, so they run out of *)
(* writes to break it with.                                                *)
TransitionReturns ==
  \A c \in Client : pc[c] \in {"watch", "get", "exec"} ~> pc[c] = "idle"
=============================================================================
