--------------------------- MODULE SagaInvariant ----------------------------
(***************************************************************************)
(* The inductive invariants behind AtMostOnce, IntentBeforeEffect and      *)
(* JournalMatchesWorld.                                                    *)
(***************************************************************************)
EXTENDS SagaCoordinator

(* Only a process that is up serves requests; recovery runs before that.   *)
ProcessOK ==
  /\ \A t \in Thread : pc[t] # "idle" => proc = "up"
  /\ rpc # "off" => proc = "recovering"

(* Where a thread works on the head of its list.                           *)
StepPC ==
  {"take", "prepare", "mark", "execute", "record", "abort", "append",
   "commit", "ambiguous", "ambstatus", "ambdead"}

(* Where a thread works on an element of completed.                        *)
UndoPC ==
  {"marking", "undo", "undone", "fail", "failstatus", "faileffect", "faildead"}

(* Where no effect is in doubt.                                            *)
SurePC ==
  {"idle", "approve", "nothing", "take", "resume", "rejecting", "check",
   "await", "prepare", "mark", "append", "commit", "finish"}

(* Where the effect of the current step is in doubt.                       *)
DoubtPC == {"execute", "record", "abort", "ambiguous"}

PositionOK(t) ==
  /\ pc[t] \in StepPC \/ doubt[t] => todo[t] # <<>>
  /\ pc[t] \in UndoPC \cup {"pick"} => cursor[t] <= Len(completed)
  /\ pc[t] \in UndoPC => cursor[t] > 0

(* Thread t is between its mark of EXECUTING and its record of the outcome. *)
Owns(t) == doubt[t] /\ pc[t] \notin {"ambstatus", "ambdead"}

SureOK(t) ==
  /\ pc[t] \in SurePC => ~doubt[t]
  /\ pc[t] \in DoubtPC => doubt[t]

OwnerOK(t) ==
  /\ SureOK(t)
  /\ Owns(t) => effect[Current(t)] = "EXECUTING"
  /\ pc[t] = "execute" => hits[Current(t)] = 0

(* The journal is the lock: an EXECUTING effect has at most one owner.     *)
OneOwner ==
  \A t1, t2 \in Thread :
    Owns(t1) /\ Owns(t2) /\ Current(t1) = Current(t2) => t1 = t2

Untouched == {"ABSENT", "PREPARED"}
Reversing == {"COMPENSATING", "COMPENSATED", "COMPENSATION_FAILED"}

UndoOK(t) == pc[t] = "undo" => effect[Undoing(t)] \in Reversing

EffectOK(s) ==
  /\ hits[s] <= 1
  /\ effect[s] \in Untouched => hits[s] = 0
  /\ undos[s] > 0 => effect[s] \in Reversing

(* What recovery read may be stale, but never by going back.               *)
RecoveryOK ==
  /\ rpc \in {"off", "list"} => rcur = 0
  /\ rpc # "off" => rcur <= Len(order)
  /\ rpc \notin {"off", "list", "walk"} => rcur > 0
  /\ rpc = "undo" => effect[Examined] \in Reversing
  /\ \A s \in Step : snap[s] \notin Untouched => effect[s] \notin Untouched
  /\ \A s \in Step : snap[s] = "COMPENSATING" => effect[s] \in Reversing

(* The inductive invariant: a step's journal record is owned by one thread *)
(* while its call is under way, and every thread and recovery stand where  *)
(* the record of their step allows what they do next.                      *)
SafeInv ==
  /\ TypeOK
  /\ ProcessOK
  /\ \A t \in Thread : PositionOK(t) /\ OwnerOK(t) /\ UndoOK(t)
  /\ OneOwner
  /\ \A s \in Step : EffectOK(s)
  /\ RecoveryOK

-----------------------------------------------------------------------------
(***************************************************************************)
(* What JournalMatchesWorld needs beyond SafeInv.                          *)
(***************************************************************************)

(* No two steps share an idempotency key.                                  *)
DistinctKeys ==
  \A r, s \in Step : KeyOf[r] = KeyOf[s] /\ KeyOf[s] # NoKey => r = s

(* The journal lists its records, each once.                               *)
OrderOK ==
  /\ \A i \in DOMAIN order : effect[order[i]] # "ABSENT"
  /\ \A i, j \in DOMAIN order : order[i] = order[j] => i = j

(* A record knows the outcome.                                             *)
RecordOK(s) ==
  /\ effect[s] \in {"APPLIED", "COMMITTED", "COMPENSATING", "COMPENSATED"} =>
       hits[s] = 1
  /\ effect[s] = "ABORTED" => hits[s] = 0
  /\ effect[s] = "COMPENSATED" => undos[s] > 0

(* A published key vouches for every step that carries it.                 *)
KeyVouches(s) ==
  AlreadyCommitted(s) => effect[s] \in {"COMMITTED"} \cup Reversing

(* No published key speaks for a call whose outcome is open: recovery      *)
(* would believe it.                                                       *)
NoFalseWitness ==
  \A s \in Step : effect[s] \in {"EXECUTING", "AMBIGUOUS"} => ~AlreadyCommitted(s)

(* A thread that is about to record an outcome knows it.                   *)
ThreadKnows(t) ==
  /\ pc[t] = "record" => hits[Current(t)] = 1
  /\ pc[t] = "abort" => hits[Current(t)] = 0
  /\ pc[t] = "undone" => undos[Undoing(t)] > 0

(* So does recovery; and its copy agrees with the journal as far as it has *)
(* still to go, since it works alone.                                      *)
RecoveryKnows ==
  /\ \A i \in 1..rcur :
       i < rcur \/ rpc \in {"walk", "absent", "present", "unknown"} =>
         snap[order[i]] = effect[order[i]]
  /\ rpc = "present" => hits[Examined] = 1
  /\ rpc = "absent" => hits[Examined] = 0
  /\ rpc = "undone" => undos[Examined] > 0

(* Whoever records an outcome, a thread or recovery, has it right.         *)
WorldInv ==
  /\ OrderOK
  /\ \A s \in Step : RecordOK(s)
  /\ \A t \in Thread : ThreadKnows(t)
  /\ RecoveryKnows

-----------------------------------------------------------------------------
(***************************************************************************)
(* What the properties at rest need where one thread works without a       *)
(* crash.                                                                  *)
(***************************************************************************)

(* The completed steps from i on have been compensated.                    *)
UndoneFrom(i) == \A j \in i..Len(completed) : undos[completed[j]] > 0

(* How far the rollback of thread t has come.                              *)
RollbackOK(t) ==
  /\ pc[t] \in UndoPC \cup {"pick"} => UndoneFrom(cursor[t] + 1)
  /\ pc[t] = "close" => UndoneFrom(1)
  /\ pc[t] = "undone" => undos[Undoing(t)] > 0

(* Whoever could undo or report the effect of s.                           *)
Known(t, s) ==
  \/ s \in dead
  \/ \E i \in DOMAIN completed : completed[i] = s
  \/ (doubt[t] \/ pc[t] = "append") /\ s = Current(t)

(* An effect whose record is not COMMITTED is being dealt with.            *)
Attended(t, s) ==
  \/ s \in dead
  \/ effect[s] = "COMMITTED"
  \/ (doubt[t] \/ pc[t] \in {"append", "commit"}) /\ s = Current(t)
  \/ pc[t] \in UndoPC /\ s = Undoing(t)

(* What the status says when no request is under way.                      *)
VerdictOK(t) ==
  /\ pc[t] \in {"faileffect", "faildead", "ambdead"} =>
       status = "COMPENSATION_FAILED"
  /\ pc[t] = "idle" =>
       /\ status = "ROLLED_BACK" => \A s \in Step : InPlace(s) => s \in dead
       /\ status \in {"NONE", "RUNNING", "COMPENSATING"} =>
            \A s \in Step : hits[s] = 0
  /\ status = "NONE" => pc[t] = "idle" /\ ~known

(* No effect is out of sight, and the verdict is that of the last request. *)
SerialInv(t) ==
  /\ proc = "up"
  /\ pc[t] # "nothing" /\ (pc[t] = "approve" => pending # <<>>)
  /\ pc[t] \in {"append", "commit"} => effect[Current(t)] = "APPLIED"
  /\ pc[t] = "abort" => hits[Current(t)] = 0
  /\ RollbackOK(t)
  /\ \A s \in Step : InPlace(s) => Known(t, s) /\ Attended(t, s)
  /\ VerdictOK(t)

(* The states of an effect that has a compensation to run.                 *)
Owing == {"APPLIED", "COMMITTED", "COMPENSATING", "COMPENSATION_FAILED"}

(* The list of completed steps follows the journal, each step once.        *)
CompletedOK ==
  /\ \A i, j \in DOMAIN completed : completed[i] = completed[j] => i = j
  /\ \A i \in DOMAIN completed : effect[completed[i]] \in Owing \cup {"COMPENSATED"}
  /\ \A i, j \in DOMAIN completed : \A p, q \in DOMAIN order :
       i < j /\ order[p] = completed[i] /\ order[q] = completed[j] => p < q

(* The step that thread t works on is the last of the journal.             *)
LastOK(t) ==
  /\ \A s \in Step : effect[s] = "PREPARED" => pc[t] = "mark" /\ s = Current(t)
  /\ \/ pc[t] \in {"execute", "record", "append"}
     \/ pc[t] = "mark" /\ effect[Current(t)] = "PREPARED"
     => order # <<>> /\ order[Len(order)] = Current(t)
  /\ pc[t] = "append" => \A i \in DOMAIN completed : completed[i] # Current(t)

(* What has a compensation to run is ahead of the cursor.                  *)
AheadOK(t) ==
  /\ \A s \in Step : effect[s] \in Owing =>
       \/ \E i \in DOMAIN completed : completed[i] = s
       \/ pc[t] = "append" /\ s = Current(t)
  /\ pc[t] \in UndoPC \cup {"pick"} =>
       \A j \in DOMAIN completed :
         j > cursor[t] => effect[completed[j]] \notin Owing

(* The journal lists every record once, and completed follows it.          *)
JournalOK ==
  /\ OrderOK
  /\ \A s \in Step : effect[s] # "ABSENT" => \E p \in DOMAIN order : order[p] = s
  /\ CompletedOK

(* One thread without a crash compensates in the order of the journal.     *)
LifoInv(t) ==
  /\ JournalOK
  /\ LastOK(t)
  /\ AheadOK(t)

(* Somebody is about to write the dead letter of a flagged saga.           *)
FlagOK ==
  /\ proc = "up"
  /\ status = "COMPENSATION_FAILED" =>
       \/ dead # {}
       \/ \E t \in Thread : pc[t] \in {"faileffect", "faildead", "ambdead"}

-----------------------------------------------------------------------------
(***************************************************************************)
(* What a saga of one batch, served by one thread, needs to implement      *)
(* SagaOutcome with crashes anywhere.                                      *)
(***************************************************************************)

(* Where the head of the list is under way.                                *)
MidPC == {"prepare", "mark", "execute", "record", "append", "commit"}

(* Where a step of the batch is next or under way.                         *)
ForwardPC == {"check", "await"} \cup MidPC

(* Where a rollback has no verdict yet.                                    *)
RollbackPC ==
  {"rollback", "pick", "marking", "undo", "undone", "fail", "failstatus", "close"}

(* The verdict is in: at rest, in recovery and in the last writes of a     *)
(* rollback that failed.                                                   *)
Decided == status \in Terminal

(* A committed step carries the key of s.                                  *)
Done(s) == \E r \in SameKey[s] : effect[r] = "COMMITTED"

(* What is left of the batch: none of it has begun, but for its head where *)
(* begun says so, and all the rest is committed.                           *)
Remaining(list, begun) ==
  /\ \A i, j \in DOMAIN list : list[i] = list[j] => i = j
  /\ \A i \in DOMAIN list : i > 1 \/ ~begun => effect[list[i]] = "ABSENT"
  /\ \A s \in Step : effect[s] \in {"ABSENT", "COMMITTED"} \/ (begun /\ s = list[1])
  /\ \A s \in Step : Done(s) \/ \E i \in DOMAIN list : list[i] = s

(* The batch of a saga: every step of it, once.                            *)
Whole(list) ==
  /\ \A i, j \in DOMAIN list : list[i] = list[j] => i = j
  /\ \A s \in Step : \E i \in DOMAIN list : list[i] = s

(* The stored list and the one that a request works on.                    *)
ForwardOK(t) ==
  /\ pc[t] \in MidPC => Remaining(todo[t], TRUE)
  /\ pc[t] \in {"check", "await"} => Remaining(todo[t], FALSE)
  /\ pc[t] = "finish" => Remaining(<<>>, FALSE)
  /\ status = "AWAITING_APPROVAL" => held # <<>> /\ Remaining(held, FALSE)
  /\ pc[t] = "approve" => pending = held
  /\ pc[t] \in {"take", "resume"} => todo[t] = held
  /\ pc[t] = "await" => pending = todo[t] /\ todo[t] # <<>>

(* How far the current step has come.                                      *)
MiddleOK(t) ==
  /\ pc[t] = "prepare" => effect[Current(t)] = "ABSENT"
  /\ pc[t] = "mark" => effect[Current(t)] = "PREPARED"
  /\ pc[t] \in {"append", "commit"} => effect[Current(t)] = "APPLIED"
  /\ pc[t] \in MidPC => ~AlreadyCommitted(Current(t))

(* The status in memory and in the store at each place of a request.       *)
StageOK(t) ==
  /\ pc[t] \notin {"nothing", "ambiguous", "ambstatus", "ambdead"}
  /\ doubt[t] => pc[t] \in {"execute", "record", "abort"}
  /\ pc[t] \in {"approve", "take", "resume", "rejecting"} => status = "AWAITING_APPROVAL"
  /\ pc[t] \in ForwardPC \cup {"finish", "abort"} => status = "RUNNING"
  /\ pc[t] \in RollbackPC => status \in {"RUNNING", "COMPENSATING"}
  /\ pc[t] \in {"faileffect", "faildead"} => status = "COMPENSATION_FAILED"
  /\ pc[t] \in {"finish", "close", "failstatus", "faileffect", "faildead"} =>
       memStatus # "AWAITING_APPROVAL"

(* What a process knows between requests: the saga it holds is one that    *)
(* waits, is decided, or has not been given its batch.                     *)
KnownOK(t) ==
  /\ known => proc = "up"
  /\ ~known => /\ pc[t] = "idle" /\ completed = <<>>
               /\ memStatus = "RUNNING" /\ pending = <<>>
  /\ pc[t] = "idle" /\ memStatus = "AWAITING_APPROVAL" =>
       status = "AWAITING_APPROVAL" /\ (pending # <<>> => pending = held)
  /\ known /\ pc[t] = "idle" =>
       Decided \/ status = "AWAITING_APPROVAL" \/ submitted = {}
  /\ proc = "up" /\ ~known => Decided \/ status = "NONE"

(* Before the batch is submitted there is nothing.                         *)
UnbegunOK(t) ==
  /\ status = "NONE" => submitted = {}
  /\ submitted = {} =>
       /\ \A s \in Step : effect[s] = "ABSENT"
       /\ idem = {} /\ completed = <<>>
       /\ pc[t] = "idle" /\ memStatus = "RUNNING"
       /\ status \in {"NONE", "RUNNING", "ROLLED_BACK"}
       /\ known => status = "RUNNING"

(* A process that knows the saga knows all there is to undo, and nothing is *)
(* open but the call of the current step.                                  *)
ReachOK(t) ==
  /\ known => LifoInv(t)
  /\ known /\ ~Decided =>
       \A s \in Step : effect[s] \in {"EXECUTING", "AMBIGUOUS"} =>
         pc[t] \in {"execute", "record", "abort"} /\ s = Current(t)
  /\ pc[t] = "close" =>
       \A j \in DOMAIN completed : effect[completed[j]] \notin Owing

(* Recovery leaves nothing in place behind it.                             *)
BehindOK ==
  /\ rpc \notin {"off", "list"} => \A j \in DOMAIN order :
       j > rcur => effect[order[j]] \in {"ABORTED", "COMPENSATED"}
  /\ rpc \notin {"off", "list", "faildead"} => status \in {"RUNNING", "COMPENSATING"}
  /\ rpc = "faildead" => status = "COMPENSATION_FAILED"
  /\ rpc \in {"absent", "present", "unknown"} =>
       effect[Examined] \in {"EXECUTING", "AMBIGUOUS"}
  /\ rpc \in {"undo", "undone", "giveup"} => effect[Examined] = "COMPENSATING"

(* A published key is that of a step that was committed.                   *)
KeyOK ==
  /\ \A s \in Step : AlreadyCommitted(s) =>
       \E r \in SameKey[s] : effect[r] \in {"COMMITTED"} \cup Reversing
  /\ NoFalseWitness

(* A verdict holds of all the effects.                                     *)
DecisionOK ==
  /\ status = "COMMITTED" => \A s \in Step : effect[s] \in {"ABSENT", "COMMITTED"}
  /\ status = "ROLLED_BACK" => \A s \in Step : ~InPlace(s)
  /\ \A s \in Step : effect[s] # "ABSENT" => \E p \in DOMAIN order : order[p] = s

(* One batch, one thread: what each crash leaves, recovery finds.          *)
BatchInv(t) ==
  /\ ForwardOK(t) /\ MiddleOK(t) /\ StageOK(t) /\ KnownOK(t) /\ UnbegunOK(t)
  /\ ReachOK(t) /\ BehindOK /\ KeyOK /\ DecisionOK

=============================================================================
