-------------------------- MODULE SagaCoordinator ---------------------------
(***************************************************************************)
(* The saga coordinator: requests, crashes and recovery over one store, what*)
(* it must do, and the abstract saga that it implements.                   *)
(***************************************************************************)
EXTENDS SagaRequests, SagaRecovery

Next ==
  \/ Start
  \/ \E t \in Thread : Request(t) \/ Work(t)
  \/ Crash \/ Restart
  \/ Recovery

Spec == Init /\ [][Next]_vars

(* A request that runs goes on, recovery goes on, and an operator restarts *)
(* a process that is down.  Clients promise nothing, and a crash is never  *)
(* owed.                                                                   *)
FairSpec ==
  /\ Spec
  /\ \A t \in Thread : WF_vars(Work(t))
  /\ WF_vars(Recovery)
  /\ WF_vars(Restart)

-----------------------------------------------------------------------------
(***************************************************************************)
(* Properties.                                                             *)
(***************************************************************************)

(* No request and no recovery is under way.                                *)
AtRest == proc = "up" /\ \A t \in Thread : pc[t] = "idle"

(* The external effect of s is there and was never compensated.            *)
InPlace(s) == hits[s] > 0 /\ undos[s] = 0

(* The forward effect of a step takes place at most once, whatever batches *)
(* are submitted twice or at once and wherever the process crashes: the    *)
(* comparison in transition_effect is the only lock the code has.          *)
AtMostOnce == \A s \in Step : hits[s] <= 1

(* Write-ahead: nothing happens outside before the journal says that it    *)
(* may, neither a tool call nor a compensation.                            *)
IntentBeforeEffect ==
  \A s \in Step :
    /\ hits[s] > 0 => effect[s] \notin {"ABSENT", "PREPARED"}
    /\ undos[s] > 0 =>
         effect[s] \in {"COMPENSATING", "COMPENSATED", "COMPENSATION_FAILED"}

(* A journal state that claims an outcome is right about the world.  The   *)
(* states that claim none are EXECUTING, AMBIGUOUS, COMPENSATING and       *)
(* COMPENSATION_FAILED.                                                    *)
JournalMatchesWorld ==
  \A s \in Step :
    /\ effect[s] \in {"APPLIED", "COMMITTED"} => hits[s] = 1 /\ undos[s] = 0
    /\ effect[s] = "ABORTED" => hits[s] = 0
    /\ effect[s] = "COMPENSATED" => hits[s] = 1 /\ undos[s] > 0

(* A step is compensated only when no later step of the journal still has  *)
(* a compensation to run, in the request and in recovery alike.            *)
LifoCompensation ==
  [][\A i, j \in DOMAIN order :
       i < j /\ undos'[order[i]] # undos[order[i]] =>
         effect[order[j]] \notin
           {"APPLIED", "COMMITTED", "COMPENSATING", "COMPENSATION_FAILED"}]_vars

(* ROLLED_BACK, once the request is over, means that nothing is left that  *)
(* an operator has not been told of.                                       *)
RolledBackMeansUndone ==
  AtRest /\ status = "ROLLED_BACK" =>
    \A s \in Step : InPlace(s) => s \in dead

(* COMMITTED, at rest, means that no effect in place is still in flight:   *)
(* what was interrupted has been rolled back on recovery or reported, as   *)
(* state_store.py:5-6 promises.                                            *)
CommittedMeansDone ==
  AtRest /\ status = "COMMITTED" =>
    \A s \in Step : InPlace(s) => effect[s] = "COMMITTED" \/ s \in dead

(* A saga that needs an operator has a dead letter that says so.           *)
FlaggedIsReported ==
  AtRest /\ status = "COMPENSATION_FAILED" => dead # {}

(* No effect is forgotten: at rest, an effect in place belongs to a step   *)
(* recorded as committed in a saga that is committed or waits for an       *)
(* approval, or the saga is flagged, or a dead letter names the step.      *)
NoOrphan ==
  AtRest => \A s \in Step :
    InPlace(s) =>
      \/ /\ effect[s] = "COMMITTED"
         /\ status \in {"COMMITTED", "AWAITING_APPROVAL"}
      \/ status = "COMPENSATION_FAILED"
      \/ s \in dead

(* A compensation is not run again once it took place.                     *)
CompensateOnce == \A s \in Step : undos[s] <= 1

(* A rollback that was begun is finished, if need be after a restart.      *)
RollbackEnds == status = "COMPENSATING" ~> status \in Terminal

(* A call that was begun does not stay EXECUTING for ever.                 *)
CallsResolve ==
  \A s \in Step : effect[s] = "EXECUTING" ~> effect[s] # "EXECUTING"

-----------------------------------------------------------------------------
(***************************************************************************)
(* A saga of one batch implements SagaOutcome.  The verdict is the durable *)
(* status, except that ROLLED_BACK is no verdict yet while the request     *)
(* that wrote it still holds an effect in doubt.                           *)
(***************************************************************************)
Live == {s \in Step : InPlace(s)}

Verdict ==
  CASE status = "COMMITTED" -> "committed"
    [] status = "ROLLED_BACK" /\ \A t \in Thread : ~doubt[t] -> "undone"
    [] status = "COMPENSATION_FAILED" -> "flagged"
    [] OTHER -> "open"

SameKey ==
  [s \in Step |-> {r \in Step : r = s \/ (KeyOf[r] = KeyOf[s] /\ KeyOf[s] # NoKey)}]

Outcome == INSTANCE SagaOutcome
             WITH live <- Live, verdict <- Verdict, Same <- SameKey

(* Every step of the coordinator, its crashes and its recovery included,   *)
(* is a step of the abstract saga or leaves it alone.                      *)
ImplementsOutcome == Outcome!Spec

=============================================================================
