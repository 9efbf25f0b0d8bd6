---------------------------- MODULE ToolContract ----------------------------
(***************************************************************************)
(* What the coordinator may assume of tool calls, the abstract             *)
(* specification of FileTools.  SagaRequests!Execute and SagaRequests!Undo *)
(* take the outcomes of one call from here: "ok" with its effect, "raised" *)
(* without, "lost" with or without.  Once the call has returned, its       *)
(* effect is settled, except for a call that the coordinator's process did *)
(* not survive.                                                            *)
(***************************************************************************)
CONSTANTS Call

VARIABLES
  outcome,   \* what the caller knows: "none" while the call has not returned
  took       \* the calls whose effect has taken place

vars == <<outcome, took>>

Init ==
  /\ outcome = [c \in Call |-> "none"]
  /\ took = {}

TakeEffect(c) ==
  /\ c \notin took
  /\ outcome[c] \in {"none", "abandoned"}
  /\ took' = took \cup {c}
  /\ UNCHANGED outcome

(* An error never hides an effect: only a call that was cut short is in    *)
(* doubt.                                                                  *)
Answer(c) ==
  /\ outcome[c] = "none"
  /\ \E o \in {"ok", "raised", "lost"} :
       /\ o = "raised" => c \notin took
       /\ outcome' = [outcome EXCEPT ![c] = o]
  /\ UNCHANGED took

(* The coordinator's process dies with the call under way.                 *)
Abandon ==
  /\ \E C \in SUBSET {c \in Call : outcome[c] = "none"} :
       outcome' = [c \in Call |-> IF c \in C THEN "abandoned" ELSE outcome[c]]
  /\ UNCHANGED took

Next == Abandon \/ \E c \in Call : TakeEffect(c) \/ Answer(c)

Spec == Init /\ [][Next]_vars
=============================================================================
