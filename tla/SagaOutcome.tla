----------------------------- MODULE SagaOutcome -----------------------------
(***************************************************************************)
(* What a saga promises to its client, without threads, journal, store or  *)
(* recovery: a set of external effects and one verdict on all of them.     *)
(* "committed" means that every step is in effect, "undone" that none is,  *)
(* "flagged" that an operator has to look.  A verdict is final, and no     *)
(* effect appears or disappears under a verdict.                           *)
(***************************************************************************)
CONSTANTS
  Step,      \* the steps of the saga
  Same       \* Same[s]: the steps that count as s, by idempotency key

VARIABLES
  live,      \* steps whose external effect is in place
  verdict    \* "open", "committed", "undone" or "flagged"

vars == <<live, verdict>>

Init ==
  /\ live = {}
  /\ verdict = "open"

Apply(s) ==
  /\ verdict = "open" /\ s \notin live
  /\ live' = live \cup {s}
  /\ UNCHANGED verdict

Undo(s) ==
  /\ verdict = "open" /\ s \in live
  /\ live' = live \ {s}
  /\ UNCHANGED verdict

Commit ==
  /\ verdict = "open"
  /\ \A s \in Step : Same[s] \cap live # {}
  /\ verdict' = "committed"
  /\ UNCHANGED live

Abort ==
  /\ verdict = "open" /\ live = {}
  /\ verdict' = "undone"
  /\ UNCHANGED live

Flag ==
  /\ verdict = "open"
  /\ verdict' = "flagged"
  /\ UNCHANGED live

Next ==
  \/ \E s \in Step : Apply(s) \/ Undo(s)
  \/ Commit \/ Abort \/ Flag

Spec == Init /\ [][Next]_vars

=============================================================================
