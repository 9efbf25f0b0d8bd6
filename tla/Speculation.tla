---------------------------- MODULE Speculation -----------------------------
(***************************************************************************)
(* Speculative drafts (speculative/orchestrator.py and /speculative/run of *)
(* main.py): a request validates its drafts at the same time, in threads,  *)
(* and hands the first that passed to a saga.  All requests of a process   *)
(* share one orchestrator.                                                 *)
(***************************************************************************)
EXTENDS ToolGate

CONSTANTS
  Client,         \* requests
  DraftsFor(_)    \* the lists of drafts that they may send to a registry;
                  \* a draft is <<tool name, arguments>>

ASSUME DraftAssumption ==
  \A scene \in Scenario : \A registry \in SUBSET scene.offered :
    \A ds \in DraftsFor(registry) :
      /\ ds \in Seq(ToSet(ds))
      /\ \A i \in DOMAIN ds : ArgumentsOK(ds[i][2])

VARIABLES
  drafts,   \* the drafts of a request
  judged,   \* their validation and active_sandboxes: open, valid, refused,
            \* or discarded: valid once, and invalidated by a choice
  winner,   \* the place of the draft that was chosen, 0 if none
  chosen    \* the requests that have chosen

draftVars == <<drafts, judged, winner, chosen>>
allVars == <<vars, draftVars>>

DraftInit ==
  /\ Init
  /\ drafts = [c \in Client |-> <<>>]
  /\ judged = [c \in Client |-> <<>>]
  /\ winner = [c \in Client |-> 0]
  /\ chosen = {}

(* run_speculative_drafts.                                                 *)
Ask(c) ==
  /\ offered = {} /\ drafts[c] = <<>>
  /\ \E ds \in DraftsFor(tools) :
       /\ drafts' = [drafts EXCEPT ![c] = ds]
       /\ judged' = [judged EXCEPT ![c] = [i \in DOMAIN ds |-> "open"]]
  /\ UNCHANGED <<vars, winner, chosen>>

Verdicts(draft) ==
  LET found == {d \in tools : d.name = draft[1]}
  IN IF found = {} THEN {"refused"}
     ELSE {IF a = "ok" THEN "valid" ELSE "refused" :
             a \in UNION {ValidateAnswers(d, draft[2]) : d \in found}}

(* execute_draft_async: the threads end in any order.                      *)
Judge(c, i) ==
  /\ judged[c][i] = "open"
  /\ \E v \in Verdicts(drafts[c][i]) : judged' = [judged EXCEPT ![c][i] = v]
  /\ UNCHANGED <<vars, drafts, winner, chosen>>

First(places) ==
  IF places = {} THEN 0 ELSE CHOOSE i \in places : \A j \in places : i <= j

(* A choice that does not look at the result (a mutant of Selected).       *)
SelectedUnchecked(c) ==
  First({i \in DOMAIN judged[c] : judged[c][i] # "discarded"})

(* select_winner.                                                          *)
Selected(c) == First({i \in DOMAIN judged[c] : judged[c][i] = "valid"})

(* _discard_others: every draft of the process but the winner.             *)
DiscardOthers(c, i) ==
  judged' = [b \in Client |-> [j \in DOMAIN judged[b] |->
               IF judged[b][j] = "valid" /\ <<b, j>> # <<c, i>>
               THEN "discarded" ELSE judged[b][j]]]

(* run_speculative once all drafts are judged: the winner is refused by    *)
(* the schema of its tool, or becomes a saga of one step.                  *)
Choose(c) ==
  /\ drafts[c] # <<>> /\ c \notin chosen /\ decision = Nothing
  /\ \A i \in DOMAIN judged[c] : judged[c][i] # "open"
  /\ chosen' = chosen \cup {c}
  /\ LET i == Selected(c) IN
       /\ winner' = [winner EXCEPT ![c] = i]
       /\ IF i = 0 THEN UNCHANGED <<vars, judged>>
          ELSE /\ DiscardOthers(c, i)
               /\ \/ UNCHANGED vars
                  \/ \E d \in tools :
                       /\ d.name = drafts[c][i][1]
                       /\ Call(d, drafts[c][i][2], NoText)
  /\ UNCHANGED drafts

DraftNext ==
  \/ Next /\ UNCHANGED draftVars
  \/ \E c \in Client :
       Ask(c) \/ Choose(c) \/ \E i \in DOMAIN judged[c] : Judge(c, i)

DraftSpec == DraftInit /\ [][DraftNext]_allVars

-----------------------------------------------------------------------------
Passed(c) == {i \in DOMAIN judged[c] : judged[c][i] \in {"valid", "discarded"}}

(* The winner is a draft of the request itself that passed; and as long as *)
(* no other request has chosen, it is the first that passed, and there is  *)
(* none only if none passed, whatever the order in which validations end   *)
(* (select_winner over the shared active_sandboxes).                       *)
FirstValidWins ==
  \A c \in chosen :
    /\ winner[c] \in Passed(c) \cup {0}
    /\ chosen = {c} => winner[c] = First(Passed(c))
=============================================================================
