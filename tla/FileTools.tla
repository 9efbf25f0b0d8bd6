------------------------------ MODULE FileTools ------------------------------
(***************************************************************************)
(* WRITE_FILE, DELETE_FILE and RESTORE_FILE on one path: the contract that *)
(* main.py derives for a proposed step, and the isolated worker processes  *)
(* of sandbox.py that carry the step and its compensation out.             *)
(*                                                                         *)
(* A worker is a process of its own.  The API process waits for it, kills  *)
(* it at the timeout, and may die before it; other programs may change the *)
(* file at any moment.  An action is one system call that looks at the     *)
(* file or changes it.  SHA-256 is taken to be free of collisions, so a    *)
(* hash is the content it stands for.                                      *)
(***************************************************************************)
EXTENDS Naturals

CONSTANTS
  Step,        \* proposed steps, each one operation on this path
  Content,     \* what the file may hold, byte for byte
  Absent,      \* no file
  Wanted,      \* what each step leaves: a content, or Absent for DELETE_FILE
  TextOf,      \* the bytes of a content after read_text and encode
  Worker,      \* the calls considered, <<step, role>>
  MaxForeign   \* bound on the changes by other programs

(* A call is one worker process: for a step, for its compensation, or for a *)
(* second call of the compensation by another rollback.                    *)
Role == {"forward", "undo", "again"}

ASSUME FileAssumption ==
  /\ Absent \notin Content
  /\ Wanted \in [Step -> Content \cup {Absent}]
  /\ TextOf \in [Content -> Content]
  /\ \A c \in Content : TextOf[TextOf[c]] = TextOf[c]
  /\ Worker \subseteq Step \X Role
  /\ \A s \in Step : <<s, "forward">> \in Worker
  /\ \A s \in Step : <<s, "again">> \in Worker => <<s, "undo">> \in Worker
  /\ MaxForeign \in Nat

VARIABLES
  file,      \* what the path holds
  api,       \* how far the proposal of each step has come
  preimage,  \* the captured preimage of each step
  wpc,       \* where each worker is
  answer,    \* what the coordinator knows of each worker's call
  temp,      \* workers whose temporary file is on disk
  foreign,   \* changes by other programs so far
  raced,     \* history: workers overtaken by a change after their check
  made,      \* history: workers that have changed the file
  displaced  \* history: what the file held before each worker changed it

worldVars == <<file, foreign, raced>>
apiVars == <<api, preimage>>
historyVars == <<made, displaced>>
vars == <<worldVars, apiVars, wpc, answer, temp, historyVars>>

State == Content \cup {Absent}
WorkerPC == {"off", "check", "hash", "act", "replace", "remove", "done", "gone"}

TypeOK ==
  /\ file \in State
  /\ api \in [Step -> {"new", "exists", "derived", "refused"}]
  /\ preimage \in [Step -> State]
  /\ wpc \in [Worker -> WorkerPC]
  /\ answer \in [Worker -> {"none", "ok", "stale", "error", "killed", "unread", "abandoned"}]
  /\ temp \subseteq Worker
  /\ foreign \in 0..MaxForeign
  /\ raced \subseteq Worker
  /\ made \subseteq Worker
  /\ displaced \in [Worker -> State]

Init ==
  /\ file \in State
  /\ api = [s \in Step |-> "new"]
  /\ preimage = [s \in Step |-> Absent]
  /\ wpc = [w \in Worker |-> "off"]
  /\ answer = [w \in Worker |-> "none"]
  /\ temp = {}
  /\ foreign = 0
  /\ raced = {}
  /\ made = {}
  /\ displaced = [w \in Worker |-> Absent]

-----------------------------------------------------------------------------
(***************************************************************************)
(* _derive_file_contract.  The step gets the precondition that the file is *)
(* still what was captured; its compensation, that the file is still what  *)
(* the step left.                                                          *)
(***************************************************************************)

(* is_file.                                                                *)
Probe(s) ==
  /\ api[s] = "new"
  /\ api' = [api EXCEPT ![s] = IF file = Absent THEN "derived" ELSE "exists"]
  /\ UNCHANGED <<preimage, worldVars, wpc, answer, temp, historyVars>>

(* A file that is gone captured as nothing (a mutant of Capture).          *)
CaptureNothing(s) ==
  /\ api[s] = "exists"
  /\ api' = [api EXCEPT ![s] = "derived"]
  /\ preimage' = [preimage EXCEPT ![s] = IF file = Absent THEN "None" ELSE TextOf[file]]
  /\ UNCHANGED <<worldVars, wpc, answer, temp, historyVars>>

(* read_text, which turns every line end into a line feed.  A file that is *)
(* gone by now is refused with 422, and so is one that cannot be read, is  *)
(* not text or is too large.                                               *)
Capture(s) ==
  /\ api[s] = "exists"
  /\ \/ /\ api' = [api EXCEPT ![s] = "refused"]
        /\ UNCHANGED preimage
     \/ /\ file # Absent
        /\ api' = [api EXCEPT ![s] = "derived"]
        /\ preimage' = [preimage EXCEPT ![s] = TextOf[file]]
  /\ UNCHANGED <<worldVars, wpc, answer, temp, historyVars>>

(* expected_sha256 or expected_absent, and what the worker is to leave.    *)
Expected(w) == IF w[2] = "forward" THEN preimage[w[1]] ELSE Wanted[w[1]]
Goal(w) == IF w[2] = "forward" THEN Wanted[w[1]] ELSE preimage[w[1]]

-----------------------------------------------------------------------------
(***************************************************************************)
(* The coordinator's calls.                                                *)
(***************************************************************************)

(* A step runs when its request, or an approval any time later, says so;   *)
(* only a step that reported success is compensated; a rollback that finds *)
(* the effect COMPENSATING calls the compensation once more.               *)
MayCall(w) ==
  CASE w[2] = "forward" -> api[w[1]] = "derived"
    [] w[2] = "undo" -> answer[<<w[1], "forward">>] = "ok"
    [] w[2] = "again" -> wpc[<<w[1], "undo">>] # "off"

Launch(w) ==
  /\ wpc[w] = "off" /\ answer[w] = "none"
  /\ MayCall(w)
  /\ wpc' = [wpc EXCEPT ![w] = "check"]
  /\ UNCHANGED <<worldVars, apiVars, answer, temp, historyVars>>

Running(w) == wpc[w] \notin {"off", "gone"}

Goto(w, label) == wpc' = [wpc EXCEPT ![w] = label]

(* The worker ends and the waiting call, if there is one, gets its answer. *)
Reply(w, reply) ==
  /\ Goto(w, "gone")
  /\ answer' = [answer EXCEPT ![w] = IF @ = "none" THEN reply ELSE @]

(* A timeout that only covers the wait for the worker's checks (a mutant   *)
(* of Timeout).                                                            *)
TimeoutOfChecks(w) ==
  /\ wpc[w] \in {"check", "hash"} /\ answer[w] = "none"
  /\ Reply(w, "killed")
  /\ UNCHANGED <<worldVars, apiVars, temp, historyVars>>

(* A timeout reported as a failure (a mutant of Timeout).                  *)
TimeoutAsError(w) ==
  /\ Running(w) /\ answer[w] = "none"
  /\ Reply(w, "error")
  /\ UNCHANGED <<worldVars, apiVars, temp, historyVars>>

(* subprocess.run kills the worker at the timeout, or the system at the    *)
(* worker's CPU limit, wherever it is; a temporary file stays.             *)
Timeout(w) ==
  /\ Running(w) /\ answer[w] = "none"
  /\ Reply(w, "killed")
  /\ UNCHANGED <<worldVars, apiVars, temp, historyVars>>

(* The API process dies.  Its workers have read their request and go on.   *)
Crash ==
  /\ \E w \in Worker : Running(w) /\ answer[w] = "none"
  /\ answer' = [w \in Worker |-> IF Running(w) /\ answer[w] = "none"
                                 THEN "abandoned" ELSE answer[w]]
  /\ UNCHANGED <<worldVars, apiVars, wpc, temp, historyVars>>

-----------------------------------------------------------------------------
(***************************************************************************)
(* The worker: _check_file_precondition ...                                *)
(***************************************************************************)

Pass(w) == Goto(w, "act") /\ UNCHANGED answer

(* A missing file accepted whatever is expected (a mutant of CheckExists). *)
CheckLeniently(w) ==
  /\ wpc[w] = "check"
  /\ CASE Expected(w) = Absent /\ file # Absent -> Reply(w, "stale")
       [] file = Absent -> Pass(w)
       [] OTHER -> Goto(w, "hash") /\ UNCHANGED answer
  /\ UNCHANGED <<worldVars, apiVars, temp, historyVars>>

(* isfile.                                                                 *)
CheckExists(w) ==
  /\ wpc[w] = "check"
  /\ CASE (Expected(w) = Absent) # (file = Absent) -> Reply(w, "stale")
       [] Expected(w) = Absent /\ file = Absent -> Pass(w)
       [] OTHER -> Goto(w, "hash") /\ UNCHANGED answer
  /\ UNCHANGED <<worldVars, apiVars, temp, historyVars>>

(* _file_sha256: open raises if the file is gone by now.                   *)
CheckHash(w) ==
  /\ wpc[w] = "hash"
  /\ CASE file = Absent -> Reply(w, "error")
       [] file = Expected(w) -> Pass(w)
       [] OTHER -> Reply(w, "stale")
  /\ UNCHANGED <<worldVars, apiVars, temp, historyVars>>

(* Workers between their check and their change.                           *)
Checked == {w \in Worker : wpc[w] \in {"act", "replace", "remove"}}

-----------------------------------------------------------------------------
(***************************************************************************)
(* ... then _handle_write_file or _handle_delete_file, which check nothing *)
(* any more.                                                               *)
(***************************************************************************)

ChangeFile(w, new) ==
  /\ file' = new
  /\ raced' = raced \cup (Checked \ {w})
  /\ made' = made \cup {w}
  /\ displaced' = [displaced EXCEPT ![w] = file]
  /\ UNCHANGED foreign

(* mkstemp, write, fsync.                                                  *)
WriteTemp(w) ==
  /\ wpc[w] = "act" /\ Goal(w) # Absent
  /\ temp' = temp \cup {w}
  /\ Goto(w, "replace")
  /\ UNCHANGED <<worldVars, apiVars, answer, historyVars>>

(* os.replace.                                                             *)
Replace(w) ==
  /\ wpc[w] = "replace"
  /\ ChangeFile(w, Goal(w))
  /\ temp' = temp \ {w}
  /\ Goto(w, "done")
  /\ UNCHANGED <<apiVars, answer>>

(* os.path.exists: nothing to delete is a success.                         *)
LookForFile(w) ==
  /\ wpc[w] = "act" /\ Goal(w) = Absent
  /\ Goto(w, IF file = Absent THEN "done" ELSE "remove")
  /\ UNCHANGED <<worldVars, apiVars, answer, temp, historyVars>>

(* os.remove, which raises if the file is gone by now.                     *)
Remove(w) ==
  /\ wpc[w] = "remove"
  /\ IF file = Absent
     THEN /\ Reply(w, "error")
          /\ UNCHANGED <<worldVars, historyVars>>
     ELSE /\ ChangeFile(w, Absent)
          /\ Goto(w, "done")
          /\ UNCHANGED answer
  /\ UNCHANGED <<apiVars, temp>>

(* An exception whose handler forgets the temporary file (a mutant of      *)
(* IoError).                                                               *)
IoErrorNoCleanup(w) ==
  /\ wpc[w] \in {"check", "hash", "act", "replace", "remove"}
  /\ Reply(w, "error")
  /\ UNCHANGED <<worldVars, apiVars, temp, historyVars>>

(* An exception after the replacement (a mutant of IoError).               *)
IoErrorLate(w) ==
  /\ wpc[w] \in {"check", "hash", "act", "replace", "remove", "done"}
  /\ Reply(w, "error")
  /\ temp' = temp \ {w}
  /\ UNCHANGED <<worldVars, apiVars, historyVars>>

(* Any of these calls fails, from makedirs before the check on: no space,  *)
(* no permission.  The finally clause removes the temporary file.          *)
IoError(w) ==
  /\ wpc[w] \in {"check", "hash", "act", "replace", "remove"}
  /\ Reply(w, "error")
  /\ temp' = temp \ {w}
  /\ UNCHANGED <<worldVars, apiVars, historyVars>>

(* The worker's response reaches _execute_worker.                          *)
Respond(w) ==
  /\ wpc[w] = "done"
  /\ Reply(w, "ok")
  /\ UNCHANGED <<worldVars, apiVars, temp, historyVars>>

(* A response that _execute_worker does not take: more output than the     *)
(* limit, an exit code, or no JSON.                                        *)
Garble(w) ==
  /\ wpc[w] = "done"
  /\ Reply(w, "unread")
  /\ UNCHANGED <<worldVars, apiVars, temp, historyVars>>

-----------------------------------------------------------------------------
(* Another program replaces, creates or deletes the file.                  *)
Interfere ==
  /\ foreign < MaxForeign
  /\ \E new \in State \ {file} : file' = new
  /\ foreign' = foreign + 1
  /\ raced' = raced \cup Checked
  /\ UNCHANGED <<apiVars, wpc, answer, temp, historyVars>>

Next ==
  \/ \E s \in Step : Probe(s) \/ Capture(s)
  \/ \E w \in Worker :
       \/ Launch(w) \/ Timeout(w)
       \/ CheckExists(w) \/ CheckHash(w)
       \/ WriteTemp(w) \/ Replace(w) \/ LookForFile(w) \/ Remove(w)
       \/ IoError(w) \/ Respond(w) \/ Garble(w)
  \/ Crash
  \/ Interfere

(* The parent's timeout is the only progress that is guaranteed: a worker  *)
(* may hang in any call.                                                   *)
Spec == Init /\ [][Next]_vars /\ \A w \in Worker : WF_vars(Timeout(w))

-----------------------------------------------------------------------------
(***************************************************************************)
(* Properties.                                                             *)
(***************************************************************************)

(* The coordinator treats an answer as final: a call that reported success *)
(* did its work (or found nothing to delete), one that reported an error   *)
(* did nothing.  Only a call that was cut short, or whose response was not *)
(* taken, is in doubt.                                                     *)
AnswerIsTrue ==
  \A w \in Worker :
    /\ answer[w] = "ok" => w \in made \/ Goal(w) = Absent
    /\ answer[w] \in {"stale", "error"} => w \notin made

(* Temporary files are left behind by killed workers only.                 *)
TempIsOwned ==
  \A w \in temp : wpc[w] = "replace" \/ (wpc[w] = "gone" /\ answer[w] = "killed")

(* If nobody touched the file between a worker's check and its change, it  *)
(* displaced exactly what its contract names: a step what was captured, so *)
(* that its compensation can bring it back, and a compensation what the    *)
(* step left.  This holds however long the step waited for its approval.   *)
UnracedIsExact ==
  \A w \in made \ raced : displaced[w] = Expected(w)

(* A call whose process survives returns.                                  *)
CallReturns == \A w \in Worker : Running(w) ~> answer[w] # "none"

(* The tools keep the contract that the coordinator relies on.             *)
Outcome(w) ==
  CASE answer[w] \in {"stale", "error"} -> "raised"
    [] answer[w] \in {"killed", "unread"} -> "lost"
    [] OTHER -> answer[w]

Contract == INSTANCE ToolContract WITH
  Call <- Worker,
  outcome <- [w \in Worker |-> Outcome(w)],
  took <- made

KeepsContract == Contract!Spec

(* "File precondition failed: content hash changed" (sandbox.py): a step   *)
(* whose file is still what the contract captured is not turned away.      *)
(* Nothing has changed it when no program and no worker has.               *)
StaleMeansChanged ==
  \A s \in Step : answer[<<s, "forward">>] = "stale" => foreign > 0 \/ made # {}
=============================================================================
