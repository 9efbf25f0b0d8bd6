--------------------------- MODULE FileToolsProofs ---------------------------
(***************************************************************************)
(* Proofs about FileTools, for every set of steps, calls and contents and  *)
(* any number of changes by other programs.                                *)
(***************************************************************************)
EXTENDS FileTools, TLAPS

(* The contract of a step is fixed before any of its workers starts.       *)
ContractFixed == \A w \in Worker : wpc[w] # "off" => api[w[1]] = "derived"

(* The states in which an answer is possible, and the file untouched.      *)
Phases ==
  \A w \in Worker :
    /\ wpc[w] = "off" => answer[w] = "none"
    /\ answer[w] \in {"ok", "stale", "error", "killed", "unread"} => wpc[w] = "gone"
    /\ w \in made => wpc[w] \in {"done", "gone"}
    /\ wpc[w] = "done" => w \in made \/ Goal(w) = Absent

(* A check that was passed still holds unless somebody raced the worker.   *)
CheckHolds == \A w \in Checked \ raced : file = Expected(w)

IInv ==
  /\ TypeOK
  /\ ContractFixed
  /\ Phases
  /\ CheckHolds
  /\ AnswerIsTrue
  /\ TempIsOwned
  /\ UnracedIsExact

(* Nothing has started, so nothing has been promised.                      *)
LEMMA InitInv == Init => IInv
<1> SUFFICES ASSUME Init PROVE IInv
  OBVIOUS
<1> USE DEF Init
<1>1. TypeOK
  BY FileAssumption DEF TypeOK, State, WorkerPC
<1>2. ContractFixed /\ Phases /\ CheckHolds
  BY DEF ContractFixed, Phases, CheckHolds, Checked
<1>3. AnswerIsTrue /\ TempIsOwned /\ UnracedIsExact
  BY DEF AnswerIsTrue, TempIsOwned, UnracedIsExact
<1> QED
  BY <1>1, <1>2, <1>3 DEF IInv

(* What a worker is to leave is a state of the file.                       *)
LEMMA GoalType == ASSUME TypeOK, NEW w \in Worker PROVE Goal(w) \in State
<1>1. w[1] \in Step
  BY FileAssumption
<1> QED
  BY <1>1, FileAssumption DEF TypeOK, Goal, State

-----------------------------------------------------------------------------
(* One lemma for each action, one step for each part of the invariant.     *)

(* is_file changes nothing but how far the proposal is. *)
LEMMA ProbeInv == ASSUME NEW s \in Step, IInv, Probe(s) PROVE IInv'
<1> USE FileAssumption DEF IInv, Probe, worldVars, apiVars, historyVars
<1>1. TypeOK'
  BY DEF TypeOK, State, WorkerPC, Checked
<1>2. ContractFixed'
  BY DEF TypeOK, ContractFixed, Phases, Checked
<1>3. Phases'
  BY DEF TypeOK, ContractFixed, Phases, Goal, Checked
<1>4. CheckHolds'
  BY DEF TypeOK, ContractFixed, CheckHolds, Expected, Checked
<1>5. AnswerIsTrue'
  BY DEF TypeOK, ContractFixed, Phases, AnswerIsTrue, Goal, Checked
<1>6. TempIsOwned'
  BY DEF TypeOK, Phases, TempIsOwned
<1>7. UnracedIsExact'
  BY DEF TypeOK, ContractFixed, Phases, CheckHolds, UnracedIsExact, Expected, Checked
<1> QED
  BY <1>1, <1>2, <1>3, <1>4, <1>5, <1>6, <1>7

(* The preimage is captured before the contract is used. *)
LEMMA CaptureInv == ASSUME NEW s \in Step, IInv, Capture(s) PROVE IInv'
<1> USE FileAssumption DEF IInv, Capture, worldVars, apiVars, historyVars
<1>1. TypeOK'
  BY DEF TypeOK, State, WorkerPC, Checked
<1>2. ContractFixed'
  BY DEF TypeOK, ContractFixed, Phases, Checked
<1>3. Phases'
  BY DEF TypeOK, ContractFixed, Phases, Goal, Checked
<1>4. CheckHolds'
  BY DEF TypeOK, ContractFixed, CheckHolds, Expected, Checked
<1>5. AnswerIsTrue'
  BY DEF TypeOK, ContractFixed, Phases, AnswerIsTrue, Goal, Checked
<1>6. TempIsOwned'
  BY DEF TypeOK, Phases, TempIsOwned
<1>7. UnracedIsExact'
  BY DEF TypeOK, ContractFixed, Phases, CheckHolds, UnracedIsExact, Expected, Checked
<1> QED
  BY <1>1, <1>2, <1>3, <1>4, <1>5, <1>6, <1>7

(* A worker starts with the contract that was derived, unchecked. *)
LEMMA LaunchInv == ASSUME NEW w \in Worker, IInv, Launch(w) PROVE IInv'
<1> USE FileAssumption DEF IInv, Launch, MayCall, Goto, worldVars, apiVars, historyVars
<1>1. TypeOK'
  BY DEF TypeOK, State, WorkerPC, Checked
<1>2. ContractFixed'
  <2>1. w \in Step \X Role /\ w = <<w[1], w[2]>>
    OBVIOUS
  <2>2. CASE w[2] = "forward"
    BY <2>2 DEF TypeOK, ContractFixed
  <2>3. CASE w[2] = "undo"
    <3>1. <<w[1], "forward">> \in Worker /\ answer[<<w[1], "forward">>] = "ok"
      BY <2>1, <2>3
    <3>2. wpc[<<w[1], "forward">>] = "gone"
      BY <3>1 DEF Phases
    <3>3. api[w[1]] = "derived"
      BY <3>1, <3>2 DEF ContractFixed
    <3> QED
      BY <3>3 DEF TypeOK, ContractFixed
  <2>4. CASE w[2] = "again"
    <3>1. <<w[1], "undo">> \in Worker /\ wpc[<<w[1], "undo">>] # "off"
      BY <2>1, <2>4
    <3>2. api[w[1]] = "derived"
      BY <3>1 DEF ContractFixed
    <3> QED
      BY <3>2 DEF TypeOK, ContractFixed
  <2> QED
    BY <2>1, <2>2, <2>3, <2>4 DEF Role
<1>3. Phases'
  BY DEF TypeOK, ContractFixed, Phases, Goal, Checked
<1>4. CheckHolds'
  BY DEF TypeOK, ContractFixed, CheckHolds, Expected, Checked
<1>5. AnswerIsTrue'
  BY DEF TypeOK, ContractFixed, Phases, AnswerIsTrue, Goal, Checked
<1>6. TempIsOwned'
  BY DEF TypeOK, Phases, TempIsOwned
<1>7. UnracedIsExact'
  BY DEF TypeOK, ContractFixed, Phases, CheckHolds, UnracedIsExact, Expected, Checked
<1> QED
  BY <1>1, <1>2, <1>3, <1>4, <1>5, <1>6, <1>7

(* A killed worker is in doubt, whatever it has done. *)
LEMMA TimeoutInv == ASSUME NEW w \in Worker, IInv, Timeout(w) PROVE IInv'
<1> USE FileAssumption DEF IInv, Timeout, Running, Reply, Goto, worldVars, apiVars, historyVars
<1>1. TypeOK'
  BY DEF TypeOK, State, WorkerPC, Checked
<1>2. ContractFixed'
  BY DEF TypeOK, ContractFixed, Phases, Checked
<1>3. Phases'
  BY DEF TypeOK, ContractFixed, Phases, Goal, Checked
<1>4. CheckHolds'
  BY DEF TypeOK, ContractFixed, CheckHolds, Expected, Checked
<1>5. AnswerIsTrue'
  BY DEF TypeOK, ContractFixed, Phases, AnswerIsTrue, Goal, Checked
<1>6. TempIsOwned'
  BY DEF TypeOK, Phases, TempIsOwned
<1>7. UnracedIsExact'
  BY DEF TypeOK, ContractFixed, Phases, CheckHolds, UnracedIsExact, Expected, Checked
<1> QED
  BY <1>1, <1>2, <1>3, <1>4, <1>5, <1>6, <1>7

(* Workers of a process that died go on. *)
LEMMA CrashInv == ASSUME IInv, Crash PROVE IInv'
<1> USE FileAssumption DEF IInv, Crash, Running, worldVars, apiVars, historyVars
<1>1. TypeOK'
  BY DEF TypeOK, State, WorkerPC, Checked
<1>2. ContractFixed'
  BY DEF TypeOK, ContractFixed, Phases, Checked
<1>3. Phases'
  BY DEF TypeOK, ContractFixed, Phases, Goal, Checked
<1>4. CheckHolds'
  BY DEF TypeOK, ContractFixed, CheckHolds, Expected, Checked
<1>5. AnswerIsTrue'
  BY DEF TypeOK, ContractFixed, Phases, AnswerIsTrue, Goal, Checked
<1>6. TempIsOwned'
  BY DEF TypeOK, Phases, TempIsOwned
<1>7. UnracedIsExact'
  BY DEF TypeOK, ContractFixed, Phases, CheckHolds, UnracedIsExact, Expected, Checked
<1> QED
  BY <1>1, <1>2, <1>3, <1>4, <1>5, <1>6, <1>7

(* What isfile passes is what the contract expects. *)
LEMMA CheckExistsInv == ASSUME NEW w \in Worker, IInv, CheckExists(w) PROVE IInv'
<1> USE FileAssumption DEF IInv, CheckExists, Pass, Reply, Goto, worldVars, apiVars, historyVars
<1>1. TypeOK'
  BY DEF TypeOK, State, WorkerPC, Checked
<1>2. ContractFixed'
  BY DEF TypeOK, ContractFixed, Phases, Checked
<1>3. Phases'
  BY DEF TypeOK, ContractFixed, Phases, Goal, Checked
<1>4. CheckHolds'
  BY DEF TypeOK, ContractFixed, CheckHolds, Expected, Checked
<1>5. AnswerIsTrue'
  BY DEF TypeOK, ContractFixed, Phases, AnswerIsTrue, Goal, Checked
<1>6. TempIsOwned'
  BY DEF TypeOK, Phases, TempIsOwned
<1>7. UnracedIsExact'
  BY DEF TypeOK, ContractFixed, Phases, CheckHolds, UnracedIsExact, Expected, Checked
<1> QED
  BY <1>1, <1>2, <1>3, <1>4, <1>5, <1>6, <1>7

(* What the hash passes is what the contract expects. *)
LEMMA CheckHashInv == ASSUME NEW w \in Worker, IInv, CheckHash(w) PROVE IInv'
<1> USE FileAssumption DEF IInv, CheckHash, Pass, Reply, Goto, worldVars, apiVars, historyVars
<1>1. TypeOK'
  BY DEF TypeOK, State, WorkerPC, Checked
<1>2. ContractFixed'
  BY DEF TypeOK, ContractFixed, Phases, Checked
<1>3. Phases'
  BY DEF TypeOK, ContractFixed, Phases, Goal, Checked
<1>4. CheckHolds'
  BY DEF TypeOK, ContractFixed, CheckHolds, Expected, Checked
<1>5. AnswerIsTrue'
  BY DEF TypeOK, ContractFixed, Phases, AnswerIsTrue, Goal, Checked
<1>6. TempIsOwned'
  BY DEF TypeOK, Phases, TempIsOwned
<1>7. UnracedIsExact'
  BY DEF TypeOK, ContractFixed, Phases, CheckHolds, UnracedIsExact, Expected, Checked
<1> QED
  BY <1>1, <1>2, <1>3, <1>4, <1>5, <1>6, <1>7

(* The temporary file belongs to a worker about to replace. *)
LEMMA WriteTempInv == ASSUME NEW w \in Worker, IInv, WriteTemp(w) PROVE IInv'
<1> USE FileAssumption DEF IInv, WriteTemp, Goto, worldVars, apiVars, historyVars
<1>1. TypeOK'
  BY DEF TypeOK, State, WorkerPC, Checked
<1>2. ContractFixed'
  BY DEF TypeOK, ContractFixed, Phases, Checked
<1>3. Phases'
  BY DEF TypeOK, ContractFixed, Phases, Goal, Checked
<1>4. CheckHolds'
  BY DEF TypeOK, ContractFixed, CheckHolds, Expected, Checked
<1>5. AnswerIsTrue'
  BY DEF TypeOK, ContractFixed, Phases, AnswerIsTrue, Goal, Checked
<1>6. TempIsOwned'
  BY DEF TypeOK, Phases, TempIsOwned
<1>7. UnracedIsExact'
  BY DEF TypeOK, ContractFixed, Phases, CheckHolds, UnracedIsExact, Expected, Checked
<1> QED
  BY <1>1, <1>2, <1>3, <1>4, <1>5, <1>6, <1>7

(* The replacement races every other worker that has checked. *)
LEMMA ReplaceInv == ASSUME NEW w \in Worker, IInv, Replace(w) PROVE IInv'
<1> USE FileAssumption DEF IInv, Replace, ChangeFile, Goto, worldVars, apiVars, historyVars
<1>1. TypeOK'
  <2>1. Goal(w) \in State
    BY GoalType
  <2> QED
    BY <2>1 DEF TypeOK, WorkerPC, Checked
<1>2. ContractFixed'
  BY DEF TypeOK, ContractFixed, Phases, Checked
<1>3. Phases'
  BY DEF TypeOK, ContractFixed, Phases, Goal, Checked
<1>4. CheckHolds'
  BY DEF TypeOK, ContractFixed, CheckHolds, Expected, Checked
<1>5. AnswerIsTrue'
  BY DEF TypeOK, ContractFixed, Phases, AnswerIsTrue, Goal, Checked
<1>6. TempIsOwned'
  BY DEF TypeOK, Phases, TempIsOwned
<1>7. UnracedIsExact'
  BY DEF TypeOK, ContractFixed, Phases, CheckHolds, UnracedIsExact, Expected, Checked
<1> QED
  BY <1>1, <1>2, <1>3, <1>4, <1>5, <1>6, <1>7

(* Nothing to delete counts as done. *)
LEMMA LookForFileInv == ASSUME NEW w \in Worker, IInv, LookForFile(w) PROVE IInv'
<1> USE FileAssumption DEF IInv, LookForFile, Goto, worldVars, apiVars, historyVars
<1>1. TypeOK'
  BY DEF TypeOK, State, WorkerPC, Checked
<1>2. ContractFixed'
  BY DEF TypeOK, ContractFixed, Phases, Checked
<1>3. Phases'
  BY DEF TypeOK, ContractFixed, Phases, Goal, Checked
<1>4. CheckHolds'
  BY DEF TypeOK, ContractFixed, CheckHolds, Expected, Checked
<1>5. AnswerIsTrue'
  BY DEF TypeOK, ContractFixed, Phases, AnswerIsTrue, Goal, Checked
<1>6. TempIsOwned'
  BY DEF TypeOK, Phases, TempIsOwned
<1>7. UnracedIsExact'
  BY DEF TypeOK, ContractFixed, Phases, CheckHolds, UnracedIsExact, Expected, Checked
<1> QED
  BY <1>1, <1>2, <1>3, <1>4, <1>5, <1>6, <1>7

(* So does the removal. *)
LEMMA RemoveInv == ASSUME NEW w \in Worker, IInv, Remove(w) PROVE IInv'
<1> USE FileAssumption DEF IInv, Remove, ChangeFile, Reply, Goto, worldVars, apiVars, historyVars
<1>1. TypeOK'
  BY DEF TypeOK, State, WorkerPC, Checked
<1>2. ContractFixed'
  BY DEF TypeOK, ContractFixed, Phases, Checked
<1>3. Phases'
  BY DEF TypeOK, ContractFixed, Phases, Goal, Checked
<1>4. CheckHolds'
  BY DEF TypeOK, ContractFixed, CheckHolds, Expected, Checked
<1>5. AnswerIsTrue'
  BY DEF TypeOK, ContractFixed, Phases, AnswerIsTrue, Goal, Checked
<1>6. TempIsOwned'
  BY DEF TypeOK, Phases, TempIsOwned
<1>7. UnracedIsExact'
  BY DEF TypeOK, ContractFixed, Phases, CheckHolds, UnracedIsExact, Expected, Checked
<1> QED
  BY <1>1, <1>2, <1>3, <1>4, <1>5, <1>6, <1>7

(* A failed call leaves neither a change nor a temporary file. *)
LEMMA IoErrorInv == ASSUME NEW w \in Worker, IInv, IoError(w) PROVE IInv'
<1> USE FileAssumption DEF IInv, IoError, Reply, Goto, worldVars, apiVars, historyVars
<1>1. TypeOK'
  BY DEF TypeOK, State, WorkerPC, Checked
<1>2. ContractFixed'
  BY DEF TypeOK, ContractFixed, Phases, Checked
<1>3. Phases'
  BY DEF TypeOK, ContractFixed, Phases, Goal, Checked
<1>4. CheckHolds'
  BY DEF TypeOK, ContractFixed, CheckHolds, Expected, Checked
<1>5. AnswerIsTrue'
  BY DEF TypeOK, ContractFixed, Phases, AnswerIsTrue, Goal, Checked
<1>6. TempIsOwned'
  BY DEF TypeOK, Phases, TempIsOwned
<1>7. UnracedIsExact'
  BY DEF TypeOK, ContractFixed, Phases, CheckHolds, UnracedIsExact, Expected, Checked
<1> QED
  BY <1>1, <1>2, <1>3, <1>4, <1>5, <1>6, <1>7

(* Success is reported by a worker that is done. *)
LEMMA RespondInv == ASSUME NEW w \in Worker, IInv, Respond(w) PROVE IInv'
<1> USE FileAssumption DEF IInv, Respond, Reply, Goto, worldVars, apiVars, historyVars
<1>1. TypeOK'
  BY DEF TypeOK, State, WorkerPC, Checked
<1>2. ContractFixed'
  BY DEF TypeOK, ContractFixed, Phases, Checked
<1>3. Phases'
  BY DEF TypeOK, ContractFixed, Phases, Goal, Checked
<1>4. CheckHolds'
  BY DEF TypeOK, ContractFixed, CheckHolds, Expected, Checked
<1>5. AnswerIsTrue'
  BY DEF TypeOK, ContractFixed, Phases, AnswerIsTrue, Goal, Checked
<1>6. TempIsOwned'
  BY DEF TypeOK, Phases, TempIsOwned
<1>7. UnracedIsExact'
  BY DEF TypeOK, ContractFixed, Phases, CheckHolds, UnracedIsExact, Expected, Checked
<1> QED
  BY <1>1, <1>2, <1>3, <1>4, <1>5, <1>6, <1>7

(* A response that is not taken changes nothing. *)
LEMMA GarbleInv == ASSUME NEW w \in Worker, IInv, Garble(w) PROVE IInv'
<1> USE FileAssumption DEF IInv, Garble, Reply, Goto, worldVars, apiVars, historyVars
<1>1. TypeOK'
  BY DEF TypeOK, State, WorkerPC, Checked
<1>2. ContractFixed'
  BY DEF TypeOK, ContractFixed, Phases, Checked
<1>3. Phases'
  BY DEF TypeOK, ContractFixed, Phases, Goal, Checked
<1>4. CheckHolds'
  BY DEF TypeOK, ContractFixed, CheckHolds, Expected, Checked
<1>5. AnswerIsTrue'
  BY DEF TypeOK, ContractFixed, Phases, AnswerIsTrue, Goal, Checked
<1>6. TempIsOwned'
  BY DEF TypeOK, Phases, TempIsOwned
<1>7. UnracedIsExact'
  BY DEF TypeOK, ContractFixed, Phases, CheckHolds, UnracedIsExact, Expected, Checked
<1> QED
  BY <1>1, <1>2, <1>3, <1>4, <1>5, <1>6, <1>7

(* Another program races every worker that has checked. *)
LEMMA InterfereInv == ASSUME IInv, Interfere PROVE IInv'
<1> USE FileAssumption DEF IInv, Interfere, worldVars, apiVars, historyVars
<1>1. TypeOK'
  BY DEF TypeOK, State, WorkerPC, Checked
<1>2. ContractFixed'
  BY DEF TypeOK, ContractFixed, Phases, Checked
<1>3. Phases'
  BY DEF TypeOK, ContractFixed, Phases, Goal, Checked
<1>4. CheckHolds'
  BY DEF TypeOK, ContractFixed, CheckHolds, Expected, Checked
<1>5. AnswerIsTrue'
  BY DEF TypeOK, ContractFixed, Phases, AnswerIsTrue, Goal, Checked
<1>6. TempIsOwned'
  BY DEF TypeOK, Phases, TempIsOwned
<1>7. UnracedIsExact'
  BY DEF TypeOK, ContractFixed, Phases, CheckHolds, UnracedIsExact, Expected, Checked
<1> QED
  BY <1>1, <1>2, <1>3, <1>4, <1>5, <1>6, <1>7

-----------------------------------------------------------------------------
(* IInv is inductive.                                                      *)
LEMMA StepInv == IInv /\ [Next]_vars => IInv'
<1> SUFFICES ASSUME IInv, [Next]_vars PROVE IInv'
  OBVIOUS
<1>1. CASE \E s \in Step : Probe(s) \/ Capture(s)
  BY <1>1, ProbeInv, CaptureInv
<1>2. ASSUME NEW w \in Worker,
             \/ Launch(w) \/ Timeout(w)
             \/ CheckExists(w) \/ CheckHash(w)
             \/ WriteTemp(w) \/ Replace(w) \/ LookForFile(w) \/ Remove(w)
             \/ IoError(w) \/ Respond(w) \/ Garble(w)
      PROVE  IInv'
  BY <1>2, LaunchInv, TimeoutInv, CheckExistsInv, CheckHashInv, WriteTempInv,
     ReplaceInv, LookForFileInv, RemoveInv, IoErrorInv, RespondInv, GarbleInv
<1>3. CASE Crash
  BY <1>3, CrashInv
<1>4. CASE Interfere
  BY <1>4, InterfereInv
<1>5. CASE UNCHANGED vars
  BY <1>5 DEF IInv, vars, worldVars, apiVars, historyVars, TypeOK, ContractFixed,
              Phases, CheckHolds, AnswerIsTrue, TempIsOwned, UnracedIsExact,
              Goal, Expected, Checked
<1> QED
  BY <1>1, <1>2, <1>3, <1>4, <1>5 DEF Next

(* IInv is an invariant of the file tools.                                 *)
THEOREM InvHolds == Spec => []IInv
<1>1. Init => IInv
  BY InitInv
<1>2. IInv /\ [Next]_vars => IInv'
  BY StepInv
<1> QED
  BY <1>1, <1>2, PTL DEF Spec

(* Type correctness of the contract and of the workers.                    *)
THEOREM TypeCorrect == Spec => []TypeOK
<1>1. IInv => TypeOK
  BY DEF IInv
<1> QED
  BY <1>1, InvHolds, PTL

(* Whatever other programs and other workers do: an answer of success or   *)
(* of failure is the truth about the file.                                 *)
THEOREM AnswerIsTrueHolds == Spec => []AnswerIsTrue
<1>1. IInv => AnswerIsTrue
  BY DEF IInv
<1> QED
  BY <1>1, InvHolds, PTL

(* Only a killed worker leaves a temporary file behind.                    *)
THEOREM TempIsOwnedHolds == Spec => []TempIsOwned
<1>1. IInv => TempIsOwned
  BY DEF IInv
<1> QED
  BY <1>1, InvHolds, PTL

(* A worker that nobody overtook between its check and its change          *)
(* displaced what its contract names.                                      *)
THEOREM UnracedIsExactHolds == Spec => []UnracedIsExact
<1>1. IInv => UnracedIsExact
  BY DEF IInv
<1> QED
  BY <1>1, InvHolds, PTL

-----------------------------------------------------------------------------
(***************************************************************************)
(* The refinement of ToolContract.                                         *)
(***************************************************************************)

(* Outcomes as ToolContract sees them; the effects are the calls in made.  *)
Outcomes == [w \in Worker |-> Outcome(w)]

(* Neither an answer nor an effect: a stuttering step.                     *)
LEMMA Silent ==
  ASSUME UNCHANGED <<answer, made>> PROVE UNCHANGED Contract!vars
  BY DEF Contract!vars, Outcome

(* A change of the file is the effect of a call that has not returned.     *)
LEMMA ChangeRefines ==
  ASSUME IInv, NEW w \in Worker, wpc[w] \in {"replace", "remove"},
         made' = made \cup {w}, UNCHANGED answer
  PROVE  Contract!TakeEffect(w)
<1>1. w \notin made /\ answer[w] \in {"none", "abandoned"}
  BY DEF IInv, TypeOK, Phases
<1>2. Outcome(w) \in {"none", "abandoned"}
  BY <1>1 DEF Outcome
<1>3. UNCHANGED Outcomes
  BY DEF Outcomes, Outcome
<1> QED
  BY <1>1, <1>2, <1>3 DEF Contract!TakeEffect, Outcomes

(* The end of a worker is the answer of its call, or nothing to a process  *)
(* that is not there any more.                                             *)
LEMMA ReplyRefines ==
  ASSUME IInv, NEW w \in Worker, NEW reply \in {"ok", "stale", "error", "killed", "unread"},
         reply \in {"stale", "error"} => w \notin made,
         answer' = [answer EXCEPT ![w] = IF @ = "none" THEN reply ELSE @],
         UNCHANGED made
  PROVE  Contract!Answer(w) \/ UNCHANGED Contract!vars
<1>1. CASE answer[w] # "none"
  <2>1. answer' = answer
    BY <1>1 DEF IInv, TypeOK
  <2> QED
    BY <2>1, Silent
<1>2. CASE answer[w] = "none"
  <2> DEFINE o == CASE reply \in {"stale", "error"} -> "raised"
                    [] reply \in {"killed", "unread"} -> "lost"
                    [] OTHER -> reply
  <2>1. o \in {"ok", "raised", "lost"} /\ (o = "raised" => w \notin made)
    OBVIOUS
  <2>2. Outcomes' = [Outcomes EXCEPT ![w] = o]
    BY <1>2 DEF IInv, TypeOK, Outcomes, Outcome
  <2>3. Outcome(w) = "none"
    BY <1>2 DEF Outcome
  <2> QED
    BY <2>1, <2>2, <2>3 DEF Contract!Answer, Outcomes
<1> QED
  BY <1>1, <1>2

(* The calls that were under way when the process died are abandoned       *)
(* together.                                                               *)
LEMMA CrashRefines == ASSUME IInv, Crash PROVE Contract!Abandon
<1> DEFINE C == {w \in Worker : Running(w) /\ answer[w] = "none"}
<1>1. C \in SUBSET {w \in Worker : Outcome(w) = "none"}
  BY DEF Outcome
<1>2. Outcomes' = [w \in Worker |-> IF w \in C THEN "abandoned" ELSE Outcome(w)]
  BY DEF Crash, IInv, TypeOK, Outcomes, Outcome
<1> QED
  BY <1>1, <1>2 DEF Contract!Abandon, Crash, historyVars, Outcomes

(* No call has returned and none has an effect.                            *)
LEMMA InitRefines == Init => Contract!Init
  BY DEF Init, Contract!Init, Outcome

(* Every step of the tools is a step of the contract, or none.             *)
LEMMA StepRefines == IInv /\ [Next]_vars => [Contract!Next]_(Contract!vars)
<1> SUFFICES ASSUME IInv, [Next]_vars
             PROVE  Contract!Next \/ UNCHANGED Contract!vars
  OBVIOUS
<1> USE DEF worldVars, apiVars, historyVars
<1>1. CASE \E s \in Step : Probe(s) \/ Capture(s)
  BY <1>1, Silent DEF Probe, Capture
<1>2. ASSUME NEW w \in Worker, Launch(w) \/ WriteTemp(w) \/ LookForFile(w)
      PROVE  UNCHANGED Contract!vars
  BY <1>2, Silent DEF Launch, WriteTemp, LookForFile
<1>3. ASSUME NEW w \in Worker,
             \/ Timeout(w) \/ IoError(w) \/ Respond(w) \/ Garble(w)
             \/ CheckExists(w) \/ CheckHash(w)
      PROVE  Contract!Answer(w) \/ UNCHANGED Contract!vars
  <2>1. CASE Timeout(w)
    BY <2>1, ReplyRefines DEF Timeout, Reply
  <2>2. CASE IoError(w)
    <3>1. w \notin made
      BY <2>2 DEF IoError, IInv, Phases
    <3> QED
      BY <2>2, <3>1, ReplyRefines DEF IoError, Reply
  <2>3. CASE Respond(w) \/ Garble(w)
    BY <2>3, ReplyRefines DEF Respond, Garble, Reply
  <2>4. CASE CheckExists(w)
    <3>1. w \notin made
      BY <2>4 DEF CheckExists, IInv, Phases
    <3> QED
      BY <2>4, <3>1, ReplyRefines, Silent DEF CheckExists, Reply, Pass, Goto
  <2>5. CASE CheckHash(w)
    <3>1. w \notin made
      BY <2>5 DEF CheckHash, IInv, Phases
    <3> QED
      BY <2>5, <3>1, ReplyRefines, Silent DEF CheckHash, Reply, Pass, Goto
  <2> QED
    BY <1>3, <2>1, <2>2, <2>3, <2>4, <2>5
<1>4. ASSUME NEW w \in Worker, Replace(w)
      PROVE  Contract!TakeEffect(w)
  BY <1>4, ChangeRefines DEF Replace, ChangeFile
<1>5. ASSUME NEW w \in Worker, Remove(w)
      PROVE  Contract!TakeEffect(w) \/ Contract!Answer(w) \/ UNCHANGED Contract!vars
  <2>1. CASE file = Absent
    <3>1. w \notin made
      BY <1>5 DEF Remove, IInv, Phases
    <3> QED
      BY <1>5, <2>1, <3>1, ReplyRefines DEF Remove, Reply
  <2>2. CASE file # Absent
    BY <1>5, <2>2, ChangeRefines DEF Remove, ChangeFile
  <2> QED
    BY <2>1, <2>2
<1>6. CASE Crash
  BY <1>6, CrashRefines DEF Contract!Next
<1>7. CASE Interfere
  BY <1>7, Silent DEF Interfere
<1>8. CASE UNCHANGED vars
  BY <1>8, Silent DEF vars
<1> QED
  BY <1>1, <1>2, <1>3, <1>4, <1>5, <1>6, <1>7, <1>8 DEF Next, Contract!Next

(* FileTools implements ToolContract: what the coordinator's model assumes *)
(* of a tool call is what the file tools do.                               *)
THEOREM KeepsContractHolds == Spec => KeepsContract
<1>1. Init => Contract!Init
  BY InitRefines
<1>2. IInv /\ [Next]_vars => [Contract!Next]_(Contract!vars)
  BY StepRefines
<1> QED
  BY <1>1, <1>2, InvHolds, PTL DEF Spec, KeepsContract, Contract!Spec

=============================================================================
