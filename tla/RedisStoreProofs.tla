--------------------------- MODULE RedisStoreProofs ---------------------------
(***************************************************************************)
(* Proofs about RedisStore, for every number of clients and steps.         *)
(***************************************************************************)
EXTENDS RedisStore, TLAPS

(* The arguments of a call of several commands are those of its kind.      *)
CallsMatch ==
  \A c \in Client :
    /\ pc[c] \in {"watch", "get", "exec"} => call[c] \in MoveCall
    /\ pc[c] \in {"store", "list"} => call[c] \in WriteCall

(* What a client has read still holds while its WATCH is unbroken.         *)
WatchHolds ==
  \A c \in Client :
    pc[c] = "exec" /\ c \notin touched => hash[call[c].step] \in call[c].move[1]

(* Without a race there is one writer at a time, and the index is behind   *)
(* only while it is about to be updated.                                   *)
IndexFollows ==
  ~raced =>
    /\ \A c, d \in Writing : c = d
    /\ \A c \in Client : pc[c] = "list" => status = call[c].status
    /\ (\A c \in Client : pc[c] # "list") => (listed <=> status \notin J!Terminal)

IInv ==
  /\ TypeOK
  /\ CallsMatch
  /\ WatchHolds
  /\ ListIsComplete
  /\ IndexFollows

USE RedisAssumption

(* What a transition expects and writes are states of an effect.           *)
LEMMA MovesType ==
  ASSUME NEW m \in J!Moves
  PROVE  m[1] \subseteq J!EffectState /\ m[2] \in J!EffectState
  BY DEF J!Moves, J!EffectState

(* The journal is empty and the saga is listed.                            *)
LEMMA InitInv == Init => IInv
<1> SUFFICES ASSUME Init PROVE IInv
  OBVIOUS
<1> USE DEF Init
<1>1. TypeOK
  <2>1. list \in Seq(Step)
    OBVIOUS
  <2>2. call \in [Client -> MoveCall \cup WriteCall \cup {NoCall}]
    OBVIOUS
  <2>3. status \in J!SagaStatus
    BY DEF J!SagaStatus
  <2> QED
    BY <2>1, <2>2, <2>3 DEF TypeOK
<1>2. CallsMatch /\ WatchHolds
  BY DEF CallsMatch, WatchHolds
<1>3. ListIsComplete
  BY DEF ListIsComplete
<1>4. IndexFollows
  BY DEF IndexFollows, Writing, J!Terminal
<1> QED
  BY <1>1, <1>2, <1>3, <1>4 DEF IInv

-----------------------------------------------------------------------------
(* A change of the state of a record breaks the other clients' WATCH, so   *)
(* that what they rely on is never out of date.                            *)
LEMMA SetStateKeeps ==
  ASSUME IInv, NEW c \in Client, NEW s \in Step, NEW new \in J!EffectState,
         SetState(c, s, new), pc'[c] = "idle",
         pc' \in [Client -> {"idle", "watch", "get", "exec", "store", "list"}],
         \A d \in Client \ {c} : pc'[d] = pc[d] /\ call'[d] = call[d]
  PROVE  /\ hash' \in [Step -> J!EffectState \cup {"ABSENT"}]
         /\ touched' \subseteq Client
         /\ WatchHolds'
<1>1. hash' \in [Step -> J!EffectState \cup {"ABSENT"}] /\ touched' \subseteq Client
  BY DEF SetState, Watching, IInv, TypeOK
<1>2. ASSUME NEW d \in Client, pc'[d] = "exec", d \notin touched'
      PROVE  hash'[call'[d].step] \in call'[d].move[1]
  <2>1. d # c /\ pc[d] = "exec" /\ call'[d] = call[d]
    BY <1>2
  <2>2. call[d].step # s /\ d \notin touched
    BY <1>2, <2>1 DEF SetState, Watching
  <2>3. call[d].step \in Step
    BY <2>1 DEF IInv, CallsMatch, MoveCall
  <2> QED
    BY <2>1, <2>2, <2>3 DEF SetState, IInv, TypeOK, WatchHolds
<1> QED
  BY <1>1, <1>2 DEF WatchHolds

(* The list is complete as long as records are only moved.                 *)
LEMMA MoveKeepsList ==
  ASSUME IInv, NEW s \in Step, hash[s] # "ABSENT", NEW new \in J!EffectState,
         hash' = [hash EXCEPT ![s] = new], UNCHANGED list
  PROVE  ListIsComplete'
  BY DEF IInv, TypeOK, ListIsComplete, J!EffectState

(* Calls that read and write no status leave the index where it is.        *)
LEMMA JournalKeepsIndex ==
  ASSUME IInv, UNCHANGED <<saga, raced>>, NEW c \in Client,
         pc[c] \notin {"store", "list"}, pc'[c] \notin {"store", "list"},
         \A d \in Client \ {c} : pc'[d] = pc[d] /\ call'[d] = call[d]
  PROVE  IndexFollows'
  BY DEF IInv, IndexFollows, Writing, saga

(* The script appends to the list the one record that it has inserted.     *)
LEMMA PrepareInv ==
  ASSUME IInv, NEW c \in Client, NEW s \in Step, Prepare(c, s) PROVE IInv'
<1> USE DEF Prepare
<1>1. "PREPARED" \in J!EffectState
  BY DEF J!EffectState
<1>2. pc \in [Client -> {"idle", "watch", "get", "exec", "store", "list"}]
  BY DEF IInv, TypeOK
<1>3. /\ hash' \in [Step -> J!EffectState \cup {"ABSENT"}]
      /\ touched' \subseteq Client
      /\ WatchHolds'
  BY <1>1, <1>2, SetStateKeeps
<1>4. TypeOK'
  BY <1>3 DEF IInv, TypeOK, saga
<1>5. CallsMatch'
  BY DEF IInv, CallsMatch
<1>6. ListIsComplete'
  <2>1. list \in Seq(Step) /\ list' = Append(list, s) /\ Len(list') = Len(list) + 1
    BY DEF IInv, TypeOK
  <2>2. hash' = [hash EXCEPT ![s] = "PREPARED"] /\ hash[s] = "ABSENT"
    BY DEF SetState
  <2>3. \A i \in 1..Len(list) : list'[i] = list[i] /\ list[i] # s
    BY <2>1, <2>2 DEF IInv, ListIsComplete
  <2>4. list'[Len(list) + 1] = s
    BY <2>1
  <2>5. \A t \in Step : hash'[t] # "ABSENT" <=> \E i \in 1..Len(list') : list'[i] = t
    BY <2>1, <2>2, <2>3, <2>4, SMTT(40) DEF IInv, TypeOK, ListIsComplete
  <2>6. \A i, j \in 1..Len(list') : list'[i] = list'[j] => i = j
    BY <2>1, <2>3, <2>4 DEF IInv, ListIsComplete
  <2> QED
    BY <2>5, <2>6 DEF ListIsComplete
<1>7. IndexFollows'
  BY JournalKeepsIndex
<1> QED
  BY <1>3, <1>4, <1>5, <1>6, <1>7 DEF IInv

(* The script moves a record that exists.                                  *)
LEMMA CommitInv ==
  ASSUME IInv, NEW c \in Client, NEW s \in Step, Commit(c, s) PROVE IInv'
<1> USE DEF Commit
<1>1. "COMMITTED" \in J!EffectState
  BY DEF J!EffectState
<1>2. pc \in [Client -> {"idle", "watch", "get", "exec", "store", "list"}]
  BY DEF IInv, TypeOK
<1>3. /\ hash' \in [Step -> J!EffectState \cup {"ABSENT"}]
      /\ touched' \subseteq Client
      /\ WatchHolds'
  BY <1>1, <1>2, SetStateKeeps
<1>4. TypeOK'
  BY <1>3 DEF IInv, TypeOK, saga
<1>5. CallsMatch'
  BY DEF IInv, CallsMatch
<1>6. ListIsComplete'
  BY <1>1, MoveKeepsList DEF SetState
<1>7. IndexFollows'
  BY JournalKeepsIndex
<1> QED
  BY <1>3, <1>4, <1>5, <1>6, <1>7 DEF IInv

-----------------------------------------------------------------------------
(* Parts of the invariant that a call leaves alone because it writes no    *)
(* record and no list.                                                     *)
LEMMA ListUnchanged ==
  ASSUME IInv, UNCHANGED <<hash, list>> PROVE ListIsComplete'
  BY DEF IInv, ListIsComplete

(* A transition is of a record that exists; it relies on nothing yet.      *)
LEMMA TransitionInv == ASSUME IInv, NEW c \in Client, Transition(c) PROVE IInv'
<1> USE DEF Transition, Goto, journal
<1>1. PICK s \in Step, m \in J!Moves :
        call' = [call EXCEPT ![c] = [step |-> s, move |-> m]]
  OBVIOUS
<1>2. [step |-> s, move |-> m] \in MoveCall
  BY DEF MoveCall
<1>3. TypeOK'
  BY <1>1, <1>2 DEF IInv, TypeOK, saga
<1>4. CallsMatch'
  BY <1>1, <1>2 DEF IInv, TypeOK, CallsMatch
<1>5. WatchHolds'
  BY <1>1 DEF IInv, TypeOK, WatchHolds
<1>6. ListIsComplete'
  BY ListUnchanged
<1>7. IndexFollows'
  <2>1. /\ pc[c] = "idle" /\ pc'[c] = "watch"
        /\ \A d \in Client \ {c} : pc'[d] = pc[d] /\ call'[d] = call[d]
    BY <1>1 DEF IInv, TypeOK
  <2> QED
    BY <2>1, JournalKeepsIndex
<1> QED
  BY <1>3, <1>4, <1>5, <1>6, <1>7 DEF IInv

(* The WATCH forgets the writes that came before it.                       *)
LEMMA WatchInv == ASSUME IInv, NEW c \in Client, Watch(c) PROVE IInv'
<1> USE DEF Watch, Goto, journal
<1>1. /\ pc[c] = "watch" /\ pc'[c] = "get"
      /\ \A d \in Client \ {c} : pc'[d] = pc[d] /\ call'[d] = call[d]
  BY DEF IInv, TypeOK
<1>2. TypeOK'
  BY DEF IInv, TypeOK, saga
<1>3. CallsMatch' /\ WatchHolds'
  BY DEF IInv, TypeOK, CallsMatch, WatchHolds
<1>4. ListIsComplete'
  BY ListUnchanged
<1>5. IndexFollows'
  BY <1>1, JournalKeepsIndex
<1> QED
  BY <1>2, <1>3, <1>4, <1>5 DEF IInv

(* What HGET has accepted is true until somebody writes the key.           *)
LEMMA GetInv == ASSUME IInv, NEW c \in Client, Get(c) PROVE IInv'
<1> USE DEF Get, Goto, Return, journal
<1>1. /\ pc[c] = "get" /\ pc'[c] \in {"exec", "idle"}
      /\ \A d \in Client \ {c} : pc'[d] = pc[d] /\ call'[d] = call[d]
  BY DEF IInv, TypeOK
<1>2. TypeOK'
  BY DEF IInv, TypeOK, saga
<1>3. CallsMatch'
  BY DEF IInv, TypeOK, CallsMatch
<1>4. WatchHolds'
  BY DEF IInv, TypeOK, WatchHolds
<1>5. ListIsComplete'
  BY ListUnchanged
<1>6. IndexFollows'
  BY <1>1, JournalKeepsIndex
<1> QED
  BY <1>2, <1>3, <1>4, <1>5, <1>6 DEF IInv

(* An EXEC whose key nobody has written finds the state that HGET          *)
(* accepted, and breaks the WATCH of the others.                           *)
LEMMA ExecInv == ASSUME IInv, NEW c \in Client, Exec(c) PROVE IInv'
<1> USE DEF Exec, Goto, Return
<1> DEFINE s == call[c].step
           m == call[c].move
<1>1. s \in Step /\ m \in J!Moves
  BY DEF IInv, CallsMatch, MoveCall
<1>2. /\ pc[c] = "exec" /\ pc'[c] \in {"watch", "idle"}
      /\ \A d \in Client \ {c} : pc'[d] = pc[d] /\ call'[d] = call[d]
      /\ pc' \in [Client -> {"idle", "watch", "get", "exec", "store", "list"}]
  BY DEF IInv, TypeOK
<1>3. CallsMatch'
  BY <1>2 DEF IInv, TypeOK, CallsMatch
<1>4. IndexFollows'
  BY <1>2, JournalKeepsIndex
<1>5. CASE c \in touched
  <2>1. TypeOK' /\ WatchHolds'
    BY <1>5 DEF IInv, TypeOK, WatchHolds, saga
  <2>2. ListIsComplete'
    BY <1>5, ListUnchanged
  <2> QED
    BY <1>3, <1>4, <2>1, <2>2 DEF IInv
<1>6. CASE c \notin touched
  <2>1. m[1] \subseteq J!EffectState /\ m[2] \in J!EffectState
    BY <1>1, MovesType
  <2>2. SetState(c, s, m[2]) /\ pc'[c] = "idle"
    BY <1>6 DEF IInv, TypeOK
  <2>3. /\ hash' \in [Step -> J!EffectState \cup {"ABSENT"}]
        /\ touched' \subseteq Client
        /\ WatchHolds'
    BY <1>1, <1>2, <2>1, <2>2, SetStateKeeps
  <2>4. hash[s] # "ABSENT"
    <3>1. hash[s] \in m[1]
      BY <1>2, <1>6 DEF IInv, WatchHolds
    <3> QED
      BY <2>1, <3>1 DEF J!EffectState
  <2>5. ListIsComplete'
    BY <1>1, <2>1, <2>2, <2>4, MoveKeepsList DEF SetState
  <2>6. TypeOK'
    BY <1>6, <2>3 DEF IInv, TypeOK, saga
  <2> QED
    BY <1>3, <1>4, <2>3, <2>5, <2>6 DEF IInv
<1> QED
  BY <1>5, <1>6

-----------------------------------------------------------------------------
(* The status calls write no record.                                       *)
LEMMA JournalUnchanged ==
  ASSUME IInv, UNCHANGED journal, touched' \subseteq touched, NEW c \in Client,
         pc'[c] # "exec", touched \ {c} \subseteq touched',
         \A d \in Client \ {c} : pc'[d] = pc[d] /\ call'[d] = call[d]
  PROVE  WatchHolds' /\ ListIsComplete'
  BY DEF IInv, WatchHolds, ListIsComplete, journal

(* A write that begins while another one is under way is a race.           *)
LEMMA ReadMetadataInv == ASSUME IInv, NEW c \in Client, ReadMetadata(c) PROVE IInv'
<1> USE DEF ReadMetadata, Goto
<1>1. PICK new \in Written, p \in BOOLEAN :
        call' = [call EXCEPT ![c] = [status |-> new, pending |-> p]]
  OBVIOUS
<1>2. [status |-> new, pending |-> p] \in WriteCall
  BY DEF WriteCall
<1>3. /\ pc[c] = "idle" /\ pc'[c] = "store"
      /\ \A d \in Client \ {c} : pc'[d] = pc[d] /\ call'[d] = call[d]
  BY <1>1 DEF IInv, TypeOK
<1>4. TypeOK'
  BY <1>1, <1>2 DEF IInv, TypeOK, saga, journal
<1>5. CallsMatch'
  BY <1>1, <1>2 DEF IInv, TypeOK, CallsMatch
<1>6. WatchHolds' /\ ListIsComplete'
  BY <1>3, JournalUnchanged
<1>7. IndexFollows'
  BY <1>3 DEF IInv, IndexFollows, Writing, saga
<1> QED
  BY <1>4, <1>5, <1>6, <1>7 DEF IInv

(* The status runs ahead of the index while its writer is at "list".       *)
LEMMA StoreStatusInv == ASSUME IInv, NEW c \in Client, StoreStatus(c) PROVE IInv'
<1> USE DEF StoreStatus, Goto
<1>1. /\ pc[c] = "store" /\ pc'[c] = "list"
      /\ \A d \in Client \ {c} : pc'[d] = pc[d] /\ call'[d] = call[d]
  BY DEF IInv, TypeOK
<1>2. call[c].status \in J!SagaStatus /\ call[c].pending \in BOOLEAN
  BY <1>1 DEF IInv, CallsMatch, WriteCall, J!SagaStatus
<1>3. TypeOK'
  BY <1>2 DEF IInv, TypeOK, journal
<1>4. CallsMatch'
  BY <1>1 DEF IInv, TypeOK, CallsMatch
<1>5. WatchHolds' /\ ListIsComplete'
  BY <1>1, JournalUnchanged
<1>6. IndexFollows'
  BY <1>1 DEF IInv, IndexFollows, Writing
<1> QED
  BY <1>3, <1>4, <1>5, <1>6 DEF IInv

(* A writer that nobody raced brings the index to the status that it wrote *)
(* itself.                                                                 *)
LEMMA UpdateIndexInv == ASSUME IInv, NEW c \in Client, UpdateIndex(c) PROVE IInv'
<1> USE DEF UpdateIndex, Goto, Return
<1>1. /\ pc[c] = "list" /\ pc'[c] = "idle"
      /\ \A d \in Client \ {c} : pc'[d] = pc[d] /\ call'[d] = call[d]
  BY DEF IInv, TypeOK
<1>2. TypeOK'
  BY DEF IInv, TypeOK, journal
<1>3. CallsMatch'
  BY <1>1 DEF IInv, TypeOK, CallsMatch
<1>4. WatchHolds' /\ ListIsComplete'
  BY <1>1, JournalUnchanged
<1>5. IndexFollows'
  BY <1>1 DEF IInv, IndexFollows, Writing
<1> QED
  BY <1>2, <1>3, <1>4, <1>5 DEF IInv

(* A writer that dies is a race; a transition that dies has done nothing.  *)
LEMMA DieInv == ASSUME IInv, NEW c \in Client, Die(c) PROVE IInv'
<1> USE DEF Die, Goto, Return
<1>1. /\ pc'[c] = "idle"
      /\ \A d \in Client \ {c} : pc'[d] = pc[d] /\ call'[d] = call[d]
  BY DEF IInv, TypeOK
<1>2. TypeOK'
  BY DEF IInv, TypeOK, journal, saga
<1>3. CallsMatch'
  BY <1>1 DEF IInv, TypeOK, CallsMatch
<1>4. WatchHolds' /\ ListIsComplete'
  BY <1>1, JournalUnchanged
<1>5. IndexFollows'
  BY <1>1 DEF IInv, IndexFollows, Writing, saga
<1> QED
  BY <1>2, <1>3, <1>4, <1>5 DEF IInv

-----------------------------------------------------------------------------
(* IInv is inductive.                                                      *)
LEMMA StepInv == IInv /\ [Next]_vars => IInv'
<1> SUFFICES ASSUME IInv, [Next]_vars PROVE IInv'
  OBVIOUS
<1>1. CASE UNCHANGED vars
  BY <1>1 DEF vars, journal, saga, IInv, TypeOK, CallsMatch, WatchHolds,
              ListIsComplete, IndexFollows, Writing
<1>2. CASE Next
  BY <1>2, PrepareInv, CommitInv, TransitionInv, WatchInv, GetInv, ExecInv,
     ReadMetadataInv, StoreStatusInv, UpdateIndexInv, DieInv DEF Next, Progress
<1> QED
  BY <1>1, <1>2

(* The watched states, the list and the index are right in every reachable *)
(* state of the Redis backend.                                             *)
THEOREM InvHolds == Spec => []IInv
<1>1. Init => IInv
  BY InitInv
<1>2. IInv /\ [Next]_vars => IInv'
  BY StepInv
<1> QED
  BY <1>1, <1>2, PTL DEF Spec

(* Type correctness of the keys in Redis and of the clients' calls.        *)
THEOREM TypeCorrect == Spec => []TypeOK
<1>1. IInv => TypeOK
  BY DEF IInv
<1> QED
  BY <1>1, InvHolds, PTL

(* The list that recovery reads names every journal record once, however   *)
(* many clients insert records at once.                                    *)
THEOREM ListIsCompleteHolds == Spec => []ListIsComplete
<1>1. IInv => ListIsComplete
  BY DEF IInv
<1> QED
  BY <1>1, InvHolds, PTL

(* The index of incomplete sagas agrees with the status as long as writes  *)
(* neither overlap nor are cut short.                                      *)
THEOREM IndexAgreesHolds == Spec => []IndexAgrees
<1>1. IInv => IndexAgrees
  BY DEF IInv, IndexFollows, IndexAgrees, Writing
<1> QED
  BY <1>1, InvHolds, PTL

-----------------------------------------------------------------------------
(***************************************************************************)
(* The refinement of EffectJournal.                                        *)
(***************************************************************************)

(* Every command is one call of the atomic journal, or changes nothing of  *)
(* it.                                                                     *)
LEMMA StepRefines == IInv /\ [Next]_vars => [J!JournalStep]_(J!journalVars)
<1> SUFFICES ASSUME IInv, [Next]_vars
             PROVE  J!JournalStep \/ UNCHANGED J!journalVars
  OBVIOUS
<1>1. ASSUME NEW c \in Client, NEW s \in Step, Prepare(c, s)
      PROVE  J!JournalStep
  BY <1>1 DEF Prepare, SetState, saga, J!JournalStep, J!PrepareEffect
<1>2. ASSUME NEW c \in Client, NEW s \in Step, Commit(c, s)
      PROVE  J!JournalStep
  <2>1. idem' = idem \cup ({KeyOf[s]} \ {NoKey})
    BY <1>2 DEF Commit
  <2> QED
    BY <1>2, <2>1 DEF Commit, SetState, saga, J!JournalStep, J!CanMove, J!PublishCommit
<1>3. ASSUME NEW c \in Client, Exec(c)
      PROVE  J!JournalStep \/ UNCHANGED J!journalVars
  <2>1. CASE c \in touched
    BY <1>3, <2>1 DEF Exec, J!journalVars
  <2>2. CASE c \notin touched
    <3> DEFINE s == call[c].step
               m == call[c].move
    <3>1. s \in Step /\ m \in J!Moves
      BY <1>3 DEF Exec, IInv, CallsMatch, MoveCall
    <3>2. J!CanMove(s, m[1])
      BY <1>3, <2>2 DEF Exec, IInv, WatchHolds, J!CanMove
    <3>3. J!MoveEffect(s, m[2])
      BY <1>3, <2>2 DEF Exec, SetState, saga, J!MoveEffect
    <3> QED
      BY <3>1, <3>2, <3>3 DEF J!JournalStep
  <2> QED
    BY <2>1, <2>2
<1>4. ASSUME NEW c \in Client,
             \/ Transition(c) \/ Watch(c) \/ Get(c) \/ ReadMetadata(c)
             \/ StoreStatus(c) \/ UpdateIndex(c) \/ Die(c)
      PROVE  UNCHANGED J!journalVars
  BY <1>4 DEF Transition, Watch, Get, ReadMetadata, StoreStatus, UpdateIndex,
              Die, journal, J!journalVars
<1>5. CASE UNCHANGED vars
  BY <1>5 DEF vars, journal, J!journalVars
<1> QED
  BY <1>1, <1>2, <1>3, <1>4, <1>5 DEF Next, Progress

(* Every WATCH transaction is one atomic compare-and-set: the journal of   *)
(* Redis implements the journal that the coordinator's model uses.         *)
THEOREM ImplementsJournalHolds == Spec => ImplementsJournal
<1>1. Init => hash = [s \in Step |-> "ABSENT"] /\ list = <<>> /\ idem = {}
  BY DEF Init
<1>2. IInv /\ [Next]_vars => [J!JournalStep]_(J!journalVars)
  BY StepRefines
<1> QED
  BY <1>1, <1>2, InvHolds, PTL DEF Spec, ImplementsJournal, J!JournalSpec

=============================================================================
