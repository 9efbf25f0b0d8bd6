# SagaMind in TLA+

SagaMind runs sequences of tool calls ("steps") of AI agents as sagas: every
step carries a compensation, every call is journaled before it is made, and a
failure or a crash is answered by compensating what was done, last in first
out. In front of a call stand gates that admit it, beside the sagas an episodic
memory that forgets and condenses what the agents did. This directory models the
parts that have to be right for that to mean anything: the saga coordinator over
its durable store, its other fronts, the Redis backend of that store command by
command, the file tools with their contracts, the gates with the compensation
contracts, and the memory. TLC checks them on small instances, and TLAPS proves
their safety properties and refinements for every instance, under the conditions
that section 7 names; liveness is checked only. Sources are cited as in the
repository (`src/orchestrator/coordinator.py`, `docs/...`).

## 1. The system and its parts

| Part | State it keeps | Operations | What makes it correct |
|---|---|---|---|
| Saga coordinator, `orchestrator/coordinator.py` | `active_sagas`: status, completed and pending steps of each live saga | start, execute_saga, resume_after_approval, reject_pending, execute_compensations, recover | no effect twice, none without a journal entry, none forgotten; compensation in reverse order; a verdict that agrees with the world |
| Saga store, `orchestrator/state_store.py` | saga status and metadata, effect journal, idempotency keys, dead letters, audit log; on PostgreSQL, Redis or in memory | prepare_effect, transition_effect, commit_effect, write_transaction_state, push_dead_letter, list_incomplete | a transition is an atomic compare-and-set; a key is published exactly with its commit |
| REST API, `main.py` | none of its own for sagas | /saga/start, step, approve, reject, status; the lifespan calls recover | reports what is durable |
| gRPC server, `grpc_server.py` | a coordinator of its own | StartSaga, SubmitStep, StreamSteps; recovers when it starts | what it recovers may be running elsewhere: no tool may be called twice for it |
| Temporal activity, `orchestrator/temporal_worker.py` | none, a new coordinator per attempt | execute_saga_activity | an attempt that is repeated repeats no effect |
| Sandbox and tools, `orchestrator/sandbox.py` | registry, workspace files | register, validate, execute, execute_compensation | a file changes only from the content that its preimage was taken from; a tool that needs a proof is registered with one |
| Compensation contracts, `contracts/` | none | verify | a certificate says "proved" exactly of what can be undone |
| Typed policy and SMT gate, `policy.py`, `verifier/` | none | require, verify, verify_detailed | no call is admitted that breaks a rule |
| Speculative drafts, `speculative/orchestrator.py` | drafts of the process | validate drafts, choose a winner | the first valid draft wins |
| Episodic memory, `memory/` | memories with their reinforcement, concept graph | write, read and mark, forget, consolidate | reads that overlap lose no reinforcement; what is forgotten stays so; the graph tells of similar memories only; clusters are those of the definition |
| Security, configuration, metrics | rate-limit windows, counters | allow, contain_path | paths stay in the workspace; no more than the limit in any window |

How they interact: the endpoints of the API run in a thread pool and call one
shared coordinator; the coordinator calls the verifier, the sandbox and the
store. There is no lock in the coordinator. The only mutual exclusion between
two requests is the compare-and-set of the journal. After a crash the lifespan
calls `recover`, which reads every saga whose durable status is not terminal and
walks its journal backwards. The gRPC server and the Temporal worker are
processes of their own over the same store. Memory endpoints run in the same
thread pool over a store of their own, with consolidation in background threads.

What is hard: requests on one saga interleave at every call; the process may
stop between any two writes, in recovery too; a tool call that raises or times
out may or may not have taken effect; the status in memory and the status in
the store are separate writes; an idempotency key is checked long before it is
published; another process recovers what is alive; reads of the memory reinforce
what they return, in statements of their own. `PROJECT.json` lists each such
hazard at its line.

## 2. Modules

| Module | Content |
|---|---|
| `EffectJournal` | The durable store of one saga; one operator per store call. |
| `SagaState` | The variables of one saga in one process, `TypeOK`, `Init`. |
| `SagaRequests` | The actions of request threads. |
| `SagaRecovery` | Crash, restart and the actions of `recover`. |
| `SagaCoordinator` | `Next`, `Spec`, `FairSpec`, and all properties of a saga. |
| `SagaFronts` | The gRPC server that recovers over a live store (`PeerSpec`), and the Temporal activity that is run again (`ActivitySpec`). |
| `SagaOutcome` | The abstract saga: a set of effects and a verdict. |
| `SagaInvariant` | The inductive invariants `SafeInv`, `WorldInv`, `SerialInv`, `LifoInv`, `BatchInv`, `FlagOK`. |
| `SagaCoordinatorProofs` | `SafeInv` is inductive, and what follows; the other fronts. |
| `SagaWorldProofs` | The journal and the world; runs without crashes; one batch with crashes anywhere, which implements `SagaOutcome`. |
| `RedisStore`, `RedisStoreProofs` | The Redis backend of the store, one action per command; it implements the journal of `EffectJournal`. |
| `FileTools`, `FileToolsProofs` | WRITE_FILE, DELETE_FILE and RESTORE_FILE on one path: the derived contract and the worker processes. |
| `ToolContract` | What the coordinator assumes of tool calls; `FileTools` implements it. |
| `Contracts` | The language of compensation contracts and the bounded verifier, as operators. |
| `ToolGate` | Registration, typed policy, SMT gate, capabilities, calls that are admitted and their rollback by contract. |
| `Speculation` | Drafts of several requests before the gate of `ToolGate`. |
| `ContractProofs` | The bounded verifier: type soundness of its language, and the truth of its certificates. |
| `GateProofs` | Proofs about the gate, its calls, their rollback, and drafts. |
| `Clustering`, `ClusteringProofs` | The clustering of a sleep cycle turn by turn, and the definition of density-based clusters; the one finds those of the other. |
| `EpisodicMemory`, `EpisodicMemoryProofs` | The memory table, reads, time, background jobs and the concept graph. |
| `MCSaga`, `MCRedis`, `MCFiles`, `MCGate`, `MCMemory` and the `.cfg` files | The instances that TLC checks. |

How they compose. `SagaCoordinator` is built on `EffectJournal`, whose operators
are atomic, and on the four outcomes of a tool call. `RedisStore` shows that the
Redis commands amount to the atomic operators, and `FileTools` that the file
tools have no other outcomes than those of `ToolContract`: each of the two is a
refinement, checked by TLC (`ImplementsJournal`, `KeepsContract`) and proved.
`SagaFronts` takes the actions of requests and recovery as they are and puts
them into other processes. `ToolGate` is what `RejectStep` of `SagaRequests`
leaves open: which calls are turned away. `Speculation` extends `ToolGate` with
the drafts whose winner is such a call, and `EpisodicMemory` extends
`Clustering` with the jobs that run it.

Correspondence of state. `effect[s]` and `order` are the rows of
`saga_effect_journal` and their `seq`; `idem` is `saga_step_idempotency`;
`status` and `held` are the status of `saga_transactions` and
`metadata.pending_steps`; `dead` is `saga_dead_letters`, reduced to the steps
they name. `known`, `memStatus`, `completed`, `pending` and `approved` are the
`SagaTransaction` in `active_sagas`. `pc`, `todo`, `cursor` and `doubt` are the
locals of a request: where it is, the steps it has still to execute, its
`reversed(completed_steps)` iterator and `execution_ambiguous`. `rpc`, `rcur`
and `snap` are the locals of `recover`: `snap` is the copy that `list_incomplete`
returned. `hits[s]` and `undos[s]` count what happened outside: how often the
effect and the compensation of `s` took place. No code reads them; the
properties compare the journal with them.

Correspondence of actions. One action is one call that leaves the thread (a store
call, a tool call) or one write of the shared transaction. A step passes through
`check` (idempotency key, verifier, preflight, approval), `Prepare`,
`MarkExecuting`, `Execute`, `RecordApplied` or `RecordAborted`,
`AppendCompleted`, `CommitStep`; `FinishSteps` and `Finish` are the end of
`execute_saga`. Every exception of `execute_saga` leads to `Rollback` and the
loop `PickEffect`, `MarkCompensating`, `Undo`, `RecordCompensated`, and from
there to `Close` or to `Fail` ... `FailDead`
(`_handle_compensation_failure`); an effect in doubt is then marked by
`MarkAmbiguous` ... `AmbiguousDead`. An approval is `Approve`, `ReadPending`,
`TakePending` and `Resume`: the pending list is checked, read, and emptied in
three steps, between which another request may change it. A lost compare-and-set is a branch of the
action that makes it, and does what the exception does there.

`RedisStore`. Redis runs one command, script or EXEC at a time, so that is an
action. `hash`, `list`, `idem` are the keys of one saga's journal; `status`,
`pending` and `listed` are its hash and its membership in `sagas:incomplete`.
`Prepare` and `Commit` are scripts; `Watch`, `Get`, `Exec` are a round of the
loop of `_redis_transition_effect`, with `touched` for the keys that were written
under a WATCH; `ReadMetadata`, `StoreStatus`, `UpdateIndex` are the three
commands of `write_transaction_state`. `Die` ends a client between two commands.
The history variable `raced` says that a status write overlapped another one or
was cut short.

`FileTools`. `file` is the content of the path. `Probe` and `Capture` are
`is_file` and `read_text` of `_derive_file_contract`, which fix `Expected` and
`Goal` of a step and of its compensation. A worker goes from `CheckExists` and
`CheckHash` (`_check_file_precondition`) to `WriteTemp` and `Replace`
(`_handle_write_file`) or to `LookForFile` and `Remove` (`_handle_delete_file`);
`IoError`, `Respond`, `Garble` (a response that is too long, comes with an exit
code or is no JSON) and `Timeout` are the ways in which the call returns, `Crash`
the death of the process that waits for it. `Interfere` is any other
program. The history variables `made`, `displaced` and `raced` record which
workers changed the file, what they found, and who was overtaken between check
and change.

`SagaFronts`. `PeerStart` is `serve` of the gRPC server: it begins `recover`
beside the threads of the API, over the journal of `EffectJournal` but not over
the memory of that process (`PeerRestores` puts a waiting saga into the memory
of the server only). `Attempt` is `execute_saga_activity`, which makes a new
coordinator, calls `start_transaction_log` and `execute_saga` with the same
steps each time; `Redeliver` is Temporal giving the task to another worker.

`Contracts` and `ToolGate`. `Certificate` is `verify`: the static checks
(`Validation`), the domains, the product of cases in order, the first case that
fails. `Register` is `ToolRegistry.register` with its checks
(`RegistrationOK`); `Call` is the way of a call through `verify` of the SMT
gate, the policy (`PolicyAnswers`, `TypedAnswer`) and the capabilities, and its
run when the tool has a contract; `Undo` is one compensation of the rollback,
and `Answered` the return to the caller. `log` is the saga's list of completed
calls with their inputs and the state before each. `Speculation` has one client
per request: `Ask` validates its drafts, `Judge` is the answer of one
validation thread, `Choose` takes the winner and invalidates the drafts of the
process.

`EpisodicMemory`. `rows` is the table (or the list) of memories with retrieval
count and time of last retrieval. `Ingest` is `write_episodic_memory`; `Select`,
`BeginMark`, `MarkItem` or `MarkRows`, and `AnswerRead` are
`retrieve_active_memories` with `mark_retrieved`; `Tick` is time. A job is
queued by the endpoint (`Queue`) or by the scheduler for all tenants
(`Schedule`); `Fetch`, `Measure`, `Search`, `Found`, `Label`, `LlmAnswers`, `LlmTimesOut`,
`LlmReturns`, `Upsert`, `EndCycle`, `EndJob` are the steps of
`run_consolidation_cycle`. The history variables `created` and `told` record
which memories were acknowledged and how often an answer has listed one.

Definitions whose comment says "a mutant of" are not part of the specification;
each is a plausible error in the code, and serves to show that a property would
notice it.

## 3. What is abstracted, and what is assumed

* One saga. Every store operation is keyed by `saga_id`; sagas share only the
  connection pool and the order in which `recover` visits them.
* The store is durable, available and atomic per call. Exceptions of the store
  other than `JournalConflictError` are not modelled, and neither is
  `record_step`, an audit log that no code reads back to decide anything.
  `WriteStatus` is the single PostgreSQL statement; what the Redis backend makes
  of it is in `RedisStore` and under Observations.
* The verifier and `validate` may reject any step (`RejectStep`).
* A tool call has four outcomes: `ok`, `failed` (reported, no effect), `raised`
  (exception, no effect), `lost` (exception, effect took place). A compensation
  returns `ok`, or False without (`failed`) or with (`lost`) its effect.
* The three recovery hooks are optional methods of a sandbox (`hook`).
  `resolve_effect` and `resolve_compensation` tell the truth or fail;
  `execute_idempotent` runs the tool under its key, so that the effect is there
  once. The reference sandbox has none of them (`hook = "none"`).
* A resubmitted batch carries the same steps, with their `approved` flags, as a
  caller of the library or of Temporal does. The REST API makes a new step of
  each request.
* A recovery that raises leaves the application serving, which is what the
  lifespan does unless `require_backends` or production is set.
* `RedisStore` leaves out the contents of a record, its `seq`, which nothing
  reads (`get_effects` orders by the list), and the reading back of a record
  after each write.
* `FileTools` takes SHA-256 to be free of collisions, so that a hash is the
  content. `TextOf` is `read_text` followed by `encode`: it changes line ends.
  `Capture` may refuse any file, which stands for one that cannot be read, is not
  UTF-8 or is too large. Paths and validation of arguments are left out;
  directories and links are no files.
* Not modelled of the coordinator: eviction of old sagas, and the code path for
  stores without a journal.
* `SagaFronts` takes the start of the gRPC server for the only thing it adds: its
  calls are requests like those of the API. Each start counts against `MaxCrash`.
* In `Contracts` a scalar is its Python type and a whole number: a real has an
  integral value, a string is its place in the alphabetical order. Integers are
  exact. The floats are the set `Float`: arithmetic on them gives the nearest one
  (`Rounded`; which of two at the same distance is open), an infinite one from
  `FloatLimit` on, or nan. An integer that meets a float is converted first
  (`AsFloat`), and one that is too large raises OverflowError, on which `verify`
  answers INVALID (`verifier.py:186`). Comparisons of an integer with a float
  are exact, as in Python. Left out are fractions, literals and domains that are
  not finite, and integers of more than 4300 digits, which fail in the writing
  of the certificate. Repair constraints are left out too, except that the search
  for them evaluates items that the condition did not reach, and may raise
  (`Hints`). In `ToolGate`
  the number of a string is its length, negative if it is a path that leads out
  of the workspace (`contain_path`). SMT texts are sequences of the comparisons
  of the contract language, and the solver decides them or times out; models,
  and the repair hints read from them, are left out, except that a hint may
  raise (`HintsRaise`).
* `world` of `ToolGate` is what a contract speaks of; that the implementation of
  a tool does what its contract says is what the contract's identity claims and
  no code checks.
* `EpisodicMemory` takes the formula of `decay.py` as the constant `Lifetime`:
  how long after its n-th retrieval a memory of some importance stays at or above
  the threshold, whole hours here. Embeddings are vectors of whole numbers, so
  that the cosine is compared without roots. Which active memories are on a page
  is open, since query, limit and offset decide it. The concept graph is a set of
  edges without weights.
* In the list in memory the increment of a count is one step, since the
  interpreter lock is not released within it; two marks of one read are two
  steps. On PostgreSQL a mark is one UPDATE, which writes its own time; in
  memory the time is taken before the list is walked (`MarkTime`).
* A call of Neo4j may fail before or after its effect; it is repeated
  (`Attempts`), then logged and given up.

## 4. Properties

| Property | Says |
|---|---|
| `AtMostOnce` | The effect of a step takes place at most once. |
| `IntentBeforeEffect` | Nothing happens outside before the journal says that it may. |
| `JournalMatchesWorld` | A journal state that claims an outcome is right. |
| `LifoCompensation` | A step is compensated only when no later one has a compensation to run. |
| `RolledBackMeansUndone` | At rest, ROLLED_BACK leaves no effect that no dead letter names. |
| `FlaggedIsReported` | At rest, COMPENSATION_FAILED has a dead letter. |
| `NoOrphan` | At rest, every effect in place is accounted for by a verdict or a dead letter. |
| `SafeInv` | The inductive invariant of section 7. |
| `RollbackEnds`, `CallsResolve` | A rollback ends; a call does not stay EXECUTING for ever. |
| `ImplementsOutcome` | The coordinator implements `SagaOutcome`. |
| `ImplementsJournal` | The Redis commands amount to the atomic journal. |
| `ListIsComplete` | The list of effects names every record exactly once. |
| `IndexAgrees` | Status writes that are alone leave the index of incomplete sagas right. |
| `TransitionReturns` | The retry loop of a transition ends. |
| `KeepsContract` | The file tools implement `ToolContract`. |
| `AnswerIsTrue` | What the coordinator is told of a call is so. |
| `UnracedIsExact` | Nobody in between: a call displaced exactly what its contract names. |
| `TempIsOwned` | Only a killed worker leaves its temporary file behind. |
| `CallReturns` | A call whose caller survives returns. |
| `CertificateIsTrue` | A certificate says "proved" exactly of the finite contracts that are reversible in every admissible case; a rejection shows a case that is not. |
| `OnlyOverflowFails` | The static types of the contract language are sound: a validated contract fails in no case by a type, and by OverflowError only if it computes with reals. |
| `AdmittedConforms` | An admitted call keeps every rule, stays within its grants and satisfies its texts, as far as there is a solver. |
| `RollbackRestores` | Proofs of single tools add up: undoing calls last in first out gives each what its contract promises, if the later ones restore everything. |
| `FirstValidWins` | The first valid draft wins, in whatever order validations end, until another request has chosen. |
| `AnswersAreTrue` | In memory and in a strict deployment, what is acknowledged is stored, and no reinforcement is lost or reported that did not happen. |
| `ForgottenForGood` | A faded memory stays so, unless a read that chose it while it was active is under way. |
| `ClustersAreDense` | The clusters found turn by turn are those of the definition. |
| `GraphIsEarned` | Edges tell only of similar memories of one tenant; a cycle without a call given up relates all of them. |
| `JobsEnd` | Every background job ends, if every call of the LLM does. |
| `CommittedMeansDone`, `CompensateOnce`, `StaleMeansChanged` | See the divergences below. |

The type invariants (`TypeOK`) also say what ties the state together: that a tool
that requires a certificate is registered with a proved one of its own contract
only, that a read has seen stored memories only.

`SagaOutcome` is what a client is promised. Effects appear and disappear only
while the saga is open; "committed" is said only when every step, or another one
with its key, is in effect; "undone" only when nothing is; a verdict is final.
The refinement maps `live` to the effects that took place and were never
compensated, and `verdict` to the durable status.

`ToolContract` says that an error never hides an effect, and that the effect of a
call that has returned is settled; the one exception is the call whose caller
died, since its worker process goes on ("abandoned"). Recovery can therefore
look at a file before the worker of the crashed process has replaced it. The
reference sandbox has no recovery hook and its interrupted calls become
AMBIGUOUS, which is right; the assumption that a `resolve_effect` tells the truth
is one that a hook over these tools would have to earn by waiting for the worker.

`TransitionReturns` is not a matter of course: the loop has no bound, and ends
because the moves of an effect form no cycle, so that other clients run out of
writes that break its WATCH.

The definitions of section "for comparison" in `Clustering`, `Reversible` and
`Conforms` in `ToolGate` are written without the loops, orders and early returns
of the code that they judge.

## 5. Runs

| Run | Instance | Distinct states | Result |
|---|---|---|---|
| `core_serial` | 1 thread, batches <<a>>, <<b,c>>, <<a,b,c>>, two keys, b needs approval, all outcomes, no crash | 14 358 | holds |
| `core_crash` | 1 thread, batch <<a,b,c,d>>, d repeats the key of a, b needs approval, calls succeed or fail, compensations also succeed without saying so, 2 crashes, all hooks | 7 418 | holds |
| `core_threads` | 2 threads, batches <<a,b>> and <<b>>, b needs approval and has a key, all outcomes, 1 crash, all hooks | 3 272 926 | holds |
| `shared_store` | 1 thread, batches as before, all outcomes, a second process that recovers once, at any time, with and without resolve_effect | 101 817 | holds |
| `redis_store` | 2 clients, one step with a key, statuses RUNNING, AWAITING_APPROVAL, COMMITTED, any deaths | 413 988 | holds |
| `file_tools` | a write, a delete, two compensations of the write, two contents with the same text, 1 change by another program | 348 595 | holds |
| `gate` | 16 malformed contracts and 20 over reals one by one; 108 contracts (sums, products, overwriting), each with each of 18, on 6 states; 16 tools with policies, calls with every kind of argument, with and without a solver; 2 requests with drafts | 274 627 | holds |
| `memory` | two overlapping reads over 2 memories and 2 hours on each deployment; cycles over a chain, two pairs, two tenants, a Neo4j that fails, an LLM | 66 721 | holds |
| `rest_crash` | 1 thread, batches <<a>> and <<b>>, every call succeeds, 1 crash | | `CommittedMeansDone` fails |
| `undo_race` | 2 threads, batches <<a,b>> and <<b>> | | `CompensateOnce` fails |
| `temporal_retry` | the activity, batch <<a,b>>, 1 crash | | `RolledBackMeansUndone` fails |
| `file_newlines` | as `file_tools` | | `StaleMeansChanged` fails |

Why these bounds. Three steps are the fewest for which an order of compensations
can be wrong in the middle; the fourth of `core_crash` adds a repeated key. Two
threads are the fewest that race for a journal record, and the properties of
`core_threads` speak of one step at a time; their proofs are for any number. Two
crashes are the fewest that interrupt a recovery and let the next one read what
it left (`RecoverKeepFailed` and an AMBIGUOUS record need that). Batches overlap
so that resubmission, skipping by key and a second rollback over COMPENSATED
records happen.

Two clients are the fewest that race for a WATCH or for the status, and every
record is its own key, so one step is enough for the journal; the proofs are for
any number. A write and a delete by one path, with a compensation that is called
twice, are the fewest workers for which one's change is another one's stale
check; one change by another program is enough to come between any two of their
calls. Two contents with the same text are what tells `read_text` from the
bytes.

In `gate` a pair of calls is the fewest for which the compensation of the first
sees what the second left; two variables of three and two values and one input
let a contract restore one and lose the other, and `MaxCases` is 12, so that the
contract with range 0..7 is beyond the verifier. Arguments lie below, on, between
and above the bounds of their rules and are of every type. Two requests are the
fewest of which one can discard the other's drafts.

In `memory` two readers and two jobs are the fewest that overlap. Two hours let a
memory fade between the choice and the mark of a read. In the chain of three
memories the ends are not similar, so that the cluster must grow from a point in
the queue; the fourth, without an embedding, is noise; two pairs make two
clusters. `MinSamples` is 2, the only value that sleep cycles use
(`experiments/evaluate.py` calls `_cluster` with 3, for which there would be
border points).

Why `core_crash` leaves out `raised` and `lost`. With them, a crash between
ROLLED_BACK and AMBIGUOUS is possible, and `NoOrphan`, `CallsResolve` and
`ImplementsOutcome` fail by it (see Observations). Doubt without a crash is in
`core_serial`, doubt after a crash in recovery is in `core_crash` (a crash while
`Execute` is under way leaves the same EXECUTING record), and both together are
in `core_threads`. `ImplementsOutcome` is for one batch at a time: a second batch
writes COMMITTED over an earlier verdict, which docs/03 describes as how the REST
API behaves.

Why `shared_store` leaves out `execute_idempotent`. A server whose sandbox has
it runs the tool of a live saga again under the tool's key, and whether the
effect takes place twice is then up to the tool. The other properties of one
process do not hold there: the rollback of a saga that is alive is what the code
does.

Deadlock is not checked: a saga whose clients ask for nothing more stops, and so
do the instances of the other modules when their budgets are spent.

Fairness (`FairSpec`). A request that has begun goes on (`WF` on `Work(t)`, one
thread of the pool each), recovery goes on, and a process that is down is
restarted. Weak fairness is enough since each of these stays enabled until it is
taken. Nothing is assumed of clients: requests, approvals and rejections may
never come. A crash is never owed. In `RedisStore` a client that does not die goes on
(`WF` on `Progress(c)`). In `FileTools` nothing is owed but the timeout of
`subprocess.run`, since a worker may hang in any call. In `EpisodicMemory` a
background job goes on and the timeout of an LLM call is kept (`FairSpec`);
`PatientSpec` adds that every call of the LLM returns some time, which the code
does not enforce, and without which `JobsEnd` fails.

## 6. Where code and documents disagree

1. `rest_crash`. A request ends by writing COMMITTED and the next one does not
   write RUNNING. A saga that is fed one step per request runs its second step
   under a terminal status, and a crash there is invisible to `list_incomplete`:
   its effect stays EXECUTING or APPLIED for ever. In the run every call succeeds,
   so that no other window is open.
2. `undo_race`. Two rollbacks of one saga run the same compensation, since
   COMPENSATING is taken for an interrupted one.
3. `temporal_retry`. Each attempt of the Temporal activity starts with an empty
   list of completed steps and never recovers. The second attempt finds a record
   that is no longer PREPARED, rolls back nothing and writes ROLLED_BACK over the
   effect of the first.
4. `file_newlines`. The contract of a file step is derived from the file as text,
   with CRLF read as LF, and checked against its bytes. A step on a file with
   CRLF line ends always fails, with a message that the content has changed.

### Observations

What else was met while modelling. Each is what the models do too; none has a run
of its own.

* `coordinator.py:588`. `execute_compensations` writes ROLLED_BACK before its
  caller marks the effect in doubt and pushes the dead letter. A crash in between
  leaves EXECUTING in a saga that recovery passes over, and
  `RolledBackMeansUndone` fails. At line 742 the same window lies between
  COMPENSATION_FAILED and its dead letter, and `FlaggedIsReported` fails as soon
  as crashes are allowed.
* `coordinator.py:603`. After an effect in doubt the store says
  COMPENSATION_FAILED and the status endpoint ROLLED_BACK.
* `coordinator.py:267`. Recovery takes a published key as the outcome of an
  interrupted step, also when another step published it. This is why
  `JournalMatchesWorld` is stated where no two steps share a key.
* `coordinator.py:96`. An approval is restored without a look at the journal,
  which may hold an EXECUTING effect of a request that ran meanwhile.
* `coordinator.py:245`. A conflict in `recover` leaves it by an exception; the
  sagas behind this one are not recovered in this start.
* `coordinator.py:631-633`. Two approvals that run at once may both pass the
  check of line 629. The second finds the list emptied and ends with an
  IndexError (`TakeNothing`), or takes what was put there since.
* `coordinator.py:366`. Eviction drops COMMITTED sagas from memory although the
  API may still add a step to them.
* `coordinator.py:427`. The key of a step is looked up long before it is
  published; two steps with one key that run at once both take place.
* `state_store.py:248`. On Redis the status and the index of incomplete sagas are
  written by two commands. A saga whose last request has committed and whose next
  step awaits its approval can be left out of the index, by the death of its
  writer or by a late SREM of the committed request, and `list_incomplete`
  (959-961) does not find it. `IndexAgrees` says when that cannot happen.
* `state_store.py:153`. A connection pool that is exhausted is replaced.
* `main.py:590`. The reject endpoint answers ROLLED_BACK also when a compensation
  failed.
* `sandbox.py:123-130`. A tool that is registered again without a compensation
  contract keeps the entry of its predecessor in `_comp_tools`.
* `verifier/z3_prover.py:262`, `280`. Repair hints are wrong under a negation, and
  raise for an equation with true or false, so that a rejection becomes an
  exception (`HintsRaise`).
* `contracts/verifier.py:363-368`. A contract over reals may pass validation and
  fail in a case all the same, when an integer is too large for a float; line 186
  makes it INVALID with "Contract evaluation failed". An `all` or `any` that
  stops before such an item hides it from the verdict, but the search for hints
  (551-558) goes on to it, and turns REJECTED into INVALID.
* `contracts/verifier.py:437`. 1 and 1.0 are equal to every condition, yet
  arithmetic on them differs once results exceed the floats that are exact. A
  proof that a real has its original value back is therefore no proof that a
  compensation computed from it finds what it expects, and `RollbackRestores`
  asks that the later calls have no reals (`Pins`).
* `speculative/orchestrator.py:88-90`. The choice of a winner discards the drafts
  of every request of the process, which then finds none valid; lines 5-7 speak of
  the drafts of one task. `active_sandboxes` never shrinks.
* `memory/consolidation.py:111`. The executor that bounds an LLM call by a timeout
  waits for its thread when the `with` block is left, so a call that hangs stalls
  the cycle; lines 103-104 say that it cannot.
* `security.py:81`. The rate limiter reads the time before it takes its lock.
* `docs/05-memory-system.md:91` and `:127` describe an earlier state of the code.

## 7. Proofs

For every set of threads, steps, keys and batches, every sandbox and every
`MaxCrash`, except as stated:

| Theorem | Statement |
|---|---|
| `SafeInvHolds` | `Spec => []SafeInv` |
| `TypeCorrect` | `Spec => []TypeOK` |
| `AtMostOnceHolds` | `Spec => []AtMostOnce` |
| `IntentHolds` | `Spec => []IntentBeforeEffect` |
| `JournalHolds` | `Spec => []JournalMatchesWorld`, if no two steps share a key |
| `FlaggedHolds` | `Spec => []FlaggedIsReported`, if `MaxCrash = 0` |
| `RolledBackHolds` | `Spec => []RolledBackMeansUndone`, if there is one thread and `MaxCrash = 0` |
| `NoOrphanHolds` | `Spec => []NoOrphan`, under the same assumptions |
| `LifoHolds` | `Spec => LifoCompensation`, under the same assumptions |
| `OutcomeHolds` | `Spec => ImplementsOutcome`, for one batch on one thread, with any number of crashes |
| `BatchNoOrphan`, `BatchLifo` | `Spec => []NoOrphan`, `Spec => LifoCompensation`, likewise |
| `BatchRolledBack` | `Spec => []RolledBackMeansUndone`, and no effect at all is in place, likewise |
| `BatchJournal` | `Spec => []JournalMatchesWorld`, likewise, for keys shared at will |
| `PeerAtMostOnce`, `PeerIntent` | `PeerSpec => []AtMostOnce`, `PeerSpec => []IntentBeforeEffect`, if no sandbox has execute_idempotent |
| `RetriedAtMostOnce` | `ActivitySpec => []AtMostOnce` |

They rest on `KeyAssumption` and `CoordinatorAssumption`, which TLC evaluates on
every instance, and on the conditions named. "One batch on one thread" is:
`Thread = {t}`, `Batch = {b}` where `b` holds every step once (`Whole`), and tools
that report what they did (`ToolOutcome \subseteq {"ok", "failed"}`); hooks,
approvals, keys, rejections, compensations that fail or go unreported and the
number of crashes are free. `core_crash` is such an instance.

The conditions are necessary, and TLC has a counterexample for each. With a
shared key, or with a crash, there are those of section 6. With two threads in
the instance of `undo_race`, `RolledBackMeansUndone` and `NoOrphan` are violated
too, since one request writes its verdict while another is at work. With a second
batch and a crash `NoOrphan` fails: when the second batch runs while the first
waits for an approval, recovery takes the saga for one that waits, restores it,
and leaves an interrupted call of the second batch as it is. With a tool that
raises, or whose answer is lost, `ImplementsOutcome` fails: the rollback writes
ROLLED_BACK before it marks the effect AMBIGUOUS, and a crash in between leaves
an effect in place under that verdict.

For every set of clients, steps and keys (`RedisAssumption`), for every set
of steps, contents and workers (`FileAssumption`), and for all memories, finite
sets of readers, jobs, deployments and budgets (`MemoryAssumption`), and for all
definitions, calls, drafts and requests over any language of contracts
and any set of floats (`FloatAssumption`, `LanguageAssumption`, `GateAssumption`,
`DraftAssumption`):

| Theorem | Statement |
|---|---|
| `RedisStoreProofs!ImplementsJournalHolds` | `Spec => ImplementsJournal` |
| `RedisStoreProofs!ListIsCompleteHolds`, `IndexAgreesHolds`, `TypeCorrect` | the invariants of `redis_store` |
| `FileToolsProofs!KeepsContractHolds` | `Spec => KeepsContract` |
| `FileToolsProofs!AnswerIsTrueHolds`, `UnracedIsExactHolds`, `TempIsOwnedHolds`, `TypeCorrect` | the invariants of `file_tools` |
| `GateProofs!AdmittedHolds` | `DraftSpec => []AdmittedConforms` |
| `GateProofs!FirstValidHolds`, `TypeCorrect` | `DraftSpec => []FirstValidWins`, `DraftSpec => []TypeOK` |
| `GateProofs!CertificateHolds` | `DraftSpec => []CertificateIsTrue` |
| `GateProofs!TypesAreSound` | `DraftSpec => []OnlyOverflowFails` |
| `GateProofs!RollbackHolds` | `DraftSpec => []RollbackRestores` |
| `ContractProofs!Sound` | where a type is inferred for an expression, its value has that type or, for a real, is OverflowError |
| `ContractProofs!CertificateTrue` | `Certificate(c, MaxCases)` is true of `c`, its evaluation fails by no type, and by OverflowError over reals only, for every contract `c` |
| `ContractProofs!Compensates` | in a larger world with the values that the forward step left, a proved compensation gives back what its contract says and leaves the rest alone |
| `EpisodicMemoryProofs!AnswersHold` | `Spec => []AnswersAreTrue` |
| `EpisodicMemoryProofs!ForgottenHolds` | `Spec => ForgottenForGood`, if lifetimes are integers |
| `EpisodicMemoryProofs!TypeCorrect` | `Spec => []TypeOK` |
| `EpisodicMemoryProofs!ClustersHold`, `GraphHolds` | `Spec => []ClustersAreDense`, `Spec => []GraphIsEarned`, if `MinSamples = 2` |
| `ClusteringProofs!FoundIs` | a complete search over any sequence of embeddings has found clusters that `IsClustering`, if `MinSamples = 2` |

The argument for the coordinator. `AtMostOnce` is not inductive: nothing in it
says that a thread about to call the tool is the first to do so. `SafeInv` adds
that an EXECUTING record has at most one owner (`OneOwner`), a thread whose
`doubt` is set (`SureOK` says where it is); that a thread at `execute` owns its
step and has `hits = 0` (`OwnerOK`); and that no record returns from EXECUTING to
PREPARED (`WorkMonotone`, `RecoveryMonotone`), so that nobody becomes an owner
twice. A thread becomes an owner only by the compare-and-set from PREPARED, where
`hits = 0` by `EffectOK`. For compensations, `UndoOK` and `RecoveryOK` say that
whoever is about to run one has its record in COMPENSATING or beyond, which no
one takes back; recovery may work on a stale copy, but only stale in one
direction.

`SagaCoordinatorProofs` proves for one step of one thread what it may do to the
journal (`WorkJournal`), to the world (`WorkWorld`), to its own position
(`WorkPosition`, `WorkOwner`, `WorkUndo`) and that it leaves the other threads
alone (`WorkFrame`), and combines these in `WorkStep`; it does the same for
recovery (`RecoveryStep`), adds requests, crash and restart, and draws the
conclusions.

The journal and the world (`SagaWorldProofs`). A record claims an outcome when
APPLIED, ABORTED or COMPENSATED is written, and `ThreadKnows` says that a thread
about to write one knows it. That this stays so while others work is where
`SafeInv` is needed: only the owner of an EXECUTING record calls its tool, and no
other thread is at `record` or `abort` for the step. Recovery writes an outcome
from what a hook tells it or from its copy of the journal; `RecoveryKnows` says
that the copy agrees with the journal as far as recovery has still to go, which
holds since recovery works alone and the journal names each step once
(`OrderOK`). Recovery takes a published key for an outcome too, so none may be
published for a call whose outcome is open (`NoFalseWitness`). `WorldInv` is proved
inductive from that; it follows from distinct keys, where a key vouches for its
own step (`KeyVouches`), and for one batch from `KeyOK`, since the batch skips a
step whose key is published.

Runs without crashes (`SagaWorldProofs`). `FlagOK`: when the status is
COMPENSATION_FAILED there is a dead letter or a thread on its way to push one;
this needs no assumption on the number of threads. `SerialInv` follows the one
thread through a request. Every effect in place is within reach of a rollback
(`Known`: completed, or the current step) and either recorded as COMMITTED or
being dealt with (`Attended`); a rollback has compensated what lies behind its
cursor (`RollbackOK`); and `VerdictOK` says what the status means when the thread
is idle again. Both properties are read off at the point where it is. `LifoInv`
says that `completed` follows the order of the journal and names each step once,
that the step under way is the last of the journal, and that whatever has a
compensation to run is in `completed`, where the cursor has still to come to it;
so the step that the cursor has reached is the last of those.

One batch with crashes (the last section of `SagaWorldProofs`). What memory holds and what the store
holds part ways at a crash, so `BatchInv` says of each what it is worth on its
own. The stored list, and the list of the request at work, are what is left of
the batch: every step of it once, not begun but for the head, with all the rest
committed (`ForwardOK`, `MiddleOK`); so a saga that recovery restores as waiting
has nothing to undo, and a request that resumes it runs each step once. A process
that knows the saga has the order of the journal in `completed` and nothing open
but its current call (`ReachOK`, with `LifoInv`), or else it knows nothing at all
and the saga is decided, waiting or new (`KnownOK`, `UnbegunOK`). Where the status
stands at each place of a request (`StageOK`) gives what a crash there leaves:
RUNNING or COMPENSATING whenever an effect may be in place without a verdict, so
that recovery takes the saga up. Recovery has settled what it has passed
(`BehindOK`), so that the verdict it writes at the end holds of every effect, as
does each verdict (`DecisionOK`). The refinement is then read off: an effect is
alive in `SagaOutcome` from the call that has it until its compensation
(`LiveMoves`), the verdict is written once (`OnlyFinishCommits`, `CommitMeansDone`)
and is true when it is. TLC checked `BatchInv` on the instance of `core_crash`, and
on one with two keys shared three ways, before it was proved.

Other fronts (the last section of `SagaCoordinatorProofs`). A server that recovers a live saga takes
EXECUTING records from their owners, so `OneOwner` fails, and with it `SafeInv`.
`PeerInv` keeps what is left: the thread at `execute` is the only one there for
its step, has `hits = 0`, and the record has left PREPARED, to which it never
returns. For the activity `SafeInv` itself holds: an attempt starts with nothing
in memory, like a process after a crash.

The argument for `RedisStore`. The refinement needs that an EXEC which goes
through finds the state that HGET accepted: `WatchHolds` says so of every client
at `exec` that is not in `touched`, and every write of a record puts the others
into `touched`. `IndexFollows` says, as long as nothing has raced, that there is
at most one writer and by how much the index is behind it.

The argument for `FileTools`. `UnracedIsExact` needs that a check that was passed
still holds (`CheckHolds`), for which the contract must be fixed before a worker
starts (`ContractFixed`: a compensation starts only after its step has returned,
a step only after its derivation). `Phases` says that a worker that has changed
the file is past every error path; from it come `AnswerIsTrue` and the
refinement.

Memories and reads (`EpisodicMemoryProofs`, with `MemoryInv`). That a row counts
the answered reads is not inductive, since a read marks and answers in two
steps. `CountsOK` counts the reads in between too (`Marked`): the answered reads
and these together are covered by the count, a mark adds one to both sides, an
answer takes its read from one summand to the other. A row is marked only by a
read that has still to mark it (`RowUntouched`), and time does not go back,
which is all that forgetting needs.

Sleep cycles (`ClusteringProofs`). `LabelsOK` says at every turn what a label is
worth: a point of noise has no neighbour but itself; a point of a cluster has
another one, and has all of them in the cluster or waiting in the queue; a cluster
is connected. So nothing that waits can belong to a finished cluster, and when the
search is over the clusters are the connected parts, which `FoundIs` compares with
the definition. `MinSamples = 2` is needed for it, since `Close` is symmetric: with
two, every point that has another neighbour is a core point, and there are no border
points whose cluster would depend on where the walk began. That places can be put in order
(`InOrder`), and that scalar products are symmetric (`Dot`, a fold), are lemmas of
their own.

The graph (`EpisodicMemoryProofs`, with `SystemInv`). `JobOK` follows a job from
its snapshot to its last write. The snapshot names stored memories of one tenant,
each once, and stays true since memories are never deleted. While a cluster is
being written, what the graph lacks of it is what is still in `upserts`
(`PendingOK`); the clusters before it are there (`WrittenOK`), unless a call was
given up. Every edge comes from a cluster with a neighbour of the point it names,
hence `GraphOK`. The graph only grows, so that one job's invariant survives the
steps of the others (`JobGrows`).

The gate (`GateProofs`, with `GateInv` and `DraftInv`). What `AdmittedConforms`
asks of a call is read off the gates that said "ok" (`Gates`, `AdmissionMeans`):
the first problem of a list is "ok" only if all are (`NoProblem`), and a rule
that does not object is kept (`RuleKept`). The invariant adds that definitions
come from one scene, so that their policies are well formed, and that calls
begin when registration is over. For drafts, a request that has chosen has
judged all of its own, and nothing is discarded before the first choice
(`JudgedOK`); a choice turns what is valid into discarded, which has passed too.

Contracts (`ContractProofs`). `Value`, `Truth` and `TypeOf` are recursive functions
on terms. A term is worth what its parts are (`LanguageAssumption`: parts are of
smaller `Depth`), so that the functions exist and satisfy their equations
(`Recursion`, by which the value at a depth is chosen from those below). `Sound` is
induction on the depth, with `RefsKnown` for the names of an expression: OverflowError
comes from a float among the operands only, so the type of what raised it is real,
and so is that of every expression above it. This makes `OnlyOverflowFails`. The
cases that the verifier enumerates are all the valuations of the domains
(`Records` = `Valuations`), so that its first failing case is a counterexample,
unless something was raised in it, and "proved" means every one of them:
`CertificateTrue`.

Certificates at registration (`GateProofs`, with `CertInv`). The decision on a
registration carries the certificate of the definition's contract, which comes from
the scene and is well formed (`GateAssumption`). Rollback (`RollInv`): the worlds of
`log` form a chain, in which the forward step of each call gives the world before
the next; and once the calls from `Earliest` on are undone, the present world is the
one before it as far as its contract gives that back (`GivenBack`), if each of these
calls began where its proof covers it and the later ones pin their variables
(`CoveredFrom`). Where the later call pins what it changes and has no reals, the two
worlds hold the same values, so one more compensation keeps this, by `Compensates`.

The prover cannot instantiate the induction theorems of the library, which take an
operator. The inductions here (over depths, prefixes of a sum, lengths of an
enumeration) are had from sets instead: the set of counterexamples has a least
element (`WFMin` with `NatLessThanWellFounded`; `Least`, `Climb`), from which the
step leads to a contradiction.

Every safety property of a passing run has a theorem whose hypotheses its instance
satisfies. Model-checked only is liveness, since fairness and ENABLED are out of the
prover's reach: `RollbackEnds`, `CallsResolve`, `TransitionReturns`, `CallReturns`
and `JobsEnd`.

## 8. Plan

Done: the coordinator and its other fronts, `FileTools`, `RedisStore`, the gates
with the contracts and drafts, the memory. Next, in this order:

1. `ConnectionPool`: `_pg_conn` and `_pg_return`, calls that take a second
   connection while they hold one, the pool that is replaced when it is exhausted.
2. Several sagas: the order of `recover`, a conflict that ends it, eviction.
3. The rate limiter.
4. Proof of `ClustersAreDense` for any `MinSamples`, with border points.

### Not modelled

Embedding models, similarity search and the arithmetic of retention (reals);
SMT-LIB and the models of the solver; weights of edges; HTTP, authentication and
tenants; the translation of protocol buffers, generated stubs and SDKs; WASI
modules and the host fallback of the sandbox; exceptions of the store other than
a journal conflict; logging, metrics and configuration, which no other part reads
back. Symbolic links and the file system below `is_file`, `read_bytes` and
`replace` are the platform's.
