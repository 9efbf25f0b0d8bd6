--------------------------- MODULE EpisodicMemory ---------------------------
(***************************************************************************)
(* Episodic memories (memory/timescale_store.py), their decay              *)
(* (memory/decay.py), the sleep cycles that condense them                  *)
(* (memory/consolidation.py) and the graph that these write                *)
(* (memory/neo4j_store.py), as the endpoints and the scheduler of main.py  *)
(* use them: clients store and read memories in threads of their own while *)
(* background jobs run.  A statement to a database is one step, and so is  *)
(* what a thread does between two of them.                                 *)
(***************************************************************************)
EXTENDS Clustering

CONSTANTS
  Fact,             \* the memories that clients store: a function from ids to
                    \* [tenant, role, summary, importance, embedding]
  Tenants,          \* the tenants in alphabetical order
  Lifetime(_, _),   \* how long a memory of an importance stays active after
                    \* its n-th retrieval: the solution of R(t) >= tau
  Scenario,         \* set of [deployed, budget]: a deployment [store, graph,
                    \* strict, llm] is the backends in use, REQUIRE_BACKENDS
                    \* and whether there is an LLM; a budget [memories, reads,
                    \* jobs, hours] bounds what is stored, read and done
  Reader, Job,      \* threads that serve reads, and background jobs
  Attempts,         \* attempts of a call of Neo4j
  MaxPage           \* bound: memories on a page

Memory == DOMAIN Fact

ASSUME MemoryAssumption ==
  /\ IsFiniteSet(Reader) /\ Attempts \in Nat \ {0}
  /\ Tenants \in Seq(ToSet(Tenants))
  /\ \A m \in Memory : Fact[m].embedding \in Seq(Int)
  /\ \A scene \in Scenario :
       /\ scene.deployed \in [store : {"memory", "postgres"}, graph : {"memory", "neo4j"},
                              strict : BOOLEAN, llm : BOOLEAN]
       /\ scene.budget \in [memories : SUBSET Memory, reads : Nat, jobs : Nat, hours : Nat]

VARIABLES
  deployed,   \* the deployment
  now,
  rows,       \* the table of memories: a sequence of [id, count, last]
  created,    \* the memories whose storing was answered
  reader,     \* [pc, seen, left, at]: the counts that a read has seen, the
              \* memories it has still to mark, and the time of the mark
  told,       \* how many answered reads have listed a memory
  graph,      \* the relationships <<source, relation, target>>
  job,        \* [pc, todo, episodes, search, clusters, k, upserts, failures,
              \* missed]:
              \* the k-th cluster is the next or being written
  budget      \* the memories, reads, jobs and hours that are left

vars == <<deployed, now, rows, created, reader, told, graph, job, budget>>
readVars == <<reader, told>>
jobVars == <<graph, job>>
storeVars == <<rows, created>>

Free == [pc |-> "free", seen |-> <<>>, left |-> {}, at |-> 0]
Idle == [pc |-> "idle", todo |-> <<>>, episodes |-> <<>>, search |-> <<>>,
         clusters |-> <<>>, k |-> 1, upserts |-> <<>>, failures |-> 0, missed |-> FALSE]

Init ==
  /\ \E scene \in Scenario : deployed = scene.deployed /\ budget = scene.budget
  /\ now = 0
  /\ rows = <<>>
  /\ created = {}
  /\ reader = [r \in Reader |-> Free]
  /\ told = [m \in Memory |-> 0]
  /\ graph = {}
  /\ job = [j \in Job |-> Idle]

Stored == {rows[i].id : i \in DOMAIN rows}
Row(m) == rows[CHOOSE i \in DOMAIN rows : rows[i].id = m]

(* How a call of the store may end: "error" inside its try block, "busy"   *)
(* when the pool has no connection left, which is outside of it.           *)
StoreOutcome == IF deployed.store = "memory" THEN {"ok"} ELSE {"ok", "error", "busy"}

(* The retention of a memory is at least tau.                              *)
Active(m) == now - Row(m).last <= Lifetime(Fact[m].importance, Row(m).count)

-----------------------------------------------------------------------------
(***************************************************************************)
(* POST /memory.                                                           *)
(***************************************************************************)

(* write_episodic_memory: an error is passed on in a strict deployment     *)
(* only; otherwise the memory is lost and the answer is CREATED.           *)
Ingest(m) ==
  /\ m \in budget.memories
  /\ budget' = [budget EXCEPT !.memories = @ \ {m}]
  /\ \E outcome \in StoreOutcome :
       /\ rows' = IF outcome = "ok"
                  THEN Append(rows, [id |-> m, count |-> 0, last |-> now])
                  ELSE rows
       /\ created' = IF outcome = "ok" \/ (outcome = "error" /\ ~deployed.strict)
                     THEN created \cup {m} ELSE created
  /\ UNCHANGED <<deployed, now, readVars, jobVars>>

-----------------------------------------------------------------------------
(***************************************************************************)
(* GET /memory/active.                                                     *)
(***************************************************************************)

(* retrieve_active_memories: which of the active memories are on the page  *)
(* depends on the query, the limit and the offset; an error gives none.    *)
Select(r, t) ==
  /\ reader[r].pc = "free" /\ budget.reads > 0
  /\ \E outcome \in StoreOutcome \ {"busy"}, page \in SUBSET Stored :
       /\ Cardinality(page) <= MaxPage
       /\ \A m \in page : Fact[m].tenant = t /\ Active(m)
       /\ outcome = "error" => page = {}
       /\ reader' = [reader EXCEPT ![r] =
            [pc |-> IF page = {} THEN "answer" ELSE "selected",
             seen |-> [m \in page |-> Row(m).count], left |-> page, at |-> 0]]
  /\ budget' = [budget EXCEPT !.reads = @ - 1]
  /\ UNCHANGED <<deployed, now, storeVars, told, jobVars>>

(* mark_retrieved begins: the time that it will write in memory.           *)
BeginMark(r) ==
  /\ reader[r].pc = "selected"
  /\ reader' = [reader EXCEPT ![r].pc = "marking", ![r].at = now]
  /\ UNCHANGED <<deployed, now, storeVars, told, jobVars, budget>>

(* PostgreSQL writes the time of its own statement.                        *)
MarkTime(r) == IF deployed.store = "postgres" THEN now ELSE reader[r].at

(* A mark computed from what the read has seen (a mutant of Reinforced).   *)
ReinforcedFromSeen(row, r) ==
  [row EXCEPT !.count = reader[r].seen[row.id] + 1, !.last = MarkTime(r)]

(* What a mark writes to a row.                                            *)
Reinforced(row, r) == [row EXCEPT !.count = @ + 1, !.last = MarkTime(r)]

(* The list in memory is marked item by item.                              *)
MarkItem(r) ==
  /\ reader[r].pc = "marking" /\ deployed.store = "memory"
  /\ \E i \in DOMAIN rows :
       /\ rows[i].id \in reader[r].left
       /\ \A k \in 1..(i - 1) : rows[k].id \notin reader[r].left
       /\ rows' = [rows EXCEPT ![i] = Reinforced(rows[i], r)]
       /\ LET left == reader[r].left \ {rows[i].id}
          IN reader' = [reader EXCEPT ![r].left = left,
                                      ![r].pc = IF left = {} THEN "answer" ELSE @]
  /\ UNCHANGED <<deployed, now, created, told, jobVars, budget>>

(* A statement without a WHERE clause (a mutant of Picks).                 *)
PicksAll(r, row) == TRUE

(* The rows that the statement of a mark picks.                            *)
Picks(r, row) == row.id \in reader[r].left

(* The table is marked by one statement; a failed one is passed on in a    *)
(* strict deployment only.                                                 *)
MarkRows(r) ==
  /\ reader[r].pc = "marking" /\ deployed.store = "postgres"
  /\ \E outcome \in StoreOutcome :
       LET failed == outcome = "busy" \/ (outcome = "error" /\ deployed.strict)
       IN /\ rows' = IF outcome = "ok"
                     THEN [i \in DOMAIN rows |->
                             IF Picks(r, rows[i])
                             THEN Reinforced(rows[i], r) ELSE rows[i]]
                     ELSE rows
          /\ reader' = [reader EXCEPT ![r] =
               IF failed THEN Free ELSE [@ EXCEPT !.pc = "answer", !.left = {}]]
  /\ UNCHANGED <<deployed, now, created, told, jobVars, budget>>

(* The answer lists each memory with the count that was seen, plus one.    *)
AnswerRead(r) ==
  /\ reader[r].pc = "answer"
  /\ told' = [m \in Memory |->
                IF m \in DOMAIN reader[r].seen THEN told[m] + 1 ELSE told[m]]
  /\ reader' = [reader EXCEPT ![r] = Free]
  /\ UNCHANGED <<deployed, now, storeVars, jobVars, budget>>

Tick ==
  /\ budget.hours > 0
  /\ budget' = [budget EXCEPT !.hours = @ - 1]
  /\ now' = now + 1
  /\ UNCHANGED <<deployed, storeVars, readVars, jobVars>>

-----------------------------------------------------------------------------
(***************************************************************************)
(* Sleep cycles: POST /memory/consolidate queues one for a tenant, the     *)
(* scheduler runs consolidate_all_tenants.                                 *)
(***************************************************************************)

StartJob(j, todo) ==
  /\ job[j].pc = "idle" /\ budget.jobs > 0
  /\ job' = [job EXCEPT ![j].pc = "fetch", ![j].todo = todo]
  /\ budget' = [budget EXCEPT !.jobs = @ - 1]
  /\ UNCHANGED <<deployed, now, storeVars, readVars, graph>>

Queue(j, t) == StartJob(j, <<t>>)

(* list_tenants, when it does not fail.                                    *)
Schedule(j) ==
  LET present == InOrder({i \in DOMAIN Tenants :
                    \E m \in Stored : Fact[m].tenant = Tenants[i]})
  IN StartJob(j, [i \in DOMAIN present |-> Tenants[present[i]]])

(* The episodes of all tenants (a mutant of EpisodesOf).                   *)
EpisodesOfAll(t) == [i \in DOMAIN rows |-> rows[i].id]

(* get_all_memories.  A database may return the rows in any order; here    *)
(* they come as they were stored, in any order.                            *)
EpisodesOf(t) ==
  LET mine == InOrder({i \in DOMAIN rows : Fact[rows[i].id].tenant = t})
  IN [k \in DOMAIN mine |-> rows[mine[k]].id]

Embeddings(episodes) == [i \in DOMAIN episodes |-> Fact[episodes[i]].embedding]

(* One cycle begins; with less than two episodes it is over.  A pool with  *)
(* no connection left ends the whole job, any other error gives no rows.   *)
Fetch(j) ==
  /\ job[j].pc = "fetch" /\ job[j].todo # <<>>
  /\ \/ LET episodes == EpisodesOf(Head(job[j].todo))
        IN IF Len(episodes) < 2 THEN job' = [job EXCEPT ![j].todo = Tail(@)]
           ELSE job' = [job EXCEPT ![j].pc = "measure", ![j].episodes = episodes]
     \/ /\ "error" \in StoreOutcome
        /\ job' = [job EXCEPT ![j].todo = Tail(@)]
     \/ /\ "busy" \in StoreOutcome
        /\ job' = [job EXCEPT ![j] = Idle]
  /\ UNCHANGED <<deployed, now, storeVars, readVars, graph, budget>>

(* _cluster: first the distances, ...                                      *)
Measure(j) ==
  /\ job[j].pc = "measure"
  /\ job' = [job EXCEPT ![j].pc = "search",
                        ![j].search = NewSearch(Embeddings(job[j].episodes))]
  /\ UNCHANGED <<deployed, now, storeVars, readVars, graph, budget>>

(* ... then turn by turn.                                                  *)
Search(j) ==
  /\ job[j].pc = "search" /\ ~Complete(job[j].search)
  /\ job' = [job EXCEPT ![j].search = Turn(@)]
  /\ UNCHANGED <<deployed, now, storeVars, readVars, graph, budget>>

(* The clusters that the search has found.                                 *)
Found(j) ==
  /\ job[j].pc = "search" /\ Complete(job[j].search)
  /\ job' = [job EXCEPT ![j].pc = "label", ![j].search = <<>>,
                        ![j].clusters = Large(Clusters(job[j].search.label))]
  /\ UNCHANGED <<deployed, now, storeVars, readVars, graph, budget>>

(* The writes for a cluster with its label.                                *)
Upserts(j, concept) ==
  LET points == job[j].clusters[job[j].k][2]
      Item(i) == Fact[job[j].episodes[points[i]]]
  IN [n \in 1..(2 * Len(points)) |->
        IF n % 2 = 1
        THEN <<concept, "SUMMARIZES_EXPERIENCE", Item((n + 1) \div 2).summary>>
        ELSE <<Item(n \div 2).role, "DISCOVERED_CONCEPT", concept>>]

Labelled(j, concept) ==
  job' = [job EXCEPT ![j].pc = "write", ![j].upserts = Upserts(j, concept),
                     ![j].failures = 0]

FallbackLabel(j) == "Cluster " \o ToString(job[j].clusters[job[j].k][1])

(* _label_cluster.                                                         *)
Label(j) ==
  /\ job[j].pc = "label" /\ job[j].k <= Len(job[j].clusters)
  /\ IF deployed.llm THEN job' = [job EXCEPT ![j].pc = "asked"]
     ELSE Labelled(j, FallbackLabel(j))
  /\ UNCHANGED <<deployed, now, storeVars, readVars, graph, budget>>

(* The LLM answers in time with a phrase of its own, or raises.            *)
LlmAnswers(j) ==
  /\ job[j].pc = "asked"
  /\ \/ Labelled(j, "Phrase")
     \/ Labelled(j, FallbackLabel(j))
  /\ UNCHANGED <<deployed, now, storeVars, readVars, graph, budget>>

(* After the timeout the executor's with block waits for its thread.       *)
LlmTimesOut(j) ==
  /\ job[j].pc = "asked"
  /\ job' = [job EXCEPT ![j].pc = "leaving"]
  /\ UNCHANGED <<deployed, now, storeVars, readVars, graph, budget>>

LlmReturns(j) ==
  /\ job[j].pc = "leaving"
  /\ Labelled(j, FallbackLabel(j))
  /\ UNCHANGED <<deployed, now, storeVars, readVars, graph, budget>>

(* The last write of a cluster taken for any other (a mutant of Written).  *)
WrittenOn(j) == [job[j] EXCEPT !.upserts = Tail(@), !.failures = 0]

Written(j) ==
  LET rest == Tail(job[j].upserts)
  IN [job[j] EXCEPT !.upserts = rest, !.failures = 0,
                    !.k = IF rest = <<>> THEN @ + 1 ELSE @,
                    !.pc = IF rest = <<>> THEN "label" ELSE @]

(* upsert_relationship: a call of Neo4j may fail, or only its answer be     *)
(* lost; it is repeated until it is given up.                              *)
Upsert(j) ==
  /\ job[j].pc = "write"
  /\ \/ /\ graph' = graph \cup {Head(job[j].upserts)}
        /\ job' = [job EXCEPT ![j] = Written(j)]
     \/ /\ deployed.graph = "neo4j"
        /\ graph' \in {graph, graph \cup {Head(job[j].upserts)}}
        /\ IF job[j].failures + 1 < Attempts
           THEN job' = [job EXCEPT ![j].failures = @ + 1]
           ELSE job' = [job EXCEPT ![j] = [Written(j) EXCEPT !.missed = TRUE]]
  /\ UNCHANGED <<deployed, now, storeVars, readVars, budget>>

(* A cycle that begins again with the same tenant (a mutant of EndCycle).  *)
EndCycleAgain(j) ==
  /\ job[j].pc = "label" /\ job[j].k > Len(job[j].clusters)
  /\ job' = [job EXCEPT ![j] = [Idle EXCEPT !.pc = "fetch", !.todo = job[j].todo]]
  /\ UNCHANGED <<deployed, now, storeVars, readVars, graph, budget>>

(* The cycle of a tenant is complete.                                      *)
EndCycle(j) ==
  /\ job[j].pc = "label" /\ job[j].k > Len(job[j].clusters)
  /\ job' = [job EXCEPT ![j] = [Idle EXCEPT !.pc = "fetch", !.todo = Tail(job[j].todo)]]
  /\ UNCHANGED <<deployed, now, storeVars, readVars, graph, budget>>

EndJob(j) ==
  /\ job[j].pc = "fetch" /\ job[j].todo = <<>>
  /\ job' = [job EXCEPT ![j] = Idle]
  /\ UNCHANGED <<deployed, now, storeVars, readVars, graph, budget>>

LlmStep(j) == LlmAnswers(j) \/ LlmTimesOut(j)

JobStep(j) ==
  \/ Fetch(j) \/ Measure(j) \/ Search(j) \/ Found(j)
  \/ Label(j) \/ Upsert(j) \/ EndCycle(j) \/ EndJob(j)

ReadStep(r) == BeginMark(r) \/ MarkItem(r) \/ MarkRows(r) \/ AnswerRead(r)

Next ==
  \/ \E m \in Memory : Ingest(m)
  \/ \E r \in Reader : ReadStep(r) \/ \E t \in ToSet(Tenants) : Select(r, t)
  \/ Tick
  \/ \E j \in Job :
       \/ Schedule(j)
       \/ \E t \in ToSet(Tenants) : Queue(j, t)
       \/ JobStep(j) \/ LlmStep(j) \/ LlmReturns(j)

Spec == Init /\ [][Next]_vars

(* Background threads are scheduled, and the timeout of 10 s is kept.      *)
FairSpec ==
  Spec /\ \A j \in Job : WF_vars(JobStep(j)) /\ WF_vars(LlmStep(j))

(* Moreover every call of the LLM comes back some time.                    *)
PatientSpec == FairSpec /\ \A j \in Job : WF_vars(LlmReturns(j))

-----------------------------------------------------------------------------
(***************************************************************************)
(* Properties.                                                             *)
(***************************************************************************)

Answering(r, m) == reader[r].pc # "free" /\ m \in DOMAIN reader[r].seen

(* Rows are distinct and were asked for; a read marks what it has seen;    *)
(* jobs write what their clusters give.                                    *)
TypeOK ==
  /\ now \in Nat
  /\ \A i, k \in DOMAIN rows : rows[i].id = rows[k].id => i = k
  /\ \A i \in DOMAIN rows : rows[i] \in [id : created, count : Nat, last : 0..now]
  /\ \A r \in Reader :
       /\ reader[r].pc \in {"free", "selected", "marking", "answer"}
       /\ reader[r].left \subseteq DOMAIN reader[r].seen
       /\ DOMAIN reader[r].seen \subseteq Stored
  /\ \A j \in Job :
       /\ job[j].pc \in 
            {"idle", "fetch", "measure", "search", "label", "asked", "leaving", "write"}
       /\ job[j].failures \in 0..(Attempts - 1)
       /\ job[j].pc = "write" <=> job[j].upserts # <<>>

(* In memory and in a strict deployment answers are true: what was         *)
(* acknowledged is stored, a row counts every answered read that listed it *)
(* however the reads overlap, and no answer reports more than the row says *)
(* (write_episodic_memory, mark_retrieved, get_active_memories).           *)
AnswersAreTrue ==
  deployed.store = "memory" \/ deployed.strict =>
    /\ created \subseteq Stored
    /\ \A m \in Stored : told[m] <= Row(m).count
    /\ \A r \in Reader : reader[r].pc = "answer" =>
         \A m \in DOMAIN reader[r].seen : reader[r].seen[m] + 1 <= Row(m).count

(* A memory that has faded stays so, unless a read that chose it while it  *)
(* was active has still to mark it (retrieve_active_memories against       *)
(* mark_retrieved).                                                        *)
ForgottenForGood ==
  [][\A m \in Stored :
       (/\ ~Active(m)
        /\ \A r \in Reader : reader[r].pc = "free" \/ m \notin reader[r].left)
       => ~Active(m)']_vars

(* The clusters of a cycle are those that density-based clustering         *)
(* defines, in whatever order the episodes came and a chain of neighbours  *)
(* is walked (_cluster, where a point is queued once and may be queued     *)
(* before or after it was taken for noise).                                *)
ClustersAreDense ==
  \A j \in Job : job[j].pc \notin {"idle", "fetch", "measure", "search"} =>
    IsClustering(Embeddings(job[j].episodes), job[j].clusters)

Related(m, n) ==
  /\ m # n /\ Fact[m].tenant = Fact[n].tenant
  /\ Close(Fact[m].embedding, Fact[n].embedding)

(* The graph tells of similar memories only, each of them stored and of    *)
(* one tenant; and when a cycle that had no call given up is complete, any *)
(* two similar memories of its snapshot share a concept, and their roles   *)
(* lead to it (run_consolidation_cycle, upsert_relationship).              *)
GraphIsEarned ==
  /\ \A edge \in graph : \E m, n \in Stored :
       /\ Related(m, n)
       /\ IF edge[2] = "DISCOVERED_CONCEPT" THEN edge[1] = Fact[m].role
          ELSE edge[3] = Fact[m].summary
  /\ \A j \in Job : (job[j].pc = "label" /\ job[j].k > Len(job[j].clusters) /\ ~job[j].missed) =>
       \A m, n \in ToSet(job[j].episodes) : Related(m, n) =>
         \E edge \in graph :
           /\ edge[2] = "SUMMARIZES_EXPERIENCE" /\ edge[3] = Fact[m].summary
           /\ <<edge[1], edge[2], Fact[n].summary>> \in graph
           /\ <<Fact[m].role, "DISCOVERED_CONCEPT", edge[1]>> \in graph
           /\ <<Fact[n].role, "DISCOVERED_CONCEPT", edge[1]>> \in graph

(* Every job comes to its end, provided that every call of the LLM does:   *)
(* the pool in _llm_summarize waits for its thread after the timeout, so   *)
(* that under FairSpec alone a hung LLM stalls the cycle, which            *)
(* consolidation.py:103-104 says it cannot.                                *)
JobsEnd == \A j \in Job : job[j].pc # "idle" ~> job[j].pc = "idle"
=============================================================================
