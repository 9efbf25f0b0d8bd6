------------------------------ MODULE MCMemory ------------------------------
(***************************************************************************)
(* Few memories for EpisodicMemory: a chain of three similar ones, another *)
(* tenant's, one without an embedding.                                     *)
(***************************************************************************)
EXTENDS EpisodicMemory

CONSTANTS a, b, c, d, e, z, p, q

About(tenant, role, summary, importance, embedding) ==
  [tenant |-> tenant, role |-> role, summary |-> summary,
   importance |-> importance, embedding |-> embedding]

(* b is close to a and to c, a is not close to c; z is close to nothing.   *)
MCFact ==
  a :> About("acme", "planner", "A", 1, <<1, 0>>)
  @@ b :> About("acme", "coder", "B", 0, <<3, 2>>)
  @@ c :> About("acme", "planner", "C", 1, <<1, 2>>)
  @@ d :> About("acme", "coder", "D", 1, <<0, 0, 2>>)
  @@ e :> About("acme", "tester", "E", 1, <<0, 0, 3>>)
  @@ z :> About("acme", "coder", "Z", 1, <<>>)
  @@ p :> About("other", "planner", "P", 1, <<2, 0>>)
  @@ q :> About("other", "coder", "Q", 0, <<4, 1>>)

MCTenants == <<"acme", "other">>

(* Unimportant memories fade within the hour.                              *)
MCLifetime(importance, count) ==
  IF importance = 0 THEN 0 ELSE IF count = 0 THEN 1 ELSE 2

Backends(store, graph_, strict, llm) ==
  [store |-> store, graph |-> graph_, strict |-> strict, llm |-> llm]

Development == Backends("memory", "memory", FALSE, FALSE)
Strict == Backends("postgres", "neo4j", TRUE, FALSE)
Lenient == Backends("postgres", "neo4j", FALSE, TRUE)

Scene(deployment, memories, reads, jobs, hours) ==
  [deployed |-> deployment,
   budget |-> [memories |-> memories, reads |-> reads, jobs |-> jobs,
               hours |-> hours]]

(* Reads that overlap; a cycle over a chain, over two pairs; two cycles    *)
(* that overlap.                                                           *)
MCScenario ==
  {Scene(deployment, {a, b}, 2, 0, 2) : deployment \in {Development, Strict, Lenient}}
  \cup {Scene(Development, {a, b, c, z}, 0, 1, 0), Scene(Development, {a, b, d, e}, 0, 1, 0)}
  \cup {Scene(Development, {a, b, p}, 0, 2, 0), Scene(Lenient, {b, p, q}, 0, 1, 0),
        Scene(Strict, {a, b}, 0, 1, 0)}
=============================================================================
