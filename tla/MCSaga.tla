------------------------------- MODULE MCSaga -------------------------------
(***************************************************************************)
(* The instances of SagaCoordinator that TLC checks.                       *)
(***************************************************************************)
EXTENDS SagaInvariant, SagaFronts, TLC

CONSTANTS a, b, c, d, k, l

(* One batch of four steps; the last repeats the key of the first.         *)
OneBatch == {<<a, b, c, d>>}
RepeatedKey == (a :> k) @@ (b :> NoKey) @@ (c :> l) @@ (d :> k)

(* The steps of a saga one request at a time, and then a retry of all.     *)
RetriedBatches == {<<a>>, <<b, c>>, <<a, b, c>>}
KeysOfRetry == (a :> k) @@ (b :> NoKey) @@ (c :> l)

(* Two steps, each in a request of its own, as the REST API submits them.  *)
RestBatches == {<<a>>, <<b>>}
NoKeys == [s \in {a, b} |-> NoKey]

(* The same step in two batches; one step has a key.                       *)
OverlappingBatches == {<<a, b>>, <<b>>}
OneKey == (a :> NoKey) @@ (b :> k)

(* One saga as one run.                                                   *)
OneRun == {<<a, b>>}

=============================================================================
