------------------------------ MODULE MCRedis ------------------------------
(* An instance of RedisStore for TLC: two clients, a journaled step.        *)
EXTENDS RedisStore

CONSTANTS c1, c2, s1, k, none

MCClient == {c1, c2}
MCStep == {s1}
MCKey == {k}
MCKeyOf == [s \in MCStep |-> k]

(* The two statuses that have a saga recovered, and one that has not.      *)
MCWritten == {"RUNNING", "AWAITING_APPROVAL", "COMMITTED"}
=============================================================================
