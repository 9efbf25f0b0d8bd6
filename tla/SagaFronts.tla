----------------------------- MODULE SagaFronts -----------------------------
(***************************************************************************)
(* Two other fronts of the coordinator over the same store.  A gRPC server *)
(* (grpc_server.py) recovers when it starts, whoever is at work on the     *)
(* sagas it finds.  A Temporal activity (orchestrator/temporal_worker.py)  *)
(* runs a whole saga on a coordinator of its own, and is run again when    *)
(* its worker dies, without recover.                                       *)
(***************************************************************************)
EXTENDS SagaCoordinator

(***************************************************************************)
(* The gRPC server: recover in a process of its own.                       *)
(***************************************************************************)

(* serve.  Each start counts as a crash for the bound.                     *)
PeerStart ==
  /\ proc = "up" /\ rpc = "off" /\ crashes < MaxCrash
  /\ crashes' = crashes + 1
  /\ rpc' = "list"
  /\ UNCHANGED <<rcur, snap, proc, submitted, hook>>
  /\ UNCHANGED <<storeVars, memVars, threadVars, worldVars>>

(* A saga that waits for an approval comes back in the server's memory,    *)
(* not in the one of this process.                                         *)
PeerRestores ==
  /\ rpc = "list" /\ status = "AWAITING_APPROVAL" /\ held # <<>>
  /\ Serve
  /\ UNCHANGED <<storeVars, memVars, threadVars, worldVars>>

PeerRecovery ==
  \/ PeerRestores
  \/ Recovery /\ UNCHANGED memVars

PeerNext ==
  \/ Start
  \/ \E t \in Thread : Request(t) \/ Work(t)
  \/ PeerStart \/ PeerRecovery

PeerSpec == Init /\ [][PeerNext]_vars

-----------------------------------------------------------------------------
(***************************************************************************)
(* The Temporal activity.                                                  *)
(***************************************************************************)

(* execute_saga_activity: a fresh coordinator starts the saga, again if    *)
(* need be, and executes all its steps.                                    *)
Attempt(t) ==
  /\ proc = "up" /\ pc[t] = "idle" /\ ~known
  /\ known' = TRUE
  /\ memStatus' = "RUNNING"
  /\ WriteStatus("RUNNING")
  /\ \E b \in Batch :
       /\ submitted' = submitted \cup {b}
       /\ todo' = [todo EXCEPT ![t] = b]
  /\ Goto(t, "check")
  /\ UNCHANGED <<completed, pending, approved, cursor, doubt, proc, crashes, hook>>
  /\ UNCHANGED <<recVars, worldVars>>

(* Another worker takes the task.                                          *)
Redeliver ==
  /\ proc = "down"
  /\ proc' = "up"
  /\ UNCHANGED <<submitted, crashes, hook>>
  /\ UNCHANGED <<storeVars, memVars, threadVars, recVars, worldVars>>

ActivityNext ==
  \/ \E t \in Thread : Attempt(t) \/ Work(t)
  \/ Crash \/ Redeliver

ActivitySpec == Init /\ [][ActivityNext]_vars
=============================================================================
