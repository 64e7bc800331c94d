------------------------------- MODULE Backend -------------------------------
(****************************************************************************)
(* The Node process the NestJS services run in.  It is single-threaded: a   *)
(* handler runs without interruption up to its next await, and every await  *)
(* is a database call.  A handler in flight is a job: what the handler has  *)
(* read so far and has not yet written.  Documents live in MongoDB and      *)
(* survive a crash, jobs and the events they carry do not.                  *)
(*                                                                          *)
(* Jobs bounds how many handlers are in flight at once, MaxFaults how many  *)
(* failures a behaviour may have, MaxClock how far time goes.  Time only    *)
(* matters through the delays of the services, which are constants in the   *)
(* same unit.                                                               *)
(****************************************************************************)
EXTENDS Naturals

CONSTANTS Jobs, MaxFaults, MaxClock

(* What the documents of several services refer to, and MongoDB's null.     *)
CONSTANTS Requests, Customers, Providers, None

ASSUME BoundsAssumption == MaxFaults \in Nat /\ MaxClock \in Nat
ASSUME NoneAssumption == None \notin Customers \cup Providers \cup Nat

VARIABLES job, clock, faults

Idle == [op |-> "idle"]

Free(j) == job[j] = Idle
Become(j, next) == job' = [job EXCEPT ![j] = next]
Finish(j) == Become(j, Idle)

BackendInit ==
  /\ job = [j \in Jobs |-> Idle]
  /\ clock = 0
  /\ faults = 0

(* Time passes while handlers wait for the database. *)
Tick ==
  /\ clock < MaxClock
  /\ clock' = clock + 1
  /\ UNCHANGED <<job, faults>>

Faulty == faults < MaxFaults /\ faults' = faults + 1

(* The process stops and restarts: every job in flight is forgotten, with   *)
(* the in-memory event it was about to handle.                              *)
Crash ==
  /\ Faulty
  /\ job' = [j \in Jobs |-> Idle]
  /\ UNCHANGED clock

(* A database call fails for good, after the retries of executeWithRetry:   *)
(* the handler throws and what it had left to do is dropped.                *)
Abort(j) ==
  /\ Faulty
  /\ Finish(j)
  /\ UNCHANGED clock
==============================================================================
