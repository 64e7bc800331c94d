---------------------------- MODULE RequestPromise ----------------------------
(****************************************************************************)
(* What a service request promises its customer and its providers: one      *)
(* atomic step per operation.  A provider applies at most once, the         *)
(* customer chooses one of the applicants and never another, a completed or *)
(* closed request is final, a photo once added stays, and a request nobody  *)
(* was chosen for is closed when its delay is over, not before.             *)
(****************************************************************************)
EXTENDS Naturals

CONSTANTS Requests, Customers, Providers, Uploads, Times, None, ClosureDelay

VARIABLES requests, clock

vars == <<requests, clock>>

Unsettled(r) == requests[r] # None /\ requests[r].status \in {"open", "pending"}
Due(r) == Unsettled(r) /\ requests[r].ets + ClosureDelay <= clock

Change(r, doc) ==
  /\ requests' = [requests EXCEPT ![r] = doc]
  /\ UNCHANGED clock

Init ==
  /\ requests = [r \in Requests |-> None]
  /\ clock = 0

Publish(r) ==
  /\ requests[r] = None
  /\ \E c \in Customers, ets \in Times :
       /\ ets > clock
       /\ Change(r, [status |-> "open", customer |-> c, ets |-> ets,
                     applications |-> [p \in Providers |-> 0],
                     accepted |-> None, photos |-> {}])

Apply(r, p) ==
  /\ Unsettled(r)
  /\ requests[r].applications[p] = 0
  /\ Change(r, [requests[r] EXCEPT !.status = "pending", !.applications[p] = 1])

Choose(r, p) ==
  /\ requests[r] # None
  /\ requests[r].status = "pending"
  /\ requests[r].applications[p] = 1
  /\ Change(r, [requests[r] EXCEPT !.status = "accepted", !.accepted = p])

Complete(r) ==
  /\ requests[r] # None
  /\ requests[r].status = "accepted"
  /\ Change(r, [requests[r] EXCEPT !.status = "completed"])

AddPhoto(r, u) ==
  /\ requests[r] # None
  /\ requests[r].status \in {"open", "pending", "accepted"}
  /\ u \notin requests[r].photos
  /\ Change(r, [requests[r] EXCEPT !.photos = @ \cup {u}])

Expire(r) ==
  /\ Due(r)
  /\ Change(r, [requests[r] EXCEPT !.status = "closed"])

Tick == clock' = clock + 1 /\ UNCHANGED requests

Next ==
  \/ \E r \in Requests :
       \/ Publish(r) \/ Complete(r) \/ Expire(r)
       \/ \E p \in Providers : Apply(r, p) \/ Choose(r, p)
       \/ \E u \in Uploads : AddPhoto(r, u)
  \/ Tick

Lifecycle == Init /\ [][Next]_vars

(* Closing is not left undone.                                              *)
Timely == \A r \in Requests : Due(r) ~> ~Unsettled(r)

Spec == Lifecycle /\ Timely
==============================================================================
