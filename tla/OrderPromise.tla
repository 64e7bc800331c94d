----------------------------- MODULE OrderPromise -----------------------------
(****************************************************************************)
(* What an order promises its customer and its provider, one atomic step    *)
(* per operation: work starts once, completion takes the customer's word or *)
(* ApprovalDelay of silence since it was asked for, a refusal gives the     *)
(* order back to the provider, and what is completed or canceled stays so.  *)
(****************************************************************************)
EXTENDS Naturals

CONSTANTS Orders, Requests, Customers, Providers, None, ApprovalDelay

VARIABLES orders, clock

vars == <<orders, clock>>

Status(o) == IF orders[o] = None THEN "none" ELSE orders[o].status
Change(o, doc) ==
  /\ orders' = [orders EXCEPT ![o] = doc]
  /\ UNCHANGED clock
Move(o, from, to) ==
  /\ Status(o) = from
  /\ Change(o, [orders[o] EXCEPT !.status = to])

Init ==
  /\ orders = [o \in Orders |-> None]
  /\ clock = 0

Assign(o) ==
  /\ Status(o) = "none"
  /\ \E r \in Requests, c \in Customers, p \in Providers :
       Change(o, [request |-> r, customer |-> c, provider |-> p,
                  status |-> "assigned", requestedAt |-> None])

Start(o) == Move(o, "assigned", "in_progress")

AskApproval(o) ==
  /\ Status(o) = "in_progress"
  /\ \E now \in 0..clock :
       Change(o, [orders[o] EXCEPT !.status = "pending_completion",
                                   !.requestedAt = now])

Refuse(o) ==
  /\ Status(o) = "pending_completion"
  /\ Change(o, [orders[o] EXCEPT !.status = "in_progress", !.requestedAt = None])

Silent(o) ==
  /\ Status(o) = "pending_completion"
  /\ orders[o].requestedAt + ApprovalDelay <= clock

(* By the customer, or by the cron when the customer has been silent.       *)
Approve(o) == Move(o, "pending_completion", "completed")

Cancel(o) ==
  /\ Status(o) \in {"assigned", "in_progress", "pending_completion"}
  /\ Change(o, [orders[o] EXCEPT !.status = "canceled"])

Tick == clock' = clock + 1 /\ UNCHANGED orders

Next ==
  \/ \E o \in Orders :
       Assign(o) \/ Start(o) \/ AskApproval(o) \/ Refuse(o) \/ Approve(o) \/ Cancel(o)
  \/ Tick

Lifecycle == Init /\ [][Next]_vars

(* Silence is taken for approval in the end.                                *)
Timely == \A o \in Orders : Silent(o) ~> ~Silent(o)

Spec == Lifecycle /\ Timely
==============================================================================
