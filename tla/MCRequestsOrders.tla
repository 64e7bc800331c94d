--------------------------- MODULE MCRequestsOrders ---------------------------
(* RequestService and OrderService side by side, each on its own: part     *)
(* says which of the two a behaviour is about.  Orders need no time beyond  *)
(* one past the silence that approves them.                                 *)
EXTENDS RequestService, OrderService, TLC

VARIABLE part

mcVars == <<requests, orders, job, clock, faults, part>>

MCInit ==
  /\ RequestInit
  /\ orders = [o \in Orders |-> None]
  /\ part \in {"requests", "orders"}

InRequests == part = "requests" /\ UNCHANGED <<orders, part>>
InOrders == part = "orders" /\ clock' <= ApprovalDelay + 1 /\ UNCHANGED <<requests, part>>

MCNext ==
  \/ RequestsAlone /\ InRequests
  \/ OrdersAlone /\ InOrders

(* RequestFairness and OrderFairness, each in its part.                     *)
MCFairness ==
  /\ \A j \in Jobs :
       /\ WF_mcVars((RequestStep(j) \/ SweepStep(j) \/ Undelivered(j)) /\ InRequests)
       /\ WF_mcVars((SaveOrder(j) \/ Unheard(j)) /\ InOrders)
       /\ SF_mcVars(\E o \in Orders, k \in Jobs : ExpireOne(j, o, k) /\ InOrders)
  /\ SF_mcVars(\E j \in Jobs : SweepStart(j) /\ InRequests)
  /\ SF_mcVars(\E j \in Jobs : ExpireStart(j) /\ InOrders)

Races == MCInit /\ [][MCNext]_mcVars
MCSpec == Races /\ MCFairness

Symmetry == Permutations(Jobs) \cup Permutations(Providers)
===============================================================================
