----------------------------- MODULE MCFulfilment -----------------------------
(* Small instances of Fulfilment.  A behaviour takes every operation of the *)
(* two services, one at a time and with failures, or it overlaps them; then *)
(* of the order operations only the cancelation, as neither the listeners   *)
(* nor the threads tell the others apart.  OrderService's own runs overlap  *)
(* all of them.                                                             *)
EXTENDS Fulfilment

VARIABLE overlap

mcVars == <<vars, overlap>>

MCInit == Init /\ overlap \in BOOLEAN

OneAtATime == \A j, k \in Jobs : job'[j] # Idle /\ job'[k] # Idle => j = k
Alone == ~overlap /\ OneAtATime /\ UNCHANGED overlap
Overlapped == overlap /\ UNCHANGED <<faults, overlap>>

CancelNext ==
  \E j \in Jobs :
    \/ \E o \in Orders, user \in Users : CancelOrder(j, o, user)
    \/ SaveOrder(j)

(* POST /threads is called without failures only, one at a time, until it   *)
(* has created a thread, and by providers who did not apply.                *)
OneCall ==
  /\ faults = 0
  /\ \A j \in Jobs : job[j].op \notin {"call.ensure", "call.create"}
  /\ \A o \in Orders : \A i \in DOMAIN threads[o] : threads[o][i].by = "listener"
  /\ \E j \in Jobs, o \in Orders, c \in Customers, p \in Providers :
       AskThread(j, o, c, p) /\ ~Applied(orders[o].request, p)

MCNext ==
  \/ RequestNext /\ UNCHANGED <<orders, threads>> /\ Alone
  \/ OrderNext /\ UNCHANGED <<requests, threads>> /\ Alone
  \/ \E j \in Jobs : ListenerStep(j) /\ Alone
  \/ \E j \in Jobs : ListenerAbort(j) /\ Alone
  \/ OneCall /\ Alone
  \/ (Tick \/ Crash) /\ UNCHANGED <<requests, orders, threads>> /\ Alone
  \/ RequestNext /\ UNCHANGED <<orders, threads>> /\ Overlapped
  \/ CancelNext /\ UNCHANGED <<requests, threads>> /\ Overlapped
  \/ \E j \in Jobs : ListenerStep(j) /\ Overlapped
  \/ OneCall /\ Overlapped
  \/ Tick /\ UNCHANGED <<requests, orders, threads>> /\ Overlapped

MCFairness ==
  \A j \in Jobs :
    /\ WF_mcVars(RequestStep(j) /\ UNCHANGED <<orders, threads, overlap>>)
    /\ WF_mcVars(ListenerStep(j) /\ UNCHANGED overlap)

MCSpec == MCInit /\ [][MCNext]_mcVars /\ MCFairness

(* When handlers do not overlap, an order and its thread are handed over    *)
(* whole, and an ended order's thread is archived.                          *)
SerialHandover == ~overlap => Handover /\ EndedOrderArchived
==============================================================================
