----------------------------- MODULE OrderService -----------------------------
(****************************************************************************)
(* Orders: orders.service.ts.  As for requests, an operation loads the      *)
(* order, checks what it loaded and saves the fields it assigned in a later *)
(* database call that checks nothing.  Orders themselves are inserted and   *)
(* changed by the listeners of request events too (module Fulfilment).      *)
(****************************************************************************)
EXTENDS Backend

(* ApprovalDelay: how long completion stays pending before the cron.        *)
CONSTANTS Orders, Admin, ApprovalDelay

ASSUME ApprovalAssumption == ApprovalDelay \in Nat

VARIABLE orders

orderVars == <<orders, job, clock, faults>>

OrderStatus == {"assigned", "in_progress", "pending_completion", "completed", "canceled"}

(* started, canceled and ets: whether startedAt, canceledAt and providerEts *)
(* are set.  requestedAt is completionRequestedAt.                          *)
OrderDoc ==
  [request : Requests, customer : Customers, provider : Providers,
   status : OrderStatus, started : BOOLEAN, canceled : BOOLEAN, ets : BOOLEAN,
   requestedAt : Nat \cup {None}, completedAt : Nat \cup {None}]

(* The part of it OrderPromise is about.                                    *)
OrderView ==
  [request : Requests, customer : Customers, provider : Providers,
   status : OrderStatus, requestedAt : Nat \cup {None}]

ASSUME NullIsNoOrder == None \notin OrderDoc \cup OrderView

OrderCall == {"order.start", "order.request", "order.approve", "order.decline",
              "order.cancel", "order.ets"}
OrderEvent == {"order.completed", "order.canceled"}

OrderJob ==
       [op : OrderCall, oid : Orders, at : Nat]
  \cup [op : OrderEvent, oid : Orders]
  \cup [op : {"order.expire"}, batch : SUBSET Orders]

OrderExists(o) == orders[o] # None
WriteOrder(o, doc) == orders' = [orders EXCEPT ![o] = doc]

---------------------------------------------------------------------------
(* Slips: operators of the code below as a plausible error would have them. *)
(* No specification uses them; each makes one of the properties fail.       *)
NotCompleted(o) == orders[o].status # "completed"
RequestedUndated(doc, at) == [doc EXCEPT !.status = "pending_completion"]
DeclinedDated(doc) == [doc EXCEPT !.status = "in_progress"]
ExpiredInProgress(now) ==
  {o \in Orders : OrderExists(o) /\ orders[o].status = "in_progress"}
CanceledSilently(op, o) ==
  IF op = "order.approve" THEN [op |-> "order.completed", oid |-> o] ELSE Idle
NewOrderSwapped(r, c, p) ==
  [request |-> r, customer |-> p, provider |-> c, status |-> "assigned",
   started |-> FALSE, canceled |-> FALSE, ets |-> FALSE,
   requestedAt |-> None, completedAt |-> None]

---------------------------------------------------------------------------
(* What the handlers check.                                                 *)
Ongoing(o) == orders[o].status \notin {"completed", "canceled"}
IsOwner(o, user) == user = orders[o].customer \/ user = Admin
IsAssignee(o, user) == user = orders[o].provider \/ user = Admin

(* The document the request.accepted listener inserts.                      *)
NewOrder(r, c, p) ==
  [request |-> r, customer |-> c, provider |-> p, status |-> "assigned",
   started |-> FALSE, canceled |-> FALSE, ets |-> FALSE,
   requestedAt |-> None, completedAt |-> None]

---------------------------------------------------------------------------
(* The handlers up to the save: the dates they assign are read here.        *)
Call(j, o, op) ==
  /\ Free(j) /\ OrderExists(o)
  /\ Become(j, [op |-> op, oid |-> o, at |-> clock])
  /\ UNCHANGED <<orders, clock, faults>>

StartOrder(j, o, user) ==
  /\ Call(j, o, "order.start")
  /\ IsAssignee(o, user)
  /\ orders[o].status = "assigned"

(* completeOrder: for the provider a request for approval ...               *)
RequestCompletion(j, o, user) ==
  /\ Call(j, o, "order.request")
  /\ user = orders[o].provider
  /\ orders[o].status = "in_progress"

(* ... for the customer or an admin the approval.                           *)
ApproveCompletion(j, o, user) ==
  /\ Call(j, o, "order.approve")
  /\ user # orders[o].provider
  /\ IsOwner(o, user)
  /\ orders[o].status = "pending_completion"

DeclineCompletion(j, o, user) ==
  /\ Call(j, o, "order.decline")
  /\ user = orders[o].customer
  /\ orders[o].status = "pending_completion"

CancelOrder(j, o, user) ==
  /\ Call(j, o, "order.cancel")
  /\ IsOwner(o, user)
  /\ Ongoing(o)

SetProviderEts(j, o, user) ==
  /\ Call(j, o, "order.ets")
  /\ user = orders[o].provider
  /\ Ongoing(o)

---------------------------------------------------------------------------
(* What each save sends.                                                    *)
Started(doc) == [doc EXCEPT !.status = "in_progress", !.started = TRUE]
Requested(doc, at) ==
  [doc EXCEPT !.status = "pending_completion", !.requestedAt = at]
Completed(doc, at) == [doc EXCEPT !.status = "completed", !.completedAt = at]
Declined(doc) == [doc EXCEPT !.status = "in_progress", !.requestedAt = None]
Canceled(doc) == [doc EXCEPT !.status = "canceled", !.canceled = TRUE]

Saved(op, doc, at) ==
  CASE op = "order.start"   -> Started(doc)
    [] op = "order.request" -> Requested(doc, at)
    [] op = "order.approve" -> Completed(doc, at)
    [] op = "order.decline" -> Declined(doc)
    [] op = "order.cancel"  -> Canceled(doc)
    [] op = "order.ets"     -> [doc EXCEPT !.ets = TRUE]

(* The events that have a listener; the other two go nowhere.               *)
Emitted(op, o) ==
  CASE op = "order.approve" -> [op |-> "order.completed", oid |-> o]
    [] op = "order.cancel"  -> [op |-> "order.canceled", oid |-> o]
    [] OTHER                -> Idle

SaveOrder(j) ==
  /\ job[j].op \in OrderCall
  /\ WriteOrder(job[j].oid, Saved(job[j].op, orders[job[j].oid], job[j].at))
  /\ Become(j, Emitted(job[j].op, job[j].oid))
  /\ UNCHANGED <<clock, faults>>

---------------------------------------------------------------------------
(* autoCompleteExpiredOrders.  The cron runs daily, one run at a time.      *)
Expired(now) ==
  {o \in Orders : /\ OrderExists(o)
                  /\ orders[o].status = "pending_completion"
                  /\ orders[o].requestedAt # None
                  /\ orders[o].requestedAt + ApprovalDelay <= now}

ExpireStart(j) ==
  /\ Free(j)
  /\ \A k \in Jobs : job[k].op # "order.expire"
  /\ Expired(clock) # {}
  /\ Become(j, [op |-> "order.expire", batch |-> Expired(clock)])
  /\ UNCHANGED <<orders, clock, faults>>

(* The listener job of the event needs a slot k of its own, unless the loop *)
(* ends here.                                                               *)
ExpireOne(j, o, k) ==
  /\ job[j].op = "order.expire" /\ o \in job[j].batch
  /\ WriteOrder(o, Completed(orders[o], clock))
  /\ LET rest  == job[j].batch \ {o}
         event == [op |-> "order.completed", oid |-> o]
     IN IF rest = {}
        THEN k = j /\ Become(j, event)
        ELSE /\ Free(k)
             /\ job' = [job EXCEPT ![j].batch = rest, ![k] = event]
  /\ UNCHANGED <<clock, faults>>

(* A save that throws ends the handler, the cron's loop included.           *)
OrderAbort(j) ==
  /\ job[j] \in OrderJob
  /\ Abort(j)
  /\ UNCHANGED orders

OrderUserCall(j, o, user) ==
  \/ StartOrder(j, o, user)
  \/ RequestCompletion(j, o, user)
  \/ ApproveCompletion(j, o, user)
  \/ DeclineCompletion(j, o, user)
  \/ CancelOrder(j, o, user)
  \/ SetProviderEts(j, o, user)

OrderStep(j) ==
  \/ SaveOrder(j)
  \/ \E o \in Orders, k \in Jobs : ExpireOne(j, o, k)

Users == Customers \cup Providers \cup {Admin}

OrderNext ==
  \/ \E j \in Jobs, o \in Orders, user \in Users : OrderUserCall(j, o, user)
  \/ \E j \in Jobs : OrderStep(j) \/ ExpireStart(j) \/ OrderAbort(j)

---------------------------------------------------------------------------
(* On its own: an order appears as the request.accepted listener inserts    *)
(* it, and events go nowhere.                                               *)
Assigned(o, r, c, p) ==
  /\ ~OrderExists(o)
  /\ WriteOrder(o, NewOrder(r, c, p))
  /\ UNCHANGED <<job, clock, faults>>

Unheard(j) ==
  /\ job[j].op \in OrderEvent
  /\ Finish(j)
  /\ UNCHANGED <<orders, clock, faults>>

OrderInit ==
  /\ BackendInit
  /\ orders = [o \in Orders |-> None]

OrdersAlone ==
  \/ OrderNext
  \/ \E o \in Orders, r \in Requests, c \in Customers, p \in Providers :
       Assigned(o, r, c, p)
  \/ \E j \in Jobs : Unheard(j)
  \/ (Tick \/ Crash) /\ UNCHANGED orders

OrderSpec == OrderInit /\ [][OrdersAlone]_orderVars

(* Node resumes the handlers whose database call has returned.  The cron    *)
(* fires every day, and emits, whatever else is running: it waits for no    *)
(* job slot, which only exist in the model, hence the strong fairness.      *)
OrderFairness ==
  /\ \A j \in Jobs :
       /\ WF_orderVars(SaveOrder(j) \/ Unheard(j))
       /\ SF_orderVars(\E o \in Orders, k \in Jobs : ExpireOne(j, o, k))
  /\ SF_orderVars(\E j \in Jobs : ExpireStart(j))

FairOrderSpec == OrderSpec /\ OrderFairness

---------------------------------------------------------------------------
(* Every document fits the Mongoose schema and every job the handlers' code. *)
OrderTypeOK ==
  /\ orders \in [Orders -> OrderDoc \cup {None}]
  /\ job \in [Jobs -> OrderJob \cup {Idle}]
  /\ clock \in Nat /\ faults \in Nat

(* The status an order shows is backed by the date of the step that led to  *)
(* it, whichever saves met on the document.  The cron's query needs the     *)
(* date of a pending completion, the messaging grace period completedAt.    *)
StatusHasDate ==
  \A o \in Orders :
    OrderExists(o) =>
      /\ orders[o].status \in {"in_progress", "pending_completion"} => orders[o].started
      /\ orders[o].status = "pending_completion" => orders[o].requestedAt # None
      /\ orders[o].status = "completed" => orders[o].completedAt # None
      /\ orders[o].status = "canceled" => orders[o].canceled

(* The jobs in flight that will save a status to o.                         *)
WritingOrder(o) ==
  \E j \in Jobs :
    \/ job[j].op \in OrderCall \ {"order.ets"} /\ job[j].oid = o
    \/ job[j].op = "order.expire" /\ o \in job[j].batch

Ended(o) == OrderExists(o) /\ orders[o].status \in {"completed", "canceled"}

SettledOrder(o) == Ended(o) /\ ~WritingOrder(o)

(* A completed or canceled order that no operation had loaded before keeps  *)
(* its status, and no operation gets past the checks to change it.          *)
OrderFinality ==
  [][\A o \in Orders :
       SettledOrder(o) => SettledOrder(o)' /\ orders'[o].status = orders[o].status
    ]_orderVars

Unanswered(o) ==
  /\ OrderExists(o)
  /\ orders[o].status = "pending_completion"
  /\ orders[o].requestedAt + ApprovalDelay <= clock

(* A completion the customer leaves unanswered for ApprovalDelay does not   *)
(* stay pending, although one failing save ends the cron's whole batch.     *)
SilenceApproves == \A o \in Orders : Unanswered(o) ~> ~Unanswered(o)

(* With operations that do not overlap, every save is one of the atomic     *)
(* steps of OrderPromise.                                                   *)
SeenOrder(doc) ==
  [f \in {"request", "customer", "provider", "status", "requestedAt"} |-> doc[f]]
SeenOrders ==
  [o \in Orders |-> IF orders[o] = None THEN None ELSE SeenOrder(orders[o])]

OrderPromised == INSTANCE OrderPromise WITH orders <- SeenOrders

(* What the service does to an order is what OrderPromise allows.           *)
KeepsOrderPromise == OrderPromised!Spec
==============================================================================
