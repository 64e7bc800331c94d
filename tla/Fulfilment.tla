------------------------------ MODULE Fulfilment ------------------------------
(****************************************************************************)
(* Requests, orders and chat threads together: the listeners that turn an   *)
(* accepted request into an order with a thread, a completed request into a *)
(* completed order, and an order that ends into an archived thread          *)
(* (request-to-order.listener.ts, order-status.listener.ts).  POST /threads *)
(* reaches the same createOrGetThread, with whatever participants it names. *)
(*                                                                          *)
(* Listeners are registered with {async: true} and swallow their errors.    *)
(* Orders get increasing ids, so the first by id is the first inserted,     *)
(* which is the one findOne returns.                                        *)
(****************************************************************************)
EXTENDS RequestService, OrderService, Sequences, FiniteSetsExt

ASSUME OrderIds == Orders \subseteq Nat

(* threads[o]: the thread documents of order o, oldest first.  Their field  *)
(* by is a history of the model: who had the thread created.                *)
VARIABLE threads

vars == <<requests, orders, threads, job, clock, faults>>

ThreadDoc ==
  [customer : Customers, provider : Providers, status : {"open", "archived"},
   by : {"listener", "call"}]

ListenerJob ==
       [op : {"order.insert"}, rid : Requests, who : Providers]
  \cup [op : {"order.reassign"}, oid : Orders, who : Providers, customer : Customers,
        seenStatus : OrderStatus, seenProvider : Providers]
  \cup [op : {"order.finish"}, oid : Orders, at : Nat, seenStatus : OrderStatus]
  \cup [op : {"thread.ensure", "thread.create", "call.ensure", "call.create"},
        oid : Orders, who : Providers, customer : Customers]
  \cup [op : {"thread.archive"}, oid : Orders]

OrdersOf(r) == {o \in Orders : OrderExists(o) /\ orders[o].request = r}
FirstOrder(r) == Min(OrdersOf(r))
UnusedIds == {o \in Orders : ~OrderExists(o)}

(* save() sends a status only if it differs from the loaded one: assigning  *)
(* the value a field already has does not mark it modified.                 *)
Assigning(field, loaded, value) == IF loaded = value THEN field ELSE value

---------------------------------------------------------------------------
(* Slips: operators of the code below as a plausible error would have them. *)
(* No specification uses them; each makes one of the properties fail.       *)
NeverCreate(j) ==
  /\ Running(j, "thread.ensure")
  /\ Finish(j)
  /\ UNCHANGED <<requests, orders, threads, clock, faults>>

---------------------------------------------------------------------------
EnsureThread(j, o, c, p) ==
  Become(j, [op |-> "thread.ensure", oid |-> o, who |-> p, customer |-> c])

---------------------------------------------------------------------------
(* handleRequestAccepted, up to the look-up of the order.                   *)
RequestAccepted(j) ==
  /\ Running(j, "request.accepted")
  /\ LET r == job[j].rid
         p == job[j].who
     IN IF OrdersOf(r) = {}
        THEN Become(j, [op |-> "order.insert", rid |-> r, who |-> p])
        ELSE LET o == FirstOrder(r)
             IN Become(j, [op |-> "order.reassign", oid |-> o, who |-> p,
                           customer |-> requests[r].customer,
                           seenStatus |-> orders[o].status,
                           seenProvider |-> orders[o].provider])
  /\ UNCHANGED <<requests, orders, threads, clock, faults>>

InsertOrder(j) ==
  /\ Running(j, "order.insert")
  /\ UnusedIds # {}
  /\ LET o == Min(UnusedIds)
         c == requests[job[j].rid].customer
     IN /\ WriteOrder(o, NewOrder(job[j].rid, c, job[j].who))
        /\ EnsureThread(j, o, c, job[j].who)
  /\ UNCHANGED <<requests, threads, clock, faults>>

ReassignOrder(j) ==
  /\ Running(j, "order.reassign")
  /\ WriteOrder(job[j].oid,
       [orders[job[j].oid] EXCEPT
          !.status   = Assigning(@, job[j].seenStatus, "assigned"),
          !.provider = Assigning(@, job[j].seenProvider, job[j].who)])
  /\ EnsureThread(j, job[j].oid, job[j].customer, job[j].who)
  /\ UNCHANGED <<requests, threads, clock, faults>>

(* POST /threads: any signed-in user, any order, any participants.          *)
AskThread(j, o, c, p) ==
  /\ Free(j)
  /\ OrderExists(o)
  /\ Become(j, [op |-> "call.ensure", oid |-> o, who |-> p, customer |-> c])
  /\ UNCHANGED <<requests, orders, threads, clock, faults>>

(* createOrGetThread looks for a thread of the order, then creates one.     *)
FindThread(j) ==
  /\ job[j].op \in {"thread.ensure", "call.ensure"}
  /\ IF threads[job[j].oid] = <<>>
     THEN Become(j, [job[j] EXCEPT
                       !.op = IF @ = "thread.ensure" THEN "thread.create" ELSE "call.create"])
     ELSE Finish(j)
  /\ UNCHANGED <<requests, orders, threads, clock, faults>>

CreateThread(j) ==
  /\ job[j].op \in {"thread.create", "call.create"}
  /\ threads' = [threads EXCEPT ![job[j].oid] =
                   Append(@, [customer |-> job[j].customer, provider |-> job[j].who,
                              status |-> "open",
                              by |-> IF job[j].op = "thread.create"
                                     THEN "listener" ELSE "call"])]
  /\ Finish(j)
  /\ UNCHANGED <<requests, orders, clock, faults>>

(* handleRequestCompleted; it emits no order.completed.                     *)
RequestCompleted(j) ==
  /\ Running(j, "request.completed")
  /\ LET r == job[j].rid
     IN IF OrdersOf(r) = {}
        THEN Finish(j)
        ELSE Become(j, [op |-> "order.finish", oid |-> FirstOrder(r), at |-> clock,
                        seenStatus |-> orders[FirstOrder(r)].status])
  /\ UNCHANGED <<requests, orders, threads, clock, faults>>

FinishOrder(j) ==
  /\ Running(j, "order.finish")
  /\ WriteOrder(job[j].oid,
       [orders[job[j].oid] EXCEPT
          !.status      = Assigning(@, job[j].seenStatus, "completed"),
          !.completedAt = job[j].at])
  /\ Finish(j)
  /\ UNCHANGED <<requests, threads, clock, faults>>

(* handleOrderCompleted and handleOrderCanceled archive the thread findOne  *)
(* returns; without one there is nothing to archive.                        *)
OrderEnded(j) ==
  /\ job[j].op \in OrderEvent
  /\ IF threads[job[j].oid] = <<>>
     THEN Finish(j)
     ELSE Become(j, [op |-> "thread.archive", oid |-> job[j].oid])
  /\ UNCHANGED <<requests, orders, threads, clock, faults>>

ArchiveThread(j) ==
  /\ Running(j, "thread.archive")
  /\ threads' = [threads EXCEPT ![job[j].oid][1].status = "archived"]
  /\ Finish(j)
  /\ UNCHANGED <<requests, orders, clock, faults>>

ListenerAbort(j) ==
  /\ job[j] \in ListenerJob
  /\ Abort(j)
  /\ UNCHANGED <<requests, orders, threads>>

---------------------------------------------------------------------------
ListenerStep(j) ==
  \/ RequestAccepted(j) \/ InsertOrder(j) \/ ReassignOrder(j)
  \/ FindThread(j) \/ CreateThread(j)
  \/ RequestCompleted(j) \/ FinishOrder(j)
  \/ OrderEnded(j) \/ ArchiveThread(j)

ThreadCall ==
  \E j \in Jobs, o \in Orders, c \in Customers, p \in Providers : AskThread(j, o, c, p)

Init ==
  /\ BackendInit
  /\ requests = [r \in Requests |-> None]
  /\ orders = [o \in Orders |-> None]
  /\ threads = [o \in Orders |-> <<>>]

Next ==
  \/ RequestNext /\ UNCHANGED <<orders, threads>>
  \/ OrderNext /\ UNCHANGED <<requests, threads>>
  \/ \E j \in Jobs : ListenerStep(j) \/ ListenerAbort(j)
  \/ ThreadCall
  \/ (Tick \/ Crash) /\ UNCHANGED <<requests, orders, threads>>

Spec == Init /\ [][Next]_vars

(* Node resumes the handlers whose database call has returned.              *)
Fairness ==
  \A j \in Jobs :
    /\ WF_vars(RequestStep(j) /\ UNCHANGED <<orders, threads>>)
    /\ WF_vars(ListenerStep(j))

FairSpec == Spec /\ Fairness

---------------------------------------------------------------------------
(* Every document fits its Mongoose schema, every job the handlers' code.   *)
TypeOK ==
  /\ requests \in [Requests -> RequestDoc \cup {None}]
  /\ orders \in [Orders -> OrderDoc \cup {None}]
  /\ threads \in [Orders -> Seq(ThreadDoc)]
  /\ job \in [Jobs -> RequestJob \cup OrderJob \cup ListenerJob \cup {Idle}]
  /\ clock \in Nat /\ faults \in Nat

(* No race of acceptances, applications and reassignments gives an order to *)
(* a provider who did not apply, or to another customer than the request's; *)
(* and no order exists for a request nobody was accepted for.               *)
OrderMatchesRequest ==
  \A o \in Orders :
    OrderExists(o) =>
      LET r == orders[o].request
      IN /\ Exists(r)
         /\ requests[r].accepted # None
         /\ orders[o].customer = requests[r].customer
         /\ Applied(r, orders[o].provider)

(* Every thread is of an order, and only the customer of the order and a    *)
(* provider who applied for its request are in it, also when the order has  *)
(* changed hands.  Who is in a thread that POST /threads created before a   *)
(* listener did is up to the call.                                          *)
ThreadMatchesOrder ==
  \A o \in Orders : \A i \in 1..Len(threads[o]) :
    /\ OrderExists(o)
    /\ threads[o][i].by = "listener"
         => /\ threads[o][i].customer = orders[o].customer
            /\ Applied(orders[o].request, threads[o][i].provider)

(* Who is in an order and the chat its listener opened is who the request   *)
(* brought together.                                                        *)
PartiesMatch == OrderMatchesRequest /\ ThreadMatchesOrder

AtRest == faults = 0 /\ \A j \in Jobs : Free(j)

(* When handlers do not overlap and none failed: an accepted request has    *)
(* one order, the selected provider's, with one chat, of its provider, also *)
(* after a POST /threads with other participants; and the order of a        *)
(* completed request is completed.                                          *)
Handover ==
  AtRest =>
    \A r \in Requests :
      Exists(r) /\ requests[r].accepted # None =>
        \E o \in Orders :
          /\ OrdersOf(r) = {o}
          /\ orders[o].provider = requests[r].accepted
          /\ Len(threads[o]) = 1
          /\ threads[o][1].provider = requests[r].accepted
          /\ requests[r].status = "completed" => orders[o].completedAt # None

(* An order that a customer, an admin or the cron ended has its chat closed *)
(* when handlers do not overlap; one that request.completed ended has not.  *)
EndedOrderArchived ==
  AtRest =>
    \A o \in Orders :
      /\ Ended(o)
      /\ requests[orders[o].request].status # "completed"
      => \A i \in 1..Len(threads[o]) : threads[o][i].status = "archived"

(* An accepted request gets its order and the order a chat, however many    *)
(* acceptances, calls and cancelations overlap, unless a handler failed:    *)
(* the listener's chat, or the one of a POST /threads that came before.     *)
AcceptedGetsOrder ==
  \A r \in Requests :
    (Exists(r) /\ requests[r].accepted # None)
      ~> faults > 0 \/ \E o \in OrdersOf(r) : threads[o] # <<>>

---------------------------------------------------------------------------
(* contact-policy-card.tsx:19, the chat is closed automatically when the    *)
(* order is completed or canceled.                                          *)
ChatClosesWithOrder ==
  AtRest =>
    \A o \in Orders :
      Ended(o)
        => \A i \in 1..Len(threads[o]) : threads[o][i].status = "archived"
==============================================================================
