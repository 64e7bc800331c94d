--------------------------- MODULE Fulfilment_proofs ---------------------------
(****************************************************************************)
(* Type correctness of requests, orders and threads together, and who is in *)
(* an order and its chat, for any number of requests, orders, users and     *)
(* handlers in flight, of faults, and any delay; and that the handover is   *)
(* complete where handlers do not overlap (MCFulfilment).                   *)
(****************************************************************************)
EXTENDS MCFulfilment, TLAPS, WellFoundedInduction

JobState == RequestJob \cup OrderJob \cup ListenerJob \cup {Idle}

(* The order has the parties of its request, the thread those of its order. *)
PartyOK(d) ==
  /\ Exists(d.request)
  /\ requests[d.request].accepted # None
  /\ d.customer = requests[d.request].customer
  /\ Applied(d.request, d.provider)

ChatOK(o, t) ==
  /\ OrderExists(o)
  /\ t.by = "listener" => /\ t.customer = orders[o].customer
                          /\ Applied(orders[o].request, t.provider)

(* What a handler in flight relies on when it writes without looking again: *)
(* an accepted provider has applied, and a customer the listener copied is  *)
(* still the order's.                                                       *)
OnRequest == {"apply", "accept", "request.accepted", "complete", "photos", "order.insert"}
OnOrder == OrderCall \cup {"order.finish", "order.reassign", "thread.ensure", "thread.create",
                           "call.ensure", "call.create"}

Relies(s) ==
  /\ s.op \in OnRequest => Exists(s.rid)
  /\ s.op \in {"accept", "request.accepted", "order.insert"} => Applied(s.rid, s.who)
  /\ s.op \in {"request.accepted", "order.insert"} => requests[s.rid].accepted # None
  /\ s.op \in {"notify", "close"} => \A r \in s.batch : Exists(r)
  /\ s.op \in OnOrder => OrderExists(s.oid)
  /\ s.op = "order.expire" => \A o \in s.batch : OrderExists(o)
  /\ s.op \in {"order.reassign", "thread.ensure", "thread.create"}
       => /\ s.customer = orders[s.oid].customer
          /\ Applied(orders[s.oid].request, s.who)
  /\ s.op = "thread.archive" => threads[s.oid] # <<>>

(* The inductive invariant.                                                 *)
Inv == TypeOK /\ PartiesMatch /\ \A j \in Jobs : Relies(job[j])

(* PartiesMatch document by document.                                       *)
Parties ==
  /\ \A o \in Orders : OrderExists(o) => PartyOK(orders[o])
  /\ \A o \in Orders : \A i \in 1..Len(threads[o]) : ChatOK(o, threads[o][i])

LEMMA PartiesByDoc == PartiesMatch <=> Parties
  BY DEF PartiesMatch, OrderMatchesRequest, ThreadMatchesOrder, Parties, PartyOK, ChatOK

LEMMA PartiesByDocNext == PartiesMatch' <=> Parties'
  BY PartiesByDoc, PTL

(* The facts of a state that the steps below start from.                    *)
LEMMA Facts ==
  ASSUME Inv
  PROVE  /\ TypeOK /\ Parties
         /\ clock \in Nat /\ faults \in Nat
         /\ job \in [Jobs -> JobState]
         /\ \A j \in Jobs : job[j] \in JobState /\ Relies(job[j])
         /\ \A r \in Requests : Exists(r) => requests[r] \in RequestDoc
         /\ \A o \in Orders : OrderExists(o) => orders[o] \in OrderDoc
         /\ \A o \in Orders : threads[o] \in Seq(ThreadDoc)
  <1>1. Parties
    BY PartiesByDoc DEF Inv
  <1> QED  BY <1>1 DEF Inv, TypeOK, JobState, Exists, OrderExists

(* The kinds of jobs and the fields they have.                              *)
LEMMA JobKinds ==
  ASSUME NEW s \in JobState
  PROVE  \/ s.op \in OnRequest \cup {"request.completed"} /\ s.rid \in Requests
         \/ s.op \in {"notify", "close"} /\ s.batch \subseteq Requests /\ s.now \in Nat
         \/ s.op \in OnOrder \cup OrderEvent \cup {"thread.archive"} /\ s.oid \in Orders
         \/ s.op = "order.expire" /\ s.batch \subseteq Orders
         \/ s = Idle /\ s.op = "idle"
  <1> USE DEF OnRequest, OnOrder
  <1>1. CASE s = Idle
    BY <1>1 DEF Idle
  <1>2. CASE s \in RequestJob
    BY <1>2 DEF RequestJob
  <1>3. CASE s \in OrderJob
    BY <1>3 DEF OrderJob
  <1>4. CASE s \in ListenerJob
    BY <1>4 DEF ListenerJob
  <1> QED  BY <1>1, <1>2, <1>3, <1>4 DEF JobState

(* The fields of a job by its kind.                                         *)
LEMMA JobFields ==
  ASSUME NEW s \in JobState
  PROVE  /\ s.op \in {"apply", "accept", "request.accepted", "order.insert",
                      "order.reassign", "thread.ensure", "thread.create",
                      "call.ensure", "call.create"}
              => s.who \in Providers
         /\ s.op \in {"order.reassign", "thread.ensure", "thread.create",
                      "call.ensure", "call.create"}
              => s.customer \in Customers
         /\ s.op \in OrderCall \cup {"order.finish"} => s.at \in Nat
         /\ s.op = "apply" => s.seen \in Unsettled
         /\ s.op = "photos" => s.photos \subseteq Uploads
  <1>1. CASE s = Idle
    BY <1>1 DEF Idle, OrderCall
  <1>2. CASE s \in RequestJob
    BY <1>2 DEF RequestJob, OrderCall
  <1>3. CASE s \in OrderJob
    BY <1>3 DEF OrderJob, OrderCall, OrderEvent
  <1>4. CASE s \in ListenerJob
    BY <1>4 DEF ListenerJob, OrderCall
  <1> QED  BY <1>1, <1>2, <1>3, <1>4 DEF JobState

(* A free job relies on nothing.                                            *)
LEMMA IdleOK == Idle \in JobState /\ Relies(Idle)
  BY DEF Idle, JobState, Relies, OnRequest, OnOrder, OrderCall

(* The first order of a request is one of its orders.                       *)
LEMMA MinInSet ==
  ASSUME NEW S, S \subseteq Orders, S # {}
  PROVE  Min(S) \in S
  <1>1. S \subseteq Nat
    BY OrderIds
  <1>2. PICK x \in S : \A y \in S : ~(<<y, x>> \in OpToRel(<, Nat))
    BY <1>1, NatLessThanWellFounded, WFMin
  <1>3. \A y \in S : ~(y < x)
    BY <1>1, <1>2, Zenon DEF OpToRel
  <1>4. \A y \in S : x =< y
    BY <1>1, <1>3
  <1> QED  BY <1>4 DEF Min

---------------------------------------------------------------------------
(* What no step takes back.                                                 *)
RequestsKept ==
  \A r \in Requests : Exists(r) =>
    /\ Exists(r)'
    /\ requests'[r].customer = requests[r].customer
    /\ requests[r].accepted # None => requests'[r].accepted # None
    /\ \A p \in Providers : Applied(r, p) => Applied(r, p)'

OrdersKept ==
  \A o \in Orders : OrderExists(o) =>
    /\ OrderExists(o)'
    /\ orders'[o].request = orders[o].request
    /\ orders'[o].customer = orders[o].customer

ThreadsKept == \A o \in Orders : threads[o] # <<>> => threads'[o] # <<>>

(* A handler that a step leaves alone can still rely on what it had seen.   *)
LEMMA RelianceLasts ==
  ASSUME Inv, RequestsKept, OrdersKept, ThreadsKept, NEW j \in Jobs, job'[j] = job[j]
  PROVE  Relies(job[j])'
  <1>1. job[j] \in JobState /\ Relies(job[j])
    BY Facts
  <1>2. CASE job[j].op \in OnRequest \cup {"request.completed"} /\ job[j].rid \in Requests
    <2>1. job[j].op \in {"accept", "request.accepted", "order.insert"} => job[j].who \in Providers
      BY <1>1, JobFields
    <2>2. Exists(job[j].rid) \/ job[j].op = "request.completed"
      BY <1>1, <1>2 DEF Relies
    <2> QED
      BY <1>1, <1>2, <2>1, <2>2 DEF Relies, RequestsKept, OnRequest, OnOrder, OrderCall, Exists
  <1>3. CASE job[j].op \in {"notify", "close"} /\ job[j].batch \subseteq Requests
    BY <1>1, <1>3 DEF Relies, RequestsKept, OnRequest, OnOrder, OrderCall, Exists
  <1>4. CASE job[j].op \in OnOrder \cup OrderEvent \cup {"thread.archive"} /\ job[j].oid \in Orders
    <2> DEFINE o == job[j].oid
    <2>1. /\ job[j].op \in OnOrder => OrderExists(o)
          /\ job[j].op = "thread.archive" => threads[o] # <<>>
      BY <1>1 DEF Relies
    <2>2. CASE job[j].op \in {"order.reassign", "thread.ensure", "thread.create"}
      <3>1. /\ OrderExists(o) /\ job[j].who \in Providers
            /\ job[j].customer = orders[o].customer
            /\ Applied(orders[o].request, job[j].who)
        BY <1>1, <2>1, <2>2, JobFields DEF Relies, OnOrder
      <3>2. orders[o] \in OrderDoc /\ Exists(orders[o].request)
        BY <1>4, <3>1, Facts DEF Parties, PartyOK
      <3>3. orders[o].request \in Requests
        BY <3>2 DEF OrderDoc
      <3>4. Applied(orders[o].request, job[j].who)'
        BY <1>4, <3>1, <3>2, <3>3 DEF RequestsKept, OrdersKept, Applied
      <3> QED
        BY <1>4, <2>2, <3>1, <3>4 DEF Relies, OrdersKept, OnRequest, OnOrder, OrderCall
    <2>3. CASE job[j].op \notin {"order.reassign", "thread.ensure", "thread.create"}
      BY <1>4, <2>1, <2>3
         DEF Relies, OrdersKept, ThreadsKept, OnRequest, OnOrder, OrderCall, OrderEvent
    <2> QED  BY <2>2, <2>3
  <1>5. CASE job[j].op = "order.expire" /\ job[j].batch \subseteq Orders
    BY <1>1, <1>5 DEF Relies, OrdersKept, OnRequest, OnOrder, OrderCall, OrderExists
  <1>6. CASE job[j].op = "idle"
    BY <1>6 DEF Relies, OnRequest, OnOrder, OrderCall
  <1> QED  BY <1>1, <1>2, <1>3, <1>4, <1>5, <1>6, JobKinds

---------------------------------------------------------------------------
(* A step that changes jobs only.                                           *)
LEMMA JobStep ==
  ASSUME Inv, UNCHANGED <<requests, orders, threads>>, clock' \in Nat, faults' \in Nat,
         job' \in [Jobs -> JobState],
         \A k \in Jobs : job'[k] = job[k] \/ Relies(job'[k])
  PROVE  Inv'
  <1>1. TypeOK'
    BY DEF Inv, TypeOK, JobState
  <1>2. Parties'
    BY Facts DEF Parties, PartyOK, ChatOK, Exists, OrderExists, Applied
  <1>3. \A k \in Jobs : Relies(job[k])'
    <2> TAKE k \in Jobs
    <2>1. Relies(job'[k])
      BY Facts
    <2> QED  BY <2>1 DEF Relies, Exists, OrderExists, Applied
  <1> QED  BY <1>1, <1>2, <1>3, PartiesByDocNext DEF Inv

(* A step that starts or ends the work of one slot.                         *)
LEMMA BecomeStep ==
  ASSUME Inv, UNCHANGED <<requests, orders, threads>>, clock' \in Nat, faults' \in Nat,
         NEW j \in Jobs, NEW next \in JobState, Relies(next), Become(j, next)
  PROVE  Inv'
  <1>1. /\ job' \in [Jobs -> JobState]
        /\ \A k \in Jobs : job'[k] = job[k] \/ job'[k] = next
    BY Facts DEF Become
  <1> QED  BY <1>1, JobStep

(* A step that writes one request.                                          *)
LEMMA RequestWrite ==
  ASSUME Inv, UNCHANGED <<orders, threads, clock>>, faults' \in Nat,
         NEW r \in Requests, NEW doc \in RequestDoc, Write(r, doc),
         Exists(r) =>
           /\ doc.customer = requests[r].customer
           /\ requests[r].accepted # None => doc.accepted # None
           /\ \A p \in Providers : Applied(r, p) => doc.applications[p] > 0,
         job' \in [Jobs -> JobState],
         \A k \in Jobs : job'[k] = job[k] \/ Relies(job[k])'
  PROVE  Inv'
  <1>1. \A q \in Requests : requests'[q] = IF q = r THEN doc ELSE requests[q]
    BY DEF Inv, TypeOK, Write
  <1>2. TypeOK'
    BY DEF Inv, TypeOK, Write, JobState
  <1>3. RequestsKept
    BY <1>1, NullIsNoRequest DEF RequestsKept, Exists, Applied
  <1>4. OrdersKept /\ ThreadsKept
    BY DEF OrdersKept, ThreadsKept, OrderExists
  <1>5. ASSUME NEW o \in Orders, OrderExists(o)
        PROVE  /\ orders[o].request \in Requests
               /\ PartyOK(orders[o]) /\ Exists(orders[o].request)
               /\ orders[o].provider \in Providers
    BY <1>5, Facts DEF Parties, PartyOK, OrderDoc
  <1>6. Parties'
    <2>1. ASSUME NEW o \in Orders, OrderExists(o)'  PROVE PartyOK(orders[o])'
      <3>1. OrderExists(o)
        BY <2>1 DEF OrderExists
      <3> QED  BY <1>3, <1>5, <3>1 DEF PartyOK, RequestsKept
    <2>2. ASSUME NEW o \in Orders, NEW i \in 1..Len(threads'[o])
          PROVE  ChatOK(o, threads[o][i])'
      <3>1. ChatOK(o, threads[o][i])
        BY <2>2, Facts DEF Parties
      <3>2. threads[o][i] \in ThreadDoc
        <4>1. threads[o] \in Seq(ThreadDoc) /\ i \in 1..Len(threads[o])
          BY <2>2, Facts
        <4> QED  BY <4>1
      <3>3. threads[o][i].provider \in Providers
        BY <3>2 DEF ThreadDoc
      <3> QED  BY <1>3, <1>5, <3>1, <3>3 DEF ChatOK, RequestsKept, OrderExists
    <2> QED  BY <2>1, <2>2 DEF Parties
  <1> QED  BY <1>2, <1>3, <1>4, <1>6, RelianceLasts, PartiesByDocNext DEF Inv

(* A step that writes one order, whose request and customer are for life.   *)
LEMMA OrderWrite ==
  ASSUME Inv, UNCHANGED <<requests, threads, clock, faults>>,
         NEW o \in Orders, NEW doc \in OrderDoc, WriteOrder(o, doc), PartyOK(doc),
         OrderExists(o) => /\ doc.request = orders[o].request
                           /\ doc.customer = orders[o].customer,
         job' \in [Jobs -> JobState],
         \A k \in Jobs : job'[k] = job[k] \/ Relies(job[k])'
  PROVE  Inv'
  <1>1. \A q \in Orders : orders'[q] = IF q = o THEN doc ELSE orders[q]
    BY DEF Inv, TypeOK, WriteOrder
  <1>2. TypeOK'
    BY DEF Inv, TypeOK, WriteOrder, JobState
  <1>3. OrdersKept
    BY <1>1, NullIsNoOrder DEF OrdersKept, OrderExists
  <1>4. RequestsKept /\ ThreadsKept
    BY DEF RequestsKept, ThreadsKept, Exists, Applied
  <1>5. Parties'
    <2>1. ASSUME NEW q \in Orders, OrderExists(q)'  PROVE PartyOK(orders[q])'
      <3>1. PartyOK(orders'[q])
        BY <1>1, <2>1, Facts DEF Parties, OrderExists
      <3> QED  BY <3>1 DEF PartyOK, Exists, Applied
    <2>2. ASSUME NEW q \in Orders, NEW i \in 1..Len(threads'[q])
          PROVE  ChatOK(q, threads[q][i])'
      <3>1. ChatOK(q, threads[q][i])
        BY <2>2, Facts DEF Parties
      <3> QED  BY <1>3, <3>1 DEF ChatOK, OrdersKept, Applied
    <2> QED  BY <2>1, <2>2 DEF Parties
  <1> QED  BY <1>2, <1>3, <1>4, <1>5, RelianceLasts, PartiesByDocNext DEF Inv

(* A step that writes the threads of one order.                             *)
LEMMA ThreadWrite ==
  ASSUME Inv, UNCHANGED <<requests, orders, clock, faults>>,
         NEW o \in Orders, NEW s \in Seq(ThreadDoc), s # <<>>,
         threads' = [threads EXCEPT ![o] = s],
         \A i \in 1..Len(s) : ChatOK(o, s[i]),
         job' \in [Jobs -> JobState],
         \A k \in Jobs : job'[k] = job[k] \/ Relies(job[k])'
  PROVE  Inv'
  <1>1. \A q \in Orders : threads'[q] = IF q = o THEN s ELSE threads[q]
    BY DEF Inv, TypeOK
  <1>2. TypeOK'
    BY DEF Inv, TypeOK, JobState
  <1>3. RequestsKept /\ OrdersKept /\ ThreadsKept
    BY <1>1 DEF RequestsKept, OrdersKept, ThreadsKept, Exists, OrderExists, Applied
  <1>4. Parties'
    <2>1. \A q \in Orders : OrderExists(q)' => PartyOK(orders[q])'
      BY Facts DEF Parties, PartyOK, OrderExists, Exists, Applied
    <2>2. ASSUME NEW q \in Orders, NEW i \in 1..Len(threads'[q])
          PROVE  ChatOK(q, threads[q][i])'
      <3>1. ChatOK(q, threads'[q][i])
        BY <1>1, <2>2, Facts DEF Parties
      <3> QED  BY <3>1 DEF ChatOK, OrderExists, Applied
    <2> QED  BY <2>1, <2>2 DEF Parties
  <1> QED  BY <1>2, <1>3, <1>4, RelianceLasts, PartiesByDocNext DEF Inv

(* A slot that is free or holds an event relies on nothing.                 *)
Carefree == {"idle", "request.completed"} \cup OrderEvent

(* A job of none of the kinds that write relies on nothing.                 *)
LEMMA CarefreeOK ==
  ASSUME NEW j \in Jobs, job'[j].op \in Carefree
  PROVE  Relies(job[j])'
  BY DEF Carefree, Relies, OnRequest, OnOrder, OrderCall, OrderEvent

---------------------------------------------------------------------------
(* The services' loads: what the new job relies on was just checked.        *)
LEMMA RequestLoads ==
  ASSUME Inv, UNCHANGED <<orders, threads>>, NEW j \in Jobs, NEW r \in Requests
  PROVE  /\ \A p \in Providers : ApplyLoad(j, r, p) => Inv'
         /\ \A c \in Customers, p \in Providers : AcceptLoad(j, r, c, p) => Inv'
         /\ \A user : CompleteLoad(j, r, user) => Inv'
         /\ \A c \in Customers, u \in Uploads : PhotosLoad(j, r, c, u) => Inv'
  <1> USE DEF Relies, OnRequest, OnOrder, OrderCall
  <1>1. clock \in Nat /\ faults \in Nat
    BY Facts
  <1>2. Exists(r) => requests[r] \in RequestDoc
    BY Facts
  <1>3. ASSUME NEW p \in Providers, ApplyLoad(j, r, p)  PROVE Inv'
    <2> DEFINE s == [op |-> "apply", rid |-> r, who |-> p, seen |-> requests[r].status]
    <2>1. s \in JobState /\ Relies(s)
      BY <1>3 DEF ApplyLoad, IsUnsettled, JobState, RequestJob
    <2> QED  BY <1>1, <1>3, <2>1, BecomeStep DEF ApplyLoad
  <1>4. ASSUME NEW c \in Customers, NEW p \in Providers, AcceptLoad(j, r, c, p)
        PROVE  Inv'
    <2> DEFINE s == [op |-> "accept", rid |-> r, who |-> p]
    <2>1. s \in JobState /\ Relies(s)
      BY <1>4 DEF AcceptLoad, ProviderApplied, Applied, JobState, RequestJob
    <2> QED  BY <1>1, <1>4, <2>1, BecomeStep DEF AcceptLoad
  <1>5. ASSUME NEW user, CompleteLoad(j, r, user)  PROVE Inv'
    <2> DEFINE s == [op |-> "complete", rid |-> r]
    <2>1. s \in JobState /\ Relies(s)
      BY <1>5 DEF CompleteLoad, JobState, RequestJob
    <2> QED  BY <1>1, <1>5, <2>1, BecomeStep DEF CompleteLoad
  <1>6. ASSUME NEW c \in Customers, NEW u \in Uploads, PhotosLoad(j, r, c, u)
        PROVE  Inv'
    <2> DEFINE s == [op |-> "photos", rid |-> r, photos |-> requests[r].photos \cup {u}]
    <2>1. s \in JobState /\ Relies(s)
      BY <1>2, <1>6 DEF PhotosLoad, RequestDoc, JobState, RequestJob
    <2> QED  BY <1>1, <1>6, <2>1, BecomeStep DEF PhotosLoad
  <1> QED  BY <1>3, <1>4, <1>5, <1>6

(* createRequest inserts a request nobody has applied to.                   *)
LEMMA CreateStep ==
  ASSUME Inv, UNCHANGED <<orders, threads>>, NEW r \in Requests, NEW c \in Customers,
         NEW ets \in 1..MaxClock, CreateRequest(r, c, ets)
  PROVE  Inv'
  <1> DEFINE doc == [status |-> "open", customer |-> c, ets |-> ets, notice |-> None,
                     applications |-> [p \in Providers |-> 0], accepted |-> None,
                     photos |-> {}]
  <1>1. doc \in RequestDoc
    BY BoundsAssumption DEF RequestDoc, Status
  <1>2. ~Exists(r) /\ Write(r, doc) /\ UNCHANGED <<job, clock, faults>>
    BY DEF CreateRequest
  <1> HIDE DEF doc
  <1>3. faults' \in Nat /\ job' \in [Jobs -> JobState]
    BY <1>2, Facts
  <1> QED  BY <1>1, <1>2, <1>3, RequestWrite

(* A save of one request by a handler that goes on as next, which the new   *)
(* state gives what it relies on.                                           *)
LEMMA RequestSave ==
  ASSUME Inv, UNCHANGED <<orders, threads, clock, faults>>, NEW j \in Jobs,
         NEW r \in Requests, Exists(r), NEW doc \in RequestDoc, Write(r, doc),
         doc.customer = requests[r].customer,
         requests[r].accepted # None => doc.accepted # None,
         \A p \in Providers : Applied(r, p) => doc.applications[p] > 0,
         NEW next \in JobState, Become(j, next),
         job'[j] = next => Relies(job[j])'
  PROVE  Inv'
  <1>1. /\ job' \in [Jobs -> JobState] /\ job'[j] = next
        /\ \A k \in Jobs : k # j => job'[k] = job[k]
    BY Facts DEF Become
  <1>2. \A k \in Jobs : job'[k] = job[k] \/ Relies(job[k])'
    BY <1>1
  <1>3. faults' \in Nat
    BY Facts
  <1> QED  BY <1>1, <1>2, <1>3, RequestWrite

(* What the save of an application changes.                                 *)
LEMMA PushedFields ==
  ASSUME NEW d \in RequestDoc, NEW p \in Providers, NEW seen \in Unsettled
  PROVE  /\ Pushed(d, p, seen) \in RequestDoc
         /\ Pushed(d, p, seen).accepted = d.accepted
         /\ Pushed(d, p, seen).customer = d.customer
         /\ \A q \in Providers :
              d.applications[q] > 0 => Pushed(d, p, seen).applications[q] > 0
  <1> DEFINE apps == [d.applications EXCEPT ![p] = @ + 1]
  <1>1. d.applications \in [Providers -> Nat]
    BY DEF RequestDoc
  <1>2. apps \in [Providers -> Nat]
    BY <1>1
  <1>3. \A q \in Providers : d.applications[q] > 0 => apps[q] > 0
    BY <1>1
  <1>4. Pushed(d, p, seen) =
          [d EXCEPT !.applications = apps,
                    !.status = IF seen = "open" THEN "pending" ELSE d.status]
    BY DEF Pushed, RequestDoc
  <1> HIDE DEF apps
  <1> QED  BY <1>2, <1>3, <1>4 DEF RequestDoc, Status

(* applyForRequest: the load, the save and its resend.                      *)
LEMMA ApplySteps ==
  ASSUME Inv, UNCHANGED <<orders, threads>>, NEW j \in Jobs, ApplySave(j) \/ ApplyResend(j)
  PROVE  Inv'
  <1> DEFINE r == job[j].rid
             doc == Pushed(requests[r], job[j].who, job[j].seen)
  <1>1. job[j] \in JobState /\ Relies(job[j]) /\ job[j].op = "apply"
    BY Facts DEF ApplySave, ApplyResend, Running
  <1>2. r \in Requests /\ job[j].who \in Providers /\ job[j].seen \in Unsettled
    BY <1>1, JobKinds, JobFields DEF OnRequest, OnOrder, OrderCall, OrderEvent
  <1>3. Exists(r) /\ requests[r] \in RequestDoc
    BY <1>1, <1>2, Facts DEF Relies, OnRequest
  <1>4. /\ doc \in RequestDoc /\ doc.accepted = requests[r].accepted
        /\ doc.customer = requests[r].customer
        /\ \A q \in Providers : Applied(r, q) => doc.applications[q] > 0
    BY <1>2, <1>3, PushedFields DEF Applied
  <1>5. Write(r, doc) /\ UNCHANGED clock
    BY DEF ApplySave, ApplyResend
  <1> HIDE DEF r, doc
  <1>6. CASE ApplySave(j)
    <2>1. Become(j, Idle) /\ UNCHANGED faults
      BY <1>6 DEF ApplySave, Finish
    <2>2. job'[j] = Idle => Relies(job[j])'
      BY CarefreeOK DEF Carefree, Idle
    <2> QED  BY <1>2, <1>3, <1>4, <1>5, <2>1, <2>2, IdleOK, RequestSave
  <1>7. CASE ApplyResend(j)
    <2>1. job' = job /\ job' \in [Jobs -> JobState] /\ faults' \in Nat
      BY <1>7, Facts DEF ApplyResend, Faulty
    <2> QED  BY <1>2, <1>4, <1>5, <2>1, RequestWrite
  <1> QED  BY <1>6, <1>7

(* The provider an acceptance selects had applied, and the listener's job   *)
(* finds the request accepted.                                              *)
LEMMA AcceptStep ==
  ASSUME Inv, UNCHANGED <<orders, threads>>, NEW j \in Jobs, AcceptWrite(j)
  PROVE  Inv'
  <1> DEFINE r == job[j].rid
             p == job[j].who
             doc == Selected(requests[r], p)
             next == [op |-> "request.accepted", rid |-> r, who |-> p]
  <1>1. job[j] \in JobState /\ Relies(job[j]) /\ job[j].op = "accept"
    BY Facts DEF AcceptWrite, Running
  <1>2. r \in Requests /\ p \in Providers
    BY <1>1, JobKinds, JobFields DEF OnRequest, OnOrder, OrderCall, OrderEvent
  <1>3. Exists(r) /\ Applied(r, p) /\ requests[r] \in RequestDoc
    BY <1>1, <1>2, Facts DEF Relies, OnRequest
  <1>4. /\ doc \in RequestDoc /\ doc.accepted = p /\ p # None
        /\ doc.customer = requests[r].customer
        /\ doc.applications = requests[r].applications
    BY <1>2, <1>3, NoneAssumption DEF Selected, RequestDoc, Status
  <1>5. job[j] = [op |-> "accept", rid |-> r, who |-> p]
    BY <1>1 DEF JobState, RequestJob, OrderJob, ListenerJob, Idle, OrderCall, OrderEvent
  <1>6. next \in JobState /\ next = [job[j] EXCEPT !.op = "request.accepted"]
    BY <1>2, <1>5 DEF JobState, RequestJob
  <1>7. Write(r, doc) /\ Become(j, next) /\ UNCHANGED <<clock, faults>>
    BY <1>6 DEF AcceptWrite
  <1>8. requests'[r] = doc /\ doc # None
    BY <1>2, <1>4, <1>7, NullIsNoRequest DEF Write, Inv, TypeOK
  <1>9. job'[j] = next => Relies(job[j])'
    <2> SUFFICES ASSUME job'[j] = next  PROVE Relies(job[j])'
      OBVIOUS
    <2>1. job'[j].op = "request.accepted" /\ job'[j].rid = r /\ job'[j].who = p
      OBVIOUS
    <2>2. requests'[r] # None /\ requests'[r].applications[p] > 0 /\ requests'[r].accepted # None
      BY <1>3, <1>4, <1>8 DEF Applied
    <2> HIDE DEF r, p, doc, next
    <2> QED  BY <2>1, <2>2 DEF Relies, OnRequest, OnOrder, OrderCall, Exists, Applied
  <1>10. \A q \in Providers : Applied(r, q) => doc.applications[q] > 0
    BY <1>4 DEF Applied
  <1> HIDE DEF r, p, doc, next
  <1> QED  BY <1>2, <1>3, <1>4, <1>6, <1>7, <1>9, <1>10, RequestSave

(* completeRequest, and the event it emits.                                 *)
LEMMA CompleteStep ==
  ASSUME Inv, UNCHANGED <<orders, threads>>, NEW j \in Jobs, CompleteWrite(j)
  PROVE  Inv'
  <1> DEFINE r == job[j].rid
             doc == [requests[r] EXCEPT !.status = "completed"]
             next == [op |-> "request.completed", rid |-> r]
  <1>1. job[j] \in JobState /\ Relies(job[j]) /\ job[j].op = "complete"
    BY Facts DEF CompleteWrite, Running
  <1>2. r \in Requests
    BY <1>1, JobKinds DEF OnRequest, OnOrder, OrderCall, OrderEvent
  <1>3. Exists(r) /\ requests[r] \in RequestDoc
    BY <1>1, <1>2, Facts DEF Relies, OnRequest
  <1>4. /\ doc \in RequestDoc /\ doc.accepted = requests[r].accepted
        /\ doc.customer = requests[r].customer
        /\ \A q \in Providers : Applied(r, q) => doc.applications[q] > 0
    BY <1>3 DEF RequestDoc, Status, Applied
  <1>5. job[j] = [op |-> "complete", rid |-> r]
    BY <1>1 DEF JobState, RequestJob, OrderJob, ListenerJob, Idle, OrderCall, OrderEvent
  <1>6. next \in JobState /\ next = [job[j] EXCEPT !.op = "request.completed"]
    BY <1>2, <1>5 DEF JobState, RequestJob
  <1>7. Write(r, doc) /\ Become(j, next) /\ UNCHANGED <<clock, faults>>
    BY <1>6 DEF CompleteWrite
  <1>8. job'[j] = next => Relies(job[j])'
    BY CarefreeOK DEF Carefree
  <1> HIDE DEF r, doc, next
  <1> QED  BY <1>2, <1>3, <1>4, <1>6, <1>7, <1>8, RequestSave

(* addRequestPhotos.                                                        *)
LEMMA PhotosStep ==
  ASSUME Inv, UNCHANGED <<orders, threads>>, NEW j \in Jobs, PhotosWrite(j)
  PROVE  Inv'
  <1> DEFINE r == job[j].rid
             doc == [requests[r] EXCEPT !.photos = job[j].photos]
  <1>1. job[j] \in JobState /\ Relies(job[j]) /\ job[j].op = "photos"
    BY Facts DEF PhotosWrite, Running
  <1>2. r \in Requests /\ job[j].photos \subseteq Uploads
    BY <1>1, JobKinds, JobFields DEF OnRequest, OnOrder, OrderCall, OrderEvent
  <1>3. Exists(r) /\ requests[r] \in RequestDoc
    BY <1>1, <1>2, Facts DEF Relies, OnRequest
  <1>4. /\ doc \in RequestDoc /\ doc.accepted = requests[r].accepted
        /\ doc.customer = requests[r].customer
        /\ \A q \in Providers : Applied(r, q) => doc.applications[q] > 0
    BY <1>2, <1>3 DEF RequestDoc, Applied
  <1>5. Write(r, doc) /\ Become(j, Idle) /\ UNCHANGED <<clock, faults>>
    BY DEF PhotosWrite, Finish
  <1>6. job'[j] = Idle => Relies(job[j])'
    BY CarefreeOK DEF Carefree, Idle
  <1> HIDE DEF r, doc
  <1> QED  BY <1>2, <1>3, <1>4, <1>5, <1>6, IdleOK, RequestSave

---------------------------------------------------------------------------
(* The sweeper.  Its batches hold requests that exist.                      *)
LEMMA SweepJob ==
  ASSUME Inv, NEW j \in Jobs, job[j].op \in {"notify", "close"}
  PROVE  /\ job[j].now \in Nat
         /\ job[j].batch \subseteq Requests
         /\ \A r \in job[j].batch : Exists(r)
         /\ \A r : /\ Rest(j, r) \in JobState
                   /\ Rest(j, r).op = job[j].op
                   /\ Rest(j, r).batch = job[j].batch \ {r}
                   /\ Relies(Rest(j, r))
  <1>1. job[j] \in JobState /\ Relies(job[j])
    BY Facts
  <1>2. job[j] \in [op : {"notify", "close"}, now : Nat, batch : SUBSET Requests]
    BY <1>1 DEF JobState, RequestJob, OrderJob, ListenerJob, Idle, OrderCall, OrderEvent
  <1>3. \A r \in job[j].batch : Exists(r)
    BY <1>1 DEF Relies
  <1>4. ASSUME NEW r
        PROVE  /\ Rest(j, r) \in JobState
               /\ Rest(j, r).op = job[j].op
               /\ Rest(j, r).batch = job[j].batch \ {r}
               /\ Relies(Rest(j, r))
    <2>1. /\ Rest(j, r) \in [op : {"notify", "close"}, now : Nat, batch : SUBSET Requests]
          /\ Rest(j, r).op = job[j].op
          /\ Rest(j, r).batch = job[j].batch \ {r}
      BY <1>2 DEF Rest
    <2>2. Rest(j, r) \in JobState
      BY <2>1 DEF JobState, RequestJob
    <2>3. Relies(Rest(j, r))
      BY <1>3, <2>1 DEF Relies, OnRequest, OnOrder, OrderCall
    <2> QED  BY <2>1, <2>2, <2>3
  <1> QED  BY <1>2, <1>3, <1>4

(* processExpiry: its start and its two queries.                            *)
LEMMA SweepQueries ==
  ASSUME Inv, UNCHANGED <<orders, threads>>, NEW j \in Jobs, SweepStart(j) \/ SweepOverdue(j)
  PROVE  Inv'
  <1> USE DEF Relies, OnRequest, OnOrder, OrderCall
  <1>1. clock \in Nat /\ faults \in Nat
    BY Facts
  <1>2. CASE SweepStart(j)
    <2> DEFINE s == [op |-> "notify", now |-> clock, batch |-> Found(NoticeDue, clock)]
    <2>1. s \in JobState /\ Relies(s)
      BY <1>1 DEF Found, JobState, RequestJob
    <2> QED  BY <1>1, <1>2, <2>1, BecomeStep DEF SweepStart
  <1>3. CASE SweepOverdue(j)
    <2> DEFINE s == [op |-> "close", now |-> job[j].now,
                     batch |-> Found(ClosureDue, job[j].now)]
    <2>1. job[j].now \in Nat
      BY <1>3, SweepJob DEF SweepOverdue, Running
    <2>2. s \in JobState /\ Relies(s)
      BY <2>1 DEF Found, JobState, RequestJob
    <2> QED  BY <1>1, <1>3, <2>2, BecomeStep DEF SweepOverdue
  <1> QED  BY <1>2, <1>3

(* processExpiry: the saves of its two loops.                               *)
LEMMA SweepWrites ==
  ASSUME Inv, UNCHANGED <<orders, threads>>, NEW j \in Jobs, NEW r \in Requests,
         Notify(j, r) \/ CloseOne(j, r)
  PROVE  Inv'
  <1>1. job[j].op \in {"notify", "close"} /\ r \in job[j].batch
    BY DEF Notify, CloseOne, Running
  <1>2. Exists(r) /\ requests[r] \in RequestDoc
    BY <1>1, SweepJob, Facts
  <1>3. PICK doc \in RequestDoc :
          /\ Write(r, doc)
          /\ doc.accepted = requests[r].accepted
          /\ doc.customer = requests[r].customer
          /\ \A q \in Providers : Applied(r, q) => doc.applications[q] > 0
    <2>1. CASE Notify(j, r)
      <3>1. job[j].now \in Nat
        BY <1>1, SweepJob
      <3> QED  BY <1>2, <2>1, <3>1 DEF Notify, RequestDoc, Applied
    <2>2. CASE CloseOne(j, r)
      BY <1>2, <2>2 DEF CloseOne, RequestDoc, Status, Applied
    <2> QED  BY <2>1, <2>2
  <1>4. PICK s \in JobState : s = Rest(j, r) /\ s.op = job[j].op /\ s.batch = job[j].batch \ {r}
    BY <1>1, SweepJob
  <1>5. Become(j, s) /\ UNCHANGED <<clock, faults>>
    BY <1>4 DEF Notify, CloseOne
  <1>6. \A q \in Requests : Exists(q) => Exists(q)'
    BY <1>3, NullIsNoRequest DEF Exists, Write, Inv, TypeOK
  <1>7. \A q \in s.batch : Exists(q)'
    BY <1>1, <1>4, <1>6, SweepJob
  <1>8. job'[j] = s => Relies(job[j])'
    BY <1>1, <1>4, <1>7 DEF Relies, OnRequest, OnOrder, OrderCall
  <1> QED  BY <1>2, <1>3, <1>5, <1>8, RequestSave

(* A sweep that skips or ends, a handler that is cut off.                   *)
LEMMA RequestEnds ==
  ASSUME Inv, UNCHANGED <<orders, threads>>, NEW j \in Jobs,
         SweepEnd(j) \/ RequestAbort(j) \/ \E r \in Requests : SweepSkip(j, r)
  PROVE  Inv'
  <1>1. clock \in Nat /\ faults \in Nat
    BY Facts
  <1>2. CASE SweepEnd(j) \/ RequestAbort(j)
    BY <1>1, <1>2, IdleOK, BecomeStep DEF SweepEnd, RequestAbort, Abort, Faulty, Finish
  <1>3. ASSUME NEW r \in Requests, SweepSkip(j, r)  PROVE Inv'
    <2>1. Rest(j, r) \in JobState /\ Relies(Rest(j, r))
      BY <1>3, SweepJob DEF SweepSkip
    <2> QED  BY <1>1, <1>3, <2>1, BecomeStep DEF SweepSkip, Faulty
  <1> QED  BY <1>2, <1>3

(* The steps of RequestService together.                                    *)
LEMMA RequestSteps ==
  ASSUME Inv, RequestNext, UNCHANGED <<orders, threads>>
  PROVE  Inv'
  <1>1. ASSUME NEW j \in Jobs, NEW r \in Requests, CustomerCall(j, r) \/ ProviderCall(j, r)
        PROVE  Inv'
    BY <1>1, RequestLoads DEF CustomerCall, ProviderCall
  <1>2. ASSUME NEW j \in Jobs, RequestStep(j) \/ ApplyResend(j)  PROVE Inv'
    BY <1>2, ApplySteps, AcceptStep, CompleteStep, PhotosStep DEF RequestStep
  <1>3. ASSUME NEW j \in Jobs, SweepStart(j) \/ SweepStep(j)  PROVE Inv'
    BY <1>3, SweepQueries, SweepWrites, RequestEnds DEF SweepStep
  <1>4. ASSUME NEW j \in Jobs, NEW r \in Requests, SweepSkip(j, r) \/ RequestAbort(j)
        PROVE  Inv'
    BY <1>4, RequestEnds
  <1>5. ASSUME NEW j \in Jobs, RequestAbort(j)  PROVE Inv'
    BY <1>5, RequestEnds
  <1> QED  BY <1>1, <1>2, <1>3, <1>4, <1>5, CreateStep DEF RequestNext

---------------------------------------------------------------------------
(* The order service.                                                       *)
LEMMA OrderCalls ==
  ASSUME Inv, UNCHANGED <<requests, threads>>, NEW j \in Jobs, NEW o \in Orders, NEW user,
         OrderUserCall(j, o, user)
  PROVE  Inv'
  <1>1. PICK op \in OrderCall : Call(j, o, op)
    BY DEF OrderUserCall, OrderCall, StartOrder, RequestCompletion, ApproveCompletion,
           DeclineCompletion, CancelOrder, SetProviderEts
  <1> DEFINE s == [op |-> op, oid |-> o, at |-> clock]
  <1>2. clock \in Nat /\ faults \in Nat
    BY Facts
  <1>3. s \in JobState
    BY <1>2 DEF JobState, OrderJob
  <1>4. Relies(s)
    BY <1>1 DEF Call, Relies, OnRequest, OrderCall
  <1> QED  BY <1>1, <1>2, <1>3, <1>4, BecomeStep DEF Call

(* A save of one order by a handler that goes on as next.                   *)
LEMMA OrderSave ==
  ASSUME Inv, UNCHANGED <<requests, threads, clock, faults>>, NEW j \in Jobs,
         NEW o \in Orders, NEW doc \in OrderDoc, WriteOrder(o, doc), PartyOK(doc),
         OrderExists(o) => /\ doc.request = orders[o].request
                           /\ doc.customer = orders[o].customer,
         NEW next \in JobState, Become(j, next),
         job'[j] = next => Relies(job[j])'
  PROVE  Inv'
  <1>1. /\ job' \in [Jobs -> JobState] /\ job'[j] = next
        /\ \A k \in Jobs : k # j => job'[k] = job[k]
    BY Facts DEF Become
  <1>2. \A k \in Jobs : job'[k] = job[k] \/ Relies(job[k])'
    BY <1>1
  <1> QED  BY <1>1, <1>2, OrderWrite

(* The saves of the order service leave the parties alone.                  *)
LEMMA SavedKeeps ==
  ASSUME NEW d \in OrderDoc, NEW at \in Nat, NEW op \in OrderCall
  PROVE  /\ Saved(op, d, at) \in OrderDoc
         /\ Saved(op, d, at).request = d.request
         /\ Saved(op, d, at).customer = d.customer
         /\ Saved(op, d, at).provider = d.provider
  <1> USE DEF OrderDoc, OrderStatus, Saved
  <1>1. CASE op = "order.start"
    BY <1>1 DEF Started
  <1>2. CASE op = "order.request"
    BY <1>2 DEF Requested
  <1>3. CASE op = "order.approve"
    BY <1>3 DEF Completed
  <1>4. CASE op = "order.decline"
    BY <1>4 DEF Declined
  <1>5. CASE op = "order.cancel"
    BY <1>5 DEF Canceled
  <1>6. CASE op = "order.ets"
    BY <1>6
  <1> QED  BY <1>1, <1>2, <1>3, <1>4, <1>5, <1>6 DEF OrderCall

(* A listener of an order event relies on the order only.                   *)
LEMMA EventOK ==
  ASSUME NEW o \in Orders, NEW op \in OrderEvent
  PROVE  [op |-> op, oid |-> o] \in JobState
  BY DEF JobState, OrderJob

(* The save of an order operation, and the event it emits.                  *)
LEMMA SaveStep ==
  ASSUME Inv, UNCHANGED <<requests, threads>>, NEW j \in Jobs, SaveOrder(j)
  PROVE  Inv'
  <1> DEFINE o == job[j].oid
             d == Saved(job[j].op, orders[o], job[j].at)
             s == Emitted(job[j].op, o)
  <1>1. job[j] \in JobState /\ Relies(job[j]) /\ job[j].op \in OrderCall
    BY Facts DEF SaveOrder
  <1>2. o \in Orders /\ job[j].at \in Nat
    BY <1>1, JobKinds, JobFields DEF OnRequest, OnOrder, OrderCall, OrderEvent
  <1>3. OrderExists(o)
    BY <1>1 DEF Relies, OnOrder
  <1>4. orders[o] \in OrderDoc /\ PartyOK(orders[o])
    BY <1>2, <1>3, Facts DEF Parties
  <1>5. /\ d \in OrderDoc /\ d.request = orders[o].request
        /\ d.customer = orders[o].customer /\ d.provider = orders[o].provider
    BY <1>1, <1>2, <1>4, SavedKeeps
  <1>6. PartyOK(d)
    BY <1>4, <1>5 DEF PartyOK
  <1>7. s \in JobState /\ s.op \in Carefree
    <2>1. s \in {Idle, [op |-> "order.completed", oid |-> o], [op |-> "order.canceled", oid |-> o]}
      BY <1>1 DEF Emitted, OrderCall
    <2>2. s \in JobState
      BY <1>2, <2>1, IdleOK, EventOK DEF OrderEvent
    <2>3. s.op \in {"idle", "order.completed", "order.canceled"}
      BY <2>1 DEF Idle
    <2> QED  BY <2>2, <2>3 DEF Carefree, OrderEvent
  <1>8. WriteOrder(o, d) /\ Become(j, s) /\ UNCHANGED <<clock, faults>>
    BY DEF SaveOrder
  <1> HIDE DEF o, d, s
  <1>9. job'[j] = s => Relies(job[j])'
    BY <1>7, CarefreeOK
  <1> QED  BY <1>2, <1>5, <1>6, <1>7, <1>8, <1>9, OrderSave

(* The query of the cron.                                                   *)
LEMMA ExpireStartStep ==
  ASSUME Inv, UNCHANGED <<requests, threads>>, NEW j \in Jobs, ExpireStart(j)
  PROVE  Inv'
  <1> DEFINE s == [op |-> "order.expire", batch |-> Expired(clock)]
  <1>1. clock \in Nat /\ faults \in Nat
    BY Facts
  <1>2. s \in JobState /\ Relies(s)
    BY DEF Expired, JobState, OrderJob, Relies, OnRequest, OnOrder, OrderCall
  <1> QED  BY <1>1, <1>2, BecomeStep DEF ExpireStart

(* One save of the cron, and the listener of its event.                     *)
LEMMA ExpireOneStep ==
  ASSUME Inv, UNCHANGED <<requests, threads>>, NEW j \in Jobs, NEW o \in Orders,
         NEW k \in Jobs, ExpireOne(j, o, k)
  PROVE  Inv'
  <1> DEFINE d == Completed(orders[o], clock)
             rest == job[j].batch \ {o}
             event == [op |-> "order.completed", oid |-> o]
  <1>1. /\ job[j] \in JobState /\ Relies(job[j]) /\ job \in [Jobs -> JobState]
        /\ clock \in Nat /\ job[j].op = "order.expire" /\ o \in job[j].batch
    BY Facts DEF ExpireOne
  <1>2. job[j] \in [op : {"order.expire"}, batch : SUBSET Orders]
    BY <1>1 DEF JobState, RequestJob, OrderJob, ListenerJob, Idle, OrderCall, OrderEvent
  <1>3. \A q \in job[j].batch : OrderExists(q)
    BY <1>1 DEF Relies
  <1>4. orders[o] \in OrderDoc /\ PartyOK(orders[o])
    BY <1>1, <1>3, Facts DEF Parties
  <1>5. /\ d \in OrderDoc /\ d.request = orders[o].request
        /\ d.customer = orders[o].customer /\ d.provider = orders[o].provider
    BY <1>1, <1>4 DEF Completed, OrderDoc, OrderStatus
  <1>6. PartyOK(d)
    BY <1>4, <1>5 DEF PartyOK
  <1>7. \A q \in job[j].batch : OrderExists(q)'
    <2>1. \A q \in Orders : orders'[q] = IF q = o THEN d ELSE orders[q]
      BY DEF ExpireOne, WriteOrder, Inv, TypeOK
    <2> QED  BY <1>2, <1>3, <1>5, <2>1, NullIsNoOrder DEF OrderExists
  <1>8. event \in JobState /\ event.op \in Carefree
    BY EventOK DEF Carefree, OrderEvent
  <1>9. job' \in [Jobs -> JobState] /\ \A i \in Jobs : job'[i] = job[i] \/ Relies(job[i])'
    <2>1. CASE rest = {}
      <3>1. job' = [job EXCEPT ![j] = event]
        BY <2>1 DEF ExpireOne, Become
      <3>2. Relies(job[j])'
        BY <1>1, <1>8, <3>1, CarefreeOK
      <3> QED  BY <1>1, <1>8, <3>1, <3>2
    <2>2. CASE rest # {}
      <3>1. Free(k) /\ job' = [job EXCEPT ![j].batch = rest, ![k] = event]
        BY <2>2 DEF ExpireOne
      <3>2. k # j
        BY <1>1, <3>1 DEF Free, Idle
      <3> DEFINE s == [job[j] EXCEPT !.batch = rest]
      <3>3. s = [op |-> "order.expire", batch |-> rest]
        BY <1>2
      <3>4. s \in JobState
        BY <1>2, <3>3 DEF JobState, OrderJob
      <3>5. \A i \in Jobs : job'[i] = IF i = k THEN event ELSE IF i = j THEN s ELSE job[i]
        BY <1>1, <3>1, <3>2
      <3>6. job' \in [Jobs -> JobState]
        BY <1>1, <1>8, <3>1, <3>4, <3>5
      <3>7. Relies(job[k])'
        BY <1>8, <3>5, CarefreeOK
      <3>8. job'[j].op = "order.expire" /\ job'[j].batch \subseteq job[j].batch
        BY <3>2, <3>3, <3>5
      <3>9. Relies(job[j])'
        BY <1>7, <3>8 DEF Relies, OnRequest, OnOrder, OrderCall
      <3> QED  BY <3>5, <3>6, <3>7, <3>9
    <2> QED  BY <2>1, <2>2
  <1>10. WriteOrder(o, d) /\ UNCHANGED <<clock, faults>>
    BY DEF ExpireOne
  <1> HIDE DEF d, rest, event
  <1> QED  BY <1>5, <1>6, <1>9, <1>10, OrderWrite

(* The steps of OrderService together.                                      *)
LEMMA OrderSteps ==
  ASSUME Inv, OrderNext, UNCHANGED <<requests, threads>>
  PROVE  Inv'
  <1>1. ASSUME NEW j \in Jobs, OrderStep(j)  PROVE Inv'
    BY <1>1, SaveStep, ExpireOneStep DEF OrderStep
  <1>2. ASSUME NEW j \in Jobs, OrderAbort(j)  PROVE Inv'
    BY <1>2, Facts, IdleOK, BecomeStep DEF OrderAbort, Abort, Faulty, Finish
  <1> QED  BY <1>1, <1>2, OrderCalls, ExpireStartStep DEF OrderNext

---------------------------------------------------------------------------
(* The listeners.                                                           *)
LEMMA FirstOrderIs ==
  ASSUME NEW r \in Requests, OrdersOf(r) # {}
  PROVE  /\ FirstOrder(r) \in Orders
         /\ OrderExists(FirstOrder(r))
         /\ orders[FirstOrder(r)].request = r
  BY MinInSet DEF FirstOrder, OrdersOf

(* The job that looks for a thread is a listener job.                       *)
LEMMA EnsureOK ==
  ASSUME NEW o \in Orders, NEW c \in Customers, NEW p \in Providers,
         NEW op \in {"thread.ensure", "thread.create", "call.ensure", "call.create"}
  PROVE  [op |-> op, oid |-> o, who |-> p, customer |-> c] \in JobState
  BY DEF JobState, ListenerJob

(* The look-up hands on the customer of the request, who is the order's.    *)
LEMMA AcceptedStep ==
  ASSUME Inv, NEW j \in Jobs, RequestAccepted(j)
  PROVE  Inv'
  <1> DEFINE r == job[j].rid
             p == job[j].who
  <1>1. job[j] \in JobState /\ Relies(job[j]) /\ job[j].op = "request.accepted"
    BY Facts DEF RequestAccepted, Running
  <1>2. r \in Requests /\ p \in Providers
    BY <1>1, JobKinds, JobFields DEF OnRequest, OnOrder, OrderCall, OrderEvent
  <1>3. Exists(r) /\ Applied(r, p) /\ requests[r].accepted # None
    BY <1>1 DEF Relies, OnRequest
  <1>4. clock \in Nat /\ faults \in Nat
    BY Facts
  <1>5. CASE OrdersOf(r) = {}
    <2> DEFINE s == [op |-> "order.insert", rid |-> r, who |-> p]
    <2>1. s \in JobState
      BY <1>2 DEF JobState, ListenerJob
    <2>2. Relies(s)
      BY <1>3 DEF Relies, OnRequest, OnOrder, OrderCall
    <2>3. Become(j, s) /\ UNCHANGED <<requests, orders, threads, clock, faults>>
      BY <1>5 DEF RequestAccepted
    <2> HIDE DEF s
    <2> QED  BY <1>4, <2>1, <2>2, <2>3, BecomeStep
  <1>6. CASE OrdersOf(r) # {}
    <2> DEFINE o == FirstOrder(r)
               s == [op |-> "order.reassign", oid |-> o, who |-> p,
                     customer |-> requests[r].customer,
                     seenStatus |-> orders[o].status,
                     seenProvider |-> orders[o].provider]
    <2>1. o \in Orders /\ OrderExists(o) /\ orders[o].request = r
      BY <1>2, <1>6, FirstOrderIs
    <2>2. orders[o] \in OrderDoc /\ orders[o].customer = requests[r].customer
      BY <2>1, Facts DEF Parties, PartyOK
    <2>3. s \in JobState
      BY <1>2, <2>1, <2>2 DEF OrderDoc, JobState, ListenerJob
    <2>4. /\ s.op = "order.reassign" /\ s.oid = o /\ s.who = p
          /\ s.customer = orders[o].customer
      BY <2>2
    <2>5. Become(j, s) /\ UNCHANGED <<requests, orders, threads, clock, faults>>
      BY <1>6 DEF RequestAccepted
    <2> HIDE DEF s, o, r, p
    <2>6. Relies(s)
      BY <1>3, <2>1, <2>4 DEF Relies, OnRequest, OnOrder, OrderCall
    <2> QED  BY <1>4, <2>3, <2>5, <2>6, BecomeStep
  <1> QED  BY <1>5, <1>6

(* What the job that sees to the thread relies on, in the state the order   *)
(* has been written in.                                                     *)
LEMMA EnsureRelies ==
  ASSUME NEW j \in Jobs, NEW o, NEW c, NEW p,
         job'[j] = [op |-> "thread.ensure", oid |-> o, who |-> p, customer |-> c],
         orders'[o] # None, orders'[o].customer = c,
         requests'[orders'[o].request].applications[p] > 0
  PROVE  Relies(job[j])'
  <1>1. job'[j].op = "thread.ensure" /\ job'[j].oid = o /\ job'[j].who = p /\ job'[j].customer = c
    OBVIOUS
  <1> QED  BY <1>1 DEF Relies, OnRequest, OnOrder, OrderCall, OrderExists, Applied

(* The listener inserts the order of the accepted request.                  *)
LEMMA InsertStep ==
  ASSUME Inv, NEW j \in Jobs, InsertOrder(j)
  PROVE  Inv'
  <1> DEFINE r == job[j].rid
             p == job[j].who
             o == Min(UnusedIds)
             c == requests[r].customer
             doc == NewOrder(r, c, p)
             s == [op |-> "thread.ensure", oid |-> o, who |-> p, customer |-> c]
  <1>1. job[j] \in JobState /\ Relies(job[j]) /\ job[j].op = "order.insert"
    BY Facts DEF InsertOrder, Running
  <1>2. r \in Requests /\ p \in Providers
    BY <1>1, JobKinds, JobFields DEF OnRequest, OnOrder, OrderCall, OrderEvent
  <1>3. /\ Exists(r) /\ Applied(r, p) /\ requests[r].accepted # None
        /\ requests[r] \in RequestDoc
    BY <1>1, <1>2, Facts DEF Relies, OnRequest
  <1>4. o \in Orders /\ ~OrderExists(o)
    <2>1. UnusedIds \subseteq Orders /\ UnusedIds # {}
      BY DEF InsertOrder, UnusedIds
    <2> QED  BY <2>1, MinInSet DEF UnusedIds
  <1>5. c \in Customers
    BY <1>3 DEF RequestDoc
  <1>6. /\ doc \in OrderDoc /\ doc.request = r /\ doc.customer = c /\ doc.provider = p
    BY <1>2, <1>5 DEF NewOrder, OrderDoc, OrderStatus
  <1>7. PartyOK(doc)
    BY <1>3, <1>6 DEF PartyOK
  <1>8. s \in JobState
    BY <1>2, <1>4, <1>5, EnsureOK
  <1>9. /\ WriteOrder(o, doc) /\ Become(j, s)
        /\ UNCHANGED <<requests, threads, clock, faults>>
    BY DEF InsertOrder, EnsureThread
  <1>10. orders'[o] = doc /\ doc # None
    BY <1>4, <1>6, <1>9, NullIsNoOrder DEF WriteOrder, Inv, TypeOK
  <1>11. requests'[r].applications[p] > 0
    BY <1>3, <1>9 DEF Applied
  <1> HIDE DEF r, p, o, c, doc
  <1>12. job'[j] = s => Relies(job[j])'
    BY <1>6, <1>10, <1>11, EnsureRelies
  <1> HIDE DEF s
  <1> QED  BY <1>4, <1>6, <1>7, <1>8, <1>9, <1>12, OrderSave

(* The listener reassigns the order it found.                               *)
LEMMA ReassignStep ==
  ASSUME Inv, NEW j \in Jobs, ReassignOrder(j)
  PROVE  Inv'
  <1> DEFINE o == job[j].oid
             p == job[j].who
             c == job[j].customer
             doc == [orders[o] EXCEPT !.status = Assigning(@, job[j].seenStatus, "assigned"),
                                      !.provider = Assigning(@, job[j].seenProvider, p)]
             s == [op |-> "thread.ensure", oid |-> o, who |-> p, customer |-> c]
  <1>1. job[j] \in JobState /\ Relies(job[j]) /\ job[j].op = "order.reassign"
    BY Facts DEF ReassignOrder, Running
  <1>2. o \in Orders /\ p \in Providers /\ c \in Customers
    BY <1>1, JobKinds, JobFields DEF OnRequest, OnOrder, OrderCall, OrderEvent
  <1>3. OrderExists(o) /\ c = orders[o].customer /\ Applied(orders[o].request, p)
    BY <1>1 DEF Relies, OnOrder
  <1>4. orders[o] \in OrderDoc /\ PartyOK(orders[o])
    BY <1>2, <1>3, Facts DEF Parties
  <1>5. /\ doc \in OrderDoc /\ doc.request = orders[o].request
        /\ doc.customer = orders[o].customer
        /\ doc.provider \in {p, orders[o].provider}
    BY <1>2, <1>4 DEF Assigning, OrderDoc, OrderStatus
  <1>6. PartyOK(doc)
    BY <1>3, <1>4, <1>5 DEF PartyOK
  <1>7. s \in JobState
    BY <1>2, EnsureOK
  <1>8. /\ WriteOrder(o, doc) /\ Become(j, s)
        /\ UNCHANGED <<requests, threads, clock, faults>>
    BY DEF ReassignOrder, EnsureThread
  <1>9. orders'[o] = doc /\ doc # None
    BY <1>2, <1>5, <1>8, NullIsNoOrder DEF WriteOrder, Inv, TypeOK
  <1>10. requests'[orders[o].request].applications[p] > 0
    BY <1>3, <1>8 DEF Applied
  <1> HIDE DEF p, o, c, doc
  <1>11. job'[j] = s => Relies(job[j])'
    BY <1>3, <1>5, <1>9, <1>10, EnsureRelies
  <1> HIDE DEF s
  <1> QED  BY <1>2, <1>5, <1>6, <1>7, <1>8, <1>11, OrderSave

(* A call asks for the thread of an order that exists.                      *)
LEMMA AskStep ==
  ASSUME Inv, ThreadCall
  PROVE  Inv'
  <1>1. PICK j \in Jobs, o \in Orders, c \in Customers, p \in Providers : AskThread(j, o, c, p)
    BY DEF ThreadCall
  <1> DEFINE s == [op |-> "call.ensure", oid |-> o, who |-> p, customer |-> c]
  <1>2. s \in JobState
    BY EnsureOK
  <1>3. Relies(s)
    BY <1>1 DEF AskThread, Relies, OnRequest, OnOrder, OrderCall
  <1>4. Become(j, s) /\ UNCHANGED <<requests, orders, threads, clock, faults>>
    BY <1>1 DEF AskThread
  <1>5. clock \in Nat /\ faults \in Nat
    BY Facts
  <1> HIDE DEF s
  <1> QED  BY <1>2, <1>3, <1>4, <1>5, BecomeStep

(* The thread a listener creates has the parties the order had and has.     *)
LEMMA ThreadSteps ==
  ASSUME Inv, NEW j \in Jobs, FindThread(j) \/ CreateThread(j)
  PROVE  Inv'
  <1> DEFINE o == job[j].oid
             p == job[j].who
             c == job[j].customer
  <1>1. /\ job[j] \in JobState /\ Relies(job[j])
        /\ job[j].op \in {"thread.ensure", "thread.create", "call.ensure", "call.create"}
    BY Facts DEF FindThread, CreateThread
  <1>2. o \in Orders /\ p \in Providers /\ c \in Customers
    BY <1>1, JobKinds, JobFields DEF OnRequest, OnOrder, OrderCall, OrderEvent
  <1>3. /\ OrderExists(o)
        /\ job[j].op \in {"thread.ensure", "thread.create"}
             => c = orders[o].customer /\ Applied(orders[o].request, p)
    BY <1>1 DEF Relies, OnOrder
  <1>4. clock \in Nat /\ faults \in Nat
    BY Facts
  <1>5. CASE FindThread(j)
    <2> DEFINE op == IF job[j].op = "thread.ensure" THEN "thread.create" ELSE "call.create"
               s == [op |-> op, oid |-> o, who |-> p, customer |-> c]
    <2>1. job[j] \in [op : {"thread.ensure", "thread.create", "call.ensure", "call.create"},
                      oid : Orders, who : Providers, customer : Customers]
      BY <1>1 DEF JobState, RequestJob, OrderJob, ListenerJob, Idle, OrderCall, OrderEvent
    <2>2. s = [job[j] EXCEPT !.op = IF @ = "thread.ensure" THEN "thread.create" ELSE "call.create"]
      BY <2>1
    <2>3. s \in JobState
      BY <1>2, EnsureOK
    <2>4. Relies(s)
      BY <1>3 DEF Relies, OnRequest, OnOrder, OrderCall
    <2>5. UNCHANGED <<requests, orders, threads, clock, faults>>
      BY <1>5 DEF FindThread
    <2>6. Become(j, s) \/ Become(j, Idle)
      BY <1>5, <2>2 DEF FindThread, Finish
    <2> HIDE DEF s
    <2> QED  BY <1>4, <2>3, <2>4, <2>5, <2>6, IdleOK, BecomeStep
  <1>6. CASE CreateThread(j)
    <2> DEFINE t == [customer |-> c, provider |-> p, status |-> "open",
                     by |-> IF job[j].op = "thread.create" THEN "listener" ELSE "call"]
               s == Append(threads[o], t)
    <2>1. t \in ThreadDoc /\ ChatOK(o, t)
      BY <1>2, <1>3 DEF ThreadDoc, ChatOK
    <2>2. threads[o] \in Seq(ThreadDoc)
      BY <1>2, Facts
    <2>3. \A i \in 1..Len(threads[o]) : ChatOK(o, threads[o][i])
      BY <1>2, Facts DEF Parties
    <2>4. threads' = [threads EXCEPT ![o] = s]
      BY <1>6 DEF CreateThread
    <2>5. Become(j, Idle) /\ UNCHANGED <<requests, orders, clock, faults>>
      BY <1>6 DEF CreateThread, Finish
    <2> HIDE DEF t, o
    <2>6. /\ s \in Seq(ThreadDoc) /\ Len(s) = Len(threads[o]) + 1
          /\ \A i \in 1..Len(threads[o]) : s[i] = threads[o][i]
          /\ s[Len(threads[o]) + 1] = t
      BY <2>1, <2>2
    <2>7. s # <<>>
      BY <2>2, <2>6
    <2> HIDE DEF s
    <2>8. \A i \in 1..Len(s) : ChatOK(o, s[i])
      <3>1. Len(threads[o]) \in Nat
        BY <2>2
      <3>2. \A i \in 1..Len(s) : i \in 1..Len(threads[o]) \/ i = Len(threads[o]) + 1
        BY <2>6, <3>1
      <3>3. ASSUME NEW i \in 1..Len(s)  PROVE ChatOK(o, s[i])
        <4>1. CASE i \in 1..Len(threads[o])
          <5>1. s[i] = threads[o][i]
            BY <2>6, <4>1
          <5> QED  BY <2>3, <4>1, <5>1
        <4>2. CASE i = Len(threads[o]) + 1
          BY <2>1, <2>6, <4>2
        <4> QED  BY <3>2, <4>1, <4>2
      <3> QED  BY <3>3
    <2>9. job'[j] = Idle /\ job' \in [Jobs -> JobState]
          /\ \A k \in Jobs : k # j => job'[k] = job[k]
      BY <2>5, Facts, IdleOK DEF Become
    <2>10. Relies(job[j])'
      BY <2>9, CarefreeOK DEF Carefree, Idle
    <2>11. \A k \in Jobs : job'[k] = job[k] \/ Relies(job[k])'
      BY <2>9, <2>10
    <2> QED  BY <1>2, <2>4, <2>5, <2>6, <2>7, <2>8, <2>9, <2>11, ThreadWrite DEF o
  <1> QED  BY <1>5, <1>6

(* The listener of request.completed looks for the order.                   *)
LEMMA CompletedStep ==
  ASSUME Inv, NEW j \in Jobs, RequestCompleted(j)
  PROVE  Inv'
  <1> DEFINE r == job[j].rid
             o == FirstOrder(r)
             s == [op |-> "order.finish", oid |-> o, at |-> clock,
                   seenStatus |-> orders[o].status]
  <1>1. job[j] \in JobState /\ job[j].op = "request.completed" /\ clock \in Nat /\ faults \in Nat
    BY Facts DEF RequestCompleted, Running
  <1>2. r \in Requests
    BY <1>1, JobKinds DEF OnRequest, OnOrder, OrderCall, OrderEvent
  <1>3. UNCHANGED <<requests, orders, threads, clock, faults>>
    BY DEF RequestCompleted
  <1>4. CASE OrdersOf(r) = {}
    BY <1>1, <1>3, <1>4, IdleOK, BecomeStep DEF RequestCompleted, Finish
  <1>5. CASE OrdersOf(r) # {}
    <2>1. o \in Orders /\ OrderExists(o)
      BY <1>2, <1>5, FirstOrderIs
    <2>2. orders[o].status \in OrderStatus
      BY <2>1, Facts DEF OrderDoc
    <2>3. s \in JobState
      BY <1>1, <2>1, <2>2 DEF JobState, ListenerJob
    <2>4. Relies(s)
      BY <2>1 DEF Relies, OnRequest, OnOrder, OrderCall
    <2>5. Become(j, s)
      BY <1>5 DEF RequestCompleted
    <2> HIDE DEF s
    <2> QED  BY <1>1, <1>3, <2>3, <2>4, <2>5, BecomeStep
  <1> QED  BY <1>4, <1>5

(* The listener of request.completed completes the order.                   *)
LEMMA FinishStep ==
  ASSUME Inv, NEW j \in Jobs, FinishOrder(j)
  PROVE  Inv'
  <1> DEFINE o == job[j].oid
             doc == [orders[o] EXCEPT !.status = Assigning(@, job[j].seenStatus, "completed"),
                                      !.completedAt = job[j].at]
  <1>1. job[j] \in JobState /\ Relies(job[j]) /\ job[j].op = "order.finish"
    BY Facts DEF FinishOrder, Running
  <1>2. o \in Orders /\ job[j].at \in Nat
    BY <1>1, JobKinds, JobFields DEF OnRequest, OnOrder, OrderCall, OrderEvent
  <1>3. OrderExists(o)
    BY <1>1 DEF Relies, OnOrder
  <1>4. orders[o] \in OrderDoc /\ PartyOK(orders[o])
    BY <1>2, <1>3, Facts DEF Parties
  <1>5. /\ doc \in OrderDoc /\ doc.request = orders[o].request
        /\ doc.customer = orders[o].customer /\ doc.provider = orders[o].provider
    BY <1>2, <1>4 DEF Assigning, OrderDoc, OrderStatus
  <1>6. PartyOK(doc)
    BY <1>4, <1>5 DEF PartyOK
  <1>7. /\ WriteOrder(o, doc) /\ Become(j, Idle)
        /\ UNCHANGED <<requests, threads, clock, faults>>
    BY DEF FinishOrder, Finish
  <1>8. job'[j] = Idle => Relies(job[j])'
    BY CarefreeOK DEF Carefree, Idle
  <1> HIDE DEF o, doc
  <1> QED  BY <1>2, <1>5, <1>6, <1>7, <1>8, IdleOK, OrderSave

(* The listener of an ended order looks for its thread.                     *)
LEMMA EndedStep ==
  ASSUME Inv, NEW j \in Jobs, OrderEnded(j)
  PROVE  Inv'
  <1> DEFINE o == job[j].oid
             s == [op |-> "thread.archive", oid |-> o]
  <1>1. job[j] \in JobState /\ job[j].op \in OrderEvent /\ clock \in Nat /\ faults \in Nat
    BY Facts DEF OrderEnded
  <1>2. o \in Orders
    BY <1>1, JobKinds DEF OnRequest, OnOrder, OrderCall, OrderEvent
  <1>3. UNCHANGED <<requests, orders, threads, clock, faults>>
    BY DEF OrderEnded
  <1>4. CASE threads[o] = <<>>
    BY <1>1, <1>3, <1>4, IdleOK, BecomeStep DEF OrderEnded, Finish
  <1>5. CASE threads[o] # <<>>
    <2>1. s \in JobState
      BY <1>2 DEF JobState, ListenerJob
    <2>2. Relies(s)
      BY <1>5 DEF Relies, OnRequest, OnOrder, OrderCall
    <2>3. Become(j, s)
      BY <1>5 DEF OrderEnded
    <2> HIDE DEF s
    <2> QED  BY <1>1, <1>3, <2>1, <2>2, <2>3, BecomeStep
  <1> QED  BY <1>4, <1>5

(* Archiving changes the status of a thread that is there, not its parties. *)
LEMMA ArchiveStep ==
  ASSUME Inv, NEW j \in Jobs, ArchiveThread(j)
  PROVE  Inv'
  <1> DEFINE o == job[j].oid
             t == [threads[o][1] EXCEPT !.status = "archived"]
             s == [threads[o] EXCEPT ![1] = t]
  <1>1. job[j] \in JobState /\ Relies(job[j]) /\ job[j].op = "thread.archive"
    BY Facts DEF ArchiveThread, Running
  <1>2. o \in Orders
    BY <1>1, JobKinds DEF OnRequest, OnOrder, OrderCall, OrderEvent
  <1>3. threads[o] \in Seq(ThreadDoc) /\ threads[o] # <<>>
    BY <1>1, <1>2, Facts DEF Relies
  <1>4. \A i \in 1..Len(threads[o]) : ChatOK(o, threads[o][i])
    BY <1>2, Facts DEF Parties
  <1>5. 1 \in 1..Len(threads[o])
    BY <1>3
  <1>6. threads[o][1] \in ThreadDoc
    BY <1>3, <1>5
  <1>7. /\ t \in ThreadDoc
        /\ t.customer = threads[o][1].customer /\ t.provider = threads[o][1].provider
        /\ t.by = threads[o][1].by
    BY <1>6 DEF ThreadDoc
  <1>8. ChatOK(o, t)
    BY <1>4, <1>5, <1>7 DEF ChatOK
  <1>9. /\ threads' = [threads EXCEPT ![o] = s] /\ Become(j, Idle)
        /\ UNCHANGED <<requests, orders, clock, faults>>
    BY <1>2, <1>3 DEF ArchiveThread, Finish, Inv, TypeOK
  <1> HIDE DEF t, o
  <1>10. /\ s \in Seq(ThreadDoc) /\ Len(s) = Len(threads[o]) /\ s # <<>>
         /\ \A i \in 1..Len(s) : s[i] = IF i = 1 THEN t ELSE threads[o][i]
    BY <1>3, <1>5, <1>7
  <1>11. \A i \in 1..Len(s) : ChatOK(o, s[i])
    BY <1>4, <1>8, <1>10
  <1> HIDE DEF s
  <1>12. job'[j] = Idle /\ job' \in [Jobs -> JobState]
         /\ \A k \in Jobs : k # j => job'[k] = job[k]
    BY <1>9, Facts, IdleOK DEF Become
  <1>13. Relies(job[j])'
    BY <1>12, CarefreeOK DEF Carefree, Idle
  <1>14. \A k \in Jobs : job'[k] = job[k] \/ Relies(job[k])'
    BY <1>12, <1>13
  <1> QED  BY <1>2, <1>9, <1>10, <1>11, <1>12, <1>14, ThreadWrite DEF o

---------------------------------------------------------------------------
(* Time passes, something fails, or nothing happens.                        *)
LEMMA BackendSteps ==
  ASSUME Inv
  PROVE  /\ (Tick \/ Crash) /\ UNCHANGED <<requests, orders, threads>> => Inv'
         /\ \A j \in Jobs : ListenerAbort(j) => Inv'
         /\ UNCHANGED vars => Inv'
  <1>1. clock \in Nat /\ faults \in Nat /\ job \in [Jobs -> JobState]
    BY Facts
  <1>2. CASE Tick /\ UNCHANGED <<requests, orders, threads>>
    BY <1>1, <1>2, JobStep DEF Tick
  <1>3. CASE Crash /\ UNCHANGED <<requests, orders, threads>>
    BY <1>1, <1>3, IdleOK, JobStep DEF Crash, Faulty
  <1>4. ASSUME NEW j \in Jobs, ListenerAbort(j)  PROVE Inv'
    BY <1>1, <1>4, IdleOK, BecomeStep DEF ListenerAbort, Abort, Faulty, Finish
  <1>5. CASE UNCHANGED vars
    BY <1>1, <1>5, JobStep DEF vars
  <1> QED  BY <1>2, <1>3, <1>4, <1>5

(* Every step keeps the invariant.                                          *)
LEMMA NextInv == Inv /\ [Next]_vars => Inv'
  <1> SUFFICES ASSUME Inv, [Next]_vars  PROVE Inv'
    OBVIOUS
  <1>1. CASE RequestNext /\ UNCHANGED <<orders, threads>>
    BY <1>1, RequestSteps
  <1>2. CASE OrderNext /\ UNCHANGED <<requests, threads>>
    BY <1>2, OrderSteps
  <1>3. ASSUME NEW j \in Jobs, ListenerStep(j)  PROVE Inv'
    BY <1>3, AcceptedStep, InsertStep, ReassignStep, ThreadSteps, CompletedStep, FinishStep,
       EndedStep, ArchiveStep DEF ListenerStep
  <1>4. CASE \/ \E j \in Jobs : ListenerAbort(j)
             \/ (Tick \/ Crash) /\ UNCHANGED <<requests, orders, threads>>
             \/ UNCHANGED vars
    BY <1>4, BackendSteps
  <1>5. CASE ThreadCall
    BY <1>5, AskStep
  <1> QED  BY <1>1, <1>2, <1>3, <1>4, <1>5 DEF Next

(* The invariant holds at first.                                            *)
LEMMA InitInv == Init => Inv
  <1> SUFFICES ASSUME Init  PROVE Inv
    OBVIOUS
  <1>1. TypeOK
    BY DEF Init, BackendInit, TypeOK
  <1>2. Parties
    BY DEF Init, Parties, OrderExists
  <1>3. \A j \in Jobs : Relies(job[j])
    BY IdleOK DEF Init, BackendInit
  <1> QED  BY <1>1, <1>2, <1>3, PartiesByDoc DEF Inv

(* The invariant holds of every behaviour, whatever overlaps or fails.      *)
THEOREM FulfilmentInvariant == Spec => []Inv
  BY InitInv, NextInv, PTL DEF Spec

(* Requests, orders and threads fit their schemas, and every job in flight  *)
(* the code of the services and listeners.                                  *)
THEOREM FulfilmentTypeCorrect == Spec => []TypeOK
  <1>1. Inv => TypeOK
    BY DEF Inv
  <1> QED  BY <1>1, FulfilmentInvariant, PTL

(* However acceptances, applications, listeners and failures interleave, an *)
(* order belongs to the customer of its request and to a provider who       *)
(* applied for it, and a chat its listener opened to that customer and such *)
(* a provider, whatever POST /threads is called with meanwhile.             *)
THEOREM OrderParties == Spec => []PartiesMatch
  <1>1. Inv => PartiesMatch
    BY DEF Inv
  <1> QED  BY <1>1, FulfilmentInvariant, PTL
---------------------------------------------------------------------------
(* One handler at a time (MCFulfilment, overlap = FALSE): s is the one in   *)
(* flight, Idle if there is none.                                           *)
Solo(s) ==
  \/ s = Idle /\ \A j \in Jobs : job[j] = Idle
  \/ \E j \in Jobs : job[j] = s /\ \A k \in Jobs \ {j} : job[k] = Idle

Placing == {"request.accepted", "order.insert"}
Chatting == {"thread.ensure", "thread.create"}

(* The one order of a request is the selected provider's, and has its chat. *)
Taken(r, o) ==
  /\ OrdersOf(r) = {o}
  /\ orders[o].provider = requests[r].accepted

Delivered(r) ==
  \E o \in Orders :
    /\ Taken(r, o)
    /\ Len(threads[o]) = 1
    /\ threads[o][1].provider = requests[r].accepted

(* What the handler in flight and the listener it becomes still have to do. *)
Delivering(s, r) ==
  \/ s.op \in Placing /\ s.rid = r
  \/ s.op \in Chatting /\ orders[s.oid].request = r

Completing(s, r) ==
  \/ s.op = "request.completed" /\ s.rid = r
  \/ s.op = "order.finish" /\ orders[s.oid].request = r

Archiving(s, o) == s.op \in OrderEvent \cup {"thread.archive"} /\ s.oid = o

(* What it has checked still holds.                                         *)
Current(s) ==
  /\ s.op \in {"apply", "accept"} => requests[s.rid].status \in Unsettled
  /\ s.op = "close" => \A r \in s.batch : requests[r].status \in Unsettled
  /\ s.op = "complete" => requests[s.rid].status = "accepted"
  /\ s.op \in Placing =>
       /\ OrdersOf(s.rid) = {}
       /\ s.who = requests[s.rid].accepted
       /\ requests[s.rid].status = "accepted"
  /\ s.op \in Chatting =>
       /\ Taken(orders[s.oid].request, s.oid)
       /\ s.who = orders[s.oid].provider
       /\ threads[s.oid] = <<>>
       /\ ~Ended(s.oid)
  /\ s.op = "request.completed" => Exists(s.rid) /\ requests[s.rid].status = "completed"
  /\ s.op = "order.finish" => requests[orders[s.oid].request].status = "completed"
  /\ s.op = "call.ensure" => threads[s.oid] # <<>>
  /\ s.op \notin {"order.reassign", "call.create"}

(* Whatever is missing from a handover, the handler in flight will do.      *)
Settled(r) == requests[r].status \in {"accepted", "completed"}
Dated(r) == \A o \in OrdersOf(r) : orders[o].completedAt # None
Silent(o) == \A i \in 1..Len(threads[o]) : threads[o][i].status = "archived"

RequestTidy(s, r) ==
  /\ requests[r].accepted # None <=> Settled(r)
  /\ Settled(r) => Delivered(r) \/ Delivering(s, r)
  /\ requests[r].status = "completed" => Dated(r) \/ Completing(s, r)

OrderTidy(s, o) ==
  Ended(o) /\ requests[orders[o].request].status # "completed"
    => Silent(o) \/ Archiving(s, o)

Tidy(s) ==
  /\ Current(s)
  /\ \A r \in Requests : Exists(r) => RequestTidy(s, r)
  /\ \A o \in Orders : OrderTidy(s, o)

(* The invariant of such a behaviour as long as nothing has failed.         *)
Orderly == ~overlap /\ faults = 0 => \E s \in JobState : Solo(s) /\ Tidy(s)

(* What a tidy state says.                                                  *)
LEMMA TidyFacts ==
  ASSUME NEW s, Tidy(s)
  PROVE  /\ Current(s)
         /\ \A r \in Requests : Exists(r) => RequestTidy(s, r)
         /\ \A o \in Orders : OrderTidy(s, o)
  BY DEF Tidy

(* A step that changes jobs only, and what it leaves to do is still in      *)
(* hand.                                                                    *)
LEMMA HandsOn ==
  ASSUME NEW s, NEW t, Tidy(s), UNCHANGED <<requests, orders, threads>>, Current(t),
         \A r \in Requests : Delivering(s, r) => Delivering(t, r) \/ Delivered(r),
         \A r \in Requests : Completing(s, r) => Completing(t, r) \/ Dated(r),
         \A o \in Orders : Archiving(s, o) => Archiving(t, o) \/ Silent(o)
  PROVE  Tidy(t)'
  <1>1. \A r \in Requests : Exists(r) => RequestTidy(t, r)
    BY TidyFacts DEF RequestTidy
  <1>2. \A o \in Orders : OrderTidy(t, o)
    BY TidyFacts DEF OrderTidy
  <1>3. Tidy(t)
    BY <1>1, <1>2 DEF Tidy
  <1> QED
    BY <1>3 DEF Tidy, Current, RequestTidy, OrderTidy, Exists, Settled, Delivered, Dated, Silent,
       Delivering, Completing, Archiving, Taken, OrdersOf, OrderExists, Ended

(* A handler that owes nothing: a service's before its write, the sweep.    *)
Modest == {"idle", "apply", "accept", "complete", "photos", "notify", "close", "order.expire"}
          \cup OrderCall

(* Such a handler owes nothing.                                             *)
LEMMA ModestOwes ==
  ASSUME NEW s, s.op \in Modest
  PROVE  /\ \A r : ~Delivering(s, r) /\ ~Completing(s, r)
         /\ \A o : ~Archiving(s, o)
  BY DEF Modest, Delivering, Completing, Archiving, Placing, Chatting, OrderEvent, OrderCall

(* It may end or become another without leaving anything undone.            *)
LEMMA ModestHandsOn ==
  ASSUME NEW s, NEW t, Tidy(s), UNCHANGED <<requests, orders, threads>>, Current(t),
         s.op \in Modest
  PROVE  Tidy(t)'
  BY ModestOwes, HandsOn

(* A service writes one request.                                            *)
LEMMA RequestTidied ==
  ASSUME Inv, NEW s, NEW t, Tidy(s), s.op \in Modest, Current(t)',
         UNCHANGED <<orders, threads>>,
         NEW r \in Requests, Exists(r), NEW doc, doc # None, Write(r, doc),
         doc.accepted # None <=> doc.status \in {"accepted", "completed"},
         requests[r].status = "completed" => doc.status = "completed",
         doc.status \in {"accepted", "completed"}
           => \/ Settled(r) /\ doc.accepted = requests[r].accepted
              \/ Delivering(t, r),
         doc.status = "completed" => requests[r].status = "completed" \/ Completing(t, r)
  PROVE  Tidy(t)'
  <1>1. \A q \in Requests : requests'[q] = IF q = r THEN doc ELSE requests[q]
    BY DEF Inv, TypeOK, Write
  <1>2. \A q : ~Delivering(s, q) /\ ~Completing(s, q) /\ ~Archiving(s, q)
    BY ModestOwes
  <1>3. \A q : OrdersOf(q)' = OrdersOf(q)
    BY DEF OrdersOf, OrderExists
  <1>4. \A q \in Requests : Dated(q) => Dated(q)'
    BY <1>3 DEF Dated
  <1>5. ASSUME NEW q \in Requests, requests'[q].accepted = requests[q].accepted, Delivered(q)
        PROVE  Delivered(q)'
    BY <1>3, <1>5 DEF Delivered, Taken
  <1>6. ASSUME NEW q \in Requests, Exists(q)'  PROVE RequestTidy(t, q)'
    <2>1. Exists(q) /\ RequestTidy(s, q)
      BY <1>1, <1>6, TidyFacts DEF Exists
    <2>2. CASE q # r
      <3>1. requests'[q] = requests[q]
        BY <1>1, <2>2
      <3> QED  BY <1>2, <1>4, <1>5, <2>1, <3>1 DEF RequestTidy, Settled
    <2>3. CASE q = r
      <3>1. requests'[q] = doc
        BY <1>1, <2>3
      <3>2. Delivering(t, q) => Delivering(t, q)'
        BY DEF Delivering
      <3>3. Completing(t, q) => Completing(t, q)'
        BY DEF Completing
      <3> QED
        BY <1>2, <1>4, <1>5, <2>1, <2>3, <3>1, <3>2, <3>3 DEF RequestTidy, Settled
    <2> QED  BY <2>2, <2>3
  <1>7. ASSUME NEW o \in Orders  PROVE OrderTidy(t, o)'
    <2>1. SUFFICES ASSUME Ended(o)', requests'[orders[o].request].status # "completed"
                   PROVE  Silent(o)'
      BY DEF OrderTidy
    <2>2. OrderExists(o) /\ Ended(o)
      BY <2>1 DEF Ended, OrderExists
    <2>3. orders[o].request \in Requests
      BY <2>2, Facts DEF OrderDoc
    <2>4. requests[orders[o].request].status # "completed"
      BY <1>1, <2>1, <2>3
    <2>5. Silent(o)
      BY <1>2, <2>2, <2>4, TidyFacts DEF OrderTidy
    <2> QED  BY <2>5 DEF Silent
  <1> QED  BY <1>6, <1>7 DEF Tidy

(* A write of an order that keeps its parties.                              *)
LEMMA OrderTidied ==
  ASSUME Inv, NEW s, NEW t, Tidy(s), s.op \in Modest \cup {"order.finish"},
         t.op \in {"idle"} \cup OrderEvent, UNCHANGED <<requests, threads>>,
         NEW o \in Orders, OrderExists(o), NEW doc, doc # None, WriteOrder(o, doc),
         doc.request = orders[o].request, doc.provider = orders[o].provider,
         orders[o].completedAt # None => doc.completedAt # None,
         s.op = "order.finish" => s.oid = o /\ doc.completedAt # None,
         doc.status \in {"completed", "canceled"}
           => \/ Ended(o) \/ Archiving(t, o)
              \/ requests[orders[o].request].status = "completed"
  PROVE  Tidy(t)'
  <1>1. \A q \in Orders : orders'[q] = IF q = o THEN doc ELSE orders[q]
    BY DEF Inv, TypeOK, WriteOrder
  <1>2. \A q : ~Delivering(s, q) /\ ~Archiving(s, q)
    BY DEF Modest, Delivering, Archiving, Placing, Chatting, OrderEvent, OrderCall
  <1>3. \A q : OrdersOf(q)' = OrdersOf(q)
    <2>1. \A q \in Orders : /\ OrderExists(q)' <=> OrderExists(q)
                            /\ OrderExists(q) => orders'[q].request = orders[q].request
      BY <1>1 DEF OrderExists
    <2> QED  BY <2>1 DEF OrdersOf
  <1>4. \A q \in Orders : orders'[q].provider = orders[q].provider
    BY <1>1
  <1>5. ASSUME NEW r \in Requests, Delivered(r)  PROVE Delivered(r)'
    BY <1>3, <1>4, <1>5 DEF Delivered, Taken
  <1>6. \A r : Dated(r) => Dated(r)'
    <2>1. \A q \in Orders : orders[q].completedAt # None => orders'[q].completedAt # None
      BY <1>1
    <2> QED  BY <1>3, <2>1 DEF Dated, OrdersOf
  <1>7. ASSUME NEW r \in Requests, Exists(r)'  PROVE RequestTidy(t, r)'
    <2>1. Exists(r) /\ RequestTidy(s, r)
      BY <1>7, TidyFacts DEF Exists
    <2>2. requests[r].status = "completed" => Dated(r)'
      <3>1. SUFFICES ASSUME requests[r].status = "completed", Completing(s, r)
                     PROVE  Dated(r)'
        BY <1>6, <2>1 DEF RequestTidy
      <3>2. s.op = "order.finish" /\ orders[o].request = r /\ doc.completedAt # None
        BY <3>1 DEF Completing, Modest, OrderCall
      <3>3. o \in OrdersOf(r)
        BY <3>2 DEF OrdersOf
      <3>4. Delivered(r)
        BY <1>2, <2>1, <3>1 DEF RequestTidy, Settled
      <3>5. OrdersOf(r) = {o}
        BY <3>3, <3>4 DEF Delivered, Taken
      <3> QED  BY <1>1, <1>3, <3>2, <3>5 DEF Dated
    <2> QED  BY <1>2, <1>5, <2>1, <2>2 DEF RequestTidy, Settled
  <1>8. ASSUME NEW q \in Orders  PROVE OrderTidy(t, q)'
    <2>1. OrderTidy(s, q)
      BY TidyFacts
    <2>2. Silent(q) => Silent(q)'
      BY DEF Silent
    <2>3. CASE q # o
      BY <1>1, <1>2, <2>1, <2>2, <2>3 DEF OrderTidy, Ended, OrderExists
    <2>4. CASE q = o
      <3>1. orders'[q] = doc /\ (Archiving(t, q) => Archiving(t, q)')
        BY <1>1, <2>4 DEF Archiving
      <3> QED  BY <1>2, <2>1, <2>2, <2>4, <3>1 DEF OrderTidy, Ended, OrderExists
    <2> QED  BY <2>3, <2>4
  <1>9. Current(t)'
    BY DEF Current, Placing, Chatting, OrderEvent
  <1> QED  BY <1>7, <1>8, <1>9 DEF Tidy

(* The slot j is the one at work, before the step and after it.             *)
LEMMA Worked ==
  ASSUME Inv, NEW s, NEW t, NEW j \in Jobs, Solo(s), job[j] # Idle, Become(j, t)
  PROVE  s = job[j] /\ Solo(t)'
  <1>1. \A k \in Jobs : job'[k] = IF k = j THEN t ELSE job[k]
    BY Facts DEF Become
  <1>2. s = job[j] /\ \A k \in Jobs \ {j} : job[k] = Idle
    BY DEF Solo
  <1> QED  BY <1>1, <1>2 DEF Solo

(* A handler that starts is the only one.                                   *)
LEMMA Loaded ==
  ASSUME Inv, NEW s, NEW t, NEW j \in Jobs, Solo(s), Free(j), t # Idle, OneAtATime,
         Become(j, t)
  PROVE  s = Idle /\ Solo(t)'
  <1>1. \A k \in Jobs : job'[k] = IF k = j THEN t ELSE job[k]
    BY Facts DEF Become
  <1>2. \A k \in Jobs \ {j} : job[k] = Idle
    BY <1>1 DEF OneAtATime
  <1>3. s = Idle
    BY <1>2 DEF Solo, Free
  <1> QED  BY <1>1, <1>2, <1>3 DEF Solo


(* Without a handler nothing has been checked.                              *)
LEMMA IdleCurrent == Current(Idle) /\ Current(Idle)' /\ Idle.op = "idle"
  BY DEF Current, Idle, Placing, Chatting

(* The services' loads.                                                     *)
LEMMA LoadProceeds ==
  ASSUME Inv, NEW s, NEW t, NEW j \in Jobs, Solo(s), Tidy(s), Free(j), OneAtATime,
         UNCHANGED <<requests, orders, threads>>, Become(j, t), t # Idle, Current(t)
  PROVE  Solo(t)' /\ Tidy(t)'
  <1>1. s = Idle /\ Solo(t)'
    BY Loaded
  <1>2. s.op \in Modest
    BY <1>1, IdleCurrent DEF Modest
  <1> QED  BY <1>1, <1>2, ModestHandsOn

(* The handlers of the request service start.                               *)
LEMMA CallsProceed ==
  ASSUME Inv, Inv', NEW s, NEW j \in Jobs, Solo(s), Tidy(s), OneAtATime,
         UNCHANGED <<orders, threads>>, NEW r \in Requests,
         CustomerCall(j, r) \/ ProviderCall(j, r)
  PROVE  \E t \in JobState : Solo(t)' /\ Tidy(t)'
  <1> USE DEF Placing, Chatting
  <1>1. PICK t : t = job'[j]
    OBVIOUS
  <1>2. t \in JobState
    BY <1>1 DEF Inv, TypeOK, JobState
  <1>3. job \in [Jobs -> JobState]
    BY Facts
  <1>4. ASSUME NEW p \in Providers, ApplyLoad(j, r, p)
        PROVE  /\ Free(j) /\ Become(j, t) /\ requests' = requests
               /\ t # Idle /\ Current(t)
    <2>1. /\ Free(j) /\ requests' = requests /\ requests[r].status \in Unsettled
          /\ Become(j, [op |-> "apply", rid |-> r, who |-> p, seen |-> requests[r].status])
      BY <1>4 DEF ApplyLoad, IsUnsettled
    <2>2. t = [op |-> "apply", rid |-> r, who |-> p, seen |-> requests[r].status]
      BY <1>1, <1>3, <2>1 DEF Become
    <2> QED  BY <2>1, <2>2 DEF Current, Idle
  <1>5. ASSUME NEW c \in Customers, NEW p \in Providers, AcceptLoad(j, r, c, p)
        PROVE  /\ Free(j) /\ Become(j, t) /\ requests' = requests
               /\ t # Idle /\ Current(t)
    <2>1. /\ Free(j) /\ requests' = requests /\ requests[r].status \in Unsettled
          /\ Become(j, [op |-> "accept", rid |-> r, who |-> p])
      BY <1>5 DEF AcceptLoad, IsUnsettled
    <2>2. t = [op |-> "accept", rid |-> r, who |-> p]
      BY <1>1, <1>3, <2>1 DEF Become
    <2> QED  BY <2>1, <2>2 DEF Current, Idle
  <1>6. ASSUME NEW user, CompleteLoad(j, r, user)
        PROVE  /\ Free(j) /\ Become(j, t) /\ requests' = requests
               /\ t # Idle /\ Current(t)
    <2>1. /\ Free(j) /\ requests' = requests /\ requests[r].status = "accepted"
          /\ Become(j, [op |-> "complete", rid |-> r])
      BY <1>6 DEF CompleteLoad
    <2>2. t = [op |-> "complete", rid |-> r]
      BY <1>1, <1>3, <2>1 DEF Become
    <2> QED  BY <2>1, <2>2 DEF Current, Idle
  <1>7. ASSUME NEW c \in Customers, NEW u \in Uploads, PhotosLoad(j, r, c, u)
        PROVE  /\ Free(j) /\ Become(j, t) /\ requests' = requests
               /\ t # Idle /\ Current(t)
    <2>1. /\ Free(j) /\ requests' = requests
          /\ Become(j, [op |-> "photos", rid |-> r, photos |-> requests[r].photos \cup {u}])
      BY <1>7 DEF PhotosLoad
    <2>2. t = [op |-> "photos", rid |-> r, photos |-> requests[r].photos \cup {u}]
      BY <1>1, <1>3, <2>1 DEF Become
    <2> QED  BY <2>1, <2>2 DEF Current, Idle
  <1>8. /\ Free(j) /\ Become(j, t) /\ requests' = requests
        /\ t # Idle /\ Current(t)
    BY <1>4, <1>5, <1>6, <1>7 DEF CustomerCall, ProviderCall
  <1> QED  BY <1>2, <1>8, LoadProceeds

(* A load that starts a job: the sweep's, the cron's, one of an order's.    *)
LEMMA PlainLoadProceeds ==
  ASSUME Inv, Inv', NEW s, NEW j \in Jobs, Solo(s), Tidy(s), OneAtATime, Free(j),
         UNCHANGED <<requests, orders, threads>>, NEW new, Become(j, new),
         new.op \in {"notify", "order.expire"} \cup OrderCall
  PROVE  \E t \in JobState : Solo(t)' /\ Tidy(t)'
  <1>1. new = job'[j]
    BY Facts DEF Become
  <1>2. new \in JobState
    BY <1>1 DEF Inv, TypeOK, JobState
  <1>3. new # Idle /\ Current(new)
    BY IdleCurrent DEF Current, Placing, Chatting, OrderCall
  <1> QED  BY <1>2, <1>3, LoadProceeds

(* The handlers of the order service and the cron start.                    *)
LEMMA OrderLoadsProceed ==
  ASSUME Inv, Inv', NEW s, NEW j \in Jobs, Solo(s), Tidy(s), OneAtATime,
         UNCHANGED <<requests, threads>>,
         \/ \E o \in Orders, user \in Users : OrderUserCall(j, o, user)
         \/ ExpireStart(j)
  PROVE  \E t \in JobState : Solo(t)' /\ Tidy(t)'
  <1>1. ASSUME NEW o \in Orders, NEW op \in OrderCall, Call(j, o, op)
        PROVE  \E t \in JobState : Solo(t)' /\ Tidy(t)'
    <2>1. PICK new : new = [op |-> op, oid |-> o, at |-> clock]
      OBVIOUS
    <2>2. /\ Free(j) /\ UNCHANGED orders /\ Become(j, new)
          /\ new.op \in {"notify", "order.expire"} \cup OrderCall
      BY <1>1, <2>1 DEF Call
    <2> QED  BY <2>2, PlainLoadProceeds
  <1>2. ASSUME NEW o \in Orders, NEW user \in Users, OrderUserCall(j, o, user)
        PROVE  \E op \in OrderCall : Call(j, o, op)
    BY <1>2 DEF OrderUserCall, OrderCall, StartOrder, RequestCompletion, ApproveCompletion,
       DeclineCompletion, CancelOrder, SetProviderEts
  <1>3. CASE ExpireStart(j)
    <2>1. PICK new : new = [op |-> "order.expire", batch |-> Expired(clock)]
      OBVIOUS
    <2>2. /\ Free(j) /\ UNCHANGED orders /\ Become(j, new)
          /\ new.op \in {"notify", "order.expire"} \cup OrderCall
      BY <1>3, <2>1 DEF ExpireStart
    <2> QED  BY <2>2, PlainLoadProceeds
  <1> QED  BY <1>1, <1>2, <1>3

---------------------------------------------------------------------------
(* The services' writes of requests.                                        *)
LEMMA RequestWriteProceeds ==
  ASSUME Inv, Inv', NEW s, NEW j \in Jobs, Solo(s), Tidy(s), UNCHANGED <<orders, threads>>,
         job[j].op \in Modest \ {"idle"}, NEW t, Become(j, t), Current(t)',
         NEW r \in Requests, Exists(r), NEW doc, doc # None, Write(r, doc),
         doc.accepted # None <=> doc.status \in {"accepted", "completed"},
         requests[r].status = "completed" => doc.status = "completed",
         doc.status \in {"accepted", "completed"}
           => \/ Settled(r) /\ doc.accepted = requests[r].accepted
              \/ Delivering(t, r),
         doc.status = "completed" => requests[r].status = "completed" \/ Completing(t, r)
  PROVE  \E u \in JobState : Solo(u)' /\ Tidy(u)'
  <1>1. s = job[j] /\ Solo(t)'
    BY Worked DEF Idle
  <1>2. t = job'[j]
    BY Facts DEF Become
  <1>3. t \in JobState
    BY <1>2 DEF Inv, TypeOK, JobState
  <1>4. Tidy(t)'
    BY <1>1, RequestTidied
  <1> QED  BY <1>1, <1>3, <1>4

(* What a handler about to write a request finds.                           *)
LEMMA AtWork ==
  ASSUME Inv, NEW s, NEW j \in Jobs, Solo(s), Tidy(s), job[j] # Idle
  PROVE  /\ s = job[j] /\ s \in JobState /\ Relies(s) /\ Current(s)
         /\ \A r \in Requests : Exists(r) => RequestTidy(s, r)
         /\ \A o \in Orders : OrderTidy(s, o)
  <1>1. s = job[j]
    BY DEF Solo
  <1> QED  BY <1>1, Facts, TidyFacts

(* The saves of the request service.                                        *)
LEMMA ServiceWrites ==
  ASSUME Inv, Inv', NEW s, NEW j \in Jobs, Solo(s), Tidy(s), UNCHANGED <<orders, threads>>,
         RequestStep(j)
  PROVE  \E u \in JobState : Solo(u)' /\ Tidy(u)'
  <1> DEFINE r == job[j].rid
  <1>1. /\ job[j].op \in {"apply", "accept", "complete", "photos"}
        /\ job[j] # Idle /\ job[j].op \in Modest \ {"idle"}
    BY DEF RequestStep, ApplySave, AcceptWrite, CompleteWrite, PhotosWrite, Running, Modest, Idle
  <1>2. /\ s = job[j] /\ s \in JobState /\ Relies(s) /\ Current(s)
        /\ \A q \in Requests : Exists(q) => RequestTidy(s, q)
    BY <1>1, AtWork
  <1>3. r \in Requests
    BY <1>1, <1>2, JobKinds DEF OnRequest, OnOrder, OrderCall, OrderEvent
  <1>4. Exists(r) /\ requests[r] \in RequestDoc
    BY <1>1, <1>2, <1>3, Facts DEF Relies, OnRequest
  <1>5. requests[r].accepted # None <=> Settled(r)
    BY <1>2, <1>3, <1>4 DEF RequestTidy
  <1>6. CASE ApplySave(j)
    <2> DEFINE doc == Pushed(requests[r], job[j].who, job[j].seen)
    <2>1. job[j].op = "apply" /\ job[j].who \in Providers /\ job[j].seen \in Unsettled
      BY <1>2, <1>6, JobFields DEF ApplySave, Running
    <2>2. /\ doc \in RequestDoc /\ doc.accepted = requests[r].accepted
          /\ doc.status = IF job[j].seen = "open" THEN "pending" ELSE requests[r].status
      BY <1>4, <2>1, PushedFields DEF Pushed, RequestDoc
    <2>3. requests[r].status \in Unsettled
      BY <1>2, <2>1 DEF Current
    <2>4. doc.status \in Unsettled
      BY <2>2, <2>3 DEF Unsettled
    <2>5. Write(r, doc) /\ Become(j, Idle)
      BY <1>6 DEF ApplySave, Finish
    <2>6. doc # None
      BY <2>2, NullIsNoRequest
    <2> HIDE DEF doc, r
    <2> QED
      BY <1>1, <1>3, <1>4, <1>5, <2>2, <2>3, <2>4, <2>5, <2>6, IdleCurrent, RequestWriteProceeds
         DEF Settled, Unsettled
  <1>7. CASE AcceptWrite(j)
    <2> DEFINE doc == Selected(requests[r], job[j].who)
    <2>1. job[j].op = "accept" /\ job[j].who \in Providers
      BY <1>2, <1>7, JobFields DEF AcceptWrite, Running
    <2>2. doc \in RequestDoc /\ doc.accepted = job[j].who /\ doc.status = "accepted"
      BY <1>4, <2>1 DEF Selected, RequestDoc, Status
    <2>3. requests[r].status \in Unsettled /\ requests[r].accepted = None
      BY <1>2, <1>5, <2>1 DEF Current, Unsettled, Settled
    <2>4. OrdersOf(r) = {}
      BY <2>3, Facts DEF OrdersOf, Parties, PartyOK
    <2>5. PICK t : t = [job[j] EXCEPT !.op = "request.accepted"]
      OBVIOUS
    <2>6. job[j] \in [op : {"accept", "request.accepted"}, rid : Requests, who : Providers]
      BY <1>2, <2>1 DEF JobState, RequestJob, OrderJob, ListenerJob, Idle, OrderCall, OrderEvent
    <2>7. t.op = "request.accepted" /\ t.rid = r /\ t.who = job[j].who
      BY <2>5, <2>6
    <2>8. Write(r, doc) /\ Become(j, t)
      BY <1>7, <2>5 DEF AcceptWrite
    <2>9. doc # None /\ None \notin Providers
      BY <2>2, NullIsNoRequest, NoneAssumption
    <2>10. requests'[r] = doc
      BY <1>3, <2>8 DEF Write, Inv, TypeOK
    <2>11. \A q : OrdersOf(q)' = OrdersOf(q)
      BY DEF OrdersOf, OrderExists
    <2> HIDE DEF doc, r
    <2>12. Current(t)'
      <3>1. OrdersOf(t.rid)' = {} /\ requests'[t.rid] = doc
        BY <2>4, <2>7, <2>10, <2>11
      <3> QED  BY <2>2, <2>7, <3>1 DEF Current, Placing, Chatting
    <2>13. Delivering(t, r)
      BY <2>7 DEF Delivering, Placing
    <2> QED
      BY <1>1, <1>3, <1>4, <2>1, <2>2, <2>3, <2>8, <2>9, <2>12, <2>13, RequestWriteProceeds
         DEF Unsettled
  <1>8. CASE CompleteWrite(j)
    <2> DEFINE doc == [requests[r] EXCEPT !.status = "completed"]
    <2>1. job[j].op = "complete" /\ requests[r].status = "accepted"
      BY <1>2, <1>8 DEF CompleteWrite, Running, Current
    <2>2. doc \in RequestDoc /\ doc.accepted = requests[r].accepted /\ doc.status = "completed"
      BY <1>4 DEF RequestDoc, Status
    <2>3. PICK t : t = [job[j] EXCEPT !.op = "request.completed"]
      OBVIOUS
    <2>4. job[j] \in [op : {"complete", "request.completed"}, rid : Requests]
      BY <1>2, <2>1 DEF JobState, RequestJob, OrderJob, ListenerJob, Idle, OrderCall, OrderEvent
    <2>5. t.op = "request.completed" /\ t.rid = r
      BY <2>3, <2>4
    <2>6. Write(r, doc) /\ Become(j, t)
      BY <1>8, <2>3 DEF CompleteWrite
    <2>7. requests'[r] = doc /\ doc # None
      BY <1>3, <2>2, <2>6, NullIsNoRequest DEF Write, Inv, TypeOK
    <2> HIDE DEF doc, r
    <2>8. Current(t)'
      BY <2>2, <2>5, <2>7 DEF Current, Placing, Chatting, Exists
    <2>9. Completing(t, r)
      BY <2>5 DEF Completing
    <2> QED
      BY <1>1, <1>3, <1>4, <1>5, <2>1, <2>2, <2>6, <2>7, <2>8, <2>9, RequestWriteProceeds
         DEF Settled
  <1>9. CASE PhotosWrite(j)
    <2> DEFINE doc == [requests[r] EXCEPT !.photos = job[j].photos]
    <2>1. job[j].photos \subseteq Uploads
      BY <1>2, <1>9, JobFields DEF PhotosWrite, Running
    <2>2. /\ doc \in RequestDoc /\ doc.accepted = requests[r].accepted
          /\ doc.status = requests[r].status
      BY <1>4, <2>1 DEF RequestDoc
    <2>3. Write(r, doc) /\ Become(j, Idle)
      BY <1>9 DEF PhotosWrite, Finish
    <2>4. doc # None
      BY <2>2, NullIsNoRequest
    <2> HIDE DEF doc, r
    <2> QED
      BY <1>1, <1>3, <1>4, <1>5, <2>2, <2>3, <2>4, IdleCurrent, RequestWriteProceeds
         DEF Settled
  <1> QED  BY <1>6, <1>7, <1>8, <1>9 DEF RequestStep

(* The steps of the sweep.                                                  *)
LEMMA SweepProceeds ==
  ASSUME Inv, Inv', NEW s, NEW j \in Jobs, Solo(s), Tidy(s), UNCHANGED <<orders, threads>>,
         SweepStep(j)
  PROVE  \E u \in JobState : Solo(u)' /\ Tidy(u)'
  <1>1. /\ job[j].op \in {"notify", "close"} /\ job[j] # Idle
        /\ job[j].op \in Modest \ {"idle"}
    <2>1. job[j].op \in {"notify", "close"}
      BY DEF SweepStep, Notify, CloseOne, SweepOverdue, SweepEnd, Running
    <2> QED  BY <2>1 DEF Modest, Idle
  <1>2. /\ s = job[j] /\ s \in JobState /\ Relies(s) /\ Current(s)
        /\ \A q \in Requests : Exists(q) => RequestTidy(s, q)
    BY <1>1, AtWork
  <1>3. s.batch \subseteq Requests /\ \A r \in s.batch : Exists(r)
    BY <1>1, <1>2, JobKinds DEF Relies, OnRequest, OnOrder, OrderCall, OrderEvent
  <1>4. PICK t : t = job'[j]
    OBVIOUS
  <1>5. t \in JobState
    BY <1>4 DEF Inv, TypeOK, JobState
  <1>6. s \in [op : {"notify", "close"}, now : Nat, batch : SUBSET Requests]
    BY <1>1, <1>2 DEF JobState, RequestJob, OrderJob, ListenerJob, Idle, OrderCall, OrderEvent
  <1>7. \A r \in Requests : Rest(j, r).op = s.op /\ Rest(j, r).batch = s.batch \ {r}
    BY <1>2, <1>6 DEF Rest
  <1>8. ASSUME NEW r \in Requests, Notify(j, r)
        PROVE  \E u \in JobState : Solo(u)' /\ Tidy(u)'
    <2> DEFINE doc == [requests[r] EXCEPT !.notice = job[j].now]
    <2>1. r \in s.batch /\ Exists(r) /\ requests[r] \in RequestDoc
      BY <1>2, <1>3, <1>8, Facts DEF Notify
    <2>2. /\ doc \in RequestDoc /\ doc.accepted = requests[r].accepted
          /\ doc.status = requests[r].status
      BY <1>2, <1>6, <2>1 DEF RequestDoc
    <2>3. Become(j, t) /\ t.op = "notify"
      BY <1>2, <1>4, <1>7, <1>8, Facts DEF Notify, Become, Running
    <2>4. Write(r, doc) /\ doc # None
      BY <1>8, <2>2, NullIsNoRequest DEF Notify
    <2>5. requests[r].accepted # None <=> Settled(r)
      BY <1>2, <2>1 DEF RequestTidy
    <2>6. Current(t)'
      BY <2>3 DEF Current, Placing, Chatting
    <2> HIDE DEF doc
    <2> QED
      BY <1>1, <2>1, <2>2, <2>3, <2>4, <2>5, <2>6, RequestWriteProceeds DEF Settled
  <1>9. ASSUME NEW r \in Requests, CloseOne(j, r)
        PROVE  \E u \in JobState : Solo(u)' /\ Tidy(u)'
    <2> DEFINE doc == [requests[r] EXCEPT !.status = "closed"]
    <2>1. r \in s.batch /\ Exists(r) /\ requests[r] \in RequestDoc
      BY <1>2, <1>3, <1>9, Facts DEF CloseOne
    <2>2. doc \in RequestDoc /\ doc.accepted = requests[r].accepted /\ doc.status = "closed"
      BY <2>1 DEF RequestDoc, Status
    <2>3. Become(j, t) /\ t.op = "close" /\ s.op = "close" /\ t.batch = s.batch \ {r}
      BY <1>2, <1>4, <1>7, <1>9, Facts DEF CloseOne, Become, Running
    <2>4. Write(r, doc) /\ doc # None
      BY <1>9, <2>2, NullIsNoRequest DEF CloseOne
    <2>5. requests[r].status \in Unsettled
      BY <1>2, <2>1, <2>3 DEF Current
    <2>6. requests[r].accepted = None
      BY <1>2, <2>1, <2>5 DEF RequestTidy, Settled, Unsettled
    <2>7. \A q \in Requests : q # r => requests'[q] = requests[q]
      BY <2>4 DEF Write, Inv, TypeOK
    <2>8. \A q \in t.batch : requests'[q].status \in Unsettled
      BY <1>2, <1>3, <2>3, <2>7 DEF Current
    <2>9. Current(t)'
      BY <2>3, <2>8 DEF Current, Placing, Chatting
    <2> HIDE DEF doc
    <2> QED
      BY <1>1, <2>1, <2>2, <2>3, <2>4, <2>5, <2>6, <2>9, RequestWriteProceeds DEF Unsettled
  <1>10. CASE SweepOverdue(j) \/ SweepEnd(j)
    <2>1. UNCHANGED requests
      BY <1>10 DEF SweepOverdue, SweepEnd
    <2>2. Become(j, t)
      BY <1>4, <1>10, Facts DEF SweepOverdue, SweepEnd, Finish, Become
    <2>3. Current(t)
      <3>1. CASE SweepEnd(j)
        BY <1>4, <3>1, Facts, IdleCurrent DEF SweepEnd, Finish, Become
      <3>2. CASE SweepOverdue(j)
        <4>1. t.op = "close" /\ t.batch = Found(ClosureDue, job[j].now)
          BY <1>4, <3>2, Facts DEF SweepOverdue, Become
        <4>2. \A r \in Found(ClosureDue, job[j].now) : requests[r].status \in Unsettled
          BY DEF Found, ClosureDue
        <4> QED  BY <4>1, <4>2 DEF Current, Placing, Chatting
      <3> QED  BY <1>10, <3>1, <3>2
    <2>4. Solo(t)' /\ s.op \in Modest
      BY <1>1, <1>2, <2>2, Worked
    <2> QED  BY <1>5, <2>1, <2>3, <2>4, ModestHandsOn
  <1> QED  BY <1>8, <1>9, <1>10 DEF SweepStep

---------------------------------------------------------------------------
(* The writes of orders that exist.                                         *)
LEMMA OrderWriteProceeds ==
  ASSUME Inv, Inv', NEW s, NEW j \in Jobs, Solo(s), Tidy(s), UNCHANGED <<requests, threads>>,
         job[j].op \in (Modest \ {"idle"}) \cup {"order.finish"},
         NEW t, Become(j, t), t.op \in {"idle"} \cup OrderEvent,
         NEW o \in Orders, OrderExists(o), NEW doc, doc # None, WriteOrder(o, doc),
         doc.request = orders[o].request, doc.provider = orders[o].provider,
         orders[o].completedAt # None => doc.completedAt # None,
         job[j].op = "order.finish" => job[j].oid = o /\ doc.completedAt # None,
         doc.status \in {"completed", "canceled"}
           => \/ Ended(o) \/ Archiving(t, o)
              \/ requests[orders[o].request].status = "completed"
  PROVE  \E u \in JobState : Solo(u)' /\ Tidy(u)'
  <1>1. s = job[j] /\ Solo(t)'
    BY Worked DEF Idle
  <1>2. t = job'[j]
    BY Facts DEF Become
  <1>3. t \in JobState
    BY <1>2 DEF Inv, TypeOK, JobState
  <1>4. Tidy(t)'
    BY <1>1, OrderTidied
  <1> QED  BY <1>1, <1>3, <1>4

(* What a save of the service does to the dates and the end of an order.    *)
LEMMA SavedEnds ==
  ASSUME NEW d \in OrderDoc, NEW at \in Nat, NEW op \in OrderCall
  PROVE  /\ d.completedAt # None => Saved(op, d, at).completedAt # None
         /\ Saved(op, d, at).status \in {"completed", "canceled"}
              => op \in {"order.approve", "order.cancel"} \/ op = "order.ets"
         /\ op = "order.ets" => Saved(op, d, at).status = d.status
  <1> USE NoneAssumption DEF OrderDoc, OrderStatus, Saved
  <1>1. CASE op = "order.start"
    BY <1>1 DEF Started
  <1>2. CASE op = "order.request"
    BY <1>2 DEF Requested
  <1>3. CASE op = "order.approve"
    BY <1>3 DEF Completed
  <1>4. CASE op = "order.decline"
    BY <1>4 DEF Declined
  <1>5. CASE op = "order.cancel"
    BY <1>5 DEF Canceled
  <1>6. CASE op = "order.ets"
    BY <1>6
  <1> QED  BY <1>1, <1>2, <1>3, <1>4, <1>5, <1>6 DEF OrderCall

(* A save of the order service, and the event it emits.                     *)
LEMMA SaveProceeds ==
  ASSUME Inv, Inv', NEW s, NEW j \in Jobs, Solo(s), Tidy(s), UNCHANGED <<requests, threads>>,
         SaveOrder(j)
  PROVE  \E u \in JobState : Solo(u)' /\ Tidy(u)'
  <1> DEFINE o == job[j].oid
             d == Saved(job[j].op, orders[o], job[j].at)
  <1>1. job[j] \in JobState /\ Relies(job[j]) /\ job[j].op \in OrderCall
    BY Facts DEF SaveOrder
  <1>2. o \in Orders /\ job[j].at \in Nat
    BY <1>1, JobKinds, JobFields DEF OnRequest, OnOrder, OrderCall, OrderEvent
  <1>3. OrderExists(o)
    BY <1>1 DEF Relies, OnOrder
  <1>4. orders[o] \in OrderDoc
    BY <1>2, <1>3, Facts
  <1>5. /\ d \in OrderDoc /\ d.request = orders[o].request /\ d.provider = orders[o].provider
        /\ orders[o].completedAt # None => d.completedAt # None
        /\ d.status \in {"completed", "canceled"}
             => job[j].op \in {"order.approve", "order.cancel"} \/ job[j].op = "order.ets"
        /\ job[j].op = "order.ets" => d.status = orders[o].status
    BY <1>1, <1>2, <1>4, SavedKeeps, SavedEnds
  <1>6. d # None
    BY <1>5, NullIsNoOrder
  <1>7. PICK t : t = Emitted(job[j].op, o)
    OBVIOUS
  <1>8. /\ t.op \in {"idle"} \cup OrderEvent
        /\ job[j].op \in {"order.approve", "order.cancel"} => t.op \in OrderEvent /\ t.oid = o
    <2>1. CASE job[j].op = "order.approve"
      BY <1>7, <2>1 DEF Emitted, OrderEvent
    <2>2. CASE job[j].op = "order.cancel"
      BY <1>7, <2>2 DEF Emitted, OrderEvent
    <2>3. CASE job[j].op \notin {"order.approve", "order.cancel"}
      BY <1>7, <2>3 DEF Emitted, Idle
    <2> QED  BY <2>1, <2>2, <2>3
  <1>9. WriteOrder(o, d) /\ Become(j, t)
    BY <1>7 DEF SaveOrder
  <1>10. job[j].op \in (Modest \ {"idle"}) \cup {"order.finish"} /\ job[j].op # "order.finish"
    BY <1>1 DEF Modest, OrderCall
  <1> HIDE DEF d, o
  <1>11. d.status \in {"completed", "canceled"} => Ended(o) \/ Archiving(t, o)
    BY <1>3, <1>5, <1>8 DEF Ended, Archiving
  <1> QED  BY <1>2, <1>3, <1>5, <1>6, <1>8, <1>9, <1>10, <1>11, OrderWriteProceeds

(* The cron, whose listener would overlap with the rest of a larger batch.  *)
LEMMA ExpireProceeds ==
  ASSUME Inv, Inv', NEW s, NEW j \in Jobs, Solo(s), Tidy(s), OneAtATime,
         UNCHANGED <<requests, threads>>, NEW o \in Orders, NEW k \in Jobs, ExpireOne(j, o, k)
  PROVE  \E u \in JobState : Solo(u)' /\ Tidy(u)'
  <1> DEFINE d == Completed(orders[o], clock)
             rest == job[j].batch \ {o}
  <1>1. /\ job[j] \in JobState /\ Relies(job[j]) /\ job \in [Jobs -> JobState]
        /\ clock \in Nat /\ job[j].op = "order.expire" /\ o \in job[j].batch
    BY Facts DEF ExpireOne
  <1>2. job[j] \in [op : {"order.expire"}, batch : SUBSET Orders]
    BY <1>1 DEF JobState, RequestJob, OrderJob, ListenerJob, Idle, OrderCall, OrderEvent
  <1>3. OrderExists(o) /\ orders[o] \in OrderDoc
    BY <1>1, Facts DEF Relies
  <1>4. /\ d \in OrderDoc /\ d.request = orders[o].request /\ d.provider = orders[o].provider
        /\ d.completedAt # None /\ d.status = "completed"
    BY <1>1, <1>3, NoneAssumption DEF Completed, OrderDoc, OrderStatus
  <1>5. PICK t : t = [op |-> "order.completed", oid |-> o]
    OBVIOUS
  <1>6. rest = {}
    <2>1. SUFFICES ASSUME rest # {}  PROVE FALSE
      OBVIOUS
    <2>2. Free(k) /\ job' = [job EXCEPT ![j].batch = rest, ![k] = t]
      BY <1>5, <2>1 DEF ExpireOne
    <2>3. k # j
      BY <1>1, <2>2 DEF Free, Idle
    <2>4. job'[k] = t /\ job'[j].op = "order.expire"
      BY <1>1, <1>2, <2>2, <2>3
    <2>5. job'[k] # Idle /\ job'[j] # Idle
      BY <1>5, <2>4 DEF Idle
    <2> QED  BY <2>3, <2>5 DEF OneAtATime
  <1>7. WriteOrder(o, d) /\ Become(j, t)
    BY <1>5, <1>6 DEF ExpireOne
  <1>8. job[j].op \in (Modest \ {"idle"}) \cup {"order.finish"} /\ job[j].op # "order.finish"
    BY <1>1 DEF Modest, OrderCall
  <1>9. t.op \in {"idle"} \cup OrderEvent /\ Archiving(t, o)
    BY <1>5 DEF Archiving, OrderEvent
  <1>10. d # None
    BY <1>4, NullIsNoOrder
  <1> HIDE DEF d
  <1> QED  BY <1>3, <1>4, <1>7, <1>8, <1>9, <1>10, OrderWriteProceeds

(* The listener of request.completed completes the order.                   *)
LEMMA FinishProceeds ==
  ASSUME Inv, Inv', NEW s, NEW j \in Jobs, Solo(s), Tidy(s), FinishOrder(j)
  PROVE  \E u \in JobState : Solo(u)' /\ Tidy(u)'
  <1> DEFINE o == job[j].oid
             d == [orders[o] EXCEPT !.status = Assigning(@, job[j].seenStatus, "completed"),
                                    !.completedAt = job[j].at]
  <1>1. job[j] \in JobState /\ Relies(job[j]) /\ job[j].op = "order.finish"
    BY Facts DEF FinishOrder, Running
  <1>2. s = job[j] /\ Current(s)
    BY <1>1, AtWork DEF Idle
  <1>3. o \in Orders /\ job[j].at \in Nat
    BY <1>1, JobKinds, JobFields DEF OnRequest, OnOrder, OrderCall, OrderEvent
  <1>4. OrderExists(o) /\ orders[o] \in OrderDoc
    BY <1>1, <1>3, Facts DEF Relies, OnOrder
  <1>5. /\ d \in OrderDoc /\ d.request = orders[o].request /\ d.provider = orders[o].provider
        /\ d.completedAt = job[j].at
    BY <1>3, <1>4 DEF Assigning, OrderDoc, OrderStatus
  <1>6. d.completedAt # None /\ d # None
    BY <1>3, <1>5, NoneAssumption, NullIsNoOrder
  <1>7. requests[orders[o].request].status = "completed"
    BY <1>1, <1>2 DEF Current
  <1>8. WriteOrder(o, d) /\ Become(j, Idle) /\ UNCHANGED <<requests, threads>>
    BY DEF FinishOrder, Finish
  <1>9. Idle.op \in {"idle"} \cup OrderEvent
    BY DEF Idle
  <1> HIDE DEF d
  <1> QED  BY <1>1, <1>3, <1>4, <1>5, <1>6, <1>7, <1>8, <1>9, OrderWriteProceeds

---------------------------------------------------------------------------
(* The listeners hand over.                                                 *)
LEMMA ListenerMoves ==
  ASSUME Inv, Inv', NEW s, NEW j \in Jobs, Solo(s), Tidy(s), job[j] # Idle,
         UNCHANGED <<requests, orders, threads>>, NEW t, Become(j, t), Current(t),
         \A r \in Requests : Delivering(s, r) => Delivering(t, r) \/ Delivered(r),
         \A r \in Requests : Completing(s, r) => Completing(t, r) \/ Dated(r),
         \A o \in Orders : Archiving(s, o) => Archiving(t, o) \/ Silent(o)
  PROVE  \E u \in JobState : Solo(u)' /\ Tidy(u)'
  <1>1. Solo(t)'
    BY Worked
  <1>2. t = job'[j]
    BY Facts DEF Become
  <1>3. t \in JobState
    BY <1>2 DEF Inv, TypeOK, JobState
  <1>4. Tidy(t)'
    BY HandsOn
  <1> QED  BY <1>1, <1>3, <1>4

(* No order yet, so the listener will insert one.                           *)
LEMMA AcceptedProceeds ==
  ASSUME Inv, Inv', NEW s, NEW j \in Jobs, Solo(s), Tidy(s), RequestAccepted(j)
  PROVE  \E u \in JobState : Solo(u)' /\ Tidy(u)'
  <1>1. job[j].op = "request.accepted" /\ job[j] # Idle
    BY DEF RequestAccepted, Running, Idle
  <1>2. s = job[j] /\ Current(s)
    BY <1>1, AtWork
  <1>3. OrdersOf(s.rid) = {}
    BY <1>1, <1>2 DEF Current, Placing
  <1>4. PICK t : t = [op |-> "order.insert", rid |-> job[j].rid, who |-> job[j].who]
    OBVIOUS
  <1>5. Become(j, t) /\ UNCHANGED <<requests, orders, threads>>
    BY <1>2, <1>3, <1>4 DEF RequestAccepted
  <1>6. t.op = "order.insert" /\ t.rid = s.rid /\ t.who = s.who
    BY <1>2, <1>4
  <1>7. Current(t)
    BY <1>1, <1>2, <1>6 DEF Current, Placing, Chatting
  <1>8. /\ \A r : Delivering(s, r) => Delivering(t, r)
        /\ \A r : ~Completing(s, r) /\ ~Archiving(s, r)
    BY <1>1, <1>2, <1>6
       DEF Delivering, Completing, Archiving, Placing, Chatting, OrderEvent
  <1> QED  BY <1>1, <1>5, <1>7, <1>8, ListenerMoves

(* The order of a completed request is found.                               *)
LEMMA CompletedProceeds ==
  ASSUME Inv, Inv', NEW s, NEW j \in Jobs, Solo(s), Tidy(s), RequestCompleted(j)
  PROVE  \E u \in JobState : Solo(u)' /\ Tidy(u)'
  <1> DEFINE r == job[j].rid
  <1>1. job[j].op = "request.completed" /\ job[j] # Idle
    BY DEF RequestCompleted, Running, Idle
  <1>2. s = job[j] /\ Current(s) /\ job[j] \in JobState
    BY <1>1, AtWork
  <1>3. r \in Requests /\ requests[r].status = "completed"
    BY <1>1, <1>2, JobKinds DEF Current, OnRequest, OnOrder, OrderCall, OrderEvent
  <1>4. UNCHANGED <<requests, orders, threads>>
    BY DEF RequestCompleted
  <1>5. \A q : ~Delivering(s, q) /\ ~Archiving(s, q)
    BY <1>1, <1>2 DEF Delivering, Archiving, Placing, Chatting, OrderEvent
  <1>6. CASE OrdersOf(r) = {}
    <2>1. Become(j, Idle)
      BY <1>6 DEF RequestCompleted, Finish
    <2>2. \A q : Completing(s, q) => Dated(q)
      BY <1>1, <1>2, <1>6 DEF Completing, Dated
    <2> QED  BY <1>1, <1>4, <1>5, <2>1, <2>2, IdleCurrent, ListenerMoves
  <1>7. CASE OrdersOf(r) # {}
    <2>1. PICK t : t = [op |-> "order.finish", oid |-> FirstOrder(r), at |-> clock,
                        seenStatus |-> orders[FirstOrder(r)].status]
      OBVIOUS
    <2>2. Become(j, t)
      BY <1>7, <2>1 DEF RequestCompleted
    <2>3. t.op = "order.finish" /\ orders[t.oid].request = r
      BY <1>3, <1>7, <2>1, FirstOrderIs
    <2>4. Current(t)
      BY <1>3, <2>3 DEF Current, Placing, Chatting
    <2>5. \A q : Completing(s, q) => Completing(t, q)
      BY <1>1, <1>2, <2>3 DEF Completing
    <2> QED  BY <1>1, <1>4, <1>5, <2>2, <2>4, <2>5, ListenerMoves
  <1> QED  BY <1>6, <1>7

(* The thread of an ended order is found, or there is none to archive.      *)
LEMMA EndedProceeds ==
  ASSUME Inv, Inv', NEW s, NEW j \in Jobs, Solo(s), Tidy(s), OrderEnded(j)
  PROVE  \E u \in JobState : Solo(u)' /\ Tidy(u)'
  <1> DEFINE o == job[j].oid
  <1>1. job[j].op \in OrderEvent /\ job[j] # Idle
    BY DEF OrderEnded, OrderEvent, Idle
  <1>2. s = job[j]
    BY <1>1, AtWork
  <1>3. UNCHANGED <<requests, orders, threads>>
    BY DEF OrderEnded
  <1>4. \A q : ~Delivering(s, q) /\ ~Completing(s, q)
    BY <1>1, <1>2 DEF Delivering, Completing, Placing, Chatting, OrderEvent
  <1>5. CASE threads[o] = <<>>
    <2>1. Become(j, Idle)
      BY <1>5 DEF OrderEnded, Finish
    <2>2. \A q : Archiving(s, q) => Silent(q)
      BY <1>2, <1>5 DEF Archiving, Silent
    <2> QED  BY <1>1, <1>3, <1>4, <2>1, <2>2, IdleCurrent, ListenerMoves
  <1>6. CASE threads[o] # <<>>
    <2>1. PICK t : t = [op |-> "thread.archive", oid |-> o]
      OBVIOUS
    <2>2. Become(j, t)
      BY <1>6, <2>1 DEF OrderEnded
    <2>3. Current(t)
      BY <2>1 DEF Current, Placing, Chatting
    <2>4. \A q : Archiving(s, q) => Archiving(t, q)
      BY <1>2, <2>1 DEF Archiving
    <2> QED  BY <1>1, <1>3, <1>4, <2>2, <2>3, <2>4, ListenerMoves
  <1> QED  BY <1>5, <1>6

(* The order that is inserted is the only one of its request.               *)
LEMMA InsertProceeds ==
  ASSUME Inv, Inv', NEW s, NEW j \in Jobs, Solo(s), Tidy(s), InsertOrder(j)
  PROVE  \E u \in JobState : Solo(u)' /\ Tidy(u)'
  <1>1. job[j].op = "order.insert" /\ job[j] # Idle
    BY DEF InsertOrder, Running, Idle
  <1>2. /\ s = job[j] /\ Current(s) /\ s \in JobState /\ Relies(s)
        /\ \A q \in Requests : Exists(q) => RequestTidy(s, q)
        /\ \A q \in Orders : OrderTidy(s, q)
    BY <1>1, AtWork
  <1>3. PICK r, p : r = s.rid /\ p = s.who
    OBVIOUS
  <1>4. r \in Requests /\ p \in Providers
    BY <1>1, <1>2, <1>3, JobKinds, JobFields DEF OnRequest, OnOrder, OrderCall, OrderEvent
  <1>5. /\ OrdersOf(r) = {} /\ p = requests[r].accepted
        /\ requests[r].status = "accepted" /\ Exists(r)
    BY <1>1, <1>2, <1>3 DEF Current, Placing, Relies, OnRequest
  <1>6. PICK o, c : o = Min(UnusedIds) /\ c = requests[r].customer
    OBVIOUS
  <1>7. o \in Orders /\ ~OrderExists(o)
    <2>1. UnusedIds \subseteq Orders /\ UnusedIds # {}
      BY DEF InsertOrder, UnusedIds
    <2> QED  BY <1>6, <2>1, MinInSet DEF UnusedIds
  <1>8. PICK doc : doc = NewOrder(r, c, p)
    OBVIOUS
  <1>9. /\ doc.request = r /\ doc.provider = p /\ doc.status = "assigned"
    BY <1>8 DEF NewOrder
  <1>10. PICK t : t = [op |-> "thread.ensure", oid |-> o, who |-> p, customer |-> c]
    OBVIOUS
  <1>11. /\ WriteOrder(o, doc) /\ Become(j, t) /\ UNCHANGED <<requests, threads>>
    BY <1>2, <1>3, <1>6, <1>8, <1>10 DEF InsertOrder, EnsureThread
  <1>12. t.op = "thread.ensure" /\ t.oid = o /\ t.who = p
    BY <1>10
  <1>13. \A q \in Orders : orders'[q] = IF q = o THEN doc ELSE orders[q]
    BY <1>11 DEF WriteOrder, Inv, TypeOK
  <1>14. doc # None
    <2>1. r \in Requests /\ requests[r] \in RequestDoc
      BY <1>4, <1>5, Facts
    <2>2. doc \in OrderDoc
      BY <1>4, <1>6, <1>8, <2>1 DEF NewOrder, OrderDoc, OrderStatus, RequestDoc
    <2> QED  BY <2>2, NullIsNoOrder
  <1>15. OrdersOf(r)' = {o}
    BY <1>5, <1>7, <1>9, <1>13, <1>14 DEF OrdersOf, OrderExists
  <1>16. \A q \in Requests : q # r => OrdersOf(q)' = OrdersOf(q)
    BY <1>7, <1>9, <1>13 DEF OrdersOf, OrderExists
  <1>17. threads[o] = <<>>
    <2>1. threads[o] \in Seq(ThreadDoc) /\ \A i \in 1..Len(threads[o]) : ChatOK(o, threads[o][i])
      BY <1>7, Facts DEF Parties
    <2>2. \A i \in 1..Len(threads[o]) : FALSE
      BY <1>7, <2>1 DEF ChatOK
    <2> QED  BY <2>1, <2>2
  <1>18. Current(t)'
    <2>1. Taken(orders[t.oid].request, t.oid)'
      BY <1>5, <1>7, <1>9, <1>11, <1>12, <1>13, <1>15 DEF Taken
    <2>2. ~Ended(t.oid)'
      BY <1>7, <1>9, <1>12, <1>13 DEF Ended
    <2> QED
      BY <1>7, <1>9, <1>11, <1>12, <1>13, <1>17, <2>1, <2>2 DEF Current, Placing, Chatting
  <1>19. ASSUME NEW q \in Requests, Exists(q)'  PROVE RequestTidy(t, q)'
    <2>1. Exists(q) /\ RequestTidy(s, q)
      BY <1>2, <1>11, <1>19 DEF Exists
    <2>2. CASE q = r
      <3>1. Delivering(t, r)'
        BY <1>7, <1>9, <1>12, <1>13 DEF Delivering, Chatting
      <3> QED  BY <1>5, <1>11, <2>1, <2>2, <3>1 DEF RequestTidy, Settled
    <2>3. CASE q # r
      <3>1. ~Delivering(s, q) /\ ~Completing(s, q)
        BY <1>1, <1>2, <1>3, <2>3 DEF Delivering, Completing, Placing, Chatting
      <3>2. OrdersOf(q)' = OrdersOf(q) /\ \A x \in OrdersOf(q) : orders'[x] = orders[x]
        BY <1>7, <1>13, <1>16, <2>3 DEF OrdersOf
      <3>3. Dated(q) => Dated(q)'
        BY <3>2 DEF Dated
      <3>4. Delivered(q) => Delivered(q)'
        BY <1>11, <3>2 DEF Delivered, Taken
      <3> QED  BY <1>11, <2>1, <3>1, <3>3, <3>4 DEF RequestTidy, Settled
    <2> QED  BY <2>2, <2>3
  <1>20. ASSUME NEW q \in Orders  PROVE OrderTidy(t, q)'
    <2>1. ~Archiving(s, q) /\ OrderTidy(s, q)
      BY <1>1, <1>2 DEF Archiving, OrderEvent
    <2>2. Silent(q) => Silent(q)'
      BY <1>11 DEF Silent
    <2> QED
      BY <1>9, <1>11, <1>13, <2>1, <2>2 DEF OrderTidy, Ended, OrderExists
  <1>21. Solo(t)' /\ t = job'[j]
    BY <1>1, <1>11, Worked, Facts DEF Become
  <1>22. t \in JobState
    BY <1>21 DEF Inv, TypeOK, JobState
  <1> QED  BY <1>18, <1>19, <1>20, <1>21, <1>22 DEF Tidy

(* For the listener there is no thread, so it will create one; for a call   *)
(* there is.                                                                *)
LEMMA FindProceeds ==
  ASSUME Inv, Inv', NEW s, NEW j \in Jobs, Solo(s), Tidy(s), FindThread(j)
  PROVE  \E u \in JobState : Solo(u)' /\ Tidy(u)'
  <1>1. job[j] # Idle
    BY DEF FindThread, Idle
  <1>2. s = job[j] /\ Current(s) /\ s \in JobState
    BY <1>1, AtWork
  <1>3. s.op \in {"thread.ensure", "call.ensure"}
    BY <1>2 DEF FindThread
  <1>4. CASE s.op = "thread.ensure"
    <2>1. threads[s.oid] = <<>>
      BY <1>2, <1>4 DEF Current, Placing, Chatting
    <2>2. PICK t : t = [s EXCEPT !.op = "thread.create"]
      OBVIOUS
    <2>3. s \in [op : {"thread.ensure", "thread.create", "call.ensure", "call.create"},
                 oid : Orders, who : Providers, customer : Customers]
      BY <1>2, <1>4 DEF JobState, RequestJob, OrderJob, ListenerJob, Idle, OrderCall, OrderEvent
    <2>4. t.op = "thread.create" /\ t.oid = s.oid /\ t.who = s.who
      BY <2>2, <2>3
    <2>5. t = [s EXCEPT !.op = IF @ = "thread.ensure" THEN "thread.create" ELSE "call.create"]
      BY <1>4, <2>2, <2>3
    <2>6. Become(j, t) /\ UNCHANGED <<requests, orders, threads>>
      BY <1>2, <2>1, <2>5 DEF FindThread
    <2>7. Current(t)
      BY <1>2, <1>4, <2>4 DEF Current, Placing, Chatting
    <2>8. /\ \A q : Delivering(s, q) => Delivering(t, q)
          /\ \A q : ~Completing(s, q) /\ ~Archiving(s, q)
      BY <1>4, <2>4 DEF Delivering, Completing, Archiving, Placing, Chatting, OrderEvent
    <2> QED  BY <1>1, <2>6, <2>7, <2>8, ListenerMoves
  <1>5. CASE s.op = "call.ensure"
    <2>1. threads[s.oid] # <<>>
      BY <1>2, <1>5 DEF Current
    <2>2. PICK t : t = Idle
      OBVIOUS
    <2>3. Become(j, t) /\ UNCHANGED <<requests, orders, threads>>
      BY <1>2, <2>1, <2>2 DEF FindThread, Finish
    <2>4. Current(t)
      BY <2>2, IdleCurrent
    <2>5. \A q : ~Delivering(s, q) /\ ~Completing(s, q) /\ ~Archiving(s, q)
      BY <1>5 DEF Delivering, Completing, Archiving, Placing, Chatting, OrderEvent
    <2> QED  BY <1>1, <2>3, <2>4, <2>5, ListenerMoves
  <1> QED  BY <1>3, <1>4, <1>5

(* The handover is complete with the thread.                                *)
LEMMA CreateProceeds ==
  ASSUME Inv, Inv', NEW s, NEW j \in Jobs, Solo(s), Tidy(s), CreateThread(j)
  PROVE  \E u \in JobState : Solo(u)' /\ Tidy(u)'
  <1>1. job[j].op = "thread.create" /\ job[j] # Idle
    <2>1. job[j].op \in {"thread.create", "call.create"} /\ job[j] # Idle
      BY DEF CreateThread, Idle
    <2>2. s = job[j] /\ Current(s)
      BY <2>1, AtWork
    <2> QED  BY <2>1, <2>2 DEF Current
  <1>2. /\ s = job[j] /\ Current(s) /\ s \in JobState /\ Relies(s)
        /\ \A q \in Requests : Exists(q) => RequestTidy(s, q)
        /\ \A q \in Orders : OrderTidy(s, q)
    BY <1>1, AtWork
  <1>3. PICK o, p, r : o = s.oid /\ p = s.who /\ r = orders[s.oid].request
    OBVIOUS
  <1>4. /\ o \in Orders /\ OrderExists(o)
        /\ Taken(r, o) /\ p = orders[o].provider /\ threads[o] = <<>> /\ ~Ended(o)
    BY <1>1, <1>2, <1>3, JobKinds
       DEF Current, Placing, Chatting, Relies, OnRequest, OnOrder, OrderCall, OrderEvent
  <1>5. PICK chat : chat = [customer |-> job[j].customer, provider |-> job[j].who,
                            status |-> "open", by |-> "listener"]
    OBVIOUS
  <1>6. /\ threads' = [threads EXCEPT ![o] = Append(threads[o], chat)]
        /\ Become(j, Idle) /\ UNCHANGED <<requests, orders>>
    BY <1>1, <1>2, <1>3, <1>5 DEF CreateThread, Finish
  <1>7. \A q \in Orders : threads'[q] = IF q = o THEN <<chat>> ELSE threads[q]
    BY <1>4, <1>6 DEF Inv, TypeOK
  <1>8. chat.provider = p
    BY <1>2, <1>3, <1>5
  <1>9. \A q : OrdersOf(q)' = OrdersOf(q)
    BY <1>6 DEF OrdersOf, OrderExists
  <1>10. Delivered(r)'
    <2>1. Taken(r, o)'
      BY <1>4, <1>6, <1>9 DEF Taken
    <2>2. threads'[o] = <<chat>> /\ p = requests'[r].accepted
      BY <1>4, <1>6, <1>7 DEF Taken
    <2>3. Len(threads'[o]) = 1 /\ threads'[o][1] = chat
      BY <2>2
    <2> QED  BY <1>4, <1>8, <2>1, <2>2, <2>3 DEF Delivered
  <1>11. ASSUME NEW q \in Requests, Exists(q)'  PROVE RequestTidy(Idle, q)'
    <2>1. Exists(q) /\ RequestTidy(s, q)
      BY <1>2, <1>6, <1>11 DEF Exists
    <2>2. ~Completing(s, q) /\ (Delivering(s, q) => q = r)
      BY <1>1, <1>2, <1>3 DEF Delivering, Completing, Placing, Chatting
    <2>3. Dated(q) => Dated(q)'
      BY <1>6, <1>9 DEF Dated
    <2>4. ASSUME Delivered(q), q # r  PROVE Delivered(q)'
      <3>1. PICK x \in Orders : /\ Taken(q, x) /\ Len(threads[x]) = 1
                                /\ threads[x][1].provider = requests[q].accepted
        BY <2>4 DEF Delivered
      <3>2. orders[x].request = q
        BY <3>1 DEF Taken, OrdersOf
      <3>3. x # o
        BY <1>3, <2>4, <3>2
      <3>4. Taken(q, x)'
        BY <1>6, <1>9, <3>1 DEF Taken
      <3> QED  BY <1>6, <1>7, <3>1, <3>3, <3>4 DEF Delivered
    <2> QED  BY <1>6, <1>10, <2>1, <2>2, <2>3, <2>4 DEF RequestTidy, Settled
  <1>12. ASSUME NEW q \in Orders  PROVE OrderTidy(Idle, q)'
    <2>1. ~Archiving(s, q) /\ OrderTidy(s, q)
      BY <1>1, <1>2 DEF Archiving, OrderEvent
    <2>2. q # o => (Silent(q) => Silent(q)')
      BY <1>7 DEF Silent
    <2> QED
      BY <1>4, <1>6, <2>1, <2>2 DEF OrderTidy, Ended, OrderExists
  <1>13. Solo(Idle)'
    <2>1. PICK t : t = Idle
      OBVIOUS
    <2>2. Become(j, t) /\ Idle' = Idle
      BY <1>6, <2>1 DEF Idle
    <2>3. Solo(t)'
      BY <1>1, <2>2, Worked
    <2> QED  BY <2>1, <2>3
  <1>14. Tidy(Idle)'
    BY <1>11, <1>12, IdleCurrent DEF Tidy
  <1> QED  BY <1>13, <1>14, IdleOK

(* Archiving the one thread of an order leaves none that is open.           *)
LEMMA ArchiveProceeds ==
  ASSUME Inv, Inv', NEW s, NEW j \in Jobs, Solo(s), Tidy(s), ArchiveThread(j)
  PROVE  \E u \in JobState : Solo(u)' /\ Tidy(u)'
  <1>1. job[j].op = "thread.archive" /\ job[j] # Idle
    BY DEF ArchiveThread, Running, Idle
  <1>2. /\ s = job[j] /\ Current(s) /\ s \in JobState /\ Relies(s)
        /\ \A q \in Requests : Exists(q) => RequestTidy(s, q)
        /\ \A q \in Orders : OrderTidy(s, q)
    BY <1>1, AtWork
  <1>3. PICK o : o = s.oid
    OBVIOUS
  <1>4. o \in Orders /\ threads[o] # <<>>
    BY <1>1, <1>2, <1>3, JobKinds DEF Relies, OnRequest, OnOrder, OrderCall, OrderEvent
  <1>5. threads[o] \in Seq(ThreadDoc) /\ 1 \in 1..Len(threads[o])
    BY <1>4, Facts
  <1>6. PICK r : r = orders[o].request
    OBVIOUS
  <1>7. OrderExists(o) /\ r \in Requests /\ Exists(r) /\ requests[r].accepted # None
    BY <1>4, <1>5, <1>6, Facts DEF Parties, ChatOK, PartyOK, OrderDoc
  <1>8. /\ \A q : ~Delivering(s, q) /\ ~Completing(s, q)
        /\ \A q : Archiving(s, q) => q = o
    BY <1>1, <1>2, <1>3 DEF Delivering, Completing, Archiving, Placing, Chatting
  <1>9. Len(threads[o]) = 1
    <2>1. Delivered(r)
      BY <1>2, <1>7, <1>8 DEF RequestTidy
    <2>2. o \in OrdersOf(r)
      BY <1>4, <1>6, <1>7 DEF OrdersOf
    <2> QED  BY <2>1, <2>2 DEF Delivered, Taken
  <1>10. PICK chat : chat = [threads[o][1] EXCEPT !.status = "archived"]
    OBVIOUS
  <1>11. threads[o][1] \in ThreadDoc
    BY <1>5
  <1>12. chat.status = "archived" /\ chat.provider = threads[o][1].provider
    BY <1>10, <1>11 DEF ThreadDoc
  <1>13. /\ threads' = [threads EXCEPT ![o] = [threads[o] EXCEPT ![1] = chat]]
         /\ Become(j, Idle) /\ UNCHANGED <<requests, orders>>
    BY <1>2, <1>3, <1>4, <1>5, <1>10 DEF ArchiveThread, Finish, Inv, TypeOK
  <1>14. \A q \in Orders : q # o => threads'[q] = threads[q]
    BY <1>4, <1>13 DEF Inv, TypeOK
  <1>15. threads'[o] = [threads[o] EXCEPT ![1] = chat]
    BY <1>4, <1>13 DEF Inv, TypeOK
  <1>16. Len(threads'[o]) = 1 /\ threads'[o][1] = chat
    BY <1>5, <1>9, <1>15
  <1>17. \A q : OrdersOf(q)' = OrdersOf(q)
    BY <1>13 DEF OrdersOf, OrderExists
  <1>18. ASSUME NEW q \in Requests, Delivered(q)  PROVE Delivered(q)'
    <2>1. PICK x \in Orders : /\ Taken(q, x) /\ Len(threads[x]) = 1
                              /\ threads[x][1].provider = requests[q].accepted
      BY <1>18 DEF Delivered
    <2>2. Taken(q, x)'
      BY <1>13, <1>17, <2>1 DEF Taken
    <2>3. Len(threads'[x]) = 1 /\ threads'[x][1].provider = requests[q].accepted
      BY <1>12, <1>14, <1>16, <2>1
    <2> QED  BY <1>13, <2>2, <2>3 DEF Delivered
  <1>19. ASSUME NEW q \in Requests, Exists(q)'  PROVE RequestTidy(Idle, q)'
    <2>1. Exists(q) /\ RequestTidy(s, q)
      BY <1>2, <1>13, <1>19 DEF Exists
    <2>2. Dated(q) => Dated(q)'
      BY <1>13, <1>17 DEF Dated
    <2> QED  BY <1>8, <1>13, <1>18, <2>1, <2>2 DEF RequestTidy, Settled
  <1>20. ASSUME NEW q \in Orders  PROVE OrderTidy(Idle, q)'
    <2>1. OrderTidy(s, q)
      BY <1>2
    <2>2. q # o => (Silent(q) => Silent(q)')
      BY <1>14 DEF Silent
    <2>3. Silent(o)'
      <3>1. \A i \in 1..Len(threads'[o]) : i = 1
        BY <1>16
      <3> QED  BY <1>12, <1>16, <3>1 DEF Silent
    <2> QED  BY <1>8, <1>13, <2>1, <2>2, <2>3 DEF OrderTidy, Ended, OrderExists
  <1>21. Solo(Idle)'
    <2>1. PICK t : t = Idle
      OBVIOUS
    <2>2. Become(j, t) /\ Idle' = Idle
      BY <1>13, <2>1 DEF Idle
    <2>3. Solo(t)'
      BY <1>1, <2>2, Worked
    <2> QED  BY <2>1, <2>3
  <1>22. Tidy(Idle)'
    BY <1>19, <1>20, IdleCurrent DEF Tidy
  <1> QED  BY <1>21, <1>22, IdleOK

---------------------------------------------------------------------------
(* createRequest: a request nobody has acted on.                            *)
LEMMA PublishProceeds ==
  ASSUME Inv, NEW s \in JobState, Solo(s), Tidy(s), UNCHANGED <<orders, threads>>,
         NEW r \in Requests, NEW c \in Customers, NEW ets \in 1..MaxClock,
         CreateRequest(r, c, ets)
  PROVE  Solo(s)' /\ Tidy(s)'
  <1>1. PICK doc : doc = [status |-> "open", customer |-> c, ets |-> ets, notice |-> None,
                          applications |-> [p \in Providers |-> 0], accepted |-> None,
                          photos |-> {}]
    OBVIOUS
  <1>2. /\ ~Exists(r) /\ Write(r, doc) /\ UNCHANGED job
        /\ doc.status = "open" /\ doc.accepted = None
    BY <1>1 DEF CreateRequest
  <1>3. \A q \in Requests : requests'[q] = IF q = r THEN doc ELSE requests[q]
    BY <1>2 DEF Inv, TypeOK, Write
  <1>4. Solo(s)'
    BY <1>2 DEF Solo, Idle
  <1>5. Relies(s)
    BY Facts, IdleOK DEF Solo
  <1>6. \A o \in Orders : OrderExists(o) =>
          orders[o].request \in Requests /\ orders[o].request # r
    BY <1>2, Facts DEF Parties, PartyOK, OrderDoc
  <1>7. \A q : OrdersOf(q)' = OrdersOf(q)
    BY DEF OrdersOf, OrderExists
  <1>8. Current(s)'
    <2>1. Current(s)
      BY TidyFacts
    <2>2. CASE s.op \in OnRequest /\ s.rid \in Requests
      <3>1. s.rid # r /\ requests'[s.rid] = requests[s.rid]
        BY <1>2, <1>3, <1>5, <2>2 DEF Relies
      <3> QED
        BY <1>7, <2>1, <2>2, <3>1 DEF Current, Placing, Chatting, OnRequest
    <2>3. CASE s.op = "request.completed" /\ s.rid \in Requests
      <3>1. Exists(s.rid) /\ requests[s.rid].status = "completed"
        BY <2>1, <2>3 DEF Current
      <3>2. requests'[s.rid] = requests[s.rid]
        BY <1>2, <1>3, <2>3, <3>1
      <3> QED  BY <2>3, <3>1, <3>2 DEF Current, Placing, Chatting, Exists
    <2>4. CASE s.op \in {"notify", "close"} /\ s.batch \subseteq Requests
      <3>1. \A q \in s.batch : requests'[q] = requests[q]
        BY <1>2, <1>3, <1>5, <2>4 DEF Relies
      <3> QED  BY <2>1, <2>4, <3>1 DEF Current, Placing, Chatting
    <2>5. CASE /\ s.op \in OnOrder \cup OrderEvent \cup {"thread.archive"}
               /\ s.oid \in Orders
      <3>1. s.op \in OnOrder => /\ OrderExists(s.oid)
                                /\ requests'[orders[s.oid].request] = requests[orders[s.oid].request]
        BY <1>3, <1>5, <1>6, <2>5 DEF Relies
      <3> QED
        BY <1>7, <2>1, <2>5, <3>1
           DEF Current, Placing, Chatting, OnOrder, OrderCall, OrderEvent, Taken, Ended, OrderExists
    <2>6. CASE s.op \in {"order.expire", "idle"}
      BY <2>6 DEF Current, Placing, Chatting
    <2> QED  BY <2>2, <2>3, <2>4, <2>5, <2>6, JobKinds
  <1>9. ASSUME NEW q \in Requests, Exists(q)'  PROVE RequestTidy(s, q)'
    <2>1. CASE q = r
      <3>1. requests'[q] = doc
        BY <1>3, <2>1
      <3> QED  BY <1>2, <3>1 DEF RequestTidy, Settled
    <2>2. CASE q # r
      <3>1. requests'[q] = requests[q]
        BY <1>3, <2>2
      <3>2. Exists(q) /\ RequestTidy(s, q)
        BY <1>9, <3>1, TidyFacts DEF Exists
      <3> QED
        BY <1>7, <3>1, <3>2
           DEF RequestTidy, Settled, Delivered, Taken, Dated, Delivering, Completing
    <2> QED  BY <2>1, <2>2
  <1>10. ASSUME NEW q \in Orders  PROVE OrderTidy(s, q)'
    <2>1. OrderTidy(s, q)
      BY TidyFacts
    <2>2. OrderExists(q) => requests'[orders[q].request] = requests[orders[q].request]
      BY <1>3, <1>6
    <2> QED  BY <2>1, <2>2 DEF OrderTidy, Ended, OrderExists, Silent, Archiving
  <1> QED  BY <1>4, <1>8, <1>9, <1>10 DEF Tidy

(* Time passes, or nothing happens.                                         *)
LEMMA StillOrderly ==
  ASSUME NEW s, Solo(s), Tidy(s), UNCHANGED <<requests, orders, threads, job>>
  PROVE  Solo(s)' /\ Tidy(s)'
  <1>1. Solo(s)'
    BY DEF Solo, Idle
  <1>2. Tidy(s)'
    BY HandsOn, TidyFacts
  <1> QED  BY <1>1, <1>2

(* The steps of the request service that do not fail.                       *)
LEMMA RequestsProceed ==
  ASSUME Inv, Inv', faults = 0, faults' = 0, NEW s \in JobState, Solo(s), Tidy(s), OneAtATime,
         UNCHANGED <<orders, threads>>, RequestNext
  PROVE  \E u \in JobState : Solo(u)' /\ Tidy(u)'
  <1>1. ASSUME NEW r \in Requests, NEW c \in Customers, NEW ets \in 1..MaxClock,
               CreateRequest(r, c, ets)
        PROVE  \E u \in JobState : Solo(u)' /\ Tidy(u)'
    BY <1>1, PublishProceeds
  <1>2. ASSUME NEW j \in Jobs, NEW r \in Requests, CustomerCall(j, r) \/ ProviderCall(j, r)
        PROVE  \E u \in JobState : Solo(u)' /\ Tidy(u)'
    BY <1>2, CallsProceed
  <1>3. ASSUME NEW j \in Jobs, RequestStep(j) \/ SweepStep(j)
        PROVE  \E u \in JobState : Solo(u)' /\ Tidy(u)'
    BY <1>3, ServiceWrites, SweepProceeds
  <1>4. ASSUME NEW j \in Jobs, SweepStart(j)
        PROVE  \E u \in JobState : Solo(u)' /\ Tidy(u)'
    <2>1. PICK new : new = [op |-> "notify", now |-> clock, batch |-> Found(NoticeDue, clock)]
      OBVIOUS
    <2>2. /\ Free(j) /\ UNCHANGED requests /\ Become(j, new)
          /\ new.op \in {"notify", "order.expire"} \cup OrderCall
      BY <1>4, <2>1 DEF SweepStart
    <2> QED  BY <2>2, PlainLoadProceeds
  <1>5. ASSUME Faulty  PROVE FALSE
    BY <1>5 DEF Faulty
  <1>6. ASSUME \/ \E j \in Jobs, r \in Requests : SweepSkip(j, r)
               \/ \E j \in Jobs : RequestAbort(j) \/ ApplyResend(j)
        PROVE  FALSE
    BY <1>5, <1>6 DEF SweepSkip, RequestAbort, Abort, ApplyResend
  <1> QED  BY <1>1, <1>2, <1>3, <1>4, <1>6 DEF RequestNext

(* The same of the order service.                                           *)
LEMMA OrdersProceed ==
  ASSUME Inv, Inv', faults = 0, faults' = 0, NEW s \in JobState, Solo(s), Tidy(s), OneAtATime,
         UNCHANGED <<requests, threads>>, OrderNext
  PROVE  \E u \in JobState : Solo(u)' /\ Tidy(u)'
  <1>1. ASSUME NEW j \in Jobs,
               \/ \E o \in Orders, user \in Users : OrderUserCall(j, o, user)
               \/ ExpireStart(j)
        PROVE  \E u \in JobState : Solo(u)' /\ Tidy(u)'
    BY <1>1, OrderLoadsProceed
  <1>2. ASSUME NEW j \in Jobs, OrderStep(j)
        PROVE  \E u \in JobState : Solo(u)' /\ Tidy(u)'
    BY <1>2, SaveProceeds, ExpireProceeds DEF OrderStep
  <1>3. ASSUME NEW j \in Jobs, OrderAbort(j)  PROVE FALSE
    BY <1>3 DEF OrderAbort, Abort, Faulty
  <1> QED  BY <1>1, <1>2, <1>3 DEF OrderNext

(* A call of POST /threads comes when the order has its thread.             *)
LEMMA AskProceeds ==
  ASSUME Inv, Inv', NEW s, Solo(s), Tidy(s), OneAtATime, ThreadCall
  PROVE  \E u \in JobState : Solo(u)' /\ Tidy(u)'
  <1>1. PICK j \in Jobs, o \in Orders, c \in Customers, p \in Providers : AskThread(j, o, c, p)
    BY DEF ThreadCall
  <1>2. PICK t : t = [op |-> "call.ensure", oid |-> o, who |-> p, customer |-> c]
    OBVIOUS
  <1>3. /\ Free(j) /\ OrderExists(o) /\ Become(j, t)
        /\ UNCHANGED <<requests, orders, threads>>
    BY <1>1, <1>2 DEF AskThread
  <1>4. t # Idle /\ t.op = "call.ensure" /\ t.oid = o
    BY <1>2 DEF Idle
  <1>5. s = Idle
    BY <1>3, <1>4, Loaded
  <1>6. PICK r : r = orders[o].request
    OBVIOUS
  <1>7. r \in Requests /\ Exists(r) /\ requests[r].accepted # None
    BY <1>3, <1>6, Facts DEF Parties, PartyOK, OrderDoc
  <1>8. ~Delivering(s, r)
    BY <1>5, IdleCurrent DEF Delivering, Placing, Chatting
  <1>9. Delivered(r)
    BY <1>7, <1>8, TidyFacts DEF RequestTidy
  <1>10. threads[o] # <<>>
    <2>1. PICK x \in Orders : OrdersOf(r) = {x} /\ Len(threads[x]) = 1
      BY <1>9 DEF Delivered, Taken
    <2>2. x = o
      BY <1>3, <1>6, <2>1 DEF OrdersOf
    <2> QED  BY <2>1, <2>2
  <1>11. Current(t)
    BY <1>4, <1>10 DEF Current, Placing, Chatting
  <1>12. Solo(t)' /\ Tidy(t)'
    BY <1>3, <1>4, <1>11, LoadProceeds
  <1>13. t = job'[j]
    BY <1>3, Facts DEF Become
  <1>14. t \in JobState
    BY <1>13 DEF Inv, TypeOK, JobState
  <1> QED  BY <1>12, <1>14

(* The same of the listeners.                                               *)
LEMMA ListenersProceed ==
  ASSUME Inv, Inv', NEW s \in JobState, Solo(s), Tidy(s), NEW j \in Jobs, ListenerStep(j)
  PROVE  \E u \in JobState : Solo(u)' /\ Tidy(u)'
  <1>1. CASE ReassignOrder(j)
    <2>1. job[j].op = "order.reassign" /\ job[j] # Idle
      BY <1>1 DEF ReassignOrder, Running, Idle
    <2>2. s = job[j] /\ Current(s)
      BY <2>1, AtWork
    <2> QED  BY <2>1, <2>2 DEF Current
  <1>2. CASE ~ReassignOrder(j)
    BY <1>2, AcceptedProceeds, InsertProceeds, FindProceeds, CreateProceeds, CompletedProceeds,
       FinishProceeds, EndedProceeds, ArchiveProceeds DEF ListenerStep
  <1> QED  BY <1>1, <1>2

---------------------------------------------------------------------------
(* Nothing is missing at first.                                             *)
LEMMA OrderlyInit == MCInit => Inv /\ Orderly
  <1> SUFFICES ASSUME MCInit  PROVE Inv /\ Orderly
    OBVIOUS
  <1>1. Init
    BY DEF MCInit
  <1>2. Solo(Idle)
    BY <1>1 DEF Init, BackendInit, Solo
  <1>3. Tidy(Idle)
    <2>1. \A r \in Requests : ~Exists(r)
      BY <1>1 DEF Init, Exists
    <2>2. \A o \in Orders : ~Ended(o)
      BY <1>1 DEF Init, Ended, OrderExists
    <2> QED  BY <2>1, <2>2, IdleCurrent DEF Tidy, OrderTidy
  <1> QED  BY <1>1, <1>2, <1>3, InitInv, IdleOK DEF Orderly

(* The instance takes steps of the specification only.                      *)
LEMMA MCNextIsNext ==
  ASSUME [MCNext]_mcVars
  PROVE  [Next]_vars
  <1>1. ASSUME CancelNext  PROVE OrderNext
    BY <1>1 DEF CancelNext, OrderNext, OrderUserCall, OrderStep
  <1>2. ASSUME OneCall  PROVE ThreadCall
    BY <1>2 DEF OneCall, ThreadCall
  <1>3. CASE MCNext
    BY <1>1, <1>2, <1>3 DEF MCNext, Next
  <1>4. CASE UNCHANGED mcVars
    BY <1>4 DEF mcVars
  <1> QED  BY <1>3, <1>4

(* Failures are counted and not forgotten.                                  *)
LEMMA FaultsStay ==
  ASSUME Next
  PROVE  faults' = faults \/ faults' = faults + 1
  <1>1. ASSUME RequestNext  PROVE faults' = faults \/ faults' = faults + 1
    BY <1>1 DEF RequestNext, CreateRequest, CustomerCall, ProviderCall, AcceptLoad, CompleteLoad,
       PhotosLoad, ApplyLoad, RequestStep, ApplySave, AcceptWrite, CompleteWrite, PhotosWrite,
       SweepStart, SweepStep, Notify, CloseOne, SweepOverdue, SweepEnd, SweepSkip, RequestAbort,
       ApplyResend, Abort, Faulty
  <1>2. ASSUME OrderNext  PROVE faults' = faults \/ faults' = faults + 1
    BY <1>2 DEF OrderNext, OrderUserCall, StartOrder, RequestCompletion, ApproveCompletion,
       DeclineCompletion, CancelOrder, SetProviderEts, Call, OrderStep, SaveOrder, ExpireOne,
       ExpireStart, OrderAbort, Abort, Faulty
  <1>3. ASSUME NEW j \in Jobs, ListenerStep(j) \/ ListenerAbort(j)
        PROVE  faults' = faults \/ faults' = faults + 1
    BY <1>3 DEF ListenerStep, RequestAccepted, InsertOrder, ReassignOrder, FindThread,
       CreateThread, RequestCompleted, FinishOrder, OrderEnded, ArchiveThread, ListenerAbort,
       Abort, Faulty
  <1>4. ASSUME Tick \/ Crash  PROVE faults' = faults \/ faults' = faults + 1
    BY <1>4 DEF Tick, Crash, Faulty
  <1>5. ASSUME ThreadCall  PROVE faults' = faults
    BY <1>5 DEF ThreadCall, AskThread
  <1> QED  BY <1>1, <1>2, <1>3, <1>4, <1>5 DEF Next

(* Every step keeps the invariant.                                          *)
LEMMA OrderlyNext ==
  ASSUME Inv, Orderly, [MCNext]_mcVars
  PROVE  Inv' /\ Orderly'
  <1>1. Inv'
    BY MCNextIsNext, NextInv
  <1>2. CASE UNCHANGED mcVars
    <2>1. UNCHANGED <<requests, orders, threads, job, faults, overlap>>
      BY <1>2 DEF mcVars, vars
    <2> QED  BY <1>1, <2>1, StillOrderly DEF Orderly
  <1>3. CASE MCNext
    <2>1. CASE overlap
      BY <1>1, <1>3, <2>1 DEF MCNext, Alone, Overlapped, Orderly
    <2>2. CASE ~overlap
      <3>1. overlap' = overlap /\ OneAtATime
        BY <1>3, <2>2 DEF MCNext, Alone, Overlapped
      <3> SUFFICES ASSUME faults' = 0  PROVE \E u \in JobState : Solo(u)' /\ Tidy(u)'
        BY <1>1 DEF Orderly
      <3>2. faults = 0
        <4>1. Next \/ UNCHANGED vars
          BY MCNextIsNext
        <4> QED  BY <4>1, FaultsStay, Facts DEF vars
      <3>3. PICK s \in JobState : Solo(s) /\ Tidy(s)
        BY <2>2, <3>2 DEF Orderly
      <3>4. ASSUME Faulty  PROVE FALSE
        BY <3>2, <3>4 DEF Faulty
      <3>5. CASE RequestNext /\ UNCHANGED <<orders, threads>>
        BY <1>1, <3>1, <3>2, <3>3, <3>5, RequestsProceed
      <3>6. CASE OrderNext /\ UNCHANGED <<requests, threads>>
        BY <1>1, <3>1, <3>2, <3>3, <3>6, OrdersProceed
      <3>7. ASSUME NEW j \in Jobs, ListenerStep(j)
            PROVE  \E u \in JobState : Solo(u)' /\ Tidy(u)'
        BY <1>1, <3>3, <3>7, ListenersProceed
      <3>8. ASSUME NEW j \in Jobs, ListenerAbort(j)  PROVE FALSE
        BY <3>4, <3>8 DEF ListenerAbort, Abort
      <3>9. CASE (Tick \/ Crash) /\ UNCHANGED <<requests, orders, threads>>
        <4>1. Tick
          BY <3>4, <3>9 DEF Crash
        <4>2. UNCHANGED <<requests, orders, threads, job>>
          BY <3>9, <4>1 DEF Tick
        <4> QED  BY <3>3, <4>2, StillOrderly
      <3>10. CASE OneCall
        <4>1. ThreadCall
          BY <3>10 DEF OneCall, ThreadCall
        <4> QED  BY <1>1, <3>1, <3>3, <4>1, AskProceeds
      <3> QED  BY <1>3, <2>2, <3>5, <3>6, <3>7, <3>8, <3>9, <3>10 DEF MCNext, Overlapped
    <2> QED  BY <2>1, <2>2
  <1> QED  BY <1>2, <1>3

(* With nothing in flight nothing is missing.                               *)
LEMMA OrderlyRests == Inv /\ Orderly => SerialHandover
  <1> SUFFICES ASSUME Inv, Orderly, ~overlap, AtRest  PROVE Handover /\ EndedOrderArchived
    BY DEF SerialHandover, Handover, EndedOrderArchived
  <1>1. Tidy(Idle)
    BY DEF AtRest, Orderly, Solo, Free
  <1>2. \A q : ~Delivering(Idle, q) /\ ~Completing(Idle, q) /\ ~Archiving(Idle, q)
    BY IdleCurrent DEF Delivering, Completing, Archiving, Placing, Chatting, OrderEvent
  <1>3. Handover
    <2>1. SUFFICES ASSUME NEW r \in Requests, Exists(r), requests[r].accepted # None
                   PROVE  \E o \in Orders :
                            /\ OrdersOf(r) = {o}
                            /\ orders[o].provider = requests[r].accepted
                            /\ Len(threads[o]) = 1
                            /\ threads[o][1].provider = requests[r].accepted
                            /\ requests[r].status = "completed" => orders[o].completedAt # None
      BY DEF Handover
    <2>2. Delivered(r) /\ (requests[r].status = "completed" => Dated(r))
      BY <1>1, <1>2, <2>1 DEF Tidy, RequestTidy
    <2> QED  BY <2>2 DEF Delivered, Taken, Dated
  <1>4. EndedOrderArchived
    BY <1>1, <1>2 DEF Tidy, OrderTidy, Silent, EndedOrderArchived
  <1> QED  BY <1>3, <1>4

(* As long as handlers do not overlap and none fails, an accepted request   *)
(* has, once its listeners are done, one order with one chat, both of the   *)
(* selected provider, a completed request a completed order, and an order   *)
(* that a customer, an admin or the cron ended no open chat.                *)
THEOREM HandoverComplete == MCSpec => []SerialHandover
  <1>1. Inv /\ Orderly /\ [MCNext]_mcVars => (Inv /\ Orderly)'
    BY OrderlyNext
  <1> QED  BY <1>1, OrderlyInit, OrderlyRests, PTL DEF MCSpec
================================================================================
