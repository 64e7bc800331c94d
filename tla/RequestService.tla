---------------------------- MODULE RequestService ----------------------------
(****************************************************************************)
(* Service requests: requests.service.ts and expiration.service.ts.         *)
(*                                                                          *)
(* Every handler loads the request, checks what it loaded, and writes in a  *)
(* later database call, so it is a Load action, which leaves a job with the *)
(* facts the write depends on, and a write action.  A write changes the     *)
(* fields the code assigns and no other: document.save() sends the modified *)
(* paths only, findByIdAndUpdate its $set, and neither looks at the state   *)
(* the document has by then.                                                *)
(****************************************************************************)
EXTENDS Backend

(* ClosureDelay: from the ETS, when the expiry notice is due, to the        *)
(* closure.  AckLoss: whether a save may reach the database and its answer  *)
(* be lost.                                                                 *)
CONSTANTS Uploads, ClosureDelay, AckLoss

ASSUME RequestAssumption == ClosureDelay \in Nat /\ AckLoss \in BOOLEAN

VARIABLE requests

requestVars == <<requests, job, clock, faults>>

Status == {"open", "pending", "accepted", "completed", "closed"}
Unsettled == {"open", "pending"}

(* applications counts the entries each provider has in the array.          *)
RequestDoc ==
  [status : Status, customer : Customers, ets : Nat, notice : Nat \cup {None},
   applications : [Providers -> Nat], accepted : Providers \cup {None},
   photos : SUBSET Uploads]

(* The part of it RequestPromise is about.                                  *)
RequestView ==
  [status : Status, customer : Customers, ets : Nat, applications : [Providers -> Nat],
   accepted : Providers \cup {None}, photos : SUBSET Uploads]

ASSUME NullIsNoRequest == None \notin RequestDoc \cup RequestView

RequestJob ==
       [op : {"apply"}, rid : Requests, who : Providers, seen : Unsettled]
  \cup [op : {"accept", "request.accepted"}, rid : Requests, who : Providers]
  \cup [op : {"complete", "request.completed"}, rid : Requests]
  \cup [op : {"photos"}, rid : Requests, photos : SUBSET Uploads]
  \cup [op : {"notify", "close"}, now : Nat, batch : SUBSET Requests]

Exists(r) == requests[r] # None
Write(r, doc) == requests' = [requests EXCEPT ![r] = doc]
Running(j, op) == job[j].op = op

---------------------------------------------------------------------------
(* Slips: operators of the code below as a plausible error would have them. *)
(* No specification uses them; each makes one of the properties fail.       *)
AnybodyApplied(r, p) == \E q \in Providers : requests[r].applications[q] > 0
NotYetAccepted(r) == requests[r].status # "accepted"
StaysOpen(doc, p, seen) == [doc EXCEPT !.applications[p] = @ + 1]
OpenUnnoticed(r, now) ==
  requests[r].status = "open" /\ requests[r].ets <= now /\ requests[r].notice = None
PastEts(r, now) ==
  requests[r].status \in Unsettled /\ requests[r].ets <= now
OpenPastDelay(r, now) ==
  requests[r].status = "open" /\ requests[r].ets + ClosureDelay <= now

---------------------------------------------------------------------------
(* What the handlers check and what their writes send.                      *)
IsUnsettled(r) == requests[r].status \in Unsettled
AlreadyApplied(r, p) == requests[r].applications[p] > 0
ProviderApplied(r, p) == requests[r].applications[p] > 0

(* req.save() pushes the application, and sends the status only when the    *)
(* handler changed it, which it does when it had loaded an open request.    *)
Pushed(doc, p, seen) ==
  [doc EXCEPT !.applications[p] = @ + 1,
              !.status = IF seen = "open" THEN "pending" ELSE @]

Selected(doc, p) == [doc EXCEPT !.status = "accepted", !.accepted = p]

NoticeDue(r, now) ==
  requests[r].status \in Unsettled /\ requests[r].ets <= now /\ requests[r].notice = None

ClosureDue(r, now) ==
  requests[r].status \in Unsettled /\ requests[r].ets + ClosureDelay <= now

---------------------------------------------------------------------------
(* createRequest: one insert; @IsFutureDate checks the ETS.                 *)
CreateRequest(r, c, ets) ==
  /\ ~Exists(r)
  /\ ets > clock
  /\ Write(r, [status |-> "open", customer |-> c, ets |-> ets, notice |-> None,
               applications |-> [p \in Providers |-> 0], accepted |-> None,
               photos |-> {}])
  /\ UNCHANGED <<job, clock, faults>>

ApplyLoad(j, r, p) ==
  /\ Free(j) /\ Exists(r)
  /\ IsUnsettled(r)
  /\ ~AlreadyApplied(r, p)
  /\ Become(j, [op |-> "apply", rid |-> r, who |-> p, seen |-> requests[r].status])
  /\ UNCHANGED <<requests, clock, faults>>

ApplySave(j) ==
  /\ Running(j, "apply")
  /\ Write(job[j].rid, Pushed(requests[job[j].rid], job[j].who, job[j].seen))
  /\ Finish(j)
  /\ UNCHANGED <<clock, faults>>

(* The save took effect but a network error hides it: executeWithRetry runs *)
(* save() again, and Mongoose, which has kept the push, sends it again.     *)
ApplyResend(j) ==
  /\ AckLoss /\ Faulty
  /\ Running(j, "apply")
  /\ Write(job[j].rid, Pushed(requests[job[j].rid], job[j].who, job[j].seen))
  /\ UNCHANGED <<job, clock>>

AcceptLoad(j, r, c, p) ==
  /\ Free(j) /\ Exists(r)
  /\ requests[r].customer = c
  /\ IsUnsettled(r)
  /\ ProviderApplied(r, p)
  /\ Become(j, [op |-> "accept", rid |-> r, who |-> p])
  /\ UNCHANGED <<requests, clock, faults>>

(* The transaction holds a single update; request.accepted is emitted when  *)
(* it has committed, and the job goes on as the listener's.                 *)
AcceptWrite(j) ==
  /\ Running(j, "accept")
  /\ Write(job[j].rid, Selected(requests[job[j].rid], job[j].who))
  /\ Become(j, [job[j] EXCEPT !.op = "request.accepted"])
  /\ UNCHANGED <<clock, faults>>

CompleteLoad(j, r, user) ==
  /\ Free(j) /\ Exists(r)
  /\ requests[r].status = "accepted"
  /\ user \in {requests[r].customer, requests[r].accepted}
  /\ Become(j, [op |-> "complete", rid |-> r])
  /\ UNCHANGED <<requests, clock, faults>>

CompleteWrite(j) ==
  /\ Running(j, "complete")
  /\ Write(job[j].rid, [requests[job[j].rid] EXCEPT !.status = "completed"])
  /\ Become(j, [job[j] EXCEPT !.op = "request.completed"])
  /\ UNCHANGED <<clock, faults>>

(* Uploaded files get unique names: u is the name of none still in use.     *)
PhotosLoad(j, r, c, u) ==
  /\ Free(j) /\ Exists(r)
  /\ requests[r].customer = c
  /\ requests[r].status \notin {"completed", "closed"}
  /\ \A q \in Requests : Exists(q) => u \notin requests[q].photos
  /\ \A k \in Jobs : Running(k, "photos") => u \notin job[k].photos
  /\ Become(j, [op |-> "photos", rid |-> r, photos |-> requests[r].photos \cup {u}])
  /\ UNCHANGED <<requests, clock, faults>>

PhotosWrite(j) ==
  /\ Running(j, "photos")
  /\ Write(job[j].rid, [requests[job[j].rid] EXCEPT !.photos = job[j].photos])
  /\ Finish(j)
  /\ UNCHANGED <<clock, faults>>

---------------------------------------------------------------------------
(* processExpiry, which setInterval starts whether or not the previous one  *)
(* has ended.  Both queries use the time read when it started.              *)
Found(query(_, _), now) == {r \in Requests : Exists(r) /\ query(r, now)}

SweepStart(j) ==
  /\ Free(j)
  /\ Become(j, [op |-> "notify", now |-> clock, batch |-> Found(NoticeDue, clock)])
  /\ UNCHANGED <<requests, clock, faults>>

Rest(j, r) == [job[j] EXCEPT !.batch = @ \ {r}]

Notify(j, r) ==
  /\ Running(j, "notify") /\ r \in job[j].batch
  /\ Write(r, [requests[r] EXCEPT !.notice = job[j].now])
  /\ Become(j, Rest(j, r))
  /\ UNCHANGED <<clock, faults>>

SweepOverdue(j) ==
  /\ Running(j, "notify") /\ job[j].batch = {}
  /\ Become(j, [op |-> "close", now |-> job[j].now, batch |-> Found(ClosureDue, job[j].now)])
  /\ UNCHANGED <<requests, clock, faults>>

CloseOne(j, r) ==
  /\ Running(j, "close") /\ r \in job[j].batch
  /\ Write(r, [requests[r] EXCEPT !.status = "closed"])
  /\ Become(j, Rest(j, r))
  /\ UNCHANGED <<clock, faults>>

(* A save that fails is logged and the loop goes on with the next request.  *)
SweepSkip(j, r) ==
  /\ job[j].op \in {"notify", "close"} /\ r \in job[j].batch
  /\ Faulty
  /\ Become(j, Rest(j, r))
  /\ UNCHANGED <<requests, clock>>

SweepEnd(j) ==
  /\ Running(j, "close") /\ job[j].batch = {}
  /\ Finish(j)
  /\ UNCHANGED <<requests, clock, faults>>

(* Outside the sweeper's loops an exception ends the handler.               *)
RequestAbort(j) ==
  /\ job[j] \in RequestJob
  /\ job[j].op \in {"notify", "close"} => job[j].op = "notify" /\ job[j].batch = {}
  /\ Abort(j)
  /\ UNCHANGED requests

---------------------------------------------------------------------------
CustomerCall(j, r) ==
  \E c \in Customers :
    \/ \E p \in Providers : AcceptLoad(j, r, c, p)
    \/ CompleteLoad(j, r, c)
    \/ \E u \in Uploads : PhotosLoad(j, r, c, u)

ProviderCall(j, r) ==
  \E p \in Providers : ApplyLoad(j, r, p) \/ CompleteLoad(j, r, p)

(* The steps a handler in flight takes when its database call returns.      *)
RequestStep(j) ==
  \/ ApplySave(j)
  \/ AcceptWrite(j)
  \/ CompleteWrite(j)
  \/ PhotosWrite(j)

SweepStep(j) ==
  \/ \E r \in Requests : Notify(j, r) \/ CloseOne(j, r)
  \/ SweepOverdue(j)
  \/ SweepEnd(j)

RequestNext ==
  \/ \E r \in Requests, c \in Customers, ets \in 1..MaxClock : CreateRequest(r, c, ets)
  \/ \E j \in Jobs, r \in Requests : CustomerCall(j, r) \/ ProviderCall(j, r)
  \/ \E j \in Jobs : RequestStep(j) \/ SweepStart(j) \/ SweepStep(j)
  \/ \E j \in Jobs, r \in Requests : SweepSkip(j, r)
  \/ \E j \in Jobs : RequestAbort(j) \/ ApplyResend(j)

(* Without the order listener an emitted event goes nowhere.                *)
Undelivered(j) ==
  /\ job[j].op \in {"request.accepted", "request.completed"}
  /\ Finish(j)
  /\ UNCHANGED <<requests, clock, faults>>

RequestInit ==
  /\ BackendInit
  /\ requests = [r \in Requests |-> None]

RequestsAlone ==
  \/ RequestNext
  \/ \E j \in Jobs : Undelivered(j)
  \/ (Tick \/ Crash) /\ UNCHANGED requests

RequestSpec == RequestInit /\ [][RequestsAlone]_requestVars

(* Node resumes every handler whose database call has returned, and the     *)
(* timer fires again whatever else is running: it never waits for a job     *)
(* slot, which only exist in the model, hence the strong fairness.          *)
RequestFairness ==
  /\ \A j \in Jobs : WF_requestVars(RequestStep(j) \/ SweepStep(j) \/ Undelivered(j))
  /\ SF_requestVars(\E j \in Jobs : SweepStart(j))

FairRequestSpec == RequestSpec /\ RequestFairness

---------------------------------------------------------------------------
Applied(r, p) == requests[r].applications[p] > 0

(* Every document fits the Mongoose schema and every job the handlers' code. *)
RequestTypeOK ==
  /\ requests \in [Requests -> RequestDoc \cup {None}]
  /\ job \in [Jobs -> RequestJob \cup {Idle}]
  /\ clock \in Nat /\ faults \in Nat

(* The provider selected for a request is one that applied to it, although  *)
(* acceptProvider checks an earlier version of the applications than the    *)
(* one its update meets.                                                    *)
AcceptedApplied ==
  \A r \in Requests :
    Exists(r) /\ requests[r].accepted # None => Applied(r, requests[r].accepted)

(* A request shown as accepted or completed names its provider, whatever    *)
(* late writes of other handlers have done to the status.                   *)
SettledHasProvider ==
  \A r \in Requests :
    Exists(r) /\ requests[r].status \in {"accepted", "completed"}
      => requests[r].accepted # None

(* listNearby shows open requests only: a request is open until its first   *)
(* application, and no late write makes it open again; only a closed one    *)
(* may besides have had no application.                                     *)
OpenUntilApplication ==
  \A r \in Requests :
    /\ Exists(r) /\ requests[r].status = "open"
         => \A p \in Providers : ~Applied(r, p)
    /\ Exists(r) /\ requests[r].status \notin {"open", "closed"}
         => \E p \in Providers : Applied(r, p)

(* The status of a request is borne out by its applications and provider.   *)
StatusHasCause == SettledHasProvider /\ OpenUntilApplication

(* What a handler in flight relies on when it writes without checking again *)
(* still holds then, whatever the other handlers wrote in between.          *)
LoadedFactsHold ==
  \A j \in Jobs :
    /\ job[j].op \in {"apply", "accept", "request.accepted", "complete", "photos"}
         => Exists(job[j].rid)
    /\ job[j].op \in {"notify", "close"} => \A r \in job[j].batch : Exists(r)
    /\ job[j].op = "apply" /\ job[j].seen = "pending"
         => requests[job[j].rid].status # "open"
    /\ job[j].op \in {"accept", "request.accepted"} => Applied(job[j].rid, job[j].who)
    /\ job[j].op = "complete" => requests[job[j].rid].accepted # None

(* A sweep closes no request it has not sent the expiry notice for, as long *)
(* as no save of the sweep failed.  Holds when handlers do not overlap.     *)
ClosedWasNoticed ==
  \A r \in Requests :
    Exists(r) /\ requests[r].status = "closed" /\ faults = 0
      => requests[r].notice # None

(* The jobs in flight that hold an unconditional write of r's status.       *)
Writing(r, ops) ==
  \E j \in Jobs :
    /\ job[j].op \in ops
    /\ IF job[j].op = "close" THEN r \in job[j].batch ELSE job[j].rid = r

Final(r) ==
  /\ Exists(r)
  /\ requests[r].status \in {"completed", "closed"}
  /\ ~Writing(r, {"apply", "accept", "complete", "close"})

Committed(r) ==
  /\ Exists(r)
  /\ requests[r].status = "accepted"
  /\ ~Writing(r, {"apply", "accept", "close"})

FinalityStep(r) ==
  /\ Final(r) => /\ Final(r)'
                 /\ requests'[r].status = requests[r].status
                 /\ requests'[r].accepted = requests[r].accepted
  /\ Committed(r) => /\ Committed(r)' \/ requests'[r].status = "completed"
                     /\ requests'[r].accepted = requests[r].accepted

(* Once a request is completed or closed and the handlers that had loaded   *)
(* it before have ended, no handler, sweep or retry changes its status or   *)
(* its provider again; an accepted one can only be completed.  The window   *)
(* between load and write is the only way around the status checks.         *)
Finality == [][\A r \in Requests : FinalityStep(r)]_requestVars

Lingering(r) == Exists(r) /\ requests[r].status \in Unsettled

(* A request overdue for closure leaves the open and pending states, also   *)
(* when sweeps overlap, fail on some save or are cut off by a restart.      *)
OverdueSettles ==
  \A r \in Requests :
    Lingering(r) /\ requests[r].ets + ClosureDelay <= clock ~> ~Lingering(r)

(* With handlers that do not overlap, the documents keep the promise of     *)
(* RequestPromise: every write is one of its atomic operations.             *)
SeenRequest(doc) ==
  [f \in {"status", "customer", "ets", "applications", "accepted", "photos"} |-> doc[f]]
SeenRequests ==
  [r \in Requests |-> IF requests[r] = None THEN None ELSE SeenRequest(requests[r])]

Promised ==
  INSTANCE RequestPromise WITH Times <- 1..MaxClock, requests <- SeenRequests

(* What the service does to a request is what RequestPromise allows.        *)
Promise == Promised!Spec
==============================================================================
