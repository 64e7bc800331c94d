------------------------- MODULE RequestService_proofs -------------------------
(****************************************************************************)
(* Type correctness, safety and finality of RequestService, for any number  *)
(* of requests, providers and handlers in flight, and of faults.            *)
(****************************************************************************)
EXTENDS RequestService, TLAPS

(* The inductive invariant: the safety invariants of the documents need     *)
(* what the handlers in flight rely on, LoadedFactsHold.                    *)
Inv ==
  /\ RequestTypeOK
  /\ AcceptedApplied
  /\ SettledHasProvider
  /\ OpenUntilApplication
  /\ LoadedFactsHold

(* The same read document by document and job by job.                       *)
DocOK(d) ==
  /\ d.accepted # None => d.applications[d.accepted] > 0
  /\ d.status \in {"accepted", "completed"} => d.accepted # None
  /\ d.status = "open" => \A p \in Providers : ~(d.applications[p] > 0)
  /\ d.status \notin {"open", "closed"} => \E p \in Providers : d.applications[p] > 0

JobOK(s) ==
  /\ s.op \in {"apply", "accept", "request.accepted", "complete", "photos"}
       => Exists(s.rid)
  /\ s.op \in {"notify", "close"} => \A r \in s.batch : Exists(r)
  /\ s.op = "apply" /\ s.seen = "pending" => requests[s.rid].status # "open"
  /\ s.op \in {"accept", "request.accepted"} => Applied(s.rid, s.who)
  /\ s.op = "complete" => requests[s.rid].accepted # None

JobState == RequestJob \cup {Idle}

(* What no write takes back.                                                *)
Evolves(old, new) ==
  /\ old.status # "open" => new.status # "open"
  /\ \A p \in Providers : old.applications[p] > 0 => new.applications[p] > 0
  /\ old.accepted # None => new.accepted # None

Parts ==
  /\ RequestTypeOK
  /\ \A r \in Requests : Exists(r) => DocOK(requests[r])
  /\ \A j \in Jobs : JobOK(job[j])

(* The two readings agree.                                                  *)
LEMMA InvByParts == Inv <=> Parts
  BY DEF Parts, Inv, AcceptedApplied, SettledHasProvider, OpenUntilApplication,
         LoadedFactsHold, DocOK, JobOK, Applied

(* So they do in the next state.                                            *)
LEMMA InvByPartsNext == Inv' <=> Parts'
  BY InvByParts, PTL

(* A request that exists is a document of the schema.                       *)
LEMMA ExistsIsDoc ==
  ASSUME RequestTypeOK, NEW r \in Requests, Exists(r)
  PROVE  requests[r] \in RequestDoc
  BY DEF RequestTypeOK, Exists

(* An idle slot relies on nothing.                                          *)
LEMMA IdleOK == Idle \in JobState /\ JobOK(Idle)
  BY DEF Idle, JobState, JobOK

(* The kinds of jobs, as JobOK tells them apart.                            *)
LEMMA OpsOfJobs ==
  ASSUME NEW s \in JobState
  PROVE  s.op \in {"apply", "accept", "request.accepted", "complete", "photos"}
                 \cup {"request.completed"} \cup {"notify", "close"} \cup {"idle"}
  <1>1. CASE s = Idle
    BY <1>1 DEF Idle
  <1>2. CASE s \in RequestJob
    BY <1>2 DEF RequestJob
  <1> QED  BY <1>1, <1>2 DEF JobState

(* A step that changes jobs only.                                           *)
LEMMA JobStep ==
  ASSUME Inv, UNCHANGED requests, clock' \in Nat, faults' \in Nat,
         NEW j \in Jobs, NEW next \in JobState, Become(j, next), JobOK(next)
  PROVE  Inv'
  <1>1. RequestTypeOK'
    BY DEF Inv, RequestTypeOK, Become, JobState
  <1>2. \A r \in Requests : Exists(r)' => DocOK(requests[r])'
    BY InvByParts DEF Parts, Exists, DocOK
  <1>3. \A k \in Jobs : JobOK(job[k])'
    <2> TAKE k \in Jobs
    <2>1. job'[k] = IF k = j THEN next ELSE job[k]
      BY DEF Inv, RequestTypeOK, Become
    <2>2. JobOK(job'[k])
      BY <2>1, InvByParts DEF Parts
    <2> QED  BY <2>2 DEF JobOK, Exists, Applied
  <1> QED  BY <1>1, <1>2, <1>3, InvByPartsNext DEF Parts

(* A step that writes one document, which must keep what others rely on.    *)
LEMMA DocStep ==
  ASSUME Inv, clock' \in Nat, faults' \in Nat,
         NEW r \in Requests, NEW doc \in RequestDoc, Write(r, doc), DocOK(doc),
         Exists(r) => Evolves(requests[r], doc),
         job' \in [Jobs -> JobState],
         \A k \in Jobs : job'[k] = job[k] \/ JobOK(job[k])'
  PROVE  Inv'
  <1>1. /\ RequestTypeOK
        /\ \A q \in Requests : Exists(q) => DocOK(requests[q])
        /\ \A j \in Jobs : JobOK(job[j])
    BY InvByParts DEF Parts
  <1>2. \A q \in Requests : requests'[q] = IF q = r THEN doc ELSE requests[q]
    BY <1>1 DEF RequestTypeOK, Write
  <1>3. RequestTypeOK'
    BY <1>1 DEF RequestTypeOK, Write, JobState
  <1>4. \A q \in Requests : Exists(q)' => DocOK(requests[q])'
    BY <1>1, <1>2 DEF Exists, DocOK
  <1>5. \A q \in Requests : Exists(q) => Exists(q)' /\ Evolves(requests[q], requests'[q])
    BY <1>2, NullIsNoRequest DEF Exists, Evolves
  <1>6. ASSUME NEW k \in Jobs, job'[k] = job[k]  PROVE JobOK(job[k])'
    <2>1. job[k] \in JobState /\ JobOK(job[k])
      BY <1>1 DEF RequestTypeOK, JobState
    <2>2. CASE job[k].op \in {"apply", "accept", "request.accepted", "complete", "photos"}
      <3>1. job[k].rid \in Requests
        BY <2>1, <2>2 DEF JobState, RequestJob, Idle
      <3>2. job[k].op \in {"accept", "request.accepted"} => job[k].who \in Providers
        BY <2>1, <2>2 DEF JobState, RequestJob, Idle
      <3> QED
        BY <1>5, <1>6, <2>1, <2>2, <3>1, <3>2 DEF JobOK, Exists, Applied, Evolves
    <2>3. CASE job[k].op \in {"notify", "close"}
      <3>1. job[k].batch \subseteq Requests
        BY <2>1, <2>3 DEF JobState, RequestJob, Idle
      <3> QED  BY <1>5, <1>6, <2>1, <2>3, <3>1 DEF JobOK, Exists
    <2>4. CASE job[k].op \in {"idle", "request.completed"}
      BY <1>6, <2>4 DEF JobOK
    <2> QED  BY <2>1, <2>2, <2>3, <2>4, OpsOfJobs
  <1> QED  BY <1>3, <1>4, <1>6, InvByPartsNext DEF Parts

---------------------------------------------------------------------------
(* The loads: what the new job relies on is what the handler just checked.  *)
LEMMA LoadSteps ==
  ASSUME Inv, NEW j \in Jobs, NEW r \in Requests
  PROVE  /\ \A p \in Providers : ApplyLoad(j, r, p) => Inv'
         /\ \A c \in Customers, p \in Providers : AcceptLoad(j, r, c, p) => Inv'
         /\ \A user : CompleteLoad(j, r, user) => Inv'
         /\ \A c \in Customers, u \in Uploads : PhotosLoad(j, r, c, u) => Inv'
  <1> USE DEF Running
  <1>0. /\ RequestTypeOK
        /\ Exists(r) => requests[r] \in RequestDoc /\ DocOK(requests[r])
    BY InvByParts, ExistsIsDoc DEF Parts
  <1>t. clock \in Nat /\ faults \in Nat
    BY <1>0 DEF RequestTypeOK
  <1>1. ASSUME NEW p \in Providers, ApplyLoad(j, r, p)  PROVE Inv'
    <2> DEFINE s == [op |-> "apply", rid |-> r, who |-> p, seen |-> requests[r].status]
    <2>1. s \in JobState
      BY <1>1 DEF ApplyLoad, IsUnsettled, JobState, RequestJob
    <2>2. JobOK(s)
      BY <1>1 DEF ApplyLoad, JobOK
    <2> QED  BY <1>1, <1>t, <2>1, <2>2, JobStep DEF ApplyLoad
  <1>2. ASSUME NEW c \in Customers, NEW p \in Providers, AcceptLoad(j, r, c, p)
        PROVE  Inv'
    <2> DEFINE s == [op |-> "accept", rid |-> r, who |-> p]
    <2>1. s \in JobState
      BY DEF JobState, RequestJob
    <2>2. JobOK(s)
      BY <1>2 DEF AcceptLoad, JobOK, ProviderApplied, Applied
    <2> QED  BY <1>2, <1>t, <2>1, <2>2, JobStep DEF AcceptLoad
  <1>3. ASSUME NEW user, CompleteLoad(j, r, user)  PROVE Inv'
    <2> DEFINE s == [op |-> "complete", rid |-> r]
    <2>1. s \in JobState
      BY DEF JobState, RequestJob
    <2>2. JobOK(s)
      BY <1>0, <1>3 DEF CompleteLoad, JobOK, DocOK
    <2> QED  BY <1>3, <1>t, <2>1, <2>2, JobStep DEF CompleteLoad
  <1>4. ASSUME NEW c \in Customers, NEW u \in Uploads, PhotosLoad(j, r, c, u)
        PROVE  Inv'
    <2> DEFINE s == [op |-> "photos", rid |-> r, photos |-> requests[r].photos \cup {u}]
    <2>1. s \in JobState
      BY <1>0, <1>4 DEF PhotosLoad, RequestDoc, JobState, RequestJob
    <2>2. JobOK(s)
      BY <1>4 DEF PhotosLoad, JobOK
    <2> QED  BY <1>4, <1>t, <2>1, <2>2, JobStep DEF PhotosLoad
  <1> QED  BY <1>1, <1>2, <1>3, <1>4

(* The writes: each keeps what handlers that loaded the request rely on.    *)
LEMMA CreateStep ==
  ASSUME Inv, NEW r \in Requests, NEW c \in Customers, NEW ets \in 1..MaxClock,
         CreateRequest(r, c, ets)
  PROVE  Inv'
  <1> DEFINE doc == [status |-> "open", customer |-> c, ets |-> ets, notice |-> None,
                     applications |-> [p \in Providers |-> 0], accepted |-> None,
                     photos |-> {}]
  <1>1. doc \in RequestDoc /\ DocOK(doc)
    BY BoundsAssumption DEF RequestDoc, Status, DocOK
  <1>2. RequestTypeOK
    BY DEF Inv
  <1> QED
    BY <1>1, <1>2, DocStep DEF CreateRequest, RequestTypeOK, JobState

(* What the save of an application changes.                                 *)
LEMMA PushedFields ==
  ASSUME NEW d \in RequestDoc, NEW p \in Providers, NEW seen \in Unsettled
  PROVE  /\ Pushed(d, p, seen) \in RequestDoc
         /\ Pushed(d, p, seen).status = IF seen = "open" THEN "pending" ELSE d.status
         /\ Pushed(d, p, seen).accepted = d.accepted
         /\ \A q \in Providers : Pushed(d, p, seen).applications[q] =
                IF q = p THEN d.applications[q] + 1 ELSE d.applications[q]
  <1> DEFINE apps == [d.applications EXCEPT ![p] = @ + 1]
  <1>1. d.applications \in [Providers -> Nat]
    BY DEF RequestDoc
  <1>2. apps \in [Providers -> Nat]
    BY <1>1
  <1>3. \A q \in Providers : apps[q] = IF q = p THEN d.applications[q] + 1
                                              ELSE d.applications[q]
    BY <1>1
  <1>4. Pushed(d, p, seen) =
          [d EXCEPT !.applications = apps,
                    !.status = IF seen = "open" THEN "pending" ELSE d.status]
    BY DEF Pushed, RequestDoc
  <1> HIDE DEF apps
  <1> QED  BY <1>2, <1>3, <1>4 DEF RequestDoc, Status

(* The save of an application keeps the document in order.                  *)
LEMMA PushedOK ==
  ASSUME Inv, NEW j \in Jobs, Running(j, "apply")
  PROVE  LET doc == Pushed(requests[job[j].rid], job[j].who, job[j].seen)
         IN /\ job[j].rid \in Requests
            /\ doc \in RequestDoc /\ DocOK(doc)
            /\ Evolves(requests[job[j].rid], doc)
  <1> DEFINE r == job[j].rid
             p == job[j].who
             doc == Pushed(requests[r], p, job[j].seen)
  <1>1. job[j] \in JobState /\ JobOK(job[j]) /\ RequestTypeOK
    BY InvByParts DEF Parts, RequestTypeOK, JobState
  <1>2. r \in Requests /\ p \in Providers /\ job[j].seen \in Unsettled
    BY <1>1 DEF Running, JobState, RequestJob, Idle
  <1>3. Exists(r) /\ (job[j].seen = "pending" => requests[r].status # "open")
    BY <1>1 DEF JobOK, Running
  <1>4. requests[r] \in RequestDoc /\ DocOK(requests[r])
    BY <1>1, <1>2, <1>3, InvByParts, ExistsIsDoc DEF Parts
  <1>5. /\ doc \in RequestDoc
        /\ doc.status = IF job[j].seen = "open" THEN "pending" ELSE requests[r].status
        /\ doc.accepted = requests[r].accepted
        /\ \A q \in Providers : doc.applications[q] =
               IF q = p THEN requests[r].applications[q] + 1 ELSE requests[r].applications[q]
    BY <1>2, <1>4, PushedFields
  <1>6. \A q \in Providers : requests[r].applications[q] \in Nat
    BY <1>4 DEF RequestDoc
  <1>7. /\ doc.applications[p] > 0
        /\ \A q \in Providers : requests[r].applications[q] > 0 => doc.applications[q] > 0
    BY <1>2, <1>5, <1>6
  <1>8. doc.accepted # None => doc.accepted \in Providers
    BY <1>5 DEF RequestDoc
  <1>9. DocOK(doc)
    BY <1>2, <1>3, <1>4, <1>5, <1>7, <1>8 DEF DocOK, Unsettled
  <1> QED  BY <1>2, <1>3, <1>5, <1>7, <1>9 DEF Evolves, Unsettled

(* An application saved, or saved again after a lost answer.                *)
LEMMA ApplySteps ==
  ASSUME Inv, NEW j \in Jobs, ApplySave(j) \/ ApplyResend(j)
  PROVE  Inv'
  <1> DEFINE doc == Pushed(requests[job[j].rid], job[j].who, job[j].seen)
  <1>1. RequestTypeOK
    BY DEF Inv
  <1>2. /\ job[j].rid \in Requests
        /\ doc \in RequestDoc /\ DocOK(doc)
        /\ Evolves(requests[job[j].rid], doc)
    BY PushedOK DEF ApplySave, ApplyResend
  <1> HIDE DEF doc
  <1>3. CASE ApplySave(j)
    <2>1. /\ job' = [job EXCEPT ![j] = Idle] /\ Write(job[j].rid, doc)
          /\ clock' \in Nat /\ faults' \in Nat
      BY <1>1, <1>3 DEF ApplySave, Finish, Become, RequestTypeOK, doc
    <2>2. /\ job' \in [Jobs -> JobState]
          /\ \A k \in Jobs : job'[k] = job[k] \/ job'[k] = Idle
      BY <1>1, <2>1, IdleOK DEF RequestTypeOK, JobState
    <2>3. \A k \in Jobs : job'[k] = job[k] \/ JobOK(job[k])'
      BY <2>2 DEF JobOK, Idle
    <2> QED  BY <1>2, <2>1, <2>2, <2>3, DocStep
  <1>4. CASE ApplyResend(j)
    <2>1. /\ job' = job /\ Write(job[j].rid, doc)
          /\ clock' \in Nat /\ faults' \in Nat
      BY <1>1, <1>4 DEF ApplyResend, Faulty, RequestTypeOK, doc
    <2>2. job' \in [Jobs -> JobState]
      BY <1>1, <2>1 DEF RequestTypeOK, JobState
    <2> QED  BY <1>2, <2>1, <2>2, DocStep
  <1> QED  BY <1>3, <1>4

(* The document a handler in flight is about to write.                      *)
LEMMA Target ==
  ASSUME Inv, NEW j \in Jobs, job[j].op \in {"accept", "complete", "photos"}
  PROVE  /\ RequestTypeOK
         /\ job[j].rid \in Requests
         /\ job[j].op = "accept" =>
              job[j].who \in Providers /\ requests[job[j].rid].applications[job[j].who] > 0
         /\ job[j].op = "complete" => requests[job[j].rid].accepted # None
         /\ job[j].op = "photos" => job[j].photos \subseteq Uploads
         /\ requests[job[j].rid] \in RequestDoc
         /\ DocOK(requests[job[j].rid])
  <1>1. job[j] \in JobState /\ JobOK(job[j]) /\ RequestTypeOK
    BY InvByParts DEF Parts, RequestTypeOK, JobState
  <1>2. /\ job[j].rid \in Requests
        /\ job[j].op = "accept" => job[j].who \in Providers
        /\ job[j].op = "photos" => job[j].photos \subseteq Uploads
    BY <1>1 DEF JobState, RequestJob, Idle
  <1>3. Exists(job[j].rid)
    BY <1>1 DEF JobOK
  <1>4. requests[job[j].rid] \in RequestDoc /\ DocOK(requests[job[j].rid])
    BY <1>1, <1>2, <1>3, InvByParts, ExistsIsDoc DEF Parts
  <1> QED  BY <1>1, <1>2, <1>4 DEF JobOK, Applied

(* The provider selected had applied when the handler looked, and has since.*)
LEMMA AcceptStep ==
  ASSUME Inv, NEW j \in Jobs, AcceptWrite(j)
  PROVE  Inv'
  <1> DEFINE r == job[j].rid
             doc == Selected(requests[r], job[j].who)
  <1>1. /\ RequestTypeOK /\ r \in Requests /\ job[j].who \in Providers
        /\ requests[r].applications[job[j].who] > 0
        /\ requests[r] \in RequestDoc /\ DocOK(requests[r])
    BY Target DEF AcceptWrite, Running
  <1>2. /\ doc \in RequestDoc
        /\ doc.status = "accepted" /\ doc.accepted = job[j].who
        /\ doc.applications = requests[r].applications
    BY <1>1 DEF Selected, RequestDoc, Status
  <1>3. DocOK(doc) /\ Evolves(requests[r], doc)
    BY <1>1, <1>2, NoneAssumption DEF DocOK, Evolves
  <1>4. PICK next \in JobState :
          /\ next = [job[j] EXCEPT !.op = "request.accepted"]
          /\ next.op = "request.accepted" /\ next.rid = r /\ next.who = job[j].who
    BY <1>1 DEF AcceptWrite, Running, RequestTypeOK, JobState, RequestJob, Idle
  <1>5. job' = [job EXCEPT ![j] = next] /\ Write(r, doc) /\ clock' \in Nat /\ faults' \in Nat
    BY <1>1, <1>4 DEF AcceptWrite, Become, RequestTypeOK
  <1>6. requests'[r] = doc /\ doc # None
    BY <1>1, <1>2, <1>5, NullIsNoRequest DEF Write, RequestTypeOK
  <1>7. \A k \in Jobs : job'[k] = next => JobOK(job[k])'
    BY <1>1, <1>2, <1>4, <1>6 DEF JobOK, Exists, Applied
  <1>8. /\ job' \in [Jobs -> JobState]
        /\ \A k \in Jobs : job'[k] = job[k] \/ job'[k] = next
    BY <1>1, <1>4, <1>5 DEF RequestTypeOK, JobState
  <1>9. \A k \in Jobs : job'[k] = job[k] \/ JobOK(job[k])'
    BY <1>7, <1>8
  <1> QED  BY <1>1, <1>2, <1>3, <1>5, <1>8, <1>9, DocStep

(* The accepted request had a provider when loaded, and has since.          *)
LEMMA CompleteStep ==
  ASSUME Inv, NEW j \in Jobs, CompleteWrite(j)
  PROVE  Inv'
  <1> DEFINE r == job[j].rid
             doc == [requests[r] EXCEPT !.status = "completed"]
             next == [job[j] EXCEPT !.op = "request.completed"]
  <1>1. /\ RequestTypeOK /\ r \in Requests
        /\ requests[r].accepted # None
        /\ requests[r] \in RequestDoc /\ DocOK(requests[r])
    BY Target DEF CompleteWrite, Running
  <1>2. /\ doc \in RequestDoc
        /\ doc.status = "completed" /\ doc.accepted = requests[r].accepted
        /\ doc.applications = requests[r].applications
    BY <1>1 DEF RequestDoc, Status
  <1>3. DocOK(doc) /\ Evolves(requests[r], doc)
    <2>1. requests[r].accepted \in Providers
      BY <1>1 DEF RequestDoc
    <2> QED  BY <1>1, <1>2, <2>1 DEF DocOK, Evolves
  <1>4. next \in JobState /\ next.op = "request.completed"
    BY <1>1 DEF CompleteWrite, Running, RequestTypeOK, JobState, RequestJob, Idle
  <1>5. job' = [job EXCEPT ![j] = next] /\ Write(r, doc) /\ clock' \in Nat /\ faults' \in Nat
    BY <1>1 DEF CompleteWrite, Become, RequestTypeOK
  <1> HIDE DEF next, doc
  <1>6. /\ job' \in [Jobs -> JobState]
        /\ \A k \in Jobs : job'[k] = job[k] \/ job'[k] = next
    BY <1>1, <1>4, <1>5 DEF RequestTypeOK, JobState
  <1>7. \A k \in Jobs : job'[k] = job[k] \/ JobOK(job[k])'
    BY <1>4, <1>6 DEF JobOK
  <1> QED  BY <1>1, <1>2, <1>3, <1>5, <1>6, <1>7, DocStep

(* Photos touch nothing the others rely on.                                 *)
LEMMA PhotosStep ==
  ASSUME Inv, NEW j \in Jobs, PhotosWrite(j)
  PROVE  Inv'
  <1> DEFINE r == job[j].rid
             doc == [requests[r] EXCEPT !.photos = job[j].photos]
  <1>1. /\ RequestTypeOK /\ r \in Requests /\ job[j].photos \subseteq Uploads
        /\ requests[r] \in RequestDoc /\ DocOK(requests[r])
    BY Target DEF PhotosWrite, Running
  <1>2. /\ doc \in RequestDoc
        /\ doc.status = requests[r].status /\ doc.accepted = requests[r].accepted
        /\ doc.applications = requests[r].applications
    BY <1>1 DEF RequestDoc
  <1>3. DocOK(doc) /\ Evolves(requests[r], doc)
    BY <1>1, <1>2 DEF DocOK, Evolves
  <1>4. job' = [job EXCEPT ![j] = Idle] /\ Write(r, doc) /\ clock' \in Nat /\ faults' \in Nat
    BY <1>1 DEF PhotosWrite, Finish, Become, RequestTypeOK
  <1> HIDE DEF doc
  <1>5. /\ job' \in [Jobs -> JobState]
        /\ \A k \in Jobs : job'[k] = job[k] \/ job'[k] = Idle
    BY <1>1, <1>4, IdleOK DEF RequestTypeOK, JobState
  <1>6. \A k \in Jobs : job'[k] = job[k] \/ JobOK(job[k])'
    BY <1>5 DEF JobOK, Idle
  <1> QED  BY <1>1, <1>2, <1>3, <1>4, <1>5, <1>6, DocStep

---------------------------------------------------------------------------
(* The sweeper.  Its batches hold requests that exist.                      *)
LEMMA SweepJob ==
  ASSUME Inv, NEW j \in Jobs, job[j].op \in {"notify", "close"}
  PROVE  /\ RequestTypeOK
         /\ job[j].now \in Nat
         /\ job[j].batch \subseteq Requests
         /\ \A r \in job[j].batch : Exists(r)
         /\ \A r : Rest(j, r) \in JobState /\ JobOK(Rest(j, r))
  <1>1. job[j] \in JobState /\ JobOK(job[j]) /\ RequestTypeOK
    BY InvByParts DEF Parts, RequestTypeOK, JobState
  <1>2. /\ job[j] \in [op : {"notify", "close"}, now : Nat, batch : SUBSET Requests]
        /\ \A r \in job[j].batch : Exists(r)
    BY <1>1 DEF JobState, RequestJob, Idle, JobOK
  <1>3. ASSUME NEW r  PROVE Rest(j, r) \in JobState /\ JobOK(Rest(j, r))
    <2>1. /\ Rest(j, r) \in [op : {"notify", "close"}, now : Nat, batch : SUBSET Requests]
          /\ Rest(j, r).batch = job[j].batch \ {r}
      BY <1>2 DEF Rest
    <2> QED  BY <1>2, <2>1 DEF JobState, RequestJob, JobOK
  <1> QED  BY <1>1, <1>2, <1>3

(* The two queries of a sweep.                                              *)
LEMMA SweepQueries ==
  ASSUME Inv, NEW j \in Jobs, SweepStart(j) \/ SweepOverdue(j)
  PROVE  Inv'
  <1>1. RequestTypeOK
    BY DEF Inv
  <1>2. CASE SweepStart(j)
    <2> DEFINE s == [op |-> "notify", now |-> clock, batch |-> Found(NoticeDue, clock)]
    <2>1. s \in JobState /\ JobOK(s)
      BY <1>1 DEF RequestTypeOK, Found, JobState, RequestJob, JobOK
    <2> QED  BY <1>1, <1>2, <2>1, JobStep DEF SweepStart, RequestTypeOK
  <1>3. CASE SweepOverdue(j)
    <2> DEFINE s == [op |-> "close", now |-> job[j].now,
                     batch |-> Found(ClosureDue, job[j].now)]
    <2>1. job[j].now \in Nat
      BY <1>3, SweepJob DEF SweepOverdue, Running
    <2>2. s \in JobState /\ JobOK(s)
      BY <2>1 DEF Found, JobState, RequestJob, JobOK
    <2> QED  BY <1>1, <1>3, <2>2, JobStep DEF SweepOverdue, RequestTypeOK
  <1> QED  BY <1>2, <1>3

(* The two saves of a sweep.                                                *)
LEMMA SweepWrites ==
  ASSUME Inv, NEW j \in Jobs, NEW r \in Requests, Notify(j, r) \/ CloseOne(j, r)
  PROVE  Inv'
  <1>1. /\ RequestTypeOK /\ job[j].now \in Nat /\ Exists(r)
        /\ Rest(j, r) \in JobState /\ JobOK(Rest(j, r))
    BY SweepJob DEF Notify, CloseOne, Running
  <1>2. requests[r] \in RequestDoc /\ DocOK(requests[r])
    BY <1>1, InvByParts, ExistsIsDoc DEF Parts
  <1>3. PICK doc \in RequestDoc :
          Write(r, doc) /\ DocOK(doc) /\ Evolves(requests[r], doc)
    <2>1. CASE Notify(j, r)
      <3> DEFINE doc == [requests[r] EXCEPT !.notice = job[j].now]
      <3>1. /\ doc \in RequestDoc
            /\ doc.status = requests[r].status /\ doc.accepted = requests[r].accepted
            /\ doc.applications = requests[r].applications
        BY <1>1, <1>2 DEF RequestDoc
      <3>2. DocOK(doc) /\ Evolves(requests[r], doc)
        BY <1>2, <3>1 DEF DocOK, Evolves
      <3> QED  BY <2>1, <3>1, <3>2 DEF Notify
    <2>2. CASE CloseOne(j, r)
      <3> DEFINE doc == [requests[r] EXCEPT !.status = "closed"]
      <3>1. /\ doc \in RequestDoc
            /\ doc.status = "closed" /\ doc.accepted = requests[r].accepted
            /\ doc.applications = requests[r].applications
        BY <1>2 DEF RequestDoc, Status
      <3>2. DocOK(doc) /\ Evolves(requests[r], doc)
        BY <1>2, <3>1 DEF DocOK, Evolves
      <3> QED  BY <2>2, <3>1, <3>2 DEF CloseOne
    <2> QED  BY <2>1, <2>2
  <1>4. PICK s \in JobState : s = Rest(j, r)
    BY <1>1
  <1>5. job' = [job EXCEPT ![j] = s] /\ clock' \in Nat /\ faults' \in Nat
    BY <1>1, <1>4 DEF Notify, CloseOne, Become, RequestTypeOK
  <1>6. /\ job' \in [Jobs -> JobState]
        /\ \A k \in Jobs : job'[k] = job[k] \/ job'[k] = s
    BY <1>1, <1>4, <1>5 DEF RequestTypeOK, JobState
  <1>7. s.op \in {"notify", "close"} /\ \A q \in s.batch : q \in Requests /\ Exists(q)
    <2>1. job[j].op \in {"notify", "close"}
      BY DEF Notify, CloseOne, Running
    <2>2. job[j] \in [op : {"notify", "close"}, now : Nat, batch : SUBSET Requests]
      BY <1>1, <2>1 DEF RequestTypeOK, RequestJob, Idle
    <2> QED  BY <1>1, <1>4, <2>2 DEF Rest, JobOK
  <1>8. \A q \in Requests : Exists(q) => Exists(q)'
    BY <1>1, <1>3, NullIsNoRequest DEF Exists, Write, RequestTypeOK
  <1>9. \A k \in Jobs : job'[k] = s => JobOK(job[k])'
    BY <1>7, <1>8 DEF JobOK, Exists
  <1> QED  BY <1>3, <1>5, <1>6, <1>9, DocStep

---------------------------------------------------------------------------
(* The steps that only end a handler, or skip one save of a sweep.          *)
LEMMA EndSteps ==
  ASSUME Inv, NEW j \in Jobs,
         \/ SweepEnd(j) \/ Undelivered(j) \/ RequestAbort(j)
         \/ \E r \in Requests : SweepSkip(j, r)
  PROVE  Inv'
  <1>1. RequestTypeOK
    BY DEF Inv
  <1>2. CASE SweepEnd(j) \/ Undelivered(j) \/ RequestAbort(j)
    <2>1. Become(j, Idle) /\ UNCHANGED requests /\ clock' \in Nat /\ faults' \in Nat
      BY <1>1, <1>2 DEF SweepEnd, Undelivered, RequestAbort, Abort, Faulty, Finish, RequestTypeOK
    <2> QED  BY <2>1, IdleOK, JobStep
  <1>3. ASSUME NEW r \in Requests, SweepSkip(j, r)  PROVE Inv'
    <2>1. Become(j, Rest(j, r)) /\ UNCHANGED requests /\ clock' \in Nat /\ faults' \in Nat
      BY <1>1, <1>3 DEF SweepSkip, Faulty, RequestTypeOK
    <2>2. Rest(j, r) \in JobState /\ JobOK(Rest(j, r))
      BY <1>3, SweepJob DEF SweepSkip
    <2> QED  BY <2>1, <2>2, JobStep
  <1> QED  BY <1>2, <1>3

(* Time passes, or the process restarts.                                    *)
LEMMA BackendSteps ==
  ASSUME Inv, (Tick \/ Crash) /\ UNCHANGED requests
  PROVE  Inv'
  <1>1. /\ RequestTypeOK
        /\ \A r \in Requests : Exists(r) => DocOK(requests[r])
        /\ \A j \in Jobs : JobOK(job[j])
    BY InvByParts DEF Parts
  <1>2. /\ clock' \in Nat /\ faults' \in Nat
        /\ job' \in [Jobs -> JobState]
        /\ \A j \in Jobs : job'[j] = job[j] \/ job'[j] = Idle
    BY <1>1, IdleOK DEF Tick, Crash, Faulty, RequestTypeOK, JobState
  <1>3. RequestTypeOK'
    BY <1>1, <1>2 DEF RequestTypeOK, JobState
  <1>4. \A r \in Requests : Exists(r)' => DocOK(requests[r])'
    BY <1>1 DEF Exists, DocOK
  <1>5. \A j \in Jobs : JobOK(job[j])'
    BY <1>1, <1>2 DEF JobOK, Idle, Exists, Applied
  <1> QED  BY <1>3, <1>4, <1>5, InvByPartsNext DEF Parts

(* Every step keeps the invariant.                                          *)
LEMMA NextInv == Inv /\ [RequestsAlone]_requestVars => Inv'
  <1> SUFFICES ASSUME Inv, [RequestsAlone]_requestVars  PROVE Inv'
    OBVIOUS
  <1>1. ASSUME NEW r \in Requests, NEW c \in Customers, NEW ets \in 1..MaxClock,
               CreateRequest(r, c, ets)
        PROVE  Inv'
    BY <1>1, CreateStep
  <1>2. ASSUME NEW j \in Jobs, NEW r \in Requests, CustomerCall(j, r) \/ ProviderCall(j, r)
        PROVE  Inv'
    BY <1>2, LoadSteps DEF CustomerCall, ProviderCall
  <1>3. ASSUME NEW j \in Jobs, RequestStep(j) \/ ApplyResend(j)  PROVE Inv'
    BY <1>3, ApplySteps, AcceptStep, CompleteStep, PhotosStep DEF RequestStep
  <1>4. ASSUME NEW j \in Jobs, SweepStart(j) \/ SweepStep(j)  PROVE Inv'
    BY <1>4, SweepQueries, SweepWrites, EndSteps DEF SweepStep
  <1>5. ASSUME NEW j \in Jobs, NEW r \in Requests, SweepSkip(j, r)  PROVE Inv'
    BY <1>5, EndSteps
  <1>6. ASSUME NEW j \in Jobs, RequestAbort(j) \/ Undelivered(j)  PROVE Inv'
    BY <1>6, EndSteps
  <1>7. CASE (Tick \/ Crash) /\ UNCHANGED requests
    BY <1>7, BackendSteps
  <1>8. CASE UNCHANGED requestVars
    BY <1>8, InvByParts, InvByPartsNext
    DEF requestVars, Parts, RequestTypeOK, DocOK, JobOK, Exists, Applied
  <1> QED
    BY <1>1, <1>2, <1>3, <1>4, <1>5, <1>6, <1>7, <1>8 DEF RequestsAlone, RequestNext

(* It holds before the first request.                                       *)
LEMMA RequestInitInv == RequestInit => Inv
  BY NoneAssumption
  DEF RequestInit, BackendInit, Inv, RequestTypeOK, AcceptedApplied, SettledHasProvider,
      OpenUntilApplication, LoadedFactsHold, Exists, Idle

(* The handlers in flight and the documents fit each other at all times.    *)
THEOREM RequestInvariant == RequestSpec => []Inv
  BY RequestInitInv, NextInv, PTL DEF RequestSpec

(* The documents fit their schema and the jobs the handlers' code, for      *)
(* every number of requests, users, handlers in flight and faults.          *)
THEOREM RequestTypeCorrect == RequestSpec => []RequestTypeOK
  <1>1. Inv => RequestTypeOK
    BY DEF Inv
  <1> QED  BY <1>1, RequestInvariant, PTL

(* The provider selected for a request applied to it, although the write    *)
(* of acceptProvider does not look at the applications again.               *)
THEOREM RequestSafety == RequestSpec => []AcceptedApplied
  <1>1. Inv => AcceptedApplied
    BY DEF Inv
  <1> QED  BY <1>1, RequestInvariant, PTL

(* An accepted or completed request names its provider, and a request is    *)
(* open exactly until its first application, although every write of the    *)
(* status is made on what an earlier load showed.                           *)
THEOREM RequestCause == RequestSpec => []StatusHasCause
  <1>1. Inv => StatusHasCause
    BY DEF Inv, StatusHasCause
  <1> QED  BY <1>1, RequestInvariant, PTL

(* What the handlers in flight found when they loaded a request and rely on *)
(* when they write still holds then.                                        *)
THEOREM RequestFacts == RequestSpec => []LoadedFactsHold
  <1>1. Inv => LoadedFactsHold
    BY DEF Inv
  <1> QED  BY <1>1, RequestInvariant, PTL

---------------------------------------------------------------------------
(* Finality.  A job that holds a late write of r's status is there because  *)
(* it found r open, pending or accepted: once r is final no step brings a   *)
(* new one, and only such jobs change the status or the provider.           *)
Holds(s, r, ops) ==
  s.op \in ops /\ IF s.op = "close" THEN r \in s.batch ELSE s.rid = r

Late == {"apply", "accept", "close"}

NoNewWriter(s, next, r) ==
  /\ Holds(next, r, Late) => Holds(s, r, Late) \/ requests[r].status \in Unsettled
  /\ Holds(next, r, {"complete"}) =>
       Holds(s, r, {"complete"}) \/ requests[r].status = "accepted"

Keeps(s, r, doc) ==
  /\ Exists(r) => doc # None
  /\ ~Holds(s, r, Late) =>
       doc.accepted = requests[r].accepted /\ doc.status \in {requests[r].status, "completed"}
  /\ ~Holds(s, r, Late \cup {"complete"}) => doc.status = requests[r].status

(* One step of the job j as seen from the request r.                        *)
Calm(j, r) ==
  /\ \A k \in Jobs : NoNewWriter(job[k], job'[k], r)
  /\ Keeps(job[j], r, requests'[r])

(* A step that changes only a job.                                          *)
LEMMA CalmLoad ==
  ASSUME RequestTypeOK, NEW r \in Requests, UNCHANGED requests,
         NEW j \in Jobs, NEW next, Become(j, next), NoNewWriter(job[j], next, r)
  PROVE  Calm(j, r)
  <1>1. \A k \in Jobs : job'[k] = IF k = j THEN next ELSE job[k]
    BY DEF RequestTypeOK, Become
  <1> QED  BY <1>1 DEF Calm, NoNewWriter, Keeps, Exists

(* A step that writes one document.                                         *)
LEMMA CalmWrite ==
  ASSUME RequestTypeOK, NEW r \in Requests, NEW q \in Requests, NEW doc, Write(q, doc),
         NEW j \in Jobs, NEW next, Become(j, next), NoNewWriter(job[j], next, r),
         q = r => Keeps(job[j], r, doc)
  PROVE  Calm(j, r)
  <1>1. \A k \in Jobs : job'[k] = IF k = j THEN next ELSE job[k]
    BY DEF RequestTypeOK, Become
  <1>2. requests'[r] = IF q = r THEN doc ELSE requests[r]
    BY DEF RequestTypeOK, Write
  <1> QED  BY <1>1, <1>2 DEF Calm, NoNewWriter, Keeps, Exists

(* A handler that gets past the status checks found the request unsettled.  *)
LEMMA LoadsAreCalm ==
  ASSUME Inv, NEW r \in Requests, NEW j \in Jobs, NEW q \in Requests,
         CustomerCall(j, q) \/ ProviderCall(j, q)
  PROVE  Calm(j, r)
  <1> USE DEF Free, Idle
  <1>0. RequestTypeOK
    BY DEF Inv
  <1>1. ASSUME NEW p \in Providers, ApplyLoad(j, q, p)  PROVE Calm(j, r)
    <2> DEFINE s == [op |-> "apply", rid |-> q, who |-> p, seen |-> requests[q].status]
    <2>1. NoNewWriter(job[j], s, r)
      BY <1>1 DEF ApplyLoad, IsUnsettled, NoNewWriter, Holds, Late
    <2> QED  BY <1>0, <1>1, <2>1, CalmLoad DEF ApplyLoad
  <1>2. ASSUME NEW c \in Customers, NEW p \in Providers, AcceptLoad(j, q, c, p)
        PROVE  Calm(j, r)
    <2> DEFINE s == [op |-> "accept", rid |-> q, who |-> p]
    <2>1. NoNewWriter(job[j], s, r)
      BY <1>2 DEF AcceptLoad, IsUnsettled, NoNewWriter, Holds, Late
    <2> QED  BY <1>0, <1>2, <2>1, CalmLoad DEF AcceptLoad
  <1>3. ASSUME NEW user, CompleteLoad(j, q, user)  PROVE Calm(j, r)
    <2> DEFINE s == [op |-> "complete", rid |-> q]
    <2>1. NoNewWriter(job[j], s, r)
      BY <1>3 DEF CompleteLoad, NoNewWriter, Holds, Late
    <2> QED  BY <1>0, <1>3, <2>1, CalmLoad DEF CompleteLoad
  <1>4. ASSUME NEW c \in Customers, NEW u \in Uploads, PhotosLoad(j, q, c, u)
        PROVE  Calm(j, r)
    <2> DEFINE s == [op |-> "photos", rid |-> q, photos |-> requests[q].photos \cup {u}]
    <2>1. NoNewWriter(job[j], s, r)
      BY DEF NoNewWriter, Holds, Late
    <2> QED  BY <1>0, <1>4, <2>1, CalmLoad DEF PhotosLoad
  <1> QED  BY <1>1, <1>2, <1>3, <1>4 DEF CustomerCall, ProviderCall

(* Only jobs that held a write of r change its status or provider.          *)
LEMMA WritesAreCalm ==
  ASSUME Inv, NEW r \in Requests, NEW j \in Jobs, RequestStep(j) \/ ApplyResend(j)
  PROVE  Calm(j, r)
  <1> DEFINE q == job[j].rid
             push == Pushed(requests[q], job[j].who, job[j].seen)
  <1>0. RequestTypeOK
    BY DEF Inv
  <1>1. CASE ApplySave(j)
    <2>1. q \in Requests /\ Keeps(job[j], q, push)
      BY <1>1, PushedOK, NullIsNoRequest DEF ApplySave, Running, Keeps, Holds, Late
    <2>2. Become(j, Idle) /\ NoNewWriter(job[j], Idle, r)
      BY <1>1 DEF ApplySave, Finish, NoNewWriter, Holds, Late, Idle
    <2> QED  BY <1>0, <1>1, <2>1, <2>2, CalmWrite DEF ApplySave
  <1>2. CASE ApplyResend(j)
    <2>1. q \in Requests /\ Keeps(job[j], q, push)
      BY <1>2, PushedOK, NullIsNoRequest DEF ApplyResend, Running, Keeps, Holds, Late
    <2>2. requests'[r] = IF q = r THEN push ELSE requests[r]
      BY <1>0, <1>2 DEF ApplyResend, Write, RequestTypeOK
    <2> QED  BY <1>2, <2>1, <2>2 DEF ApplyResend, Calm, NoNewWriter, Keeps, Exists
  <1>3. CASE AcceptWrite(j)
    <2> DEFINE doc == Selected(requests[q], job[j].who)
    <2>1. q \in Requests /\ job[j].who \in Providers /\ requests[q] \in RequestDoc
      BY <1>3, Target DEF AcceptWrite, Running
    <2>2. doc \in RequestDoc
      BY <2>1 DEF Selected, RequestDoc, Status
    <2>3. Keeps(job[j], q, doc)
      BY <1>3, <2>2, NullIsNoRequest DEF AcceptWrite, Running, Keeps, Holds, Late
    <2>4. PICK next : next = [job[j] EXCEPT !.op = "request.accepted"]
                      /\ next.op = "request.accepted"
      BY <1>0, <1>3 DEF AcceptWrite, Running, RequestTypeOK, RequestJob, Idle
    <2>5. NoNewWriter(job[j], next, r)
      BY <2>4 DEF NoNewWriter, Holds, Late
    <2> QED  BY <1>0, <1>3, <2>1, <2>3, <2>4, <2>5, CalmWrite DEF AcceptWrite
  <1>4. CASE CompleteWrite(j)
    <2> DEFINE doc == [requests[q] EXCEPT !.status = "completed"]
    <2>1. q \in Requests /\ requests[q] \in RequestDoc
      BY <1>4, Target DEF CompleteWrite, Running
    <2>2. doc \in RequestDoc /\ doc.status = "completed" /\ doc.accepted = requests[q].accepted
      BY <2>1 DEF RequestDoc, Status
    <2>3. Keeps(job[j], q, doc)
      BY <1>4, <2>2, NullIsNoRequest DEF CompleteWrite, Running, Keeps, Holds, Late
    <2>4. PICK next : next = [job[j] EXCEPT !.op = "request.completed"]
                      /\ next.op = "request.completed"
      BY <1>0, <1>4 DEF CompleteWrite, Running, RequestTypeOK, RequestJob, Idle
    <2>5. NoNewWriter(job[j], next, r)
      BY <2>4 DEF NoNewWriter, Holds, Late
    <2> QED  BY <1>0, <1>4, <2>1, <2>3, <2>4, <2>5, CalmWrite DEF CompleteWrite
  <1>5. CASE PhotosWrite(j)
    <2> DEFINE doc == [requests[q] EXCEPT !.photos = job[j].photos]
    <2>1. /\ q \in Requests /\ requests[q] \in RequestDoc
          /\ job[j].photos \subseteq Uploads
      BY <1>5, Target DEF PhotosWrite, Running
    <2>2. /\ doc \in RequestDoc
          /\ doc.status = requests[q].status /\ doc.accepted = requests[q].accepted
      BY <2>1 DEF RequestDoc
    <2>3. Keeps(job[j], q, doc)
      BY <2>2, NullIsNoRequest DEF Keeps
    <2>4. Become(j, Idle) /\ NoNewWriter(job[j], Idle, r)
      BY <1>5 DEF PhotosWrite, Finish, NoNewWriter, Holds, Late, Idle
    <2> QED  BY <1>0, <1>5, <2>1, <2>3, <2>4, CalmWrite DEF PhotosWrite
  <1> QED  BY <1>1, <1>2, <1>3, <1>4, <1>5 DEF RequestStep

(* What is left of a batch.                                                 *)
LEMMA RestFields ==
  ASSUME NEW j \in Jobs, NEW q,
         job[j] \in [op : {"notify", "close"}, now : Nat, batch : SUBSET Requests]
  PROVE  Rest(j, q).op = job[j].op /\ Rest(j, q).batch = job[j].batch \ {q}
  <1>1. Rest(j, q).op = job[j].op
    BY DEF Rest
  <1>2. Rest(j, q).batch = job[j].batch \ {q}
    BY DEF Rest
  <1> QED  BY <1>1, <1>2

(* A sweep closes what its query found open or pending.                     *)
LEMMA SweepIsCalm ==
  ASSUME Inv, NEW r \in Requests, NEW j \in Jobs, SweepStart(j) \/ SweepStep(j)
  PROVE  Calm(j, r)
  <1>0. RequestTypeOK
    BY DEF Inv
  <1>1. CASE SweepStart(j)
    <2> DEFINE s == [op |-> "notify", now |-> clock, batch |-> Found(NoticeDue, clock)]
    <2>1. NoNewWriter(job[j], s, r)
      BY DEF NoNewWriter, Holds, Late
    <2> QED  BY <1>0, <1>1, <2>1, CalmLoad DEF SweepStart
  <1>2. CASE SweepOverdue(j)
    <2> DEFINE s == [op |-> "close", now |-> job[j].now,
                     batch |-> Found(ClosureDue, job[j].now)]
    <2>1. NoNewWriter(job[j], s, r)
      BY DEF NoNewWriter, Holds, Late, Found, ClosureDue
    <2> QED  BY <1>0, <1>2, <2>1, CalmLoad DEF SweepOverdue
  <1>3. CASE SweepEnd(j)
    <2>1. NoNewWriter(job[j], Idle, r)
      BY DEF NoNewWriter, Holds, Late, Idle
    <2> QED  BY <1>0, <1>3, <2>1, CalmLoad DEF SweepEnd, Finish
  <1>4. ASSUME NEW q \in Requests, Notify(j, q) \/ CloseOne(j, q)  PROVE Calm(j, r)
    <2>1. /\ q \in job[j].batch /\ Exists(q)
          /\ job[j] \in [op : {"notify", "close"}, now : Nat, batch : SUBSET Requests]
      BY <1>0, <1>4, SweepJob
      DEF Notify, CloseOne, Running, RequestTypeOK, RequestJob, Idle
    <2>2. requests[q] \in RequestDoc
      BY <1>0, <2>1, ExistsIsDoc
    <2>3. PICK next : /\ next = Rest(j, q)
                     /\ next.op = job[j].op
                     /\ next.batch = job[j].batch \ {q}
      BY <2>1, RestFields
    <2>4. NoNewWriter(job[j], next, r)
      BY <2>1, <2>3 DEF NoNewWriter, Holds, Late
    <2>5. PICK doc : Write(q, doc) /\ Keeps(job[j], q, doc)
      <3>1. CASE Notify(j, q)
        <4> DEFINE doc == [requests[q] EXCEPT !.notice = job[j].now]
        <4>1. /\ doc \in RequestDoc
              /\ doc.status = requests[q].status /\ doc.accepted = requests[q].accepted
          BY <2>1, <2>2 DEF RequestDoc
        <4> QED  BY <3>1, <4>1, NullIsNoRequest DEF Notify, Keeps
      <3>2. CASE CloseOne(j, q)
        <4> DEFINE doc == [requests[q] EXCEPT !.status = "closed"]
        <4>1. doc \in RequestDoc
          BY <2>2 DEF RequestDoc, Status
        <4> QED
          BY <2>1, <3>2, <4>1, NullIsNoRequest DEF CloseOne, Running, Keeps, Holds, Late
      <3> QED  BY <1>4, <3>1, <3>2
    <2> QED  BY <1>0, <1>4, <2>3, <2>4, <2>5, CalmWrite DEF Notify, CloseOne
  <1> QED  BY <1>1, <1>2, <1>3, <1>4 DEF SweepStep

(* Handlers that end, and skipped saves, write nothing.                     *)
LEMMA EndsAreCalm ==
  ASSUME Inv, NEW r \in Requests, NEW j \in Jobs,
         \/ Undelivered(j) \/ RequestAbort(j)
         \/ \E q \in Requests : SweepSkip(j, q)
  PROVE  Calm(j, r)
  <1>0. RequestTypeOK
    BY DEF Inv
  <1>1. CASE Undelivered(j) \/ RequestAbort(j)
    <2>1. NoNewWriter(job[j], Idle, r)
      BY DEF NoNewWriter, Holds, Late, Idle
    <2> QED
      BY <1>0, <1>1, <2>1, CalmLoad DEF Undelivered, RequestAbort, Abort, Finish
  <1>2. ASSUME NEW q \in Requests, SweepSkip(j, q)  PROVE Calm(j, r)
    <2>1. job[j] \in [op : {"notify", "close"}, now : Nat, batch : SUBSET Requests]
      BY <1>0, <1>2 DEF SweepSkip, RequestTypeOK, RequestJob, Idle
    <2>2. PICK next : /\ next = Rest(j, q)
                     /\ next.op = job[j].op
                     /\ next.batch = job[j].batch \ {q}
      BY <2>1, RestFields
    <2>3. NoNewWriter(job[j], next, r)
      BY <2>1, <2>2 DEF NoNewWriter, Holds, Late
    <2> QED  BY <1>0, <1>2, <2>2, <2>3, CalmLoad DEF SweepSkip
  <1> QED  BY <1>1, <1>2

(* A step of any job, or none, as the request r sees it.                    *)
LEMMA StepIsCalm ==
  ASSUME Inv, NEW r \in Requests, Exists(r), RequestsAlone
  PROVE  /\ \A k \in Jobs : NoNewWriter(job[k], job'[k], r)
         /\ \/ requests'[r] = requests[r]
            \/ \E j \in Jobs : Keeps(job[j], r, requests'[r])
  <1>0. RequestTypeOK
    BY DEF Inv
  <1>1. ASSUME NEW q \in Requests, NEW c \in Customers, NEW ets \in 1..MaxClock,
               CreateRequest(q, c, ets)
        PROVE  requests'[r] = requests[r] /\ job' = job
    BY <1>0, <1>1 DEF CreateRequest, Write, Exists, RequestTypeOK
  <1>2. CASE (Tick \/ Crash) /\ UNCHANGED requests
    BY <1>2 DEF Tick, Crash, NoNewWriter, Holds, Late, Idle
  <1>3. CASE \E j \in Jobs : Calm(j, r)
    BY <1>3 DEF Calm
  <1>4. CASE job' = job /\ requests'[r] = requests[r]
    BY <1>4 DEF NoNewWriter
  <1> QED
    BY <1>1, <1>2, <1>3, <1>4, LoadsAreCalm, WritesAreCalm, SweepIsCalm, EndsAreCalm
    DEF RequestsAlone, RequestNext

(* Finality is a property of every step from a state of the invariant.      *)
LEMMA FinalStep == Inv /\ [RequestsAlone]_requestVars => \A r \in Requests : FinalityStep(r)
  <1> SUFFICES ASSUME Inv, [RequestsAlone]_requestVars, NEW r \in Requests
               PROVE  FinalityStep(r)
    OBVIOUS
  <1>1. CASE UNCHANGED requestVars
    BY <1>1 DEF requestVars, FinalityStep, Final, Committed, Exists, Writing
  <1>2. CASE ~Exists(r)
    BY <1>2 DEF FinalityStep, Final, Committed
  <1>3. CASE RequestsAlone /\ Exists(r)
    <2>1. /\ \A k \in Jobs : NoNewWriter(job[k], job'[k], r)
          /\ \/ requests'[r] = requests[r]
             \/ \E j \in Jobs : Keeps(job[j], r, requests'[r])
      BY <1>3, StepIsCalm
    <2>2. Exists(r)'
      BY <1>3, <2>1 DEF Keeps, Exists
    <2>3. ASSUME NEW ops
          PROVE  /\ Writing(r, ops) <=> \E k \in Jobs : Holds(job[k], r, ops)
                 /\ Writing(r, ops)' <=> \E k \in Jobs : Holds(job'[k], r, ops)
      BY DEF Writing, Holds
    <2>4. ASSUME Final(r)
          PROVE  /\ Final(r)'
                 /\ requests'[r].status = requests[r].status
                 /\ requests'[r].accepted = requests[r].accepted
      <3>1. \A k \in Jobs : ~Holds(job[k], r, Late \cup {"complete"})
        BY <2>3, <2>4 DEF Final, Late, Holds
      <3>2. /\ requests'[r].status = requests[r].status
            /\ requests'[r].accepted = requests[r].accepted
        BY <2>1, <3>1 DEF Keeps, Holds, Late
      <3>3. \A k \in Jobs : ~Holds(job'[k], r, Late \cup {"complete"})
        BY <2>1, <2>4, <3>1 DEF NoNewWriter, Final, Unsettled, Holds, Late
      <3> QED  BY <2>2, <2>3, <2>4, <3>2, <3>3 DEF Final, Late, Holds
    <2>5. ASSUME Committed(r)
          PROVE  /\ Committed(r)' \/ requests'[r].status = "completed"
                 /\ requests'[r].accepted = requests[r].accepted
      <3>1. \A k \in Jobs : ~Holds(job[k], r, Late)
        BY <2>3, <2>5 DEF Committed, Late, Holds
      <3>2. /\ requests'[r].status \in {requests[r].status, "completed"}
            /\ requests'[r].accepted = requests[r].accepted
        BY <2>1, <3>1 DEF Keeps, Holds, Late
      <3>3. \A k \in Jobs : ~Holds(job'[k], r, Late)
        BY <2>1, <2>5, <3>1 DEF NoNewWriter, Committed, Unsettled
      <3> QED  BY <2>2, <2>3, <2>5, <3>2, <3>3 DEF Committed, Late
    <2> QED  BY <2>4, <2>5 DEF FinalityStep
  <1> QED  BY <1>1, <1>2, <1>3

(* A request that no handler in flight writes stays completed or closed     *)
(* with its provider, and an accepted one can only be completed.            *)
THEOREM RequestFinality == RequestSpec => Finality
  <1>1. Inv /\ [RequestsAlone]_requestVars
          => [\A r \in Requests : FinalityStep(r)]_requestVars
    BY FinalStep
  <1> QED  BY <1>1, RequestInvariant, PTL DEF RequestSpec, Finality

---------------------------------------------------------------------------
(* Refinement.  As long as no two operations in flight are about to write   *)
(* what RequestPromise sees of the same request, every write is one of its  *)
(* steps.                                                                   *)
Writers == {"apply", "accept", "complete", "photos", "close"}

NoOverlap ==
  \A r \in Requests, i, j \in Jobs :
    Holds(job[i], r, Writers) /\ Holds(job[j], r, Writers) => i = j

(* Then the request a handler writes still is as the handler saw it.        *)
Fresh(s) ==
  /\ s.op = "apply" => /\ requests[s.rid].status = s.seen
                       /\ requests[s.rid].applications[s.who] = 0
  /\ s.op = "accept" => requests[s.rid].status \in Unsettled
  /\ s.op = "complete" => requests[s.rid].status = "accepted"
  /\ s.op = "photos" => /\ requests[s.rid].status \notin {"completed", "closed"}
                        /\ \E u \in Uploads \ requests[s.rid].photos :
                             s.photos = requests[s.rid].photos \cup {u}
  /\ s.op \in {"notify", "close"} => s.now <= clock
  /\ s.op = "close" => \A r \in s.batch : ClosureDue(r, s.now)

(* Each provider has applied once at most.                                  *)
Single(d) == \A p \in Providers : d.applications[p] <= 1

AllFresh ==
  /\ \A j \in Jobs : Fresh(job[j])
  /\ \A r \in Requests : Exists(r) => Single(requests[r])

(* No save is repeated: none can be, or no fault has happened.              *)
Unrepeated == ~AckLoss \/ faults = 0

PromisedNext == [Promised!Next]_(Promised!vars)

(* The fields that are seen are those of the document.                      *)
LEMMA SeenFields ==
  ASSUME NEW d \in RequestDoc
  PROVE  /\ SeenRequest(d) \in RequestView
         /\ SeenRequest(d) = [status |-> d.status, customer |-> d.customer, ets |-> d.ets,
                              applications |-> d.applications, accepted |-> d.accepted,
                              photos |-> d.photos]
  BY DEF SeenRequest, RequestDoc, RequestView

(* What is seen of a request that exists.                                   *)
LEMMA SeenIs ==
  ASSUME RequestTypeOK, NEW r \in Requests
  PROVE  /\ Exists(r) => /\ SeenRequests[r] = SeenRequest(requests[r])
                         /\ SeenRequests[r] # None
                         /\ SeenRequests[r].status = requests[r].status
                         /\ SeenRequests[r].ets = requests[r].ets
                         /\ SeenRequests[r].applications = requests[r].applications
                         /\ SeenRequests[r].photos = requests[r].photos
         /\ ~Exists(r) => SeenRequests[r] = None
  <1>1. SeenRequests[r] = IF Exists(r) THEN SeenRequest(requests[r]) ELSE None
    BY DEF Exists, SeenRequests
  <1>2. Exists(r) => requests[r] \in RequestDoc
    BY ExistsIsDoc
  <1> QED  BY <1>1, <1>2, SeenFields, NullIsNoRequest

(* Writing a document is a change of what is seen of its request.           *)
LEMMA WriteSeen ==
  ASSUME RequestTypeOK, NEW r \in Requests, NEW doc \in RequestDoc, Write(r, doc)
  PROVE  /\ SeenRequests' = [SeenRequests EXCEPT ![r] = SeenRequest(doc)]
         /\ \A q \in Requests : requests'[q] = IF q = r THEN doc ELSE requests[q]
  <1>1. \A q \in Requests : requests'[q] = IF q = r THEN doc ELSE requests[q]
    BY DEF RequestTypeOK, Write
  <1>2. SeenRequests' = [SeenRequests EXCEPT ![r] = SeenRequest(doc)]
    BY <1>1, NullIsNoRequest DEF SeenRequests
  <1> QED  BY <1>1, <1>2

(* The steps of RequestPromise on what is seen of a request.                *)
LEMMA PromisedSteps ==
  ASSUME NEW r \in Requests, NEW doc, UNCHANGED clock, SeenRequests[r] # None,
         SeenRequests' = [SeenRequests EXCEPT ![r] = doc]
  PROVE  LET seen == SeenRequests[r]
         IN /\ \A p \in Providers :
                 seen.status \in {"open", "pending"} /\ seen.applications[p] = 0 /\
                 doc = [seen EXCEPT !.status = "pending", !.applications[p] = 1]
                   => PromisedNext
            /\ \A p \in Providers :
                 seen.status = "pending" /\ seen.applications[p] = 1 /\
                 doc = [seen EXCEPT !.status = "accepted", !.accepted = p]
                   => PromisedNext
            /\ seen.status = "accepted" /\ doc = [seen EXCEPT !.status = "completed"]
                 => PromisedNext
            /\ \A u \in Uploads :
                 seen.status \in {"open", "pending", "accepted"} /\ u \notin seen.photos /\
                 doc = [seen EXCEPT !.photos = seen.photos \cup {u}]
                   => PromisedNext
            /\ seen.status \in {"open", "pending"} /\ seen.ets + ClosureDelay <= clock /\
               doc = [seen EXCEPT !.status = "closed"]
                 => PromisedNext
  <1> DEFINE seen == SeenRequests[r]
  <1> USE DEF PromisedNext, Promised!Next, Promised!Unsettled
  <1>1. Promised!Change(r, doc)
    BY DEF Promised!Change
  <1>2. ASSUME NEW p \in Providers, seen.status \in {"open", "pending"},
               seen.applications[p] = 0,
               doc = [seen EXCEPT !.status = "pending", !.applications[p] = 1]
        PROVE  PromisedNext
    <2>1. Promised!Apply(r, p)
      BY <1>1, <1>2 DEF Promised!Apply
    <2> QED  BY <2>1
  <1>3. ASSUME NEW p \in Providers, seen.status = "pending", seen.applications[p] = 1,
               doc = [seen EXCEPT !.status = "accepted", !.accepted = p]
        PROVE  PromisedNext
    <2>1. Promised!Choose(r, p)
      BY <1>1, <1>3 DEF Promised!Choose
    <2> QED  BY <2>1
  <1>4. ASSUME seen.status = "accepted", doc = [seen EXCEPT !.status = "completed"]
        PROVE  PromisedNext
    <2>1. Promised!Complete(r)
      BY <1>1, <1>4 DEF Promised!Complete
    <2> QED  BY <2>1
  <1>5. ASSUME NEW u \in Uploads, seen.status \in {"open", "pending", "accepted"},
               u \notin seen.photos, doc = [seen EXCEPT !.photos = seen.photos \cup {u}]
        PROVE  PromisedNext
    <2>1. Promised!AddPhoto(r, u)
      BY <1>1, <1>5 DEF Promised!AddPhoto
    <2> QED  BY <2>1
  <1>6. ASSUME seen.status \in {"open", "pending"}, seen.ets + ClosureDelay <= clock,
               doc = [seen EXCEPT !.status = "closed"]
        PROVE  PromisedNext
    <2>1. Promised!Expire(r)
      BY <1>1, <1>6 DEF Promised!Expire, Promised!Due
    <2> QED  BY <2>1
  <1> HIDE DEF PromisedNext
  <1> QED  BY <1>2, <1>3, <1>4, <1>5, <1>6

(* What the expiry notice needs of a write: it makes no request due that    *)
(* was not, takes no notice back, and closes after the notice only.         *)
Milder(old, new) ==
  /\ new.ets = old.ets
  /\ new.status \in Unsettled => old.status \in Unsettled
  /\ old.notice # None => new.notice # None

(* What a write of the job j does to the request r, and what j goes on as.  *)
Effect(j, r, doc) ==
  /\ Holds(job[j], r, Writers) /\ Exists(r)
  /\ \A q \in Requests : requests'[q] = IF q = r THEN doc ELSE requests[q]
  /\ Single(doc) /\ Milder(requests[r], doc)
  /\ UNCHANGED <<clock, faults>>
  /\ \A k \in Jobs \ {j} : job'[k] = job[k]
  /\ \/ /\ job'[j].op \in {"idle", "request.accepted", "request.completed"}
        /\ doc.status # "closed" \/ doc.status = requests[r].status
     \/ /\ job[j].op = "close" /\ job'[j].op = "close" /\ job'[j].now = job[j].now
        /\ job'[j].batch = job[j].batch \ {r}
        /\ doc.notice = requests[r].notice

(* The save of an application that found no other in its way.               *)
LEMMA ApplyEffect ==
  ASSUME Inv, AllFresh, NEW j \in Jobs, ApplySave(j)
  PROVE  PromisedNext /\ \E r \in Requests, doc \in RequestDoc : Effect(j, r, doc)
  <1>1. job[j] \in JobState /\ JobOK(job[j]) /\ RequestTypeOK /\ Fresh(job[j])
    BY InvByParts DEF Parts, RequestTypeOK, JobState, AllFresh
  <1>2. PICK r \in Requests, p \in Providers, seen \in Unsettled :
          r = job[j].rid /\ p = job[j].who /\ seen = job[j].seen
    BY <1>1 DEF ApplySave, Running, JobState, RequestJob, Idle
  <1>3. Exists(r) /\ requests[r].status = seen /\ requests[r].applications[p] = 0
    BY <1>1, <1>2 DEF JobOK, Fresh, ApplySave, Running
  <1>4. PICK d \in RequestDoc : d = requests[r] /\ Single(d)
    BY <1>1, <1>3, ExistsIsDoc DEF AllFresh
  <1>5. PICK doc : doc = Pushed(d, p, seen)
    OBVIOUS
  <1>6. /\ doc \in RequestDoc /\ doc.status = "pending" /\ doc.accepted = d.accepted
        /\ \A q \in Providers : doc.applications[q] = IF q = p THEN 1 ELSE d.applications[q]
    <2>1. d.status \in Unsettled /\ (seen # "open" => d.status = "pending")
      BY <1>2, <1>3, <1>4 DEF Unsettled
    <2> QED  BY <1>3, <1>4, <1>5, <2>1, PushedFields
  <1>7. /\ doc.customer = d.customer /\ doc.ets = d.ets /\ doc.photos = d.photos
        /\ doc.notice = d.notice
    BY <1>5 DEF Pushed, RequestDoc
  <1>8. Write(r, doc) /\ job' = [job EXCEPT ![j] = Idle] /\ UNCHANGED <<clock, faults>>
    BY <1>2, <1>4, <1>5 DEF ApplySave, Finish, Become
  <1>9. /\ SeenRequests' = [SeenRequests EXCEPT ![r] = SeenRequest(doc)]
        /\ \A q \in Requests : requests'[q] = IF q = r THEN doc ELSE requests[q]
    BY <1>1, <1>6, <1>8, WriteSeen
  <1>10. Effect(j, r, doc)
    <2>1. Holds(job[j], r, Writers)
      BY <1>2 DEF Holds, Writers, ApplySave, Running
    <2>2. Single(doc)
      BY <1>4, <1>6 DEF Single
    <2>3. Milder(requests[r], doc)
      BY <1>2, <1>3, <1>4, <1>7 DEF Milder
    <2>4. job'[j].op = "idle" /\ \A k \in Jobs \ {j} : job'[k] = job[k]
      BY <1>1, <1>8 DEF RequestTypeOK, Idle
    <2> QED  BY <1>3, <1>6, <1>8, <1>9, <2>1, <2>2, <2>3, <2>4 DEF Effect
  <1>11. SeenRequest(doc) = [SeenRequests[r] EXCEPT !.status = "pending", !.applications[p] = 1]
    <2>1. doc.applications = [d.applications EXCEPT ![p] = 1]
      BY <1>6 DEF RequestDoc
    <2>2. SeenRequests[r] = SeenRequest(d)
      BY <1>1, <1>3, <1>4, SeenIs
    <2>3. SeenRequest(doc) =
            [SeenRequest(d) EXCEPT !.status = "pending", !.applications[p] = 1]
      BY <1>6, <1>7, <2>1 DEF SeenRequest, RequestDoc
    <2> QED  BY <2>2, <2>3
  <1>12. PromisedNext
    <2>1. SeenRequests[r].status \in {"open", "pending"} /\ SeenRequests[r].applications[p] = 0
      BY <1>1, <1>2, <1>3, SeenIs DEF Unsettled
    <2> QED  BY <1>1, <1>3, <1>8, <1>9, <1>11, <2>1, SeenIs, PromisedSteps
  <1> QED  BY <1>6, <1>10, <1>12

(* The other writes of a handler, by what they assign.                      *)
LEMMA WriteEffect ==
  ASSUME Inv, AllFresh, NEW j \in Jobs, NEW r \in Requests, NEW doc \in RequestDoc,
         Exists(r), Holds(job[j], r, Writers),
         Write(r, doc), UNCHANGED <<clock, faults>>,
         \A k \in Jobs \ {j} : job'[k] = job[k],
         job'[j].op \in {"idle", "request.accepted", "request.completed"},
         doc.status # "closed" \/ doc.status = requests[r].status,
         doc.status \in Unsettled => requests[r].status \in Unsettled,
         doc.applications = requests[r].applications,
         doc.ets = requests[r].ets, doc.notice = requests[r].notice
  PROVE  Effect(j, r, doc)
  <1>1. RequestTypeOK /\ Single(requests[r])
    BY DEF Inv, AllFresh
  <1>2. \A q \in Requests : requests'[q] = IF q = r THEN doc ELSE requests[q]
    BY <1>1, WriteSeen
  <1>3. Single(doc) /\ Milder(requests[r], doc)
    BY <1>1 DEF Single, Milder
  <1> QED  BY <1>2, <1>3 DEF Effect

(* An acceptance that found no other in its way.                            *)
LEMMA AcceptEffect ==
  ASSUME Inv, AllFresh, NEW j \in Jobs, AcceptWrite(j)
  PROVE  PromisedNext /\ \E r \in Requests, doc \in RequestDoc : Effect(j, r, doc)
  <1>1. /\ RequestTypeOK /\ job[j].rid \in Requests /\ job[j].who \in Providers
        /\ requests[job[j].rid].applications[job[j].who] > 0
        /\ requests[job[j].rid] \in RequestDoc /\ DocOK(requests[job[j].rid])
    BY Target DEF AcceptWrite, Running
  <1>2. PICK r \in Requests, p \in Providers, d \in RequestDoc :
          r = job[j].rid /\ p = job[j].who /\ d = requests[r]
    BY <1>1
  <1>3. Exists(r) /\ Fresh(job[j]) /\ Single(d)
    <2>1. Exists(r)
      BY <1>2, NullIsNoRequest DEF Exists
    <2> QED  BY <1>2, <2>1 DEF AllFresh
  <1>4. d.status = "pending" /\ d.applications[p] = 1
    <2>1. d.applications[p] \in Nat /\ d.applications[p] > 0 /\ d.applications[p] <= 1
      BY <1>1, <1>2, <1>3 DEF RequestDoc, Single
    <2>2. d.status \in Unsettled
      BY <1>2, <1>3 DEF Fresh, AcceptWrite, Running
    <2> QED  BY <1>1, <1>2, <2>1, <2>2 DEF DocOK, Unsettled
  <1>5. PICK doc : doc = Selected(d, p)
    OBVIOUS
  <1>6. /\ doc \in RequestDoc /\ doc.status = "accepted" /\ doc.accepted = p
        /\ doc.applications = d.applications /\ doc.ets = d.ets /\ doc.notice = d.notice
        /\ doc.photos = d.photos /\ doc.customer = d.customer
    BY <1>5 DEF Selected, RequestDoc, Status
  <1>7. Write(r, doc) /\ UNCHANGED <<clock, faults>>
    BY <1>2, <1>5 DEF AcceptWrite
  <1>8. /\ job'[j].op = "request.accepted"
        /\ \A k \in Jobs \ {j} : job'[k] = job[k]
    BY <1>1 DEF AcceptWrite, Running, Become, RequestTypeOK, RequestJob, Idle
  <1>9. Holds(job[j], r, Writers)
    BY <1>2 DEF Holds, Writers, AcceptWrite, Running
  <1>10. Effect(j, r, doc)
    BY <1>2, <1>3, <1>6, <1>7, <1>8, <1>9, WriteEffect DEF Unsettled
  <1>11. SeenRequests' = [SeenRequests EXCEPT ![r] = SeenRequest(doc)]
    BY <1>1, <1>6, <1>7, WriteSeen
  <1>12. SeenRequest(doc) = [SeenRequests[r] EXCEPT !.status = "accepted", !.accepted = p]
    <2>1. SeenRequests[r] = SeenRequest(d)
      BY <1>1, <1>2, <1>3, SeenIs
    <2>2. SeenRequest(doc) = [SeenRequest(d) EXCEPT !.status = "accepted", !.accepted = p]
      BY <1>6 DEF SeenRequest, RequestDoc
    <2> QED  BY <2>1, <2>2
  <1>13. SeenRequests[r].status = "pending" /\ SeenRequests[r].applications[p] = 1
    BY <1>1, <1>2, <1>3, <1>4, SeenIs
  <1>14. PromisedNext
    BY <1>1, <1>3, <1>7, <1>11, <1>12, <1>13, SeenIs, PromisedSteps
  <1> QED  BY <1>6, <1>10, <1>14

(* A completion that found no other in its way.                             *)
LEMMA CompleteEffect ==
  ASSUME Inv, AllFresh, NEW j \in Jobs, CompleteWrite(j)
  PROVE  PromisedNext /\ \E r \in Requests, doc \in RequestDoc : Effect(j, r, doc)
  <1>1. /\ RequestTypeOK /\ job[j].rid \in Requests
        /\ requests[job[j].rid] \in RequestDoc
    BY Target DEF CompleteWrite, Running
  <1>2. PICK r \in Requests, d \in RequestDoc : r = job[j].rid /\ d = requests[r]
    BY <1>1
  <1>3. Exists(r) /\ d.status = "accepted"
    BY <1>2, NullIsNoRequest DEF Exists, AllFresh, Fresh, CompleteWrite, Running
  <1>4. PICK doc : doc = [d EXCEPT !.status = "completed"]
    OBVIOUS
  <1>5. /\ doc \in RequestDoc /\ doc.status = "completed" /\ doc.accepted = d.accepted
        /\ doc.applications = d.applications /\ doc.ets = d.ets /\ doc.notice = d.notice
        /\ doc.photos = d.photos /\ doc.customer = d.customer
    BY <1>4 DEF RequestDoc, Status
  <1>6. Write(r, doc) /\ UNCHANGED <<clock, faults>>
    BY <1>2, <1>4 DEF CompleteWrite
  <1>7. /\ job'[j].op = "request.completed"
        /\ \A k \in Jobs \ {j} : job'[k] = job[k]
    BY <1>1 DEF CompleteWrite, Running, Become, RequestTypeOK, RequestJob, Idle
  <1>8. Holds(job[j], r, Writers)
    BY <1>2 DEF Holds, Writers, CompleteWrite, Running
  <1>9. Effect(j, r, doc)
    BY <1>2, <1>3, <1>5, <1>6, <1>7, <1>8, WriteEffect DEF Unsettled
  <1>10. SeenRequests' = [SeenRequests EXCEPT ![r] = SeenRequest(doc)]
    BY <1>1, <1>5, <1>6, WriteSeen
  <1>11. SeenRequest(doc) = [SeenRequests[r] EXCEPT !.status = "completed"]
    BY <1>1, <1>2, <1>3, <1>5, SeenIs, SeenFields
  <1>12. SeenRequests[r].status = "accepted"
    BY <1>1, <1>2, <1>3, SeenIs
  <1>13. PromisedNext
    BY <1>1, <1>3, <1>6, <1>10, <1>11, <1>12, SeenIs, PromisedSteps
  <1> QED  BY <1>5, <1>9, <1>13

(* A photo added to the photos the handler saw.                             *)
LEMMA PhotosEffect ==
  ASSUME Inv, AllFresh, NEW j \in Jobs, PhotosWrite(j)
  PROVE  PromisedNext /\ \E r \in Requests, doc \in RequestDoc : Effect(j, r, doc)
  <1>1. /\ RequestTypeOK /\ job[j].rid \in Requests /\ job[j].photos \subseteq Uploads
        /\ requests[job[j].rid] \in RequestDoc
    BY Target DEF PhotosWrite, Running
  <1>2. PICK r \in Requests, d \in RequestDoc : r = job[j].rid /\ d = requests[r]
    BY <1>1
  <1>3. Exists(r) /\ Fresh(job[j])
    BY <1>2, NullIsNoRequest DEF Exists, AllFresh
  <1>4. PICK u \in Uploads : u \notin d.photos /\ job[j].photos = d.photos \cup {u}
    BY <1>2, <1>3 DEF Fresh, PhotosWrite, Running
  <1>5. d.status \in {"open", "pending", "accepted"}
    BY <1>2, <1>3 DEF Fresh, PhotosWrite, Running, RequestDoc, Status
  <1>6. PICK doc : doc = [d EXCEPT !.photos = d.photos \cup {u}]
    OBVIOUS
  <1>7. /\ doc \in RequestDoc /\ doc.status = d.status /\ doc.accepted = d.accepted
        /\ doc.applications = d.applications /\ doc.ets = d.ets /\ doc.notice = d.notice
        /\ doc.photos = d.photos \cup {u} /\ doc.customer = d.customer
    BY <1>6 DEF RequestDoc
  <1>8. Write(r, doc) /\ UNCHANGED <<clock, faults>>
    BY <1>2, <1>4, <1>6 DEF PhotosWrite
  <1>9. /\ job'[j].op = "idle"
        /\ \A k \in Jobs \ {j} : job'[k] = job[k]
    BY <1>1 DEF PhotosWrite, Finish, Become, RequestTypeOK, Idle
  <1>10. Holds(job[j], r, Writers)
    BY <1>2 DEF Holds, Writers, PhotosWrite, Running
  <1>11. Effect(j, r, doc)
    BY <1>2, <1>3, <1>7, <1>8, <1>9, <1>10, WriteEffect
  <1>12. SeenRequests' = [SeenRequests EXCEPT ![r] = SeenRequest(doc)]
    BY <1>1, <1>7, <1>8, WriteSeen
  <1>13. SeenRequest(doc) = [SeenRequests[r] EXCEPT !.photos = SeenRequests[r].photos \cup {u}]
    BY <1>1, <1>2, <1>3, <1>7, SeenIs, SeenFields
  <1>14. /\ SeenRequests[r].status \in {"open", "pending", "accepted"}
         /\ u \notin SeenRequests[r].photos
    BY <1>1, <1>2, <1>3, <1>4, <1>5, SeenIs
  <1>15. PromisedNext
    BY <1>1, <1>3, <1>8, <1>12, <1>13, <1>14, SeenIs, PromisedSteps
  <1> QED  BY <1>7, <1>11, <1>15

(* A closure: what the query found due still is.                            *)
LEMMA CloseEffect ==
  ASSUME Inv, AllFresh, NEW j \in Jobs, NEW r \in Requests, CloseOne(j, r)
  PROVE  PromisedNext /\ \E doc \in RequestDoc : Effect(j, r, doc)
  <1>1. /\ RequestTypeOK /\ job[j].now \in Nat /\ Exists(r) /\ clock \in Nat
        /\ job[j] \in [op : {"notify", "close"}, now : Nat, batch : SUBSET Requests]
    BY SweepJob DEF CloseOne, Running, RequestTypeOK, RequestJob, Idle
  <1>2. PICK d \in RequestDoc : d = requests[r] /\ Single(d)
    BY <1>1, ExistsIsDoc DEF AllFresh
  <1>3. d.status \in Unsettled /\ d.ets + ClosureDelay <= clock
    <2>1. ClosureDue(r, job[j].now) /\ job[j].now <= clock
      BY DEF AllFresh, Fresh, CloseOne, Running
    <2> QED  BY <1>1, <1>2, <2>1, RequestAssumption DEF ClosureDue, RequestDoc
  <1>4. PICK doc : doc = [d EXCEPT !.status = "closed"]
    OBVIOUS
  <1>5. /\ doc \in RequestDoc /\ doc.status = "closed" /\ doc.accepted = d.accepted
        /\ doc.applications = d.applications /\ doc.ets = d.ets /\ doc.notice = d.notice
        /\ doc.photos = d.photos /\ doc.customer = d.customer
    BY <1>4 DEF RequestDoc, Status
  <1>6. Write(r, doc) /\ UNCHANGED <<clock, faults>>
    BY <1>2, <1>4 DEF CloseOne
  <1>7. /\ job'[j].op = "close" /\ job'[j].now = job[j].now
        /\ job'[j].batch = job[j].batch \ {r}
        /\ \A k \in Jobs \ {j} : job'[k] = job[k]
    BY <1>1, RestFields DEF CloseOne, Running, Become, RequestTypeOK, Rest
  <1>8. /\ SeenRequests' = [SeenRequests EXCEPT ![r] = SeenRequest(doc)]
        /\ \A q \in Requests : requests'[q] = IF q = r THEN doc ELSE requests[q]
    BY <1>1, <1>5, <1>6, WriteSeen
  <1>9. Effect(j, r, doc)
    <2>1. Holds(job[j], r, Writers) /\ job[j].op = "close"
      BY DEF Holds, Writers, CloseOne, Running
    <2>2. Single(doc) /\ Milder(requests[r], doc)
      BY <1>2, <1>3, <1>5 DEF Single, Milder
    <2> QED  BY <1>1, <1>2, <1>5, <1>6, <1>7, <1>8, <2>1, <2>2 DEF Effect
  <1>10. SeenRequest(doc) = [SeenRequests[r] EXCEPT !.status = "closed"]
    BY <1>1, <1>2, <1>5, SeenIs, SeenFields
  <1>11. PromisedNext
    <2>1. /\ SeenRequests[r].status \in {"open", "pending"}
          /\ SeenRequests[r].ets + ClosureDelay <= clock
      BY <1>1, <1>2, <1>3, SeenIs DEF Unsettled
    <2> QED  BY <1>1, <1>6, <1>8, <1>10, <2>1, SeenIs, PromisedSteps
  <1> QED  BY <1>5, <1>9, <1>11

(* A job stays fresh if what it saw of the requests it will write stays.    *)
LEMMA StaysFresh ==
  ASSUME Inv, AllFresh, clock' \in Nat, clock' >= clock,
         NEW k \in Jobs, job'[k] = job[k],
         \A r \in Requests : Holds(job[k], r, Writers) =>
            /\ requests'[r].status = requests[r].status
            /\ requests'[r].applications = requests[r].applications
            /\ requests'[r].photos = requests[r].photos
            /\ requests'[r].ets = requests[r].ets
  PROVE  Fresh(job[k])'
  <1>1. job[k] \in JobState /\ Fresh(job[k]) /\ clock \in Nat
    BY DEF Inv, RequestTypeOK, JobState, AllFresh
  <1>2. CASE job[k].op \in Writers \ {"close"}
    <2>1. job[k].rid \in Requests
      BY <1>1, <1>2 DEF Writers, JobState, RequestJob, Idle
    <2>2. Holds(job[k], job[k].rid, Writers)
      BY <1>2 DEF Holds
    <2> QED  BY <1>1, <1>2, <2>1, <2>2 DEF Fresh, Writers
  <1>3. CASE job[k].op \in {"notify", "close"}
    <2>1. job[k].now \in Nat /\ job[k].batch \subseteq Requests
      BY <1>1, <1>3 DEF JobState, RequestJob, Idle
    <2>2. job[k].op = "close" => \A r \in job[k].batch : Holds(job[k], r, Writers)
      BY DEF Holds, Writers
    <2> QED  BY <1>1, <1>3, <2>1, <2>2 DEF Fresh, ClosureDue
  <1>4. CASE job[k].op \in {"idle", "request.accepted", "request.completed"}
    BY <1>4 DEF Fresh
  <1> QED  BY <1>1, <1>2, <1>3, <1>4, OpsOfJobs DEF Writers

(* A write leaves the other handlers, and what is left of a batch, fresh.   *)
LEMMA EffectFresh ==
  ASSUME Inv, AllFresh, NoOverlap, NEW j \in Jobs, NEW r \in Requests,
         NEW doc \in RequestDoc, Effect(j, r, doc)
  PROVE  AllFresh'
  <1>1. job[j] \in JobState /\ Fresh(job[j]) /\ clock \in Nat
    BY DEF Inv, RequestTypeOK, JobState, AllFresh
  <1>2. ASSUME NEW k \in Jobs, k # j  PROVE Fresh(job[k])'
    <2>1. job'[k] = job[k] /\ clock' = clock
      BY <1>2 DEF Effect
    <2>2. ASSUME NEW q \in Requests, Holds(job[k], q, Writers)  PROVE requests'[q] = requests[q]
      BY <1>2, <2>2 DEF NoOverlap, Effect
    <2> QED  BY <1>1, <2>1, <2>2, StaysFresh
  <1>3. Fresh(job[j])'
    <2>1. CASE job'[j].op \in {"idle", "request.accepted", "request.completed"}
      BY <2>1 DEF Fresh
    <2>2. CASE job[j].op = "close" /\ job'[j].op = "close"
      <3>1. /\ job'[j].now = job[j].now /\ job'[j].batch = job[j].batch \ {r}
            /\ job[j].batch \subseteq Requests
        BY <1>1, <2>2 DEF Effect, JobState, RequestJob, Idle
      <3>2. \A q \in job'[j].batch : ClosureDue(q, job[j].now) /\ requests'[q] = requests[q]
        BY <1>1, <2>2, <3>1 DEF Fresh, Effect
      <3> QED  BY <1>1, <2>2, <3>1, <3>2 DEF Fresh, ClosureDue, Effect
    <2> QED  BY <2>1, <2>2 DEF Effect
  <1>4. \A q \in Requests : Exists(q)' => Single(requests[q])'
    BY DEF AllFresh, Effect, Exists, Single
  <1> QED  BY <1>2, <1>3, <1>4 DEF AllFresh

(* A step that leaves requests and time alone is seen as no step.           *)
LEMMA UnseenStep ==
  ASSUME Inv, AllFresh, UNCHANGED <<requests, clock>>,
         \A k \in Jobs : job'[k] = job[k] \/ Fresh(job'[k])
  PROVE  AllFresh' /\ PromisedNext
  <1>1. clock \in Nat
    BY DEF Inv, RequestTypeOK
  <1>2. \A k \in Jobs : Fresh(job[k])'
    <2> TAKE k \in Jobs
    <2>1. CASE job'[k] = job[k]
      BY <1>1, <2>1, StaysFresh
    <2>2. CASE Fresh(job'[k])
      BY <2>2 DEF Fresh, ClosureDue
    <2> QED  BY <2>1, <2>2
  <1>3. \A q \in Requests : Exists(q)' => Single(requests[q])'
    BY DEF AllFresh, Exists, Single
  <1>4. UNCHANGED Promised!vars
    BY DEF Promised!vars, SeenRequests
  <1> QED  BY <1>2, <1>3, <1>4 DEF AllFresh, PromisedNext

(* A handler checks what its write needs.                                   *)
LEMMA LoadsSeen ==
  ASSUME Inv, AllFresh, NEW j \in Jobs, NEW r \in Requests,
         CustomerCall(j, r) \/ ProviderCall(j, r)
  PROVE  AllFresh' /\ PromisedNext
  <1>1. RequestTypeOK /\ (Exists(r) => requests[r] \in RequestDoc)
    BY ExistsIsDoc DEF Inv
  <1>2. PICK next : Become(j, next) /\ Fresh(next) /\ UNCHANGED <<requests, clock>>
    <2>1. ASSUME NEW p \in Providers, ApplyLoad(j, r, p)
          PROVE  \E next : Become(j, next) /\ Fresh(next) /\ UNCHANGED <<requests, clock>>
      <3>1. requests[r].applications[p] = 0
        BY <1>1, <2>1 DEF ApplyLoad, AlreadyApplied, RequestDoc
      <3>2. Fresh([op |-> "apply", rid |-> r, who |-> p, seen |-> requests[r].status])
        BY <3>1 DEF Fresh
      <3> QED  BY <2>1, <3>2 DEF ApplyLoad
    <2>2. ASSUME NEW c \in Customers, NEW p \in Providers, AcceptLoad(j, r, c, p)
          PROVE  \E next : Become(j, next) /\ Fresh(next) /\ UNCHANGED <<requests, clock>>
      <3>1. Fresh([op |-> "accept", rid |-> r, who |-> p])
        BY <2>2 DEF Fresh, AcceptLoad, IsUnsettled
      <3> QED  BY <2>2, <3>1 DEF AcceptLoad
    <2>3. ASSUME NEW user, CompleteLoad(j, r, user)
          PROVE  \E next : Become(j, next) /\ Fresh(next) /\ UNCHANGED <<requests, clock>>
      <3>1. Fresh([op |-> "complete", rid |-> r])
        BY <2>3 DEF Fresh, CompleteLoad
      <3> QED  BY <2>3, <3>1 DEF CompleteLoad
    <2>4. ASSUME NEW c \in Customers, NEW u \in Uploads, PhotosLoad(j, r, c, u)
          PROVE  \E next : Become(j, next) /\ Fresh(next) /\ UNCHANGED <<requests, clock>>
      <3>1. Fresh([op |-> "photos", rid |-> r, photos |-> requests[r].photos \cup {u}])
        BY <2>4 DEF Fresh, PhotosLoad
      <3> QED  BY <2>4, <3>1 DEF PhotosLoad
    <2> QED  BY <2>1, <2>2, <2>3, <2>4 DEF CustomerCall, ProviderCall
  <1>3. \A k \in Jobs : job'[k] = job[k] \/ Fresh(job'[k])
    BY <1>1, <1>2 DEF Become, RequestTypeOK
  <1> QED  BY <1>2, <1>3, UnseenStep

(* The queries of a sweep, a skipped save, and the steps that end a handler.*)
LEMMA SweepsSeen ==
  ASSUME Inv, AllFresh, NEW j \in Jobs,
         \/ SweepStart(j) \/ SweepOverdue(j) \/ SweepEnd(j)
         \/ Undelivered(j) \/ RequestAbort(j)
         \/ \E r \in Requests : SweepSkip(j, r)
  PROVE  AllFresh' /\ PromisedNext
  <1>1. RequestTypeOK /\ clock \in Nat /\ Fresh(job[j])
    BY DEF Inv, RequestTypeOK, AllFresh
  <1>2. PICK next : Become(j, next) /\ Fresh(next) /\ UNCHANGED <<requests, clock>>
    <2>1. CASE SweepStart(j)
      <3>1. Fresh([op |-> "notify", now |-> clock, batch |-> Found(NoticeDue, clock)])
        BY <1>1 DEF Fresh
      <3> QED  BY <2>1, <3>1 DEF SweepStart
    <2>2. CASE SweepOverdue(j)
      <3>1. Fresh([op |-> "close", now |-> job[j].now, batch |-> Found(ClosureDue, job[j].now)])
        BY <1>1, <2>2 DEF Fresh, SweepOverdue, Running, Found
      <3> QED  BY <2>2, <3>1 DEF SweepOverdue
    <2>3. CASE SweepEnd(j) \/ Undelivered(j) \/ RequestAbort(j)
      <3>1. Fresh(Idle)
        BY DEF Fresh, Idle
      <3> QED  BY <2>3, <3>1 DEF SweepEnd, Undelivered, RequestAbort, Abort, Finish
    <2>4. ASSUME NEW r \in Requests, SweepSkip(j, r)
          PROVE  \E next : Become(j, next) /\ Fresh(next) /\ UNCHANGED <<requests, clock>>
      <3>1. job[j] \in [op : {"notify", "close"}, now : Nat, batch : SUBSET Requests]
        BY <1>1, <2>4 DEF SweepSkip, RequestTypeOK, RequestJob, Idle
      <3>2. /\ Rest(j, r).op = job[j].op /\ Rest(j, r).now = job[j].now
            /\ Rest(j, r).batch = job[j].batch \ {r}
        BY <3>1, RestFields DEF Rest
      <3>3. Fresh(Rest(j, r))
        BY <1>1, <3>1, <3>2 DEF Fresh
      <3> QED  BY <2>4, <3>3 DEF SweepSkip
    <2> QED  BY <2>1, <2>2, <2>3, <2>4
  <1>3. \A k \in Jobs : job'[k] = job[k] \/ Fresh(job'[k])
    BY <1>1, <1>2 DEF Become, RequestTypeOK
  <1> QED  BY <1>2, <1>3, UnseenStep

(* The expiry notice is nothing RequestPromise sees.                        *)
LEMMA NotifySeen ==
  ASSUME Inv, AllFresh, NEW j \in Jobs, NEW r \in Requests, Notify(j, r)
  PROVE  AllFresh' /\ PromisedNext
  <1>1. /\ RequestTypeOK /\ job[j].now \in Nat /\ Exists(r) /\ clock \in Nat
        /\ job[j] \in [op : {"notify", "close"}, now : Nat, batch : SUBSET Requests]
        /\ Fresh(job[j])
    BY SweepJob DEF Notify, Running, RequestTypeOK, RequestJob, Idle, AllFresh
  <1>2. PICK d \in RequestDoc : d = requests[r]
    BY <1>1, ExistsIsDoc
  <1>3. PICK doc : doc = [d EXCEPT !.notice = job[j].now]
    OBVIOUS
  <1>4. /\ doc \in RequestDoc /\ doc.status = d.status /\ doc.accepted = d.accepted
        /\ doc.applications = d.applications /\ doc.ets = d.ets
        /\ doc.photos = d.photos /\ doc.customer = d.customer
    BY <1>1, <1>3 DEF RequestDoc
  <1>5. Write(r, doc) /\ UNCHANGED clock
    BY <1>2, <1>3 DEF Notify
  <1>6. /\ SeenRequests' = [SeenRequests EXCEPT ![r] = SeenRequest(doc)]
        /\ \A q \in Requests : requests'[q] = IF q = r THEN doc ELSE requests[q]
    BY <1>1, <1>4, <1>5, WriteSeen
  <1>7. PromisedNext
    <2>1. SeenRequest(doc) = SeenRequest(d)
      BY <1>4, SeenFields
    <2>2. SeenRequests[r] = SeenRequest(d)
      BY <1>1, <1>2, SeenIs
    <2>3. SeenRequests' = SeenRequests
      BY <1>6, <2>1, <2>2 DEF SeenRequests
    <2> QED  BY <1>5, <2>3 DEF PromisedNext, Promised!vars
  <1>8. \A q \in Requests :
          /\ requests'[q].status = requests[q].status
          /\ requests'[q].applications = requests[q].applications
          /\ requests'[q].photos = requests[q].photos
          /\ requests'[q].ets = requests[q].ets
    BY <1>2, <1>4, <1>6
  <1>9. ASSUME NEW k \in Jobs, k # j  PROVE Fresh(job[k])'
    <2>1. job'[k] = job[k]
      BY <1>1, <1>9 DEF Notify, Become, RequestTypeOK
    <2> QED  BY <1>1, <1>5, <1>8, <2>1, StaysFresh
  <1>10. Fresh(job[j])'
    <2>1. job'[j] = Rest(j, r)
      BY <1>1 DEF Notify, Become, RequestTypeOK
    <2>2. job'[j].op = "notify" /\ job'[j].now = job[j].now
      BY <1>1, <2>1, RestFields DEF Notify, Running, Rest
    <2> QED  BY <1>1, <1>5, <2>2 DEF Fresh, Notify, Running
  <1>11. \A q \in Requests : Exists(q)' => Single(requests[q])'
    BY <1>1, <1>2, <1>4, <1>6 DEF AllFresh, Exists, Single
  <1> QED  BY <1>7, <1>9, <1>10, <1>11 DEF AllFresh

(* A request that is published is one of RequestPromise, and new to all.    *)
LEMMA CreateSeen ==
  ASSUME Inv, AllFresh, NEW r \in Requests, NEW c \in Customers, NEW ets \in 1..MaxClock,
         CreateRequest(r, c, ets)
  PROVE  AllFresh' /\ PromisedNext
  <1> DEFINE doc == [status |-> "open", customer |-> c, ets |-> ets, notice |-> None,
                     applications |-> [p \in Providers |-> 0], accepted |-> None,
                     photos |-> {}]
  <1>1. RequestTypeOK /\ clock \in Nat
    BY DEF Inv, RequestTypeOK
  <1>2. doc \in RequestDoc
    BY BoundsAssumption DEF RequestDoc, Status
  <1>3. SeenRequest(doc) = [status |-> "open", customer |-> c, ets |-> ets,
                            applications |-> [p \in Providers |-> 0],
                            accepted |-> None, photos |-> {}]
    BY DEF SeenRequest
  <1>4. Write(r, doc) /\ UNCHANGED <<job, clock>> /\ ~Exists(r) /\ ets > clock
    BY DEF CreateRequest
  <1>5. Single(doc)
    BY DEF Single
  <1> HIDE DEF doc
  <1>6. /\ SeenRequests' = [SeenRequests EXCEPT ![r] = SeenRequest(doc)]
        /\ \A q \in Requests : requests'[q] = IF q = r THEN doc ELSE requests[q]
    BY <1>1, <1>2, <1>4, WriteSeen
  <1>7. PromisedNext
    <2>1. SeenRequests[r] = None
      BY <1>1, <1>4, SeenIs
    <2>2. Promised!Publish(r)
      BY <1>3, <1>4, <1>6, <2>1 DEF Promised!Publish, Promised!Change
    <2> QED  BY <2>2 DEF PromisedNext, Promised!Next
  <1>8. ASSUME NEW k \in Jobs  PROVE Fresh(job[k])'
    <2>1. ASSUME NEW q \in Requests, Holds(job[k], q, Writers)  PROVE q # r
      <3>1. Exists(q)
        BY <2>1 DEF Inv, LoadedFactsHold, Holds, Writers
      <3> QED  BY <1>4, <3>1
    <2> QED  BY <1>1, <1>4, <1>6, <2>1, StaysFresh
  <1>9. \A q \in Requests : Exists(q)' => Single(requests[q])'
    BY <1>5, <1>6 DEF AllFresh, Exists, Single
  <1> QED  BY <1>7, <1>8, <1>9 DEF AllFresh

(* Time passes, or the process restarts.                                    *)
LEMMA BackendSeen ==
  ASSUME Inv, AllFresh,
         \/ (Tick \/ Crash) /\ UNCHANGED requests
         \/ UNCHANGED requestVars
  PROVE  AllFresh' /\ PromisedNext
  <1>1. RequestTypeOK /\ clock \in Nat
    BY DEF Inv, RequestTypeOK
  <1>2. CASE Tick /\ UNCHANGED requests
    <2>1. Promised!Tick
      BY <1>2 DEF Tick, Promised!Tick, SeenRequests
    <2>2. \A k \in Jobs : Fresh(job[k])'
      BY <1>1, <1>2, StaysFresh DEF Tick
    <2>3. \A q \in Requests : Exists(q)' => Single(requests[q])'
      BY <1>2 DEF AllFresh, Exists, Single
    <2> QED  BY <2>1, <2>2, <2>3 DEF AllFresh, PromisedNext, Promised!Next
  <1>3. CASE ~(Tick /\ UNCHANGED requests)
    <2>1. /\ UNCHANGED <<requests, clock>>
          /\ \A k \in Jobs : job'[k] = job[k] \/ job'[k] = Idle
      BY <1>1, <1>3 DEF Crash, requestVars
    <2>2. Fresh(Idle)
      BY DEF Fresh, Idle
    <2> QED  BY <2>1, <2>2, UnseenStep
  <1> QED  BY <1>2, <1>3

(* The writes of the handlers and of the sweeper.                           *)
LEMMA WritesHaveEffect ==
  ASSUME Inv, AllFresh, NEW j \in Jobs,
         RequestStep(j) \/ \E r \in Requests : CloseOne(j, r)
  PROVE  PromisedNext /\ \E r \in Requests, doc \in RequestDoc : Effect(j, r, doc)
  BY ApplyEffect, AcceptEffect, CompleteEffect, PhotosEffect, CloseEffect DEF RequestStep

(* Every step is a step of RequestPromise or none.                          *)
LEMMA StepSeen ==
  ASSUME Inv, AllFresh, NoOverlap, Unrepeated', [RequestsAlone]_requestVars
  PROVE  AllFresh' /\ PromisedNext
  <1>1. ASSUME NEW r \in Requests, NEW c \in Customers, NEW ets \in 1..MaxClock,
               CreateRequest(r, c, ets)
        PROVE  AllFresh' /\ PromisedNext
    BY <1>1, CreateSeen
  <1>2. ASSUME NEW j \in Jobs, NEW r \in Requests, CustomerCall(j, r) \/ ProviderCall(j, r)
        PROVE  AllFresh' /\ PromisedNext
    BY <1>2, LoadsSeen
  <1>3. ASSUME NEW j \in Jobs, RequestStep(j) \/ \E r \in Requests : CloseOne(j, r)
        PROVE  AllFresh' /\ PromisedNext
    BY <1>3, WritesHaveEffect, EffectFresh
  <1>4. ASSUME NEW j \in Jobs, SweepStart(j) \/ SweepStep(j)
        PROVE  AllFresh' /\ PromisedNext
    BY <1>3, <1>4, NotifySeen, SweepsSeen DEF SweepStep
  <1>5. ASSUME NEW j \in Jobs, NEW r \in Requests, SweepSkip(j, r)
        PROVE  AllFresh' /\ PromisedNext
    BY <1>5, SweepsSeen
  <1>6. ASSUME NEW j \in Jobs, RequestAbort(j) \/ Undelivered(j)
        PROVE  AllFresh' /\ PromisedNext
    BY <1>6, SweepsSeen
  <1>7. ASSUME NEW j \in Jobs, ApplyResend(j)  PROVE FALSE
    <2>1. faults \in Nat
      BY DEF Inv, RequestTypeOK
    <2> QED  BY <1>7, <2>1 DEF ApplyResend, Faulty, Unrepeated
  <1>8. CASE \/ (Tick \/ Crash) /\ UNCHANGED requests
            \/ UNCHANGED requestVars
    BY <1>8, BackendSeen
  <1> QED
    BY <1>1, <1>2, <1>3, <1>4, <1>5, <1>6, <1>7, <1>8 DEF RequestsAlone, RequestNext

(* RequestService implements the safety part of RequestPromise as long as   *)
(* no two operations in flight are about to write the same request, and no  *)
(* save is repeated because its answer was lost: every write is an atomic   *)
(* step whose conditions hold when it is made, sweeps included.             *)
THEOREM RequestKeepsPromise ==
  ASSUME ~AckLoss
  PROVE  RequestSpec /\ []NoOverlap => Promised!Lifecycle
  <1>1. RequestInit => Promised!Init /\ AllFresh
    BY DEF RequestInit, BackendInit, Promised!Init, SeenRequests, AllFresh, Fresh, Idle, Exists
  <1>2. RequestSpec => []Inv
    BY RequestInvariant
  <1>3. Unrepeated'
    BY DEF Unrepeated
  <1>4. Inv /\ AllFresh /\ NoOverlap /\ [RequestsAlone]_requestVars
          => AllFresh' /\ [Promised!Next]_(Promised!vars)
    BY <1>3, StepSeen DEF PromisedNext
  <1> QED  BY <1>1, <1>2, <1>4, PTL DEF RequestSpec, Promised!Lifecycle

(* One handler at a time never overlaps: the setting of run serial.         *)
THEOREM RequestSerial ==
  ASSUME ~AckLoss, \A i, j \in Jobs : i = j
  PROVE  RequestSpec => Promised!Lifecycle
  <1>1. NoOverlap
    BY DEF NoOverlap
  <1> QED  BY <1>1, RequestKeepsPromise, PTL

---------------------------------------------------------------------------
(* The expiry notice comes before the closure.  A sweep that no fault has   *)
(* touched still holds whatever is due for the notice, and what it is about *)
(* to close has had its notice.                                             *)
Waits(s) ==
  /\ s.op = "notify" => \A r \in Requests : Exists(r) /\ NoticeDue(r, s.now) => r \in s.batch
  /\ s.op = "close" => \A r \in s.batch : requests[r].notice # None

Noticed == ClosedWasNoticed /\ (faults = 0 => \A j \in Jobs : Waits(job[j]))

(* A step that leaves the requests alone.                                   *)
LEMMA NoticedJobs ==
  ASSUME Noticed, UNCHANGED requests, faults' = 0 => faults = 0,
         \A k \in Jobs : faults' = 0 => job'[k] = job[k] \/ Waits(job'[k])
  PROVE  Noticed'
  <1>1. ClosedWasNoticed'
    BY DEF Noticed, ClosedWasNoticed, Exists
  <1>2. ASSUME faults' = 0, NEW k \in Jobs  PROVE Waits(job[k])'
    <2>1. Waits(job'[k])
      BY <1>2 DEF Noticed
    <2> QED  BY <2>1 DEF Waits, Exists, NoticeDue
  <1> QED  BY <1>1, <1>2 DEF Noticed

(* A write that nobody came before, a closure included.                     *)
LEMMA EffectNoticed ==
  ASSUME Noticed, RequestTypeOK, NEW j \in Jobs, NEW r \in Requests, NEW doc \in RequestDoc,
         Effect(j, r, doc)
  PROVE  Noticed'
  <1>1. /\ \A q \in Requests : requests'[q] = IF q = r THEN doc ELSE requests[q]
        /\ Milder(requests[r], doc) /\ Exists(r) /\ faults' = faults
    BY DEF Effect
  <1>2. ASSUME faults = 0  PROVE doc.status = "closed" => doc.notice # None
    <2>1. CASE doc.status = "closed" /\ doc.status = requests[r].status
      BY <1>1, <1>2, <2>1 DEF Noticed, ClosedWasNoticed, Milder
    <2>2. CASE job[j].op = "close"
      <3>1. r \in job[j].batch
        BY <2>2 DEF Effect, Holds
      <3>2. requests[r].notice # None
        BY <1>2, <2>2, <3>1 DEF Noticed, Waits
      <3> QED  BY <1>1, <3>2 DEF Milder
    <2> QED  BY <2>1, <2>2 DEF Effect
  <1>3. ClosedWasNoticed'
    BY <1>1, <1>2 DEF Noticed, ClosedWasNoticed, Exists
  <1>4. ASSUME faults = 0, NEW k \in Jobs  PROVE Waits(job[k])'
    <2>1. Waits(job[k]) /\ Waits(job[j])
      BY <1>4 DEF Noticed
    <2>2. \A q \in Requests : \A now : (Exists(q) /\ NoticeDue(q, now))' => Exists(q) /\ NoticeDue(q, now)
      BY <1>1 DEF Exists, NoticeDue, Milder
    <2>3. \A q \in Requests : requests[q].notice # None => requests'[q].notice # None
      BY <1>1 DEF Milder
    <2>4. job[k] \in JobState /\ job[j] \in JobState
      BY DEF RequestTypeOK, JobState
    <2>5. CASE k # j
      <3>1. job'[k] = job[k]
        BY <2>5 DEF Effect
      <3>2. job[k].op = "close" => job[k].batch \subseteq Requests
        BY <2>4 DEF JobState, RequestJob, Idle
      <3> QED  BY <2>1, <2>2, <2>3, <3>1, <3>2 DEF Waits
    <2>6. CASE k = j
      <3>1. CASE job'[j].op \in {"idle", "request.accepted", "request.completed"}
        BY <2>6, <3>1 DEF Waits
      <3>2. CASE job[j].op = "close" /\ job'[j].op = "close"
        <4>1. job'[j].batch = job[j].batch \ {r} /\ job[j].batch \subseteq Requests
          BY <2>4, <3>2 DEF Effect, JobState, RequestJob, Idle
        <4> QED  BY <2>1, <2>3, <2>6, <3>2, <4>1 DEF Waits
      <3> QED  BY <3>1, <3>2 DEF Effect
    <2> QED  BY <2>5, <2>6
  <1> QED  BY <1>1, <1>3, <1>4 DEF Noticed

(* Loads, and handlers that end, sweep nothing.                             *)
LEMMA LoadsNoticed ==
  ASSUME RequestTypeOK, Noticed, NEW j \in Jobs,
         \/ \E r \in Requests : CustomerCall(j, r) \/ ProviderCall(j, r) \/ SweepSkip(j, r)
         \/ SweepEnd(j) \/ Undelivered(j) \/ RequestAbort(j)
  PROVE  Noticed'
  <1>0. faults \in Nat /\ job \in [Jobs -> RequestJob \cup {Idle}]
    BY DEF RequestTypeOK
  <1> DEFINE Reads == /\ UNCHANGED <<requests, faults>>
                      /\ \E next : Become(j, next) /\ next.op \notin {"notify", "close"}
             Fails == UNCHANGED requests /\ faults' = faults + 1 /\ \E next : Become(j, next)
  <1>1. ASSUME NEW r \in Requests, NEW p \in Providers, ApplyLoad(j, r, p)  PROVE Reads
    BY <1>1 DEF ApplyLoad
  <1>2. ASSUME NEW r \in Requests, NEW c \in Customers, NEW p \in Providers, AcceptLoad(j, r, c, p)
        PROVE  Reads
    BY <1>2 DEF AcceptLoad
  <1>3. ASSUME NEW r \in Requests, NEW user, CompleteLoad(j, r, user)  PROVE Reads
    BY <1>3 DEF CompleteLoad
  <1>4. ASSUME NEW r \in Requests, NEW c \in Customers, NEW u \in Uploads, PhotosLoad(j, r, c, u)
        PROVE  Reads
    BY <1>4 DEF PhotosLoad
  <1>5. ASSUME SweepEnd(j) \/ Undelivered(j)  PROVE Reads
    BY <1>5 DEF SweepEnd, Undelivered, Finish, Idle
  <1>6. ASSUME NEW r \in Requests, SweepSkip(j, r)  PROVE Fails
    BY <1>6 DEF SweepSkip, Faulty
  <1>7. ASSUME RequestAbort(j)  PROVE Fails
    BY <1>7 DEF RequestAbort, Abort, Finish, Faulty
  <1>8. Reads \/ Fails
    <2>1. ASSUME NEW r \in Requests, CustomerCall(j, r) \/ ProviderCall(j, r)  PROVE Reads
      BY <1>1, <1>2, <1>3, <1>4, <2>1 DEF CustomerCall, ProviderCall
    <2> QED  BY <1>5, <1>6, <1>7, <2>1
  <1>9. UNCHANGED requests /\ (faults' = 0 => faults = 0)
    BY <1>0, <1>8
  <1>10. \A k \in Jobs : faults' = 0 => job'[k] = job[k] \/ Waits(job'[k])
    BY <1>0, <1>8 DEF Become, Waits
  <1> QED  BY <1>9, <1>10, NoticedJobs

(* A sweep takes every request due for the notice, and when it has none of  *)
(* them left, whatever is overdue for closure has had its notice.           *)
LEMMA QueriesNoticed ==
  ASSUME RequestTypeOK, Noticed, NEW j \in Jobs, SweepStart(j) \/ SweepOverdue(j)
  PROVE  Noticed'
  <1>1. UNCHANGED <<requests, faults>>
    BY DEF SweepStart, SweepOverdue
  <1>2. PICK next : Become(j, next) /\ (faults = 0 => Waits(next))
    <2>1. CASE SweepStart(j)
      <3>1. Waits([op |-> "notify", now |-> clock, batch |-> Found(NoticeDue, clock)])
        BY DEF Waits, Found
      <3> QED  BY <2>1, <3>1 DEF SweepStart
    <2>2. CASE SweepOverdue(j)
      <3> DEFINE now == job[j].now
      <3>1. job[j] \in [op : {"notify", "close"}, now : Nat, batch : SUBSET Requests]
        BY <2>2 DEF SweepOverdue, Running, RequestTypeOK, RequestJob, Idle
      <3>2. ASSUME faults = 0, NEW r \in Requests, Exists(r), ClosureDue(r, now)
            PROVE  requests[r].notice # None
        <4>1. requests[r].ets \in Nat
          BY <3>2, ExistsIsDoc DEF RequestDoc
        <4>2. requests[r].notice # None \/ ~NoticeDue(r, now)
          BY <3>2, <2>2 DEF Noticed, Waits, SweepOverdue, Running
        <4>3. requests[r].ets <= now
          BY <3>1, <3>2, <4>1, RequestAssumption DEF ClosureDue
        <4> QED  BY <3>2, <4>2, <4>3 DEF NoticeDue, ClosureDue
      <3>3. faults = 0
              => Waits([op |-> "close", now |-> now, batch |-> Found(ClosureDue, now)])
        BY <3>2 DEF Waits, Found
      <3> QED  BY <2>2, <3>3 DEF SweepOverdue
    <2> QED  BY <2>1, <2>2
  <1>3. \A k \in Jobs : faults' = 0 => job'[k] = job[k] \/ Waits(job'[k])
    BY <1>1, <1>2 DEF Become, RequestTypeOK
  <1> QED  BY <1>1, <1>3, NoticedJobs

(* A notice that is saved.                                                  *)
LEMMA NotifyNoticed ==
  ASSUME Inv, Noticed, NEW j \in Jobs, NEW r \in Requests, Notify(j, r)
  PROVE  Noticed'
  <1>1. /\ RequestTypeOK /\ job[j].now \in Nat /\ Exists(r)
        /\ job[j] \in [op : {"notify", "close"}, now : Nat, batch : SUBSET Requests]
        /\ job[j].op = "notify" /\ r \in job[j].batch
    BY SweepJob DEF Notify, Running, RequestTypeOK, RequestJob, Idle
  <1>2. requests[r] \in RequestDoc
    BY <1>1, ExistsIsDoc
  <1>3. PICK doc : /\ doc = [requests[r] EXCEPT !.notice = job[j].now]
                   /\ doc.status = requests[r].status /\ doc.notice # None
                   /\ doc.ets = requests[r].ets
    <2>1. PICK doc : doc = [requests[r] EXCEPT !.notice = job[j].now]
      OBVIOUS
    <2>2. /\ doc.status = requests[r].status /\ doc.notice = job[j].now
          /\ doc.ets = requests[r].ets
      BY <1>2, <2>1 DEF RequestDoc
    <2> QED  BY <1>1, <2>1, <2>2, NoneAssumption
  <1>4. \A q \in Requests : requests'[q] = IF q = r THEN doc ELSE requests[q]
    BY <1>1, <1>3 DEF Notify, Write, RequestTypeOK
  <1>5. ClosedWasNoticed' /\ faults' = faults
    BY <1>1, <1>3, <1>4 DEF Noticed, ClosedWasNoticed, Exists, Notify
  <1>6. \A q \in Requests : \A now :
          (Exists(q) /\ NoticeDue(q, now))' => Exists(q) /\ NoticeDue(q, now) /\ q # r
    BY <1>1, <1>3, <1>4 DEF Exists, NoticeDue
  <1>7. ASSUME faults = 0, NEW k \in Jobs  PROVE Waits(job[k])'
    <2>1. Waits(job[k])
      BY <1>7 DEF Noticed
    <2>2. CASE k # j
      <3>1. job'[k] = job[k]
        BY <1>1, <2>2 DEF Notify, Become, RequestTypeOK
      <3>2. job[k].op = "close" => job[k].batch \subseteq Requests
        BY <1>1 DEF RequestTypeOK, RequestJob, Idle
      <3> QED  BY <1>3, <1>4, <1>6, <2>1, <3>1, <3>2 DEF Waits
    <2>3. CASE k = j
      <3>1. job'[j] = Rest(j, r)
        BY <1>1 DEF Notify, Become, RequestTypeOK
      <3>2. /\ job'[j].op = "notify" /\ job'[j].now = job[j].now
            /\ job'[j].batch = job[j].batch \ {r}
        BY <1>1, <3>1, RestFields DEF Rest
      <3> QED  BY <1>1, <1>6, <2>1, <2>3, <3>2 DEF Waits
    <2> QED  BY <2>2, <2>3
  <1> QED  BY <1>5, <1>7 DEF Noticed

(* A new request is not due for any sweep that has started.                 *)
LEMMA CreateNoticed ==
  ASSUME Inv, AllFresh, Noticed, NEW r \in Requests, NEW c \in Customers,
         NEW ets \in 1..MaxClock, CreateRequest(r, c, ets)
  PROVE  Noticed'
  <1>1. RequestTypeOK /\ clock \in Nat
    BY DEF Inv, RequestTypeOK
  <1>2. /\ ~Exists(r) /\ ets > clock /\ UNCHANGED <<job, clock, faults>>
        /\ \A q \in Requests : q # r => requests'[q] = requests[q]
        /\ requests'[r].status = "open" /\ requests'[r].ets = ets
    BY <1>1 DEF CreateRequest, Write, RequestTypeOK
  <1>3. ClosedWasNoticed'
    BY <1>2 DEF Noticed, ClosedWasNoticed, Exists
  <1>4. ASSUME faults = 0, NEW k \in Jobs  PROVE Waits(job[k])'
    <2>1. Waits(job[k]) /\ Fresh(job[k])
      BY <1>4 DEF Noticed, AllFresh
    <2>2. CASE job[k].op = "notify"
      <3>1. job[k].now \in Nat /\ job[k].now <= clock
        BY <1>1, <2>1, <2>2 DEF Fresh, RequestTypeOK, RequestJob, Idle
      <3>2. ~NoticeDue(r, job[k].now)'
        BY <1>1, <1>2, <3>1, BoundsAssumption DEF NoticeDue
      <3> QED  BY <1>2, <2>1, <2>2, <3>2 DEF Waits, Exists, NoticeDue
    <2>3. CASE job[k].op = "close"
      <3>1. \A q \in job[k].batch : q \in Requests /\ Exists(q)
        BY <1>1, <2>3 DEF Inv, LoadedFactsHold, RequestTypeOK, RequestJob, Idle
      <3> QED  BY <1>2, <2>1, <2>3, <3>1 DEF Waits
    <2>4. CASE job[k].op \notin {"notify", "close"}
      BY <1>2, <2>4 DEF Waits
    <2> QED  BY <2>2, <2>3, <2>4
  <1> QED  BY <1>2, <1>3, <1>4 DEF Noticed

(* Faults are counted and never forgotten.                                  *)
LEMMA FaultsGrow ==
  ASSUME Inv, [RequestsAlone]_requestVars
  PROVE  faults \in Nat /\ faults' \in Nat /\ faults' >= faults
  <1>1. faults \in Nat
    BY DEF Inv, RequestTypeOK
  <1> DEFINE Counts == faults' = faults \/ faults' = faults + 1
  <1>2. ASSUME NEW r \in Requests, NEW c \in Customers, NEW ets \in 1..MaxClock,
               CreateRequest(r, c, ets)
        PROVE  Counts
    BY <1>2 DEF CreateRequest
  <1>3. ASSUME NEW j \in Jobs, NEW r \in Requests, CustomerCall(j, r)  PROVE Counts
    BY <1>3 DEF CustomerCall, AcceptLoad, CompleteLoad, PhotosLoad
  <1>4. ASSUME NEW j \in Jobs, NEW r \in Requests, ProviderCall(j, r)  PROVE Counts
    BY <1>4 DEF ProviderCall, ApplyLoad, CompleteLoad
  <1>5. ASSUME NEW j \in Jobs, RequestStep(j)  PROVE Counts
    BY <1>5 DEF RequestStep, ApplySave, AcceptWrite, CompleteWrite, PhotosWrite
  <1>6. ASSUME NEW j \in Jobs, SweepStart(j) \/ SweepStep(j)  PROVE Counts
    <2>1. CASE SweepStart(j)
      BY <2>1 DEF SweepStart
    <2>2. CASE SweepOverdue(j) \/ SweepEnd(j)
      BY <2>2 DEF SweepOverdue, SweepEnd
    <2>3. CASE \E r \in Requests : Notify(j, r) \/ CloseOne(j, r)
      BY <2>3 DEF Notify, CloseOne
    <2> QED  BY <1>6, <2>1, <2>2, <2>3 DEF SweepStep
  <1>7. ASSUME NEW j \in Jobs, NEW r \in Requests, SweepSkip(j, r)  PROVE Counts
    BY <1>7 DEF SweepSkip, Faulty
  <1>8. ASSUME NEW j \in Jobs, RequestAbort(j) \/ ApplyResend(j) \/ Undelivered(j)  PROVE Counts
    BY <1>8 DEF RequestAbort, Abort, ApplyResend, Undelivered, Faulty
  <1>9. ASSUME Tick \/ Crash \/ UNCHANGED requestVars  PROVE Counts
    BY <1>9 DEF Tick, Crash, Faulty, requestVars
  <1>10. Counts
    BY <1>2, <1>3, <1>4, <1>5, <1>6, <1>7, <1>8, <1>9 DEF RequestsAlone, RequestNext
  <1> QED  BY <1>1, <1>10

(* Every step keeps the notices in order.                                   *)
LEMMA StepNoticed ==
  ASSUME Inv, Unrepeated => AllFresh, Noticed, [RequestsAlone]_requestVars
  PROVE  Noticed'
  <1>0. RequestTypeOK /\ faults \in Nat
    BY DEF Inv, RequestTypeOK
  <1>1. CASE faults' # 0
    BY <1>1 DEF Noticed, ClosedWasNoticed
  <1>2. CASE faults' = 0
    <2>0. faults = 0 /\ AllFresh
      BY <1>0, <1>2, FaultsGrow DEF Unrepeated
    <2>1. ASSUME NEW r \in Requests, NEW c \in Customers, NEW ets \in 1..MaxClock,
                 CreateRequest(r, c, ets)
          PROVE  Noticed'
      BY <2>0, <2>1, CreateNoticed
    <2>2. ASSUME NEW j \in Jobs, RequestStep(j) \/ \E r \in Requests : CloseOne(j, r)
          PROVE  Noticed'
      BY <1>0, <2>0, <2>2, WritesHaveEffect, EffectNoticed
    <2>3. ASSUME NEW j \in Jobs, SweepStart(j) \/ SweepStep(j)  PROVE Noticed'
      BY <1>0, <2>2, <2>3, NotifyNoticed, QueriesNoticed, LoadsNoticed DEF SweepStep
    <2>4. ASSUME NEW j \in Jobs,
                 \/ \E r \in Requests : CustomerCall(j, r) \/ ProviderCall(j, r) \/ SweepSkip(j, r)
                 \/ RequestAbort(j) \/ Undelivered(j)
          PROVE  Noticed'
      BY <1>0, <2>4, LoadsNoticed
    <2>5. ASSUME NEW j \in Jobs, ApplyResend(j)  PROVE FALSE
      BY <1>0, <1>2, <2>5 DEF ApplyResend, Faulty
    <2>6. CASE \/ (Tick \/ Crash) /\ UNCHANGED requests
              \/ UNCHANGED requestVars
      <3>1. \A k \in Jobs : job'[k] = job[k] \/ Waits(job'[k])
        BY <1>0, <1>2, <2>6 DEF Tick, Crash, Faulty, requestVars
      <3> QED  BY <2>0, <2>6, <3>1, NoticedJobs DEF requestVars
    <2> QED
      BY <2>1, <2>2, <2>3, <2>4, <2>5, <2>6 DEF RequestsAlone, RequestNext
  <1> QED  BY <1>1, <1>2

(* A sweep closes no request it has not sent the expiry notice for, as long *)
(* as no fault happens and no two operations in flight are about to write   *)
(* the same request: however many sweeps overlap, and however many handlers *)
(* work on other requests meanwhile.                                        *)
THEOREM RequestNoticed == RequestSpec /\ []NoOverlap => []ClosedWasNoticed
  <1> DEFINE Ready == (Unrepeated => AllFresh) /\ Noticed
  <1>1. RequestInit => Ready
    BY DEF RequestInit, BackendInit, AllFresh, Fresh, Idle, Exists, Noticed, ClosedWasNoticed, Waits
  <1>2. RequestSpec => []Inv
    BY RequestInvariant
  <1>3. Inv /\ Ready /\ NoOverlap /\ [RequestsAlone]_requestVars => Ready'
    <2> SUFFICES ASSUME Inv, Ready, NoOverlap, [RequestsAlone]_requestVars  PROVE Ready'
      OBVIOUS
    <2>1. Unrepeated' => Unrepeated
      BY FaultsGrow, RequestAssumption DEF Unrepeated
    <2> QED  BY <2>1, StepSeen, StepNoticed
  <1>4. Ready => ClosedWasNoticed
    BY DEF Noticed
  <1> QED  BY <1>1, <1>2, <1>3, <1>4, PTL DEF RequestSpec

(* With one handler at a time, which is the setting of run serial.          *)
THEOREM RequestSerialNoticed ==
  ASSUME \A i, j \in Jobs : i = j
  PROVE  RequestSpec => []ClosedWasNoticed
  <1>1. NoOverlap
    BY DEF NoOverlap
  <1> QED  BY <1>1, RequestNoticed, PTL
==============================================================================
