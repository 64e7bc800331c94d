----------------------------- MODULE Applications -----------------------------
(****************************************************************************)
(* Applications to become a provider: provider-applications.service.ts.     *)
(* An application is checked in two reads and inserted in a transaction     *)
(* that checks nothing; an admin's decision is three separate writes, of    *)
(* the application, the user's providerStatus and the user's role.  PATCH   *)
(* /users/me writes these two fields of the user who asks, too.             *)
(****************************************************************************)
EXTENDS Backend, Sequences

(* Applicants are customers; MaxApplications bounds how many they send.     *)
CONSTANTS Applicants, MaxApplications

ASSUME ApplicationsAssumption == MaxApplications \in Nat

(* own is a history: the fields of each user that were last changed by the  *)
(* user and not by this service.                                            *)
VARIABLES applications, applicants, own

applicationVars == <<applications, applicants, own, job, clock, faults>>

ApplicationStatus == {"pending", "approved", "rejected", "needs_info"}

ApplicantDoc ==
  [role : {"customer", "provider", "admin"}, providerStatus : ApplicationStatus \cup {"none"}]

Filed == DOMAIN applications
Sets(u, field, value) ==
  /\ applicants' = [applicants EXCEPT ![u][field] = value]
  /\ own' = [own EXCEPT ![u] = @ \ {field}]

---------------------------------------------------------------------------
(* Slips: operators of the code below as a plausible error would have them. *)
ForgetsRole(status) == "none"

---------------------------------------------------------------------------
(* create *)
ApplyLoad(j, u) ==
  /\ Free(j)
  /\ applicants[u].role # "provider"
  /\ Become(j, [op |-> "apply.check", user |-> u])
  /\ UNCHANGED <<applications, applicants, own, clock, faults>>

ApplyCheck(j) ==
  /\ job[j].op = "apply.check"
  /\ IF \E a \in Filed : applications[a] = [user |-> job[j].user, status |-> "pending"]
     THEN Finish(j)
     ELSE Become(j, [op |-> "apply.insert", user |-> job[j].user])
  /\ UNCHANGED <<applications, applicants, own, clock, faults>>

ApplyInsert(j) ==
  /\ job[j].op = "apply.insert"
  /\ Len(applications) < MaxApplications
  /\ applications' = Append(applications, [user |-> job[j].user, status |-> "pending"])
  /\ Sets(job[j].user, "providerStatus", "pending")
  /\ Finish(j)
  /\ UNCHANGED <<clock, faults>>

---------------------------------------------------------------------------
(* updateStatus and setUserProviderStatus *)
Decide(j, a, status) ==
  /\ Free(j)
  /\ applications' = [applications EXCEPT ![a].status = status]
  /\ Become(j, [op |-> "decision.status", user |-> applications[a].user, status |-> status])
  /\ UNCHANGED <<applicants, own, clock, faults>>

AfterStatus(status) == IF status = "approved" THEN "decision.role" ELSE "none"

SetProviderStatus(j) ==
  /\ job[j].op = "decision.status"
  /\ Sets(job[j].user, "providerStatus", job[j].status)
  /\ IF AfterStatus(job[j].status) = "none"
     THEN Finish(j)
     ELSE Become(j, [op |-> AfterStatus(job[j].status), user |-> job[j].user])
  /\ UNCHANGED <<applications, clock, faults>>

SetRole(j) ==
  /\ job[j].op = "decision.role"
  /\ Sets(job[j].user, "role", "provider")
  /\ Finish(j)
  /\ UNCHANGED <<applications, clock, faults>>

---------------------------------------------------------------------------
(* updateMe and updateUser: the body is untyped and all of it but the       *)
(* notification preferences is written, in one update.                      *)
UpdateMe(u, doc) ==
  /\ applicants' = [applicants EXCEPT ![u] = doc]
  /\ own' = [own EXCEPT ![u] = @ \cup {f \in DOMAIN doc : doc[f] # applicants[u][f]}]
  /\ UNCHANGED <<applications, job, clock, faults>>

---------------------------------------------------------------------------
ApplicationStep(j) ==
  \/ ApplyCheck(j) \/ ApplyInsert(j) \/ SetProviderStatus(j) \/ SetRole(j)

ApplicationCall(j) ==
  \/ \E u \in Applicants : ApplyLoad(j, u)
  \/ \E a \in Filed, status \in ApplicationStatus : Decide(j, a, status)

ApplicationsInit ==
  /\ applications = <<>>
  /\ applicants = [u \in Applicants |-> [role |-> "customer", providerStatus |-> "none"]]
  /\ own = [u \in Applicants |-> {}]

(* The service alone, as Services_proofs takes it; MCServices composes  *)
(* the same calls and steps with those of the other services.               *)
ApplicationsNext ==
  \/ \E j \in Jobs : ApplicationCall(j) \/ ApplicationStep(j)
  \/ \E u \in Applicants, doc \in ApplicantDoc : UpdateMe(u, doc)
  \/ \E j \in Jobs : ~Free(j) /\ Abort(j) /\ UNCHANGED <<applications, applicants, own>>
  \/ Crash /\ UNCHANGED <<applications, applicants, own>>

ApplicationsSpec ==
  BackendInit /\ ApplicationsInit /\ [][ApplicationsNext]_applicationVars

ApplicationsTypeOK ==
  /\ applications \in Seq([user : Applicants, status : ApplicationStatus])
  /\ applicants \in [Applicants -> ApplicantDoc]
  /\ own \in [Applicants -> SUBSET {"role", "providerStatus"}]

---------------------------------------------------------------------------
(* At rest, whatever handlers overlapped, an approved application has made  *)
(* its author a provider, and somebody without application is none.  Only a *)
(* failure between the three writes of updateStatus                         *)
(* (provider-applications.service.ts:101-115), or the user's own hand       *)
(* (users.service.ts:90-110), parts the two, and the latter for the field   *)
(* it changed and until the service writes that field again.                *)
ApprovedIsProvider ==
  faults = 0 /\ (\A j \in Jobs : Free(j)) =>
    \A u \in Applicants :
      LET filed == {a \in Filed : applications[a].user = u}
      IN /\ (\E a \in filed : applications[a].status = "approved") =>
              applicants[u].role = "provider" \/ "role" \in own[u]
         /\ "providerStatus" \notin own[u] =>
              (filed = {} <=> applicants[u].providerStatus = "none")
==============================================================================
