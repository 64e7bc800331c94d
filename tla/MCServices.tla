------------------------------ MODULE MCServices ------------------------------
(* Small instances of the services that do not interact: part picks one of  *)
(* them for a behaviour.  raced remembers whether two handlers were ever in *)
(* flight at once; edited the providers of whom a review was changed or     *)
(* deleted, or who wrote over their rating, since they were last rated.     *)
EXTENDS Session, Applications, Reputation, Catalogue, TLC

CONSTANTS p1, p2

ASSUME MCServicesAssumption == p1 \in Providers /\ {1, 2} \subseteq Prices

VARIABLES part, raced, edited

MCBooked == <<p1, p1, p2>>
MCOwnRatings == {[average |-> 50, total |-> 9]}

account == <<accountVars, browser>>
idleAccount == <<accounts, tokens, letters, browser>>
idleApplications == <<applications, applicants, own>>
idleReputation == <<reviews, comments, reputations>>
mcVars == <<account, idleApplications, idleReputation, offers, part, raced, edited>>

MCPricings ==
  { [pricingType |-> "fixed", basePrice |-> 1, minPrice |-> Nothing, maxPrice |-> Nothing],
    [pricingType |-> "range", basePrice |-> Nothing, minPrice |-> 1, maxPrice |-> 2],
    [pricingType |-> "range", basePrice |-> Nothing, minPrice |-> 2, maxPrice |-> 1] }

InAccount ==
  /\ part = "account" /\ {3, 4} \subseteq Fresh'
  /\ UNCHANGED <<idleApplications, idleReputation, offers, browser, part, raced, edited>>
InSession ==
  /\ part = "session"
  /\ UNCHANGED <<idleApplications, idleReputation, offers, part, raced, edited>>
Race == raced' = (raced \/ \E j, k \in Jobs : j # k /\ job'[j] # Idle /\ job'[k] # Idle)
InApplications ==
  /\ part = "applications"
  /\ UNCHANGED <<idleAccount, idleReputation, offers, part, edited>> /\ Race
InReputation ==
  /\ part = "reputation"
  /\ UNCHANGED <<idleAccount, idleApplications, offers, part>> /\ Race
InCatalogue ==
  /\ part = "catalogue"
  /\ UNCHANGED <<idleAccount, idleApplications, idleReputation, part, edited>> /\ Race

MCInit ==
  /\ AccountInit /\ SessionInit /\ ApplicationsInit /\ ReputationInit /\ CatalogueInit
  /\ raced = FALSE /\ edited = {}
  /\ part \in {"account", "session", "applications", "reputation", "catalogue"}

(* An abort of a catalogue handler, which writes once, is a call that never *)
(* came.                                                                    *)
MCNext ==
  \/ AccountNext /\ InAccount
  \/ SessionNext /\ InSession
  \/ \E j \in Jobs : ApplicationCall(j) /\ InApplications
  \/ \E j \in Jobs : ApplicationStep(j) /\ InApplications
  \/ \E u \in Applicants, doc \in ApplicantDoc : UpdateMe(u, doc) /\ InApplications
  \/ \E j \in Jobs : ReputationCall(j) /\ UNCHANGED edited /\ InReputation
  \/ \E j \in Jobs : ReputationStep(j) /\ InReputation
       /\ edited' = IF job[j].op = "review.rate" THEN edited \ {job[j].provider}
                    ELSE edited \cup {p \in Providers : Reputed(p) # Reputed(p)' /\ job[j].op # "review.rate"}
  \/ \E p \in Providers, rating \in OwnRatings :
       UpdateMyRating(p, rating) /\ edited' = edited \cup {p} /\ InReputation
  \/ \E i \in Reviews : AddComment(i) /\ UNCHANGED edited /\ InReputation
  \/ \E o \in Offers, pricing \in MCPricings, status \in ServiceStatus :
       CreateOffer(o, p1, pricing, status) /\ InCatalogue
  \/ \E j \in Jobs : CatalogueCall(j) /\ InCatalogue
  \/ \E j \in Jobs : CatalogueStep(j) /\ InCatalogue
  \/ \E j \in Jobs : /\ job[j] # Idle /\ part \in {"applications", "reputation"}
                     /\ Abort(j)
                     /\ UNCHANGED <<idleAccount, idleApplications, idleReputation, offers, part, raced, edited>>

Symmetry == Permutations(Jobs)

MCSpec == MCInit /\ [][MCNext]_mcVars

AtRest == faults = 0 /\ \A j \in Jobs : Free(j)

(* What the services store fits their Mongoose schemas, and what the        *)
(* browser stores is a session (Account, Session, Applications, Reputation, *)
(* Catalogue).                                                              *)
ServicesTypeOK ==
  /\ AccountTypeOK /\ StoreTypeOK /\ ApplicationsTypeOK /\ ReputationTypeOK /\ CatalogueTypeOK

(* A provider whose reviews nobody edited, and who did not write over the   *)
(* rating, is rated by all of them, once the handlers that inserted them,   *)
(* one at a time, are done, and the next review makes up for both           *)
(* (updateProviderRating, reviews.service.ts:72-109).                       *)
RatedByAll ==
  AtRest /\ ~raced => \A p \in Providers \ edited : reputations[p] = Reputed(p)

(* Changes made one at a time leave every stored service with prices that   *)
(* validatePricing accepts, though each sends only some of the fields.      *)
PricedRight ==
  ~raced => \A o \in Offered : Priced(offers[o].pricing)
==============================================================================
