------------------------------ MODULE Catalogue ------------------------------
(****************************************************************************)
(* The services providers offer: provider-services.service.ts.  A change    *)
(* loads the service, checks owner and prices on what it loaded, and sends  *)
(* the fields it changed in a later call that checks nothing.               *)
(****************************************************************************)
EXTENDS Backend, FiniteSets

(* Offers are the document ids, Withdrawn stands for a deleted one.  Prices *)
(* bounds the prices, Nothing is an absent one.                             *)
CONSTANTS Offers, Withdrawn, Prices, Nothing

ASSUME CatalogueAssumption == Prices \subseteq Nat /\ Nothing \notin Nat

VARIABLE offers

catalogueVars == <<offers, job, clock, faults>>

ServiceStatus == {"draft", "active", "inactive"}

(* Hourly prices are checked as fixed ones are.  Title, texts and counters  *)
(* are left out: no operation reads them.                                   *)
PricingType == {"fixed", "range", "negotiable"}

Pricing ==
  [pricingType : PricingType, basePrice : Prices \cup {Nothing},
   minPrice : Prices \cup {Nothing}, maxPrice : Prices \cup {Nothing}]

Offered == {o \in Offers : offers[o] \notin {None, Withdrawn}}

---------------------------------------------------------------------------
(* Slips: operators of the code below as a plausible error would have them. *)
Itself(pricing, changes) == pricing

---------------------------------------------------------------------------
(* validatePricing *)
Priced(pricing) ==
  \/ pricing.pricingType = "fixed" /\ pricing.basePrice # Nothing
  \/ /\ pricing.pricingType = "range"
     /\ pricing.minPrice # Nothing /\ pricing.maxPrice # Nothing
     /\ pricing.minPrice <= pricing.maxPrice
  \/ pricing.pricingType = "negotiable"

(* Object.assign: the changes over the loaded document.                     *)
Changed(doc, changes) ==
  [f \in DOMAIN doc |-> IF f \in DOMAIN changes THEN changes[f] ELSE doc[f]]

(* What update puts before validatePricing.                                 *)
Candidate(pricing, changes) == Changed(pricing, changes)

CreateOffer(o, p, pricing, status) ==
  /\ offers[o] = None
  /\ Priced(pricing)
  /\ offers' = [offers EXCEPT ![o] = [provider |-> p, status |-> status, pricing |-> pricing]]
  /\ UNCHANGED <<job, clock, faults>>

(* findById and the check of the owner. *)
OfferLoad(j, o, p, step) ==
  /\ Free(j)
  /\ o \in Offered /\ offers[o].provider = p
  /\ Become(j, step)
  /\ UNCHANGED <<offers, clock, faults>>

Sent(doc, changes) ==
  [f \in {g \in DOMAIN changes : changes[g] # doc[g]} |-> changes[f]]

UpdateOffer(j, o, p, changes) ==
  /\ OfferLoad(j, o, p,
       [op |-> "offer.save", id |-> o, sends |-> Sent(offers[o].pricing, changes)])
  /\ Priced(Candidate(offers[o].pricing, changes))

UpdateStatus(j, o, p, status) ==
  OfferLoad(j, o, p, [op |-> "offer.status", id |-> o, status |-> status])

DeleteOffer(j, o, p) == OfferLoad(j, o, p, [op |-> "offer.delete", id |-> o])

(* A save finds nothing once the service is deleted. *)
SaveOffer(j) ==
  /\ job[j].op \in {"offer.save", "offer.status"}
  /\ LET o == job[j].id
     IN IF o \notin Offered THEN UNCHANGED offers
        ELSE LET doc == offers[o]
             IN offers' = [offers EXCEPT ![o] =
                  IF job[j].op = "offer.save"
                  THEN [doc EXCEPT !.pricing = Changed(doc.pricing, job[j].sends)]
                  ELSE [doc EXCEPT !.status = job[j].status]]
  /\ Finish(j)
  /\ UNCHANGED <<clock, faults>>

Withdraw(j) ==
  /\ job[j].op = "offer.delete"
  /\ offers' = [offers EXCEPT ![job[j].id] = Withdrawn]
  /\ Finish(j)
  /\ UNCHANGED <<clock, faults>>

---------------------------------------------------------------------------
CatalogueStep(j) == SaveOffer(j) \/ Withdraw(j)

(* The form sends all four fields, other clients any of them. *)
Changes ==
  { [f \in fields |-> IF f = "pricingType" THEN type ELSE price[f]] :
      fields \in SUBSET {"pricingType", "basePrice", "minPrice", "maxPrice"},
      type \in PricingType, price \in [{"basePrice", "minPrice", "maxPrice"} -> Prices] }

CatalogueCall(j) ==
  \E o \in Offered, p \in Providers :
    \/ \E changes \in Changes : UpdateOffer(j, o, p, changes)
    \/ \E status \in ServiceStatus : UpdateStatus(j, o, p, status)
    \/ DeleteOffer(j, o, p)

CatalogueInit == offers = [o \in Offers |-> None]

CatalogueTypeOK ==
  offers \in [Offers -> [provider : Providers, status : ServiceStatus, pricing : Pricing]
                        \cup {None, Withdrawn}]
==============================================================================
