-------------------------------- MODULE Offers ---------------------------------
(****************************************************************************)
(* The buttons a page offers for the copy of a document it has loaded, and  *)
(* what the server, whose document may have changed since, makes of them.   *)
(* The copy is loaded when the page opens and again when a press succeeded; *)
(* nothing tells the page of a change elsewhere.  The review of an order    *)
(* comes with a call of its own, after the order is on the screen, and the  *)
(* pages may be there before checkAuth has said who looks at them.          *)
(*                                                                          *)
(* done is, of an order, that it has been rated; of a request, that the     *)
(* viewer has applied.                                                      *)
(****************************************************************************)
EXTENDS Backend

(* page and viewer: who looks at what.  doc is the server's document, seen  *)
(* the page's copy, shown whether it is on the screen.  fresh: nothing has  *)
(* changed elsewhere since seen was read; known: the auth store holds the   *)
(* viewer; asking: the review of the order is being loaded; blind: it could *)
(* not be.                                                                  *)
VARIABLE offer

offerVars == <<offer, job, clock, faults>>

Viewers == [order |-> {"customer", "provider"}, invoice |-> {"provider"},
            request |-> {"provider"}, applicants |-> {"customer"}, service |-> {"provider"}]

Beginnings ==
  [order |-> {"assigned"}, invoice |-> {"draft"}, request |-> {"open", "pending"},
   applicants |-> {"pending"}, service |-> {"draft", "active", "inactive"}]

If(condition, buttons) == IF condition THEN buttons ELSE {}

---------------------------------------------------------------------------
(* Slips: operators of the code below as a plausible error would have them. *)
RatesAgain(viewer, seen) == seen.status = "completed" /\ viewer = "customer"

---------------------------------------------------------------------------
(* What the pages offer whom they take the viewer for.  The order card      *)
(* takes whoever is not the customer for the provider, and does not wait    *)
(* for the review.                                                          *)
Taken(o) == IF o.known THEN o.viewer ELSE "nobody"

CanStartProgress(viewer, seen) == seen.status = "assigned" /\ viewer # "customer"
CanRequestCompletion(viewer, seen) == seen.status = "in_progress" /\ viewer # "customer"
CanApproveOrDecline(viewer, seen) == seen.status = "pending_completion" /\ viewer = "customer"
CanRate(viewer, seen) == seen.status = "completed" /\ viewer = "customer" /\ ~seen.done

CardOffers(viewer, seen) ==
       If(CanStartProgress(viewer, seen), {"start"})
  \cup If(CanRequestCompletion(viewer, seen), {"complete"})
  \cup If(CanApproveOrDecline(viewer, seen), {"approve", "decline"})
  \cup If(CanRate(viewer, seen), {"rate"})

InvoiceOffers(seen) ==
       If(seen.status = "draft", {"send", "delete"})
  \cup If(seen.status \in {"sent", "overdue"}, {"cancel"})

RequestOffers(viewer, seen) ==
  If(seen.status = "open" /\ ~(viewer # "nobody" /\ seen.done), {"apply"})

ApplicantOffers(seen) == If(seen.status \notin {"accepted", "completed", "closed"}, {"accept"})

ServiceOffers(seen) == {IF seen.status = "active" THEN "deactivate" ELSE "activate", "withdraw"}

Offered(page, viewer, seen) ==
  CASE page = "order"      -> CardOffers(viewer, seen)
    [] page = "invoice"    -> InvoiceOffers(seen)
    [] page = "request"    -> RequestOffers(viewer, seen)
    [] page = "applicants" -> ApplicantOffers(seen)
    [] page = "service"    -> ServiceOffers(seen)

---------------------------------------------------------------------------
(* What the services accept of a viewer (module OrderService and its like), *)
(* a review once for an order.  The check that the provider of an invoice   *)
(* cancels or removes it never passes (module InvoiceService).              *)
OrderAccepts(viewer, doc) ==
       If(viewer = "provider" /\ doc.status = "assigned", {"start"})
  \cup If(viewer = "provider" /\ doc.status = "in_progress", {"complete"})
  \cup If(viewer = "customer" /\ doc.status = "pending_completion", {"approve", "decline"})
  \cup If(viewer = "customer" /\ doc.status \notin {"completed", "canceled"}, {"abandon"})
  \cup If(viewer = "customer" /\ ~doc.done, {"rate"})

InvoiceAccepts(doc) ==
  If(doc.status # "gone", {"send"}) \cup If(doc.status \notin {"paid", "gone"}, {"pay"})

RequestAccepts(doc) ==
  If(doc.status \in {"open", "pending"} /\ ~doc.done, {"apply"})

ApplicantAccepts(doc) == If(doc.status = "pending", {"accept"})

ServiceAccepts(doc) == If(doc.status # "gone", {"activate", "deactivate", "withdraw"})

Accepted(page, viewer, doc) ==
  CASE page = "order"      -> OrderAccepts(viewer, doc)
    [] page = "invoice"    -> InvoiceAccepts(doc)
    [] page = "request"    -> RequestAccepts(doc)
    [] page = "applicants" -> ApplicantAccepts(doc)
    [] page = "service"    -> ServiceAccepts(doc)

After ==
  [start |-> "in_progress", complete |-> "pending_completion", approve |-> "completed",
   decline |-> "in_progress", abandon |-> "canceled", send |-> "sent", pay |-> "paid",
   accept |-> "accepted", activate |-> "active", deactivate |-> "inactive", withdraw |-> "gone"]

Outcome(doc, button) ==
  CASE button = "rate"  -> [doc EXCEPT !.done = TRUE]
    [] button = "apply" -> [status |-> "pending", done |-> TRUE]
    [] OTHER -> [doc EXCEPT !.status = After[button]]

(* What others do to the document: the other party or a second page of the  *)
(* viewer, other providers, the listeners, the sweeps, an admin.            *)
Elsewhere(page, doc) ==
  {Outcome(doc, b) : b \in UNION {Accepted(page, viewer, doc) : viewer \in {"customer", "provider"}}}
  \cup {[doc EXCEPT !.status = status] : status \in
          CASE page = "order" /\ doc.status = "pending_completion"     -> {"completed"}
            [] page = "request" /\ doc.status \in {"open", "pending"}  -> {"pending", "accepted", "closed"}
            [] page = "applicants" /\ doc.status = "pending"           -> {"closed"}
            [] page \in {"request", "applicants"} /\ doc.status = "accepted" -> {"completed"}
            [] page = "invoice" /\ doc.status # "gone" -> {"overdue", "canceled", "gone"}
            [] OTHER -> {}}

---------------------------------------------------------------------------
(* The order card asks for the review once the order is completed and the   *)
(* customer is known to be the one who looks; a card drawn anew has none.   *)
Asks(o) ==
  o.page = "order" /\ o.seen.status = "completed" /\ Taken(o) = "customer"

Copied(o) ==
  LET copy == [o EXCEPT !.seen = [o.doc EXCEPT !.done = @ /\ o.page # "order"],
                        !.shown = o.doc.status # "gone", !.fresh = TRUE, !.blind = FALSE]
  IN [copy EXCEPT !.asking = Asks(copy)]

OffersInit ==
  /\ BackendInit
  /\ \E page \in DOMAIN Viewers :
       \E viewer \in Viewers[page], status \in Beginnings[page] :
         LET doc == [status |-> status, done |-> FALSE]
         IN offer = [page |-> page, viewer |-> viewer, doc |-> doc, seen |-> doc,
                     shown |-> FALSE, fresh |-> FALSE, known |-> FALSE, asking |-> FALSE,
                     blind |-> FALSE, pressed |-> "none"]

(* loadOrder and its like. *)
LoadCopy ==
  /\ offer.pressed = "none"
  /\ offer' = Copied(offer)
  /\ UNCHANGED <<job, clock, faults>>

(* checkAuth has ended: the card is drawn again for the user it found.      *)
KnowViewer ==
  /\ ~offer.known
  /\ LET met == [offer EXCEPT !.known = TRUE]
     IN offer' = [met EXCEPT !.asking = offer.shown /\ Asks(met)]
  /\ UNCHANGED <<job, clock, faults>>

(* loadExistingReview *)
ReviewAnswer ==
  /\ offer.asking
  /\ offer' = [offer EXCEPT !.seen = [@ EXCEPT !.done = offer.doc.done], !.asking = FALSE]
  /\ UNCHANGED <<job, clock, faults>>

ReviewFails ==
  /\ offer.asking
  /\ offer' = [offer EXCEPT !.asking = FALSE, !.blind = TRUE]
  /\ Faulty
  /\ UNCHANGED <<job, clock>>

ChangeElsewhere ==
  /\ \E doc \in Elsewhere(offer.page, offer.doc) \ {offer.doc} :
       offer' = [offer EXCEPT !.doc = doc, !.fresh = FALSE]
  /\ UNCHANGED <<job, clock, faults>>

(* Buttons are disabled while a press is under way.                         *)
PressButton(button) ==
  /\ offer.shown /\ offer.pressed = "none"
  /\ button \in Offered(offer.page, Taken(offer), offer.seen)
  /\ offer' = [offer EXCEPT !.pressed = button]
  /\ UNCHANGED <<job, clock, faults>>

(* The applicants page changes its copy itself, the others load it anew,    *)
(* the page of a request without taking the old one off the screen.         *)
Approved(seen) == [seen EXCEPT !.status = "accepted"]

ServePress ==
  /\ offer.pressed \in Accepted(offer.page, offer.viewer, offer.doc)
  /\ LET served == [offer EXCEPT !.doc = Outcome(@, offer.pressed), !.pressed = "none"]
     IN offer' = IF offer.page = "applicants"
                 THEN [served EXCEPT !.seen = Approved(@), !.fresh = TRUE]
                 ELSE [served EXCEPT !.shown = FALSE, !.asking = FALSE]
  /\ UNCHANGED <<job, clock, faults>>

RefusePress ==
  /\ offer.pressed # "none"
  /\ offer.pressed \notin Accepted(offer.page, offer.viewer, offer.doc)
  /\ offer' = [offer EXCEPT !.pressed = "none"]
  /\ UNCHANGED <<job, clock, faults>>

(* The answer of a press that was served is lost, or the load after it: the *)
(* page is left with its copy.                                              *)
LosePress ==
  /\ offer.pressed \in Accepted(offer.page, offer.viewer, offer.doc)
  /\ offer' = [offer EXCEPT !.doc = Outcome(@, offer.pressed), !.pressed = "none",
                            !.fresh = FALSE]
  /\ Faulty
  /\ UNCHANGED <<job, clock>>

OffersNext ==
  \/ LoadCopy \/ KnowViewer \/ ReviewAnswer \/ ReviewFails
  \/ ChangeElsewhere \/ ServePress \/ RefusePress \/ LosePress
  \/ \E button \in DOMAIN After \cup {"rate", "apply", "delete", "cancel"} : PressButton(button)

OffersSpec == OffersInit /\ [][OffersNext]_offerVars

---------------------------------------------------------------------------
(* A button offered for a document that has not changed since works, except *)
(* the provider's to cancel or delete an invoice; those of the provider on  *)
(* an order, until it is known who looks; and the one to rate an order,     *)
(* until its review has arrived, or when it could not be loaded (the        *)
(* conditions in the pages against the checks of the services).             *)
ButtonsWork ==
  (offer.shown /\ offer.fresh) =>
    \A b \in Offered(offer.page, Taken(offer), offer.seen)
            \ Accepted(offer.page, offer.viewer, offer.doc) :
      \/ offer.page = "invoice" /\ b \in {"cancel", "delete"}
      \/ offer.page = "order" /\ ~offer.known /\ b \in {"start", "complete"}
      \/ (offer.asking \/ offer.blind) /\ b = "rate"
================================================================================
