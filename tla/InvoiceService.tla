---------------------------- MODULE InvoiceService ----------------------------
(****************************************************************************)
(* Invoices and quotes: invoices.service.ts.  Every operation but creation  *)
(* goes through findOne, which loads the document and checks that the user  *)
(* may see it; the operation then checks and assigns fields, and save()     *)
(* sends the fields whose value differs from the loaded one, in a later     *)
(* database call that checks nothing.  Numbers are read and inserted in     *)
(* separate calls, under a unique index.                                    *)
(****************************************************************************)
EXTENDS Backend, InvoiceTotals

(* Parties[o] names the customer and the provider of order o.  Invoices are *)
(* document ids, in the order of insertion; Gone stands for a deleted one.  *)
(* Drafts, Edits, Addressees, StatusInputs and Dtos bound what callers      *)
(* send: the line items of a creation, those of an update, the customer of  *)
(* a quote without order (None: an outsider), the status of a creation, the *)
(* bodies of an update.  MaxAttempts is maxAttempts, the tries to get a     *)
(* number.                                                                  *)
CONSTANTS Orders, Parties, Admin, Invoices, Gone, Drafts, Edits, Addressees,
          StatusInputs, Dtos, MaxAttempts

InvoiceStatus == {"draft", "sent", "accepted", "rejected", "expired", "paid",
                  "overdue", "canceled", "refunded"}

ASSUME InvoiceAssumption ==
  /\ Parties \in [Orders -> [customer : Customers, provider : Providers]]
  /\ Invoices \subseteq Nat
  /\ StatusInputs \subseteq InvoiceStatus
  /\ Addressees \subseteq Customers \cup {None}
  /\ MaxAttempts \in Nat \ {0}
  /\ IsFiniteSet(Jobs) /\ IsFiniteSet(Invoices)

AmountFields == {"subtotal", "taxAmount", "discountAmount", "totalAmount"}

ASSUME LinesAssumption == Drafts \cup Edits \subseteq Seq(LineItem)

(* UpdateInvoiceDto: every field of a creation and the status, the payment  *)
(* and the link of a conversion, all optional.  orderId and customerId are  *)
(* any ids, checked against nothing; null clears them.                      *)
DtoFields ==
  [status |-> InvoiceStatus, type |-> {"quote", "invoice"}, order |-> Orders \cup {None},
   customer |-> Customers \cup {None}, converted |-> Invoices \cup {None}, lines |-> Edits,
   payment |-> {"given"}]

ASSUME DtoAssumption ==
  \A dto \in Dtos :
    /\ DOMAIN dto \subseteq DOMAIN DtoFields
    /\ \A f \in DOMAIN dto : dto[f] \in DtoFields[f]

(* rewritten records the documents whose type, parties or link an update    *)
(* set out to replace; no operation reads it.                               *)
VARIABLES invoices, rewritten

invoiceVars == <<invoices, rewritten, job, clock, faults>>

Billers == Providers \cup {Admin}
Users == Customers \cup Billers

(* The prefix of an invoice number tells its series, which is the type the  *)
(* document was created with; the type itself can be changed later.         *)
(* Addresses, notes, the payment method and the dates an operation stamps   *)
(* (sentAt, acceptedDate, paidDate) are left out: no operation reads them.  *)
InvoiceDoc ==
  [series : {"quote", "invoice"}, number : Nat, type : {"quote", "invoice"},
   order : Orders \cup {None},
   customer : Customers \cup {None}, provider : Billers, status : InvoiceStatus,
   converted : Invoices \cup {None}, lines : Drafts \cup Edits, subtotal : Int,
   taxAmount : Int, discountAmount : Int, totalAmount : Int]

(* What the books show of it.                                               *)
BookView ==
  [series : {"quote", "invoice"}, number : Nat, type : {"quote", "invoice"},
   order : Orders \cup {None}, customer : Customers \cup {None}, provider : Billers,
   status : InvoiceStatus, converted : Invoices \cup {None}]

ASSUME NullIsNoInvoice ==
  /\ None \notin InvoiceDoc \cup BookView
  /\ Gone \notin InvoiceDoc \cup BookView \cup {None}

Stored == {i \in Invoices : invoices[i] \notin {None, Gone}}
Unused == {i \in Invoices : invoices[i] = None}
Put(i, doc) == invoices' = [invoices EXCEPT ![i] = doc]

---------------------------------------------------------------------------
(* Slips: operators of the code below as a plausible error would have them. *)
HighestOfAny(type) ==
  IF Stored = {} THEN 0 ELSE Max({invoices[i].number : i \in Stored})
AnyQuote(i) == invoices[i].type = "quote" /\ invoices[i].converted = None
KeepsNumber(j) ==
  /\ job[j].op = "invoice.insert"
  /\ \E i \in Stored : invoices[i].number = job[j].doc.number
                       /\ invoices[i].series = job[j].doc.series
  /\ UNCHANGED invoiceVars
LinkToItself(quote, i) ==
  [op |-> "invoice.link", id |-> quote, sends |-> [converted |-> quote]]
Replaced(doc, changes) == changes

---------------------------------------------------------------------------
(* The roles @Roles admits to the routes that write.                        *)
MayCall(user, op) ==
  CASE op \in {"create", "update", "cancel", "remove", "convert"} -> user \in Billers
    [] op \in {"accept", "reject"} -> user \in Customers \cup {Admin}
    [] op = "pay" -> user \in Users

(* findOne and findByInvoiceNumber: the parties and admins see a document.  *)
CanSee(user, i) == user \in {Admin, invoices[i].customer, invoices[i].provider}

(* findOne populates providerId.  update and convert read its _id; cancel   *)
(* and remove compare what toString() makes of the populated document,      *)
(* which is its text, with the user's id.                                   *)
PopulatedAsText(party) == [document |-> party]
IsProvider(user, i) == invoices[i].provider = user \/ user = Admin
TextIsProvider(user, i) == PopulatedAsText(invoices[i].provider) = user \/ user = Admin

Updated(doc, changes) ==
  [f \in DOMAIN doc |-> IF f \in DOMAIN changes THEN changes[f] ELSE doc[f]]

(* save() sends a field only if its value differs from the loaded one.      *)
Modified(doc, changes) ==
  [f \in {g \in DOMAIN changes \cap DOMAIN doc : changes[g] # doc[g]} |-> changes[f]]

Series(type) == {i \in Stored : invoices[i].series = type}

(* The documents of a type whose numbers have the prefix of the type.       *)
Numbered(type) == {i \in Series(type) : invoices[i].type = type}
Highest(type) ==
  IF Numbered(type) = {} THEN 0 ELSE Max({invoices[i].number : i \in Numbered(type)})

---------------------------------------------------------------------------
Numbering(doc, quote) ==
  [op |-> "invoice.number", doc |-> doc, quote |-> quote, attempts |-> 0]

Draft(type, o, c, p, status, lines) ==
  [series |-> type, number |-> 0, type |-> type, order |-> o, customer |-> c, provider |-> p,
   status |-> status, converted |-> None, lines |-> lines,
   subtotal |-> Totals(lines).subtotal, taxAmount |-> Totals(lines).taxAmount,
   discountAmount |-> Totals(lines).discountAmount, totalAmount |-> Totals(lines).totalAmount]

(* The ids left for the numberings in flight: a bound of the model.         *)
Room == Cardinality({j \in Jobs : job[j].op \in {"invoice.number", "invoice.insert"}})
          < Cardinality(Unused)

(* create: for an order, its provider only and one invoice per order; a     *)
(* quote may go without order, and without customer.                        *)
CreateLoad(j, user, type, o, c, status, lines) ==
  /\ Free(j)
  /\ Room
  /\ MayCall(user, "create")
  /\ type = "invoice" => o # None
  /\ o # None => /\ Parties[o].provider = user
                 /\ type = "invoice" =>
                      \A i \in Stored : ~(invoices[i].order = o /\ invoices[i].type = "invoice")
  /\ LET customer == IF o # None THEN Parties[o].customer ELSE c
     IN Become(j, Numbering(Draft(type, o, customer, user, status, lines), None))
  /\ UNCHANGED <<invoices, rewritten, clock, faults>>

(* generateInvoiceNumber reads the highest number of the type.              *)
ReadNumber(j) ==
  /\ job[j].op = "invoice.number"
  /\ Become(j, [job[j] EXCEPT !.op = "invoice.insert",
                              !.doc.number = Highest(job[j].doc.type) + 1])
  /\ UNCHANGED <<invoices, rewritten, clock, faults>>

Taken(doc) == \E i \in Series(doc.series) : invoices[i].number = doc.number

Link(quote, i) == [op |-> "invoice.link", id |-> quote, sends |-> [converted |-> i]]

InsertInvoice(j) ==
  /\ job[j].op = "invoice.insert"
  /\ ~Taken(job[j].doc)
  /\ Put(Min(Unused), job[j].doc)
  /\ IF job[j].quote = None THEN Finish(j) ELSE Become(j, Link(job[j].quote, Min(Unused)))
  /\ UNCHANGED <<rewritten, clock, faults>>

(* The unique index refuses the insert: create reads the number again until *)
(* it has tried MaxAttempts times, a conversion fails at once.              *)
NumberTaken(j) ==
  /\ job[j].op = "invoice.insert"
  /\ Taken(job[j].doc)
  /\ IF job[j].quote # None \/ job[j].attempts + 1 >= MaxAttempts
     THEN Finish(j)
     ELSE Become(j, [job[j] EXCEPT !.op = "invoice.number", !.attempts = @ + 1])
  /\ UNCHANGED <<invoices, rewritten, clock, faults>>

---------------------------------------------------------------------------
(* The operations on a stored document, up to their save.                   *)
Called(j, user, i, op) ==
  /\ Free(j)
  /\ i \in Stored
  /\ MayCall(user, op) /\ CanSee(user, i)
  /\ UNCHANGED <<invoices, clock, faults>>

Send(j, i, sends) == Become(j, [op |-> "invoice.save", id |-> i, sends |-> sends])

Assign(j, i, changes) ==
  Send(j, i, Modified(invoices[i], changes)) /\ UNCHANGED rewritten

Retotaled(dto) ==
  [f \in DOMAIN dto \cup AmountFields |->
     IF f \in DOMAIN dto THEN dto[f] ELSE Totals(dto.lines)[f]]

Rewrites(sends) ==
  \/ DOMAIN sends \cap {"type", "order", "customer"} # {}
  \/ "converted" \in DOMAIN sends /\ sends.converted # None

Unlinking(sends) ==
  [f \in DOMAIN sends \cup {"converted"} |-> IF f = "converted" THEN None ELSE sends[f]]

(* update: outside a draft only together with a status or a payment; new    *)
(* lines bring new totals.  Object.assign writes whatever the DTO holds.    *)
(* Compiled for ES2022, as tsconfig.json has it, UpdateInvoiceDto defines   *)
(* its own fields, and one the body leaves out is assigned undefined: the   *)
(* link is unset, and without a status the save fails its validation and    *)
(* writes nothing.  Compiled without, what is left out stays as it is.      *)
(* Either is a step here.                                                   *)
UpdateLoad(j, user, i, dto) ==
  /\ Called(j, user, i, "update")
  /\ invoices[i].status = "draft" \/ DOMAIN dto \cap {"status", "payment"} # {}
  /\ IsProvider(user, i)
  /\ LET changes == IF "lines" \in DOMAIN dto THEN Retotaled(dto) ELSE dto
         sends == Modified(invoices[i], changes)
     IN /\ \/ Send(j, i, sends)
           \/ /\ "status" \in DOMAIN dto /\ "converted" \notin DOMAIN dto
              /\ Send(j, i, Unlinking(sends))
        /\ rewritten' = IF Rewrites(sends) THEN rewritten \cup {i} ELSE rewritten

PayLoad(j, user, i) ==
  /\ Called(j, user, i, "pay")
  /\ invoices[i].status # "paid"
  /\ Assign(j, i, [status |-> "paid"])

CancelLoad(j, user, i) ==
  /\ Called(j, user, i, "cancel")
  /\ invoices[i].status # "paid"
  /\ TextIsProvider(user, i)
  /\ Assign(j, i, [status |-> "canceled"])

RemoveLoad(j, user, i) ==
  /\ Called(j, user, i, "remove")
  /\ invoices[i].status = "draft"
  /\ TextIsProvider(user, i)
  /\ Become(j, [op |-> "invoice.delete", id |-> i])
  /\ UNCHANGED rewritten

Convertible(i) ==
  /\ invoices[i].type = "quote"
  /\ invoices[i].status = "accepted"
  /\ invoices[i].converted = None

ConvertLoad(j, user, i) ==
  /\ Called(j, user, i, "convert")
  /\ Room
  /\ Convertible(i)
  /\ IsProvider(user, i)
  /\ LET q == invoices[i]
     IN Become(j, Numbering(
          Updated(Draft("invoice", q.order, q.customer, q.provider, "draft", q.lines),
                  [f \in AmountFields |-> q[f]]), i))
  /\ UNCHANGED rewritten

(* acceptQuote and rejectQuote fail on a quote without customer.            *)
Answerable(user, i) ==
  /\ invoices[i].type = "quote"
  /\ invoices[i].status \notin {"accepted", "rejected"}
  /\ invoices[i].customer # None
  /\ user \in {invoices[i].customer, Admin}

AcceptLoad(j, user, i) ==
  /\ Called(j, user, i, "accept")
  /\ Answerable(user, i)
  /\ Assign(j, i, [status |-> "accepted"])

RejectLoad(j, user, i) ==
  /\ Called(j, user, i, "reject")
  /\ Answerable(user, i)
  /\ Assign(j, i, [status |-> "rejected"])

(* The save of a document deleted meanwhile matches nothing and throws.     *)
SaveInvoice(j) ==
  /\ job[j].op \in {"invoice.save", "invoice.link"}
  /\ IF job[j].id \in Stored
     THEN Put(job[j].id, Updated(invoices[job[j].id], job[j].sends))
     ELSE UNCHANGED invoices
  /\ Finish(j)
  /\ UNCHANGED <<rewritten, clock, faults>>

DeleteInvoice(j) ==
  /\ job[j].op = "invoice.delete"
  /\ Put(job[j].id, Gone)
  /\ Finish(j)
  /\ UNCHANGED <<rewritten, clock, faults>>

InvoiceAbort(j) ==
  /\ ~Free(j)
  /\ Abort(j)
  /\ UNCHANGED <<invoices, rewritten>>

---------------------------------------------------------------------------
InvoiceCall(j, user) ==
  \/ \E type \in {"quote", "invoice"}, o \in Orders \cup {None},
        c \in Addressees, status \in StatusInputs, lines \in Drafts :
       CreateLoad(j, user, type, o, c, status, lines)
  \/ \E i \in Stored :
       \/ \E dto \in Dtos : UpdateLoad(j, user, i, dto)
       \/ PayLoad(j, user, i) \/ CancelLoad(j, user, i) \/ RemoveLoad(j, user, i)
       \/ ConvertLoad(j, user, i)
       \/ AcceptLoad(j, user, i) \/ RejectLoad(j, user, i)

InvoiceStep(j) ==
  ReadNumber(j) \/ InsertInvoice(j) \/ NumberTaken(j) \/ SaveInvoice(j) \/ DeleteInvoice(j)

InvoiceInit ==
  /\ BackendInit
  /\ invoices = [i \in Invoices |-> None]
  /\ rewritten = {}

InvoiceNext ==
  \/ \E j \in Jobs, user \in Users : InvoiceCall(j, user)
  \/ \E j \in Jobs : InvoiceStep(j) \/ InvoiceAbort(j)
  \/ Crash /\ UNCHANGED <<invoices, rewritten>>

(* Node resumes the handlers whose database call has returned.              *)
InvoiceFairness == \A j \in Jobs : WF_invoiceVars(InvoiceStep(j))

InvoiceSpec == InvoiceInit /\ [][InvoiceNext]_invoiceVars /\ InvoiceFairness

---------------------------------------------------------------------------
(* Every document fits the Mongoose schema.                                 *)
InvoiceTypeOK ==
  /\ invoices \in [Invoices -> InvoiceDoc \cup {None, Gone}]
  /\ rewritten \subseteq Invoices
  /\ faults \in Nat

(* Numbers read in one call and inserted in another neither repeat nor      *)
(* leave a gap within their series, whatever creations and conversions      *)
(* meet and whatever types updates give to numbered documents, until a      *)
(* document is deleted: then the last number may be given again.            *)
Contiguous ==
  (\A i \in Invoices : invoices[i] # Gone) =>
    \A type \in {"quote", "invoice"} :
      {invoices[i].number : i \in Series(type)} = 1..Cardinality(Series(type))

(* A quote's link leads to the invoice made from it, which has its number   *)
(* in the invoices' series, its order and its parties, however conversions, *)
(* saves and updates overlap, unless that invoice was deleted, which the    *)
(* quote is not told, or an update replaced the type, order, customer or    *)
(* link of either.                                                          *)
LinkedInvoice ==
  \A q \in Stored \ rewritten :
    invoices[q].converted \notin rewritten \cup {None} =>
      LET i == invoices[q].converted
      IN \/ invoices[i] = Gone
         \/ /\ invoices[q].type = "quote"
            /\ invoices[i].type = "invoice" /\ invoices[i].series = "invoice"
            /\ \A f \in {"order", "customer", "provider"} : invoices[i][f] = invoices[q][f]

(* The amounts stored with the lines are those of the lines, add up, and    *)
(* agree with what the form showed and the PDF prints.                      *)
Amounts(i) ==
  LET doc == invoices[i]
  IN /\ \A f \in DOMAIN Totals(doc.lines) : doc[f] = Totals(doc.lines)[f]
     /\ AddUp(Totals(doc.lines))
     /\ PrintedAddUp(doc.lines, doc)

(* A creation that loses the race for a number stops trying.                *)
NumberingEnds ==
  \A j \in Jobs : (job[j].op \in {"invoice.number", "invoice.insert"}) ~> Free(j)

(* What the books show: a conversion counts from the insert of its invoice. *)
ShownLink(q) ==
  LET links == {j \in Jobs : job[j].op = "invoice.link" /\ job[j].id = q}
  IN IF links = {} THEN invoices[q].converted
     ELSE job[CHOOSE j \in links : TRUE].sends.converted

Shown(i) ==
  IF invoices[i] \in {None, Gone} THEN invoices[i]
  ELSE [series |-> invoices[i].series, number |-> invoices[i].number,
        type |-> invoices[i].type, order |-> invoices[i].order,
        customer |-> invoices[i].customer, provider |-> invoices[i].provider,
        status |-> invoices[i].status, converted |-> ShownLink(i)]

ShownBooks == [i \in Invoices |-> Shown(i)]

Books == INSTANCE InvoicePromise WITH books <- ShownBooks

---------------------------------------------------------------------------
(* invoices.service.ts:535, 'Only the provider can cancel this invoice':    *)
(* the guard that throws it lets the provider of an unpaid invoice pass.    *)
ProviderMayCancel ==
  \A i \in Stored :
    invoices[i].status # "paid" => TextIsProvider(invoices[i].provider, i)
==============================================================================
