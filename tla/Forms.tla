--------------------------------- MODULE Forms ---------------------------------
(****************************************************************************)
(* The forms of the browser: what each lets through, what the server's      *)
(* ValidationPipe accepts of it, and what becomes of the form while its     *)
(* call is under way and afterwards.                                        *)
(*                                                                          *)
(* Of a text counts its length without the blanks around it, whether there  *)
(* are any, and whether it is good: a password with the three classes of    *)
(* characters, an e-mail address with a dot in its domain, a date that is   *)
(* not over.  A number is its value.  Only lengths about the limits of a    *)
(* field are tried.                                                         *)
(****************************************************************************)
EXTENDS Backend

(* sheet is one form on a page: filled in with what, or not; the call under *)
(* way; how often the server has taken what is filled in; whether an answer *)
(* that said so was lost.                                                   *)
VARIABLE sheet

formVars == <<sheet, job, clock, faults>>

Forms == {"login", "register", "customer", "password", "profile", "forgot", "reset",
          "contact", "request", "service", "rating", "reply", "application", "apply",
          "invoice", "quote", "composer"}

Lengths(limits) == {0} \cup UNION {{n - 1, n, n + 1} : n \in limits}
Text(limits) == [size : Lengths(limits), padded : BOOLEAN, good : {TRUE}]
Password(limits) == [size : Lengths(limits), padded : BOOLEAN, good : BOOLEAN]
Email == [size : {8}, padded : {FALSE}, good : BOOLEAN]
Number == [size : 0..2, padded : {FALSE}, good : {TRUE}]
Date == [size : {10}, padded : {FALSE}, good : BOOLEAN]

(* What a form supplies of itself: a role, an id, a token.                  *)
Given == [size |-> 1, padded |-> FALSE, good |-> TRUE]

(* The length of what was typed.                                            *)
Typed(v) == v.size + IF v.padded THEN 1 ELSE 0

(* A body without keys that are undefined, such as those of empty fields.   *)
Omitting(body, keys) == [key \in DOMAIN body \ keys |-> body[key]]
Empty(key, v) == IF Typed(v) = 0 THEN {key} ELSE {}

(* The pipe refuses a body with a key its class does not declare, and one   *)
(* without a key its class requires.                                        *)
Shaped(body, required, optional) ==
  required \subseteq DOMAIN body /\ DOMAIN body \subseteq required \cup optional

---------------------------------------------------------------------------
(* Slips: operators of the code below as a plausible error would have them. *)
ShortPassword(f) == f.email.good /\ Typed(f.password) >= 5 /\ f.password.good
                    /\ Typed(f.name) \in 1..50
                    /\ (Typed(f.phone) > 0 => ~f.phone.padded /\ f.phone.size \in 8..15)
StaysFilled(s) == s

---------------------------------------------------------------------------
(* Signing in and up: auth-form.tsx with its zod schemas, and the older     *)
(* sign-up of customers, which posts its confirmation along.                *)
LoginFields == [email : Email, password : Password({6})]
LoginPasses(f) == f.email.good /\ Typed(f.password) >= 6
LoginBody(f) == [email |-> f.email, password |-> f.password]
LoginDto(b) == Shaped(b, {"email", "password"}, {}) /\ b.email.good

RegisterFields == [email : Email, password : Password({6}), name : Text({1, 50}), phone : Text({8, 15})]
RegisterPasses(f) ==
  /\ f.email.good /\ Typed(f.password) >= 6 /\ f.password.good
  /\ Typed(f.name) \in 1..50
  /\ Typed(f.phone) > 0 => ~f.phone.padded /\ f.phone.size \in 8..15
RegisterBody(f) ==
  Omitting([email |-> f.email, password |-> f.password, firstName |-> f.name,
            lastName |-> f.name, role |-> Given, phoneNumber |-> f.phone],
           Empty("phoneNumber", f.phone))
RegisterDto(b) ==
  /\ Shaped(b, {"email", "password", "firstName", "lastName"}, {"role", "phoneNumber"})
  /\ b.email.good /\ Typed(b.password) >= 6

CustomerFields ==
  {f \in [email : Email, password : Password({6}), name : Text({1})] :
     Typed(f.password) > 0 /\ Typed(f.name) > 0}
CustomerBody(f) ==
  [email |-> f.email, password |-> f.password, firstName |-> f.name, lastName |-> f.name,
   confirmPassword |-> f.password, role |-> Given]

---------------------------------------------------------------------------
(* The account: its password and profile, and a password that was forgotten.*)
Strong(v) == Typed(v) >= 8 /\ v.good

PasswordFields == [current : Password({6}), new : Password({8})]
PasswordPasses(f) == Typed(f.current) > 0 /\ Strong(f.new)
PasswordBody(f) == [currentPassword |-> f.current, newPassword |-> f.new]
PasswordDto(b) ==
  /\ Shaped(b, {"currentPassword", "newPassword"}, {})
  /\ Typed(b.currentPassword) >= 6 /\ Strong(b.newPassword)

(* The body of PATCH users/me is of no class, so the pipe takes any.        *)
ProfileFields == [email : Email, name : Text({1}), bio : {v \in Text({500}) : Typed(v) <= 500}]
ProfilePasses(f) == f.name.size > 0 /\ f.email.good /\ Typed(f.bio) <= 500
ProfileBody(f) == [firstName |-> f.name, lastName |-> f.name, email |-> f.email, bio |-> f.bio]

ForgotFields == [email : Email]
ForgotDto(b) == Shaped(b, {"email"}, {}) /\ b.email.good

ResetFields == [password : Password({8})]
ResetPasses(f) == Strong(f.password)
ResetBody(f) == [token |-> Given, newPassword |-> f.password]
ResetDto(b) == Shaped(b, {"token", "newPassword"}, {}) /\ Strong(b.newPassword)

(* The contact form's endpoint is no part of this backend: any answer.      *)
ContactFields == [email : Email, name : Text({1}), message : Text({10})]
ContactPasses(f) == f.name.size > 0 /\ f.email.good /\ f.message.size >= 10

---------------------------------------------------------------------------
(* The customer's: a request for an address or a location, where 1 and 2 if *)
(* there is one; a rating; and the reply anybody gives to a review.         *)
Where == Number

RequestFields == [phone : Text({8, 10, 15}), date : Date, details : Text({1}), where : Where]
RequestPasses(f) == ~f.phone.padded /\ f.phone.size \in 8..15 /\ f.where.size # 0
RequestBody(f) ==
  Omitting([phone |-> f.phone, estimatedTimeOfService |-> f.date, category |-> Given,
            details |-> f.details, address |-> f.where, location |-> f.where],
           Empty("details", f.details)
             \cup {IF f.where.size = 1 THEN "location" ELSE "address"})
PhoneNumberFormat(v) == Typed(v) >= 10
FutureDate(v) == v.good
RequestDto(b) ==
  /\ Shaped(b, {"phone", "category", "estimatedTimeOfService"}, {"details", "address", "location"})
  /\ {"address", "location"} \cap DOMAIN b # {}
  /\ PhoneNumberFormat(b.phone) /\ FutureDate(b.estimatedTimeOfService)

RatingFields == [stars : [size : 0..5, padded : {FALSE}, good : {TRUE}],
                 comment : {v \in Text({500}) : Typed(v) <= 500}]
RatingPasses(f) == f.stars.size # 0
RatingBody(f) ==
  Omitting([bookingId |-> Given, customerId |-> Given, providerId |-> Given,
            rating |-> f.stars, comment |-> f.comment],
           Empty("comment", f.comment))
RatingDto(b) ==
  /\ Shaped(b, {"bookingId", "customerId", "providerId", "rating"}, {"serviceId", "comment"})
  /\ b.rating.size \in 1..5

ReplyFields == [content : Text({1})]
ReplyPasses(f) == f.content.size > 0
ReplyDto(b) == Shaped(b, {"content"}, {}) /\ Typed(b.content) >= 1

---------------------------------------------------------------------------
(* The provider's: becoming one, a service, an application, a bill.  The    *)
(* form of the first is multipart: its texts keep their blanks.             *)
ApplicationFields ==
  {f \in [name : Text({2}), category : Text({2}), phone : Text({6})] :
     \A field \in DOMAIN f : Typed(f[field]) > 0}
ApplicationBody(f) == [businessName |-> f.name, phone |-> f.phone, category |-> f.category]
ApplicationDto(b) ==
  /\ Shaped(b, {"businessName", "phone", "category"}, {"notes"})
  /\ Typed(b.businessName) >= 2 /\ Typed(b.phone) >= 6 /\ Typed(b.category) >= 2

ServiceFields ==
  {f \in [title : Text({3, 100}), description : Text({10, 2000}), ranged : BOOLEAN,
          low : Number, high : Number] :
     Typed(f.title) \in 3..100 /\ Typed(f.description) \in 10..2000}
ServicePasses(f) ==
  IF f.ranged THEN f.low.size > 0 /\ f.high.size > 0 /\ f.low.size <= f.high.size
              ELSE f.low.size > 0
ServiceBody(f) ==
  Omitting([title |-> f.title, description |-> f.description,
            basePrice |-> f.low, minPrice |-> f.low, maxPrice |-> f.high],
           IF f.ranged THEN {"basePrice"} ELSE {"minPrice", "maxPrice"})
ServiceDto(b) ==
  /\ Shaped(b, {"title", "description"}, {"basePrice", "minPrice", "maxPrice"})
  /\ Typed(b.title) \in 3..100 /\ Typed(b.description) \in 10..2000
  /\ "minPrice" \in DOMAIN b => b.minPrice.size <= b.maxPrice.size

ApplyFields == {f \in [message : Text({500}), price : Number] : Typed(f.message) > 0}
ApplyBody(f) ==
  Omitting([message |-> f.message, proposedPrice |-> f.price], Empty("proposedPrice", f.price))
ApplyDto(b) ==
  Shaped(b, {}, {"message", "proposedEts", "proposedPrice", "proposedPriceMin", "proposedPriceMax"})
  /\ Typed(b.message) <= 500

(* The two forms of a bill.  The parties' required parts are alike, lines   *)
(* count one; a quantity is in hundredths, 0.01 being the least.  The page  *)
(* that edits a draft passes the order as it was loaded, the document and   *)
(* not its id.                                                              *)
Party == Text({1})
Item == Text({1})
OrderRef == [size : {10}, padded : {FALSE}, good : BOOLEAN]

InvoiceFields == [party : Party, item : Item, quantity : Number, order : OrderRef]
InvoicePasses(f) == Typed(f.party) >= 1 /\ Typed(f.item) >= 1 /\ f.quantity.size >= 1
InvoiceBody(f) == [orderId |-> f.order, billTo |-> f.party, item |-> f.item, quantity |-> f.quantity]

QuoteFields == [party : Party, item : Item, quantity : Number, order : OrderRef, expiry : Number]
QuotePasses(f) == InvoicePasses(f) /\ f.expiry.size >= 1
QuoteBody(f) ==
  [orderId |-> f.order, billTo |-> f.party, item |-> f.item, quantity |-> f.quantity,
   customerId |-> Given, expiryDate |-> f.expiry]

InvoiceItemDto(b) == Typed(b.item) > 0 /\ b.quantity.size >= 1
BillingAddressDto(b) == Typed(b.billTo) > 0
InvoiceDto(b) ==
  /\ Shaped(b, {"billTo", "item", "quantity"}, {"orderId", "customerId", "expiryDate"})
  /\ b.orderId.good /\ BillingAddressDto(b) /\ InvoiceItemDto(b)

ComposerFields == [text : Text({2000})]
ComposerPasses(f) == f.text.size > 0
ComposerDto(b) == Typed(b.text) <= 2000

---------------------------------------------------------------------------
Fields(form) ==
  CASE form = "login"       -> LoginFields       [] form = "register" -> RegisterFields
    [] form = "customer"    -> CustomerFields    [] form = "password" -> PasswordFields
    [] form = "profile"     -> ProfileFields     [] form = "forgot"   -> ForgotFields
    [] form = "reset"       -> ResetFields       [] form = "contact"  -> ContactFields
    [] form = "request"     -> RequestFields     [] form = "service"  -> ServiceFields
    [] form = "rating"      -> RatingFields      [] form = "reply"    -> ReplyFields
    [] form = "application" -> ApplicationFields [] form = "apply"    -> ApplyFields
    [] form = "composer"    -> ComposerFields    [] form = "invoice"  -> InvoiceFields
    [] OTHER                -> QuoteFields

(* What the form itself refuses; the rest is left to its inputs.            *)
Passes(form, f) ==
  CASE form = "login"    -> LoginPasses(f)    [] form = "register" -> RegisterPasses(f)
    [] form = "password" -> PasswordPasses(f) [] form = "profile"  -> ProfilePasses(f)
    [] form = "reset"    -> ResetPasses(f)    [] form = "contact"  -> ContactPasses(f)
    [] form = "request"  -> RequestPasses(f)  [] form = "service"  -> ServicePasses(f)
    [] form = "rating"   -> RatingPasses(f)   [] form = "reply"    -> ReplyPasses(f)
    [] form = "invoice"  -> InvoicePasses(f)  [] form = "quote"    -> QuotePasses(f)
    [] form = "composer" -> ComposerPasses(f) [] OTHER             -> TRUE

Body(form, f) ==
  CASE form = "login"    -> LoginBody(f)    [] form = "register"    -> RegisterBody(f)
    [] form = "customer" -> CustomerBody(f) [] form = "password"    -> PasswordBody(f)
    [] form = "profile"  -> ProfileBody(f)  [] form = "reset"       -> ResetBody(f)
    [] form = "request"  -> RequestBody(f)  [] form = "service"     -> ServiceBody(f)
    [] form = "rating"   -> RatingBody(f)   [] form = "application" -> ApplicationBody(f)
    [] form = "apply"    -> ApplyBody(f)    [] form = "invoice"     -> InvoiceBody(f)
    [] form = "quote"    -> QuoteBody(f)    [] OTHER                -> f

(* SanitizeInterceptor runs before the pipe and trims every string it finds *)
(* in the body; a multipart body is only there after it.                    *)
Sanitized(form, body) ==
  IF form = "application" THEN body ELSE [key \in DOMAIN body |-> [body[key] EXCEPT !.padded = FALSE]]

Fits(form, b) ==
  CASE form = "login"   -> LoginDto(b)   [] form \in {"register", "customer"}  -> RegisterDto(b)
    [] form = "forgot"  -> ForgotDto(b)  [] form = "password"    -> PasswordDto(b)
    [] form = "reset"   -> ResetDto(b)   [] form = "request"     -> RequestDto(b)
    [] form = "rating"  -> RatingDto(b)  [] form = "reply"       -> ReplyDto(b)
    [] form = "service" -> ServiceDto(b) [] form = "application" -> ApplicationDto(b)
    [] form = "apply"   -> ApplyDto(b)   [] form = "composer"    -> ComposerDto(b)
    [] form \in {"invoice", "quote"} -> InvoiceDto(b)
    [] OTHER -> TRUE

---------------------------------------------------------------------------
(* Once are the forms whose handler refuses a second of the same: an e-mail *)
(* address is registered once, a token used once, an order reviewed and     *)
(* invoiced once, an application pending once.                              *)
Once == {"register", "customer", "reset", "rating", "application", "apply", "invoice"}

(* After a success a dialog closes, a page is left, a text is emptied; the  *)
(* request form first uploads the photos, its button enabled again.         *)
Closing == {"password", "profile", "contact", "service", "rating", "apply"}
Leaving == {"login", "register", "customer", "invoice", "quote"}
Emptied == {"reply", "composer"}

Succeeded(s) ==
  CASE s.form \in Closing -> [s EXCEPT !.place = "closed"]
    [] s.form \in Leaving -> [s EXCEPT !.place = "leaving"]
    [] s.form \in Emptied -> [s EXCEPT !.filled = FALSE]
    [] s.form = "request" -> IF s.photos THEN [s EXCEPT !.place = "uploading"]
                                         ELSE [s EXCEPT !.filled = FALSE]
    [] OTHER -> s

(* One filling of one form is followed.                                     *)
FormsInit ==
  /\ BackendInit
  /\ \E form \in Forms : sheet =
       [form |-> form, filling |-> <<>>, filled |-> FALSE, photos |-> FALSE, place |-> "open",
        call |-> "none", told |-> "nothing", taken |-> 0, lost |-> FALSE]

FillIn ==
  /\ ~sheet.filled /\ sheet.call = "none" /\ sheet.place = "open" /\ sheet.told = "nothing"
  /\ \E f \in Fields(sheet.form), photos \in {FALSE, sheet.form = "request"} :
       sheet' = [sheet EXCEPT !.filling = f, !.filled = TRUE, !.photos = photos]
  /\ UNCHANGED <<job, clock, faults>>

(* Every submit is disabled while the call of the last one is under way.    *)
SubmitForm ==
  /\ sheet.filled /\ sheet.place # "closed" /\ sheet.call = "none"
  /\ Passes(sheet.form, sheet.filling)
  /\ sheet' = [sheet EXCEPT !.call = "asked", !.told = "nothing"]
  /\ UNCHANGED <<job, clock, faults>>

(* The pipe and the handler, which may have reasons of its own to refuse.   *)
ServeForm ==
  /\ sheet.call = "asked"
  /\ LET fits == Fits(sheet.form, Sanitized(sheet.form, Body(sheet.form, sheet.filling)))
     IN \/ /\ ~fits
           /\ sheet' = [sheet EXCEPT !.call = "malformed"]
        \/ /\ fits
           /\ sheet' = [sheet EXCEPT !.call = "refused"]
        \/ /\ fits /\ sheet.taken < 2 /\ ~(sheet.form \in Once /\ sheet.taken > 0)
           /\ sheet' = [sheet EXCEPT !.call = "taken", !.taken = @ + 1]
  /\ UNCHANGED <<job, clock, faults>>

AnswerForm ==
  /\ sheet.call \in {"taken", "refused", "malformed"}
  /\ sheet' = [(IF sheet.call = "taken" THEN Succeeded(sheet) ELSE sheet)
                  EXCEPT !.call = "none", !.told = sheet.call]
  /\ UNCHANGED <<job, clock, faults>>

LoseForm ==
  /\ sheet.call # "none"
  /\ sheet' = [sheet EXCEPT !.call = "none", !.told = "error", !.lost = @ \/ sheet.call = "taken"]
  /\ Faulty
  /\ UNCHANGED <<job, clock>>

(* The photos are up: the draft is cleared, which empties the hidden date.  *)
Uploaded ==
  /\ sheet.place = "uploading"
  /\ sheet' = [sheet EXCEPT !.place = "open", !.filled = FALSE]
  /\ UNCHANGED <<job, clock, faults>>

Left ==
  /\ sheet.place = "leaving"
  /\ sheet' = [sheet EXCEPT !.place = "closed"]
  /\ UNCHANGED <<job, clock, faults>>

FormsNext == FillIn \/ SubmitForm \/ ServeForm \/ AnswerForm \/ LoseForm \/ Uploaded \/ Left

FormsSpec == FormsInit /\ [][FormsNext]_formVars

---------------------------------------------------------------------------
(* Where the two sides of a field are known to disagree: texts that only    *)
(* the server trims, an address type=email takes without a dot, and fields  *)
(* the form does not check as its DTO does.                                 *)
Disagreed(form, f) ==
  \/ \E field \in DOMAIN f : f[field].padded
  \/ "email" \in DOMAIN f /\ ~f.email.good
  \/ form = "customer"
  \/ form = "password" /\ f.current.size < 6
  \/ form = "request" /\ (f.phone.size < 10 \/ ~f.date.good)
  \/ form = "application" /\ (f.name.size < 2 \/ f.category.size < 2 \/ f.phone.size < 6)
  \/ form = "apply" /\ f.message.size > 500
  \/ form \in {"invoice", "quote"} /\ ~f.order.good
  \/ form = "composer" /\ f.text.size > 2000

(* What a form lets through the pipe accepts, but for the fields known to   *)
(* disagree: nobody is told of a malformed call by a form that was happy    *)
(* with it (the schemas and validate functions against the DTOs).           *)
FormsFit == sheet.told = "malformed" => Disagreed(sheet.form, sheet.filling)

(* What was filled in once is taken once, unless an answer was lost: by the *)
(* lock, by what happens to the form after a success, or by the handler.    *)
(* Not so where the form stays as it was, filled and enabled: a sign-in and *)
(* a forgotten password, harmless; a quote while its page is left, and a    *)
(* request while its photos are uploaded.                                   *)
TakenOnce ==
  sheet.taken > 1 =>
    \/ sheet.lost
    \/ sheet.form \in {"login", "forgot", "quote"}
    \/ sheet.form = "request" /\ sheet.photos
================================================================================
