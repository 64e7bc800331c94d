# Domofix: a TLA+ model of the service marketplace

Domofix brings customers and service providers together: a customer publishes
a request, providers apply, the customer accepts one of them, the request
becomes an order with a chat, the order is worked on, completed, invoiced and
reviewed. The backend is one NestJS process over MongoDB; the browser
application is a Next.js client of its REST, SSE and Socket.IO interfaces.

This directory models the backend's services and the parts of the browser that
keep state of their own beside it. Paths below are relative to
`apps/backend/src` (`B:` where it matters) or `apps/frontend` (`F:`).

## What makes this system hard

Node runs one handler at a time, but only up to the next `await`, and every
`await` of these services is a database call. Nearly every operation is

    load a document; check what was loaded; write fields by id

in separate calls, and the write checks nothing. Mongoose's `save()` sends the
paths the handler modified, `findByIdAndUpdate` its `$set`; neither is
conditional on the state the check saw. So the interesting behaviours are

* two operations of two users between each other's load and write;
* the two background jobs (the expiry sweep every minute, the cron every day)
  that load a batch and write it one document at a time, while users go on;
* in-memory events: `request.accepted` and its like reach their listeners only
  if the process survives, and the listeners are again load-check-write;
* `executeWithRetry`, which repeats a call whose answer was lost, and gives up
  after a few attempts, which ends the handler where it stands;
* numbers, counters and aggregates computed from one read and stored by a later
  write: invoice numbers, failed sign-ins, ratings, the rate limit of the chat.

The browser adds its own:

* the same change arrives twice, as the answer of a call and as an event of the
  socket, in either order, and a list fetched before both may arrive after them;
* a connection drops while rooms are left and joined again;
* effects of one page (the check of a stored token, the sync with the NextAuth
  session, a timer) and several calls share one store and one `localStorage`;
* a page acts on a copy nobody refreshes, and validates by rules the server
  states a second time.

## Components

| Component | State | Operations | Modelled in |
|---|---|---|---|
| Requests (`requests/requests.service.ts`) | request documents | create, apply, accept, complete, add photos | `RequestService` |
| Request expiration (`requests/expiration.service.ts`) | notice time, status; the batch of a sweep | `processExpiry` every minute | `RequestService` |
| Orders (`orders/orders.service.ts`) | order documents | start, request, approve or decline completion, cancel, set ETS; daily cron | `OrderService` |
| Fulfilment listeners (`orders/listeners`, `messaging/listeners/order-status.listener.ts`) | orders and threads | on `request.accepted`, `request.completed`, `order.completed`, `order.canceled` | `Fulfilment` |
| Messaging (`messaging/`) | threads, messages, unread counts, rate window in memory, socket rooms | create or get thread, send, mark read, archive; join and leave rooms | `Messaging`, `Fulfilment` |
| Chat widget (`F:features/widget`) | threads, messages shown, open thread, rooms tracked, the token its socket holds | load, open, read, send, reconnect, hear events | partly: `Widget`, without `openThreadForOrder` and `clear` |
| Provider's messages page (`F:features/dashboard/provider/messages`) | threads, active thread, a list of messages for each; rooms of its socket | open, close, choose a thread, send, hear | `Desk` |
| Database helpers (`common/db`) | none | `executeWithRetry`, `runInTransaction` | partly: as the services see them, in `Backend` and `RequestService` |
| Request notifications listener (`requests/listeners/request-events.listener.ts`) | none | on each `request.*` event: look up, mail, notify | `Inbox` |
| Notifications (`notifications/`, `F:features/notifications`) | notifications, one live stream per user, the panel and its counter | create, mark read, mark all read, delete, connect, disconnect | `Inbox` |
| Invoices and quotes (`invoices/`) | invoice documents, their numbers and totals | create, update, pay, cancel, remove; accept, reject, convert a quote | `InvoiceService`, `InvoiceTotals` |
| Authentication (`auth/`) | refresh tokens, failed-login counter, letters | register, log in, refresh, log out, change and reset password, verify | `Account` |
| Browser session (`F:shared/utils/api.ts`, `F:features/auth`) | tokens in storage, the user shown | calls that renew tokens, sign-in, sign-out, arrival on a page, the guard | `Session`, `Arrival` |
| Users (`users/`) | user documents | the fields others decide by; `PATCH /users/me`, which writes any field | partly: in `Account`, `Applications`, `Reputation` |
| Provider applications (`provider-applications/`) | applications; role and status of the user | create, update status | `Applications` |
| Reviews (`reviews/`) | reviews, comments; rating of the provider | create, update, delete, comment | `Reputation` |
| Provider services (`provider-services/`) | catalogue entries with pricing | create, update, activate, delete | partly: `Catalogue`, without the two counters |
| Forms (seventeen forms of `F:`, the DTOs and the pipe of `main.ts`) | what is filled in, the call under way | fill in, submit, answer | `Forms` |
| Listings (seven pages) | filter, page number, calls under way, rows shown | filter, turn, answer | `Listings` |
| Buttons of the pages (five pages) | the copy shown | load, press, answer | `Offers` |
| Filters, logging, monitoring, sanitising | none | output; trimming | partly: trimming, in `Forms` |
| Shared packages | none | validation schemas, formatting | partly: the schemas, in `Forms` |
| Email, geocoding, seeds, rest of the browser application | none, or output only | | no |

Interactions: controllers call services; services emit events through
EventEmitter2; `request.*` events reach the order listener and the notification
listener, `order.*` events the messaging listener, `notification.*` and
`message.*` events the socket gateways and from there the browser's stores. The
request service polls for the order its event creates, only to put its id into
the answer. Requests, orders and threads refer to each other by id and are never
written together; the same holds for applications and users, reviews and users,
quotes and the invoices made from them.

What makes each component correct:

* Requests: the selected provider is one who applied; a settled request names
  its provider; completed and closed are final; an overdue request is closed,
  after a notice, and no other is.
* Orders: every status has the dates later decisions read; completed and
  canceled are final; completion takes the customer's word or three days of
  silence.
* Fulfilment: an accepted request has one order, of its customer and of a
  provider who applied, and a chat; one the listeners made is between the two;
  the chat of an ended order is archived.
* Messaging: an archived chat stays archived; the rate limit holds; a participant
  who is connected comes back into the room, and sees each message once; the
  provider's page shows and hears the thread that is open.
* Notifications: a live stream gets the events; the bell does not count what
  cannot be clicked on; what looks read is read.
* Invoices: the numbers of a series do not repeat and leave no gap; a quote is
  answered and converted once and its link leads to its invoice, unless an
  update rewrote what they are; totals match the lines, on the server, in the
  form and in print.
* Authentication and session: guessing is bounded; a browser at rest holds a
  refresh token that is good; whoever is signed in is shown as such.
* Applications, reviews, provider services: approval and role agree; the rating is that
  of the reviews; stored prices are ones the validation accepts.
* Forms, listings, buttons: what a form lets through the server accepts, once;
  a list shows what was asked for; what is offered works.

## Modules

`Backend` is the process: `job[j]` is a handler in flight, a record of what it
has read and not yet written, or `Idle`. An operation is a Load action, which
starts a job after the handler's checks, and a write action, which ends it or
makes it the listener of the event it emits. `Tick` passes time, `Crash` forgets
all jobs, `Abort` ends one. Every other module extends it.

### Requests, orders, fulfilment

`RequestService` is `requests.service.ts` and `expiration.service.ts`:

| Action | Code |
|---|---|
| `CreateRequest` | `createRequest`; one insert |
| `ApplyLoad`, `ApplySave`, `ApplyResend` | `applyForRequest`; `seen` is the status loaded, which decides whether the save sends one; a resend is the retry of a save whose answer was lost |
| `AcceptLoad`, `AcceptWrite` | `acceptProvider`; the write is the transaction |
| `CompleteLoad`, `CompleteWrite` | `completeRequest` |
| `PhotosLoad`, `PhotosWrite` | `addRequestPhotos` |
| `SweepStart`, `Notify`, `SweepOverdue`, `CloseOne`, `SweepSkip`, `SweepEnd` | `processExpiry`: first query, first loop, second query, second loop, a save that fails |

A request document keeps status, customer, ETS, notice time, the number of
applications of each provider, the accepted provider and the photos. Address,
prices, messages and the like are left out: no operation looks at them.

`OrderService` is `orders.service.ts`: `StartOrder`, `RequestCompletion`,
`ApproveCompletion`, `DeclineCompletion`, `CancelOrder`, `SetProviderEts` load,
`SaveOrder` saves what `Saved` says and emits what `Emitted` says; `ExpireStart`
and `ExpireOne` are the cron. Dates only compared with null are booleans.
`order.completion_requested` and `order.completion_declined` have no listener.

`Fulfilment` extends both and adds the listeners: `RequestAccepted` (look for an
order), `InsertOrder`, `ReassignOrder`, `FindThread`, `CreateThread`,
`RequestCompleted`, `FinishOrder`, `OrderEnded`, `ArchiveThread`. `AskThread` is
`POST /threads`: any signed-in user names an order and the participants, and
`createOrGetThread` checks only that the order exists. It goes through the same
`FindThread` and `CreateThread`; `by` remembers which of the two made a thread.

`RequestPromise` and `OrderPromise` are the abstract specifications: one atomic
step per operation, and a deadline that is kept.

### Messaging and the widget

`Messaging` is one chat. `SendLoad`, `SendCheck`, `InsertMessage`, `SaveThread`,
`EmitSent` are `sendMessage`: thread, then order and rate limit, then the two
stores, then (after the notification) the event. `MarkReadLoad`/`MarkReadSave`
and `ArchiveLoad`/`ArchiveSave` are `markRead` and `archive`; `OrderEnds` is the
event that leads to the latter, `OrderCompletesSilently` the completion through
the request's route, which emits none. `Restart` empties the rate window, the
jobs and the sockets. `Command` and `Join` are the gateway: `thread:join` looks
the participant up before it enters the room, `thread:leave` does not wait;
`LoseJoin` is a look-up that fails, of which the client hears nothing.
`unreadCounts` is a Mixed path changed in place: `Counted` says what Mongoose
stores of it.

`Widget` extends it with the browser of each watcher: `Connect`, `Disconnect`,
`LoadThreads`, `FailThreads`; `OpenThread`, `AnswerHistory`, `FailHistory`, `ShowHistory`,
`AskRead`, `ShowRead`, `BackToList`; `Send`; `HearMessage`, `HearRead`. Every change of the
store's array of threads makes an effect leave the rooms and join them again.
`page` is what the widget has from its mount on: the hook reads the access token
once, and after `TokenExpires` the gateway answers the next connection with
`disconnect(true)`, after which Socket.IO no longer tries (`Refuse`); the list of
threads is asked for once, and a failed call (`FailThreads`) leaves none.

`Desk` is the messages page of a provider, which has several threads and a
store of its own: `OpenPage`, `AnswerThreads`, `ShowThreads` are the mount and
`init`; `ClickThread`, `AnswerMessages`, `ShowMessages` `setActiveThread`;
`Compose`, `Store`, `Turn`, `Tell` follow a message sent, `CustomerWrites` is
the other side, `AddIncoming` the event; `Dial`, `DropLine`, `Obey`, `Admit` are
the socket and the gateway. The server is reduced to what the page notices of
it; `Messaging` has the whole. Unlike the widget, the page neither looks for a
message in its list before it appends one nor joins its rooms again after a lost
connection, it keeps a message the server refused, and a thread found active on
the next visit is not asked for again; the model does the same, so no property
says that the list is complete or free of copies.

### Notifications

`Inbox` follows the notifications of one user: `RequestEvent`, `NoRecipient`,
`Create` are the listener and `create`; `MarkRead`, `MarkAllRead`, `DeleteNote`
write, `Emit` tells the sockets; `OpenStream`, `CloseStream` with `Teardown` are
the SSE controller and `connect`/`disconnect`; the rest is the panel: `Connect`,
`Disconnect`, `AskList`, `AnswerList`, `ShowList`, `ClickRead`, `Hear`, `Reply`.

### Invoices

`InvoiceService` has `CreateLoad`, `ReadNumber`, `InsertInvoice`, `NumberTaken`
(the unique index, and the retry), and `UpdateLoad`, `PayLoad`, `CancelLoad`,
`RemoveLoad`, `ConvertLoad`, `AcceptLoad`, `RejectLoad`, each ending in
`SaveInvoice` (of the fields that changed) or `DeleteInvoice`. An update takes
any of the fields `UpdateInvoiceDto` has (`DtoFields`): type, order, customer and
link as well as status, payment and lines, checked against nothing; outside a
draft it must carry a status or a payment, and may then carry anything else.
`series` is the prefix a document's number was given, which an update of the
type does not change; `rewritten`, a history variable, holds the documents whose
type, order, customer or link an update replaced. The application is compiled
for ES2022, where a class defines its fields: whether the fields an update's
body leaves out then reach `Object.assign` as `undefined` depends on how the
build and the DTO's transformation treat them, so `UpdateLoad` allows both; what
differs is that the link of a conversion may be unset (`Unlinking`).

`InvoiceTotals` holds the arithmetic. The DTO and the forms take decimals, for
quantities too; every amount of a line is a whole number of `1/Fraction`, for any
`Fraction`, and amounts are whole numbers of `1/Cent` of a cent, so that nothing
is rounded before the code rounds: `LineItem` is the DTO's shape of a line,
`Totals` what the server stores, `FormTotal` what the form shows, `PrintedLines`
the lines as the PDF (in mills) and the template (in cents) print them. The
error of binary floating point is left out.
`InvoicePromise` is what the books promise.

### Accounts and the services around them

`Account`: `RegisterLoad`/`InsertAccount`, `OAuthLoad`, `LoginLoad` with
`CountFailure`, `LockUser`, `ResetFailures`; `ChangeLoad`/`UpdatePassword`;
`ForgotPassword`, `RequestVerification`, `ResetPassword`, `VerifyEmail`;
`RefreshLoad`, `Rotate`, `Issue`; `Logout`, `LogoutAll`; `Expire` is time.
`Session` extends it with one browser whose calls share the stored tokens:
`Send`, `Granted`, `Refused`, `Receive` are the retry of `api.ts` after a 401,
`SignIn`, `SignOut`, `ServeSignOut`, `Forget` the store, `AccessExpires` and
`Reload` what happens to it. NextAuth loads a page after every sign-out, which
may give the call to the server up and leave the tokens where they were: that
is a `Reload`, and counted as a fault. `Arrival` looks at a page load instead: `Mount`
starts `checkAuth` and `syncFromSession`, `SyncRun` is the effect again, the
answers are `CheckSession`, `LinkAnswer`, `ProfileAnswer`, `RenewAnswer`,
`LoginAnswer`, `LogoutAnswer`; `PopupSignIn`, `Refocus`, `Logout`, `Leave` and
the guard's `GuardMounts`, `GuardPushes` happen in between.

`Applications`: `ApplyLoad`, `ApplyCheck`, `ApplyInsert`; `Decide`,
`SetProviderStatus`, `SetRole`, the three writes of a decision. `UpdateMe` is
`PATCH /users/me`, which writes its untyped body into the user who asks; `own`
remembers the fields last written that way. `Reputation`:
`Insert`, `Aggregate`, `Rate` are `create`; `UpdateReview`, `DeleteReview` load,
`SaveReview`, `RemoveReview`, `RemoveComments` write; `AddComment`;
`UpdateMyRating` is `PATCH /users/me` again. `Catalogue`:
`CreateOffer`; `UpdateOffer`, `UpdateStatus`, `DeleteOffer` load, `SaveOffer` and
`Withdraw` write; `Priced` is `validatePricing`, `Changes` any of the four price
fields, together or alone.

### Pages

`Forms` describes each form by its fields, what its validation lets through
(`...Passes`), the body it sends (`...Body`) and what the DTO takes (`...Dto`);
`FillIn`, `SubmitForm`, `ServeForm`, `AnswerForm`, `LoseForm`, `Uploaded`, `Left`
follow one filling through its call. `Listings` does the same for a list:
`ChooseFilter`, `TurnPage`, `AnswerPage`, `FailList`, and `ChangeRow`/`RowChanged`
where a card changes its row. `Offers` has what each page offers (`...Offers`),
what the services accept (`...Accepts`), and `LoadCopy`, `ChangeElsewhere`,
`PressButton`, `ServePress`, `RefusePress`, `LosePress`. The card of an order is
drawn before the review has come (`ReviewAnswer`, `ReviewFails`) and perhaps
before `checkAuth` has said who looks (`KnowViewer`): until then it takes the
customer for a provider, and a rated order for one to be rated.

### Instances

`MCRequestsOrders`, `MCFulfilment`, `MCInvoiceService`, `MCWidget`, `MCServices`
and `MCBrowser` are the instances TLC checks. Where modules do not interact, a
variable chosen at the start (`part`, `about`) says which of them a behaviour is
about; the others stay as they are, so the state spaces add up and do not
multiply. `overlap` (`MCFulfilment`) chooses between every operation one at a
time with failures, and overlapping handlers; `raced` and `edited` remember what
a property of undisturbed behaviours must exclude; `calls` (`MCInvoiceService`)
counts the operations users have started.

The sections headed "Slips" hold, for each property, an operator as a plausible
programming error would have it; no specification uses them. They document what
each property is sensitive to: with the slip in place of the operator it
resembles, the property fails.

## Runs

| Run | Question | Bounds |
|---|---|---|
| `races` | With handlers, sweeps and the cron overlapping in every order: do requests keep `AcceptedApplied` and `StatusHasCause`, orders `StatusHasDate`, and do ended ones stay ended (`Finality`, `OrderFinality`)? | 1 request, 1 order, 2 providers, 3 jobs, 1 fault, time to 3, delays of 1, lost answers |
| `serial` | Without overlap, is every write a step of `RequestPromise` (`Promise`) and `OrderPromise` (`KeepsOrderPromise`), and nothing closed without notice (`ClosedWasNoticed`)? | 2 customers, 2 providers, 2 photos, 1 job, 2 faults, time to 3 |
| `requests_sweep` | Do overdue requests get settled in the end (`OverdueSettles`), and do all documents and jobs keep their types (`RequestTypeOK`)? | 2 requests, 2 jobs, 1 fault |
| `orders_cron` | Does silence approve in the end, although a failing save drops the cron's batch (`SilenceApproves`)? | 2 orders, 2 jobs, 1 fault |
| `fulfilment` | Can a race give an order or a chat to someone who did not apply (`PartiesMatch`, `TypeOK`), or keep an accepted request from getting them (`AcceptedGetsOrder`)? Without overlap, is the handover complete and the chat of an ended order archived (`SerialHandover`)? | 1 request, 2 providers, 2 orders, 2 jobs, 1 fault; `POST /threads` once, without faults, for a provider who did not apply |
| `billing` | `Contiguous` numbers, `LinkedInvoice`, `NumberingEnds` under overlap and failure; `SerialAmounts` and `KeepsBooks` without | 1 order, 3 documents, 2 jobs, 2 attempts, 4 calls, 1 fault; halves of cents and of pieces; starting with no document or with an accepted quote |
| `messaging` | `RateLimited`, `ArchivedStays` of the server; `ShownOnce`, `WidgetBackInRoom` of the widget | 2 participants, 1 socket, window 1, limit 1, 2 messages, 2 jobs, 1 fault |
| `browser` | `BadgeNotAbove`, `StreamIsLive`, `OneByOneReadIsRead`; `SignedInIsShown`; `FormsFit`, `TakenOnce`; `ShownIsAsked`; `ButtonsWork`; `DeskFollowsThread` | 2 notifications, 2 streams, 2 events on the wire, 3 jobs, 2 rows in pages of 1, 2 calls, 2 threads, 2 messages, 3 words to the gateway, 1 fault |
| `services` | `GuessesBounded`, `StoredTokenLives`, `ApprovedIsProvider`, `RatedByAll`, `PricedRight`, `ServicesTypeOK` | 1 account, 2 passwords, 4 tokens, 1 letter, lock after 3, 2 applications, 2 reviews of 3 bookings, 1 service, 2 jobs, 1 fault |

Bounds. One document is enough where no operation relates two: the operations
on requests, orders, accounts, provider services and chats touch one each. Two are used
for the batches of the sweep and the cron, for the orders of one request, for
numbers that may collide, two reviews of one provider
or of two, two applications of one user, two notifications in one list. Two
providers give every conflict between applicants. Two jobs give every pair of
overlapping handlers, three a pair with a sweep or a resend in between; an
arriving page needs three functions at once (check, sync and a sign-in or
sign-out). One fault reaches every "failed here" state; several failures of one
handler do not reach more. Time goes at least to where a delay has run out.
Three documents are a quote and two invoices made from it: two conversions that
overlap reach that, and so do a conversion, an update that takes the link away
and another conversion. The updates of the run are one that makes a quote the
bill of its order, one that takes a link of the caller's choice, and one with new
lines; with four calls each meets the other operations.
`Fraction` is 2 there: halves of pieces, of cents and of a percent make every
rounding of `Totals` and of the printed lines one that moves the amount.
Four tokens let an account be issued two and each be renewed once. A list of two
rows in pages of one has a first, a last and a page past the end; lengths in
forms are those about the limits of a field (0 and n-1, n, n+1). The limits 30,
5 and 7 days of the chat, the lockout after 5 and the three tries for a
number are constants of the modules and smaller here, so that they are reached.

Only `requests_sweep` checks for deadlock: a sweep can always start. Elsewhere a
behaviour may rightly end: all orders have ended, the clock or a bound has
run out, a form is closed, a page at rest.

Properties with a precondition. `ClosedWasNoticed`, `SerialHandover`,
`SerialAmounts`, `KeepsBooks`, `RatedByAll` and `PricedRight` speak of
handlers that do not overlap, `KeepsBooks`, `RateLimited`, `GuessesBounded`, `StoredTokenLives`,
`ApprovedIsProvider`, `SignedInIsShown`, `RatedByAll` and (as to the room) `DeskFollowsThread` of behaviours without
failures, `OneByOneReadIsRead` of a panel where nobody marks everything read.
Two kinds of request write fields no check protects, and the properties say for
which documents they then hold. `PartiesMatch` says who is in the threads the
listeners made, not in those of `POST /threads`. `LinkedInvoice` and `KeepsBooks`
leave out what an update set out to rewrite (`rewritten`), of which number,
series and provider are still kept. `ApprovedIsProvider` leaves out a field
the user wrote through `PATCH /users/me` until the service writes it again
(`own`), `RatedByAll` a provider who wrote over the rating until the next review
(`edited`). That request can write the password and the lockout's counter of the
user, too; `GuessesBounded` and `StoredTokenLives` are about users who do not.
The code does not keep them otherwise, and nothing in the repository says that
it does: two overlapping acceptances exchange the provider, insert two orders or
create two threads; overlapping updates of a document meet in amounts that are
not those of its lines, and in prices no validation saw; a review posted while a rating is
computed may be missing from it; an answer lost after the server has rotated a
refresh token signs the user out; a restart between the commit of an acceptance
and its listener leaves an accepted request without an order. `FormsFit`,
`TakenOnce` and `ButtonsWork` name their exceptions, each of
which is how the code behaves today: `ButtonsWork` those of the provider on an
order as long as nobody knows who looks, the one to rate until the review has
arrived or if it could not be loaded, and the two on an invoice whose guard
passes only an admin.

Three runs show that the code does not do what the repository says. Each checks
one statement of a comment, an error text or a page, quoted above the property
and in `PROJECT.json` under `findings`:

* `claim_chat_closes`: the listener of `request.completed` completes the order
  without emitting `order.completed`, so the chat that users are told closes
  stays open. No overlap is needed.
* `claim_provider_cancels`: the guard of `cancel` compares the text of a
  populated document with an id, so it refuses the provider it names.
* `claim_premature_redirect`: the sync of the NextAuth session ends the loading
  state while the stored token is still being checked; the guard of the provider
  dashboard then sends a visitor with a good token to the sign-in page.

## Fairness

Node resumes every handler whose database call returns, hence weak fairness of
each job's own steps (`RequestFairness`, `OrderFairness`, `MCFairness`,
`InvoiceFairness`); a call that never returns times out in the driver and is an
abort. The sweep's timer and the cron fire whatever else runs; in the model they
need a free job slot, which other handlers may take whenever it is free, so
starting them is strongly fair. The same holds for the cron's saves, which need a
slot for the listener of the event they emit. Of the widget (`Widget!Fairness`) the
events on the wire arrive, the gateway serves what it was sent, a look-up returns
or fails, Socket.IO tries to connect until it is refused, and the one call for
the threads is answered or fails, each weakly fair: what is fair is that there is
an outcome, not that it is the good one. `WidgetBackInRoom` therefore says
that a participant comes back into the room again and again unless a refused
token, a failed list or a failed look-up keeps them out (`KeptOut`).
No action of a user is fair, nor is a failure.

Liveness and its assumptions: `OverdueSettles`, `SilenceApproves`,
`AcceptedGetsOrder` (without faults), `NumberingEnds`, `WidgetBackInRoom` and the
deadlines within the two promises. Sign-in, applications, reviews, forms and
listings state none: whether a user goes on is the user's choice.

## Refinement

`Promise` says that `RequestService`, its documents cut down to the fields the
parties care for, implements `RequestPromise`; `KeepsOrderPromise` that
`OrderService` implements `OrderPromise`. Both hold with one handler at a time,
also when handlers fail: the window between load and write is the only way
around the checks. `KeepsBooks` says the same of `InvoiceService` and the steps
of `InvoicePromise`, in behaviours where no two handlers were ever in flight at
once and none failed; a quote under conversion is mapped to one that already has
its link (`ShownLink`). The atomic steps of the three promises are also proved, of
the first two in a weaker setting: only operations about to write the same
document must not overlap.

## Proofs

TLAPS checks the following for any sets of requests, orders, users, uploads,
notifications and job slots, any lines of an invoice, any bounds and delays.
The assumptions stand with the constants: bounds and delays are natural numbers;
null is neither a user, a number, nor any document, view of one, token or
connection a variable may hold instead (`NullIsNo...`); job slots, and of
invoices and reviews the documents, are finitely many; ids of orders and reviews,
and prices, are natural numbers; the lines of an invoice and the bodies of an
update have the shape of their DTO (`LinesAssumption`, `DtoAssumption`), in
decimals of any denominator (`FractionAssumption`); what providers write over
their ratings are numbers. `MCServicesAssumption` and `InstanceAssumption` name
the users, prices and documents two instances start with.

An invariant a run checks is seldom inductive. What has to be added is nearly
always the same thing: a handler writes what it decided several calls before, so
the invariant must say, of each handler in flight, what still holds of what it
has read, and the proof why no other step takes it back. The name of that part is
given below; then, for each, one lemma per way a step can disturb it, and
one step per action of the next-state relation.

### Requests, orders, fulfilment

`RequestService_proofs`: `RequestInvariant` (`RequestSpec => []Inv`) and from it
`RequestTypeCorrect`, `RequestSafety` (`AcceptedApplied`), `RequestCause`
(`StatusHasCause`) and `RequestFinality`. None of the safety invariants is
inductive: `AcceptWrite` selects a provider it has seen in an earlier version of
the document, `CompleteWrite` completes without looking, `ApplySave` decides by
the status it loaded. `Inv` adds `LoadedFactsHold`: what a handler in flight
relies on still holds. It does because no write takes three things back
(`Evolves`): that a request is no longer open, that a provider has applied, that
a provider was selected. `JobStep` and `DocStep` are the two ways a step can
keep `Inv`, and each action is an instance of one of them. Finality needs
no further invariant, but a fact about every step (`StepIsCalm`): a job that
will write the status of a request can only appear while the request is open,
pending or accepted, and only such jobs change its status or provider.

`RequestKeepsPromise` is the refinement: `RequestSpec /\ []NoOverlap` implies
`RequestPromise`'s `Lifecycle`, its initial states and atomic steps. `NoOverlap`
says that no two operations in flight are about to write one request; different
requests may be written at the same time, and sweeps run beside everything else.
Faults are allowed, except that an answer is lost and the save repeated
(`AckLoss`), which applies twice. Under `NoOverlap` the request a handler writes
is as the handler saw it (`AllFresh`), so the checks made at the load hold at the
write. With one job slot nothing can overlap: `RequestSerial`, which is how run
`serial` checks it. `RequestNoticed` (`ClosedWasNoticed`) uses the same
argument where no fault happens: a sweep still holds whatever is due for a
notice, and what it is about to close has had it (`Noticed`).

`OrderService_proofs`: `OrderInvariant`, `OrderTypeCorrect`, `OrderDates`
(`StatusHasDate`) and `OrderFinal` (`OrderFinality`). A request for completion
and a refusal are saved over whatever the order has become; that the order has
been started then still holds, because no save takes a start back. `Relies` says
so of each job in flight and makes the dates inductive. `OrderKeepsPromise` and
`OrderSerial` are the refinement of `OrderPromise`, again under `NoOverlap`, with
any faults and with the cron.

`Fulfilment_proofs`: `FulfilmentInvariant` (`Spec => []Inv`),
`FulfilmentTypeCorrect` (`TypeOK`) and `OrderParties` (`PartiesMatch`), of the
two services, the listeners and `POST /threads` together. `PartiesMatch` is not inductive: the
listener inserts or reassigns an order for a provider, and creates a thread for a
customer, that it copied several calls before. `Inv` adds for each job that the
provider it carries has applied, that the request it acts for was accepted, that
the customer it copied is the order's, and that what is in its batch exists. These
last (`RelianceLasts`) because no step takes back that a request exists, its
customer, its applications or that it was accepted, an order's request and
customer, or a thread (`RequestsKept`, `OrdersKept`, `ThreadsKept`). A call of
`POST /threads` carries participants of its own and is told apart to the end. `JobStep`,
`RequestWrite`, `OrderWrite` and `ThreadWrite` are the ways a step keeps `Inv`.
`HandoverComplete` (`SerialHandover`) is about one handler at a time and no
failure. `SerialHandover` speaks only of states at rest; `Orderly` says the same
of those in between: there is at most one handler (`Solo`), what it has checked
still holds (`Current`), and whatever an accepted, completed or ended document
still lacks, that handler, or the listener it becomes, is about to do (`Tidy`).

### Messages and notifications

`Widget_proofs`: `WidgetInvariant`; `MessagesShownOnce` (`ShownOnce`), by
`Lists`: a list holds every message once and an answer brings none twice,
and the event's handler looks before it appends. `ChatStaysArchived`
(`ArchivedStays`) is a fact about every step. `RateIsLimited` (`RateLimited`)
needs `Metered`: as long as the process lives its memory has an entry for all
that was admitted within the last `Window`, stored or about to be
(`Remembered`), and no window that has passed had more than `Limit`
(`WithinLimit`). Which window is the worst is found by taking the least of a set
of numbers, since there is no induction (see below).

`Browser_proofs`, first part: `BellIsBounded` (`BadgeNotAbove`) by `TabOK`, the
panel's items are finitely many and the counter is at most the number unread,
after each of fetch, event and click; `SinkIsOpen` (`StreamIsLive`); `ReadIsTrue`
and `OneByOneIsTrue` (`OneByOneReadIsRead`): every word under way that a
notification was read is true (`Told`), hence what a panel makes of it
(`Truthful`). The first is of `Inbox` for any behaviour without "mark all",
the second of the instance the run explores.

### Invoices

`InvoiceService_proofs`: `InvoicesInvariant`, `InvoicesTypeCorrect`
(`InvoiceTypeOK`), `NumbersContiguous` (`Contiguous`) and `LinkLeadsToInvoice`
(`LinkedInvoice`). Three facts make them inductive. `NextNumbers`: while nothing
has been deleted, the number an insert carries is at most one beyond the count
of its series, because after it was read numbers were only added, and an update
that takes a document out of its type only lowers what the next reading finds; the unique index
refuses the ones that are taken, so an insert that passes takes the next.
`Relies`: a conversion in flight carries an invoice with the parties of its
quote, and the save that follows sends a link to such an invoice; this lasts
(`RelianceLasts`) because no step but an update that says so (`rewritten`) changes the type or the parties of a document,
and none changes its series or takes it, or its deletion, back (`Kept`). `RoomLeft`: every numbering in
flight finds an unused id, which is the bound of the model put as an invariant.
`LeastOf`, `Bounded` and `MaxInSet` say that finitely many numbers have a least
and a highest.

`AmountsAreRight` (`SerialAmounts`) has two halves. `TotalsAddUp` is arithmetic:
for lines of any number, with quantities, prices, rates and discounts of any
common denominator, the four amounts rounded one by one add up to a cent, the
total is what the form showed to half a cent, and the sum of the printed lines
to half a unit of print for each line: rounding a sum differs from the sum of
what was rounded by at most half a unit for each.
`Quiet` is about the handlers: while no two have
overlapped, the document a save writes to is the one it loaded
(`Undisturbed`), so the amounts it sends, or leaves alone, are those of the
document's lines. `BooksKept` (`KeepsBooks`) maps each step to `InvoicePromise`:
with one handler in flight the books show `Viewed`, in which a quote whose link
is about to be saved has it already (`LinkOf`); an insert is then `Issue` or
`Convert`, a save `Revise`, `Rewrite` if an update set out to, or nothing when it
only sends the link, a deletion `Remove`, and loads, reads of numbers and refused
inserts show nothing.

`Sums_proofs`: a sum over a function, which is the community modules' fold, is
defined for every finite domain, whole for whole terms, adds term by term, is
bounded by the number of terms times their bound, and inherits a common
factor. The fold is a recursive function chosen by its equation, so that it
exists has to be shown (`FoldFollows`), by taking a smallest subset for which
it would not.

### Accounts and services

`Services_proofs` has one part per service. `LockoutHolds` (`GuessesBounded`):
attempts that loaded a count too low to lock may all be under way; `Contained`
bounds the count by how many there still are, or the account is locked or about
to be (`Guarded`). `StorageLives` (`StoredTokenLives`): a
stored token that was revoked was revoked by a call which has yet to replace it
(`Replaced`); this needs that no answer brings a token somebody can already
have used (`Unseen`) and that a token revoked for renewal has one caller waiting
(`Awaited`). `ApplicationsInvariant` and `ApprovedBecomesProvider`
(`ApprovedIsProvider`): between the three writes of a decision somebody
approved need not be a provider yet; `Promoted` says that then a handler in
flight is about to make them one, unless there was a failure or the role is
their own; `Undecided` says
that the users with a status are those who applied, and `DecidedApplied` that who
is decided about has. `RatingsCount` (`RatedByAll`) by `RatingsOK`: a provider
who is not rated by all of their reviews has a handler in flight that is about
to do just that. `PricesStayRight` (`PricedRight`) by `PricesOK`: the service a
change will be saved in has the fields it was checked with.
`ServicesTypeCorrect` (`ServicesTypeOK`) joins the services: in `ServicesInv` each
one's own invariant holds while it is the one at work. That a stored rating is
at most 5 is `SumIsBounded`.

### Pages

`Browser_proofs`, the rest. `SignedInShows` (`SignedInIsShown`) has an argument
about progress put as an invariant: whatever began `checkAuth` will end it and
the loading with it (`Settles`), a refused access token comes with a refresh
token that works (`TokensFit`), and who is signed in and not shown is about to be
(`Staying`, `Welcome`). `OfferedIsAccepted` (`ButtonsWork`) by `Current`: a copy
up to date says of its document what the buttons depend on, but whether an order
was rated only once the review has been asked for and has come. `FormsTakenOnce`
(`TakenOnce`) by `Spent`: what a success spends and was taken is gone, or will be
with the answer under way. `FormsAndPipeAgree` (`FormsFit`) by `Judged`, what is
under way was let through by the form, and one lemma per DTO (`LoginFits` and so
on): the pipe sees each key that is sent trimmed, and trimming keeps what the DTO
asks for if the form asked for it too. `ListsShowWhatIsAsked` (`ShownIsAsked`) by `Waits`,
`Served` and `Alone`: the page waits for what it should show, or was given it.
`DeskFollows` (`DeskFollowsThread`) by `Owned` and `Heard`: the last word the
gateway was or will be sent about the active thread is a join.

### Only model-checked

* Liveness: `OverdueSettles`, `SilenceApproves`, `AcceptedGetsOrder`,
  `NumberingEnds`, `WidgetBackInRoom`, and the deadlines (`Timely`) in the two
  promises, hence `Promise` and `KeepsOrderPromise` as a whole, of which the
  theorems have everything but that. Fairness is defined by ENABLED, which the
  prover does not have.
* The three violations, which are behaviours.
* Induction: the library's theorems take an operator as a parameter, which none
  of the installed provers can instantiate. Where the proofs need it (sums, the
  rate limit, the numbers) they use well-founded orders in first-order form
  instead: a set of counterexamples would have a least one.

## Not modelled, and why

* Email, geocoding: one call to an external service and no state; that it fails
  is a fault of the handler that waits for it. Seeds: development data.
* Logging, monitoring, exception filters, the layout of PDFs: output.
* Listings, statistics and look-ups of the backend only read; what their pages
  make of them is in `Listings`.
* Names, addresses, avatars, preferences, the two counters of provider services:
  plain storage nothing else decides by. `PATCH /users/me` writes them and, its
  body being untyped, every other field of the user: role, provider status and
  rating are modelled (see above), password, lockout and address of e-mail are
  not.
* The widget's `openThreadForOrder`, which loads the list of threads again until
  it has that of an order and opens it, and `clear`, which nothing calls: the
  model's list is loaded once, so a widget whose list failed stays `KeptOut`
  there, while this button would bring it back.
* Of the service form, prices of a type other than the chosen one, which the DTO
  does not look at (`ValidateIf`), and the hourly and negotiable types, of which
  one is like the fixed price and the other has none.
* Floating point: amounts are exact until the code rounds them.
* Retries that succeed without a lost answer: the same as no retry. The counter
  of attempts and the back-off of `executeWithRetry` only delay.
* Role checks against the user document, where an approval changes a role while
  a handler runs: a customer who becomes a provider keeps their requests.
* Two processes: the backend is deployed as one; sockets, streams and the rate
  limit assume it.
* Operations of the backend no page offers (a provider cancels an order, an
  invoice is marked as paid) are modelled in the services, not in `Offers`; so are
  a quote's buttons, which exist only in a preview no page shows them in.
* Layout, maps, drafts, sounds and marketing pages of the browser: what they
  keep is shown and nothing else depends on it.

## What could come next

* The refinements for handlers that do overlap would need a promise that allows
  for it: what is left of a lifecycle when two acceptances meet.
* What the deadlines and `AcceptedGetsOrder` rest on, as invariants: a sweep that is
  never without a due request it will visit, an accepted request that never
  loses its listener but to a restart.
* Role checks with roles that change.
