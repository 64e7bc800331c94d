------------------------------- MODULE Listings --------------------------------
(****************************************************************************)
(* The pages that list something: what each asks of the server, filters in  *)
(* the browser, shows, and lets one turn to.  Answers come in any order.    *)
(*                                                                          *)
(* rows are the documents there are, newest first; of one only counts which *)
(* filter it passes: "a" or "b".  On the page of provider requests "a" are  *)
(* the open and pending ones; the providers page shows those of one request,*)
(* "a" or "b".                                                              *)
(****************************************************************************)
EXTENDS Backend, Lists, SequencesExt

(* PageSize is the limit of a page, MaxRows bounds the documents, MaxCalls  *)
(* the calls of the list under way.                                         *)
CONSTANTS PageSize, MaxRows, MaxCalls

ASSUME ListingsAssumption ==
  PageSize \in Nat \ {0} /\ MaxRows \in Nat /\ MaxCalls \in Nat \ {0}

(* calls are the queries under way, change that of a change of a row, which *)
(* loads the list anew with the query it began under.  raced remembers that *)
(* one was asked while another was under way.                               *)
VARIABLE list

listVars == <<list, job, clock, faults>>

Pages == {"services", "reviews", "invoices", "history", "orders", "requests", "providers"}
Filters(page) == {"a", "b"} \cup IF page = "providers" THEN {} ELSE {"all"}
NoQuery == [filter |-> "all", page |-> 0]

Passing(rows, filter) == IF filter = "all" THEN rows ELSE Sifted(rows, {filter})

(* One page of the documents, and how many pages there are.                 *)
Found(rows, page) ==
  LET first == (page - 1) * PageSize + 1
      last == IF Len(rows) < page * PageSize THEN Len(rows) ELSE page * PageSize
  IN [rows  |-> SubSeq(rows, first, last),
      pages |-> (Len(rows) + PageSize - 1) \div PageSize]

---------------------------------------------------------------------------
(* Slips: operators of the code below as a plausible error would have them. *)
ShowsLate(q) == TRUE

---------------------------------------------------------------------------
(* What the server finds.  Reviews are not filtered by rating there; the    *)
(* provider is given only the open and the pending requests.                *)
ServicesFound(rows, q) == Found(Passing(rows, q.filter), q.page)
ReviewsFound(rows, q) == Found(rows, q.page)
InvoicesFound(rows, q) == Found(Passing(rows, q.filter), q.page)
HistoryFound(rows, q) == Found(Passing(rows, q.filter), q.page)
OrdersFound(rows) == [rows |-> rows, pages |-> 1]
RequestsFound(rows) == [rows |-> Passing(rows, "a"), pages |-> 1]
ProvidersFound(rows, q) == [rows |-> Passing(rows, q.filter), pages |-> 1]

Answer(page, rows, q) ==
  CASE page = "services"  -> ServicesFound(rows, q)
    [] page = "reviews"   -> ReviewsFound(rows, q)
    [] page = "invoices"  -> InvoicesFound(rows, q)
    [] page = "history"   -> HistoryFound(rows, q)
    [] page = "orders"    -> OrdersFound(rows)
    [] page = "requests"  -> RequestsFound(rows)
    [] page = "providers" -> ProvidersFound(rows, q)

(* What the page shows: orders and requests are filtered whenever they are  *)
(* drawn, reviews when they arrive, by the rating chosen when they were     *)
(* asked for.                                                               *)
OrdersShown(l) == Passing(l.answer.rows, l.query.filter)
RequestsShown(l) == Passing(l.answer.rows, l.query.filter)
ReviewsShown(l) == Passing(l.answer.rows, l.asked.filter)

Shown(l) ==
  CASE l.page = "orders"   -> OrdersShown(l)
    [] l.page = "requests" -> RequestsShown(l)
    [] l.page = "reviews"  -> ReviewsShown(l)
    [] OTHER -> l.answer.rows

---------------------------------------------------------------------------
(* A page ignores an answer that comes after its effect was cleaned up.     *)
Takes(q) == list.page = "providers" => q = list.query

(* A query is asked: setLoading and the call.                               *)
Asking(l, q) ==
  [l EXCEPT !.calls = @ \cup {q}, !.loading = TRUE,
            !.raced = @ \/ l.calls \ {q} # {} \/ (l.change # NoQuery /\ l.change # q)]

(* Another filter: the services and the reviews go back to the first page,  *)
(* the invoices and the history stay on theirs.                             *)
Filtered(query, filter) ==
  IF list.page \in {"services", "reviews", "providers"}
  THEN [filter |-> filter, page |-> 1] ELSE [query EXCEPT !.filter = filter]

ListingsInit ==
  /\ BackendInit
  /\ \E page \in Pages, rows \in SeqOf({"a", "b"}, MaxRows) :
       \E filter \in IF page = "providers" THEN {"a", "b"} ELSE {"all"} :
         LET first == [filter |-> filter, page |-> 1]
         IN list = [page |-> page, rows |-> rows, query |-> first, calls |-> {first},
                    loading |-> TRUE, asked |-> NoQuery, answer |-> [rows |-> <<>>, pages |-> 1],
                    change |-> NoQuery, raced |-> FALSE, failed |-> FALSE]

(* A list that is loaded once is not asked again for another filter.        *)
ChooseFilter(filter) ==
  /\ filter \in Filters(list.page) \ {list.query.filter}
  /\ LET query == Filtered(list.query, filter)
         l == [list EXCEPT !.query = query]
     IN list' = IF list.page \in {"orders", "requests"} THEN l ELSE Asking(l, query)
  /\ Cardinality(list'.calls) <= MaxCalls
  /\ UNCHANGED <<job, clock, faults>>

---------------------------------------------------------------------------
(* The pagers.  Three are gone if the last answer had a single page, that   *)
(* of the reviews also while they load or if none is shown.                 *)
ServicesPager(l, p) ==
  l.answer.pages > 1 /\ \/ p = l.query.page - 1 /\ p # 0
                        \/ p = l.query.page + 1 /\ l.query.page # l.answer.pages

ReviewsPager(l, p) ==
  /\ ~l.loading /\ Len(ReviewsShown(l)) > 0
  /\ l.answer.pages > 1 /\ p \in 1..l.answer.pages

InvoicesPager(l, p) ==
  l.answer.pages > 1 /\ \/ p = l.query.page - 1 /\ p # 0
                        \/ /\ l.query.page # l.answer.pages
                           /\ p = IF l.query.page < l.answer.pages
                                  THEN l.query.page + 1 ELSE l.answer.pages

HistoryPager(l, p) ==
  ~l.loading /\ \/ p = l.query.page - 1 /\ p # 0
                \/ p = l.query.page + 1 /\ Len(l.answer.rows) >= PageSize

CanTurn(l, p) ==
  CASE l.page = "services" -> ServicesPager(l, p)
    [] l.page = "reviews"  -> ReviewsPager(l, p)
    [] l.page = "invoices" -> InvoicesPager(l, p)
    [] l.page = "history"  -> HistoryPager(l, p)
    [] OTHER -> FALSE

TurnPage(p) ==
  /\ CanTurn(list, p) /\ p # list.query.page
  /\ LET query == [list.query EXCEPT !.page = p]
     IN list' = Asking([list EXCEPT !.query = query], query)
  /\ Cardinality(list'.calls) <= MaxCalls
  /\ UNCHANGED <<job, clock, faults>>

---------------------------------------------------------------------------
(* The card of a service deletes it or changes its status, and when that is *)
(* done loads the list with the filters of the page that drew the card.     *)
ChangeRow ==
  /\ list.page = "services" /\ list.change = NoQuery /\ ~list.loading /\ Shown(list) # <<>>
  /\ list' = [list EXCEPT !.change = list.query]
  /\ UNCHANGED <<job, clock, faults>>

RowChanged(i) ==
  /\ list.change # NoQuery /\ i \in DOMAIN list.rows
  /\ \E rows \in {RemoveAt(list.rows, i),
                  [list.rows EXCEPT ![i] = IF @ = "a" THEN "b" ELSE "a"]} :
       list' = [Asking([list EXCEPT !.rows = rows], list.change)
                  EXCEPT !.change = NoQuery]
  /\ Cardinality(list'.calls) <= MaxCalls
  /\ UNCHANGED <<job, clock, faults>>

(* An answer, of the documents as they are when it is given.                *)
AnswerPage(q) ==
  /\ q \in list.calls
  /\ list' = IF Takes(q)
             THEN [list EXCEPT !.calls = @ \ {q}, !.loading = FALSE, !.failed = FALSE,
                               !.asked = q, !.answer = Answer(list.page, list.rows, q)]
             ELSE [list EXCEPT !.calls = @ \ {q}, !.loading = FALSE]
  /\ UNCHANGED <<job, clock, faults>>

FailList(q) ==
  /\ q \in list.calls
  /\ list' = [list EXCEPT !.calls = @ \ {q}, !.loading = FALSE, !.failed = TRUE]
  /\ Faulty
  /\ UNCHANGED <<job, clock>>

ListingsNext ==
  \/ \E filter \in {"all", "a", "b"} : ChooseFilter(filter)
  \/ \E p \in 1..(MaxRows + 1) : TurnPage(p)
  \/ ChangeRow
  \/ \E i \in 1..MaxRows : RowChanged(i)
  \/ \E filter \in {"all", "a", "b"}, p \in 1..(MaxRows + 1) :
       LET q == [filter |-> filter, page |-> p] IN AnswerPage(q) \/ FailList(q)

ListingsSpec == ListingsInit /\ [][ListingsNext]_listVars

---------------------------------------------------------------------------
AtRest == list.calls = {} /\ list.change = NoQuery /\ ~list.failed

(* What the documents are that the page should show.                        *)
Due(l) ==
  LET answer == Answer(l.page, l.rows, l.query)
  IN Passing(answer.rows, l.query.filter)

(* A page at rest shows what its filter and its page number say, although   *)
(* answers come late: for the providers because the effect that was cleaned *)
(* up ignores its answer, for lists filtered in the browser whatever is     *)
(* clicked, for the others unless two calls were under way at once.         *)
ShownIsAsked ==
  AtRest /\ (~list.raced \/ list.page = "providers") => Shown(list) = Due(list)
================================================================================
