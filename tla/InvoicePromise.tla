---------------------------- MODULE InvoicePromise ----------------------------
(****************************************************************************)
(* What the books promise the parties of an invoice or a quote, one atomic  *)
(* step per operation: its number, its series and its provider never        *)
(* change, numbers of a series do not repeat, an order is billed directly   *)
(* at most once, an accepted quote becomes one invoice with its parties and *)
(* its order, and nothing but a draft disappears.  The status is the        *)
(* provider's, and an update may make a quote forget that it was converted. *)
(* Of a document an update rewrites nothing but number, series and provider *)
(* is promised.                                                             *)
(****************************************************************************)
CONSTANTS Invoices, None, Gone

VARIABLE books

Stored == {i \in Invoices : books[i] \notin {None, Gone}}
Numbered(series, n) == \E i \in Stored : books[i].series = series /\ books[i].number = n
Billed(order) == \E i \in Stored : books[i].type = "invoice" /\ books[i].order = order

Init == books = [i \in Invoices |-> None]

Issue(i, doc) ==
  /\ books[i] = None
  /\ doc # None /\ doc # Gone
  /\ doc.converted = None
  /\ doc.series = doc.type
  /\ ~Numbered(doc.series, doc.number)
  /\ doc.type = "invoice" => doc.order # None /\ ~Billed(doc.order)
  /\ books' = [books EXCEPT ![i] = doc]

Convert(q, i, n) ==
  /\ books[q].type = "quote"
  /\ books[q].status = "accepted"
  /\ books[q].converted = None
  /\ books[i] = None
  /\ ~Numbered("invoice", n)
  /\ books' = [books EXCEPT ![q].converted = i,
                            ![i] = [books[q] EXCEPT !.series = "invoice", !.number = n,
                                                    !.type = "invoice", !.status = "draft"]]

Revise(i, status, link) ==
  /\ link \in {books[i].converted, None}
  /\ books' = [books EXCEPT ![i].status = status, ![i].converted = link]

Rewrite(i, doc) ==
  /\ books[i] \notin {None, Gone} /\ doc \notin {None, Gone}
  /\ \A f \in {"series", "number", "provider"} : doc[f] = books[i][f]
  /\ books' = [books EXCEPT ![i] = doc]

Remove(i) ==
  /\ books[i].status = "draft"
  /\ books' = [books EXCEPT ![i] = Gone]

Next ==
  \/ \E i \in Invoices : Issue(i, books'[i])
  \/ \E q \in Stored, i \in Invoices :
       books'[i] \notin {None, Gone} /\ Convert(q, i, books'[i].number)
  \/ \E i \in Stored :
       \/ books'[i] # Gone /\ Revise(i, books'[i].status, books'[i].converted)
       \/ Remove(i)

Spec == Init /\ [][Next]_books
==============================================================================
