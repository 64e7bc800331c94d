------------------------------- MODULE MCBrowser -------------------------------
(* Small instances of the browser's parts.  A behaviour is about one of     *)
(* them, the others stay as they are: the event streams, which are only     *)
(* written to; the notification store, where either nobody marks everything *)
(* read or somebody does and nothing fails (a notification created          *)
(* meanwhile is then shown read without being it); the arrival of a         *)
(* visitor; a form; a listing; the buttons of a page; the messages page.    *)
EXTENDS Inbox, Arrival, Forms, Listings, Offers, Desk

LOCAL INSTANCE TLC

VARIABLE about

streamVars == <<notes, stream, live, tab>>
arrival == <<app, past>>
chat == <<texts, stored, desk, line>>
mcVars == <<streamVars, arrival, sheet, list, offer, chat, job, clock, faults, about>>

Parts == {"streams", "one by one", "all", "arrival", "forms", "listings", "offers", "desk"}

MCInit ==
  /\ about \in Parts
  /\ InboxInit
  /\ ArrivalInit /\ (about # "arrival" => app = Fresh("none", "none", "none", "auth"))
  /\ FormsInit /\ (about # "forms" => sheet.form = "login")
  /\ ListingsInit /\ (about # "listings" => list.page = "orders" /\ list.rows = <<>>)
  /\ OffersInit /\ (about # "offers" => offer.page = "invoice")
  /\ DeskInit

(* Two handlers at a time; only an arriving page needs three functions.     *)
FewHandlers == Cardinality({j \in Jobs : ~Free(j)}) <= 2

(* The messages page may have said this much the gateway has not obeyed.    *)
MaxSaid == 3
FewWords == Len(line.sent) <= MaxSaid /\ \A t \in Threads : line.joins[t] <= 1

MCNext ==
  /\ \/ /\ \/ about = "streams" /\ StreamNext
           \/ about = "one by one" /\ InboxNext /\ FewHandlers'
           \/ about = "all" /\ InboxNext /\ FewHandlers' /\ UNCHANGED faults
           \/ about = "all" /\ (\E j \in Jobs : MarkAllRead(j)) /\ FewHandlers'
        /\ UNCHANGED <<arrival, sheet, list, offer, chat>>
     \/ /\ about = "arrival" /\ ArrivalNext
        /\ UNCHANGED <<streamVars, sheet, list, offer, chat>>
     \/ /\ about = "forms" /\ FormsNext
        /\ UNCHANGED <<streamVars, arrival, list, offer, chat>>
     \/ /\ about = "listings" /\ ListingsNext
        /\ UNCHANGED <<streamVars, arrival, sheet, offer, chat>>
     \/ /\ about = "offers" /\ OffersNext
        /\ UNCHANGED <<streamVars, arrival, sheet, list, chat>>
     \/ /\ about = "desk" /\ DeskNext /\ FewHandlers' /\ FewWords'
        /\ UNCHANGED <<streamVars, arrival, sheet, list, offer>>
  /\ UNCHANGED about

Symmetry == Permutations(Jobs) \cup Permutations(Notes) \cup Permutations(Threads)

MCSpec == MCInit /\ [][MCNext]_mcVars

(* What the panel shows as read is read on the server, where notifications  *)
(* are marked one by one.                                                   *)
OneByOneReadIsRead == about = "one by one" => ReadShownIsRead
================================================================================
