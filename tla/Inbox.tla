--------------------------------- MODULE Inbox ---------------------------------
(****************************************************************************)
(* Notifications of one user, from the event that causes one to the bell of *)
(* the browser: request-events.listener.ts, notifications.service.ts with   *)
(* its gateway and its streams, and the store of the frontend's panel.      *)
(*                                                                          *)
(* A handler of the service changes the database in one step and, when the  *)
(* answer is back, emits the event and answers the call in the next.        *)
(****************************************************************************)
EXTENDS Backend, Sequences, FiniteSets

(* Notes are the notifications there can be, Streams the SSE connections.   *)
(* MaxWire bounds the events on the way to the browser.                     *)
CONSTANTS Notes, Streams, MaxWire

ASSUME InboxAssumption == None \notin Streams /\ MaxWire \in Nat

(* notes is the collection; stream the sink registered for the user and     *)
(* live the connections that are open.  tab is the browser: its socket, the *)
(* store of the panel with its counter, its call of the list, and the       *)
(* answers on the way to it.                                                *)
VARIABLES notes, stream, live, tab

inboxVars == <<notes, stream, live, tab, job, clock, faults>>

NoteState == {"none", "unread", "read", "deleted"}
List == UNION {[S -> {"unread", "read"}] : S \in SUBSET Notes}
Events == ({"created", "read", "deleted"} \X Notes) \cup {<<"all">>}

TabType ==
  [on : BOOLEAN, wire : Seq(Events), panel : List, badge : Nat,
   loading : {"no", "asked", "answered", "done"}, answer : List, replies : SUBSET Events]

Unread(list) == {n \in DOMAIN list : list[n] = "unread"}
Without(list, n) == [m \in DOMAIN list \ {n} |-> list[m]]
With(list, n, state) == [m \in DOMAIN list \cup {n} |-> IF m = n THEN state ELSE list[m]]
Less(badge) == IF badge = 0 THEN 0 ELSE badge - 1
Stored == [n \in {m \in Notes : notes[m] \in {"unread", "read"}} |-> notes[n]]

---------------------------------------------------------------------------
(* Slips: operators of the code below as a plausible error would have them. *)
(* No specification uses them; each makes one of the properties fail.       *)
AddAgain(t, n) == [t EXCEPT !.panel = With(@, n, "unread"), !.badge = @ + 1]
OneCloses(s) == live' = live \ {s} /\ UNCHANGED stream

---------------------------------------------------------------------------
(* addNotification.                                                         *)
Added(t, n) ==
  IF n \in DOMAIN t.panel
  THEN t
  ELSE [t EXCEPT !.panel = With(@, n, "unread"), !.badge = @ + 1]

(* markAsRead takes one off the counter, whether the panel has the          *)
(* notification or not and whether it was unread or not.                    *)
MarkedRead(t, n) ==
  [t EXCEPT !.panel = IF n \in DOMAIN @ THEN With(@, n, "read") ELSE @,
            !.badge = Less(@)]

AllRead(t) == [t EXCEPT !.panel = [n \in DOMAIN @ |-> "read"], !.badge = 0]

Removed(t, n) ==
  IF n \in DOMAIN t.panel
  THEN [t EXCEPT !.panel = Without(@, n),
                 !.badge = IF t.panel[n] = "unread" THEN Less(@) ELSE @]
  ELSE t

Handled(t, event) ==
  CASE event[1] = "created" -> Added(t, event[2])
    [] event[1] = "read"    -> MarkedRead(t, event[2])
    [] event[1] = "deleted" -> Removed(t, event[2])
    [] OTHER                -> AllRead(t)

(* One more slip: the panel marks before the call has succeeded.            *)
OptimisticRead(n) == tab' = MarkedRead(tab, n)

---------------------------------------------------------------------------
(* The listeners of the request events load the request and its customer,   *)
(* send the e-mail, and only then create the notification; an error on the  *)
(* way is logged and the rest is dropped.                                   *)
RequestEvent(j) ==
  /\ Free(j)
  /\ Become(j, [op |-> "mail"])
  /\ UNCHANGED <<notes, stream, live, tab, clock, faults>>

NoRecipient(j) ==
  /\ job[j].op = "mail"
  /\ Finish(j)
  /\ UNCHANGED <<notes, stream, live, tab, clock, faults>>

Emits(j, event) == Become(j, [op |-> "emit", event |-> event])

Create(j, n) ==
  /\ job[j].op = "mail"
  /\ notes[n] = "none"
  /\ notes' = [notes EXCEPT ![n] = "unread"]
  /\ Emits(j, <<"created", n>>)
  /\ UNCHANGED <<stream, live, tab, clock, faults>>

---------------------------------------------------------------------------
(* markRead and markAllRead for the browser, delete for another client: no  *)
(* page offers it.                                                          *)
MarkRead(j, n) ==
  /\ job[j].op = "mark" /\ job[j].note = n
  /\ IF notes[n] \in {"unread", "read"}
     THEN notes' = [notes EXCEPT ![n] = "read"] /\ Emits(j, <<"read", n>>)
     ELSE Finish(j) /\ UNCHANGED notes
  /\ UNCHANGED <<stream, live, tab, clock, faults>>

MarkAllRead(j) ==
  /\ Free(j)
  /\ notes' = [n \in Notes |-> IF notes[n] = "unread" THEN "read" ELSE notes[n]]
  /\ Emits(j, <<"all">>)
  /\ UNCHANGED <<stream, live, tab, clock, faults>>

DeleteNote(j, n) ==
  /\ Free(j)
  /\ notes[n] \in {"unread", "read"}
  /\ notes' = [notes EXCEPT ![n] = "deleted"]
  /\ Emits(j, <<"deleted", n>>)
  /\ UNCHANGED <<stream, live, tab, clock, faults>>

(* The gateway sends to the sockets in the user's room; the answer goes     *)
(* back to the caller.  Streams are only written to.                        *)
Emit(j) ==
  /\ job[j].op = "emit"
  /\ Len(tab.wire) < MaxWire
  /\ tab' = [tab EXCEPT !.wire = IF tab.on THEN Append(@, job[j].event) ELSE @,
                        !.replies = IF job[j].event[1] \in {"read", "all"}
                                    THEN @ \cup {job[j].event} ELSE @]
  /\ Finish(j)
  /\ UNCHANGED <<notes, stream, live, clock, faults>>

---------------------------------------------------------------------------
(* registerStream overwrites the sink of the user; the teardown of any of   *)
(* the user's connections closes and forgets the one that is registered.    *)
OpenStream(s) ==
  /\ s \notin live
  /\ live' = live \cup {s}
  /\ stream' = s
  /\ UNCHANGED <<notes, tab, job, clock, faults>>

Teardown(s) == live' = live \ {s, stream} /\ stream' = None

CloseStream(s) ==
  /\ s \in live
  /\ Teardown(s)
  /\ UNCHANGED <<notes, tab, job, clock, faults>>

---------------------------------------------------------------------------
(* handleConnection joins the user's room; loadNotifications fetches the    *)
(* list, once per login.                                                    *)
Connect ==
  /\ ~tab.on
  /\ tab' = [tab EXCEPT !.on = TRUE]
  /\ UNCHANGED <<notes, stream, live, job, clock, faults>>

Disconnect ==
  /\ Faulty
  /\ tab' = [tab EXCEPT !.on = FALSE, !.wire = <<>>]
  /\ UNCHANGED <<notes, stream, live, job, clock>>

AskList ==
  /\ tab.loading = "no"
  /\ tab' = [tab EXCEPT !.loading = "asked"]
  /\ UNCHANGED <<notes, stream, live, job, clock, faults>>

AnswerList ==
  /\ tab.loading = "asked"
  /\ tab' = [tab EXCEPT !.loading = "answered", !.answer = Stored]
  /\ UNCHANGED <<notes, stream, live, job, clock, faults>>

(* setNotifications replaces what the socket has brought since.             *)
ShowList ==
  /\ tab.loading = "answered"
  /\ tab' = [tab EXCEPT !.loading = "done", !.answer = <<>>, !.panel = tab.answer,
                        !.badge = Cardinality(Unread(tab.answer))]
  /\ UNCHANGED <<notes, stream, live, job, clock, faults>>

(* A click on an unread notification of the panel calls the service first.  *)
Clicked(n) == UNCHANGED tab

ClickRead(j, n) ==
  /\ Free(j)
  /\ n \in Unread(tab.panel)
  /\ Become(j, [op |-> "mark", note |-> n])
  /\ Clicked(n)
  /\ UNCHANGED <<notes, stream, live, clock, faults>>

---------------------------------------------------------------------------
Hear ==
  /\ tab.wire # <<>>
  /\ tab' = Handled([tab EXCEPT !.wire = Tail(@)], Head(tab.wire))
  /\ UNCHANGED <<notes, stream, live, job, clock, faults>>

(* The answer of the user's own call does to the store what its event does. *)
Reply(event) ==
  /\ event \in tab.replies
  /\ tab' = Handled([tab EXCEPT !.replies = @ \ {event}], event)
  /\ UNCHANGED <<notes, stream, live, job, clock, faults>>

---------------------------------------------------------------------------
InboxInit ==
  /\ BackendInit
  /\ notes = [n \in Notes |-> "none"]
  /\ stream = None /\ live = {}
  /\ tab = [on |-> FALSE, wire |-> <<>>, panel |-> <<>>, badge |-> 0,
            loading |-> "no", answer |-> <<>>, replies |-> {}]

StreamNext == \E s \in Streams : OpenStream(s) \/ CloseStream(s)

InboxNext ==
  \/ \E j \in Jobs : RequestEvent(j) \/ NoRecipient(j) \/ Emit(j)
  \/ \E j \in Jobs, n \in Notes : Create(j, n) \/ MarkRead(j, n) \/ DeleteNote(j, n) \/ ClickRead(j, n)
  \/ Connect \/ Disconnect \/ AskList \/ AnswerList \/ ShowList \/ Hear
  \/ \E event \in Events : Reply(event)
  \/ \E j \in Jobs : ~Free(j) /\ Abort(j) /\ UNCHANGED <<notes, stream, live, tab>>

(* All the clients of a user together, and the same where nobody marks      *)
(* everything read.                                                         *)
InboxSpec == InboxInit /\ [][InboxNext \/ StreamNext \/ \E j \in Jobs : MarkAllRead(j)]_inboxVars
OneByOneSpec == InboxInit /\ [][InboxNext \/ StreamNext]_inboxVars

---------------------------------------------------------------------------
(* The bell never counts more than the unread notifications the panel       *)
(* shows, whichever of fetch, event and answer comes first: there is always *)
(* something to click on.                                                   *)
BadgeNotAbove == tab.badge <= Cardinality(Unread(tab.panel))

(* The sink events are written to belongs to a connection that is open,     *)
(* also when a second connection has taken the place of the first.          *)
StreamIsLive == stream # None => stream \in live

(* What the panel shows as read is read on the server.                      *)
ReadShownIsRead ==
  \A n \in DOMAIN tab.panel : tab.panel[n] = "read" => notes[n] \in {"read", "deleted"}
==============================================================================
