-------------------------------- MODULE Widget --------------------------------
(****************************************************************************)
(* The chat widget in the browser of a watcher: messages-store.ts,          *)
(* useWidgetSocket.ts and the effects of widget.tsx, with the server it     *)
(* talks to.  The store learns of messages from two sides, the history it   *)
(* fetches and the events of its socket.                                    *)
(*                                                                          *)
(* Every change of the store's threads array makes the effect of widget.tsx *)
(* leave the rooms and join them again.                                     *)
(****************************************************************************)
EXTENDS Messaging, SequencesExt

(* threads is None before the list has been loaded, list before the         *)
(* messages have.  opening is how far setActiveThread has come: its call of *)
(* the history, the answer, the call of read.  tracked is                   *)
(* joinedThreadsRef.                                                        *)
VARIABLE widget

(* What the page has had from its mount on: the access token its socket     *)
(* authenticates with, and whether it has made its call of loadThreads.     *)
VARIABLE page

widgetVars == <<messagingVars, widget, page>>

NoWidget ==
  [threads |-> None, list |-> None, active |-> FALSE, opening |-> "no", history |-> <<>>, tracked |-> FALSE]

ThreadShown == [badge : Nat, readOnly : BOOLEAN]

ASSUME NullIsNoThread == None \notin ThreadShown

WidgetType ==
  [threads : ThreadShown \cup {None},
   list : Seq(Nat) \cup {None}, active : BOOLEAN,
   opening : {"no", "asked", "answered", "read", "reading"}, history : Seq(Nat), tracked : BOOLEAN]

PageType == [token : {"valid", "expired", "refused"}, asked : BOOLEAN]

Show(u, w) == widget' = [widget EXCEPT ![u] = w]
Loaded(u) == widget[u].threads # None

---------------------------------------------------------------------------
(* Slips: operators of the code below as a plausible error would have them. *)
(* No specification uses them; each makes one of the properties fail.       *)
AlwaysAppend(list, id) == IF list = None THEN <<id>> ELSE Append(list, id)
NoRejoin(u) == <<>>

---------------------------------------------------------------------------
(* leaveThread and joinThread send only over a live connection, and what    *)
(* is joined is tracked for the next one.                                   *)
Refresh(u) ==
  socket' = [socket EXCEPT ![u].asked =
               IF socket[u].on /\ widget[u].tracked THEN @ \o <<"leave", "join">>
               ELSE IF socket[u].on THEN Append(@, "join") ELSE @]

Rejoin(u) == IF widget[u].tracked THEN <<"join">> ELSE <<>>

Connect(u) ==
  /\ ~socket[u].on /\ page[u].token = "valid"
  /\ socket' = [socket EXCEPT ![u] = [Closed EXCEPT !.on = TRUE, !.asked = Rejoin(u)]]
  /\ UNCHANGED <<chatVars, widget, page, job, clock, faults>>

(* The hook reads the token once, and nothing gives the socket a newer one: *)
(* the gateway answers an old one with disconnect(true), and a client that  *)
(* its server has disconnected does not reconnect.                          *)
Refuse(u) ==
  /\ ~socket[u].on /\ page[u].token = "expired"
  /\ page' = [page EXCEPT ![u].token = "refused"]
  /\ UNCHANGED <<messagingVars, widget>>

TokenExpires(u) ==
  /\ page[u].token = "valid"
  /\ page' = [page EXCEPT ![u].token = "expired"]
  /\ UNCHANGED <<messagingVars, widget>>

Disconnect(u) ==
  /\ Faulty
  /\ socket[u].on
  /\ socket' = [socket EXCEPT ![u] = Closed]
  /\ UNCHANGED <<chatVars, widget, page, job, clock>>

(* loadThreads, once per mount; the counter comes from the server's map.    *)
LoadThreads(u) ==
  /\ ~page[u].asked
  /\ page' = [page EXCEPT ![u].asked = TRUE]
  /\ Show(u, [widget[u] EXCEPT
                !.threads = [badge |-> IF u \in DOMAIN thread.unread THEN thread.unread[u] ELSE 0,
                             readOnly |-> thread.status = "archived"],
                !.tracked = TRUE])
  /\ Refresh(u)
  /\ UNCHANGED <<chatVars, job, clock, faults>>

(* The service answers a failed call with an empty list.                    *)
FailThreads(u) ==
  /\ Faulty
  /\ ~page[u].asked
  /\ page' = [page EXCEPT ![u].asked = TRUE]
  /\ UNCHANGED <<chatVars, socket, widget, job, clock>>

---------------------------------------------------------------------------
(* setActiveThread: the history is fetched unless there is a list.          *)
OpenThread(u) ==
  /\ Loaded(u)
  /\ ~widget[u].active
  /\ widget[u].opening = "no"
  /\ Show(u, [widget[u] EXCEPT !.active = TRUE,
                               !.opening = IF widget[u].list = None THEN "asked" ELSE "read"])
  /\ UNCHANGED <<messagingVars, page>>

(* listMessages on the server: the newest first.                            *)
AnswerHistory(u) ==
  /\ widget[u].opening = "asked"
  /\ Show(u, [widget[u] EXCEPT !.opening = "answered",
                               !.history = Reverse([i \in DOMAIN messages |-> i])])
  /\ UNCHANGED <<messagingVars, page>>

(* The service answers a failed call with no messages.                      *)
FailHistory(u) ==
  /\ Faulty
  /\ widget[u].opening = "asked"
  /\ Show(u, [widget[u] EXCEPT !.opening = "answered"])
  /\ UNCHANGED <<chatVars, socket, page, job, clock>>

ShowHistory(u) ==
  /\ widget[u].opening = "answered"
  /\ Show(u, [widget[u] EXCEPT !.opening = "read", !.list = widget[u].history, !.history = <<>>])
  /\ UNCHANGED <<messagingVars, page>>

AskRead(j, u) ==
  /\ widget[u].opening = "read"
  /\ MarkReadLoad(j, u)
  /\ Show(u, [widget[u] EXCEPT !.opening = "reading"])
  /\ UNCHANGED page

(* The counter is reset whether the call succeeded or not.                  *)
ShowRead(u) ==
  /\ widget[u].opening = "reading"
  /\ ~\E j \in Jobs : job[j].op = "read.save" /\ job[j].who = u
  /\ Show(u, [widget[u] EXCEPT !.opening = "no", !.threads.badge = 0])
  /\ Refresh(u)
  /\ UNCHANGED <<chatVars, page, job, clock, faults>>

BackToList(u) ==
  /\ widget[u].active
  /\ Show(u, [widget[u] EXCEPT !.active = FALSE])
  /\ UNCHANGED <<messagingVars, page>>

(* sendMessage; the composer waits for the answer of the one before.  Where *)
(* the thread was loaded open it stays writable, whatever becomes of it.    *)
Send(j, u) ==
  /\ widget[u].active
  /\ ~widget[u].threads.readOnly
  /\ ~\E k \in Jobs : job[k].op \in {"send.check", "send.insert", "send.save", "send.notify"}
                      /\ job[k].who = u
  /\ SendLoad(j, u)
  /\ UNCHANGED <<widget, page>>

---------------------------------------------------------------------------
Added(list, id) ==
  IF list = None THEN <<id>> ELSE IF Contains(list, id) THEN list ELSE Append(list, id)

(* addIncomingMessage: a message that is there already changes nothing; any *)
(* other makes a new threads array.                                         *)
HearMessage(u) ==
  /\ socket[u].wire # <<>> /\ Head(socket[u].wire) # ReadEvent
  /\ LET w == widget[u]
         id == Head(socket[u].wire)
         list == Added(w.list, id)
         mine == messages[id].sender = u
         rest == [socket EXCEPT ![u].wire = Tail(@)]
     IN IF list = w.list
        THEN socket' = rest /\ UNCHANGED widget
        ELSE /\ Show(u, [w EXCEPT !.list = list,
                                  !.threads.badge = IF w.active \/ mine THEN @ ELSE @ + 1])
             /\ socket' = [rest EXCEPT ![u].asked = @ \o <<"leave", "join">>]
  /\ UNCHANGED <<chatVars, page, job, clock, faults>>

(* markAsRead: a thread without a list gets an empty one.                   *)
HearRead(u) ==
  /\ socket[u].wire # <<>> /\ Head(socket[u].wire) = ReadEvent
  /\ socket' = [socket EXCEPT ![u].wire = Tail(@)]
  /\ Show(u, [widget[u] EXCEPT !.list = IF @ = None THEN <<>> ELSE @])
  /\ UNCHANGED <<chatVars, page, job, clock, faults>>

---------------------------------------------------------------------------
Arrivals(u) ==
  \/ AnswerHistory(u) \/ ShowHistory(u) \/ ShowRead(u)
  \/ HearMessage(u) \/ HearRead(u)

Attempt(u) == Connect(u) \/ Refuse(u)
ThreadsAnswer(u) == LoadThreads(u) \/ FailThreads(u)
WidgetStep(u) == Attempt(u) \/ LoadThreads(u) \/ Arrivals(u)
WidgetFails(u) == Disconnect(u) \/ TokenExpires(u) \/ FailThreads(u) \/ FailHistory(u)

Init ==
  /\ MessagingInit
  /\ widget = [u \in Watchers |-> NoWidget]
  /\ page = [u \in Watchers |-> [token |-> "valid", asked |-> FALSE]]

Next ==
  \/ ServerNext /\ UNCHANGED <<widget, page>>
  \/ Restart /\ UNCHANGED <<widget, page>>
  \/ \E u \in Watchers :
       \/ WidgetStep(u) \/ WidgetFails(u) \/ OpenThread(u) \/ BackToList(u)
       \/ \E j \in Jobs : AskRead(j, u) \/ Send(j, u)

(* The server answers, the gateway handles what it is sent, a join's        *)
(* look-up returns or fails, the browser attempts to reconnect until it is  *)
(* refused (reconnectionAttempts: Infinity) and handles what arrives, a     *)
(* failed call included.  Nobody has to send, open or close anything.       *)
Fairness ==
  /\ \A j \in Jobs : WF_widgetVars(ServerStep(j) /\ UNCHANGED <<widget, page>>)
  /\ \A u \in Watchers :
       /\ WF_widgetVars(Command(u) /\ UNCHANGED <<widget, page>>)
       /\ WF_widgetVars((Join(u) \/ LoseJoin(u)) /\ UNCHANGED <<widget, page>>)
       /\ WF_widgetVars(Attempt(u))
       /\ WF_widgetVars(ThreadsAnswer(u))
       /\ WF_widgetVars(Arrivals(u))

Spec == Init /\ [][Next]_widgetVars
FairSpec == Spec /\ Fairness

---------------------------------------------------------------------------
(* The list shows each message once, though the history and the socket both *)
(* bring it.                                                                *)
ShownOnce ==
  \A u \in Watchers : widget[u].list # None => IsInjective(widget[u].list)

(* What keeps a widget out of the room, and it does not retry by itself:    *)
(* its token had expired when it connected, its one loadThreads failed, or  *)
(* the look-up of its last join did.                                        *)
KeptOut(u) ==
  \/ page[u].token = "refused"
  \/ page[u].asked /\ ~Loaded(u)
  \/ socket[u].missed

(* However often the connection drops and the threads change, only these    *)
(* keep a widget from coming back into the room of its thread: no leave     *)
(* overtakes the join after it, and a new connection joins what the old one *)
(* had.                                                                     *)
AlwaysBackInRoom == \A u \in Watchers : []<>(socket[u].room \/ KeptOut(u))
==============================================================================
