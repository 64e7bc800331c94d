------------------------------- MODULE MCWidget -------------------------------
(* Small instances of Widget.  A behaviour is about one of two parts: the   *)
(* server's chat, with every operation, and no socket; or the widget of one *)
(* participant, in a chat that stays open, where what counts is the order   *)
(* of two messages, read marks and events.                                  *)
EXTENDS Widget

VARIABLE part

mcVars == <<widgetVars, part>>

HasSent(u) ==
  \/ \E i \in DOMAIN messages : messages[i].sender = u
  \/ \E j \in Jobs : job[j].op \in {"send.check", "send.insert"} /\ job[j].who = u

MCInit == Init /\ part \in {"chat", "widget"}

(* Bounds of the part about the widget: each user sends one message; the    *)
(* peer reads, and the user opens the thread, when the traces of the last   *)
(* time are off the wire.                                                   *)
Quiet(u) == socket[u].asked = <<>> /\ socket[u].joining = 0 /\ ReadEvent \notin Range(socket[u].wire)

ChatNext ==
  \/ ServerNext
  \/ \E j \in Jobs, u \in Watchers : MarkReadLoad(j, u)
  \/ Restart

PeerNext(u) ==
  \/ \E j \in Jobs : ~HasSent(Other(u)) /\ SendLoad(j, Other(u))
  \/ \E j \in Jobs : Quiet(u) /\ job = [k \in Jobs |-> Idle] /\ MarkReadLoad(j, Other(u))
  \/ \E j \in Jobs : SendCheck(j, TRUE) \/ InsertMessage(j) \/ SaveThread(j) \/ EmitSent(j)
  \/ \E j \in Jobs : MarkReadSave(j)
  \/ Command(u) \/ Join(u) \/ LoseJoin(u)

UserNext(u) ==
  \/ Quiet(u) /\ OpenThread(u)
  \/ widget[u].opening # "asked" /\ BackToList(u)
  \/ \E j \in Jobs : AskRead(j, u)
  \/ \E j \in Jobs : ~HasSent(u) /\ Send(j, u)

MCNext ==
  \/ part = "chat" /\ ChatNext /\ UNCHANGED <<widget, page, part>>
  \/ \E u \in Watchers : part = "widget" /\ PeerNext(u) /\ UNCHANGED <<widget, page, part>>
  \/ \E u \in Watchers : part = "widget" /\ UserNext(u) /\ UNCHANGED part
  \/ \E u \in Watchers : part = "widget" /\ WidgetStep(u) /\ UNCHANGED part
  \/ \E u \in Watchers : part = "widget" /\ WidgetFails(u) /\ UNCHANGED part

MCFairness ==
  /\ \A j \in Jobs : WF_mcVars(ServerStep(j) /\ UNCHANGED <<widget, page, part>>)
  /\ \A u \in Watchers :
       /\ WF_mcVars(Command(u) /\ UNCHANGED <<widget, page, part>>)
       /\ WF_mcVars((Join(u) \/ LoseJoin(u)) /\ UNCHANGED <<widget, page, part>>)
       /\ WF_mcVars(part = "widget" /\ Attempt(u) /\ UNCHANGED part)
       /\ WF_mcVars(part = "widget" /\ ThreadsAnswer(u) /\ UNCHANGED part)
       /\ WF_mcVars(part = "widget" /\ Arrivals(u) /\ UNCHANGED part)

MCSpec == MCInit /\ [][MCNext]_mcVars
FairMCSpec == MCSpec /\ MCFairness

(* AlwaysBackInRoom, of the part that has a widget.                         *)
WidgetBackInRoom == part = "widget" => AlwaysBackInRoom
==============================================================================
