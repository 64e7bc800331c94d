------------------------------- MODULE Messaging -------------------------------
(****************************************************************************)
(* The chat of one order on the server: messaging.service.ts.  Sending      *)
(* loads the thread, then the order, and stores the message and the thread  *)
(* in later calls; the event for the sockets is emitted when the            *)
(* notification has been stored too.  The two participants are Peers; the   *)
(* thread exists (module Fulfilment creates it).                            *)
(*                                                                          *)
(* unreadCounts is a Mixed path that is changed in place: Mongoose sends it *)
(* only while the stored document has none, when it is a default value.     *)
(****************************************************************************)
EXTENDS Backend, Sequences, FiniteSets

(* Window and Limit are the 5 minutes and 30 messages of the rate limit,    *)
(* Grace the 7 days after completion.  MaxMessages bounds what is stored.   *)
(* Watchers are the participants with a socket, one each.                   *)
CONSTANTS Peers, Watchers, Window, Limit, Grace, MaxMessages

ASSUME MessagingAssumption ==
  /\ Cardinality(Peers) = 2 /\ Watchers \subseteq Peers
  /\ Window \in Nat /\ Limit \in Nat \ {0} /\ Grace \in Nat /\ MaxMessages \in Nat
  /\ IsFiniteSet(Jobs)

(* thread.unread is a function on the users the stored map has keys for.    *)
(* order is the order of the thread.  rate lives in the memory of the       *)
(* process, as jobs do; lastMessageAt is left out.                          *)
VARIABLES thread, order, messages, rate

(* The gateway: whether the socket of a watcher is connected and in the     *)
(* room of the thread, its thread:join and thread:leave on their way, how   *)
(* many joins wait for isParticipant, and the events on the way back; and,  *)
(* as a history, whether the last of its joins was lost with its look-up.   *)
VARIABLE socket

chatVars == <<thread, order, messages, rate>>
messagingVars == <<chatVars, socket, job, clock, faults>>

Other(u) == CHOOSE v \in Peers : v # u
Blank == <<>>
Closed ==
  [on |-> FALSE, room |-> FALSE, asked |-> <<>>, joining |-> 0, wire |-> <<>>, missed |-> FALSE]

OrderType ==
  [status : {"assigned", "completed", "canceled"}, completedAt : Nat \cup {None}]
MessageType == [sender : Peers, admitted : Nat]

(* message:new carries the number of its message, message:read nothing.     *)
ReadEvent == 0
SocketType ==
  [on : BOOLEAN, room : BOOLEAN, asked : Seq({"join", "leave"}), joining : Nat, wire : Seq(Nat),
   missed : BOOLEAN]

---------------------------------------------------------------------------
(* Slips: operators of the code below as a plausible error would have them. *)
(* No specification uses them; each makes one of the properties fail.       *)
OneTooMany(u) == Cardinality({i \in DOMAIN rate[u] : clock - rate[u][i] < Window}) > Limit
WholeThread(changes) == [status |-> "open", unread |-> changes]

---------------------------------------------------------------------------
(* ensureCanSend.                                                           *)
OrderAdmits ==
  /\ order.status # "canceled"
  /\ order.status = "completed" =>
       order.completedAt # None /\ clock - order.completedAt <= Grace

(* What is left of rate[u] when the times older than Window are dropped.    *)
Recent(u) ==
  LET young[i \in 0..Len(rate[u])] ==
        IF i = 0 THEN <<>>
        ELSE IF clock - rate[u][i] < Window THEN Append(young[i - 1], rate[u][i])
        ELSE young[i - 1]
  IN young[Len(rate[u])]
OverLimit(u) == Len(Recent(u)) >= Limit

(* The map as the save sends it: in full from a default, else not at all.   *)
Counted(loaded, u, n) == IF loaded = Blank THEN [v \in {u} |-> n] ELSE thread.unread

SendLoad(j, u) ==
  /\ Free(j)
  /\ thread.status = "open"
  /\ Become(j, [op |-> "send.check", who |-> u, unread |-> thread.unread])
  /\ UNCHANGED <<chatVars, socket, clock, faults>>

(* A refused attachment has been counted by the rate limit all the same.    *)
SendCheck(j, attachmentOk) ==
  /\ job[j].op = "send.check"
  /\ LET u == job[j].who
     IN IF OrderAdmits /\ ~OverLimit(u)
        THEN /\ rate' = [rate EXCEPT ![u] = Append(Recent(u), clock)]
             /\ Become(j, IF attachmentOk
                          THEN [op |-> "send.insert", who |-> u, unread |-> job[j].unread, at |-> clock]
                          ELSE Idle)
        ELSE Finish(j) /\ UNCHANGED rate
  /\ UNCHANGED <<thread, order, messages, socket, clock, faults>>

InsertMessage(j) ==
  /\ job[j].op = "send.insert"
  /\ Len(messages) < MaxMessages
  /\ messages' = Append(messages, [sender |-> job[j].who, admitted |-> job[j].at])
  /\ Become(j, [op |-> "send.save", who |-> job[j].who, unread |-> job[j].unread,
                id |-> Len(messages) + 1])
  /\ UNCHANGED <<thread, order, rate, socket, clock, faults>>

(* save() sends the fields whose assignment changed them.                   *)
SavedThread(changes) == [thread EXCEPT !.unread = changes]

SaveThread(j) ==
  /\ job[j].op = "send.save"
  /\ thread' = SavedThread(Counted(job[j].unread, Other(job[j].who), 1))
  /\ Become(j, [op |-> "send.notify", who |-> job[j].who, id |-> job[j].id])
  /\ UNCHANGED <<order, messages, rate, socket, clock, faults>>

(* To the sockets of the room.                                              *)
Emit(event) ==
  socket' = [u \in Watchers |-> IF socket[u].room
                               THEN [socket[u] EXCEPT !.wire = Append(@, event)]
                               ELSE socket[u]]

(* The notification has been stored, or its failure caught.                 *)
EmitSent(j) ==
  /\ job[j].op = "send.notify"
  /\ Emit(job[j].id)
  /\ Finish(j)
  /\ UNCHANGED <<chatVars, clock, faults>>

---------------------------------------------------------------------------
MarkReadLoad(j, u) ==
  /\ Free(j)
  /\ Become(j, [op |-> "read.save", who |-> u, unread |-> thread.unread])
  /\ UNCHANGED <<chatVars, socket, clock, faults>>

MarkReadSave(j) ==
  /\ job[j].op = "read.save"
  /\ thread' = SavedThread(Counted(job[j].unread, job[j].who, 0))
  /\ Emit(ReadEvent)
  /\ Finish(j)
  /\ UNCHANGED <<order, messages, rate, clock, faults>>

(* archive by a participant, and the listener of an order that has ended.   *)
ArchiveLoad(j) ==
  /\ Free(j)
  /\ Become(j, [op |-> "archive.save"])
  /\ UNCHANGED <<chatVars, socket, clock, faults>>

OrderEnds(j, status) ==
  /\ Free(j)
  /\ order.status = "assigned"
  /\ order' = [status |-> status, completedAt |-> IF status = "completed" THEN clock ELSE None]
  /\ Become(j, [op |-> "archive.save"])
  /\ UNCHANGED <<thread, messages, rate, socket, clock, faults>>

(* An order completed with its request tells the chat nothing.              *)
OrderCompletesSilently ==
  /\ order.status = "assigned"
  /\ order' = [status |-> "completed", completedAt |-> clock]
  /\ UNCHANGED <<thread, messages, rate, socket, job, clock, faults>>

ArchiveSave(j) ==
  /\ job[j].op = "archive.save"
  /\ thread' = [thread EXCEPT !.status = "archived"]
  /\ Finish(j)
  /\ UNCHANGED <<order, messages, rate, socket, clock, faults>>

(* A restart empties the rate limit's memory and closes the sockets.        *)
Restart ==
  /\ Crash
  /\ rate' = [u \in Peers |-> <<>>]
  /\ socket' = [u \in Watchers |-> Closed]
  /\ UNCHANGED <<thread, order, messages>>

ChatAbort(j) ==
  /\ ~Free(j)
  /\ Abort(j)
  /\ UNCHANGED <<chatVars, socket>>

---------------------------------------------------------------------------
(* The gateway.  A leave takes effect at once, a join when the look-up of   *)
(* isParticipant returns; the next command does not wait for it.            *)
Obeyed(s) ==
  IF Head(s.asked) = "leave"
  THEN [s EXCEPT !.asked = Tail(@), !.room = FALSE]
  ELSE [s EXCEPT !.asked = Tail(@), !.joining = @ + 1]

Command(u) ==
  /\ socket[u].asked # <<>>
  /\ socket' = [socket EXCEPT ![u] = Obeyed(@)]
  /\ UNCHANGED <<chatVars, job, clock, faults>>

Join(u) ==
  /\ socket[u].joining > 0
  /\ socket' = [socket EXCEPT ![u].joining = @ - 1, ![u].room = TRUE, ![u].missed = FALSE]
  /\ UNCHANGED <<chatVars, job, clock, faults>>

(* The look-up fails, and the client is told nothing it listens for.        *)
LoseJoin(u) ==
  /\ Faulty
  /\ socket[u].joining > 0
  /\ socket' = [socket EXCEPT ![u].joining = @ - 1, ![u].missed = TRUE]
  /\ UNCHANGED <<chatVars, job, clock>>

---------------------------------------------------------------------------
ServerStep(j) ==
  \/ SendCheck(j, TRUE) \/ SendCheck(j, FALSE) \/ InsertMessage(j) \/ SaveThread(j) \/ EmitSent(j)
  \/ MarkReadSave(j) \/ ArchiveSave(j)

ServerNext ==
  \/ \E j \in Jobs, u \in Peers \ Watchers : SendLoad(j, u) \/ MarkReadLoad(j, u)
  \/ \E j \in Jobs : ArchiveLoad(j) \/ ServerStep(j) \/ ChatAbort(j)
  \/ \E j \in Jobs, status \in {"completed", "canceled"} : OrderEnds(j, status)
  \/ OrderCompletesSilently
  \/ \E u \in Watchers : Command(u) \/ Join(u) \/ LoseJoin(u)
  \/ Tick /\ UNCHANGED <<chatVars, socket>>

MessagingInit ==
  /\ BackendInit
  /\ thread = [status |-> "open", unread |-> Blank]
  /\ order = [status |-> "assigned", completedAt |-> None]
  /\ messages = <<>>
  /\ rate = [u \in Peers |-> <<>>]
  /\ socket = [u \in Watchers |-> Closed]

---------------------------------------------------------------------------
(* No user has more than Limit messages admitted within any Window, however *)
(* many sends are in flight, while the process lives: the limit counts      *)
(* before the message is stored and only in memory.                         *)
RateLimited ==
  faults = 0 =>
    \A u \in Peers, i \in DOMAIN messages :
      Cardinality({k \in DOMAIN messages :
                     /\ messages[k].sender = u
                     /\ messages[i].admitted - messages[k].admitted \in 0..(Window - 1)}) <= Limit

(* A chat that was archived is not opened again by a message or a read mark *)
(* whose handler had loaded it open.                                        *)
ArchivedStays == [][thread.status = "archived" => thread'.status = "archived"]_messagingVars
==============================================================================
