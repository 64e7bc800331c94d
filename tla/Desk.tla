---------------------------------- MODULE Desk ----------------------------------
(****************************************************************************)
(* The messages page of a provider: the store of                            *)
(* dashboard/provider/messages, the page, its chat window and the socket of *)
(* use-messages-socket.ts, with as much of the server as they notice.       *)
(* Unlike the chat widget (module Widget) the page has several threads and  *)
(* shows one; it copies what it sends into the list, appends whatever the   *)
(* socket brings, and lets a history replace both.                          *)
(*                                                                          *)
(* A job is a call of the page, until its answer has been handled, or a     *)
(* message on the server that its sockets have not been told of.            *)
(****************************************************************************)
EXTENDS Backend, Lists, SequencesExt

(* MaxTexts bounds the messages of a behaviour.                             *)
CONSTANTS Threads, MaxTexts

ASSUME DeskAssumption == None \notin Threads /\ MaxTexts \in Nat

(* texts are the messages in the order they were written, each with its     *)
(* thread; stored are those the server has, oldest first.                   *)
VARIABLES texts, stored

(* desk is the page, open or not, and the store, which outlives it: the     *)
(* active thread, None before the first list of threads has come, and the   *)
(* numbers of the messages in each thread's list.  line is the socket: its  *)
(* rooms on the server, what the page has sent, the joins that wait for     *)
(* isParticipant, and the messages on the way back.                         *)
VARIABLES desk, line

deskVars == <<texts, stored, desk, line, job, clock, faults>>

Hung == [on |-> FALSE, rooms |-> {}, sent |-> <<>>, joins |-> [t \in Threads |-> 0], wire |-> <<>>]

Of(t, list) == Sifted(list, {k \in DOMAIN texts : texts[k] = t})

---------------------------------------------------------------------------
(* Slips: operators of the code below as a plausible error would have them. *)
(* No specification uses them; each makes one of the properties fail.       *)
JoinsOnce(old, new) == IF old = None THEN <<<<"join", new>>>> ELSE <<>>

---------------------------------------------------------------------------
(* The effect of the chat window when another thread becomes active.        *)
Switched(old, new) ==
  (IF old = None THEN <<>> ELSE <<<<"leave", old>>>>) \o <<<<"join", new>>>>

(* Where the page is closed nobody follows.                                 *)
Follow(new) ==
  line' = IF desk.open /\ new # desk.active
          THEN [line EXCEPT !.sent = @ \o Switched(desk.active, new)]
          ELSE line

(* setActiveThread: no call for the thread that is active already and has   *)
(* messages, else the history.                                              *)
Activated(j, t, active) ==
  IF active = t /\ desk.lists[t] # <<>>
  THEN Finish(j)
  ELSE Become(j, [op |-> "history", thread |-> t])

ClickThread(j, t) ==
  /\ Free(j) /\ desk.open /\ desk.active # None
  /\ ~(desk.active = t /\ desk.lists[t] # <<>>)
  /\ Activated(j, t, desk.active)
  /\ desk' = [desk EXCEPT !.active = t]
  /\ Follow(t)
  /\ UNCHANGED <<texts, stored, clock, faults>>

(* listMessages: the newest first.                                          *)
AnswerMessages(j) ==
  /\ job[j].op = "history"
  /\ Become(j, [op |-> "show", thread |-> job[j].thread,
                answer |-> Reverse(Of(job[j].thread, stored))])
  /\ UNCHANGED <<texts, stored, desk, line, clock, faults>>

(* The list is that of the thread asked for, whichever is active by now.    *)
Listed(j) == [desk.lists EXCEPT ![job[j].thread] = job[j].answer]

ShowMessages(j) ==
  /\ job[j].op = "show"
  /\ desk' = [desk EXCEPT !.lists = Listed(j)]
  /\ Finish(j)
  /\ UNCHANGED <<texts, stored, line, clock, faults>>

---------------------------------------------------------------------------
(* The page is opened: init asks for the threads, and a chat window that    *)
(* has an active thread from an earlier visit connects and joins it.        *)
OpenPage(j) ==
  /\ Free(j) /\ ~desk.open
  /\ Become(j, [op |-> "threads"])
  /\ desk' = [desk EXCEPT !.open = TRUE]
  /\ line' = IF desk.active = None
             THEN Hung
             ELSE [Hung EXCEPT !.sent = Switched(None, desk.active)]
  /\ UNCHANGED <<texts, stored, clock, faults>>

(* The cleanup of the hook disconnects; the leave after it finds no socket. *)
ClosePage ==
  /\ desk.open
  /\ desk' = [desk EXCEPT !.open = FALSE]
  /\ line' = Hung
  /\ UNCHANGED <<texts, stored, job, clock, faults>>

(* listThreads: first the thread with the latest message, as far as the     *)
(* handlers of messages have saved it; before any the one created last.     *)
AnswerThreads(j, t) ==
  /\ job[j].op = "threads"
  /\ stored # <<>> => (texts[Last(stored)] = t \/ \E i \in Jobs : job[i].op = "tell")
  /\ Become(j, [op |-> "init", first |-> t])
  /\ UNCHANGED <<texts, stored, desk, line, clock, faults>>

(* init makes the first thread active, whatever was chosen meanwhile, and   *)
(* then calls setActiveThread, which finds it active.                       *)
ShowThreads(j) ==
  /\ job[j].op = "init"
  /\ LET first == job[j].first
     IN /\ desk' = [desk EXCEPT !.active = first]
        /\ Activated(j, first, first)
        /\ Follow(first)
  /\ UNCHANGED <<texts, stored, clock, faults>>

---------------------------------------------------------------------------
(* sendMessage: the copy is in the list before the call, and stays there    *)
(* whatever becomes of it.                                                  *)
ShownAtOnce(t, k) == [desk EXCEPT !.lists[t] = Append(@, k)]

(* The composer does not wait for the call before.                          *)
Compose(j) ==
  /\ Free(j) /\ desk.open /\ desk.active # None
  /\ Len(texts) < MaxTexts
  /\ texts' = Append(texts, desk.active)
  /\ desk' = ShownAtOnce(desk.active, Len(texts) + 1)
  /\ Become(j, [op |-> "post", text |-> Len(texts) + 1])
  /\ UNCHANGED <<stored, line, clock, faults>>

Store(j) ==
  /\ job[j].op = "post"
  /\ stored' = Append(stored, job[j].text)
  /\ Become(j, [op |-> "tell", text |-> job[j].text])
  /\ UNCHANGED <<texts, desk, line, clock, faults>>

(* The rate limit, a chat that is closed: the error is dropped.             *)
Turn(j) ==
  /\ job[j].op = "post"
  /\ Finish(j)
  /\ UNCHANGED <<texts, stored, desk, line, clock, faults>>

CustomerWrites(j, t) ==
  /\ Free(j)
  /\ Len(texts) < MaxTexts
  /\ texts' = Append(texts, t)
  /\ stored' = Append(stored, Len(texts) + 1)
  /\ Become(j, [op |-> "tell", text |-> Len(texts) + 1])
  /\ UNCHANGED <<desk, line, clock, faults>>

(* message:new goes to the room, to the author as well.                     *)
Tell(j) ==
  /\ job[j].op = "tell"
  /\ line' = IF texts[job[j].text] \in line.rooms
             THEN [line EXCEPT !.wire = Append(@, job[j].text)]
             ELSE line
  /\ Finish(j)
  /\ UNCHANGED <<texts, stored, desk, clock, faults>>

(* addIncoming appends, whether the list has the message or not.            *)
AddIncoming ==
  /\ line.wire # <<>>
  /\ LET k == Head(line.wire)
     IN desk' = [desk EXCEPT !.lists[texts[k]] = Append(@, k)]
  /\ line' = [line EXCEPT !.wire = Tail(@)]
  /\ UNCHANGED <<texts, stored, job, clock, faults>>

(* A call fails: what waited for its answer is over.  A message already     *)
(* stored is then not told of.                                              *)
DeskAbort(j) ==
  /\ job[j].op \in {"history", "threads", "post", "tell"}
  /\ Abort(j)
  /\ UNCHANGED <<texts, stored, desk, line>>

---------------------------------------------------------------------------
(* The socket connects by itself, and sends what was said before.  Rooms    *)
(* it had are not joined again.                                             *)
Dial ==
  /\ desk.open /\ desk.active # None /\ ~line.on
  /\ line' = [line EXCEPT !.on = TRUE]
  /\ UNCHANGED <<texts, stored, desk, job, clock, faults>>

DropLine ==
  /\ Faulty
  /\ line.on
  /\ line' = Hung
  /\ UNCHANGED <<texts, stored, desk, job, clock>>

(* The gateway: a leave takes effect at once, a join after a look-up.       *)
Obey ==
  /\ line.on /\ line.sent # <<>>
  /\ LET said == Head(line.sent)
         rest == [line EXCEPT !.sent = Tail(@)]
     IN line' = IF said[1] = "leave"
                THEN [rest EXCEPT !.rooms = @ \ {said[2]}]
                ELSE [rest EXCEPT !.joins[said[2]] = @ + 1]
  /\ UNCHANGED <<texts, stored, desk, job, clock, faults>>

Admit(t) ==
  /\ line.joins[t] > 0
  /\ line' = [line EXCEPT !.joins[t] = @ - 1, !.rooms = @ \cup {t}]
  /\ UNCHANGED <<texts, stored, desk, job, clock, faults>>

---------------------------------------------------------------------------
DeskInit ==
  /\ texts = <<>> /\ stored = <<>>
  /\ desk = [open |-> FALSE, active |-> None, lists |-> [t \in Threads |-> <<>>]]
  /\ line = Hung

DeskNext ==
  \/ \E j \in Jobs :
       \/ OpenPage(j) \/ ShowThreads(j) \/ AnswerMessages(j) \/ ShowMessages(j)
       \/ Compose(j) \/ Store(j) \/ Turn(j) \/ Tell(j) \/ DeskAbort(j)
       \/ \E t \in Threads : ClickThread(j, t) \/ AnswerThreads(j, t) \/ CustomerWrites(j, t)
  \/ ClosePage \/ AddIncoming \/ Dial \/ DropLine \/ Obey
  \/ \E t \in Threads : Admit(t)

DeskSpec == BackendInit /\ DeskInit /\ [][DeskNext]_deskVars

---------------------------------------------------------------------------
(* However late its history comes, a thread's list has messages of that     *)
(* thread only.                                                             *)
OwnMessages == \A t \in Threads : Of(t, desk.lists[t]) = desk.lists[t]

(* Whatever was clicked and whichever list of threads came in between, once *)
(* the gateway has done what it was told the open page is in the room of    *)
(* the thread it shows; after a lost connection it is not.                  *)
InItsRoom ==
  (faults = 0 /\ line.on /\ line.sent = <<>> /\ \A t \in Threads : line.joins[t] = 0) =>
    desk.active \in line.rooms

(* The page shows and hears the thread that is open.                        *)
DeskFollowsThread == OwnMessages /\ InItsRoom
=================================================================================
