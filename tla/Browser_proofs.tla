----------------------------- MODULE Browser_proofs -----------------------------
(****************************************************************************)
(* The parts of the browser, for any numbers of calls in flight and of      *)
(* faults: what the bell counts, the streams, how a page finds out who is   *)
(* signed in, the buttons, the forms, the lists and the messages page.      *)
(****************************************************************************)
EXTENDS MCBrowser, FiniteSetTheorems, SequenceTheorems, WellFoundedInduction, TLAPS

---------------------------------------------------------------------------
(* The notifications.  A handler of the service is about to store one, to   *)
(* mark one or to tell of what it has done.                                 *)
InboxJob ==
  {[op |-> "mail"]} \cup [op : {"mark"}, note : Notes] \cup [op : {"emit"}, event : Events]

(* The panel holds finitely many, as the service has created finitely many, *)
(* and the bell counts no more of them than are unread.                     *)
TabOK(t) ==
  /\ t \in TabType
  /\ IsFiniteSet(DOMAIN t.panel) /\ IsFiniteSet(DOMAIN t.answer)
  /\ t.badge <= Cardinality(Unread(t.panel))

InboxOK ==
  /\ notes \in [Notes -> NoteState]
  /\ IsFiniteSet({n \in Notes : notes[n] # "none"})
  /\ job \in [Jobs -> InboxJob \cup {Idle}]
  /\ TabOK(tab)

LEMMA UnreadFinite ==
  ASSUME NEW t, TabOK(t)
  PROVE  /\ IsFiniteSet(Unread(t.panel)) /\ Cardinality(Unread(t.panel)) \in Nat
         /\ t.panel \in List /\ t.badge \in Nat
  <1>1. Unread(t.panel) \subseteq DOMAIN t.panel
    BY DEF Unread
  <1> QED  BY <1>1, FS_Subset, FS_CardinalityType DEF TabOK, TabType

(* What the panel is after an event.                                        *)
LEMMA LessOK ==
  ASSUME NEW badge \in Nat, NEW m \in Nat, badge <= m + 1
  PROVE  Less(badge) \in Nat /\ Less(badge) <= m
  BY DEF Less

LEMMA PanelOK ==
  ASSUME NEW t, TabOK(t), NEW p \in List, IsFiniteSet(DOMAIN p),
         NEW b \in Nat, b <= Cardinality(Unread(p)), NEW u, u = [t EXCEPT !.panel = p, !.badge = b]
  PROVE  TabOK(u)
  <1>1. u \in TabType /\ u.panel = p /\ u.badge = b /\ u.answer = t.answer
    BY DEF TabOK, TabType
  <1> QED  BY <1>1 DEF TabOK

LEMMA WithOK ==
  ASSUME NEW items \in List, IsFiniteSet(DOMAIN items), NEW n \in Notes,
         NEW state \in {"unread", "read"}
  PROVE  /\ With(items, n, state) \in List /\ IsFiniteSet(DOMAIN With(items, n, state))
         /\ Unread(With(items, n, state))
              = (Unread(items) \ {n}) \cup (IF state = "unread" THEN {n} ELSE {})
  <1>1. PICK S : S = DOMAIN items \cup {n}
    OBVIOUS
  <1>2. S \in SUBSET Notes /\ IsFiniteSet(S)
    BY <1>1, FS_AddElement DEF List
  <1>3. With(items, n, state) \in [S -> {"unread", "read"}]
    BY <1>1 DEF With, List
  <1>4. Unread(With(items, n, state))
          = (Unread(items) \ {n}) \cup (IF state = "unread" THEN {n} ELSE {})
    BY <1>1 DEF With, List, Unread
  <1> QED  BY <1>2, <1>3, <1>4 DEF List

LEMMA WithoutOK ==
  ASSUME NEW items \in List, IsFiniteSet(DOMAIN items), NEW n
  PROVE  /\ Without(items, n) \in List /\ IsFiniteSet(DOMAIN Without(items, n))
         /\ Unread(Without(items, n)) = Unread(items) \ {n}
  <1>1. PICK S : S = DOMAIN items \ {n}
    OBVIOUS
  <1>2. S \in SUBSET Notes /\ IsFiniteSet(S)
    BY <1>1, FS_Subset DEF List
  <1>3. Without(items, n) \in [S -> {"unread", "read"}]
    BY <1>1 DEF Without, List
  <1>4. Unread(Without(items, n)) = Unread(items) \ {n}
    BY <1>1 DEF Without, List, Unread
  <1> QED  BY <1>2, <1>3, <1>4 DEF List

(* The store after an event, or after the answer to the user's own call.    *)
LEMMA HandledOK ==
  ASSUME NEW t, TabOK(t), NEW event \in Events
  PROVE  TabOK(Handled(t, event))
  <1>0. /\ t.panel \in List /\ t.badge \in Nat /\ IsFiniteSet(DOMAIN t.panel)
        /\ t \in TabType /\ t.badge <= Cardinality(Unread(t.panel))
    BY UnreadFinite DEF TabOK
  <1>1. PICK U : U = Unread(t.panel)
    OBVIOUS
  <1>2. IsFiniteSet(U) /\ Cardinality(U) \in Nat /\ t.badge <= Cardinality(U)
    BY <1>0, <1>1, UnreadFinite
  <1>3. ASSUME NEW n
        PROVE  /\ Cardinality(U \ {n}) \in Nat
               /\ n \in U => Cardinality(U \ {n}) + 1 = Cardinality(U)
               /\ n \notin U => Cardinality(U \ {n}) = Cardinality(U)
               /\ n \notin U => Cardinality(U \cup {n}) = Cardinality(U) + 1
    <2>1. Cardinality(U \ {n}) = IF n \in U THEN Cardinality(U) - 1 ELSE Cardinality(U)
      BY <1>2, FS_RemoveElement
    <2>2. Cardinality(U \ {n}) \in Nat
      BY <1>2, FS_RemoveElement, FS_CardinalityType
    <2>3. n \notin U => Cardinality(U \cup {n}) = Cardinality(U) + 1
      BY <1>2, FS_AddElement
    <2> QED  BY <1>2, <2>1, <2>2, <2>3
  <1>4. Less(t.badge) \in Nat /\ (t.badge = 0 \/ Less(t.badge) = t.badge - 1) /\ Less(t.badge) <= t.badge
    BY <1>0 DEF Less
  <1>5. ASSUME NEW n \in Notes  PROVE TabOK(Added(t, n))
    <2>1. CASE n \in DOMAIN t.panel
      BY <2>1 DEF Added
    <2>2. CASE n \notin DOMAIN t.panel
      <3>1. PICK p : p = With(t.panel, n, "unread")
        OBVIOUS
      <3>2. p \in List /\ IsFiniteSet(DOMAIN p) /\ Unread(p) = (U \ {n}) \cup {n} /\ n \notin U
        BY <1>0, <1>1, <2>2, <3>1, WithOK DEF Unread
      <3>3. Unread(p) = U \cup {n}
        BY <3>2
      <3>4. t.badge + 1 \in Nat /\ t.badge + 1 <= Cardinality(Unread(p))
        BY <1>0, <1>2, <1>3, <3>2, <3>3
      <3>5. Added(t, n) = [t EXCEPT !.panel = p, !.badge = t.badge + 1]
        BY <1>0, <2>2, <3>1 DEF Added, TabType
      <3> QED  BY <3>2, <3>4, <3>5, PanelOK
    <2> QED  BY <2>1, <2>2
  <1>6. ASSUME NEW n \in Notes  PROVE TabOK(MarkedRead(t, n))
    <2>1. PICK p : p = IF n \in DOMAIN t.panel THEN With(t.panel, n, "read") ELSE t.panel
      OBVIOUS
    <2>2. p \in List /\ IsFiniteSet(DOMAIN p) /\ Unread(p) = U \ {n}
      <3>1. CASE n \in DOMAIN t.panel
        BY <1>0, <1>1, <2>1, <3>1, WithOK
      <3>2. CASE n \notin DOMAIN t.panel
        BY <1>0, <1>1, <2>1, <3>2 DEF Unread
      <3> QED  BY <3>1, <3>2
    <2>3. Less(t.badge) <= Cardinality(Unread(p))
      <3>1. PICK m \in Nat : m = Cardinality(U \ {n}) /\ Cardinality(U) <= m + 1
        BY <1>2, <1>3
      <3> QED  BY <1>0, <1>2, <2>2, <3>1, LessOK
    <2>4. MarkedRead(t, n) = [t EXCEPT !.panel = p, !.badge = Less(t.badge)]
      BY <1>0, <2>1 DEF MarkedRead, TabType
    <2> QED  BY <1>4, <2>2, <2>3, <2>4, PanelOK
  <1>7. ASSUME NEW n \in Notes  PROVE TabOK(Removed(t, n))
    <2>1. CASE n \notin DOMAIN t.panel
      BY <2>1 DEF Removed
    <2>2. CASE n \in DOMAIN t.panel
      <3>1. PICK p : p = Without(t.panel, n)
        OBVIOUS
      <3>2. p \in List /\ IsFiniteSet(DOMAIN p) /\ Unread(p) = U \ {n}
        BY <1>0, <1>1, <3>1, WithoutOK
      <3>3. PICK b \in Nat : b = IF t.panel[n] = "unread" THEN Less(t.badge) ELSE t.badge
        BY <1>0, <1>4
      <3>4. n \in U <=> t.panel[n] = "unread"
        BY <1>1, <2>2 DEF Unread
      <3>5. b <= Cardinality(Unread(p))
        <4>1. PICK m \in Nat : /\ m = Cardinality(U \ {n}) /\ Cardinality(U) <= m + 1
                               /\ n \notin U => Cardinality(U) = m
          BY <1>2, <1>3
        <4>2. Less(t.badge) <= m
          BY <1>0, <1>2, <4>1, LessOK
        <4>3. CASE t.panel[n] = "unread"
          BY <3>2, <3>3, <4>1, <4>2, <4>3
        <4>4. CASE t.panel[n] # "unread"
          BY <1>2, <3>2, <3>3, <3>4, <4>1, <4>4
        <4> QED  BY <4>3, <4>4
      <3>6. Removed(t, n) = [t EXCEPT !.panel = p, !.badge = b]
        BY <1>0, <2>2, <3>1, <3>3 DEF Removed, TabType
      <3> QED  BY <3>2, <3>5, <3>6, PanelOK
    <2> QED  BY <2>1, <2>2
  <1>8. TabOK(AllRead(t))
    <2>1. PICK p : p = [n \in DOMAIN t.panel |-> "read"]
      OBVIOUS
    <2>2. p \in List /\ IsFiniteSet(DOMAIN p) /\ Unread(p) = {}
      BY <1>0, <2>1 DEF List, Unread
    <2>3. 0 <= Cardinality(Unread(p))
      BY <2>2, FS_EmptySet
    <2>4. AllRead(t) = [t EXCEPT !.panel = p, !.badge = 0]
      BY <1>0, <2>1 DEF AllRead, TabType
    <2> QED  BY <2>2, <2>3, <2>4, PanelOK
  <1>9. event = <<"all">> \/ \E kind \in {"created", "read", "deleted"}, n \in Notes : event = <<kind, n>>
    BY DEF Events
  <1> QED  BY <1>5, <1>6, <1>7, <1>8, <1>9 DEF Handled

LEMMA InboxBecomes ==
  ASSUME InboxOK, NEW j \in Jobs, NEW next \in InboxJob \cup {Idle}, Become(j, next)
  PROVE  job' \in [Jobs -> InboxJob \cup {Idle}]
  BY DEF InboxOK, Become

LEMMA InboxJobShapes ==
  ASSUME InboxOK, NEW j \in Jobs
  PROVE  /\ job[j].op = "emit" => job[j] \in [op : {"emit"}, event : Events]
         /\ job[j].op = "mark" => job[j] \in [op : {"mark"}, note : Notes]
  BY DEF InboxOK, InboxJob, Idle

(* A step of the handlers: the notifications keep their states, one more    *)
(* may be there, the browser is not told yet.                               *)
LEMMA NotesStep ==
  ASSUME InboxOK, notes' \in [Notes -> NoteState], UNCHANGED tab,
         job' \in [Jobs -> InboxJob \cup {Idle}],
         NEW n, \A m \in Notes : notes[m] = "none" /\ m # n => notes'[m] = "none"
  PROVE  InboxOK'
  <1>1. PICK S : S = {m \in Notes : notes[m] # "none"}
    OBVIOUS
  <1>2. IsFiniteSet(S \cup {n})
    BY <1>1, FS_AddElement DEF InboxOK
  <1>3. {m \in Notes : notes'[m] # "none"} \subseteq S \cup {n}
    BY <1>1
  <1>4. IsFiniteSet({m \in Notes : notes'[m] # "none"})
    BY <1>2, <1>3, FS_Subset
  <1> QED  BY <1>4 DEF InboxOK, TabOK

LEMMA HandlerKeeps ==
  ASSUME InboxOK, NEW j \in Jobs, NEW n,
         \/ n \in Notes /\ (Create(j, n) \/ MarkRead(j, n) \/ DeleteNote(j, n) \/ ClickRead(j, n))
         \/ MarkAllRead(j) \/ RequestEvent(j) \/ NoRecipient(j)
         \/ ~Free(j) /\ Abort(j) /\ UNCHANGED <<notes, stream, live, tab>>
  PROVE  InboxOK'
  <1>1. UNCHANGED tab
    BY DEF Create, MarkRead, DeleteNote, ClickRead, Clicked, MarkAllRead, RequestEvent, NoRecipient
  <1>2. PICK next : next \in InboxJob \cup {Idle} /\ Become(j, next)
    <2>1. PICK created, read, deleted, all :
            /\ created = <<"created", n>> /\ read = <<"read", n>>
            /\ deleted = <<"deleted", n>> /\ all = <<"all">>
      OBVIOUS
    <2>2. all \in Events /\ (n \in Notes => {created, read, deleted} \subseteq Events)
      BY <2>1 DEF Events
    <2>3. ASSUME \/ MarkAllRead(j)
                 \/ n \in Notes /\ (Create(j, n) \/ MarkRead(j, n) \/ DeleteNote(j, n))
          PROVE  \/ \E event \in Events : Become(j, [op |-> "emit", event |-> event])
                 \/ Become(j, Idle)
      BY <2>1, <2>2, <2>3 DEF Create, MarkRead, DeleteNote, MarkAllRead, Emits, Finish
    <2>4. \A event \in Events : [op |-> "emit", event |-> event] \in InboxJob
      BY DEF InboxJob
    <2>5. [op |-> "mail"] \in InboxJob /\ (n \in Notes => [op |-> "mark", note |-> n] \in InboxJob)
      BY DEF InboxJob
    <2>6. ASSUME \/ (n \in Notes /\ ClickRead(j, n)) \/ RequestEvent(j) \/ NoRecipient(j)
                 \/ ~Free(j) /\ Abort(j) /\ UNCHANGED <<notes, stream, live, tab>>
          PROVE  \/ n \in Notes /\ Become(j, [op |-> "mark", note |-> n])
                 \/ Become(j, [op |-> "mail"]) \/ Become(j, Idle)
      BY <2>6 DEF ClickRead, RequestEvent, NoRecipient, Abort, Finish
    <2> QED  BY <2>3, <2>4, <2>5, <2>6
  <1>3. job' \in [Jobs -> InboxJob \cup {Idle}]
    BY <1>2, InboxBecomes
  <1>4. /\ notes' \in [Notes -> NoteState]
        /\ \A m \in Notes : notes[m] = "none" /\ m # n => notes'[m] = "none"
    BY DEF Create, MarkRead, DeleteNote, ClickRead, MarkAllRead, RequestEvent, NoRecipient,
           InboxOK, NoteState
  <1> QED  BY <1>1, <1>3, <1>4, NotesStep

LEMMA EmitKeeps ==
  ASSUME InboxOK, NEW j \in Jobs, Emit(j)
  PROVE  InboxOK'
  <1>1. PICK event \in Events : event = job[j].event
    BY InboxJobShapes DEF Emit
  <1>2. tab \in TabType /\ tab.wire \in Seq(Events) /\ tab.replies \in SUBSET Events
    BY DEF InboxOK, TabOK, TabType
  <1>3. PICK wire \in Seq(Events) : wire = IF tab.on THEN Append(tab.wire, event) ELSE tab.wire
    <2>1. Append(tab.wire, event) \in Seq(Events)
      BY <1>2
    <2> QED  BY <1>2, <2>1
  <1>4. PICK replies \in SUBSET Events :
          replies = IF event[1] \in {"read", "all"} THEN tab.replies \cup {event} ELSE tab.replies
    BY <1>2
  <1>5. tab' = [tab EXCEPT !.wire = wire, !.replies = replies]
    BY <1>1, <1>2, <1>3, <1>4 DEF Emit, TabType
  <1>6. /\ tab' \in TabType /\ tab'.panel = tab.panel /\ tab'.badge = tab.badge
        /\ tab'.answer = tab.answer
    BY <1>2, <1>3, <1>4, <1>5 DEF TabType
  <1>7. TabOK(tab')
    BY <1>6 DEF InboxOK, TabOK
  <1>8. job' \in [Jobs -> InboxJob \cup {Idle}]
    <2>1. Become(j, Idle)
      BY DEF Emit, Finish
    <2> QED  BY <2>1, InboxBecomes
  <1> QED  BY <1>7, <1>8 DEF InboxOK, Emit, TabOK

(* What the browser does changes neither notifications nor handlers.        *)
LEMMA BrowserStep ==
  ASSUME InboxOK, UNCHANGED <<notes, job>>, TabOK(tab')
  PROVE  InboxOK'
  BY DEF InboxOK, TabOK

LEMMA ListKeeps ==
  ASSUME InboxOK, Connect \/ Disconnect \/ AskList \/ AnswerList \/ ShowList
  PROVE  InboxOK'
  <1>0. tab \in TabType /\ TabOK(tab) /\ UNCHANGED <<notes, job>>
    BY DEF InboxOK, TabOK, Connect, Disconnect, AskList, AnswerList, ShowList
  <1>1. CASE Connect \/ Disconnect \/ AskList
    <2>1. /\ tab' \in TabType /\ tab'.panel = tab.panel /\ tab'.badge = tab.badge
          /\ tab'.answer = tab.answer
      <3>1. <<>> \in Seq(Events)
        OBVIOUS
      <3>2. CASE Connect \/ AskList
        BY <1>0, <3>2 DEF Connect, AskList, TabType
      <3>3. CASE Disconnect
        BY <1>0, <3>1, <3>3 DEF Disconnect, TabType
      <3> QED  BY <1>1, <3>2, <3>3
    <2>2. TabOK(tab')
      BY <1>0, <2>1 DEF TabOK
    <2> QED  BY <1>0, <2>2, BrowserStep
  <1>2. CASE AnswerList
    <2>1. Stored \in List /\ IsFiniteSet(DOMAIN Stored)
      <3>1. PICK S : S = {m \in Notes : notes[m] \in {"unread", "read"}}
        OBVIOUS
      <3>2. S \in SUBSET Notes /\ S \subseteq {m \in Notes : notes[m] # "none"}
        BY <3>1
      <3>3. IsFiniteSet(S)
        BY <3>2, FS_Subset DEF InboxOK
      <3>4. Stored \in [S -> {"unread", "read"}]
        BY <3>1 DEF Stored
      <3> QED  BY <3>2, <3>3, <3>4 DEF List
    <2>2. /\ tab' \in TabType /\ tab'.panel = tab.panel /\ tab'.badge = tab.badge
          /\ tab'.answer = Stored
      BY <1>0, <1>2, <2>1 DEF AnswerList, TabType
    <2>3. TabOK(tab')
      BY <1>0, <2>1, <2>2 DEF TabOK
    <2> QED  BY <1>0, <2>3, BrowserStep
  <1>3. CASE ShowList
    <2>1. tab.answer \in List /\ IsFiniteSet(DOMAIN tab.answer)
      BY <1>0 DEF TabOK, TabType
    <2>2. Unread(tab.answer) \subseteq DOMAIN tab.answer
      BY DEF Unread
    <2>3. PICK n \in Nat : n = Cardinality(Unread(tab.answer))
      BY <2>1, <2>2, FS_Subset, FS_CardinalityType
    <2>4. <<>> \in List /\ IsFiniteSet(DOMAIN <<>>)
      <3>1. <<>> \in [{} -> {"unread", "read"}] /\ DOMAIN <<>> = {}
        OBVIOUS
      <3> QED  BY <3>1, FS_EmptySet DEF List
    <2>5. /\ tab' \in TabType /\ tab'.panel = tab.answer /\ tab'.badge = n
          /\ tab'.answer = <<>>
      BY <1>0, <1>3, <2>1, <2>3, <2>4 DEF ShowList, TabType
    <2>6. TabOK(tab')
      BY <1>0, <2>1, <2>3, <2>4, <2>5 DEF TabOK
    <2> QED  BY <1>0, <2>6, BrowserStep
  <1> QED  BY <1>1, <1>2, <1>3

LEMMA HearsKeeps ==
  ASSUME InboxOK, Hear \/ \E event \in Events : Reply(event)
  PROVE  InboxOK'
  <1>0. tab \in TabType /\ TabOK(tab) /\ UNCHANGED <<notes, job>>
    BY DEF InboxOK, TabOK, Hear, Reply
  <1>1. ASSUME NEW t, NEW event \in Events, t \in TabType, tab' = Handled(t, event),
               t.panel = tab.panel, t.badge = tab.badge, t.answer = tab.answer
        PROVE  InboxOK'
    <2>1. TabOK(t)
      BY <1>0, <1>1 DEF TabOK
    <2>2. TabOK(tab')
      BY <1>1, <2>1, HandledOK
    <2> QED  BY <1>0, <2>2, BrowserStep
  <1>2. CASE Hear
    <2>1. PICK t : t = [tab EXCEPT !.wire = Tail(@)]
      OBVIOUS
    <2>2. Head(tab.wire) \in Events /\ Tail(tab.wire) \in Seq(Events)
      BY <1>0, <1>2 DEF Hear, TabType
    <2>3. t \in TabType /\ t.panel = tab.panel /\ t.badge = tab.badge /\ t.answer = tab.answer
      BY <1>0, <2>1, <2>2 DEF TabType
    <2>4. PICK event \in Events : event = Head(tab.wire)
      BY <2>2
    <2>5. tab' = Handled(t, event)
      BY <1>2, <2>1, <2>4 DEF Hear
    <2> QED  BY <1>1, <2>3, <2>5
  <1>3. ASSUME NEW event \in Events, Reply(event)  PROVE InboxOK'
    <2>1. PICK t : t = [tab EXCEPT !.replies = @ \ {event}]
      OBVIOUS
    <2>2. t \in TabType /\ t.panel = tab.panel /\ t.badge = tab.badge /\ t.answer = tab.answer
      BY <1>0, <2>1 DEF TabType
    <2>3. tab' = Handled(t, event)
      BY <1>3, <2>1 DEF Reply
    <2> QED  BY <1>1, <2>2, <2>3
  <1> QED  BY <1>2, <1>3

LEMMA InboxKeeps ==
  ASSUME InboxOK, [InboxNext \/ StreamNext \/ \E j \in Jobs : MarkAllRead(j)]_inboxVars
  PROVE  InboxOK'
  <1>1. CASE StreamNext \/ UNCHANGED inboxVars
    <2>1. UNCHANGED <<notes, job, tab>>
      BY <1>1 DEF StreamNext, OpenStream, CloseStream, inboxVars
    <2> QED  BY <2>1 DEF InboxOK, TabOK
  <1>2. CASE InboxNext
    <2>1. ASSUME NEW j \in Jobs, NEW n \in Notes,
                 Create(j, n) \/ MarkRead(j, n) \/ DeleteNote(j, n) \/ ClickRead(j, n)
          PROVE  InboxOK'
      BY <2>1, HandlerKeeps
    <2>2. ASSUME NEW j \in Jobs,
                 \/ RequestEvent(j) \/ NoRecipient(j)
                 \/ ~Free(j) /\ Abort(j) /\ UNCHANGED <<notes, stream, live, tab>>
          PROVE  InboxOK'
      BY <2>2, HandlerKeeps
    <2> QED  BY <1>2, <2>1, <2>2, EmitKeeps, ListKeeps, HearsKeeps DEF InboxNext
  <1>3. CASE \E j \in Jobs : MarkAllRead(j)
    BY <1>3, HandlerKeeps
  <1> QED  BY <1>1, <1>2, <1>3

LEMMA InboxBegins == InboxInit => InboxOK
  <1> SUFFICES ASSUME InboxInit  PROVE InboxOK
    OBVIOUS
  <1>1. <<>> \in List /\ DOMAIN <<>> = {} /\ IsFiniteSet({}) /\ Cardinality({}) = 0
    <2>1. <<>> \in [{} -> {"unread", "read"}] /\ DOMAIN <<>> = {}
      OBVIOUS
    <2> QED  BY <2>1, FS_EmptySet DEF List
  <1>2. <<>> \in Seq(Events)
    OBVIOUS
  <1>3. tab \in TabType /\ tab.panel = <<>> /\ tab.answer = <<>> /\ tab.badge = 0
    BY <1>1, <1>2 DEF InboxInit, TabType
  <1>4. Unread(tab.panel) = {}
    BY <1>1, <1>3 DEF Unread
  <1>5. notes \in [Notes -> NoteState] /\ {n \in Notes : notes[n] # "none"} = {}
    BY DEF InboxInit, NoteState
  <1>6. job \in [Jobs -> InboxJob \cup {Idle}]
    BY DEF InboxInit, BackendInit
  <1>7. tab.badge <= Cardinality(Unread(tab.panel))
    <2>1. Cardinality(Unread(tab.panel)) = 0
      BY <1>1, <1>4
    <2> QED  BY <1>3, <2>1
  <1> QED  BY <1>1, <1>3, <1>5, <1>6, <1>7 DEF InboxOK, TabOK

(* The bell never counts more than the unread notifications the panel       *)
(* shows, for any numbers of notifications, handlers and lost connections,  *)
(* though two answers may take one notification off the counter             *)
(* (notifications-store.ts).                                                *)
THEOREM BellIsBounded == InboxSpec => []BadgeNotAbove
  <1>1. InboxOK => BadgeNotAbove
    BY DEF InboxOK, TabOK, BadgeNotAbove
  <1> QED  BY <1>1, InboxBegins, InboxKeeps, PTL DEF InboxSpec

(* The sink events are written to belongs to an open connection, for any    *)
(* number of them (registerStream, notifications.service.ts).               *)
LEMMA StreamKeeps ==
  ASSUME StreamIsLive, [InboxNext \/ StreamNext \/ \E j \in Jobs : MarkAllRead(j)]_inboxVars
  PROVE  StreamIsLive'
  <1>1. CASE StreamNext
    BY <1>1 DEF StreamIsLive, StreamNext, OpenStream, CloseStream, Teardown
  <1>2. CASE InboxNext \/ (\E j \in Jobs : MarkAllRead(j)) \/ UNCHANGED inboxVars
    <2>1. UNCHANGED <<stream, live>>
      BY <1>2
      DEF InboxNext, RequestEvent, NoRecipient, Emit, Create, MarkRead, DeleteNote, ClickRead,
          Connect, Disconnect, AskList, AnswerList, ShowList, Hear, Reply, MarkAllRead, inboxVars
    <2> QED  BY <2>1 DEF StreamIsLive
  <1> QED  BY <1>1, <1>2

(* A notification is never written to the sink of a connection that has     *)
(* been closed, however many are opened and torn down, twice some of them   *)
(* (registerStream and the teardown it returns, notifications.service.ts).  *)
THEOREM SinkIsOpen == InboxSpec => []StreamIsLive
  <1>1. InboxInit => StreamIsLive
    BY DEF InboxInit, StreamIsLive
  <1> QED  BY <1>1, StreamKeeps, PTL DEF InboxSpec

(* Where notifications are marked one by one, whatever says that one is     *)
(* read is right.                                                           *)
IsRead(n) == notes[n] \in {"read", "deleted"}
Right(event) == event # <<"all">> /\ (event[1] = "read" => IsRead(event[2]))

Told ==
  {tab.wire[i] : i \in DOMAIN tab.wire} \cup tab.replies
    \cup {job[j].event : j \in {k \in Jobs : job[k].op = "emit"}}

Truthful ==
  /\ ReadShownIsRead
  /\ \A n \in DOMAIN tab.answer : tab.answer[n] = "read" => IsRead(n)
  /\ \A event \in Told : Right(event)

(* What is read stays read.                                                 *)
LEMMA StaysRight ==
  ASSUME InboxOK, InboxNext \/ StreamNext \/ UNCHANGED inboxVars
  PROVE  /\ \A n \in Notes : IsRead(n) => IsRead(n)'
         /\ \A event \in Events : Right(event) => Right(event)'
  <1>1. ASSUME NEW n \in Notes, IsRead(n)  PROVE IsRead(n)'
    <2>1. notes \in [Notes -> NoteState]
      BY DEF InboxOK
    <2>2. ASSUME NEW j \in Jobs, NEW m \in Notes, Create(j, m) \/ MarkRead(j, m) \/ DeleteNote(j, m)
          PROVE  IsRead(n)'
      BY <1>1, <2>1, <2>2 DEF Create, MarkRead, DeleteNote, IsRead
    <2>3. ASSUME UNCHANGED notes  PROVE IsRead(n)'
      BY <1>1, <2>3 DEF IsRead
    <2>4. ASSUME NEW j \in Jobs, NEW m \in Notes, ClickRead(j, m)  PROVE UNCHANGED notes
      BY <2>4 DEF ClickRead
    <2>5. ASSUME NEW j \in Jobs,
                 \/ RequestEvent(j) \/ NoRecipient(j) \/ Emit(j)
                 \/ ~Free(j) /\ Abort(j) /\ UNCHANGED <<notes, stream, live, tab>>
          PROVE  UNCHANGED notes
      BY <2>5 DEF RequestEvent, NoRecipient, Emit
    <2>6. ASSUME \/ Connect \/ Disconnect \/ AskList \/ AnswerList \/ ShowList \/ Hear
                 \/ (\E event \in Events : Reply(event)) \/ StreamNext \/ UNCHANGED inboxVars
          PROVE  UNCHANGED notes
      BY <2>6
      DEF Connect, Disconnect, AskList, AnswerList, ShowList, Hear, Reply, StreamNext,
          OpenStream, CloseStream, inboxVars
    <2> QED  BY <2>2, <2>3, <2>4, <2>5, <2>6 DEF InboxNext
  <1>2. ASSUME NEW event \in Events, Right(event)  PROVE Right(event)'
    <2>1. event[1] = "read" => event[2] \in Notes
      BY DEF Events
    <2> QED  BY <1>1, <1>2, <2>1 DEF Right
  <1> QED  BY <1>1, <1>2

(* What an event makes the panel show as read, it showed before or the      *)
(* event is about.                                                          *)
LEMMA HandledShows ==
  ASSUME NEW t, t \in TabType, NEW event \in Events, event # <<"all">>,
         NEW n \in DOMAIN Handled(t, event).panel, Handled(t, event).panel[n] = "read"
  PROVE  \/ n \in DOMAIN t.panel /\ t.panel[n] = "read"
         \/ event = <<"read", n>>
  <1>1. PICK kind \in {"created", "read", "deleted"}, m \in Notes : event = <<kind, m>>
    BY DEF Events
  <1>2. CASE kind = "created"
    BY <1>1, <1>2 DEF Handled, Added, With, TabType
  <1>3. CASE kind = "read"
    BY <1>1, <1>3 DEF Handled, MarkedRead, With, TabType
  <1>4. CASE kind = "deleted"
    BY <1>1, <1>4 DEF Handled, Removed, Without, TabType
  <1> QED  BY <1>2, <1>3, <1>4

LEMMA ToldEvents ==
  ASSUME InboxOK
  PROVE  /\ Told \subseteq Events /\ DOMAIN tab.panel \subseteq Notes /\ DOMAIN tab.answer \subseteq Notes
         /\ tab \in TabType
  <1>1. tab \in TabType
    BY DEF InboxOK, TabOK
  <1>2. tab.panel \in List /\ tab.answer \in List /\ tab.wire \in Seq(Events) /\ tab.replies \in SUBSET Events
    BY <1>1 DEF TabType
  <1>3. \A j \in Jobs : job[j].op = "emit" => job[j].event \in Events
    BY InboxJobShapes
  <1> QED  BY <1>1, <1>2, <1>3 DEF Told, List

LEMMA TruthfulKeeps ==
  ASSUME InboxOK, InboxOK', Truthful, InboxNext \/ StreamNext \/ UNCHANGED inboxVars
  PROVE  Truthful'
  <1>0. /\ Told \subseteq Events /\ DOMAIN tab.panel \subseteq Notes /\ DOMAIN tab.answer \subseteq Notes
        /\ tab \in TabType /\ notes \in [Notes -> NoteState] /\ job \in [Jobs -> InboxJob \cup {Idle}]
    BY ToldEvents DEF InboxOK
  <1>1. /\ \A n \in Notes : IsRead(n) => IsRead(n)'
        /\ \A event \in Events : Right(event) => Right(event)'
    BY StaysRight
  <1>2. /\ \A n \in DOMAIN tab.panel : tab.panel[n] = "read" => IsRead(n)'
        /\ \A n \in DOMAIN tab.answer : tab.answer[n] = "read" => IsRead(n)'
        /\ \A event \in Told : Right(event)'
    BY <1>0, <1>1 DEF Truthful, ReadShownIsRead, IsRead
  <1>3. ASSUME \A n \in DOMAIN tab'.panel : tab'.panel[n] = "read" => IsRead(n)',
               \A n \in DOMAIN tab'.answer : tab'.answer[n] = "read" => IsRead(n)',
               NEW event, Right(event)', Told' \subseteq Told \cup {event}
        PROVE  Truthful'
    BY <1>2, <1>3 DEF Truthful, ReadShownIsRead, IsRead
  <1>4. ASSUME Told' \subseteq Told,
               \A n \in DOMAIN tab'.panel : tab'.panel[n] = "read" => IsRead(n)',
               \A n \in DOMAIN tab'.answer : tab'.answer[n] = "read" => IsRead(n)'
        PROVE  Truthful'
    BY <1>2, <1>4 DEF Truthful, ReadShownIsRead, IsRead
  <1>5. ASSUME NEW j \in Jobs, NEW next, Become(j, next), UNCHANGED tab,
               next.op = "emit" => Right(next.event)'
        PROVE  Truthful'
    <2>1. \A k \in Jobs : k # j => job'[k] = job[k]
      BY <1>0, <1>5 DEF Become
    <2>2. job'[j] = next
      BY <1>0, <1>5 DEF Become
    <2>3. CASE next.op = "emit"
      <3>1. Told' \subseteq Told \cup {next.event}
        BY <1>5, <2>1, <2>2 DEF Told
      <3>2. PICK event : event = next.event
        OBVIOUS
      <3> QED  BY <1>2, <1>3, <1>5, <2>3, <3>1, <3>2
    <2>4. CASE next.op # "emit"
      <3>1. Told' \subseteq Told
        BY <1>5, <2>1, <2>2, <2>4 DEF Told
      <3> QED  BY <1>2, <1>4, <1>5, <3>1
    <2> QED  BY <2>3, <2>4
  <1>6. ASSUME NEW j \in Jobs, NEW n \in Notes,
               Create(j, n) \/ MarkRead(j, n) \/ DeleteNote(j, n) \/ ClickRead(j, n)
        PROVE  Truthful'
    <2>1. UNCHANGED tab
      BY <1>6 DEF Create, MarkRead, DeleteNote, ClickRead, Clicked
    <2>2. CASE Create(j, n) \/ DeleteNote(j, n)
      <3>1. PICK kind \in {"created", "deleted"} : Become(j, [op |-> "emit", event |-> <<kind, n>>])
        BY <2>2 DEF Create, DeleteNote, Emits
      <3>2. PICK next : next = [op |-> "emit", event |-> <<kind, n>>]
        OBVIOUS
      <3>3. Right(next.event)' /\ Become(j, next)
        BY <3>1, <3>2 DEF Right
      <3> QED  BY <1>5, <2>1, <3>3
    <2>3. CASE MarkRead(j, n)
      <3>1. \/ Become(j, Idle)
            \/ Become(j, [op |-> "emit", event |-> <<"read", n>>]) /\ IsRead(n)'
        BY <1>0, <2>3 DEF MarkRead, Emits, Finish, IsRead
      <3>2. PICK next : \/ next = Idle /\ Become(j, next)
                        \/ next = [op |-> "emit", event |-> <<"read", n>>] /\ Become(j, next) /\ IsRead(n)'
        BY <3>1
      <3>3. next.op = "emit" => Right(next.event)'
        BY <3>2 DEF Right, Idle
      <3> QED  BY <1>5, <2>1, <3>2, <3>3
    <2>4. CASE ClickRead(j, n)
      <3>1. PICK next : next = [op |-> "mark", note |-> n] /\ Become(j, next)
        BY <2>4 DEF ClickRead
      <3> QED  BY <1>5, <2>1, <3>1
    <2> QED  BY <1>6, <2>2, <2>3, <2>4
  <1>7. ASSUME NEW j \in Jobs,
               \/ RequestEvent(j) \/ NoRecipient(j)
               \/ ~Free(j) /\ Abort(j) /\ UNCHANGED <<notes, stream, live, tab>>
        PROVE  Truthful'
    <2>1. PICK next : next.op # "emit" /\ Become(j, next)
      BY <1>7 DEF RequestEvent, NoRecipient, Abort, Finish, Idle
    <2>2. UNCHANGED tab
      BY <1>7 DEF RequestEvent, NoRecipient
    <2> QED  BY <1>5, <2>1, <2>2
  <1>8. ASSUME NEW j \in Jobs, Emit(j)  PROVE Truthful'
    <2>1. PICK event \in Events : event = job[j].event
      BY <1>8, InboxJobShapes DEF Emit
    <2>2. /\ tab'.panel = tab.panel /\ tab'.answer = tab.answer
          /\ tab'.wire = IF tab.on THEN Append(tab.wire, event) ELSE tab.wire
          /\ tab'.replies \subseteq tab.replies \cup {event}
      BY <1>0, <1>8, <2>1 DEF Emit, TabType
    <2>3. event \in Told
      BY <1>8, <2>1 DEF Told, Emit
    <2>4. {tab'.wire[i] : i \in DOMAIN tab'.wire} \subseteq {tab.wire[i] : i \in DOMAIN tab.wire} \cup {event}
      <3>1. tab.wire \in Seq(Events)
        BY <1>0 DEF TabType
      <3> QED  BY <2>2, <3>1
    <2>5. \A k \in Jobs : job'[k].op = "emit" => job'[k] = job[k]
      BY <1>0, <1>8 DEF Emit, Finish, Become, Idle
    <2>6. Told' \subseteq Told
      BY <2>2, <2>3, <2>4, <2>5 DEF Told
    <2> QED  BY <1>2, <1>4, <2>2, <2>6
  <1>9. CASE Connect \/ Disconnect \/ AskList
    <2>1. /\ tab'.panel = tab.panel /\ tab'.answer = tab.answer /\ tab'.replies = tab.replies
          /\ tab'.wire \in {tab.wire, <<>>} /\ UNCHANGED job
      BY <1>0, <1>9 DEF Connect, Disconnect, AskList, TabType
    <2>2. Told' \subseteq Told
      BY <2>1 DEF Told
    <2> QED  BY <1>2, <1>4, <2>1, <2>2
  <1>10. CASE AnswerList \/ ShowList
    <2>1. tab'.wire = tab.wire /\ tab'.replies = tab.replies /\ UNCHANGED <<job, notes>>
      BY <1>0, <1>10 DEF AnswerList, ShowList, TabType
    <2>2. Told' \subseteq Told
      BY <2>1 DEF Told
    <2>3. \A n \in DOMAIN tab'.panel : tab'.panel[n] = "read" => IsRead(n)'
      <3>1. tab'.panel \in {tab.panel, tab.answer}
        BY <1>0, <1>10 DEF AnswerList, ShowList, TabType
      <3> QED  BY <1>2, <3>1
    <2>4. \A n \in DOMAIN tab'.answer : tab'.answer[n] = "read" => IsRead(n)'
      <3>1. \A n \in DOMAIN Stored : Stored[n] = "read" => IsRead(n)'
        BY <2>1 DEF Stored, IsRead
      <3>2. tab'.answer = Stored \/ tab'.answer = <<>>
        BY <1>0, <1>10 DEF AnswerList, ShowList, TabType
      <3> QED  BY <3>1, <3>2
    <2> QED  BY <1>4, <2>2, <2>3, <2>4
  <1>11. ASSUME NEW t, t \in TabType, NEW event \in Told, tab' = Handled(t, event), UNCHANGED job,
                t.panel = tab.panel, t.answer = tab.answer, t.replies \subseteq tab.replies,
                {t.wire[i] : i \in DOMAIN t.wire} \subseteq {tab.wire[i] : i \in DOMAIN tab.wire}
         PROVE  Truthful'
    <2>1. event \in Events /\ Right(event) /\ Right(event)'
      BY <1>0, <1>1, <1>2, <1>11 DEF Truthful
    <2>2. tab'.wire = t.wire /\ tab'.replies = t.replies /\ tab'.answer = t.answer
      BY <1>11 DEF Handled, Added, MarkedRead, Removed, AllRead, TabType
    <2>3. Told' \subseteq Told
      BY <1>11, <2>2 DEF Told
    <2>4. \A n \in DOMAIN tab'.panel : tab'.panel[n] = "read" => IsRead(n)'
      <3> SUFFICES ASSUME NEW n \in DOMAIN tab'.panel, tab'.panel[n] = "read"  PROVE IsRead(n)'
        OBVIOUS
      <3>1. \/ n \in DOMAIN t.panel /\ t.panel[n] = "read"
            \/ event = <<"read", n>>
        BY <1>11, <2>1, HandledShows DEF Right
      <3>2. CASE event = <<"read", n>>
        BY <2>1, <3>2 DEF Right
      <3> QED  BY <1>2, <1>11, <3>1, <3>2
    <2> QED  BY <1>2, <1>4, <1>11, <2>2, <2>3, <2>4
  <1>12. CASE Hear
    <2>1. PICK t : t = [tab EXCEPT !.wire = Tail(@)]
      OBVIOUS
    <2>2. tab.wire \in Seq(Events) /\ tab.wire # <<>>
      BY <1>0, <1>12 DEF Hear, TabType
    <2>3. /\ Head(tab.wire) = tab.wire[1] /\ 1 \in DOMAIN tab.wire /\ Tail(tab.wire) \in Seq(Events)
          /\ \A i \in DOMAIN Tail(tab.wire) : Tail(tab.wire)[i] = tab.wire[i + 1] /\ i + 1 \in DOMAIN tab.wire
      BY <2>2
    <2>4. PICK event \in Told : event = Head(tab.wire)
      BY <2>3 DEF Told
    <2>5. /\ t \in TabType /\ t.panel = tab.panel /\ t.answer = tab.answer
          /\ t.replies = tab.replies /\ t.wire = Tail(tab.wire)
      BY <1>0, <2>1, <2>3 DEF TabType
    <2>6. tab' = Handled(t, event) /\ UNCHANGED job
      BY <1>12, <2>1, <2>4 DEF Hear
    <2>7. {t.wire[i] : i \in DOMAIN t.wire} \subseteq {tab.wire[i] : i \in DOMAIN tab.wire}
      BY <2>3, <2>5
    <2> QED  BY <1>11, <2>5, <2>6, <2>7
  <1>13. ASSUME NEW event \in Events, Reply(event)  PROVE Truthful'
    <2>1. PICK t : t = [tab EXCEPT !.replies = @ \ {event}]
      OBVIOUS
    <2>2. /\ t \in TabType /\ t.panel = tab.panel /\ t.answer = tab.answer
          /\ t.replies \subseteq tab.replies /\ t.wire = tab.wire
      BY <1>0, <2>1 DEF TabType
    <2>3. tab' = Handled(t, event) /\ UNCHANGED job /\ event \in Told
      BY <1>13, <2>1 DEF Reply, Told
    <2> QED  BY <1>11, <2>2, <2>3
  <1>14. CASE StreamNext \/ UNCHANGED inboxVars
    <2>1. UNCHANGED <<tab, job>>
      BY <1>14 DEF StreamNext, OpenStream, CloseStream, inboxVars
    <2>2. Told' = Told
      BY <2>1 DEF Told
    <2> QED  BY <1>2, <1>4, <2>1, <2>2
  <1> QED
    BY <1>6, <1>7, <1>8, <1>9, <1>10, <1>12, <1>13, <1>14 DEF InboxNext

LEMMA TruthfulBegins == InboxInit => Truthful
  <1> SUFFICES ASSUME InboxInit  PROVE Truthful
    OBVIOUS
  <1>1. tab.panel = <<>> /\ tab.answer = <<>> /\ tab.wire = <<>> /\ tab.replies = {}
    BY DEF InboxInit
  <1>2. Told = {}
    BY <1>1 DEF Told, InboxInit, BackendInit, Idle
  <1> QED  BY <1>1, <1>2 DEF Truthful, ReadShownIsRead

(* Where nobody marks everything read, what the panel shows as read is read *)
(* on the server (notifications-store.ts, notification-bell.tsx).           *)
THEOREM ReadIsTrue == OneByOneSpec => []ReadShownIsRead
  <1>1. InboxOK /\ [InboxNext \/ StreamNext]_inboxVars => InboxOK'
    BY InboxKeeps
  <1>2. InboxOK /\ InboxOK' /\ Truthful /\ [InboxNext \/ StreamNext]_inboxVars => Truthful'
    BY TruthfulKeeps
  <1>3. Truthful => ReadShownIsRead
    BY DEF Truthful
  <1> QED  BY <1>1, <1>2, <1>3, InboxBegins, TruthfulBegins, PTL DEF OneByOneSpec

(* The same of the behaviours of MCBrowser that are about it.               *)
THEOREM OneByOneIsTrue == MCSpec => []OneByOneReadIsRead
  <1> DEFINE Inv == about = "one by one" => InboxOK /\ Truthful
  <1>1. MCInit => Inv
    BY InboxBegins, TruthfulBegins DEF MCInit
  <1>2. Inv /\ [MCNext]_mcVars => Inv'
    <2> SUFFICES ASSUME Inv, [MCNext]_mcVars, about' = "one by one"
                 PROVE  (InboxOK /\ Truthful)'
      OBVIOUS
    <2>1. about = "one by one" /\ InboxOK /\ Truthful
      BY DEF MCNext, mcVars
    <2>2. InboxNext \/ UNCHANGED inboxVars
      BY <2>1 DEF MCNext, mcVars, streamVars, inboxVars
    <2>3. InboxOK'
      BY <2>1, <2>2, InboxKeeps
    <2> QED  BY <2>1, <2>2, <2>3, TruthfulKeeps
  <1>3. Inv => OneByOneReadIsRead
    BY DEF Truthful, OneByOneReadIsRead
  <1> QED  BY <1>1, <1>2, <1>3, PTL DEF MCSpec

---------------------------------------------------------------------------
(* The arrival of a visitor.  What the async functions in flight are.       *)
Effects == {"check", "sync"}

ArrivalJob ==
       [op : {"session", "login", "logout"}]
  \cup [op : {"link"}, who : Effects]
  \cup [op : {"profile"}, who : Effects, access : {"good", "bad"}]
  \cup [op : {"renew"}, who : Effects, token : {"good", "bad", "used"}]

ArrivalTypeOK ==
  /\ app \in AppState
  /\ past \in [clean : BOOLEAN, owed : BOOLEAN]
  /\ job \in [Jobs -> ArrivalJob \cup {Idle}]
  /\ faults \in Nat

Doing(ops) == \E j \in Jobs : job[j].op \in ops

Checks(s) == s.op = "session" \/ (s.op \in {"link", "profile", "renew"} /\ s.who = "check")

Checking == \E j \in Jobs : Checks(job[j])
Refused == \E j \in Jobs : job[j].op = "profile" /\ job[j].access = "bad"

(* Before the first effect nothing is under way; whatever began checkAuth   *)
(* will end it, and the loading with it.                                    *)
Settles ==
  /\ app.check = "due" => (\A j \in Jobs : Free(j)) /\ ~app.user /\ ~app.sync
  /\ app.check = "running" => Checking
  /\ app.loading => app.check # "done" \/ Doing({"login"})

(* An access token that is refused comes with a refresh token that works,   *)
(* and without an access token there is none to refresh it.                 *)
TokensFit ==
  /\ app.session # "bad" /\ app.view # "bad" /\ app.refresh # "bad"
  /\ app.access = "bad" => app.refresh = "good"
  /\ app.access = "none" => app.refresh = "none"
  /\ app.session = "none" => app.view = "none"

(* Until somebody signs out the token is never lost, whoever has one and is *)
(* not shown will be, and whoever is owed one has it or will get it from    *)
(* the session.                                                             *)
Staying ==
  /\ ~Doing({"logout"})
  /\ app.user \/ Doing({"profile", "renew"}) => app.access # "none"
  /\ Refused => app.refresh = "good"
  /\ app.access # "none" /\ ~app.user =>
       app.check = "due" \/ Doing({"session", "link", "profile", "renew"})
  /\ past.owed /\ app.access = "none" =>
       /\ app.session = "good"
       /\ \/ app.check = "due" \/ Doing({"session"})
          \/ app.view = "none" \/ (app.view = "good" /\ app.sync)

Welcome ==
  faults = 0 /\ past.clean =>
    /\ TokensFit
    /\ app.place = "leaving" => ~past.owed
    /\ app.place # "leaving" => Staying

ArrivalOK == ArrivalTypeOK /\ Settles /\ Welcome

---------------------------------------------------------------------------
LEMMA ArrivalJobShapes ==
  ASSUME ArrivalTypeOK, NEW j \in Jobs
  PROVE  /\ job[j].op = "link" => job[j] \in [op : {"link"}, who : Effects]
         /\ job[j].op = "profile" => job[j] \in [op : {"profile"}, who : Effects, access : {"good", "bad"}]
         /\ job[j].op = "renew" =>
              job[j] \in [op : {"renew"}, who : Effects, token : {"good", "bad", "used"}]
  BY DEF ArrivalTypeOK, ArrivalJob, Idle

LEMMA ArrivalCalls ==
  /\ Idle \in ArrivalJob \cup {Idle}
  /\ \A op \in {"session", "login", "logout"} : [op |-> op] \in ArrivalJob
  /\ \A who \in Effects : Link(who) \in ArrivalJob
  /\ \A who \in Effects, access \in {"good", "bad"} : Profile(who, access) \in ArrivalJob
  /\ \A who \in Effects, token \in {"good", "bad", "used"} :
       [op |-> "renew", who |-> who, token |-> token] \in ArrivalJob
  BY DEF ArrivalJob, Link, Profile

(* What a run of the sync effect does before its first await.               *)
LEMMA SyncMeans ==
  ASSUME NEW a \in AppState, NEW call \in SyncCalls(a), NEW b, b = SyncedUpTo(a, call)
  PROVE  /\ b \in AppState /\ call \in ArrivalJob \cup {Idle}
         /\ b.session = a.session /\ b.view = a.view /\ b.check = a.check /\ b.sync = a.sync
         /\ b.place = a.place /\ (b.loading => a.loading)
         /\ \/ /\ a.view \in {"good", "bad"} /\ b.access = a.view /\ b.user /\ b.refresh = a.refresh
               /\ call = Profile("sync", a.view)
            \/ /\ b.access = a.access /\ b.user = a.user /\ b.refresh = a.refresh
               /\ a.view \notin {"good", "bad"}
               /\ \/ call = Idle \/ call = Link("sync")
                  \/ call = Profile("sync", a.access) /\ a.access # "none"
            \/ /\ a.access = "none" /\ b.access = "none" /\ ~b.user /\ b.refresh = "none" /\ call = Idle
               /\ a.view = "none"
  <1>1. a.view \in {"none", "bare", "good", "bad", "plain"} /\ a.access \in {"none", "good", "bad"}
    BY DEF AppState, Sessions, Held
  <1>2. CASE a.view \in {"good", "bad"}
    <2>1. call = Profile("sync", a.view)
      BY <1>2 DEF SyncCalls, Linked
    <2>2. call # Idle
      BY <2>1 DEF Profile, Idle
    <2>3. b = [a EXCEPT !.access = a.view, !.user = TRUE]
      BY <1>2, <2>2 DEF SyncedUpTo, Synced, Linked
    <2>4. call \in ArrivalJob
      BY <1>2, <2>1, ArrivalCalls DEF Effects
    <2> QED  BY <1>2, <2>1, <2>3, <2>4 DEF AppState, Sessions, Held
  <1>3. CASE a.view \in {"plain", "bare"}
    <2>1. b = a \/ b = [a EXCEPT !.loading = FALSE]
      BY <1>3 DEF SyncedUpTo, Synced, Linked
    <2>2. \/ call = Idle \/ call = Link("sync")
          \/ call = Profile("sync", a.access) /\ a.access # "none"
      BY <1>3 DEF SyncCalls, Linked
    <2>3. call \in ArrivalJob \cup {Idle}
      BY <1>1, <2>2, ArrivalCalls DEF Effects
    <2> QED  BY <1>3, <2>1, <2>2, <2>3 DEF AppState
  <1>4. CASE a.view = "none"
    <2>1. call = Idle
      BY <1>4 DEF SyncCalls
    <2>2. \/ b = a
          \/ b = [a EXCEPT !.loading = FALSE]
          \/ a.access = "none" /\ b = [a EXCEPT !.user = FALSE, !.refresh = "none", !.loading = FALSE]
      BY <1>4, <2>1 DEF SyncedUpTo, Synced, Linked
    <2>3. call \in ArrivalJob \cup {Idle}
      BY <2>1, ArrivalCalls
    <2> QED  BY <1>4, <2>1, <2>2, <2>3 DEF AppState, Held
  <1> QED  BY <1>1, <1>2, <1>3, <1>4

(* A step of one function leaves the others what they are.                  *)
LEMMA OneCall ==
  ASSUME ArrivalTypeOK, NEW j \in Jobs, NEW next \in ArrivalJob \cup {Idle}, Become(j, next)
  PROVE  /\ job' \in [Jobs -> ArrivalJob \cup {Idle}]
         /\ job'[j] = next /\ \A k \in Jobs : k # j => job'[k] = job[k]
  BY DEF ArrivalTypeOK, Become

LEMMA OthersGoOn ==
  ASSUME ArrivalTypeOK, NEW j \in Jobs, NEW next \in ArrivalJob \cup {Idle}, Become(j, next),
         NEW ops
  PROVE  /\ Doing(ops)' => Doing(ops) \/ next.op \in ops
         /\ next.op \in ops => Doing(ops)'
         /\ Doing(ops) /\ job[j].op \notin ops => Doing(ops)'
  BY OneCall DEF Doing

LEMMA ChecksGoOn ==
  ASSUME ArrivalTypeOK, NEW j \in Jobs, NEW next \in ArrivalJob \cup {Idle}, Become(j, next)
  PROVE  /\ Checks(next) => Checking'
         /\ Checking /\ ~Checks(job[j]) => Checking'
         /\ Refused' => Refused \/ (next.op = "profile" /\ next.access = "bad")
  <1>1. job'[j] = next /\ \A k \in Jobs : k # j => job'[k] = job[k]
    BY OneCall
  <1>2. Checks(next) => Checking'
    BY <1>1 DEF Checking
  <1>3. Checking /\ ~Checks(job[j]) => Checking'
    BY <1>1 DEF Checking
  <1>4. Refused' => Refused \/ (next.op = "profile" /\ next.access = "bad")
    BY <1>1 DEF Refused
  <1> QED  BY <1>2, <1>3, <1>4

(* Either effect, when it has come to asking for the profile.               *)
LEMMA AskKeeps ==
  ASSUME ArrivalOK, NEW j \in Jobs, NEW who \in Effects, NEW a \in AppState,
         AskProfile(j, who, a), UNCHANGED past,
         \/ job[j].op = "session" /\ who = "check"
         \/ job[j].op = "link" /\ who = job[j].who,
         \E access \in Held, user \in BOOLEAN : a = [app EXCEPT !.access = access, !.user = user],
         a = app \/ a.access # "none",
         \/ faults' = faults + 1
         \/ /\ UNCHANGED faults
            /\ app.session = "bad" \/ a = app \/ a.access = "good"
            /\ job[j].op = "session" /\ app.session = "good" => a.access = "good"
  PROVE  ArrivalOK'
  <1>0. ArrivalTypeOK /\ Settles /\ Welcome
    BY DEF ArrivalOK
  <1>1. PICK next : next = IF a.access = "none" THEN Idle ELSE Profile(who, a.access)
    OBVIOUS
  <1>2. Become(j, next)
    BY <1>1 DEF AskProfile
  <1>3. /\ app' \in AppState /\ app'.session = app.session /\ app'.view = app.view
        /\ app'.place = app.place /\ app'.refresh = app.refresh /\ app'.access = a.access
        /\ app'.check = IF a.access = "none" /\ who = "check" THEN "done" ELSE app.check
        /\ app'.sync = (app.sync \/ (a.access = "none" /\ who = "check"))
        /\ (a.access = "none" => ~app'.loading) /\ (app'.loading => app.loading)
        /\ (app'.user => a.user)
    BY <1>0 DEF AskProfile, Checked, AppState, ArrivalTypeOK
  <1>4. /\ next \in ArrivalJob \cup {Idle}
        /\ a.access = "none" => next.op = "idle"
        /\ a.access # "none" => /\ next.op = "profile" /\ next.access = a.access
                                /\ who = "check" => Checks(next)
    <2>1. CASE a.access = "none"
      BY <1>1, <2>1 DEF Idle
    <2>2. CASE a.access # "none"
      <3>1. a.access \in {"good", "bad"}
        BY <2>2 DEF AppState, Held
      <3>2. next = Profile(who, a.access)
        BY <1>1, <2>2
      <3>3. next \in ArrivalJob
        BY <3>1, <3>2, ArrivalCalls
      <3> QED  BY <2>2, <3>2, <3>3 DEF Profile, Checks
    <2> QED  BY <2>1, <2>2
  <1>5. job[j].op \in {"session", "link"} /\ (Checks(job[j]) => who = "check")
    BY DEF Checks
  <1>6. app.check # "due"
    BY <1>0, <1>5 DEF Settles, Free, Idle
  <1>7. faults' \in Nat /\ faults \in Nat /\ (faults' = 0 => faults = 0 /\ faults' = faults)
    BY <1>0 DEF ArrivalTypeOK
  <1>8. ArrivalTypeOK'
    BY <1>0, <1>2, <1>3, <1>4, <1>7, OneCall DEF ArrivalTypeOK
  <1>9. Settles'
    <2>1. app'.check = "running" => Checking'
      BY <1>0, <1>2, <1>3, <1>4, <1>5, ChecksGoOn DEF Settles
    <2>2. app'.loading => app'.check # "done" \/ Doing({"login"})'
      <3>1. Doing({"login"}) => Doing({"login"})'
        BY <1>0, <1>2, <1>4, <1>5, OthersGoOn
      <3> QED  BY <1>0, <1>3, <3>1 DEF Settles
    <2> QED  BY <1>3, <1>6, <2>1, <2>2 DEF Settles
  <1>10. Welcome'
    <2> SUFFICES ASSUME faults' = 0, past'.clean
                 PROVE  (TokensFit /\ (app.place = "leaving" => ~past.owed)
                           /\ (app.place # "leaving" => Staying))'
      BY DEF Welcome
    <2>1. /\ faults = 0 /\ past.clean /\ faults' = faults /\ past' = past
          /\ TokensFit /\ (app.place = "leaving" => ~past.owed)
          /\ (app.place # "leaving" => Staying)
      BY <1>0, <1>7 DEF Welcome
    <2>2. (a = app \/ a.access = "good")
          /\ (job[j].op = "session" /\ app.session = "good" => a.access = "good")
      BY <1>7, <2>1 DEF TokensFit
    <2>3. TokensFit'
      BY <1>3, <2>1, <2>2 DEF TokensFit
    <2>4. ASSUME app.place # "leaving"  PROVE Staying'
      <3>0. Staying
        BY <2>1, <2>4
      <3>1. ~Doing({"logout"})'
        BY <1>0, <1>2, <1>4, <3>0, OthersGoOn DEF Staying
      <3>2. app'.user \/ Doing({"profile", "renew"})' => app'.access # "none"
        <4>1. ASSUME a.access = "none"  PROVE ~app'.user /\ ~Doing({"profile", "renew"})'
          <5>1. a = app /\ ~app.user /\ ~Doing({"profile", "renew"})
            BY <2>2, <3>0, <4>1 DEF Staying
          <5> QED  BY <1>0, <1>2, <1>3, <1>4, <4>1, <5>1, OthersGoOn
        <4> QED  BY <1>3, <4>1
      <3>3. Refused' => app'.refresh = "good"
        BY <1>0, <1>2, <1>3, <1>4, <2>1, <2>2, <3>0, ChecksGoOn DEF Staying, TokensFit
      <3>4. app'.access # "none" => Doing({"profile"})' /\ Doing({"session", "link", "profile", "renew"})'
        BY <1>0, <1>2, <1>3, <1>4, OthersGoOn
      <3>5. past'.owed /\ app'.access = "none" =>
              /\ app'.session = "good"
              /\ \/ app'.check = "due" \/ Doing({"session"})'
                 \/ app'.view = "none" \/ (app'.view = "good" /\ app'.sync)
        <4> SUFFICES ASSUME past'.owed, app'.access = "none"
                     PROVE  /\ app'.session = "good"
                            /\ \/ Doing({"session"})'
                               \/ app'.view = "none" \/ (app'.view = "good" /\ app'.sync)
          OBVIOUS
        <4>1. a = app /\ app.session = "good" /\ job[j].op = "link"
              /\ (Doing({"session"}) \/ app.view = "none" \/ (app.view = "good" /\ app.sync))
          BY <1>3, <1>5, <1>6, <2>1, <2>2, <3>0 DEF Staying
        <4>2. Doing({"session"}) => Doing({"session"})'
          BY <1>0, <1>2, <1>4, <4>1, OthersGoOn
        <4> QED  BY <1>3, <4>1, <4>2
      <3> QED  BY <3>1, <3>2, <3>3, <3>4, <3>5 DEF Staying
    <2> QED  BY <1>3, <2>1, <2>3, <2>4
  <1> QED  BY <1>8, <1>9, <1>10 DEF ArrivalOK

LEMMA CheckSessionKeeps ==
  ASSUME ArrivalOK, NEW j \in Jobs, CheckSession(j)
  PROVE  ArrivalOK'
  <1>0. ArrivalTypeOK /\ Settles /\ Welcome /\ job[j].op = "session" /\ UNCHANGED past
    BY DEF ArrivalOK, CheckSession
  <1>1. ASSUME app.session = "bare", Become(j, Link("check")), UNCHANGED <<app, faults>>
        PROVE  ArrivalOK'
    <2>1. PICK next : next = Link("check")
      OBVIOUS
    <2>2. Become(j, next) /\ next \in ArrivalJob \cup {Idle} /\ next.op = "link" /\ Checks(next)
      BY <1>1, <2>1, ArrivalCalls DEF Effects, Link, Checks
    <2>3. job[j].op \notin {"login", "link"}
      BY <1>0
    <2>4. app.check # "due"
      BY <1>0 DEF Settles, Free, Idle
    <2>5. ArrivalTypeOK'
      BY <1>0, <1>1, <2>2, OneCall DEF ArrivalTypeOK
    <2>6. Settles'
      BY <1>0, <1>1, <2>2, <2>3, <2>4, OthersGoOn, ChecksGoOn DEF Settles
    <2>7. Welcome'
      <3>1. ~Doing({"logout"}) => ~Doing({"logout"})'
        BY <1>0, <2>2, OthersGoOn
      <3>2. Doing({"profile", "renew"})' => Doing({"profile", "renew"})
        BY <1>0, <2>2, OthersGoOn
      <3>3. Refused' => Refused
        BY <1>0, <2>2, ChecksGoOn
      <3>4. Doing({"session", "link", "profile", "renew"})'
        BY <1>0, <2>2, OthersGoOn
      <3> QED  BY <1>0, <1>1, <3>1, <3>2, <3>3, <3>4 DEF Welcome, TokensFit, Staying
    <2> QED  BY <2>5, <2>6, <2>7 DEF ArrivalOK
  <1>2. ASSUME AskProfile(j, "check",
                 IF Linked(app.session)
                 THEN [app EXCEPT !.access = app.session, !.user = TRUE] ELSE app),
               UNCHANGED faults
        PROVE  ArrivalOK'
    <2>1. PICK a : a = IF Linked(app.session)
                       THEN [app EXCEPT !.access = app.session, !.user = TRUE] ELSE app
      OBVIOUS
    <2>2. AskProfile(j, "check", a)
      BY <1>2, <2>1 DEF AskProfile
    <2>3. /\ a \in AppState /\ a.access \in Held /\ a.user \in BOOLEAN
          /\ a = [app EXCEPT !.access = a.access, !.user = a.user]
          /\ a = app \/ a.access # "none"
          /\ app.session = "good" => a.access = "good"
          /\ app.session = "good" \/ app.session = "bad" \/ a = app
      BY <1>0, <2>1 DEF ArrivalTypeOK, AppState, Held, Sessions, Linked
    <2>4. app.session = "bad" \/ a = app \/ a.access = "good"
      BY <2>3
    <2> QED  BY <1>0, <1>2, <2>2, <2>3, <2>4, AskKeeps DEF Effects
  <1>3. ASSUME AskProfile(j, "check", app), Faulty  PROVE ArrivalOK'
    <2>1. PICK a : a = app
      OBVIOUS
    <2>2. AskProfile(j, "check", a)
      BY <1>3, <2>1 DEF AskProfile
    <2>3. a \in AppState /\ a.access \in Held /\ a.user \in BOOLEAN
          /\ a = [app EXCEPT !.access = a.access, !.user = a.user]
      BY <1>0, <2>1 DEF ArrivalTypeOK, AppState
    <2> QED  BY <1>0, <1>3, <2>1, <2>2, <2>3, AskKeeps DEF Effects, Faulty
  <1> QED  BY <1>1, <1>2, <1>3 DEF CheckSession

LEMMA LinkAnswerKeeps ==
  ASSUME ArrivalOK, NEW j \in Jobs, LinkAnswer(j)
  PROVE  ArrivalOK'
  <1>0. ArrivalTypeOK /\ job[j].op = "link" /\ UNCHANGED past
    BY DEF ArrivalOK, LinkAnswer
  <1>1. PICK who \in Effects : who = job[j].who
    BY <1>0, ArrivalJobShapes
  <1>2. \E a : /\ AskProfile(j, who, a)
               /\ \/ a = [app EXCEPT !.access = "good"] /\ UNCHANGED faults
                  \/ a = app /\ Faulty
    BY <1>1 DEF LinkAnswer, AskProfile
  <1>3. PICK a : /\ AskProfile(j, who, a)
                 /\ \/ a = [app EXCEPT !.access = "good"] /\ UNCHANGED faults
                    \/ a = app /\ Faulty
    BY <1>2
  <1>4. /\ a \in AppState /\ a.access \in Held /\ a.user \in BOOLEAN
        /\ a = [app EXCEPT !.access = a.access, !.user = a.user]
        /\ a = app \/ a.access = "good"
    BY <1>0, <1>3 DEF ArrivalTypeOK, AppState, Held
  <1>5. \/ faults' = faults + 1
        \/ a.access = "good" /\ UNCHANGED faults
    BY <1>0, <1>3 DEF Faulty, ArrivalTypeOK, AppState
  <1>6. AskProfile(j, who, a)
    BY <1>3
  <1> QED  BY <1>0, <1>1, <1>4, <1>5, <1>6, AskKeeps

(* Who has to give up has been refused for good, or met a fault.            *)
LEMMA FailKeeps ==
  ASSUME ArrivalOK, NEW j \in Jobs, job[j].op \in {"profile", "renew"}, ProfileFails(j),
         past' \in [clean : BOOLEAN, owed : BOOLEAN],
         \/ faults' = faults + 1
         \/ /\ UNCHANGED faults
            /\ \/ ~past'.clean
               \/ /\ job[j].op = "profile" /\ job[j].access = "bad" /\ app.refresh = "none"
                  /\ UNCHANGED past
  PROVE  ArrivalOK'
  <1>0. ArrivalTypeOK /\ Settles /\ Welcome
    BY DEF ArrivalOK
  <1>1. PICK a : a = IF job[j].who = "check" THEN Checked([app EXCEPT !.user = FALSE])
                     ELSE [app EXCEPT !.loading = FALSE]
    OBVIOUS
  <1>2. LogsOut(j, a)
    BY <1>1 DEF ProfileFails, LogsOut
  <1>3. PICK next : next = IF a.access = "none" THEN Idle ELSE [op |-> "logout"]
    OBVIOUS
  <1>4. Become(j, next) /\ app' = IF a.access = "none" THEN [a EXCEPT !.refresh = "none"] ELSE a
    BY <1>2, <1>3 DEF LogsOut
  <1>5. next \in ArrivalJob \cup {Idle} /\ next.op \in {"idle", "logout"}
    BY <1>3, ArrivalCalls DEF Idle
  <1>6. /\ app' \in AppState /\ app'.session = app.session /\ app'.view = app.view
        /\ app'.place = app.place /\ app'.access = app.access
        /\ app'.refresh = IF app.access = "none" THEN "none" ELSE app.refresh
        /\ app'.check = IF job[j].who = "check" THEN "done" ELSE app.check
        /\ ~app'.loading
    BY <1>0, <1>1, <1>4 DEF Checked, AppState, Held, ArrivalTypeOK
  <1>7. job[j].op # "session" /\ (Checks(job[j]) => job[j].who = "check")
    BY DEF Checks
  <1>8. app.check # "due"
    BY <1>0 DEF Settles, Free, Idle
  <1>9. faults' \in Nat /\ faults \in Nat /\ (faults' = 0 => faults = 0 /\ faults' = faults)
    BY <1>0 DEF ArrivalTypeOK
  <1>10. ArrivalTypeOK'
    BY <1>0, <1>4, <1>5, <1>6, <1>9, OneCall DEF ArrivalTypeOK
  <1>11. Settles'
    <2>1. app'.check = "running" => Checking'
      BY <1>0, <1>4, <1>5, <1>6, <1>7, ChecksGoOn DEF Settles
    <2>2. app'.check # "due"
      BY <1>6, <1>8
    <2> QED  BY <1>6, <2>1, <2>2 DEF Settles
  <1>12. Welcome'
    <2> SUFFICES ASSUME faults' = 0, past'.clean
                 PROVE  (TokensFit /\ (app.place = "leaving" => ~past.owed)
                           /\ (app.place # "leaving" => Staying))'
      BY DEF Welcome
    <2>1. /\ faults = 0 /\ UNCHANGED past
          /\ job[j].op = "profile" /\ job[j].access = "bad" /\ app.refresh = "none"
      BY <1>9
    <2>2. TokensFit /\ (app.place = "leaving" => ~past.owed) /\ (app.place # "leaving" => Staying)
      BY <1>0, <2>1 DEF Welcome
    <2>3. app.place = "leaving"
      <3>1. Refused
        BY <2>1 DEF Refused
      <3> QED  BY <2>1, <2>2, <3>1 DEF Staying
    <2>4. TokensFit'
      BY <1>6, <2>1, <2>2 DEF TokensFit
    <2> QED  BY <1>6, <2>1, <2>2, <2>3, <2>4
  <1> QED  BY <1>10, <1>11, <1>12 DEF ArrivalOK

LEMMA ProfileAnswerKeeps ==
  ASSUME ArrivalOK, NEW j \in Jobs, ProfileAnswer(j)
  PROVE  ArrivalOK'
  <1>0. ArrivalTypeOK /\ Settles /\ Welcome /\ job[j].op = "profile" /\ UNCHANGED past
    BY DEF ArrivalOK, ProfileAnswer
  <1>1. job[j] \in [op : {"profile"}, who : Effects, access : {"good", "bad"}]
    BY <1>0, ArrivalJobShapes
  <1>2. past' \in [clean : BOOLEAN, owed : BOOLEAN]
    BY <1>0 DEF ArrivalTypeOK
  <1>3. app.check # "due"
    BY <1>0 DEF Settles, Free, Idle
  <1>4. ASSUME job[j].access = "good", Finish(j), UNCHANGED faults,
               app' = IF job[j].who = "check" THEN Checked([app EXCEPT !.user = TRUE])
                      ELSE [app EXCEPT !.user = TRUE, !.loading = FALSE]
        PROVE  ArrivalOK'
    <2>1. PICK next : next = Idle
      OBVIOUS
    <2>2. Become(j, next) /\ next \in ArrivalJob \cup {Idle} /\ next.op = "idle"
      BY <1>4, <2>1 DEF Finish, Idle
    <2>3. /\ app' \in AppState /\ app'.session = app.session /\ app'.view = app.view
          /\ app'.place = app.place /\ app'.access = app.access /\ app'.refresh = app.refresh
          /\ app'.check = (IF job[j].who = "check" THEN "done" ELSE app.check)
          /\ app'.sync = (app.sync \/ job[j].who = "check")
          /\ app'.user /\ ~app'.loading
      BY <1>0, <1>4 DEF Checked, AppState, ArrivalTypeOK
    <2>4. ArrivalTypeOK'
      BY <1>0, <1>4, <2>2, <2>3, OneCall DEF ArrivalTypeOK
    <2>5. Settles'
      <3>1. Checks(job[j]) => job[j].who = "check"
        BY <1>0 DEF Checks
      <3>2. app'.check = "running" => Checking'
        BY <1>0, <2>2, <2>3, <3>1, ChecksGoOn DEF Settles
      <3> QED  BY <1>3, <2>3, <3>2 DEF Settles
    <2>6. Doing({"profile", "renew"})
      BY <1>0 DEF Doing
    <2>7. ~Doing({"logout"}) => ~Doing({"logout"})'
      BY <1>0, <2>2, OthersGoOn
    <2>8. Doing({"session"}) => Doing({"session"})'
      BY <1>0, <2>2, OthersGoOn
    <2>9. Refused' => Refused
      BY <1>0, <2>2, ChecksGoOn
    <2>10. Welcome'
      BY <1>0, <1>3, <1>4, <2>3, <2>6, <2>7, <2>8, <2>9 DEF Welcome, TokensFit, Staying
    <2> QED  BY <2>4, <2>5, <2>10 DEF ArrivalOK
  <1>5. ASSUME job[j].access = "bad", app.refresh # "none", UNCHANGED <<app, faults>>,
               Become(j, [op |-> "renew", who |-> job[j].who, token |-> app.refresh])
        PROVE  ArrivalOK'
    <2>1. PICK next : next = [op |-> "renew", who |-> job[j].who, token |-> app.refresh]
      OBVIOUS
    <2>2. app.refresh \in {"good", "bad"}
      BY <1>0, <1>5 DEF ArrivalTypeOK, AppState, Held
    <2>3. next \in ArrivalJob
      BY <1>1, <2>1, <2>2 DEF ArrivalJob
    <2>4. Become(j, next) /\ next \in ArrivalJob \cup {Idle} /\ next.op = "renew"
          /\ (Checks(job[j]) => Checks(next))
      BY <1>0, <1>5, <2>1, <2>3 DEF Checks
    <2>5. ArrivalTypeOK'
      BY <1>0, <1>5, <2>4, OneCall DEF ArrivalTypeOK
    <2>6. app.check = "running" => Checking'
      BY <1>0, <2>4, ChecksGoOn DEF Settles
    <2>7. Doing({"login"}) => Doing({"login"})'
      BY <1>0, <2>4, OthersGoOn
    <2>8. Settles'
      BY <1>0, <1>3, <1>5, <2>6, <2>7 DEF Settles
    <2>9. Doing({"profile", "renew"})
      BY <1>0 DEF Doing
    <2>10. ~Doing({"logout"}) => ~Doing({"logout"})'
      BY <1>0, <2>4, OthersGoOn
    <2>11. Doing({"session"}) => Doing({"session"})'
      BY <1>0, <2>4, OthersGoOn
    <2>12. Refused' => Refused
      BY <1>0, <2>4, ChecksGoOn
    <2>13. Doing({"session", "link", "profile", "renew"})'
      BY <1>0, <2>4, OthersGoOn
    <2>14. Welcome'
      BY <1>0, <1>3, <1>5, <2>9, <2>10, <2>11, <2>12, <2>13 DEF Welcome, TokensFit, Staying
    <2> QED  BY <2>5, <2>8, <2>14 DEF ArrivalOK
  <1>6. ASSUME ProfileFails(j),
               \/ Faulty
               \/ UNCHANGED faults /\ job[j].access = "bad" /\ app.refresh = "none"
        PROVE  ArrivalOK'
    BY <1>0, <1>2, <1>6, FailKeeps DEF Faulty
  <1> QED  BY <1>4, <1>5, <1>6 DEF ProfileAnswer

LEMMA RenewAnswerKeeps ==
  ASSUME ArrivalOK, NEW j \in Jobs, RenewAnswer(j)
  PROVE  ArrivalOK'
  <1>0. ArrivalTypeOK /\ Settles /\ Welcome /\ job[j].op = "renew"
    BY DEF ArrivalOK, RenewAnswer
  <1>1. job[j] \in [op : {"renew"}, who : Effects, token : {"good", "bad", "used"}]
    BY <1>0, ArrivalJobShapes
  <1>2. past \in [clean : BOOLEAN, owed : BOOLEAN] /\ faults \in Nat /\ app \in AppState
        /\ job \in [Jobs -> ArrivalJob \cup {Idle}]
    BY <1>0 DEF ArrivalTypeOK
  <1>3. app.check # "due"
    BY <1>0 DEF Settles, Free, Idle
  <1>4. ASSUME past' = [past EXCEPT !.clean = @ /\ job[j].token = "good"],
               app' = [app EXCEPT !.access = "good", !.refresh = "good"],
               job' = [k \in Jobs |->
                        IF k = j THEN Profile(job[j].who, "good")
                        ELSE IF job[k].op = "renew" /\ job[k].token = "good"
                             THEN [job[k] EXCEPT !.token = "used"] ELSE job[k]],
               UNCHANGED faults
        PROVE  ArrivalOK'
    <2>1. /\ job'[j] = Profile(job[j].who, "good") /\ job'[j] \in ArrivalJob
          /\ job'[j].op = "profile" /\ job'[j].access = "good" /\ (Checks(job[j]) => Checks(job'[j]))
      BY <1>0, <1>1, <1>4, ArrivalCalls DEF Profile, Checks
    <2>2. \A k \in Jobs : k # j =>
            /\ job'[k] \in ArrivalJob \cup {Idle}
            /\ job'[k].op = job[k].op /\ (Checks(job[k]) => Checks(job'[k]))
            /\ job[k].op = "profile" => job'[k] = job[k]
      <3> SUFFICES ASSUME NEW k \in Jobs, k # j
                   PROVE  /\ job'[k] \in ArrivalJob \cup {Idle}
                          /\ job'[k].op = job[k].op /\ (Checks(job[k]) => Checks(job'[k]))
                          /\ job[k].op = "profile" => job'[k] = job[k]
        OBVIOUS
      <3>1. CASE job[k].op = "renew" /\ job[k].token = "good"
        <4>1. job[k] \in [op : {"renew"}, who : Effects, token : {"good", "bad", "used"}]
          BY <1>0, <3>1, ArrivalJobShapes
        <4>2. job'[k] = [op |-> "renew", who |-> job[k].who, token |-> "used"]
          BY <1>4, <3>1, <4>1
        <4>3. job'[k] \in ArrivalJob
          BY <4>1, <4>2 DEF ArrivalJob
        <4> QED  BY <3>1, <4>1, <4>2, <4>3 DEF Checks
      <3>2. CASE ~(job[k].op = "renew" /\ job[k].token = "good")
        <4>1. job'[k] = job[k]
          BY <1>4, <3>2
        <4> QED  BY <1>2, <4>1
      <3> QED  BY <3>1, <3>2
    <2>3. /\ past'.owed = past.owed /\ (past'.clean => past.clean)
          /\ past' \in [clean : BOOLEAN, owed : BOOLEAN]
      BY <1>2, <1>4
    <2>4. /\ app' \in AppState /\ app'.session = app.session /\ app'.view = app.view
          /\ app'.place = app.place /\ app'.access = "good" /\ app'.refresh = "good"
          /\ app'.check = app.check /\ app'.loading = app.loading
      BY <1>2, <1>4 DEF AppState, Held
    <2>5. job' \in [Jobs -> ArrivalJob \cup {Idle}]
      BY <1>4, <2>1, <2>2
    <2>6. ArrivalTypeOK'
      BY <1>2, <1>4, <2>3, <2>4, <2>5 DEF ArrivalTypeOK
    <2>7. Checking => Checking'
      BY <2>1, <2>2 DEF Checking
    <2>8. Doing({"login"}) => Doing({"login"})'
      BY <1>0, <2>2 DEF Doing
    <2>9. Settles'
      BY <1>0, <1>3, <2>4, <2>7, <2>8 DEF Settles
    <2>10. ~Doing({"logout"}) => ~Doing({"logout"})'
      BY <2>1, <2>2 DEF Doing
    <2>11. Doing({"session", "link", "profile", "renew"})'
      BY <2>1 DEF Doing
    <2>12. Welcome'
      BY <1>0, <1>4, <2>3, <2>4, <2>10, <2>11 DEF Welcome, TokensFit, Staying
    <2> QED  BY <2>6, <2>9, <2>12 DEF ArrivalOK
  <1>5. ASSUME past' = [past EXCEPT !.clean = FALSE], ProfileFails(j), UNCHANGED faults
        PROVE  ArrivalOK'
    <2>1. past' \in [clean : BOOLEAN, owed : BOOLEAN] /\ ~past'.clean
      BY <1>2, <1>5
    <2> QED  BY <1>0, <1>5, <2>1, FailKeeps
  <1>6. ASSUME ProfileFails(j), Faulty, UNCHANGED past
        PROVE  ArrivalOK'
    BY <1>0, <1>2, <1>6, FailKeeps DEF Faulty
  <1> QED  BY <1>4, <1>5, <1>6 DEF RenewAnswer

LEMMA MountKeeps ==
  ASSUME ArrivalOK, NEW j \in Jobs, NEW k \in Jobs, Mount(j, k)
  PROVE  ArrivalOK'
  <1>0. /\ ArrivalTypeOK /\ Settles /\ Welcome /\ UNCHANGED <<past, faults>>
        /\ app.check = "due" /\ j # k
    BY DEF ArrivalOK, Mount
  <1>1. PICK a : a = [app EXCEPT !.check = "running", !.loading = TRUE]
    OBVIOUS
  <1>2. /\ a \in AppState /\ a.session = app.session /\ a.view = app.view /\ a.access = app.access
        /\ a.refresh = app.refresh /\ a.user = app.user /\ a.place = app.place
        /\ a.check = "running" /\ a.sync = app.sync
    BY <1>0, <1>1 DEF ArrivalTypeOK, AppState
  <1>3. SyncCalls(a) = SyncCalls(app)
    BY <1>2 DEF SyncCalls
  <1>4. PICK call \in SyncCalls(a) :
          /\ app' = SyncedUpTo(a, call)
          /\ job' = [job EXCEPT ![j] = [op |-> "session"], ![k] = call]
    BY <1>1, <1>3 DEF Mount
  <1>5. PICK b : b = app' /\ b = SyncedUpTo(a, call)
    BY <1>4
  <1>6. /\ b \in AppState /\ call \in ArrivalJob \cup {Idle}
        /\ b.session = a.session /\ b.view = a.view /\ b.check = a.check /\ b.sync = a.sync
        /\ b.place = a.place
        /\ \/ /\ a.view \in {"good", "bad"} /\ b.access = a.view /\ b.refresh = a.refresh
              /\ call = Profile("sync", a.view)
           \/ /\ b.access = a.access /\ b.user = a.user /\ b.refresh = a.refresh
              /\ \/ call = Idle \/ call = Link("sync")
                 \/ call = Profile("sync", a.access) /\ a.access # "none"
           \/ a.access = "none" /\ b.access = "none" /\ ~b.user /\ b.refresh = "none" /\ call = Idle
    BY <1>2, <1>5, SyncMeans
  <1>7. [op |-> "session"] \in ArrivalJob
    BY ArrivalCalls
  <1>8. /\ job' \in [Jobs -> ArrivalJob \cup {Idle}] /\ job'[j].op = "session" /\ job'[k] = call
        /\ \A i \in Jobs : i # j /\ i # k => job'[i].op = "idle"
    BY <1>0, <1>4, <1>6, <1>7 DEF ArrivalTypeOK, Settles, Free, Idle
  <1>9. /\ call.op \in {"idle", "link", "profile"}
        /\ call.op = "profile" => \/ a.view \in {"good", "bad"} /\ call.access = a.view /\ b.access = a.view
                                  \/ call.access = a.access /\ b.access = a.access /\ b.access # "none"
    BY <1>6 DEF Idle, Link, Profile
  <1>10. ArrivalTypeOK'
    BY <1>0, <1>5, <1>6, <1>8 DEF ArrivalTypeOK
  <1>11. Checking' /\ Doing({"session"})' /\ Doing({"session", "link", "profile", "renew"})'
    BY <1>8 DEF Checking, Checks, Doing
  <1>12. Settles'
    BY <1>2, <1>5, <1>6, <1>11 DEF Settles
  <1>13. Welcome'
    <2>1. ~Doing({"logout"})'
      BY <1>8, <1>9 DEF Doing
    <2>2. Doing({"profile", "renew"})' => call.op = "profile"
      BY <1>8, <1>9 DEF Doing
    <2>3. Refused' => call.op = "profile" /\ call.access = "bad"
      BY <1>8 DEF Refused
    <2>4. ~app.user
      BY <1>0 DEF Settles
    <2> SUFFICES ASSUME faults' = 0, past'.clean
                 PROVE  (TokensFit /\ (app.place = "leaving" => ~past.owed)
                           /\ (app.place # "leaving" => Staying))'
      BY DEF Welcome
    <2>5. TokensFit /\ (app.place = "leaving" => ~past.owed) /\ (app.place # "leaving" => Staying)
          /\ UNCHANGED past
      BY <1>0 DEF Welcome
    <2>6. TokensFit'
      BY <1>2, <1>5, <1>6, <2>5 DEF TokensFit
    <2>8. b.user \/ Doing({"profile", "renew"})' => b.access # "none"
      BY <1>2, <1>6, <1>9, <2>2, <2>4
    <2>9. Refused' => b.refresh = "good"
      BY <1>2, <1>6, <1>9, <2>3, <2>5 DEF TokensFit
    <2>10. ASSUME app.place # "leaving"  PROVE Staying'
      BY <1>2, <1>5, <1>6, <1>11, <2>1, <2>5, <2>8, <2>9, <2>10 DEF Staying
    <2> QED  BY <1>2, <1>5, <1>6, <2>5, <2>6, <2>10
  <1> QED  BY <1>10, <1>12, <1>13 DEF ArrivalOK

LEMMA SyncRunKeeps ==
  ASSUME ArrivalOK, NEW k \in Jobs, SyncRun(k)
  PROVE  ArrivalOK'
  <1>0. /\ ArrivalTypeOK /\ Settles /\ Welcome /\ UNCHANGED <<past, faults>>
        /\ app.sync /\ job[k] = Idle /\ job[k].op = "idle" /\ app.check # "due"
    BY DEF ArrivalOK, SyncRun, Free, Idle, Settles
  <1>1. PICK a : a = [app EXCEPT !.sync = FALSE]
    OBVIOUS
  <1>2. /\ a \in AppState /\ a.session = app.session /\ a.view = app.view /\ a.access = app.access
        /\ a.refresh = app.refresh /\ a.user = app.user /\ a.place = app.place
        /\ a.check = app.check /\ ~a.sync /\ a.loading = app.loading
    BY <1>0, <1>1 DEF ArrivalTypeOK, AppState
  <1>3. SyncCalls(a) = SyncCalls(app)
    BY <1>2 DEF SyncCalls
  <1>4. PICK call \in SyncCalls(a) : app' = SyncedUpTo(a, call) /\ Become(k, call)
    BY <1>1, <1>3 DEF SyncRun
  <1>5. PICK b : b = app' /\ b = SyncedUpTo(a, call)
    BY <1>4
  <1>6. /\ b \in AppState /\ call \in ArrivalJob \cup {Idle}
        /\ b.session = a.session /\ b.view = a.view /\ b.check = a.check /\ b.sync = a.sync
        /\ b.place = a.place /\ (b.loading => a.loading)
        /\ \/ /\ a.view \in {"good", "bad"} /\ b.access = a.view /\ b.user /\ b.refresh = a.refresh
              /\ call = Profile("sync", a.view)
           \/ /\ b.access = a.access /\ b.user = a.user /\ b.refresh = a.refresh
              /\ a.view \notin {"good", "bad"}
              /\ \/ call = Idle \/ call = Link("sync")
                 \/ call = Profile("sync", a.access) /\ a.access # "none"
           \/ /\ a.access = "none" /\ b.access = "none" /\ ~b.user /\ b.refresh = "none" /\ call = Idle
              /\ a.view = "none"
    BY <1>2, <1>5, SyncMeans
  <1>7. /\ call.op \in {"idle", "link", "profile"}
        /\ call.op = "profile" => \/ a.view \in {"good", "bad"} /\ call.access = a.view /\ b.access = a.view
                                  \/ call.access = a.access /\ b.access = a.access /\ b.access # "none"
        /\ a.view \in {"good", "bad"} => call.op = "profile"
    BY <1>6 DEF Idle, Link, Profile
  <1>8. ArrivalTypeOK'
    BY <1>0, <1>4, <1>5, <1>6, OneCall DEF ArrivalTypeOK
  <1>9. (Checking => Checking') /\ (Refused' => Refused \/ (call.op = "profile" /\ call.access = "bad"))
    <2>1. ~Checks(job[k])
      BY <1>0 DEF Checks
    <2> QED  BY <1>0, <1>4, <1>6, <2>1, ChecksGoOn
  <1>10. Doing({"login"}) => Doing({"login"})'
    BY <1>0, <1>4, <1>6, OthersGoOn
  <1>11. Settles'
    BY <1>0, <1>2, <1>5, <1>6, <1>9, <1>10 DEF Settles
  <1>12. Welcome'
    <2> SUFFICES ASSUME faults' = 0, past'.clean
                 PROVE  (TokensFit /\ (app.place = "leaving" => ~past.owed)
                           /\ (app.place # "leaving" => Staying))'
      BY DEF Welcome
    <2>1. TokensFit /\ (app.place = "leaving" => ~past.owed) /\ (app.place # "leaving" => Staying)
          /\ UNCHANGED past
      BY <1>0 DEF Welcome
    <2>2. TokensFit'
      BY <1>2, <1>5, <1>6, <2>1 DEF TokensFit
    <2>3. ASSUME app.place # "leaving"  PROVE Staying'
      <3>0. Staying
        BY <2>1, <2>3
      <3>1. ~Doing({"logout"})'
        BY <1>0, <1>4, <1>6, <1>7, <3>0, OthersGoOn DEF Staying
      <3>2. Doing({"profile", "renew"})' => Doing({"profile", "renew"}) \/ call.op = "profile"
        BY <1>0, <1>4, <1>6, <1>7, OthersGoOn
      <3>3. Doing({"session"}) => Doing({"session"})'
        BY <1>0, <1>4, <1>6, OthersGoOn
      <3>4. Doing({"session", "link", "profile", "renew"}) => Doing({"session", "link", "profile", "renew"})'
        BY <1>0, <1>4, <1>6, OthersGoOn
      <3>5. b.user \/ Doing({"profile", "renew"})' => b.access # "none"
        BY <1>2, <1>6, <1>7, <3>0, <3>2 DEF Staying
      <3>6. Refused' => b.refresh = "good"
        BY <1>2, <1>6, <1>7, <1>9, <2>1, <3>0 DEF Staying, TokensFit
      <3>7. b.access # "none" /\ ~b.user => Doing({"session", "link", "profile", "renew"})'
        BY <1>0, <1>2, <1>6, <3>0, <3>4 DEF Staying
      <3>8. past'.owed /\ b.access = "none" =>
              b.session = "good" /\ (Doing({"session"})' \/ b.view = "none")
        BY <1>0, <1>2, <1>6, <2>1, <3>0, <3>3 DEF Staying
      <3> QED  BY <1>5, <3>1, <3>5, <3>6, <3>7, <3>8 DEF Staying
    <2> QED  BY <1>2, <1>5, <1>6, <2>1, <2>2, <2>3
  <1> QED  BY <1>8, <1>11, <1>12 DEF ArrivalOK

LEMMA LoginKeeps ==
  ASSUME ArrivalOK, NEW j \in Jobs, Login(j) \/ LoginAnswer(j)
  PROVE  ArrivalOK'
  <1>0. ArrivalTypeOK /\ Settles /\ Welcome /\ UNCHANGED faults
    BY DEF ArrivalOK, Login, LoginAnswer
  <1>1. /\ app \in AppState /\ faults \in Nat /\ past \in [clean : BOOLEAN, owed : BOOLEAN]
    BY <1>0 DEF ArrivalTypeOK
  <1>2. ASSUME Login(j)  PROVE ArrivalOK'
    <2>1. PICK next : next = [op |-> "login"]
      OBVIOUS
    <2>2. Become(j, next) /\ next \in ArrivalJob \cup {Idle} /\ next.op = "login"
      BY <1>2, <2>1, ArrivalCalls DEF Login
    <2>3. job[j].op = "idle" /\ ~Checks(job[j])
      BY <1>2 DEF Login, Free, Idle, Checks
    <2>4. /\ app' \in AppState /\ UNCHANGED past /\ app.check # "due"
          /\ app' = [app EXCEPT !.loading = TRUE]
      BY <1>1, <1>2 DEF Login, AppState
    <2>5. ArrivalTypeOK'
      BY <1>0, <2>2, <2>4, OneCall DEF ArrivalTypeOK
    <2>6. (Checking => Checking') /\ (Refused' => Refused)
      BY <1>0, <2>2, <2>3, ChecksGoOn
    <2>7. Doing({"login"})'
      BY <1>0, <2>2, OthersGoOn
    <2>8. Settles'
      BY <1>0, <1>1, <2>4, <2>6, <2>7 DEF Settles, AppState
    <2>9. /\ Doing({"logout"})' => Doing({"logout"})
          /\ Doing({"profile", "renew"})' => Doing({"profile", "renew"})
      BY <1>0, <2>2, OthersGoOn
    <2>10. /\ Doing({"session"}) => Doing({"session"})'
           /\ Doing({"session", "link", "profile", "renew"}) => Doing({"session", "link", "profile", "renew"})'
      BY <1>0, <2>2, <2>3, OthersGoOn
    <2>11. Welcome'
      BY <1>0, <1>1, <2>4, <2>6, <2>9, <2>10 DEF Welcome, TokensFit, Staying, AppState
    <2> QED  BY <2>5, <2>8, <2>11 DEF ArrivalOK
  <1>3. ASSUME LoginAnswer(j)  PROVE ArrivalOK'
    <2>1. PICK next : next = Idle
      OBVIOUS
    <2>2. Become(j, next) /\ next \in ArrivalJob \cup {Idle} /\ next.op = "idle"
      BY <1>3, <2>1 DEF LoginAnswer, Finish, Idle
    <2>3. job[j].op = "login" /\ ~Checks(job[j])
      BY <1>3 DEF LoginAnswer, Checks
    <2>4. app.check # "due"
      BY <1>0, <2>3 DEF Settles, Free, Idle
    <2>5. /\ app' \in AppState /\ ~app'.loading /\ app'.session = app.session /\ app'.view = app.view
          /\ app'.check = app.check /\ app'.sync = app.sync
          /\ \/ /\ app'.access = "good" /\ app'.refresh = "good" /\ app'.user
                /\ past' = [past EXCEPT !.owed = @ \/ app.place # "leaving"]
                /\ (app'.place = "leaving" <=> app.place = "leaving")
             \/ /\ app'.access = app.access /\ app'.refresh = app.refresh /\ app'.user = app.user
                /\ app'.place = app.place /\ UNCHANGED past
      BY <1>1, <1>3 DEF LoginAnswer, AppState, Held
    <2>6. past' \in [clean : BOOLEAN, owed : BOOLEAN] /\ past'.clean = past.clean
          /\ (app.place = "leaving" => past'.owed = past.owed)
      BY <1>1, <2>5
    <2>7. ArrivalTypeOK'
      BY <1>0, <2>2, <2>5, <2>6, OneCall DEF ArrivalTypeOK
    <2>8. (Checking => Checking') /\ (Refused' => Refused)
      BY <1>0, <2>2, <2>3, ChecksGoOn
    <2>9. Settles'
      BY <1>0, <2>4, <2>5, <2>8 DEF Settles
    <2>10. /\ Doing({"logout"})' => Doing({"logout"})
           /\ Doing({"profile", "renew"})' => Doing({"profile", "renew"})
      BY <1>0, <2>2, OthersGoOn
    <2>11. /\ Doing({"session"}) => Doing({"session"})'
           /\ Doing({"session", "link", "profile", "renew"}) => Doing({"session", "link", "profile", "renew"})'
      BY <1>0, <2>2, <2>3, OthersGoOn
    <2>12. CASE app'.access = "good" /\ app'.refresh = "good" /\ app'.user
                /\ (app'.place = "leaving" <=> app.place = "leaving")
      <3>1. Welcome'
        BY <1>0, <2>5, <2>6, <2>8, <2>10, <2>12 DEF Welcome, TokensFit, Staying
      <3> QED  BY <2>7, <2>9, <3>1 DEF ArrivalOK
    <2>13. CASE app'.access = app.access /\ app'.refresh = app.refresh /\ app'.user = app.user
                /\ app'.place = app.place /\ UNCHANGED past
      <3>1. Welcome'
        BY <1>0, <2>4, <2>5, <2>8, <2>10, <2>11, <2>13 DEF Welcome, TokensFit, Staying
      <3> QED  BY <2>7, <2>9, <3>1 DEF ArrivalOK
    <2> QED  BY <2>5, <2>12, <2>13
  <1> QED  BY <1>2, <1>3

LEMMA LogoutKeeps ==
  ASSUME ArrivalOK, NEW j \in Jobs, Logout(j) \/ LogoutAnswer(j)
  PROVE  ArrivalOK'
  <1>0. ArrivalTypeOK /\ Settles /\ Welcome /\ UNCHANGED faults
    BY DEF ArrivalOK, Logout, LogoutAnswer
  <1>1. /\ app \in AppState /\ faults \in Nat /\ past \in [clean : BOOLEAN, owed : BOOLEAN]
    BY <1>0 DEF ArrivalTypeOK
  <1>2. ASSUME Logout(j)  PROVE ArrivalOK'
    <2>1. PICK a : a = [app EXCEPT !.user = FALSE, !.place = "leaving"]
      OBVIOUS
    <2>2. LogsOut(j, a) /\ past' = [past EXCEPT !.owed = FALSE]
      BY <1>2, <2>1 DEF Logout, LogsOut
    <2>3. PICK next : next = IF a.access = "none" THEN Idle ELSE [op |-> "logout"]
      OBVIOUS
    <2>4. Become(j, next) /\ app' = IF a.access = "none" THEN [a EXCEPT !.refresh = "none"] ELSE a
      BY <2>2, <2>3 DEF LogsOut
    <2>5. next \in ArrivalJob \cup {Idle}
      BY <2>3, ArrivalCalls
    <2>6. /\ app' \in AppState /\ app'.session = app.session /\ app'.view = app.view
          /\ app'.place = "leaving" /\ app'.access = app.access
          /\ app'.refresh = IF app.access = "none" THEN "none" ELSE app.refresh
          /\ app'.check = app.check /\ app'.loading = app.loading
      BY <1>1, <2>1, <2>4 DEF AppState, Held
    <2>7. past' \in [clean : BOOLEAN, owed : BOOLEAN] /\ past'.clean = past.clean /\ ~past'.owed
      BY <1>1, <2>2
    <2>8. job[j].op = "idle" /\ ~Checks(job[j]) /\ app.check # "due"
      BY <1>0, <1>2 DEF Logout, Free, Idle, Checks, Settles
    <2>9. ArrivalTypeOK'
      BY <1>0, <2>4, <2>5, <2>6, <2>7, OneCall DEF ArrivalTypeOK
    <2>10. Checking => Checking'
      BY <1>0, <2>4, <2>5, <2>8, ChecksGoOn
    <2>11. Doing({"login"}) => Doing({"login"})'
      BY <1>0, <2>4, <2>5, <2>8, OthersGoOn
    <2>12. Settles'
      BY <1>0, <2>6, <2>8, <2>10, <2>11 DEF Settles
    <2>13. Welcome'
      BY <1>0, <2>6, <2>7 DEF Welcome, TokensFit
    <2> QED  BY <2>9, <2>12, <2>13 DEF ArrivalOK
  <1>3. ASSUME LogoutAnswer(j)  PROVE ArrivalOK'
    <2>1. PICK next : next = Idle
      OBVIOUS
    <2>2. Become(j, next) /\ next \in ArrivalJob \cup {Idle}
      BY <1>3, <2>1 DEF LogoutAnswer, Finish
    <2>3. job[j].op = "logout" /\ ~Checks(job[j]) /\ Doing({"logout"})
      BY <1>3 DEF LogoutAnswer, Checks, Doing
    <2>4. app.check # "due"
      BY <1>0, <2>3 DEF Settles, Free, Idle
    <2>5. /\ app' \in AppState /\ app'.session = app.session /\ app'.view = app.view
          /\ app'.place = app.place /\ app'.access = "none" /\ app'.refresh = "none"
          /\ app'.check = app.check /\ app'.loading = app.loading /\ UNCHANGED past
      BY <1>1, <1>3 DEF LogoutAnswer, AppState, Held
    <2>6. ArrivalTypeOK'
      BY <1>0, <2>2, <2>5, OneCall DEF ArrivalTypeOK
    <2>7. Checking => Checking'
      BY <1>0, <2>2, <2>3, ChecksGoOn
    <2>8. Doing({"login"}) => Doing({"login"})'
      BY <1>0, <2>2, <2>3, OthersGoOn
    <2>9. Settles'
      BY <1>0, <2>4, <2>5, <2>7, <2>8 DEF Settles
    <2>10. Welcome'
      BY <1>0, <2>3, <2>5 DEF Welcome, TokensFit, Staying
    <2> QED  BY <2>6, <2>9, <2>10 DEF ArrivalOK
  <1> QED  BY <1>2, <1>3

LEMMA FreshIsOK ==
  ASSUME NEW session \in Sessions, NEW access \in Held, NEW refresh \in Held,
         NEW place \in {"dashboard", "auth"}, NEW a, a = Fresh(session, access, refresh, place)
  PROVE  /\ a \in AppState /\ a.session = session /\ a.access = access /\ a.refresh = refresh
         /\ a.place # "leaving" /\ ~a.user /\ a.check = "due" /\ ~a.sync
         /\ a.view \in {"none", "plain"} /\ (session = "none" => a.view = "none")
  BY DEF Fresh, AppState

LEMMA LeaveKeeps ==
  ASSUME ArrivalOK, Leave
  PROVE  ArrivalOK'
  <1>0. ArrivalTypeOK /\ Welcome /\ UNCHANGED past /\ app.place = "leaving"
        /\ job' = [j \in Jobs |-> Idle]
    BY DEF ArrivalOK, Leave
  <1>1. faults \in Nat /\ (faults' = faults \/ faults' = faults + 1)
    BY <1>0 DEF ArrivalTypeOK, Leave, Faulty
  <1>2. app.access \in Held /\ app.refresh \in Held
    BY <1>0 DEF ArrivalTypeOK, AppState
  <1>3. PICK access \in Held, refresh \in Held : access = app.access /\ refresh = app.refresh
    BY <1>2
  <1>4. PICK a : a = app' /\ a = Fresh("none", access, refresh, "auth")
    BY <1>3 DEF Leave
  <1>5. /\ a \in AppState /\ a.session = "none" /\ a.access = access /\ a.refresh = refresh
        /\ a.place # "leaving" /\ ~a.user /\ a.check = "due" /\ ~a.sync /\ a.view = "none"
    BY <1>4, FreshIsOK DEF Sessions
  <1>6. /\ job' \in [Jobs -> ArrivalJob \cup {Idle}] /\ (\A j \in Jobs : Free(j))'
        /\ ~Doing({"logout"})' /\ ~Doing({"profile", "renew"})' /\ ~Refused'
    BY <1>0 DEF Free, Doing, Refused, Idle
  <1>7. ArrivalTypeOK'
    BY <1>0, <1>1, <1>4, <1>5, <1>6 DEF ArrivalTypeOK
  <1>8. Settles'
    BY <1>4, <1>5, <1>6 DEF Settles
  <1>9. Welcome'
    BY <1>0, <1>1, <1>3, <1>4, <1>5, <1>6 DEF Welcome, TokensFit, Staying
  <1> QED  BY <1>7, <1>8, <1>9 DEF ArrivalOK

(* The steps that only the page itself or its visitor takes.                *)
LEMMA PageKeeps ==
  ASSUME ArrivalOK,
         PopupSignIn \/ Refocus \/ GuardMounts \/ GuardPushes \/ UNCHANGED arrivalVars
  PROVE  ArrivalOK'
  <1>0. ArrivalTypeOK /\ Settles /\ Welcome /\ UNCHANGED <<job, faults>>
    BY DEF ArrivalOK, PopupSignIn, Refocus, GuardMounts, GuardPushes, arrivalVars
  <1>1. /\ app \in AppState /\ faults \in Nat /\ past \in [clean : BOOLEAN, owed : BOOLEAN]
    BY <1>0 DEF ArrivalTypeOK
  <1>2. /\ Doing({"logout"})' = Doing({"logout"}) /\ Doing({"login"})' = Doing({"login"})
        /\ Doing({"session"})' = Doing({"session"})
        /\ Doing({"profile", "renew"})' = Doing({"profile", "renew"})
        /\ Doing({"session", "link", "profile", "renew"})' = Doing({"session", "link", "profile", "renew"})
        /\ Checking' = Checking /\ Refused' = Refused
        /\ (\A j \in Jobs : Free(j))' = \A j \in Jobs : Free(j)
    BY <1>0 DEF Doing, Checking, Refused, Free
  <1>3. /\ app'.access = app.access /\ app'.refresh = app.refresh /\ app'.user = app.user
        /\ app'.check = app.check /\ app'.loading = app.loading /\ app' \in AppState
    BY <1>1 DEF PopupSignIn, Refocus, GuardMounts, GuardPushes, arrivalVars, AppState, Sessions
  <1>4. CASE PopupSignIn
    <2>1. PICK session \in {"good", "bare"} :
            /\ app' = [app EXCEPT !.session = session, !.place = "other"]
            /\ past' = [past EXCEPT !.owed = @ \/ session = "good"]
      BY <1>4 DEF PopupSignIn
    <2>2. app.place = "auth" /\ app.check # "due" /\ app.session = "none"
      BY <1>4 DEF PopupSignIn
    <2>3. /\ past' \in [clean : BOOLEAN, owed : BOOLEAN] /\ past'.clean = past.clean
          /\ past'.owed => past.owed \/ session = "good"
      BY <1>1, <2>1
    <2>4. /\ app'.session = session /\ app'.view = app.view /\ app'.sync = app.sync
          /\ app'.place = "other"
      BY <1>1, <2>1 DEF AppState
    <2>5. ArrivalTypeOK'
      BY <1>0, <1>3, <2>3 DEF ArrivalTypeOK
    <2>6. Settles'
      BY <1>0, <1>2, <1>3, <2>2, <2>4 DEF Settles
    <2>7. Welcome'
      BY <1>0, <1>2, <1>3, <2>2, <2>3, <2>4 DEF Welcome, TokensFit, Staying
    <2> QED  BY <2>5, <2>6, <2>7 DEF ArrivalOK
  <1>5. CASE Refocus
    <2>1. /\ app.check # "due" /\ app'.session = app.session /\ app'.view = app.session
          /\ app'.sync /\ app'.place = app.place /\ UNCHANGED past
      BY <1>1, <1>5 DEF Refocus, AppState
    <2>2. ArrivalTypeOK'
      BY <1>0, <1>3, <2>1 DEF ArrivalTypeOK
    <2>3. Settles'
      BY <1>0, <1>2, <1>3, <2>1 DEF Settles
    <2>4. Welcome'
      BY <1>0, <1>2, <1>3, <2>1 DEF Welcome, TokensFit, Staying
    <2> QED  BY <2>2, <2>3, <2>4 DEF ArrivalOK
  <1>6. CASE GuardMounts \/ GuardPushes \/ UNCHANGED arrivalVars
    <2>1. /\ app'.session = app.session /\ app'.view = app.view /\ app'.sync = app.sync
          /\ (app'.place = "leaving" <=> app.place = "leaving") /\ UNCHANGED past
      BY <1>1, <1>6 DEF GuardMounts, GuardPushes, arrivalVars, AppState
    <2>2. ArrivalTypeOK'
      BY <1>0, <1>3, <2>1 DEF ArrivalTypeOK
    <2>3. Settles'
      BY <1>0, <1>2, <1>3, <2>1 DEF Settles
    <2>4. Welcome'
      BY <1>0, <1>2, <1>3, <2>1 DEF Welcome, TokensFit, Staying
    <2> QED  BY <2>2, <2>3, <2>4 DEF ArrivalOK
  <1> QED  BY <1>4, <1>5, <1>6

LEMMA ArrivalBegins == ArrivalInit => ArrivalOK
  <1> SUFFICES ASSUME ArrivalInit  PROVE ArrivalOK
    OBVIOUS
  <1>1. PICK session \in Sessions, access \in Held, refresh \in Held, place \in {"dashboard", "auth"} :
          /\ access = "none" => refresh = "none"
          /\ app = Fresh(session, access, refresh, place)
          /\ past = [clean |-> session # "bad" /\ refresh # "bad" /\ (access = "bad" => refresh = "good"),
                     owed  |-> session = "good" \/ access = "good" \/ refresh = "good"]
    BY DEF ArrivalInit
  <1>2. job = [j \in Jobs |-> Idle] /\ faults = 0
    BY DEF ArrivalInit, BackendInit
  <1>3. PICK a : a = app /\ a = Fresh(session, access, refresh, place)
    BY <1>1
  <1>4. /\ a \in AppState /\ a.session = session /\ a.access = access /\ a.refresh = refresh
        /\ a.place # "leaving" /\ ~a.user /\ a.check = "due" /\ ~a.sync
        /\ a.view \in {"none", "plain"} /\ (session = "none" => a.view = "none")
    BY <1>3, FreshIsOK
  <1>5. /\ job \in [Jobs -> ArrivalJob \cup {Idle}] /\ \A j \in Jobs : Free(j)
        /\ ~Doing({"logout"}) /\ ~Doing({"profile", "renew"}) /\ ~Refused
    BY <1>2 DEF Free, Doing, Refused, Idle
  <1>6. ArrivalTypeOK
    BY <1>1, <1>2, <1>3, <1>4, <1>5 DEF ArrivalTypeOK
  <1>7. Settles
    BY <1>3, <1>4, <1>5 DEF Settles
  <1>8. past.clean => session # "bad" /\ refresh # "bad" /\ (access = "bad" => refresh = "good")
    BY <1>1
  <1>9. past.owed => session = "good" \/ access = "good" \/ refresh = "good"
    BY <1>1
  <1>10. Welcome
    BY <1>1, <1>3, <1>4, <1>5, <1>8, <1>9 DEF Welcome, TokensFit, Staying
  <1> QED  BY <1>6, <1>7, <1>10 DEF ArrivalOK

LEMMA ArrivalKeeps == ArrivalOK /\ [ArrivalNext]_arrivalVars => ArrivalOK'
  BY CheckSessionKeeps, LinkAnswerKeeps, ProfileAnswerKeeps, RenewAnswerKeeps, MountKeeps,
     SyncRunKeeps, LoginKeeps, LogoutKeeps, LeaveKeeps, PageKeeps
  DEF ArrivalNext, ArrivalStep

LEMMA ArrivalShows == ArrivalOK => SignedInIsShown
  <1> SUFFICES ASSUME ArrivalOK, Arrived, faults = 0, past.clean
               PROVE  /\ past.owed => app.user
                      /\ app.user <=> app.access # "none"
                      /\ ~app.loading
    BY DEF SignedInIsShown
  <1>1. /\ \A ops \in SUBSET {"session", "login", "logout", "link", "profile", "renew"} : ~Doing(ops)
        /\ app.check = "done" /\ ~app.sync /\ app.place # "leaving"
        /\ app.view = app.session \/ app.view = "plain"
    BY DEF Arrived, Free, Doing, Idle
  <1>2. ~Doing({"session", "link", "profile", "renew"}) /\ ~Doing({"session"}) /\ ~Doing({"login"})
    BY <1>1
  <1>3. Settles /\ Staying /\ app.user \in BOOLEAN
    BY <1>1 DEF ArrivalOK, ArrivalTypeOK, AppState, Welcome
  <1>4. app.user <=> app.access # "none"
    BY <1>1, <1>2, <1>3 DEF Staying
  <1>5. past.owed => app.access # "none"
    BY <1>1, <1>2, <1>3 DEF Staying
  <1>6. ~app.loading
    BY <1>1, <1>2, <1>3 DEF Settles
  <1> QED  BY <1>4, <1>5, <1>6

(* However the effects of a page load, a sign-in, a popup and a sign-out    *)
(* interleave, at rest the page shows whoever is signed in, and nothing is  *)
(* loading (auth-provider.tsx:52-146, auth-store.ts:80-149).                *)
THEOREM SignedInShows == ArrivalSpec => []SignedInIsShown
  BY ArrivalBegins, ArrivalKeeps, ArrivalShows, PTL DEF ArrivalSpec

---------------------------------------------------------------------------
(* The buttons.  What documents and copies are.                             *)
Statuses ==
  {"assigned", "in_progress", "pending_completion", "completed", "canceled", "draft", "sent",
   "paid", "overdue", "gone", "open", "pending", "accepted", "closed", "active", "inactive"}

Document == [status : Statuses, done : BOOLEAN]

OfferTypeOK ==
  /\ offer \in [page : DOMAIN Viewers, viewer : {"customer", "provider"}, doc : Document,
                seen : Document, shown : BOOLEAN, fresh : BOOLEAN, known : BOOLEAN,
                asking : BOOLEAN, blind : BOOLEAN,
                pressed : DOMAIN After \cup {"rate", "apply", "delete", "cancel", "none"}]
  /\ offer.viewer \in Viewers[offer.page]

(* What the document of a page can be.                                      *)
CopyFits(page, doc) ==
  /\ page = "applicants" => doc.status \in {"pending", "accepted", "completed", "closed"}
  /\ page = "request" /\ doc.status = "open" => ~doc.done

(* A copy that is on the screen and up to date says of its document what    *)
(* the buttons depend on, and a service that is shown is there.             *)
Current ==
  /\ CopyFits(offer.page, offer.doc)
  /\ offer.shown /\ offer.fresh =>
       /\ offer.seen.status = offer.doc.status
       /\ offer.page = "service" => offer.doc.status # "gone"
       /\ offer.page = "request" => offer.seen.done = offer.doc.done
       /\ Asks(offer) => offer.seen.done = offer.doc.done \/ offer.asking \/ offer.blind

---------------------------------------------------------------------------
LEMMA AcceptedMeans ==
  ASSUME NEW page \in DOMAIN Viewers, NEW viewer, NEW doc \in Document,
         NEW b \in Accepted(page, viewer, doc)
  PROVE  /\ b \in DOMAIN After \cup {"rate", "apply"}
         /\ page = "applicants" => b = "accept"
         /\ page = "request" => b = "apply"
  <1>1. CASE page = "order"
    <2>1. b \in OrderAccepts(viewer, doc)
      BY <1>1 DEF Accepted
    <2> QED  BY <1>1, <2>1 DEF OrderAccepts, If, After
  <1>2. CASE page = "invoice"
    <2>1. b \in InvoiceAccepts(doc)
      BY <1>2 DEF Accepted
    <2> QED  BY <1>2, <2>1 DEF InvoiceAccepts, If, After
  <1>3. CASE page = "request"
    <2>1. b \in RequestAccepts(doc)
      BY <1>3 DEF Accepted
    <2> QED  BY <1>3, <2>1 DEF RequestAccepts, If, After
  <1>4. CASE page = "applicants"
    <2>1. b \in ApplicantAccepts(doc)
      BY <1>4 DEF Accepted
    <2> QED  BY <1>4, <2>1 DEF ApplicantAccepts, If, After
  <1>5. CASE page = "service"
    <2>1. b \in ServiceAccepts(doc)
      BY <1>5 DEF Accepted
    <2> QED  BY <1>5, <2>1 DEF ServiceAccepts, If, After
  <1> QED  BY <1>1, <1>2, <1>3, <1>4, <1>5 DEF Viewers

LEMMA OutcomeMeans ==
  ASSUME NEW doc \in Document, NEW b \in DOMAIN After \cup {"rate", "apply"}
  PROVE  /\ Outcome(doc, b) \in Document
         /\ b = "accept" => Outcome(doc, b).status = "accepted"
         /\ b = "apply" => Outcome(doc, b).status = "pending"
  <1>1. CASE b = "rate"
    BY <1>1 DEF Outcome, Document
  <1>2. CASE b = "apply"
    <2>1. Outcome(doc, b) = [status |-> "pending", done |-> TRUE]
      BY <1>2 DEF Outcome
    <2>2. "pending" \in Statuses
      BY DEF Statuses
    <2>3. [status |-> "pending", done |-> TRUE] \in Document
      BY <2>2 DEF Document
    <2>4. b # "accept" /\ Outcome(doc, b).status = "pending"
      BY <1>2, <2>1
    <2> QED  BY <2>1, <2>3, <2>4
  <1>3. CASE b \in DOMAIN After /\ b # "rate" /\ b # "apply"
    <2>1. Outcome(doc, b) = [doc EXCEPT !.status = After[b]]
      BY <1>3 DEF Outcome
    <2>2. After[b] \in Statuses /\ (b = "accept" => After[b] = "accepted")
      BY <1>3 DEF After, Statuses
    <2> QED  BY <1>3, <2>1, <2>2 DEF Document
  <1> QED  BY <1>1, <1>2, <1>3 DEF After

LEMMA ElsewhereMeans ==
  ASSUME NEW page \in DOMAIN Viewers, NEW old \in Document, NEW doc \in Elsewhere(page, old),
         CopyFits(page, old)
  PROVE  doc \in Document /\ CopyFits(page, doc)
  <1>1. ASSUME NEW viewer \in {"customer", "provider"}, NEW b \in Accepted(page, viewer, old),
               doc = Outcome(old, b)
        PROVE  doc \in Document /\ CopyFits(page, doc)
    <2>1. /\ b \in DOMAIN After \cup {"rate", "apply"}
          /\ page = "applicants" => b = "accept"
          /\ page = "request" => b = "apply"
      BY <1>1, AcceptedMeans
    <2> QED  BY <1>1, <2>1, OutcomeMeans DEF CopyFits
  <1>2. ASSUME NEW status, doc = [old EXCEPT !.status = status],
               status \in
                 CASE page = "order" /\ old.status = "pending_completion"     -> {"completed"}
                   [] page = "request" /\ old.status \in {"open", "pending"}  -> {"pending", "accepted", "closed"}
                   [] page = "applicants" /\ old.status = "pending"           -> {"closed"}
                   [] page \in {"request", "applicants"} /\ old.status = "accepted" -> {"completed"}
                   [] page = "invoice" /\ old.status # "gone" -> {"overdue", "canceled", "gone"}
                   [] OTHER -> {}
        PROVE  doc \in Document /\ CopyFits(page, doc)
    <2>1. /\ status \in {"completed", "pending", "accepted", "closed", "overdue", "canceled", "gone"}
          /\ page = "applicants" => status \in {"completed", "closed"}
      BY <1>2
    <2>2. status \in Statuses
      BY <2>1 DEF Statuses
    <2>3. doc \in Document /\ doc.status = status
      BY <1>2, <2>2 DEF Document
    <2> QED  BY <2>1, <2>3 DEF CopyFits
  <1> QED  BY <1>1, <1>2 DEF Elsewhere

LEMMA CopyMeans ==
  ASSUME OfferTypeOK, Current, offer' = Copied(offer)
  PROVE  OfferTypeOK' /\ Current'
  <1>1. PICK seen : seen = [offer.doc EXCEPT !.done = @ /\ offer.page # "order"]
    OBVIOUS
  <1>2. offer.doc \in Document /\ offer.page \in DOMAIN Viewers
    BY DEF OfferTypeOK
  <1>3. /\ seen \in Document /\ seen.status = offer.doc.status
        /\ offer.page # "order" => seen.done = offer.doc.done
    BY <1>1, <1>2 DEF Document
  <1>4. PICK shown \in BOOLEAN : shown = (offer.doc.status # "gone")
    OBVIOUS
  <1>5. PICK copy : copy = [offer EXCEPT !.seen = seen, !.shown = shown, !.fresh = TRUE, !.blind = FALSE]
    OBVIOUS
  <1>6. offer' = [copy EXCEPT !.asking = Asks(copy)]
    BY <1>1, <1>4, <1>5 DEF Copied
  <1>7. PICK asking \in BOOLEAN : asking = Asks(copy)
    BY DEF Asks
  <1>8. OfferTypeOK'
    BY <1>3, <1>5, <1>6, <1>7 DEF OfferTypeOK
  <1>9. /\ offer'.page = offer.page /\ offer'.doc = offer.doc /\ offer'.seen = seen
        /\ (offer'.shown => offer.doc.status # "gone") /\ offer'.asking = asking
        /\ Asks(offer') = Asks(copy)
    BY <1>4, <1>5, <1>6, <1>7 DEF OfferTypeOK, Asks, Taken
  <1> QED  BY <1>3, <1>7, <1>8, <1>9 DEF Current

(* What a step that leaves the document, the copy and the viewer alone      *)
(* keeps.                                                                   *)
LEMMA SameCopy ==
  ASSUME Current, offer'.page = offer.page, offer'.viewer = offer.viewer, offer'.doc = offer.doc,
         offer'.seen = offer.seen, offer'.shown = offer.shown, offer'.fresh = offer.fresh,
         offer'.known = offer.known, offer'.asking = offer.asking, offer'.blind = offer.blind
  PROVE  Current'
  BY DEF Current, Asks, Taken

(* checkAuth and the call for the review end.                               *)
LEMMA ReviewKeeps ==
  ASSUME OfferTypeOK, Current, KnowViewer \/ ReviewAnswer \/ ReviewFails
  PROVE  OfferTypeOK' /\ Current'
  <1>0. offer.doc \in Document /\ offer.seen \in Document
    BY DEF OfferTypeOK
  <1>1. CASE KnowViewer
    <2>1. PICK met : met = [offer EXCEPT !.known = TRUE]
      OBVIOUS
    <2>2. PICK asking \in BOOLEAN : asking = (offer.shown /\ Asks(met))
      OBVIOUS
    <2>3. offer' = [met EXCEPT !.asking = asking]
      BY <1>1, <2>1, <2>2 DEF KnowViewer
    <2>4. OfferTypeOK'
      BY <2>1, <2>3 DEF OfferTypeOK
    <2>5. /\ offer'.page = offer.page /\ offer'.doc = offer.doc /\ offer'.seen = offer.seen
          /\ offer'.shown = offer.shown /\ offer'.fresh = offer.fresh /\ offer'.asking = asking
          /\ Asks(offer') = Asks(met)
      BY <2>1, <2>3 DEF OfferTypeOK, Asks, Taken
    <2> QED  BY <2>2, <2>4, <2>5 DEF Current
  <1>2. CASE ReviewAnswer
    <2>1. PICK seen : seen = [offer.seen EXCEPT !.done = offer.doc.done]
      OBVIOUS
    <2>2. seen \in Document /\ seen.status = offer.seen.status /\ seen.done = offer.doc.done
      BY <1>0, <2>1 DEF Document
    <2>3. offer' = [offer EXCEPT !.seen = seen, !.asking = FALSE]
      BY <1>2, <2>1 DEF ReviewAnswer
    <2>4. OfferTypeOK'
      BY <2>2, <2>3 DEF OfferTypeOK
    <2>5. /\ offer'.page = offer.page /\ offer'.doc = offer.doc /\ offer'.seen = seen
          /\ offer'.shown = offer.shown /\ offer'.fresh = offer.fresh
      BY <2>3 DEF OfferTypeOK
    <2> QED  BY <2>2, <2>4, <2>5 DEF Current
  <1>3. CASE ReviewFails
    <2>1. offer' = [offer EXCEPT !.asking = FALSE, !.blind = TRUE]
      BY <1>3 DEF ReviewFails
    <2>2. OfferTypeOK'
      BY <2>1 DEF OfferTypeOK
    <2>3. /\ offer'.page = offer.page /\ offer'.doc = offer.doc /\ offer'.seen = offer.seen
          /\ offer'.shown = offer.shown /\ offer'.fresh = offer.fresh /\ offer'.blind
      BY <2>1 DEF OfferTypeOK
    <2> QED  BY <2>2, <2>3 DEF Current
  <1> QED  BY <1>1, <1>2, <1>3

LEMMA OffersKeep ==
  ASSUME OfferTypeOK, Current, [OffersNext]_offerVars
  PROVE  OfferTypeOK' /\ Current'
  <1>0. /\ offer.doc \in Document /\ offer.page \in DOMAIN Viewers /\ offer.seen \in Document
        /\ offer.viewer \in {"customer", "provider"}
    BY DEF OfferTypeOK
  <1>1. CASE LoadCopy
    BY <1>1, CopyMeans DEF LoadCopy
  <1>2. CASE ChangeElsewhere
    <2>1. PICK doc \in Elsewhere(offer.page, offer.doc) :
            offer' = [offer EXCEPT !.doc = doc, !.fresh = FALSE]
      BY <1>2 DEF ChangeElsewhere
    <2>2. doc \in Document /\ CopyFits(offer.page, doc)
      BY <1>0, <2>1, ElsewhereMeans DEF Current
    <2>3. OfferTypeOK'
      BY <2>1, <2>2 DEF OfferTypeOK
    <2>4. offer'.page = offer.page /\ offer'.doc = doc /\ ~offer'.fresh
      BY <2>1 DEF OfferTypeOK
    <2> QED  BY <2>2, <2>3, <2>4 DEF Current
  <1>3. ASSUME NEW button \in DOMAIN After \cup {"rate", "apply", "delete", "cancel"},
               PressButton(button)
        PROVE  OfferTypeOK' /\ Current'
    <2>1. offer' = [offer EXCEPT !.pressed = button]
      BY <1>3 DEF PressButton
    <2>2. OfferTypeOK'
      BY <1>3, <2>1 DEF OfferTypeOK
    <2>3. /\ offer'.page = offer.page /\ offer'.viewer = offer.viewer /\ offer'.doc = offer.doc
          /\ offer'.seen = offer.seen /\ offer'.shown = offer.shown /\ offer'.fresh = offer.fresh
          /\ offer'.known = offer.known /\ offer'.asking = offer.asking /\ offer'.blind = offer.blind
      BY <2>1 DEF OfferTypeOK
    <2> QED  BY <2>2, <2>3, SameCopy
  <1>4. CASE ServePress \/ LosePress
    <2>1. PICK pressed \in Accepted(offer.page, offer.viewer, offer.doc) : pressed = offer.pressed
      BY <1>4 DEF ServePress, LosePress
    <2>2. /\ pressed \in DOMAIN After \cup {"rate", "apply"}
          /\ offer.page = "applicants" => pressed = "accept"
          /\ offer.page = "request" => pressed = "apply"
      BY <1>0, <2>1, AcceptedMeans
    <2>3. PICK doc \in Document : doc = Outcome(offer.doc, pressed)
                                  /\ (offer.page = "applicants" => doc.status = "accepted")
                                  /\ (offer.page = "request" => doc.status = "pending")
      BY <1>0, <2>2, OutcomeMeans
    <2>4. PICK seen \in Document : seen = Approved(offer.seen) /\ seen.status = "accepted"
      <3>1. "accepted" \in Statuses
        BY DEF Statuses
      <3>2. Approved(offer.seen) \in Document /\ Approved(offer.seen).status = "accepted"
        BY <1>0, <3>1 DEF Approved, Document
      <3> QED  BY <3>2
    <2>5. \/ /\ offer.page = "applicants"
             /\ offer' = [offer EXCEPT !.doc = doc, !.pressed = "none", !.seen = seen, !.fresh = TRUE]
          \/ /\ offer.page # "applicants"
             /\ offer' = [offer EXCEPT !.doc = doc, !.pressed = "none", !.shown = FALSE,
                                          !.asking = FALSE]
          \/ offer' = [offer EXCEPT !.doc = doc, !.pressed = "none", !.fresh = FALSE]
      BY <1>4, <2>1, <2>3, <2>4 DEF ServePress, LosePress, OfferTypeOK
    <2>6. OfferTypeOK'
      BY <2>5 DEF OfferTypeOK
    <2>7. /\ offer'.page = offer.page /\ offer'.doc = doc
          /\ \/ ~offer'.shown \/ ~offer'.fresh
             \/ offer.page = "applicants" /\ offer'.seen = seen
      BY <2>5 DEF OfferTypeOK
    <2>8. CopyFits(offer.page, doc)
      BY <2>3 DEF CopyFits
    <2> QED  BY <2>3, <2>4, <2>6, <2>7, <2>8 DEF Current, Asks
  <1>5. CASE RefusePress \/ UNCHANGED offerVars
    <2>1. offer' = [offer EXCEPT !.pressed = "none"] \/ UNCHANGED offer
      BY <1>5 DEF RefusePress, offerVars
    <2>2. OfferTypeOK'
      BY <2>1 DEF OfferTypeOK
    <2>3. /\ offer'.page = offer.page /\ offer'.viewer = offer.viewer /\ offer'.doc = offer.doc
          /\ offer'.seen = offer.seen /\ offer'.shown = offer.shown /\ offer'.fresh = offer.fresh
          /\ offer'.known = offer.known /\ offer'.asking = offer.asking /\ offer'.blind = offer.blind
      BY <2>1 DEF OfferTypeOK
    <2> QED  BY <2>2, <2>3, SameCopy
  <1> QED  BY <1>1, <1>2, <1>3, <1>4, <1>5, ReviewKeeps DEF OffersNext

LEMMA OffersBegin == OffersInit => OfferTypeOK /\ Current
  <1> SUFFICES ASSUME OffersInit  PROVE OfferTypeOK /\ Current
    OBVIOUS
  <1>1. PICK page \in DOMAIN Viewers : \E viewer \in Viewers[page], status \in Beginnings[page] :
          LET doc == [status |-> status, done |-> FALSE]
          IN offer = [page |-> page, viewer |-> viewer, doc |-> doc, seen |-> doc,
                      shown |-> FALSE, fresh |-> FALSE, known |-> FALSE, asking |-> FALSE,
                      blind |-> FALSE, pressed |-> "none"]
    BY DEF OffersInit
  <1>2. PICK viewer \in Viewers[page], status \in Beginnings[page] :
          LET doc == [status |-> status, done |-> FALSE]
          IN offer = [page |-> page, viewer |-> viewer, doc |-> doc, seen |-> doc,
                      shown |-> FALSE, fresh |-> FALSE, known |-> FALSE, asking |-> FALSE,
                      blind |-> FALSE, pressed |-> "none"]
    BY <1>1
  <1>3. viewer \in {"customer", "provider"} /\ status \in Statuses
        /\ (page = "applicants" => status = "pending")
    BY <1>1, <1>2 DEF Viewers, Beginnings, Statuses
  <1>4. PICK doc \in Document : doc = [status |-> status, done |-> FALSE]
    BY <1>3 DEF Document
  <1>5. offer = [page |-> page, viewer |-> viewer, doc |-> doc, seen |-> doc,
                 shown |-> FALSE, fresh |-> FALSE, known |-> FALSE, asking |-> FALSE,
                 blind |-> FALSE, pressed |-> "none"]
    BY <1>2, <1>4
  <1>6. OfferTypeOK
    <2>1. viewer \in Viewers[page]
      OBVIOUS
    <2> QED  BY <1>3, <1>5, <2>1 DEF OfferTypeOK
  <1> QED  BY <1>3, <1>4, <1>5, <1>6 DEF Current, CopyFits

LEMMA CurrentWorks == OfferTypeOK /\ Current => ButtonsWork
  <1> SUFFICES ASSUME OfferTypeOK, Current, offer.shown, offer.fresh,
                      NEW b \in Offered(offer.page, Taken(offer), offer.seen),
                      b \notin Accepted(offer.page, offer.viewer, offer.doc)
               PROVE  \/ offer.page = "invoice" /\ b \in {"cancel", "delete"}
                      \/ offer.page = "order" /\ ~offer.known /\ b \in {"start", "complete"}
                      \/ (offer.asking \/ offer.blind) /\ b = "rate"
    BY DEF ButtonsWork
  <1>1. PICK page \in DOMAIN Viewers, viewer \in {"customer", "provider"},
             doc \in Document, seen \in Document :
          page = offer.page /\ viewer = offer.viewer /\ doc = offer.doc /\ seen = offer.seen
    BY DEF OfferTypeOK
  <1>2. PICK taken \in {viewer, "nobody"} :
          /\ taken = Taken(offer) /\ (taken = "nobody" => ~offer.known)
          /\ b \in Offered(page, taken, seen) /\ b \notin Accepted(page, viewer, doc)
    BY <1>1 DEF Taken
  <1>3. /\ seen.status = doc.status
        /\ page = "applicants" => doc.status \in {"pending", "accepted", "completed", "closed"}
        /\ page = "service" => doc.status # "gone"
        /\ page = "request" => seen.done = doc.done
        /\ page = "request" /\ doc.status = "open" => ~doc.done
        /\ page = "order" /\ taken = "customer" /\ doc.status = "completed"
             => seen.done = doc.done \/ offer.asking \/ offer.blind
    <2>1. CopyFits(page, doc)
      BY <1>1 DEF Current
    <2> QED  BY <1>1, <1>2, <2>1 DEF Current, Asks, CopyFits
  <1>4. CASE page = "order"
    <2>1. b \in CardOffers(taken, seen) /\ b \notin OrderAccepts(viewer, doc)
      BY <1>2, <1>4 DEF Offered, Accepted
    <2> QED
      BY <1>1, <1>2, <1>3, <1>4, <2>1 DEF CardOffers, OrderAccepts, If, CanStartProgress, CanRequestCompletion,
         CanApproveOrDecline, CanRate
  <1>5. CASE page = "invoice"
    <2>1. b \in InvoiceOffers(seen) /\ b \notin InvoiceAccepts(doc)
      BY <1>2, <1>5 DEF Offered, Accepted
    <2> QED  BY <1>1, <1>3, <1>5, <2>1 DEF InvoiceOffers, InvoiceAccepts, If
  <1>6. CASE page = "request"
    <2>1. b \in RequestOffers(taken, seen) /\ b \notin RequestAccepts(doc)
      BY <1>2, <1>6 DEF Offered, Accepted
    <2> QED  BY <1>3, <1>6, <2>1 DEF RequestOffers, RequestAccepts, If
  <1>7. CASE page = "applicants"
    <2>1. b \in ApplicantOffers(seen) /\ b \notin ApplicantAccepts(doc)
      BY <1>2, <1>7 DEF Offered, Accepted
    <2> QED  BY <1>3, <1>7, <2>1 DEF ApplicantOffers, ApplicantAccepts, If
  <1>8. CASE page = "service"
    <2>1. b \in ServiceOffers(seen) /\ b \notin ServiceAccepts(doc)
      BY <1>2, <1>8 DEF Offered, Accepted
    <2> QED  BY <1>3, <1>8, <2>1 DEF ServiceOffers, ServiceAccepts, If
  <1> QED  BY <1>4, <1>5, <1>6, <1>7, <1>8 DEF Viewers

(* A button offered for a document that has not changed since is not        *)
(* refused, but for those ButtonsWork names (the conditions in the pages    *)
(* against the checks of the services).                                     *)
THEOREM OfferedIsAccepted == OffersSpec => []ButtonsWork
  BY OffersBegin, OffersKeep, CurrentWorks, PTL DEF OffersSpec

---------------------------------------------------------------------------
(* The forms.  What a sheet is, whatever the fields of a form are.          *)
Fillings == {<<>>} \cup UNION {Fields(form) : form \in Forms}

Sheet ==
  [form : Forms, filling : Fillings, filled : BOOLEAN, photos : BOOLEAN,
   place : {"open", "closed", "leaving", "uploading"},
   call : {"none", "asked", "malformed", "refused", "taken"},
   told : {"nothing", "error", "malformed", "refused", "taken"}, taken : 0..2, lost : BOOLEAN]

(* The forms that may be taken twice, and those that their success spends.  *)
Twice(s) == s.form \in {"login", "forgot", "quote"} \/ (s.form = "request" /\ s.photos)
Spendable(s) == s.form \notin Once /\ ~Twice(s)

(* Nothing is taken before the first answer; only photos are uploaded, and  *)
(* only a request has them; and what a success spends, and was taken, is    *)
(* gone, or will be with the answer under way.                              *)
Spent(s) ==
  /\ s.told = "nothing" /\ s.call = "none" => s.taken = 0
  /\ s.place = "uploading" => Twice(s)
  /\ s.form \in Once => s.taken <= 1
  /\ Spendable(s) /\ ~s.lost /\ s.taken > 0 =>
       /\ s.taken = 1
       /\ \/ s.call = "taken"
          \/ s.call = "none" /\ s.told = "taken" /\ (s.place = "closed" \/ ~s.filled)

SheetOK == sheet \in Sheet /\ Spent(sheet)

---------------------------------------------------------------------------
LEMMA SucceededMeans ==
  ASSUME NEW s \in Sheet, NEW b, b = Succeeded(s)
  PROVE  /\ b \in Sheet
         /\ b.form = s.form /\ b.photos = s.photos /\ b.taken = s.taken /\ b.lost = s.lost
         /\ b.place = "uploading" => s.place = "uploading" \/ Twice(s)
         /\ Spendable(s) => b.place = "closed" \/ ~b.filled
  <1>1. \/ b = [s EXCEPT !.place = "closed"]
        \/ b = [s EXCEPT !.place = "leaving"] /\ s.form \in Leaving
        \/ b = [s EXCEPT !.filled = FALSE]
        \/ b = [s EXCEPT !.place = "uploading"] /\ s.form = "request" /\ s.photos
        \/ b = s /\ s.form \notin Closing \cup Leaving \cup Emptied \cup {"request"}
    BY DEF Succeeded
  <1>2. s.form \in Leaving => s.form \in Once \/ Twice(s)
    BY DEF Leaving, Once, Twice
  <1>3. s.form \notin Closing \cup Leaving \cup Emptied \cup {"request"} => s.form \in Once \/ Twice(s)
    <2>1. s.form \in Forms
      BY DEF Sheet
    <2> QED  BY <2>1 DEF Forms, Closing, Leaving, Emptied, Once, Twice
  <1>4. \A f \in {FALSE} : f \in BOOLEAN
    OBVIOUS
  <1>5. b \in Sheet
    BY <1>1, <1>4 DEF Sheet
  <1>6. b.form = s.form /\ b.photos = s.photos /\ b.taken = s.taken /\ b.lost = s.lost
    BY <1>1 DEF Sheet
  <1>7. b.place = "uploading" => s.place = "uploading" \/ (s.form = "request" /\ s.photos)
    BY <1>1 DEF Sheet
  <1>8. \/ b.place = "closed" \/ ~b.filled \/ (s.form = "request" /\ s.photos)
        \/ s.form \in Leaving \/ s.form \notin Closing \cup Leaving \cup Emptied \cup {"request"}
    BY <1>1 DEF Sheet
  <1> QED  BY <1>2, <1>3, <1>5, <1>6, <1>7, <1>8 DEF Twice, Spendable

LEMMA FormsKeep ==
  ASSUME SheetOK, [FormsNext]_formVars
  PROVE  SheetOK'
  <1> USE DEF SheetOK
  <1>0. /\ sheet.taken \in 0..2 /\ sheet.form \in Forms /\ sheet.photos \in BOOLEAN
        /\ sheet.filled \in BOOLEAN /\ sheet.lost \in BOOLEAN
    BY DEF Sheet
  <1>1. CASE FillIn
    <2>1. PICK f \in Fields(sheet.form), photos \in {FALSE, sheet.form = "request"} :
            sheet' = [sheet EXCEPT !.filling = f, !.filled = TRUE, !.photos = photos]
      BY <1>1 DEF FillIn
    <2>2. f \in Fillings /\ photos \in BOOLEAN
      BY <1>0 DEF Fillings
    <2>3. sheet' \in Sheet
      BY <2>1, <2>2 DEF Sheet
    <2>4. /\ sheet'.taken = sheet.taken /\ sheet'.form = sheet.form /\ sheet'.place = sheet.place
      BY <2>1 DEF Sheet
    <2>5. sheet.taken = 0 /\ sheet.place = "open"
      BY <1>1 DEF FillIn, Spent
    <2> QED  BY <2>3, <2>4, <2>5 DEF Spent
  <1>2. CASE SubmitForm
    <2>1. sheet' = [sheet EXCEPT !.call = "asked", !.told = "nothing"]
      BY <1>2 DEF SubmitForm
    <2>2. sheet' \in Sheet
      BY <2>1 DEF Sheet
    <2>3. /\ sheet'.form = sheet.form /\ sheet'.photos = sheet.photos /\ sheet'.taken = sheet.taken
          /\ sheet'.place = sheet.place /\ sheet'.lost = sheet.lost /\ sheet'.call = "asked"
      BY <2>1 DEF Sheet
    <2>4. sheet.filled /\ sheet.place # "closed" /\ sheet.call = "none"
      BY <1>2 DEF SubmitForm
    <2> QED  BY <1>0, <2>2, <2>3, <2>4 DEF Spent, Twice, Spendable
  <1>3. CASE ServeForm
    <2>1. sheet.call = "asked"
      BY <1>3 DEF ServeForm
    <2>2. \/ sheet' = [sheet EXCEPT !.call = "malformed"]
          \/ sheet' = [sheet EXCEPT !.call = "refused"]
          \/ /\ sheet.taken < 2 /\ ~(sheet.form \in Once /\ sheet.taken > 0)
             /\ sheet' = [sheet EXCEPT !.call = "taken", !.taken = @ + 1]
      BY <1>3 DEF ServeForm
    <2>3. PICK more : more = sheet.taken + 1
      OBVIOUS
    <2>4. \/ sheet' = [sheet EXCEPT !.call = "malformed"]
          \/ sheet' = [sheet EXCEPT !.call = "refused"]
          \/ /\ more \in 0..2 /\ ~(sheet.form \in Once /\ sheet.taken > 0)
             /\ sheet' = [sheet EXCEPT !.call = "taken", !.taken = more]
      BY <1>0, <2>2, <2>3
    <2>5. sheet' \in Sheet
      BY <2>4 DEF Sheet
    <2>6. /\ sheet'.form = sheet.form /\ sheet'.photos = sheet.photos /\ sheet'.call # "none"
          /\ sheet'.place = sheet.place /\ sheet'.lost = sheet.lost
          /\ \/ sheet'.taken = sheet.taken
             \/ /\ sheet'.taken = sheet.taken + 1 /\ sheet'.call = "taken"
                /\ ~(sheet.form \in Once /\ sheet.taken > 0)
      BY <2>3, <2>4 DEF Sheet
    <2> QED  BY <1>0, <2>1, <2>5, <2>6 DEF Spent, Twice, Spendable
  <1>4. CASE AnswerForm
    <2>1. PICK s : s = IF sheet.call = "taken" THEN Succeeded(sheet) ELSE sheet
      OBVIOUS
    <2>2. /\ s \in Sheet
          /\ s.form = sheet.form /\ s.photos = sheet.photos /\ s.taken = sheet.taken
          /\ s.lost = sheet.lost /\ (s.place = "uploading" => sheet.place = "uploading" \/ Twice(sheet))
          /\ sheet.call = "taken" /\ Spendable(sheet) => s.place = "closed" \/ ~s.filled
      <3>1. PICK old \in Sheet : old = sheet
        OBVIOUS
      <3>2. CASE sheet.call = "taken"
        <4>1. s = Succeeded(old)
          BY <2>1, <3>1, <3>2
        <4> QED  BY <3>1, <4>1, SucceededMeans
      <3>3. CASE sheet.call # "taken"
        BY <2>1, <3>3
      <3> QED  BY <3>2, <3>3
    <2>3. sheet.call \in {"taken", "refused", "malformed"}
      BY <1>4 DEF AnswerForm
    <2>4. sheet' = [s EXCEPT !.call = "none", !.told = sheet.call]
      BY <1>4, <2>1 DEF AnswerForm
    <2>5. sheet' \in Sheet
      BY <2>2, <2>3, <2>4 DEF Sheet
    <2>6. /\ sheet'.form = s.form /\ sheet'.photos = s.photos /\ sheet'.call = "none"
          /\ sheet'.told = sheet.call /\ sheet'.place = s.place /\ sheet'.lost = s.lost
          /\ sheet'.taken = s.taken /\ sheet'.filled = s.filled
      BY <2>2, <2>4 DEF Sheet
    <2> QED  BY <1>0, <2>2, <2>3, <2>5, <2>6 DEF Spent, Twice, Spendable
  <1>5. CASE LoseForm
    <2>1. PICK lost \in BOOLEAN : lost = (sheet.lost \/ sheet.call = "taken")
      OBVIOUS
    <2>2. sheet' = [sheet EXCEPT !.call = "none", !.told = "error", !.lost = lost] /\ sheet.call # "none"
      BY <1>5, <2>1 DEF LoseForm
    <2>3. sheet' \in Sheet
      BY <2>2 DEF Sheet
    <2>4. /\ sheet'.form = sheet.form /\ sheet'.photos = sheet.photos /\ sheet'.told = "error"
          /\ sheet'.place = sheet.place /\ sheet'.lost = lost /\ sheet'.taken = sheet.taken
      BY <2>2 DEF Sheet
    <2> QED  BY <1>0, <2>1, <2>2, <2>3, <2>4 DEF Spent, Twice, Spendable
  <1>6. CASE Uploaded
    <2>1. sheet' = [sheet EXCEPT !.place = "open", !.filled = FALSE] /\ Twice(sheet)
      BY <1>6 DEF Uploaded, Spent
    <2>2. \A f \in {FALSE} : f \in BOOLEAN
      OBVIOUS
    <2>3. sheet' \in Sheet
      BY <2>1, <2>2 DEF Sheet
    <2>4. /\ sheet'.form = sheet.form /\ sheet'.photos = sheet.photos /\ sheet'.told = sheet.told
          /\ sheet'.place = "open" /\ sheet'.call = sheet.call /\ sheet'.taken = sheet.taken
      BY <2>1 DEF Sheet
    <2> QED  BY <2>1, <2>3, <2>4 DEF Spent, Twice, Spendable
  <1>7. CASE Left
    <2>1. sheet' = [sheet EXCEPT !.place = "closed"]
      BY <1>7 DEF Left
    <2>2. sheet' \in Sheet
      BY <2>1 DEF Sheet
    <2>3. /\ sheet'.form = sheet.form /\ sheet'.photos = sheet.photos /\ sheet'.told = sheet.told
          /\ sheet'.place = "closed" /\ sheet'.call = sheet.call /\ sheet'.taken = sheet.taken
          /\ sheet'.lost = sheet.lost /\ sheet'.filled = sheet.filled
      BY <2>1 DEF Sheet
    <2> QED  BY <2>2, <2>3 DEF Spent, Twice, Spendable
  <1>8. CASE UNCHANGED formVars
    BY <1>8 DEF formVars
  <1> QED  BY <1>1, <1>2, <1>3, <1>4, <1>5, <1>6, <1>7, <1>8 DEF FormsNext

LEMMA FormsBegin == FormsInit => SheetOK
  <1> SUFFICES ASSUME FormsInit  PROVE SheetOK
    OBVIOUS
  <1>1. PICK form \in Forms : sheet =
          [form |-> form, filling |-> <<>>, filled |-> FALSE, photos |-> FALSE, place |-> "open",
           call |-> "none", told |-> "nothing", taken |-> 0, lost |-> FALSE]
    BY DEF FormsInit
  <1>2. <<>> \in Fillings
    BY DEF Fillings
  <1>3. 0 \in 0..2 /\ FALSE \in BOOLEAN
    OBVIOUS
  <1>4. sheet \in Sheet
    BY <1>1, <1>2, <1>3 DEF Sheet
  <1> QED  BY <1>1, <1>4 DEF SheetOK, Spent

(* What was filled in once is taken once, however answers, uploads and      *)
(* further clicks interleave, but where TakenOnce says it is not (the       *)
(* submits of the forms, and what each does after a success).               *)
THEOREM FormsTakenOnce == FormsSpec => []TakenOnce
  <1>1. SheetOK => TakenOnce
    <2> SUFFICES ASSUME SheetOK, sheet.taken > 1
                 PROVE  sheet.lost \/ Twice(sheet)
      BY DEF TakenOnce, Twice
    <2>1. sheet.taken \in 0..2
      BY DEF SheetOK, Sheet
    <2> QED  BY <2>1 DEF SheetOK, Spent, Spendable
  <1> QED  BY <1>1, FormsBegin, FormsKeep, PTL DEF FormsSpec

---------------------------------------------------------------------------
(* The forms against the DTOs.  A field as it was filled in, and as the     *)
(* server sees it once SanitizeInterceptor has trimmed it.                  *)
Value == [size : Nat, padded : BOOLEAN, good : BOOLEAN]
Trim(v) == [v EXCEPT !.padded = FALSE]

LEMMA TrimMeans ==
  ASSUME NEW v \in Value
  PROVE  /\ Trim(v).size = v.size /\ (Trim(v).good <=> v.good) /\ Typed(Trim(v)) = v.size
         /\ Typed(v) \in Nat /\ v.size \in Nat /\ Typed(v) >= v.size
         /\ ~v.padded => Typed(v) = v.size
  BY DEF Value, Trim, Typed

(* The fields of all forms are such, whatever the limits of their lengths.  *)
LEMMA LengthsAreNat ==
  ASSUME NEW limits \in SUBSET (Nat \ {0})
  PROVE  Lengths(limits) \subseteq Nat
  BY DEF Lengths

LEMMA TextIsValue ==
  ASSUME NEW limits \in SUBSET (Nat \ {0})
  PROVE  Text(limits) \subseteq Value /\ \A v \in Text(limits) : v.good
  BY LengthsAreNat DEF Text, Value

LEMMA PasswordIsValue ==
  ASSUME NEW limits \in SUBSET (Nat \ {0})
  PROVE  Password(limits) \subseteq Value
  BY LengthsAreNat DEF Password, Value

LEMMA OthersAreValues ==
  /\ Email \subseteq Value /\ Number \subseteq Value /\ Date \subseteq Value /\ Given \in Value
  /\ OrderRef \subseteq Value
  <1>1. 1 \in Nat /\ 8 \in Nat /\ 10 \in Nat /\ 0..2 \subseteq Nat /\ TRUE \in BOOLEAN /\ FALSE \in BOOLEAN
    OBVIOUS
  <1>2. Email \subseteq Value /\ Date \subseteq Value /\ OrderRef \subseteq Value
    BY <1>1, Zenon DEF Email, Date, OrderRef, Value
  <1>3. Number \subseteq Value
    BY <1>1 DEF Number, Value
  <1>4. Given \in Value
    BY <1>1, Zenon DEF Given, Value
  <1> QED  BY <1>2, <1>3, <1>4

LEMMA FieldsAreValues ==
  /\ Email \subseteq Value /\ Number \subseteq Value /\ Date \subseteq Value /\ OrderRef \subseteq Value
  /\ Given \in Value /\ [size : 0..5, padded : {FALSE}, good : {TRUE}] \subseteq Value
  /\ \A limits \in SUBSET (Nat \ {0}) : Text(limits) \subseteq Value /\ Password(limits) \subseteq Value
  <1>1. 0..5 \subseteq Nat
    OBVIOUS
  <1>2. [size : 0..5, padded : {FALSE}, good : {TRUE}] \subseteq Value
    BY <1>1 DEF Value
  <1>3. \A limits \in SUBSET (Nat \ {0}) : Text(limits) \subseteq Value /\ Password(limits) \subseteq Value
    BY TextIsValue, PasswordIsValue
  <1> QED  BY <1>2, <1>3, OthersAreValues

(* A filling without blanks that only the server trims.                     *)
Plain(f) == \A field \in DOMAIN f : ~f[field].padded

(* One lemma per DTO: whole is the body with every key, keys what it leaves *)
(* out, t what the pipe sees.                                               *)
LEMMA LoginFits ==
  ASSUME NEW f \in LoginFields, f.email.good
  PROVE  LoginDto(Sanitized("login", LoginBody(f)))
  <1> DEFINE whole == LoginBody(f)
             t == Sanitized("login", whole)
  <1>1. /\ f.email \in Value /\ f.email.good
    BY FieldsAreValues DEF LoginFields
  <1>2. /\ DOMAIN whole = {"email", "password"}
        /\ whole["email"] = f.email
    BY DEF LoginBody
  <1> HIDE DEF whole
  <1>3. DOMAIN t = DOMAIN whole /\ \A key \in DOMAIN whole : t[key] = Trim(whole[key])
    BY DEF Sanitized, Trim
  <1> HIDE DEF t
  <1>4. Shaped(t, {"email", "password"}, {})
    BY <1>2, <1>3 DEF Shaped
  <1>5. t.email.good
    BY <1>1, <1>2, <1>3, TrimMeans
  <1>6. LoginDto(t)
    BY <1>4, <1>5 DEF LoginDto
  <1> QED  BY <1>6 DEF t, whole

LEMMA RegisterFits ==
  ASSUME NEW f \in RegisterFields, RegisterPasses(f), Plain(f)
  PROVE  RegisterDto(Sanitized("register", RegisterBody(f)))
  <1> DEFINE whole == [email |-> f.email, password |-> f.password, firstName |-> f.name,
                       lastName |-> f.name, role |-> Given, phoneNumber |-> f.phone]
             keys == Empty("phoneNumber", f.phone)
             t == Sanitized("register", Omitting(whole, keys))
  <1>1. /\ f.email \in Value /\ f.email.good /\ f.password \in Value
        /\ Typed(f.password) >= 6 /\ ~f.password.padded
    BY FieldsAreValues DEF RegisterFields, Plain, RegisterPasses
  <1>2. /\ DOMAIN whole = {"email", "password", "firstName", "lastName", "role", "phoneNumber"}
        /\ whole["email"] = f.email /\ whole["password"] = f.password
    OBVIOUS
  <1>3. keys \subseteq {"phoneNumber"}
    BY DEF Empty
  <1>4. t = Sanitized("register", RegisterBody(f))
    BY Zenon DEF RegisterBody
  <1> HIDE DEF whole, keys
  <1>5. /\ DOMAIN t = DOMAIN whole \ keys
        /\ \A key \in DOMAIN whole \ keys : t[key] = Trim(whole[key])
    BY DEF Sanitized, Omitting, Trim
  <1> HIDE DEF t
  <1>6. Shaped(t, {"email", "password", "firstName", "lastName"}, {"role", "phoneNumber"})
    BY <1>2, <1>3, <1>5 DEF Shaped
  <1>7. t.email.good
    BY <1>1, <1>2, <1>3, <1>5, TrimMeans
  <1>8. Typed(t.password) >= 6
    BY <1>1, <1>2, <1>3, <1>5, TrimMeans
  <1>9. RegisterDto(t)
    BY <1>6, <1>7, <1>8 DEF RegisterDto
  <1> QED  BY <1>4, <1>9

LEMMA PasswordFits ==
  ASSUME NEW f \in PasswordFields, PasswordPasses(f), Plain(f), f.current.size >= 6
  PROVE  PasswordDto(Sanitized("password", PasswordBody(f)))
  <1> DEFINE whole == PasswordBody(f)
             t == Sanitized("password", whole)
  <1>1. /\ f.current \in Value /\ f.new \in Value /\ f.new.good
        /\ Typed(f.new) >= 8 /\ ~f.new.padded /\ f.current.size >= 6
    BY FieldsAreValues DEF PasswordFields, Plain, PasswordPasses, Strong
  <1>2. /\ DOMAIN whole = {"currentPassword", "newPassword"}
        /\ whole["currentPassword"] = f.current /\ whole["newPassword"] = f.new
    BY DEF PasswordBody
  <1> HIDE DEF whole
  <1>3. DOMAIN t = DOMAIN whole /\ \A key \in DOMAIN whole : t[key] = Trim(whole[key])
    BY DEF Sanitized, Trim
  <1> HIDE DEF t
  <1>4. Shaped(t, {"currentPassword", "newPassword"}, {})
    BY <1>2, <1>3 DEF Shaped
  <1>5. Typed(t.currentPassword) >= 6
    BY <1>1, <1>2, <1>3, TrimMeans DEF Strong
  <1>6. Strong(t.newPassword)
    BY <1>1, <1>2, <1>3, TrimMeans DEF Strong
  <1>7. PasswordDto(t)
    BY <1>4, <1>5, <1>6 DEF PasswordDto
  <1> QED  BY <1>7 DEF t, whole

LEMMA ForgotFits ==
  ASSUME NEW f \in ForgotFields, f.email.good
  PROVE  ForgotDto(Sanitized("forgot", f))
  <1> DEFINE whole == f
             t == Sanitized("forgot", whole)
  <1>1. /\ f.email \in Value /\ f.email.good
    BY FieldsAreValues DEF ForgotFields
  <1>2. /\ DOMAIN whole = {"email"}
        /\ whole["email"] = f.email
    BY DEF ForgotFields
  <1> HIDE DEF whole
  <1>3. DOMAIN t = DOMAIN whole /\ \A key \in DOMAIN whole : t[key] = Trim(whole[key])
    BY DEF Sanitized, Trim
  <1> HIDE DEF t
  <1>4. Shaped(t, {"email"}, {})
    BY <1>2, <1>3 DEF Shaped
  <1>5. t.email.good
    BY <1>1, <1>2, <1>3, TrimMeans
  <1>6. ForgotDto(t)
    BY <1>4, <1>5 DEF ForgotDto
  <1> QED  BY <1>6 DEF t, whole

LEMMA ResetFits ==
  ASSUME NEW f \in ResetFields, ResetPasses(f), Plain(f)
  PROVE  ResetDto(Sanitized("reset", ResetBody(f)))
  <1> DEFINE whole == ResetBody(f)
             t == Sanitized("reset", whole)
  <1>1. /\ f.password \in Value /\ f.password.good /\ Typed(f.password) >= 8
        /\ ~f.password.padded
    BY FieldsAreValues DEF ResetFields, Plain, ResetPasses, Strong
  <1>2. /\ DOMAIN whole = {"token", "newPassword"}
        /\ whole["newPassword"] = f.password
    BY DEF ResetBody
  <1> HIDE DEF whole
  <1>3. DOMAIN t = DOMAIN whole /\ \A key \in DOMAIN whole : t[key] = Trim(whole[key])
    BY DEF Sanitized, Trim
  <1> HIDE DEF t
  <1>4. Shaped(t, {"token", "newPassword"}, {})
    BY <1>2, <1>3 DEF Shaped
  <1>5. Strong(t.newPassword)
    BY <1>1, <1>2, <1>3, TrimMeans DEF Strong
  <1>6. ResetDto(t)
    BY <1>4, <1>5 DEF ResetDto
  <1> QED  BY <1>6 DEF t, whole

LEMMA RequestFits ==
  ASSUME NEW f \in RequestFields, RequestPasses(f), f.phone.size >= 10, f.date.good
  PROVE  RequestDto(Sanitized("request", RequestBody(f)))
  <1> DEFINE whole == [phone |-> f.phone, estimatedTimeOfService |-> f.date, category |-> Given,
                       details |-> f.details, address |-> f.where, location |-> f.where]
             keys == Empty("details", f.details)
                        \cup {IF f.where.size = 1 THEN "location" ELSE "address"}
             t == Sanitized("request", Omitting(whole, keys))
  <1>1. /\ f.phone \in Value /\ f.date \in Value /\ f.phone.size >= 10
        /\ f.date.good
    BY FieldsAreValues DEF RequestFields, RequestPasses, Where
  <1>2. /\ DOMAIN whole = {"phone", "estimatedTimeOfService", "category", "details", "address", "location"}
        /\ whole["phone"] = f.phone /\ whole["estimatedTimeOfService"] = f.date
    OBVIOUS
  <1>3. /\ keys \subseteq {"details", "address", "location"}
        /\ "address" \notin keys \/ "location" \notin keys
    BY DEF Empty
  <1>4. t = Sanitized("request", RequestBody(f))
    BY Zenon DEF RequestBody
  <1> HIDE DEF whole, keys
  <1>5. /\ DOMAIN t = DOMAIN whole \ keys
        /\ \A key \in DOMAIN whole \ keys : t[key] = Trim(whole[key])
    BY DEF Sanitized, Omitting, Trim
  <1> HIDE DEF t
  <1>6. /\ Shaped(t, {"phone", "category", "estimatedTimeOfService"}, {"details", "address", "location"})
        /\ {"address", "location"} \cap DOMAIN t # {}
    BY <1>2, <1>3, <1>5 DEF Shaped
  <1>7. PhoneNumberFormat(t.phone)
    BY <1>1, <1>2, <1>3, <1>5, TrimMeans DEF PhoneNumberFormat, FutureDate
  <1>8. FutureDate(t.estimatedTimeOfService)
    BY <1>1, <1>2, <1>3, <1>5, TrimMeans DEF PhoneNumberFormat, FutureDate
  <1>9. RequestDto(t)
    BY <1>6, <1>7, <1>8 DEF RequestDto
  <1> QED  BY <1>4, <1>9

LEMMA RatingFits ==
  ASSUME NEW f \in RatingFields, RatingPasses(f)
  PROVE  RatingDto(Sanitized("rating", RatingBody(f)))
  <1> DEFINE whole == [bookingId |-> Given, customerId |-> Given, providerId |-> Given,
                       rating |-> f.stars, comment |-> f.comment]
             keys == Empty("comment", f.comment)
             t == Sanitized("rating", Omitting(whole, keys))
  <1>1. f.stars \in Value /\ f.stars.size \in 1..5
    <2>1. f.stars \in [size : 0..5, padded : {FALSE}, good : {TRUE}]
      BY DEF RatingFields
    <2>2. f.stars \in Value
      BY <2>1, FieldsAreValues
    <2>3. f.stars.size \in 0..5
      BY <2>1
    <2> QED  BY <2>2, <2>3 DEF RatingPasses
  <1>2. /\ DOMAIN whole = {"bookingId", "customerId", "providerId", "rating", "comment"}
        /\ whole["rating"] = f.stars
    OBVIOUS
  <1>3. keys \subseteq {"comment"}
    BY DEF Empty
  <1>4. t = Sanitized("rating", RatingBody(f))
    BY Zenon DEF RatingBody
  <1> HIDE DEF whole, keys
  <1>5. /\ DOMAIN t = DOMAIN whole \ keys
        /\ \A key \in DOMAIN whole \ keys : t[key] = Trim(whole[key])
    BY DEF Sanitized, Omitting, Trim
  <1> HIDE DEF t
  <1>6. Shaped(t, {"bookingId", "customerId", "providerId", "rating"}, {"serviceId", "comment"})
    BY <1>2, <1>3, <1>5 DEF Shaped
  <1>7. t.rating.size \in 1..5
    BY <1>1, <1>2, <1>3, <1>5, TrimMeans
  <1>8. RatingDto(t)
    BY <1>6, <1>7 DEF RatingDto
  <1> QED  BY <1>4, <1>8

LEMMA ReplyFits ==
  ASSUME NEW f \in ReplyFields, ReplyPasses(f)
  PROVE  ReplyDto(Sanitized("reply", f))
  <1> DEFINE whole == f
             t == Sanitized("reply", whole)
  <1>1. f.content \in Value /\ f.content.size >= 1
    <2>1. f.content \in Value
      BY FieldsAreValues DEF ReplyFields
    <2>2. f.content.size \in Nat
      BY <2>1 DEF Value
    <2> QED  BY <2>1, <2>2 DEF ReplyPasses
  <1>2. /\ DOMAIN whole = {"content"}
        /\ whole["content"] = f.content
    BY DEF ReplyFields
  <1> HIDE DEF whole
  <1>3. DOMAIN t = DOMAIN whole /\ \A key \in DOMAIN whole : t[key] = Trim(whole[key])
    BY DEF Sanitized, Trim
  <1> HIDE DEF t
  <1>4. Shaped(t, {"content"}, {})
    BY <1>2, <1>3 DEF Shaped
  <1>5. Typed(t.content) >= 1
    BY <1>1, <1>2, <1>3, TrimMeans
  <1>6. ReplyDto(t)
    BY <1>4, <1>5 DEF ReplyDto
  <1> QED  BY <1>6 DEF t, whole

LEMMA ServiceFits ==
  ASSUME NEW f \in ServiceFields, ServicePasses(f), Plain(f)
  PROVE  ServiceDto(Sanitized("service", ServiceBody(f)))
  <1> DEFINE whole == [title |-> f.title, description |-> f.description,
                       basePrice |-> f.low, minPrice |-> f.low, maxPrice |-> f.high]
             keys == IF f.ranged THEN {"basePrice"} ELSE {"minPrice", "maxPrice"}
             t == Sanitized("service", Omitting(whole, keys))
  <1>1. /\ f.title \in Value /\ ~f.title.padded /\ Typed(f.title) \in 3..100
        /\ f.description \in Value /\ ~f.description.padded /\ Typed(f.description) \in 10..2000
        /\ f.low \in Value /\ f.high \in Value
        /\ f.ranged => f.low.size <= f.high.size
    BY FieldsAreValues DEF ServiceFields, Plain, ServicePasses
  <1>2. /\ DOMAIN whole = {"title", "description", "basePrice", "minPrice", "maxPrice"}
        /\ whole["title"] = f.title /\ whole["description"] = f.description
        /\ whole["minPrice"] = f.low /\ whole["maxPrice"] = f.high
    OBVIOUS
  <1>3. /\ keys \subseteq {"basePrice", "minPrice", "maxPrice"}
        /\ "minPrice" \notin keys => f.ranged /\ "maxPrice" \notin keys
    BY DEF Empty
  <1>4. t = Sanitized("service", ServiceBody(f))
    BY Zenon DEF ServiceBody
  <1> HIDE DEF whole, keys
  <1>5. /\ DOMAIN t = DOMAIN whole \ keys
        /\ \A key \in DOMAIN whole \ keys : t[key] = Trim(whole[key])
    BY DEF Sanitized, Omitting, Trim
  <1> HIDE DEF t
  <1>6. Shaped(t, {"title", "description"}, {"basePrice", "minPrice", "maxPrice"})
    BY <1>2, <1>3, <1>5 DEF Shaped
  <1>7. Typed(t.title) \in 3..100
    BY <1>1, <1>2, <1>3, <1>5, TrimMeans
  <1>8. Typed(t.description) \in 10..2000
    BY <1>1, <1>2, <1>3, <1>5, TrimMeans
  <1>9. "minPrice" \in DOMAIN t => t.minPrice.size <= t.maxPrice.size
    BY <1>1, <1>2, <1>3, <1>5, TrimMeans
  <1>10. ServiceDto(t)
    BY <1>6, <1>7, <1>8, <1>9 DEF ServiceDto
  <1> QED  BY <1>4, <1>10

LEMMA ApplyFits ==
  ASSUME NEW f \in ApplyFields, f.message.size <= 500
  PROVE  ApplyDto(Sanitized("apply", ApplyBody(f)))
  <1> DEFINE whole == [message |-> f.message, proposedPrice |-> f.price]
             keys == Empty("proposedPrice", f.price)
             t == Sanitized("apply", Omitting(whole, keys))
  <1>1. /\ f.message \in Value /\ f.message.size <= 500
    BY FieldsAreValues DEF ApplyFields
  <1>2. /\ DOMAIN whole = {"message", "proposedPrice"}
        /\ whole["message"] = f.message
    OBVIOUS
  <1>3. keys \subseteq {"proposedPrice"}
    BY DEF Empty
  <1>4. t = Sanitized("apply", ApplyBody(f))
    BY Zenon DEF ApplyBody
  <1> HIDE DEF whole, keys
  <1>5. /\ DOMAIN t = DOMAIN whole \ keys
        /\ \A key \in DOMAIN whole \ keys : t[key] = Trim(whole[key])
    BY DEF Sanitized, Omitting, Trim
  <1> HIDE DEF t
  <1>6. Shaped(t, {}, {"message", "proposedEts", "proposedPrice", "proposedPriceMin", "proposedPriceMax"})
    BY <1>2, <1>3, <1>5 DEF Shaped
  <1>7. Typed(t.message) <= 500
    BY <1>1, <1>2, <1>3, <1>5, TrimMeans
  <1>8. ApplyDto(t)
    BY <1>6, <1>7 DEF ApplyDto
  <1> QED  BY <1>4, <1>8

LEMMA InvoiceFits ==
  ASSUME NEW f \in InvoiceFields, InvoicePasses(f), Plain(f), f.order.good
  PROVE  InvoiceDto(Sanitized("invoice", InvoiceBody(f)))
  <1> DEFINE whole == InvoiceBody(f)
             t == Sanitized("invoice", whole)
  <1>1. /\ f.order \in Value /\ f.order.good /\ f.party \in Value
        /\ ~f.party.padded /\ Typed(f.party) >= 1 /\ f.item \in Value
        /\ ~f.item.padded /\ Typed(f.item) >= 1 /\ f.quantity \in Value
        /\ f.quantity.size >= 1
    BY FieldsAreValues DEF InvoiceFields, Plain, InvoicePasses, Party, Item
  <1>2. /\ DOMAIN whole = {"orderId", "billTo", "item", "quantity"}
        /\ whole["orderId"] = f.order /\ whole["billTo"] = f.party
        /\ whole["item"] = f.item /\ whole["quantity"] = f.quantity
    BY DEF InvoiceBody
  <1> HIDE DEF whole
  <1>3. DOMAIN t = DOMAIN whole /\ \A key \in DOMAIN whole : t[key] = Trim(whole[key])
    BY DEF Sanitized, Trim
  <1> HIDE DEF t
  <1>4. Shaped(t, {"billTo", "item", "quantity"}, {"orderId", "customerId", "expiryDate"})
    BY <1>2, <1>3 DEF Shaped
  <1>5. t.orderId.good
    BY <1>1, <1>2, <1>3, TrimMeans DEF BillingAddressDto, InvoiceItemDto
  <1>6. BillingAddressDto(t)
    BY <1>1, <1>2, <1>3, TrimMeans DEF BillingAddressDto, InvoiceItemDto
  <1>7. InvoiceItemDto(t)
    BY <1>1, <1>2, <1>3, TrimMeans DEF BillingAddressDto, InvoiceItemDto
  <1>8. InvoiceDto(t)
    BY <1>4, <1>5, <1>6, <1>7 DEF InvoiceDto
  <1> QED  BY <1>8 DEF t, whole

LEMMA QuoteFits ==
  ASSUME NEW f \in QuoteFields, QuotePasses(f), Plain(f), f.order.good
  PROVE  InvoiceDto(Sanitized("quote", QuoteBody(f)))
  <1> DEFINE whole == QuoteBody(f)
             t == Sanitized("quote", whole)
  <1>1. /\ f.order \in Value /\ f.order.good /\ f.party \in Value
        /\ ~f.party.padded /\ Typed(f.party) >= 1 /\ f.item \in Value
        /\ ~f.item.padded /\ Typed(f.item) >= 1 /\ f.quantity \in Value
        /\ f.quantity.size >= 1
    BY FieldsAreValues DEF QuoteFields, Plain, QuotePasses, InvoicePasses, Party, Item
  <1>2. /\ DOMAIN whole = {"orderId", "billTo", "item", "quantity", "customerId", "expiryDate"}
        /\ whole["orderId"] = f.order /\ whole["billTo"] = f.party
        /\ whole["item"] = f.item /\ whole["quantity"] = f.quantity
    BY DEF QuoteBody
  <1> HIDE DEF whole
  <1>3. DOMAIN t = DOMAIN whole /\ \A key \in DOMAIN whole : t[key] = Trim(whole[key])
    BY DEF Sanitized, Trim
  <1> HIDE DEF t
  <1>4. Shaped(t, {"billTo", "item", "quantity"}, {"orderId", "customerId", "expiryDate"})
    BY <1>2, <1>3 DEF Shaped
  <1>5. t.orderId.good
    BY <1>1, <1>2, <1>3, TrimMeans DEF BillingAddressDto, InvoiceItemDto
  <1>6. BillingAddressDto(t)
    BY <1>1, <1>2, <1>3, TrimMeans DEF BillingAddressDto, InvoiceItemDto
  <1>7. InvoiceItemDto(t)
    BY <1>1, <1>2, <1>3, TrimMeans DEF BillingAddressDto, InvoiceItemDto
  <1>8. InvoiceDto(t)
    BY <1>4, <1>5, <1>6, <1>7 DEF InvoiceDto
  <1> QED  BY <1>8 DEF t, whole

LEMMA ComposerFits ==
  ASSUME NEW f \in ComposerFields, f.text.size <= 2000
  PROVE  ComposerDto(Sanitized("composer", f))
  <1> DEFINE whole == f
             t == Sanitized("composer", whole)
  <1>1. /\ f.text \in Value /\ f.text.size <= 2000
    BY FieldsAreValues DEF ComposerFields
  <1>2. /\ DOMAIN whole = {"text"}
        /\ whole["text"] = f.text
    BY DEF ComposerFields
  <1> HIDE DEF whole
  <1>3. DOMAIN t = DOMAIN whole /\ \A key \in DOMAIN whole : t[key] = Trim(whole[key])
    BY DEF Sanitized, Trim
  <1> HIDE DEF t
  <1>4. Typed(t.text) <= 2000
    BY <1>1, <1>2, <1>3, TrimMeans
  <1>5. ComposerDto(t)
    BY <1>4 DEF ComposerDto
  <1> QED  BY <1>5 DEF t, whole

(* A multipart body comes to the pipe as it was typed.                      *)
LEMMA ApplicationFits ==
  ASSUME NEW f \in ApplicationFields,
         f.name.size >= 2, f.category.size >= 2, f.phone.size >= 6
  PROVE  ApplicationDto(Sanitized("application", ApplicationBody(f)))
  <1> DEFINE t == ApplicationBody(f)
  <1>1. f.name \in Value /\ f.category \in Value /\ f.phone \in Value
    BY FieldsAreValues DEF ApplicationFields
  <1>2. /\ DOMAIN t = {"businessName", "phone", "category"}
        /\ t["businessName"] = f.name /\ t["phone"] = f.phone /\ t["category"] = f.category
    BY DEF ApplicationBody
  <1>3. t = Sanitized("application", ApplicationBody(f))
    BY DEF Sanitized
  <1> HIDE DEF t
  <1>4. Shaped(t, {"businessName", "phone", "category"}, {"notes"})
    BY <1>2 DEF Shaped
  <1>5. Typed(t.businessName) >= 2 /\ Typed(t.phone) >= 6 /\ Typed(t.category) >= 2
    BY <1>1, <1>2, TrimMeans
  <1>6. ApplicationDto(t)
    BY <1>4, <1>5 DEF ApplicationDto
  <1> QED  BY <1>3, <1>6

(* What a form lets through the pipe accepts, but for the known fields.     *)
LEMMA PassedFits ==
  ASSUME NEW form \in Forms, NEW f \in Fields(form), Passes(form, f), ~Disagreed(form, f)
  PROVE  Fits(form, Sanitized(form, Body(form, f)))
  <1>1. Plain(f)
    BY DEF Plain, Disagreed
  <1>2. CASE form = "login"
    <2>1. f \in LoginFields
      BY <1>2 DEF Fields
    <2>2. f.email.good
      BY <1>2, <2>1, FieldsAreValues, TrimMeans DEF Disagreed, LoginFields
    <2>3. LoginDto(Sanitized(form, LoginBody(f)))
      BY <1>1, <1>2, <2>1, <2>2, LoginFits
    <2> QED  BY <1>2, <2>3 DEF Fits, Body
  <1>3. CASE form = "register"
    <2>1. f \in RegisterFields /\ RegisterPasses(f)
      BY <1>3 DEF Fields, Passes
    <2>2. RegisterDto(Sanitized(form, RegisterBody(f)))
      BY <1>1, <1>3, <2>1, RegisterFits
    <2> QED  BY <1>3, <2>2 DEF Fits, Body
  <1>4. CASE form = "password"
    <2>1. f \in PasswordFields /\ PasswordPasses(f)
      BY <1>4 DEF Fields, Passes
    <2>2. f.current.size >= 6
      BY <1>4, <2>1, FieldsAreValues, TrimMeans DEF Disagreed, PasswordFields
    <2>3. PasswordDto(Sanitized(form, PasswordBody(f)))
      BY <1>1, <1>4, <2>1, <2>2, PasswordFits
    <2> QED  BY <1>4, <2>3 DEF Fits, Body
  <1>5. CASE form = "forgot"
    <2>1. f \in ForgotFields
      BY <1>5 DEF Fields
    <2>2. f.email.good
      BY <1>5, <2>1, FieldsAreValues, TrimMeans DEF Disagreed, ForgotFields
    <2>3. ForgotDto(Sanitized(form, f))
      BY <1>1, <1>5, <2>1, <2>2, ForgotFits
    <2> QED  BY <1>5, <2>3 DEF Fits, Body
  <1>6. CASE form = "reset"
    <2>1. f \in ResetFields /\ ResetPasses(f)
      BY <1>6 DEF Fields, Passes
    <2>2. ResetDto(Sanitized(form, ResetBody(f)))
      BY <1>1, <1>6, <2>1, ResetFits
    <2> QED  BY <1>6, <2>2 DEF Fits, Body
  <1>7. CASE form = "request"
    <2>1. f \in RequestFields /\ RequestPasses(f)
      BY <1>7 DEF Fields, Passes
    <2>2. f.phone.size >= 10 /\ f.date.good
      BY <1>7, <2>1, FieldsAreValues, TrimMeans DEF Disagreed, RequestFields
    <2>3. RequestDto(Sanitized(form, RequestBody(f)))
      BY <1>1, <1>7, <2>1, <2>2, RequestFits
    <2> QED  BY <1>7, <2>3 DEF Fits, Body
  <1>8. CASE form = "service"
    <2>1. f \in ServiceFields /\ ServicePasses(f)
      BY <1>8 DEF Fields, Passes
    <2>2. ServiceDto(Sanitized(form, ServiceBody(f)))
      BY <1>1, <1>8, <2>1, ServiceFits
    <2> QED  BY <1>8, <2>2 DEF Fits, Body
  <1>9. CASE form = "rating"
    <2>1. f \in RatingFields /\ RatingPasses(f)
      BY <1>9 DEF Fields, Passes
    <2>2. RatingDto(Sanitized(form, RatingBody(f)))
      BY <1>1, <1>9, <2>1, RatingFits
    <2> QED  BY <1>9, <2>2 DEF Fits, Body
  <1>10. CASE form = "reply"
    <2>1. f \in ReplyFields /\ ReplyPasses(f)
      BY <1>10 DEF Fields, Passes
    <2>2. ReplyDto(Sanitized(form, f))
      BY <1>1, <1>10, <2>1, ReplyFits
    <2> QED  BY <1>10, <2>2 DEF Fits, Body
  <1>11. CASE form = "application"
    <2>1. f \in ApplicationFields
      BY <1>11 DEF Fields
    <2>2. f.name.size >= 2 /\ f.category.size >= 2 /\ f.phone.size >= 6
      BY <1>11, <2>1, FieldsAreValues, TrimMeans DEF Disagreed, ApplicationFields
    <2>3. ApplicationDto(Sanitized(form, ApplicationBody(f)))
      BY <1>1, <1>11, <2>1, <2>2, ApplicationFits
    <2> QED  BY <1>11, <2>3 DEF Fits, Body
  <1>12. CASE form = "apply"
    <2>1. f \in ApplyFields
      BY <1>12 DEF Fields
    <2>2. f.message.size <= 500
      BY <1>12, <2>1, FieldsAreValues, TrimMeans DEF Disagreed, ApplyFields
    <2>3. ApplyDto(Sanitized(form, ApplyBody(f)))
      BY <1>1, <1>12, <2>1, <2>2, ApplyFits
    <2> QED  BY <1>12, <2>3 DEF Fits, Body
  <1>13. CASE form = "invoice"
    <2>1. f \in InvoiceFields /\ InvoicePasses(f)
      BY <1>13 DEF Fields, Passes
    <2>2. f.order.good
      BY <1>13, <2>1, FieldsAreValues, TrimMeans DEF Disagreed
    <2>3. InvoiceDto(Sanitized(form, InvoiceBody(f)))
      BY <1>1, <1>13, <2>1, <2>2, InvoiceFits
    <2> QED  BY <1>13, <2>3 DEF Fits, Body
  <1>14. CASE form = "quote"
    <2>1. f \in QuoteFields /\ QuotePasses(f)
      BY <1>14 DEF Fields, Passes
    <2>2. f.order.good
      BY <1>14, <2>1, FieldsAreValues, TrimMeans DEF Disagreed
    <2>3. InvoiceDto(Sanitized(form, QuoteBody(f)))
      BY <1>1, <1>14, <2>1, <2>2, QuoteFits
    <2> QED  BY <1>14, <2>3 DEF Fits, Body
  <1>15. CASE form = "composer"
    <2>1. f \in ComposerFields
      BY <1>15 DEF Fields
    <2>2. f.text.size <= 2000
      BY <1>15, <2>1, FieldsAreValues, TrimMeans DEF Disagreed, ComposerFields
    <2>3. ComposerDto(Sanitized(form, f))
      BY <1>1, <1>15, <2>1, <2>2, ComposerFits
    <2> QED  BY <1>15, <2>3 DEF Fits, Body
  <1>16. CASE form \in {"customer", "profile", "contact"}
    BY <1>16 DEF Disagreed, Fits
  <1> QED  BY <1>2, <1>3, <1>4, <1>5, <1>6, <1>7, <1>8, <1>9, <1>10, <1>11, <1>12, <1>13, <1>14, <1>15, <1>16 DEF Forms

(* What was filled in is of the form's fields; what is under way it let     *)
(* through; and what was malformed is one of the known disagreements.       *)
Judged(s) ==
  /\ s.filled => s.filling \in Fields(s.form)
  /\ s.call # "none" => s.filling \in Fields(s.form) /\ Passes(s.form, s.filling)
  /\ s.call = "malformed" \/ s.told = "malformed" => Disagreed(s.form, s.filling)

LEMMA FormsJudge ==
  ASSUME SheetOK, Judged(sheet), [FormsNext]_formVars
  PROVE  Judged(sheet')
  <1>0. sheet \in Sheet
    BY DEF SheetOK
  <1>1. CASE FillIn
    <2>1. PICK f \in Fields(sheet.form), photos \in {FALSE, sheet.form = "request"} :
            sheet' = [sheet EXCEPT !.filling = f, !.filled = TRUE, !.photos = photos]
      BY <1>1 DEF FillIn
    <2>2. sheet.call = "none" /\ sheet.told = "nothing"
      BY <1>1 DEF FillIn
    <2>3. /\ sheet'.form = sheet.form /\ sheet'.filling = f
          /\ sheet'.call = sheet.call /\ sheet'.told = sheet.told
      BY <1>0, <2>1 DEF Sheet
    <2> QED  BY <2>2, <2>3 DEF Judged
  <1>2. CASE SubmitForm
    <2>1. /\ sheet'.form = sheet.form /\ sheet'.filling = sheet.filling
          /\ sheet'.call = "asked" /\ sheet'.told = "nothing"
          /\ sheet.filled /\ Passes(sheet.form, sheet.filling)
      BY <1>0, <1>2 DEF SubmitForm, Sheet
    <2> QED  BY <2>1 DEF Judged
  <1>3. CASE ServeForm
    <2>1. /\ sheet'.form = sheet.form /\ sheet'.filling = sheet.filling
          /\ sheet'.told = sheet.told /\ sheet'.filled = sheet.filled /\ sheet.call = "asked"
          /\ \/ sheet'.call \in {"refused", "taken"}
             \/ ~Fits(sheet.form, Sanitized(sheet.form, Body(sheet.form, sheet.filling)))
      BY <1>0, <1>3 DEF ServeForm, Sheet
    <2>2. sheet.filling \in Fields(sheet.form) /\ Passes(sheet.form, sheet.filling)
      BY <2>1 DEF Judged
    <2>3. sheet'.call \in {"refused", "taken"} \/ Disagreed(sheet.form, sheet.filling)
      BY <1>0, <2>1, <2>2, PassedFits DEF Sheet
    <2> QED  BY <2>1, <2>2, <2>3 DEF Judged
  <1>4. CASE AnswerForm
    <2>1. PICK b : /\ b = sheet \/ b = Succeeded(sheet)
                   /\ sheet' = [b EXCEPT !.call = "none", !.told = sheet.call]
      BY <1>4 DEF AnswerForm
    <2>2. b = [sheet EXCEPT !.place = b.place, !.filled = b.filled] /\ (b.filled => sheet.filled)
      BY <1>0, <2>1 DEF Succeeded, Sheet
    <2>3. /\ sheet'.form = sheet.form /\ sheet'.filling = sheet.filling
          /\ sheet'.call = "none" /\ sheet'.told = sheet.call /\ (sheet'.filled => sheet.filled)
      BY <1>0, <2>1, <2>2 DEF Sheet
    <2> QED  BY <2>3 DEF Judged
  <1>5. CASE LoseForm
    <2>1. /\ sheet'.form = sheet.form /\ sheet'.filling = sheet.filling
          /\ sheet'.call = "none" /\ sheet'.told = "error" /\ sheet'.filled = sheet.filled
      BY <1>0, <1>5 DEF LoseForm, Sheet
    <2> QED  BY <2>1 DEF Judged
  <1>6. CASE Uploaded \/ Left
    <2>1. /\ sheet'.form = sheet.form /\ sheet'.filling = sheet.filling
          /\ sheet'.call = sheet.call /\ sheet'.told = sheet.told
          /\ sheet'.filled => sheet.filled
      BY <1>0, <1>6 DEF Uploaded, Left, Sheet
    <2> QED  BY <2>1 DEF Judged
  <1>7. CASE UNCHANGED formVars
    BY <1>7 DEF formVars, Judged
  <1> QED  BY <1>1, <1>2, <1>3, <1>4, <1>5, <1>6, <1>7 DEF FormsNext

(* Nobody is told that a call was malformed by a form that was happy with   *)
(* it, but for the fields known to disagree (the schemas and validate       *)
(* functions of the forms against the DTOs of the ValidationPipe).          *)
THEOREM FormsAndPipeAgree == FormsSpec => []FormsFit
  <1>1. FormsInit => Judged(sheet)
    <2> SUFFICES ASSUME FormsInit  PROVE Judged(sheet)
      OBVIOUS
    <2>1. ~sheet.filled /\ sheet.call = "none" /\ sheet.told = "nothing"
      BY DEF FormsInit
    <2> QED  BY <2>1 DEF Judged
  <1>2. SheetOK /\ Judged(sheet) /\ [FormsNext]_formVars => SheetOK' /\ Judged(sheet)'
    BY FormsKeep, FormsJudge
  <1>3. Judged(sheet) => FormsFit
    BY DEF Judged, FormsFit
  <1> QED  BY <1>1, <1>2, <1>3, FormsBegin, PTL DEF FormsSpec

---------------------------------------------------------------------------
(* The lists.  A set of numbers has a least element: what stands in for     *)
(* induction.                                                               *)
LEMMA LeastOf ==
  ASSUME NEW S \in SUBSET Nat, S # {}
  PROVE  \E x \in S : \A y \in S : x <= y
  <1>1. PICK x \in S : \A y \in S : ~(<<y, x>> \in OpToRel(<, Nat))
    BY NatLessThanWellFounded, WFMin
  <1>2. \A y \in S : ~(y < x)
    BY <1>1, Zenon DEF OpToRel
  <1> QED  BY <1>2

(* The recursion of Sifted as far as some number, and that it goes on.      *)
SiftTo(f, items, S, m) ==
  f = [i \in 0..m |->
         IF i = 0 THEN <<>>
         ELSE IF items[i] \in S THEN Append(f[i - 1], items[i])
         ELSE f[i - 1]]

LEMMA SiftGoesOn ==
  ASSUME NEW items, NEW S, NEW m \in Nat, m # 0, NEW f, SiftTo(f, items, S, m - 1)
  PROVE  \E g : SiftTo(g, items, S, m)
  <1>1. PICK last : last = IF items[m] \in S THEN Append(f[m - 1], items[m]) ELSE f[m - 1]
    OBVIOUS
  <1>2. PICK g : g = [i \in 0..m |-> IF i = m THEN last ELSE f[i]]
    OBVIOUS
  <1>3. m - 1 \in 0..m /\ \A i \in 0..(m - 1) : g[i] = f[i]
    BY <1>2
  <1>4. ASSUME NEW i \in 0..m
        PROVE  g[i] = IF i = 0 THEN <<>>
                      ELSE IF items[i] \in S THEN Append(g[i - 1], items[i])
                      ELSE g[i - 1]
    <2>1. CASE i = m
      <3>1. g[m] = last /\ g[m - 1] = f[m - 1]
        BY <1>2, <1>3
      <3> QED  BY <1>1, <2>1, <3>1
    <2>2. CASE i # m
      <3>1. i \in 0..(m - 1) /\ g[i] = f[i] /\ (i # 0 => g[i - 1] = f[i - 1])
        BY <1>3, <2>2
      <3>2. f[i] = IF i = 0 THEN <<>>
                   ELSE IF items[i] \in S THEN Append(f[i - 1], items[i])
                   ELSE f[i - 1]
        BY <3>1 DEF SiftTo
      <3> QED  BY <3>1, <3>2
    <2> QED  BY <2>1, <2>2
  <1>5. SiftTo(g, items, S, m)
    BY <1>2, <1>4 DEF SiftTo
  <1> QED  BY <1>5

LEMMA SiftExists ==
  ASSUME NEW items, NEW S, NEW n \in Nat
  PROVE  \E f : SiftTo(f, items, S, n)
  <1> DEFINE Bad == {m \in Nat : ~\E f : SiftTo(f, items, S, m)}
  <1>1. \E f : SiftTo(f, items, S, 0)
    <2>1. PICK f : f = [i \in 0..0 |-> <<>>]
      OBVIOUS
    <2>2. SiftTo(f, items, S, 0)
      BY <2>1 DEF SiftTo
    <2> QED  BY <2>2
  <1>2. Bad = {}
    <2> SUFFICES ASSUME Bad # {}  PROVE FALSE
      OBVIOUS
    <2>0. Bad \in SUBSET Nat
      OBVIOUS
    <2> HIDE DEF Bad
    <2>1. PICK m \in Bad : \A k \in Bad : m <= k
      BY <2>0, LeastOf
    <2>2. m \in Nat /\ m # 0
      BY <1>1, <2>1 DEF Bad
    <2>3. m - 1 \in Nat /\ m - 1 \notin Bad
      BY <2>0, <2>1, <2>2
    <2>4. PICK f : SiftTo(f, items, S, m - 1)
      BY <2>3 DEF Bad
    <2>5. \E g : SiftTo(g, items, S, m)
      BY <2>2, <2>4, SiftGoesOn
    <2> QED  BY <2>1, <2>5 DEF Bad
  <1> QED  BY <1>2

(* A sifted list has items of the set only, and a list of such items stays. *)
LEMMA SiftedMeans ==
  ASSUME NEW V, NEW items \in Seq(V), NEW S
  PROVE  /\ Sifted(items, S) \in Seq(V \cap S)
         /\ items \in Seq(S) => Sifted(items, S) = items
  <1> DEFINE n == Len(items)
             f == CHOOSE f : SiftTo(f, items, S, n)
             Keeps(m) ==
               /\ f[m] \in Seq(V \cap S)
               /\ items \in Seq(S) => Len(f[m]) = m /\ \A i \in 1..m : f[m][i] = items[i]
             Bad == {m \in 0..n : ~Keeps(m)}
  <1>1. n \in Nat /\ DOMAIN items = 1..n /\ \A i \in 1..n : items[i] \in V
    OBVIOUS
  <1>2. SiftTo(f, items, S, n)
    BY <1>1, SiftExists
  <1>3. Sifted(items, S) = f[n]
    BY DEF Sifted, SiftTo
  <1> HIDE DEF f
  <1>4. \A i \in 0..n : f[i] = IF i = 0 THEN <<>>
                               ELSE IF items[i] \in S THEN Append(f[i - 1], items[i])
                               ELSE f[i - 1]
    BY <1>2 DEF SiftTo
  <1> HIDE DEF n
  <1>5. Keeps(0)
    <2>1. f[0] = <<>>
      BY <1>1, <1>4
    <2> QED  BY <2>1
  <1>6. ASSUME NEW m \in 1..n, Keeps(m - 1)  PROVE Keeps(m)
    <2>1. m \in 0..n /\ m # 0 /\ m \in Nat /\ m - 1 \in Nat /\ items[m] \in V
      BY <1>1
    <2>2. f[m] = IF items[m] \in S THEN Append(f[m - 1], items[m]) ELSE f[m - 1]
      BY <1>4, <2>1
    <2>3. PICK before \in Seq(V \cap S) : before = f[m - 1]
      BY <1>6
    <2>4. CASE items[m] \in S
      <3>1. f[m] = Append(before, items[m]) /\ items[m] \in V \cap S
        BY <2>1, <2>2, <2>3, <2>4
      <3>2. /\ f[m] \in Seq(V \cap S) /\ Len(f[m]) = Len(before) + 1
            /\ f[m][Len(before) + 1] = items[m] /\ \A i \in 1..Len(before) : f[m][i] = before[i]
        BY <3>1
      <3>3. ASSUME items \in Seq(S)  PROVE Len(f[m]) = m /\ \A i \in 1..m : f[m][i] = items[i]
        <4>1. Len(before) = m - 1 /\ \A i \in 1..(m - 1) : before[i] = items[i]
          BY <1>6, <2>3, <3>3
        <4> QED  BY <2>1, <3>2, <4>1
      <3> QED  BY <3>2, <3>3
    <2>5. CASE items[m] \notin S
      <3>1. f[m] = before /\ items \notin Seq(S)
        BY <1>1, <2>2, <2>3, <2>5 DEF n
      <3> QED  BY <2>3, <3>1
    <2> QED  BY <2>4, <2>5
  <1>7. Bad = {}
    <2> SUFFICES ASSUME Bad # {}  PROVE FALSE
      OBVIOUS
    <2>0. Bad \in SUBSET Nat
      BY <1>1
    <2> HIDE DEF Bad
    <2>1. PICK m \in Bad : \A k \in Bad : m <= k
      BY <2>0, LeastOf
    <2>2. m \in 1..n /\ m - 1 \in 0..n /\ m - 1 \notin Bad
      <3> HIDE DEF Keeps
      <3> QED  BY <1>1, <1>5, <2>1 DEF Bad
    <2> HIDE DEF Keeps
    <2> QED  BY <1>6, <2>1, <2>2 DEF Bad
  <1>8. Keeps(n)
    <2>1. n \in 0..n
      BY <1>1
    <2> HIDE DEF Keeps
    <2> QED  BY <1>7, <2>1
  <1>9. items \in Seq(S) => f[n] = items
    BY <1>1, <1>8 DEF n
  <1> QED  BY <1>3, <1>8, <1>9

---------------------------------------------------------------------------
(* The messages page.  The messages of a thread, what the page says to the  *)
(* gateway, and its functions in flight.                                    *)
Mine(t) == {k \in DOMAIN texts : texts[k] = t}
Words == {"leave", "join"} \X Threads

DeskJob ==
       [op : {"threads"}]
  \cup [op : {"history"}, thread : Threads]
  \cup [op : {"init"}, first : Threads]
  \cup [op : {"post", "tell"}, text : DOMAIN texts]
  \cup UNION {[op : {"show"}, thread : {t}, answer : Seq(Mine(t))] : t \in Threads}

DeskTypeOK ==
  /\ texts \in Seq(Threads)
  /\ stored \in Seq(DOMAIN texts)
  /\ desk \in [open : BOOLEAN, active : Threads \cup {None}, lists : [Threads -> Seq(DOMAIN texts)]]
  /\ line \in [on : BOOLEAN, rooms : SUBSET Threads, sent : Seq(Words), joins : [Threads -> Nat],
               wire : Seq(DOMAIN texts)]
  /\ job \in [Jobs -> DeskJob \cup {Idle}]
  /\ faults \in Nat

(* What a thread's list has is of that thread.                              *)
Owned == \A t \in Threads : desk.lists[t] \in Seq(Mine(t))

(* The last word about a thread is a join, or nothing is left to be said    *)
(* against its being in the rooms, or about to be.                          *)
Joining(a, sent) ==
  \E i \in DOMAIN sent : /\ sent[i] = <<"join", a>>
                         /\ \A k \in DOMAIN sent : k > i => sent[k] # <<"leave", a>>
Kept(a, sent) == \A k \in DOMAIN sent : sent[k] # <<"leave", a>>
Heard(a, l) == Joining(a, l.sent) \/ (Kept(a, l.sent) /\ (l.joins[a] > 0 \/ a \in l.rooms))

(* Only an open page with an active thread has a connection, and unless     *)
(* something failed the gateway has heard which thread that is, or will.    *)
Followed ==
  /\ line.on => desk.open /\ desk.active # None
  /\ faults = 0 /\ desk.open /\ desk.active # None => Heard(desk.active, line)

DeskOK == DeskTypeOK /\ Owned /\ Followed

---------------------------------------------------------------------------
LEMMA DeskJobShapes ==
  ASSUME DeskTypeOK, NEW j \in Jobs
  PROVE  /\ job[j].op = "history" => job[j].thread \in Threads
         /\ job[j].op = "init" => job[j].first \in Threads
         /\ job[j].op \in {"post", "tell"} => job[j].text \in DOMAIN texts
         /\ job[j].op = "show" => job[j].thread \in Threads /\ job[j].answer \in Seq(Mine(job[j].thread))
  <1>1. job[j] \in DeskJob \cup {Idle}
    BY DEF DeskTypeOK
  <1>2. CASE job[j] \in UNION {[op : {"show"}, thread : {t}, answer : Seq(Mine(t))] : t \in Threads}
    <2>1. PICK t \in Threads : job[j] \in [op : {"show"}, thread : {t}, answer : Seq(Mine(t))]
      BY <1>2
    <2> QED  BY <2>1
  <1>3. CASE job[j] \in [op : {"threads"}] \cup [op : {"history"}, thread : Threads]
                        \cup [op : {"init"}, first : Threads]
                        \cup [op : {"post", "tell"}, text : DOMAIN texts] \cup {Idle}
    BY <1>3 DEF Idle
  <1> QED  BY <1>1, <1>2, <1>3 DEF DeskJob

LEMMA DeskCalls ==
  /\ Idle \in DeskJob \cup {Idle} /\ [op |-> "threads"] \in DeskJob
  /\ \A t \in Threads : /\ [op |-> "history", thread |-> t] \in DeskJob
                        /\ [op |-> "init", first |-> t] \in DeskJob
  /\ \A k \in DOMAIN texts : [op |-> "post", text |-> k] \in DeskJob /\ [op |-> "tell", text |-> k] \in DeskJob
  /\ \A t \in Threads : \A answer \in Seq(Mine(t)) :
       [op |-> "show", thread |-> t, answer |-> answer] \in DeskJob
  BY DEF DeskJob

LEMMA DeskCall ==
  ASSUME DeskTypeOK, NEW j \in Jobs, NEW next \in DeskJob \cup {Idle}, Become(j, next)
  PROVE  job' \in [Jobs -> DeskJob \cup {Idle}]
  BY DEF DeskTypeOK, Become

LEMMA SeqGrows ==
  ASSUME NEW A, NEW B, A \subseteq B, NEW s \in Seq(A)
  PROVE  s \in Seq(B)
  OBVIOUS

LEMMA SeqLonger ==
  ASSUME NEW A, NEW s \in Seq(A), NEW x \in A
  PROVE  Append(s, x) \in Seq(A)
  OBVIOUS

LEMMA SeqShorter ==
  ASSUME NEW A, NEW s \in Seq(A), s # <<>>
  PROVE  /\ Tail(s) \in Seq(A) /\ 1 \in DOMAIN s /\ Head(s) = s[1]
         /\ DOMAIN Tail(s) = 1..(Len(s) - 1) /\ DOMAIN s = 1..Len(s) /\ Len(s) \in Nat
         /\ \A i \in DOMAIN Tail(s) : Tail(s)[i] = s[i + 1] /\ i + 1 \in DOMAIN s
  OBVIOUS

(* The parts of a thread's list, sifted and turned around.                  *)
LEMMA OfMeans ==
  ASSUME NEW t \in Threads, NEW items \in Seq(DOMAIN texts)
  PROVE  /\ Of(t, items) \in Seq(Mine(t)) /\ Reverse(Of(t, items)) \in Seq(Mine(t))
         /\ items \in Seq(Mine(t)) => Of(t, items) = items
  <1>1. PICK S : S = Mine(t)
    OBVIOUS
  <1>2. Of(t, items) = Sifted(items, S)
    BY <1>1 DEF Of, Mine
  <1>3. /\ Sifted(items, S) \in Seq(DOMAIN texts \cap S)
        /\ items \in Seq(S) => Sifted(items, S) = items
    BY SiftedMeans
  <1>4. Of(t, items) \in Seq(Mine(t))
    BY <1>1, <1>2, <1>3, SeqGrows
  <1>5. \A s \in Seq(S) : Reverse(s) \in Seq(S)
    <2> SUFFICES ASSUME NEW s \in Seq(S)  PROVE Reverse(s) \in Seq(S)
      OBVIOUS
    <2>1. \A i \in 1..Len(s) : s[(Len(s) - i) + 1] \in S
      OBVIOUS
    <2>2. Len(s) \in Nat
      OBVIOUS
    <2> QED  BY <2>1, <2>2 DEF Reverse
  <1> QED  BY <1>1, <1>2, <1>3, <1>4, <1>5

(* A message is written: what was of a thread still is.                     *)
LEMMA TextsGrow ==
  ASSUME DeskTypeOK, NEW t \in Threads, texts' = Append(texts, t)
  PROVE  /\ texts' \in Seq(Threads) /\ DOMAIN texts \subseteq DOMAIN texts'
         /\ Len(texts) + 1 \in Mine(t)' /\ Len(texts) + 1 \in DOMAIN texts'
         /\ \A u \in Threads : Mine(u) \subseteq Mine(u)'
         /\ DeskJob \subseteq DeskJob'
  <1>1. texts \in Seq(Threads)
    BY DEF DeskTypeOK
  <1>2. /\ texts' \in Seq(Threads) /\ DOMAIN texts' = 1..(Len(texts) + 1)
        /\ DOMAIN texts = 1..Len(texts) /\ Len(texts) \in Nat
        /\ texts'[Len(texts) + 1] = t /\ \A k \in 1..Len(texts) : texts'[k] = texts[k]
    BY <1>1
  <1>3. DOMAIN texts \subseteq DOMAIN texts' /\ Len(texts) + 1 \in DOMAIN texts'
    BY <1>2
  <1>4. Len(texts) + 1 \in Mine(t)'
    BY <1>2, <1>3 DEF Mine
  <1>5. \A u \in Threads : Mine(u) \subseteq Mine(u)'
    BY <1>2, <1>3 DEF Mine
  <1>6. \A u \in Threads : \A s \in Seq(Mine(u)) : s \in Seq(Mine(u)')
    BY <1>5, SeqGrows
  <1>7. DeskJob \subseteq DeskJob'
    <2> SUFFICES ASSUME NEW x \in DeskJob  PROVE x \in DeskJob'
      OBVIOUS
    <2>1. CASE x \in UNION {[op : {"show"}, thread : {u}, answer : Seq(Mine(u))] : u \in Threads}
      <3>1. PICK u \in Threads : x \in [op : {"show"}, thread : {u}, answer : Seq(Mine(u))]
        BY <2>1
      <3>2. x \in [op : {"show"}, thread : {u}, answer : Seq(Mine(u)')]
        BY <1>6, <3>1
      <3> QED  BY <3>2 DEF DeskJob
    <2>2. CASE x \in [op : {"post", "tell"}, text : DOMAIN texts]
      <3>1. x \in [op : {"post", "tell"}, text : DOMAIN texts']
        BY <1>3, <2>2
      <3> QED  BY <3>1 DEF DeskJob
    <2>3. CASE x \in [op : {"threads"}] \cup [op : {"history"}, thread : Threads]
                     \cup [op : {"init"}, first : Threads]
      BY <2>3 DEF DeskJob
    <2> QED  BY <2>1, <2>2, <2>3 DEF DeskJob
  <1> QED  BY <1>2, <1>3, <1>4, <1>5, <1>7

---------------------------------------------------------------------------
(* The steps of the lists, which say nothing to the gateway.                *)
LEMMA FollowedStays ==
  ASSUME DeskOK, faults' = faults \/ faults' = faults + 1,
         desk'.open = desk.open, desk'.active = desk.active, line'.on = line.on,
         line'.sent = line.sent, line'.joins = line.joins, line'.rooms = line.rooms
  PROVE  Followed'
  <1>1. faults \in Nat /\ Followed
    BY DEF DeskOK, DeskTypeOK
  <1>2. faults' = 0 => faults = 0
    BY <1>1
  <1> QED  BY <1>1, <1>2 DEF Followed, Heard

(* A function goes on, and nothing else.                                    *)
LEMMA DeskGoesOn ==
  ASSUME DeskOK, NEW j \in Jobs, NEW next \in DeskJob \cup {Idle}, Become(j, next),
         UNCHANGED <<texts, stored, desk, line>>, faults' = faults \/ faults' = faults + 1
  PROVE  DeskOK'
  <1>1. job' \in [Jobs -> DeskJob \cup {Idle}]
    BY DeskCall DEF DeskOK
  <1>2. faults' \in Nat
    BY DEF DeskOK, DeskTypeOK
  <1>3. DeskJob' = DeskJob
    BY DEF DeskJob, Mine
  <1>4. DeskTypeOK'
    BY <1>1, <1>2, <1>3 DEF DeskOK, DeskTypeOK
  <1>5. Owned'
    BY DEF DeskOK, Owned, Mine
  <1>6. Followed'
    BY FollowedStays
  <1> QED  BY <1>4, <1>5, <1>6 DEF DeskOK

LEMMA CallsKeep ==
  ASSUME DeskOK, NEW j \in Jobs,
         \/ AnswerMessages(j) \/ Turn(j) \/ DeskAbort(j)
         \/ \E t \in Threads : AnswerThreads(j, t)
  PROVE  DeskOK'
  <1>0. DeskTypeOK
    BY DEF DeskOK
  <1>1. CASE AnswerMessages(j)
    <2>1. PICK t \in Threads : t = job[j].thread
      BY <1>0, <1>1, DeskJobShapes DEF AnswerMessages
    <2>2. PICK answer \in Seq(Mine(t)) : answer = Reverse(Of(t, stored))
      BY <1>0, OfMeans DEF DeskTypeOK
    <2>3. PICK next \in DeskJob : next = [op |-> "show", thread |-> t, answer |-> answer]
      BY DeskCalls
    <2>4. Become(j, next) /\ UNCHANGED <<texts, stored, desk, line>> /\ faults' = faults
      BY <1>1, <2>1, <2>2, <2>3 DEF AnswerMessages
    <2> QED  BY <2>4, DeskGoesOn
  <1>2. CASE Turn(j) \/ DeskAbort(j)
    <2>1. PICK next \in DeskJob \cup {Idle} : next = Idle
      OBVIOUS
    <2>2. Become(j, next) /\ UNCHANGED <<texts, stored, desk, line>>
          /\ (faults' = faults \/ faults' = faults + 1)
      BY <1>2, <2>1 DEF Turn, DeskAbort, Finish, Abort, Faulty
    <2> QED  BY <2>2, DeskGoesOn
  <1>3. ASSUME NEW t \in Threads, AnswerThreads(j, t)  PROVE DeskOK'
    <2>1. PICK next \in DeskJob : next = [op |-> "init", first |-> t]
      BY DeskCalls
    <2>2. Become(j, next) /\ UNCHANGED <<texts, stored, desk, line>> /\ faults' = faults
      BY <1>3, <2>1 DEF AnswerThreads
    <2> QED  BY <2>2, DeskGoesOn
  <1> QED  BY <1>1, <1>2, <1>3

LEMMA StoreKeeps ==
  ASSUME DeskOK, NEW j \in Jobs, Store(j)
  PROVE  DeskOK'
  <1>0. DeskTypeOK /\ UNCHANGED <<texts, desk, line, faults>>
    BY DEF DeskOK, Store
  <1>1. PICK k \in DOMAIN texts : k = job[j].text
    BY <1>0, DeskJobShapes DEF Store
  <1>2. PICK next \in DeskJob : next = [op |-> "tell", text |-> k]
    BY DeskCalls
  <1>3. Become(j, next) /\ stored' = Append(stored, k)
    BY <1>1, <1>2 DEF Store
  <1>4. job' \in [Jobs -> DeskJob \cup {Idle}] /\ DeskJob' = DeskJob
    <2>1. DeskJob' = DeskJob
      BY <1>0 DEF DeskJob, Mine
    <2> QED  BY <1>0, <1>3, <2>1, DeskCall
  <1>5. stored' \in Seq(DOMAIN texts)
    BY <1>0, <1>3 DEF DeskTypeOK
  <1>6. DeskTypeOK'
    BY <1>0, <1>4, <1>5 DEF DeskTypeOK
  <1>7. Owned'
    BY <1>0 DEF DeskOK, Owned, Mine
  <1>8. Followed'
    BY <1>0, FollowedStays
  <1> QED  BY <1>6, <1>7, <1>8 DEF DeskOK

LEMMA WriteKeeps ==
  ASSUME DeskOK, NEW j \in Jobs, Compose(j) \/ \E t \in Threads : CustomerWrites(j, t)
  PROVE  DeskOK'
  <1>0. DeskTypeOK /\ UNCHANGED <<line, faults>>
    BY DEF DeskOK, Compose, CustomerWrites
  <1>1. PICK k : k = Len(texts) + 1
    OBVIOUS
  <1>2. PICK t \in Threads :
          /\ texts' = Append(texts, t)
          /\ \/ stored' = stored /\ desk' = [desk EXCEPT !.lists[t] = Append(@, k)]
                /\ Become(j, [op |-> "post", text |-> k])
             \/ stored' = Append(stored, k) /\ desk' = desk
                /\ Become(j, [op |-> "tell", text |-> k])
    <2>1. CASE Compose(j)
      <3>1. desk.active \in Threads
        BY <1>0, <2>1 DEF Compose, DeskTypeOK
      <3> QED  BY <1>1, <2>1, <3>1 DEF Compose, ShownAtOnce
    <2>2. ASSUME NEW t \in Threads, CustomerWrites(j, t)
          PROVE  /\ texts' = Append(texts, t)
                 /\ stored' = Append(stored, k) /\ desk' = desk
                 /\ Become(j, [op |-> "tell", text |-> k])
      BY <1>1, <2>2 DEF CustomerWrites
    <2> QED  BY <2>1, <2>2
  <1>3. /\ texts' \in Seq(Threads) /\ DOMAIN texts \subseteq DOMAIN texts'
        /\ k \in Mine(t)' /\ k \in DOMAIN texts'
        /\ \A u \in Threads : Mine(u) \subseteq Mine(u)'
        /\ DeskJob \subseteq DeskJob'
    BY <1>0, <1>1, <1>2, TextsGrow
  <1>4. PICK next \in DeskJob' \cup {Idle} : Become(j, next)
    <2>1. [op |-> "post", text |-> k] \in DeskJob' /\ [op |-> "tell", text |-> k] \in DeskJob'
      BY <1>3 DEF DeskJob
    <2> QED  BY <1>2, <2>1
  <1>5. job' \in [Jobs -> DeskJob' \cup {Idle}]
    BY <1>0, <1>3, <1>4 DEF DeskTypeOK, Become
  <1>6. \A s \in Seq(DOMAIN texts) : s \in Seq(DOMAIN texts')
    BY <1>3, SeqGrows
  <1>7. stored' \in Seq(DOMAIN texts') /\ line'.wire \in Seq(DOMAIN texts')
    <2>1. stored \in Seq(DOMAIN texts') /\ line.wire \in Seq(DOMAIN texts')
      BY <1>0, <1>6 DEF DeskTypeOK
    <2>2. Append(stored, k) \in Seq(DOMAIN texts')
      BY <1>3, <2>1
    <2> QED  BY <1>0, <1>2, <2>1, <2>2
  <1>8. /\ desk'.open = desk.open /\ desk'.active = desk.active
        /\ desk' \in [open : BOOLEAN, active : Threads \cup {None}, lists : [Threads -> Seq(DOMAIN texts')]]
        /\ \A u \in Threads : desk'.lists[u] = desk.lists[u] \/ (u = t /\ desk'.lists[u] = Append(desk.lists[u], k))
    <2>1. \A u \in Threads : desk.lists[u] \in Seq(DOMAIN texts')
      BY <1>0, <1>6 DEF DeskTypeOK
    <2>2. PICK longer \in Seq(DOMAIN texts') : longer = Append(desk.lists[t], k)
      BY <1>3, <2>1, SeqLonger
    <2>3. PICK lists \in [Threads -> Seq(DOMAIN texts')] : lists = [desk.lists EXCEPT ![t] = longer]
      BY <1>0, <2>1 DEF DeskTypeOK
    <2>4. desk' = desk \/ desk' = [desk EXCEPT !.lists = lists]
      BY <1>0, <1>2, <2>2, <2>3 DEF DeskTypeOK
    <2>5. desk.lists \in [Threads -> Seq(DOMAIN texts')]
      BY <1>0, <2>1 DEF DeskTypeOK
    <2>6. /\ desk'.open = desk.open /\ desk'.active = desk.active
          /\ desk'.lists = desk.lists \/ desk'.lists = lists
      BY <1>0, <2>4 DEF DeskTypeOK
    <2>7. desk' \in [open : BOOLEAN, active : Threads \cup {None}, lists : [Threads -> Seq(DOMAIN texts')]]
      BY <1>0, <2>4, <2>5 DEF DeskTypeOK
    <2>8. \A u \in Threads : lists[u] = desk.lists[u] \/ (u = t /\ lists[u] = Append(desk.lists[u], k))
      BY <2>2, <2>3, <2>5
    <2> QED  BY <2>6, <2>7, <2>8
  <1>9. DeskTypeOK'
    BY <1>0, <1>3, <1>5, <1>7, <1>8 DEF DeskTypeOK
  <1>10. Owned'
    <2> SUFFICES ASSUME NEW u \in Threads  PROVE desk'.lists[u] \in Seq(Mine(u)')
      BY DEF Owned
    <2>1. desk.lists[u] \in Seq(Mine(u)')
      BY <1>3, SeqGrows DEF DeskOK, Owned
    <2>2. CASE desk'.lists[u] = desk.lists[u]
      BY <2>1, <2>2
    <2>3. CASE u = t /\ desk'.lists[u] = Append(desk.lists[u], k)
      BY <1>3, <2>1, <2>3
    <2> QED  BY <1>8, <2>2, <2>3
  <1>11. Followed'
    BY <1>0, <1>8, FollowedStays
  <1> QED  BY <1>9, <1>10, <1>11 DEF DeskOK

(* A list is replaced by its history, or has one message more.              *)
LEMMA ListChanges ==
  ASSUME DeskOK, NEW t \in Threads, NEW items \in Seq(Mine(t)),
         desk' = [desk EXCEPT !.lists = [desk.lists EXCEPT ![t] = items]],
         UNCHANGED <<texts, stored, faults>>, job' \in [Jobs -> DeskJob \cup {Idle}],
         \E wire \in Seq(DOMAIN texts) : line' = [line EXCEPT !.wire = wire]
  PROVE  DeskOK'
  <1>0. DeskTypeOK /\ Owned
    BY DEF DeskOK
  <1>1. DeskJob' = DeskJob
    BY DEF DeskJob, Mine
  <1>2. items \in Seq(DOMAIN texts)
    BY SeqGrows DEF Mine
  <1>3. PICK lists \in [Threads -> Seq(DOMAIN texts)] : lists = [desk.lists EXCEPT ![t] = items]
    BY <1>0, <1>2 DEF DeskTypeOK
  <1>4. /\ desk' \in [open : BOOLEAN, active : Threads \cup {None}, lists : [Threads -> Seq(DOMAIN texts)]]
        /\ desk'.open = desk.open /\ desk'.active = desk.active /\ desk'.lists = lists
    BY <1>0, <1>3 DEF DeskTypeOK
  <1>5. PICK wire \in Seq(DOMAIN texts) : line' = [line EXCEPT !.wire = wire]
    OBVIOUS
  <1>6. /\ line' \in [on : BOOLEAN, rooms : SUBSET Threads, sent : Seq(Words), joins : [Threads -> Nat],
                      wire : Seq(DOMAIN texts)]
        /\ line'.on = line.on /\ line'.sent = line.sent /\ line'.joins = line.joins
        /\ line'.rooms = line.rooms
    BY <1>0, <1>5 DEF DeskTypeOK
  <1>7. DeskTypeOK'
    BY <1>0, <1>1, <1>4, <1>6 DEF DeskTypeOK
  <1>8. \A u \in Threads : lists[u] \in Seq(Mine(u))
    BY <1>0, <1>3 DEF DeskTypeOK, Owned
  <1>9. Owned'
    BY <1>4, <1>8 DEF Owned, Mine
  <1>10. Followed'
    BY <1>4, <1>6, FollowedStays
  <1> QED  BY <1>7, <1>9, <1>10 DEF DeskOK

LEMMA ShowMessagesKeeps ==
  ASSUME DeskOK, NEW j \in Jobs, ShowMessages(j)
  PROVE  DeskOK'
  <1>0. DeskTypeOK /\ UNCHANGED <<texts, stored, faults, line>>
    BY DEF DeskOK, ShowMessages
  <1>1. PICK t \in Threads : t = job[j].thread /\ job[j].answer \in Seq(Mine(t))
    BY <1>0, DeskJobShapes DEF ShowMessages
  <1>2. PICK items \in Seq(Mine(t)) : items = job[j].answer
    BY <1>1
  <1>3. desk' = [desk EXCEPT !.lists = [desk.lists EXCEPT ![t] = items]]
    BY <1>1, <1>2 DEF ShowMessages, Listed
  <1>4. PICK next \in DeskJob \cup {Idle} : next = Idle
    OBVIOUS
  <1>5. Become(j, next)
    BY <1>4 DEF ShowMessages, Finish
  <1>6. job' \in [Jobs -> DeskJob \cup {Idle}]
    BY <1>0, <1>5, DeskCall
  <1>7. line.wire \in Seq(DOMAIN texts) /\ line' = [line EXCEPT !.wire = line.wire]
    BY <1>0 DEF DeskTypeOK
  <1> QED  BY <1>0, <1>3, <1>6, <1>7, ListChanges

LEMMA AddIncomingKeeps ==
  ASSUME DeskOK, AddIncoming
  PROVE  DeskOK'
  <1>0. DeskTypeOK /\ Owned /\ UNCHANGED <<texts, stored, faults, job>>
    BY DEF DeskOK, AddIncoming
  <1>1. line.wire \in Seq(DOMAIN texts) /\ line.wire # <<>>
    BY <1>0 DEF DeskTypeOK, AddIncoming
  <1>2. PICK k \in DOMAIN texts : k = Head(line.wire)
    BY <1>1
  <1>3. PICK t \in Threads : t = texts[k]
    BY <1>0 DEF DeskTypeOK
  <1>4. PICK items \in Seq(Mine(t)) : items = Append(desk.lists[t], k)
    <2>1. k \in Mine(t) /\ desk.lists[t] \in Seq(Mine(t))
      BY <1>0, <1>3 DEF Owned, Mine
    <2>2. Append(desk.lists[t], k) \in Seq(Mine(t))
      BY <2>1, SeqLonger
    <2> QED  BY <2>2
  <1>5. desk' = [desk EXCEPT !.lists = [desk.lists EXCEPT ![t] = items]]
    BY <1>0, <1>2, <1>3, <1>4 DEF AddIncoming, DeskTypeOK
  <1>6. Tail(line.wire) \in Seq(DOMAIN texts)
    BY <1>1, SeqShorter
  <1>7. line' = [line EXCEPT !.wire = Tail(line.wire)]
    BY DEF AddIncoming
  <1>8. job' \in [Jobs -> DeskJob \cup {Idle}]
    BY <1>0 DEF DeskTypeOK
  <1> QED  BY <1>0, <1>5, <1>6, <1>7, <1>8, ListChanges

LEMMA TellKeeps ==
  ASSUME DeskOK, NEW j \in Jobs, Tell(j)
  PROVE  DeskOK'
  <1>0. DeskTypeOK /\ UNCHANGED <<texts, stored, desk, faults>>
    BY DEF DeskOK, Tell
  <1>1. PICK k \in DOMAIN texts : k = job[j].text
    BY <1>0, DeskJobShapes DEF Tell
  <1>2. PICK next \in DeskJob \cup {Idle} : next = Idle
    OBVIOUS
  <1>3. Become(j, next)
    BY <1>2 DEF Tell, Finish
  <1>4. job' \in [Jobs -> DeskJob \cup {Idle}] /\ DeskJob' = DeskJob
    <2>1. DeskJob' = DeskJob
      BY <1>0 DEF DeskJob, Mine
    <2> QED  BY <1>0, <1>3, <2>1, DeskCall
  <1>5. line.wire \in Seq(DOMAIN texts) /\ Append(line.wire, k) \in Seq(DOMAIN texts)
    BY <1>0 DEF DeskTypeOK
  <1>6. PICK wire \in Seq(DOMAIN texts) : line' = [line EXCEPT !.wire = wire]
    <2>1. line' = [line EXCEPT !.wire = Append(line.wire, k)] \/ line' = line
      BY <1>1 DEF Tell
    <2>2. line = [line EXCEPT !.wire = line.wire]
      BY <1>0 DEF DeskTypeOK
    <2> QED  BY <1>5, <2>1, <2>2
  <1>7. /\ line' \in [on : BOOLEAN, rooms : SUBSET Threads, sent : Seq(Words), joins : [Threads -> Nat],
                      wire : Seq(DOMAIN texts)]
        /\ line'.on = line.on /\ line'.sent = line.sent /\ line'.joins = line.joins
        /\ line'.rooms = line.rooms
    BY <1>0, <1>6 DEF DeskTypeOK
  <1>8. DeskTypeOK'
    BY <1>0, <1>4, <1>7 DEF DeskTypeOK
  <1>9. Owned'
    BY <1>0 DEF DeskOK, Owned, Mine
  <1>10. Followed'
    BY <1>0, <1>7, FollowedStays
  <1> QED  BY <1>8, <1>9, <1>10 DEF DeskOK

---------------------------------------------------------------------------
LEMMA LastWord ==
  ASSUME NEW W, NEW sent \in Seq(W), NEW said \in Seq(W), NEW word \in W,
         NEW s, s = sent \o (said \o <<word>>)
  PROVE  s \in Seq(W) /\ s # <<>> /\ s[Len(s)] = word
  <1>1. PICK last \in Seq(W) : last = said \o <<word>> /\ Len(last) = Len(said) + 1
                               /\ last[Len(said) + 1] = word
    <2>1. <<word>> \in Seq(W) /\ Len(<<word>>) = 1 /\ <<word>>[1] = word
      OBVIOUS
    <2>2. PICK one \in Seq(W) : one = <<word>> /\ Len(one) = 1 /\ one[1] = word
      BY <2>1
    <2>3. PICK last : last = said \o one
      OBVIOUS
    <2>4. last \in Seq(W) /\ Len(last) = Len(said) + 1 /\ last[Len(said) + 1] = word
      BY <2>2, <2>3
    <2> QED  BY <2>2, <2>3, <2>4
  <1>2. /\ s \in Seq(W) /\ Len(s) = Len(sent) + Len(last) /\ Len(sent) \in Nat /\ Len(said) \in Nat
        /\ \A i \in 1..Len(last) : s[Len(sent) + i] = last[i]
    BY <1>1
  <1>3. Len(s) = Len(sent) + (Len(said) + 1) /\ Len(said) + 1 \in 1..Len(last)
    BY <1>1, <1>2
  <1>4. s[Len(s)] = word
    BY <1>1, <1>2, <1>3
  <1>5. Len(s) # 0
    BY <1>2, <1>3
  <1> QED  BY <1>2, <1>4, <1>5

(* What the page says last is that it joins the thread it shows.            *)
LEMMA SwitchedMeans ==
  ASSUME NEW old \in Threads \cup {None}, NEW new \in Threads, NEW sent \in Seq(Words),
         NEW s, s = sent \o Switched(old, new)
  PROVE  s \in Seq(Words) /\ Joining(new, s)
  <1>1. PICK word \in Words, said \in Seq(Words) :
          word = <<"join", new>> /\ Switched(old, new) = said \o <<word>>
    <2>1. <<"join", new>> \in Words /\ (old # None => <<"leave", old>> \in Words)
      BY DEF Words
    <2>2. PICK said \in Seq(Words) : said = IF old = None THEN <<>> ELSE <<<<"leave", old>>>>
      <3>0. <<>> \in Seq(Words)
        OBVIOUS
      <3>1. CASE old = None
        BY <3>0, <3>1
      <3>2. CASE old # None
        <4>1. PICK leave \in Words : leave = <<"leave", old>>
          BY <2>1, <3>2
        <4>2. <<leave>> \in Seq(Words)
          OBVIOUS
        <4> QED  BY <3>2, <4>1, <4>2
      <3> QED  BY <3>1, <3>2
    <2>3. Switched(old, new) = said \o <<<<"join", new>>>>
      BY <2>2 DEF Switched
    <2> QED  BY <2>1, <2>3
  <1>2. s \in Seq(Words) /\ s # <<>> /\ s[Len(s)] = word
    BY <1>1, LastWord
  <1>3. Len(s) \in DOMAIN s /\ \A k \in DOMAIN s : ~(k > Len(s))
    BY <1>2
  <1>4. Joining(new, s)
    BY <1>1, <1>2, <1>3 DEF Joining
  <1> QED  BY <1>2, <1>4

(* The page is opened, or another thread made active.                       *)
LineType ==
  [on : BOOLEAN, rooms : SUBSET Threads, sent : Seq(Words), joins : [Threads -> Nat],
   wire : Seq(DOMAIN texts)]

LEMMA SwitchKeeps ==
  ASSUME DeskOK, UNCHANGED <<texts, stored>>, job' \in [Jobs -> DeskJob \cup {Idle}], faults' \in Nat,
         desk' \in [open : BOOLEAN, active : Threads \cup {None}, lists : [Threads -> Seq(DOMAIN texts)]],
         desk'.lists = desk.lists, line' \in LineType, Followed'
  PROVE  DeskOK'
  <1>1. DeskJob' = DeskJob
    BY DEF DeskJob, Mine
  <1>2. DeskTypeOK'
    BY <1>1 DEF DeskOK, DeskTypeOK, LineType
  <1>3. Owned'
    BY DEF DeskOK, Owned, Mine
  <1> QED  BY <1>2, <1>3 DEF DeskOK

LEMMA FollowKeeps ==
  ASSUME DeskOK, NEW t \in Threads, Follow(t), desk' = [desk EXCEPT !.active = t],
         UNCHANGED <<texts, stored, faults>>, job' \in [Jobs -> DeskJob \cup {Idle}]
  PROVE  DeskOK'
  <1>0. DeskTypeOK /\ Followed
    BY DEF DeskOK
  <1>1. /\ desk' \in [open : BOOLEAN, active : Threads \cup {None}, lists : [Threads -> Seq(DOMAIN texts)]]
        /\ desk'.open = desk.open /\ desk'.active = t /\ desk'.lists = desk.lists
        /\ faults' \in Nat /\ line \in LineType /\ desk.active \in Threads \cup {None}
        /\ line.sent \in Seq(Words) /\ t # None
    BY <1>0, DeskAssumption DEF DeskTypeOK, LineType
  <1>2. CASE desk.open /\ t # desk.active
    <2>1. PICK s : s = line.sent \o Switched(desk.active, t)
      OBVIOUS
    <2>2. s \in Seq(Words) /\ Joining(t, s)
      BY <1>1, <1>2, <2>1, SwitchedMeans
    <2>3. line' = [line EXCEPT !.sent = s]
      BY <1>2, <2>1 DEF Follow
    <2>4. line' \in LineType /\ line'.sent = s /\ line'.on = line.on
      BY <1>1, <2>2, <2>3 DEF LineType
    <2>5. Followed'
      BY <1>0, <1>1, <1>2, <2>2, <2>4 DEF Followed, Heard
    <2> QED  BY <1>1, <2>4, <2>5, SwitchKeeps
  <1>3. CASE ~(desk.open /\ t # desk.active)
    <2>1. line' = line
      BY <1>3 DEF Follow
    <2>2. Followed'
      BY <1>0, <1>1, <1>3, <2>1 DEF Followed, Heard
    <2> QED  BY <1>1, <2>1, <2>2, SwitchKeeps
  <1> QED  BY <1>2, <1>3

LEMMA ActivateKeeps ==
  ASSUME DeskOK, NEW j \in Jobs, ShowThreads(j) \/ \E t \in Threads : ClickThread(j, t)
  PROVE  DeskOK'
  <1>0. DeskTypeOK /\ UNCHANGED <<texts, stored, faults>>
    BY DEF DeskOK, ShowThreads, ClickThread
  <1>1. PICK t \in Threads : /\ Follow(t) /\ desk' = [desk EXCEPT !.active = t]
                             /\ \E active : Activated(j, t, active)
    <2>1. CASE ShowThreads(j)
      <3>1. PICK t \in Threads : t = job[j].first
        BY <1>0, <2>1, DeskJobShapes DEF ShowThreads
      <3> QED  BY <2>1, <3>1 DEF ShowThreads
    <2>2. ASSUME NEW t \in Threads, ClickThread(j, t)
          PROVE  /\ Follow(t) /\ desk' = [desk EXCEPT !.active = t]
                 /\ \E active : Activated(j, t, active)
      BY <2>2 DEF ClickThread, Activated
    <2> QED  BY <2>1, <2>2
  <1>2. PICK next \in DeskJob \cup {Idle} : Become(j, next)
    <2>1. Become(j, Idle) \/ Become(j, [op |-> "history", thread |-> t])
      BY <1>1 DEF Activated, Finish
    <2> QED  BY <2>1, DeskCalls
  <1>3. job' \in [Jobs -> DeskJob \cup {Idle}]
    BY <1>0, <1>2, DeskCall
  <1> QED  BY <1>0, <1>1, <1>3, FollowKeeps

LEMMA HungIsALine == Hung \in LineType /\ ~Hung.on /\ Hung.sent = <<>>
  <1>1. [t \in Threads |-> 0] \in [Threads -> Nat] /\ <<>> \in Seq(Words) /\ <<>> \in Seq(DOMAIN texts)
    OBVIOUS
  <1> QED  BY <1>1 DEF Hung, LineType

LEMMA OpenPageKeeps ==
  ASSUME DeskOK, NEW j \in Jobs, OpenPage(j)
  PROVE  DeskOK'
  <1>0. DeskTypeOK /\ UNCHANGED <<texts, stored, faults>>
    BY DEF DeskOK, OpenPage
  <1>1. PICK next \in DeskJob : next = [op |-> "threads"]
    BY DeskCalls
  <1>2. Become(j, next)
    BY <1>1 DEF OpenPage
  <1>3. job' \in [Jobs -> DeskJob \cup {Idle}]
    BY <1>0, <1>2, DeskCall
  <1>4. /\ desk' \in [open : BOOLEAN, active : Threads \cup {None}, lists : [Threads -> Seq(DOMAIN texts)]]
        /\ desk'.active = desk.active /\ desk'.lists = desk.lists
        /\ faults' \in Nat /\ desk.active \in Threads \cup {None}
    BY <1>0 DEF DeskTypeOK, OpenPage
  <1>5. line' \in LineType /\ ~line'.on /\ (desk.active # None => Joining(desk.active, line'.sent))
    <2>1. CASE desk.active = None
      BY <2>1, HungIsALine DEF OpenPage
    <2>2. CASE desk.active # None
      <3>1. PICK s : s = <<>> \o Switched(None, desk.active)
        OBVIOUS
      <3>2. s \in Seq(Words) /\ Joining(desk.active, s)
        <4>1. PICK t \in Threads : t = desk.active
          BY <1>4, <2>2
        <4>2. <<>> \in Seq(Words)
          OBVIOUS
        <4>3. PICK none \in Seq(Words), old \in Threads \cup {None} : none = <<>> /\ old = None
          BY <4>2
        <4>4. s = none \o Switched(old, t)
          BY <3>1, <4>1, <4>3
        <4> QED  BY <4>1, <4>4, SwitchedMeans
      <3>4. s = Switched(None, desk.active)
        <4>1. \A said : <<>> \o (<<>> \o <<said>>) = <<>> \o <<said>>
          OBVIOUS
        <4> QED  BY <3>1, <4>1 DEF Switched
      <3>5. line' = [Hung EXCEPT !.sent = s]
        BY <2>2, <3>4 DEF OpenPage
      <3>6. PICK h \in LineType : h = Hung /\ ~h.on
        BY HungIsALine
      <3>7. line' \in LineType /\ line'.sent = s /\ ~line'.on
        BY <3>2, <3>5, <3>6 DEF LineType
      <3> QED  BY <3>2, <3>7
    <2> QED  BY <2>1, <2>2
  <1>6. Followed'
    BY <1>4, <1>5 DEF Followed, Heard
  <1> QED  BY <1>0, <1>3, <1>4, <1>5, <1>6, SwitchKeeps

(* The page is closed, the connection lost, made, or used by the gateway.   *)
LEMMA LineKeeps ==
  ASSUME DeskOK, ClosePage \/ DropLine \/ Dial
  PROVE  DeskOK'
  <1>0. DeskTypeOK /\ Followed /\ UNCHANGED <<texts, stored, job>>
    BY DEF DeskOK, ClosePage, DropLine, Dial
  <1>1. job' \in [Jobs -> DeskJob \cup {Idle}] /\ faults \in Nat /\ line \in LineType
    BY <1>0 DEF DeskTypeOK, LineType
  <1>2. CASE ClosePage
    <2>1. /\ desk' \in [open : BOOLEAN, active : Threads \cup {None}, lists : [Threads -> Seq(DOMAIN texts)]]
          /\ ~desk'.open /\ desk'.lists = desk.lists /\ faults' \in Nat
      BY <1>0, <1>1, <1>2 DEF DeskTypeOK, ClosePage
    <2>2. line' \in LineType /\ ~line'.on
      BY <1>2, HungIsALine DEF ClosePage
    <2>3. Followed'
      BY <2>1, <2>2 DEF Followed
    <2> QED  BY <1>0, <1>1, <2>1, <2>2, <2>3, SwitchKeeps
  <1>3. CASE DropLine
    <2>1. desk' = desk /\ faults' \in Nat /\ faults' # 0
      BY <1>1, <1>3 DEF DropLine, Faulty
    <2>2. line' \in LineType /\ ~line'.on
      BY <1>3, HungIsALine DEF DropLine
    <2>3. Followed'
      BY <2>1, <2>2 DEF Followed
    <2> QED  BY <1>0, <1>1, <2>1, <2>2, <2>3, SwitchKeeps DEF DeskTypeOK
  <1>4. CASE Dial
    <2>1. desk' = desk /\ faults' = faults /\ desk.open /\ desk.active # None
      BY <1>4 DEF Dial
    <2>2. line' \in LineType /\ line'.sent = line.sent /\ line'.joins = line.joins /\ line'.rooms = line.rooms
      BY <1>1, <1>4 DEF Dial, LineType
    <2>3. Followed'
      BY <1>0, <2>1, <2>2 DEF Followed, Heard
    <2> QED  BY <1>0, <1>1, <2>1, <2>2, <2>3, SwitchKeeps DEF DeskTypeOK
  <1> QED  BY <1>2, <1>3, <1>4

(* The gateway obeys the first word, or has looked up who joins.            *)
LEMMA HeardStays ==
  ASSUME NEW a \in Threads, NEW l \in LineType, Heard(a, l), l.sent # <<>>, NEW m \in LineType,
         m.sent = Tail(l.sent),
         \/ Head(l.sent)[1] = "leave" /\ m.rooms = l.rooms \ {Head(l.sent)[2]} /\ m.joins = l.joins
         \/ /\ Head(l.sent)[1] # "leave" /\ m.rooms = l.rooms
            /\ m.joins = [l.joins EXCEPT ![Head(l.sent)[2]] = @ + 1]
  PROVE  Heard(a, m)
  <1>0. l.sent \in Seq(Words) /\ l.joins \in [Threads -> Nat]
    BY DEF LineType
  <1>1. PICK sent \in Seq(Words) : sent = l.sent /\ sent # <<>>
    BY <1>0
  <1>2. PICK rest \in Seq(Words) :
          /\ rest = Tail(sent)
          /\ 1 \in DOMAIN sent /\ Head(sent) = sent[1]
          /\ DOMAIN rest = 1..(Len(sent) - 1) /\ DOMAIN sent = 1..Len(sent) /\ Len(sent) \in Nat
          /\ \A i \in DOMAIN rest : rest[i] = sent[i + 1] /\ i + 1 \in DOMAIN sent /\ i + 1 > 1
    <2>1. /\ Tail(sent) \in Seq(Words) /\ 1 \in DOMAIN sent /\ Head(sent) = sent[1]
          /\ DOMAIN Tail(sent) = 1..(Len(sent) - 1) /\ DOMAIN sent = 1..Len(sent) /\ Len(sent) \in Nat
          /\ \A i \in DOMAIN Tail(sent) : Tail(sent)[i] = sent[i + 1] /\ i + 1 \in DOMAIN sent
      BY <1>1, SeqShorter
    <2>2. PICK rest \in Seq(Words) : rest = Tail(sent)
      BY <2>1
    <2>3. \A i \in DOMAIN rest : i \in Nat /\ i + 1 > 1
      BY <2>1, <2>2
    <2> QED  BY <2>1, <2>2, <2>3
  <1>3. PICK op \in {"leave", "join"}, t \in Threads : Head(sent) = <<op, t>>
    BY <1>1, <1>2 DEF Words
  <1>4. /\ m.sent = rest
        /\ \/ op = "leave" /\ m.rooms = l.rooms \ {t} /\ m.joins = l.joins
           \/ op = "join" /\ m.rooms = l.rooms /\ m.joins = [l.joins EXCEPT ![t] = @ + 1]
    BY <1>1, <1>2, <1>3
  <1>5. CASE Joining(a, sent)
    <2>0. PICK leave : leave = <<"leave", a>>
      OBVIOUS
    <2>1. PICK i \in DOMAIN sent : /\ sent[i] = <<"join", a>>
                                   /\ \A k \in DOMAIN sent : k > i => sent[k] # leave
      BY <1>5, <2>0 DEF Joining
    <2>2. CASE i = 1
      <3>1. op = "join" /\ t = a
        BY <1>2, <1>3, <2>1, <2>2
      <3>2. m.joins[a] > 0
        BY <1>0, <1>4, <3>1
      <3>3. \A k \in DOMAIN rest : rest[k] # leave
        BY <1>2, <2>1, <2>2
      <3>4. Kept(a, m.sent)
        BY <1>4, <2>0, <3>3 DEF Kept
      <3> QED  BY <3>2, <3>4 DEF Heard
    <2>3. CASE i # 1
      <3>1. i - 1 \in DOMAIN rest /\ rest[i - 1] = sent[i]
        BY <1>2, <2>3
      <3>2. \A k \in DOMAIN rest : k > i - 1 => rest[k] # leave
        BY <1>2, <2>1
      <3>3. Joining(a, m.sent)
        BY <1>4, <2>0, <2>1, <3>1, <3>2 DEF Joining
      <3> QED  BY <3>3 DEF Heard
    <2> QED  BY <2>2, <2>3
  <1>6. CASE Kept(a, sent) /\ (l.joins[a] > 0 \/ a \in l.rooms)
    <2>0. PICK leave : leave = <<"leave", a>>
      OBVIOUS
    <2>1. \A k \in DOMAIN sent : sent[k] # leave
      BY <1>6, <2>0 DEF Kept
    <2>2. \A k \in DOMAIN rest : rest[k] # leave
      BY <1>2, <2>1
    <2>3. Kept(a, m.sent)
      BY <1>4, <2>0, <2>2 DEF Kept
    <2>4. op = "leave" => t # a
      BY <1>2, <1>3, <2>0, <2>1
    <2>5. m.joins[a] > 0 \/ a \in m.rooms
      BY <1>0, <1>4, <1>6, <2>4
    <2> QED  BY <2>3, <2>5 DEF Heard
  <1> QED  BY <1>1, <1>5, <1>6 DEF Heard

LEMMA GatewayKeeps ==
  ASSUME DeskOK, Obey \/ \E t \in Threads : Admit(t)
  PROVE  DeskOK'
  <1>0. DeskTypeOK /\ Followed /\ UNCHANGED <<texts, stored, desk, job, faults>>
    BY DEF DeskOK, Obey, Admit
  <1>1. PICK l \in LineType : l = line
    BY <1>0 DEF DeskTypeOK, LineType
  <1>2. CASE Obey
    <2>1. l.sent # <<>> /\ l.sent \in Seq(Words) /\ l.joins \in [Threads -> Nat] /\ l.rooms \in SUBSET Threads
      BY <1>1, <1>2 DEF Obey, LineType
    <2>2. Head(l.sent) = l.sent[1] /\ 1 \in DOMAIN l.sent /\ Tail(l.sent) \in Seq(Words)
      BY <2>1, SeqShorter
    <2>3. PICK op \in {"leave", "join"}, t \in Threads : Head(l.sent) = <<op, t>>
      BY <2>1, <2>2 DEF Words
    <2>4. PICK rest : rest = [l EXCEPT !.sent = Tail(l.sent)]
      OBVIOUS
    <2>5. /\ rest \in LineType /\ rest.sent = Tail(l.sent) /\ rest.rooms = l.rooms
          /\ rest.joins = l.joins /\ rest.on = l.on
      BY <2>2, <2>4 DEF LineType
    <2>6. PICK joins \in [Threads -> Nat] : joins = [l.joins EXCEPT ![t] = @ + 1]
      <3>1. PICK n \in Nat : n = l.joins[t] + 1
        BY <2>1
      <3>2. [l.joins EXCEPT ![t] = n] \in [Threads -> Nat]
        BY <2>1
      <3> QED  BY <3>1, <3>2
    <2>7. \/ op = "leave" /\ line' = [rest EXCEPT !.rooms = l.rooms \ {t}]
          \/ op = "join" /\ line' = [rest EXCEPT !.joins = joins]
      <3>1. line' = IF Head(l.sent)[1] = "leave"
                    THEN [rest EXCEPT !.rooms = @ \ {Head(l.sent)[2]}]
                    ELSE [rest EXCEPT !.joins[Head(l.sent)[2]] = @ + 1]
        BY <1>1, <1>2, <2>4 DEF Obey
      <3>2. op = "leave" \/ op = "join"
        OBVIOUS
      <3>3. op = "leave" => line' = [rest EXCEPT !.rooms = l.rooms \ {t}]
        BY <2>3, <2>5, <3>1
      <3>4. op = "join" => line' = [rest EXCEPT !.joins = joins]
        BY <2>3, <2>5, <2>6, <3>1
      <3> QED  BY <3>2, <3>3, <3>4
    <2>8. /\ line' \in LineType /\ line'.sent = Tail(l.sent) /\ line'.on = l.on
          /\ \/ op = "leave" /\ line'.rooms = l.rooms \ {t} /\ line'.joins = l.joins
             \/ op # "leave" /\ line'.rooms = l.rooms /\ line'.joins = joins
      BY <2>1, <2>5, <2>7 DEF LineType
    <2>9. PICK m \in LineType : m = line'
      BY <2>8
    <2>10. ASSUME NEW a \in Threads, Heard(a, l)  PROVE Heard(a, m)
      BY <2>1, <2>3, <2>6, <2>8, <2>9, <2>10, HeardStays
    <2>11. desk.active \in Threads \cup {None}
      BY <1>0 DEF DeskTypeOK
    <2>12. Followed'
      BY <1>0, <1>1, <2>8, <2>9, <2>10, <2>11 DEF Followed
    <2> QED  BY <1>0, <2>8, <2>12, SwitchKeeps DEF DeskTypeOK
  <1>3. ASSUME NEW t \in Threads, Admit(t)  PROVE DeskOK'
    <2>1. l.joins \in [Threads -> Nat] /\ l.rooms \in SUBSET Threads /\ l.joins[t] > 0
      BY <1>1, <1>3 DEF Admit, LineType
    <2>2. PICK joins \in [Threads -> Nat] : joins = [l.joins EXCEPT ![t] = @ - 1]
      <3>1. l.joins[t] \in Nat
        BY <2>1
      <3>2. PICK n \in Nat : n = l.joins[t] - 1
        BY <2>1, <3>1
      <3>3. [l.joins EXCEPT ![t] = n] \in [Threads -> Nat]
        BY <2>1
      <3> QED  BY <3>2, <3>3
    <2>3. line' = [l EXCEPT !.joins = joins, !.rooms = l.rooms \cup {t}]
      BY <1>1, <1>3, <2>2 DEF Admit, LineType
    <2>4. /\ line' \in LineType /\ line'.sent = l.sent /\ line'.on = l.on
          /\ line'.joins = joins /\ line'.rooms = l.rooms \cup {t}
      BY <2>1, <2>3 DEF LineType
    <2>5. ASSUME NEW a \in Threads, Heard(a, l)  PROVE Heard(a, line')
      BY <2>1, <2>2, <2>4, <2>5 DEF Heard
    <2>6. desk.active \in Threads \cup {None}
      BY <1>0 DEF DeskTypeOK
    <2>7. Followed'
      BY <1>0, <1>1, <2>4, <2>5, <2>6 DEF Followed
    <2> QED  BY <1>0, <2>4, <2>7, SwitchKeeps DEF DeskTypeOK
  <1> QED  BY <1>2, <1>3

LEMMA DeskKeeps == DeskOK /\ [DeskNext]_deskVars => DeskOK'
  <1> SUFFICES ASSUME DeskOK, [DeskNext]_deskVars  PROVE DeskOK'
    OBVIOUS
  <1>1. CASE UNCHANGED deskVars
    <2>1. UNCHANGED <<texts, stored, desk, line, job, faults>>
      BY <1>1 DEF deskVars
    <2>2. job' \in [Jobs -> DeskJob \cup {Idle}] /\ line' \in LineType /\ Followed'
      BY <2>1, FollowedStays DEF DeskOK, DeskTypeOK, LineType
    <2> QED  BY <2>1, <2>2, SwitchKeeps DEF DeskOK, DeskTypeOK
  <1> QED
    BY <1>1, CallsKeep, StoreKeeps, WriteKeeps, ShowMessagesKeeps, AddIncomingKeeps, TellKeeps,
       ActivateKeeps, OpenPageKeeps, LineKeeps, GatewayKeeps DEF DeskNext

LEMMA DeskBegins == BackendInit /\ DeskInit => DeskOK
  <1> SUFFICES ASSUME BackendInit, DeskInit  PROVE DeskOK
    OBVIOUS
  <1>1. texts = <<>> /\ stored = <<>> /\ line = Hung /\ faults = 0 /\ job = [j \in Jobs |-> Idle]
        /\ desk = [open |-> FALSE, active |-> None, lists |-> [t \in Threads |-> <<>>]]
    BY DEF BackendInit, DeskInit
  <1>2. <<>> \in Seq(Threads) /\ <<>> \in Seq(DOMAIN texts) /\ \A t \in Threads : <<>> \in Seq(Mine(t))
    OBVIOUS
  <1>3. [t \in Threads |-> <<>>] \in [Threads -> Seq(DOMAIN texts)]
    BY <1>2
  <1>4. line \in LineType /\ ~line.on
    BY <1>1, HungIsALine
  <1>5. DeskTypeOK
    BY <1>1, <1>2, <1>3, <1>4 DEF DeskTypeOK, LineType
  <1>6. Owned
    BY <1>1, <1>2 DEF Owned
  <1>7. Followed
    BY <1>1, <1>4 DEF Followed
  <1> QED  BY <1>5, <1>6, <1>7 DEF DeskOK

(* However late histories come and whatever is clicked meanwhile, the lists *)
(* have the messages of their threads, and the gateway, once it has done    *)
(* what it was told, sends those of the thread that is shown                *)
(* (use-messages-socket.ts, the store of dashboard/provider/messages).      *)
THEOREM DeskFollows == DeskSpec => []DeskFollowsThread
  <1>1. DeskOK => OwnMessages
    <2> SUFFICES ASSUME DeskOK, NEW t \in Threads  PROVE Of(t, desk.lists[t]) = desk.lists[t]
      BY DEF OwnMessages
    <2>1. desk.lists[t] \in Seq(DOMAIN texts) /\ desk.lists[t] \in Seq(Mine(t))
      BY DEF DeskOK, DeskTypeOK, Owned
    <2> QED  BY <2>1, OfMeans
  <1>2. DeskOK => InItsRoom
    <2> SUFFICES ASSUME DeskOK, faults = 0, line.on, line.sent = <<>>, \A t \in Threads : line.joins[t] = 0
                 PROVE  desk.active \in line.rooms
      BY DEF InItsRoom
    <2>1. desk.active \in Threads /\ Heard(desk.active, line)
      BY DEF DeskOK, DeskTypeOK, Followed
    <2> QED  BY <2>1 DEF Heard, Joining
  <1>3. DeskOK => DeskFollowsThread
    BY <1>1, <1>2 DEF DeskFollowsThread
  <1> QED  BY <1>3, DeskBegins, DeskKeeps, PTL DEF DeskSpec

---------------------------------------------------------------------------
(* The pages that list something.                                           *)
Rows == Seq({"a", "b"})
Query == [filter : {"all", "a", "b"}, page : Nat]
Page == [rows : Rows, pages : Int]

ListState ==
  [page : Pages, rows : Rows, query : Query, calls : SUBSET Query, loading : BOOLEAN,
   asked : Query, answer : Page, change : Query, raced : BOOLEAN, failed : BOOLEAN]

Drawn == {"orders", "requests"}

(* The page has asked, and waits for, what it should show.                  *)
Waits(l) == IF l.page = "providers" THEN l.query \in l.calls ELSE l.calls # {}

(* It was given that, of the documents as they are.                         *)
Served(l) ==
  /\ l.answer = Answer(l.page, l.rows, l.query)
  /\ l.page \notin Drawn => l.asked = l.query

(* As long as no two calls were under way at once the only one is for the   *)
(* query the page is at, and so is that of a change of a row.               *)
Alone(l) ==
  ~l.raced /\ l.page \notin Drawn \cup {"providers"} =>
    l.calls \subseteq {l.query} /\ l.change \in {NoQuery, l.query}

ListOK(l) ==
  /\ l \in ListState
  /\ l.query.page # 0
  /\ l.page = "providers" => l.query.filter # "all"
  /\ l.page # "services" => l.change = NoQuery
  /\ Alone(l)
  /\ ~l.raced \/ l.page = "providers" => Waits(l) \/ l.failed \/ Served(l)

(* What a filter and a page leave of the documents.                         *)
LEMMA PassingMeans ==
  ASSUME NEW rows \in Rows, NEW filter \in {"all", "a", "b"}
  PROVE  /\ Passing(rows, filter) \in Rows
         /\ filter # "all" => Passing(rows, filter) \in Seq({filter})
         /\ filter # "all" /\ rows \in Seq({filter}) => Passing(rows, filter) = rows
         /\ filter = "all" => Passing(rows, filter) = rows
  <1>1. CASE filter = "all"
    BY <1>1 DEF Passing
  <1>2. CASE filter # "all"
    <2>1. Passing(rows, filter) = Sifted(rows, {filter})
      BY <1>2 DEF Passing
    <2>2. PICK AB : AB = {"a", "b"}
      OBVIOUS
    <2>3. PICK F : F = {filter}
      OBVIOUS
    <2>4. AB \cap F = F /\ F \subseteq AB
      BY <1>2, <2>2, <2>3
    <2>5. rows \in Seq(AB)
      BY <2>2 DEF Rows
    <2>6. /\ Sifted(rows, F) \in Seq(AB \cap F)
          /\ rows \in Seq(F) => Sifted(rows, F) = rows
      BY <2>5, SiftedMeans
    <2>7. Sifted(rows, F) \in Seq(F) /\ Sifted(rows, F) \in Seq(AB)
      BY <2>4, <2>6, SeqGrows
    <2> QED  BY <1>2, <2>1, <2>2, <2>3, <2>6, <2>7 DEF Rows
  <1> QED  BY <1>1, <1>2

LEMMA FoundMeans ==
  ASSUME NEW A, NEW rows \in Seq(A), NEW p \in Nat \ {0}
  PROVE  Found(rows, p).rows \in Seq(A) /\ Found(rows, p).pages \in Int
  <1> DEFINE first == (p - 1) * PageSize + 1
             last == IF Len(rows) < p * PageSize THEN Len(rows) ELSE p * PageSize
  <1>1. PageSize \in Nat /\ PageSize # 0 /\ Len(rows) \in Nat
    BY ListingsAssumption
  <1>2. (p - 1) * PageSize \in Nat /\ p * PageSize \in Nat
    BY <1>1
  <1>3. first \in Nat /\ first >= 1 /\ last \in Nat /\ last <= Len(rows)
    BY <1>1, <1>2
  <1>4. \A i \in first..last : rows[i] \in A
    BY <1>3
  <1> HIDE DEF first, last
  <1>5. SubSeq(rows, first, last) \in Seq(A)
    BY <1>3, <1>4, SubSeqProperties
  <1>6. (Len(rows) + PageSize - 1) \div PageSize \in Int
    BY <1>1
  <1>7. Found(rows, p) = [rows |-> SubSeq(rows, first, last),
                          pages |-> (Len(rows) + PageSize - 1) \div PageSize]
    BY DEF Found, first, last
  <1> QED  BY <1>5, <1>6, <1>7

(* What the server answers, and that a filter finds nothing to leave out of *)
(* an answer which the server has filtered.                                 *)
LEMMA AnswerMeans ==
  ASSUME NEW page \in Pages, NEW rows \in Rows, NEW q \in Query, q.page # 0
  PROVE  /\ Answer(page, rows, q) \in Page
         /\ page \notin Drawn \cup {"reviews"} =>
              Passing(Answer(page, rows, q).rows, q.filter) = Answer(page, rows, q).rows
  <1>1. PICK filter \in {"all", "a", "b"}, p \in Nat \ {0} : q = [filter |-> filter, page |-> p]
    BY DEF Query
  <1>2. /\ Passing(rows, filter) \in Rows /\ Passing(rows, "a") \in Rows
        /\ filter # "all" => Passing(rows, filter) \in Seq({filter})
    BY PassingMeans
  <1>3. Found(rows, p) \in Page /\ Found(Passing(rows, filter), p) \in Page
    <2>1. ASSUME NEW r \in Rows  PROVE Found(r, p) \in Page
      <3>1. Found(r, p).rows \in Rows /\ Found(r, p).pages \in Int
        BY FoundMeans DEF Rows
      <3>2. Found(r, p) = [rows |-> Found(r, p).rows, pages |-> Found(r, p).pages]
        BY DEF Found
      <3> QED  BY <3>1, <3>2 DEF Page
    <2> QED  BY <1>2, <2>1
  <1>4. ASSUME NEW s \in Rows, filter # "all" => s \in Seq({filter})
        PROVE  Passing(s, filter) = s
    BY <1>4, PassingMeans
  <1>5. Passing(Found(Passing(rows, filter), p).rows, filter) = Found(Passing(rows, filter), p).rows
    <2>1. PICK passing \in Rows : passing = Passing(rows, filter)
      BY <1>2
    <2>2. Found(passing, p).rows \in Rows
      BY <1>3, <2>1 DEF Page
    <2>3. filter # "all" => Found(passing, p).rows \in Seq({filter})
      BY <1>2, <2>1, FoundMeans
    <2> QED  BY <1>4, <2>1, <2>2, <2>3
  <1>6. Passing(Passing(rows, filter), filter) = Passing(rows, filter)
    BY <1>2, <1>4
  <1>7. [rows |-> rows, pages |-> 1] \in Page /\ [rows |-> Passing(rows, "a"), pages |-> 1] \in Page
        /\ [rows |-> Passing(rows, filter), pages |-> 1] \in Page
    BY <1>2 DEF Page
  <1>8. CASE page \in {"services", "invoices", "history"}
    <2>1. Answer(page, rows, q) = Found(Passing(rows, filter), p)
      BY <1>1, <1>8 DEF Answer, ServicesFound, InvoicesFound, HistoryFound
    <2> QED  BY <1>1, <1>3, <1>5, <2>1
  <1>9. CASE page = "reviews"
    <2>1. Answer(page, rows, q) = Found(rows, p)
      BY <1>1, <1>9 DEF Answer, ReviewsFound
    <2> QED  BY <1>3, <1>9, <2>1
  <1>10. CASE page \in Drawn
    <2>1. \/ Answer(page, rows, q) = [rows |-> rows, pages |-> 1]
          \/ Answer(page, rows, q) = [rows |-> Passing(rows, "a"), pages |-> 1]
      BY <1>10 DEF Answer, OrdersFound, RequestsFound, Drawn
    <2> QED  BY <1>7, <1>10, <2>1
  <1>11. CASE page = "providers"
    <2>1. Answer(page, rows, q) = [rows |-> Passing(rows, filter), pages |-> 1]
      BY <1>1, <1>11 DEF Answer, ProvidersFound
    <2> QED  BY <1>1, <1>6, <1>7, <2>1
  <1> QED  BY <1>8, <1>9, <1>10, <1>11 DEF Pages, Drawn

(* The answer of a drawn page is the same whatever is asked.                *)
LEMMA DrawnAnswer ==
  ASSUME NEW page \in Drawn, NEW rows, NEW q, NEW r
  PROVE  Answer(page, rows, q) = Answer(page, rows, r)
  BY DEF Drawn, Answer, OrdersFound, RequestsFound

LEMMA ShownIsDue ==
  ASSUME NEW l, ListOK(l), l.calls = {}, ~l.failed, ~l.raced \/ l.page = "providers"
  PROVE  Shown(l) = Due(l)
  <1>1. /\ l.page \in Pages /\ l.rows \in Rows /\ l.query \in Query /\ l.query.page # 0
        /\ Served(l)
    BY DEF ListOK, ListState, Waits
  <1>2. CASE l.page \in Drawn
    BY <1>1, <1>2 DEF Shown, Due, Served, Drawn, OrdersShown, RequestsShown
  <1>3. CASE l.page = "reviews"
    BY <1>1, <1>3 DEF Shown, Due, Served, Drawn, ReviewsShown
  <1>4. CASE l.page \notin Drawn \cup {"reviews"}
    <2>1. Shown(l) = l.answer.rows
      BY <1>4 DEF Shown, Drawn
    <2>2. l.answer = Answer(l.page, l.rows, l.query)
      BY <1>1 DEF Served
    <2> QED  BY <1>1, <1>4, <2>1, <2>2, AnswerMeans DEF Due
  <1> QED  BY <1>2, <1>3, <1>4

(* Another query is asked for.                                              *)
LEMMA AskedOK ==
  ASSUME NEW l, ListOK(l), NEW q \in Query, q.page # 0,
         l.page = "providers" => q.filter # "all"
  PROVE  ListOK(Asking([l EXCEPT !.query = q], q))
  <1>1. l \in ListState
    BY DEF ListOK
  <1>2. PICK raced \in BOOLEAN :
          raced = (l.raced \/ l.calls \ {q} # {} \/ (l.change # NoQuery /\ l.change # q))
    BY <1>1
  <1>3. PICK calls \in SUBSET Query : calls = l.calls \cup {q}
    BY <1>1 DEF ListState
  <1>4. PICK m : m = [l EXCEPT !.query = q, !.calls = calls, !.loading = TRUE, !.raced = raced]
    OBVIOUS
  <1>5. Asking([l EXCEPT !.query = q], q) = m
    BY <1>1, <1>2, <1>3, <1>4 DEF Asking, ListState
  <1>6. /\ m \in ListState /\ m.page = l.page /\ m.query = q /\ m.calls = calls
        /\ m.change = l.change /\ m.raced = raced
    BY <1>1, <1>4 DEF ListState
  <1>7. Alone(m)
    <2>1. ~raced => l.calls \subseteq {q} /\ l.change \in {NoQuery, q}
      BY <1>2
    <2> QED  BY <1>3, <1>6, <2>1 DEF Alone
  <1>8. Waits(m)
    BY <1>3, <1>6 DEF Waits
  <1>9. (m.page # "services" => m.change = NoQuery) /\ (m.page = "providers" => m.query.filter # "all")
    BY <1>6 DEF ListOK
  <1> QED  BY <1>5, <1>6, <1>7, <1>8, <1>9 DEF ListOK

LEMMA ChooseFilterKeeps ==
  ASSUME ListOK(list), NEW filter \in {"all", "a", "b"}, ChooseFilter(filter)
  PROVE  ListOK(list')
  <1>1. PICK l : l = list /\ l \in ListState /\ ListOK(l)
    BY DEF ListOK
  <1>2. l.query \in Query /\ l.query.page # 0 /\ l.page \in Pages
    BY <1>1 DEF ListOK, ListState
  <1>3. PICK q : q = Filtered(l.query, filter)
    OBVIOUS
  <1>4. q \in Query /\ q.page # 0 /\ q.filter = filter
    BY <1>1, <1>2, <1>3 DEF Filtered, Query
  <1>5. l.page = "providers" => q.filter # "all"
    BY <1>1, <1>4 DEF ChooseFilter, Filters
  <1>6. list' = IF l.page \in Drawn THEN [l EXCEPT !.query = q]
                ELSE Asking([l EXCEPT !.query = q], q)
    BY <1>1, <1>3 DEF ChooseFilter, Drawn
  <1>7. CASE l.page \notin Drawn
    BY <1>1, <1>4, <1>5, <1>6, <1>7, AskedOK
  <1>8. CASE l.page \in Drawn
    <2>1. PICK m : m = [l EXCEPT !.query = q]
      OBVIOUS
    <2>2. /\ m \in ListState /\ m.page = l.page /\ m.query = q /\ m.calls = l.calls
          /\ m.change = l.change /\ m.raced = l.raced /\ m.failed = l.failed
          /\ m.answer = l.answer /\ m.rows = l.rows
      BY <1>1, <1>4, <2>1 DEF ListState
    <2>3. l.page \notin {"providers", "services"}
      BY <1>8 DEF Drawn
    <2>4. Alone(m)
      BY <1>8, <2>2 DEF Alone
    <2>5. ~m.raced => Waits(m) \/ m.failed \/ Served(m)
      <3>1. Answer(l.page, l.rows, l.query) = Answer(l.page, l.rows, q)
        BY <1>8, DrawnAnswer
      <3> QED  BY <1>1, <1>8, <2>2, <2>3, <3>1 DEF ListOK, Waits, Served
    <2>6. m.change = NoQuery
      BY <1>1, <2>2, <2>3 DEF ListOK
    <2>7. ListOK(m)
      BY <1>4, <2>2, <2>3, <2>4, <2>5, <2>6 DEF ListOK
    <2> QED  BY <1>6, <1>8, <2>1, <2>7
  <1> QED  BY <1>7, <1>8

LEMMA TurnPageKeeps ==
  ASSUME ListOK(list), NEW p \in 1..(MaxRows + 1), TurnPage(p)
  PROVE  ListOK(list')
  <1>1. PICK l : l = list /\ l \in ListState /\ ListOK(l)
    BY DEF ListOK
  <1>2. p \in Nat \ {0}
    BY ListingsAssumption
  <1>3. PICK q : q = [l.query EXCEPT !.page = p]
    OBVIOUS
  <1>4. q \in Query /\ q.page # 0 /\ q.filter = l.query.filter
    BY <1>1, <1>2, <1>3 DEF ListState, Query
  <1>5. list' = Asking([l EXCEPT !.query = q], q)
    BY <1>1, <1>3 DEF TurnPage
  <1> QED  BY <1>1, <1>4, <1>5, AskedOK DEF ListOK

(* A row is changed, and the list asked for as it was when that began.      *)
LEMMA ChangeRowKeeps ==
  ASSUME ListOK(list), ChangeRow
  PROVE  ListOK(list')
  <1>1. PICK l : l = list /\ l \in ListState /\ ListOK(l) /\ l.page = "services"
    BY DEF ListOK, ChangeRow
  <1>2. list' = [l EXCEPT !.change = l.query]
    BY <1>1 DEF ChangeRow
  <1>3. PICK m : m = list'
    OBVIOUS
  <1>4. /\ m \in ListState /\ m.page = l.page /\ m.query = l.query /\ m.calls = l.calls
        /\ m.change = l.query /\ m.raced = l.raced /\ m.failed = l.failed
        /\ m.answer = l.answer /\ m.rows = l.rows /\ m.asked = l.asked
    BY <1>1, <1>2, <1>3 DEF ListState
  <1>5. Alone(m)
    BY <1>1, <1>4 DEF ListOK, Alone
  <1>6. ~m.raced => Waits(m) \/ m.failed \/ Served(m)
    BY <1>1, <1>4 DEF ListOK, Waits, Served
  <1> QED  BY <1>1, <1>3, <1>4, <1>5, <1>6 DEF ListOK

LEMMA WithoutRow ==
  ASSUME NEW rows \in Rows, NEW i \in DOMAIN rows
  PROVE  RemoveAt(rows, i) \in Rows
  <1>1. i \in 1..Len(rows) /\ Len(rows) \in Nat /\ \A k \in 1..Len(rows) : rows[k] \in {"a", "b"}
    BY DEF Rows
  <1>2. SubSeq(rows, 1, i - 1) \in Rows
    BY <1>1, SubSeqProperties DEF Rows
  <1>3. SubSeq(rows, i + 1, Len(rows)) \in Rows
    BY <1>1, SubSeqProperties DEF Rows
  <1> QED  BY <1>2, <1>3 DEF RemoveAt, Rows

LEMMA RowChangedKeeps ==
  ASSUME ListOK(list), NEW i \in 1..MaxRows, RowChanged(i)
  PROVE  ListOK(list')
  <1>1. PICK l : l = list /\ l \in ListState /\ ListOK(l) /\ l.change # NoQuery
    BY DEF ListOK, RowChanged
  <1>2. l.page = "services" /\ l.rows \in Rows /\ l.change \in Query /\ i \in DOMAIN l.rows
    BY <1>1 DEF ListOK, ListState, RowChanged
  <1>3. PICK other \in {"a", "b"} : other = IF l.rows[i] = "a" THEN "b" ELSE "a"
    OBVIOUS
  <1>4. RemoveAt(l.rows, i) \in Rows /\ [l.rows EXCEPT ![i] = other] \in Rows
    BY <1>2, WithoutRow DEF Rows
  <1>5. PICK rows \in Rows :
          list' = [Asking([l EXCEPT !.rows = rows], l.change) EXCEPT !.change = NoQuery]
    BY <1>1, <1>3, <1>4 DEF RowChanged
  <1>6. PICK raced \in BOOLEAN : raced = (l.raced \/ l.calls \ {l.change} # {})
    BY <1>1
  <1>7. PICK calls \in SUBSET Query : calls = l.calls \cup {l.change}
    BY <1>1, <1>2 DEF ListState
  <1>8. NoQuery \in Query
    BY DEF NoQuery, Query
  <1>9. PICK m : m = [l EXCEPT !.rows = rows, !.calls = calls, !.loading = TRUE, !.raced = raced,
                               !.change = NoQuery]
    OBVIOUS
  <1>10. list' = m
    BY <1>1, <1>5, <1>6, <1>7, <1>9 DEF Asking, ListState
  <1>11. /\ m \in ListState /\ m.page = l.page /\ m.query = l.query /\ m.calls = calls
         /\ m.change = NoQuery /\ m.raced = raced
    BY <1>1, <1>8, <1>9 DEF ListState
  <1>12. ~raced => l.change = l.query /\ calls = {l.query}
    BY <1>1, <1>2, <1>6, <1>7 DEF ListOK, Alone, Drawn
  <1>13. Alone(m)
    BY <1>11, <1>12 DEF Alone
  <1>14. Waits(m) /\ m.page = "services"
    BY <1>2, <1>7, <1>11 DEF Waits
  <1> QED  BY <1>1, <1>10, <1>11, <1>13, <1>14 DEF ListOK

(* An answer, of the documents as they are.                                 *)
LEMMA AnswerPageKeeps ==
  ASSUME ListOK(list), NEW q \in Query, q.page # 0, AnswerPage(q)
  PROVE  ListOK(list')
  <1>1. PICK l : l = list /\ l \in ListState /\ ListOK(l) /\ q \in l.calls
    BY DEF ListOK, AnswerPage
  <1>2. l.page \in Pages /\ l.rows \in Rows /\ l.query \in Query /\ l.query.page # 0
        /\ l.answer \in Page /\ l.asked \in Query
    BY <1>1 DEF ListOK, ListState
  <1>3. PICK calls \in SUBSET Query : calls = l.calls \ {q}
    BY <1>1 DEF ListState
  <1>4. PICK answer \in Page : answer = Answer(l.page, l.rows, q)
    BY <1>2, AnswerMeans
  <1>5. PICK m : m = list'
    OBVIOUS
  <1>6. CASE Takes(q)
    <2>1. m = [l EXCEPT !.calls = calls, !.loading = FALSE, !.failed = FALSE, !.asked = q, !.answer = answer]
      BY <1>1, <1>3, <1>4, <1>5, <1>6 DEF AnswerPage
    <2>2. /\ m \in ListState /\ m.page = l.page /\ m.rows = l.rows /\ m.query = l.query /\ m.calls = calls
          /\ m.asked = q /\ m.answer = answer /\ m.change = l.change /\ m.raced = l.raced
      BY <1>1, <2>1 DEF ListState
    <2>3. Alone(m)
      BY <1>1, <1>3, <2>2 DEF ListOK, Alone
    <2>4. CASE l.page \in Drawn
      <3>1. Answer(l.page, l.rows, l.query) = answer
        BY <1>4, <2>4, DrawnAnswer
      <3>2. Served(m)
        BY <2>2, <2>4, <3>1 DEF Served
      <3> QED  BY <1>1, <1>5, <2>2, <2>3, <3>2 DEF ListOK
    <2>5. CASE l.page \notin Drawn
      <3>1. ~l.raced \/ l.page = "providers" => q = l.query
        BY <1>1, <1>6, <2>5 DEF Takes, ListOK, Alone
      <3>2. ~m.raced \/ m.page = "providers" => Served(m)
        BY <1>4, <2>2, <3>1 DEF Served
      <3> QED  BY <1>1, <1>5, <2>2, <2>3, <3>2 DEF ListOK
    <2> QED  BY <2>4, <2>5
  <1>7. CASE ~Takes(q)
    <2>1. m = [l EXCEPT !.calls = calls, !.loading = FALSE]
      BY <1>1, <1>3, <1>5, <1>7 DEF AnswerPage
    <2>2. /\ m \in ListState /\ m.page = l.page /\ m.rows = l.rows /\ m.query = l.query /\ m.calls = calls
          /\ m.asked = l.asked /\ m.answer = l.answer /\ m.change = l.change /\ m.raced = l.raced
          /\ m.failed = l.failed
      BY <1>1, <2>1 DEF ListState
    <2>3. l.page = "providers" /\ q # l.query
      BY <1>1, <1>7 DEF Takes
    <2>4. Alone(m)
      BY <2>2, <2>3 DEF Alone
    <2>5. Waits(m) \/ m.failed \/ Served(m)
      BY <1>1, <1>3, <2>2, <2>3 DEF ListOK, Waits, Served
    <2> QED  BY <1>1, <1>5, <2>2, <2>4, <2>5 DEF ListOK
  <1> QED  BY <1>6, <1>7

LEMMA FailListKeeps ==
  ASSUME ListOK(list), NEW q \in Query, FailList(q)
  PROVE  ListOK(list')
  <1>1. PICK l : l = list /\ l \in ListState /\ ListOK(l)
    BY DEF ListOK
  <1>2. PICK calls \in SUBSET Query : calls = l.calls \ {q}
    BY <1>1 DEF ListState
  <1>3. PICK m : m = list'
    OBVIOUS
  <1>4. m = [l EXCEPT !.calls = calls, !.loading = FALSE, !.failed = TRUE]
    BY <1>1, <1>2, <1>3 DEF FailList
  <1>5. /\ m \in ListState /\ m.page = l.page /\ m.query = l.query /\ m.calls = calls
        /\ m.change = l.change /\ m.raced = l.raced /\ m.failed
    BY <1>1, <1>4 DEF ListState
  <1>6. Alone(m)
    BY <1>1, <1>2, <1>5 DEF ListOK, Alone
  <1> QED  BY <1>1, <1>3, <1>5, <1>6 DEF ListOK

LEMMA ListingsKeep == ListOK(list) /\ [ListingsNext]_listVars => ListOK(list')
  <1> SUFFICES ASSUME ListOK(list), [ListingsNext]_listVars  PROVE ListOK(list')
    OBVIOUS
  <1>1. CASE UNCHANGED listVars
    BY <1>1 DEF listVars
  <1>2. ASSUME NEW filter \in {"all", "a", "b"}, NEW p \in 1..(MaxRows + 1),
               \E q : q = [filter |-> filter, page |-> p] /\ (AnswerPage(q) \/ FailList(q))
        PROVE  ListOK(list')
    <2>1. PICK q : q = [filter |-> filter, page |-> p] /\ (AnswerPage(q) \/ FailList(q))
      BY <1>2
    <2>2. p \in Nat \ {0}
      BY ListingsAssumption
    <2>3. q \in Query /\ q.page # 0
      BY <2>1, <2>2 DEF Query
    <2> QED  BY <2>1, <2>3, AnswerPageKeeps, FailListKeeps
  <1>3. ASSUME NEW filter \in {"all", "a", "b"}, NEW p \in 1..(MaxRows + 1),
               LET q == [filter |-> filter, page |-> p] IN AnswerPage(q) \/ FailList(q)
        PROVE  ListOK(list')
    <2>1. PICK q : q = [filter |-> filter, page |-> p]
      OBVIOUS
    <2>2. AnswerPage(q) \/ FailList(q)
      BY <1>3, <2>1
    <2> QED  BY <1>2, <2>1, <2>2
  <1> QED
    BY <1>1, <1>3, ChooseFilterKeeps, TurnPageKeeps, ChangeRowKeeps, RowChangedKeeps DEF ListingsNext

LEMMA ListingsBegin == ListingsInit => ListOK(list)
  <1> SUFFICES ASSUME ListingsInit  PROVE ListOK(list)
    OBVIOUS
  <1>1. PICK page \in Pages, rows \in SeqOf({"a", "b"}, MaxRows) :
          \E filter \in IF page = "providers" THEN {"a", "b"} ELSE {"all"} :
            LET first == [filter |-> filter, page |-> 1]
            IN list = [page |-> page, rows |-> rows, query |-> first, calls |-> {first},
                       loading |-> TRUE, asked |-> NoQuery, answer |-> [rows |-> <<>>, pages |-> 1],
                       change |-> NoQuery, raced |-> FALSE, failed |-> FALSE]
    BY DEF ListingsInit
  <1>2. PICK filter \in {"all", "a", "b"} :
          /\ page = "providers" => filter # "all"
          /\ LET first == [filter |-> filter, page |-> 1]
             IN list = [page |-> page, rows |-> rows, query |-> first, calls |-> {first},
                        loading |-> TRUE, asked |-> NoQuery, answer |-> [rows |-> <<>>, pages |-> 1],
                        change |-> NoQuery, raced |-> FALSE, failed |-> FALSE]
    BY <1>1
  <1>3. PICK first : first = [filter |-> filter, page |-> 1]
    OBVIOUS
  <1>4. rows \in Rows
    BY DEF SeqOf, Rows
  <1>5. first \in Query /\ NoQuery \in Query /\ first.page # 0 /\ first.filter = filter
    BY <1>3 DEF Query, NoQuery
  <1>6. <<>> \in Rows
    BY DEF Rows
  <1>7. [rows |-> <<>>, pages |-> 1] \in Page
    BY <1>6 DEF Page
  <1>8. PICK l : l = list
    OBVIOUS
  <1>9. PICK answer \in Page : answer = [rows |-> <<>>, pages |-> 1]
    BY <1>7
  <1>10. l = [page |-> page, rows |-> rows, query |-> first, calls |-> {first},
              loading |-> TRUE, asked |-> NoQuery, answer |-> answer,
              change |-> NoQuery, raced |-> FALSE, failed |-> FALSE]
    BY <1>2, <1>3, <1>8, <1>9
  <1>11. /\ l \in ListState /\ l.page = page /\ l.query = first /\ l.calls = {first}
         /\ l.change = NoQuery
    BY <1>4, <1>5, <1>10 DEF ListState
  <1>12. Alone(l) /\ Waits(l)
    BY <1>11 DEF Alone, Waits
  <1> QED  BY <1>2, <1>5, <1>8, <1>11, <1>12 DEF ListOK

(* In whatever order answers come, a page at rest shows what its filter and *)
(* its page number say of the documents as they are, unless two of its      *)
(* calls were under way at once (the listing pages of the dashboard,        *)
(* service-card.tsx, requests/[id]/providers).                              *)
THEOREM ListsShowWhatIsAsked == ListingsSpec => []ShownIsAsked
  <1>1. ListOK(list) => ShownIsAsked
    BY ShownIsDue DEF ShownIsAsked, AtRest
  <1>2. ListOK(list) /\ [ListingsNext]_listVars => ListOK(list)'
    BY ListingsKeep
  <1> QED  BY <1>1, <1>2, ListingsBegin, PTL DEF ListingsSpec
================================================================================
