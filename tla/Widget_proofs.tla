----------------------------- MODULE Widget_proofs -----------------------------
(****************************************************************************)
(* The chat and its widget, for any numbers of users, handlers in flight,   *)
(* messages and faults, and any limit of the rate.                          *)
(****************************************************************************)
EXTENDS Widget, FiniteSetTheorems, SequenceTheorems, WellFoundedInduction, TLAPS

---------------------------------------------------------------------------
(* A set of numbers has a least element: what stands in for induction.      *)
LEMMA LeastOf ==
  ASSUME NEW S \in SUBSET Nat, S # {}
  PROVE  \E x \in S : \A y \in S : x <= y
  <1>1. PICK x \in S : \A y \in S : ~(<<y, x>> \in OpToRel(<, Nat))
    BY NatLessThanWellFounded, WFMin
  <1>2. \A y \in S : ~(y < x)
    BY <1>1, Zenon DEF OpToRel
  <1> QED  BY <1>2

(* The recursion of Recent over some times, and that it has a solution.     *)
Young(f, times) ==
  [i \in 0..Len(times) |->
     IF i = 0 THEN <<>>
     ELSE IF clock - times[i] < Window THEN Append(f[i - 1], times[i])
     ELSE f[i - 1]]

YoungTo(f, times, m) ==
  f = [i \in 0..m |->
         IF i = 0 THEN <<>>
         ELSE IF clock - times[i] < Window THEN Append(f[i - 1], times[i])
         ELSE f[i - 1]]

LEMMA YoungExists ==
  ASSUME NEW times \in Seq(Nat)
  PROVE  \E f : f = Young(f, times)
  <1> DEFINE n == Len(times)
             Bad == {m \in 0..n : ~\E f : YoungTo(f, times, m)}
  <1>0. n \in Nat
    OBVIOUS
  <1> HIDE DEF n
  <1>1. \E f : YoungTo(f, times, 0)
    <2>1. PICK f : f = [i \in 0..0 |-> <<>>]
      OBVIOUS
    <2>2. YoungTo(f, times, 0)
      BY <2>1 DEF YoungTo
    <2> QED  BY <2>2
  <1>2. ASSUME NEW m \in 1..n, NEW f, YoungTo(f, times, m - 1)
        PROVE  \E g : YoungTo(g, times, m)
    <2>1. PICK last : last = IF clock - times[m] < Window THEN Append(f[m - 1], times[m]) ELSE f[m - 1]
      OBVIOUS
    <2>2. PICK g : g = [i \in 0..m |-> IF i = m THEN last ELSE f[i]]
      OBVIOUS
    <2>3. m \in Nat /\ m # 0 /\ m - 1 \in 0..m
      BY <1>0
    <2>4. \A i \in 0..(m - 1) : g[i] = f[i] /\ i # m
      BY <1>0, <2>2
    <2>5. \A i \in 0..m :
            g[i] = IF i = 0 THEN <<>>
                   ELSE IF clock - times[i] < Window THEN Append(g[i - 1], times[i])
                   ELSE g[i - 1]
      <3> SUFFICES ASSUME NEW i \in 0..m
                   PROVE  g[i] = IF i = 0 THEN <<>>
                                 ELSE IF clock - times[i] < Window THEN Append(g[i - 1], times[i])
                                 ELSE g[i - 1]
        OBVIOUS
      <3>1. CASE i = m
        <4>1. g[m] = last /\ g[m - 1] = f[m - 1]
          BY <1>0, <2>2, <2>3, <2>4
        <4> QED  BY <2>1, <2>3, <3>1, <4>1
      <3>2. CASE i # m
        <4>1. i \in 0..(m - 1) /\ g[i] = f[i]
          BY <1>0, <2>4, <3>2
        <4>2. f[i] = IF i = 0 THEN <<>>
                     ELSE IF clock - times[i] < Window THEN Append(f[i - 1], times[i])
                     ELSE f[i - 1]
          BY <1>2, <4>1 DEF YoungTo
        <4>3. i # 0 => i - 1 \in 0..(m - 1)
          BY <1>0, <4>1
        <4>4. i # 0 => g[i - 1] = f[i - 1]
          BY <2>4, <4>3
        <4> QED  BY <4>1, <4>2, <4>4
      <3> QED  BY <3>1, <3>2
    <2>6. YoungTo(g, times, m)
      BY <2>2, <2>5 DEF YoungTo
    <2> QED  BY <2>6
  <1>3. Bad = {}
    <2> SUFFICES ASSUME Bad # {}  PROVE FALSE
      OBVIOUS
    <2>0. Bad \in SUBSET Nat
      BY <1>0
    <2> HIDE DEF Bad
    <2>1. PICK m \in Bad : \A k \in Bad : m <= k
      BY <2>0, LeastOf
    <2>2. m \in 1..n /\ m - 1 \in 0..n /\ m - 1 \notin Bad
      BY <1>0, <1>1, <2>1 DEF Bad
    <2>3. PICK f : YoungTo(f, times, m - 1)
      BY <2>2 DEF Bad
    <2>4. \E g : YoungTo(g, times, m)
      BY <1>2, <2>2, <2>3
    <2> QED  BY <2>1, <2>4 DEF Bad
  <1>4. PICK f : YoungTo(f, times, n)
    <2>1. n \in 0..n
      BY <1>0
    <2> QED  BY <1>3, <2>1
  <1>5. f = Young(f, times)
    BY <1>4 DEF YoungTo, Young, n
  <1> QED  BY <1>5

(* How many of some times are not before s.                                 *)
Since(times, s) == {i \in DOMAIN times : times[i] >= s}

LEMMA SinceFinite ==
  ASSUME NEW times \in Seq(Nat), NEW s \in Nat
  PROVE  IsFiniteSet(Since(times, s)) /\ Cardinality(Since(times, s)) <= Len(times)
         /\ Cardinality(Since(times, s)) \in Nat
  <1>1. DOMAIN times = 1..Len(times) /\ Len(times) \in Nat
    OBVIOUS
  <1>2. IsFiniteSet(1..Len(times)) /\ Cardinality(1..Len(times)) = Len(times)
    BY <1>1, FS_Interval
  <1>3. Since(times, s) \subseteq 1..Len(times)
    BY <1>1 DEF Since
  <1> QED  BY <1>2, <1>3, FS_Subset, FS_CardinalityType

(* One time more.                                                           *)
LEMMA SinceAppend ==
  ASSUME NEW times \in Seq(Nat), NEW at \in Nat, NEW s \in Nat
  PROVE  Cardinality(Since(Append(times, at), s)) =
           Cardinality(Since(times, s)) + (IF at >= s THEN 1 ELSE 0)
  <1> DEFINE n == Len(times)
             longer == Append(times, at)
  <1>1. /\ n \in Nat /\ DOMAIN times = 1..n
        /\ longer \in Seq(Nat) /\ DOMAIN longer = 1..(n + 1) /\ longer[n + 1] = at
        /\ \A i \in 1..n : longer[i] = times[i]
    OBVIOUS
  <1> HIDE DEF longer, n
  <1>2. IsFiniteSet(Since(times, s)) /\ Cardinality(Since(times, s)) \in Nat
    BY SinceFinite
  <1>0. n + 1 \notin Since(times, s)
    BY <1>1 DEF Since
  <1>3. CASE at >= s
    <2>1. Since(longer, s) = Since(times, s) \cup {n + 1}
      BY <1>1, <1>3 DEF Since
    <2> QED  BY <1>0, <1>2, <1>3, <2>1, FS_AddElement DEF longer
  <1>4. CASE ~(at >= s)
    <2>1. Since(longer, s) = Since(times, s)
      BY <1>1, <1>4 DEF Since
    <2> QED  BY <1>2, <1>4, <2>1 DEF longer
  <1> QED  BY <1>3, <1>4

(* Recent keeps every time within the Window, in a sequence.                *)
LEMMA RecentKeeps ==
  ASSUME NEW u, rate[u] \in Seq(Nat), clock \in Nat
  PROVE  /\ Recent(u) \in Seq(Nat)
         /\ \A s \in Nat : s + Window > clock =>
              Cardinality(Since(Recent(u), s)) = Cardinality(Since(rate[u], s))
  <1>1. PICK times : times = rate[u]
    OBVIOUS
  <1> DEFINE n == Len(times)
             f == CHOOSE f : f = Young(f, times)
             Keeps(m) ==
               /\ f[m] \in Seq(Nat)
               /\ \A s \in Nat : s + Window > clock =>
                    Cardinality(Since(f[m], s)) = Cardinality({i \in 1..m : times[i] >= s})
             Bad == {m \in 0..n : ~Keeps(m)}
  <1>2. times \in Seq(Nat) /\ n \in Nat /\ DOMAIN times = 1..n /\ \A i \in 1..n : times[i] \in Nat
    BY <1>1
  <1>3. f = Young(f, times)
    BY <1>2, YoungExists
  <1>4. Recent(u) = f[n]
    BY <1>1 DEF Recent, Young
  <1> HIDE DEF f
  <1>5. \A i \in 0..n : f[i] = IF i = 0 THEN <<>>
                               ELSE IF clock - times[i] < Window THEN Append(f[i - 1], times[i])
                               ELSE f[i - 1]
    BY <1>3 DEF Young
  <1> HIDE DEF n
  <1>6. Keeps(0)
    <2>1. f[0] = <<>>
      BY <1>2, <1>5
    <2>2. f[0] \in Seq(Nat)
      BY <2>1
    <2>3. ASSUME NEW s \in Nat
          PROVE  Since(f[0], s) = {i \in 1..0 : times[i] >= s}
      <3>1. Since(f[0], s) = {}
        BY <2>1 DEF Since
      <3>2. {i \in 1..0 : times[i] >= s} = {}
        OBVIOUS
      <3> QED  BY <3>1, <3>2
    <2> QED  BY <2>2, <2>3
  <1>7. ASSUME NEW m \in 1..n, Keeps(m - 1)  PROVE Keeps(m)
    <2>1. m \in 0..n /\ m # 0 /\ m \in Nat /\ m - 1 \in Nat /\ times[m] \in Nat
      BY <1>2
    <2>2. f[m] = IF clock - times[m] < Window THEN Append(f[m - 1], times[m]) ELSE f[m - 1]
      BY <1>5, <2>1
    <2>3. f[m - 1] \in Seq(Nat)
      BY <1>7
    <2>4. f[m] \in Seq(Nat)
      BY <2>1, <2>2, <2>3
    <2>5. ASSUME NEW s \in Nat, s + Window > clock
          PROVE  Cardinality(Since(f[m], s)) = Cardinality({i \in 1..m : times[i] >= s})
      <3> DEFINE before == {i \in 1..(m - 1) : times[i] >= s}
                 upto == {i \in 1..m : times[i] >= s}
      <3>1. Cardinality(Since(f[m - 1], s)) = Cardinality(before)
        BY <1>7, <2>5
      <3>2. IsFiniteSet(before) /\ m \notin before
        <4>1. IsFiniteSet(1..(m - 1))
          BY <2>1, FS_Interval
        <4>2. before \subseteq 1..(m - 1)
          OBVIOUS
        <4>3. m \notin before
          BY <2>1
        <4> QED  BY <4>1, <4>2, <4>3, FS_Subset
      <3>3. CASE times[m] >= s
        <4>1. clock - times[m] < Window
          BY <2>1, <2>5, <3>3, MessagingAssumption
        <4>2. f[m] = Append(f[m - 1], times[m])
          BY <2>2, <4>1
        <4>3. Cardinality(Since(f[m], s)) = Cardinality(Since(f[m - 1], s)) + 1
          BY <2>1, <2>3, <3>3, <4>2, SinceAppend
        <4>4. upto = before \cup {m}
          BY <2>1, <3>3
        <4> HIDE DEF before, upto
        <4>5. Cardinality(upto) = Cardinality(before) + 1
          BY <3>2, <4>4, FS_AddElement
        <4> QED  BY <3>1, <4>3, <4>5 DEF upto
      <3>4. CASE ~(times[m] >= s)
        <4>1. Cardinality(Since(f[m], s)) = Cardinality(Since(f[m - 1], s))
          <5>1. CASE f[m] = f[m - 1]
            BY <5>1
          <5>2. CASE f[m] = Append(f[m - 1], times[m])
            <6>1. Cardinality(Since(f[m - 1], s)) \in Nat
              BY <2>3, SinceFinite
            <6> QED  BY <2>1, <2>3, <3>4, <5>2, <6>1, SinceAppend
          <5> QED  BY <2>2, <5>1, <5>2
        <4>2. upto = before
          BY <2>1, <3>4
        <4> QED  BY <3>1, <4>1, <4>2
      <3> QED  BY <3>3, <3>4
    <2> QED  BY <2>4, <2>5
  <1> HIDE DEF Keeps
  <1>8. Bad = {}
    <2> SUFFICES ASSUME Bad # {}  PROVE FALSE
      OBVIOUS
    <2>0. Bad \in SUBSET Nat
      BY <1>2
    <2> HIDE DEF Bad
    <2>1. PICK m \in Bad : \A k \in Bad : m <= k
      BY <2>0, LeastOf
    <2>2. m \in 1..n /\ m - 1 \in 0..n /\ m - 1 \notin Bad
      BY <1>2, <1>6, <2>1 DEF Bad
    <2> QED  BY <1>7, <2>1, <2>2 DEF Bad
  <1>9. Keeps(n)
    <2>1. n \in 0..n
      BY <1>2
    <2> QED  BY <1>8, <2>1
  <1>10. \A s : {i \in 1..n : times[i] >= s} = Since(times, s)
    BY <1>2 DEF Since
  <1> QED  BY <1>1, <1>4, <1>9, <1>10 DEF Keeps

---------------------------------------------------------------------------
(* What the server, the gateway and the browser keep has the shape the code *)
(* gives it.                                                                *)
Unreads == UNION {[S -> Nat] : S \in SUBSET Peers}

ChatJob ==
       [op : {"send.check"}, who : Peers, unread : Unreads]
  \cup [op : {"send.insert"}, who : Peers, unread : Unreads, at : Nat]
  \cup [op : {"send.save"}, who : Peers, unread : Unreads, id : Nat]
  \cup [op : {"send.notify"}, who : Peers, id : Nat]
  \cup [op : {"read.save"}, who : Peers, unread : Unreads]
  \cup [op : {"archive.save"}]

ChatTypeOK ==
  /\ thread \in [status : {"open", "archived"}, unread : Unreads]
  /\ order \in OrderType
  /\ messages \in Seq(MessageType)
  /\ rate \in [Peers -> Seq(Nat)]
  /\ job \in [Jobs -> ChatJob \cup {Idle}]
  /\ clock \in Nat /\ faults \in Nat

(* Before it has loaded its threads a widget asks for nothing and is sent   *)
(* nothing.                                                                 *)
Asleep(u) ==
  ~Loaded(u) => /\ widget[u] = NoWidget
                /\ socket[u] \in {Closed, [Closed EXCEPT !.on = TRUE]}

PageTypeOK == page \in [Watchers -> PageType]

WidgetTypeOK ==
  /\ ChatTypeOK
  /\ socket \in [Watchers -> SocketType]
  /\ widget \in [Watchers -> WidgetType]
  /\ \A u \in Watchers : Asleep(u)

---------------------------------------------------------------------------
(* What was admitted for u since s: stored already, or about to be.         *)
Sent(u, s) == {k \in DOMAIN messages : messages[k].sender = u /\ messages[k].admitted >= s}
Pending(u, s) == {j \in Jobs : job[j].op = "send.insert" /\ job[j].who = u /\ job[j].at >= s}

(* The same within the Window that ends at t.                               *)
SentWithin(u, t) ==
  {k \in DOMAIN messages : messages[k].sender = u
                           /\ t - messages[k].admitted \in 0..(Window - 1)}
PendingWithin(u, t) ==
  {j \in Jobs : job[j].op = "send.insert" /\ job[j].who = u
                /\ t - job[j].at \in 0..(Window - 1)}

(* The limit's memory has an entry for all that was admitted within the     *)
(* Window, and no Window has had more than Limit.                           *)
Remembered ==
  \A u \in Peers, s \in Nat : s + Window > clock =>
    Cardinality(Sent(u, s)) + Cardinality(Pending(u, s)) <= Cardinality(Since(rate[u], s))

WithinLimit ==
  \A u \in Peers, t \in Nat :
    Cardinality(SentWithin(u, t)) + Cardinality(PendingWithin(u, t)) <= Limit

Metered == faults = 0 => Remembered /\ WithinLimit

(* The lists of a widget hold every message once.                           *)
Once(list) == list \in Seq(Nat) /\ IsInjective(list)

Lists ==
  \A u \in Watchers : Once(widget[u].history) /\ (widget[u].list # None => Once(widget[u].list))

---------------------------------------------------------------------------
(* A job by what it does.                                                   *)
LEMMA JobShapes ==
  ASSUME ChatTypeOK, NEW j \in Jobs
  PROVE  /\ job[j].op = "send.check" => job[j] \in [op : {"send.check"}, who : Peers, unread : Unreads]
         /\ job[j].op = "send.insert" =>
              job[j] \in [op : {"send.insert"}, who : Peers, unread : Unreads, at : Nat]
         /\ job[j].op = "send.save" =>
              job[j] \in [op : {"send.save"}, who : Peers, unread : Unreads, id : Nat]
         /\ job[j].op = "send.notify" => job[j] \in [op : {"send.notify"}, who : Peers, id : Nat]
         /\ job[j].op = "read.save" => job[j] \in [op : {"read.save"}, who : Peers, unread : Unreads]
  BY DEF ChatTypeOK, ChatJob, Idle

LEMMA BecomesChatJob ==
  ASSUME ChatTypeOK, NEW j \in Jobs, NEW next \in ChatJob \cup {Idle}, Become(j, next)
  PROVE  job' \in [Jobs -> ChatJob \cup {Idle}]
  BY DEF ChatTypeOK, Become

LEMMA IdleChatJob == Idle \in ChatJob \cup {Idle}
  OBVIOUS

(* What a save sends of the unread counts is a map of users to counts.      *)
LEMMA CountedType ==
  ASSUME ChatTypeOK, NEW loaded, NEW u \in Peers, NEW n \in Nat
  PROVE  Counted(loaded, u, n) \in Unreads
  <1>1. [v \in {u} |-> n] \in [{u} -> Nat]
    OBVIOUS
  <1>2. [v \in {u} |-> n] \in Unreads
    BY <1>1 DEF Unreads
  <1> QED  BY <1>2 DEF Counted, ChatTypeOK

LEMMA OtherPeer ==
  ASSUME NEW u \in Peers
  PROVE  Other(u) \in Peers
  <1>1. \E v \in Peers : v # u
    <2> SUFFICES ASSUME \A v \in Peers : v = u  PROVE FALSE
      OBVIOUS
    <2>1. Peers = {u}
      OBVIOUS
    <2>2. Cardinality({u}) = 1
      BY FS_Singleton
    <2> QED  BY <2>1, <2>2, MessagingAssumption
  <1> QED  BY <1>1 DEF Other

(* An event reaches the sockets in the room.                                *)
LEMMA EmitType ==
  ASSUME socket \in [Watchers -> SocketType], NEW event \in Nat, Emit(event),
         \A u \in Watchers : Asleep(u), UNCHANGED widget
  PROVE  socket' \in [Watchers -> SocketType] /\ \A u \in Watchers : Asleep(u)'
  <1>1. ASSUME NEW u \in Watchers
        PROVE  /\ socket'[u] \in SocketType
               /\ ~socket[u].room => socket'[u] = socket[u]
    <2>1. socket[u] \in SocketType
      OBVIOUS
    <2>2. PICK wire : wire = Append(socket[u].wire, event)
      OBVIOUS
    <2>3. wire \in Seq(Nat)
      BY <2>1, <2>2 DEF SocketType
    <2>4. [socket[u] EXCEPT !.wire = wire] \in SocketType
      BY <2>1, <2>3 DEF SocketType
    <2> QED  BY <2>1, <2>2, <2>4 DEF Emit
  <1>2. socket' = [u \in Watchers |-> socket'[u]]
    BY DEF Emit
  <1>3. ASSUME NEW u \in Watchers, ~Loaded(u)  PROVE Asleep(u)'
    <2>1. ~socket[u].room
      BY <1>3 DEF Asleep, Closed
    <2> QED  BY <1>1, <1>3, <2>1 DEF Asleep, Loaded
  <1> QED  BY <1>1, <1>2, <1>3 DEF Asleep, Loaded

(* Where socket and widget stay as they are.                                *)
LEMMA QuietStep ==
  ASSUME WidgetTypeOK, ChatTypeOK', UNCHANGED <<socket, widget>>
  PROVE  WidgetTypeOK'
  BY DEF WidgetTypeOK, Asleep, Loaded

---------------------------------------------------------------------------
(* The server's steps, as far as the types of the chat go.                  *)
LEMMA SendType ==
  ASSUME ChatTypeOK, NEW j \in Jobs, NEW u \in Peers, SendLoad(j, u)
  PROVE  ChatTypeOK'
  <1>1. PICK next : next = [op |-> "send.check", who |-> u, unread |-> thread.unread]
    OBVIOUS
  <1>2. next \in ChatJob \cup {Idle}
    BY <1>1 DEF ChatTypeOK, ChatJob
  <1>3. job' \in [Jobs -> ChatJob \cup {Idle}]
    BY <1>1, <1>2, BecomesChatJob DEF SendLoad
  <1> QED  BY <1>3 DEF ChatTypeOK, SendLoad, chatVars

LEMMA CheckType ==
  ASSUME ChatTypeOK, NEW j \in Jobs, NEW ok \in BOOLEAN, SendCheck(j, ok)
  PROVE  ChatTypeOK'
  <1>1. PICK u \in Peers : u = job[j].who /\ job[j].unread \in Unreads
    BY JobShapes DEF SendCheck
  <1>2. rate[u] \in Seq(Nat) /\ clock \in Nat
    BY DEF ChatTypeOK
  <1>3. PICK next : /\ next = [op |-> "send.insert", who |-> u, unread |-> job[j].unread, at |-> clock]
    OBVIOUS
  <1>4. next \in ChatJob \cup {Idle}
    BY <1>1, <1>2, <1>3 DEF ChatJob
  <1>5. rate' \in [Peers -> Seq(Nat)]
    <2>1. Append(Recent(u), clock) \in Seq(Nat)
      BY <1>2, RecentKeeps
    <2> QED  BY <1>1, <2>1 DEF SendCheck, ChatTypeOK
  <1>6. job' \in [Jobs -> ChatJob \cup {Idle}]
    <2>1. Become(j, next) \/ Become(j, Idle)
      BY <1>1, <1>3 DEF SendCheck, Finish
    <2> QED  BY <1>4, <2>1, IdleChatJob, BecomesChatJob
  <1> QED  BY <1>5, <1>6 DEF ChatTypeOK, SendCheck

LEMMA InsertType ==
  ASSUME ChatTypeOK, NEW j \in Jobs, InsertMessage(j)
  PROVE  ChatTypeOK'
  <1>1. job[j] \in [op : {"send.insert"}, who : Peers, unread : Unreads, at : Nat]
    BY JobShapes DEF InsertMessage
  <1>2. messages \in Seq(MessageType) /\ Len(messages) + 1 \in Nat
    BY DEF ChatTypeOK
  <1>3. messages' \in Seq(MessageType)
    <2>1. PICK m : m = [sender |-> job[j].who, admitted |-> job[j].at]
      OBVIOUS
    <2>2. m \in MessageType
      BY <1>1, <2>1 DEF MessageType
    <2>3. messages' = Append(messages, m)
      BY <2>1 DEF InsertMessage
    <2> QED  BY <1>2, <2>2, <2>3
  <1>4. PICK next : next = [op |-> "send.save", who |-> job[j].who, unread |-> job[j].unread,
                            id |-> Len(messages) + 1]
    OBVIOUS
  <1>5. next \in ChatJob \cup {Idle}
    BY <1>1, <1>2, <1>4 DEF ChatJob
  <1>6. job' \in [Jobs -> ChatJob \cup {Idle}]
    BY <1>4, <1>5, BecomesChatJob DEF InsertMessage
  <1> QED  BY <1>3, <1>6 DEF ChatTypeOK, InsertMessage

LEMMA SavedType ==
  ASSUME ChatTypeOK, NEW changes \in Unreads
  PROVE  /\ SavedThread(changes) \in [status : {"open", "archived"}, unread : Unreads]
         /\ SavedThread(changes).status = thread.status
  BY DEF ChatTypeOK, SavedThread

LEMMA SaveType ==
  ASSUME ChatTypeOK, NEW j \in Jobs, SaveThread(j)
  PROVE  ChatTypeOK' /\ thread'.status = thread.status
  <1>1. job[j] \in [op : {"send.save"}, who : Peers, unread : Unreads, id : Nat]
    BY JobShapes DEF SaveThread
  <1>2. PICK changes : changes = Counted(job[j].unread, Other(job[j].who), 1)
    OBVIOUS
  <1>3. changes \in Unreads
    BY <1>1, <1>2, OtherPeer, CountedType
  <1>4. thread' = SavedThread(changes)
    BY <1>2 DEF SaveThread
  <1>5. PICK next : next = [op |-> "send.notify", who |-> job[j].who, id |-> job[j].id]
    OBVIOUS
  <1>6. next \in ChatJob \cup {Idle}
    BY <1>1, <1>5 DEF ChatJob
  <1>7. job' \in [Jobs -> ChatJob \cup {Idle}]
    BY <1>5, <1>6, BecomesChatJob DEF SaveThread
  <1> QED  BY <1>3, <1>4, <1>7, SavedType DEF ChatTypeOK, SaveThread

LEMMA MarkLoadType ==
  ASSUME ChatTypeOK, NEW j \in Jobs, NEW u \in Peers, MarkReadLoad(j, u)
  PROVE  ChatTypeOK'
  <1>1. PICK next : next = [op |-> "read.save", who |-> u, unread |-> thread.unread]
    OBVIOUS
  <1>2. next \in ChatJob \cup {Idle}
    BY <1>1 DEF ChatTypeOK, ChatJob
  <1>3. job' \in [Jobs -> ChatJob \cup {Idle}]
    BY <1>1, <1>2, BecomesChatJob DEF MarkReadLoad
  <1> QED  BY <1>3 DEF ChatTypeOK, MarkReadLoad, chatVars

LEMMA MarkSaveType ==
  ASSUME ChatTypeOK, NEW j \in Jobs, MarkReadSave(j)
  PROVE  ChatTypeOK' /\ thread'.status = thread.status
  <1>1. job[j] \in [op : {"read.save"}, who : Peers, unread : Unreads]
    BY JobShapes DEF MarkReadSave
  <1>2. PICK changes : changes = Counted(job[j].unread, job[j].who, 0)
    OBVIOUS
  <1>3. changes \in Unreads
    BY <1>1, <1>2, CountedType
  <1>4. thread' = SavedThread(changes)
    BY <1>2 DEF MarkReadSave
  <1>5. job' \in [Jobs -> ChatJob \cup {Idle}]
    BY IdleChatJob, BecomesChatJob DEF MarkReadSave, Finish
  <1> QED  BY <1>3, <1>4, <1>5, SavedType DEF ChatTypeOK, MarkReadSave

LEMMA ArchiveType ==
  ASSUME ChatTypeOK, NEW j \in Jobs,
         ArchiveLoad(j) \/ ArchiveSave(j) \/ \E status \in {"completed", "canceled"} : OrderEnds(j, status)
  PROVE  ChatTypeOK' /\ (thread'.status = thread.status \/ thread'.status = "archived")
  <1>1. [op |-> "archive.save"] \in ChatJob \cup {Idle}
    BY DEF ChatJob
  <1>2. job' \in [Jobs -> ChatJob \cup {Idle}]
    <2>1. PICK next \in ChatJob \cup {Idle} : Become(j, next)
      BY <1>1, IdleChatJob DEF ArchiveLoad, ArchiveSave, OrderEnds, Finish
    <2> QED  BY <2>1, BecomesChatJob
  <1>3. CASE ArchiveLoad(j)
    BY <1>2, <1>3 DEF ChatTypeOK, ArchiveLoad, chatVars
  <1>4. CASE ArchiveSave(j)
    BY <1>2, <1>4 DEF ChatTypeOK, ArchiveSave
  <1>5. ASSUME NEW status \in {"completed", "canceled"}, OrderEnds(j, status)
        PROVE  ChatTypeOK' /\ thread'.status = thread.status
    <2>1. order' \in OrderType
      BY <1>5 DEF OrderEnds, OrderType, ChatTypeOK
    <2> QED  BY <1>2, <1>5, <2>1 DEF ChatTypeOK, OrderEnds
  <1> QED  BY <1>3, <1>4, <1>5

LEMMA EmitSentType ==
  ASSUME ChatTypeOK, NEW j \in Jobs, EmitSent(j)
  PROVE  ChatTypeOK' /\ job[j].id \in Nat
  <1>1. job' \in [Jobs -> ChatJob \cup {Idle}]
    BY IdleChatJob, BecomesChatJob DEF EmitSent, Finish
  <1>2. job[j].id \in Nat
    BY JobShapes DEF EmitSent
  <1> QED  BY <1>1, <1>2 DEF ChatTypeOK, EmitSent, chatVars

LEMMA SilentType ==
  ASSUME ChatTypeOK,
         \/ OrderCompletesSilently
         \/ Tick /\ UNCHANGED chatVars
         \/ Crash /\ rate' = [u \in Peers |-> <<>>] /\ UNCHANGED <<thread, order, messages>>
         \/ \E j \in Jobs : Abort(j) /\ UNCHANGED chatVars
         \/ UNCHANGED <<chatVars, job, clock, faults>>
         \/ UNCHANGED <<chatVars, job, clock>> /\ Faulty
  PROVE  ChatTypeOK' /\ thread' = thread
  <1>1. CASE OrderCompletesSilently
    <2>1. order' \in OrderType
      BY <1>1 DEF OrderCompletesSilently, OrderType, ChatTypeOK
    <2> QED  BY <1>1, <2>1 DEF OrderCompletesSilently, ChatTypeOK
  <1>2. CASE Tick /\ UNCHANGED chatVars
    BY <1>2 DEF ChatTypeOK, Tick, chatVars
  <1>3. CASE Crash /\ rate' = [u \in Peers |-> <<>>] /\ UNCHANGED <<thread, order, messages>>
    <2>1. rate' \in [Peers -> Seq(Nat)]
      BY <1>3
    <2>2. job' \in [Jobs -> ChatJob \cup {Idle}]
      BY <1>3, IdleChatJob DEF Crash
    <2>3. faults' \in Nat /\ clock' = clock
      BY <1>3 DEF Crash, Faulty, ChatTypeOK
    <2> QED  BY <1>3, <2>1, <2>2, <2>3 DEF ChatTypeOK
  <1>4. ASSUME NEW j \in Jobs, Abort(j) /\ UNCHANGED chatVars
        PROVE  ChatTypeOK' /\ thread' = thread
    <2>1. job' \in [Jobs -> ChatJob \cup {Idle}]
      BY <1>4, IdleChatJob, BecomesChatJob DEF Abort, Finish
    <2>2. faults' \in Nat /\ clock' = clock
      BY <1>4 DEF Abort, Faulty, ChatTypeOK
    <2> QED  BY <1>4, <2>1, <2>2 DEF ChatTypeOK, chatVars
  <1>5. CASE UNCHANGED <<chatVars, job, clock, faults>>
    BY <1>5 DEF ChatTypeOK, chatVars
  <1>6. CASE UNCHANGED <<chatVars, job, clock>> /\ Faulty
    BY <1>6 DEF ChatTypeOK, chatVars, Faulty
  <1> QED  BY <1>1, <1>2, <1>3, <1>4, <1>5, <1>6

---------------------------------------------------------------------------
(* The gateway.                                                             *)
LEMMA SocketFields ==
  ASSUME NEW s \in SocketType, NEW asked \in Seq({"join", "leave"}), NEW joining \in Nat,
         NEW room \in BOOLEAN, NEW wire \in Seq(Nat)
  PROVE  /\ [s EXCEPT !.asked = asked] \in SocketType
         /\ [s EXCEPT !.wire = wire] \in SocketType
         /\ [s EXCEPT !.asked = asked, !.room = room] \in SocketType
         /\ [s EXCEPT !.asked = asked, !.joining = joining] \in SocketType
         /\ [s EXCEPT !.joining = joining, !.room = room] \in SocketType
         /\ [s EXCEPT !.wire = wire, !.asked = asked] \in SocketType
  BY DEF SocketType

LEMMA GatewayType ==
  ASSUME WidgetTypeOK, NEW u \in Watchers, Command(u) \/ Join(u) \/ LoseJoin(u),
         UNCHANGED widget
  PROVE  WidgetTypeOK'
  <1>1. socket[u] \in SocketType /\ Asleep(u)
    BY DEF WidgetTypeOK
  <1>2. PICK next \in SocketType : socket' = [socket EXCEPT ![u] = next]
    <2>1. CASE Command(u)
      <3>1. socket[u].asked \in Seq({"join", "leave"}) /\ socket[u].asked # <<>>
        BY <1>1, <2>1 DEF Command, SocketType
      <3>2. PICK rest : rest = Tail(socket[u].asked)
        OBVIOUS
      <3>3. rest \in Seq({"join", "leave"})
        BY <3>1, <3>2
      <3>4. socket[u].joining \in Nat /\ socket[u].joining + 1 \in Nat
        BY <1>1 DEF SocketType
      <3>5. /\ [socket[u] EXCEPT !.asked = rest, !.room = FALSE] \in SocketType
            /\ [socket[u] EXCEPT !.asked = rest, !.joining = @ + 1] \in SocketType
        BY <1>1, <3>3, <3>4 DEF SocketType
      <3> QED  BY <2>1, <3>2, <3>5 DEF Command, Obeyed
    <2>2. CASE Join(u)
      <3>1. socket[u].joining - 1 \in Nat
        BY <1>1, <2>2 DEF SocketType, Join
      <3>2. PICK s : s = [socket[u] EXCEPT !.joining = @ - 1, !.room = TRUE, !.missed = FALSE]
        OBVIOUS
      <3>3. s \in SocketType
        BY <1>1, <3>1, <3>2 DEF SocketType
      <3>4. socket' = [socket EXCEPT ![u] = s]
        BY <1>1, <2>2, <3>2 DEF Join, WidgetTypeOK, SocketType
      <3> QED  BY <3>3, <3>4
    <2>3. CASE LoseJoin(u)
      <3>1. socket[u].joining - 1 \in Nat
        BY <1>1, <2>3 DEF SocketType, LoseJoin
      <3>2. PICK s : s = [socket[u] EXCEPT !.joining = @ - 1, !.missed = TRUE]
        OBVIOUS
      <3>3. s \in SocketType
        BY <1>1, <3>1, <3>2 DEF SocketType
      <3>4. socket' = [socket EXCEPT ![u] = s]
        BY <1>1, <2>3, <3>2 DEF LoseJoin, WidgetTypeOK, SocketType
      <3> QED  BY <3>3, <3>4
    <2> QED  BY <2>1, <2>2, <2>3
  <1>3. Loaded(u)
    BY <1>1 DEF Asleep, Closed, Command, Join, LoseJoin
  <1>4. socket' \in [Watchers -> SocketType] /\ \A v \in Watchers : v # u => socket'[v] = socket[v]
    BY <1>2 DEF WidgetTypeOK
  <1>5. ChatTypeOK'
    BY SilentType DEF WidgetTypeOK, Command, Join, LoseJoin, Faulty
  <1>6. \A v \in Watchers : Asleep(v)'
    BY <1>3, <1>4 DEF WidgetTypeOK, Asleep, Loaded
  <1> QED  BY <1>4, <1>5, <1>6 DEF WidgetTypeOK

(* A step of the server.                                                    *)
LEMMA ServerType ==
  ASSUME WidgetTypeOK, ServerNext \/ Restart, UNCHANGED widget
  PROVE  WidgetTypeOK'
  <1>0. ChatTypeOK
    BY DEF WidgetTypeOK
  <1>1. ASSUME NEW j \in Jobs, NEW u \in Peers, SendLoad(j, u) \/ MarkReadLoad(j, u)
        PROVE  WidgetTypeOK'
    BY <1>0, <1>1, SendType, MarkLoadType, QuietStep DEF SendLoad, MarkReadLoad
  <1>2. ASSUME NEW j \in Jobs, SendCheck(j, TRUE) \/ SendCheck(j, FALSE)
        PROVE  WidgetTypeOK'
    BY <1>0, <1>2, CheckType, QuietStep DEF SendCheck
  <1>3. ASSUME NEW j \in Jobs, InsertMessage(j)  PROVE WidgetTypeOK'
    BY <1>0, <1>3, InsertType, QuietStep DEF InsertMessage
  <1>4. ASSUME NEW j \in Jobs, SaveThread(j)  PROVE WidgetTypeOK'
    BY <1>0, <1>4, SaveType, QuietStep DEF SaveThread
  <1>5. ASSUME NEW j \in Jobs, EmitSent(j)  PROVE WidgetTypeOK'
    <2>1. ChatTypeOK' /\ job[j].id \in Nat
      BY <1>0, <1>5, EmitSentType
    <2>2. PICK event \in Nat : event = job[j].id
      BY <2>1
    <2>3. Emit(event)
      BY <1>5, <2>2 DEF EmitSent, Emit
    <2> QED  BY <2>1, <2>3, EmitType DEF WidgetTypeOK
  <1>6. ASSUME NEW j \in Jobs, MarkReadSave(j)  PROVE WidgetTypeOK'
    <2>1. ChatTypeOK'
      BY <1>0, <1>6, MarkSaveType
    <2>2. Emit(ReadEvent) /\ ReadEvent \in Nat
      BY <1>6 DEF MarkReadSave, ReadEvent
    <2> QED  BY <2>1, <2>2, EmitType DEF WidgetTypeOK
  <1>7. ASSUME NEW j \in Jobs,
               ArchiveLoad(j) \/ ArchiveSave(j) \/ \E status \in {"completed", "canceled"} : OrderEnds(j, status)
        PROVE  WidgetTypeOK'
    BY <1>0, <1>7, ArchiveType, QuietStep DEF ArchiveLoad, ArchiveSave, OrderEnds
  <1>8. ASSUME NEW u \in Watchers, Command(u) \/ Join(u) \/ LoseJoin(u)  PROVE WidgetTypeOK'
    BY <1>8, GatewayType
  <1>9. CASE OrderCompletesSilently
    BY <1>0, <1>9, SilentType, QuietStep DEF OrderCompletesSilently
  <1>10. ASSUME NEW j \in Jobs, ChatAbort(j)  PROVE WidgetTypeOK'
    BY <1>0, <1>10, SilentType, QuietStep DEF ChatAbort
  <1>11. CASE Tick /\ UNCHANGED <<chatVars, socket>>
    BY <1>0, <1>11, SilentType, QuietStep
  <1>12. CASE Restart
    <2>1. ChatTypeOK'
      BY <1>0, <1>12, SilentType DEF Restart
    <2>2. Closed \in SocketType
      BY DEF Closed, SocketType
    <2>3. socket' \in [Watchers -> SocketType] /\ \A u \in Watchers : socket'[u] = Closed
      BY <1>12, <2>2 DEF Restart
    <2> QED  BY <2>1, <2>3 DEF WidgetTypeOK, Asleep, Loaded
  <1> QED
    BY <1>1, <1>2, <1>3, <1>4, <1>5, <1>6, <1>7, <1>8, <1>9, <1>10, <1>11, <1>12
    DEF ServerNext, ServerStep

---------------------------------------------------------------------------
(* The browser of one watcher.                                              *)
LEMMA UserStep ==
  ASSUME WidgetTypeOK, Lists, NEW u \in Watchers, NEW s \in SocketType, NEW w \in WidgetType,
         socket' = [socket EXCEPT ![u] = s], widget' = [widget EXCEPT ![u] = w], ChatTypeOK',
         Once(w.history), w.list # None => Once(w.list),
         w.threads = None => w = NoWidget /\ s \in {Closed, [Closed EXCEPT !.on = TRUE]}
  PROVE  WidgetTypeOK' /\ Lists'
  <1>1. /\ socket' \in [Watchers -> SocketType] /\ widget' \in [Watchers -> WidgetType]
        /\ socket'[u] = s /\ widget'[u] = w
        /\ \A v \in Watchers : v # u => socket'[v] = socket[v] /\ widget'[v] = widget[v]
    BY DEF WidgetTypeOK
  <1>2. \A v \in Watchers : Asleep(v)'
    BY <1>1 DEF WidgetTypeOK, Asleep, Loaded
  <1>3. Lists'
    BY <1>1 DEF Lists
  <1> QED  BY <1>1, <1>2, <1>3 DEF WidgetTypeOK

(* Where only the widget changes, or only the socket.                       *)
LEMMA SameSocket ==
  ASSUME WidgetTypeOK, NEW u \in Watchers, UNCHANGED socket
  PROVE  socket' = [socket EXCEPT ![u] = socket[u]] /\ socket[u] \in SocketType
  BY DEF WidgetTypeOK

LEMMA SameWidget ==
  ASSUME WidgetTypeOK, Lists, NEW u \in Watchers
  PROVE  /\ UNCHANGED widget => widget' = [widget EXCEPT ![u] = widget[u]]
         /\ widget[u] \in WidgetType /\ Asleep(u)
         /\ Once(widget[u].history) /\ (widget[u].list # None => Once(widget[u].list))
  BY DEF WidgetTypeOK, Lists

LEMMA EmptyOnce == Once(<<>>)
  BY DEF Once, IsInjective

(* The effect that leaves and joins again when the threads change.          *)
LEMMA RefreshType ==
  ASSUME WidgetTypeOK, NEW u \in Watchers, Refresh(u)
  PROVE  \E s \in SocketType : socket' = [socket EXCEPT ![u] = s]
  <1>1. socket[u] \in SocketType /\ socket[u].asked \in Seq({"join", "leave"})
    BY DEF WidgetTypeOK, SocketType
  <1>2. PICK asked : asked = IF socket[u].on /\ widget[u].tracked
                             THEN socket[u].asked \o <<"leave", "join">>
                             ELSE IF socket[u].on THEN Append(socket[u].asked, "join")
                             ELSE socket[u].asked
    OBVIOUS
  <1>3. asked \in Seq({"join", "leave"})
    <2>1. <<"leave", "join">> \in Seq({"join", "leave"})
      OBVIOUS
    <2>2. socket[u].asked \o <<"leave", "join">> \in Seq({"join", "leave"})
      BY <1>1, <2>1
    <2>3. Append(socket[u].asked, "join") \in Seq({"join", "leave"})
      BY <1>1
    <2> QED  BY <1>1, <1>2, <2>2, <2>3
  <1>4. [socket[u] EXCEPT !.asked = asked] \in SocketType
    BY <1>1, <1>3 DEF SocketType
  <1>5. socket' = [socket EXCEPT ![u] = [socket[u] EXCEPT !.asked = asked]]
    BY <1>1, <1>2 DEF Refresh, WidgetTypeOK, SocketType
  <1> QED  BY <1>4, <1>5

(* The page's call fails, or its token expires or is refused.               *)
LEMMA PageKeeps ==
  ASSUME WidgetTypeOK, Lists, NEW u \in Watchers, Refuse(u) \/ TokenExpires(u) \/ FailThreads(u)
  PROVE  WidgetTypeOK' /\ Lists'
  <1>1. /\ UNCHANGED <<chatVars, socket, widget, job, clock>>
        /\ Faulty \/ UNCHANGED faults
    BY DEF Refuse, TokenExpires, FailThreads, messagingVars
  <1>2. ChatTypeOK'
    BY <1>1, SilentType DEF WidgetTypeOK
  <1> QED  BY <1>1, <1>2, QuietStep DEF Lists

LEMMA ConnectKeeps ==
  ASSUME WidgetTypeOK, Lists, NEW u \in Watchers, Connect(u) \/ Disconnect(u)
  PROVE  WidgetTypeOK' /\ Lists'
  <1>1. ChatTypeOK'
    BY SilentType DEF Connect, Disconnect, WidgetTypeOK
  <1>2. PICK s \in SocketType : /\ socket' = [socket EXCEPT ![u] = s]
                                /\ ~Loaded(u) => s \in {Closed, [Closed EXCEPT !.on = TRUE]}
    <2>1. CASE Connect(u)
      <3>1. PICK asked : asked = Rejoin(u)
        OBVIOUS
      <3>2. asked \in Seq({"join", "leave"}) /\ (~Loaded(u) => asked = <<>>)
        <4>1. <<"join">> \in Seq({"join", "leave"}) /\ <<>> \in Seq({"join", "leave"})
          OBVIOUS
        <4>2. ~Loaded(u) => ~widget[u].tracked
          BY SameWidget DEF Asleep, NoWidget
        <4> QED  BY <3>1, <4>1, <4>2 DEF Rejoin
      <3>3. Closed \in SocketType /\ Closed.asked = <<>>
        BY DEF Closed, SocketType
      <3>4. /\ [Closed EXCEPT !.on = TRUE, !.asked = asked] \in SocketType
            /\ ~Loaded(u) => [Closed EXCEPT !.on = TRUE, !.asked = asked] = [Closed EXCEPT !.on = TRUE]
        BY <3>2, <3>3 DEF SocketType
      <3> QED  BY <2>1, <3>1, <3>4 DEF Connect
    <2>2. CASE Disconnect(u)
      <3>1. Closed \in SocketType
        BY DEF Closed, SocketType
      <3> QED  BY <2>2, <3>1 DEF Disconnect
    <2> QED  BY <2>1, <2>2
  <1>3. UNCHANGED widget
    BY DEF Connect, Disconnect
  <1> QED  BY <1>1, <1>2, <1>3, SameWidget, UserStep DEF Asleep, Loaded

LEMMA LoadKeeps ==
  ASSUME WidgetTypeOK, Lists, NEW u \in Watchers, LoadThreads(u)
  PROVE  WidgetTypeOK' /\ Lists'
  <1>1. ChatTypeOK' /\ ChatTypeOK
    BY SilentType DEF LoadThreads, WidgetTypeOK
  <1>2. PICK s \in SocketType : socket' = [socket EXCEPT ![u] = s]
    BY RefreshType DEF LoadThreads
  <1>3. PICK badge : badge = IF u \in DOMAIN thread.unread THEN thread.unread[u] ELSE 0
    OBVIOUS
  <1>4. badge \in Nat
    <2>1. PICK S \in SUBSET Peers : thread.unread \in [S -> Nat]
      BY <1>1 DEF ChatTypeOK, Unreads
    <2> QED  BY <1>3, <2>1
  <1>10. PICK closed \in BOOLEAN : closed = (thread.status = "archived")
    OBVIOUS
  <1>5. PICK threads : threads = [badge |-> badge, readOnly |-> closed]
    OBVIOUS
  <1>6. threads \in ThreadShown /\ threads # None
    BY <1>4, <1>5, NullIsNoThread DEF ThreadShown
  <1>7. PICK w : w = [widget[u] EXCEPT !.threads = threads, !.tracked = TRUE]
    OBVIOUS
  <1>8. /\ w \in WidgetType /\ w.threads # None
        /\ w.list = widget[u].list /\ w.history = widget[u].history
    BY <1>6, <1>7, SameWidget DEF WidgetType
  <1>9. widget' = [widget EXCEPT ![u] = w]
    BY <1>3, <1>5, <1>7, <1>10 DEF LoadThreads, Show
  <1> QED  BY <1>1, <1>2, <1>8, <1>9, SameWidget, UserStep

---------------------------------------------------------------------------
(* The messages of the server, newest first, are distinct numbers.          *)
LEMMA NewestFirst ==
  ASSUME ChatTypeOK
  PROVE  Once(Reverse([i \in DOMAIN messages |-> i]))
  <1> DEFINE n == Len(messages)
             numbers == [i \in DOMAIN messages |-> i]
  <1>1. n \in Nat /\ DOMAIN messages = 1..n
    BY DEF ChatTypeOK
  <1> HIDE DEF n
  <1>2. numbers \in Seq(Nat) /\ Len(numbers) = n /\ \A i \in 1..n : numbers[i] = i
    <2>1. PICK s : s = [i \in 1..n |-> i]
      OBVIOUS
    <2>2. s \in Seq(Nat) /\ Len(s) = n /\ \A i \in 1..n : s[i] = i
      BY <1>1, <2>1
    <2> QED  BY <1>1, <2>1, <2>2
  <1> HIDE DEF numbers
  <1>3. PICK r : r = [i \in 1..n |-> numbers[(n - i) + 1]]
    OBVIOUS
  <1>4. /\ r = Reverse(numbers) /\ r \in Seq(Nat) /\ DOMAIN r = 1..n
        /\ \A i \in 1..n : r[i] = (n - i) + 1
    <2>1. \A i \in 1..n : (n - i) + 1 \in 1..n
      BY <1>1
    <2>2. r = Reverse(numbers)
      BY <1>2, <1>3 DEF Reverse
    <2>3. \A i \in 1..n : r[i] = (n - i) + 1
      BY <1>2, <1>3, <2>1
    <2>4. r \in Seq(Nat)
      BY <1>1, <1>2, <1>3, <2>1
    <2> QED  BY <1>3, <2>2, <2>3, <2>4
  <1>5. IsInjective(r)
    BY <1>1, <1>4 DEF IsInjective
  <1> QED  BY <1>4, <1>5 DEF Once, numbers

(* A message that is added once more stays once.                            *)
LEMMA AddedOnce ==
  ASSUME NEW list, list # None => Once(list), NEW id \in Nat
  PROVE  Once(Added(list, id))
  <1>1. CASE list = None
    <2>1. PICK one : one = <<id>>
      OBVIOUS
    <2>2. one \in Seq(Nat) /\ DOMAIN one = {1}
      BY <2>1
    <2> QED  BY <1>1, <2>1, <2>2 DEF Added, Once, IsInjective
  <1>2. CASE list # None /\ Contains(list, id)
    BY <1>2 DEF Added
  <1>3. CASE list # None /\ ~Contains(list, id)
    <2>1. list \in Seq(Nat) /\ IsInjective(list)
      BY <1>3 DEF Once
    <2>2. \A i \in 1..Len(list) : list[i] # id
      BY <1>3, <2>1 DEF Contains
    <2>3. PICK longer : longer = Append(list, id)
      OBVIOUS
    <2>4. /\ longer \in Seq(Nat) /\ Len(list) \in Nat /\ DOMAIN longer = 1..(Len(list) + 1)
          /\ DOMAIN list = 1..Len(list)
          /\ longer[Len(list) + 1] = id /\ \A i \in 1..Len(list) : longer[i] = list[i]
      BY <2>1, <2>3
    <2>5. IsInjective(longer)
      BY <2>1, <2>2, <2>4 DEF IsInjective
    <2> QED  BY <1>3, <2>3, <2>4, <2>5 DEF Added, Once
  <1> QED  BY <1>1, <1>2, <1>3

---------------------------------------------------------------------------
(* The history, fetched, answered and shown, and the calls of the user.     *)
LEMMA WidgetFields ==
  ASSUME WidgetTypeOK, Lists, NEW u \in Watchers, NEW s \in SocketType, NEW w,
         w \in WidgetType, Loaded(u), w.threads = widget[u].threads, Once(w.history),
         w.list # None => Once(w.list), ChatTypeOK',
         socket' = [socket EXCEPT ![u] = s], widget' = [widget EXCEPT ![u] = w]
  PROVE  WidgetTypeOK' /\ Lists'
  BY UserStep DEF Loaded

LEMMA HistoryKeeps ==
  ASSUME WidgetTypeOK, Lists, NEW u \in Watchers,
         AnswerHistory(u) \/ FailHistory(u) \/ ShowHistory(u)
  PROVE  WidgetTypeOK' /\ Lists'
  <1>1. /\ widget[u] \in WidgetType /\ Loaded(u) /\ ChatTypeOK
        /\ Once(widget[u].history) /\ (widget[u].list # None => Once(widget[u].list))
    BY SameWidget
    DEF WidgetTypeOK, Asleep, NoWidget, AnswerHistory, FailHistory, ShowHistory
  <1>2. ChatTypeOK' /\ UNCHANGED socket
    BY <1>1, SilentType DEF AnswerHistory, FailHistory, ShowHistory, messagingVars
  <1>3. PICK w : /\ w \in WidgetType /\ widget' = [widget EXCEPT ![u] = w]
                 /\ w.threads = widget[u].threads /\ Once(w.history)
                 /\ w.list # None => Once(w.list)
    <2>1. CASE AnswerHistory(u)
      <3>1. PICK history : history = Reverse([i \in DOMAIN messages |-> i])
        OBVIOUS
      <3>2. Once(history)
        BY <1>1, <3>1, NewestFirst
      <3>3. PICK w : w = [widget[u] EXCEPT !.opening = "answered", !.history = history]
        OBVIOUS
      <3>4. /\ w \in WidgetType /\ w.history = history
            /\ w.list = widget[u].list /\ w.threads = widget[u].threads
        BY <1>1, <3>2, <3>3 DEF WidgetType, Once
      <3> QED  BY <1>1, <2>1, <3>1, <3>2, <3>3, <3>4 DEF AnswerHistory, Show
    <2>2. CASE FailHistory(u)
      <3>1. PICK w : w = [widget[u] EXCEPT !.opening = "answered"]
        OBVIOUS
      <3>2. /\ w \in WidgetType /\ w.history = widget[u].history
            /\ w.list = widget[u].list /\ w.threads = widget[u].threads
        BY <1>1, <3>1 DEF WidgetType
      <3> QED  BY <1>1, <2>2, <3>1, <3>2 DEF FailHistory, Show
    <2>3. CASE ShowHistory(u)
      <3>1. PICK w : w = [widget[u] EXCEPT !.opening = "read", !.list = widget[u].history,
                                           !.history = <<>>]
        OBVIOUS
      <3>2. /\ w \in WidgetType /\ w.history = <<>>
            /\ w.list = widget[u].history /\ w.threads = widget[u].threads
        <4>1. <<>> \in Seq(Nat)
          OBVIOUS
        <4> QED  BY <1>1, <3>1, <4>1 DEF WidgetType
      <3> QED  BY <1>1, <2>3, <3>1, <3>2, EmptyOnce DEF ShowHistory, Show
    <2> QED  BY <2>1, <2>2, <2>3
  <1> QED  BY <1>1, <1>2, <1>3, SameSocket, WidgetFields

LEMMA OpenKeeps ==
  ASSUME WidgetTypeOK, Lists, NEW u \in Watchers,
         \/ OpenThread(u) \/ BackToList(u)
         \/ \E j \in Jobs : AskRead(j, u) \/ Send(j, u)
  PROVE  WidgetTypeOK' /\ Lists'
  <1>1. /\ widget[u] \in WidgetType /\ Loaded(u) /\ ChatTypeOK /\ u \in Peers
        /\ Once(widget[u].history) /\ (widget[u].list # None => Once(widget[u].list))
    BY SameWidget, MessagingAssumption
    DEF WidgetTypeOK, Asleep, NoWidget, OpenThread, BackToList, AskRead, Send
  <1>2. ChatTypeOK' /\ UNCHANGED socket
    <2>1. CASE OpenThread(u) \/ BackToList(u)
      BY <1>1, <2>1, SilentType DEF OpenThread, BackToList, messagingVars
    <2>2. ASSUME NEW j \in Jobs, AskRead(j, u) \/ Send(j, u)
          PROVE  ChatTypeOK' /\ UNCHANGED socket
      <3>1. MarkReadLoad(j, u) \/ SendLoad(j, u)
        BY <2>2 DEF AskRead, Send
      <3>2. UNCHANGED socket
        BY <3>1 DEF MarkReadLoad, SendLoad
      <3> QED  BY <1>1, <3>1, <3>2, SendType, MarkLoadType
    <2> QED  BY <2>1, <2>2
  <1>3. PICK w : /\ w \in WidgetType /\ widget' = [widget EXCEPT ![u] = w]
                 /\ w.threads = widget[u].threads /\ w.history = widget[u].history
                 /\ w.list = widget[u].list
    <2>1. ASSUME NEW active \in BOOLEAN, NEW opening \in {"no", "asked", "answered", "read", "reading"}
          PROVE  LET w == [widget[u] EXCEPT !.active = active, !.opening = opening]
                 IN /\ w \in WidgetType /\ w.threads = widget[u].threads
                    /\ w.history = widget[u].history /\ w.list = widget[u].list
      BY <1>1 DEF WidgetType
    <2>2. PICK next : next = IF widget[u].list = None THEN "asked" ELSE "read"
      OBVIOUS
    <2>3. CASE OpenThread(u)
      BY <2>1, <2>2, <2>3 DEF OpenThread, Show
    <2>4. CASE BackToList(u)
      <3>1. [widget[u] EXCEPT !.active = FALSE]
              = [widget[u] EXCEPT !.active = FALSE, !.opening = widget[u].opening]
        BY <1>1 DEF WidgetType
      <3>2. widget[u].opening \in {"no", "asked", "answered", "read", "reading"}
        BY <1>1 DEF WidgetType
      <3> QED  BY <2>1, <2>4, <3>1, <3>2 DEF BackToList, Show
    <2>5. ASSUME NEW j \in Jobs, AskRead(j, u)
          PROVE  widget' = [widget EXCEPT ![u] = [widget[u] EXCEPT !.active = widget[u].active,
                                                                   !.opening = "reading"]]
      <3>1. [widget[u] EXCEPT !.opening = "reading"]
              = [widget[u] EXCEPT !.active = widget[u].active, !.opening = "reading"]
        BY <1>1 DEF WidgetType
      <3> QED  BY <2>5, <3>1 DEF AskRead, Show
    <2>6. ASSUME NEW j \in Jobs, Send(j, u)
          PROVE  widget' = [widget EXCEPT ![u] = widget[u]]
      BY <2>6, SameWidget DEF Send
    <2>7. widget[u].active \in BOOLEAN
      BY <1>1 DEF WidgetType
    <2> QED  BY <1>1, <2>1, <2>3, <2>4, <2>5, <2>6, <2>7
  <1>4. Once(w.history) /\ (w.list # None => Once(w.list))
    BY <1>1, <1>3
  <1>5. socket[u] \in SocketType /\ socket' = [socket EXCEPT ![u] = socket[u]]
    BY <1>2, SameSocket
  <1> QED  BY <1>1, <1>2, <1>3, <1>4, <1>5, WidgetFields

LEMMA ShowReadKeeps ==
  ASSUME WidgetTypeOK, Lists, NEW u \in Watchers, ShowRead(u)
  PROVE  WidgetTypeOK' /\ Lists'
  <1>1. /\ widget[u] \in WidgetType /\ Loaded(u) /\ ChatTypeOK
        /\ Once(widget[u].history) /\ (widget[u].list # None => Once(widget[u].list))
    BY SameWidget DEF WidgetTypeOK, Asleep, NoWidget, ShowRead
  <1>2. ChatTypeOK'
    BY <1>1, SilentType DEF ShowRead
  <1>3. PICK s \in SocketType : socket' = [socket EXCEPT ![u] = s]
    BY RefreshType DEF ShowRead
  <1>4. PICK w : w = [widget[u] EXCEPT !.opening = "no", !.threads.badge = 0]
    OBVIOUS
  <1>5. widget[u].threads \in ThreadShown /\ [widget[u].threads EXCEPT !.badge = 0] \in ThreadShown
    BY <1>1 DEF WidgetType, Loaded, ThreadShown
  <1>6. /\ w \in WidgetType /\ w.threads \in ThreadShown
        /\ w.list = widget[u].list /\ w.history = widget[u].history
    BY <1>1, <1>4, <1>5 DEF WidgetType
  <1>7. widget' = [widget EXCEPT ![u] = w]
    BY <1>4 DEF ShowRead, Show
  <1> QED  BY <1>1, <1>2, <1>3, <1>6, <1>7, NullIsNoThread, UserStep

(* What the socket brings.                                                  *)
LEMMA HearKeeps ==
  ASSUME WidgetTypeOK, Lists, NEW u \in Watchers, HearMessage(u) \/ HearRead(u)
  PROVE  WidgetTypeOK' /\ Lists'
  <1>1. /\ widget[u] \in WidgetType /\ socket[u] \in SocketType /\ ChatTypeOK
        /\ Once(widget[u].history) /\ (widget[u].list # None => Once(widget[u].list))
        /\ socket \in [Watchers -> SocketType]
    BY SameWidget DEF WidgetTypeOK
  <1>2. Loaded(u)
    BY SameWidget DEF Asleep, Closed, HearMessage, HearRead
  <1>3. ChatTypeOK'
    BY <1>1, SilentType DEF HearMessage, HearRead
  <1>4. PICK wire : wire = Tail(socket[u].wire)
    OBVIOUS
  <1>5. /\ wire \in Seq(Nat) /\ socket[u].wire \in Seq(Nat) /\ socket[u].wire # <<>>
        /\ Head(socket[u].wire) \in Nat
    BY <1>1, <1>4 DEF SocketType, HearMessage, HearRead
  <1>6. PICK rest : rest = [socket[u] EXCEPT !.wire = wire]
    OBVIOUS
  <1>7. rest \in SocketType /\ rest.asked = socket[u].asked /\ rest.asked \in Seq({"join", "leave"})
    BY <1>1, <1>5, <1>6 DEF SocketType
  <1>8. [socket EXCEPT ![u].wire = Tail(@)] = [socket EXCEPT ![u] = rest]
    BY <1>1, <1>4, <1>6
  <1>9. CASE HearRead(u)
    <2>1. PICK w : w = [widget[u] EXCEPT !.list = IF widget[u].list = None THEN <<>> ELSE widget[u].list]
      OBVIOUS
    <2>2. /\ w \in WidgetType /\ w.history = widget[u].history /\ w.threads = widget[u].threads
          /\ w.list = IF widget[u].list = None THEN <<>> ELSE widget[u].list
      BY <1>1, <2>1, EmptyOnce DEF WidgetType, Once
    <2>3. widget' = [widget EXCEPT ![u] = w] /\ socket' = [socket EXCEPT ![u] = rest]
      BY <1>8, <1>9, <2>1 DEF HearRead, Show
    <2> QED  BY <1>1, <1>2, <1>3, <1>7, <2>2, <2>3, EmptyOnce, WidgetFields
  <1>10. CASE HearMessage(u)
    <2>1. PICK list : list = Added(widget[u].list, Head(socket[u].wire))
      OBVIOUS
    <2>2. Once(list)
      BY <1>1, <1>5, <2>1, AddedOnce
    <2>3. CASE list = widget[u].list
      <3>1. UNCHANGED widget /\ socket' = [socket EXCEPT ![u] = rest]
        BY <1>8, <1>10, <2>1, <2>3 DEF HearMessage
      <3> QED  BY <1>1, <1>2, <1>3, <1>7, <3>1, SameWidget, WidgetFields
    <2>4. CASE list # widget[u].list
      <3>1. PICK badge : badge = IF widget[u].active \/ messages[Head(socket[u].wire)].sender = u
                                 THEN widget[u].threads.badge ELSE widget[u].threads.badge + 1
        OBVIOUS
      <3>2. badge \in Nat /\ widget[u].threads \in ThreadShown
        BY <1>1, <1>2, <3>1 DEF WidgetType, Loaded, ThreadShown
      <3>3. [widget[u].threads EXCEPT !.badge = badge] \in ThreadShown
        BY <3>2 DEF ThreadShown
      <3>4. PICK w : w = [widget[u] EXCEPT !.list = list, !.threads.badge = badge]
        OBVIOUS
      <3>5. /\ w \in WidgetType /\ w.threads \in ThreadShown
            /\ w.list = list /\ w.history = widget[u].history
        BY <1>1, <2>2, <3>3, <3>4 DEF WidgetType, Once
      <3>6. PICK asked : asked = socket[u].asked \o <<"leave", "join">>
        OBVIOUS
      <3>7. asked \in Seq({"join", "leave"})
        <4>1. <<"leave", "join">> \in Seq({"join", "leave"})
          OBVIOUS
        <4> QED  BY <1>7, <3>6, <4>1
      <3>8. [rest EXCEPT !.asked = asked] \in SocketType
        BY <1>7, <3>7 DEF SocketType
      <3>9. socket' = [socket EXCEPT ![u] = [rest EXCEPT !.asked = asked]]
        BY <1>1, <1>7, <1>8, <1>10, <2>1, <2>4, <3>6 DEF HearMessage
      <3>10. widget' = [widget EXCEPT ![u] = w]
        BY <1>10, <2>1, <2>4, <3>1, <3>4 DEF HearMessage, Show
      <3> QED  BY <1>1, <1>3, <2>2, <3>5, <3>8, <3>9, <3>10, NullIsNoThread, UserStep
    <2> QED  BY <2>3, <2>4
  <1> QED  BY <1>9, <1>10

(* Every step keeps the types and the lists.                                *)
LEMMA KeepsShown == WidgetTypeOK /\ Lists /\ [Next]_widgetVars => WidgetTypeOK' /\ Lists'
  <1> SUFFICES ASSUME WidgetTypeOK, Lists, [Next]_widgetVars  PROVE WidgetTypeOK' /\ Lists'
    OBVIOUS
  <1>1. CASE (ServerNext \/ Restart) /\ UNCHANGED <<widget, page>>
    BY <1>1, ServerType DEF Lists
  <1>2. ASSUME NEW u \in Watchers, WidgetStep(u)  PROVE WidgetTypeOK' /\ Lists'
    BY <1>2, ConnectKeeps, PageKeeps, LoadKeeps, HistoryKeeps, ShowReadKeeps, HearKeeps
    DEF WidgetStep, Attempt, Arrivals
  <1>3. ASSUME NEW u \in Watchers,
               \/ WidgetFails(u) \/ OpenThread(u) \/ BackToList(u)
               \/ \E j \in Jobs : AskRead(j, u) \/ Send(j, u)
        PROVE  WidgetTypeOK' /\ Lists'
    BY <1>3, ConnectKeeps, PageKeeps, OpenKeeps, HistoryKeeps DEF WidgetFails
  <1>4. CASE UNCHANGED widgetVars
    <2>1. ChatTypeOK'
      BY <1>4, SilentType DEF widgetVars, messagingVars, WidgetTypeOK
    <2> QED  BY <1>4, <2>1, QuietStep DEF widgetVars, messagingVars, Lists
  <1> QED  BY <1>1, <1>2, <1>3, <1>4 DEF Next

LEMMA BeginsShown == Init => WidgetTypeOK /\ Lists
  <1> SUFFICES ASSUME Init  PROVE WidgetTypeOK /\ Lists
    OBVIOUS
  <1>1. ChatTypeOK
    <2>1. <<>> \in [{} -> Nat]
      OBVIOUS
    <2>2. Blank \in Unreads
      BY <2>1 DEF Blank, Unreads
    <2>3. order \in OrderType /\ thread \in [status : {"open", "archived"}, unread : Unreads]
      BY <2>2 DEF Init, MessagingInit, OrderType
    <2>4. messages \in Seq(MessageType) /\ rate \in [Peers -> Seq(Nat)]
      BY DEF Init, MessagingInit
    <2>5. job \in [Jobs -> ChatJob \cup {Idle}] /\ clock \in Nat /\ faults \in Nat
      BY DEF Init, MessagingInit, BackendInit
    <2> QED  BY <2>3, <2>4, <2>5 DEF ChatTypeOK
  <1>2. Closed \in SocketType /\ NoWidget \in WidgetType
    BY DEF Closed, SocketType, NoWidget, WidgetType
  <1>3. /\ socket = [u \in Watchers |-> Closed] /\ widget = [u \in Watchers |-> NoWidget]
    BY DEF Init, MessagingInit
  <1>4. \A u \in Watchers : Asleep(u)
    BY <1>3 DEF Asleep
  <1>5. NoWidget.history = <<>> /\ NoWidget.list = None
    BY DEF NoWidget
  <1> QED  BY <1>1, <1>2, <1>3, <1>4, <1>5, EmptyOnce DEF WidgetTypeOK, Lists

---------------------------------------------------------------------------
(* The page has its type.                                                   *)
LEMMA PageTyped == PageTypeOK /\ [Next]_widgetVars => PageTypeOK'
  <1> SUFFICES ASSUME PageTypeOK, [Next]_widgetVars  PROVE PageTypeOK'
    OBVIOUS
  <1>1. ASSUME NEW u \in Watchers,
               \/ page' = [page EXCEPT ![u].asked = TRUE]
               \/ page' = [page EXCEPT ![u].token = "refused"]
               \/ page' = [page EXCEPT ![u].token = "expired"]
        PROVE  PageTypeOK'
    BY <1>1 DEF PageTypeOK, PageType
  <1>2. ASSUME NEW u \in Watchers, WidgetStep(u) \/ WidgetFails(u)  PROVE PageTypeOK'
    <2>1. CASE UNCHANGED page
      BY <2>1 DEF PageTypeOK
    <2>2. CASE LoadThreads(u) \/ FailThreads(u) \/ Refuse(u) \/ TokenExpires(u)
      BY <1>1, <2>2 DEF LoadThreads, FailThreads, Refuse, TokenExpires
    <2> QED
      BY <1>2, <2>1, <2>2
      DEF WidgetStep, WidgetFails, Attempt, Arrivals, Connect, Disconnect, AnswerHistory,
          ShowHistory, ShowRead, HearMessage, HearRead, FailHistory
  <1>3. ASSUME NEW u \in Watchers,
               OpenThread(u) \/ BackToList(u) \/ \E j \in Jobs : AskRead(j, u) \/ Send(j, u)
        PROVE  PageTypeOK'
    BY <1>3 DEF OpenThread, BackToList, AskRead, Send, PageTypeOK
  <1>4. CASE UNCHANGED page
    BY <1>4 DEF PageTypeOK
  <1> QED  BY <1>2, <1>3, <1>4 DEF Next, widgetVars

(* The thread, the order, the messages, the sockets, the pages and the      *)
(* widgets have the shape the code gives them, and the lists of a widget    *)
(* hold every message once, for any numbers of users, handlers and          *)
(* messages.                                                                *)
THEOREM WidgetInvariant == Spec => [](WidgetTypeOK /\ PageTypeOK /\ Lists)
  <1>1. Init => PageTypeOK
    BY DEF Init, PageTypeOK, PageType
  <1> QED  BY <1>1, BeginsShown, KeepsShown, PageTyped, PTL DEF Spec

(* No message is shown twice, though the history and the socket bring it    *)
(* (addIncomingMessage and setMessages of messages-store.ts).               *)
THEOREM MessagesShownOnce == Spec => []ShownOnce
  <1>1. Lists => ShownOnce
    BY DEF Lists, Once, ShownOnce
  <1> QED  BY <1>1, WidgetInvariant, PTL

(* A step leaves the thread archived: no save of a message or a read mark   *)
(* sends the status it had loaded.                                          *)
LEMMA StaysArchived ==
  ASSUME WidgetTypeOK, [Next]_widgetVars
  PROVE  thread'.status = thread.status \/ thread'.status = "archived"
  <1>0. ChatTypeOK
    BY DEF WidgetTypeOK
  <1>1. CASE ServerNext
    <2>1. ASSUME NEW j \in Jobs, SaveThread(j) \/ MarkReadSave(j)
          PROVE  thread'.status = thread.status
      BY <1>0, <2>1, SaveType, MarkSaveType
    <2>2. ASSUME NEW j \in Jobs,
                 ArchiveLoad(j) \/ ArchiveSave(j) \/ \E status \in {"completed", "canceled"} : OrderEnds(j, status)
          PROVE  thread'.status = thread.status \/ thread'.status = "archived"
      BY <1>0, <2>2, ArchiveType
    <2>3. ASSUME NEW j \in Jobs,
                 \/ SendCheck(j, TRUE) \/ SendCheck(j, FALSE) \/ InsertMessage(j) \/ EmitSent(j)
                 \/ ChatAbort(j) \/ \E u \in Peers : SendLoad(j, u) \/ MarkReadLoad(j, u)
          PROVE  thread' = thread
      BY <2>3
      DEF SendCheck, InsertMessage, EmitSent, ChatAbort, SendLoad, MarkReadLoad, chatVars
    <2>4. ASSUME NEW u \in Watchers, Command(u) \/ Join(u) \/ LoseJoin(u)
          PROVE  thread' = thread
      BY <2>4 DEF Command, Join, LoseJoin, chatVars
    <2>5. CASE OrderCompletesSilently \/ (Tick /\ UNCHANGED <<chatVars, socket>>)
      BY <2>5 DEF OrderCompletesSilently, chatVars
    <2> QED  BY <1>1, <2>1, <2>2, <2>3, <2>4, <2>5 DEF ServerNext, ServerStep
  <1>2. CASE Restart
    BY <1>2 DEF Restart
  <1>3. ASSUME NEW u \in Watchers, WidgetStep(u) \/ WidgetFails(u)
        PROVE  thread' = thread
    BY <1>3
    DEF WidgetStep, Attempt, Arrivals, Connect, Refuse, LoadThreads, AnswerHistory, ShowHistory,
        ShowRead, HearMessage, HearRead, WidgetFails, Disconnect, TokenExpires, FailThreads,
        FailHistory, messagingVars, chatVars
  <1>4. ASSUME NEW u \in Watchers,
               OpenThread(u) \/ BackToList(u) \/ \E j \in Jobs : AskRead(j, u) \/ Send(j, u)
        PROVE  thread' = thread
    BY <1>4 DEF OpenThread, BackToList, AskRead, Send, MarkReadLoad, SendLoad, messagingVars, chatVars
  <1>5. CASE UNCHANGED widgetVars
    BY <1>5 DEF widgetVars, messagingVars, chatVars
  <1> QED  BY <1>1, <1>2, <1>3, <1>4, <1>5 DEF Next

(* A chat that was archived stays archived, whatever its participants and   *)
(* the handlers that had loaded it open do (messaging.service.ts).          *)
THEOREM ChatStaysArchived == Spec => ArchivedStays
  <1>1. WidgetTypeOK /\ [Next]_widgetVars =>
          [thread.status = "archived" => thread'.status = "archived"]_messagingVars
    BY StaysArchived
  <1>2. Spec => []WidgetTypeOK
    BY WidgetInvariant, PTL
  <1> QED  BY <1>1, <1>2, PTL DEF Spec, ArchivedStays

---------------------------------------------------------------------------
(* The rate limit.  What is counted is finite.                              *)
LEMMA CountsFinite ==
  ASSUME ChatTypeOK
  PROVE  /\ \A S \in SUBSET DOMAIN messages : IsFiniteSet(S) /\ Cardinality(S) \in Nat
         /\ \A S \in SUBSET Jobs : IsFiniteSet(S) /\ Cardinality(S) \in Nat
  <1>1. IsFiniteSet(DOMAIN messages)
    <2>1. DOMAIN messages = 1..Len(messages) /\ Len(messages) \in Nat
      BY DEF ChatTypeOK
    <2> QED  BY <2>1, FS_Interval
  <1>2. IsFiniteSet(Jobs)
    BY MessagingAssumption
  <1> QED  BY <1>1, <1>2, FS_Subset, FS_CardinalityType

(* A step that admits nobody and stores nothing.                            *)
LEMMA StillMetered ==
  ASSUME ChatTypeOK, ChatTypeOK', Metered, UNCHANGED <<messages, rate>>, clock' >= clock,
         faults' = 0 => faults = 0,
         faults' = 0 => \A k \in Jobs : \/ job'[k] = job[k]
                                        \/ job[k].op # "send.insert" /\ job'[k].op # "send.insert"
  PROVE  Metered'
  <1> SUFFICES ASSUME faults' = 0  PROVE Remembered' /\ WithinLimit'
    BY DEF Metered
  <1>1. Remembered /\ WithinLimit
    BY DEF Metered
  <1>2. \A u, s : Sent(u, s)' = Sent(u, s) /\ Pending(u, s)' = Pending(u, s)
    BY DEF Sent, Pending
  <1>3. \A u, t : SentWithin(u, t)' = SentWithin(u, t) /\ PendingWithin(u, t)' = PendingWithin(u, t)
    BY DEF SentWithin, PendingWithin
  <1>4. clock \in Nat /\ clock' \in Nat
    BY DEF ChatTypeOK
  <1>5. \A s \in Nat : s + Window > clock' => s + Window > clock
    BY <1>4, MessagingAssumption
  <1>6. \A u \in Peers, s \in Nat : Cardinality(Since(rate'[u], s)) = Cardinality(Since(rate[u], s))
    OBVIOUS
  <1> QED  BY <1>1, <1>2, <1>3, <1>5, <1>6 DEF Remembered, WithinLimit

(* Storing a message moves it from the handlers to the collection.          *)
LEMMA InsertMetered ==
  ASSUME ChatTypeOK, Metered, NEW j \in Jobs, InsertMessage(j)
  PROVE  Metered'
  <1>1. PICK u \in Peers, at \in Nat : u = job[j].who /\ at = job[j].at
    BY JobShapes DEF InsertMessage
  <1>2. PICK k : k = Len(messages) + 1
    OBVIOUS
  <1>3. /\ k \notin DOMAIN messages /\ DOMAIN messages' = DOMAIN messages \cup {k}
        /\ messages'[k].sender = u /\ messages'[k].admitted = at
        /\ \A i \in DOMAIN messages : messages'[i] = messages[i]
    <2>1. PICK m : m = [sender |-> u, admitted |-> at]
      OBVIOUS
    <2>2. messages' = Append(messages, m) /\ messages \in Seq(MessageType) /\ m.sender = u /\ m.admitted = at
      BY <1>1, <2>1 DEF InsertMessage, ChatTypeOK
    <2>3. m \in MessageType
      BY <2>1 DEF MessageType
    <2> QED  BY <1>2, <2>2, <2>3
  <1>4. /\ job[j].op = "send.insert" /\ job'[j].op = "send.save"
        /\ \A i \in Jobs : i # j => job'[i] = job[i]
    BY DEF InsertMessage, Become, ChatTypeOK
  <1>5. UNCHANGED <<rate, clock, faults>>
    BY DEF InsertMessage
  <1>6. ASSUME NEW Stored, NEW Storing, NEW v,
               Stored \in SUBSET DOMAIN messages, Storing \in SUBSET Jobs,
               NEW Stored2, NEW Storing2,
               \/ Stored2 = Stored /\ Storing2 = Storing
               \/ Stored2 = Stored \cup {k} /\ j \in Storing /\ Storing2 = Storing \ {j}
        PROVE  Cardinality(Stored2) + Cardinality(Storing2) = Cardinality(Stored) + Cardinality(Storing)
    <2>1. /\ IsFiniteSet(Stored) /\ Cardinality(Stored) \in Nat
          /\ IsFiniteSet(Storing) /\ Cardinality(Storing) \in Nat
      BY <1>6, CountsFinite
    <2>2. CASE Stored2 = Stored \cup {k} /\ j \in Storing /\ Storing2 = Storing \ {j}
      <3>1. k \notin Stored
        BY <1>3, <1>6
      <3>2. Cardinality(Stored2) = Cardinality(Stored) + 1
        BY <2>1, <2>2, <3>1, FS_AddElement
      <3>3. Cardinality(Storing2) = Cardinality(Storing) - 1
        BY <2>1, <2>2, FS_RemoveElement
      <3> QED  BY <2>1, <3>2, <3>3
    <2> QED  BY <1>6, <2>2
  <1>7. ASSUME NEW v \in Peers, NEW s \in Nat
        PROVE  Cardinality(Sent(v, s)') + Cardinality(Pending(v, s)')
                 = Cardinality(Sent(v, s)) + Cardinality(Pending(v, s))
    <2>1. Sent(v, s) \in SUBSET DOMAIN messages /\ Pending(v, s) \in SUBSET Jobs
      BY DEF Sent, Pending
    <2>2. \/ Sent(v, s)' = Sent(v, s) /\ Pending(v, s)' = Pending(v, s)
          \/ /\ Sent(v, s)' = Sent(v, s) \cup {k}
             /\ j \in Pending(v, s) /\ Pending(v, s)' = Pending(v, s) \ {j}
      BY <1>1, <1>3, <1>4 DEF Sent, Pending
    <2> QED  BY <1>6, <2>1, <2>2
  <1>8. ASSUME NEW v \in Peers, NEW t \in Nat
        PROVE  Cardinality(SentWithin(v, t)') + Cardinality(PendingWithin(v, t)')
                 = Cardinality(SentWithin(v, t)) + Cardinality(PendingWithin(v, t))
    <2>1. SentWithin(v, t) \in SUBSET DOMAIN messages /\ PendingWithin(v, t) \in SUBSET Jobs
      BY DEF SentWithin, PendingWithin
    <2>2. \/ SentWithin(v, t)' = SentWithin(v, t) /\ PendingWithin(v, t)' = PendingWithin(v, t)
          \/ /\ SentWithin(v, t)' = SentWithin(v, t) \cup {k}
             /\ j \in PendingWithin(v, t) /\ PendingWithin(v, t)' = PendingWithin(v, t) \ {j}
      BY <1>1, <1>3, <1>4 DEF SentWithin, PendingWithin
    <2> QED  BY <1>6, <2>1, <2>2
  <1> QED  BY <1>5, <1>7, <1>8 DEF Metered, Remembered, WithinLimit

(* Admitting counts the message before it is stored.                        *)
LEMMA AdmitMetered ==
  ASSUME ChatTypeOK, Metered, NEW j \in Jobs, NEW u \in Peers, job[j].op = "send.check",
         ~OverLimit(u), rate' = [rate EXCEPT ![u] = Append(Recent(u), clock)],
         NEW next, Become(j, next), UNCHANGED <<messages, clock, faults>>,
         next.op = "send.insert" => next.who = u /\ next.at = clock
  PROVE  Metered'
  <1> SUFFICES ASSUME faults = 0  PROVE Remembered' /\ WithinLimit'
    BY DEF Metered
  <1>0. Remembered /\ WithinLimit
    BY DEF Metered
  <1>1. /\ clock \in Nat /\ rate[u] \in Seq(Nat) /\ Recent(u) \in Seq(Nat)
        /\ rate'[u] = Append(Recent(u), clock)
        /\ \A v \in Peers : v # u => rate'[v] = rate[v]
    BY RecentKeeps DEF ChatTypeOK
  <1>2. /\ job'[j] = next /\ \A i \in Jobs : i # j => job'[i] = job[i]
    BY DEF Become, ChatTypeOK
  <1>3. Window \in Nat /\ Limit \in Nat
    BY MessagingAssumption
  <1>4. \A v, s : Sent(v, s)' = Sent(v, s) /\ SentWithin(v, s)' = SentWithin(v, s)
    BY DEF Sent, SentWithin
  <1>5. ASSUME NEW v \in Peers, NEW s \in Nat, s + Window > clock
        PROVE  Cardinality(Sent(v, s)') + Cardinality(Pending(v, s)') <= Cardinality(Since(rate'[v], s))
    <2>0. Cardinality(Sent(v, s)) + Cardinality(Pending(v, s)) <= Cardinality(Since(rate[v], s))
      BY <1>0, <1>5 DEF Remembered
    <2>1. /\ Sent(v, s) \in SUBSET DOMAIN messages /\ Pending(v, s) \in SUBSET Jobs
          /\ IsFiniteSet(Pending(v, s))
          /\ Cardinality(Pending(v, s)) \in Nat /\ Cardinality(Sent(v, s)) \in Nat
      BY CountsFinite DEF Sent, Pending
    <2>2. CASE v # u
      <3>1. Pending(v, s)' = Pending(v, s)
        BY <1>2, <2>2 DEF Pending
      <3> QED  BY <1>1, <1>4, <2>0, <2>2, <3>1
    <2>3. CASE v = u
      <3>1. Cardinality(Since(rate'[u], s))
              = Cardinality(Since(rate[u], s)) + (IF clock >= s THEN 1 ELSE 0)
        <4>1. Cardinality(Since(Recent(u), s)) = Cardinality(Since(rate[u], s))
          BY <1>1, <1>5, RecentKeeps
        <4>2. Cardinality(Since(Append(Recent(u), clock), s))
                = Cardinality(Since(Recent(u), s)) + (IF clock >= s THEN 1 ELSE 0)
          BY <1>1, SinceAppend
        <4> QED  BY <1>1, <4>1, <4>2
      <3>2. j \notin Pending(v, s)
        BY DEF Pending
      <3>3. CASE clock >= s
        <4>1. Pending(v, s)' \subseteq Pending(v, s) \cup {j}
          BY <1>2 DEF Pending
        <4>2. Cardinality(Pending(v, s) \cup {j}) = Cardinality(Pending(v, s)) + 1
              /\ IsFiniteSet(Pending(v, s) \cup {j})
          BY <2>1, <3>2, FS_AddElement
        <4>3. Cardinality(Pending(v, s)') <= Cardinality(Pending(v, s)) + 1
              /\ Cardinality(Pending(v, s)') \in Nat
          BY <4>1, <4>2, FS_Subset, FS_CardinalityType
        <4>4. Cardinality(Since(rate[u], s)) \in Nat
          BY <1>1, SinceFinite
        <4> QED  BY <1>4, <2>0, <2>1, <2>3, <3>1, <3>3, <4>3, <4>4
      <3>4. CASE ~(clock >= s)
        <4>1. Pending(v, s)' = Pending(v, s)
          BY <1>2, <2>3, <3>4 DEF Pending
        <4>2. Cardinality(Since(rate[u], s)) \in Nat
          BY <1>1, SinceFinite
        <4> QED  BY <1>4, <2>0, <2>3, <3>1, <3>4, <4>1, <4>2
      <3> QED  BY <3>3, <3>4
    <2> QED  BY <2>2, <2>3
  <1>6. ASSUME NEW v \in Peers, NEW t \in Nat
        PROVE  Cardinality(SentWithin(v, t)') + Cardinality(PendingWithin(v, t)') <= Limit
    <2>0. Cardinality(SentWithin(v, t)) + Cardinality(PendingWithin(v, t)) <= Limit
      BY <1>0 DEF WithinLimit
    <2>1. CASE v # u \/ t < clock
      <3>1. t < clock => t - clock \notin 0..(Window - 1)
        BY <1>1, <1>3
      <3>2. ~(next.op = "send.insert" /\ next.who = v /\ t - next.at \in 0..(Window - 1))
        BY <2>1, <3>1
      <3>3. j \notin PendingWithin(v, t)
        BY DEF PendingWithin
      <3>4. j \notin PendingWithin(v, t)'
        BY <1>2, <3>2 DEF PendingWithin
      <3>5. PendingWithin(v, t)' = PendingWithin(v, t)
        BY <1>2, <3>3, <3>4 DEF PendingWithin
      <3> QED  BY <1>4, <2>0, <3>5
    <2>2. CASE v = u /\ t >= clock
      <3>0. (IF clock < Window THEN 0 ELSE (clock - Window) + 1) \in Nat
        <4>1. clock < Window \/ clock - Window \in Nat
          BY <1>1, <1>3
        <4> QED  BY <4>1
      <3>1. PICK s \in Nat : s = IF clock < Window THEN 0 ELSE (clock - Window) + 1
        BY <3>0, Zenon
      <3>2. s + Window > clock
        BY <1>1, <1>3, <3>1
      <3>3. \A a \in Nat : t - a \in 0..(Window - 1) => a >= s
        BY <1>1, <1>3, <2>2, <3>1
      <3>4. SentWithin(u, t) \subseteq Sent(u, s)
        <4>1. \A i \in DOMAIN messages : messages[i] \in MessageType
          BY DEF ChatTypeOK
        <4>2. \A i \in DOMAIN messages : messages[i].admitted \in Nat
          BY <4>1 DEF MessageType
        <4> QED  BY <3>3, <4>2 DEF SentWithin, Sent
      <3>5. PendingWithin(u, t) \subseteq Pending(u, s)
        <4>1. \A i \in Jobs : job[i].op = "send.insert" => job[i].at \in Nat
          BY JobShapes
        <4> QED  BY <3>3, <4>1 DEF PendingWithin, Pending
      <3>6. /\ Sent(u, s) \in SUBSET DOMAIN messages /\ Pending(u, s) \in SUBSET Jobs
            /\ SentWithin(u, t) \in SUBSET DOMAIN messages /\ PendingWithin(u, t) \in SUBSET Jobs
        BY DEF Sent, Pending, SentWithin, PendingWithin
      <3>7. /\ Cardinality(SentWithin(u, t)) <= Cardinality(Sent(u, s))
            /\ Cardinality(PendingWithin(u, t)) <= Cardinality(Pending(u, s))
            /\ Cardinality(SentWithin(u, t)) \in Nat /\ Cardinality(Sent(u, s)) \in Nat
            /\ Cardinality(PendingWithin(u, t)) \in Nat /\ Cardinality(Pending(u, s)) \in Nat
            /\ IsFiniteSet(PendingWithin(u, t))
        BY <3>4, <3>5, <3>6, CountsFinite, FS_Subset
      <3>8. Cardinality(Sent(u, s)) + Cardinality(Pending(u, s)) <= Cardinality(Since(rate[u], s))
        BY <1>0, <3>2 DEF Remembered
      <3>9. /\ Cardinality(Since(rate[u], s)) <= Len(Recent(u))
            /\ Cardinality(Since(rate[u], s)) \in Nat
        BY <1>1, <3>2, RecentKeeps, SinceFinite
      <3>10. Len(Recent(u)) < Limit /\ Len(Recent(u)) \in Nat
        BY <1>1, <1>3 DEF OverLimit
      <3>11. Cardinality(SentWithin(u, t)) + Cardinality(PendingWithin(u, t)) + 1 <= Limit
        BY <1>3, <3>7, <3>8, <3>9, <3>10
      <3>12. PendingWithin(u, t)' \subseteq PendingWithin(u, t) \cup {j}
        BY <1>2 DEF PendingWithin
      <3>13. j \notin PendingWithin(u, t)
        BY DEF PendingWithin
      <3>14. /\ Cardinality(PendingWithin(u, t) \cup {j}) = Cardinality(PendingWithin(u, t)) + 1
             /\ IsFiniteSet(PendingWithin(u, t) \cup {j})
        BY <3>7, <3>13, FS_AddElement
      <3>15. /\ Cardinality(PendingWithin(u, t)') <= Cardinality(PendingWithin(u, t)) + 1
             /\ Cardinality(PendingWithin(u, t)') \in Nat
        BY <3>12, <3>14, FS_Subset, FS_CardinalityType
      <3> QED  BY <1>3, <1>4, <2>2, <3>7, <3>11, <3>15
    <2> QED  BY <1>1, <2>1, <2>2
  <1> QED  BY <1>5, <1>6 DEF Remembered, WithinLimit

(* Every step keeps the count.                                              *)
LEMMA MeteredStep ==
  ASSUME WidgetTypeOK, WidgetTypeOK', Metered, [Next]_widgetVars
  PROVE  Metered'
  <1>0. ChatTypeOK /\ ChatTypeOK' /\ faults \in Nat /\ clock \in Nat
    BY DEF WidgetTypeOK, ChatTypeOK
  <1>1. ASSUME NEW j \in Jobs, NEW ok \in BOOLEAN, SendCheck(j, ok)  PROVE Metered'
    <2>1. PICK u \in Peers : u = job[j].who
      BY <1>0, <1>1, JobShapes DEF SendCheck
    <2>2. CASE OrderAdmits /\ ~OverLimit(u)
      <3>1. PICK insert : insert = [op |-> "send.insert", who |-> u, unread |-> job[j].unread, at |-> clock]
        OBVIOUS
      <3>2. PICK next : next = IF ok THEN insert ELSE Idle
        OBVIOUS
      <3>3. next.op = "send.insert" => next.who = u /\ next.at = clock
        BY <3>1, <3>2 DEF Idle
      <3>4. /\ job[j].op = "send.check" /\ Become(j, next)
            /\ rate' = [rate EXCEPT ![u] = Append(Recent(u), clock)]
            /\ UNCHANGED <<messages, clock, faults>>
        BY <1>1, <2>1, <2>2, <3>1, <3>2 DEF SendCheck
      <3> QED  BY <1>0, <2>2, <3>3, <3>4, AdmitMetered
    <2>3. CASE ~(OrderAdmits /\ ~OverLimit(u))
      <3>1. /\ UNCHANGED <<messages, rate, clock, faults>> /\ Finish(j) /\ job[j].op = "send.check"
        BY <1>1, <2>1, <2>3 DEF SendCheck
      <3>2. \A k \in Jobs : \/ job'[k] = job[k]
                            \/ job[k].op # "send.insert" /\ job'[k].op # "send.insert"
        BY <1>0, <3>1 DEF Finish, Become, Idle, ChatTypeOK
      <3> QED  BY <1>0, <3>1, <3>2, StillMetered
    <2> QED  BY <2>2, <2>3
  <1>2. ASSUME NEW j \in Jobs, InsertMessage(j)  PROVE Metered'
    BY <1>0, <1>2, InsertMetered
  <1>3. ASSUME NEW j \in Jobs, NEW next, Become(j, next),
               job[j].op # "send.insert", next.op # "send.insert",
               UNCHANGED <<messages, rate, clock, faults>>
        PROVE  Metered'
    <2>1. \A k \in Jobs : \/ job'[k] = job[k]
                          \/ job[k].op # "send.insert" /\ job'[k].op # "send.insert"
      BY <1>0, <1>3 DEF Become, ChatTypeOK
    <2> QED  BY <1>0, <1>3, <2>1, StillMetered
  <1>4. ASSUME UNCHANGED <<messages, rate, job>>, clock' >= clock, faults' >= faults
        PROVE  Metered'
    BY <1>0, <1>4, StillMetered
  <1>5. ASSUME NEW j \in Jobs, SaveThread(j) \/ EmitSent(j) \/ MarkReadSave(j) \/ ArchiveSave(j)
        PROVE  Metered'
    <2>1. PICK next : \/ next = [op |-> "send.notify", who |-> job[j].who, id |-> job[j].id]
                           /\ Become(j, next)
                      \/ next = Idle /\ Become(j, next)
      BY <1>5 DEF SaveThread, EmitSent, MarkReadSave, ArchiveSave, Finish
    <2>2. next.op # "send.insert"
      BY <2>1 DEF Idle
    <2>3. job[j].op # "send.insert" /\ UNCHANGED <<messages, rate, clock, faults>>
      BY <1>5 DEF SaveThread, EmitSent, MarkReadSave, ArchiveSave, chatVars
    <2> QED  BY <1>3, <2>1, <2>2, <2>3
  <1>6. ASSUME NEW j \in Jobs,
               \/ ArchiveLoad(j) \/ \E status \in {"completed", "canceled"} : OrderEnds(j, status)
               \/ \E u \in Peers : SendLoad(j, u) \/ MarkReadLoad(j, u)
        PROVE  Metered'
    <2>1. PICK next : next.op # "send.insert" /\ Become(j, next)
      <3>1. ASSUME NEW u \in Peers, SendLoad(j, u) \/ MarkReadLoad(j, u)
            PROVE  \E next : next.op # "send.insert" /\ Become(j, next)
        BY <3>1 DEF SendLoad, MarkReadLoad
      <3>2. ASSUME ArchiveLoad(j) \/ \E status \in {"completed", "canceled"} : OrderEnds(j, status)
            PROVE  \E next : next.op # "send.insert" /\ Become(j, next)
        BY <3>2 DEF ArchiveLoad, OrderEnds
      <3> QED  BY <1>6, <3>1, <3>2
    <2>2. job[j].op # "send.insert" /\ UNCHANGED <<messages, rate, clock, faults>>
      <3>1. ASSUME NEW u \in Peers, SendLoad(j, u) \/ MarkReadLoad(j, u)
            PROVE  Free(j) /\ UNCHANGED <<messages, rate, clock, faults>>
        BY <3>1 DEF SendLoad, MarkReadLoad, chatVars
      <3>2. ASSUME ArchiveLoad(j) \/ \E status \in {"completed", "canceled"} : OrderEnds(j, status)
            PROVE  Free(j) /\ UNCHANGED <<messages, rate, clock, faults>>
        BY <3>2 DEF ArchiveLoad, OrderEnds, chatVars
      <3>3. Free(j) => job[j].op # "send.insert"
        BY DEF Free, Idle
      <3> QED  BY <1>6, <3>1, <3>2, <3>3
    <2> QED  BY <1>3, <2>1, <2>2
  <1>7. ASSUME faults' = faults + 1  PROVE Metered'
    BY <1>0, <1>7 DEF Metered
  <1>8. CASE ServerNext
    <2>1. ASSUME NEW u \in Watchers, Command(u) \/ Join(u) \/ LoseJoin(u)  PROVE Metered'
      BY <1>0, <1>4, <1>7, <2>1 DEF Command, Join, LoseJoin, Faulty, chatVars
    <2>2. CASE OrderCompletesSilently
      BY <1>0, <1>4, <2>2 DEF OrderCompletesSilently
    <2>3. CASE Tick /\ UNCHANGED <<chatVars, socket>>
      BY <1>0, <1>4, <2>3 DEF Tick, chatVars
    <2>4. ASSUME NEW j \in Jobs, ChatAbort(j)  PROVE Metered'
      BY <1>7, <2>4 DEF ChatAbort, Abort, Faulty
    <2> QED
      BY <1>1, <1>2, <1>5, <1>6, <1>8, <2>1, <2>2, <2>3, <2>4 DEF ServerNext, ServerStep
  <1>9. CASE Restart
    BY <1>7, <1>9 DEF Restart, Crash, Faulty
  <1>10. ASSUME NEW u \in Watchers, Disconnect(u) \/ FailThreads(u) \/ FailHistory(u)
         PROVE  Metered'
    BY <1>7, <1>10 DEF Disconnect, FailThreads, FailHistory, Faulty
  <1>11. ASSUME NEW u \in Watchers,
                WidgetStep(u) \/ TokenExpires(u) \/ OpenThread(u) \/ BackToList(u)
         PROVE  Metered'
    <2>1. UNCHANGED <<messages, rate, job, clock, faults>>
      BY <1>11
      DEF WidgetStep, Attempt, Arrivals, Connect, Refuse, LoadThreads, AnswerHistory, ShowHistory,
          ShowRead, HearMessage, HearRead, TokenExpires, OpenThread, BackToList, messagingVars,
          chatVars
    <2> QED  BY <1>0, <1>4, <2>1
  <1>12. ASSUME NEW u \in Watchers, NEW j \in Jobs, AskRead(j, u) \/ Send(j, u)  PROVE Metered'
    <2>1. u \in Peers
      BY MessagingAssumption
    <2> QED  BY <1>6, <1>12, <2>1 DEF AskRead, Send
  <1>13. CASE UNCHANGED widgetVars
    BY <1>0, <1>4, <1>13 DEF widgetVars, messagingVars, chatVars
  <1> QED  BY <1>8, <1>9, <1>10, <1>11, <1>12, <1>13 DEF Next, WidgetFails

LEMMA MeteredBegins == Init => Metered
  <1> SUFFICES ASSUME Init  PROVE Remembered /\ WithinLimit
    BY DEF Metered
  <1>1. ChatTypeOK
    BY BeginsShown DEF WidgetTypeOK
  <1>2. messages = <<>> /\ DOMAIN messages = {} /\ \A j \in Jobs : job[j].op = "idle"
    BY DEF Init, MessagingInit, BackendInit, Idle
  <1>3. \A u, s : Sent(u, s) = {} /\ Pending(u, s) = {} /\ SentWithin(u, s) = {} /\ PendingWithin(u, s) = {}
    BY <1>2 DEF Sent, Pending, SentWithin, PendingWithin
  <1>4. Cardinality({}) = 0
    BY FS_EmptySet
  <1>5. \A u \in Peers, s \in Nat : Cardinality(Since(rate[u], s)) \in Nat
    BY <1>1, SinceFinite DEF ChatTypeOK
  <1>6. Remembered
    <2> SUFFICES ASSUME NEW u \in Peers, NEW s \in Nat
                 PROVE  Cardinality(Sent(u, s)) + Cardinality(Pending(u, s))
                          <= Cardinality(Since(rate[u], s))
      BY DEF Remembered
    <2>1. Cardinality(Sent(u, s)) = 0 /\ Cardinality(Pending(u, s)) = 0
      BY <1>3, <1>4
    <2> QED  BY <1>5, <2>1
  <1>7. WithinLimit
    BY <1>3, <1>4, MessagingAssumption DEF WithinLimit
  <1> QED  BY <1>6, <1>7

(* While the process lives no user has more than Limit messages admitted    *)
(* within any Window, however many sends are in flight (enforceRateLimit,   *)
(* which counts a message before it is stored).                             *)
THEOREM RateIsLimited == Spec => []RateLimited
  <1>1. Spec => [](WidgetTypeOK /\ Metered)
    <2>1. Init => Metered
      BY MeteredBegins
    <2>2. WidgetTypeOK /\ WidgetTypeOK' /\ Metered /\ [Next]_widgetVars => Metered'
      BY MeteredStep
    <2>3. Spec => []WidgetTypeOK
      BY WidgetInvariant, PTL
    <2> QED  BY <2>1, <2>2, <2>3, PTL DEF Spec
  <1>2. WidgetTypeOK /\ Metered => RateLimited
    <2> SUFFICES ASSUME WidgetTypeOK, Metered, faults = 0, NEW u \in Peers, NEW i \in DOMAIN messages
                 PROVE  Cardinality({k \in DOMAIN messages :
                                      /\ messages[k].sender = u
                                      /\ messages[i].admitted - messages[k].admitted
                                           \in 0..(Window - 1)}) <= Limit
      BY DEF RateLimited
    <2>0. ChatTypeOK /\ Limit \in Nat
      BY MessagingAssumption DEF WidgetTypeOK
    <2>1. messages[i] \in MessageType
      BY <2>0 DEF ChatTypeOK
    <2>2. PICK t \in Nat : t = messages[i].admitted
      BY <2>1 DEF MessageType
    <2>3. Cardinality(SentWithin(u, t)) + Cardinality(PendingWithin(u, t)) <= Limit
      BY <2>2 DEF Metered, WithinLimit
    <2>4. SentWithin(u, t) \in SUBSET DOMAIN messages /\ PendingWithin(u, t) \in SUBSET Jobs
      BY DEF SentWithin, PendingWithin
    <2>5. Cardinality(SentWithin(u, t)) \in Nat /\ Cardinality(PendingWithin(u, t)) \in Nat
      BY <2>0, <2>4, CountsFinite
    <2>6. Cardinality(SentWithin(u, t)) <= Limit
      BY <2>0, <2>3, <2>5
    <2> QED  BY <2>2, <2>6 DEF SentWithin
  <1> QED  BY <1>1, <1>2, PTL
================================================================================
