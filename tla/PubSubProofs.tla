------------------------------ MODULE PubSubProofs ------------------------------
(***************************************************************************)
(* Proofs about the broker, for any topics, subscribers, goroutines and    *)
(* channel capacity: who closes a subscriber, the order of its messages,   *)
(* and that nothing is sent to it afterwards.                              *)
(***************************************************************************)
EXTENDS PubSub, FiniteSetTheorems, SequenceTheorems, TLAPS

-----------------------------------------------------------------------------
(* The inductive invariant *)

Registered(s) == \E t \in Topics : s \in topics[t]

\* Who visits subscribers has published something.
Visiting == \A p \in Publishers : publisher[p].visit # {} => publisher[p].count > 0

\* Only subscribers that exist are in the map, left, or closed.
Known ==
    /\ \A t \in Topics : \A s \in topics[t] : sub[s].topic = t
    /\ \A u \in Leavers : leaver[u] # NoSub => sub[leaver[u]].topic # NoTopic
    /\ \A c \in Closers : \A s \in closer[c].visit : sub[s].topic # NoTopic
    /\ \A s \in Subs : sub[s].closed => sub[s].topic # NoTopic

\* One Shutdown closes; it has emptied the map.
OneShutdown ==
    /\ \A c \in Closers : closer[c].visit # {} => closer[c].pc = "closing"
    /\ \A c, d \in Closers :
          closer[c].pc \in {"closing", "returned"}
             /\ closer[d].pc \in {"closing", "returned"} => c = d
    /\ (\E c \in Closers : closer[c].pc # "idle") => shutdown
    /\ shutdown => \A t \in Topics : topics[t] = {}

\* OneCloses, said of each goroutine that has a subscriber to close.
Responsible ==
    /\ \A s \in Subs : Registered(s) => ~sub[s].closed
    /\ \A u, v \in Leavers : leaver[u] # NoSub /\ leaver[u] = leaver[v] => u = v
    /\ \A s \in Subs :
          (\E u \in Leavers : leaver[u] = s) =>
              /\ ~sub[s].closed /\ ~Registered(s)
              /\ \A c \in Closers : s \notin closer[c].visit
    /\ \A s \in Subs :
          (\E c \in Closers : s \in closer[c].visit) =>
              ~sub[s].closed /\ ~Registered(s)
    /\ \A s \in Subs : sub[s].topic # NoTopic /\ ~sub[s].closed =>
          \/ Registered(s)
          \/ \E u \in Leavers : leaver[u] = s
          \/ \E c \in Closers : s \in closer[c].visit

\* A subscriber has no message that its publisher is still to offer.
Behind ==
    \A s \in Subs : \A i \in DOMAIN Got(s) : \A p \in Publishers :
        Got(s)[i][1] = p =>
            /\ Got(s)[i][2] <= publisher[p].count
            /\ s \in publisher[p].visit => Got(s)[i][2] < publisher[p].count

\* The part of the invariant about the map and the closing goroutines, and all of it.
Order == TypeOK /\ Visiting /\ Known /\ OneShutdown /\ Responsible
IInv == Order /\ Behind /\ InOrderAtMostOnce

-----------------------------------------------------------------------------
(* Lemmas about sequences *)

\* Receiving moves the first message of the channel to the end of what was
\* received: together they stay the same.
LEMMA MoveHead ==
    ASSUME NEW S, NEW r \in Seq(S), NEW c \in Seq(S), c # << >>
    PROVE  Append(r, Head(c)) \o Tail(c) = r \o c
<1> DEFINE a == Append(r, Head(c))
           b == Tail(c)
<1>1. /\ Head(c) \in S /\ b \in Seq(S) /\ Len(b) = Len(c) - 1
      /\ Len(c) \in Nat \ {0} /\ Len(r) \in Nat
      /\ \A i \in 1..Len(b) : b[i] = c[i + 1]
  BY HeadTailProperties, LenProperties, EmptySeq
<1>2. Head(c) = c[1]
  OBVIOUS
<1>3. /\ a \in Seq(S) /\ Len(a) = Len(r) + 1
      /\ \A i \in 1..Len(r) : a[i] = r[i]
      /\ a[Len(r) + 1] = c[1]
  BY <1>1, <1>2, AppendProperties
<1> HIDE DEF a, b
<1>4. /\ a \o b \in Seq(S) /\ Len(a \o b) = Len(a) + Len(b)
      /\ \A i \in 1..(Len(a) + Len(b)) :
            (a \o b)[i] = IF i <= Len(a) THEN a[i] ELSE b[i - Len(a)]
  BY <1>1, <1>3, ConcatProperties
<1>5. /\ r \o c \in Seq(S) /\ Len(r \o c) = Len(r) + Len(c)
      /\ \A i \in 1..(Len(r) + Len(c)) :
            (r \o c)[i] = IF i <= Len(r) THEN r[i] ELSE c[i - Len(r)]
  BY ConcatProperties
<1>6. Len(a) + Len(b) = Len(r) + Len(c)
  BY <1>1, <1>3
<1>7. ASSUME NEW i \in 1..(Len(r) + Len(c))
      PROVE  (a \o b)[i] = (r \o c)[i]
  <2>1. CASE i <= Len(r)
    BY <1>1, <1>3, <1>4, <1>5, <1>6, <2>1
  <2>2. CASE i = Len(r) + 1
    <3>1. i <= Len(a) /\ ~(i <= Len(r)) /\ i - Len(r) = 1
      BY <1>1, <1>3, <2>2
    <3>2. (a \o b)[i] = a[i] /\ (r \o c)[i] = c[1]
      BY <1>4, <1>5, <1>6, <3>1
    <3> QED
      BY <1>3, <2>2, <3>2
  <2>3. CASE i > Len(r) + 1
    <3>1. /\ i - Len(a) \in 1..Len(b) /\ (i - Len(a)) + 1 = i - Len(r)
          /\ ~(i <= Len(a)) /\ ~(i <= Len(r))
      BY <1>1, <1>3, <2>3
    <3>2. b[i - Len(a)] = c[(i - Len(a)) + 1]
      BY <1>1, <3>1
    <3> QED
      BY <1>4, <1>5, <1>6, <3>1, <3>2
  <2>4. i <= Len(r) \/ i = Len(r) + 1 \/ i > Len(r) + 1
    BY <1>1
  <2> QED
    BY <2>1, <2>2, <2>3, <2>4
<1>8. a \o b = r \o c
  BY <1>4, <1>5, <1>6, <1>7, SeqEqual
<1> QED
  BY <1>8 DEF a, b

\* A message that the channel takes comes last.
LEMMA ComesLast ==
    ASSUME NEW S, NEW r \in Seq(S), NEW c \in Seq(S), NEW m \in S
    PROVE  r \o Append(c, m) = Append(r \o c, m)
<1>1. <<m>> \in Seq(S) /\ r \o c \in Seq(S)
  BY ConcatProperties
<1>2. Append(c, m) = c \o <<m>> /\ Append(r \o c, m) = (r \o c) \o <<m>>
  BY <1>1, AppendIsConcat
<1> QED
  BY <1>1, <1>2, ConcatAssociative

\* A sequence is a suffix of itself.
LEMMA SuffixSelf ==
    ASSUME NEW S, NEW c \in Seq(S)
    PROVE  IsSuffix(c, c)
<1>1. Len(Reverse(c)) = Len(c) /\ Len(c) \in Nat
  BY LenProperties DEF Reverse
<1>2. Len(Reverse(c)) <= Len(Reverse(c))
  BY <1>1
<1> QED
  BY <1>2 DEF IsSuffix, IsPrefix

\* What a receive leaves of a channel is a suffix of it.
LEMMA SuffixTail ==
    ASSUME NEW S, NEW c \in Seq(S), c # << >>
    PROVE  IsSuffix(Tail(c), c)
<1> DEFINE b == Tail(c)
           n == Len(b)
           rb == Reverse(b)
           rc == Reverse(c)
<1>1. /\ b \in Seq(S) /\ Len(c) \in Nat /\ n \in Nat /\ n = Len(c) - 1
      /\ \A i \in 1..n : b[i] = c[i + 1]
  BY HeadTailProperties, LenProperties
<1>2. /\ rb = [i \in 1..n |-> b[(n - i) + 1]]
      /\ rc = [i \in 1..Len(c) |-> c[(Len(c) - i) + 1]]
  BY DEF Reverse
<1> HIDE DEF b, n, rb, rc
<1>3. /\ rb \in Seq(S) /\ Len(rb) = n
  <2>1. ASSUME NEW i \in 1..n PROVE b[(n - i) + 1] \in S
    <3>1. (n - i) + 1 \in 1..Len(b)
      BY <1>1 DEF n
    <3> QED
      BY <1>1, <3>1, ElementOfSeq
  <2> QED
    BY <1>1, <1>2, <2>1
<1>4. /\ rc \in Seq(S) /\ Len(rc) = Len(c)
  <2>1. ASSUME NEW i \in 1..Len(c) PROVE c[(Len(c) - i) + 1] \in S
    <3>1. (Len(c) - i) + 1 \in 1..Len(c)
      BY <1>1
    <3> QED
      BY <3>1, ElementOfSeq
  <2> QED
    BY <1>1, <1>2, <2>1
<1>5. /\ SubSeq(rb, 1, n) \in Seq(S) /\ Len(SubSeq(rb, 1, n)) = n
      /\ \A i \in 1..n : SubSeq(rb, 1, n)[i] = rb[i]
  BY <1>1, <1>3
<1>6. /\ SubSeq(rc, 1, n) \in Seq(S) /\ Len(SubSeq(rc, 1, n)) = n
      /\ \A i \in 1..n : SubSeq(rc, 1, n)[i] = rc[i]
  BY <1>1, <1>4
<1>7. ASSUME NEW i \in 1..n PROVE rb[i] = rc[i]
  <2>1. /\ (n - i) + 1 \in 1..n /\ i \in 1..Len(c)
        /\ ((n - i) + 1) + 1 = (Len(c) - i) + 1
    BY <1>1
  <2> QED
    BY <1>1, <1>2, <2>1
<1>8. SubSeq(rb, 1, n) = SubSeq(rc, 1, n)
  BY <1>5, <1>6, <1>7, SeqEqual
<1>9. IsPrefix(rb, rc)
  BY <1>1, <1>3, <1>4, <1>8 DEF IsPrefix
<1> QED
  BY <1>9 DEF IsSuffix, rb, rc, b

-----------------------------------------------------------------------------
(* Who closes a subscriber *)

\* A subscriber's record.
Subscriber(T, Q) == [topic : T \cup {NoTopic}, closed : BOOLEAN, ch : Q]

\* The other fields stay as they are when a topic is set.
LEMMA TopicSet ==
    ASSUME TypeOK, NEW s \in Subs, NEW t \in Topics, sub' = [sub EXCEPT ![s].topic = t]
    PROVE  /\ sub' \in [Subs -> Subscriber(Topics, Seq(Message))]
           /\ \A x \in Subs : /\ sub'[x].topic = IF x = s THEN t ELSE sub[x].topic
                              /\ sub'[x].closed = sub[x].closed
                              /\ sub'[x].ch = sub[x].ch
<1> DEFINE Q == Seq(Message)
<1>1. sub \in [Subs -> Subscriber(Topics, Q)]
  BY DEF TypeOK, Subscriber
<1> HIDE DEF Q
<1>2. /\ sub' \in [Subs -> Subscriber(Topics, Q)]
      /\ \A x \in Subs : /\ sub'[x].topic = IF x = s THEN t ELSE sub[x].topic
                         /\ sub'[x].closed = sub[x].closed
                         /\ sub'[x].ch = sub[x].ch
  BY <1>1 DEF Subscriber
<1> QED
  BY <1>2 DEF Q

\* The other fields stay as they are when a subscriber is closed.
LEMMA ClosedSet ==
    ASSUME TypeOK, NEW s \in Subs, sub' = [sub EXCEPT ![s].closed = TRUE]
    PROVE  /\ sub' \in [Subs -> Subscriber(Topics, Seq(Message))]
           /\ \A x \in Subs : /\ sub'[x].topic = sub[x].topic
                              /\ sub'[x].closed = IF x = s THEN TRUE ELSE sub[x].closed
                              /\ sub'[x].ch = sub[x].ch
<1> DEFINE Q == Seq(Message)
<1>1. sub \in [Subs -> Subscriber(Topics, Q)]
  BY DEF TypeOK, Subscriber
<1> HIDE DEF Q
<1>2. /\ sub' \in [Subs -> Subscriber(Topics, Q)]
      /\ \A x \in Subs : /\ sub'[x].topic = sub[x].topic
                         /\ sub'[x].closed = IF x = s THEN TRUE ELSE sub[x].closed
                         /\ sub'[x].ch = sub[x].ch
  BY <1>1 DEF Subscriber
<1> QED
  BY <1>2 DEF Q

\* The other fields stay as they are when a channel changes.
LEMMA ChannelSet ==
    ASSUME TypeOK, NEW s \in Subs, NEW q \in Seq(Message), sub' = [sub EXCEPT ![s].ch = q]
    PROVE  /\ sub' \in [Subs -> Subscriber(Topics, Seq(Message))]
           /\ \A x \in Subs : /\ sub'[x].topic = sub[x].topic
                              /\ sub'[x].closed = sub[x].closed
                              /\ sub'[x].ch = IF x = s THEN q ELSE sub[x].ch
<1> DEFINE Q == Seq(Message)
<1>1. sub \in [Subs -> Subscriber(Topics, Q)] /\ q \in Q
  BY DEF TypeOK, Subscriber
<1> HIDE DEF Q
<1>2. /\ sub' \in [Subs -> Subscriber(Topics, Q)]
      /\ \A x \in Subs : /\ sub'[x].topic = sub[x].topic
                         /\ sub'[x].closed = sub[x].closed
                         /\ sub'[x].ch = IF x = s THEN q ELSE sub[x].ch
  BY <1>1 DEF Subscriber
<1> QED
  BY <1>2 DEF Q

\* Every variable but the subscribers and what was received keeps its type.
Frame ==
    /\ topics \in [Topics -> SUBSET Subs]
    /\ shutdown \in BOOLEAN
    /\ publisher \in [Publishers -> [count : 0..MaxPublish, visit : SUBSET Subs]]
    /\ leaver \in [Leavers -> Subs \cup {NoSub}]
    /\ closer \in [Closers -> [pc : {"idle", "refused", "closing", "returned"},
                               visit : SUBSET Subs]]

\* The two halves of the types.
LEMMA Types ==
    TypeOK <=> /\ Frame
               /\ sub \in [Subs -> Subscriber(Topics, Seq(Message))]
               /\ \A s \in Subs : Len(sub[s].ch) <= BufferSize
               /\ received \in [Subs -> Seq(Message)]
  BY DEF TypeOK, Frame, Subscriber

\* The same after a step.
LEMMA TypesNext ==
    ASSUME Frame', sub' \in [Subs -> Subscriber(Topics, Seq(Message))],
           \A s \in Subs : Len(sub'[s].ch) <= BufferSize,
           received' \in [Subs -> Seq(Message)]
    PROVE  TypeOK'
  BY DEF TypeOK, Frame, Subscriber

\* The same after a step that changes neither subscribers nor what was received.
LEMMA TypesSame ==
    ASSUME Frame', TypeOK, UNCHANGED <<sub, received>>
    PROVE  TypeOK'
<1>1. /\ sub' \in [Subs -> Subscriber(Topics, Seq(Message))]
      /\ \A s \in Subs : Len(sub'[s].ch) <= BufferSize
      /\ received' \in [Subs -> Seq(Message)]
  BY Types
<1> QED
  BY <1>1, TypesNext

\* Known and Responsible speak of topics and closed only.
LEMMA SameSubscribers ==
    ASSUME Frame, Known, Responsible, UNCHANGED <<topics, leaver, closer>>,
           \A x \in Subs : sub'[x].topic = sub[x].topic /\ sub'[x].closed = sub[x].closed
    PROVE  Known' /\ Responsible'
<1>1. /\ \A t \in Topics : topics[t] \subseteq Subs
      /\ \A u \in Leavers : leaver[u] \in Subs \cup {NoSub}
      /\ \A c \in Closers : closer[c].visit \subseteq Subs
  BY DEF Frame
<1>2. Known'
  <2>1. \A t \in Topics : \A x \in topics'[t] : sub'[x].topic = t
    BY <1>1 DEF Known
  <2>2. \A u \in Leavers : leaver'[u] # NoSub => sub'[leaver'[u]].topic # NoTopic
    BY <1>1 DEF Known
  <2>3. \A c \in Closers : \A x \in closer'[c].visit : sub'[x].topic # NoTopic
    BY <1>1 DEF Known
  <2>4. \A x \in Subs : sub'[x].closed => sub'[x].topic # NoTopic
    BY DEF Known
  <2> QED
    BY <2>1, <2>2, <2>3, <2>4 DEF Known
<1>3. \A x \in Subs : Registered(x)' <=> Registered(x)
  BY DEF Registered
<1>4. Responsible'
  BY <1>3 DEF Responsible
<1> QED
  BY <1>2, <1>4

\* At the start nobody has subscribed.
LEMMA InitOrder == Init => Order
<1> SUFFICES ASSUME Init PROVE Order
  OBVIOUS
<1>1. TypeOK
  <2> DEFINE Q == Seq(Message)
  <2>1. << >> \in Q /\ Len(<< >>) = 0 /\ 0 <= BufferSize /\ 0 \in 0..MaxPublish
    BY EmptySeq, PubSubAssumption
  <2> HIDE DEF Q
  <2>2. /\ sub \in [Subs -> Subscriber(Topics, Q)]
        /\ \A s \in Subs : sub[s].ch = << >>
        /\ received \in [Subs -> Q]
    BY <2>1 DEF Init, Subscriber
  <2>3. \A s \in Subs : Len(sub[s].ch) <= BufferSize
    BY <2>1, <2>2
  <2>4. Frame
    BY <2>1 DEF Init, Frame
  <2> QED
    BY <2>2, <2>3, <2>4, Types DEF Q
<1>2. Visiting /\ Known /\ OneShutdown /\ Responsible
  BY PubSubAssumption DEF Init, Visiting, Known, OneShutdown, Responsible, Registered
<1> QED
  BY <1>1, <1>2 DEF Order

\* A new subscriber is open, in the map, and nobody's to close.
LEMMA SubscribeOrder ==
    ASSUME Order, NEW s \in Subs, NEW t \in Topics, Subscribe(s, t)
    PROVE  Order'
<1>0. TypeOK /\ Frame /\ Visiting /\ Known /\ OneShutdown /\ Responsible
  BY Types DEF Order
<1>1. /\ ~shutdown /\ sub[s].topic = NoTopic /\ t # NoTopic
      /\ sub' = [sub EXCEPT ![s].topic = t]
      /\ topics' = [topics EXCEPT ![t] = @ \cup {s}]
      /\ UNCHANGED <<shutdown, publisher, leaver, closer, received>>
  BY PubSubAssumption DEF Subscribe
<1>2. /\ sub' \in [Subs -> Subscriber(Topics, Seq(Message))]
      /\ \A x \in Subs : /\ sub'[x].topic = IF x = s THEN t ELSE sub[x].topic
                         /\ sub'[x].closed = sub[x].closed
                         /\ sub'[x].ch = sub[x].ch
  BY <1>0, <1>1, TopicSet
<1>3. /\ topics'[t] = topics[t] \cup {s}
      /\ \A w \in Topics : w # t => topics'[w] = topics[w]
      /\ \A w \in Topics : topics[w] \subseteq Subs
      /\ \A c \in Closers : closer[c].visit \subseteq Subs
  BY <1>0, <1>1 DEF Frame
<1>4. TypeOK'
  <2>1. Frame'
    BY <1>0, <1>1 DEF Frame
  <2>2. received' \in [Subs -> Seq(Message)] /\ \A x \in Subs : Len(sub'[x].ch) <= BufferSize
    BY <1>0, <1>1, <1>2, Types
  <2> QED
    BY <1>2, <2>1, <2>2, TypesNext
<1>5. /\ \A w \in Topics : s \notin topics[w]
      /\ \A u \in Leavers : leaver[u] # s
      /\ \A c \in Closers : s \notin closer[c].visit
      /\ ~sub[s].closed
  BY <1>0, <1>1, PubSubAssumption DEF Known
<1>6. Visiting' /\ OneShutdown'
  BY <1>0, <1>1 DEF Visiting, OneShutdown
<1>7. Known'
  <2>1. \A w \in Topics : \A x \in topics'[w] : sub'[x].topic = w
    BY <1>0, <1>2, <1>3, <1>5 DEF Known
  <2>2. \A u \in Leavers : leaver'[u] # NoSub => sub'[leaver'[u]].topic # NoTopic
    BY <1>0, <1>1, <1>2, <1>5 DEF Known, Frame
  <2>3. \A c \in Closers : \A x \in closer'[c].visit : sub'[x].topic # NoTopic
    BY <1>0, <1>1, <1>2, <1>3, <1>5 DEF Known
  <2>4. \A x \in Subs : sub'[x].closed => sub'[x].topic # NoTopic
    BY <1>0, <1>1, <1>2 DEF Known
  <2> QED
    BY <2>1, <2>2, <2>3, <2>4 DEF Known
<1>8. \A x \in Subs : Registered(x)' <=> Registered(x) \/ x = s
  BY <1>3 DEF Registered
<1>9. Responsible'
  BY <1>0, <1>1, <1>2, <1>5, <1>8 DEF Responsible
<1> QED
  BY <1>4, <1>6, <1>7, <1>9 DEF Order

\* Publishing does not touch who is subscribed.
LEMMA PublishOrder ==
    ASSUME Order, NEW p \in Publishers, NEW t \in Topics, Publish(p, t)
    PROVE  Order'
<1>0. TypeOK /\ Frame /\ Visiting /\ Known /\ OneShutdown /\ Responsible
  BY Types DEF Order
<1>1. /\ publisher' = [publisher EXCEPT ![p] = [count |-> @.count + 1,
                                                visit |-> topics[t]]]
      /\ publisher[p].count < MaxPublish
      /\ UNCHANGED <<topics, shutdown, sub, leaver, closer, received>>
  BY DEF Publish
<1>2. publisher[p].count + 1 \in 1..MaxPublish
  BY <1>0, <1>1, PubSubAssumption DEF Frame
<1>3. Frame'
  BY <1>0, <1>1, <1>2 DEF Frame
<1>4. TypeOK'
  <2>1. /\ sub' = sub /\ received' = received
    BY <1>1
  <2> QED
    BY <1>0, <1>3, <2>1, TypesSame
<1>5. Visiting'
  BY <1>0, <1>1, <1>2 DEF Visiting, Frame
<1>6. Known' /\ OneShutdown' /\ Responsible'
  BY <1>0, <1>1 DEF Known, OneShutdown, Responsible, Registered
<1> QED
  BY <1>4, <1>5, <1>6 DEF Order

\* What a visit does to the subscriber: its channel may take the message.
LEMMA Visited ==
    ASSUME TypeOK, Visiting, NEW p \in Publishers, NEW s \in Subs, PublishVisit(p, s)
    PROVE  LET m == <<p, publisher[p].count>>
           IN /\ m \in Message
              /\ sub' \in [Subs -> Subscriber(Topics, Seq(Message))]
              /\ \A x \in Subs : /\ sub'[x].topic = sub[x].topic
                                 /\ sub'[x].closed = sub[x].closed
                                 /\ x # s => sub'[x].ch = sub[x].ch
                                 /\ Len(sub'[x].ch) <= BufferSize
              /\ \/ sub' = sub
                 \/ ~sub[s].closed /\ sub'[s].ch = Append(sub[s].ch, m)
<1> DEFINE m == <<p, publisher[p].count>>
<1>0. /\ Frame /\ sub \in [Subs -> Subscriber(Topics, Seq(Message))]
      /\ \A x \in Subs : Len(sub[x].ch) <= BufferSize
  BY Types
<1>1. m \in Message
  <2>1. publisher[p].visit # {} /\ publisher[p].count \in 0..MaxPublish
    BY <1>0 DEF Frame, PublishVisit
  <2>2. publisher[p].count \in 1..MaxPublish
    BY <2>1, PubSubAssumption DEF Visiting
  <2> QED
    BY <2>2 DEF Message
<1> HIDE DEF m
<1>2. sub[s].ch \in Seq(Message)
  BY <1>0 DEF Subscriber
<1>3. /\ Append(sub[s].ch, m) \in Seq(Message)
      /\ Len(Append(sub[s].ch, m)) = Len(sub[s].ch) + 1
      /\ Len(sub[s].ch) \in Nat
  BY <1>1, <1>2, AppendProperties, LenProperties
<1>4. CASE sub' = sub
  BY <1>0, <1>1, <1>4 DEF m
<1>5. CASE ~sub[s].closed /\ Len(sub[s].ch) < BufferSize
           /\ sub' = [sub EXCEPT ![s].ch = Append(@, m)]
  <2>1. Len(Append(sub[s].ch, m)) <= BufferSize
    BY <1>3, <1>5, PubSubAssumption
  <2>2. sub' = [sub EXCEPT ![s].ch = Append(sub[s].ch, m)]
    BY <1>5
  <2>3. /\ sub' \in [Subs -> Subscriber(Topics, Seq(Message))]
        /\ \A x \in Subs : /\ sub'[x].topic = sub[x].topic
                           /\ sub'[x].closed = sub[x].closed
                           /\ sub'[x].ch = IF x = s THEN Append(sub[s].ch, m)
                                                    ELSE sub[x].ch
    BY <1>3, <2>2, ChannelSet
  <2> QED
    BY <1>0, <1>1, <1>5, <2>1, <2>3 DEF m
<1> QED
  BY <1>4, <1>5 DEF PublishVisit, Offered, m

\* A visit changes at most what is in a channel.
LEMMA VisitOrder ==
    ASSUME Order, NEW p \in Publishers, NEW s \in Subs, PublishVisit(p, s)
    PROVE  Order'
<1>0. TypeOK /\ Frame /\ Visiting /\ Known /\ OneShutdown /\ Responsible
  BY Types DEF Order
<1>1. /\ publisher' = [publisher EXCEPT ![p].visit = @ \ {s}]
      /\ UNCHANGED <<topics, shutdown, leaver, closer, received>>
  BY DEF PublishVisit
<1>2. /\ sub' \in [Subs -> Subscriber(Topics, Seq(Message))]
      /\ \A x \in Subs : /\ sub'[x].topic = sub[x].topic
                         /\ sub'[x].closed = sub[x].closed
                         /\ Len(sub'[x].ch) <= BufferSize
  BY <1>0, Visited
<1>3. Frame'
  BY <1>0, <1>1 DEF Frame
<1>4. TypeOK'
  <2>1. received' \in [Subs -> Seq(Message)]
    BY <1>0, <1>1, Types
  <2> QED
    BY <1>2, <1>3, <2>1, TypesNext
<1>5. Visiting'
  BY <1>0, <1>1 DEF Visiting, Frame
<1>6. OneShutdown'
  BY <1>0, <1>1 DEF OneShutdown
<1>7. Known' /\ Responsible'
  BY <1>0, <1>1, <1>2, SameSubscribers
<1> QED
  BY <1>4, <1>5, <1>6, <1>7 DEF Order

\* What is left is still to be closed, and by the one who took it out of the map.
LEMMA UnsubscribeOrder ==
    ASSUME Order, NEW u \in Leavers, NEW t \in Topics, NEW s \in Subs,
           Unsubscribe(u, t, s)
    PROVE  Order'
<1>0. TypeOK /\ Frame /\ Visiting /\ Known /\ OneShutdown /\ Responsible
  BY Types DEF Order
<1>1. /\ leaver[u] = NoSub /\ s \in topics[t]
      /\ topics' = [topics EXCEPT ![t] = @ \ {s}]
      /\ leaver' = [leaver EXCEPT ![u] = s]
      /\ UNCHANGED <<shutdown, sub, publisher, closer, received>>
  BY DEF Unsubscribe
<1>2. /\ topics'[t] = topics[t] \ {s}
      /\ \A w \in Topics : w # t => topics'[w] = topics[w]
      /\ leaver'[u] = s /\ s # NoSub
      /\ \A v \in Leavers : v # u => leaver'[v] = leaver[v]
  BY <1>0, <1>1, PubSubAssumption DEF Frame
<1>3. TypeOK'
  <2>1. Frame'
    BY <1>0, <1>1 DEF Frame
  <2>2. sub' = sub /\ received' = received
    BY <1>1
  <2> QED
    BY <1>0, <2>1, <2>2, TypesSame
<1>4. sub[s].topic = t /\ t # NoTopic /\ Registered(s) /\ ~sub[s].closed
  BY <1>0, <1>1, PubSubAssumption DEF Known, Responsible, Registered
<1>5. Visiting' /\ Known'
  BY <1>0, <1>1, <1>2, <1>4 DEF Visiting, Known
<1>6. OneShutdown'
  BY <1>0, <1>1 DEF OneShutdown
<1>7. /\ ~Registered(s)'
      /\ \A x \in Subs : x # s => (Registered(x)' <=> Registered(x))
  <2>1. \A w \in Topics : s \notin topics'[w]
    BY <1>0, <1>1, <1>2, <1>4 DEF Known
  <2> QED
    BY <1>2, <2>1 DEF Registered
<1>8. /\ \A v \in Leavers : leaver[v] # s
      /\ \A c \in Closers : s \notin closer[c].visit
  BY <1>0, <1>4 DEF Responsible
<1>9. Responsible'
  <2>1. \A x \in Subs : Registered(x)' => ~sub'[x].closed
    BY <1>0, <1>1, <1>7 DEF Responsible
  <2>2. \A v, w \in Leavers : leaver'[v] # NoSub /\ leaver'[v] = leaver'[w] => v = w
    BY <1>0, <1>2, <1>8 DEF Responsible
  <2>3. \A x \in Subs : (\E v \in Leavers : leaver'[v] = x) =>
            /\ ~sub'[x].closed /\ ~Registered(x)'
            /\ \A c \in Closers : x \notin closer'[c].visit
    BY <1>0, <1>1, <1>2, <1>4, <1>7, <1>8 DEF Responsible
  <2>4. \A x \in Subs : (\E c \in Closers : x \in closer'[c].visit) =>
            ~sub'[x].closed /\ ~Registered(x)'
    BY <1>0, <1>1, <1>7 DEF Responsible
  <2>5. ASSUME NEW x \in Subs, sub'[x].topic # NoTopic, ~sub'[x].closed
        PROVE  \/ Registered(x)'
               \/ \E v \in Leavers : leaver'[v] = x
               \/ \E c \in Closers : x \in closer'[c].visit
    <3>1. CASE x = s
      BY <1>2, <3>1
    <3>2. CASE x # s
      <4>1. \/ Registered(x)
            \/ \E v \in Leavers : leaver[v] = x
            \/ \E c \in Closers : x \in closer[c].visit
        BY <1>0, <1>1, <2>5 DEF Responsible
      <4>2. \A v \in Leavers : leaver[v] = x => v # u
        BY <1>1, PubSubAssumption
      <4> QED
        BY <1>1, <1>2, <1>7, <3>2, <4>1, <4>2
    <3> QED
      BY <3>1, <3>2
  <2> QED
    BY <2>1, <2>2, <2>3, <2>4, <2>5 DEF Responsible
<1> QED
  BY <1>3, <1>5, <1>6, <1>9 DEF Order

\* The one who is responsible closes, once.
LEMMA UnsubscribeCloseOrder ==
    ASSUME Order, NEW u \in Leavers, UnsubscribeClose(u)
    PROVE  Order'
<1>0. TypeOK /\ Frame /\ Visiting /\ Known /\ OneShutdown /\ Responsible
  BY Types DEF Order
<1>1. PICK s \in Subs :
          /\ leaver[u] = s /\ s # NoSub
          /\ sub' = [sub EXCEPT ![s].closed = TRUE]
          /\ leaver' = [leaver EXCEPT ![u] = NoSub]
          /\ UNCHANGED <<topics, shutdown, publisher, closer, received>>
  BY <1>0 DEF UnsubscribeClose, Frame
<1>2. /\ sub' \in [Subs -> Subscriber(Topics, Seq(Message))]
      /\ \A x \in Subs : /\ sub'[x].topic = sub[x].topic
                         /\ sub'[x].closed = IF x = s THEN TRUE ELSE sub[x].closed
                         /\ sub'[x].ch = sub[x].ch
  BY <1>0, <1>1, ClosedSet
<1>3. /\ leaver'[u] = NoSub /\ NoSub \notin Subs
      /\ \A v \in Leavers : v # u => leaver'[v] = leaver[v]
  BY <1>0, <1>1, PubSubAssumption DEF Frame
<1>4. TypeOK'
  <2>1. Frame'
    BY <1>0, <1>1 DEF Frame
  <2>2. received' \in [Subs -> Seq(Message)] /\ \A x \in Subs : Len(sub'[x].ch) <= BufferSize
    BY <1>0, <1>1, <1>2, Types
  <2> QED
    BY <1>2, <2>1, <2>2, TypesNext
<1>5. Visiting' /\ OneShutdown'
  BY <1>0, <1>1 DEF Visiting, OneShutdown
<1>6. Known'
  <2>1. \A w \in Topics : \A x \in topics'[w] : sub'[x].topic = w
    BY <1>0, <1>1, <1>2 DEF Known, Frame
  <2>2. \A v \in Leavers : leaver'[v] # NoSub => sub'[leaver'[v]].topic # NoTopic
    BY <1>0, <1>2, <1>3 DEF Known, Frame
  <2>3. \A c \in Closers : \A x \in closer'[c].visit : sub'[x].topic # NoTopic
    BY <1>0, <1>1, <1>2 DEF Known, Frame
  <2>4. \A x \in Subs : sub'[x].closed => sub'[x].topic # NoTopic
    BY <1>0, <1>1, <1>2 DEF Known
  <2> QED
    BY <2>1, <2>2, <2>3, <2>4 DEF Known
<1>7. /\ \A v \in Leavers : leaver'[v] # s
      /\ \A c \in Closers : s \notin closer[c].visit
      /\ ~Registered(s)
  BY <1>0, <1>1, <1>3 DEF Responsible
<1>8. Responsible'
  <2>1. \A x \in Subs : Registered(x)' <=> Registered(x)
    BY <1>1 DEF Registered
  <2> QED
    BY <1>0, <1>1, <1>2, <1>3, <1>7, <2>1 DEF Responsible
<1> QED
  BY <1>4, <1>5, <1>6, <1>8 DEF Order

\* Shutdown takes all that is in the map, and is the only one to close it.
LEMMA ShutdownOrder ==
    ASSUME Order, NEW c \in Closers, Shutdown(c)
    PROVE  Order'
<1>0. TypeOK /\ Frame /\ Visiting /\ Known /\ OneShutdown /\ Responsible
  BY Types DEF Order
<1>1. closer[c].pc = "idle" /\ UNCHANGED <<sub, publisher, leaver, received>>
  BY DEF Shutdown
<1>2. Visiting'
  BY <1>0, <1>1 DEF Visiting
<1>3. CASE shutdown
  <2>1. /\ closer' = [closer EXCEPT ![c].pc = "refused"]
        /\ UNCHANGED <<topics, shutdown>>
    BY <1>3 DEF Shutdown
  <2>2. /\ Frame' /\ closer'[c].pc = "refused"
        /\ \A d \in Closers : /\ closer'[d].visit = closer[d].visit
                              /\ d # c => closer'[d].pc = closer[d].pc
    BY <1>0, <1>1, <2>1 DEF Frame
  <2>3. closer[c].visit = {}
    BY <1>0, <1>1 DEF OneShutdown
  <2>4. TypeOK'
    <3>1. sub' = sub /\ received' = received
      BY <1>1
    <3> QED
      BY <1>0, <2>2, <3>1, TypesSame
  <2>5. OneShutdown'
    BY <1>0, <1>3, <2>1, <2>2, <2>3 DEF OneShutdown
  <2>6. Known' /\ Responsible'
    BY <1>0, <1>1, <2>1, <2>2 DEF Known, Responsible, Registered
  <2> QED
    BY <1>2, <2>4, <2>5, <2>6 DEF Order
<1>4. CASE ~shutdown
  <2>1. /\ closer' = [closer EXCEPT ![c] = [pc |-> "closing",
                          visit |-> UNION {topics[t] : t \in Topics}]]
        /\ topics' = [t \in Topics |-> {}]
        /\ shutdown' = TRUE
    BY <1>4 DEF Shutdown
  <2>2. UNION {topics[t] : t \in Topics} \subseteq Subs
    BY <1>0 DEF Frame
  <2>3. Frame'
    BY <1>0, <1>1, <2>1, <2>2 DEF Frame
  <2>4. TypeOK'
    <3>1. sub' = sub /\ received' = received
      BY <1>1
    <3> QED
      BY <1>0, <2>3, <3>1, TypesSame
  <2>5. /\ closer'[c].pc = "closing"
        /\ \A x \in Subs : x \in closer'[c].visit <=> Registered(x)
        /\ \A d \in Closers : d # c => closer'[d] = closer[d]
    BY <1>0, <2>1 DEF Frame, Registered
  <2>6. \A d \in Closers : closer[d].pc = "idle" /\ closer[d].visit = {}
    BY <1>0, <1>4 DEF OneShutdown
  <2>7. /\ \A t \in Topics : topics'[t] = {}
        /\ \A x \in Subs : ~Registered(x)'
    BY <2>1 DEF Registered
  <2>8. OneShutdown'
    BY <2>1, <2>5, <2>6, <2>7 DEF OneShutdown
  <2>9. \A x \in Subs : Registered(x) => sub[x].topic # NoTopic
    BY <1>0, PubSubAssumption DEF Known, Registered
  <2>10. \A x \in closer'[c].visit : x \in Subs
    BY <2>1, <2>5, <2>3 DEF Frame
  <2>11. Known'
    BY <1>0, <1>1, <2>5, <2>6, <2>7, <2>9, <2>10 DEF Known
  <2>12. Responsible'
    BY <1>0, <1>1, <2>5, <2>6, <2>7 DEF Responsible
  <2> QED
    BY <1>2, <2>4, <2>8, <2>11, <2>12 DEF Order
<1> QED
  BY <1>3, <1>4

\* The one Shutdown closes what it took.
LEMMA ShutdownCloseOrder ==
    ASSUME Order, NEW c \in Closers, NEW s \in Subs, ShutdownClose(c, s)
    PROVE  Order'
<1>0. TypeOK /\ Frame /\ Visiting /\ Known /\ OneShutdown /\ Responsible
  BY Types DEF Order
<1>1. /\ s \in closer[c].visit
      /\ sub' = [sub EXCEPT ![s].closed = TRUE]
      /\ closer' = [closer EXCEPT ![c].visit = @ \ {s}]
      /\ UNCHANGED <<topics, shutdown, publisher, leaver, received>>
  BY DEF ShutdownClose
<1>2. /\ sub' \in [Subs -> Subscriber(Topics, Seq(Message))]
      /\ \A x \in Subs : /\ sub'[x].topic = sub[x].topic
                         /\ sub'[x].closed = IF x = s THEN TRUE ELSE sub[x].closed
                         /\ sub'[x].ch = sub[x].ch
  BY <1>0, <1>1, ClosedSet
<1>3. /\ closer'[c].visit = closer[c].visit \ {s}
      /\ \A d \in Closers : closer'[d].pc = closer[d].pc
      /\ \A d \in Closers : d # c => closer'[d].visit = closer[d].visit
  BY <1>0, <1>1 DEF Frame
<1>4. TypeOK'
  <2>1. Frame'
    BY <1>0, <1>1 DEF Frame
  <2>2. received' \in [Subs -> Seq(Message)] /\ \A x \in Subs : Len(sub'[x].ch) <= BufferSize
    BY <1>0, <1>1, <1>2, Types
  <2> QED
    BY <1>2, <2>1, <2>2, TypesNext
<1>5. Visiting'
  BY <1>0, <1>1 DEF Visiting
<1>6. OneShutdown'
  BY <1>0, <1>1, <1>3 DEF OneShutdown
<1>7. /\ \A d \in Closers : s \notin closer'[d].visit
      /\ \A d \in Closers : closer'[d].visit \subseteq closer[d].visit
      /\ \A x \in Subs : x # s => \A d \in Closers :
            x \in closer'[d].visit <=> x \in closer[d].visit
  <2>1. ASSUME NEW d \in Closers, s \in closer[d].visit PROVE d = c
    BY <1>0, <1>1, <2>1 DEF OneShutdown
  <2> QED
    BY <1>3, <2>1
<1>8. Known'
  <2>1. \A w \in Topics : \A x \in topics'[w] : sub'[x].topic = w
    BY <1>0, <1>1, <1>2 DEF Known, Frame
  <2>2. \A v \in Leavers : leaver'[v] # NoSub => sub'[leaver'[v]].topic # NoTopic
    BY <1>0, <1>1, <1>2 DEF Known, Frame
  <2>3. \A d \in Closers : \A x \in closer'[d].visit : sub'[x].topic # NoTopic
    BY <1>0, <1>2, <1>7 DEF Known, Frame
  <2>4. \A x \in Subs : sub'[x].closed => sub'[x].topic # NoTopic
    BY <1>0, <1>1, <1>2 DEF Known
  <2> QED
    BY <2>1, <2>2, <2>3, <2>4 DEF Known
<1>9. Responsible'
  <2>1. \A x \in Subs : Registered(x)' <=> Registered(x)
    BY <1>1 DEF Registered
  <2>2. ~Registered(s) /\ \A v \in Leavers : leaver[v] # s
    BY <1>0, <1>1 DEF Responsible
  <2> QED
    BY <1>0, <1>1, <1>2, <1>7, <2>1, <2>2 DEF Responsible
<1> QED
  BY <1>4, <1>5, <1>6, <1>8, <1>9 DEF Order

\* Shutdown returns when it has nothing left to close.
LEMMA ShutdownReturnOrder ==
    ASSUME Order, NEW c \in Closers, ShutdownReturn(c)
    PROVE  Order'
<1>0. TypeOK /\ Frame /\ Visiting /\ Known /\ OneShutdown /\ Responsible
  BY Types DEF Order
<1>1. /\ closer[c].pc = "closing" /\ closer[c].visit = {}
      /\ closer' = [closer EXCEPT ![c].pc = "returned"]
      /\ UNCHANGED <<topics, shutdown, sub, publisher, leaver, received>>
  BY DEF ShutdownReturn
<1>2. /\ Frame' /\ closer'[c].pc = "returned"
      /\ \A d \in Closers : /\ closer'[d].visit = closer[d].visit
                            /\ d # c => closer'[d].pc = closer[d].pc
  BY <1>0, <1>1 DEF Frame
<1>3. TypeOK'
  BY <1>0, <1>1, <1>2, TypesSame
<1>4. Visiting'
  BY <1>0, <1>1 DEF Visiting
<1>5. OneShutdown'
  BY <1>0, <1>1, <1>2 DEF OneShutdown
<1>6. Known' /\ Responsible'
  BY <1>0, <1>1, <1>2 DEF Known, Responsible, Registered
<1> QED
  BY <1>3, <1>4, <1>5, <1>6 DEF Order

\* What a receive does to the subscriber, and that together what was received and
\* what is in the channel stay the same.
LEMMA Received ==
    ASSUME TypeOK, NEW s \in Subs, Receive(s)
    PROVE  /\ sub' \in [Subs -> Subscriber(Topics, Seq(Message))]
           /\ \A x \in Subs : /\ sub'[x].topic = sub[x].topic
                              /\ sub'[x].closed = sub[x].closed
                              /\ sub'[x].ch = IF x = s THEN Tail(sub[s].ch)
                                                       ELSE sub[x].ch
                              /\ Len(sub'[x].ch) <= BufferSize
           /\ received' \in [Subs -> Seq(Message)]
           /\ \A x \in Subs : Got(x)' = Got(x)
<1>0. /\ sub \in [Subs -> Subscriber(Topics, Seq(Message))]
      /\ \A x \in Subs : Len(sub[x].ch) <= BufferSize
      /\ received \in [Subs -> Seq(Message)]
  BY Types
<1>1. /\ sub[s].ch # << >>
      /\ received' = [received EXCEPT ![s] = Append(received[s], Head(sub[s].ch))]
      /\ sub' = [sub EXCEPT ![s].ch = Tail(sub[s].ch)]
  BY DEF Receive
<1>2. sub[s].ch \in Seq(Message) /\ received[s] \in Seq(Message)
  BY <1>0 DEF Subscriber
<1>3. /\ Head(sub[s].ch) \in Message /\ Tail(sub[s].ch) \in Seq(Message)
      /\ Len(Tail(sub[s].ch)) = Len(sub[s].ch) - 1 /\ Len(sub[s].ch) \in Nat
  BY <1>1, <1>2, HeadTailProperties, LenProperties
<1>4. /\ sub' \in [Subs -> Subscriber(Topics, Seq(Message))]
      /\ \A x \in Subs : /\ sub'[x].topic = sub[x].topic
                         /\ sub'[x].closed = sub[x].closed
                         /\ sub'[x].ch = IF x = s THEN Tail(sub[s].ch) ELSE sub[x].ch
  BY <1>1, <1>3, ChannelSet
<1>5. Len(Tail(sub[s].ch)) <= BufferSize
  <2>1. Len(sub[s].ch) <= BufferSize /\ BufferSize \in Nat
    BY <1>0, PubSubAssumption
  <2> QED
    BY <1>3, <2>1
<1>6. \A x \in Subs : Len(sub'[x].ch) <= BufferSize
  BY <1>0, <1>4, <1>5
<1>7. Append(received[s], Head(sub[s].ch)) \in Seq(Message)
  BY <1>2, <1>3, AppendProperties
<1>8. /\ received' \in [Subs -> Seq(Message)]
      /\ received'[s] = Append(received[s], Head(sub[s].ch))
      /\ \A x \in Subs : x # s => received'[x] = received[x]
  BY <1>0, <1>1, <1>7
<1>9. Append(received[s], Head(sub[s].ch)) \o Tail(sub[s].ch) = received[s] \o sub[s].ch
  BY <1>1, <1>2, MoveHead
<1>10. ASSUME NEW x \in Subs PROVE Got(x)' = Got(x)
  <2>1. CASE x = s
    BY <1>4, <1>8, <1>9, <2>1 DEF Got
  <2>2. CASE x # s
    BY <1>4, <1>8, <2>2 DEF Got
  <2> QED
    BY <2>1, <2>2
<1> QED
  BY <1>4, <1>6, <1>8, <1>10

\* A receive changes nobody's subscription.
LEMMA ReceiveOrder ==
    ASSUME Order, NEW s \in Subs, Receive(s)
    PROVE  Order'
<1>0. TypeOK /\ Frame /\ Visiting /\ Known /\ OneShutdown /\ Responsible
  BY Types DEF Order
<1>1. UNCHANGED <<topics, shutdown, publisher, leaver, closer>>
  BY DEF Receive
<1>2. /\ sub' \in [Subs -> Subscriber(Topics, Seq(Message))]
      /\ \A x \in Subs : /\ sub'[x].topic = sub[x].topic
                         /\ sub'[x].closed = sub[x].closed
                         /\ Len(sub'[x].ch) <= BufferSize
      /\ received' \in [Subs -> Seq(Message)]
  BY <1>0, Received
<1>3. Frame'
  BY <1>0, <1>1 DEF Frame
<1>4. TypeOK'
  BY <1>2, <1>3, TypesNext
<1>5. Visiting' /\ OneShutdown'
  BY <1>0, <1>1 DEF Visiting, OneShutdown
<1>6. Known' /\ Responsible'
  BY <1>0, <1>1, <1>2, SameSubscribers
<1> QED
  BY <1>4, <1>5, <1>6 DEF Order

\* The steps together.
LEMMA NextOrder == Order /\ [Next]_vars => Order'
<1> SUFFICES ASSUME Order, [Next]_vars PROVE Order'
  OBVIOUS
<1>1. CASE \E s \in Subs, t \in Topics : Subscribe(s, t)
  BY <1>1, SubscribeOrder
<1>2. CASE \E p \in Publishers, t \in Topics : Publish(p, t)
  BY <1>2, PublishOrder
<1>3. CASE \E p \in Publishers : PublisherStep(p)
  BY <1>3, VisitOrder DEF PublisherStep
<1>4. CASE \E u \in Leavers, t \in Topics, s \in Subs : Unsubscribe(u, t, s)
  BY <1>4, UnsubscribeOrder
<1>5. CASE \E u \in Leavers : UnsubscribeClose(u)
  BY <1>5, UnsubscribeCloseOrder
<1>6. CASE \E c \in Closers : Shutdown(c) \/ CloserStep(c)
  BY <1>6, ShutdownOrder, ShutdownCloseOrder, ShutdownReturnOrder DEF CloserStep
<1>7. CASE \E s \in Subs : Receive(s)
  BY <1>7, ReceiveOrder
<1>8. CASE UNCHANGED vars
  <2>1. UNCHANGED <<topics, shutdown, sub, publisher, leaver, closer, received>>
    BY <1>8 DEF vars
  <2>2. TypeOK /\ Frame /\ Visiting /\ Known /\ OneShutdown /\ Responsible
    BY Types DEF Order
  <2>3. Frame'
    BY <2>1, <2>2 DEF Frame
  <2>4. TypeOK'
    BY <2>1, <2>2, <2>3, TypesSame
  <2>5. Visiting' /\ Known' /\ OneShutdown' /\ Responsible'
    BY <2>1, <2>2 DEF Visiting, Known, OneShutdown, Responsible, Registered
  <2> QED
    BY <2>4, <2>5 DEF Order
<1> QED
  BY <1>1, <1>2, <1>3, <1>4, <1>5, <1>6, <1>7, <1>8 DEF Next

\* What each goroutine has to close, counted.
LEMMA OneClosesFollows == Order => OneCloses
<1> SUFFICES ASSUME Order, NEW s \in Subs, sub[s].topic # NoTopic
             PROVE  LET leaving == {u \in Leavers : leaver[u] = s}
                        closing == {c \in Closers : s \in closer[c].visit}
                    IN /\ Registered(s) => ~sub[s].closed /\ s \in topics[sub[s].topic]
                       /\ Cardinality(leaving) + Cardinality(closing)
                             = IF Registered(s) \/ sub[s].closed THEN 0 ELSE 1
                       /\ (\E c \in Closers : closer[c].pc = "returned") /\ ~sub[s].closed
                             => leaving # {}
  BY DEF OneCloses, Registered
<1> DEFINE leaving == {u \in Leavers : leaver[u] = s}
           closing == {c \in Closers : s \in closer[c].visit}
<1>0. Frame /\ Known /\ OneShutdown /\ Responsible /\ s # NoSub
  BY Types, PubSubAssumption DEF Order
<1>1. Registered(s) => ~sub[s].closed /\ s \in topics[sub[s].topic]
  BY <1>0 DEF Responsible, Known, Registered
<1>2. /\ \A u, v \in leaving : u = v
      /\ \A c, d \in closing : c = d
      /\ leaving # {} => closing = {}
      /\ leaving # {} \/ closing # {} => ~Registered(s) /\ ~sub[s].closed
      /\ leaving # {} \/ closing # {} \/ Registered(s) \/ sub[s].closed
  BY <1>0 DEF Responsible, OneShutdown
<1>3. ASSUME NEW S, \A x, y \in S : x = y
      PROVE  Cardinality(S) = IF S = {} THEN 0 ELSE 1
  <2>1. CASE S = {}
    BY <2>1, FS_EmptySet
  <2>2. CASE S # {}
    <3>1. PICK x \in S : TRUE
      BY <2>2
    <3>2. S = {x}
      BY <1>3, <3>1
    <3> QED
      BY <3>2, FS_Singleton
  <2> QED
    BY <2>1, <2>2
<1>4. /\ Cardinality(leaving) = IF leaving = {} THEN 0 ELSE 1
      /\ Cardinality(closing) = IF closing = {} THEN 0 ELSE 1
  BY <1>2, <1>3
<1>5. Cardinality(leaving) + Cardinality(closing)
          = IF Registered(s) \/ sub[s].closed THEN 0 ELSE 1
  <2> HIDE DEF leaving, closing
  <2> QED
    BY <1>2, <1>4
<1>6. ASSUME NEW c \in Closers, closer[c].pc = "returned", ~sub[s].closed
      PROVE  leaving # {}
  <2>1. closing = {}
    <3>1. ASSUME NEW d \in closing PROVE FALSE
      <4>1. closer[d].pc = "closing"
        BY <1>0, <3>1 DEF OneShutdown
      <4>2. c = d
        BY <1>0, <1>6, <3>1, <4>1 DEF OneShutdown
      <4> QED
        BY <1>6, <4>1, <4>2
    <3> QED
      BY <3>1
  <2>2. ~Registered(s)
    BY <1>0, <1>6 DEF OneShutdown, Registered
  <2> QED
    BY <1>2, <1>6, <2>1, <2>2
<1> QED
  BY <1>1, <1>5, <1>6

-----------------------------------------------------------------------------
(* The order of messages *)

\* What a subscriber got are messages, with numbers.
LEMMA GotMessages ==
    ASSUME TypeOK, NEW s \in Subs
    PROVE  /\ Got(s) \in Seq(Message)
           /\ \A i \in DOMAIN Got(s) : Got(s)[i][2] \in Nat
<1>1. received[s] \in Seq(Message) /\ sub[s].ch \in Seq(Message)
  BY Types DEF Subscriber
<1>2. Got(s) \in Seq(Message)
  BY <1>1, ConcatProperties DEF Got
<1>3. ASSUME NEW i \in DOMAIN Got(s) PROVE Got(s)[i][2] \in Nat
  <2>1. Got(s)[i] \in Message
    BY <1>2
  <2>2. \A m \in Message : m[2] \in Nat
    BY PubSubAssumption DEF Message
  <2> QED
    BY <2>1, <2>2
<1> QED
  BY <1>2, <1>3

\* The same after a step that gives nobody a message and publishes none.
LEMMA SameMessages ==
    ASSUME Behind, InOrderAtMostOnce, \A s \in Subs : Got(s)' = Got(s),
           \A p \in Publishers : /\ publisher'[p].count = publisher[p].count
                                 /\ publisher'[p].visit \subseteq publisher[p].visit
    PROVE  Behind' /\ InOrderAtMostOnce'
<1>1. Behind'
  BY DEF Behind
<1>2. InOrderAtMostOnce'
  BY DEF InOrderAtMostOnce
<1> QED
  BY <1>1, <1>2

\* The same after a step that leaves channels and publishers alone.
LEMMA SameChannels ==
    ASSUME Behind, InOrderAtMostOnce, \A s \in Subs : sub'[s].ch = sub[s].ch,
           UNCHANGED <<publisher, received>>
    PROVE  Behind' /\ InOrderAtMostOnce'
<1>1. \A s \in Subs : Got(s)' = Got(s)
  BY DEF Got
<1>2. \A p \in Publishers : /\ publisher'[p].count = publisher[p].count
                            /\ publisher'[p].visit \subseteq publisher[p].visit
  OBVIOUS
<1> QED
  BY <1>1, <1>2, SameMessages

\* A new message has a higher number than all that its publisher sent before.
LEMMA PublishMessages ==
    ASSUME Order, Behind, InOrderAtMostOnce, NEW p \in Publishers, NEW t \in Topics,
           Publish(p, t)
    PROVE  Behind' /\ InOrderAtMostOnce'
<1>0. TypeOK /\ Frame
  BY Types DEF Order
<1>1. /\ publisher' = [publisher EXCEPT ![p] = [count |-> @.count + 1,
                                                visit |-> topics[t]]]
      /\ UNCHANGED <<sub, received>>
  BY DEF Publish
<1>2. /\ publisher[p].count \in Nat /\ publisher'[p].count = publisher[p].count + 1
      /\ \A q \in Publishers : q # p => publisher'[q] = publisher[q]
  BY <1>0, <1>1, PubSubAssumption DEF Frame
<1>3. \A s \in Subs : Got(s)' = Got(s)
  BY <1>1 DEF Got
<1>4. InOrderAtMostOnce'
  BY <1>3 DEF InOrderAtMostOnce
<1>5. ASSUME NEW s \in Subs, NEW i \in DOMAIN Got(s), NEW q \in Publishers,
             Got(s)[i][1] = q
      PROVE  /\ Got(s)[i][2] <= publisher'[q].count
             /\ s \in publisher'[q].visit => Got(s)[i][2] < publisher'[q].count
  <2>1. /\ Got(s)[i][2] \in Nat /\ Got(s)[i][2] <= publisher[q].count
        /\ s \in publisher[q].visit => Got(s)[i][2] < publisher[q].count
    BY <1>0, <1>5, GotMessages DEF Behind
  <2>2. CASE q = p
    BY <1>2, <2>1, <2>2
  <2>3. CASE q # p
    BY <1>2, <2>1, <2>3
  <2> QED
    BY <2>2, <2>3
<1>6. Behind'
  BY <1>3, <1>5 DEF Behind
<1> QED
  BY <1>4, <1>6

\* A visit offers the message once: it comes after all that the subscriber has of
\* this publisher, and the publisher will not come back with it.
LEMMA VisitMessages ==
    ASSUME Order, Behind, InOrderAtMostOnce, NEW p \in Publishers, NEW s \in Subs,
           PublishVisit(p, s)
    PROVE  Behind' /\ InOrderAtMostOnce'
<1> DEFINE n == publisher[p].count
           m == <<p, n>>
<1>0. TypeOK /\ Frame /\ Visiting
  BY Types DEF Order
<1>1. /\ s \in publisher[p].visit
      /\ publisher' = [publisher EXCEPT ![p].visit = @ \ {s}]
      /\ received' = received
  BY DEF PublishVisit
<1>2. /\ n \in Nat
      /\ \A q \in Publishers : /\ publisher'[q].count = publisher[q].count
                               /\ publisher'[q].visit \subseteq publisher[q].visit
      /\ s \notin publisher'[p].visit
  BY <1>0, <1>1, PubSubAssumption DEF Frame
<1>3. /\ m \in Message
      /\ \A x \in Subs : x # s => sub'[x].ch = sub[x].ch
      /\ sub' = sub \/ sub'[s].ch = Append(sub[s].ch, m)
  BY <1>0, Visited
<1>4. CASE sub' = sub
  <2>1. \A x \in Subs : Got(x)' = Got(x)
    BY <1>1, <1>4 DEF Got
  <2> QED
    BY <1>2, <2>1, SameMessages
<1>5. CASE sub'[s].ch = Append(sub[s].ch, m)
  <2> DEFINE g == Got(s)
             h == Got(s)'
  <2>1. \A x \in Subs : x # s => Got(x)' = Got(x)
    BY <1>1, <1>3 DEF Got
  <2>2. received[s] \in Seq(Message) /\ sub[s].ch \in Seq(Message)
    BY <1>0, Types DEF Subscriber
  <2>3. h = Append(g, m)
    <3>1. received[s] \o Append(sub[s].ch, m) = Append(received[s] \o sub[s].ch, m)
      <4>1. \A r, c \in Seq(Message) : \A x \in Message :
               r \o Append(c, x) = Append(r \o c, x)
        BY ComesLast
      <4>2. m \in Message
        BY <1>3
      <4> HIDE DEF m
      <4> QED
        BY <2>2, <4>1, <4>2
    <3> QED
      BY <1>1, <1>5, <3>1 DEF Got
  <2>4. g \in Seq(Message) /\ \A i \in DOMAIN g : g[i][2] \in Nat
    BY <1>0, GotMessages
  <2>5. \A i \in DOMAIN g : \A q \in Publishers : g[i][1] = q =>
            /\ g[i][2] <= publisher[q].count
            /\ s \in publisher[q].visit => g[i][2] < publisher[q].count
    BY DEF Behind
  <2>6. \A i, j \in DOMAIN g : i < j /\ g[i][1] = g[j][1] => g[i][2] < g[j][2]
    BY DEF InOrderAtMostOnce
  <2>7. m[1] = p /\ m[2] = n
    OBVIOUS
  <2> HIDE DEF g, h, m
  <2>8. /\ DOMAIN g = 1..Len(g) /\ DOMAIN h = 1..(Len(g) + 1) /\ Len(g) \in Nat
        /\ \A i \in DOMAIN g : h[i] = g[i]
        /\ h[Len(g) + 1] = m
    BY <1>3, <2>3, <2>4, AppendProperties, LenProperties
  <2>9. \A i \in DOMAIN h : i \in DOMAIN g \/ i = Len(g) + 1
    BY <2>8
  <2>10. ASSUME NEW i \in DOMAIN h, NEW q \in Publishers, h[i][1] = q
         PROVE  /\ h[i][2] <= publisher'[q].count
                /\ s \in publisher'[q].visit => h[i][2] < publisher'[q].count
    <3>1. CASE i \in DOMAIN g
      BY <1>2, <2>5, <2>8, <2>10, <3>1
    <3>2. CASE i = Len(g) + 1
      <4>1. q = p /\ h[i][2] = n
        BY <2>7, <2>8, <2>10, <3>2
      <4> QED
        BY <1>2, <4>1
    <3> QED
      BY <2>9, <3>1, <3>2
  <2>11. ASSUME NEW i \in DOMAIN h, NEW j \in DOMAIN h, i < j, h[i][1] = h[j][1]
         PROVE  h[i][2] < h[j][2]
    <3>1. CASE j \in DOMAIN g
      <4>1. i \in DOMAIN g
        BY <2>8, <2>11, <3>1
      <4> QED
        BY <2>6, <2>8, <2>11, <3>1, <4>1
    <3>2. CASE j = Len(g) + 1
      <4>1. i \in DOMAIN g /\ h[i] = g[i] /\ h[j] = m
        BY <2>8, <2>11, <3>2
      <4> QED
        BY <1>1, <2>5, <2>7, <2>11, <4>1
    <3> QED
      BY <2>9, <3>1, <3>2
  <2>12. Behind'
    <3>1. \A x \in Subs : x # s =>
             \A i \in DOMAIN Got(x)' : \A q \in Publishers : Got(x)'[i][1] = q =>
                 /\ Got(x)'[i][2] <= publisher'[q].count
                 /\ x \in publisher'[q].visit => Got(x)'[i][2] < publisher'[q].count
      BY <1>2, <2>1 DEF Behind
    <3>2. \A i \in DOMAIN Got(s)' : \A q \in Publishers : Got(s)'[i][1] = q =>
                 /\ Got(s)'[i][2] <= publisher'[q].count
                 /\ s \in publisher'[q].visit => Got(s)'[i][2] < publisher'[q].count
      BY <2>10 DEF h
    <3> QED
      BY <3>1, <3>2 DEF Behind
  <2>13. InOrderAtMostOnce'
    <3>1. \A x \in Subs : x # s => \A i, j \in DOMAIN Got(x)' :
             i < j /\ Got(x)'[i][1] = Got(x)'[j][1] => Got(x)'[i][2] < Got(x)'[j][2]
      BY <2>1 DEF InOrderAtMostOnce
    <3>2. \A i, j \in DOMAIN Got(s)' :
             i < j /\ Got(s)'[i][1] = Got(s)'[j][1] => Got(s)'[i][2] < Got(s)'[j][2]
      BY <2>11 DEF h
    <3> QED
      BY <3>1, <3>2 DEF InOrderAtMostOnce
  <2> QED
    BY <2>12, <2>13
<1> QED
  BY <1>3, <1>4, <1>5

\* Nobody has a message at the start.
LEMMA InitMessages == Init => Behind /\ InOrderAtMostOnce
<1> SUFFICES ASSUME Init PROVE Behind /\ InOrderAtMostOnce
  OBVIOUS
<1>1. \A s \in Subs : received[s] = << >> /\ sub[s].ch = << >>
  BY DEF Init
<1>2. \A s \in Subs : Got(s) = << >>
  <2>1. << >> \o << >> = << >>
    BY EmptySeq, ConcatEmptySeq
  <2> QED
    BY <1>1, <2>1 DEF Got
<1>3. \A s \in Subs : DOMAIN Got(s) = {}
  <2>1. DOMAIN << >> = {}
    OBVIOUS
  <2> QED
    BY <1>2, <2>1
<1> QED
  BY <1>3 DEF Behind, InOrderAtMostOnce

\* The steps together.
LEMMA NextMessages ==
    ASSUME Order, Behind, InOrderAtMostOnce, [Next]_vars
    PROVE  Behind' /\ InOrderAtMostOnce'
<1>0. TypeOK
  BY DEF Order
<1>1. ASSUME NEW s \in Subs, NEW t \in Topics, Subscribe(s, t)
      PROVE  Behind' /\ InOrderAtMostOnce'
  <2>1. /\ sub' = [sub EXCEPT ![s].topic = t] /\ UNCHANGED <<publisher, received>>
    BY <1>1 DEF Subscribe
  <2>2. \A x \in Subs : sub'[x].ch = sub[x].ch
    BY <1>0, <2>1, TopicSet
  <2> QED
    BY <2>1, <2>2, SameChannels
<1>2. CASE \E p \in Publishers, t \in Topics : Publish(p, t)
  BY <1>2, PublishMessages
<1>3. CASE \E p \in Publishers : PublisherStep(p)
  BY <1>3, VisitMessages DEF PublisherStep
<1>4. ASSUME NEW u \in Leavers, UnsubscribeClose(u)
      PROVE  Behind' /\ InOrderAtMostOnce'
  <2>1. PICK s \in Subs : s = leaver[u]
    BY <1>0, <1>4 DEF UnsubscribeClose, TypeOK
  <2>2. /\ sub' = [sub EXCEPT ![s].closed = TRUE] /\ UNCHANGED <<publisher, received>>
    BY <1>4, <2>1 DEF UnsubscribeClose
  <2>3. \A x \in Subs : sub'[x].ch = sub[x].ch
    BY <1>0, <2>2, ClosedSet
  <2> QED
    BY <2>2, <2>3, SameChannels
<1>5. ASSUME NEW c \in Closers, NEW s \in Subs, ShutdownClose(c, s)
      PROVE  Behind' /\ InOrderAtMostOnce'
  <2>1. /\ sub' = [sub EXCEPT ![s].closed = TRUE] /\ UNCHANGED <<publisher, received>>
    BY <1>5 DEF ShutdownClose
  <2>2. \A x \in Subs : sub'[x].ch = sub[x].ch
    BY <1>0, <2>1, ClosedSet
  <2> QED
    BY <2>1, <2>2, SameChannels
<1>6. ASSUME NEW s \in Subs, Receive(s)
      PROVE  Behind' /\ InOrderAtMostOnce'
  <2>1. publisher' = publisher
    BY <1>6 DEF Receive
  <2>2. \A x \in Subs : Got(x)' = Got(x)
    BY <1>0, <1>6, Received
  <2> QED
    BY <2>1, <2>2, SameMessages
<1>7. CASE UNCHANGED <<sub, publisher, received>>
  BY <1>7, SameChannels
<1>8. \/ \E u \in Leavers, t \in Topics, s \in Subs : Unsubscribe(u, t, s)
      \/ \E c \in Closers : Shutdown(c) \/ ShutdownReturn(c)
      \/ UNCHANGED vars
      => UNCHANGED <<sub, publisher, received>>
  BY DEF Unsubscribe, Shutdown, ShutdownReturn, vars
<1> QED
  BY <1>1, <1>2, <1>3, <1>4, <1>5, <1>6, <1>7, <1>8 DEF Next, CloserStep

-----------------------------------------------------------------------------
(* The theorems *)

\* The invariant holds at the start and every step keeps it: of Subscribe, Publish
\* and its visits, Unsubscribe, Shutdown and the receiving consumers.
THEOREM BrokerInductive == Spec => []IInv
<1>1. Init => IInv
  BY InitOrder, InitMessages DEF IInv
<1>2. IInv /\ [Next]_vars => IInv'
  <2>1. IInv /\ [Next]_vars => Order'
    BY NextOrder DEF IInv
  <2>2. IInv /\ [Next]_vars => Behind' /\ InOrderAtMostOnce'
    BY NextMessages DEF IInv
  <2> QED
    BY <2>1, <2>2 DEF IInv
<1> QED
  BY <1>1, <1>2, PTL DEF Spec

\* The state of the broker has its type, and no channel holds more messages than
\* Publish may put in it.
THEOREM BrokerTypeCorrect == Spec => []TypeOK
<1>1. IInv => TypeOK
  BY DEF IInv, Order
<1> QED
  BY <1>1, BrokerInductive, PTL

\* The messages of a publisher reach a subscriber in order and at most once, however
\* Publish's visits interleave with the other calls and with the consumers.
THEOREM MessagesInOrder == Spec => []InOrderAtMostOnce
<1>1. IInv => InOrderAtMostOnce
  BY DEF IInv
<1> QED
  BY <1>1, BrokerInductive, PTL

\* A subscriber that left the map has exactly one goroutine to close it, an
\* Unsubscribe or the Shutdown, and no call closes a channel twice.
THEOREM EverySubscriberClosedOnce == Spec => []OneCloses
<1>1. IInv => OneCloses
  BY OneClosesFollows DEF IInv
<1> QED
  BY <1>1, BrokerInductive, PTL

\* What a step does to a subscriber that is closed already.
LEMMA ClosedStep ==
    ASSUME Order, [Next]_vars, NEW s \in Subs, sub[s].closed
    PROVE  sub'[s].closed /\ IsSuffix(sub'[s].ch, sub[s].ch)
<1> DEFINE Goal == sub'[s].closed /\ IsSuffix(sub'[s].ch, sub[s].ch)
<1>0. TypeOK /\ Visiting /\ sub[s].ch \in Seq(Message)
  BY Types DEF Order, Subscriber
<1>1. ASSUME sub'[s].closed = sub[s].closed \/ sub'[s].closed = TRUE,
             sub'[s].ch = sub[s].ch
      PROVE  Goal
  BY <1>0, <1>1, SuffixSelf
<1>2. ASSUME NEW x \in Subs, NEW t \in Topics, Subscribe(x, t) PROVE Goal
  <2>1. sub' = [sub EXCEPT ![x].topic = t]
    BY <1>2 DEF Subscribe
  <2> QED
    BY <1>0, <1>1, <2>1, TopicSet
<1>3. ASSUME NEW p \in Publishers, NEW x \in Subs, PublishVisit(p, x) PROVE Goal
  <2>1. sub'[s].ch = sub[s].ch /\ sub'[s].closed = sub[s].closed
    BY <1>0, <1>3, Visited
  <2> QED
    BY <1>1, <2>1
<1>4. ASSUME NEW u \in Leavers, UnsubscribeClose(u) PROVE Goal
  <2>1. PICK x \in Subs : x = leaver[u]
    BY <1>0, <1>4 DEF UnsubscribeClose, TypeOK
  <2>2. sub' = [sub EXCEPT ![x].closed = TRUE]
    BY <1>4, <2>1 DEF UnsubscribeClose
  <2>3. sub'[s].ch = sub[s].ch /\ sub'[s].closed = TRUE
    BY <1>0, <2>2, ClosedSet
  <2> QED
    BY <1>1, <2>3
<1>5. ASSUME NEW c \in Closers, NEW x \in Subs, ShutdownClose(c, x) PROVE Goal
  <2>1. sub' = [sub EXCEPT ![x].closed = TRUE]
    BY <1>5 DEF ShutdownClose
  <2>2. sub'[s].ch = sub[s].ch /\ sub'[s].closed = TRUE
    BY <1>0, <2>1, ClosedSet
  <2> QED
    BY <1>1, <2>2
<1>6. ASSUME NEW x \in Subs, Receive(x) PROVE Goal
  <2>1. /\ sub'[s].closed = sub[s].closed
        /\ sub'[s].ch = IF s = x THEN Tail(sub[x].ch) ELSE sub[s].ch
    BY <1>0, <1>6, Received
  <2>2. CASE s = x
    <3>1. sub[s].ch # << >>
      BY <1>6, <2>2 DEF Receive
    <3>2. IsSuffix(Tail(sub[s].ch), sub[s].ch)
      BY <1>0, <3>1, SuffixTail
    <3> QED
      BY <2>1, <2>2, <3>2
  <2>3. CASE s # x
    BY <1>1, <2>1, <2>3
  <2> QED
    BY <2>2, <2>3
<1>7. ASSUME sub' = sub PROVE Goal
  BY <1>1, <1>7
<1>8. \/ \E p \in Publishers, t \in Topics : Publish(p, t)
      \/ \E u \in Leavers, t \in Topics, x \in Subs : Unsubscribe(u, t, x)
      \/ \E c \in Closers : Shutdown(c) \/ ShutdownReturn(c)
      \/ UNCHANGED vars
      => sub' = sub
  BY DEF Publish, Unsubscribe, Shutdown, ShutdownReturn, vars
<1> HIDE DEF Goal
<1>9. Goal
  BY <1>2, <1>3, <1>4, <1>5, <1>6, <1>7, <1>8 DEF Next, PublisherStep, CloserStep
<1> QED
  BY <1>9 DEF Goal

\* A publisher that copied the subscribers before one was disconnected does not
\* send on its closed channel: it stays closed and its consumer only drains it.
THEOREM NoSendAfterClose == Spec => ClosedOnlyDrains
<1>1. IInv /\ [Next]_vars => [\A s \in Subs : sub[s].closed =>
                                  /\ sub'[s].closed
                                  /\ IsSuffix(sub'[s].ch, sub[s].ch)]_vars
  BY ClosedStep DEF IInv
<1> QED
  BY <1>1, BrokerInductive, PTL DEF Spec, ClosedOnlyDrains
===============================================================================
