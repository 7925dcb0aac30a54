-------------------------------- MODULE PubSub --------------------------------
(***************************************************************************)
(* The publish/subscribe broker (PubSub/main.go).                          *)
(*                                                                         *)
(* Publish copies the subscribers of the topic under b.mu and then visits  *)
(* them, each under its own lock; Unsubscribe and Shutdown take            *)
(* subscribers out of b.topics under b.mu and close them afterwards, each  *)
(* under its own lock.  No section blocks inside, so each is one action,   *)
(* and what another goroutine does between them is what may go wrong.      *)
(* Calls that are refused change nothing and are left out, but for those   *)
(* of Shutdown, whose return means something.                              *)
(***************************************************************************)
EXTENDS Integers, Sequences, FiniteSets, SequencesExt

CONSTANTS
    Topics, Subs,      \* topics, and the subscribers that Subscribe may create
    Publishers, Leavers, Closers,   \* goroutines in Publish, Unsubscribe, Shutdown
    BufferSize,        \* the capacity of a subscriber's channel (1000)
    MaxPublish,        \* bound: the messages of a publisher
    NoTopic, NoSub

ASSUME PubSubAssumption ==
    /\ IsFiniteSet(Subs) /\ NoSub \notin Subs /\ NoTopic \notin Topics
    /\ BufferSize \in Nat \ {0} /\ MaxPublish \in Nat

VARIABLES
    topics,     \* b.topics; a topic without subscribers has no entry in the code
    shutdown,   \* b.shutdown
    sub,        \* the subscribers: topic, closed, and what is in the channel
    publisher,  \* messages published so far, and subscribers still to visit
    leaver,     \* the subscriber that an Unsubscribe has still to close
    closer,     \* the goroutines in Shutdown
    received    \* history: what each consumer has received

vars == <<topics, shutdown, sub, publisher, leaver, closer, received>>

Message == Publishers \X (1..MaxPublish)

Init ==
    /\ topics = [t \in Topics |-> {}]
    /\ shutdown = FALSE
    /\ sub = [s \in Subs |-> [topic |-> NoTopic, closed |-> FALSE, ch |-> << >>]]
    /\ publisher = [p \in Publishers |-> [count |-> 0, visit |-> {}]]
    /\ leaver = [u \in Leavers |-> NoSub]
    /\ closer = [c \in Closers |-> [pc |-> "idle", visit |-> {}]]
    /\ received = [s \in Subs |-> << >>]

-----------------------------------------------------------------------------
\* Mutant of Subscribe: it does not look at b.shutdown.
SubscribeAnyway(s, t) ==
    /\ sub[s].topic = NoTopic
    /\ sub' = [sub EXCEPT ![s].topic = t]
    /\ topics' = [topics EXCEPT ![t] = @ \cup {s}]
    /\ UNCHANGED <<shutdown, publisher, leaver, closer, received>>

Subscribe(s, t) ==
    /\ ~shutdown
    /\ sub[s].topic = NoTopic
    /\ sub' = [sub EXCEPT ![s].topic = t]
    /\ topics' = [topics EXCEPT ![t] = @ \cup {s}]
    /\ UNCHANGED <<shutdown, publisher, leaver, closer, received>>

\* Publish: the copy of the subscribers of the topic.
Publish(p, t) ==
    /\ publisher[p].visit = {}
    /\ publisher[p].count < MaxPublish
    /\ ~shutdown
    /\ publisher' = [publisher EXCEPT ![p] = [count |-> @.count + 1,
                                              visit |-> topics[t]]]
    /\ UNCHANGED <<topics, shutdown, sub, leaver, closer, received>>

\* Mutant of Offered: the channel holds one message more than it may.
OfferedOneMore(s, m) ==
    IF Len(sub[s].ch) <= BufferSize THEN [sub EXCEPT ![s].ch = Append(@, m)]
                                    ELSE sub

\* The channel of s takes the message m, unless it is full.
Offered(s, m) ==
    IF Len(sub[s].ch) < BufferSize THEN [sub EXCEPT ![s].ch = Append(@, m)]
                                   ELSE sub

\* Mutant of PublishVisit: the subscriber may be closed.
PublishVisitClosed(p, s) ==
    /\ s \in publisher[p].visit
    /\ sub' = Offered(s, <<p, publisher[p].count>>)
    /\ publisher' = [publisher EXCEPT ![p].visit = @ \ {s}]
    /\ UNCHANGED <<topics, shutdown, leaver, closer, received>>

\* Mutant of PublishVisit: a subscriber is visited until its channel is full.
PublishVisitAgain(p, s) ==
    /\ s \in publisher[p].visit
    /\ sub' = IF sub[s].closed THEN sub ELSE Offered(s, <<p, publisher[p].count>>)
    /\ publisher' = [publisher EXCEPT ![p].visit = IF sub' = sub THEN @ \ {s} ELSE @]
    /\ UNCHANGED <<topics, shutdown, leaver, closer, received>>

\* One of the copied subscribers, in the order of the map, which is any.
PublishVisit(p, s) ==
    /\ s \in publisher[p].visit
    /\ sub' = IF sub[s].closed THEN sub ELSE Offered(s, <<p, publisher[p].count>>)
    /\ publisher' = [publisher EXCEPT ![p].visit = @ \ {s}]
    /\ UNCHANGED <<topics, shutdown, leaver, closer, received>>

\* Unsubscribe takes s out of the map; an s that is not there is refused.
Unsubscribe(u, t, s) ==
    /\ leaver[u] = NoSub
    /\ s \in topics[t]
    /\ topics' = [topics EXCEPT ![t] = @ \ {s}]
    /\ leaver' = [leaver EXCEPT ![u] = s]
    /\ UNCHANGED <<shutdown, sub, publisher, closer, received>>

\* Unsubscribe closes the channel and returns.
UnsubscribeClose(u) ==
    /\ leaver[u] # NoSub
    /\ sub' = [sub EXCEPT ![leaver[u]].closed = TRUE]
    /\ leaver' = [leaver EXCEPT ![u] = NoSub]
    /\ UNCHANGED <<topics, shutdown, publisher, closer, received>>

\* Shutdown; the second one returns at once.
Shutdown(c) ==
    /\ closer[c].pc = "idle"
    /\ IF shutdown
       THEN /\ closer' = [closer EXCEPT ![c].pc = "refused"]
            /\ UNCHANGED <<topics, shutdown>>
       ELSE /\ closer' = [closer EXCEPT ![c] = [pc |-> "closing",
                              visit |-> UNION {topics[t] : t \in Topics}]]
            /\ topics' = [t \in Topics |-> {}]
            /\ shutdown' = TRUE
    /\ UNCHANGED <<sub, publisher, leaver, received>>

ShutdownClose(c, s) ==
    /\ s \in closer[c].visit
    /\ sub' = [sub EXCEPT ![s].closed = TRUE]
    /\ closer' = [closer EXCEPT ![c].visit = @ \ {s}]
    /\ UNCHANGED <<topics, shutdown, publisher, leaver, received>>

\* Mutant of ShutdownReturn: the rest is left to others.
ShutdownReturnEarly(c) ==
    /\ closer[c].pc = "closing"
    /\ closer' = [closer EXCEPT ![c] = [pc |-> "returned", visit |-> {}]]
    /\ UNCHANGED <<topics, shutdown, sub, publisher, leaver, received>>

ShutdownReturn(c) ==
    /\ closer[c].pc = "closing" /\ closer[c].visit = {}
    /\ closer' = [closer EXCEPT ![c].pc = "returned"]
    /\ UNCHANGED <<topics, shutdown, sub, publisher, leaver, received>>

\* A consumer receives from the channel of s, closed or not.
Receive(s) ==
    /\ sub[s].ch # << >>
    /\ received' = [received EXCEPT ![s] = Append(@, Head(sub[s].ch))]
    /\ sub' = [sub EXCEPT ![s].ch = Tail(@)]
    /\ UNCHANGED <<topics, shutdown, publisher, leaver, closer>>

-----------------------------------------------------------------------------
PublisherStep(p) == \E s \in Subs : PublishVisit(p, s)
CloserStep(c) == ShutdownReturn(c) \/ \E s \in Subs : ShutdownClose(c, s)

Next == \/ \E s \in Subs, t \in Topics : Subscribe(s, t)
        \/ \E p \in Publishers, t \in Topics : Publish(p, t)
        \/ \E p \in Publishers : PublisherStep(p)
        \/ \E u \in Leavers, t \in Topics, s \in Subs : Unsubscribe(u, t, s)
        \/ \E u \in Leavers : UnsubscribeClose(u)
        \/ \E c \in Closers : Shutdown(c) \/ CloserStep(c)
        \/ \E s \in Subs : Receive(s)

\* A goroutine inside a call is scheduled; nobody has to call, and no consumer
\* has to receive.
Fairness == /\ \A p \in Publishers : WF_vars(PublisherStep(p))
            /\ \A u \in Leavers : WF_vars(UnsubscribeClose(u))
            /\ \A c \in Closers : WF_vars(CloserStep(c))

Spec == Init /\ [][Next]_vars /\ Fairness

-----------------------------------------------------------------------------
(* Properties *)

\* Types.
TypeOK ==
    /\ topics \in [Topics -> SUBSET Subs]
    /\ shutdown \in BOOLEAN
    /\ sub \in [Subs -> [topic : Topics \cup {NoTopic}, closed : BOOLEAN,
                         ch : Seq(Message)]]
    /\ \A s \in Subs : Len(sub[s].ch) <= BufferSize
    /\ publisher \in [Publishers -> [count : 0..MaxPublish, visit : SUBSET Subs]]
    /\ leaver \in [Leavers -> Subs \cup {NoSub}]
    /\ closer \in [Closers -> [pc : {"idle", "refused", "closing", "returned"},
                               visit : SUBSET Subs]]
    /\ received \in [Subs -> Seq(Message)]

\* What a subscriber got.
Got(s) == received[s] \o sub[s].ch

\* The messages of a publisher reach a subscriber in the order of publication
\* and at most once each; what is missing was dropped.
InOrderAtMostOnce ==
    \A s \in Subs : \A i, j \in DOMAIN Got(s) :
        i < j /\ Got(s)[i][1] = Got(s)[j][1] => Got(s)[i][2] < Got(s)[j][2]

\* A subscriber stays open while it is in the map, and once it has left the map
\* somebody is responsible for closing it: the one Unsubscribe that removed it or
\* the one Shutdown that did.  When Shutdown has returned, an open subscriber is
\* one that a concurrent Unsubscribe is just closing.
OneCloses ==
    \A s \in Subs :
        LET registered == \E t \in Topics : s \in topics[t]
            leaving == {u \in Leavers : leaver[u] = s}
            closing == {c \in Closers : s \in closer[c].visit}
        IN sub[s].topic # NoTopic =>
              /\ registered => ~sub[s].closed /\ s \in topics[sub[s].topic]
              /\ Cardinality(leaving) + Cardinality(closing)
                    = IF registered \/ sub[s].closed THEN 0 ELSE 1
              /\ (\E c \in Closers : closer[c].pc = "returned") /\ ~sub[s].closed
                    => leaving # {}

\* A publisher that copied the subscribers before one was disconnected does not
\* send on its closed channel, which would panic; consumers may still drain it.
ClosedOnlyDrains ==
    [][\A s \in Subs : sub[s].closed =>
          /\ sub'[s].closed
          /\ IsSuffix(sub'[s].ch, sub[s].ch)]_vars

\* After a Shutdown every subscriber learns of it by the end of its channel,
\* whatever Publish, Unsubscribe and a Subscribe that came just before do.
AllDisconnected ==
    \A s \in Subs : shutdown /\ sub[s].topic # NoTopic ~> sub[s].closed
=============================================================================
