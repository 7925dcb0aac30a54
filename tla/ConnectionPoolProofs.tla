------------------------ MODULE ConnectionPoolProofs ------------------------
(***************************************************************************)
(* Proofs about ConnectionPool, for every number of goroutines and every   *)
(* limit.  The invariants are not inductive by themselves: that nobody     *)
(* shares a connection rests on Release refusing idle connections, which   *)
(* rests on conn.Status agreeing with who holds a connection, which rests  *)
(* on nobody sharing one; IInv is their conjunction with the facts about   *)
(* the positions of the goroutines that tie them together.                 *)
(***************************************************************************)
EXTENDS ConnectionPool, FiniteSetTheorems, SequenceTheorems, TLAPS

Users == {g \in Clients : pc[g] = "using"}

\* A goroutine has a connection exactly from the receive or the creation on
\* until it drops or releases it.
Holding ==
    /\ \A g \in Clients :
          conn[g] # NoConn <=> pc[g] \in {"gotTry", "gotWait", "using"}
    /\ \A s \in Closers : closerConn[s] # NoConn <=> closerPC[s] = "drop"

\* What a goroutine or the channel has is in the registry.
Registered ==
    /\ \A g \in Clients : conn[g] # NoConn => conn[g] \in connections
    /\ \A s \in Closers : closerConn[s] # NoConn => closerConn[s] \in connections
    /\ \A i \in 1..Len(idleConnChan) : idleConnChan[i] \in connections

\* Before the shutdown the registry has nothing else.
NothingLost ==
    ~closed => \A c \in connections :
                  \/ \E g \in Clients : conn[g] = c
                  \/ \E i \in 1..Len(idleConnChan) : idleConnChan[i] = c

\* A connection is marked IN_USE exactly while a caller uses it.
Marked ==
    \A c \in connections :
        status[c] = "IN_USE" <=> \E g \in Clients : pc[g] = "using" /\ conn[g] = c

Counted == totalConnections = Cardinality(connections)
             /\ totalConnections <= MaxConnections

Waited == connWG = Cardinality(Users)

\* The goroutines in the channel's queue are parked with a live context, each is
\* there once, and there are none after the shutdown.
Queue ==
    /\ \A i \in 1..Len(recvq) : pc[recvq[i]] = "parked" /\ ~ctxDone[recvq[i]]
    /\ \A i, j \in 1..Len(recvq) : recvq[i] = recvq[j] => i = j
    /\ closed => recvq = << >>

\* How far a Shutdown call has come.
Closing ==
    \A s \in Closers :
        /\ closerPC[s] # "start" => closed
        /\ closerPC[s] \in {"drain", "drop", "done"} => Users = {}

IInv == /\ TypeOK /\ NoSharedConnection /\ Holding /\ Registered /\ NothingLost
        /\ Marked /\ Counted /\ Waited /\ Queue /\ Closing

\* What RemoveAt leaves of a sequence.
LEMMA RemoveAtProperties ==
    ASSUME NEW S, NEW q \in Seq(S), NEW i \in 1..Len(q)
    PROVE  /\ RemoveAt(q, i) \in Seq(S)
           /\ Len(RemoveAt(q, i)) = Len(q) - 1
           /\ \A j \in 1..(Len(q) - 1) :
                 RemoveAt(q, i)[j] = IF j < i THEN q[j] ELSE q[j + 1]
<1> DEFINE a == SubSeq(q, 1, i - 1)
           b == SubSeq(q, i + 1, Len(q))
<1>1. /\ a \in Seq(S) /\ Len(a) = i - 1
      /\ \A j \in 1..(i - 1) : a[j] = q[j]
  BY SMT
<1>2. /\ b \in Seq(S) /\ Len(b) = Len(q) - i
      /\ \A j \in 1..(Len(q) - i) : b[j] = q[i + j]
  BY SMT
<1>3. RemoveAt(q, i) = a \o b
  BY DEF RemoveAt
<1> HIDE DEF a, b
<1>4. a \o b \in Seq(S) /\ Len(a \o b) = Len(q) - 1
  <2>1. a \o b \in Seq(S) /\ Len(a \o b) = Len(a) + Len(b)
    BY <1>1, <1>2, ConcatProperties
  <2> QED
    BY <1>1, <1>2, <2>1
<1>5. ASSUME NEW j \in 1..(Len(q) - 1)
      PROVE  (a \o b)[j] = IF j < i THEN q[j] ELSE q[j + 1]
  <2>1. Len(a) + Len(b) = Len(q) - 1
    BY <1>1, <1>2
  <2>2. (a \o b)[j] = IF j <= Len(a) THEN a[j] ELSE b[j - Len(a)]
    BY <1>1, <1>2, <2>1, ConcatProperties
  <2>3. CASE j < i
    BY <1>1, <2>2, <2>3
  <2>4. CASE ~(j < i)
    <3>1. /\ j - Len(a) \in 1..(Len(q) - i)
          /\ i + (j - Len(a)) = j + 1
          /\ ~(j <= Len(a))
      BY <1>1, <2>4
    <3>2. b[j - Len(a)] = q[i + (j - Len(a))]
      BY <1>2, <3>1
    <3> QED
      BY <2>2, <2>4, <3>1, <3>2
  <2> QED
    BY <2>3, <2>4
<1> QED
  BY <1>3, <1>4, <1>5

\* The connections and the goroutines are finitely many.
LEMMA Finite ==
    ASSUME TypeOK
    PROVE  IsFiniteSet(connections) /\ IsFiniteSet(Users)
  BY PoolAssumption, FS_Subset DEF TypeOK, Users

\* Removing a registered connection from the books.
LEMMA RemoveConnection ==
    ASSUME IInv, NEW c \in connections
    PROVE  /\ totalConnections - 1 \in Nat
           /\ totalConnections - 1 = Cardinality(connections \ {c})
<1>1. IsFiniteSet(connections)
  BY Finite DEF IInv
<1>2. /\ IsFiniteSet(connections \ {c})
      /\ Cardinality(connections \ {c}) = Cardinality(connections) - 1
  BY <1>1, FS_RemoveElement
<1>3. Cardinality(connections \ {c}) \in Nat
  BY <1>2, FS_CardinalityType
<1> QED
  BY <1>2, <1>3 DEF IInv, Counted

\* Adding a new one.
LEMMA AddConnection ==
    ASSUME IInv, NEW c, c \notin connections
    PROVE  totalConnections + 1 = Cardinality(connections \cup {c})
<1>1. Cardinality(connections \cup {c}) = Cardinality(connections) + 1
  BY Finite, FS_AddElement DEF IInv
<1> QED
  BY <1>1 DEF IInv, Counted

\* A borrowing ends.
LEMMA RemoveUser ==
    ASSUME IInv, NEW g \in Users
    PROVE  connWG - 1 \in Nat /\ connWG - 1 = Cardinality(Users \ {g})
<1>1. IsFiniteSet(Users)
  BY Finite DEF IInv
<1>2. /\ IsFiniteSet(Users \ {g})
      /\ Cardinality(Users \ {g}) = Cardinality(Users) - 1
  BY <1>1, FS_RemoveElement
<1>3. Cardinality(Users \ {g}) \in Nat
  BY <1>2, FS_CardinalityType
<1> QED
  BY <1>2, <1>3 DEF IInv, Waited

\* A borrowing begins.
LEMMA AddUser ==
    ASSUME IInv, NEW g, g \notin Users
    PROVE  connWG + 1 = Cardinality(Users \cup {g})
<1>1. Cardinality(Users \cup {g}) = Cardinality(Users) + 1
  BY Finite, FS_AddElement DEF IInv
<1> QED
  BY <1>1 DEF IInv, Waited

\* The first element of a nonempty channel or queue and the others.
LEMMA HeadTail ==
    ASSUME NEW S, NEW q \in Seq(S), q # << >>
    PROVE  /\ Head(q) \in S /\ Head(q) = q[1] /\ Len(q) \in Nat \ {0}
           /\ Tail(q) \in Seq(S) /\ Len(Tail(q)) = Len(q) - 1
           /\ \A i \in 1..(Len(q) - 1) : Tail(q)[i] = q[i + 1]
  BY SMT

\* Release takes effect only for the caller that uses the connection.
LEMMA AcceptedIsUsed ==
    ASSUME IInv, NEW g \in Clients, NEW c \in Conns, MayRelease(g, c), Accepts(c)
    PROVE  pc[g] = "using" /\ c = conn[g] /\ g \in Users
  BY DEF IInv, Marked, MayRelease, Accepts, Borrowed, Users

\* A call of Acquire begins: only pc and the context change.
LEMMA CallStep ==
    ASSUME IInv, NEW g \in Clients, Call(g)
    PROVE  IInv'
<1>1. Users' = Users
  BY DEF IInv, TypeOK, Users, Call, poolVars, closerVars
<1>2. TypeOK'
  BY PoolAssumption DEF IInv, TypeOK, InAcquire, Holding, Call, poolVars,
     closerVars
<1>3. NoSharedConnection'
  BY PoolAssumption DEF IInv, TypeOK, NoSharedConnection, Holding, Registered,
     Call, poolVars, closerVars
<1>4. Holding'
  BY PoolAssumption DEF IInv, TypeOK, Holding, InAcquire, Queue, Call,
     poolVars, closerVars
<1>5. Registered'
  BY PoolAssumption DEF IInv, TypeOK, NoSharedConnection, Holding, Registered,
     Call, poolVars, closerVars
<1>6. NothingLost'
  BY DEF IInv, TypeOK, Holding, Registered, NothingLost, Closing, Call,
     poolVars, closerVars
<1>7. Marked'
  BY DEF IInv, TypeOK, NoSharedConnection, Holding, Registered, Marked,
     Closing, Call, poolVars, closerVars
<1>8. Counted'
  BY PoolAssumption DEF IInv, TypeOK, Counted, Call, poolVars, closerVars
<1>9. Waited'
  BY <1>1 DEF IInv, Waited, Call, poolVars, closerVars
<1>10. Queue'
  BY DEF IInv, TypeOK, Queue, Holding, InAcquire, Closing, Call, poolVars,
     closerVars
<1>11. Closing'
  BY <1>1 DEF IInv, TypeOK, Closing, Call, poolVars, closerVars
<1> QED
  BY <1>2, <1>3, <1>4, <1>5, <1>6, <1>7, <1>8, <1>9, <1>10, <1>11 DEF IInv

\* The context of a call ends: a parked goroutine leaves the queue.
LEMMA CancelStep ==
    ASSUME IInv, NEW g \in Clients, Cancel(g)
    PROVE  IInv'
<1>1. \/ recvq' = recvq /\ \A i \in 1..Len(recvq) : recvq[i] # g
      \/ \E i \in 1..Len(recvq) :
            /\ recvq[i] = g
            /\ recvq' \in Seq(Clients) /\ Len(recvq') = Len(recvq) - 1
            /\ \A j \in 1..(Len(recvq) - 1) :
                  recvq'[j] = IF j < i THEN recvq[j] ELSE recvq[j + 1]
  <2>1. CASE UNCHANGED recvq /\ \A i \in 1..Len(recvq) : recvq[i] # g
    BY <2>1
  <2>2. ASSUME NEW i \in 1..Len(recvq), recvq[i] = g, recvq' = RemoveAt(recvq, i)
        PROVE  /\ recvq' \in Seq(Clients) /\ Len(recvq') = Len(recvq) - 1
               /\ \A j \in 1..(Len(recvq) - 1) :
                     recvq'[j] = IF j < i THEN recvq[j] ELSE recvq[j + 1]
    <3>1. recvq \in Seq(Clients)
      BY DEF IInv, TypeOK
    <3> QED
      BY <2>2, <3>1, RemoveAtProperties
  <2> QED
    BY <2>1, <2>2 DEF Cancel
<1>2. Users' = Users
  BY DEF IInv, TypeOK, Users, Cancel, closerVars
<1>3. TypeOK'
  BY PoolAssumption, <1>1 DEF IInv, TypeOK, InAcquire, Holding, Cancel,
     closerVars
<1>4. NoSharedConnection'
  BY PoolAssumption DEF IInv, TypeOK, NoSharedConnection, Holding, Registered,
     Cancel, closerVars
<1>5. Holding'
  BY PoolAssumption DEF IInv, TypeOK, Holding, InAcquire, Queue, Cancel,
     closerVars
<1>6. Registered'
  BY PoolAssumption DEF IInv, TypeOK, NoSharedConnection, Holding, Registered,
     Cancel, closerVars
<1>7. NothingLost'
  BY DEF IInv, TypeOK, Holding, Registered, NothingLost, Closing, Cancel,
     closerVars
<1>8. Marked'
  BY DEF IInv, TypeOK, NoSharedConnection, Holding, Registered, Marked,
     Closing, Cancel, closerVars
<1>9. Counted'
  BY PoolAssumption DEF IInv, TypeOK, Counted, Cancel, closerVars
<1>10. Waited'
  BY <1>2 DEF IInv, Waited, Cancel, closerVars
<1>11. Queue'
  <2>1. CASE recvq' = recvq /\ \A i \in 1..Len(recvq) : recvq[i] # g
    BY <2>1 DEF IInv, TypeOK, Queue, Cancel
  <2>2. ASSUME NEW i \in 1..Len(recvq), recvq[i] = g,
               recvq' \in Seq(Clients), Len(recvq') = Len(recvq) - 1,
               \A j \in 1..(Len(recvq) - 1) :
                  recvq'[j] = IF j < i THEN recvq[j] ELSE recvq[j + 1]
        PROVE  Queue'
    <3> DEFINE old(j) == IF j < i THEN j ELSE j + 1
    <3>1. /\ recvq \in Seq(Clients) /\ Len(recvq) \in Nat /\ Len(recvq) # 0
          /\ recvq # << >> /\ ~closed' /\ pc' = pc
          /\ ctxDone' = [ctxDone EXCEPT ![g] = TRUE]
          /\ ctxDone \in [Clients -> BOOLEAN]
      BY <2>2 DEF IInv, TypeOK, Queue, Cancel
    <3>2. \A j \in 1..Len(recvq') : /\ old(j) \in 1..Len(recvq) /\ old(j) # i
                                    /\ recvq'[j] = recvq[old(j)]
      BY <2>2, <3>1
    <3>3. \A j, k \in 1..Len(recvq') : old(j) = old(k) => j = k
      BY <2>2, <3>1
    <3> HIDE DEF old
    <3>4. \A j \in 1..Len(recvq') : recvq'[j] \in Clients /\ recvq'[j] # g
      BY <2>2, <3>1, <3>2 DEF IInv, Queue
    <3>5. \A j \in 1..Len(recvq') : pc'[recvq'[j]] = "parked" /\ ~ctxDone'[recvq'[j]]
      BY <3>1, <3>2, <3>4 DEF IInv, Queue
    <3>6. \A j, k \in 1..Len(recvq') : recvq'[j] = recvq'[k] => j = k
      BY <3>2, <3>3 DEF IInv, Queue
    <3> QED
      BY <3>1, <3>5, <3>6 DEF Queue
  <2> QED
    BY <1>1, <2>1, <2>2
<1>12. Closing'
  BY <1>2 DEF IInv, TypeOK, Closing, Cancel, closerVars
<1> QED
  BY <1>3, <1>4, <1>5, <1>6, <1>7, <1>8, <1>9, <1>10, <1>11, <1>12 DEF IInv

\* Acquire returns for a context: the goroutine is in no queue any more.
LEMMA ReturnDoneStep ==
    ASSUME IInv, NEW g \in Clients, ReturnDone(g)
    PROVE  IInv'
<1>1. Users' = Users
  BY DEF IInv, TypeOK, Users, ReturnDone, poolVars, closerVars
<1>2. TypeOK'
  BY PoolAssumption DEF IInv, TypeOK, InAcquire, Holding, ReturnDone, poolVars,
     closerVars
<1>3. NoSharedConnection'
  BY PoolAssumption DEF IInv, TypeOK, NoSharedConnection, Holding, Registered,
     ReturnDone, poolVars, closerVars
<1>4. Holding'
  BY PoolAssumption DEF IInv, TypeOK, Holding, InAcquire, Queue, ReturnDone,
     poolVars, closerVars
<1>5. Registered'
  BY PoolAssumption DEF IInv, TypeOK, NoSharedConnection, Holding, Registered,
     ReturnDone, poolVars, closerVars
<1>6. NothingLost'
  BY DEF IInv, TypeOK, Holding, Registered, NothingLost, Closing, ReturnDone,
     poolVars, closerVars
<1>7. Marked'
  BY DEF IInv, TypeOK, NoSharedConnection, Holding, Registered, Marked,
     Closing, ReturnDone, poolVars, closerVars
<1>8. Counted'
  BY PoolAssumption DEF IInv, TypeOK, Counted, ReturnDone, poolVars, closerVars
<1>9. Waited'
  BY <1>1 DEF IInv, Waited, ReturnDone, poolVars, closerVars
<1>10. Queue'
  BY DEF IInv, TypeOK, Queue, Holding, InAcquire, Closing, ReturnDone,
     poolVars, closerVars
<1>11. Closing'
  BY <1>1 DEF IInv, TypeOK, Closing, ReturnDone, poolVars, closerVars
<1> QED
  BY <1>2, <1>3, <1>4, <1>5, <1>6, <1>7, <1>8, <1>9, <1>10, <1>11 DEF IInv

\* The head of the channel goes into the goroutine's hand.
LEMMA ReceiveStep ==
    ASSUME IInv, NEW g \in Clients, Receive(g)
    PROVE  IInv'
<1>1. /\ Head(idleConnChan) \in Conns /\ Head(idleConnChan) = idleConnChan[1]
      /\ Len(idleConnChan) \in Nat \ {0}
      /\ Tail(idleConnChan) \in Seq(Conns)
      /\ Len(Tail(idleConnChan)) = Len(idleConnChan) - 1
      /\ \A i \in 1..(Len(idleConnChan) - 1) :
            Tail(idleConnChan)[i] = idleConnChan[i + 1]
  BY HeadTail DEF IInv, TypeOK, Receive
<1>2. Users' = Users
  BY DEF IInv, TypeOK, Users, Receive, closerVars
<1>3. TypeOK'
  BY PoolAssumption, <1>1 DEF IInv, TypeOK, InAcquire, Holding, Receive,
     closerVars
<1>4. NoSharedConnection'
  BY PoolAssumption, <1>1 DEF IInv, TypeOK, NoSharedConnection, Holding,
     Registered, Receive, closerVars
<1>5. Holding'
  BY PoolAssumption DEF IInv, TypeOK, Holding, InAcquire, Queue, Receive,
     closerVars
<1>6. Registered'
  BY PoolAssumption, <1>1 DEF IInv, TypeOK, NoSharedConnection, Holding,
     Registered, Receive, closerVars
<1>7. NothingLost'
  <2> SUFFICES ASSUME ~closed', NEW c \in connections'
               PROVE  \/ \E h \in Clients : conn'[h] = c
                      \/ \E i \in 1..Len(idleConnChan') : idleConnChan'[i] = c
    BY DEF NothingLost
  <2>1. /\ c \in connections /\ c # NoConn /\ conn[g] = NoConn
        /\ conn' = [conn EXCEPT ![g] = Head(idleConnChan)]
        /\ conn \in [Clients -> Conns \cup {NoConn}]
        /\ idleConnChan' = Tail(idleConnChan)
    BY PoolAssumption DEF IInv, TypeOK, Holding, Receive
  <2>2. CASE \E h \in Clients : conn[h] = c
    BY <2>1, <2>2
  <2>3. ASSUME NEW i \in 1..Len(idleConnChan), idleConnChan[i] = c
        PROVE  \/ conn'[g] = c
               \/ \E j \in 1..Len(idleConnChan') : idleConnChan'[j] = c
    <3>1. CASE i = 1
      BY <1>1, <2>1, <2>3, <3>1
    <3>2. CASE i # 1
      <4>1. i - 1 \in 1..Len(idleConnChan') /\ idleConnChan'[i - 1] = c
        BY <1>1, <2>1, <2>3, <3>2
      <4> QED
        BY <4>1
    <3> QED
      BY <3>1, <3>2
  <2> QED
    BY <2>2, <2>3 DEF IInv, NothingLost, Receive
<1>8. Marked'
  BY DEF IInv, TypeOK, NoSharedConnection, Holding, Registered, Marked,
     Closing, Receive, closerVars
<1>9. Counted'
  BY PoolAssumption DEF IInv, TypeOK, Counted, Receive, closerVars
<1>10. Waited'
  BY <1>2 DEF IInv, Waited, Receive, closerVars
<1>11. Queue'
  BY DEF IInv, TypeOK, Queue, Holding, InAcquire, Closing, Receive, closerVars
<1>12. Closing'
  BY <1>2 DEF IInv, TypeOK, Closing, Receive, closerVars
<1> QED
  BY <1>3, <1>4, <1>5, <1>6, <1>7, <1>8, <1>9, <1>10, <1>11, <1>12 DEF IInv

\* The default branch of the first select.
LEMMA NoneIdleStep ==
    ASSUME IInv, NEW g \in Clients, NoneIdle(g)
    PROVE  IInv'
<1>1. Users' = Users
  BY DEF IInv, TypeOK, Users, NoneIdle, poolVars, closerVars
<1>2. TypeOK'
  BY PoolAssumption DEF IInv, TypeOK, InAcquire, Holding, NoneIdle, poolVars,
     closerVars
<1>3. NoSharedConnection'
  BY PoolAssumption DEF IInv, TypeOK, NoSharedConnection, Holding, Registered,
     NoneIdle, poolVars, closerVars
<1>4. Holding'
  BY PoolAssumption DEF IInv, TypeOK, Holding, InAcquire, Queue, NoneIdle,
     poolVars, closerVars
<1>5. Registered'
  BY PoolAssumption DEF IInv, TypeOK, NoSharedConnection, Holding, Registered,
     NoneIdle, poolVars, closerVars
<1>6. NothingLost'
  BY DEF IInv, TypeOK, Holding, Registered, NothingLost, Closing, NoneIdle,
     poolVars, closerVars
<1>7. Marked'
  BY DEF IInv, TypeOK, NoSharedConnection, Holding, Registered, Marked,
     Closing, NoneIdle, poolVars, closerVars
<1>8. Counted'
  BY PoolAssumption DEF IInv, TypeOK, Counted, NoneIdle, poolVars, closerVars
<1>9. Waited'
  BY <1>1 DEF IInv, Waited, NoneIdle, poolVars, closerVars
<1>10. Queue'
  BY DEF IInv, TypeOK, Queue, Holding, InAcquire, Closing, NoneIdle, poolVars,
     closerVars
<1>11. Closing'
  BY <1>1 DEF IInv, TypeOK, Closing, NoneIdle, poolVars, closerVars
<1> QED
  BY <1>2, <1>3, <1>4, <1>5, <1>6, <1>7, <1>8, <1>9, <1>10, <1>11 DEF IInv

\* The goroutine joins the queue of the channel.
LEMMA ParkStep ==
    ASSUME IInv, NEW g \in Clients, Park(g)
    PROVE  IInv'
<1>1. Users' = Users
  BY DEF IInv, TypeOK, Users, Park, NothingReady, closerVars
<1>2. TypeOK'
  BY PoolAssumption DEF IInv, TypeOK, InAcquire, Holding, Park, NothingReady,
     closerVars
<1>3. NoSharedConnection'
  BY PoolAssumption DEF IInv, TypeOK, NoSharedConnection, Holding, Registered,
     Park, NothingReady, closerVars
<1>4. Holding'
  BY PoolAssumption DEF IInv, TypeOK, Holding, InAcquire, Queue, Park,
     NothingReady, closerVars
<1>5. Registered'
  BY PoolAssumption DEF IInv, TypeOK, NoSharedConnection, Holding, Registered,
     Park, NothingReady, closerVars
<1>6. NothingLost'
  BY DEF IInv, TypeOK, Holding, Registered, NothingLost, Closing, Park,
     NothingReady, closerVars
<1>7. Marked'
  BY DEF IInv, TypeOK, NoSharedConnection, Holding, Registered, Marked,
     Closing, Park, NothingReady, closerVars
<1>8. Counted'
  BY PoolAssumption DEF IInv, TypeOK, Counted, Park, NothingReady, closerVars
<1>9. Waited'
  BY <1>1 DEF IInv, Waited, Park, NothingReady, closerVars
<1>10. Queue'
  BY DEF IInv, TypeOK, Queue, Holding, InAcquire, Closing, Park, NothingReady,
     closerVars
<1>11. Closing'
  BY <1>1 DEF IInv, TypeOK, Closing, Park, NothingReady, closerVars
<1> QED
  BY <1>2, <1>3, <1>4, <1>5, <1>6, <1>7, <1>8, <1>9, <1>10, <1>11 DEF IInv

\* The received connection is dropped because the pool is closed.
LEMMA TakeClosedStep ==
    ASSUME IInv, NEW g \in Clients, TakeClosed(g)
    PROVE  IInv'
<1>1. Users' = Users
  BY DEF IInv, TypeOK, Users, TakeClosed, poolVars, closerVars
<1>2. TypeOK'
  BY PoolAssumption DEF IInv, TypeOK, InAcquire, Holding, TakeClosed, poolVars,
     closerVars
<1>3. NoSharedConnection'
  BY PoolAssumption DEF IInv, TypeOK, NoSharedConnection, Holding, Registered,
     TakeClosed, poolVars, closerVars
<1>4. Holding'
  BY PoolAssumption DEF IInv, TypeOK, Holding, InAcquire, Queue, TakeClosed,
     poolVars, closerVars
<1>5. Registered'
  BY PoolAssumption DEF IInv, TypeOK, NoSharedConnection, Holding, Registered,
     TakeClosed, poolVars, closerVars
<1>6. NothingLost'
  BY DEF IInv, TypeOK, Holding, Registered, NothingLost, Closing, TakeClosed,
     poolVars, closerVars
<1>7. Marked'
  BY DEF IInv, TypeOK, NoSharedConnection, Holding, Registered, Marked,
     Closing, TakeClosed, poolVars, closerVars
<1>8. Counted'
  BY PoolAssumption DEF IInv, TypeOK, Counted, TakeClosed, poolVars, closerVars
<1>9. Waited'
  BY <1>1 DEF IInv, Waited, TakeClosed, poolVars, closerVars
<1>10. Queue'
  BY DEF IInv, TypeOK, Queue, Holding, InAcquire, Closing, TakeClosed,
     poolVars, closerVars
<1>11. Closing'
  BY <1>1 DEF IInv, TypeOK, Closing, TakeClosed, poolVars, closerVars
<1> QED
  BY <1>2, <1>3, <1>4, <1>5, <1>6, <1>7, <1>8, <1>9, <1>10, <1>11 DEF IInv

\* The received connection is lent: one more user, marked IN_USE.
LEMMA TakeUsableStep ==
    ASSUME IInv, NEW g \in Clients, TakeUsable(g)
    PROVE  IInv'
<1>1. g \notin Users /\ Users' = Users \cup {g}
  BY DEF IInv, TypeOK, Users, TakeUsable, Usable, closerVars
<1>2. connWG + 1 = Cardinality(Users \cup {g})
  BY <1>1, AddUser
<1>3. TypeOK'
  BY PoolAssumption DEF IInv, TypeOK, InAcquire, Holding, TakeUsable, Usable,
     closerVars
<1>4. NoSharedConnection'
  BY PoolAssumption DEF IInv, TypeOK, NoSharedConnection, Holding, Registered,
     TakeUsable, Usable, closerVars
<1>5. Holding'
  BY PoolAssumption DEF IInv, TypeOK, Holding, InAcquire, Queue, TakeUsable,
     Usable, closerVars
<1>6. Registered'
  BY PoolAssumption DEF IInv, TypeOK, NoSharedConnection, Holding, Registered,
     TakeUsable, Usable, closerVars
<1>7. NothingLost'
  BY DEF IInv, TypeOK, Holding, Registered, NothingLost, Closing, TakeUsable,
     Usable, closerVars
<1>8. Marked'
  BY DEF IInv, TypeOK, NoSharedConnection, Holding, Registered, Marked,
     Closing, TakeUsable, Usable, closerVars
<1>9. Counted'
  BY PoolAssumption DEF IInv, TypeOK, Counted, TakeUsable, Usable, closerVars
<1>10. Waited'
  BY <1>1, <1>2 DEF IInv, Waited, TakeUsable, Usable, closerVars
<1>11. Queue'
  BY DEF IInv, TypeOK, Queue, Holding, InAcquire, Closing, TakeUsable, Usable,
     closerVars
<1>12. Closing'
  BY <1>1 DEF IInv, TypeOK, Closing, TakeUsable, Usable, closerVars
<1> QED
  BY <1>3, <1>4, <1>5, <1>6, <1>7, <1>8, <1>9, <1>10, <1>11, <1>12 DEF IInv

\* The received connection leaves the registry and the count.
LEMMA TakeDiscardStep ==
    ASSUME IInv, NEW g \in Clients, TakeDiscard(g)
    PROVE  IInv'
<1>1. Users' = Users
  BY DEF IInv, TypeOK, Users, TakeDiscard, Usable, closerVars
<1>2. conn[g] \in connections
  BY DEF IInv, Holding, Registered, TakeDiscard, Usable, closerVars
<1>3. /\ totalConnections - 1 \in Nat
      /\ totalConnections - 1 = Cardinality(connections \ {conn[g]})
  BY <1>2, RemoveConnection
<1>4. TypeOK'
  BY PoolAssumption, <1>3 DEF IInv, TypeOK, InAcquire, Holding, TakeDiscard,
     Usable, closerVars
<1>5. NoSharedConnection'
  BY PoolAssumption DEF IInv, TypeOK, NoSharedConnection, Holding, Registered,
     TakeDiscard, Usable, closerVars
<1>6. Holding'
  BY PoolAssumption DEF IInv, TypeOK, Holding, InAcquire, Queue, TakeDiscard,
     Usable, closerVars
<1>7. Registered'
  BY PoolAssumption DEF IInv, TypeOK, NoSharedConnection, Holding, Registered,
     TakeDiscard, Usable, closerVars
<1>8. NothingLost'
  BY DEF IInv, TypeOK, Holding, Registered, NothingLost, Closing, TakeDiscard,
     Usable, closerVars
<1>9. Marked'
  BY DEF IInv, TypeOK, NoSharedConnection, Holding, Registered, Marked,
     Closing, TakeDiscard, Usable, closerVars
<1>10. Counted'
  BY PoolAssumption, <1>3 DEF IInv, TypeOK, Counted, TakeDiscard, Usable,
     closerVars
<1>11. Waited'
  BY <1>1 DEF IInv, Waited, TakeDiscard, Usable, closerVars
<1>12. Queue'
  BY DEF IInv, TypeOK, Queue, Holding, InAcquire, Closing, TakeDiscard, Usable,
     closerVars
<1>13. Closing'
  BY <1>1 DEF IInv, TypeOK, Closing, TakeDiscard, Usable, closerVars
<1> QED
  BY <1>4, <1>5, <1>6, <1>7, <1>8, <1>9, <1>10, <1>11, <1>12, <1>13 DEF IInv

\* No room: only pc changes.
LEMMA AtLimitStep ==
    ASSUME IInv, NEW g \in Clients, AtLimit(g)
    PROVE  IInv'
<1>1. Users' = Users
  BY DEF IInv, TypeOK, Users, AtLimit, poolVars, closerVars
<1>2. TypeOK'
  BY PoolAssumption DEF IInv, TypeOK, InAcquire, Holding, AtLimit, poolVars,
     closerVars
<1>3. NoSharedConnection'
  BY PoolAssumption DEF IInv, TypeOK, NoSharedConnection, Holding, Registered,
     AtLimit, poolVars, closerVars
<1>4. Holding'
  BY PoolAssumption DEF IInv, TypeOK, Holding, InAcquire, Queue, AtLimit,
     poolVars, closerVars
<1>5. Registered'
  BY PoolAssumption DEF IInv, TypeOK, NoSharedConnection, Holding, Registered,
     AtLimit, poolVars, closerVars
<1>6. NothingLost'
  BY DEF IInv, TypeOK, Holding, Registered, NothingLost, Closing, AtLimit,
     poolVars, closerVars
<1>7. Marked'
  BY DEF IInv, TypeOK, NoSharedConnection, Holding, Registered, Marked,
     Closing, AtLimit, poolVars, closerVars
<1>8. Counted'
  BY PoolAssumption DEF IInv, TypeOK, Counted, AtLimit, poolVars, closerVars
<1>9. Waited'
  BY <1>1 DEF IInv, Waited, AtLimit, poolVars, closerVars
<1>10. Queue'
  BY DEF IInv, TypeOK, Queue, Holding, InAcquire, Closing, AtLimit, poolVars,
     closerVars
<1>11. Closing'
  BY <1>1 DEF IInv, TypeOK, Closing, AtLimit, poolVars, closerVars
<1> QED
  BY <1>2, <1>3, <1>4, <1>5, <1>6, <1>7, <1>8, <1>9, <1>10, <1>11 DEF IInv

\* The health of a connection is in no invariant but the type.
LEMMA MarkUnhealthyStep ==
    ASSUME IInv, NEW g \in Clients, MarkUnhealthy(g)
    PROVE  IInv'
<1>1. Users' = Users
  BY DEF IInv, TypeOK, Users, MarkUnhealthy, clientVars, closerVars
<1>2. TypeOK'
  BY PoolAssumption DEF IInv, TypeOK, InAcquire, Holding, MarkUnhealthy,
     clientVars, closerVars
<1>3. NoSharedConnection'
  BY DEF IInv, NoSharedConnection, MarkUnhealthy, clientVars, closerVars
<1>4. Holding'
  BY PoolAssumption DEF IInv, TypeOK, Holding, InAcquire, Queue, MarkUnhealthy,
     clientVars, closerVars
<1>5. Registered'
  BY PoolAssumption DEF IInv, TypeOK, NoSharedConnection, Holding, Registered,
     MarkUnhealthy, clientVars, closerVars
<1>6. NothingLost'
  BY DEF IInv, TypeOK, Holding, Registered, NothingLost, Closing,
     MarkUnhealthy, clientVars, closerVars
<1>7. Marked'
  BY DEF IInv, TypeOK, NoSharedConnection, Holding, Registered, Marked,
     Closing, MarkUnhealthy, clientVars, closerVars
<1>8. Counted'
  BY PoolAssumption DEF IInv, TypeOK, Counted, MarkUnhealthy, clientVars,
     closerVars
<1>9. Waited'
  BY <1>1 DEF IInv, Waited, MarkUnhealthy, clientVars, closerVars
<1>10. Queue'
  BY DEF IInv, TypeOK, Queue, Holding, InAcquire, Closing, MarkUnhealthy,
     clientVars, closerVars
<1>11. Closing'
  BY <1>1 DEF IInv, TypeOK, Closing, MarkUnhealthy, clientVars, closerVars
<1> QED
  BY <1>2, <1>3, <1>4, <1>5, <1>6, <1>7, <1>8, <1>9, <1>10, <1>11 DEF IInv

\* Neither is its idle time.
LEMMA LapseStep ==
    ASSUME IInv, NEW c \in Conns, Lapse(c)
    PROVE  IInv'
<1>1. Users' = Users
  BY DEF IInv, TypeOK, Users, Lapse, clientVars, closerVars
<1>2. TypeOK'
  BY PoolAssumption DEF IInv, TypeOK, InAcquire, Holding, Lapse, clientVars,
     closerVars
<1>3. NoSharedConnection'
  BY PoolAssumption DEF IInv, TypeOK, NoSharedConnection, Holding, Registered,
     Lapse, clientVars, closerVars
<1>4. Holding'
  BY PoolAssumption DEF IInv, TypeOK, Holding, InAcquire, Queue, Lapse,
     clientVars, closerVars
<1>5. Registered'
  BY PoolAssumption DEF IInv, TypeOK, NoSharedConnection, Holding, Registered,
     Lapse, clientVars, closerVars
<1>6. NothingLost'
  BY DEF IInv, TypeOK, Holding, Registered, NothingLost, Closing, Lapse,
     clientVars, closerVars
<1>7. Marked'
  BY DEF IInv, TypeOK, NoSharedConnection, Holding, Registered, Marked,
     Closing, Lapse, clientVars, closerVars
<1>8. Counted'
  BY PoolAssumption DEF IInv, TypeOK, Counted, Lapse, clientVars, closerVars
<1>9. Waited'
  BY <1>1 DEF IInv, Waited, Lapse, clientVars, closerVars
<1>10. Queue'
  BY DEF IInv, TypeOK, Queue, Holding, InAcquire, Closing, Lapse, clientVars,
     closerVars
<1>11. Closing'
  BY <1>1 DEF IInv, TypeOK, Closing, Lapse, clientVars, closerVars
<1> QED
  BY <1>2, <1>3, <1>4, <1>5, <1>6, <1>7, <1>8, <1>9, <1>10, <1>11 DEF IInv

\* A refused Release is not the one of a borrower, and changes nothing.
LEMMA ReleaseRefusedStep ==
    ASSUME IInv, NEW g \in Clients, NEW c \in Conns, ReleaseRefused(g, c)
    PROVE  IInv'
<1>1. pc[g] = "out"
  BY DEF IInv, Holding, Registered, Marked, ReleaseRefused, MayRelease, Accepts
<1>2. Users' = Users
  BY <1>1 DEF IInv, TypeOK, Users, ReleaseRefused, MayRelease, Accepts,
     poolVars, closerVars
<1>3. TypeOK'
  BY PoolAssumption DEF IInv, TypeOK, InAcquire, Holding, ReleaseRefused,
     MayRelease, Accepts, poolVars, closerVars
<1>4. NoSharedConnection'
  BY PoolAssumption, <1>1 DEF IInv, TypeOK, NoSharedConnection, Holding,
     Registered, ReleaseRefused, MayRelease, Accepts, poolVars, closerVars
<1>5. Holding'
  BY PoolAssumption, <1>1 DEF IInv, TypeOK, Holding, InAcquire, Queue,
     ReleaseRefused, MayRelease, Accepts, poolVars, closerVars
<1>6. Registered'
  BY PoolAssumption, <1>1 DEF IInv, TypeOK, NoSharedConnection, Holding,
     Registered, ReleaseRefused, MayRelease, Accepts, poolVars, closerVars
<1>7. NothingLost'
  BY <1>1 DEF IInv, TypeOK, Holding, Registered, NothingLost, Closing,
     ReleaseRefused, MayRelease, Accepts, poolVars, closerVars
<1>8. Marked'
  BY <1>1 DEF IInv, TypeOK, NoSharedConnection, Holding, Registered, Marked,
     Closing, ReleaseRefused, MayRelease, Accepts, poolVars, closerVars
<1>9. Counted'
  BY PoolAssumption DEF IInv, TypeOK, Counted, ReleaseRefused, MayRelease,
     Accepts, poolVars, closerVars
<1>10. Waited'
  BY <1>2 DEF IInv, Waited, ReleaseRefused, MayRelease, Accepts, poolVars,
     closerVars
<1>11. Queue'
  BY <1>1 DEF IInv, TypeOK, Queue, Holding, InAcquire, Closing, ReleaseRefused,
     MayRelease, Accepts, poolVars, closerVars
<1>12. Closing'
  BY <1>2, <1>1 DEF IInv, TypeOK, Closing, ReleaseRefused, MayRelease, Accepts,
     poolVars, closerVars
<1> QED
  BY <1>3, <1>4, <1>5, <1>6, <1>7, <1>8, <1>9, <1>10, <1>11, <1>12 DEF IInv

\* Release ends a borrowing and removes the connection.
LEMMA ReleaseDropStep ==
    ASSUME IInv, NEW g \in Clients, NEW c \in Conns, ReleaseDrop(g, c)
    PROVE  IInv'
<1>1. pc[g] = "using" /\ c = conn[g] /\ g \in Users
  BY AcceptedIsUsed DEF ReleaseDrop, GiveBack
<1>2. connWG - 1 \in Nat /\ connWG - 1 = Cardinality(Users \ {g})
  BY <1>1, RemoveUser
<1>3. Users' = Users \ {g}
  BY <1>1 DEF IInv, TypeOK, Users, ReleaseDrop, GiveBack, closerVars
<1>4. c \in connections
  BY <1>1 DEF IInv, Holding, Registered, ReleaseDrop, GiveBack, closerVars
<1>5. /\ totalConnections - 1 \in Nat
      /\ totalConnections - 1 = Cardinality(connections \ {c})
  BY <1>4, RemoveConnection
<1>6. TypeOK'
  BY PoolAssumption, <1>5, <1>2 DEF IInv, TypeOK, InAcquire, Holding,
     ReleaseDrop, GiveBack, closerVars
<1>7. NoSharedConnection'
  BY PoolAssumption, <1>1 DEF IInv, TypeOK, NoSharedConnection, Holding,
     Registered, ReleaseDrop, GiveBack, closerVars
<1>8. Holding'
  BY PoolAssumption, <1>1 DEF IInv, TypeOK, Holding, InAcquire, Queue,
     ReleaseDrop, GiveBack, closerVars
<1>9. Registered'
  BY PoolAssumption, <1>1 DEF IInv, TypeOK, NoSharedConnection, Holding,
     Registered, ReleaseDrop, GiveBack, closerVars
<1>10. NothingLost'
  BY <1>1 DEF IInv, TypeOK, Holding, Registered, NothingLost, Closing,
     ReleaseDrop, GiveBack, closerVars
<1>11. Marked'
  BY <1>1 DEF IInv, TypeOK, NoSharedConnection, Holding, Registered, Marked,
     Closing, ReleaseDrop, GiveBack, closerVars
<1>12. Counted'
  BY PoolAssumption, <1>5 DEF IInv, TypeOK, Counted, ReleaseDrop, GiveBack,
     closerVars
<1>13. Waited'
  BY <1>3, <1>2 DEF IInv, Waited, ReleaseDrop, GiveBack, closerVars
<1>14. Queue'
  BY <1>1 DEF IInv, TypeOK, Queue, Holding, InAcquire, Closing, ReleaseDrop,
     GiveBack, closerVars
<1>15. Closing'
  BY <1>3, <1>1 DEF IInv, TypeOK, Closing, ReleaseDrop, GiveBack, closerVars
<1> QED
  BY <1>6, <1>7, <1>8, <1>9, <1>10, <1>11, <1>12, <1>13, <1>14, <1>15 DEF IInv

\* Release ends a borrowing and puts the connection into the channel.
LEMMA ReleaseQueueStep ==
    ASSUME IInv, NEW g \in Clients, NEW c \in Conns, ReleaseQueue(g, c)
    PROVE  IInv'
<1>1. pc[g] = "using" /\ c = conn[g] /\ g \in Users
  BY AcceptedIsUsed DEF ReleaseQueue, GiveBack
<1>2. connWG - 1 \in Nat /\ connWG - 1 = Cardinality(Users \ {g})
  BY <1>1, RemoveUser
<1>3. Users' = Users \ {g}
  BY <1>1 DEF IInv, TypeOK, Users, ReleaseQueue, GiveBack, ChannelFull,
     closerVars
<1>4. TypeOK'
  BY PoolAssumption, <1>2 DEF IInv, TypeOK, InAcquire, Holding, ReleaseQueue,
     GiveBack, ChannelFull, closerVars
<1>5. NoSharedConnection'
  BY PoolAssumption, <1>1 DEF IInv, TypeOK, NoSharedConnection, Holding,
     Registered, ReleaseQueue, GiveBack, ChannelFull, closerVars
<1>6. Holding'
  BY PoolAssumption, <1>1 DEF IInv, TypeOK, Holding, InAcquire, Queue,
     ReleaseQueue, GiveBack, ChannelFull, closerVars
<1>7. Registered'
  BY PoolAssumption, <1>1 DEF IInv, TypeOK, NoSharedConnection, Holding,
     Registered, ReleaseQueue, GiveBack, ChannelFull, closerVars
<1>8. NothingLost'
  BY <1>1 DEF IInv, TypeOK, Holding, Registered, NothingLost, Closing,
     ReleaseQueue, GiveBack, ChannelFull, closerVars
<1>9. Marked'
  BY <1>1 DEF IInv, TypeOK, NoSharedConnection, Holding, Registered, Marked,
     Closing, ReleaseQueue, GiveBack, ChannelFull, closerVars
<1>10. Counted'
  BY PoolAssumption DEF IInv, TypeOK, Counted, ReleaseQueue, GiveBack,
     ChannelFull, closerVars
<1>11. Waited'
  BY <1>3, <1>2 DEF IInv, Waited, ReleaseQueue, GiveBack, ChannelFull,
     closerVars
<1>12. Queue'
  BY <1>1 DEF IInv, TypeOK, Queue, Holding, InAcquire, Closing, ReleaseQueue,
     GiveBack, ChannelFull, closerVars
<1>13. Closing'
  BY <1>3, <1>1 DEF IInv, TypeOK, Closing, ReleaseQueue, GiveBack, ChannelFull,
     closerVars
<1> QED
  BY <1>4, <1>5, <1>6, <1>7, <1>8, <1>9, <1>10, <1>11, <1>12, <1>13 DEF IInv

\* Release ends a borrowing and hands the connection to the first in the
\* queue.
LEMMA ReleaseHandOffStep ==
    ASSUME IInv, NEW g \in Clients, NEW c \in Conns, ReleaseHandOff(g, c)
    PROVE  IInv'
<1>1. pc[g] = "using" /\ c = conn[g] /\ g \in Users
  BY AcceptedIsUsed DEF ReleaseHandOff, GiveBack
<1>2. /\ Head(recvq) \in Clients /\ Head(recvq) = recvq[1]
      /\ Len(recvq) \in Nat \ {0}
      /\ Tail(recvq) \in Seq(Clients) /\ Len(Tail(recvq)) = Len(recvq) - 1
      /\ \A i \in 1..(Len(recvq) - 1) : Tail(recvq)[i] = recvq[i + 1]
  BY HeadTail DEF IInv, TypeOK, ReleaseHandOff
<1>3. /\ Head(recvq) # g /\ pc[Head(recvq)] = "parked"
      /\ conn[Head(recvq)] = NoConn
  BY <1>1, <1>2 DEF IInv, Queue, Holding
<1>4. /\ conn'[Head(recvq)] = c /\ conn'[g] = NoConn
      /\ pc'[Head(recvq)] = "gotWait" /\ pc'[g] = "out"
      /\ \A h \in Clients \ {g, Head(recvq)} :
            conn'[h] = conn[h] /\ pc'[h] = pc[h]
      /\ status' = [status EXCEPT ![c] = "IDLE"] /\ connections' = connections
      /\ idleConnChan' = idleConnChan /\ closerConn' = closerConn
      /\ recvq' = Tail(recvq) /\ ctxDone' = ctxDone /\ closed' = closed /\ ~closed
      /\ c \in Conns /\ c # NoConn
  BY PoolAssumption, <1>1, <1>2, <1>3 DEF IInv, TypeOK, ReleaseHandOff,
     GiveBack, closerVars
<1>5. connWG - 1 \in Nat /\ connWG - 1 = Cardinality(Users \ {g})
  BY <1>1, RemoveUser
<1>6. Users' = Users \ {g}
  BY <1>1, <1>2, <1>3 DEF IInv, TypeOK, Users, ReleaseHandOff, GiveBack,
     closerVars
<1>7. TypeOK'
  BY PoolAssumption, <1>5, <1>2, <1>3 DEF IInv, TypeOK, InAcquire, Holding,
     ReleaseHandOff, GiveBack, closerVars
<1>8. NoSharedConnection'
  <2> USE <1>1, <1>2, <1>3, <1>4
  <2>1. \A h, k \in Clients : conn'[h] # NoConn /\ conn'[h] = conn'[k] => h = k
    BY DEF IInv, NoSharedConnection
  <2>2. \A h \in Clients, s \in Closers :
           conn'[h] # NoConn => conn'[h] # closerConn'[s]
    BY DEF IInv, NoSharedConnection
  <2>3. \A i \in 1..Len(idleConnChan'), h \in Clients : conn'[h] # idleConnChan'[i]
    <3>1. \A i \in 1..Len(idleConnChan) : /\ idleConnChan[i] \in Conns
                                         /\ idleConnChan[i] # NoConn
      BY PoolAssumption DEF IInv, TypeOK
    <3> QED
      BY <3>1 DEF IInv, NoSharedConnection
  <2> QED
    BY <2>1, <2>2, <2>3 DEF IInv, NoSharedConnection
<1>9. Holding'
  BY PoolAssumption, <1>1, <1>2, <1>3 DEF IInv, TypeOK, Holding, InAcquire,
     Queue, ReleaseHandOff, GiveBack, closerVars
<1>10. Registered'
  BY PoolAssumption, <1>1, <1>2, <1>3 DEF IInv, TypeOK, NoSharedConnection,
     Holding, Registered, ReleaseHandOff, GiveBack, closerVars
<1>11. NothingLost'
  <2> SUFFICES ASSUME NEW d \in connections
               PROVE  \/ \E h \in Clients : conn'[h] = d
                      \/ \E i \in 1..Len(idleConnChan) : idleConnChan[i] = d
    BY <1>4 DEF NothingLost
  <2>1. d # NoConn
    BY PoolAssumption DEF IInv, TypeOK
  <2>2. ASSUME NEW h \in Clients, conn[h] = d
        PROVE  \E k \in Clients : conn'[k] = d
    BY <1>1, <1>2, <1>3, <1>4, <2>1, <2>2
  <2> QED
    BY <1>4, <2>2 DEF IInv, NothingLost
<1>12. Marked'
  <2> SUFFICES ASSUME NEW d \in connections
               PROVE  status'[d] = "IN_USE"
                        <=> \E h \in Clients : pc'[h] = "using" /\ conn'[h] = d
    BY <1>4 DEF Marked
  <2>1. status \in [Conns -> {"IDLE", "IN_USE"}] /\ d \in Conns
    BY DEF IInv, TypeOK
  <2>2. CASE d = c
    BY <1>1, <1>2, <1>3, <1>4, <2>1, <2>2 DEF IInv, NoSharedConnection
  <2>3. CASE d # c
    <3>1. status'[d] = status[d]
      BY <1>4, <2>1, <2>3
    <3>2. \A h \in Clients : pc'[h] = "using" /\ conn'[h] = d
                             <=> pc[h] = "using" /\ conn[h] = d
      BY <1>1, <1>2, <1>3, <1>4, <2>3
    <3> QED
      BY <3>1, <3>2 DEF IInv, Marked
  <2> QED
    BY <2>2, <2>3
<1>13. Counted'
  BY PoolAssumption DEF IInv, TypeOK, Counted, ReleaseHandOff, GiveBack,
     closerVars
<1>14. Waited'
  BY <1>6, <1>5 DEF IInv, Waited, ReleaseHandOff, GiveBack, closerVars
<1>15. Queue'
  <2>1. \A i \in 1..Len(recvq') :
           /\ i + 1 \in 1..Len(recvq) /\ recvq'[i] = recvq[i + 1]
           /\ recvq[i + 1] # Head(recvq) /\ recvq[i + 1] # g
           /\ recvq[i + 1] \in Clients
    <3>1. \A i \in 1..Len(recvq') : i + 1 \in 1..Len(recvq) /\ i + 1 # 1
      BY <1>2, <1>4
    <3>2. \A i \in 1..Len(recvq') : recvq'[i] = recvq[i + 1]
      BY <1>2, <1>4
    <3>3. \A i \in 1..Len(recvq) : recvq[i] \in Clients /\ recvq[i] # g
      BY <1>1 DEF IInv, TypeOK, Queue
    <3>4. 1 \in 1..Len(recvq)
      BY <1>2
    <3> QED
      BY <1>2, <3>1, <3>2, <3>3, <3>4 DEF IInv, Queue
  <2>2. \A i \in 1..Len(recvq') : pc'[recvq'[i]] = "parked" /\ ~ctxDone'[recvq'[i]]
    BY <1>4, <2>1 DEF IInv, Queue
  <2>3. \A i, j \in 1..Len(recvq') : recvq'[i] = recvq'[j] => i = j
    BY <1>2, <1>4, <2>1 DEF IInv, Queue
  <2> QED
    BY <1>4, <2>2, <2>3 DEF Queue
<1>16. Closing'
  BY <1>6, <1>1, <1>2, <1>3 DEF IInv, TypeOK, Closing, ReleaseHandOff,
     GiveBack, closerVars
<1> QED
  BY <1>7, <1>8, <1>9, <1>10, <1>11, <1>12, <1>13, <1>14, <1>15, <1>16 DEF IInv

\* Shutdown closes the pool and empties the queue.
LEMMA ShutdownBeginStep ==
    ASSUME IInv, NEW s \in Closers, ShutdownBegin(s)
    PROVE  IInv'
<1>1. Users' = Users
  BY DEF IInv, TypeOK, Users, ShutdownBegin, clientVars
<1>2. TypeOK'
  BY PoolAssumption DEF IInv, TypeOK, InAcquire, Holding, ShutdownBegin,
     clientVars
<1>3. NoSharedConnection'
  BY PoolAssumption DEF IInv, TypeOK, NoSharedConnection, Holding, Registered,
     ShutdownBegin, clientVars
<1>4. Holding'
  BY PoolAssumption DEF IInv, TypeOK, Holding, InAcquire, Queue, ShutdownBegin,
     clientVars
<1>5. Registered'
  BY PoolAssumption DEF IInv, TypeOK, NoSharedConnection, Holding, Registered,
     ShutdownBegin, clientVars
<1>6. NothingLost'
  BY DEF IInv, TypeOK, Holding, Registered, NothingLost, Closing,
     ShutdownBegin, clientVars
<1>7. Marked'
  BY DEF IInv, TypeOK, NoSharedConnection, Holding, Registered, Marked,
     Closing, ShutdownBegin, clientVars
<1>8. Counted'
  BY PoolAssumption DEF IInv, TypeOK, Counted, ShutdownBegin, clientVars
<1>9. Waited'
  BY <1>1 DEF IInv, Waited, ShutdownBegin, clientVars
<1>10. Queue'
  BY DEF IInv, TypeOK, Queue, Holding, InAcquire, Closing, ShutdownBegin,
     clientVars
<1>11. Closing'
  BY <1>1 DEF IInv, TypeOK, Closing, ShutdownBegin, clientVars
<1> QED
  BY <1>2, <1>3, <1>4, <1>5, <1>6, <1>7, <1>8, <1>9, <1>10, <1>11 DEF IInv

\* connWG.Wait() returns: there is no user.
LEMMA ShutdownWaitStep ==
    ASSUME IInv, NEW s \in Closers, ShutdownWait(s)
    PROVE  IInv'
<1>1. Users = {}
  BY Finite, FS_EmptySet DEF IInv, Waited, ShutdownWait
<1>2. Users' = Users
  BY DEF IInv, TypeOK, Users, ShutdownWait, poolVars, clientVars
<1>3. TypeOK'
  BY PoolAssumption DEF IInv, TypeOK, InAcquire, Holding, ShutdownWait,
     poolVars, clientVars
<1>4. NoSharedConnection'
  BY PoolAssumption DEF IInv, TypeOK, NoSharedConnection, Holding, Registered,
     ShutdownWait, poolVars, clientVars
<1>5. Holding'
  BY PoolAssumption DEF IInv, TypeOK, Holding, InAcquire, Queue, ShutdownWait,
     poolVars, clientVars
<1>6. Registered'
  BY PoolAssumption DEF IInv, TypeOK, NoSharedConnection, Holding, Registered,
     ShutdownWait, poolVars, clientVars
<1>7. NothingLost'
  BY DEF IInv, TypeOK, Holding, Registered, NothingLost, Closing, ShutdownWait,
     poolVars, clientVars
<1>8. Marked'
  BY DEF IInv, TypeOK, NoSharedConnection, Holding, Registered, Marked,
     Closing, ShutdownWait, poolVars, clientVars
<1>9. Counted'
  BY PoolAssumption DEF IInv, TypeOK, Counted, ShutdownWait, poolVars,
     clientVars
<1>10. Waited'
  BY <1>2 DEF IInv, Waited, ShutdownWait, poolVars, clientVars
<1>11. Queue'
  BY DEF IInv, TypeOK, Queue, Holding, InAcquire, Closing, ShutdownWait,
     poolVars, clientVars
<1>12. Closing'
  BY <1>2, <1>1 DEF IInv, TypeOK, Closing, ShutdownWait, poolVars, clientVars
<1> QED
  BY <1>3, <1>4, <1>5, <1>6, <1>7, <1>8, <1>9, <1>10, <1>11, <1>12 DEF IInv

\* The head of the channel goes into the hand of Shutdown.
LEMMA DrainReceiveStep ==
    ASSUME IInv, NEW s \in Closers, DrainReceive(s)
    PROVE  IInv'
<1>1. /\ Head(idleConnChan) \in Conns /\ Head(idleConnChan) = idleConnChan[1]
      /\ Len(idleConnChan) \in Nat \ {0}
      /\ Tail(idleConnChan) \in Seq(Conns)
      /\ Len(Tail(idleConnChan)) = Len(idleConnChan) - 1
      /\ \A i \in 1..(Len(idleConnChan) - 1) :
            Tail(idleConnChan)[i] = idleConnChan[i + 1]
  BY HeadTail DEF IInv, TypeOK, DrainReceive
<1>2. Users' = Users
  BY DEF IInv, TypeOK, Users, DrainReceive, clientVars
<1>3. TypeOK'
  BY PoolAssumption, <1>1 DEF IInv, TypeOK, InAcquire, Holding, DrainReceive,
     clientVars
<1>4. NoSharedConnection'
  BY PoolAssumption, <1>1 DEF IInv, TypeOK, NoSharedConnection, Holding,
     Registered, DrainReceive, clientVars
<1>5. Holding'
  BY PoolAssumption DEF IInv, TypeOK, Holding, InAcquire, Queue, DrainReceive,
     clientVars
<1>6. Registered'
  BY PoolAssumption, <1>1 DEF IInv, TypeOK, NoSharedConnection, Holding,
     Registered, DrainReceive, clientVars
<1>7. NothingLost'
  BY <1>1 DEF IInv, TypeOK, Holding, Registered, NothingLost, Closing,
     DrainReceive, clientVars
<1>8. Marked'
  BY DEF IInv, TypeOK, NoSharedConnection, Holding, Registered, Marked,
     Closing, DrainReceive, clientVars
<1>9. Counted'
  BY PoolAssumption DEF IInv, TypeOK, Counted, DrainReceive, clientVars
<1>10. Waited'
  BY <1>2 DEF IInv, Waited, DrainReceive, clientVars
<1>11. Queue'
  BY DEF IInv, TypeOK, Queue, Holding, InAcquire, Closing, DrainReceive,
     clientVars
<1>12. Closing'
  BY <1>2 DEF IInv, TypeOK, Closing, DrainReceive, clientVars
<1> QED
  BY <1>3, <1>4, <1>5, <1>6, <1>7, <1>8, <1>9, <1>10, <1>11, <1>12 DEF IInv

\* Shutdown removes what it received from the registry and the count.
LEMMA DrainDeleteStep ==
    ASSUME IInv, NEW s \in Closers, DrainDelete(s)
    PROVE  IInv'
<1>1. Users' = Users
  BY DEF IInv, TypeOK, Users, DrainDelete, clientVars
<1>2. closerConn[s] \in connections
  BY DEF IInv, Holding, Registered, DrainDelete, clientVars
<1>3. /\ totalConnections - 1 \in Nat
      /\ totalConnections - 1 = Cardinality(connections \ {closerConn[s]})
  BY <1>2, RemoveConnection
<1>4. TypeOK'
  BY PoolAssumption, <1>3 DEF IInv, TypeOK, InAcquire, Holding, DrainDelete,
     clientVars
<1>5. NoSharedConnection'
  BY PoolAssumption DEF IInv, TypeOK, NoSharedConnection, Holding, Registered,
     DrainDelete, clientVars
<1>6. Holding'
  BY PoolAssumption DEF IInv, TypeOK, Holding, InAcquire, Queue, DrainDelete,
     clientVars
<1>7. Registered'
  BY PoolAssumption DEF IInv, TypeOK, NoSharedConnection, Holding, Registered,
     DrainDelete, clientVars
<1>8. NothingLost'
  BY DEF IInv, TypeOK, Holding, Registered, NothingLost, Closing, DrainDelete,
     clientVars
<1>9. Marked'
  BY DEF IInv, TypeOK, NoSharedConnection, Holding, Registered, Marked,
     Closing, DrainDelete, clientVars
<1>10. Counted'
  BY PoolAssumption, <1>3 DEF IInv, TypeOK, Counted, DrainDelete, clientVars
<1>11. Waited'
  BY <1>1 DEF IInv, Waited, DrainDelete, clientVars
<1>12. Queue'
  BY DEF IInv, TypeOK, Queue, Holding, InAcquire, Closing, DrainDelete,
     clientVars
<1>13. Closing'
  BY <1>1 DEF IInv, TypeOK, Closing, DrainDelete, clientVars
<1> QED
  BY <1>4, <1>5, <1>6, <1>7, <1>8, <1>9, <1>10, <1>11, <1>12, <1>13 DEF IInv

\* Shutdown returns.
LEMMA DrainEndStep ==
    ASSUME IInv, NEW s \in Closers, DrainEnd(s)
    PROVE  IInv'
<1>1. Users' = Users
  BY DEF IInv, TypeOK, Users, DrainEnd, poolVars, clientVars
<1>2. TypeOK'
  BY PoolAssumption DEF IInv, TypeOK, InAcquire, Holding, DrainEnd, poolVars,
     clientVars
<1>3. NoSharedConnection'
  BY PoolAssumption DEF IInv, TypeOK, NoSharedConnection, Holding, Registered,
     DrainEnd, poolVars, clientVars
<1>4. Holding'
  BY PoolAssumption DEF IInv, TypeOK, Holding, InAcquire, Queue, DrainEnd,
     poolVars, clientVars
<1>5. Registered'
  BY PoolAssumption DEF IInv, TypeOK, NoSharedConnection, Holding, Registered,
     DrainEnd, poolVars, clientVars
<1>6. NothingLost'
  BY DEF IInv, TypeOK, Holding, Registered, NothingLost, Closing, DrainEnd,
     poolVars, clientVars
<1>7. Marked'
  BY DEF IInv, TypeOK, NoSharedConnection, Holding, Registered, Marked,
     Closing, DrainEnd, poolVars, clientVars
<1>8. Counted'
  BY PoolAssumption DEF IInv, TypeOK, Counted, DrainEnd, poolVars, clientVars
<1>9. Waited'
  BY <1>1 DEF IInv, Waited, DrainEnd, poolVars, clientVars
<1>10. Queue'
  BY DEF IInv, TypeOK, Queue, Holding, InAcquire, Closing, DrainEnd, poolVars,
     clientVars
<1>11. Closing'
  BY <1>1 DEF IInv, TypeOK, Closing, DrainEnd, poolVars, clientVars
<1> QED
  BY <1>2, <1>3, <1>4, <1>5, <1>6, <1>7, <1>8, <1>9, <1>10, <1>11 DEF IInv

\* Acquire creates a connection: one more in the registry, one more user.
LEMMA CreateStep ==
    ASSUME IInv, NEW g \in Clients, Create(g)
    PROVE  IInv'
<1>1. PICK c \in Free :
         /\ status' = [status EXCEPT ![c] = "IN_USE"]
         /\ health' = [health EXCEPT ![c] = "HEALTHY"]
         /\ lapsed' = [lapsed EXCEPT ![c] = FALSE]
         /\ connections' = connections \cup {c}
         /\ conn' = [conn EXCEPT ![g] = c]
  BY DEF Create
<1>2. c \in Conns /\ c # NoConn /\ c \notin connections /\ conn[g] = NoConn
  BY PoolAssumption DEF Free, IInv, Holding, Create
<1>3. totalConnections + 1 = Cardinality(connections \cup {c})
  BY <1>2, AddConnection
<1>4. g \notin Users /\ Users' = Users \cup {g}
  BY DEF IInv, TypeOK, Users, Create
<1>5. connWG + 1 = Cardinality(Users \cup {g})
  BY <1>4, AddUser
<1>6. TypeOK'
  BY <1>1, <1>2 DEF IInv, TypeOK, InAcquire, Create, closerVars
<1>7. NoSharedConnection'
  BY <1>1, <1>2 DEF IInv, TypeOK, NoSharedConnection, Registered, Create,
     closerVars
<1>8. Holding'
  BY <1>1, <1>2 DEF IInv, TypeOK, Holding, Create, closerVars
<1>9. Registered'
  BY <1>1, <1>2 DEF IInv, TypeOK, Registered, Create, closerVars
<1>10. NothingLost'
  <2>1. conn'[g] = c /\ \A h \in Clients \ {g} : conn'[h] = conn[h]
    BY <1>1 DEF IInv, TypeOK
  <2>2. ASSUME NEW d \in connections
        PROVE  \/ \E h \in Clients : conn'[h] = d
               \/ \E i \in 1..Len(idleConnChan) : idleConnChan[i] = d
    <3>1. d # NoConn /\ ~closed
      BY PoolAssumption DEF IInv, TypeOK, Create
    <3> QED
      BY <1>2, <2>1, <3>1 DEF IInv, NothingLost
  <2> QED
    BY <1>1, <2>1, <2>2 DEF NothingLost, Create
<1>11. Marked'
  BY <1>1, <1>2 DEF IInv, TypeOK, Holding, Registered, Marked, Create
<1>12. Counted'
  BY PoolAssumption, <1>1, <1>3 DEF IInv, TypeOK, Counted, Create, HasRoom
<1>13. Waited'
  BY <1>4, <1>5 DEF IInv, Waited, Create
<1>14. Queue'
  BY DEF IInv, TypeOK, Queue, Create
<1>15. Closing'
  BY <1>4 DEF IInv, TypeOK, Closing, Create, closerVars
<1> QED
  BY <1>6, <1>7, <1>8, <1>9, <1>10, <1>11, <1>12, <1>13, <1>14, <1>15 DEF IInv

\* The invariant holds in a new pool.
LEMMA InitIInv == Init => IInv
<1> SUFFICES ASSUME Init PROVE IInv
  OBVIOUS
<1>1. TypeOK
  <2>1. << >> \in Seq(Conns) /\ << >> \in Seq(Clients) /\ Len(<< >>) = 0
    OBVIOUS
  <2>2. /\ idleConnChan \in Seq(Conns) /\ Len(idleConnChan) <= IdleConnections
        /\ recvq \in Seq(Clients) /\ connWG \in Nat /\ totalConnections \in Nat
    BY PoolAssumption, <2>1 DEF Init
  <2>3. /\ status \in [Conns -> {"IDLE", "IN_USE"}]
        /\ health \in [Conns -> {"HEALTHY", "UNHEALTHY"}]
        /\ pc \in [Clients -> InAcquire \cup {"out", "using"}]
        /\ conn \in [Clients -> Conns \cup {NoConn}]
        /\ closerPC \in [Closers -> {"start", "wgwait", "drain", "drop", "done"}]
        /\ closerConn \in [Closers -> Conns \cup {NoConn}]
    BY DEF Init
  <2>4. /\ lapsed \in [Conns -> BOOLEAN] /\ ctxDone \in [Clients -> BOOLEAN]
        /\ closed \in BOOLEAN /\ connections \in SUBSET Conns
    BY DEF Init
  <2> QED
    BY <2>2, <2>3, <2>4 DEF TypeOK
<1>2. Users = {}
  BY DEF Init, Users
<1>3. Counted /\ Waited
  BY PoolAssumption, <1>2, FS_EmptySet DEF Init, Counted, Waited
<1>4. /\ NoSharedConnection /\ Holding /\ Registered /\ NothingLost /\ Marked
      /\ Queue /\ Closing
  BY DEF Init, NoSharedConnection, Holding, Registered, NothingLost, Marked,
     Queue, Closing
<1> QED
  BY <1>1, <1>3, <1>4 DEF IInv

\* No step of a client, of the environment or of Shutdown breaks it.
LEMMA NextIInv == IInv /\ [Next]_vars => IInv'
<1> SUFFICES ASSUME IInv, [Next]_vars PROVE IInv'
  OBVIOUS
<1>1. ASSUME NEW g \in Clients,
             Call(g) \/ Cancel(g) \/ ReturnDone(g) \/ MarkUnhealthy(g)
      PROVE  IInv'
  BY <1>1, CallStep, CancelStep, ReturnDoneStep, MarkUnhealthyStep
<1>2. ASSUME NEW g \in Clients, AcquireStep(g)
      PROVE  IInv'
  BY <1>2, ReceiveStep, NoneIdleStep, ParkStep, TakeClosedStep, TakeUsableStep,
     TakeDiscardStep, CreateStep, AtLimitStep DEF AcquireStep
<1>3. ASSUME NEW g \in Clients, NEW c \in Conns, Release(g, c)
      PROVE  IInv'
  BY <1>3, ReleaseRefusedStep, ReleaseDropStep, ReleaseQueueStep,
     ReleaseHandOffStep DEF Release
<1>4. ASSUME NEW c \in Conns, Lapse(c)
      PROVE  IInv'
  BY <1>4, LapseStep
<1>5. ASSUME NEW s \in Closers, Shutdown(s)
      PROVE  IInv'
  BY <1>5, ShutdownBeginStep, ShutdownWaitStep, DrainReceiveStep,
     DrainDeleteStep, DrainEndStep DEF Shutdown
<1>6. CASE UNCHANGED vars
  <2>1. /\ status' = status /\ health' = health /\ lapsed' = lapsed
        /\ connections' = connections /\ totalConnections' = totalConnections
        /\ idleConnChan' = idleConnChan /\ recvq' = recvq /\ connWG' = connWG
        /\ closed' = closed /\ pc' = pc /\ conn' = conn /\ ctxDone' = ctxDone
        /\ closerPC' = closerPC /\ closerConn' = closerConn
    BY <1>6 DEF vars, poolVars, clientVars, closerVars
  <2> QED
    BY <2>1 DEF IInv, TypeOK, NoSharedConnection, Holding, Registered,
       NothingLost, Marked, Counted, Waited, Queue, Closing, Users
<1> QED
  BY <1>1, <1>2, <1>3, <1>4, <1>5, <1>6 DEF Next

\* The inductive invariant.
THEOREM Inductive == Spec => []IInv
  BY InitIInv, NextIInv, PTL DEF Spec

\* Types, and that neither counter goes below zero: connWG.Done() never panics.
THEOREM TypeCorrect == Spec => []TypeOK
<1>1. IInv => TypeOK
  BY DEF IInv
<1> QED
  BY Inductive, <1>1, PTL

\* No connection is given to two callers, whatever the interleaving of Acquire,
\* Release and Shutdown, for any number of them.
THEOREM NeverShared == Spec => []NoSharedConnection
<1>1. IInv => NoSharedConnection
  BY DEF IInv
<1> QED
  BY Inductive, <1>1, PTL

\* The limit of Acquire is never exceeded.
THEOREM LimitHolds == Spec => []MaxRespected
<1>1. IInv => MaxRespected
  BY DEF IInv, Counted, MaxRespected
<1> QED
  BY Inductive, <1>1, PTL

\* The books of the pool are right and no connection is lost before Shutdown.
THEOREM BooksBalance == Spec => []Accounting
<1>1. IInv => Accounting
  <2> SUFFICES ASSUME IInv PROVE Accounting
    OBVIOUS
  <2>1. totalConnections = Cardinality(connections)
    BY DEF IInv, Counted
  <2>2. Borrowed \cup Queued \cup InHand \subseteq connections
    BY DEF IInv, Holding, Registered, Borrowed, Queued, InHand
  <2>3. ASSUME ~closed, NEW c \in connections
        PROVE  c \in Borrowed \cup Queued \cup InHand
    <3>1. c # NoConn
      BY PoolAssumption DEF IInv, TypeOK
    <3>2. CASE \E g \in Clients : conn[g] = c
      BY <3>1, <3>2 DEF IInv, Holding, Borrowed, InHand
    <3>3. CASE \E i \in 1..Len(idleConnChan) : idleConnChan[i] = c
      BY <3>3 DEF Queued
    <3> QED
      BY <2>3, <3>2, <3>3 DEF IInv, NothingLost
  <2> QED
    BY <2>1, <2>2, <2>3 DEF Accounting
<1> QED
  BY Inductive, <1>1, PTL

\* Release takes effect exactly for borrowed connections.
THEOREM StatusRight == Spec => []StatusAgrees
<1>1. IInv => StatusAgrees
  BY DEF IInv, Marked, StatusAgrees, Borrowed
<1> QED
  BY Inductive, <1>1, PTL

\* Shutdown does not pass connWG.Wait() while a connection is borrowed, and no
\* connection is borrowed afterwards.
THEOREM QuiescentAfterWait == Spec => []ShutdownQuiescent
<1>1. IInv => ShutdownQuiescent
  BY DEF IInv, Waited, Closing, Users, Borrowed, ShutdownQuiescent
<1> QED
  BY Inductive, <1>1, PTL
=============================================================================
