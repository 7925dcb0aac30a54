--------------------------- MODULE ConnectionPool ---------------------------
(***************************************************************************)
(* The connection pool of "Connection Pool/main.go": goroutines borrow     *)
(* connections with Acquire, return them with Release, and Shutdown closes *)
(* the pool.                                                               *)
(*                                                                         *)
(* A section of code between p.mu.Lock and p.mu.Unlock is one action; the  *)
(* selects and the channel operations outside the mutex are actions of     *)
(* their own, so that every interleaving of the goroutines at those points *)
(* is a behaviour.  A Connection is a pointer: its identity is an element  *)
(* of Conns, and an identity is allocated again only when nothing refers   *)
(* to it any more.  Of LastUsed only what the code asks is kept: whether   *)
(* the connection has been idle for longer than idleTimeout.               *)
(***************************************************************************)
EXTENDS Integers, Sequences, FiniteSets, SequencesExt

CONSTANTS
    Clients,          \* goroutines that call Acquire and Release
    Closers,          \* goroutines that call Shutdown
    Conns,            \* identities of Connection values
    NoConn,           \* the nil pointer
    MaxConnections,   \* p.maxConnections
    IdleConnections   \* p.idleConnections, the capacity of idleConnChan

ASSUME PoolAssumption ==
    /\ MaxConnections \in Nat
    /\ IdleConnections \in Nat
    /\ NoConn \notin Conns
    /\ IsFiniteSet(Conns)
    /\ IsFiniteSet(Clients)

VARIABLES
    status,             \* conn.Status
    health,             \* conn.Health
    lapsed,             \* time.Since(conn.LastUsed) > p.idleTimeout
    connections,        \* p.connections, the registry
    totalConnections,   \* p.totalConnections
    idleConnChan,       \* p.idleConnChan, the buffered elements
    recvq,              \* goroutines parked on idleConnChan, in arrival order
    connWG,             \* the counter of p.connWG
    closed,             \* p.closed; p.cancel() is called in the same section
    pc,                 \* where each client is
    conn,               \* each client's variable conn
    ctxDone,            \* the context given to Acquire is cancelled
    closerPC,           \* where each Shutdown call is
    closerConn          \* the variable conn of each Shutdown call

poolVars == <<status, health, lapsed, connections, totalConnections,
              idleConnChan, recvq, connWG, closed>>
clientVars == <<pc, conn, ctxDone>>
closerVars == <<closerPC, closerConn>>
vars == <<poolVars, clientVars, closerVars>>

InAcquire == {"try", "gotTry", "create", "wait", "parked", "gotWait"}

\* The connections that client code may use now.
Borrowed == {conn[g] : g \in {h \in Clients : pc[h] = "using"}}

\* Received from the channel, the section that decides about it still to come.
InHand == {conn[g] : g \in {h \in Clients : pc[h] \in {"gotTry", "gotWait"}}}
            \cup {closerConn[s] : s \in {r \in Closers : closerPC[r] = "drop"}}

Queued == {idleConnChan[i] : i \in 1..Len(idleConnChan)}

\* Identities the pool does not refer to: newConnection may allocate any of
\* them.
Free == Conns \ (connections \cup Borrowed \cup Queued \cup InHand)

Init ==
    /\ status = [c \in Conns |-> "IDLE"]
    /\ health = [c \in Conns |-> "HEALTHY"]
    /\ lapsed = [c \in Conns |-> FALSE]
    /\ connections = {}
    /\ totalConnections = 0
    /\ idleConnChan = << >>
    /\ recvq = << >>
    /\ connWG = 0
    /\ closed = FALSE
    /\ pc = [g \in Clients |-> "out"]
    /\ conn = [g \in Clients |-> NoConn]
    /\ ctxDone = [g \in Clients |-> FALSE]
    /\ closerPC = [s \in Closers |-> "start"]
    /\ closerConn = [s \in Closers |-> NoConn]

-----------------------------------------------------------------------------
(* Acquire *)

\* A call of Acquire with a fresh context.
Call(g) ==
    /\ pc[g] = "out"
    /\ pc' = [pc EXCEPT ![g] = "try"]
    /\ ctxDone' = [ctxDone EXCEPT ![g] = FALSE]
    /\ UNCHANGED <<poolVars, conn, closerVars>>

\* The caller's context is cancelled or times out during the call.  Closing the
\* Done channel wakes a parked goroutine, which no longer receives from
\* idleConnChan.
Cancel(g) ==
    /\ pc[g] \in InAcquire
    /\ ~ctxDone[g]
    /\ ctxDone' = [ctxDone EXCEPT ![g] = TRUE]
    /\ \/ /\ \A i \in 1..Len(recvq) : recvq[i] # g
          /\ UNCHANGED recvq
       \/ \E i \in 1..Len(recvq) :
             recvq[i] = g /\ recvq' = RemoveAt(recvq, i)
    /\ UNCHANGED <<status, health, lapsed, connections, totalConnections,
                   idleConnChan, connWG, closed, pc, conn, closerVars>>

\* Mutant: the second select does not listen to the contexts.
ReturnDoneFirstSelectOnly(g) ==
    /\ pc[g] = "try"
    /\ ctxDone[g] \/ closed
    /\ pc' = [pc EXCEPT ![g] = "out"]
    /\ UNCHANGED <<poolVars, conn, ctxDone, closerVars>>

\* The branches ctx.Done() and p.ctx.Done() of both selects.
ReturnDone(g) ==
    /\ pc[g] \in {"try", "wait", "parked"}
    /\ ctxDone[g] \/ closed
    /\ pc' = [pc EXCEPT ![g] = "out"]
    /\ UNCHANGED <<poolVars, conn, ctxDone, closerVars>>

\* The branch conn := <-p.idleConnChan of both selects.
Receive(g) ==
    /\ pc[g] \in {"try", "wait"}
    /\ idleConnChan # << >>
    /\ conn' = [conn EXCEPT ![g] = Head(idleConnChan)]
    /\ idleConnChan' = Tail(idleConnChan)
    /\ pc' = [pc EXCEPT ![g] = IF pc[g] = "try" THEN "gotTry" ELSE "gotWait"]
    /\ UNCHANGED <<status, health, lapsed, connections, totalConnections,
                   recvq, connWG, closed, ctxDone, closerVars>>

NothingReady(g) == ~ctxDone[g] /\ ~closed /\ idleConnChan = << >>

\* The default branch of the first select.
NoneIdle(g) ==
    /\ pc[g] = "try"
    /\ NothingReady(g)
    /\ pc' = [pc EXCEPT ![g] = "create"]
    /\ UNCHANGED <<poolVars, conn, ctxDone, closerVars>>

\* The second select has no default: the goroutine parks on the channel.
Park(g) ==
    /\ pc[g] = "wait"
    /\ NothingReady(g)
    /\ pc' = [pc EXCEPT ![g] = "parked"]
    /\ recvq' = Append(recvq, g)
    /\ UNCHANGED <<status, health, lapsed, connections, totalConnections,
                   idleConnChan, connWG, closed, conn, ctxDone, closerVars>>

Usable(c) == health[c] = "HEALTHY" /\ ~lapsed[c] /\ status[c] = "IDLE"

\* The section after a receive finds the pool closed and returns; the received
\* connection is in no place of the pool but the registry afterwards.
TakeClosed(g) ==
    /\ pc[g] \in {"gotTry", "gotWait"}
    /\ closed
    /\ pc' = [pc EXCEPT ![g] = "out"]
    /\ conn' = [conn EXCEPT ![g] = NoConn]
    /\ UNCHANGED <<poolVars, ctxDone, closerVars>>

\* Mutant: the connection handed out is not marked.
TakeUsableUnmarked(g) ==
    /\ pc[g] \in {"gotTry", "gotWait"}
    /\ ~closed
    /\ Usable(conn[g])
    /\ connWG' = connWG + 1
    /\ pc' = [pc EXCEPT ![g] = "using"]
    /\ UNCHANGED <<status, health, lapsed, connections, totalConnections,
                   idleConnChan, recvq, closed, conn, ctxDone, closerVars>>

\* The section hands out the connection it received.
TakeUsable(g) ==
    /\ pc[g] \in {"gotTry", "gotWait"}
    /\ ~closed
    /\ Usable(conn[g])
    /\ status' = [status EXCEPT ![conn[g]] = "IN_USE"]
    /\ connWG' = connWG + 1
    /\ pc' = [pc EXCEPT ![g] = "using"]
    /\ UNCHANGED <<health, lapsed, connections, totalConnections, idleConnChan,
                   recvq, closed, conn, ctxDone, closerVars>>

\* Mutant: the dropped connection stays counted.
TakeDiscardUncounted(g) ==
    /\ pc[g] \in {"gotTry", "gotWait"}
    /\ ~closed
    /\ ~Usable(conn[g])
    /\ connections' = connections \ {conn[g]}
    /\ pc' = [pc EXCEPT ![g] = IF pc[g] = "gotTry" THEN "create" ELSE "try"]
    /\ conn' = [conn EXCEPT ![g] = NoConn]
    /\ UNCHANGED <<status, health, lapsed, totalConnections, idleConnChan, recvq,
                   connWG, closed, ctxDone, closerVars>>

\* An unusable connection is dropped.  After the first select the call goes on
\* to the creation, after the second one it starts again.
TakeDiscard(g) ==
    /\ pc[g] \in {"gotTry", "gotWait"}
    /\ ~closed
    /\ ~Usable(conn[g])
    /\ connections' = connections \ {conn[g]}
    /\ totalConnections' = totalConnections - 1
    /\ pc' = [pc EXCEPT ![g] = IF pc[g] = "gotTry" THEN "create" ELSE "try"]
    /\ conn' = [conn EXCEPT ![g] = NoConn]
    /\ UNCHANGED <<status, health, lapsed, idleConnChan, recvq, connWG, closed,
                   ctxDone, closerVars>>

\* Mutant: the limit is off by one.
HasRoomForOneMore == totalConnections <= MaxConnections

HasRoom == totalConnections < MaxConnections

\* newConnection under the mutex, when the limit leaves room.
Create(g) ==
    /\ pc[g] = "create"
    /\ HasRoom
    /\ ~closed
    /\ \E c \in Free :
          /\ status' = [status EXCEPT ![c] = "IN_USE"]
          /\ health' = [health EXCEPT ![c] = "HEALTHY"]
          /\ lapsed' = [lapsed EXCEPT ![c] = FALSE]
          /\ connections' = connections \cup {c}
          /\ conn' = [conn EXCEPT ![g] = c]
    /\ totalConnections' = totalConnections + 1
    /\ connWG' = connWG + 1
    /\ pc' = [pc EXCEPT ![g] = "using"]
    /\ UNCHANGED <<idleConnChan, recvq, closed, ctxDone, closerVars>>

AtLimit(g) ==
    /\ pc[g] = "create"
    /\ ~HasRoom \/ closed
    /\ pc' = [pc EXCEPT ![g] = "wait"]
    /\ UNCHANGED <<poolVars, conn, ctxDone, closerVars>>

-----------------------------------------------------------------------------
(* What happens to a connection outside the pool's code *)

\* The caller marks the connection it uses as unhealthy.
MarkUnhealthy(g) ==
    /\ pc[g] = "using"
    /\ health' = [health EXCEPT ![conn[g]] = "UNHEALTHY"]
    /\ UNCHANGED <<status, lapsed, connections, totalConnections, idleConnChan,
                   recvq, connWG, closed, clientVars, closerVars>>

\* The idle timeout of an idle connection passes.
Lapse(c) ==
    /\ c \in connections
    /\ status[c] = "IDLE"
    /\ ~lapsed[c]
    /\ lapsed' = [lapsed EXCEPT ![c] = TRUE]
    /\ UNCHANGED <<status, health, connections, totalConnections, idleConnChan,
                   recvq, connWG, closed, clientVars, closerVars>>

-----------------------------------------------------------------------------
(* Release *)

\* A goroutine releases the connection it uses.  It may also release, by
\* mistake and again, a connection that nobody uses; a pointer does not tell
\* Release which of two borrowings is meant, so a late second release of a
\* connection that has been borrowed again is not among the calls modelled.
MayRelease(g, c) ==
    \/ pc[g] = "using" /\ c = conn[g]
    \/ pc[g] = "out" /\ c \notin Borrowed

\* Mutant: Release asks only for the registry.
AcceptsIdle(c) == c \in connections

\* The checks before Release takes effect.
Accepts(c) == c \in connections /\ status[c] = "IN_USE"

\* Release returns an error.
ReleaseRefused(g, c) ==
    /\ MayRelease(g, c)
    /\ ~Accepts(c)
    /\ pc' = [pc EXCEPT ![g] = "out"]
    /\ conn' = [conn EXCEPT ![g] = NoConn]
    /\ UNCHANGED <<poolVars, ctxDone, closerVars>>

\* Mutant: connWG.Done() is forgotten.
GiveBackNoDone(g, c) ==
    /\ MayRelease(g, c)
    /\ Accepts(c)
    /\ status' = [status EXCEPT ![c] = "IDLE"]
    /\ lapsed' = IF closed THEN lapsed ELSE [lapsed EXCEPT ![c] = FALSE]
    /\ UNCHANGED <<connWG, health, closed, ctxDone, closerVars>>

\* The part common to every successful Release.
GiveBack(g, c) ==
    /\ MayRelease(g, c)
    /\ Accepts(c)
    /\ status' = [status EXCEPT ![c] = "IDLE"]
    /\ connWG' = connWG - 1
    /\ lapsed' = IF closed THEN lapsed ELSE [lapsed EXCEPT ![c] = FALSE]
    /\ UNCHANGED <<health, closed, ctxDone, closerVars>>

ChannelFull == Len(idleConnChan) = IdleConnections

\* The pool is closed, or the idle channel is full: the connection goes.
ReleaseDrop(g, c) ==
    /\ GiveBack(g, c)
    /\ closed \/ ChannelFull
    /\ connections' = connections \ {c}
    /\ totalConnections' = totalConnections - 1
    /\ pc' = [pc EXCEPT ![g] = "out"]
    /\ conn' = [conn EXCEPT ![g] = NoConn]
    /\ UNCHANGED <<idleConnChan, recvq>>

\* p.idleConnChan <- conn puts it in the buffer when no goroutine is parked ...
ReleaseQueue(g, c) ==
    /\ GiveBack(g, c)
    /\ ~closed /\ ~ChannelFull
    /\ recvq = << >>
    /\ idleConnChan' = Append(idleConnChan, c)
    /\ pc' = [pc EXCEPT ![g] = "out"]
    /\ conn' = [conn EXCEPT ![g] = NoConn]
    /\ UNCHANGED <<connections, totalConnections, recvq>>

\* ... and otherwise hands it to the goroutine that has been parked longest.
ReleaseHandOff(g, c) ==
    /\ GiveBack(g, c)
    /\ ~closed /\ ~ChannelFull
    /\ recvq # << >>
    /\ recvq' = Tail(recvq)
    /\ pc' = [pc EXCEPT ![g] = "out", ![Head(recvq)] = "gotWait"]
    /\ conn' = [conn EXCEPT ![g] = NoConn, ![Head(recvq)] = c]
    /\ UNCHANGED <<connections, totalConnections, idleConnChan>>

Release(g, c) == \/ ReleaseRefused(g, c)
                 \/ ReleaseDrop(g, c)
                 \/ ReleaseQueue(g, c)
                 \/ ReleaseHandOff(g, c)

\* The goroutine that uses a connection releases it.
Finish(g) == pc[g] = "using" /\ Release(g, conn[g])

-----------------------------------------------------------------------------
(* Shutdown *)

\* The section that sets p.closed and cancels p.ctx, which wakes every parked
\* goroutine.
ShutdownBegin(s) ==
    /\ closerPC[s] = "start"
    /\ closed' = TRUE
    /\ recvq' = << >>
    /\ closerPC' = [closerPC EXCEPT ![s] = "wgwait"]
    /\ UNCHANGED <<status, health, lapsed, connections, totalConnections,
                   idleConnChan, connWG, clientVars, closerConn>>

\* Mutant: the drain starts without connWG.Wait().
ShutdownWaitNot(s) ==
    /\ closerPC[s] = "wgwait"
    /\ closerPC' = [closerPC EXCEPT ![s] = "drain"]
    /\ UNCHANGED <<poolVars, clientVars, closerConn>>

\* p.connWG.Wait() returns.
ShutdownWait(s) ==
    /\ closerPC[s] = "wgwait"
    /\ connWG = 0
    /\ closerPC' = [closerPC EXCEPT ![s] = "drain"]
    /\ UNCHANGED <<poolVars, clientVars, closerConn>>

\* One iteration of the drain: the receive, then the section that deletes.
DrainReceive(s) ==
    /\ closerPC[s] = "drain"
    /\ idleConnChan # << >>
    /\ closerConn' = [closerConn EXCEPT ![s] = Head(idleConnChan)]
    /\ idleConnChan' = Tail(idleConnChan)
    /\ closerPC' = [closerPC EXCEPT ![s] = "drop"]
    /\ UNCHANGED <<status, health, lapsed, connections, totalConnections, recvq,
                   connWG, closed, clientVars>>

DrainDelete(s) ==
    /\ closerPC[s] = "drop"
    /\ connections' = connections \ {closerConn[s]}
    /\ totalConnections' = totalConnections - 1
    /\ closerConn' = [closerConn EXCEPT ![s] = NoConn]
    /\ closerPC' = [closerPC EXCEPT ![s] = "drain"]
    /\ UNCHANGED <<status, health, lapsed, idleConnChan, recvq, connWG, closed,
                   clientVars>>

\* The default branch: nothing idle is left and Shutdown returns.
DrainEnd(s) ==
    /\ closerPC[s] = "drain"
    /\ idleConnChan = << >>
    /\ closerPC' = [closerPC EXCEPT ![s] = "done"]
    /\ UNCHANGED <<poolVars, clientVars, closerConn>>

Shutdown(s) == \/ ShutdownBegin(s) \/ ShutdownWait(s)
               \/ DrainReceive(s) \/ DrainDelete(s) \/ DrainEnd(s)

-----------------------------------------------------------------------------
\* One step of a call of Acquire that does not wait for anybody.
AcquireStep(g) == \/ Receive(g) \/ NoneIdle(g) \/ Park(g)
                  \/ TakeClosed(g) \/ TakeUsable(g) \/ TakeDiscard(g)
                  \/ Create(g) \/ AtLimit(g)

Next ==
    \/ \E g \in Clients : \/ Call(g) \/ Cancel(g) \/ ReturnDone(g)
                          \/ AcquireStep(g) \/ MarkUnhealthy(g)
                          \/ \E c \in Conns : Release(g, c)
    \/ \E c \in Conns : Lapse(c)
    \/ \E s \in Closers : Shutdown(s)

\* A running goroutine is eventually scheduled, a caller eventually releases
\* what it uses, and a select, which chooses at random among the ready cases,
\* does not pass over a Done channel for ever.  Nobody has to call Acquire or
\* Shutdown, no context has to end.
Fairness ==
    /\ \A g \in Clients : /\ WF_vars(AcquireStep(g))
                          /\ SF_vars(ReturnDone(g))
                          /\ WF_vars(Finish(g))
    /\ \A s \in Closers : WF_vars(Shutdown(s) /\ closerPC[s] # "start")

Spec == Init /\ [][Next]_vars /\ Fairness

-----------------------------------------------------------------------------
(* Properties *)

\* Every variable has its type; the counters, of which a negative connWG would
\* be a panic in connWG.Done(), never go below zero.
TypeOK ==
    /\ status \in [Conns -> {"IDLE", "IN_USE"}]
    /\ health \in [Conns -> {"HEALTHY", "UNHEALTHY"}]
    /\ lapsed \in [Conns -> BOOLEAN]
    /\ connections \in SUBSET Conns
    /\ totalConnections \in Nat
    /\ idleConnChan \in Seq(Conns)
    /\ Len(idleConnChan) <= IdleConnections
    /\ recvq \in Seq(Clients)
    /\ connWG \in Nat
    /\ closed \in BOOLEAN
    /\ pc \in [Clients -> InAcquire \cup {"out", "using"}]
    /\ conn \in [Clients -> Conns \cup {NoConn}]
    /\ ctxDone \in [Clients -> BOOLEAN]
    /\ closerPC \in [Closers -> {"start", "wgwait", "drain", "drop", "done"}]
    /\ closerConn \in [Closers -> Conns \cup {NoConn}]

\* Acquire never gives one connection to two callers: a connection that Acquire
\* returned, that a goroutine has received or that waits in idleConnChan is in
\* one of these places only, and in the channel once.
NoSharedConnection ==
    /\ \A g, h \in Clients : conn[g] # NoConn /\ conn[g] = conn[h] => g = h
    /\ \A r, s \in Closers :
          closerConn[r] # NoConn /\ closerConn[r] = closerConn[s] => r = s
    /\ \A g \in Clients, s \in Closers :
          conn[g] # NoConn => conn[g] # closerConn[s]
    /\ \A i, j \in 1..Len(idleConnChan) :
          idleConnChan[i] = idleConnChan[j] => i = j
    /\ \A i \in 1..Len(idleConnChan) :
          /\ \A g \in Clients : conn[g] # idleConnChan[i]
          /\ \A s \in Closers : closerConn[s] # idleConnChan[i]

\* The limit of Acquire holds for the connections that exist, although the
\* check, the discards and the drops are in different sections.
MaxRespected == Cardinality(connections) <= MaxConnections

\* The counter that Acquire compares with the limit counts the registry, and
\* until Shutdown starts every registered connection is borrowed, idle in the
\* channel or in the hand of a goroutine that decides about it: none is lost.
Accounting ==
    /\ totalConnections = Cardinality(connections)
    /\ Borrowed \cup Queued \cup InHand \subseteq connections
    /\ ~closed => connections = Borrowed \cup Queued \cup InHand

\* conn.Status agrees with who holds the connection, so Release takes effect for
\* the borrower and refuses a second release of an idle connection.
StatusAgrees ==
    \A c \in connections : status[c] = "IN_USE" <=> c \in Borrowed

\* connWG counts the borrowed connections; once Shutdown has waited for it no
\* connection is borrowed, and none is borrowed later.
ShutdownQuiescent ==
    /\ connWG = Cardinality({g \in Clients : pc[g] = "using"})
    /\ \A s \in Closers :
          closerPC[s] \in {"drain", "drop", "done"} => Borrowed = {}

\* Acquire returns after its context ends or the pool is shut down, wherever the
\* call is, also when it keeps receiving connections it has to discard.
BlockedCallsReturn ==
    \A g \in Clients :
        pc[g] \in InAcquire /\ (ctxDone[g] \/ closed) ~> pc[g] \notin InAcquire

\* Shutdown returns, when the callers release what they use.
ShutdownReturns ==
    \A s \in Closers : closerPC[s] = "wgwait" ~> closerPC[s] = "done"

\* What the test of Shutdown asserts: when Shutdown has returned and no call of
\* Acquire is under way, no connection is left in the pool's books.
NoLeakAfterShutdown ==
    (/\ \A s \in Closers : closerPC[s] = "done"
     /\ \A g \in Clients : pc[g] = "out")
    => totalConnections = 0 /\ connections = {}
=============================================================================
