------------------------------- MODULE JobQueue -------------------------------
(***************************************************************************)
(* The in-memory job queue (Job Queue/main.go): Submit, Start, Shutdown,   *)
(* RedriveDLQ and the workers.                                             *)
(*                                                                         *)
(* q.mu is a read-write lock: Submit holds it for reading across its       *)
(* blocking send, Start and Shutdown take it for writing.  A writer that   *)
(* has announced itself keeps new readers out and goes on when the readers *)
(* have left; what a writer does is one action.  A section under q.dlqMu   *)
(* is one action.  Every Start makes a new channel; the number of Starts   *)
(* is bounded by MaxStarts, channel 0 is the one of the constructor.       *)
(***************************************************************************)
EXTENDS Integers, Sequences, FiniteSets, SequencesExt

CONSTANTS
    Jobs,         \* the jobs given to Submit
    Producers,    \* goroutines that call Submit
    Redrivers,    \* goroutines that call RedriveDLQ, each with the one it starts
    Controllers,  \* goroutines that call Start and Shutdown
    WorkerCount, BufferSize, MaxRetries,
    MaxStarts,    \* bound: the number of Starts
    Nobody, NoJob

ASSUME JobQueueAssumption ==
    /\ IsFiniteSet(Jobs) /\ NoJob \notin Jobs
    /\ Nobody \notin Controllers
    /\ Producers \cap Redrivers = {}
    /\ WorkerCount \in Nat /\ MaxRetries \in Nat /\ MaxStarts \in Nat
    /\ BufferSize \in Nat \ {0}

VARIABLES
    shutdown,    \* q.shutdown
    current,     \* which channel q.jobs is
    chan,        \* the channels: their buffered jobs and whether they are closed
    wg,          \* the counter of q.wg
    dlq,         \* q.dlq
    writer,      \* who holds q.mu for writing or has announced to
    caller,      \* the producers and redrivers: where they are, and their jobs
    controller,  \* the goroutines in Start and Shutdown
    worker,      \* the workers of every Start
    accepted,    \* history: the jobs for which Submit has returned nil
    done,        \* history: the jobs that were processed successfully
    dropped      \* history: the jobs of slices that nothing refers to any more

vars == <<shutdown, current, chan, wg, dlq, writer, caller, controller, worker,
          accepted, done, dropped>>

Callers == Producers \cup Redrivers
Workers == (1..MaxStarts) \X (1..WorkerCount)
IdleCaller == [pc |-> "idle", batch |-> << >>]
IdleController == [pc |-> "idle", start |-> 0, next |-> 0]
NoWorker == [pc |-> "none", chan |-> 0, job |-> NoJob, tries |-> 0]

Init ==
    /\ shutdown = TRUE
    /\ current = 0
    /\ chan = [g \in 0..MaxStarts |-> [buf |-> << >>, closed |-> FALSE]]
    /\ wg = 0
    /\ dlq = << >>
    /\ writer = Nobody
    /\ caller = [c \in Callers |-> IdleCaller]
    /\ controller = [c \in Controllers |-> IdleController]
    /\ worker = [w \in Workers |-> NoWorker]
    /\ accepted = {} /\ done = {} /\ dropped = {}

-----------------------------------------------------------------------------
(* Submit, by a producer or by the goroutine of RedriveDLQ, which submits the
   jobs of its slice one after the other *)

\* The callers inside Submit's read lock.
Readers == {c \in Callers : caller[c].pc = "send"}

SubmitCall(c, j) ==
    /\ caller[c].pc = "idle"
    /\ j \notin accepted
    /\ \A p \in Producers : j \notin ToSet(caller[p].batch)
    /\ caller' = [caller EXCEPT ![c] = [pc |-> "enter", batch |-> <<j>>]]
    /\ UNCHANGED <<shutdown, current, chan, wg, dlq, writer, controller, worker,
                   accepted, done, dropped>>

\* RLock, and the test of q.shutdown: a producer gets the error, the redriving
\* goroutine puts the job back.
SubmitEnter(c) ==
    /\ caller[c].pc = "enter"
    /\ writer = Nobody
    /\ \/ ~shutdown /\ caller' = [caller EXCEPT ![c].pc = "send"]
       \/ shutdown /\ c \in Producers /\ caller' = [caller EXCEPT ![c] = IdleCaller]
       \/ shutdown /\ c \in Redrivers /\ caller' = [caller EXCEPT ![c].pc = "store"]
    /\ UNCHANGED <<shutdown, current, chan, wg, dlq, writer, controller, worker,
                   accepted, done, dropped>>

\* The send, when the channel has room, and RUnlock.
SubmitSend(c) ==
    LET j == Head(caller[c].batch)
        left == Tail(caller[c].batch)
    IN /\ caller[c].pc = "send"
       /\ Len(chan[current].buf) < BufferSize
       /\ chan' = [chan EXCEPT ![current].buf = Append(@, j)]
       /\ accepted' = accepted \cup {j}
       /\ caller' = [caller EXCEPT ![c] =
             IF left = << >> THEN IdleCaller ELSE [pc |-> "enter", batch |-> left]]
       /\ UNCHANGED <<shutdown, current, wg, dlq, writer, controller, worker,
                      done, dropped>>

-----------------------------------------------------------------------------
(* RedriveDLQ *)

RedriveCheck(r) ==
    /\ caller[r].pc = "idle"
    /\ writer = Nobody
    /\ ~shutdown
    /\ caller' = [caller EXCEPT ![r].pc = "take"]
    /\ UNCHANGED <<shutdown, current, chan, wg, dlq, writer, controller, worker,
                   accepted, done, dropped>>

\* Mutant of RedriveTake: q.dlq keeps what is being redriven.
RedriveTakeCopy(r) ==
    /\ caller[r].pc = "take"
    /\ caller' = [caller EXCEPT ![r] =
          IF dlq = << >> THEN IdleCaller ELSE [pc |-> "enter", batch |-> dlq]]
    /\ UNCHANGED <<shutdown, current, chan, wg, dlq, writer, controller, worker,
                   accepted, done, dropped>>

\* The slice is taken and the goroutine is started.
RedriveTake(r) ==
    /\ caller[r].pc = "take"
    /\ dlq' = << >>
    /\ caller' = [caller EXCEPT ![r] =
          IF dlq = << >> THEN IdleCaller ELSE [pc |-> "enter", batch |-> dlq]]
    /\ UNCHANGED <<shutdown, current, chan, wg, writer, controller, worker,
                   accepted, done, dropped>>

\* Submit failed: the goroutine stores this job and returns.
RedriveStore(r) ==
    /\ caller[r].pc = "store"
    /\ dlq' = Append(dlq, Head(caller[r].batch))
    /\ dropped' = dropped \cup ToSet(Tail(caller[r].batch))
    /\ caller' = [caller EXCEPT ![r] = IdleCaller]
    /\ UNCHANGED <<shutdown, current, chan, wg, writer, controller, worker,
                   accepted, done>>

-----------------------------------------------------------------------------
(* Start and Shutdown *)

\* The goroutine c calls Start or Shutdown, which ask for the write lock.
ControlCall(c, pc) ==
    /\ controller[c].pc = "idle"
    /\ pc = "start" => current < MaxStarts
    /\ writer = Nobody
    /\ writer' = c
    /\ controller' = [controller EXCEPT ![c].pc = pc]
    /\ UNCHANGED <<shutdown, current, chan, wg, dlq, caller, worker, accepted,
                   done, dropped>>

\* Start under the lock: a new channel, unless the queue is running.
Start(c) ==
    /\ controller[c].pc = "start"
    /\ Readers = {}
    /\ writer' = Nobody
    /\ IF shutdown
       THEN /\ shutdown' = FALSE
            /\ current' = current + 1
            /\ controller' = [controller EXCEPT ![c] =
                  [pc |-> "spawn", start |-> current + 1, next |-> 1]]
       ELSE /\ controller' = [controller EXCEPT ![c] = IdleController]
            /\ UNCHANGED <<shutdown, current>>
    /\ UNCHANGED <<chan, wg, dlq, caller, worker, accepted, done, dropped>>

\* Mutant of StartWorker: q.wg.Add(1) is left to the worker, and forgotten there.
StartWorkerUncounted(c) ==
    LET s == controller[c]
    IN /\ s.pc = "spawn"
       /\ IF s.next <= WorkerCount
          THEN /\ worker' = [worker EXCEPT ![<<s.start, s.next>>].pc = "born"]
               /\ controller' = [controller EXCEPT ![c].next = @ + 1]
          ELSE /\ controller' = [controller EXCEPT ![c] = IdleController]
               /\ UNCHANGED worker
       /\ UNCHANGED <<shutdown, current, chan, wg, dlq, writer, caller, accepted,
                      done, dropped>>

\* initiateWorkerPool, after the lock is released: one worker at a time.
StartWorker(c) ==
    LET s == controller[c]
    IN /\ s.pc = "spawn"
       /\ IF s.next <= WorkerCount
          THEN /\ wg' = wg + 1
               /\ worker' = [worker EXCEPT ![<<s.start, s.next>>].pc = "born"]
               /\ controller' = [controller EXCEPT ![c].next = @ + 1]
          ELSE /\ controller' = [controller EXCEPT ![c] = IdleController]
               /\ UNCHANGED <<wg, worker>>
       /\ UNCHANGED <<shutdown, current, chan, dlq, writer, caller, accepted,
                      done, dropped>>

\* Mutant of Shutdown: the channel is closed while producers are sending.
ShutdownAtOnce(c) ==
    /\ controller[c].pc = "shutdown"
    /\ writer' = Nobody
    /\ IF shutdown
       THEN /\ controller' = [controller EXCEPT ![c] = IdleController]
            /\ UNCHANGED <<shutdown, chan>>
       ELSE /\ shutdown' = TRUE
            /\ chan' = [chan EXCEPT ![current].closed = TRUE]
            /\ controller' = [controller EXCEPT ![c].pc = "wait"]
    /\ UNCHANGED <<current, wg, dlq, caller, worker, accepted, done, dropped>>

\* Shutdown under the lock closes the channel; a second one does nothing.
Shutdown(c) ==
    /\ controller[c].pc = "shutdown"
    /\ Readers = {}
    /\ writer' = Nobody
    /\ IF shutdown
       THEN /\ controller' = [controller EXCEPT ![c] = IdleController]
            /\ UNCHANGED <<shutdown, chan>>
       ELSE /\ shutdown' = TRUE
            /\ chan' = [chan EXCEPT ![current].closed = TRUE]
            /\ controller' = [controller EXCEPT ![c].pc = "wait"]
    /\ UNCHANGED <<current, wg, dlq, caller, worker, accepted, done, dropped>>

\* Mutant of ShutdownReturn: q.wg.Wait() is left out.
ShutdownReturnAtOnce(c) ==
    /\ controller[c].pc = "wait"
    /\ controller' = [controller EXCEPT ![c] = IdleController]
    /\ UNCHANGED <<shutdown, current, chan, wg, dlq, writer, caller, worker,
                   accepted, done, dropped>>

\* q.wg.Wait() returns, and with it Shutdown.
ShutdownReturn(c) ==
    /\ controller[c].pc = "wait"
    /\ wg = 0
    /\ controller' = [controller EXCEPT ![c] = IdleController]
    /\ UNCHANGED <<shutdown, current, chan, wg, dlq, writer, caller, worker,
                   accepted, done, dropped>>

-----------------------------------------------------------------------------
(* Workers *)

\* The goroutine runs at last; range evaluates q.jobs, without the lock.
WorkerBegin(w) ==
    /\ worker[w].pc = "born"
    /\ worker' = [worker EXCEPT ![w].pc = "range", ![w].chan = current]
    /\ UNCHANGED <<shutdown, current, chan, wg, dlq, writer, caller, controller,
                   accepted, done, dropped>>

WorkerTake(w) ==
    LET g == worker[w].chan
    IN /\ worker[w].pc = "range"
       /\ chan[g].buf # << >>
       /\ chan' = [chan EXCEPT ![g].buf = Tail(@)]
       /\ worker' = [worker EXCEPT ![w].pc = "retry", ![w].tries = 0,
                                   ![w].job = Head(chan[g].buf)]
       /\ UNCHANGED <<shutdown, current, wg, dlq, writer, caller, controller,
                      accepted, done, dropped>>

\* RetryJob: an attempt succeeds or fails by chance.
WorkerSucceed(w) ==
    /\ worker[w].pc = "retry"
    /\ worker[w].tries < MaxRetries
    /\ done' = done \cup {worker[w].job}
    /\ worker' = [worker EXCEPT ![w].pc = "range", ![w].job = NoJob,
                                ![w].tries = 0]
    /\ UNCHANGED <<shutdown, current, chan, wg, dlq, writer, caller, controller,
                   accepted, dropped>>

WorkerFail(w) ==
    /\ worker[w].pc = "retry"
    /\ worker[w].tries < MaxRetries
    /\ worker' = [worker EXCEPT ![w].tries = @ + 1]
    /\ UNCHANGED <<shutdown, current, chan, wg, dlq, writer, caller, controller,
                   accepted, done, dropped>>

\* storeInDLQ, when every attempt has failed.
WorkerGiveUp(w) ==
    /\ worker[w].pc = "retry"
    /\ worker[w].tries = MaxRetries
    /\ dlq' = Append(dlq, worker[w].job)
    /\ worker' = [worker EXCEPT ![w].pc = "range", ![w].job = NoJob,
                                ![w].tries = 0]
    /\ UNCHANGED <<shutdown, current, chan, wg, writer, caller, controller,
                   accepted, done, dropped>>

\* Mutant of WorkerStop: a worker leaves as soon as the channel is closed.
WorkerStopClosed(w) ==
    /\ worker[w].pc = "range"
    /\ chan[worker[w].chan].closed
    /\ wg' = wg - 1
    /\ worker' = [worker EXCEPT ![w].pc = "stopped"]
    /\ UNCHANGED <<shutdown, current, chan, dlq, writer, caller, controller,
                   accepted, done, dropped>>

\* Mutant of WorkerStop: q.wg.Done() is forgotten.
WorkerStopSilent(w) ==
    /\ worker[w].pc = "range"
    /\ chan[worker[w].chan].closed
    /\ chan[worker[w].chan].buf = << >>
    /\ worker' = [worker EXCEPT ![w].pc = "stopped"]
    /\ UNCHANGED <<shutdown, current, chan, wg, dlq, writer, caller, controller,
                   accepted, done, dropped>>

\* The channel is closed and drained.
WorkerStop(w) ==
    /\ worker[w].pc = "range"
    /\ chan[worker[w].chan].closed
    /\ chan[worker[w].chan].buf = << >>
    /\ wg' = wg - 1
    /\ worker' = [worker EXCEPT ![w].pc = "stopped"]
    /\ UNCHANGED <<shutdown, current, chan, dlq, writer, caller, controller,
                   accepted, done, dropped>>

-----------------------------------------------------------------------------
CallerStep(c) == SubmitEnter(c) \/ SubmitSend(c)
RedriverStep(r) == RedriveTake(r) \/ RedriveStore(r)
ControllerStep(c) == Start(c) \/ StartWorker(c) \/ Shutdown(c) \/ ShutdownReturn(c)
WorkerStep(w) == \/ WorkerBegin(w) \/ WorkerTake(w) \/ WorkerSucceed(w)
                 \/ WorkerFail(w) \/ WorkerGiveUp(w) \/ WorkerStop(w)

Next == \/ \E p \in Producers, j \in Jobs : SubmitCall(p, j)
        \/ \E c \in Callers : CallerStep(c)
        \/ \E r \in Redrivers : RedriveCheck(r) \/ RedriverStep(r)
        \/ \E c \in Controllers : \/ ControlCall(c, "start")
                                  \/ ControlCall(c, "shutdown")
                                  \/ ControllerStep(c)
        \/ \E w \in Workers : WorkerStep(w)

\* Every goroutine is scheduled; nobody has to call.  A blocked sender is served
\* in its turn, and so is a reader that waits for the lock, which is what the
\* runtime's channels and sync.RWMutex do.
Fairness == /\ \A c \in Callers : SF_vars(CallerStep(c))
            /\ \A r \in Redrivers : WF_vars(RedriverStep(r))
            /\ \A c \in Controllers : WF_vars(ControllerStep(c))
            /\ \A w \in Workers : WF_vars(WorkerStep(w))

Spec == Init /\ [][Next]_vars /\ Fairness

-----------------------------------------------------------------------------
(* Properties *)

Held == {w \in Workers : worker[w].job # NoJob}

\* Types.
TypeOK ==
    /\ shutdown \in BOOLEAN
    /\ current \in 0..MaxStarts
    /\ chan \in [0..MaxStarts -> [buf : Seq(Jobs), closed : BOOLEAN]]
    /\ wg \in Nat
    /\ dlq \in Seq(Jobs)
    /\ writer \in Controllers \cup {Nobody}
    /\ caller \in [Callers -> [pc : {"idle", "enter", "send", "take", "store"},
                               batch : Seq(Jobs)]]
    /\ controller \in [Controllers ->
          [pc : {"idle", "start", "spawn", "shutdown", "wait"},
           start : 0..MaxStarts, next : 0..(WorkerCount + 1)]]
    /\ worker \in [Workers ->
          [pc : {"none", "born", "range", "retry", "stopped"},
           chan : 0..MaxStarts, job : Jobs \cup {NoJob}, tries : 0..MaxRetries]]
    /\ accepted \subseteq Jobs /\ done \subseteq Jobs /\ dropped \subseteq Jobs

\* No goroutine is about to send on a closed channel, which would panic, however
\* Submit, RedriveDLQ, Start and Shutdown overlap.
NoSendOnClosed == Readers # {} => ~shutdown /\ ~chan[current].closed

\* The positions of j in the sequence s.
At(s, j) == {i \in DOMAIN s : s[i] = j}

\* Where a job may be after Submit accepted it, as a number of copies.
Copies(j) ==
    Cardinality({x \in (0..MaxStarts) \X (1..BufferSize) :
                    x[2] \in At(chan[x[1]].buf, j)})
    + Cardinality({w \in Workers : worker[w].job = j})
    + Cardinality(At(dlq, j))
    + Cardinality({x \in Redrivers \X (1..Cardinality(Jobs)) :
                      x[2] \in At(caller[x[1]].batch, j)})
    + Cardinality({s \in {done, dropped} : j \in s})

\* No accepted job is duplicated or forgotten on its way between the channels,
\* the workers, the dead letter queue and the redriving goroutines, except by a
\* slice that a redriving goroutine abandons.
ExactlyOnce == \A j \in Jobs : Copies(j) = IF j \in accepted THEN 1 ELSE 0

\* When the only caller of Start and Shutdown has come back from Shutdown, the
\* accepted jobs are through: none is left in a channel or with a worker.
ShutdownDrains ==
    shutdown /\ (\A c \in Controllers : controller[c].pc = "idle") =>
        /\ \A g \in 0..MaxStarts : chan[g].buf = << >>
        /\ Held = {} /\ wg = 0

\* A Shutdown returns, also while producers are blocked on the full channel that
\* it wants to close.
ShutdownReturns ==
    \A c \in Controllers : controller[c].pc = "shutdown" ~> controller[c].pc = "idle"

Settled(j) == j \in done \cup ToSet(dlq)

\* "Ensure an accepted job is eventually either processed successfully or moved
\* to the DLQ" (Job Queue/readme.md:54). A job counts again after it is redriven.
JobsSettle == \A j \in Jobs : j \in accepted /\ ~Settled(j) ~> Settled(j)

\* The same up to the one way in which the code loses a job while one goroutine
\* calls Start and Shutdown: a redriving goroutine whose Submit meets Shutdown
\* stores that job and returns (main.go:157-161), and the rest of its slice is
\* dropped. NothingDropped says that this does not happen, and is violated.
\* Every other accepted job succeeds or reaches the dead letter queue, also after
\* it was redriven and when Shutdown comes while it is queued or retried.
JobsSettleOrDropped ==
    \A j \in Jobs : j \in accepted /\ ~Settled(j) ~> Settled(j) \/ j \in dropped

\* "Ensure an accepted job is eventually either processed successfully or moved
\* to the DLQ": no accepted job is dropped.
NothingDropped == dropped = {}
=============================================================================
