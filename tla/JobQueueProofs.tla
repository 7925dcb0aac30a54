---------------------------- MODULE JobQueueProofs ----------------------------
(***************************************************************************)
(* Proofs about the job queue, for any jobs, producers, redriving          *)
(* goroutines, callers of Start and Shutdown, workers and channel          *)
(* capacity: its state has its type, q.wg counts the workers, and nobody   *)
(* sends on a closed channel.                                              *)
(***************************************************************************)
EXTENDS JobQueue, FiniteSetTheorems, SequenceTheorems, TLAPS

-----------------------------------------------------------------------------
(* The inductive invariant *)

\* Who has asked for the write lock is the writer, and a Start may still happen.
Locked ==
    \A c \in Controllers :
        /\ controller[c].pc \in {"start", "shutdown"} => writer = c
        /\ controller[c].pc = "start" => current < MaxStarts

\* The channel of a running queue is open, and so are those of later Starts.
Open ==
    /\ ~shutdown => ~chan[current].closed
    /\ \A g \in 0..MaxStarts : g > current => ~chan[g].closed
    /\ \A c \in Callers : caller[c].pc = "send" => ~shutdown

\* A goroutine in Submit has a job to submit.
Loaded == \A c \in Callers :
              caller[c].pc \in {"enter", "send", "store"} => caller[c].batch # << >>

\* A worker that retries has a job.
Working == \A w \in Workers : worker[w].pc = "retry" => worker[w].job # NoJob

\* The workers of a Start that has been under the lock are made one by one, by the
\* goroutine that was there.
Spawning ==
    /\ \A c \in Controllers : controller[c].pc = "spawn" =>
          /\ controller[c].start \in 1..current
          /\ controller[c].next \in 1..(WorkerCount + 1)
          /\ \A w \in Workers : w[1] = controller[c].start /\ w[2] >= controller[c].next
                                  => worker[w].pc = "none"
    /\ \A c, d \in Controllers :
          controller[c].pc = "spawn" /\ controller[d].pc = "spawn"
             /\ controller[c].start = controller[d].start => c = d
    /\ \A w \in Workers : worker[w].pc # "none" => w[1] <= current

\* The workers that q.wg waits for.
Alive == {"born", "range", "retry"}
Live == {w \in Workers : worker[w].pc \in Alive}
Counted == wg = Cardinality(Live)

IInv == TypeOK /\ Locked /\ Open /\ Loaded /\ Working /\ Spawning /\ Counted

-----------------------------------------------------------------------------
(* Lemmas *)

\* There are finitely many workers, and each has the number of a Start.
LEMMA WorkersFinite ==
    /\ IsFiniteSet(Workers)
    /\ \A w \in Workers : w[1] \in 1..MaxStarts /\ w[2] \in 1..WorkerCount
    /\ \A v, w \in Workers : v[1] = w[1] /\ v[2] = w[2] => v = w
<1>1. IsFiniteSet(1..MaxStarts) /\ IsFiniteSet(1..WorkerCount)
  BY FS_Interval, JobQueueAssumption
<1>2. IsFiniteSet(Workers)
  BY <1>1, FS_Product DEF Workers
<1> QED
  BY <1>2 DEF Workers

\* The live workers are finitely many.
LEMMA LiveFinite == IsFiniteSet(Live) /\ Cardinality(Live) \in Nat
<1>1. IsFiniteSet(Live)
  BY WorkersFinite, FS_Subset DEF Live
<1> QED
  BY <1>1, FS_CardinalityType

\* q.wg stays right in a step that starts and stops no worker.
LEMMA SameLive ==
    ASSUME Counted, wg' = wg,
           \A w \in Workers : worker'[w].pc \in Alive <=> worker[w].pc \in Alive
    PROVE  Counted'
<1>1. Live' = Live
  BY DEF Live
<1> QED
  BY <1>1 DEF Counted

\* The types of the buffers, which the other lemmas need not look into.
LEMMA BufferTypes ==
    ASSUME TypeOK
    PROVE  /\ \A g \in 0..MaxStarts : chan[g].buf \in Seq(Jobs)
           /\ \A c \in Callers : caller[c].batch \in Seq(Jobs)
  BY DEF TypeOK

\* The first of a nonempty sequence of jobs, and the rest.
LEMMA FirstAndRest ==
    ASSUME NEW s \in Seq(Jobs), s # << >>
    PROVE  Head(s) \in Jobs /\ Tail(s) \in Seq(Jobs) /\ ToSet(Tail(s)) \subseteq Jobs
<1>1. Head(s) \in Jobs /\ Tail(s) \in Seq(Jobs)
  BY HeadTailProperties
<1>2. \A i \in DOMAIN Tail(s) : Tail(s)[i] \in Jobs
  BY <1>1
<1> QED
  BY <1>1, <1>2 DEF ToSet

\* Nothing has been started.
LEMMA InitIInv == Init => IInv
<1> SUFFICES ASSUME Init PROVE IInv
  OBVIOUS
<1>1. TypeOK
  <2> DEFINE Q == Seq(Jobs)
  <2>1. << >> \in Q /\ 0 \in 0..MaxStarts /\ 0 \in 0..(WorkerCount + 1) /\ 0 \in 0..MaxRetries
    BY JobQueueAssumption, EmptySeq
  <2> HIDE DEF Q
  <2>2. /\ chan \in [0..MaxStarts -> [buf : Q, closed : BOOLEAN]]
        /\ dlq \in Q
        /\ caller \in [Callers -> [pc : {"idle", "enter", "send", "take", "store"},
                                   batch : Q]]
    BY <2>1 DEF Init, IdleCaller
  <2>3. /\ controller \in [Controllers ->
              [pc : {"idle", "start", "spawn", "shutdown", "wait"},
               start : 0..MaxStarts, next : 0..(WorkerCount + 1)]]
        /\ worker \in [Workers ->
              [pc : {"none", "born", "range", "retry", "stopped"},
               chan : 0..MaxStarts, job : Jobs \cup {NoJob}, tries : 0..MaxRetries]]
    BY <2>1 DEF Init, IdleController, NoWorker
  <2> QED
    BY <2>1, <2>2, <2>3 DEF Init, TypeOK, Q
<1>2. Locked /\ Spawning
  BY DEF Init, Locked, Spawning, IdleController, NoWorker
<1>3. Open /\ Loaded /\ Working
  BY DEF Init, Open, Loaded, Working, IdleCaller, NoWorker
<1>4. Counted
  <2>1. Live = {}
    BY DEF Init, Live, NoWorker, Alive
  <2> QED
    BY <2>1, FS_EmptySet DEF Counted, Init
<1> QED
  BY <1>1, <1>2, <1>3, <1>4 DEF IInv

-----------------------------------------------------------------------------
(* Submit *)

\* A step that changes only where a caller is, keeping it loaded.
LEMMA CallerMoves ==
    ASSUME IInv, NEW c \in Callers, caller' = [caller EXCEPT ![c] = caller'[c]],
           caller'[c] \in [pc : {"idle", "enter", "send", "take", "store"},
                           batch : Seq(Jobs)],
           caller'[c].pc \in {"enter", "send", "store"} => caller'[c].batch # << >>,
           caller'[c].pc = "send" => ~shutdown,
           UNCHANGED <<shutdown, current, chan, wg, writer, controller, worker>>,
           dlq' \in Seq(Jobs), accepted' \subseteq Jobs, done' \subseteq Jobs,
           dropped' \subseteq Jobs
    PROVE  IInv'
<1>0. TypeOK /\ Locked /\ Open /\ Loaded /\ Working /\ Spawning /\ Counted
  BY DEF IInv
<1> DEFINE Q == Seq(Jobs)
<1>1. /\ caller' \in [Callers -> [pc : {"idle", "enter", "send", "take", "store"},
                                  batch : Q]]
      /\ \A d \in Callers : d # c => caller'[d] = caller[d]
  <2>1. caller \in [Callers -> [pc : {"idle", "enter", "send", "take", "store"},
                                batch : Q]]
    BY <1>0 DEF TypeOK
  <2> HIDE DEF Q
  <2>2. caller'[c] \in [pc : {"idle", "enter", "send", "take", "store"}, batch : Q]
    BY DEF Q
  <2> QED
    BY <2>1, <2>2
<1>2. TypeOK'
  BY <1>0, <1>1 DEF TypeOK
<1>3. Open' /\ Loaded'
  BY <1>0, <1>1 DEF Open, Loaded
<1>4. Locked' /\ Working' /\ Spawning'
  BY <1>0 DEF Locked, Working, Spawning
<1>5. Counted'
  BY <1>0, SameLive
<1> QED
  BY <1>2, <1>3, <1>4, <1>5 DEF IInv

\* A producer calls with one job.
LEMMA SubmitCallIInv ==
    ASSUME IInv, NEW c \in Producers, NEW j \in Jobs, SubmitCall(c, j)
    PROVE  IInv'
<1>1. /\ c \in Callers /\ TypeOK
      /\ caller' = [caller EXCEPT ![c] = [pc |-> "enter", batch |-> <<j>>]]
      /\ UNCHANGED <<shutdown, current, chan, wg, writer, controller, worker>>
      /\ UNCHANGED <<dlq, accepted, done, dropped>>
  BY DEF SubmitCall, Callers, IInv
<1>2. /\ caller'[c] = [pc |-> "enter", batch |-> <<j>>]
      /\ caller' = [caller EXCEPT ![c] = caller'[c]]
  BY <1>1 DEF TypeOK
<1>3. /\ caller'[c] \in [pc : {"idle", "enter", "send", "take", "store"},
                         batch : Seq(Jobs)]
      /\ caller'[c].pc = "enter" /\ caller'[c].batch # << >>
  <2>1. <<j>> \in Seq(Jobs) /\ <<j>> # << >>
    OBVIOUS
  <2> QED
    BY <1>2, <2>1
<1>4. dlq' \in Seq(Jobs) /\ accepted' \subseteq Jobs /\ done' \subseteq Jobs
      /\ dropped' \subseteq Jobs
  BY <1>1 DEF TypeOK
<1> QED
  BY <1>1, <1>2, <1>3, <1>4, CallerMoves

\* Submit goes on to send when the queue is running.
LEMMA SubmitEnterIInv ==
    ASSUME IInv, NEW c \in Callers, SubmitEnter(c)
    PROVE  IInv'
<1> DEFINE Q == Seq(Jobs)
           R == [pc : {"idle", "enter", "send", "take", "store"}, batch : Q]
<1>1. /\ caller[c].pc = "enter" /\ TypeOK /\ Loaded
      /\ \/ ~shutdown /\ caller' = [caller EXCEPT ![c].pc = "send"]
         \/ caller' = [caller EXCEPT ![c] = IdleCaller]
         \/ caller' = [caller EXCEPT ![c].pc = "store"]
      /\ UNCHANGED <<shutdown, current, chan, wg, writer, controller, worker>>
      /\ UNCHANGED <<dlq, accepted, done, dropped>>
  BY DEF SubmitEnter, IInv
<1>2. caller \in [Callers -> R] /\ caller[c].batch # << >> /\ << >> \in Q
  BY <1>1, EmptySeq DEF Loaded, TypeOK
<1>3. dlq' \in Q /\ accepted' \subseteq Jobs /\ done' \subseteq Jobs
      /\ dropped' \subseteq Jobs
  BY <1>1 DEF TypeOK
<1> HIDE DEF Q
<1>4. /\ caller' = [caller EXCEPT ![c] = caller'[c]]
      /\ caller'[c] \in R
      /\ caller'[c].pc \in {"enter", "send", "store"} => caller'[c].batch # << >>
      /\ caller'[c].pc = "send" => ~shutdown
  <2>1. CASE ~shutdown /\ caller' = [caller EXCEPT ![c].pc = "send"]
    BY <1>2, <2>1
  <2>2. CASE caller' = [caller EXCEPT ![c] = IdleCaller]
    BY <1>2, <2>2 DEF IdleCaller
  <2>3. CASE caller' = [caller EXCEPT ![c].pc = "store"]
    BY <1>2, <2>3
  <2> QED
    BY <1>1, <2>1, <2>2, <2>3
<1> QED
  BY <1>1, <1>3, <1>4, CallerMoves DEF Q

\* What a send does to the channels.
LEMMA BufferSet ==
    ASSUME TypeOK, NEW g \in 0..MaxStarts, NEW s \in Seq(Jobs),
           chan' = [chan EXCEPT ![g].buf = s]
    PROVE  /\ chan' \in [0..MaxStarts -> [buf : Seq(Jobs), closed : BOOLEAN]]
           /\ \A h \in 0..MaxStarts : chan'[h].closed = chan[h].closed
<1> DEFINE Q == Seq(Jobs)
<1>1. chan \in [0..MaxStarts -> [buf : Q, closed : BOOLEAN]] /\ s \in Q
  BY DEF TypeOK
<1> HIDE DEF Q
<1>2. /\ chan' \in [0..MaxStarts -> [buf : Q, closed : BOOLEAN]]
      /\ \A h \in 0..MaxStarts : chan'[h].closed = chan[h].closed
  BY <1>1
<1> QED
  BY <1>2 DEF Q

\* The send itself leaves the caller idle or with its next job.
LEMMA SubmitSendIInv ==
    ASSUME IInv, NEW c \in Callers, SubmitSend(c)
    PROVE  IInv'
<1> DEFINE j == Head(caller[c].batch)
           left == Tail(caller[c].batch)
<1>0. TypeOK /\ Locked /\ Open /\ Loaded /\ Working /\ Spawning /\ Counted
  BY DEF IInv
<1>1. /\ caller[c].pc = "send"
      /\ chan' = [chan EXCEPT ![current].buf = Append(chan[current].buf, j)]
      /\ accepted' = accepted \cup {j}
      /\ caller' = [caller EXCEPT ![c] =
            IF left = << >> THEN IdleCaller ELSE [pc |-> "enter", batch |-> left]]
      /\ UNCHANGED <<shutdown, current, wg, dlq, writer, controller, worker, done,
                     dropped>>
  BY DEF SubmitSend
<1>2. caller[c].batch \in Seq(Jobs) /\ caller[c].batch # << >>
  BY <1>0, <1>1, BufferTypes DEF Loaded
<1>3. j \in Jobs /\ left \in Seq(Jobs)
  BY <1>2, FirstAndRest
<1>4. current \in 0..MaxStarts
  BY <1>0 DEF TypeOK
<1>5. Append(chan[current].buf, j) \in Seq(Jobs)
  BY <1>0, <1>3, <1>4, BufferTypes, AppendProperties
<1>6. /\ chan' \in [0..MaxStarts -> [buf : Seq(Jobs), closed : BOOLEAN]]
      /\ \A h \in 0..MaxStarts : chan'[h].closed = chan[h].closed
  BY <1>0, <1>1, <1>4, <1>5, BufferSet
<1> HIDE DEF j, left
<1>7. /\ caller' \in [Callers -> [pc : {"idle", "enter", "send", "take", "store"},
                                  batch : Seq(Jobs)]]
      /\ \A d \in Callers : d # c => caller'[d] = caller[d]
      /\ \/ caller'[c].pc = "idle"
         \/ caller'[c].pc = "enter" /\ caller'[c].batch # << >>
  <2> DEFINE Q == Seq(Jobs)
  <2>1. /\ caller \in [Callers -> [pc : {"idle", "enter", "send", "take", "store"},
                                   batch : Q]]
        /\ left \in Q /\ << >> \in Q
    BY <1>0, <1>3, EmptySeq DEF TypeOK
  <2> HIDE DEF Q
  <2>2. /\ caller' \in [Callers -> [pc : {"idle", "enter", "send", "take", "store"},
                                    batch : Q]]
        /\ \A d \in Callers : d # c => caller'[d] = caller[d]
        /\ \/ caller'[c].pc = "idle"
           \/ caller'[c].pc = "enter" /\ caller'[c].batch # << >>
    BY <1>1, <2>1 DEF IdleCaller
  <2> QED
    BY <2>2 DEF Q
<1>8. TypeOK'
  BY <1>0, <1>1, <1>3, <1>6, <1>7 DEF TypeOK
<1>9. Open' /\ Loaded'
  BY <1>0, <1>1, <1>4, <1>6, <1>7 DEF Open, Loaded
<1>10. Locked' /\ Working' /\ Spawning'
  BY <1>0, <1>1 DEF Locked, Working, Spawning
<1>11. Counted'
  BY <1>0, <1>1, SameLive
<1> QED
  BY <1>8, <1>9, <1>10, <1>11 DEF IInv

-----------------------------------------------------------------------------
(* RedriveDLQ *)

\* The queue is running, and the dead letters will be taken.
LEMMA RedriveCheckIInv ==
    ASSUME IInv, NEW r \in Redrivers, RedriveCheck(r)
    PROVE  IInv'
<1>1. /\ r \in Callers /\ TypeOK
      /\ caller' = [caller EXCEPT ![r].pc = "take"]
      /\ UNCHANGED <<shutdown, current, chan, wg, writer, controller, worker>>
      /\ UNCHANGED <<dlq, accepted, done, dropped>>
  BY DEF RedriveCheck, Callers, IInv
<1>2. caller[r].batch \in Seq(Jobs)
  BY <1>1, BufferTypes
<1>3. /\ caller'[r] = [pc |-> "take", batch |-> caller[r].batch]
      /\ caller' = [caller EXCEPT ![r] = caller'[r]]
  <2> DEFINE Q == Seq(Jobs)
  <2>1. caller \in [Callers -> [pc : {"idle", "enter", "send", "take", "store"},
                                batch : Q]]
    BY <1>1 DEF TypeOK
  <2> HIDE DEF Q
  <2> QED
    BY <1>1, <2>1
<1>4. dlq' \in Seq(Jobs) /\ accepted' \subseteq Jobs /\ done' \subseteq Jobs
      /\ dropped' \subseteq Jobs
  BY <1>1 DEF TypeOK
<1>5. /\ caller'[r] \in [pc : {"idle", "enter", "send", "take", "store"},
                         batch : Seq(Jobs)]
      /\ caller'[r].pc = "take"
  BY <1>2, <1>3
<1> QED
  BY <1>1, <1>3, <1>4, <1>5, CallerMoves

\* The dead letters move to the redriving goroutine.
LEMMA RedriveTakeIInv ==
    ASSUME IInv, NEW r \in Redrivers, RedriveTake(r)
    PROVE  IInv'
<1>1. /\ r \in Callers /\ TypeOK
      /\ dlq' = << >>
      /\ caller' = [caller EXCEPT ![r] =
            IF dlq = << >> THEN IdleCaller ELSE [pc |-> "enter", batch |-> dlq]]
      /\ UNCHANGED <<shutdown, current, chan, wg, writer, controller, worker>>
      /\ UNCHANGED <<accepted, done, dropped>>
  BY DEF RedriveTake, Callers, IInv
<1>2. /\ caller'[r] = IF dlq = << >> THEN IdleCaller ELSE [pc |-> "enter", batch |-> dlq]
      /\ caller' = [caller EXCEPT ![r] = caller'[r]]
  BY <1>1 DEF TypeOK
<1>3. dlq \in Seq(Jobs) /\ << >> \in Seq(Jobs)
  BY <1>1, EmptySeq DEF TypeOK
<1>4. /\ caller'[r] \in [pc : {"idle", "enter", "send", "take", "store"},
                         batch : Seq(Jobs)]
      /\ caller'[r].pc \in {"enter", "send", "store"} => caller'[r].batch # << >>
      /\ caller'[r].pc # "send"
  BY <1>2, <1>3 DEF IdleCaller
<1>5. dlq' \in Seq(Jobs) /\ accepted' \subseteq Jobs /\ done' \subseteq Jobs
      /\ dropped' \subseteq Jobs
  BY <1>1, <1>3 DEF TypeOK
<1> QED
  BY <1>1, <1>2, <1>4, <1>5, CallerMoves

\* One job goes back, and the rest of the slice is forgotten.
LEMMA RedriveStoreIInv ==
    ASSUME IInv, NEW r \in Redrivers, RedriveStore(r)
    PROVE  IInv'
<1> DEFINE j == Head(caller[r].batch)
           left == Tail(caller[r].batch)
<1>1. /\ r \in Callers /\ TypeOK /\ Loaded
      /\ caller[r].pc = "store"
      /\ dlq' = Append(dlq, j)
      /\ dropped' = dropped \cup ToSet(left)
      /\ caller' = [caller EXCEPT ![r] = IdleCaller]
      /\ UNCHANGED <<shutdown, current, chan, wg, writer, controller, worker>>
      /\ UNCHANGED <<accepted, done>>
  BY DEF RedriveStore, Callers, IInv
<1>2. caller[r].batch \in Seq(Jobs) /\ caller[r].batch # << >>
  BY <1>1, BufferTypes DEF Loaded
<1>3. j \in Jobs /\ ToSet(left) \subseteq Jobs
  BY <1>2, FirstAndRest
<1> HIDE DEF j, left
<1>4. dlq' \in Seq(Jobs)
  <2>1. dlq \in Seq(Jobs)
    BY <1>1 DEF TypeOK
  <2> QED
    BY <1>1, <1>3, <2>1, AppendProperties
<1>5. accepted' \subseteq Jobs /\ done' \subseteq Jobs /\ dropped' \subseteq Jobs
  BY <1>1, <1>3 DEF TypeOK
<1>6. caller'[r] = IdleCaller /\ caller' = [caller EXCEPT ![r] = caller'[r]]
  BY <1>1 DEF TypeOK
<1>7. /\ caller'[r] \in [pc : {"idle", "enter", "send", "take", "store"},
                         batch : Seq(Jobs)]
      /\ caller'[r].pc = "idle"
  BY <1>6, EmptySeq DEF IdleCaller
<1> QED
  BY <1>1, <1>4, <1>5, <1>6, <1>7, CallerMoves

-----------------------------------------------------------------------------
(* Start and Shutdown *)

\* The goroutines that call Start and Shutdown.
Control == [pc : {"idle", "start", "spawn", "shutdown", "wait"},
            start : 0..MaxStarts, next : 0..(WorkerCount + 1)]

\* What the workers are.
Worker == [pc : {"none", "born", "range", "retry", "stopped"},
           chan : 0..MaxStarts, job : Jobs \cup {NoJob}, tries : 0..MaxRetries]

\* A goroutine asks for the write lock when nobody has, and nobody else has then.
LEMMA ControlCallIInv ==
    ASSUME IInv, NEW c \in Controllers, NEW pc \in {"start", "shutdown"},
           ControlCall(c, pc)
    PROVE  IInv'
<1>0. TypeOK /\ Locked /\ Open /\ Loaded /\ Working /\ Spawning /\ Counted
  BY DEF IInv
<1>1. /\ pc = "start" => current < MaxStarts
      /\ writer = Nobody /\ writer' = c
      /\ controller' = [controller EXCEPT ![c].pc = pc]
      /\ UNCHANGED <<shutdown, current, chan, wg, dlq, caller, worker, accepted,
                     done, dropped>>
  BY DEF ControlCall
<1>2. /\ controller' \in [Controllers -> Control]
      /\ controller'[c].pc = pc
      /\ \A d \in Controllers : d # c => controller'[d] = controller[d]
  BY <1>0, <1>1 DEF TypeOK, Control
<1>3. TypeOK'
  BY <1>0, <1>1, <1>2 DEF TypeOK, Control
<1>4. Locked'
  BY <1>0, <1>1, <1>2, JobQueueAssumption DEF Locked
<1>5. Open' /\ Loaded' /\ Working'
  BY <1>0, <1>1 DEF Open, Loaded, Working
<1>6. Spawning'
  BY <1>0, <1>1, <1>2 DEF Spawning
<1>7. Counted'
  BY <1>0, <1>1, SameLive
<1> QED
  BY <1>3, <1>4, <1>5, <1>6, <1>7 DEF IInv

\* Start makes a channel that no other Start has, and no worker uses yet.
LEMMA StartIInv ==
    ASSUME IInv, NEW c \in Controllers, Start(c)
    PROVE  IInv'
<1>0. TypeOK /\ Locked /\ Open /\ Loaded /\ Working /\ Spawning /\ Counted
  BY DEF IInv
<1>1. /\ controller[c].pc = "start" /\ Readers = {}
      /\ writer' = Nobody
      /\ UNCHANGED <<chan, wg, dlq, caller, worker, accepted, done, dropped>>
  BY DEF Start
<1>2. /\ writer = c /\ current \in 0..MaxStarts /\ current < MaxStarts
      /\ MaxStarts \in Nat /\ WorkerCount \in Nat
      /\ controller \in [Controllers -> Control]
  BY <1>0, <1>1, JobQueueAssumption DEF Locked, TypeOK, Control
<1>3. \A d \in Controllers : d # c => controller[d].pc \notin {"start", "shutdown"}
  BY <1>0, <1>2 DEF Locked
<1>4. Loaded' /\ Working' /\ Counted'
  <2>1. Loaded' /\ Working'
    BY <1>0, <1>1 DEF Loaded, Working
  <2>2. Counted'
    BY <1>0, <1>1, SameLive
  <2> QED
    BY <2>1, <2>2
<1>5. CASE shutdown
  <2>1. /\ shutdown' = FALSE /\ current' = current + 1
        /\ controller' = [controller EXCEPT ![c] =
              [pc |-> "spawn", start |-> current + 1, next |-> 1]]
    BY <1>5 DEF Start
  <2>2. /\ current + 1 \in 1..MaxStarts /\ 1 \in 0..(WorkerCount + 1)
        /\ 1 \in 1..(WorkerCount + 1)
    BY <1>2
  <2>3. /\ controller' \in [Controllers -> Control]
        /\ controller'[c] = [pc |-> "spawn", start |-> current + 1, next |-> 1]
        /\ \A d \in Controllers : d # c => controller'[d] = controller[d]
    BY <1>2, <2>1, <2>2 DEF Control
  <2>4. TypeOK'
    BY <1>0, <1>1, <2>1, <2>2, <2>3 DEF TypeOK, Control
  <2>5. Locked'
    BY <1>3, <2>3 DEF Locked
  <2>6. Open'
    <3>1. \A g \in 0..MaxStarts : g > current => ~chan'[g].closed
      BY <1>0, <1>1 DEF Open
    <3>2. ~chan'[current'].closed
      BY <1>2, <2>1, <2>2, <3>1
    <3>3. \A g \in 0..MaxStarts : g > current' => ~chan'[g].closed
      BY <1>2, <2>1, <3>1
    <3> QED
      BY <2>1, <3>2, <3>3 DEF Open
  <2>7. \A w \in Workers : worker[w].pc # "none" => w[1] \in Nat /\ w[1] <= current
    BY <1>0, WorkersFinite, JobQueueAssumption DEF Spawning
  <2>8. Spawning'
    <3>1. ASSUME NEW d \in Controllers, controller'[d].pc = "spawn"
          PROVE  /\ controller'[d].start \in 1..current'
                 /\ controller'[d].next \in 1..(WorkerCount + 1)
                 /\ \A w \in Workers :
                       w[1] = controller'[d].start /\ w[2] >= controller'[d].next
                          => worker'[w].pc = "none"
      <4>1. CASE d = c
        <5>1. \A w \in Workers : w[1] = current + 1 => worker[w].pc = "none"
          BY <1>2, <2>7
        <5> QED
          BY <1>1, <1>2, <2>1, <2>2, <2>3, <4>1, <5>1
      <4>2. CASE d # c
        BY <1>0, <1>1, <1>2, <2>1, <2>3, <3>1, <4>2 DEF Spawning
      <4> QED
        BY <4>1, <4>2
    <3>2. ASSUME NEW d \in Controllers, NEW e \in Controllers,
                 controller'[d].pc = "spawn", controller'[e].pc = "spawn",
                 controller'[d].start = controller'[e].start
          PROVE  d = e
      <4>1. \A x \in Controllers : x # c /\ controller'[x].pc = "spawn" =>
                controller'[x].start # current + 1
        BY <1>0, <1>2, <2>3 DEF Spawning
      <4> QED
        BY <1>0, <2>3, <3>2, <4>1 DEF Spawning
    <3>3. \A w \in Workers : worker'[w].pc # "none" => w[1] <= current'
      BY <1>1, <1>2, <2>1, <2>7
    <3> QED
      BY <3>1, <3>2, <3>3 DEF Spawning
  <2> QED
    BY <1>4, <2>4, <2>5, <2>6, <2>8 DEF IInv
<1>6. CASE ~shutdown
  <2>1. /\ controller' = [controller EXCEPT ![c] = IdleController]
        /\ UNCHANGED <<shutdown, current>>
    BY <1>6 DEF Start
  <2>2. /\ controller' \in [Controllers -> Control]
        /\ controller'[c].pc = "idle"
        /\ \A d \in Controllers : d # c => controller'[d] = controller[d]
    BY <1>2, <2>1 DEF Control, IdleController
  <2>3. TypeOK'
    BY <1>0, <1>1, <2>1, <2>2 DEF TypeOK, Control
  <2>4. Locked' /\ Open'
    BY <1>0, <1>1, <1>3, <2>1, <2>2 DEF Locked, Open
  <2>5. Spawning'
    BY <1>0, <1>1, <2>1, <2>2 DEF Spawning
  <2> QED
    BY <1>4, <2>3, <2>4, <2>5 DEF IInv
<1>7. shutdown \in BOOLEAN
  BY <1>0 DEF TypeOK
<1> QED
  BY <1>5, <1>6, <1>7

\* initiateWorkerPool counts a worker before it makes it; the worker is a new one.
LEMMA StartWorkerIInv ==
    ASSUME IInv, NEW c \in Controllers, StartWorker(c)
    PROVE  IInv'
<1> DEFINE s == controller[c]
<1>0. TypeOK /\ Locked /\ Open /\ Loaded /\ Working /\ Spawning /\ Counted
  BY DEF IInv
<1>1. /\ s.pc = "spawn"
      /\ UNCHANGED <<shutdown, current, chan, dlq, writer, caller, accepted, done,
                     dropped>>
  BY DEF StartWorker
<1>2. /\ controller \in [Controllers -> Control]
      /\ s.start \in 1..current /\ s.next \in 1..(WorkerCount + 1)
      /\ WorkerCount \in Nat /\ current \in 0..MaxStarts /\ MaxStarts \in Nat
  BY <1>0, <1>1, JobQueueAssumption DEF Spawning, TypeOK, Control
<1>3. Open' /\ Loaded'
  BY <1>0, <1>1 DEF Open, Loaded
<1>4. CASE s.next <= WorkerCount
  <2> DEFINE w == <<s.start, s.next>>
  <2>1. /\ wg' = wg + 1
        /\ worker' = [worker EXCEPT ![w].pc = "born"]
        /\ controller' = [controller EXCEPT ![c].next = s.next + 1]
    BY <1>4 DEF StartWorker
  <2>2. w \in Workers /\ w[1] = s.start /\ w[2] = s.next
    BY <1>2, <1>4 DEF Workers
  <2> HIDE DEF w
  <2>3. worker[w].pc = "none"
    BY <1>0, <1>1, <1>2, <2>2 DEF Spawning
  <2>4. s.next + 1 \in 0..(WorkerCount + 1) /\ s.next + 1 \in 1..(WorkerCount + 1)
    BY <1>2, <1>4
  <2>5. /\ controller' \in [Controllers -> Control]
        /\ controller'[c].pc = "spawn" /\ controller'[c].start = s.start
        /\ controller'[c].next = s.next + 1
        /\ \A d \in Controllers : d # c => controller'[d] = controller[d]
    BY <1>1, <1>2, <2>1, <2>4 DEF Control
  <2>6. /\ \A v \in Workers : worker'[v].pc = IF v = w THEN "born" ELSE worker[v].pc
        /\ \A v \in Workers : worker'[v].job = worker[v].job
    BY <1>0, <2>1, <2>2 DEF TypeOK
  <2>7. TypeOK'
    <3>1. worker' \in [Workers -> Worker]
      BY <1>0, <2>1, <2>2 DEF TypeOK, Worker
    <3>2. wg' \in Nat
      BY <1>0, <2>1 DEF TypeOK
    <3> QED
      BY <1>0, <1>1, <2>5, <3>1, <3>2 DEF TypeOK, Control, Worker
  <2>8. Locked' /\ Working'
    BY <1>0, <1>1, <2>5, <2>6 DEF Locked, Working
  <2>9. Counted'
    <3>1. Live' = Live \cup {w} /\ w \notin Live
      BY <2>2, <2>3, <2>6 DEF Live, Alive
    <3> QED
      BY <1>0, <2>1, <3>1, LiveFinite, FS_AddElement DEF Counted
  <2>10. Spawning'
    <3>1. ASSUME NEW d \in Controllers, controller'[d].pc = "spawn"
          PROVE  /\ controller'[d].start \in 1..current'
                 /\ controller'[d].next \in 1..(WorkerCount + 1)
                 /\ \A v \in Workers :
                       v[1] = controller'[d].start /\ v[2] >= controller'[d].next
                          => worker'[v].pc = "none"
      <4>1. CASE d = c
        <5>1. ASSUME NEW v \in Workers, v[1] = s.start, v[2] >= s.next + 1
              PROVE  worker'[v].pc = "none"
          <6>1. v # w /\ v[2] >= s.next
            BY <1>2, <2>2, <5>1, WorkersFinite, JobQueueAssumption
          <6> QED
            BY <1>0, <1>1, <2>6, <5>1, <6>1 DEF Spawning
        <5> QED
          BY <1>1, <1>2, <2>4, <2>5, <4>1, <5>1
      <4>2. CASE d # c
        <5>1. controller[d].pc = "spawn" /\ controller[d].start # s.start
          BY <1>0, <1>1, <2>5, <3>1, <4>2 DEF Spawning
        <5>2. \A v \in Workers : v[1] = controller[d].start => v # w
          BY <2>2, <5>1
        <5> QED
          BY <1>0, <1>1, <2>5, <2>6, <4>2, <5>1, <5>2 DEF Spawning
      <4> QED
        BY <4>1, <4>2
    <3>2. \A d, e \in Controllers :
             controller'[d].pc = "spawn" /\ controller'[e].pc = "spawn"
                /\ controller'[d].start = controller'[e].start => d = e
      <4>1. \A d \in Controllers : /\ controller'[d].pc = controller[d].pc
                                   /\ controller'[d].start = controller[d].start
        BY <1>1, <2>5
      <4> QED
        BY <1>0, <4>1 DEF Spawning
    <3>3. \A v \in Workers : worker'[v].pc # "none" => v[1] <= current'
      BY <1>0, <1>1, <1>2, <2>2, <2>6 DEF Spawning
    <3> QED
      BY <3>1, <3>2, <3>3 DEF Spawning
  <2> QED
    BY <1>3, <2>7, <2>8, <2>9, <2>10 DEF IInv
<1>5. CASE ~(s.next <= WorkerCount)
  <2>1. /\ controller' = [controller EXCEPT ![c] = IdleController]
        /\ UNCHANGED <<wg, worker>>
    BY <1>5 DEF StartWorker
  <2>2. /\ controller' \in [Controllers -> Control]
        /\ controller'[c].pc = "idle"
        /\ \A d \in Controllers : d # c => controller'[d] = controller[d]
    BY <1>2, <2>1 DEF Control, IdleController
  <2>3. TypeOK'
    BY <1>0, <1>1, <2>1, <2>2 DEF TypeOK, Control
  <2>4. Locked' /\ Working'
    BY <1>0, <1>1, <2>1, <2>2 DEF Locked, Working
  <2>5. Spawning'
    BY <1>0, <1>1, <2>1, <2>2 DEF Spawning
  <2>6. Counted'
    BY <1>0, <2>1, SameLive
  <2> QED
    BY <1>3, <2>3, <2>4, <2>5, <2>6 DEF IInv
<1> QED
  BY <1>4, <1>5

\* Shutdown closes the channel when no producer is in Submit.
LEMMA ShutdownIInv ==
    ASSUME IInv, NEW c \in Controllers, Shutdown(c)
    PROVE  IInv'
<1>0. TypeOK /\ Locked /\ Open /\ Loaded /\ Working /\ Spawning /\ Counted
  BY DEF IInv
<1>1. /\ controller[c].pc = "shutdown" /\ Readers = {}
      /\ writer' = Nobody
      /\ UNCHANGED <<current, wg, dlq, caller, worker, accepted, done, dropped>>
  BY DEF Shutdown
<1>2. /\ writer = c /\ current \in 0..MaxStarts /\ shutdown \in BOOLEAN
      /\ controller \in [Controllers -> Control]
  BY <1>0, <1>1 DEF Locked, TypeOK, Control
<1>3. \A d \in Controllers : d # c => controller[d].pc \notin {"start", "shutdown"}
  BY <1>0, <1>2 DEF Locked
<1>4. \A d \in Callers : caller[d].pc # "send"
  BY <1>1 DEF Readers
<1>5. Loaded' /\ Working'
  BY <1>0, <1>1 DEF Loaded, Working
<1>6. Counted'
  BY <1>0, <1>1, SameLive
<1>7. \/ /\ controller' = [controller EXCEPT ![c] = IdleController]
         /\ UNCHANGED <<shutdown, chan>>
      \/ /\ shutdown' = TRUE
         /\ chan' = [chan EXCEPT ![current].closed = TRUE]
         /\ controller' = [controller EXCEPT ![c].pc = "wait"]
  BY <1>2 DEF Shutdown
<1>8. /\ controller' \in [Controllers -> Control]
      /\ controller'[c].pc \in {"idle", "wait"}
      /\ \A d \in Controllers : d # c => controller'[d] = controller[d]
  <2>1. IdleController \in Control
    BY JobQueueAssumption DEF IdleController, Control
  <2> QED
    BY <1>2, <1>7, <2>1 DEF Control, IdleController
<1>9. /\ chan' \in [0..MaxStarts -> [buf : Seq(Jobs), closed : BOOLEAN]]
      /\ \A g \in 0..MaxStarts : g # current => chan'[g].closed = chan[g].closed
  <2> DEFINE Q == Seq(Jobs)
  <2>1. chan \in [0..MaxStarts -> [buf : Q, closed : BOOLEAN]]
    BY <1>0 DEF TypeOK
  <2> HIDE DEF Q
  <2>2. /\ chan' \in [0..MaxStarts -> [buf : Q, closed : BOOLEAN]]
        /\ \A g \in 0..MaxStarts : g # current => chan'[g].closed = chan[g].closed
    BY <1>2, <1>7, <2>1
  <2> QED
    BY <2>2 DEF Q
<1>10. TypeOK'
  <2>1. shutdown' \in BOOLEAN /\ writer' \in Controllers \cup {Nobody}
    BY <1>1, <1>2, <1>7
  <2> QED
    BY <1>0, <1>1, <1>8, <1>9, <2>1 DEF TypeOK, Control
<1>11. Locked'
  BY <1>3, <1>8 DEF Locked
<1>12. Open'
  <2>1. ASSUME NEW g \in 0..MaxStarts, g > current' PROVE ~chan'[g].closed
    <3>1. g > current /\ g # current
      BY <1>1, <1>2, <2>1, JobQueueAssumption
    <3> QED
      BY <1>0, <1>9, <3>1 DEF Open
  <2>2. ~shutdown' => ~chan'[current'].closed
    BY <1>0, <1>1, <1>7 DEF Open
  <2> QED
    BY <1>1, <1>4, <2>1, <2>2 DEF Open
<1>13. Spawning'
  BY <1>0, <1>1, <1>8 DEF Spawning
<1> QED
  BY <1>5, <1>6, <1>10, <1>11, <1>12, <1>13 DEF IInv

\* Shutdown has waited for the workers.
LEMMA ShutdownReturnIInv ==
    ASSUME IInv, NEW c \in Controllers, ShutdownReturn(c)
    PROVE  IInv'
<1>0. TypeOK /\ Locked /\ Open /\ Loaded /\ Working /\ Spawning /\ Counted
  BY DEF IInv
<1>1. /\ controller' = [controller EXCEPT ![c] = IdleController]
      /\ controller \in [Controllers -> Control]
      /\ UNCHANGED <<shutdown, current, chan, wg, dlq, writer, caller, worker,
                     accepted, done, dropped>>
  BY <1>0 DEF ShutdownReturn, TypeOK, Control
<1>2. /\ controller' \in [Controllers -> Control]
      /\ controller'[c].pc = "idle"
      /\ \A d \in Controllers : d # c => controller'[d] = controller[d]
  <2>1. IdleController \in Control
    BY JobQueueAssumption DEF IdleController, Control
  <2> QED
    BY <1>1, <2>1 DEF IdleController
<1>3. TypeOK'
  BY <1>0, <1>1, <1>2 DEF TypeOK, Control
<1>4. Locked' /\ Open' /\ Loaded' /\ Working'
  BY <1>0, <1>1, <1>2 DEF Locked, Open, Loaded, Working
<1>5. Spawning'
  BY <1>0, <1>1, <1>2 DEF Spawning
<1>6. Counted'
  BY <1>0, <1>1, SameLive
<1> QED
  BY <1>3, <1>4, <1>5, <1>6 DEF IInv

-----------------------------------------------------------------------------
(* Workers *)

\* A step of one worker that leaves the queue's lock and the callers alone.
LEMMA WorkerMoves ==
    ASSUME IInv, NEW w \in Workers, worker[w].pc # "none",
           worker' \in [Workers -> Worker],
           \A v \in Workers : v # w => worker'[v] = worker[v],
           worker'[w].pc = "retry" => worker'[w].job # NoJob,
           UNCHANGED <<shutdown, current, writer, caller, controller>>,
           chan' \in [0..MaxStarts -> [buf : Seq(Jobs), closed : BOOLEAN]],
           \A g \in 0..MaxStarts : chan'[g].closed = chan[g].closed,
           wg' \in Nat, Counted', dlq' \in Seq(Jobs), accepted' \subseteq Jobs,
           done' \subseteq Jobs, dropped' \subseteq Jobs
    PROVE  IInv'
<1>0. TypeOK /\ Locked /\ Open /\ Loaded /\ Working /\ Spawning
  BY DEF IInv
<1>1. TypeOK'
  BY <1>0 DEF TypeOK, Worker
<1>2. Locked' /\ Loaded'
  BY <1>0 DEF Locked, Loaded
<1>3. Working'
  BY <1>0 DEF Working
<1>4. Open'
  <2>1. current \in 0..MaxStarts
    BY <1>0 DEF TypeOK
  <2> QED
    BY <1>0, <2>1 DEF Open
<1>5. Spawning'
  <2>1. /\ \A v \in Workers : worker[v].pc = "none" => worker'[v].pc = "none"
        /\ \A v \in Workers : worker'[v].pc # "none" => worker[v].pc # "none"
    OBVIOUS
  <2> QED
    BY <1>0, <2>1 DEF Spawning
<1> QED
  BY <1>1, <1>2, <1>3, <1>4, <1>5 DEF IInv

\* What a worker does when it neither begins nor stops leaves q.wg right.
LEMMA StaysLive ==
    ASSUME Counted, NEW w \in Workers, wg' = wg,
           worker[w].pc \in Alive, worker'[w].pc \in Alive,
           \A v \in Workers : v # w => worker'[v] = worker[v]
    PROVE  Counted'
<1>1. \A v \in Workers : worker'[v].pc \in Alive <=> worker[v].pc \in Alive
  OBVIOUS
<1> QED
  BY <1>1, SameLive

\* A worker ranges over the channel that is the current one when it begins.
LEMMA WorkerBeginIInv ==
    ASSUME IInv, NEW w \in Workers, WorkerBegin(w)
    PROVE  IInv'
<1>0. /\ TypeOK /\ Counted /\ worker \in [Workers -> Worker]
      /\ current \in 0..MaxStarts
  BY DEF IInv, TypeOK, Worker
<1>1. /\ worker[w].pc = "born"
      /\ worker' = [worker EXCEPT ![w].pc = "range", ![w].chan = current]
      /\ UNCHANGED <<shutdown, current, writer, caller, controller>>
      /\ UNCHANGED <<chan, wg, dlq, accepted, done, dropped>>
  BY DEF WorkerBegin
<1>2. /\ worker' \in [Workers -> Worker] /\ worker'[w].pc = "range"
      /\ \A v \in Workers : v # w => worker'[v] = worker[v]
  BY <1>0, <1>1 DEF Worker
<1>3. Counted'
  BY <1>0, <1>1, <1>2, StaysLive DEF Alive
<1>4. /\ chan' \in [0..MaxStarts -> [buf : Seq(Jobs), closed : BOOLEAN]]
      /\ \A g \in 0..MaxStarts : chan'[g].closed = chan[g].closed
      /\ wg' \in Nat /\ dlq' \in Seq(Jobs) /\ accepted' \subseteq Jobs
      /\ done' \subseteq Jobs /\ dropped' \subseteq Jobs
  BY <1>0, <1>1 DEF TypeOK
<1> QED
  BY <1>1, <1>2, <1>3, <1>4, WorkerMoves

\* A worker takes the first job of its channel.
LEMMA WorkerTakeIInv ==
    ASSUME IInv, NEW w \in Workers, WorkerTake(w)
    PROVE  IInv'
<1> DEFINE g == worker[w].chan
           j == Head(chan[g].buf)
           left == Tail(chan[g].buf)
<1>0. /\ TypeOK /\ Counted /\ worker \in [Workers -> Worker]
      /\ g \in 0..MaxStarts
  BY DEF IInv, TypeOK, Worker
<1>1. /\ worker[w].pc = "range" /\ chan[g].buf # << >>
      /\ chan' = [chan EXCEPT ![g].buf = left]
      /\ worker' = [worker EXCEPT ![w].pc = "retry", ![w].tries = 0, ![w].job = j]
      /\ UNCHANGED <<shutdown, current, writer, caller, controller>>
      /\ UNCHANGED <<wg, dlq, accepted, done, dropped>>
  BY DEF WorkerTake
<1>2. j \in Jobs /\ left \in Seq(Jobs) /\ j # NoJob /\ 0 \in 0..MaxRetries
  BY <1>0, <1>1, BufferTypes, FirstAndRest, JobQueueAssumption
<1>3. /\ chan' \in [0..MaxStarts -> [buf : Seq(Jobs), closed : BOOLEAN]]
      /\ \A h \in 0..MaxStarts : chan'[h].closed = chan[h].closed
  BY <1>0, <1>1, <1>2, BufferSet
<1> HIDE DEF j, left, g
<1>4. /\ worker' \in [Workers -> Worker] /\ worker'[w].pc = "retry"
      /\ worker'[w].job = j
      /\ \A v \in Workers : v # w => worker'[v] = worker[v]
  BY <1>0, <1>1, <1>2 DEF Worker
<1>5. Counted'
  BY <1>0, <1>1, <1>4, StaysLive DEF Alive
<1>6. /\ wg' \in Nat /\ dlq' \in Seq(Jobs) /\ accepted' \subseteq Jobs
      /\ done' \subseteq Jobs /\ dropped' \subseteq Jobs
  BY <1>0, <1>1 DEF TypeOK
<1> QED
  BY <1>1, <1>2, <1>3, <1>4, <1>5, <1>6, WorkerMoves

\* An attempt succeeds.
LEMMA WorkerSucceedIInv ==
    ASSUME IInv, NEW w \in Workers, WorkerSucceed(w)
    PROVE  IInv'
<1>0. /\ TypeOK /\ Counted /\ Working /\ worker \in [Workers -> Worker]
  BY DEF IInv, TypeOK, Worker
<1>1. /\ worker[w].pc = "retry"
      /\ done' = done \cup {worker[w].job}
      /\ worker' = [worker EXCEPT ![w].pc = "range", ![w].job = NoJob, ![w].tries = 0]
      /\ UNCHANGED <<shutdown, current, writer, caller, controller>>
      /\ UNCHANGED <<chan, wg, dlq, accepted, dropped>>
  BY DEF WorkerSucceed
<1>2. worker[w].job \in Jobs /\ 0 \in 0..MaxRetries
  BY <1>0, <1>1, JobQueueAssumption DEF Working, Worker
<1>3. /\ worker' \in [Workers -> Worker] /\ worker'[w].pc = "range"
      /\ \A v \in Workers : v # w => worker'[v] = worker[v]
  BY <1>0, <1>1, <1>2 DEF Worker
<1>4. Counted'
  BY <1>0, <1>1, <1>3, StaysLive DEF Alive
<1>5. /\ chan' \in [0..MaxStarts -> [buf : Seq(Jobs), closed : BOOLEAN]]
      /\ \A g \in 0..MaxStarts : chan'[g].closed = chan[g].closed
      /\ wg' \in Nat /\ dlq' \in Seq(Jobs) /\ accepted' \subseteq Jobs
      /\ done' \subseteq Jobs /\ dropped' \subseteq Jobs
  BY <1>0, <1>1, <1>2 DEF TypeOK
<1> QED
  BY <1>1, <1>3, <1>4, <1>5, WorkerMoves

\* An attempt fails.
LEMMA WorkerFailIInv ==
    ASSUME IInv, NEW w \in Workers, WorkerFail(w)
    PROVE  IInv'
<1>0. /\ TypeOK /\ Counted /\ Working /\ worker \in [Workers -> Worker]
  BY DEF IInv, TypeOK, Worker
<1>1. /\ worker[w].pc = "retry" /\ worker[w].tries < MaxRetries
      /\ worker' = [worker EXCEPT ![w].tries = worker[w].tries + 1]
      /\ UNCHANGED <<shutdown, current, writer, caller, controller>>
      /\ UNCHANGED <<chan, wg, dlq, accepted, done, dropped>>
  BY DEF WorkerFail
<1>2. worker[w].tries + 1 \in 0..MaxRetries /\ worker[w].job # NoJob
  BY <1>0, <1>1, JobQueueAssumption DEF Working, Worker
<1>3. /\ worker' \in [Workers -> Worker] /\ worker'[w].pc = "retry"
      /\ worker'[w].job = worker[w].job
      /\ \A v \in Workers : v # w => worker'[v] = worker[v]
  BY <1>0, <1>1, <1>2 DEF Worker
<1>4. Counted'
  BY <1>0, <1>1, <1>3, StaysLive DEF Alive
<1>5. /\ chan' \in [0..MaxStarts -> [buf : Seq(Jobs), closed : BOOLEAN]]
      /\ \A g \in 0..MaxStarts : chan'[g].closed = chan[g].closed
      /\ wg' \in Nat /\ dlq' \in Seq(Jobs) /\ accepted' \subseteq Jobs
      /\ done' \subseteq Jobs /\ dropped' \subseteq Jobs
  BY <1>0, <1>1 DEF TypeOK
<1> QED
  BY <1>1, <1>2, <1>3, <1>4, <1>5, WorkerMoves

\* The job goes to the dead letter queue.
LEMMA WorkerGiveUpIInv ==
    ASSUME IInv, NEW w \in Workers, WorkerGiveUp(w)
    PROVE  IInv'
<1>0. /\ TypeOK /\ Counted /\ Working /\ worker \in [Workers -> Worker]
      /\ dlq \in Seq(Jobs)
  BY DEF IInv, TypeOK, Worker
<1>1. /\ worker[w].pc = "retry"
      /\ dlq' = Append(dlq, worker[w].job)
      /\ worker' = [worker EXCEPT ![w].pc = "range", ![w].job = NoJob, ![w].tries = 0]
      /\ UNCHANGED <<shutdown, current, writer, caller, controller>>
      /\ UNCHANGED <<chan, wg, accepted, done, dropped>>
  BY DEF WorkerGiveUp
<1>2. worker[w].job \in Jobs /\ 0 \in 0..MaxRetries
  BY <1>0, <1>1, JobQueueAssumption DEF Working, Worker
<1>3. /\ worker' \in [Workers -> Worker] /\ worker'[w].pc = "range"
      /\ \A v \in Workers : v # w => worker'[v] = worker[v]
  BY <1>0, <1>1, <1>2 DEF Worker
<1>4. Counted'
  BY <1>0, <1>1, <1>3, StaysLive DEF Alive
<1>5. dlq' \in Seq(Jobs)
  BY <1>0, <1>1, <1>2, AppendProperties
<1>6. /\ chan' \in [0..MaxStarts -> [buf : Seq(Jobs), closed : BOOLEAN]]
      /\ \A g \in 0..MaxStarts : chan'[g].closed = chan[g].closed
      /\ wg' \in Nat /\ accepted' \subseteq Jobs
      /\ done' \subseteq Jobs /\ dropped' \subseteq Jobs
  BY <1>0, <1>1 DEF TypeOK
<1> QED
  BY <1>1, <1>3, <1>4, <1>5, <1>6, WorkerMoves

\* A worker that stops was counted, so the counter does not become negative.
LEMMA WorkerStopIInv ==
    ASSUME IInv, NEW w \in Workers, WorkerStop(w)
    PROVE  IInv'
<1>0. /\ TypeOK /\ Counted /\ worker \in [Workers -> Worker]
  BY DEF IInv, TypeOK, Worker
<1>1. /\ worker[w].pc = "range"
      /\ wg' = wg - 1
      /\ worker' = [worker EXCEPT ![w].pc = "stopped"]
      /\ UNCHANGED <<shutdown, current, writer, caller, controller>>
      /\ UNCHANGED <<chan, dlq, accepted, done, dropped>>
  BY DEF WorkerStop
<1>2. /\ worker' \in [Workers -> Worker] /\ worker'[w].pc = "stopped"
      /\ \A v \in Workers : v # w => worker'[v] = worker[v]
  BY <1>0, <1>1 DEF Worker
<1>3. Live' = Live \ {w} /\ w \in Live
  BY <1>1, <1>2 DEF Live, Alive
<1>4. Counted' /\ wg' \in Nat
  <2>1. Cardinality(Live \ {w}) = Cardinality(Live) - 1
    BY <1>3, LiveFinite, FS_RemoveElement
  <2>2. IsFiniteSet(Live \ {w}) /\ Cardinality(Live \ {w}) \in Nat
    BY LiveFinite, FS_RemoveElement, FS_CardinalityType
  <2> QED
    BY <1>0, <1>1, <1>3, <2>1, <2>2 DEF Counted
<1>5. /\ chan' \in [0..MaxStarts -> [buf : Seq(Jobs), closed : BOOLEAN]]
      /\ \A g \in 0..MaxStarts : chan'[g].closed = chan[g].closed
      /\ dlq' \in Seq(Jobs) /\ accepted' \subseteq Jobs
      /\ done' \subseteq Jobs /\ dropped' \subseteq Jobs
  BY <1>0, <1>1 DEF TypeOK
<1> QED
  BY <1>1, <1>2, <1>4, <1>5, WorkerMoves

-----------------------------------------------------------------------------
(* The theorems *)

\* The steps together.
LEMMA NextIInv == IInv /\ [Next]_vars => IInv'
<1> SUFFICES ASSUME IInv, [Next]_vars PROVE IInv'
  OBVIOUS
<1>1. CASE \E p \in Producers, j \in Jobs : SubmitCall(p, j)
  BY <1>1, SubmitCallIInv
<1>2. CASE \E c \in Callers : CallerStep(c)
  BY <1>2, SubmitEnterIInv, SubmitSendIInv DEF CallerStep
<1>3. CASE \E r \in Redrivers : RedriveCheck(r) \/ RedriverStep(r)
  BY <1>3, RedriveCheckIInv, RedriveTakeIInv, RedriveStoreIInv DEF RedriverStep
<1>4. CASE \E c \in Controllers : ControlCall(c, "start") \/ ControlCall(c, "shutdown")
  BY <1>4, ControlCallIInv
<1>5. CASE \E c \in Controllers : ControllerStep(c)
  BY <1>5, StartIInv, StartWorkerIInv, ShutdownIInv, ShutdownReturnIInv
     DEF ControllerStep
<1>6. CASE \E w \in Workers : WorkerStep(w)
  BY <1>6, WorkerBeginIInv, WorkerTakeIInv, WorkerSucceedIInv, WorkerFailIInv,
     WorkerGiveUpIInv, WorkerStopIInv DEF WorkerStep
<1>7. CASE UNCHANGED vars
  <2>1. UNCHANGED <<shutdown, current, chan, wg, dlq, writer, caller, controller,
                    worker, accepted, done, dropped>>
    BY <1>7 DEF vars
  <2>2. TypeOK /\ Locked /\ Open /\ Loaded /\ Working /\ Spawning /\ Counted
    BY DEF IInv
  <2>3. TypeOK'
    BY <2>1, <2>2 DEF TypeOK
  <2>4. Locked' /\ Open' /\ Loaded' /\ Working' /\ Spawning'
    BY <2>1, <2>2 DEF Locked, Open, Loaded, Working, Spawning
  <2>5. Counted'
    BY <2>1, <2>2, SameLive
  <2> QED
    BY <2>3, <2>4, <2>5 DEF IInv
<1> QED
  BY <1>1, <1>2, <1>3, <1>4, <1>5, <1>6, <1>7 DEF Next

\* The invariant holds at the start and every step of Submit, RedriveDLQ, Start,
\* Shutdown and the workers keeps it.
THEOREM JobQueueInductive == Spec => []IInv
  BY InitIInv, NextIInv, PTL DEF Spec

\* The state of the queue has its type; q.wg is never negative, for which the
\* WaitGroup would panic.
THEOREM JobQueueTypeCorrect == Spec => []TypeOK
<1>1. IInv => TypeOK
  BY DEF IInv
<1> QED
  BY <1>1, JobQueueInductive, PTL

\* The read lock that Submit holds across its send keeps Shutdown from closing the
\* channel below it, and Start from replacing it.
THEOREM SendsToOpenChannels == Spec => []NoSendOnClosed
<1>1. IInv => NoSendOnClosed
  BY DEF IInv, Open, NoSendOnClosed, Readers
<1> QED
  BY <1>1, JobQueueInductive, PTL

\* Whoever calls Start and Shutdown and however they overlap, q.wg counts exactly
\* the workers that initiateWorkerPool has made and that have not stopped.
THEOREM WaitGroupCounts == Spec => []Counted
<1>1. IInv => Counted
  BY DEF IInv
<1> QED
  BY <1>1, JobQueueInductive, PTL

-----------------------------------------------------------------------------
(* Shutdown drains the queue when one goroutine calls Start and Shutdown *)

\* One goroutine controls the queue, and a Start makes a worker at least.
OneCaller == WorkerCount > 0 /\ \A c, d \in Controllers : c = d

\* A live worker was made by the last Start and serves its channel.
Serving ==
    \A w \in Workers :
        /\ worker[w].pc \in Alive => w[1] = current
        /\ worker[w].pc \in {"range", "retry"} => worker[w].chan = current
        /\ worker[w].job # NoJob => worker[w].pc = "retry"

\* The channels of the other Starts are empty. So is the current one when a worker
\* has left it, and when the queue is at rest.
Emptied ==
    /\ \A g \in 0..MaxStarts : g # current => chan[g].buf = << >>
    /\ \A w \in Workers : worker[w].pc = "stopped" /\ w[1] = current =>
          shutdown /\ chan[current].buf = << >>
    /\ shutdown /\ (\A c \in Controllers : controller[c].pc # "wait") =>
          chan[current].buf = << >> /\ Live = {}

\* The last Start has made all its workers, but for those still to come.
Manned ==
    /\ ~shutdown \/ (\E c \in Controllers : controller[c].pc = "wait") => current > 0
    /\ \A c \in Controllers : controller[c].pc = "wait" => shutdown
    /\ \A c \in Controllers : controller[c].pc = "spawn" =>
          /\ ~shutdown /\ controller[c].start = current
          /\ \A w \in Workers : w[1] = current /\ w[2] < controller[c].next =>
                worker[w].pc # "none"
    /\ (\A c \in Controllers : controller[c].pc # "spawn") =>
          \A w \in Workers : w[1] = current => worker[w].pc # "none"

Drained == Serving /\ Emptied /\ Manned

\* A step that leaves channels, controllers and workers alone.
LEMMA SameDrained ==
    ASSUME Drained, UNCHANGED <<shutdown, current, chan, controller, worker>>
    PROVE  Drained'
<1>1. Live' = Live
  BY DEF Live
<1>2. Serving' /\ Manned'
  BY DEF Drained, Serving, Manned
<1>3. Emptied'
  BY <1>1 DEF Drained, Emptied
<1> QED
  BY <1>2, <1>3 DEF Drained

\* Nothing has been started.
LEMMA InitDrained == Init => Drained
<1> SUFFICES ASSUME Init PROVE Drained
  OBVIOUS
<1>1. Live = {}
  BY DEF Init, Live, NoWorker, Alive
<1>2. Serving
  BY DEF Init, Serving, NoWorker, Alive
<1>3. Emptied
  BY <1>1, JobQueueAssumption DEF Init, Emptied, NoWorker
<1>4. Manned
  BY WorkersFinite, JobQueueAssumption DEF Init, Manned, NoWorker, IdleController
<1> QED
  BY <1>2, <1>3, <1>4 DEF Drained

\* A job is sent to the channel of a running queue, which no worker has left.
LEMMA SendDrained ==
    ASSUME IInv, Drained, NEW c \in Callers, SubmitSend(c)
    PROVE  Drained'
<1>1. /\ caller[c].pc = "send"
      /\ \E s : chan' = [chan EXCEPT ![current].buf = s]
      /\ UNCHANGED <<shutdown, current, controller, worker>>
  BY DEF SubmitSend
<1>2. ~shutdown
  BY <1>1 DEF IInv, Open
<1>3. \A g \in 0..MaxStarts : g # current => chan'[g] = chan[g]
  BY <1>1 DEF IInv, TypeOK
<1>4. Serving' /\ Manned'
  BY <1>1 DEF Drained, Serving, Manned
<1>5. Emptied'
  BY <1>1, <1>2, <1>3 DEF Drained, Emptied
<1> QED
  BY <1>4, <1>5 DEF Drained

\* A call of Start or Shutdown that waits for the lock changes nothing yet.
LEMMA ControlCallDrained ==
    ASSUME IInv, Drained, NEW c \in Controllers, NEW pc \in {"start", "shutdown"},
           ControlCall(c, pc)
    PROVE  Drained'
<1>1. /\ controller[c].pc = "idle"
      /\ controller' = [controller EXCEPT ![c].pc = pc]
      /\ UNCHANGED <<shutdown, current, chan, worker>>
  BY DEF ControlCall
<1>2. /\ controller'[c].pc = pc
      /\ \A d \in Controllers : d # c => controller'[d] = controller[d]
  BY <1>1 DEF IInv, TypeOK
<1>3. Live' = Live
  BY <1>1 DEF Live
<1>4. \A d \in Controllers : /\ controller'[d].pc = "wait" <=> controller[d].pc = "wait"
                             /\ controller'[d].pc = "spawn" <=> controller[d].pc = "spawn"
  BY <1>1, <1>2
<1>5. Serving'
  BY <1>1 DEF Drained, Serving
<1>6. Emptied'
  BY <1>1, <1>3, <1>4 DEF Drained, Emptied
<1>7. Manned'
  <2>1. \A d \in Controllers : controller'[d].pc = "spawn" => controller'[d] = controller[d]
    BY <1>2
  <2> QED
    BY <1>1, <1>4, <2>1 DEF Drained, Manned
<1> QED
  BY <1>5, <1>6, <1>7 DEF Drained

\* Start finds a drained queue, and gives it an empty channel.
LEMMA StartDrained ==
    ASSUME OneCaller, IInv, Drained, NEW c \in Controllers, Start(c)
    PROVE  Drained'
<1>0. /\ current \in 0..MaxStarts /\ MaxStarts \in Nat /\ shutdown \in BOOLEAN
      /\ controller \in [Controllers -> Control]
      /\ \A d \in Controllers : d = c
  BY JobQueueAssumption DEF OneCaller, IInv, TypeOK, Control
<1>1. /\ controller[c].pc = "start" /\ current < MaxStarts
      /\ UNCHANGED <<chan, worker>>
  BY DEF Start, IInv, Locked
<1>2. Live' = Live
  BY <1>1 DEF Live
<1>3. CASE shutdown
  <2>1. /\ shutdown' = FALSE /\ current' = current + 1
        /\ controller'[c] = [pc |-> "spawn", start |-> current + 1, next |-> 1]
    BY <1>0, <1>3 DEF Start
  <2>2. chan[current].buf = << >> /\ Live = {}
    BY <1>0, <1>1, <1>3 DEF Drained, Emptied
  <2>3. \A w \in Workers : w[1] \in Nat /\ w[2] \in Nat /\ w[2] >= 1
    BY WorkersFinite, JobQueueAssumption
  <2>4. \A w \in Workers : w[1] = current + 1 => worker[w].pc = "none"
    BY <1>0, <2>3 DEF IInv, Spawning
  <2>5. Serving'
    <3>1. \A w \in Workers : worker[w].pc \notin Alive
      BY <2>2 DEF Live
    <3> QED
      BY <1>1, <3>1 DEF Drained, Serving, Alive
  <2>6. Emptied'
    <3>1. \A g \in 0..MaxStarts : g # current' => chan'[g].buf = << >>
      BY <1>0, <1>1, <2>2 DEF Drained, Emptied
    <3>2. \A w \in Workers : w[1] = current' => worker'[w].pc # "stopped"
      BY <1>1, <2>1, <2>4
    <3> QED
      BY <2>1, <3>1, <3>2 DEF Emptied
  <2>7. Manned'
    <3>1. current' > 0
      BY <1>0, <2>1
    <3>2. \A w \in Workers : ~(w[2] < 1)
      BY <2>3
    <3>3. /\ \A d \in Controllers : controller'[d].pc = "spawn"
          /\ \A d \in Controllers : controller'[d].start = current'
          /\ \A d \in Controllers : controller'[d].next = 1
      BY <1>0, <2>1
    <3> QED
      BY <1>0, <2>1, <3>1, <3>2, <3>3 DEF Manned
  <2> QED
    BY <2>5, <2>6, <2>7 DEF Drained
<1>4. CASE ~shutdown
  <2>1. /\ controller'[c] = IdleController
        /\ UNCHANGED <<shutdown, current>>
    BY <1>0, <1>4 DEF Start
  <2>2. Serving' /\ Emptied'
    BY <1>1, <1>2, <1>4, <2>1 DEF Drained, Serving, Emptied
  <2>3. Manned'
    BY <1>0, <1>1, <2>1 DEF Drained, Manned, IdleController
  <2> QED
    BY <2>2, <2>3 DEF Drained
<1> QED
  BY <1>0, <1>3, <1>4

\* A new worker belongs to the current Start.
LEMMA StartWorkerDrained ==
    ASSUME OneCaller, IInv, Drained, NEW c \in Controllers, StartWorker(c)
    PROVE  Drained'
<1> DEFINE s == controller[c]
<1>0. /\ controller \in [Controllers -> Control]
      /\ \A d \in Controllers : d = c
  BY DEF OneCaller, IInv, TypeOK, Control
<1>1. /\ s.pc = "spawn" /\ ~shutdown /\ s.start = current
      /\ s.start \in 1..current /\ s.next \in 1..(WorkerCount + 1)
      /\ current \in 0..MaxStarts /\ MaxStarts \in Nat /\ WorkerCount \in Nat
      /\ UNCHANGED <<shutdown, current, chan>>
  BY JobQueueAssumption DEF StartWorker, IInv, TypeOK, Spawning, Drained, Manned
<1>2. CASE s.next <= WorkerCount
  <2> DEFINE w == <<s.start, s.next>>
  <2>1. /\ worker' = [worker EXCEPT ![w].pc = "born"]
        /\ controller' = [controller EXCEPT ![c].next = s.next + 1]
    BY <1>2 DEF StartWorker
  <2>2. w \in Workers /\ w[1] = current /\ w[2] = s.next
    BY <1>1, <1>2 DEF Workers
  <2> HIDE DEF w
  <2>3. worker[w].pc = "none"
    BY <1>1, <2>2 DEF IInv, Spawning
  <2>4. \A v \in Workers : /\ worker'[v].pc = IF v = w THEN "born" ELSE worker[v].pc
                           /\ worker'[v].chan = worker[v].chan
                           /\ worker'[v].job = worker[v].job
    BY <2>1, <2>2 DEF IInv, TypeOK
  <2>5. Serving'
    BY <1>1, <2>2, <2>3, <2>4 DEF Drained, Serving, Alive
  <2>6. Emptied'
    BY <1>1, <2>2, <2>4 DEF Drained, Emptied
  <2>7. /\ controller'[c].pc = "spawn" /\ controller'[c].start = current
        /\ controller'[c].next = s.next + 1
    BY <1>0, <1>1, <2>1 DEF Control
  <2>8. ASSUME NEW v \in Workers, v[1] = current, v[2] < s.next + 1
        PROVE  worker'[v].pc # "none"
    <3>1. v[2] < s.next \/ v[2] = s.next
      BY <1>1, <2>8, WorkersFinite
    <3>2. v[2] = s.next => v = w
      BY <2>2, <2>8, WorkersFinite
    <3> QED
      BY <1>1, <2>4, <2>8, <3>1, <3>2 DEF Drained, Manned
  <2>9. Manned'
    BY <1>0, <1>1, <2>7, <2>8 DEF Drained, Manned
  <2> QED
    BY <2>5, <2>6, <2>9 DEF Drained
<1>3. CASE ~(s.next <= WorkerCount)
  <2>1. controller'[c] = IdleController /\ worker' = worker
    BY <1>0, <1>3 DEF StartWorker
  <2>2. Live' = Live
    BY <2>1 DEF Live
  <2>3. Serving' /\ Emptied'
    BY <1>1, <2>1, <2>2 DEF Drained, Serving, Emptied
  <2>4. \A w \in Workers : w[2] < s.next
    BY <1>1, <1>3, WorkersFinite
  <2>5. Manned'
    BY <1>0, <1>1, <2>1, <2>4 DEF Drained, Manned, IdleController
  <2> QED
    BY <2>3, <2>5 DEF Drained
<1> QED
  BY <1>2, <1>3

\* Shutdown closes the channel; what is left in it is still with the workers.
LEMMA ShutdownDrained ==
    ASSUME OneCaller, IInv, Drained, NEW c \in Controllers, Shutdown(c)
    PROVE  Drained'
<1>0. /\ controller \in [Controllers -> Control] /\ shutdown \in BOOLEAN
      /\ current \in 0..MaxStarts
      /\ \A d \in Controllers : d = c
  BY DEF OneCaller, IInv, TypeOK, Control
<1>1. controller[c].pc = "shutdown" /\ UNCHANGED <<current, worker>>
  BY DEF Shutdown
<1>2. Live' = Live
  BY <1>1 DEF Live
<1>3. CASE shutdown
  <2>1. controller'[c] = IdleController /\ UNCHANGED <<shutdown, chan>>
    BY <1>0, <1>3 DEF Shutdown
  <2>2. chan[current].buf = << >> /\ Live = {}
    BY <1>0, <1>1, <1>3 DEF Drained, Emptied
  <2>3. Serving' /\ Emptied'
    BY <1>1, <1>2, <2>1, <2>2 DEF Drained, Serving, Emptied
  <2>4. Manned'
    BY <1>0, <1>1, <1>3, <2>1 DEF Drained, Manned, IdleController
  <2> QED
    BY <2>3, <2>4 DEF Drained
<1>4. CASE ~shutdown
  <2>1. /\ shutdown' = TRUE
        /\ chan' = [chan EXCEPT ![current].closed = TRUE]
        /\ controller'[c].pc = "wait"
    BY <1>0, <1>4 DEF Shutdown, Control
  <2>2. \A g \in 0..MaxStarts : chan'[g].buf = chan[g].buf
    BY <1>0, <2>1 DEF IInv, TypeOK
  <2>3. Serving'
    BY <1>1 DEF Drained, Serving
  <2>4. Emptied'
    BY <1>0, <1>1, <1>4, <2>1, <2>2 DEF Drained, Emptied
  <2>5. Manned'
    BY <1>0, <1>1, <1>4, <2>1 DEF Drained, Manned
  <2> QED
    BY <2>3, <2>4, <2>5 DEF Drained
<1> QED
  BY <1>0, <1>3, <1>4

\* When q.wg.Wait() returns every worker of the current Start has stopped, and there
\* is one; it left an empty channel.
LEMMA ShutdownReturnDrained ==
    ASSUME OneCaller, IInv, Drained, NEW c \in Controllers, ShutdownReturn(c)
    PROVE  Drained'
<1>0. /\ controller \in [Controllers -> Control]
      /\ \A d \in Controllers : d = c
      /\ current \in 0..MaxStarts /\ MaxStarts \in Nat /\ WorkerCount \in Nat
  BY JobQueueAssumption DEF OneCaller, IInv, TypeOK, Control
<1>1. /\ controller[c].pc = "wait" /\ wg = 0
      /\ controller'[c] = IdleController
      /\ UNCHANGED <<shutdown, current, chan, worker>>
  BY <1>0 DEF ShutdownReturn
<1>2. Live = {} /\ Live' = Live
  <2>1. Cardinality(Live) = 0
    BY <1>1 DEF IInv, Counted
  <2> QED
    BY <1>1, <2>1, LiveFinite, FS_EmptySet DEF Live
<1>3. current > 0 /\ shutdown
  BY <1>1 DEF Drained, Manned
<1>4. chan[current].buf = << >>
  <2> DEFINE w == <<current, 1>>
  <2>1. w \in Workers /\ w[1] = current
    BY <1>0, <1>3 DEF Workers, OneCaller
  <2> HIDE DEF w
  <2>2. worker[w].pc # "none"
    BY <1>0, <1>1, <2>1 DEF Drained, Manned
  <2>3. worker[w].pc \notin Alive
    BY <1>2, <2>1 DEF Live
  <2>4. worker[w].pc \in {"none", "born", "range", "retry", "stopped"}
    BY <2>1 DEF IInv, TypeOK
  <2>5. worker[w].pc = "stopped"
    BY <2>2, <2>3, <2>4 DEF Alive
  <2> QED
    BY <2>1, <2>5 DEF Drained, Emptied
<1>5. Serving' /\ Emptied'
  BY <1>1, <1>2, <1>4 DEF Drained, Serving, Emptied
<1>6. Manned'
  BY <1>0, <1>1, <1>3 DEF Drained, Manned, IdleController
<1> QED
  BY <1>5, <1>6 DEF Drained

\* A step of one live worker.
LEMMA WorkerDrained ==
    ASSUME Drained, NEW w \in Workers, worker[w].pc \in Alive,
           UNCHANGED <<shutdown, current, controller>>,
           \A v \in Workers : v # w => worker'[v] = worker[v],
           \A g \in 0..MaxStarts : chan[g].buf = << >> => chan'[g].buf = << >>,
           current \in 0..MaxStarts, worker'[w].pc # "none",
           worker'[w].pc \in {"range", "retry"} => worker'[w].chan = current,
           worker'[w].job # NoJob => worker'[w].pc = "retry",
           worker'[w].pc = "stopped" => shutdown /\ chan[current].buf = << >>
    PROVE  Drained'
<1>1. w[1] = current /\ w \in Live
  BY DEF Drained, Serving, Live
<1>2. Serving'
  <2>1. ASSUME NEW v \in Workers
        PROVE  /\ worker'[v].pc \in Alive => v[1] = current'
               /\ worker'[v].pc \in {"range", "retry"} => worker'[v].chan = current'
               /\ worker'[v].job # NoJob => worker'[v].pc = "retry"
    <3>1. CASE v = w
      BY <1>1, <3>1
    <3>2. CASE v # w
      BY <3>2 DEF Drained, Serving
    <3> QED
      BY <3>1, <3>2
  <2> QED
    BY <2>1 DEF Serving
<1>3. Emptied'
  <2>1. \A g \in 0..MaxStarts : g # current' => chan'[g].buf = << >>
    BY DEF Drained, Emptied
  <2>2. \A v \in Workers : worker'[v].pc = "stopped" /\ v[1] = current' =>
            shutdown' /\ chan'[current'].buf = << >>
    BY DEF Drained, Emptied
  <2>3. ~(shutdown /\ \A c \in Controllers : controller[c].pc # "wait")
    BY <1>1 DEF Drained, Emptied
  <2> QED
    BY <2>1, <2>2, <2>3 DEF Emptied
<1>4. Manned'
  <2>1. \A v \in Workers : worker[v].pc # "none" => worker'[v].pc # "none"
    OBVIOUS
  <2> QED
    BY <2>1 DEF Drained, Manned
<1> QED
  BY <1>2, <1>3, <1>4 DEF Drained

\* A worker that takes a job leaves an empty channel empty, and one that stops has
\* found the channel of a shut-down queue empty.
LEMMA WorkerStepDrained ==
    ASSUME IInv, Drained, NEW w \in Workers, WorkerStep(w)
    PROVE  Drained'
<1>0. /\ worker \in [Workers -> Worker] /\ current \in 0..MaxStarts
      /\ shutdown \in BOOLEAN
      /\ worker[w].pc \in {"range", "retry"} => worker[w].chan = current
      /\ worker[w].job # NoJob => worker[w].pc = "retry"
  BY DEF IInv, TypeOK, Worker, Drained, Serving
<1>1. UNCHANGED <<shutdown, current, controller>>
  BY DEF WorkerStep, WorkerBegin, WorkerTake, WorkerSucceed, WorkerFail, WorkerGiveUp,
         WorkerStop
<1>2. ASSUME WorkerBegin(w) PROVE Drained'
  <2>1. /\ worker[w].pc = "born" /\ chan' = chan
        /\ worker' = [worker EXCEPT ![w].pc = "range", ![w].chan = current]
    BY <1>2 DEF WorkerBegin
  <2>2. /\ worker'[w].pc = "range" /\ worker'[w].chan = current
        /\ worker'[w].job = worker[w].job
        /\ \A v \in Workers : v # w => worker'[v] = worker[v]
    BY <1>0, <2>1 DEF Worker
  <2> QED
    BY <1>0, <1>1, <2>1, <2>2, WorkerDrained DEF Alive
<1>3. ASSUME WorkerTake(w) PROVE Drained'
  <2>1. /\ worker[w].pc = "range" /\ chan[current].buf # << >>
        /\ chan' = [chan EXCEPT ![current].buf = Tail(chan[current].buf)]
        /\ worker' = [worker EXCEPT ![w].pc = "retry", ![w].tries = 0,
                                    ![w].job = Head(chan[current].buf)]
    BY <1>0, <1>3 DEF WorkerTake
  <2>2. /\ worker'[w].pc = "retry" /\ worker'[w].chan = current
        /\ \A v \in Workers : v # w => worker'[v] = worker[v]
    BY <1>0, <2>1 DEF Worker
  <2>3. \A g \in 0..MaxStarts : chan[g].buf = << >> => chan'[g].buf = << >>
    BY <1>0, <2>1 DEF IInv, TypeOK
  <2> QED
    BY <1>0, <1>1, <2>1, <2>2, <2>3, WorkerDrained DEF Alive
<1>4. ASSUME WorkerSucceed(w) \/ WorkerGiveUp(w) PROVE Drained'
  <2>1. /\ worker[w].pc = "retry" /\ chan' = chan
        /\ worker' = [worker EXCEPT ![w].pc = "range", ![w].job = NoJob,
                                    ![w].tries = 0]
    BY <1>4 DEF WorkerSucceed, WorkerGiveUp
  <2>2. /\ worker'[w].pc = "range" /\ worker'[w].chan = current
        /\ worker'[w].job = NoJob
        /\ \A v \in Workers : v # w => worker'[v] = worker[v]
    BY <1>0, <2>1 DEF Worker
  <2> QED
    BY <1>0, <1>1, <2>1, <2>2, WorkerDrained DEF Alive
<1>5. ASSUME WorkerFail(w) PROVE Drained'
  <2>1. /\ worker[w].pc = "retry" /\ chan' = chan
        /\ worker' = [worker EXCEPT ![w].tries = worker[w].tries + 1]
    BY <1>5 DEF WorkerFail
  <2>2. /\ worker'[w].pc = "retry" /\ worker'[w].chan = current
        /\ \A v \in Workers : v # w => worker'[v] = worker[v]
    BY <1>0, <2>1 DEF Worker
  <2> QED
    BY <1>0, <1>1, <2>1, <2>2, WorkerDrained DEF Alive
<1>6. ASSUME WorkerStop(w) PROVE Drained'
  <2>1. /\ worker[w].pc = "range" /\ chan' = chan
        /\ chan[current].closed /\ chan[current].buf = << >>
        /\ worker' = [worker EXCEPT ![w].pc = "stopped"]
    BY <1>0, <1>6 DEF WorkerStop
  <2>2. shutdown
    BY <1>0, <2>1 DEF IInv, Open
  <2>3. /\ worker'[w].pc = "stopped" /\ worker'[w].job = worker[w].job
        /\ worker[w].job = NoJob
        /\ \A v \in Workers : v # w => worker'[v] = worker[v]
    BY <1>0, <2>1 DEF Worker
  <2> QED
    BY <1>0, <1>1, <2>1, <2>2, <2>3, WorkerDrained DEF Alive
<1> QED
  BY <1>2, <1>3, <1>4, <1>5, <1>6 DEF WorkerStep

\* The steps together.
LEMMA NextDrained == OneCaller /\ IInv /\ Drained /\ [Next]_vars => Drained'
<1> SUFFICES ASSUME OneCaller, IInv, Drained, [Next]_vars PROVE Drained'
  OBVIOUS
<1>1. CASE \E c \in Callers : SubmitSend(c)
  BY <1>1, SendDrained
<1>2. CASE \E c \in Controllers : ControlCall(c, "start") \/ ControlCall(c, "shutdown")
  BY <1>2, ControlCallDrained
<1>3. CASE \E c \in Controllers : ControllerStep(c)
  BY <1>3, StartDrained, StartWorkerDrained, ShutdownDrained, ShutdownReturnDrained
     DEF ControllerStep
<1>4. CASE \E w \in Workers : WorkerStep(w)
  BY <1>4, WorkerStepDrained
<1>5. CASE UNCHANGED <<shutdown, current, chan, controller, worker>>
  BY <1>5, SameDrained
<1>6. \/ \E p \in Producers, j \in Jobs : SubmitCall(p, j)
      \/ \E c \in Callers : SubmitEnter(c)
      \/ \E r \in Redrivers : RedriveCheck(r) \/ RedriverStep(r)
      \/ UNCHANGED vars
      => UNCHANGED <<shutdown, current, chan, controller, worker>>
  BY DEF SubmitCall, SubmitEnter, RedriveCheck, RedriverStep, RedriveTake,
         RedriveStore, vars
<1> QED
  BY <1>1, <1>2, <1>3, <1>4, <1>5, <1>6 DEF Next, CallerStep

\* Where one goroutine calls Start and Shutdown, a Shutdown that has returned leaves
\* no job in a channel or with a worker, however often the queue was started and
\* whatever Submit and RedriveDLQ do at the same time.
THEOREM OneCallerDrains ==
    ASSUME OneCaller
    PROVE  Spec => []ShutdownDrains
<1>1. Init => IInv /\ Drained
  BY InitIInv, InitDrained
<1>2. (IInv /\ Drained) /\ [Next]_vars => (IInv /\ Drained)'
  BY OneCaller, NextIInv, NextDrained
<1>3. IInv /\ Drained => ShutdownDrains
  <2> SUFFICES ASSUME IInv, Drained, shutdown,
                      \A c \in Controllers : controller[c].pc = "idle"
               PROVE  /\ \A g \in 0..MaxStarts : chan[g].buf = << >>
                      /\ Held = {} /\ wg = 0
    BY DEF ShutdownDrains
  <2>1. /\ \A g \in 0..MaxStarts : chan[g].buf = << >>
        /\ Live = {}
    BY DEF Drained, Emptied
  <2>2. Held = {}
    BY <2>1 DEF Held, Live, Alive, Drained, Serving
  <2>3. wg = 0
    BY <2>1, FS_EmptySet DEF IInv, Counted
  <2> QED
    BY <2>1, <2>2, <2>3
<1> QED
  BY <1>1, <1>2, <1>3, PTL DEF Spec

-----------------------------------------------------------------------------
(***************************************************************************)
(* An accepted job is in exactly one place, on every path between the      *)
(* channels, the workers, the dead letter queue and the redriving          *)
(* goroutines.  ExactlyOnce counts positions; here the same is said        *)
(* without counting: no sequence has a job twice, no two sequences have    *)
(* one job, and a job is in one kind of place at most.                     *)
(***************************************************************************)

(* The inductive invariant *)

\* A sequence without repetitions.
Distinct(s) == \A i, k \in DOMAIN s : s[i] = s[k] => i = k

\* Where job j is.
InChannel(j) == \E g \in 0..MaxStarts : j \in ToSet(chan[g].buf)
InWorker(j) == \E w \in Workers : worker[w].job = j
InDLQ(j) == j \in ToSet(dlq)
InBatch(j) == \E r \in Redrivers : j \in ToSet(caller[r].batch)

\* No channel has a job twice, and no two have the same job.
ChannelsSpread ==
    /\ \A g \in 0..MaxStarts : Distinct(chan[g].buf) /\ Len(chan[g].buf) <= BufferSize
    /\ \A g, h \in 0..MaxStarts : \A j \in Jobs :
          j \in ToSet(chan[g].buf) /\ j \in ToSet(chan[h].buf) => g = h

\* No two workers have the same job, and one that does not try has none.
WorkersSpread ==
    /\ \A v, w \in Workers : worker[v].job # NoJob /\ worker[v].job = worker[w].job => v = w
    /\ \A w \in Workers : worker[w].pc # "retry" => worker[w].job = NoJob

\* No slice has a job twice, and no two callers have the same job.
BatchesSpread ==
    /\ \A c \in Callers : Distinct(caller[c].batch)
    /\ \A c, d \in Callers : \A j \in Jobs :
          j \in ToSet(caller[c].batch) /\ j \in ToSet(caller[d].batch) => c = d

Spread == ChannelsSpread /\ WorkersSpread /\ BatchesSpread /\ Distinct(dlq)

\* A job is in one kind of place at most, and in one exactly when it was accepted.
OnePlace(j) ==
    /\ InChannel(j) => ~(InWorker(j) \/ InDLQ(j) \/ InBatch(j) \/ j \in done \/ j \in dropped)
    /\ InWorker(j) => ~(InDLQ(j) \/ InBatch(j) \/ j \in done \/ j \in dropped)
    /\ InDLQ(j) => ~(InBatch(j) \/ j \in done \/ j \in dropped)
    /\ InBatch(j) => ~(j \in done \/ j \in dropped)
    /\ ~(j \in done /\ j \in dropped)
    /\ j \in accepted <=> \/ InChannel(j) \/ InWorker(j) \/ InDLQ(j) \/ InBatch(j)
                          \/ j \in done \/ j \in dropped

\* A producer submits one job, which is not accepted yet; who is not in Submit
\* has none.
Submitting ==
    /\ \A p \in Producers : \A j \in Jobs : j \in ToSet(caller[p].batch) => j \notin accepted
    /\ \A p \in Producers : caller[p].batch # << >> => Tail(caller[p].batch) = << >>
    /\ \A c \in Callers : caller[c].pc \in {"idle", "take"} => caller[c].batch = << >>

Placed == Spread /\ (\A j \in Jobs : OnePlace(j)) /\ Submitting

-----------------------------------------------------------------------------
(* Lemmas about sequences of jobs *)

\* Nothing is in the empty sequence.
LEMMA EmptyHolds == ToSet(<< >>) = {} /\ Distinct(<< >>) /\ Len(<< >>) = 0
  BY DEF ToSet, Distinct

\* What a sequence holds after an append.
LEMMA AppendHolds ==
    ASSUME NEW s \in Seq(Jobs), NEW x \in Jobs
    PROVE  /\ ToSet(Append(s, x)) = ToSet(s) \cup {x}
           /\ Distinct(s) /\ x \notin ToSet(s) => Distinct(Append(s, x))
           /\ Len(Append(s, x)) = Len(s) + 1
<1> DEFINE t == Append(s, x)
<1>1. /\ Len(s) \in Nat /\ DOMAIN s = 1..Len(s) /\ DOMAIN t = 1..(Len(s) + 1)
      /\ \A i \in DOMAIN s : t[i] = s[i]
      /\ t[Len(s) + 1] = x
      /\ Len(t) = Len(s) + 1
  BY AppendProperties, LenProperties
<1> HIDE DEF t
<1>2. \A i \in DOMAIN t : i \in DOMAIN s \/ i = Len(s) + 1
  BY <1>1
<1>3. DOMAIN s \subseteq DOMAIN t /\ Len(s) + 1 \in DOMAIN t
  BY <1>1
<1>4. ToSet(t) = ToSet(s) \cup {x}
  <2>1. ASSUME NEW j PROVE j \in ToSet(t) <=> j \in ToSet(s) \cup {x}
    BY <1>1, <1>2, <1>3 DEF ToSet
  <2> QED
    BY <2>1
<1>5. ASSUME Distinct(s), x \notin ToSet(s) PROVE Distinct(t)
  <2>1. \A i \in DOMAIN s : s[i] # x
    BY <1>5 DEF ToSet
  <2> QED
    BY <1>1, <1>2, <1>5, <2>1 DEF Distinct
<1> QED
  BY <1>1, <1>4, <1>5 DEF t

\* The first element of a sequence without repetitions is not in the rest.
LEMMA TailHolds ==
    ASSUME NEW s \in Seq(Jobs), s # << >>
    PROVE  /\ ToSet(s) = {Head(s)} \cup ToSet(Tail(s))
           /\ Distinct(s) => Head(s) \notin ToSet(Tail(s)) /\ Distinct(Tail(s))
           /\ Len(Tail(s)) <= Len(s)
<1> DEFINE t == Tail(s)
<1>1. /\ Len(s) \in Nat \ {0} /\ DOMAIN s = 1..Len(s) /\ DOMAIN t = 1..(Len(s) - 1)
      /\ \A i \in DOMAIN t : t[i] = s[i + 1]
      /\ Len(t) = Len(s) - 1
  BY HeadTailProperties, LenProperties, EmptySeq
<1>2. Head(s) = s[1]
  OBVIOUS
<1> HIDE DEF t
<1>3. /\ 1 \in DOMAIN s
      /\ \A i \in DOMAIN t : i + 1 \in DOMAIN s /\ i + 1 # 1
      /\ \A i \in DOMAIN s : i = 1 \/ (i - 1 \in DOMAIN t /\ (i - 1) + 1 = i)
  BY <1>1
<1>4. ToSet(s) = {Head(s)} \cup ToSet(t)
  <2>1. ASSUME NEW j PROVE j \in ToSet(s) <=> j \in {Head(s)} \cup ToSet(t)
    <3>1. ASSUME j \in ToSet(s) PROVE j \in {Head(s)} \cup ToSet(t)
      <4>1. PICK i \in DOMAIN s : s[i] = j
        BY <3>1 DEF ToSet
      <4>2. i = 1 \/ (t[i - 1] = j /\ i - 1 \in DOMAIN t)
        BY <1>1, <1>3, <4>1
      <4> QED
        BY <1>2, <4>1, <4>2 DEF ToSet
    <3>2. ASSUME j \in {Head(s)} \cup ToSet(t) PROVE j \in ToSet(s)
      BY <1>1, <1>2, <1>3, <3>2 DEF ToSet
    <3> QED
      BY <3>1, <3>2
  <2> QED
    BY <2>1
<1>5. ASSUME Distinct(s) PROVE Head(s) \notin ToSet(t) /\ Distinct(t)
  <2>1. Head(s) \notin ToSet(t)
    BY <1>1, <1>2, <1>3, <1>5 DEF ToSet, Distinct
  <2>2. ASSUME NEW i \in DOMAIN t, NEW k \in DOMAIN t, t[i] = t[k] PROVE i = k
    <3>1. s[i + 1] = s[k + 1] /\ i + 1 \in DOMAIN s /\ k + 1 \in DOMAIN s
      BY <1>1, <1>3, <2>2
    <3>2. i + 1 = k + 1
      BY <1>5, <3>1 DEF Distinct
    <3> QED
      BY <1>1, <3>2
  <2> QED
    BY <2>1, <2>2 DEF Distinct
<1> QED
  BY <1>1, <1>4, <1>5 DEF t

\* A sequence of jobs without repetitions is no longer than there are jobs.
LEMMA DistinctIsShort ==
    ASSUME NEW s \in Seq(Jobs), Distinct(s)
    PROVE  Len(s) <= Cardinality(Jobs)
<1>1. Len(s) \in Nat /\ DOMAIN s = 1..Len(s) /\ s \in [1..Len(s) -> Jobs]
  BY LenProperties
<1>2. IsFiniteSet(1..Len(s)) /\ Cardinality(1..Len(s)) = Len(s)
  BY <1>1, FS_Interval
<1>3. IsFiniteSet(Jobs) /\ Cardinality(Jobs) \in Nat
  BY JobQueueAssumption, FS_CardinalityType
<1>4. ASSUME Cardinality(Jobs) < Len(s) PROVE FALSE
  <2>1. \E i, k \in 1..Len(s) : i # k /\ s[i] = s[k]
    BY <1>1, <1>2, <1>3, <1>4, FS_PigeonHole
  <2> QED
    BY <1>1, <2>1 DEF Distinct
<1> QED
  BY <1>1, <1>3, <1>4

-----------------------------------------------------------------------------
(* One place is one copy *)

\* How many there are when there is one at most.
LEMMA AtMostOne ==
    ASSUME NEW S, \A x, y \in S : x = y
    PROVE  Cardinality(S) = IF \E x : x \in S THEN 1 ELSE 0
<1>1. CASE S = {}
  BY <1>1, FS_EmptySet
<1>2. CASE S # {}
  <2>1. PICK x \in S : TRUE
    BY <1>2
  <2>2. S = {x}
    BY <2>1
  <2> QED
    BY <2>1, <2>2, FS_Singleton
<1> QED
  BY <1>1, <1>2

\* A job that is in one place has one copy.
LEMMA PlacedIsOnce == TypeOK /\ Placed => ExactlyOnce
<1> SUFFICES ASSUME TypeOK, Placed, NEW j \in Jobs
             PROVE  Copies(j) = IF j \in accepted THEN 1 ELSE 0
  BY DEF ExactlyOnce
<1> DEFINE C == {x \in (0..MaxStarts) \X (1..BufferSize) : x[2] \in At(chan[x[1]].buf, j)}
           W == {w \in Workers : worker[w].job = j}
           D == At(dlq, j)
           B == {x \in Redrivers \X (1..Cardinality(Jobs)) :
                    x[2] \in At(caller[x[1]].batch, j)}
           F == {s \in {done, dropped} : j \in s}
<1>0. /\ \A g \in 0..MaxStarts : chan[g].buf \in Seq(Jobs)
      /\ \A c \in Callers : caller[c].batch \in Seq(Jobs)
      /\ dlq \in Seq(Jobs) /\ j # NoJob
      /\ \A r \in Redrivers : r \in Callers
  BY BufferTypes, JobQueueAssumption DEF TypeOK, Callers
<1>1. /\ \A x, y \in C : x = y
      /\ (\E x : x \in C) <=> InChannel(j)
  <2>1. ASSUME NEW x \in C, NEW y \in C PROVE x = y
    <3>1. x[1] = y[1]
      BY DEF Placed, Spread, ChannelsSpread, At, ToSet
    <3>2. x[2] = y[2]
      BY <3>1 DEF Placed, Spread, ChannelsSpread, At, Distinct
    <3> QED
      BY <3>1, <3>2
  <2>2. ASSUME NEW x \in C PROVE InChannel(j)
    BY DEF InChannel, At, ToSet
  <2>3. ASSUME InChannel(j) PROVE \E x : x \in C
    <3>1. PICK g \in 0..MaxStarts : j \in ToSet(chan[g].buf)
      BY <2>3 DEF InChannel
    <3>2. PICK i \in DOMAIN chan[g].buf : chan[g].buf[i] = j
      BY <3>1 DEF ToSet
    <3>3. i \in 1..BufferSize
      <4>1. /\ DOMAIN chan[g].buf = 1..Len(chan[g].buf) /\ Len(chan[g].buf) \in Nat
            /\ Len(chan[g].buf) <= BufferSize /\ BufferSize \in Nat
        BY <1>0, LenProperties, JobQueueAssumption
             DEF Placed, Spread, ChannelsSpread
      <4> QED
        BY <3>2, <4>1
    <3>4. <<g, i>> \in C
      BY <3>2, <3>3 DEF At
    <3> QED
      BY <3>4
  <2> QED
    BY <2>1, <2>2, <2>3
<1>2. /\ \A x, y \in W : x = y
      /\ (\E x : x \in W) <=> InWorker(j)
  BY <1>0 DEF Placed, Spread, WorkersSpread, InWorker
<1>3. /\ \A x, y \in D : x = y
      /\ (\E x : x \in D) <=> InDLQ(j)
  BY DEF Placed, Spread, InDLQ, At, ToSet, Distinct
<1>4. /\ \A x, y \in B : x = y
      /\ (\E x : x \in B) <=> InBatch(j)
  <2>1. ASSUME NEW x \in B, NEW y \in B PROVE x = y
    <3>1. x[1] = y[1]
      <4>1. /\ x[1] \in Callers /\ j \in ToSet(caller[x[1]].batch)
            /\ y[1] \in Callers /\ j \in ToSet(caller[y[1]].batch)
        BY <1>0 DEF At, ToSet
      <4> QED
        BY <4>1 DEF Placed, Spread, BatchesSpread
    <3>2. x[2] = y[2]
      BY <1>0, <3>1 DEF Placed, Spread, BatchesSpread, At, Distinct
    <3> QED
      BY <3>1, <3>2
  <2>2. ASSUME NEW x \in B PROVE InBatch(j)
    BY DEF InBatch, At, ToSet
  <2>3. ASSUME InBatch(j) PROVE \E x : x \in B
    <3>1. PICK r \in Redrivers : j \in ToSet(caller[r].batch)
      BY <2>3 DEF InBatch
    <3>2. PICK i \in DOMAIN caller[r].batch : caller[r].batch[i] = j
      BY <3>1 DEF ToSet
    <3>3. i \in 1..Cardinality(Jobs)
      <4>1. /\ DOMAIN caller[r].batch = 1..Len(caller[r].batch)
            /\ Len(caller[r].batch) \in Nat
        BY <1>0, LenProperties
      <4>2. Len(caller[r].batch) <= Cardinality(Jobs) /\ Cardinality(Jobs) \in Nat
        BY <1>0, DistinctIsShort, FS_CardinalityType, JobQueueAssumption
           DEF Placed, Spread, BatchesSpread
      <4> QED
        BY <3>2, <4>1, <4>2
    <3>4. <<r, i>> \in B
      BY <3>2, <3>3 DEF At
    <3> QED
      BY <3>4
  <2> QED
    BY <2>1, <2>2, <2>3
<1>5. /\ \A x, y \in F : x = y
      /\ (\E x : x \in F) <=> j \in done \/ j \in dropped
  BY DEF Placed, OnePlace
<1>6. Copies(j) = Cardinality(C) + Cardinality(W) + Cardinality(D) + Cardinality(B)
                    + Cardinality(F)
  BY DEF Copies
<1> HIDE DEF C, W, D, B, F
<1>7. /\ Cardinality(C) = IF InChannel(j) THEN 1 ELSE 0
      /\ Cardinality(W) = IF InWorker(j) THEN 1 ELSE 0
      /\ Cardinality(D) = IF InDLQ(j) THEN 1 ELSE 0
      /\ Cardinality(B) = IF InBatch(j) THEN 1 ELSE 0
      /\ Cardinality(F) = IF j \in done \/ j \in dropped THEN 1 ELSE 0
  BY <1>1, <1>2, <1>3, <1>4, <1>5, AtMostOne
<1>8. OnePlace(j)
  BY DEF Placed
<1> QED
  BY <1>6, <1>7, <1>8 DEF OnePlace

-----------------------------------------------------------------------------
(* What a step does to one kind of place *)

\* The channels keep their jobs.
LEMMA SameChannels ==
    ASSUME ChannelsSpread, \A g \in 0..MaxStarts : chan'[g].buf = chan[g].buf
    PROVE  ChannelsSpread' /\ \A j \in Jobs : InChannel(j)' <=> InChannel(j)
  BY DEF ChannelsSpread, InChannel

\* The workers keep their jobs.
LEMMA SameWorkers ==
    ASSUME WorkersSpread,
           \A w \in Workers : /\ worker'[w].job = worker[w].job
                              /\ worker'[w].pc # "retry" => worker[w].pc # "retry"
    PROVE  WorkersSpread' /\ \A j \in Jobs : InWorker(j)' <=> InWorker(j)
  BY DEF WorkersSpread, InWorker

\* The callers keep their jobs.
LEMMA SameBatches ==
    ASSUME BatchesSpread, \A c \in Callers : caller'[c].batch = caller[c].batch
    PROVE  BatchesSpread' /\ \A j \in Jobs : InBatch(j)' <=> InBatch(j)
  BY DEF BatchesSpread, InBatch, Callers

\* A job is sent to a channel.
LEMMA ChannelGains ==
    ASSUME TypeOK, ChannelsSpread, NEW g \in 0..MaxStarts, NEW x \in Jobs,
           ~InChannel(x), Len(chan[g].buf) < BufferSize,
           chan'[g].buf = Append(chan[g].buf, x),
           \A h \in 0..MaxStarts : h # g => chan'[h].buf = chan[h].buf
    PROVE  /\ ChannelsSpread'
           /\ \A j \in Jobs : InChannel(j)' <=> InChannel(j) \/ j = x
<1>1. chan[g].buf \in Seq(Jobs)
  BY BufferTypes
<1>2. \A h \in 0..MaxStarts : x \notin ToSet(chan[h].buf)
  BY DEF InChannel
<1>3. /\ ToSet(chan'[g].buf) = ToSet(chan[g].buf) \cup {x}
      /\ Distinct(chan'[g].buf)
      /\ Len(chan'[g].buf) <= BufferSize
  <2>1. Len(chan[g].buf) \in Nat /\ BufferSize \in Nat
    BY <1>1, LenProperties, JobQueueAssumption
  <2> QED
    BY <1>1, <1>2, <2>1, AppendHolds DEF ChannelsSpread
<1>4. ChannelsSpread'
  BY <1>2, <1>3 DEF ChannelsSpread
<1>5. ASSUME NEW j \in Jobs PROVE InChannel(j)' <=> InChannel(j) \/ j = x
  BY <1>3 DEF InChannel
<1> QED
  BY <1>4, <1>5

\* The first job of a channel is received.
LEMMA ChannelLoses ==
    ASSUME TypeOK, ChannelsSpread, NEW g \in 0..MaxStarts, chan[g].buf # << >>,
           chan'[g].buf = Tail(chan[g].buf),
           \A h \in 0..MaxStarts : h # g => chan'[h].buf = chan[h].buf
    PROVE  /\ ChannelsSpread'
           /\ InChannel(Head(chan[g].buf))
           /\ \A j \in Jobs : InChannel(j)' <=> InChannel(j) /\ j # Head(chan[g].buf)
<1> DEFINE x == Head(chan[g].buf)
<1>1. chan[g].buf \in Seq(Jobs)
  BY BufferTypes
<1>2. /\ ToSet(chan[g].buf) = {x} \cup ToSet(chan'[g].buf)
      /\ x \notin ToSet(chan'[g].buf) /\ Distinct(chan'[g].buf)
      /\ Len(chan'[g].buf) <= BufferSize
      /\ x \in Jobs
  <2>1. Len(chan[g].buf) \in Nat /\ BufferSize \in Nat
    BY <1>1, LenProperties, JobQueueAssumption
  <2>2. Len(Tail(chan[g].buf)) \in Nat
    BY <1>1, FirstAndRest, LenProperties
  <2>3. Len(chan[g].buf) <= BufferSize /\ Distinct(chan[g].buf)
    BY DEF ChannelsSpread
  <2> QED
    BY <1>1, <2>1, <2>2, <2>3, TailHolds, FirstAndRest
<1> HIDE DEF x
<1>3. ChannelsSpread'
  BY <1>2 DEF ChannelsSpread
<1>4. ASSUME NEW j \in Jobs PROVE InChannel(j)' <=> InChannel(j) /\ j # x
  <2>1. \A h \in 0..MaxStarts : h # g => x \notin ToSet(chan[h].buf)
    BY <1>2 DEF ChannelsSpread
  <2> QED
    BY <1>2, <2>1 DEF InChannel
<1>5. InChannel(x)
  BY <1>2 DEF InChannel
<1> QED
  BY <1>3, <1>4, <1>5 DEF x

\* A job is stored in the dead letter queue.
LEMMA DLQGains ==
    ASSUME TypeOK, NEW x \in Jobs, Distinct(dlq), ~InDLQ(x), dlq' = Append(dlq, x)
    PROVE  /\ Distinct(dlq')
           /\ \A j \in Jobs : InDLQ(j)' <=> InDLQ(j) \/ j = x
<1>1. dlq \in Seq(Jobs)
  BY DEF TypeOK
<1> QED
  BY <1>1, AppendHolds DEF InDLQ

\* One worker gets a job that no worker had.
LEMMA WorkerGains ==
    ASSUME WorkersSpread, NEW w \in Workers, NEW x \in Jobs, ~InWorker(x),
           worker[w].job = NoJob, worker'[w].job = x, worker'[w].pc = "retry",
           \A v \in Workers : v # w => worker'[v] = worker[v]
    PROVE  /\ WorkersSpread'
           /\ \A j \in Jobs : InWorker(j)' <=> InWorker(j) \/ j = x
<1>1. NoJob \notin Jobs
  BY JobQueueAssumption
<1> QED
  BY <1>1 DEF WorkersSpread, InWorker

\* One worker is done with its job.
LEMMA WorkerLoses ==
    ASSUME WorkersSpread, NEW w \in Workers, worker[w].job # NoJob,
           worker'[w].job = NoJob,
           \A v \in Workers : v # w => worker'[v] = worker[v]
    PROVE  /\ WorkersSpread'
           /\ InWorker(worker[w].job)
           /\ \A j \in Jobs : InWorker(j)' <=> InWorker(j) /\ j # worker[w].job
<1>1. NoJob \notin Jobs
  BY JobQueueAssumption
<1> QED
  BY <1>1 DEF WorkersSpread, InWorker

\* One caller gets other jobs, which no other caller has.
LEMMA BatchMoves ==
    ASSUME BatchesSpread, NEW c \in Callers, Distinct(caller'[c].batch),
           \A d \in Callers : d # c => caller'[d] = caller[d],
           \A d \in Callers : \A j \in Jobs :
              d # c /\ j \in ToSet(caller'[c].batch) => j \notin ToSet(caller[d].batch)
    PROVE  /\ BatchesSpread'
           /\ c \in Redrivers => \A j \in Jobs : InBatch(j)' <=>
                 \/ j \in ToSet(caller'[c].batch)
                 \/ InBatch(j) /\ j \notin ToSet(caller[c].batch)
           /\ c \notin Redrivers => \A j \in Jobs : InBatch(j)' <=> InBatch(j)
<1>1. BatchesSpread'
  BY DEF BatchesSpread
<1>2. ASSUME c \in Redrivers, NEW j \in Jobs
      PROVE  InBatch(j)' <=> \/ j \in ToSet(caller'[c].batch)
                             \/ InBatch(j) /\ j \notin ToSet(caller[c].batch)
  BY <1>2 DEF BatchesSpread, InBatch, Callers
<1>3. ASSUME c \notin Redrivers, NEW j \in Jobs PROVE InBatch(j)' <=> InBatch(j)
  BY <1>3 DEF InBatch, Callers
<1> QED
  BY <1>1, <1>2, <1>3

-----------------------------------------------------------------------------
(* The steps *)

\* Nothing is anywhere at the start.
LEMMA InitPlaced == Init => Placed
<1> SUFFICES ASSUME Init PROVE Placed
  OBVIOUS
<1>1. /\ \A g \in 0..MaxStarts : chan[g].buf = << >>
      /\ dlq = << >> /\ accepted = {} /\ done = {} /\ dropped = {}
      /\ \A c \in Callers : caller[c] = IdleCaller
      /\ \A w \in Workers : worker[w].job = NoJob
  BY DEF Init, NoWorker
<1>2. \A c \in Callers : caller[c].batch = << >>
  BY <1>1 DEF IdleCaller
<1>3. BufferSize \in Nat /\ NoJob \notin Jobs
  BY JobQueueAssumption
<1>4. Spread
  BY <1>1, <1>2, <1>3, EmptyHolds
     DEF Spread, ChannelsSpread, WorkersSpread, BatchesSpread
<1>5. \A j \in Jobs : OnePlace(j)
  BY <1>1, <1>2, <1>3, EmptyHolds
     DEF OnePlace, InChannel, InWorker, InDLQ, InBatch, Callers
<1>6. Submitting
  BY <1>1, <1>2, EmptyHolds DEF Submitting, Callers
<1> QED
  BY <1>4, <1>5, <1>6 DEF Placed

\* A step that moves no job.
LEMMA NoJobMoves ==
    ASSUME Placed,
           \A g \in 0..MaxStarts : chan'[g].buf = chan[g].buf,
           \A w \in Workers : /\ worker'[w].job = worker[w].job
                              /\ worker'[w].pc # "retry" => worker[w].pc # "retry",
           \A c \in Callers : /\ caller'[c].batch = caller[c].batch
                              /\ caller'[c].pc \in {"idle", "take"}
                                   => caller'[c].batch = << >>,
           UNCHANGED <<dlq, accepted, done, dropped>>
    PROVE  Placed'
<1>0. ChannelsSpread /\ WorkersSpread /\ BatchesSpread
  BY DEF Placed, Spread
<1>1. /\ ChannelsSpread' /\ WorkersSpread' /\ BatchesSpread'
      /\ \A j \in Jobs : /\ InChannel(j)' <=> InChannel(j)
                         /\ InWorker(j)' <=> InWorker(j)
                         /\ InBatch(j)' <=> InBatch(j)
  BY <1>0, SameChannels, SameWorkers, SameBatches
<1>2. Spread' /\ \A j \in Jobs : InDLQ(j)' <=> InDLQ(j)
  BY <1>1 DEF Placed, Spread, InDLQ
<1>3. \A j \in Jobs : OnePlace(j)'
  BY <1>1, <1>2 DEF Placed, OnePlace
<1>4. Submitting'
  BY DEF Placed, Submitting, Callers
<1> QED
  BY <1>2, <1>3, <1>4 DEF Placed

\* A step of one caller that changes which jobs it has, a producer's, and moves
\* none of those that were accepted.
LEMMA ProducerMoves ==
    ASSUME Placed, NEW p \in Producers,
           \A d \in Callers : d # p => caller'[d] = caller[d],
           Distinct(caller'[p].batch),
           \A d \in Callers : \A j \in Jobs :
              d # p /\ j \in ToSet(caller'[p].batch) => j \notin ToSet(caller[d].batch),
           \A j \in Jobs : j \in ToSet(caller'[p].batch) => j \notin accepted,
           caller'[p].batch # << >> => Tail(caller'[p].batch) = << >>,
           caller'[p].pc \in {"idle", "take"} => caller'[p].batch = << >>,
           UNCHANGED <<chan, worker, dlq, accepted, done, dropped>>
    PROVE  Placed'
<1>0. /\ ChannelsSpread /\ WorkersSpread /\ BatchesSpread /\ Distinct(dlq)
      /\ p \in Callers /\ p \notin Redrivers /\ Submitting
      /\ \A j \in Jobs : OnePlace(j)
  BY JobQueueAssumption DEF Placed, Spread, Callers
<1>1. BatchesSpread' /\ \A j \in Jobs : InBatch(j)' <=> InBatch(j)
  BY <1>0, BatchMoves
<1>2. ChannelsSpread' /\ WorkersSpread' /\ Distinct(dlq')
  BY <1>0 DEF ChannelsSpread, WorkersSpread
<1>3. \A j \in Jobs : /\ InChannel(j)' <=> InChannel(j)
                      /\ InWorker(j)' <=> InWorker(j)
                      /\ InDLQ(j)' <=> InDLQ(j)
  BY DEF InChannel, InWorker, InDLQ
<1>4. \A j \in Jobs : OnePlace(j)'
  BY <1>0, <1>1, <1>3 DEF OnePlace
<1>5. Submitting'
  BY <1>0 DEF Submitting, Callers
<1> QED
  BY <1>1, <1>2, <1>4, <1>5 DEF Placed, Spread

\* A producer calls with a job that was not submitted yet.
LEMMA SubmitCallPlaced ==
    ASSUME IInv, Placed, NEW c \in Producers, NEW j \in Jobs, SubmitCall(c, j)
    PROVE  Placed'
<1>1. /\ TypeOK /\ c \in Callers
      /\ j \notin accepted
      /\ \A p \in Producers : j \notin ToSet(caller[p].batch)
      /\ caller' = [caller EXCEPT ![c] = [pc |-> "enter", batch |-> <<j>>]]
      /\ UNCHANGED <<chan, worker, dlq, accepted, done, dropped>>
  BY DEF SubmitCall, IInv, Callers
<1>2. /\ caller'[c] = [pc |-> "enter", batch |-> <<j>>]
      /\ \A d \in Callers : d # c => caller'[d] = caller[d]
  BY <1>1 DEF TypeOK
<1>3. Distinct(<<j>>) /\ ToSet(<<j>>) = {j} /\ <<j>> # << >> /\ Tail(<<j>>) = << >>
  BY DEF Distinct, ToSet
<1>4. \A r \in Redrivers : j \notin ToSet(caller[r].batch)
  BY <1>1 DEF Placed, OnePlace, InBatch
<1>5. \A d \in Callers : j \notin ToSet(caller[d].batch)
  BY <1>1, <1>4 DEF Callers
<1>6. caller'[c].batch = <<j>> /\ caller'[c].pc = "enter"
  BY <1>2
<1> QED
  BY <1>1, <1>2, <1>3, <1>5, <1>6, ProducerMoves

\* Submit goes on to send, or gives the job back to whom it has it from.
LEMMA SubmitEnterPlaced ==
    ASSUME IInv, Placed, NEW c \in Callers, SubmitEnter(c)
    PROVE  Placed'
<1>1. /\ TypeOK /\ caller[c].pc = "enter" /\ c \in Producers \cup Redrivers
      /\ UNCHANGED <<chan, worker, dlq, accepted, done, dropped>>
  BY DEF SubmitEnter, IInv, Callers
<1>2. CASE caller' = [caller EXCEPT ![c].pc = "send"]
  <2>1. /\ caller'[c].batch = caller[c].batch /\ caller'[c].pc = "send"
        /\ \A d \in Callers : d # c => caller'[d] = caller[d]
    BY <1>1, <1>2 DEF TypeOK
  <2> QED
    BY <1>1, <2>1, NoJobMoves DEF Placed, Submitting
<1>3. CASE caller' = [caller EXCEPT ![c].pc = "store"]
  <2>1. /\ caller'[c].batch = caller[c].batch /\ caller'[c].pc = "store"
        /\ \A d \in Callers : d # c => caller'[d] = caller[d]
    BY <1>1, <1>3 DEF TypeOK
  <2> QED
    BY <1>1, <2>1, NoJobMoves DEF Placed, Submitting
<1>4. CASE c \in Producers /\ caller' = [caller EXCEPT ![c] = IdleCaller]
  <2>1. /\ caller'[c] = IdleCaller
        /\ \A d \in Callers : d # c => caller'[d] = caller[d]
    BY <1>1, <1>4 DEF TypeOK
  <2>2. caller'[c].batch = << >>
    BY <2>1 DEF IdleCaller
  <2> QED
    BY <1>1, <1>4, <2>1, <2>2, EmptyHolds, ProducerMoves
<1> QED
  BY <1>2, <1>3, <1>4 DEF SubmitEnter

\* The send accepts a producer's job.
LEMMA ProducerSendPlaced ==
    ASSUME IInv, Placed, NEW c \in Producers, SubmitSend(c)
    PROVE  Placed'
<1> DEFINE x == Head(caller[c].batch)
<1>0. /\ TypeOK /\ Loaded /\ c \in Callers /\ c \notin Redrivers
      /\ ChannelsSpread /\ WorkersSpread /\ BatchesSpread /\ Distinct(dlq)
      /\ Submitting /\ \A j \in Jobs : OnePlace(j)
  BY JobQueueAssumption DEF IInv, Placed, Spread, Callers
<1>1. /\ caller[c].pc = "send" /\ Len(chan[current].buf) < BufferSize
      /\ chan' = [chan EXCEPT ![current].buf = Append(chan[current].buf, x)]
      /\ accepted' = accepted \cup {x}
      /\ UNCHANGED <<worker, dlq, done, dropped>>
  BY DEF SubmitSend
<1>2. caller[c].batch \in Seq(Jobs) /\ caller[c].batch # << >>
  BY <1>0, <1>1, BufferTypes DEF Loaded
<1>3. x \in Jobs /\ Tail(caller[c].batch) = << >> /\ x \in ToSet(caller[c].batch)
  BY <1>0, <1>2, FirstAndRest, TailHolds DEF Submitting
<1>4. x \notin accepted
  BY <1>0, <1>3 DEF Submitting
<1>5. /\ caller'[c] = IdleCaller
      /\ \A d \in Callers : d # c => caller'[d] = caller[d]
  BY <1>0, <1>3 DEF SubmitSend, TypeOK
<1>6. caller'[c].batch = << >>
  BY <1>5 DEF IdleCaller
<1>7. /\ current \in 0..MaxStarts
      /\ chan'[current].buf = Append(chan[current].buf, x)
      /\ \A h \in 0..MaxStarts : h # current => chan'[h].buf = chan[h].buf
  BY <1>0, <1>1 DEF TypeOK
<1> HIDE DEF x
<1>8. /\ ~InChannel(x) /\ ~InWorker(x) /\ ~InDLQ(x) /\ ~InBatch(x)
      /\ x \notin done /\ x \notin dropped
  BY <1>0, <1>3, <1>4 DEF OnePlace
<1>9. ChannelsSpread' /\ \A j \in Jobs : InChannel(j)' <=> InChannel(j) \/ j = x
  BY <1>0, <1>1, <1>3, <1>7, <1>8, ChannelGains
<1>10. BatchesSpread' /\ \A j \in Jobs : InBatch(j)' <=> InBatch(j)
  BY <1>0, <1>5, <1>6, EmptyHolds, BatchMoves
<1>11. /\ WorkersSpread' /\ Distinct(dlq')
       /\ \A j \in Jobs : (InWorker(j)' <=> InWorker(j)) /\ (InDLQ(j)' <=> InDLQ(j))
  BY <1>0, <1>1 DEF WorkersSpread, InWorker, InDLQ
<1>12. \A j \in Jobs : OnePlace(j)'
  BY <1>0, <1>1, <1>8, <1>9, <1>10, <1>11 DEF OnePlace
<1>13. Submitting'
  <2>1. \A d \in Callers : d # c => x \notin ToSet(caller[d].batch)
    BY <1>0, <1>3 DEF BatchesSpread
  <2> QED
    BY <1>0, <1>1, <1>5, <1>6, <2>1, EmptyHolds DEF Submitting, Callers
<1> QED
  BY <1>9, <1>10, <1>11, <1>12, <1>13 DEF Placed, Spread

\* The send moves a redriven job from the slice to the channel.
LEMMA RedriverSendPlaced ==
    ASSUME IInv, Placed, NEW c \in Redrivers, SubmitSend(c)
    PROVE  Placed'
<1> DEFINE x == Head(caller[c].batch)
           left == Tail(caller[c].batch)
<1>0. /\ TypeOK /\ Loaded /\ c \in Callers /\ c \notin Producers
      /\ ChannelsSpread /\ WorkersSpread /\ BatchesSpread /\ Distinct(dlq)
      /\ Submitting /\ \A j \in Jobs : OnePlace(j)
  BY JobQueueAssumption DEF IInv, Placed, Spread, Callers
<1>1. /\ caller[c].pc = "send" /\ Len(chan[current].buf) < BufferSize
      /\ chan' = [chan EXCEPT ![current].buf = Append(chan[current].buf, x)]
      /\ accepted' = accepted \cup {x}
      /\ caller' = [caller EXCEPT ![c] =
            IF left = << >> THEN IdleCaller ELSE [pc |-> "enter", batch |-> left]]
      /\ UNCHANGED <<worker, dlq, done, dropped>>
  BY DEF SubmitSend
<1>2. caller[c].batch \in Seq(Jobs) /\ caller[c].batch # << >>
  BY <1>0, <1>1, BufferTypes DEF Loaded
<1>3. /\ x \in Jobs /\ ToSet(left) \subseteq Jobs
      /\ ToSet(caller[c].batch) = {x} \cup ToSet(left)
      /\ x \notin ToSet(left) /\ Distinct(left)
  BY <1>0, <1>2, FirstAndRest, TailHolds DEF BatchesSpread
<1>4. InBatch(x)
  BY <1>3 DEF InBatch
<1>5. /\ current \in 0..MaxStarts
      /\ chan'[current].buf = Append(chan[current].buf, x)
      /\ \A h \in 0..MaxStarts : h # current => chan'[h].buf = chan[h].buf
  BY <1>0, <1>1 DEF TypeOK
<1> HIDE DEF x, left
<1>6. /\ caller'[c].batch = left
      /\ caller'[c].pc \in {"idle", "take"} => left = << >>
      /\ \A d \in Callers : d # c => caller'[d] = caller[d]
  BY <1>0, <1>1 DEF IdleCaller, TypeOK
<1>7. /\ ~InChannel(x) /\ ~InWorker(x) /\ ~InDLQ(x)
      /\ x \notin done /\ x \notin dropped /\ x \in accepted
  BY <1>0, <1>3, <1>4 DEF OnePlace
<1>8. ChannelsSpread' /\ \A j \in Jobs : InChannel(j)' <=> InChannel(j) \/ j = x
  BY <1>0, <1>1, <1>3, <1>5, <1>7, ChannelGains
<1>9. BatchesSpread' /\ \A j \in Jobs : InBatch(j)' <=> InBatch(j) /\ j # x
  <2>1. \A d \in Callers : \A j \in Jobs :
           d # c /\ j \in ToSet(caller'[c].batch) => j \notin ToSet(caller[d].batch)
    BY <1>0, <1>3, <1>6 DEF BatchesSpread
  <2>2. /\ BatchesSpread'
        /\ \A j \in Jobs : InBatch(j)' <=>
              \/ j \in ToSet(left)
              \/ InBatch(j) /\ j \notin ToSet(caller[c].batch)
    BY <1>0, <1>3, <1>6, <2>1, BatchMoves
  <2>3. \A j \in Jobs : j \in ToSet(left) => InBatch(j)
    BY <1>3 DEF InBatch
  <2> QED
    BY <1>3, <2>2, <2>3
<1>10. /\ WorkersSpread' /\ Distinct(dlq')
       /\ \A j \in Jobs : (InWorker(j)' <=> InWorker(j)) /\ (InDLQ(j)' <=> InDLQ(j))
  BY <1>0, <1>1 DEF WorkersSpread, InWorker, InDLQ
<1>11. \A j \in Jobs : OnePlace(j)'
  BY <1>0, <1>1, <1>4, <1>7, <1>8, <1>9, <1>10 DEF OnePlace
<1>12. Submitting'
  <2>1. accepted' = accepted
    BY <1>1, <1>7
  <2> QED
    BY <1>0, <1>6, <2>1 DEF Submitting, Callers
<1> QED
  BY <1>8, <1>9, <1>10, <1>11, <1>12 DEF Placed, Spread

\* The dead letters go to the slice of the one who takes them.
LEMMA RedriveTakePlaced ==
    ASSUME IInv, Placed, NEW r \in Redrivers, RedriveTake(r)
    PROVE  Placed'
<1>0. /\ TypeOK /\ r \in Callers /\ r \notin Producers
      /\ ChannelsSpread /\ WorkersSpread /\ BatchesSpread /\ Distinct(dlq)
      /\ Submitting /\ \A j \in Jobs : OnePlace(j)
  BY JobQueueAssumption DEF IInv, Placed, Spread, Callers
<1>1. /\ caller[r].pc = "take" /\ dlq' = << >>
      /\ caller' = [caller EXCEPT ![r] =
            IF dlq = << >> THEN IdleCaller ELSE [pc |-> "enter", batch |-> dlq]]
      /\ UNCHANGED <<chan, worker, accepted, done, dropped>>
  BY DEF RedriveTake
<1>2. caller[r].batch = << >>
  BY <1>0, <1>1 DEF Submitting
<1>3. /\ caller'[r].batch = dlq
      /\ caller'[r].pc \in {"idle", "take"} => dlq = << >>
      /\ \A d \in Callers : d # r => caller'[d] = caller[d]
  BY <1>0, <1>1 DEF IdleCaller, TypeOK
<1>4. \A d \in Callers : \A j \in Jobs :
         d # r /\ j \in ToSet(caller'[r].batch) => j \notin ToSet(caller[d].batch)
  <2>1. ASSUME NEW d \in Callers, NEW j \in Jobs, j \in ToSet(dlq)
        PROVE  j \notin ToSet(caller[d].batch)
    <3>1. InDLQ(j) /\ OnePlace(j)
      BY <1>0, <2>1 DEF InDLQ
    <3>2. j \in accepted /\ ~InBatch(j)
      BY <3>1 DEF OnePlace
    <3> QED
      BY <1>0, <3>2 DEF InBatch, Submitting, Callers
  <2> QED
    BY <1>3, <2>1
<1>5. /\ BatchesSpread'
      /\ \A j \in Jobs : InBatch(j)' <=> InBatch(j) \/ InDLQ(j)
  BY <1>0, <1>2, <1>3, <1>4, EmptyHolds, BatchMoves DEF InDLQ
<1>6. Distinct(dlq') /\ \A j \in Jobs : ~InDLQ(j)'
  BY <1>1, EmptyHolds DEF InDLQ
<1>7. /\ ChannelsSpread' /\ WorkersSpread'
      /\ \A j \in Jobs : (InChannel(j)' <=> InChannel(j)) /\ (InWorker(j)' <=> InWorker(j))
  BY <1>0, <1>1 DEF ChannelsSpread, WorkersSpread, InChannel, InWorker
<1>8. \A j \in Jobs : OnePlace(j)'
  BY <1>0, <1>1, <1>5, <1>6, <1>7 DEF OnePlace
<1>9. Submitting'
  BY <1>0, <1>1, <1>3 DEF Submitting, Callers
<1> QED
  BY <1>5, <1>6, <1>7, <1>8, <1>9 DEF Placed, Spread

\* The first job of the slice goes back to the dead letters; the others are gone.
LEMMA RedriveStorePlaced ==
    ASSUME IInv, Placed, NEW r \in Redrivers, RedriveStore(r)
    PROVE  Placed'
<1> DEFINE x == Head(caller[r].batch)
           left == Tail(caller[r].batch)
<1>0. /\ TypeOK /\ Loaded /\ r \in Callers /\ r \notin Producers
      /\ ChannelsSpread /\ WorkersSpread /\ BatchesSpread /\ Distinct(dlq)
      /\ Submitting /\ \A j \in Jobs : OnePlace(j)
  BY JobQueueAssumption DEF IInv, Placed, Spread, Callers
<1>1. /\ caller[r].pc = "store"
      /\ dlq' = Append(dlq, x)
      /\ dropped' = dropped \cup ToSet(left)
      /\ caller' = [caller EXCEPT ![r] = IdleCaller]
      /\ UNCHANGED <<chan, worker, accepted, done>>
  BY DEF RedriveStore
<1>2. caller[r].batch \in Seq(Jobs) /\ caller[r].batch # << >>
  BY <1>0, <1>1, BufferTypes DEF Loaded
<1>3. /\ x \in Jobs /\ ToSet(left) \subseteq Jobs
      /\ ToSet(caller[r].batch) = {x} \cup ToSet(left)
      /\ x \notin ToSet(left)
  BY <1>0, <1>2, FirstAndRest, TailHolds DEF BatchesSpread
<1> HIDE DEF x, left
<1>4. /\ caller'[r].batch = << >>
      /\ \A d \in Callers : d # r => caller'[d] = caller[d]
  BY <1>0, <1>1 DEF IdleCaller, TypeOK
<1>5. \A j \in Jobs : j \in ToSet(caller[r].batch) => InBatch(j)
  BY DEF InBatch
<1>6. InBatch(x) /\ ~InDLQ(x)
  BY <1>0, <1>3, <1>5 DEF OnePlace
<1>7. Distinct(dlq') /\ \A j \in Jobs : InDLQ(j)' <=> InDLQ(j) \/ j = x
  BY <1>0, <1>1, <1>3, <1>6, DLQGains
<1>8. /\ BatchesSpread'
      /\ \A j \in Jobs : InBatch(j)' <=> InBatch(j) /\ j # x /\ j \notin ToSet(left)
  BY <1>0, <1>3, <1>4, EmptyHolds, BatchMoves
<1>9. /\ ChannelsSpread' /\ WorkersSpread'
      /\ \A j \in Jobs : (InChannel(j)' <=> InChannel(j)) /\ (InWorker(j)' <=> InWorker(j))
  BY <1>0, <1>1 DEF ChannelsSpread, WorkersSpread, InChannel, InWorker
<1>10. \A j \in Jobs : j \in ToSet(left) => InBatch(j) /\ j # x
  BY <1>3, <1>5
<1>11. \A j \in Jobs : OnePlace(j)'
  BY <1>0, <1>1, <1>6, <1>7, <1>8, <1>9, <1>10 DEF OnePlace
<1>12. Submitting'
  BY <1>0, <1>1, <1>4 DEF Submitting, Callers
<1> QED
  BY <1>7, <1>8, <1>9, <1>11, <1>12 DEF Placed, Spread

\* RedriveDLQ's test moves nothing.
LEMMA RedriveCheckPlaced ==
    ASSUME IInv, Placed, NEW r \in Redrivers, RedriveCheck(r)
    PROVE  Placed'
<1>1. /\ TypeOK /\ r \in Callers /\ caller[r].pc = "idle"
      /\ caller' = [caller EXCEPT ![r].pc = "take"]
      /\ UNCHANGED <<chan, worker, dlq, accepted, done, dropped>>
  BY DEF RedriveCheck, IInv, Callers
<1>2. /\ caller'[r].batch = caller[r].batch
      /\ \A d \in Callers : d # r => caller'[d] = caller[d]
  BY <1>1 DEF TypeOK
<1> QED
  BY <1>1, <1>2, NoJobMoves DEF Placed, Submitting

\* Start and Shutdown move nothing, and neither does their call or their return.
LEMMA ControllerPlaced ==
    ASSUME IInv, Placed, NEW c \in Controllers,
           ControlCall(c, "start") \/ ControlCall(c, "shutdown") \/ ControllerStep(c)
    PROVE  Placed'
<1>1. TypeOK /\ Spawning
  BY DEF IInv
<1>2. UNCHANGED <<caller, dlq, accepted, done, dropped>>
  BY DEF ControlCall, ControllerStep, Start, StartWorker, Shutdown, ShutdownReturn
<1>3. \A g \in 0..MaxStarts : chan'[g].buf = chan[g].buf
  <2>1. chan' = chan \/ chan' = [chan EXCEPT ![current].closed = TRUE]
    BY DEF ControlCall, ControllerStep, Start, StartWorker, Shutdown, ShutdownReturn
  <2>2. chan \in [0..MaxStarts -> [buf : Seq(Jobs), closed : BOOLEAN]]
    BY <1>1 DEF TypeOK
  <2> DEFINE Q == Seq(Jobs)
  <2>3. chan \in [0..MaxStarts -> [buf : Q, closed : BOOLEAN]]
    BY <2>2
  <2> HIDE DEF Q
  <2> QED
    BY <2>1, <2>3
<1>4. \A w \in Workers : /\ worker'[w].job = worker[w].job
                         /\ worker'[w].pc # "retry" => worker[w].pc # "retry"
  <2> DEFINE s == controller[c]
  <2>1. \/ worker' = worker
        \/ /\ s.pc = "spawn"
           /\ worker' = [worker EXCEPT ![<<s.start, s.next>>].pc = "born"]
    BY DEF ControlCall, ControllerStep, Start, StartWorker, Shutdown, ShutdownReturn
  <2>2. ASSUME s.pc = "spawn", <<s.start, s.next>> \in Workers
        PROVE  worker[<<s.start, s.next>>].pc = "none"
    <3>1. s.next >= s.next
      BY <1>1, <2>2 DEF Spawning
    <3> QED
      BY <1>1, <2>2, <3>1 DEF Spawning
  <2>3. DOMAIN worker = Workers
    BY <1>1 DEF TypeOK
  <2>4. worker \in [Workers ->
            [pc : {"none", "born", "range", "retry", "stopped"},
             chan : 0..MaxStarts, job : Jobs \cup {NoJob}, tries : 0..MaxRetries]]
    BY <1>1 DEF TypeOK
  <2> HIDE DEF s
  <2> QED
    BY <2>1, <2>2, <2>3, <2>4
<1> QED
  BY <1>2, <1>3, <1>4, NoJobMoves DEF Placed, Submitting

\* The steps of a worker that move nothing.
LEMMA WorkerWaitsPlaced ==
    ASSUME IInv, Placed, NEW w \in Workers,
           WorkerBegin(w) \/ WorkerFail(w) \/ WorkerStop(w)
    PROVE  Placed'
<1>1. worker \in [Workers -> Worker]
  BY DEF IInv, TypeOK, Worker
<1>2. UNCHANGED <<chan, caller, dlq, accepted, done, dropped>>
  BY DEF WorkerBegin, WorkerFail, WorkerStop
<1>3. \A v \in Workers : /\ worker'[v].job = worker[v].job
                         /\ worker'[v].pc # "retry" => worker[v].pc # "retry"
  <2>1. CASE WorkerBegin(w)
    <3>1. worker' = [worker EXCEPT ![w].pc = "range", ![w].chan = current]
          /\ worker[w].pc = "born"
      BY <2>1 DEF WorkerBegin
    <3> QED
      BY <1>1, <3>1 DEF Worker
  <2>2. CASE WorkerFail(w)
    <3>1. worker' = [worker EXCEPT ![w].tries = worker[w].tries + 1]
      BY <2>2 DEF WorkerFail
    <3> QED
      BY <1>1, <3>1 DEF Worker
  <2>3. CASE WorkerStop(w)
    <3>1. worker' = [worker EXCEPT ![w].pc = "stopped"] /\ worker[w].pc = "range"
      BY <2>3 DEF WorkerStop
    <3> QED
      BY <1>1, <3>1 DEF Worker
  <2> QED
    BY <2>1, <2>2, <2>3
<1> QED
  BY <1>2, <1>3, NoJobMoves DEF Placed, Submitting

\* A job goes from the channel to the worker that receives it.
LEMMA WorkerTakePlaced ==
    ASSUME IInv, Placed, NEW w \in Workers, WorkerTake(w)
    PROVE  Placed'
<1> DEFINE g == worker[w].chan
           x == Head(chan[g].buf)
<1>0. /\ TypeOK /\ worker \in [Workers -> Worker] /\ g \in 0..MaxStarts
      /\ ChannelsSpread /\ WorkersSpread /\ BatchesSpread /\ Distinct(dlq)
      /\ Submitting /\ \A j \in Jobs : OnePlace(j)
  BY DEF IInv, TypeOK, Worker, Placed, Spread
<1>1. /\ worker[w].pc = "range" /\ chan[g].buf # << >>
      /\ chan' = [chan EXCEPT ![g].buf = Tail(chan[g].buf)]
      /\ worker' = [worker EXCEPT ![w].pc = "retry", ![w].tries = 0, ![w].job = x]
      /\ UNCHANGED <<caller, dlq, accepted, done, dropped>>
  BY DEF WorkerTake
<1>2. /\ chan'[g].buf = Tail(chan[g].buf)
      /\ \A h \in 0..MaxStarts : h # g => chan'[h].buf = chan[h].buf
  BY <1>0, <1>1 DEF TypeOK
<1>3. x \in Jobs
  BY <1>0, <1>1, BufferTypes, FirstAndRest
<1>4. /\ ChannelsSpread' /\ InChannel(x)
      /\ \A j \in Jobs : InChannel(j)' <=> InChannel(j) /\ j # x
  BY <1>0, <1>1, <1>2, ChannelLoses
<1> HIDE DEF g, x
<1>5. /\ worker'[w].job = x /\ worker'[w].pc = "retry"
      /\ \A v \in Workers : v # w => worker'[v] = worker[v]
  BY <1>0, <1>1 DEF Worker
<1>6. ~InWorker(x) /\ worker[w].job = NoJob
  BY <1>0, <1>1, <1>3, <1>4 DEF OnePlace, WorkersSpread
<1>7. WorkersSpread' /\ \A j \in Jobs : InWorker(j)' <=> InWorker(j) \/ j = x
  BY <1>0, <1>3, <1>5, <1>6, WorkerGains
<1>8. /\ BatchesSpread' /\ Distinct(dlq') /\ Submitting'
      /\ \A j \in Jobs : (InBatch(j)' <=> InBatch(j)) /\ (InDLQ(j)' <=> InDLQ(j))
  BY <1>0, <1>1 DEF BatchesSpread, InBatch, InDLQ, Submitting
<1>9. \A j \in Jobs : OnePlace(j)'
  BY <1>0, <1>1, <1>4, <1>6, <1>7, <1>8 DEF OnePlace
<1> QED
  BY <1>4, <1>7, <1>8, <1>9 DEF Placed, Spread

\* A job leaves its worker, processed or for the dead letter queue.
LEMMA WorkerEndsPlaced ==
    ASSUME IInv, Placed, NEW w \in Workers, WorkerSucceed(w) \/ WorkerGiveUp(w)
    PROVE  Placed'
<1> DEFINE x == worker[w].job
<1>0. /\ TypeOK /\ worker \in [Workers -> Worker] /\ Working
      /\ ChannelsSpread /\ WorkersSpread /\ BatchesSpread /\ Distinct(dlq)
      /\ Submitting /\ \A j \in Jobs : OnePlace(j)
  BY DEF IInv, TypeOK, Worker, Placed, Spread
<1>1. /\ worker[w].pc = "retry"
      /\ worker' = [worker EXCEPT ![w].pc = "range", ![w].job = NoJob, ![w].tries = 0]
      /\ \/ done' = done \cup {x} /\ dlq' = dlq
         \/ dlq' = Append(dlq, x) /\ done' = done
      /\ UNCHANGED <<chan, caller, accepted, dropped>>
  BY DEF WorkerSucceed, WorkerGiveUp
<1>2. x \in Jobs /\ x # NoJob
  BY <1>0, <1>1 DEF Working, Worker
<1>3. /\ worker'[w].job = NoJob
      /\ \A v \in Workers : v # w => worker'[v] = worker[v]
  BY <1>0, <1>1 DEF Worker
<1>4. /\ WorkersSpread' /\ InWorker(x)
      /\ \A j \in Jobs : InWorker(j)' <=> InWorker(j) /\ j # x
  BY <1>0, <1>2, <1>3, WorkerLoses
<1> HIDE DEF x
<1>5. ~InDLQ(x) /\ ~InChannel(x) /\ ~InBatch(x) /\ x \notin dropped /\ x \in accepted
  BY <1>0, <1>2, <1>4 DEF OnePlace
<1>6. /\ ChannelsSpread' /\ BatchesSpread' /\ Submitting'
      /\ \A j \in Jobs : (InBatch(j)' <=> InBatch(j)) /\ (InChannel(j)' <=> InChannel(j))
  BY <1>0, <1>1 DEF ChannelsSpread, BatchesSpread, InBatch, InChannel, Submitting
<1>7. CASE done' = done \cup {x} /\ dlq' = dlq
  <2>1. Distinct(dlq') /\ \A j \in Jobs : InDLQ(j)' <=> InDLQ(j)
    BY <1>0, <1>7 DEF InDLQ
  <2>2. \A j \in Jobs : OnePlace(j)'
    BY <1>0, <1>1, <1>4, <1>5, <1>6, <1>7, <2>1 DEF OnePlace
  <2> QED
    BY <1>4, <1>6, <2>1, <2>2 DEF Placed, Spread
<1>8. CASE dlq' = Append(dlq, x) /\ done' = done
  <2>1. Distinct(dlq') /\ \A j \in Jobs : InDLQ(j)' <=> InDLQ(j) \/ j = x
    BY <1>0, <1>2, <1>5, <1>8, DLQGains
  <2>2. \A j \in Jobs : OnePlace(j)'
    BY <1>0, <1>1, <1>4, <1>5, <1>6, <1>8, <2>1 DEF OnePlace
  <2> QED
    BY <1>4, <1>6, <2>1, <2>2 DEF Placed, Spread
<1> QED
  BY <1>1, <1>7, <1>8

\* The steps together.
LEMMA NextPlaced == IInv /\ Placed /\ [Next]_vars => Placed'
<1> SUFFICES ASSUME IInv, Placed, [Next]_vars PROVE Placed'
  OBVIOUS
<1>1. CASE \E p \in Producers, j \in Jobs : SubmitCall(p, j)
  BY <1>1, SubmitCallPlaced
<1>2. CASE \E c \in Callers : CallerStep(c)
  <2>1. PICK c \in Callers : SubmitEnter(c) \/ SubmitSend(c)
    BY <1>2 DEF CallerStep
  <2>2. c \in Producers \/ c \in Redrivers
    BY DEF Callers
  <2> QED
    BY <2>1, <2>2, SubmitEnterPlaced, ProducerSendPlaced, RedriverSendPlaced
<1>3. CASE \E r \in Redrivers : RedriveCheck(r) \/ RedriverStep(r)
  BY <1>3, RedriveCheckPlaced, RedriveTakePlaced, RedriveStorePlaced DEF RedriverStep
<1>4. CASE \E c \in Controllers : \/ ControlCall(c, "start")
                                  \/ ControlCall(c, "shutdown")
                                  \/ ControllerStep(c)
  BY <1>4, ControllerPlaced
<1>5. CASE \E w \in Workers : WorkerStep(w)
  BY <1>5, WorkerWaitsPlaced, WorkerTakePlaced, WorkerEndsPlaced DEF WorkerStep
<1>6. CASE UNCHANGED vars
  BY <1>6, NoJobMoves DEF vars, Placed, Submitting
<1> QED
  BY <1>1, <1>2, <1>3, <1>4, <1>5, <1>6 DEF Next

\* However Submit, RedriveDLQ, Start, Shutdown and the workers overlap, a job for
\* which Submit has returned nil is in one place, once: no step duplicates it, and
\* none loses it but the redriving goroutine that forgets the rest of its slice.
THEOREM JobsInOnePlace == Spec => []ExactlyOnce
<1>1. Init => IInv /\ Placed
  BY InitIInv, InitPlaced
<1>2. (IInv /\ Placed) /\ [Next]_vars => (IInv /\ Placed)'
  BY NextIInv, NextPlaced
<1>3. IInv /\ Placed => ExactlyOnce
  BY PlacedIsOnce DEF IInv
<1> QED
  BY <1>1, <1>2, <1>3, PTL DEF Spec
===============================================================================
