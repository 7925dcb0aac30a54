# Specifications of low-level-design-in-go

The repository holds ten small Go systems. Most of them are concurrent programs with
real protocols inside: goroutines, mutexes, condition variables, channels and shutdown.
This directory has their TLA+ models, TLC configurations that check them on small
instances, and TLAPS proofs about eight of them: the pool, parking, the job queue, the
broker, the key-value store, the elevator, the limiter and the game.

    tlc -workers 2 -config Parking.cfg MCParking      # a run
    tlapm ParkingProofs.tla                           # the proofs about a module

`PROJECT.json` lists the runs, the properties, a mutant for every property of a passing
run, the source lines each definition models, the findings, the hazards and the theorems.

## Inventory

| System | State | Operations | What is hard |
|---|---|---|---|
| Connection pool | registry, total, idle channel, wait group, closed | Acquire, Release, Shutdown | a receive before the mutex; limit; parked callers; shutdown |
| Parking: plans | none (pure) | Allocate, PlanRearrangement, BuildMovementOrder | cycles of moves; map order |
| Parking: system | floors (physical and reserved), records, job channels, buffer slots | Park, Unpark, SwitchStrategy, three robot pools | locations read before a sleep; three kinds of condition variables; retrieval during parking and rearranging |
| Job queue | channel per Start, dead letter queue, wait group, shutdown | Submit, Start, Shutdown, RedriveDLQ, workers | a blocking send under the read lock; redrive meeting shutdown; restart |
| Pub/sub broker | map of topics, subscribers with channel and lock | Subscribe, Publish, Unsubscribe, Shutdown | stale copies of subscribers; who closes |
| Key-value store | map, index, heap, wakeup token, cleaner | Set, Get, Exists, Delete, Shutdown | stale copies; lost wakeups; four structures in step |
| Elevator | position, two heaps, map of pending requests, sweep direction, work token | Call, SelectFloor, Shutdown, processor | stale direction, starvation, the lost token, double close |
| LRU cache | map and doubly linked list | Put, Get, Show | links at head, tail, middle; capacity 0 |
| Token bucket | map of buckets | Allow | creation race, bound on what is allowed |
| Snakes and ladders | board, players, turn, banked sixes | AddPlayer, AddSnake, AddLadder, Start, PlayTurn | sixes banked across calls; pieces that meet |
| Splitwise | users, groups, expenses | CreateUser, CreateGroup, members; stubs for the rest | unfinished |

The systems do not call each other. Inside a system the goroutines interact through the
mutexes, channels and condition variables named above; parking is the only one of several
packages (`parking.go` calls strategies and plans under its mutex and feeds three pools of
robots through channels).

What makes each correct: a connection has one user and the limit holds; a floor is never
promised or filled beyond its capacity, retrievals complete and rearrangements end; an
accepted job is processed or kept; a subscriber is closed once and never sent to
afterwards; an entry goes when it is due and not before; elevator requests are served,
in LOOK order; the cache keeps the most recent keys; a user gets no more than capacity plus
refill; a game is over when its winner is on the last cell.

## How the models correspond to the code

A section between Lock and Unlock is one action, with everything it changes. What a
goroutine does between two sections (a sleep, a send, a select) separates actions, so all
interleavings at these points are behaviours. A local variable read in one section and
used in another is kept in the state of the goroutine: most of the hazards are there.
Blocking is a guard where the runtime polls the condition (channels), and a state of its
own where only a signal ends it (`sync.Cond.Wait`, a goroutine parked on a channel).

- **ConnectionPool** (`Connection Pool/main.go`). `Call`, then the first select
  (`ReturnDone`, `Receive`, `NoneIdle`), the section after a receive (`TakeClosed`,
  `TakeUsable`, `TakeDiscard`), creation (`Create`, `AtLimit`), the second select with
  `Park` into the receive queue of the channel, which is first in first out, so a send
  hands the connection to the goroutine parked longest. `Release` is one section with four
  outcomes. `Shutdown` is split at its wait and at every iteration of the drain. A
  connection is an identity; of `LastUsed` only "longer ago than the timeout" is kept.
  Callers may also release again a connection that nobody uses; a late release of one that
  was borrowed again is not modelled.
- **ParkingPlan** (strategies, rearrangements, `graph.go`, `models/`). Pure operators. The
  code ranges over maps, so a plan (`Layouts`) and an order of moves (`MovementOrders`)
  are sets of possible results. All floors have one capacity, as the constructor makes them.
- **Parking** (`parking.go`, `workers.go`, `buffer_slots.go`, `robot_pool.go`). `Park`,
  `Unpark`, `SwitchRearranging`/`SwitchPlain` are the customers' calls; each robot has its
  own state and actions for each section of its loop. A record stays readable after it is
  deleted from the map because robots hold its pointer. Constants `Leavers` and `Earlier`
  bound which vehicles are asked back and in which order they come. The capacities of the
  job channels are small here (1000 in the code), so that a full channel happens.
  **MCParking** has the instances' vehicle types.
- **JobQueue** (`Job Queue/main.go`). The read-write lock is modelled: a writer announces
  itself and waits for the readers, and Submit is a reader across its blocking send. Every
  Start makes a channel; a worker takes whatever `q.jobs` is when it begins to run.
  `dropped` is a history of jobs in slices that nothing refers to any more. Channels are
  buffered (`BufferSize > 0`), as in the repository's test.
- **PubSub** (`PubSub/main.go`). Publish and Shutdown visit a copied set in any order.
- **ExpiryHeap**, **KeyValueStore** (`KeyValueStore/`). The heap is the array with the
  `Position` fields, under the sift operations of `container/heap`. Time is a counter;
  entries have no value, as no property tells values apart. Get and Exists do the same to
  the state.

- **Elevator** (`Elevator_System/elevator.go`, `heap.go`). A caller is split where the code
  is: `SelectFloor` reads the floor under the read lock, `SelectAdd` adds the request, and
  `signalWork` sends the token. The processor has an action for each section of its loop and
  of `moveTo`; `NextRequest` is one action with `rebucket` inside. A heap is the set of its
  requests, and a pop gives any request that the order puts first. **Look** is the order in
  which the strategy serves its stops, with one set of waiting stops and no goroutines;
  `ImplementsLook` says that the elevator implements it: `pending` is the set, and the target
  of a move is the target. Look is the readme's order with one exception: a stop at the car's
  own floor that is asked for in the other direction is left for the way back (see "Runs").
- **LRUCache** (`LRU cache/main.go`). Every operation holds the mutex, so it is an action; the
  pointers of the nodes are modelled, and **Recency** is the cache as a sequence of keys.
  `CacheIsRecency` follows the links from `MFUNode` and shows that they are that sequence.
- **TokenBucket** (`Token Bucket Rate Limiter/main.go`). Three sections: the map under the
  read lock, the creation under the write lock, the bucket under its own. `granted` is a
  history of when each user was allowed.
- **SnakeLadders** (`Snake_Ladders/main.go`). PlayTurn is three actions, by its outcome:
  `BankSix`, `Forfeit`, `Move`.
- **MCStandalone** starts one of the last four, which share nothing, so that one run checks
  them without multiplying their states.

Code that is not in the repository and is modelled from its use: contexts, the clock,
`sync.Cond`, `container/heap`, and the callers.

## Runs

| Run | Instance | Shows |
|---|---|---|
| pool | 2 clients, 2 closers, 2 identities, limit 1, 1 idle | no sharing, limit, books, status, quiescence after the wait; cancelled calls and Shutdown return |
| pool_leak | the same, one closer | **violated**: no connection is registered after Shutdown |
| parking | 2 bikes, 1 car, 2 floors of 2, one robot each, 1 buffer slot | reservations, slots, end of shuffles, wakeups, settled vehicles; retrievals without rearrangement complete |
| parking_shuffle | 4 cars, 4 floors of 2, 2 shufflers, 1 slot | rearrangements end, also when two cycles compete for the slot |
| parking_capacity | 3 cars, 2 floors of 2 | **violated**: a floor holds no more than its capacity |
| parking_retrieval | 2 bikes, 1 car | **violated**: an accepted retrieval completes |
| job_queue | 3 jobs, 2 producers, 1 redriver, 2 workers per Start, 2 Starts, buffer 1 | no send on a closed channel, exactly one place per job, shutdown drains and returns, jobs settle unless a redriving goroutine drops them |
| job_queue_redrive | 2 jobs | **violated**: no accepted job is dropped |
| job_queue_restart | 2 jobs, 1 producer, 2 callers of Start and Shutdown, 1 worker per Start | **violated**: accepted jobs settle |
| pubsub | 2 topics, 2 subscribers, 1 publisher of 3 messages, buffer 2, 2 closers | order, one closer, no send on closed, after a Shutdown every subscriber is disconnected |
| key_value_store | 3 keys, TTLs 0 to 2, clock to 2, one reader | structures agree, no lost wakeup, only due entries go, due entries go, cleaner stops |
| standalone | elevator: 3 floors, a caller and a rider; cache: 4 keys, room for 3; limiter: 2 users, 2 goroutines, clock to 4; game: 6 cells, a die of 3, 2 players, 2 pieces | LOOK is implemented up to the exception below, no work is lost, no stop starves; the list is the sequence by recency; the rate holds; the game is consistent |

The five violations are real disagreements between the code and the repository's own words;
`findings` in `PROJECT.json` quotes them. In short: an Acquire that loses the race with
Shutdown keeps its connection registered; a shuffling robot may lift the vehicle that an
unparking robot is fetching, and both give its space back; a parking robot waits for the
floor of its job although the promise of that floor has been given to others; a redriving
goroutine abandons its slice when the queue is shut down; a worker that first runs after a
Shutdown and another Start serves the new channel, and nobody empties the old one.

`JobsSettle` is the readme's promise for accepted jobs without exception, and
`job_queue_restart` shows it violated. `JobsSettleOrDropped`, in `job_queue`, names its
exception: a job in the rest of a slice that a redriving goroutine abandons when its Submit
meets Shutdown (`dropped`), which is what `job_queue_redrive` shows to happen.

A sixth disagreement has no violation run and is stated here and in `Look` instead.
`Elevator_System/readme.md`, lines 374-375, promises "while sweeping up, the lowest floor at
or above the car is served next" and "while sweeping down, the highest floor at or below the
car is served next". `rebucket` moves a request between the heaps only when it is strictly
above or below the car (`elevator.go:115-120`), so a stop at the car's own floor stays in the
heap of the direction it was asked for: with the car at 2, the sweep UP and 2 DOWN and 3 UP
pending, 3 is served first. Look has exactly this exception (`OnTheWayBack`) and no other: it
does hold the code to "at" for a stop that is asked for in the direction of the sweep.

### Bounds

Limits of one (connections, idle channel, buffer slot, channel capacity) make contention
happen at once, and two competitors are what each protocol needs; two Starts are needed
for a worker to meet a second channel. Two floors of two units are the smallest building in
which a car and two bikes can exclude each other and compaction has something to do; four
full floors allow two cycles of two moves at the same time, which is the smallest case in
which a buffer slot is contended (`parking_shuffle`; `parking` has one shuffling robot, so
that two robots never own a slot is shown by the theorem `SpecSlotOwned`). Three heap items
are the smallest heap in which an item is fixed or removed with two children or a sibling. TTLs 1 and 2 let a later Set expire
before an earlier one. Bounds that are not in the code: `MaxStarts`, `MaxPublish`,
`MaxTime`, `Leavers`, `Earlier`, and the finite sets. Retry counts are small (1).

`parking_shuffle` has one parking robot and nobody leaves (`Leavers = {}`). With retrievals
`RearrangementEnds` fails as a consequence of the two parking findings, and that is the
reason for the bound. The zone strategy is modelled but no run switches to it: it needs ten
floors to give every type a zone.
`ShutdownDrains`, `ShutdownReturns` and `JobsSettleOrDropped` of the run `job_queue` are about one
caller of Start and Shutdown. `job_queue_restart` has two, and `JobsSettle` is violated there;
also, a Start during Shutdown's wait keeps that Shutdown waiting.

In `standalone`, three floors have one between the ends, so that the car can pass a stop and
turn; a caller and a rider race with each other and with the processor. `MaxPending` (2) keeps
new requests away while that many are waiting: the tie, the turn and the stale direction all
need two. Four keys in a cache of three give a head, a tail and a middle, and evictions. Half
tokens (`Part` 2, `RefillRate` 1 for each tick) make a refill of a fraction happen, and
`LastTick` 4 a refill of two tokens. A die of three sides on six cells keeps the proportion
that matters: two banked sixes fit on the board and a third roll may not, and two pieces
(`MaxPieces`) are what it takes for one to end on the other. Elevator, cache and game have no
other bound on how long they run.

`Served` assumes that the car changes floors again and again. The strategy gives no more: a
request for the floor where the car stands is as near as any, so callers who repeat it keep
the car there, and a stop above waits. While the car stands still it says nothing, so that a
lost token would be seen by `NoLostWork` alone.

Deadlock is checked for the pool. The other systems may be at rest when nobody calls.

### Fairness

A goroutine inside a call, and every robot, worker and cleaner, is weakly fair: the Go
scheduler runs what can run. Nobody has to call an operation, cancel a context, receive a
message, and in the key-value store the clock may stop. Strong fairness is assumed in two places: a select
that is again and again ready for a Done channel takes it (Go chooses among ready cases
at random), and in the job queue a blocked sender or reader is served in its turn (channel
wait queues are first in first out and `sync.RWMutex` lets waiting readers in after a
writer). A client of the pool eventually releases what it borrowed; Shutdown waits for that. In the
elevator the processor and each caller inside a call are weakly fair, which includes that
timers fire.

## Proofs

`ConnectionPoolProofs` proves the safety properties of the pool for any finite sets of
clients and connections, any closers and any limits (`PoolAssumption`). The properties are
not inductive as they stand: that a received connection may be handed out depends on what
the channel, the receivers and the drain hold. The invariant `IInv` says where every
connection is. Besides `TypeOK` and `NoSharedConnection` its parts are `Holding` (who has a
connection, by program counter), `Registered` and `NothingLost` (what is held or queued is in
the registry and, before shutdown, nothing else is), `Marked` (IN_USE exactly when a client
uses it, which is why a second Release is refused and nobody shares), `Counted` and `Waited`
(both counters are cardinalities of the sets they count), `Queue` (a parked goroutine is
queued once, with a live context) and `Closing` (how far Shutdown has got).
`Inductive` proves `Spec => []IInv`, one step per action; `TypeCorrect`, `NeverShared`,
`LimitHolds`, `BooksBalance`, `StatusRight` and `QuiescentAfterWait` follow.

`JobQueueProofs` has any jobs, goroutines, workers and channel capacity (`JobQueueAssumption`;
`MaxStarts` stays a bound, of any size). `NoSendOnClosed` rests on `Locked`, that whoever is
about to act in Start or Shutdown is the one writer and, in a Start, that there is a channel
left for it, and on `Open`: the channel of a running queue is open, those of later Starts are
too, and a goroutine at its send found the queue running. `TypeOK` says among other things
that `q.wg` is no negative number, and that needs `WaitGroupCounts`: the counter is the number
of live workers. For a new worker to be counted rightly it must be new, which is `Spawning`: the
workers of a Start are made in order, by the one goroutine that was under the lock.

`OneCallerDrains` is about one caller of Start and Shutdown, with at least one worker per Start
(`OneCaller`). Both are needed: with two callers, a Shutdown that comes before the Start has made
its workers finds `q.wg` at 0 and returns with jobs in the channel, and without workers any
Shutdown does. Its invariant `Drained` says that the workers which were made serve the current channel
(`Serving`), that no earlier channel has a job left (`Emptied`), and that a channel with jobs
keeps at least one worker, made or still to be made (`Manned`), since a worker stops only when
its channel is closed and empty. So when `q.wg` is 0 nothing is left.

The same module proves `ExactlyOnce`. It counts positions, and the proof does not: `Placed` says
that no channel or slice has a job twice, that no two channels, workers or callers have the same
job (`Spread`), that a job is in one kind of place at most and in one exactly when it was accepted
(`OnePlace`), and that what a producer submits is not accepted yet (`Submitting`). Lemmas say
what an append, a removal of the head and a change of one slice do to a place; a step of the
queue is two of them. `PlacedIsOnce` turns `Placed` into the count; a slice without repetitions
is no longer than there are jobs, by the pigeonhole principle.

`PubSubProofs` has any topics, subscribers, goroutines and channel capacity
(`PubSubAssumption`). `OneCloses` counts goroutines, so its inductive form speaks of each one:
`Known` (only subscribers of a topic are in the map, left, or closed), `OneShutdown` (one
Shutdown passes the test, and it empties the map) and `Responsible` (nobody else has a
subscriber that one goroutine is to close). `ClosedOnlyDrains` follows for every step.
`InOrderAtMostOnce` needs `Behind`: a subscriber whom a publisher has still to visit has no
message with the number of the visit. A receive keeps it because it moves the head of the
channel to the end of what was received, and their concatenation is the same (`MoveHead`).

`StandaloneProofs` holds the proofs about the elevator, the cache, the limiter and the game,
each on its own specification; `ProgramsRun` carries them to the run of all four.

The elevator has any number of floors, callers and riders (`ElevatorAssumption`). Its
invariant `ElevatorIInv` is `ElevatorTypeOK`, which says that the map of pending requests is exactly what the
heaps hold, `NoLostWork`, and two facts about what is under way: what is left of a move leads to
its floor (`OnCourse`), and a SelectFloor carries one request (`OneAsked`). `LookImplemented`
is the refinement: under the invariant every step of `Elevator` is a step of `Look` or leaves
what Look speaks of alone. The core is `PicksInOrder`: rebucket puts every request where the
floor of the car says (`Rebucketed`), so the pop gives the nearest in the direction of the sweep.
rebucket says nothing of a stop at the car's own floor, so that only those asked for in the
other direction are passed over is an invariant of its own, `SweepIInv`: the car moves with the
sweep (`OnSweep`), and what is in the other heap lies behind the car or was asked for in its
direction (`Filed`).

The limiter has any users, goroutines, capacity and rate (`BucketAssumption`).
`WithinRate` speaks of every window and is not inductive. `Budget` is: what a user was granted
since any earlier grant, together with what is left in the bucket, is at most a full bucket and
what was refilled since then. That needs that two users share no bucket (`OneBucket`) and that
one without a bucket was never allowed (`NoneBefore`), which is what the second look under the
write lock is for.

The game has any board, die, players and pieces (`GameAssumption`).
`GameConsistent` needs to know what a position is before, during and after the game (`Stage`);
that a piece which comes to rest at the foot of a ladder came there by a ladder, and one at the
head of a snake by a snake or a ladder, is `LandingRests`. Its types need a bound of at least
one on the players (`GameAssumption`), since the turn is the first player's before there are any.

The cache has any finite set of keys, any values and any capacity above 0 (`CacheAssumption`).
`CacheIInv` says that some sequence of keys without repetitions is what the map has and what both
pointers of every node and `MFUNode` and `LFUNode` describe (`Linked`), no longer than the
capacity. `re_rank` cuts a node out and hangs it in at the front, and each of its branches (the
node is the first, the last, or between two) gives the list with the key moved (`Ahead`,
`ReRankUses`). `WalkIsList` says that the refinement's walk along `nextBlock` visits that sequence;
from there a Put or Get of the code is the Put or Get of `Recency` (`RecencyImplemented`).

`Recursion` is what the proofs about recursive functions and folds rest on. A recursive
function is a `CHOOSE`, of which nothing is known until some function is shown to satisfy its
equation. The library's induction theorems do that for an operator given as a parameter, which
no prover here can instantiate; `Recursion` says it with sets. From "a set of numbers that is
not empty has a least one" it follows that a recursion that goes down in a measure has exactly
one solution on a set of arguments (`RecursionSolved`), that what holds where it ends and is
passed on holds everywhere (`MeasureInduction`), and that a fold has the value its definition
suggests (`FoldSolved`).

`KeyValueStoreProofs` has any finite set of keys, any TTLs and readers and any clock. It begins
with the heap: `up` and `down` end, they permute the items, and they restore the order from
what one misplaced item leaves of it (`Rising`, `Sinking`), so that `Push`, `Fix`, `Remove` and
`Pop` return a heap of the right items (`PushResult` and so on). The invariant of the store is
`TypeOK`, `Agrees` (heap, index and map speak of the same keys and times) and `Wakeable`, which
is `SleepsNoLonger` extended to the time between the cleaner's look at the heap and its sleep:
without a token, the time it has read is no later than the first item's. `OnlyDueRemoved`
follows because the item popped is an earliest one of a heap that agrees with the map.

`ParkingPlanProofs` has any building and any vehicles (`PlanAssumption`). A strategy chooses a
floor with room, if any (`ChooseFits`), and the layout it plans from nothing fits every floor
(`LayoutsFit`); both need what the space of a set of vehicles is when one is added, which is
the fold `SpaceOf` one step further. The search, the sorting and the movement orders are
recursive functions that choose among next states; a lemma about such walks carries an
invariant along them. `SearchesResult`: a search visits exactly the component of its start,
everything once. `MovementOrdersDivide`: the components of a movement order are disjoint and
together are all moves. That is why two robots never have the same vehicle. `MovementOrdersRun`:
no move waits for one of another component; a component is marked a loop exactly when some of its
moves each wait for another of them (`Stuck`), and otherwise has every move after those that it
waits for (`InTurn`). The sorting keeps every free move in its queue (`Ready`), so when the queue
is empty none is free, and what it could not take is stuck (`Exhausts`).

`ParkingProofs` has any robots, buffer slots, channel capacities, switches and leavers
(`ParkingAssumption`; the floor numbers lie below `BufferSlotIDBase`, otherwise a floor would
be taken for a slot). Its invariant `IInv` has `TypeOK` and `ReservationsFit`, and says that
records and jobs are about visits that have begun (`VisitsIssued`, `JobsIssued`), that
components share no vehicle (`ComponentsApart`), what the wait group counts (`Counted`), and of
each shuffling robot (`ShufflersFit`) how its phase, its slot and its jobs belong together
(`InStage`), that only the head of a cyclic component goes into the slot and comes out
(`Breaks`), that the slot is empty before it is given back (`Emptied`) and that a sleeping
robot waits for something false (`Sleeps`, `ParkersSleep`). `ReservationsFit`, `ShuffleOver`,
`SlotOwned` and `NoLostWakeup` follow. `SlotOwned` needs `Emptied`: a slot released with a
vehicle in it could be claimed by another robot.

`SettledAfterShuffle` speaks only of the time when no rearrangement is on. What a rearrangement
keeps up while it is on is `SInv`: a vehicle that is to stay is where it was promised
(`Home`), or a parking robot will bring it there (`Coming`), or it is in a component that no
robot has yet (`Assigned`), or it is the duty of the robot that has its component (`Due`). The
duties are the stages of `processShuffleComponent`: the robot waits for the component
(`Early`), the vehicle comes once a slot is claimed (`ToOrder`) or once the breaker of the cycle
is in it (`Left`), the vehicle is the breaker in the slot (`Slotted`), it is in hand
(`InHand`), or in the list with a job that will find it where it stands (`Listed`). A step of a
robot passes its duty on to the next stage or brings the vehicle home; a Broadcast changes none
(`Alike`). This needs that a vehicle is brought to its first floor by one job and is nowhere
until then (`ParkedOnce`, `Nowhere`), so that the target a rearrangement changes in between is
made good by the component that waits for it, and that a robot moves only vehicles that have
been parked (`Orderly`). When the wait group is 0 nobody has a duty (`NobodyDue`), and a vehicle
that is still coming is not `PARKED`.

Every safety invariant, action property and refinement that a passing run checks is stated by a
theorem. Only model-checked: liveness under fairness, which is out of the prover's reach
(`BlockedCallsReturn`, `ShutdownReturns`, `RetrievedWithoutShuffle`, `RearrangementEnds`,
`JobsSettleOrDropped`, `Served`, `AllDisconnected`, `DueCollected`, `CleanerStops`).

## Plan

A parking instance that uses zones; an abstract specification of a job's life that the job
queue implements up to redriving.

## Not modelled

- Splitwise: the operations that would change balances are stubs. `AddGroupExpense` and
  `AddIndividualExpense` check their argument and store nothing, `SettleDebt` and
  `SimplifyDebts` return nil, and no code calls a `Split`; balances are sums over a map that
  stays empty.
- The FIFO strategy of the elevator: nothing makes one, and it has no constructor to make its
  map. The programs `main` of the elevator (a demonstration) and of parking (empty).
- Two concurrent callers of the elevator's Shutdown: both may find the channel open and the
  second close panics. The model has one caller at a time.
- A cache of capacity 0, in which the first Put dereferences nil (`CacheAssumption`), and the
  rounding of `float64` in the limiter.
- Prices and receipts, ticket and connection names, players' names and IDs, log output, and
  the write-only index by registration number.
