------------------------------- MODULE Elevator -------------------------------
(***************************************************************************)
(* The elevator (Elevator_System/elevator.go, heap.go): Call, SelectFloor  *)
(* and Shutdown, the directional strategy and the processor goroutine.     *)
(*                                                                         *)
(* A heap is the set of its requests; Pop takes one that Less puts before  *)
(* no other, any of them on a tie.  A section under a mutex is one action, *)
(* and so is a timer with the section after it.  FIFO is never constructed *)
(* in the code and has no module.                                          *)
(***************************************************************************)
EXTENDS Integers, FiniteSets

CONSTANTS
    FloorCount,   \* floors of the building
    Waiting,      \* goroutines that call Call, from a floor
    Riding,       \* goroutines that call SelectFloor, from the car
    MaxPending    \* bound: a passenger asks only while fewer stops are asked for

ASSUME ElevatorAssumption ==
    /\ FloorCount \in Nat \ {0, 1}
    /\ MaxPending \in Nat \ {0}

VARIABLES
    up, down,     \* the heaps of the strategy
    sweep,        \* Directional.sweep
    pending,      \* Directional.pending, the keys
    floor, direction, door,   \* e.elevator
    workCh,       \* whether the channel holds its token
    shutdown,     \* whether the channel shutdown is closed
    processor,    \* the goroutine: where it is and moveTo's variables
    passenger     \* the callers: where they are and their request

strategyVars == <<up, down, sweep, pending>>
carVars == <<floor, direction, door>>
elevatorVars == <<strategyVars, carVars, workCh, shutdown, processor, passenger>>

Floors == 1..FloorCount
Passengers == Waiting \cup Riding
Directions == {"UP", "DOWN", "IDLE"}
Requests == [floor : Floors, direction : Directions, type : {"EXTERNAL", "INTERNAL"}]

ElevatorInit ==
    /\ up = {} /\ down = {} /\ pending = {} /\ sweep = "UP"
    /\ floor = 1 /\ direction = "IDLE" /\ door = "CLOSED"
    /\ workCh = FALSE /\ shutdown = FALSE
    /\ processor = [pc |-> "wait", left |-> 0, step |-> 0, to |-> 1]
    /\ passenger = [p \in Passengers |-> [pc |-> "idle", asks |-> {}]]

-----------------------------------------------------------------------------
(* Callers *)

boundaryChecks(f, d) ==
    /\ f \in Floors
    /\ ~(f = 1 /\ d = "DOWN")
    /\ ~(f = FloorCount /\ d = "UP")

Calling(p) ==
    /\ passenger[p].pc = "idle"
    /\ Cardinality(pending \cup UNION {passenger[q].asks : q \in Passengers})
          < MaxPending

\* Mutant of AddRequest: without the map of pending requests.
AddRequestAgain(new) ==
    LET downwards == {r \in new : r.direction = "DOWN"}
    IN /\ pending' = pending \cup new
       /\ down' = down \cup downwards
       /\ up' = up \cup (new \ downwards)
       /\ UNCHANGED sweep

\* A request that is pending already is not added again.
AddRequest(asks) ==
    LET new == asks \ pending
        downwards == {r \in new : r.direction = "DOWN"}
    IN /\ pending' = pending \cup new
       /\ down' = down \cup downwards
       /\ up' = up \cup (new \ downwards)
       /\ UNCHANGED sweep

Call(p, f, d) ==
    /\ boundaryChecks(f, d)
    /\ Calling(p)
    /\ AddRequest({[floor |-> f, direction |-> d, type |-> "EXTERNAL"]})
    /\ passenger' = [passenger EXCEPT ![p].pc = "signal"]
    /\ UNCHANGED <<carVars, workCh, shutdown, processor>>

\* The direction comes from the floor under the read lock; the request is added
\* later, when the car may be elsewhere.
SelectFloor(p, f) ==
    /\ Calling(p)
    /\ passenger' = [passenger EXCEPT ![p] = [pc |-> "add", asks |->
          {[floor |-> f, direction |-> IF f < floor THEN "DOWN" ELSE "UP",
            type |-> "INTERNAL"]}]]
    /\ UNCHANGED <<strategyVars, carVars, workCh, shutdown, processor>>

SelectAdd(p) ==
    /\ passenger[p].pc = "add"
    /\ AddRequest(passenger[p].asks)
    /\ passenger' = [passenger EXCEPT ![p] = [pc |-> "signal", asks |-> {}]]
    /\ UNCHANGED <<carVars, workCh, shutdown, processor>>

\* The send into workCh does not block: one token is enough.
signalWork(p) ==
    /\ passenger[p].pc = "signal"
    /\ workCh' = TRUE
    /\ passenger' = [passenger EXCEPT ![p].pc = "idle"]
    /\ UNCHANGED <<strategyVars, carVars, shutdown, processor>>

\* One caller of Shutdown at a time: concurrent ones could both find the channel
\* open and close it twice.
Shutdown ==
    /\ ~shutdown
    /\ shutdown' = TRUE
    /\ UNCHANGED <<strategyVars, carVars, workCh, processor, passenger>>

-----------------------------------------------------------------------------
(* The strategy *)

\* rebucket: what lies below the car goes to down, what lies above it to up.
Below == {r \in up : r.floor < floor}

\* Mutant of Above: rebucket has its first loop only.
AboveStays == {}

Above == {r \in down \cup Below : r.floor > floor}
upRebucketed == (up \ Below) \cup Above
downRebucketed == (down \cup Below) \ Above

opposite(d) == IF d = "UP" THEN "DOWN" ELSE "UP"

\* The requests that heap.Pop may give.
Least(heap) == {r \in heap : \A s \in heap : r.floor <= s.floor}
Greatest(heap) == {r \in heap : \A s \in heap : r.floor >= s.floor}

\* Mutant of Turn: the sweep goes up whenever it can.
TurnUpFirst == IF upRebucketed # {} THEN "UP" ELSE "DOWN"

\* The direction of the next stop: the sweep's, unless its heap is empty.
Turn ==
    LET ahead == IF sweep = "UP" THEN upRebucketed ELSE downRebucketed
    IN IF ahead # {} THEN sweep ELSE opposite(sweep)

-----------------------------------------------------------------------------
(* The processor *)

At(pc) == processor.pc = pc
Goto(pc) == processor' = [pc |-> pc, left |-> 0, step |-> 0, to |-> 1]

ReceiveWork ==
    /\ At("wait") /\ workCh
    /\ workCh' = FALSE
    /\ Goto("next")
    /\ UNCHANGED <<strategyVars, carVars, shutdown, passenger>>

ReceiveShutdown ==
    /\ At("wait") /\ shutdown
    /\ Goto("done")
    /\ UNCHANGED <<strategyVars, carVars, workCh, shutdown, passenger>>

\* NextRequest with a result.
NextRequest ==
    /\ At("next")
    /\ \E r \in IF Turn = "UP" THEN Least(upRebucketed) ELSE Greatest(downRebucketed) :
          /\ up' = upRebucketed \ {r}
          /\ down' = downRebucketed \ {r}
          /\ pending' = pending \ {r}
          /\ processor' = [processor EXCEPT !.pc = "start", !.to = r.floor]
    /\ sweep' = Turn
    /\ UNCHANGED <<carVars, workCh, shutdown, passenger>>

\* NextRequest without one: two turns of the sweep, back to select.
NoRequest ==
    /\ At("next")
    /\ up = {} /\ down = {}
    /\ Goto("wait")
    /\ UNCHANGED <<strategyVars, carVars, workCh, shutdown, passenger>>

\* moveTo: distance, step and direction.
StartMove ==
    LET distance == processor.to - floor
    IN /\ At("start")
       /\ direction' = CASE distance < 0 -> "DOWN"
                         [] distance > 0 -> "UP"
                         [] distance = 0 -> "IDLE"
       /\ processor' = [processor EXCEPT !.pc = "travel",
             !.left = IF distance < 0 THEN -distance ELSE distance,
             !.step = IF distance < 0 THEN -1 ELSE IF distance > 0 THEN 1 ELSE 0]
       /\ UNCHANGED <<strategyVars, floor, door, workCh, shutdown, passenger>>

Travel ==
    /\ At("travel") /\ processor.left > 0
    /\ floor' = floor + processor.step
    /\ processor' = [processor EXCEPT !.left = @ - 1]
    /\ UNCHANGED <<strategyVars, direction, door, workCh, shutdown, passenger>>

OpenDoor ==
    /\ At("travel") /\ processor.left = 0
    /\ door' = "OPEN" /\ direction' = "IDLE"
    /\ Goto("dwell")
    /\ UNCHANGED <<strategyVars, floor, workCh, shutdown, passenger>>

\* Mutant of CloseDoor: one request for each token.
CloseDoorWait ==
    /\ At("dwell")
    /\ door' = "CLOSED"
    /\ Goto("wait")
    /\ UNCHANGED <<strategyVars, floor, direction, workCh, shutdown, passenger>>

CloseDoor ==
    /\ At("dwell")
    /\ door' = "CLOSED"
    /\ Goto("next")
    /\ UNCHANGED <<strategyVars, floor, direction, workCh, shutdown, passenger>>

\* The selects of moveTo see that shutdown is closed: moveTo returns, and the
\* inner loop of the processor asks for the next request.
Interrupted ==
    /\ \/ At("travel") /\ processor.left > 0
       \/ At("dwell")
    /\ shutdown
    /\ Goto("next")
    /\ UNCHANGED <<strategyVars, carVars, workCh, shutdown, passenger>>

-----------------------------------------------------------------------------
PassengerStep(p) == SelectAdd(p) \/ signalWork(p)
ProcessorStep == \/ ReceiveWork \/ ReceiveShutdown \/ NextRequest \/ NoRequest
                 \/ StartMove \/ Travel \/ OpenDoor \/ CloseDoor \/ Interrupted

ElevatorNext ==
    \/ \E p \in Waiting, f \in Floors, d \in Directions : Call(p, f, d)
    \/ \E p \in Riding, f \in Floors : SelectFloor(p, f)
    \/ \E p \in Passengers : PassengerStep(p)
    \/ Shutdown
    \/ ProcessorStep

\* The goroutines that are in a call, and the processor, are scheduled and timers
\* fire; nobody has to call.
ElevatorFairness == /\ \A p \in Passengers : WF_elevatorVars(PassengerStep(p))
                    /\ WF_elevatorVars(ProcessorStep)

ElevatorSpec == ElevatorInit /\ [][ElevatorNext]_elevatorVars /\ ElevatorFairness

-----------------------------------------------------------------------------
(* Properties *)

\* Types, and the map of pending requests, which AddRequest trusts to tell a
\* duplicate, has exactly the requests of the heaps, each in one of them.
ElevatorTypeOK ==
    /\ up \subseteq Requests /\ down \subseteq Requests
    /\ pending = up \cup down /\ up \cap down = {}
    /\ sweep \in {"UP", "DOWN"}
    /\ floor \in Floors
    /\ direction \in Directions /\ door \in {"OPEN", "CLOSED"}
    /\ workCh \in BOOLEAN /\ shutdown \in BOOLEAN
    /\ processor \in [pc : {"wait", "next", "start", "travel", "dwell", "done"},
                      left : 0..FloorCount, step : -1..1, to : Floors]
    /\ passenger \in [Passengers -> [pc : {"idle", "add", "signal"},
                                     asks : SUBSET Requests]]

\* The token of one place is enough: the processor never waits in its select
\* while a request is pending, unless the token is there or about to be sent.
NoLostWork ==
    At("wait") /\ pending # {} =>
        workCh \/ \E p \in Passengers : passenger[p].pc = "signal"

\* The two heaps, whose contents were sorted when the car was elsewhere, give
\* the nearest stop in the direction of the sweep, which turns only when nothing
\* is left ahead.  That is what readme.md:374-377 says, except that a stop at the
\* car's own floor asked for in the other direction is left for the way back,
\* where the readme says "at or above" and "at or below" (see Look).
LookOrder == INSTANCE Look
    WITH Stops <- Requests, NoTarget <- 0, waiting <- pending,
         stopped <- shutdown,
         target <- IF At("start") \/ At("travel") THEN processor.to ELSE 0
ImplementsLook == LookOrder!Spec

\* No request is passed over for ever, however many others keep coming: the only
\* way to starve it is to keep the car at one floor by asking for that floor
\* again and again, or to shut the elevator down.
Served ==
    []<><<floor' # floor>>_floor =>
        \A r \in Requests : []<>(r \notin pending \/ shutdown)
===============================================================================
