--------------------------- MODULE StandaloneProofs ---------------------------
(***************************************************************************)
(* Proofs about the four programs that share nothing, each for every value *)
(* of its constants, on its own specification and on the run of all four:  *)
(*   - the elevator: its types, that no work is lost, and that it          *)
(*     implements Look, for any floors, callers and bound on the requests; *)
(*   - the rate limiter: that it keeps the rate, for any users,            *)
(*     goroutines, capacity, refill rate and length of the run;            *)
(*   - the game: that it stays consistent, for any board, die, number of   *)
(*     players and of pieces;                                              *)
(*   - the cache: that its map and its pointers describe one list, and     *)
(*     that it implements Recency, for any keys, values and capacity.      *)
(***************************************************************************)
EXTENDS MCStandalone, SequenceTheorems, FiniteSetTheorems, TLAPS

\* Counting is by Recursion, whose names are those of other operators here.
Counting == INSTANCE Recursion

-----------------------------------------------------------------------------
(* The elevator: the inductive invariant *)

\* What is left of a move leads to the floor it is for.
OnCourse ==
    At("travel") =>
        \/ processor.step = 1 /\ processor.to = floor + processor.left
        \/ processor.step = -1 /\ processor.to = floor - processor.left
        \/ processor.step = 0 /\ processor.left = 0 /\ processor.to = floor

\* Between its two sections a SelectFloor carries one request.
OneAsked ==
    \A p \in Passengers : passenger[p].pc = "add" =>
        \E r \in Requests : passenger[p].asks = {r}

ElevatorIInv == ElevatorTypeOK /\ OnCourse /\ OneAsked /\ NoLostWork

\* The car moves in the direction of the sweep.
OnSweep ==
    /\ At("start") => IF sweep = "UP" THEN processor.to >= floor ELSE processor.to <= floor
    /\ At("travel") /\ processor.left > 0 => processor.step = IF sweep = "UP" THEN 1 ELSE -1

\* The heap of the other direction has nothing at the car's floor or ahead of it
\* but what was asked for in that direction: what lies behind the car got there by
\* rebucket, and the sweep has only taken the car further away from it.
Filed ==
    /\ sweep = "UP" => \A r \in down : r.direction = "DOWN" \/ r.floor < floor
    /\ sweep = "DOWN" => \A r \in up : r.direction # "DOWN" \/ r.floor > floor

SweepIInv == ElevatorIInv /\ OnSweep /\ Filed

-----------------------------------------------------------------------------
(* Lemmas about rebucket *)

\* rebucket moves requests between the heaps: it loses and doubles none, and puts
\* each where the car's floor says.
LEMMA Rebucketed ==
    ASSUME ElevatorTypeOK
    PROVE  /\ upRebucketed \cup downRebucketed = pending
           /\ upRebucketed \cap downRebucketed = {}
           /\ \A r \in upRebucketed : r.floor >= floor
           /\ \A r \in downRebucketed : r.floor <= floor
           /\ \A r \in pending : /\ r.floor > floor => r \in upRebucketed
                                 /\ r.floor < floor => r \in downRebucketed
<1>1. /\ up \subseteq Requests /\ down \subseteq Requests
      /\ pending = up \cup down /\ up \cap down = {}
  BY DEF ElevatorTypeOK
<1>2. floor \in Int /\ \A r \in up \cup down : r.floor \in Int
  BY DEF ElevatorTypeOK, Requests, Floors
<1> QED
  BY <1>1, <1>2 DEF upRebucketed, downRebucketed, Above, Below

\* The heap of the turn is not empty when a request is pending.
LEMMA TurnHas ==
    ASSUME ElevatorTypeOK, pending # {}
    PROVE  /\ Turn \in {"UP", "DOWN"}
           /\ Turn = "UP" => upRebucketed # {}
           /\ Turn = "DOWN" => downRebucketed # {}
           /\ Turn # sweep => IF sweep = "UP" THEN upRebucketed = {}
                                              ELSE downRebucketed = {}
<1>1. upRebucketed # {} \/ downRebucketed # {}
  BY Rebucketed
<1>2. sweep \in {"UP", "DOWN"}
  BY DEF ElevatorTypeOK
<1> QED
  BY <1>1, <1>2 DEF Turn, opposite

-----------------------------------------------------------------------------
(* The invariant is inductive *)

\* A car at rest with no request satisfies the invariant.
LEMMA ElevatorInitIInv == ElevatorInit => ElevatorIInv
<1> SUFFICES ASSUME ElevatorInit PROVE ElevatorIInv
  OBVIOUS
<1> USE DEF ElevatorInit
<1>1. ElevatorTypeOK
  <2>1. processor \in [pc : {"wait", "next", "start", "travel", "dwell", "done"},
                        left : 0..FloorCount, step : -1..1, to : Floors]
    BY ElevatorAssumption DEF Floors
  <2>2. floor \in Floors
    BY ElevatorAssumption DEF Floors
  <2> QED
    BY <2>1, <2>2 DEF ElevatorTypeOK, Directions
<1>2. OnCourse /\ OneAsked /\ NoLostWork
  BY DEF OnCourse, OneAsked, NoLostWork, At
<1> QED
  BY <1>1, <1>2 DEF ElevatorIInv

\* What AddRequest does to the heaps and the map.
LEMMA Added ==
    ASSUME ElevatorTypeOK, NEW asks \in SUBSET Requests, AddRequest(asks)
    PROVE  /\ up' \subseteq Requests /\ down' \subseteq Requests
           /\ pending' = up' \cup down' /\ up' \cap down' = {}
           /\ pending' = pending \cup asks
           /\ sweep' = sweep
  BY DEF ElevatorTypeOK, AddRequest

\* Call adds a request and leaves its caller about to send the token.
LEMMA CallIInv ==
    ASSUME ElevatorIInv, NEW p \in Waiting, NEW f \in Floors, NEW d \in Directions,
           Call(p, f, d)
    PROVE  ElevatorIInv'
<1> DEFINE r == [floor |-> f, direction |-> d, type |-> "EXTERNAL"]
<1> USE DEF ElevatorIInv, Call
<1>1. {r} \in SUBSET Requests /\ AddRequest({r})
  BY DEF Requests
<1>2. p \in Passengers /\ passenger[p].pc = "idle"
  BY DEF Passengers, Calling
<1>3. ElevatorTypeOK'
  <2>1. passenger' \in [Passengers -> [pc : {"idle", "add", "signal"},
                                       asks : SUBSET Requests]]
    BY <1>2 DEF ElevatorTypeOK
  <2> QED
    BY <1>1, <2>1, Added DEF ElevatorTypeOK, carVars
<1>4. passenger'[p].pc = "signal"
      /\ \A q \in Passengers : q # p => passenger'[q] = passenger[q]
  BY <1>2 DEF ElevatorTypeOK
<1>5. OnCourse' /\ OneAsked' /\ NoLostWork'
  BY <1>2, <1>4 DEF OnCourse, OneAsked, NoLostWork, At, carVars
<1> QED
  BY <1>3, <1>5

\* SelectFloor has read the floor; no request is added yet.
LEMMA SelectFloorIInv ==
    ASSUME ElevatorIInv, NEW p \in Riding, NEW f \in Floors, SelectFloor(p, f)
    PROVE  ElevatorIInv'
<1> DEFINE d == IF f < floor THEN "DOWN" ELSE "UP"
           r == [floor |-> f, direction |-> d, type |-> "INTERNAL"]
<1> USE DEF ElevatorIInv, SelectFloor
<1>1. r \in Requests
  BY DEF Requests, Directions
<1>2. p \in Passengers /\ passenger[p].pc = "idle"
  BY DEF Passengers, Calling
<1>3. passenger' = [passenger EXCEPT ![p] = [pc |-> "add", asks |-> {r}]]
  OBVIOUS
<1>4. ElevatorTypeOK'
  BY <1>1, <1>2, <1>3 DEF ElevatorTypeOK, strategyVars, carVars
<1>5. passenger'[p] = [pc |-> "add", asks |-> {r}]
      /\ \A q \in Passengers : q # p => passenger'[q] = passenger[q]
  BY <1>2, <1>3 DEF ElevatorTypeOK
<1>6. OneAsked'
  BY <1>1, <1>5 DEF OneAsked
<1>7. OnCourse' /\ NoLostWork'
  BY <1>2, <1>5 DEF OnCourse, NoLostWork, At, carVars, strategyVars
<1> QED
  BY <1>4, <1>6, <1>7

\* SelectFloor adds its request, with the direction it derived before.
LEMMA SelectAddIInv ==
    ASSUME ElevatorIInv, NEW p \in Passengers, SelectAdd(p)
    PROVE  ElevatorIInv'
<1> USE DEF ElevatorIInv, SelectAdd
<1>1. passenger[p].asks \in SUBSET Requests
  BY DEF ElevatorTypeOK
<1>2. ElevatorTypeOK'
  <2>1. passenger' \in [Passengers -> [pc : {"idle", "add", "signal"},
                                       asks : SUBSET Requests]]
    BY DEF ElevatorTypeOK
  <2> QED
    BY <1>1, <2>1, Added DEF ElevatorTypeOK, carVars
<1>3. passenger'[p].pc = "signal"
      /\ \A q \in Passengers : q # p => passenger'[q] = passenger[q]
  BY DEF ElevatorTypeOK
<1>4. OnCourse' /\ OneAsked' /\ NoLostWork'
  BY <1>3 DEF OnCourse, OneAsked, NoLostWork, At, carVars
<1> QED
  BY <1>2, <1>4

\* The token is sent, or dropped because one is there already.
LEMMA SignalIInv ==
    ASSUME ElevatorIInv, NEW p \in Passengers, signalWork(p)
    PROVE  ElevatorIInv'
<1> USE DEF ElevatorIInv, signalWork
<1>1. ElevatorTypeOK'
  BY DEF ElevatorTypeOK, strategyVars, carVars
<1>2. passenger'[p].pc = "idle"
      /\ \A q \in Passengers : q # p => passenger'[q] = passenger[q]
  BY DEF ElevatorTypeOK
<1>3. OnCourse' /\ OneAsked' /\ NoLostWork'
  BY <1>2 DEF OnCourse, OneAsked, NoLostWork, At, carVars, strategyVars
<1> QED
  BY <1>1, <1>3

\* Shutdown closes the channel and touches no request.
LEMMA ShutdownIInv == ElevatorIInv /\ Shutdown => ElevatorIInv'
  BY DEF ElevatorIInv, Shutdown, ElevatorTypeOK, OnCourse, OneAsked, NoLostWork, At,
         strategyVars, carVars

\* The processor before it moves: select, NextRequest, the start of a move.
LEMMA ReceiveIInv == ElevatorIInv /\ (ReceiveWork \/ ReceiveShutdown) => ElevatorIInv'
<1> SUFFICES ASSUME ElevatorIInv, ReceiveWork \/ ReceiveShutdown PROVE ElevatorIInv'
  OBVIOUS
<1> USE DEF ElevatorIInv, ReceiveWork, ReceiveShutdown, Goto
<1>1. ElevatorTypeOK'
  <2>1. processor' \in [pc : {"wait", "next", "start", "travel", "dwell", "done"},
                        left : 0..FloorCount, step : -1..1, to : Floors]
    BY ElevatorAssumption DEF Floors
  <2> QED
    BY <2>1 DEF ElevatorTypeOK, strategyVars, carVars
<1>2. OnCourse' /\ OneAsked' /\ NoLostWork'
  BY DEF OnCourse, OneAsked, NoLostWork, At
<1> QED
  BY <1>1, <1>2

\* NextRequest takes its request out of the heap and out of the map.
LEMMA NextRequestIInv == ElevatorIInv /\ NextRequest => ElevatorIInv'
<1> SUFFICES ASSUME ElevatorIInv, NextRequest PROVE ElevatorIInv'
  OBVIOUS
<1> USE DEF ElevatorIInv, NextRequest
<1>1. PICK r \in IF Turn = "UP" THEN Least(upRebucketed) ELSE Greatest(downRebucketed) :
          /\ up' = upRebucketed \ {r}
          /\ down' = downRebucketed \ {r}
          /\ pending' = pending \ {r}
          /\ processor' = [processor EXCEPT !.pc = "start", !.to = r.floor]
  OBVIOUS
<1>2. r \in pending
  BY <1>1, Rebucketed DEF Least, Greatest
<1>3. r.floor \in Floors
  BY <1>2 DEF ElevatorTypeOK, Requests
<1>4. up' \subseteq Requests /\ down' \subseteq Requests
      /\ pending' = up' \cup down' /\ up' \cap down' = {}
  BY <1>1, Rebucketed DEF ElevatorTypeOK
<1>5. sweep' \in {"UP", "DOWN"}
  BY <1>2, TurnHas
<1>6. processor' \in [pc : {"wait", "next", "start", "travel", "dwell", "done"},
                      left : 0..FloorCount, step : -1..1, to : Floors]
  BY <1>1, <1>3 DEF ElevatorTypeOK
<1>7. ElevatorTypeOK'
  BY <1>4, <1>5, <1>6 DEF ElevatorTypeOK, carVars
<1>8. processor'.pc = "start"
  BY <1>1 DEF ElevatorTypeOK
<1>9. OnCourse' /\ OneAsked' /\ NoLostWork'
  BY <1>8 DEF OnCourse, OneAsked, NoLostWork, At
<1> QED
  BY <1>7, <1>9

\* The processor goes back to waiting only when nothing is pending.
LEMMA NoRequestIInv == ElevatorIInv /\ NoRequest => ElevatorIInv'
<1> SUFFICES ASSUME ElevatorIInv, NoRequest PROVE ElevatorIInv'
  OBVIOUS
<1> USE DEF ElevatorIInv, NoRequest, Goto
<1>1. ElevatorTypeOK'
  <2>1. 1 \in Floors
    BY ElevatorAssumption DEF Floors
  <2> QED
    BY <2>1, ElevatorAssumption DEF ElevatorTypeOK, strategyVars, carVars
<1>2. pending' = {}
  BY DEF ElevatorTypeOK, strategyVars
<1>3. OnCourse' /\ OneAsked' /\ NoLostWork'
  BY <1>2 DEF OnCourse, OneAsked, NoLostWork, At
<1> QED
  BY <1>1, <1>3

\* A move begins with its direction, towards the request that was taken.
LEMMA StartMoveIInv == ElevatorIInv /\ StartMove => ElevatorIInv'
<1> SUFFICES ASSUME ElevatorIInv, StartMove PROVE ElevatorIInv'
  OBVIOUS
<1> DEFINE distance == processor.to - floor
           left == IF distance < 0 THEN -distance ELSE distance
           step == IF distance < 0 THEN -1 ELSE IF distance > 0 THEN 1 ELSE 0
<1> USE DEF ElevatorIInv
<1>1. /\ processor' = [processor EXCEPT !.pc = "travel", !.left = left, !.step = step]
      /\ direction' \in Directions
      /\ UNCHANGED <<strategyVars, floor, door, workCh, shutdown, passenger>>
  <2>1. floor \in Int /\ processor.to \in Int
    BY ElevatorAssumption DEF ElevatorTypeOK, Floors
  <2> QED
    BY <2>1 DEF StartMove, Directions
<1>2. /\ floor \in Int /\ processor.to \in Int
      /\ left \in 0..FloorCount /\ step \in -1..1
  BY ElevatorAssumption DEF ElevatorTypeOK, Floors
<1>3. /\ processor'.pc = "travel" /\ processor'.left = left
      /\ processor'.step = step /\ processor'.to = processor.to
  BY <1>1 DEF ElevatorTypeOK
<1>4. ElevatorTypeOK'
  <2>1. processor' \in [pc : {"wait", "next", "start", "travel", "dwell", "done"},
                        left : 0..FloorCount, step : -1..1, to : Floors]
    BY <1>1, <1>2 DEF ElevatorTypeOK
  <2> QED
    BY <1>1, <2>1 DEF ElevatorTypeOK, strategyVars
<1>5. OnCourse'
  BY <1>1, <1>2, <1>3 DEF OnCourse
<1>6. OneAsked' /\ NoLostWork'
  BY <1>1, <1>3 DEF OneAsked, NoLostWork, At
<1> QED
  BY <1>4, <1>5, <1>6

\* The car stays between the first and the last floor because it is on its
\* course to one of them.
LEMMA TravelIInv == ElevatorIInv /\ Travel => ElevatorIInv'
<1> SUFFICES ASSUME ElevatorIInv, Travel PROVE ElevatorIInv'
  OBVIOUS
<1> USE DEF ElevatorIInv, Travel
<1>1. /\ floor \in Int /\ processor.to \in Floors /\ processor.left \in Int
      /\ processor.left > 0 /\ processor.left <= FloorCount
      /\ processor.step \in -1..1
  BY ElevatorAssumption DEF ElevatorTypeOK, Floors
<1>2. \/ processor.step = 1 /\ processor.to = floor + processor.left
      \/ processor.step = -1 /\ processor.to = floor - processor.left
  BY <1>1 DEF OnCourse
<1>3. /\ processor'.pc = "travel" /\ processor'.left = processor.left - 1
      /\ processor'.step = processor.step /\ processor'.to = processor.to
  BY DEF ElevatorTypeOK, At
<1>4. floor' \in Floors
  BY <1>1, <1>2, ElevatorAssumption DEF ElevatorTypeOK, Floors
<1>5. processor' \in [pc : {"wait", "next", "start", "travel", "dwell", "done"},
                      left : 0..FloorCount, step : -1..1, to : Floors]
  <2>1. processor.left - 1 \in 0..FloorCount
    BY <1>1, ElevatorAssumption
  <2> QED
    BY <2>1 DEF ElevatorTypeOK
<1>6. ElevatorTypeOK'
  BY <1>4, <1>5 DEF ElevatorTypeOK, strategyVars
<1>7. OnCourse'
  BY <1>1, <1>2, <1>3 DEF OnCourse
<1>8. OneAsked' /\ NoLostWork'
  BY <1>3 DEF OneAsked, NoLostWork, At
<1> QED
  BY <1>6, <1>7, <1>8

\* The end of a move leaves the requests alone.
LEMMA DoorIInv == ElevatorIInv /\ (OpenDoor \/ CloseDoor \/ Interrupted) => ElevatorIInv'
<1> SUFFICES ASSUME ElevatorIInv, OpenDoor \/ CloseDoor \/ Interrupted PROVE ElevatorIInv'
  OBVIOUS
<1> USE DEF ElevatorIInv, OpenDoor, CloseDoor, Interrupted, Goto
<1>1. ElevatorTypeOK'
  <2>1. 1 \in Floors
    BY ElevatorAssumption DEF Floors
  <2> QED
    BY <2>1, ElevatorAssumption DEF ElevatorTypeOK, strategyVars, carVars, Directions
<1>2. OnCourse' /\ OneAsked' /\ NoLostWork'
  BY DEF OnCourse, OneAsked, NoLostWork, At
<1> QED
  BY <1>1, <1>2

\* The steps together.
LEMMA ElevatorNextIInv == ElevatorIInv /\ [ElevatorNext]_elevatorVars => ElevatorIInv'
<1> SUFFICES ASSUME ElevatorIInv, [ElevatorNext]_elevatorVars PROVE ElevatorIInv'
  OBVIOUS
<1>1. CASE \E p \in Waiting, f \in Floors, d \in Directions : Call(p, f, d)
  BY <1>1, CallIInv
<1>2. CASE \E p \in Riding, f \in Floors : SelectFloor(p, f)
  BY <1>2, SelectFloorIInv
<1>3. CASE \E p \in Passengers : PassengerStep(p)
  BY <1>3, SelectAddIInv, SignalIInv DEF PassengerStep
<1>4. CASE Shutdown
  BY <1>4, ShutdownIInv
<1>5. CASE ProcessorStep
  BY <1>5, ReceiveIInv, NextRequestIInv, NoRequestIInv, StartMoveIInv, TravelIInv,
     DoorIInv DEF ProcessorStep
<1>6. CASE UNCHANGED elevatorVars
  BY <1>6 DEF ElevatorIInv, ElevatorTypeOK, OnCourse, OneAsked, NoLostWork, At,
              elevatorVars, strategyVars, carVars
<1> QED
  BY <1>1, <1>2, <1>3, <1>4, <1>5, <1>6 DEF ElevatorNext

-----------------------------------------------------------------------------
(* The sweep: what the heap of the other direction has *)

\* What lies at the car's floor in the heap of the other direction after rebucket
\* was asked for in that direction.
LEMMA OtherHeap ==
    ASSUME ElevatorTypeOK, Filed
    PROVE  /\ sweep = "UP" => \A r \in downRebucketed : r.direction = "DOWN" \/ r.floor < floor
           /\ sweep = "DOWN" => \A r \in upRebucketed : r.direction # "DOWN" \/ r.floor > floor
  BY DEF Filed, upRebucketed, downRebucketed, Above, Below

\* A request that is added goes to the heap of its own direction.
LEMMA AddFiles ==
    ASSUME Filed, NEW asks, AddRequest(asks), floor' = floor
    PROVE  Filed'
  BY DEF Filed, AddRequest

\* A step that leaves car, sweep and heaps alone keeps what lies where.
LEMMA FiledStays ==
    ASSUME Filed, UNCHANGED <<up, down, sweep, floor>> PROVE Filed'
  BY DEF Filed

\* NextRequest turns only to leave an empty heap behind, and the floor it picks is
\* in the direction of the turn.
LEMMA NextRequestSweeps == SweepIInv /\ NextRequest => OnSweep' /\ Filed'
<1> SUFFICES ASSUME SweepIInv, NextRequest PROVE OnSweep' /\ Filed'
  OBVIOUS
<1>0. ElevatorTypeOK /\ Filed
  BY DEF SweepIInv, ElevatorIInv
<1>1. PICK r \in IF Turn = "UP" THEN Least(upRebucketed) ELSE Greatest(downRebucketed) :
          /\ up' = upRebucketed \ {r}
          /\ down' = downRebucketed \ {r}
          /\ processor' = [processor EXCEPT !.pc = "start", !.to = r.floor]
  BY DEF NextRequest
<1>2. r \in pending
  BY <1>0, <1>1, Rebucketed DEF Least, Greatest
<1>3. /\ sweep' = Turn /\ floor' = floor /\ Turn \in {"UP", "DOWN"} /\ sweep \in {"UP", "DOWN"}
      /\ Turn # sweep => IF sweep = "UP" THEN upRebucketed = {} ELSE downRebucketed = {}
  BY <1>0, <1>2, TurnHas DEF NextRequest, carVars, ElevatorTypeOK
<1>4. processor'.pc = "start" /\ processor'.to = r.floor
  BY <1>0, <1>1 DEF ElevatorTypeOK
<1>5. IF Turn = "UP" THEN r.floor >= floor ELSE r.floor <= floor
  BY <1>0, <1>1, Rebucketed DEF Least, Greatest
<1>6. OnSweep'
  BY <1>3, <1>4, <1>5 DEF OnSweep, At
<1>7. Filed'
  <2>1. CASE Turn = sweep
    BY <1>0, <1>1, <1>3, <2>1, OtherHeap DEF Filed
  <2>2. CASE Turn # sweep
    BY <1>1, <1>3, <2>2 DEF Filed
  <2> QED
    BY <2>1, <2>2
<1> QED
  BY <1>6, <1>7

\* A move goes in the direction of the sweep.
LEMMA StartMoveSweeps == SweepIInv /\ StartMove => OnSweep' /\ Filed'
<1> SUFFICES ASSUME SweepIInv, StartMove PROVE OnSweep' /\ Filed'
  OBVIOUS
<1> DEFINE distance == processor.to - floor
           left == IF distance < 0 THEN -distance ELSE distance
           step == IF distance < 0 THEN -1 ELSE IF distance > 0 THEN 1 ELSE 0
<1>1. /\ floor \in Int /\ processor.to \in Int /\ sweep \in {"UP", "DOWN"}
      /\ IF sweep = "UP" THEN processor.to >= floor ELSE processor.to <= floor
  BY ElevatorAssumption DEF SweepIInv, ElevatorIInv, ElevatorTypeOK, Floors, OnSweep, StartMove
<1>2. /\ processor'.pc = "travel" /\ processor'.left = left /\ processor'.step = step
      /\ UNCHANGED <<up, down, sweep, floor>>
  BY DEF SweepIInv, ElevatorIInv, ElevatorTypeOK, StartMove, strategyVars
<1>3. OnSweep'
  BY <1>1, <1>2 DEF OnSweep, At
<1> QED
  BY <1>2, <1>3, FiledStays DEF SweepIInv

\* A floor on the way takes the car away from what lies behind it.
LEMMA TravelSweeps == SweepIInv /\ Travel => OnSweep' /\ Filed'
<1> SUFFICES ASSUME SweepIInv, Travel PROVE OnSweep' /\ Filed'
  OBVIOUS
<1>1. /\ floor \in Int /\ processor.left \in Int /\ sweep \in {"UP", "DOWN"}
      /\ processor.step = IF sweep = "UP" THEN 1 ELSE -1
      /\ \A r \in up \cup down : r.floor \in Int
  BY DEF SweepIInv, ElevatorIInv, ElevatorTypeOK, Floors, Requests, OnSweep, Travel
<1>2. /\ processor'.pc = "travel" /\ processor'.left = processor.left - 1
      /\ processor'.step = processor.step /\ floor' = floor + processor.step
      /\ UNCHANGED <<up, down, sweep>>
  BY DEF SweepIInv, ElevatorIInv, ElevatorTypeOK, Travel, strategyVars, At
<1>3. OnSweep'
  BY <1>1, <1>2 DEF OnSweep, At
<1>4. Filed'
  BY <1>1, <1>2 DEF Filed, SweepIInv
<1> QED
  BY <1>3, <1>4

\* The steps of the elevator keep the sweep in order.
LEMMA SweepStep == SweepIInv /\ [ElevatorNext]_elevatorVars => SweepIInv'
<1> SUFFICES ASSUME SweepIInv, [ElevatorNext]_elevatorVars PROVE OnSweep' /\ Filed'
  BY ElevatorNextIInv DEF SweepIInv
<1>0. OnSweep /\ Filed
  BY DEF SweepIInv
<1>1. CASE \E p \in Waiting, f \in Floors, d \in Directions : Call(p, f, d)
  BY <1>0, <1>1, AddFiles DEF Call, AddRequest, OnSweep, At, carVars
<1>2. CASE \E p \in Riding, f \in Floors : SelectFloor(p, f)
  BY <1>0, <1>2, FiledStays DEF SelectFloor, OnSweep, At, carVars, strategyVars
<1>3. CASE \E p \in Passengers : PassengerStep(p)
  <2>1. PICK p \in Passengers : SelectAdd(p) \/ signalWork(p)
    BY <1>3 DEF PassengerStep
  <2>2. CASE SelectAdd(p)
    BY <1>0, <2>2, AddFiles DEF SelectAdd, AddRequest, OnSweep, At, carVars
  <2>3. CASE signalWork(p)
    BY <1>0, <2>3, FiledStays DEF signalWork, OnSweep, At, carVars, strategyVars
  <2> QED
    BY <2>1, <2>2, <2>3
<1>4. CASE Shutdown
  BY <1>0, <1>4, FiledStays DEF Shutdown, OnSweep, At, carVars, strategyVars
<1>5. CASE ReceiveWork \/ ReceiveShutdown \/ NoRequest \/ OpenDoor \/ CloseDoor \/ Interrupted
  <2>1. processor'.pc \notin {"start", "travel"} /\ UNCHANGED <<up, down, sweep, floor>>
    BY <1>5 DEF ReceiveWork, ReceiveShutdown, NoRequest, OpenDoor, CloseDoor, Interrupted,
                Goto, strategyVars, carVars
  <2> QED
    BY <1>0, <2>1, FiledStays DEF OnSweep, At
<1>6. CASE NextRequest \/ StartMove \/ Travel
  BY <1>6, NextRequestSweeps, StartMoveSweeps, TravelSweeps
<1>7. CASE UNCHANGED elevatorVars
  BY <1>0, <1>7, FiledStays DEF elevatorVars, OnSweep, At, carVars, strategyVars
<1> QED
  BY <1>1, <1>2, <1>3, <1>4, <1>5, <1>6, <1>7 DEF ElevatorNext, ProcessorStep

-----------------------------------------------------------------------------
(* The elevator implements Look *)

\* The target of the current move in the sense of Look; 0 when there is none.
Target == IF At("start") \/ At("travel") THEN processor.to ELSE 0

\* A step that leaves what Look has alone.
LEMMA Stutters ==
    ASSUME floor' = floor, sweep' = sweep, pending' = pending,
           shutdown' = shutdown, Target' = Target
    PROVE  [LookOrder!Next]_(LookOrder!vars)
  BY DEF LookOrder!vars, Target

\* A request that is added is asked for, also one that is pending already.
LEMMA AddedIsAsked ==
    ASSUME ElevatorIInv, NEW r \in Requests, AddRequest({r}),
           UNCHANGED <<floor, shutdown, processor>>
    PROVE  LookOrder!Next
<1>1. pending' = pending \cup {r} /\ sweep' = sweep
  BY Added DEF ElevatorIInv
<1>2. LookOrder!Ask(r)
  BY <1>1 DEF LookOrder!Ask, At
<1> QED
  BY <1>2 DEF LookOrder!Next

\* NextRequest picks as Look does: nearest ahead, and a turn only when nothing is
\* left ahead; what it passes over at the car's floor is for the way back.
LEMMA PicksInOrder == SweepIInv /\ NextRequest => LookOrder!Next
<1> SUFFICES ASSUME SweepIInv, NextRequest PROVE LookOrder!Next
  OBVIOUS
<1>0. ElevatorTypeOK /\ Filed /\ At("next")
  BY DEF SweepIInv, ElevatorIInv, NextRequest
<1>1. PICK r \in IF Turn = "UP" THEN Least(upRebucketed) ELSE Greatest(downRebucketed) :
          /\ pending' = pending \ {r}
          /\ processor' = [processor EXCEPT !.pc = "start", !.to = r.floor]
  BY DEF NextRequest
<1>2. r \in pending /\ r \in Requests
  BY <1>0, <1>1, Rebucketed DEF Least, Greatest, ElevatorTypeOK
<1>3. /\ sweep' = Turn /\ Turn \in {"UP", "DOWN"} /\ sweep \in {"UP", "DOWN"}
      /\ UNCHANGED <<floor, shutdown>>
  BY <1>0, <1>2, TurnHas DEF NextRequest, carVars, ElevatorTypeOK
<1>4. floor \in Int /\ \A s \in pending : s.floor \in Int
  BY <1>0 DEF ElevatorTypeOK, Requests, Floors
<1>5. LookOrder!InDirection(Turn, r.floor)
  BY <1>0, <1>1, <1>3, <1>4, Rebucketed DEF Least, Greatest, LookOrder!InDirection
<1>6. Turn # sweep => IF sweep = "UP" THEN upRebucketed = {} ELSE downRebucketed = {}
  BY <1>0, <1>2, TurnHas
<1>7. \A d \in {"UP", "DOWN"} : \A s \in LookOrder!Ahead(d) :
          d = sweep \/ d = Turn => s \in IF d = "UP" THEN upRebucketed ELSE downRebucketed
  <2> SUFFICES ASSUME NEW d \in {"UP", "DOWN"}, NEW s \in pending, d = sweep \/ d = Turn,
                      LookOrder!InDirection(d, s.floor), ~LookOrder!OnTheWayBack(d, s)
               PROVE  s \in IF d = "UP" THEN upRebucketed ELSE downRebucketed
    BY DEF LookOrder!Ahead
  <2>1. s \in upRebucketed \cup downRebucketed
    BY <1>0, Rebucketed
  <2>2. CASE s.floor # floor
    BY <1>0, <1>4, <2>2, Rebucketed DEF LookOrder!InDirection
  <2>3. CASE s.floor = floor /\ d = sweep
    <3>1. s.direction = "DOWN" <=> d # "UP"
      BY <2>3 DEF LookOrder!OnTheWayBack
    <3> QED
      BY <1>0, <1>4, <2>1, <2>3, <3>1, OtherHeap
  <2>4. CASE d # sweep
    BY <1>3, <1>6, <2>1, <2>4
  <2> QED
    BY <2>2, <2>3, <2>4
<1>11. Turn # sweep => LookOrder!Ahead(sweep) = {}
  BY <1>3, <1>6, <1>7
<1>12. \A s \in LookOrder!Ahead(Turn) :
           IF Turn = "UP" THEN r.floor <= s.floor ELSE r.floor >= s.floor
  BY <1>1, <1>3, <1>7 DEF Least, Greatest
<1>8. (IF At("start") \/ At("travel") THEN processor.to ELSE 0) = 0
  BY <1>0 DEF At
<1>9. (IF At("start") \/ At("travel") THEN processor.to ELSE 0)' = r.floor
  BY <1>0, <1>1 DEF At, ElevatorTypeOK
<1>10. LookOrder!Pick(r)
  BY <1>1, <1>2, <1>3, <1>5, <1>8, <1>9, <1>11, <1>12 DEF LookOrder!Pick
<1> QED
  BY <1>2, <1>10 DEF LookOrder!Next

\* A floor on the way.
LEMMA TravelsToTarget == ElevatorIInv /\ Travel => LookOrder!Next
<1> SUFFICES ASSUME ElevatorIInv, Travel PROVE LookOrder!Next
  OBVIOUS
<1>1. /\ floor \in Int /\ processor.to \in Int /\ processor.to # 0
      /\ processor.left \in Int /\ processor.left > 0
  BY ElevatorAssumption DEF ElevatorIInv, Travel, ElevatorTypeOK, Floors
<1>2. \/ processor.step = 1 /\ processor.to = floor + processor.left
      \/ processor.step = -1 /\ processor.to = floor - processor.left
  BY <1>1 DEF ElevatorIInv, Travel, OnCourse
<1>3. At("travel") /\ processor'.pc = "travel" /\ processor'.to = processor.to
      /\ floor' = floor + processor.step
  BY DEF ElevatorIInv, Travel, ElevatorTypeOK, At
<1>4. LookOrder!Travel
  BY <1>1, <1>2, <1>3 DEF Travel, LookOrder!Travel, strategyVars, At
<1> QED
  BY <1>4 DEF LookOrder!Next

\* The door opens at the target, or the move is given up after a Shutdown.
LEMMA Finishes ==
    ElevatorIInv /\ (OpenDoor \/ Interrupted) => [LookOrder!Next]_(LookOrder!vars)
<1> SUFFICES ASSUME ElevatorIInv, OpenDoor \/ Interrupted
             PROVE  [LookOrder!Next]_(LookOrder!vars)
  OBVIOUS
<1>1. Target' = 0 /\ UNCHANGED <<floor, sweep, pending, shutdown>>
  BY DEF OpenDoor, Interrupted, Goto, Target, At, strategyVars, carVars
<1>2. CASE At("travel")
  <2>1. Target = processor.to /\ processor.to # 0
    BY <1>2, ElevatorAssumption DEF Target, ElevatorIInv, ElevatorTypeOK, Floors
  <2>2. processor.to = floor \/ shutdown
    <3>1. CASE OpenDoor
      <4>1. floor \in Int /\ processor.left = 0
        BY <3>1 DEF OpenDoor, ElevatorIInv, ElevatorTypeOK, Floors
      <4> QED
        BY <1>2, <4>1 DEF ElevatorIInv, OnCourse
    <3> QED
      BY <3>1 DEF Interrupted
  <2>3. LookOrder!Finish
    BY <1>1, <2>1, <2>2 DEF LookOrder!Finish, Target
  <2> QED
    BY <2>3 DEF LookOrder!Next
<1>3. CASE ~At("travel")
  <2>1. At("dwell")
    BY <1>3 DEF OpenDoor, Interrupted
  <2>2. Target = 0
    BY <2>1 DEF Target, At
  <2> QED
    BY <1>1, <2>2, Stutters
<1> QED
  BY <1>2, <1>3

\* Every step of the elevator is a step of Look or leaves what Look speaks of alone.
LEMMA LookStep ==
    SweepIInv /\ [ElevatorNext]_elevatorVars => [LookOrder!Next]_(LookOrder!vars)
<1> SUFFICES ASSUME SweepIInv, [ElevatorNext]_elevatorVars
             PROVE  [LookOrder!Next]_(LookOrder!vars)
  OBVIOUS
<1>0. ElevatorIInv
  BY DEF SweepIInv
<1>1. CASE \E p \in Waiting, f \in Floors, d \in Directions : Call(p, f, d)
  <2>1. PICK p \in Waiting, f \in Floors, d \in Directions : Call(p, f, d)
    BY <1>1
  <2>2. [floor |-> f, direction |-> d, type |-> "EXTERNAL"] \in Requests
    BY DEF Requests
  <2> QED
    BY <1>0, <2>1, <2>2, AddedIsAsked DEF Call, carVars
<1>2. CASE \E p \in Riding, f \in Floors : SelectFloor(p, f)
  BY <1>2, Stutters DEF SelectFloor, strategyVars, carVars, Target, At
<1>3. CASE \E p \in Passengers : PassengerStep(p)
  <2>1. PICK p \in Passengers : SelectAdd(p) \/ signalWork(p)
    BY <1>3 DEF PassengerStep
  <2>2. CASE SelectAdd(p)
    <3>1. PICK r \in Requests : passenger[p].asks = {r}
      BY <1>0, <2>2 DEF ElevatorIInv, OneAsked, SelectAdd
    <3> QED
      BY <1>0, <2>2, <3>1, AddedIsAsked DEF SelectAdd, carVars
  <2>3. CASE signalWork(p)
    BY <2>3, Stutters DEF signalWork, strategyVars, carVars, Target, At
  <2> QED
    BY <2>1, <2>2, <2>3
<1>4. CASE Shutdown
  <2>1. LookOrder!Stop
    BY <1>4 DEF Shutdown, LookOrder!Stop, strategyVars, carVars, At
  <2> QED
    BY <2>1 DEF LookOrder!Next
<1>5. CASE ReceiveWork \/ ReceiveShutdown \/ NoRequest \/ CloseDoor
  <2>1. Target = 0 /\ Target' = 0
    BY <1>5 DEF ReceiveWork, ReceiveShutdown, NoRequest, CloseDoor, Goto, Target, At
  <2> QED
    BY <1>5, <2>1, Stutters DEF ReceiveWork, ReceiveShutdown, NoRequest, CloseDoor,
                                strategyVars, carVars
<1>6. CASE StartMove
  <2>1. Target' = Target
    BY <1>0, <1>6 DEF StartMove, Target, At, ElevatorIInv, ElevatorTypeOK
  <2> QED
    BY <1>6, <2>1, Stutters DEF StartMove, strategyVars
<1>7. CASE NextRequest
  BY <1>7, PicksInOrder
<1>8. CASE Travel
  BY <1>0, <1>8, TravelsToTarget
<1>9. CASE OpenDoor \/ Interrupted
  BY <1>0, <1>9, Finishes
<1>10. CASE UNCHANGED elevatorVars
  BY <1>10, Stutters DEF elevatorVars, strategyVars, carVars, Target, At
<1> QED
  BY <1>1, <1>2, <1>3, <1>4, <1>5, <1>6, <1>7, <1>8, <1>9, <1>10
     DEF ElevatorNext, ProcessorStep

-----------------------------------------------------------------------------
(* Theorems *)

\* Types, where every stop is, the course of a move, and the token, together.
THEOREM ElevatorInductive == ElevatorSpec => []ElevatorIInv
  BY ElevatorInitIInv, ElevatorNextIInv, PTL DEF ElevatorSpec

\* The sweep never passes what is asked for on its way: the car moves with the
\* sweep, and what the other heap has at its floor was asked for the other way.
THEOREM SweepInductive == ElevatorSpec => []SweepIInv
<1>1. ElevatorInit => SweepIInv
  BY ElevatorInitIInv DEF ElevatorInit, SweepIInv, OnSweep, Filed, At
<1> QED
  BY <1>1, SweepStep, PTL DEF ElevatorSpec

\* The variables keep their types, the car stays between the floors, and the map
\* of pending requests has exactly the requests of the two heaps.
THEOREM ElevatorTypeCorrect == ElevatorSpec => []ElevatorTypeOK
<1>1. ElevatorIInv => ElevatorTypeOK
  BY DEF ElevatorIInv
<1> QED
  BY ElevatorInductive, <1>1, PTL

\* The processor never waits in its select while a request is pending, unless the
\* token of workCh is there or about to be sent.
THEOREM NoWorkLost == ElevatorSpec => []NoLostWork
<1>1. ElevatorIInv => NoLostWork
  BY DEF ElevatorIInv
<1> QED
  BY ElevatorInductive, <1>1, PTL

\* The heaps, goroutines and the token implement Look: every step of the elevator
\* is a step of Look or leaves what Look speaks of alone.
THEOREM LookImplemented == ElevatorSpec => ImplementsLook
<1>1. ElevatorInit => LookOrder!Init
  BY DEF ElevatorInit, LookOrder!Init, At
<1> QED
  BY <1>1, LookStep, SweepInductive, PTL
     DEF ElevatorSpec, ImplementsLook, LookOrder!Spec

-----------------------------------------------------------------------------
(* The rate limiter: the inductive invariant *)

\* The variables without the requests and the counts.
BucketStored ==
    /\ clock \in 0..LastTick
    /\ cache \in [Users -> 0..Len(buckets)]
    /\ buckets \in Seq([tokens : 0..MaxTokens, lastRefill : 0..clock])
    /\ granted \in [Users -> Seq(0..clock)]

\* A request is for a user, and takes its token from the one bucket of that user.
Asking ==
    request \in [Goroutines ->
        [pc : {"idle"}] \cup [pc : {"create"}, user : Users, bucket : {0}]
            \cup {r \in [pc : {"take"}, user : Users, bucket : 1..Len(buckets)] :
                      cache[r.user] = r.bucket}]

\* Two users share no bucket.
OneBucket ==
    \A u, v \in Users : cache[u] = cache[v] /\ cache[u] # 0 => u = v

\* Whoever has no bucket was never allowed.
NoneBefore == \A u \in Users : cache[u] = 0 => granted[u] = << >>

\* What was granted since any grant, together with what is still in the bucket,
\* is no more than a full bucket and what was refilled since that grant.
Budget ==
    \A u \in Users : \A i \in DOMAIN granted[u] : cache[u] # 0 =>
        (Len(granted[u]) - i + 1) * Part + buckets[cache[u]].tokens
            <= MaxTokens
                 + RefillRate * (buckets[cache[u]].lastRefill - granted[u][i])

BucketIInv == BucketStored /\ Asking /\ OneBucket /\ NoneBefore /\ Budget /\ WithinRate

-----------------------------------------------------------------------------
(* What a refill gives *)

\* A refill gives between nothing and a full bucket, and no more than the rate
\* for the time since the last one.
LEMMA RefillBounds ==
    ASSUME NEW b \in [tokens : 0..MaxTokens, lastRefill : 0..clock], clock \in Nat
    PROVE  /\ Refilled(b) \in 0..MaxTokens
           /\ Refilled(b) <= RefillRate * (clock - b.lastRefill) + b.tokens
<1>1. RefillRate * (clock - b.lastRefill) \in Nat
  <2>1. clock - b.lastRefill \in Nat /\ RefillRate \in Nat
    BY BucketAssumption
  <2> QED
    BY <2>1
<1> DEFINE gain == RefillRate * (clock - b.lastRefill)
<1>2. Refilled(b) = IF MaxTokens > gain + b.tokens THEN gain + b.tokens ELSE MaxTokens
  BY <1>1, BucketAssumption DEF Refilled, minFunction
<1>3. gain \in Nat
  BY <1>1
<1> HIDE DEF gain
<1>4. Refilled(b) \in 0..MaxTokens /\ Refilled(b) <= gain + b.tokens
  BY <1>2, <1>3, BucketAssumption
<1> QED
  BY <1>4 DEF gain

\* Stretches of time add up.
LEMMA Elapsed ==
    ASSUME NEW r \in Int, NEW a \in Int, NEW b \in Int, NEW c \in Int
    PROVE  r * (a - b) + r * (b - c) = r * (a - c)
  BY Z3

\* The budget is kept when a bucket is refilled: at the new time it may hold more
\* by what the time gives.
LEMMA BudgetLater ==
    ASSUME NEW n \in Int, NEW t \in Int, NEW old \in Int, NEW g \in Int, clock \in Int,
           NEW s \in Int, RefillRate \in Int, MaxTokens \in Int,
           n + s <= MaxTokens + RefillRate * (old - g),
           t <= RefillRate * (clock - old) + s
    PROVE  n + t <= MaxTokens + RefillRate * (clock - g)
<1> DEFINE x == RefillRate * (old - g)
           y == RefillRate * (clock - old)
           z == RefillRate * (clock - g)
<1>1. y + x = z
  BY Elapsed
<1>2. x \in Int /\ y \in Int /\ z \in Int
  OBVIOUS
<1>3. n + s <= MaxTokens + x /\ t <= y + s
  OBVIOUS
<1> HIDE DEF x, y, z
<1>4. n + t <= MaxTokens + z
  BY <1>1, <1>2, <1>3
<1> QED
  BY <1>4 DEF z

\* The bound is an integer, whatever the time.
LEMMA GainIsInt ==
    ASSUME NEW c \in Int, NEW g \in Int
    PROVE  RefillRate * (c - g) \in Int
<1>1. RefillRate \in Int /\ c - g \in Int
  BY BucketAssumption
<1> QED
  BY <1>1

\* One grant more costs one token more.
LEMMA OneMore ==
    ASSUME NEW n \in Int
    PROVE  n * Part \in Int /\ (n + 1) * Part = n * Part + Part /\ 0 * Part = 0
<1>1. Part \in Int
  BY BucketAssumption
<1> QED
  BY <1>1

\* A grant at this time: the token that it costs comes out of what is left.
LEMMA BudgetPays ==
    ASSUME clock \in Nat, NEW s \in Seq(0..clock), NEW t \in 0..MaxTokens,
           \A i \in 1..Len(s) :
               (Len(s) - i + 1) * Part + t <= MaxTokens + RefillRate * (clock - s[i])
    PROVE  \A i \in 1..(Len(s) + 1) :
               (Len(s) + 1 - i + 1) * Part + (t - Part)
                   <= MaxTokens + RefillRate * (clock - Append(s, clock)[i])
<1> SUFFICES ASSUME NEW i \in 1..(Len(s) + 1)
             PROVE  (Len(s) + 1 - i + 1) * Part + (t - Part)
                        <= MaxTokens + RefillRate * (clock - Append(s, clock)[i])
  OBVIOUS
<1> DEFINE k == Len(s) - i + 1
           kp == k * Part
           e == Append(s, clock)[i]
           g == RefillRate * (clock - e)
<1>1. Len(s) \in Nat /\ clock \in 0..clock
  BY LenProperties
<1>2. k \in Int /\ Len(s) + 1 - i + 1 = k + 1
  BY <1>1
<1>3. /\ \A j \in 1..Len(s) : Append(s, clock)[j] = s[j]
      /\ Append(s, clock)[Len(s) + 1] = clock
  BY <1>1, AppendProperties
<1>4. kp \in Int /\ (k + 1) * Part = kp + Part /\ 0 * Part = 0
  <2> HIDE DEF k
  <2> QED
    BY <1>2, OneMore
<1>5. e \in Int /\ kp + t <= MaxTokens + g
  <2>1. CASE i \in 1..Len(s)
    <3>1. e = s[i] /\ s[i] \in 0..clock
      BY <1>3, <2>1, ElementOfSeq
    <3> QED
      BY <2>1, <3>1
  <2>2. CASE i = Len(s) + 1
    <3>1. k = 0 /\ e = clock
      BY <1>1, <1>3, <2>2
    <3>2. kp = 0 /\ RefillRate * (clock - clock) = 0
      <4>1. clock - clock = 0 /\ RefillRate \in Int
        BY BucketAssumption
      <4>2. RefillRate * 0 = 0
        BY <4>1
      <4> QED
        BY <1>4, <3>1, <4>1, <4>2
    <3>3. g = 0
      BY <3>1, <3>2
    <3> HIDE DEF kp, g
    <3> QED
      BY <3>1, <3>2, <3>3, BucketAssumption
  <2> QED
    BY <1>1, <2>1, <2>2
<1>6. g \in Int
  <2>1. clock \in Int /\ e \in Int
    BY <1>5
  <2> HIDE DEF e
  <2> QED
    BY <2>1, GainIsInt, Zenon
<1>7. t \in Int /\ Part \in Int /\ MaxTokens \in Int
  BY BucketAssumption
<1> HIDE DEF k, kp, g
<1>8. (k + 1) * Part + (t - Part) <= MaxTokens + g
  BY <1>4, <1>5, <1>6, <1>7
<1> QED
  BY <1>2, <1>8 DEF g

-----------------------------------------------------------------------------
(* The invariant is inductive *)

\* At the start there is nothing.
LEMMA BucketInitIInv == BucketInit => BucketIInv
<1> SUFFICES ASSUME BucketInit PROVE BucketIInv
  OBVIOUS
<1> USE DEF BucketInit
<1>1. BucketStored
  BY BucketAssumption DEF BucketStored
<1>2. Asking
  BY DEF Asking
<1>3. OneBucket /\ NoneBefore /\ Budget /\ WithinRate
  BY DEF OneBucket, NoneBefore, Budget, WithinRate
<1> QED
  BY <1>1, <1>2, <1>3 DEF BucketIInv

\* Looking for the bucket keeps the invariant.
LEMMA AllowIInv ==
    ASSUME BucketIInv, NEW q \in Goroutines, NEW u \in Users, Allow(q, u)
    PROVE  BucketIInv'
<1> USE DEF BucketIInv, Allow
<1>1. BucketStored' /\ OneBucket' /\ NoneBefore' /\ Budget' /\ WithinRate'
  BY DEF BucketStored, OneBucket, NoneBefore, Budget, WithinRate
<1>2. cache[u] \in 0..Len(buckets)
  BY DEF BucketStored
<1>3. Asking'
  BY <1>2 DEF Asking, BucketStored
<1> QED
  BY <1>1, <1>3

\* A user gets one bucket, also when two requests race for its creation.
LEMMA CreateIInv ==
    ASSUME BucketIInv, NEW q \in Goroutines, Create(q)
    PROVE  BucketIInv'
<1> DEFINE u == request[q].user
           full == [tokens |-> MaxTokens, lastRefill |-> clock]
<1>0. /\ BucketStored /\ Asking /\ OneBucket /\ NoneBefore /\ Budget /\ WithinRate
      /\ u \in Users /\ request[q].pc = "create"
      /\ clock' = clock /\ granted' = granted
      /\ Len(buckets) \in Nat /\ cache[u] \in 0..Len(buckets)
  BY DEF BucketIInv, Create, Asking, BucketStored
<1>1. CASE cache[u] = 0
  <2>1. /\ buckets' = Append(buckets, full)
        /\ cache' = [cache EXCEPT ![u] = Len(buckets) + 1]
        /\ request' = [request EXCEPT ![q].pc = "take", ![q].bucket = Len(buckets) + 1]
    BY <1>1 DEF Create, Missing
  <2>2. full \in [tokens : 0..MaxTokens, lastRefill : 0..clock]
    BY <1>0, BucketAssumption DEF BucketStored
  <2>3. /\ Len(buckets') = Len(buckets) + 1
        /\ \A i \in 1..Len(buckets) : buckets'[i] = buckets[i]
    BY <1>0, <2>1 DEF BucketStored
  <2>4. BucketStored'
    BY <1>0, <2>1, <2>2, <2>3 DEF BucketStored
  <2>5. cache'[u] = Len(buckets) + 1 /\ \A v \in Users : v # u => cache'[v] = cache[v]
    BY <1>0, <2>1 DEF BucketStored
  <2>6. Asking'
    <3> SUFFICES ASSUME NEW p \in Goroutines
                 PROVE  request'[p] \in [pc : {"idle"}]
                            \cup [pc : {"create"}, user : Users, bucket : {0}]
                            \cup {r \in [pc : {"take"}, user : Users,
                                         bucket : 1..Len(buckets')] :
                                      cache'[r.user] = r.bucket}
      BY <1>0, <2>1 DEF Asking
    <3>1. CASE p = q
      BY <1>0, <2>1, <2>3, <2>5, <3>1 DEF Asking
    <3>2. CASE p # q
      <4>1. request'[p] = request[p]
        BY <1>0, <2>1, <3>2 DEF Asking
      <4>2. request[p].pc = "take" =>
                /\ cache[request[p].user] = request[p].bucket
                /\ request[p].bucket # 0 /\ request[p].user # u
        BY <1>0, <1>1 DEF Asking
      <4> QED
        BY <1>0, <2>3, <2>5, <4>1, <4>2 DEF Asking
    <3> QED
      BY <3>1, <3>2
  <2>7. OneBucket'
    <3>1. \A v \in Users : cache[v] # Len(buckets) + 1
      BY <1>0 DEF BucketStored
    <3> QED
      BY <1>0, <2>5, <3>1 DEF OneBucket
  <2>8. NoneBefore'
    BY <1>0, <2>5 DEF NoneBefore, BucketStored
  <2>9. Budget'
    <3> SUFFICES ASSUME NEW v \in Users, NEW i \in DOMAIN granted'[v], cache'[v] # 0
                 PROVE  (Len(granted'[v]) - i + 1) * Part + buckets'[cache'[v]].tokens
                            <= MaxTokens + RefillRate *
                                 (buckets'[cache'[v]].lastRefill - granted'[v][i])
      BY DEF Budget
    <3>1. v # u
      BY <1>0, <1>1 DEF NoneBefore
    <3>2. cache'[v] = cache[v] /\ cache[v] \in 1..Len(buckets)
      BY <1>0, <2>5, <3>1 DEF BucketStored
    <3>3. buckets'[cache'[v]] = buckets[cache[v]]
      BY <2>3, <3>2
    <3> QED
      BY <1>0, <3>2, <3>3 DEF Budget
  <2>10. WithinRate'
    BY <1>0 DEF WithinRate
  <2> QED
    BY <2>4, <2>6, <2>7, <2>8, <2>9, <2>10 DEF BucketIInv
<1>2. CASE cache[u] # 0
  <2>1. /\ UNCHANGED <<buckets, cache, clock, granted>>
        /\ request' = [request EXCEPT ![q].pc = "take", ![q].bucket = cache[u]]
    BY <1>2 DEF Create, Missing
  <2>2. BucketStored' /\ OneBucket' /\ NoneBefore' /\ Budget' /\ WithinRate'
    BY <1>0, <2>1 DEF BucketStored, OneBucket, NoneBefore, Budget, WithinRate
  <2>3. Asking'
    BY <1>0, <1>2, <2>1 DEF Asking
  <2> QED
    BY <2>2, <2>3 DEF BucketIInv
<1> QED
  BY <1>1, <1>2

\* What Take does: it refills bucket b of user u to t, and if that is a token or
\* more takes one.
LEMMA Taken ==
    ASSUME BucketIInv, NEW q \in Goroutines, Take(q)
    PROVE  \E u \in Users, b \in 1..Len(buckets), t \in 0..MaxTokens :
              /\ cache[u] = b
              /\ t = Refilled(buckets[b])
              /\ UNCHANGED <<clock, cache>>
              /\ request' = [request EXCEPT ![q] = [pc |-> "idle"]]
              /\ \/ /\ t >= Part
                    /\ buckets' = [buckets EXCEPT ![b] =
                                     [tokens |-> t - Part, lastRefill |-> clock]]
                    /\ granted' = [granted EXCEPT ![u] = Append(@, clock)]
                 \/ /\ buckets' = [buckets EXCEPT ![b] =
                                     [tokens |-> t, lastRefill |-> clock]]
                    /\ granted' = granted
<1> DEFINE u == request[q].user
           b == request[q].bucket
           t == Refilled(buckets[b])
<1>1. u \in Users /\ b \in 1..Len(buckets) /\ cache[u] = b
  BY DEF BucketIInv, Take, Asking
<1>2. clock \in Nat /\ buckets \in Seq([tokens : 0..MaxTokens, lastRefill : 0..clock])
  BY DEF BucketIInv, BucketStored
<1>3. t \in 0..MaxTokens
  <2> HIDE DEF b
  <2>1. buckets[b] \in [tokens : 0..MaxTokens, lastRefill : 0..clock]
    BY <1>1, <1>2, ElementOfSeq
  <2> QED
    BY <1>2, <2>1, RefillBounds
<1>4. CASE t >= Part
  BY <1>1, <1>3, <1>4 DEF Take
<1>5. CASE ~(t >= Part)
  BY <1>1, <1>3, <1>5 DEF Take
<1> QED
  BY <1>4, <1>5

\* A refill keeps the budget of the user of the bucket.
LEMMA BudgetRefills ==
    ASSUME BucketStored, Budget, NEW u \in Users, NEW b \in 1..Len(buckets), cache[u] = b,
           NEW i \in 1..Len(granted[u])
    PROVE  (Len(granted[u]) - i + 1) * Part + Refilled(buckets[b])
               <= MaxTokens + RefillRate * (clock - granted[u][i])
<1> DEFINE k == Len(granted[u]) - i + 1
           n == k * Part
           t == Refilled(buckets[b])
           s == buckets[b].tokens
           old == buckets[b].lastRefill
           g == granted[u][i]
<1>1. /\ clock \in Nat /\ granted[u] \in Seq(0..clock)
      /\ buckets \in Seq([tokens : 0..MaxTokens, lastRefill : 0..clock])
  BY DEF BucketStored
<1>2. g \in 0..clock /\ Len(granted[u]) \in Nat /\ DOMAIN granted[u] = 1..Len(granted[u])
  BY <1>1, ElementOfSeq, LenProperties
<1>3. buckets[b] \in [tokens : 0..MaxTokens, lastRefill : 0..clock]
  BY <1>1, ElementOfSeq
<1>4. t \in 0..MaxTokens /\ t <= RefillRate * (clock - old) + s
  BY <1>1, <1>3, RefillBounds
<1>5. n + s <= MaxTokens + RefillRate * (old - g)
  BY <1>2 DEF Budget
<1>6. n \in Int
  <2>1. k \in Int
    BY <1>2
  <2> HIDE DEF k
  <2> QED
    BY <2>1, OneMore
<1>7. /\ t \in Int /\ s \in Int /\ old \in Int /\ g \in Int /\ clock \in Int
      /\ RefillRate \in Int /\ MaxTokens \in Int
  <2>1. s \in Int /\ old \in Int
    BY <1>1, <1>3
  <2> HIDE DEF t, s, old, g
  <2> QED
    BY <1>1, <1>2, <1>4, <2>1, BucketAssumption
<1> HIDE DEF n, t, s, old, g
<1>8. n + t <= MaxTokens + RefillRate * (clock - g)
  BY <1>4, <1>5, <1>6, <1>7, BudgetLater
<1> QED
  BY <1>8 DEF n, t, g

\* Refilling and taking keeps the invariant: the budget pays for the token.
LEMMA TakeIInv ==
    ASSUME BucketIInv, NEW q \in Goroutines, Take(q)
    PROVE  BucketIInv'
<1>0. BucketStored /\ Asking /\ OneBucket /\ NoneBefore /\ Budget /\ WithinRate
  BY DEF BucketIInv
<1>1. PICK u \in Users, b \in 1..Len(buckets), t \in 0..MaxTokens :
          /\ cache[u] = b
          /\ t = Refilled(buckets[b])
          /\ UNCHANGED <<clock, cache>>
          /\ request' = [request EXCEPT ![q] = [pc |-> "idle"]]
          /\ \/ /\ t >= Part
                /\ buckets' = [buckets EXCEPT ![b] =
                                 [tokens |-> t - Part, lastRefill |-> clock]]
                /\ granted' = [granted EXCEPT ![u] = Append(@, clock)]
             \/ /\ buckets' = [buckets EXCEPT ![b] =
                                 [tokens |-> t, lastRefill |-> clock]]
                /\ granted' = granted
  BY Taken
<1> DEFINE Bucket == [tokens : 0..MaxTokens, lastRefill : 0..clock]
<1>2. /\ clock \in Nat /\ clock \in 0..clock /\ clock' = clock /\ cache' = cache
      /\ cache \in [Users -> 0..Len(buckets)] /\ granted \in [Users -> Seq(0..clock)]
      /\ buckets \in Seq(Bucket) /\ Len(buckets) \in Nat
      /\ Part \in Nat \ {0} /\ MaxTokens \in Nat
  BY <1>0, <1>1, LenProperties, BucketAssumption DEF BucketStored
<1>3. PICK left \in 0..MaxTokens :
          /\ buckets' = [buckets EXCEPT ![b] = [tokens |-> left, lastRefill |-> clock]]
          /\ \/ left = t - Part /\ granted' = [granted EXCEPT ![u] = Append(@, clock)]
             \/ left = t /\ granted' = granted
  <2>1. t >= Part => t - Part \in 0..MaxTokens
    BY <1>2
  <2> QED
    BY <1>1, <2>1
<1>4. /\ buckets' \in Seq(Bucket) /\ Len(buckets') = Len(buckets)
      /\ buckets'[b] = [tokens |-> left, lastRefill |-> clock]
      /\ \A i \in 1..Len(buckets) : i # b => buckets'[i] = buckets[i]
  <2>1. [tokens |-> left, lastRefill |-> clock] \in Bucket
    BY <1>2
  <2> HIDE DEF Bucket
  <2> QED
    BY <1>2, <1>3, <2>1, ExceptSeq
<1>5. /\ granted' \in [Users -> Seq(0..clock)]
      /\ \A v \in Users : v # u => granted'[v] = granted[v]
      /\ \/ left = t - Part /\ granted'[u] = Append(granted[u], clock)
         \/ left = t /\ granted'[u] = granted[u]
  <2>1. granted[u] \in Seq(0..clock) /\ Append(granted[u], clock) \in Seq(0..clock)
    BY <1>2, AppendProperties
  <2> QED
    BY <1>2, <1>3, <2>1
<1>6. BucketStored' /\ OneBucket'
  BY <1>0, <1>2, <1>4, <1>5 DEF BucketStored, OneBucket
<1>7. Asking'
  BY <1>0, <1>1, <1>4 DEF Asking
<1>8. NoneBefore'
  BY <1>0, <1>1, <1>2, <1>5 DEF NoneBefore
<1>9. \A i \in 1..Len(granted'[u]) :
          (Len(granted'[u]) - i + 1) * Part + left
              <= MaxTokens + RefillRate * (clock - granted'[u][i])
  <2>1. \A i \in 1..Len(granted[u]) :
            (Len(granted[u]) - i + 1) * Part + t
                <= MaxTokens + RefillRate * (clock - granted[u][i])
    BY <1>0, <1>1, BudgetRefills
  <2>2. CASE left = t /\ granted'[u] = granted[u]
    BY <2>1, <2>2
  <2>3. CASE left = t - Part /\ granted'[u] = Append(granted[u], clock)
    <3>1. granted[u] \in Seq(0..clock)
      BY <1>2
    <3>2. Len(granted'[u]) = Len(granted[u]) + 1
      BY <1>2, <2>3, <3>1, AppendProperties
    <3>3. \A i \in 1..(Len(granted[u]) + 1) :
              (Len(granted[u]) + 1 - i + 1) * Part + (t - Part)
                  <= MaxTokens + RefillRate * (clock - Append(granted[u], clock)[i])
      BY <1>2, <2>1, <3>1, BudgetPays
    <3> QED
      BY <2>3, <3>2, <3>3
  <2> QED
    BY <1>5, <2>2, <2>3
<1>10. Budget'
  <2> SUFFICES ASSUME NEW v \in Users, NEW i \in DOMAIN granted'[v], cache'[v] # 0
               PROVE  (Len(granted'[v]) - i + 1) * Part + buckets'[cache'[v]].tokens
                          <= MaxTokens + RefillRate *
                               (buckets'[cache'[v]].lastRefill - granted'[v][i])
    BY DEF Budget
  <2>1. CASE v = u
    <3>1. DOMAIN granted'[u] = 1..Len(granted'[u])
      <4>1. granted'[u] \in Seq(0..clock)
        BY <1>5
      <4> QED
        BY <4>1, LenProperties
    <3>2. /\ buckets'[cache'[u]].tokens = left /\ buckets'[cache'[u]].lastRefill = clock
      BY <1>1, <1>4
    <3> QED
      BY <1>9, <2>1, <3>1, <3>2
  <2>2. CASE v # u
    <3>1. cache[v] # b /\ cache[v] \in 1..Len(buckets) /\ cache'[v] = cache[v]
      BY <1>0, <1>1, <1>2, <2>2 DEF OneBucket
    <3>2. buckets'[cache'[v]] = buckets[cache[v]] /\ granted'[v] = granted[v]
      BY <1>4, <1>5, <2>2, <3>1
    <3> QED
      BY <1>0, <3>1, <3>2 DEF Budget
  <2> QED
    BY <2>1, <2>2
<1>11. WithinRate'
  <2> SUFFICES ASSUME NEW v \in Users, NEW i \in DOMAIN granted'[v],
                      NEW j \in DOMAIN granted'[v], i <= j
               PROVE  (j - i + 1) * Part
                          <= MaxTokens + RefillRate * (granted'[v][j] - granted'[v][i])
    BY DEF WithinRate
  <2>1. CASE granted'[v] = granted[v]
    BY <1>0, <2>1 DEF WithinRate
  <2>2. CASE v = u /\ granted'[u] = Append(granted[u], clock)
    <3>1. granted[u] \in Seq(0..clock) /\ granted'[u] \in Seq(0..clock)
      BY <1>2, <1>5
    <3>2. /\ DOMAIN granted[u] = 1..Len(granted[u]) /\ Len(granted[u]) \in Nat
          /\ DOMAIN granted'[u] = 1..(Len(granted[u]) + 1)
          /\ Len(granted'[u]) = Len(granted[u]) + 1
          /\ \A h \in 1..Len(granted[u]) : granted'[u][h] = granted[u][h]
          /\ granted'[u][Len(granted[u]) + 1] = clock
      BY <1>2, <2>2, <3>1, AppendProperties, LenProperties
    <3>3. CASE j \in 1..Len(granted[u])
      <4>1. i \in 1..Len(granted[u])
        BY <2>2, <3>2, <3>3
      <4> QED
        BY <1>0, <2>2, <3>2, <3>3, <4>1 DEF WithinRate
    <3>4. CASE j = Len(granted[u]) + 1
      <4> DEFINE n == (j - i + 1) * Part
                 g == RefillRate * (clock - granted'[u][i])
      <4>1. granted'[u][j] = clock /\ i \in 1..Len(granted'[u])
        BY <2>2, <3>2, <3>4
      <4>2. n + left <= MaxTokens + g
        BY <1>9, <3>2, <3>4, <4>1
      <4>3. n \in Int
        <5>1. j - i + 1 \in Int /\ Part \in Int
          BY <1>2, <3>2, <3>4, <4>1
        <5> QED
          BY <5>1
      <4>4. g \in Int
        <5>1. granted'[u][i] \in 0..clock
          BY <3>1, <4>1, ElementOfSeq
        <5>2. granted'[u][i] \in Int /\ clock \in Int
          BY <1>2, <5>1
        <5> QED
          BY <5>2, GainIsInt, Zenon
      <4> HIDE DEF n, g
      <4>5. n <= MaxTokens + g
        BY <1>2, <4>2, <4>3, <4>4
      <4> QED
        BY <2>2, <4>1, <4>5 DEF n, g
    <3> QED
      BY <2>2, <3>2, <3>3, <3>4
  <2> QED
    BY <1>5, <2>1, <2>2
<1> QED
  BY <1>6, <1>7, <1>8, <1>10, <1>11 DEF BucketIInv

\* The clock and the requests together.
LEMMA BucketNextIInv == BucketIInv /\ [BucketNext]_bucketVars => BucketIInv'
<1> SUFFICES ASSUME BucketIInv, [BucketNext]_bucketVars PROVE BucketIInv'
  OBVIOUS
<1>1. CASE Tick
  <2>1. BucketStored'
    <3> DEFINE B(c) == [tokens : 0..MaxTokens, lastRefill : 0..c]
    <3>1. /\ clock \in Nat /\ clock' = clock + 1 /\ clock' \in 0..LastTick
          /\ UNCHANGED <<cache, buckets, granted>>
      BY <1>1, BucketAssumption DEF BucketIInv, BucketStored, Tick
    <3>2. B(clock) \subseteq B(clock') /\ 0..clock \subseteq 0..clock'
      BY <3>1
    <3>3. buckets \in Seq(B(clock)) /\ granted \in [Users -> Seq(0..clock)]
      BY DEF BucketIInv, BucketStored
    <3>4. buckets \in Seq(B(clock'))
      <4> HIDE DEF B
      <4> QED
        BY <3>2, <3>3, SeqMonotonic
    <3>5. granted \in [Users -> Seq(0..clock')]
      <4> SUFFICES ASSUME NEW u \in Users PROVE granted[u] \in Seq(0..clock')
        BY <3>3
      <4>1. granted[u] \in Seq(0..clock)
        BY <3>3
      <4> QED
        BY <3>2, <4>1, SeqMonotonic
    <3> QED
      BY <3>1, <3>4, <3>5 DEF BucketIInv, BucketStored
  <2>2. Asking' /\ OneBucket' /\ NoneBefore' /\ Budget' /\ WithinRate'
    BY <1>1 DEF BucketIInv, Tick, Asking, OneBucket, NoneBefore, Budget, WithinRate
  <2> QED
    BY <2>1, <2>2 DEF BucketIInv
<1>2. CASE \E q \in Goroutines : (\E u \in Users : Allow(q, u)) \/ Create(q) \/ Take(q)
  BY <1>2, AllowIInv, CreateIInv, TakeIInv
<1>3. CASE UNCHANGED bucketVars
  BY <1>3 DEF BucketIInv, bucketVars, BucketStored, Asking, OneBucket, NoneBefore, Budget,
              WithinRate
<1> QED
  BY <1>1, <1>2, <1>3 DEF BucketNext

-----------------------------------------------------------------------------
(* Theorems *)

\* One bucket for each user, and a budget that what was granted never exceeds.
THEOREM BucketInductive == BucketSpec => []BucketIInv
  BY BucketInitIInv, BucketNextIInv, PTL DEF BucketSpec

\* Between two grants, however far apart and however many requests raced, a user
\* was allowed no more than a full bucket and the refill of that time.
THEOREM RateKept == BucketSpec => []WithinRate
<1>1. BucketIInv => WithinRate
  BY DEF BucketIInv
<1> QED
  BY BucketInductive, <1>1, PTL

-----------------------------------------------------------------------------
(* The game: the inductive invariant *)

\* The variables, without the bounds of the model.
GameStored ==
    /\ status \in {"NOT_STARTED", "IN_PROGRESS", "FINISHED"}
    /\ positions \in Seq(0..Last)
    /\ snakes \in [Cells -> 0..Last] /\ ladders \in [Cells -> 0..Last]
    /\ currentTurn \in Nat /\ winner \in Nat
    /\ consecutiveSixes \in 0..2

\* Before the game everybody stands beside the board, while it lasts the turn is
\* a player's, and afterwards nothing is banked.
Stage ==
    /\ status = "NOT_STARTED" =>
          /\ \A p \in DOMAIN positions : positions[p] = 0
          /\ currentTurn = 1 /\ consecutiveSixes = 0
    /\ status = "IN_PROGRESS" => currentTurn \in DOMAIN positions
    /\ status = "FINISHED" => consecutiveSixes = 0

GameIInv == GameStored /\ Stage /\ GameConsistent

-----------------------------------------------------------------------------
(* The roll and where it leads *)

\* A roll leads forward; one six more is Sides more, counted from the position.
LEMMA RollLeads ==
    ASSUME GameIInv, status = "IN_PROGRESS"
    PROVE  /\ \A dice \in 1..Sides :
                /\ toPosition(dice) \in Nat \ {0}
                /\ positions[currentTurn] + Sides * consecutiveSixes + dice
                       = toPosition(dice)
           /\ Sides * (consecutiveSixes + 1) = Sides * consecutiveSixes + Sides
           /\ positions[currentTurn] \in 0..Last
           /\ Sides * consecutiveSixes \in Nat
<1>1. positions[currentTurn] \in 0..Last
  <2>1. positions \in Seq(0..Last) /\ currentTurn \in DOMAIN positions
    BY DEF GameIInv, GameStored, Stage
  <2> QED
    BY <2>1, ElementOfSeq, LenProperties
<1>2. Sides \in Nat /\ consecutiveSixes \in {0, 1, 2}
  BY GameAssumption DEF GameIInv, GameStored
<1>3. /\ Sides * consecutiveSixes \in Nat
      /\ Sides * (consecutiveSixes + 1) = Sides * consecutiveSixes + Sides
  BY <1>2
<1> DEFINE sixes == Sides * consecutiveSixes
<1> HIDE DEF sixes
<1>4. sixes \in Nat
  BY <1>3 DEF sixes
<1>5. ASSUME NEW dice \in 1..Sides
      PROVE  /\ sixes + dice + positions[currentTurn] \in Nat \ {0}
             /\ positions[currentTurn] + sixes + dice
                    = sixes + dice + positions[currentTurn]
  BY <1>1, <1>2, <1>4, GameAssumption
<1> QED
  BY <1>1, <1>3, <1>5 DEF toPosition, sixes

\* Where a piece rests, the foot of a ladder was reached by a ladder, and the head
\* of a snake by a snake or a ladder.
LEMMA LandingRests ==
    ASSUME GameStored, NEW c \in Cells,
           NEW e \in Cells, Landing(c) = e
    PROVE  /\ ladders[e] # 0 => \E d \in Cells : ladders[d] = e
           /\ snakes[e] # 0 => \E d \in Cells : e \in {ladders[d], snakes[d]}
<1> DEFINE x == Slid(c)
<1>1. x \in Cells
  BY DEF Slid, GameStored, Cells
<1>2. e = IF ladders[x] # 0 THEN ladders[x] ELSE x
  BY DEF Landing, Climbed
<1>3. x = IF snakes[c] # 0 THEN snakes[c] ELSE c
  BY DEF Slid
<1> HIDE DEF x
<1> QED
  BY <1>1, <1>2, <1>3

\* A piece leads to a cell of the board.
LEMMA LandingOnBoard ==
    ASSUME GameStored, NEW c \in Cells
    PROVE  Landing(c) \in Cells
<1>1. Slid(c) \in Cells
  BY DEF Slid, GameStored, Cells
<1> QED
  BY <1>1 DEF Landing, Climbed, GameStored, Cells

-----------------------------------------------------------------------------
(* The invariant is inductive *)

\* At the start there is an empty board and nobody plays.
LEMMA GameInitIInv == GameInit => GameIInv
<1> SUFFICES ASSUME GameInit PROVE GameIInv
  OBVIOUS
<1> QED
  BY GameAssumption DEF GameInit, GameIInv, GameStored, Stage, GameConsistent

\* While everybody stands beside the board nobody rests on a piece or has won.
LEMMA Beside ==
    ASSUME GameAssumption, GameConsistent, status = "NOT_STARTED",
           UNCHANGED <<status, winner, consecutiveSixes>>, consecutiveSixes = 0,
           positions' \in Seq(0..Last), \A p \in DOMAIN positions' : positions'[p] = 0
    PROVE  GameConsistent'
<1>1. status' # "FINISHED" /\ winner' = 0 /\ consecutiveSixes' = 0
  BY DEF GameConsistent
<1>2. DOMAIN positions' = 1..Len(positions')
  BY LenProperties
<1>3. 0 \notin DOMAIN positions' /\ 0 \notin Cells /\ Last # 0
  BY <1>2, GameAssumption DEF Cells
<1> QED
  BY <1>1, <1>3 DEF GameConsistent

\* Setting up the board and the players.
LEMMA SetUpIInv ==
    ASSUME GameIInv,
           AddPlayer \/ (\E c, d \in Cells : AddSnake(c, d) \/ AddLadder(c, d))
               \/ StartGame
    PROVE  GameIInv'
<1>0. Last \in Nat \ {0, 1} /\ GameStored /\ Stage /\ GameConsistent
  BY GameAssumption DEF GameIInv
<1>1. CASE AddPlayer
  <2>1. /\ positions \in Seq(0..Last) /\ 0 \in 0..Last
        /\ positions' = Append(positions, 0)
        /\ UNCHANGED <<status, boardVars, currentTurn, consecutiveSixes, winner>>
        /\ status = "NOT_STARTED"
    BY <1>0, <1>1 DEF AddPlayer, GameStored
  <2>2. /\ positions' \in Seq(0..Last)
        /\ \A p \in DOMAIN positions' : positions'[p] = 0
    <3>1. /\ Len(positions) \in Nat /\ DOMAIN positions = 1..Len(positions)
          /\ positions' \in Seq(0..Last) /\ Len(positions') = Len(positions) + 1
          /\ \A p \in 1..Len(positions) : positions'[p] = positions[p]
          /\ positions'[Len(positions) + 1] = 0
      BY <2>1, LenProperties, AppendProperties
    <3>2. DOMAIN positions' = 1..(Len(positions) + 1)
      BY <3>1, LenProperties
    <3> QED
      BY <1>0, <2>1, <3>1, <3>2 DEF Stage
  <2> QED
    BY <1>0, <2>1, <2>2, Beside, GameAssumption DEF GameIInv, GameStored, Stage, boardVars
<1>2. CASE \E c, d \in Cells : AddSnake(c, d) \/ AddLadder(c, d)
  <2>1. PICK c \in Cells, d \in Cells : AddSnake(c, d) \/ AddLadder(c, d)
    BY <1>2
  <2>2. /\ status = "NOT_STARTED" /\ d \in 0..Last
        /\ \/ snakes' = [snakes EXCEPT ![c] = d] /\ ladders' = ladders
           \/ ladders' = [ladders EXCEPT ![c] = d] /\ snakes' = snakes
        /\ UNCHANGED <<status, turnVars>>
    BY <1>0, <2>1 DEF AddSnake, AddLadder, MayBegin, Cells
  <2>3. snakes' \in [Cells -> 0..Last] /\ ladders' \in [Cells -> 0..Last]
    BY <1>0, <2>2 DEF GameStored
  <2>4. GameStored' /\ Stage'
    BY <1>0, <2>2, <2>3 DEF GameStored, Stage, turnVars
  <2> QED
    BY <1>0, <2>2, <2>4, Beside, GameAssumption DEF GameIInv, GameStored, Stage, turnVars
<1>3. CASE StartGame
  <2>1. /\ status = "NOT_STARTED" /\ status' = "IN_PROGRESS"
        /\ 1 \in DOMAIN positions
        /\ UNCHANGED <<boardVars, turnVars>>
    BY <1>0, <1>3, LenProperties DEF StartGame, GameStored
  <2> QED
    BY <1>0, <2>1 DEF GameIInv, GameStored, Stage, GameConsistent, boardVars, turnVars
<1> QED
  BY <1>1, <1>2, <1>3

\* A six is banked: with one more the player still fits on the board.
LEMMA BankSixIInv == GameIInv /\ BankSix => GameIInv'
<1> SUFFICES ASSUME GameIInv, BankSix PROVE GameIInv'
  OBVIOUS
<1>1. /\ status = "IN_PROGRESS" /\ consecutiveSixes \in 0..1
      /\ consecutiveSixes' = consecutiveSixes + 1
      /\ UNCHANGED <<status, boardVars, positions, currentTurn, winner>>
  BY DEF BankSix, GameIInv, GameStored
<1>2. GameStored' /\ Stage'
  BY <1>1 DEF GameIInv, GameStored, Stage, boardVars
<1>3. positions[currentTurn] + Sides * (consecutiveSixes + 1) <= Last
  <2>1. Sides \in 1..Sides
    BY GameAssumption
  <2>2. /\ positions[currentTurn] + Sides * consecutiveSixes + Sides <= Last
        /\ Sides * (consecutiveSixes + 1) = Sides * consecutiveSixes + Sides
        /\ positions[currentTurn] \in Int /\ Sides * consecutiveSixes \in Int
    BY <1>1, <2>1, RollLeads DEF BankSix
  <2> DEFINE sixes == Sides * consecutiveSixes
  <2>3. positions[currentTurn] + sixes + Sides = positions[currentTurn] + (sixes + Sides)
    <3> HIDE DEF sixes
    <3>1. sixes \in Int /\ positions[currentTurn] \in Int /\ Sides \in Int
      BY <2>2, GameAssumption DEF sixes
    <3> QED
      BY <3>1
  <2> QED
    BY <2>2, <2>3
<1>4. GameConsistent'
  BY <1>1, <1>3 DEF GameIInv, GameConsistent, boardVars
<1> QED
  BY <1>2, <1>4 DEF GameIInv

\* The turn goes to a player.
LEMMA Passes ==
    ASSUME GameIInv, status = "IN_PROGRESS", PassTurn
    PROVE  currentTurn' \in DOMAIN positions /\ currentTurn' \in Nat
<1>1. /\ Len(positions) \in Nat \ {0} /\ DOMAIN positions = 1..Len(positions)
      /\ currentTurn \in Nat
  BY LenProperties DEF GameIInv, GameStored, Stage
<1>2. currentTurn % Len(positions) \in 0..(Len(positions) - 1)
  BY <1>1
<1>3. currentTurn' = (currentTurn % Len(positions)) + 1
  BY DEF PassTurn
<1> QED
  BY <1>1, <1>2, <1>3

\* A forfeited turn loses what was banked.
LEMMA ForfeitIInv ==
    ASSUME GameIInv, NEW dice \in 1..Sides, Forfeit(dice)
    PROVE  GameIInv'
<1>1. /\ status = "IN_PROGRESS" /\ consecutiveSixes' = 0
      /\ currentTurn' \in DOMAIN positions /\ currentTurn' \in Nat
      /\ UNCHANGED <<status, boardVars, positions, winner>>
  BY Passes DEF Forfeit
<1> QED
  BY <1>1 DEF GameIInv, GameStored, Stage, GameConsistent, boardVars

\* A move ends the turn, or the game.
LEMMA MoveIInv ==
    ASSUME GameIInv, NEW dice \in 1..Sides, Move(dice)
    PROVE  GameIInv'
<1>0. /\ GameStored /\ Stage /\ GameConsistent /\ status = "IN_PROGRESS"
      /\ Last \in Nat /\ winner = 0
      /\ positions \in Seq(0..Last) /\ currentTurn \in DOMAIN positions
      /\ DOMAIN positions = 1..Len(positions) /\ 0 \notin DOMAIN positions
  BY GameAssumption, LenProperties DEF GameIInv, Move, GameStored, Stage, GameConsistent
<1>1. toPosition(dice) \in Cells
  BY <1>0, RollLeads DEF Move, Cells
<1>2. PICK cell \in Cells : cell = Landing(toPosition(dice))
  BY <1>0, <1>1, LandingOnBoard
<1>3. /\ positions' = [positions EXCEPT ![currentTurn] = cell]
      /\ consecutiveSixes' = 0 /\ UNCHANGED boardVars
      /\ \/ /\ cell = Last /\ winner' = currentTurn /\ status' = "FINISHED"
            /\ currentTurn' = currentTurn
         \/ /\ cell # Last /\ PassTurn /\ winner' = winner /\ status' = status
  BY <1>2 DEF Move
<1>4. /\ positions' \in Seq(0..Last) /\ DOMAIN positions' = DOMAIN positions
      /\ positions'[currentTurn] = cell
      /\ \A p \in DOMAIN positions : p # currentTurn => positions'[p] = positions[p]
  <2>1. cell \in 0..Last
    BY <1>0 DEF Cells
  <2> QED
    BY <1>0, <1>3, <2>1, ExceptSeq, LenProperties
<1>5. currentTurn' \in DOMAIN positions /\ currentTurn' \in Nat /\ winner' \in Nat
  BY <1>0, <1>3, Passes DEF GameStored
<1>6. GameStored' /\ Stage'
  BY <1>0, <1>3, <1>4, <1>5 DEF GameStored, Stage, boardVars
<1>7. /\ ladders[cell] # 0 => \E d \in Cells : ladders[d] = cell
      /\ snakes[cell] # 0 => \E d \in Cells : cell \in {ladders[d], snakes[d]}
  BY <1>0, <1>1, <1>2, LandingRests
<1>8. ASSUME NEW p \in DOMAIN positions'
      PROVE  /\ positions'[p] = Last <=> winner' = p
             /\ \A c \in Cells : positions'[p] = c =>
                   /\ ladders'[c] # 0 => \E d \in Cells : ladders'[d] = c
                   /\ snakes'[c] # 0 =>
                         \E d \in Cells : c \in {ladders'[d], snakes'[d]}
  <2>1. CASE p = currentTurn
    BY <1>0, <1>3, <1>4, <1>7, <2>1 DEF boardVars
  <2>2. CASE p # currentTurn
    BY <1>0, <1>3, <1>4, <1>8, <2>2 DEF boardVars, GameConsistent
  <2> QED
    BY <2>1, <2>2
<1>9. status' = "FINISHED" <=> winner' # 0
  BY <1>0, <1>3
<1>10. GameConsistent'
  BY <1>3, <1>8, <1>9 DEF GameConsistent
<1> QED
  BY <1>6, <1>10 DEF GameIInv

-----------------------------------------------------------------------------
(* Theorems *)

\* Every stage of the game, and its consistency, together.
THEOREM GameInductive == GameSpec => []GameIInv
<1>1. GameIInv /\ [GameNext]_gameVars => GameIInv'
  <2> SUFFICES ASSUME GameIInv, [GameNext]_gameVars PROVE GameIInv'
    OBVIOUS
  <2>1. CASE GameNext
    BY <2>1, SetUpIInv, BankSixIInv, ForfeitIInv, MoveIInv DEF GameNext, PlayTurn
  <2>2. CASE UNCHANGED gameVars
    BY <2>2 DEF GameIInv, GameStored, Stage, GameConsistent, gameVars, boardVars, turnVars
  <2> QED
    BY <2>1, <2>2
<1> QED
  BY GameInitIInv, <1>1, PTL DEF GameSpec

\* Banked sixes are the turn's and fit on the board, the game is over exactly when
\* the winner and nobody else is on the last cell, and pieces lead as they should.
THEOREM GameStaysConsistent == GameSpec => []GameConsistent
<1>1. GameIInv => GameConsistent
  BY DEF GameIInv
<1> QED
  BY GameInductive, <1>1, PTL

-----------------------------------------------------------------------------
(* The cache: the inductive invariant *)

\* The list has the keys of s in that order, linked in both directions.
Linked(s) ==
    /\ \A i, j \in 1..Len(s) : s[i] = s[j] => i = j
    /\ nodeCache = {s[i] : i \in 1..Len(s)}
    /\ MFUNode = IF s = << >> THEN Nil ELSE s[1]
    /\ LRUNode = IF s = << >> THEN Nil ELSE s[Len(s)]
    /\ \A i \in 1..Len(s) :
        /\ nextBlock[s[i]] = IF i = Len(s) THEN Nil ELSE s[i + 1]
        /\ prevBlock[s[i]] = IF i = 1 THEN Nil ELSE s[i - 1]

CacheIInv == CacheTypeOK /\ \E s \in Seq(Keys) : Linked(s)

-----------------------------------------------------------------------------
(* Lemmas about sequences *)

\* What an element in front of a sequence does.
LEMMA InFront ==
    ASSUME NEW S, NEW r \in Seq(S), NEW k \in S
    PROVE  LET t == <<k>> \o r
           IN /\ t \in Seq(S)
              /\ Len(t) = Len(r) + 1
              /\ t # << >> /\ t[1] = k
              /\ \A i \in 1..Len(t) : t[i] = IF i = 1 THEN k ELSE r[i - 1]
              /\ \A i \in 1..Len(r) : t[i + 1] = r[i]
<1>1. <<k>> \in Seq(S) /\ Len(<<k>>) = 1 /\ <<k>>[1] = k
  OBVIOUS
<1>2. <<k>> \o r \in Seq(S) /\ Len(<<k>> \o r) = Len(r) + 1 /\ Len(r) \in Nat
  BY <1>1
<1>3. \A i \in 1..(1 + Len(r)) : (<<k>> \o r)[i] = IF i <= 1 THEN <<k>>[i] ELSE r[i - 1]
  BY <1>1, ConcatProperties
<1> HIDE <1>1
<1> DEFINE t == <<k>> \o r
<1>4. t[1] = k
  BY <1>1, <1>2, <1>3
<1>5. \A i \in 1..Len(t) : t[i] = IF i = 1 THEN k ELSE r[i - 1]
  BY <1>1, <1>2, <1>3
<1>6. \A i \in 1..Len(r) : t[i + 1] = r[i]
  BY <1>2, <1>3
<1>7. t # << >>
  BY <1>2
<1> QED
  BY <1>2, <1>4, <1>5, <1>6, <1>7

\* What is left of a sequence without its element at i.
LEMMA WithoutOne ==
    ASSUME NEW S, NEW s \in Seq(S), NEW i \in 1..Len(s)
    PROVE  LET r == Recent!RemoveAt(s, i)
           IN /\ r \in Seq(S)
              /\ Len(r) = Len(s) - 1
              /\ \A j \in 1..Len(r) : r[j] = IF j < i THEN s[j] ELSE s[j + 1]
<1> DEFINE a == SubSeq(s, 1, i - 1)
           b == SubSeq(s, i + 1, Len(s))
<1>0. Len(s) \in Nat /\ i \in Int /\ 1 <= i /\ i <= Len(s)
  OBVIOUS
<1>1. a \in Seq(S) /\ Len(a) = i - 1 /\ \A j \in 1..(i - 1) : a[j] = s[j]
  BY <1>0, SubSeqProperties
<1>2. b \in Seq(S) /\ Len(b) = Len(s) - i /\ \A j \in 1..(Len(s) - i) : b[j] = s[i + j]
  BY <1>0, SubSeqProperties
<1>3. Recent!RemoveAt(s, i) = a \o b
  BY DEF Recent!RemoveAt
<1> HIDE DEF a, b
<1>4. /\ a \o b \in Seq(S)
      /\ Len(a \o b) = Len(a) + Len(b)
      /\ \A j \in 1..(Len(a) + Len(b)) : (a \o b)[j] =
            IF j <= Len(a) THEN a[j] ELSE b[j - Len(a)]
  BY <1>1, <1>2, ConcatProperties
<1>5. Len(a) + Len(b) = Len(s) - 1
  BY <1>0, <1>1, <1>2
<1>6. ASSUME NEW j \in 1..(Len(s) - 1)
      PROVE  (a \o b)[j] = IF j < i THEN s[j] ELSE s[j + 1]
  <2>1. CASE j < i
    BY <1>0, <1>1, <1>4, <1>5, <2>1
  <2>2. CASE ~(j < i)
    <3>1. j - (i - 1) \in 1..(Len(s) - i) /\ i + (j - (i - 1)) = j + 1
      BY <1>0, <2>2
    <3>2. b[j - (i - 1)] = s[j + 1]
      BY <1>2, <3>1
    <3>3. (a \o b)[j] = b[j - (i - 1)]
      BY <1>0, <1>1, <1>4, <1>5, <2>2
    <3> QED
      BY <2>2, <3>2, <3>3
  <2> QED
    BY <2>1, <2>2
<1> QED
  BY <1>3, <1>4, <1>5, <1>6

\* In a sequence without repetitions RemoveFirst takes out the one place of an element.
LEMMA RemovedFirst ==
    ASSUME NEW S, NEW s \in Seq(S), NEW i \in 1..Len(s),
           \A j \in 1..Len(s) : s[j] = s[i] => j = i
    PROVE  Recent!RemoveFirst(s, s[i]) = Recent!RemoveAt(s, i)
BY DEF Recent!RemoveFirst, Recent!SelectInSeq, Recent!Min

\* RemoveFirst leaves a sequence alone that does not have the element.
LEMMA NoneRemoved ==
    ASSUME NEW S, NEW s \in Seq(S), NEW k, \A j \in 1..Len(s) : s[j] # k
    PROVE  Recent!RemoveFirst(s, k) = s
BY DEF Recent!RemoveFirst

\* A sequence without its last element.
LEMMA WithoutLast ==
    ASSUME NEW S, NEW s \in Seq(S), s # << >>
    PROVE  LET r == SubSeq(s, 1, Len(s) - 1)
           IN /\ r \in Seq(S)
              /\ Len(r) = Len(s) - 1
              /\ \A j \in 1..(Len(s) - 1) : r[j] = s[j]
<1>1. Len(s) \in Nat /\ Len(s) >= 1
  OBVIOUS
<1> DEFINE n == Len(s) - 1
           r == SubSeq(s, 1, n)
<1>2. n \in Nat /\ \A j \in 1..n : s[j] \in S
  BY <1>1
<1>3. /\ r \in Seq(S)
      /\ Len(r) = IF 1 <= n THEN n - 1 + 1 ELSE 0
      /\ \A j \in 1..(n - 1 + 1) : r[j] = s[1 + j - 1]
  BY <1>2, SubSeqProperties
<1>4. Len(r) = n /\ \A j \in 1..n : r[j] = s[j]
  <2> HIDE DEF n, r
  <2>1. n - 1 + 1 = n /\ (~(1 <= n) => n = 0)
    BY <1>2
  <2>2. \A j \in 1..n : 1 + j - 1 = j
    BY <1>2
  <2> QED
    BY <1>3, <2>1, <2>2
<1> QED
  BY <1>3, <1>4

\* There are as many cached keys as the list is long.
LEMMA ListedCount ==
    ASSUME NEW s \in Seq(Keys), Linked(s)
    PROVE  /\ IsFiniteSet(nodeCache) /\ Cardinality(nodeCache) = Len(s)
           /\ Len(s) <= Cardinality(Keys) /\ Cardinality(Keys) \in Nat
<1>1. Len(s) \in Nat /\ s \in [1..Len(s) -> Keys]
  OBVIOUS
<1>2. s \in Bijection(1..Len(s), nodeCache)
  <2>1. nodeCache = {s[i] : i \in 1..Len(s)} /\ \A i, j \in 1..Len(s) : s[i] = s[j] => i = j
    BY DEF Linked
  <2>2. s \in [1..Len(s) -> nodeCache]
    BY <1>1, <2>1
  <2>3. \A t \in nodeCache : \E i \in 1..Len(s) : s[i] = t
    BY <2>1
  <2> QED
    BY <2>1, <2>2, <2>3 DEF Bijection, Injection, Surjection, IsInjective
<1>3. IsFiniteSet(1..Len(s)) /\ Cardinality(1..Len(s)) = Len(s)
  BY <1>1, FS_Interval
<1>4. IsFiniteSet(nodeCache) /\ Cardinality(nodeCache) = Cardinality(1..Len(s))
  BY <1>2, <1>3, FS_Bijection DEF ExistsBijection
<1>5. nodeCache \subseteq Keys
  <2>1. nodeCache = {s[i] : i \in 1..Len(s)}
    BY DEF Linked
  <2> QED
    BY <1>1, <2>1
<1> QED
  BY <1>3, <1>4, <1>5, FS_Subset, FS_CardinalityType, CacheAssumption

-----------------------------------------------------------------------------
(* The walk along the list *)

\* What Walk does with the keys that it has passed after n nodes.
WalkOn(passed, n) ==
    LET node == IF passed = << >> THEN MFUNode ELSE nextBlock[passed[Len(passed)]]
    IN IF Len(passed) < n \/ node = Nil THEN passed ELSE Append(passed, node)

\* The first n elements of s, or as many as there are.
UpTo(s, n) == SubSeq(s, 1, IF n <= Len(s) THEN n ELSE Len(s))

\* The next node that is passed is the next element.
LEMMA WalkedOn ==
    ASSUME NEW s \in Seq(Keys), Linked(s), NEW n \in Nat
    PROVE  UpTo(s, n + 1) = WalkOn(UpTo(s, n), n)
<1> DEFINE p == UpTo(s, n)
           node == IF p = << >> THEN MFUNode ELSE nextBlock[p[Len(p)]]
<1>1. Len(s) \in Nat /\ \A i \in 1..Len(s) : s[i] \in Keys /\ s[i] # Nil
  BY CacheAssumption
<1>2. CASE n > Len(s)
  <2>1. p = s /\ UpTo(s, n + 1) = s
    BY <1>1, <1>2, SubSeqFull DEF UpTo
  <2> QED
    BY <1>2, <2>1 DEF WalkOn
<1>3. CASE n <= Len(s)
  <2>1. p = SubSeq(s, 1, n)
    BY <1>3 DEF UpTo
  <2>2. p \in Seq(Keys) /\ Len(p) = n /\ \A i \in 1..n : p[i] = s[i]
    <3>1. Len(p) = IF 1 <= n THEN n - 1 + 1 ELSE 0
      BY <1>1, <1>3, <2>1, SubSeqProperties
    <3>2. p \in Seq(Keys) /\ \A i \in 1..(n - 1 + 1) : p[i] = s[1 + i - 1]
      BY <1>1, <1>3, <2>1, SubSeqProperties
    <3> QED
      BY <3>1, <3>2
  <2> HIDE DEF p
  <2>3. node = IF n = Len(s) THEN Nil ELSE s[n + 1]
    <3>1. CASE n = 0
      <4>1. p = << >> /\ (s = << >> <=> n = Len(s))
        BY <1>1, <2>2, <3>1
      <4> QED
        BY <3>1, <4>1 DEF Linked
    <3>2. CASE n # 0
      <4>1. n \in 1..Len(s) /\ p # << >> /\ p[Len(p)] = s[n]
        BY <1>1, <1>3, <2>2, <3>2
      <4> QED
        BY <4>1 DEF Linked
    <3> QED
      BY <3>1, <3>2
  <2>4. WalkOn(p, n) = IF node = Nil THEN p ELSE Append(p, node)
    BY <2>2 DEF WalkOn
  <2> HIDE DEF node
  <2>5. CASE n = Len(s)
    <3>1. UpTo(s, n + 1) = SubSeq(s, 1, n)
      BY <2>5 DEF UpTo
    <3> QED
      BY <2>1, <2>3, <2>4, <2>5, <3>1 DEF p
  <2>6. CASE n # Len(s)
    <3>1. n + 1 \in 1..Len(s) /\ UpTo(s, n + 1) = SubSeq(s, 1, n + 1)
      BY <1>1, <1>3, <2>6 DEF UpTo
    <3>2. WalkOn(p, n) = Append(p, s[n + 1]) /\ s[n + 1] \in Keys
      BY <1>1, <2>3, <2>4, <2>6, <3>1
    <3>3. SubSeq(s, 1, n + 1) = SubSeq(s, 1, n) \o <<s[n + 1]>>
      <4>1. 1 \in 1..Len(s) /\ n + 1 \in 1..Len(s) /\ (n + 1) - 1 = n
        BY <1>1, <3>1
      <4>2. SubSeq(s, 1, n + 1) = SubSeq(s, 1, (n + 1) - 1) \o <<s[n + 1]>>
        BY <4>1, SubSeqRecursiveSecond
      <4> QED
        BY <4>1, <4>2
    <3>4. Append(p, s[n + 1]) = p \o <<s[n + 1]>>
      BY <2>2, <3>2, AppendIsConcat
    <3> QED
      BY <2>1, <3>1, <3>2, <3>3, <3>4 DEF p
  <2> QED
    BY <2>5, <2>6
<1> QED
  BY <1>1, <1>2, <1>3

\* Walk[n] passes the first n keys of the list.
LEMMA WalkPasses ==
    ASSUME NEW s \in Seq(Keys), Linked(s), NEW n \in Nat
    PROVE  Walk[n] = UpTo(s, n)
<1> DEFINE e(g) == [k \in Nat |-> IF k = 0 THEN << >> ELSE WalkOn(g[k - 1], k - 1)]
           w == [k \in Nat |-> UpTo(s, k)]
<1>1. UpTo(s, 0) = << >>
  <2>1. 0 <= Len(s)
    OBVIOUS
  <2> QED
    BY <2>1, SubSeqEmpty DEF UpTo
<1>2. w = e(w)
  <2>1. ASSUME NEW k \in Nat PROVE w[k] = IF k = 0 THEN << >> ELSE WalkOn(w[k - 1], k - 1)
    <3>1. CASE k = 0
      BY <1>1, <3>1
    <3>2. CASE k # 0
      <4>1. k - 1 \in Nat /\ (k - 1) + 1 = k
        BY <3>2
      <4>2. UpTo(s, (k - 1) + 1) = WalkOn(UpTo(s, k - 1), k - 1)
        BY <4>1, WalkedOn
      <4> QED
        BY <3>2, <4>1, <4>2
    <3> QED
      BY <3>1, <3>2
  <2> HIDE DEF w
  <2>2. w = [k \in Nat |-> w[k]]
    BY DEF w
  <2> QED
    BY <2>1, <2>2
<1>3. Walk = CHOOSE g : g = e(g)
  BY DEF Walk, WalkOn
<1> HIDE DEF e, w
<1>4. Walk = e(Walk)
  BY <1>2, <1>3
<1> USE DEF e
<1> DEFINE T == {k \in Nat : Walk[k] = UpTo(s, k)}
<1>5. 0 \in T
  BY <1>1, <1>4
<1>6. ASSUME NEW k \in Nat, k \in T PROVE k + 1 \in T
  <2>1. k + 1 \in Nat /\ k + 1 # 0 /\ (k + 1) - 1 = k
    OBVIOUS
  <2>2. Walk[k + 1] = WalkOn(Walk[k], k)
    BY <1>4, <2>1
  <2> QED
    BY <1>6, <2>1, <2>2, WalkedOn
<1> HIDE DEF T
<1>7. n \in T
  BY <1>5, <1>6, Counting!CountingUp
<1> QED
  BY <1>7 DEF T

\* The order of the refinement is the list, whichever way it is described.
OrderIsList == \A s \in Seq(Keys) : Linked(s) => Walk[Cardinality(Keys)] = s

\* The walk from MFUNode along nextBlock visits the list, whole and in order.
LEMMA WalkIsList == OrderIsList
<1> SUFFICES ASSUME NEW s \in Seq(Keys), Linked(s) PROVE Walk[Cardinality(Keys)] = s
  BY DEF OrderIsList
<1>1. Len(s) <= Cardinality(Keys) /\ Cardinality(Keys) \in Nat /\ Len(s) \in Nat
  BY ListedCount
<1>2. Walk[Cardinality(Keys)] = UpTo(s, Cardinality(Keys))
  BY <1>1, WalkPasses
<1>3. UpTo(s, Cardinality(Keys)) = SubSeq(s, 1, Len(s))
  BY <1>1 DEF UpTo
<1> QED
  BY <1>2, <1>3, SubSeqFull

-----------------------------------------------------------------------------
(* What the operations do to the list *)

\* t is s with its element at i brought to the front.
Ahead(s, i, t) ==
    /\ Len(t) = Len(s)
    /\ \A j \in 1..Len(t) : t[j] = IF j = 1 THEN s[i] ELSE IF j <= i THEN s[j - 1] ELSE s[j]

\* re_rank leaves the list in the order in which its node comes first.
LEMMA ReRanked ==
    ASSUME CacheTypeOK, NEW s \in Seq(Keys), Linked(s), NEW i \in 1..Len(s),
           NEW t \in Seq(Keys), Ahead(s, i, t), re_rank(s[i]), nodeCache' = nodeCache
    PROVE  /\ Linked(t)'
           /\ (nextBlock \in [Keys -> Keys \cup {Nil}])'
           /\ (prevBlock \in [Keys -> Keys \cup {Nil}])'
<1> DEFINE n == Len(s)
           k == s[i]
<1>1. n \in Nat /\ i \in Nat /\ 1 <= i /\ i <= n /\ s # << >>
  OBVIOUS
<1>2. \A m \in 1..n : s[m] \in Keys /\ s[m] # Nil
  BY CacheAssumption
<1>3. \A a, b \in 1..n : s[a] = s[b] => a = b
  BY DEF Linked
<1>4. Len(t) = n /\ t # << >>
      /\ \A j \in 1..n : t[j] = IF j = 1 THEN k ELSE IF j <= i THEN s[j - 1] ELSE s[j]
  BY <1>1 DEF Ahead
<1>5. MFUNode = s[1] /\ LRUNode = s[n]
  BY <1>1 DEF Linked
<1>6. \A m \in 1..n : /\ nextBlock[s[m]] = IF m = n THEN Nil ELSE s[m + 1]
                      /\ prevBlock[s[m]] = IF m = 1 THEN Nil ELSE s[m - 1]
  BY DEF Linked
<1>7. nodeCache = {s[m] : m \in 1..n}
  BY DEF Linked
<1>8. nextBlock \in [Keys -> Keys \cup {Nil}] /\ prevBlock \in [Keys -> Keys \cup {Nil}]
  BY DEF CacheTypeOK
<1> HIDE DEF n, k
<1>9. k \in Keys /\ k = s[i]
  BY <1>1, <1>2 DEF k
<1>10. CASE MFUNode = k
  <2>1. i = 1
    <3>1. 1 \in 1..n /\ s[1] = s[i]
      BY <1>1, <1>5, <1>9, <1>10
    <3> QED
      BY <1>1, <1>3, <3>1
  <2>2. \A j \in 1..n : t[j] = s[j]
    BY <1>1, <1>4, <1>9, <2>1
  <2>3. t = s
    BY <1>1, <1>4, <2>2, SeqEqual DEF n
  <2>4. UNCHANGED <<nextBlock, prevBlock, MFUNode, LRUNode>>
    BY <1>10 DEF re_rank, k
  <2> QED
    BY <1>8, <2>3, <2>4 DEF Linked
<1>11. CASE MFUNode # k
  <2> DEFINE before == s[i - 1]
             after == IF i = n THEN Nil ELSE s[i + 1]
             unlinked == [x \in Keys |-> IF x = k THEN Nil
                             ELSE IF x = after THEN before ELSE prevBlock[x]]
  <2>1. i # 1 /\ i - 1 \in 1..n /\ 1 \in 1..n
    BY <1>1, <1>5, <1>11 DEF k
  <2>2. prevBlock[k] = before /\ (IF LRUNode = k THEN Nil ELSE nextBlock[k]) = after
    <3>1. LRUNode = k <=> i = n
      BY <1>1, <1>3, <1>5, <1>9
    <3> QED
      BY <1>1, <1>6, <1>9, <2>1, <3>1
  <2>3. /\ LRUNode' = IF i = n THEN before ELSE s[n]
        /\ nextBlock' = [nextBlock EXCEPT ![before] = after, ![k] = s[1]]
        /\ prevBlock' = [unlinked EXCEPT ![s[1]] = k]
        /\ MFUNode' = k
    <3>1. LRUNode = k <=> i = n
      BY <1>1, <1>3, <1>5, <1>9
    <3> QED
      BY <1>5, <1>11, <2>2, <3>1 DEF re_rank, LastWithout, k
  <2>4. before \in Keys /\ after \in Keys \cup {Nil} /\ s[1] \in Keys
    BY <1>1, <1>2, <2>1
  <2>5. unlinked \in [Keys -> Keys \cup {Nil}]
    BY <1>8, <2>4
  <2>6. nextBlock' \in [Keys -> Keys \cup {Nil}] /\ prevBlock' \in [Keys -> Keys \cup {Nil}]
    <3> HIDE DEF before, after, unlinked
    <3> QED
      BY <1>8, <1>9, <2>3, <2>4, <2>5
  <2>7. ASSUME NEW m \in 1..n
        PROVE  nextBlock'[s[m]] = IF m = i THEN s[1] ELSE IF m = i - 1 THEN after
                                  ELSE IF m = n THEN Nil ELSE s[m + 1]
    <3>1. s[m] = k <=> m = i
      BY <1>1, <1>3, <1>9
    <3>2. s[m] = before <=> m = i - 1
      BY <1>3, <2>1
    <3>3. nextBlock[s[m]] = IF m = n THEN Nil ELSE s[m + 1]
      BY <1>6
    <3>4. s[m] \in Keys
      BY <1>2
    <3> HIDE DEF before, after
    <3> QED
      BY <1>8, <1>9, <2>3, <2>4, <3>1, <3>2, <3>3, <3>4
  <2>8. ASSUME NEW m \in 1..n
        PROVE  prevBlock'[s[m]] = IF m = i THEN Nil ELSE IF m = 1 THEN k
                                  ELSE IF m = i + 1 THEN s[i - 1] ELSE s[m - 1]
    <3>1. s[m] = k <=> m = i
      BY <1>1, <1>3, <1>9
    <3>2. s[m] = s[1] <=> m = 1
      BY <1>3, <2>1
    <3>3. s[m] = after <=> m = i + 1
      BY <1>1, <1>2, <1>3
    <3>4. prevBlock[s[m]] = IF m = 1 THEN Nil ELSE s[m - 1]
      BY <1>6
    <3>5. s[m] \in Keys
      BY <1>2
    <3>6. unlinked[s[m]] = IF m = i THEN Nil ELSE IF m = i + 1 THEN before ELSE prevBlock[s[m]]
      <4> HIDE DEF after, before
      <4> QED
        BY <3>1, <3>3, <3>5
    <3>7. prevBlock'[s[m]] = IF m = 1 THEN k ELSE unlinked[s[m]]
      <4> HIDE DEF unlinked
      <4> QED
        BY <2>3, <2>4, <2>5, <3>2, <3>5
    <3> HIDE DEF unlinked
    <3> QED
      BY <2>1, <3>4, <3>6, <3>7
  <2>9. \A a, b \in 1..n : t[a] = t[b] => a = b
    <3> SUFFICES ASSUME NEW a \in 1..n, NEW b \in 1..n, t[a] = t[b] PROVE a = b
      OBVIOUS
    <3> DEFINE at(j) == IF j = 1 THEN i ELSE IF j <= i THEN j - 1 ELSE j
    <3>1. \A j \in 1..n : at(j) \in 1..n /\ t[j] = s[at(j)]
      BY <1>1, <1>4, <1>9
    <3>2. at(a) = at(b)
      <4> HIDE DEF at
      <4> QED
        BY <1>3, <3>1
    <3> QED
      BY <1>1, <3>2
  <2>10. nodeCache' = {t[j] : j \in 1..n}
    <3>1. ASSUME NEW j \in 1..n PROVE t[j] \in nodeCache
      <4>1. i \in 1..n /\ (j = 1 \/ j - 1 \in 1..n)
        BY <1>1
      <4> QED
        BY <1>4, <1>7, <1>9, <4>1
    <3>2. ASSUME NEW m \in 1..n PROVE \E j \in 1..n : t[j] = s[m]
      <4>1. CASE m = i
        BY <1>4, <1>9, <2>1, <4>1
      <4>2. CASE m < i
        <5>1. m + 1 \in 1..n /\ m + 1 # 1 /\ m + 1 <= i /\ (m + 1) - 1 = m
          BY <1>1, <4>2
        <5>2. t[m + 1] = s[m]
          BY <1>4, <5>1
        <5> QED
          BY <5>1, <5>2
      <4>3. CASE m > i
        BY <1>1, <1>4, <4>3
      <4> QED
        BY <1>1, <4>1, <4>2, <4>3
    <3> QED
      BY <1>7, <3>1, <3>2
  <2>11. MFUNode' = t[1] /\ LRUNode' = t[n]
    BY <1>1, <1>4, <1>9, <2>1, <2>3
  <2>12. ASSUME NEW j \in 1..n
         PROVE  /\ nextBlock'[t[j]] = IF j = n THEN Nil ELSE t[j + 1]
                /\ prevBlock'[t[j]] = IF j = 1 THEN Nil ELSE t[j - 1]
    <3>1. CASE j = 1
      <4>1. t[j] = s[i] /\ j # n /\ 2 \in 1..n /\ j + 1 = 2
        BY <1>1, <1>4, <1>9, <2>1, <3>1
      <4>2. t[2] = s[1]
        BY <1>1, <1>4, <2>1, <4>1
      <4> QED
        BY <1>1, <2>7, <2>8, <3>1, <4>1, <4>2
    <3>2. CASE j # 1 /\ j <= i
      <4>1. t[j] = s[j - 1] /\ j - 1 \in 1..n /\ j \in Nat
        BY <1>1, <1>4, <3>2
      <4>2. nextBlock'[t[j]] = IF j = i THEN after ELSE s[j]
        <5>1. nextBlock'[s[j - 1]] = IF j - 1 = i THEN s[1] ELSE IF j - 1 = i - 1 THEN after
                                     ELSE IF j - 1 = n THEN Nil ELSE s[(j - 1) + 1]
          BY <2>7, <4>1
        <5> HIDE DEF after
        <5> QED
          BY <1>1, <3>2, <4>1, <5>1
      <4>3. prevBlock'[t[j]] = IF j = 2 THEN k ELSE s[j - 2]
        <5>1. prevBlock'[s[j - 1]] = IF j - 1 = i THEN Nil ELSE IF j - 1 = 1 THEN k
                                  ELSE IF j - 1 = i + 1 THEN s[i - 1] ELSE s[(j - 1) - 1]
          BY <2>8, <4>1
        <5>2. (j - 1) - 1 = j - 2
          BY <4>1
        <5> QED
          BY <1>1, <3>2, <4>1, <5>1, <5>2
      <4>4. j # n => t[j + 1] = IF j = i THEN s[i + 1] ELSE s[j]
        <5>1. ASSUME j # n PROVE j + 1 \in 1..n /\ j + 1 # 1 /\ (j + 1) - 1 = j
          BY <1>1, <4>1, <5>1
        <5> QED
          BY <1>1, <1>4, <3>2, <4>1, <5>1
      <4>5. t[j - 1] = IF j = 2 THEN k ELSE s[j - 2]
        <5>1. j - 1 <= i /\ (j - 1) - 1 = j - 2 /\ (j - 1 = 1 <=> j = 2)
          BY <1>1, <3>2, <4>1
        <5> QED
          BY <1>4, <4>1, <5>1
      <4> QED
        BY <1>1, <3>2, <4>1, <4>2, <4>3, <4>4, <4>5
    <3>3. CASE j > i
      <4>1. t[j] = s[j] /\ j \in Nat /\ j # 1 /\ j # i /\ j # i - 1 /\ j - 1 \in 1..n
        BY <1>1, <1>4, <3>3
      <4>2. nextBlock'[t[j]] = IF j = n THEN Nil ELSE s[j + 1]
        BY <2>7, <4>1
      <4>3. j # n => t[j + 1] = s[j + 1]
        BY <1>1, <1>4, <3>3, <4>1
      <4>4. prevBlock'[t[j]] = IF j = i + 1 THEN s[i - 1] ELSE s[j - 1]
        BY <2>8, <4>1
      <4>5. t[j - 1] = IF j = i + 1 THEN s[i - 1] ELSE s[j - 1]
        <5>1. CASE j = i + 1
          <6>1. j - 1 = i
            BY <1>1, <5>1
          <6>2. t[i] = s[i - 1]
            BY <1>1, <1>4, <2>1
          <6> QED
            BY <5>1, <6>1, <6>2
        <5>2. CASE j # i + 1
          <6>1. j - 1 > i /\ j - 1 # 1
            BY <1>1, <3>3, <4>1, <5>2
          <6> QED
            BY <1>1, <1>4, <4>1, <5>2, <6>1
        <5> QED
          BY <5>1, <5>2
      <4> QED
        BY <4>1, <4>2, <4>3, <4>4, <4>5
    <3> QED
      BY <1>1, <3>1, <3>2, <3>3
  <2> HIDE DEF before, after, unlinked
  <2> QED
    BY <1>4, <2>6, <2>9, <2>10, <2>11, <2>12 DEF Linked
<1> QED
  BY <1>10, <1>11

\* r is what stays of s when a new key comes: all, or all but the last when the
\* cache is full.
Stays(s, r) ==
    /\ Len(r) = IF Len(s) = Capacity THEN Len(s) - 1 ELSE Len(s)
    /\ \A j \in 1..Len(r) : r[j] = s[j]

\* A new key is in front of what stays, and the last key goes when there is no room.
LEMMA NewListed ==
    ASSUME CacheTypeOK, NEW s \in Seq(Keys), Linked(s), NEW r \in Seq(Keys), Stays(s, r),
           NEW k \in Keys, NEW v \in Values, PutNew(k, v)
    PROVE  /\ Linked(<<k>> \o r)'
           /\ (nextBlock \in [Keys -> Keys \cup {Nil}])'
           /\ (prevBlock \in [Keys -> Keys \cup {Nil}])'
           /\ (data \in [nodeCache -> Values])'
           /\ data' = [x \in nodeCache' |-> IF x = k THEN v ELSE data[x]]
<1> DEFINE n == Len(s)
           l == Len(r)
           t == <<k>> \o r
           full == Cardinality(nodeCache) = Capacity
           last == IF full THEN LastWithout(LRUNode) ELSE LRUNode
           first == IF full /\ last = Nil THEN Nil ELSE MFUNode
           kept == IF full THEN nodeCache \ {LRUNode} ELSE nodeCache
<1>1. /\ k \notin nodeCache
      /\ nodeCache' = kept \cup {k}
      /\ data' = [x \in kept \cup {k} |-> IF x = k THEN v ELSE data[x]]
      /\ nextBlock' = [x \in Keys |-> IF x = k THEN first
                          ELSE IF full /\ x = last THEN Nil ELSE nextBlock[x]]
      /\ prevBlock' = [x \in Keys |-> IF x = k \/ (full /\ x = LRUNode) THEN Nil
                          ELSE IF x = first THEN k ELSE prevBlock[x]]
      /\ MFUNode' = k
      /\ LRUNode' = IF first = Nil THEN k ELSE last
  BY DEF PutNew
<1>2. n \in Nat /\ l \in Nat /\ (full <=> n = Capacity) /\ Capacity \in Nat \ {0}
      /\ (full => s # << >> /\ n >= 1)
  BY ListedCount, CacheAssumption
<1>3. /\ l = IF full THEN n - 1 ELSE n
      /\ \A j \in 1..l : r[j] = s[j]
  BY <1>2 DEF Stays
<1>4. \A m \in 1..n : s[m] \in Keys /\ s[m] # Nil
  BY CacheAssumption
<1>5. \A a, b \in 1..n : s[a] = s[b] => a = b
  BY DEF Linked
<1>6. /\ MFUNode = IF n = 0 THEN Nil ELSE s[1]
      /\ LRUNode = IF n = 0 THEN Nil ELSE s[n]
  <2>1. s = << >> <=> n = 0
    OBVIOUS
  <2> QED
    BY <2>1 DEF Linked
<1>7. \A m \in 1..n : /\ nextBlock[s[m]] = IF m = n THEN Nil ELSE s[m + 1]
                      /\ prevBlock[s[m]] = IF m = 1 THEN Nil ELSE s[m - 1]
  BY DEF Linked
<1>8. nodeCache = {s[m] : m \in 1..n}
  BY DEF Linked
<1>9. /\ nextBlock \in [Keys -> Keys \cup {Nil}] /\ prevBlock \in [Keys -> Keys \cup {Nil}]
      /\ data \in [nodeCache -> Values]
  BY DEF CacheTypeOK
<1>10. \A m \in 1..n : s[m] # k
  BY <1>1, <1>8
<1>11. t \in Seq(Keys) /\ Len(t) = l + 1 /\ t # << >> /\ t[1] = k
       /\ \A j \in 1..(l + 1) : t[j] = IF j = 1 THEN k ELSE r[j - 1]
  BY InFront
<1> HIDE DEF n, l, t
<1>12. last = IF l = 0 THEN Nil ELSE s[l]
  <2>1. CASE full
    <3>1. last = prevBlock[s[n]] /\ n \in 1..n
      BY <1>2, <1>6, <2>1 DEF LastWithout
    <3>2. last = IF n = 1 THEN Nil ELSE s[n - 1]
      BY <1>7, <3>1
    <3> QED
      BY <1>2, <1>3, <2>1, <3>2
  <2>2. CASE ~full
    BY <1>3, <1>6, <2>2
  <2> QED
    BY <2>1, <2>2
<1>13. first = IF l = 0 THEN Nil ELSE s[1]
  <2>1. CASE full
    <3>1. last = Nil <=> l = 0
      <4>1. l # 0 => l \in 1..n
        BY <1>2, <1>3
      <4> QED
        BY <1>4, <1>12, <4>1
    <3> QED
      BY <1>2, <1>6, <2>1, <3>1
  <2>2. CASE ~full
    BY <1>3, <1>6, <2>2
  <2> QED
    BY <2>1, <2>2
<1>14. kept = {r[m] : m \in 1..l}
  <2>1. CASE full
    <3>1. LRUNode = s[n] /\ n \in 1..n /\ l = n - 1
      BY <1>2, <1>3, <1>6, <2>1
    <3>2. \A m \in 1..n : s[m] # s[n] <=> m \in 1..l
      BY <1>2, <1>5, <3>1
    <3>3. \A m \in 1..l : m \in 1..n
      BY <1>2, <3>1
    <3>4. kept = nodeCache \ {s[n]}
      BY <2>1, <3>1
    <3> QED
      BY <1>3, <1>8, <3>2, <3>3, <3>4
  <2>2. CASE ~full
    BY <1>3, <1>8, <2>2
  <2> QED
    BY <2>1, <2>2
<1>15. \A m \in 1..l : m \in 1..n /\ r[m] = s[m] /\ (full => m # n /\ s[m] # LRUNode)
  <2> SUFFICES ASSUME NEW m \in 1..l
               PROVE  m \in 1..n /\ r[m] = s[m] /\ (full => m # n /\ s[m] # LRUNode)
    OBVIOUS
  <2>1. m \in 1..n /\ r[m] = s[m]
    BY <1>2, <1>3
  <2>2. ASSUME full PROVE m # n /\ s[m] # LRUNode
    <3>1. m # n /\ n \in 1..n /\ LRUNode = s[n]
      BY <1>2, <1>3, <1>6, <2>2
    <3> QED
      BY <1>5, <2>1, <3>1
  <2> QED
    BY <2>1, <2>2
<1>16. first \in Keys \cup {Nil} /\ last \in Keys \cup {Nil}
  <2>1. l # 0 => 1 \in 1..n /\ l \in 1..n
    BY <1>2, <1>3
  <2> QED
    BY <1>4, <1>12, <1>13, <2>1
<1> HIDE DEF first, last, full, kept
<1>17. nextBlock' \in [Keys -> Keys \cup {Nil}] /\ prevBlock' \in [Keys -> Keys \cup {Nil}]
  BY <1>1, <1>9, <1>16
<1>18. nodeCache' = {t[j] : j \in 1..(l + 1)}
  <2>1. ASSUME NEW j \in 1..(l + 1) PROVE t[j] \in nodeCache'
    <3>1. j = 1 \/ j - 1 \in 1..l
      BY <1>2
    <3> QED
      BY <1>1, <1>11, <1>14, <3>1
  <2>2. ASSUME NEW m \in 1..l PROVE \E j \in 1..(l + 1) : t[j] = r[m]
    <3>1. m + 1 \in 1..(l + 1) /\ m + 1 # 1 /\ (m + 1) - 1 = m
      BY <1>2
    <3>2. t[m + 1] = r[m]
      BY <1>11, <3>1
    <3> QED
      BY <3>1, <3>2
  <2>3. \E j \in 1..(l + 1) : t[j] = k
    <3>1. 1 \in 1..(l + 1)
      BY <1>2
    <3> QED
      BY <1>11, <3>1
  <2> QED
    BY <1>1, <1>14, <2>1, <2>2, <2>3
<1>19. \A a, b \in 1..(l + 1) : t[a] = t[b] => a = b
  <2> SUFFICES ASSUME NEW a \in 1..(l + 1), NEW b \in 1..(l + 1), t[a] = t[b] PROVE a = b
    OBVIOUS
  <2>1. \A j \in 1..(l + 1) : j # 1 => j - 1 \in 1..n /\ t[j] = s[j - 1] /\ t[j] # k
    <3> SUFFICES ASSUME NEW j \in 1..(l + 1), j # 1
                 PROVE  j - 1 \in 1..n /\ t[j] = s[j - 1] /\ t[j] # k
      OBVIOUS
    <3>1. j - 1 \in 1..l
      BY <1>2
    <3> QED
      BY <1>10, <1>11, <1>15, <3>1
  <2>2. CASE a = 1 \/ b = 1
    BY <1>11, <2>1, <2>2
  <2>3. CASE a # 1 /\ b # 1
    <3>1. a - 1 = b - 1
      BY <1>5, <2>1, <2>3
    <3> QED
      BY <1>2, <3>1
  <2> QED
    BY <2>2, <2>3
<1>20. MFUNode' = t[1] /\ LRUNode' = t[l + 1]
  <2>1. CASE l = 0
    BY <1>1, <1>11, <1>13, <2>1
  <2>2. CASE l # 0
    <3>1. l \in 1..l /\ l + 1 \in 1..(l + 1) /\ l + 1 # 1 /\ (l + 1) - 1 = l /\ 1 \in 1..l
      BY <1>2, <2>2
    <3>2. t[l + 1] = s[l] /\ s[1] # Nil
      BY <1>4, <1>11, <1>15, <3>1
    <3> QED
      BY <1>1, <1>11, <1>12, <1>13, <2>2, <3>2
  <2> QED
    BY <2>1, <2>2
<1>21. ASSUME NEW j \in 1..(l + 1)
       PROVE  /\ nextBlock'[t[j]] = IF j = l + 1 THEN Nil ELSE t[j + 1]
              /\ prevBlock'[t[j]] = IF j = 1 THEN Nil ELSE t[j - 1]
  <2>1. CASE j = 1
    <3>1. nextBlock'[k] = first /\ prevBlock'[k] = Nil
      BY <1>1
    <3>2. l # 0 => t[2] = s[1]
      <4>1. l # 0 => 1 \in 1..l /\ 2 \in 1..(l + 1) /\ 2 - 1 = 1
        BY <1>2
      <4> QED
        BY <1>11, <1>15, <4>1
    <3> QED
      BY <1>2, <1>11, <1>13, <2>1, <3>1, <3>2
  <2>2. CASE j # 1
    <3> DEFINE m == j - 1
    <3>1. m \in 1..l /\ m \in Nat /\ j = m + 1
      BY <1>2, <2>2
    <3>2. m \in 1..n /\ t[j] = s[m] /\ s[m] # k /\ s[m] \in Keys /\ (full => s[m] # LRUNode)
      BY <1>4, <1>10, <1>11, <1>15, <2>2, <3>1
    <3>3. l # 0 /\ 1 \in 1..n /\ l \in 1..n
      BY <1>2, <1>3, <3>1
    <3>4. s[m] = first <=> m = 1
      BY <1>5, <1>13, <3>2, <3>3
    <3>5. s[m] = last <=> m = l
      BY <1>5, <1>12, <3>2, <3>3
    <3>6. t[m] = IF m = 1 THEN k ELSE s[m - 1]
      <4>1. m \in 1..(l + 1) /\ (m # 1 => m - 1 \in 1..l)
        BY <1>2, <3>1
      <4> QED
        BY <1>11, <1>15, <4>1
    <3>7. m # l => t[j + 1] = s[m + 1]
      <4>1. m # l => m + 1 \in 1..l /\ j + 1 \in 1..(l + 1) /\ j + 1 # 1 /\ (j + 1) - 1 = m + 1
        BY <1>2, <3>1
      <4> QED
        BY <1>11, <1>15, <4>1
    <3>8. nextBlock[s[m]] = (IF m = n THEN Nil ELSE s[m + 1])
          /\ prevBlock[s[m]] = (IF m = 1 THEN Nil ELSE s[m - 1])
      BY <1>7, <3>2
    <3>9. prevBlock'[s[m]] = IF m = 1 THEN k ELSE s[m - 1]
      BY <1>1, <3>2, <3>4, <3>8
    <3>10. nextBlock'[s[m]] = IF full /\ m = l THEN Nil ELSE nextBlock[s[m]]
      BY <1>1, <3>2, <3>5
    <3>11. nextBlock'[s[m]] = IF m = l THEN Nil ELSE s[m + 1]
      <4>1. ~full => l = n
        BY <1>3
      <4>2. full => m # n
        BY <1>15, <3>1
      <4> QED
        BY <3>8, <3>10, <4>1, <4>2
    <3>12. m = l <=> j = l + 1
      BY <1>2, <3>1
    <3> HIDE DEF m
    <3>13. j - 1 = m
      BY <3>1
    <3> QED
      BY <2>2, <3>2, <3>6, <3>7, <3>9, <3>11, <3>12, <3>13
  <2> QED
    BY <2>1, <2>2
<1>22. Linked(t)'
  BY <1>11, <1>18, <1>19, <1>20, <1>21 DEF Linked
<1>23. data' = [x \in nodeCache' |-> IF x = k THEN v ELSE data[x]]
  BY <1>1
<1>24. data' \in [nodeCache' -> Values]
  <2>1. kept \subseteq nodeCache
    BY DEF kept
  <2> QED
    BY <1>1, <1>9, <2>1
<1> QED
  BY <1>17, <1>22, <1>23, <1>24 DEF t

-----------------------------------------------------------------------------
(* The invariant is inductive, and the cache implements Recency *)

\* The types follow from a list that is not too long.
ListTyped ==
    \A s \in Seq(Keys) :
        /\ Linked(s) /\ Len(s) <= Capacity
        /\ nextBlock \in [Keys -> Keys \cup {Nil}] /\ prevBlock \in [Keys -> Keys \cup {Nil}]
        /\ data \in [nodeCache -> Values]
        => CacheTypeOK

\* MFUNode, LFUNode and the size of the map come with the list.
LEMMA ListGivesTypes == ListTyped
<1> SUFFICES ASSUME NEW s \in Seq(Keys), Linked(s), Len(s) <= Capacity,
                    nextBlock \in [Keys -> Keys \cup {Nil}],
                    prevBlock \in [Keys -> Keys \cup {Nil}], data \in [nodeCache -> Values]
             PROVE  CacheTypeOK
  BY DEF ListTyped
<1>1. Cardinality(nodeCache) <= Capacity
  BY ListedCount
<1>2. nodeCache = {s[i] : i \in 1..Len(s)} /\ \A i \in 1..Len(s) : s[i] \in Keys
  BY DEF Linked
<1>3. MFUNode \in nodeCache \cup {Nil} /\ LRUNode \in nodeCache \cup {Nil}
  <2>1. CASE s = << >>
    BY <2>1 DEF Linked
  <2>2. CASE s # << >>
    <3>1. 1 \in 1..Len(s) /\ Len(s) \in 1..Len(s)
      BY <2>2
    <3>2. MFUNode = s[1] /\ LRUNode = s[Len(s)]
      BY <2>2 DEF Linked
    <3> QED
      BY <1>2, <3>1, <3>2
  <2> QED
    BY <2>1, <2>2
<1> QED
  BY <1>1, <1>2, <1>3 DEF CacheTypeOK

\* The use of a cached key, in the abstract order.
LEMMA UsedCached ==
    ASSUME NEW s \in Seq(Keys), Linked(s), NEW i \in 1..Len(s)
    PROVE  LET t == Recent!Used(s[i])
           IN t \in Seq(Keys) /\ Ahead(s, i, t)
<1> DEFINE r == Recent!RemoveAt(s, i)
           t == <<s[i]>> \o r
<1>1. Walk[Cardinality(Keys)] = s
  BY WalkIsList DEF OrderIsList
<1>2. \A j \in 1..Len(s) : s[j] = s[i] => j = i
  BY DEF Linked
<1>3. Recent!Used(s[i]) = t
  BY <1>1, <1>2, RemovedFirst DEF Recent!Used
<1>4. /\ r \in Seq(Keys) /\ Len(r) = Len(s) - 1
      /\ \A j \in 1..Len(r) : r[j] = IF j < i THEN s[j] ELSE s[j + 1]
  BY WithoutOne
<1> HIDE DEF r
<1>5. s[i] \in Keys /\ Len(s) \in Nat /\ i \in Nat
  OBVIOUS
<1>6. /\ t \in Seq(Keys) /\ Len(t) = Len(r) + 1
      /\ \A j \in 1..Len(t) : t[j] = IF j = 1 THEN s[i] ELSE r[j - 1]
  BY <1>4, <1>5, InFront
<1> HIDE DEF t
<1>7. Ahead(s, i, t)
  <2>1. Len(t) = Len(s)
    BY <1>4, <1>5, <1>6
  <2>2. ASSUME NEW j \in 1..Len(t), j # 1
        PROVE  t[j] = IF j <= i THEN s[j - 1] ELSE s[j]
    <3>1. j - 1 \in 1..Len(r) /\ (j - 1) + 1 = j /\ (j - 1 < i <=> j <= i)
      <4>1. j \in 1..Len(s) /\ j # 1 /\ Len(r) = Len(s) - 1
        BY <1>4, <2>1, <2>2
      <4> QED
        BY <1>5, <4>1
    <3>2. t[j] = r[j - 1]
      BY <1>6, <2>2
    <3>3. r[j - 1] = IF j - 1 < i THEN s[j - 1] ELSE s[(j - 1) + 1]
      BY <1>4, <3>1
    <3> QED
      BY <3>1, <3>2, <3>3
  <2> QED
    BY <1>6, <2>1, <2>2 DEF Ahead
<1> QED
  BY <1>3, <1>6, <1>7

\* The use of a new key, in the abstract order.
LEMMA UsedNew ==
    ASSUME NEW s \in Seq(Keys), Linked(s), NEW k \in Keys, k \notin nodeCache
    PROVE  Recent!Used(k) = <<k>> \o s
<1>1. Walk[Cardinality(Keys)] = s
  BY WalkIsList DEF OrderIsList
<1>2. \A j \in 1..Len(s) : s[j] # k
  BY DEF Linked
<1> QED
  BY <1>1, <1>2, NoneRemoved DEF Recent!Used

\* re_rank does to the order what Used does.
LEMMA ReRankUses ==
    ASSUME CacheTypeOK, NEW s \in Seq(Keys), Linked(s), Len(s) <= Capacity,
           NEW k \in nodeCache, re_rank(k), nodeCache' = nodeCache, data' \in [nodeCache -> Values]
    PROVE  /\ \E t \in Seq(Keys) : Linked(t)'
           /\ CacheTypeOK'
           /\ (Walk[Cardinality(Keys)])' = Recent!Used(k)
           /\ Recent!Used(k) \in Seq(Keys) /\ Len(Recent!Used(k)) <= Capacity
           /\ Recent!ToSet(Recent!Used(k)) = nodeCache
<1>1. PICK i \in 1..Len(s) : s[i] = k
  BY DEF Linked
<1> DEFINE t == Recent!Used(k)
<1>2. t \in Seq(Keys) /\ Ahead(s, i, t)
  BY <1>1, UsedCached
<1>3. PICK u : u = t
  OBVIOUS
<1> HIDE DEF t
<1>4. u \in Seq(Keys) /\ Ahead(s, i, u)
  BY <1>2, <1>3
<1>5. /\ Linked(u)'
      /\ (nextBlock \in [Keys -> Keys \cup {Nil}])'
      /\ (prevBlock \in [Keys -> Keys \cup {Nil}])'
  BY <1>1, <1>4, ReRanked
<1>6. Len(u) <= Capacity
  BY <1>4 DEF Ahead
<1>7. ListTyped' /\ OrderIsList'
  BY ListGivesTypes, WalkIsList, PTL
<1>8. CacheTypeOK'
  <2>1. (data \in [nodeCache -> Values])' /\ Linked(u)' /\ u \in Seq(Keys)
    BY <1>4, <1>5
  <2> QED
    BY <1>5, <1>6, <1>7, <2>1, Zenon DEF ListTyped
<1>9. (Walk[Cardinality(Keys)])' = u
  BY <1>4, <1>5, <1>7 DEF OrderIsList
<1>10. Recent!ToSet(u) = nodeCache
  <2>1. nodeCache' = {u[j] : j \in 1..Len(u)}
    BY <1>5 DEF Linked
  <2>2. DOMAIN u = 1..Len(u)
    BY <1>4
  <2> QED
    BY <2>1, <2>2 DEF Recent!ToSet
<1> QED
  BY <1>3, <1>4, <1>5, <1>6, <1>8, <1>9, <1>10 DEF t

\* Get is the abstract Get.
LEMMA GetKeeps ==
    ASSUME CacheIInv, NEW k \in Keys, Get(k)
    PROVE  CacheIInv' /\ Recent!Get(k)
<1>1. PICK s \in Seq(Keys) : Linked(s)
  BY DEF CacheIInv
<1>2. CacheTypeOK /\ data \in [nodeCache -> Values] /\ Len(s) <= Capacity
  BY <1>1, ListedCount DEF CacheIInv, CacheTypeOK
<1>3. k \in nodeCache /\ re_rank(k) /\ nodeCache' = nodeCache /\ data' = data
  BY DEF Get
<1>4. /\ \E t \in Seq(Keys) : Linked(t)'
      /\ CacheTypeOK'
      /\ (Walk[Cardinality(Keys)])' = Recent!Used(k)
  BY <1>1, <1>2, <1>3, ReRankUses
<1>5. k \in Recent!ToSet(Walk[Cardinality(Keys)])
  <2>1. Walk[Cardinality(Keys)] = s
    BY <1>1, WalkIsList DEF OrderIsList
  <2>2. k \in {s[i] : i \in 1..Len(s)}
    BY <1>1, <1>3 DEF Linked
  <2> QED
    BY <2>1, <2>2 DEF Recent!ToSet
<1>6. CacheIInv'
  BY <1>4 DEF CacheIInv
<1>7. Recent!Get(k)
  BY <1>3, <1>4, <1>5 DEF Recent!Get
<1> QED
  BY <1>6, <1>7

\* A Put of a cached key is the abstract Put, and drops nothing.
LEMMA PutExistingKeeps ==
    ASSUME CacheIInv, NEW k \in Keys, NEW v \in Values, PutExisting(k, v)
    PROVE  CacheIInv' /\ Recent!Put(k, v)
<1>1. PICK s \in Seq(Keys) : Linked(s)
  BY DEF CacheIInv
<1>2. CacheTypeOK /\ data \in [nodeCache -> Values] /\ Len(s) <= Capacity
  BY <1>1, ListedCount DEF CacheIInv, CacheTypeOK
<1>3. k \in nodeCache /\ re_rank(k) /\ nodeCache' = nodeCache
      /\ data' = [data EXCEPT ![k] = v]
  BY DEF PutExisting
<1>4. data' \in [nodeCache -> Values]
  BY <1>2, <1>3
<1>5. /\ \E t \in Seq(Keys) : Linked(t)'
      /\ CacheTypeOK'
      /\ (Walk[Cardinality(Keys)])' = Recent!Used(k)
      /\ Recent!Used(k) \in Seq(Keys) /\ Len(Recent!Used(k)) <= Capacity
      /\ Recent!ToSet(Recent!Used(k)) = nodeCache
  BY <1>1, <1>2, <1>3, <1>4, ReRankUses
<1>6. CacheIInv'
  BY <1>5 DEF CacheIInv
<1>7. ~(Len(Recent!Used(k)) > Capacity)
  BY <1>5, CacheAssumption
<1>8. data' = [x \in nodeCache |-> IF x = k THEN v ELSE data[x]]
  BY <1>2, <1>3
<1>9. Recent!Put(k, v)
  BY <1>5, <1>7, <1>8 DEF Recent!Put
<1> QED
  BY <1>6, <1>9

\* A Put of a new key is the abstract Put: what it drops is the last of the order.
LEMMA PutNewKeeps ==
    ASSUME CacheIInv, NEW k \in Keys, NEW v \in Values, PutNew(k, v)
    PROVE  CacheIInv' /\ Recent!Put(k, v)
<1>1. PICK s \in Seq(Keys) : Linked(s)
  BY DEF CacheIInv
<1>2. CacheTypeOK /\ Len(s) <= Capacity /\ Len(s) \in Nat /\ Capacity \in Nat \ {0}
  BY <1>1, ListedCount, CacheAssumption DEF CacheIInv, CacheTypeOK
<1>3. k \notin nodeCache
  BY DEF PutNew
<1> DEFINE r == IF Len(s) = Capacity THEN SubSeq(s, 1, Len(s) - 1) ELSE s
           t == <<k>> \o r
           u == <<k>> \o s
<1>4. r \in Seq(Keys) /\ Stays(s, r)
  <2>1. CASE Len(s) = Capacity
    <3>1. s # << >>
      BY <1>2, <2>1
    <3> QED
      BY <2>1, <3>1, WithoutLast DEF Stays
  <2>2. CASE Len(s) # Capacity
    BY <2>2 DEF Stays
  <2> QED
    BY <2>1, <2>2
<1>5. Recent!Used(k) = u
  BY <1>1, <1>3, UsedNew
<1>6. /\ u \in Seq(Keys) /\ Len(u) = Len(s) + 1 /\ u # << >>
      /\ \A j \in 1..Len(u) : u[j] = IF j = 1 THEN k ELSE s[j - 1]
  BY InFront
<1>7. t = IF Len(u) > Capacity THEN Recent!Front(u) ELSE u
  <2>1. CASE Len(s) = Capacity
    <3> DEFINE f == SubSeq(u, 1, Len(u) - 1)
    <3>1. /\ f \in Seq(Keys) /\ Len(f) = Len(u) - 1
          /\ \A j \in 1..(Len(u) - 1) : f[j] = u[j]
      BY <1>6, WithoutLast
    <3>2. /\ t \in Seq(Keys) /\ Len(t) = Len(r) + 1
          /\ \A j \in 1..Len(t) : t[j] = IF j = 1 THEN k ELSE r[j - 1]
      BY <1>4, InFront
    <3>3. Len(r) = Len(s) - 1 /\ \A j \in 1..Len(r) : r[j] = s[j]
      BY <1>4, <2>1 DEF Stays
    <3> HIDE DEF r, t, u, f
    <3>4. Len(t) = Len(f)
      BY <1>2, <1>6, <3>1, <3>2, <3>3
    <3>5. ASSUME NEW j \in 1..Len(t) PROVE t[j] = f[j]
      <4>1. j \in 1..Len(u) /\ j \in 1..(Len(u) - 1) /\ (j # 1 => j - 1 \in 1..Len(r))
        BY <1>2, <1>6, <3>2, <3>3
      <4> QED
        BY <1>6, <3>1, <3>2, <3>3, <4>1
    <3>6. t = f
      BY <3>1, <3>2, <3>4, <3>5, SeqEqual
    <3> QED
      BY <1>2, <1>6, <2>1, <3>6 DEF Recent!Front, f
  <2>2. CASE Len(s) # Capacity
    <3>1. ~(Len(u) > Capacity) /\ t = u
      BY <1>2, <1>6, <2>2
    <3> QED
      BY <3>1
  <2> QED
    BY <2>1, <2>2
<1>8. t \in Seq(Keys) /\ Len(t) = Len(r) + 1
  BY <1>4, InFront
<1>9. Len(t) <= Capacity
  BY <1>2, <1>4, <1>8 DEF Stays
<1> HIDE DEF r
<1>10. /\ Linked(<<k>> \o r)'
       /\ (nextBlock \in [Keys -> Keys \cup {Nil}])'
       /\ (prevBlock \in [Keys -> Keys \cup {Nil}])'
       /\ (data \in [nodeCache -> Values])'
       /\ data' = [x \in nodeCache' |-> IF x = k THEN v ELSE data[x]]
  BY <1>1, <1>2, <1>4, NewListed
<1>11. PICK q : q = t
  OBVIOUS
<1>12. q \in Seq(Keys) /\ Len(q) <= Capacity /\ Linked(q)'
  BY <1>8, <1>9, <1>10, <1>11
<1>13. ListTyped' /\ OrderIsList'
  BY ListGivesTypes, WalkIsList, PTL
<1>14. CacheTypeOK'
  BY <1>10, <1>12, <1>13 DEF ListTyped
<1>15. (Walk[Cardinality(Keys)])' = q
  BY <1>12, <1>13 DEF OrderIsList
<1>16. Recent!ToSet(q) = nodeCache'
  BY <1>12 DEF Linked, Recent!ToSet
<1>17. CacheIInv'
  BY <1>12, <1>14 DEF CacheIInv
<1> HIDE DEF t, u
<1>18. q = IF Len(Recent!Used(k)) > Capacity THEN Recent!Front(Recent!Used(k)) ELSE Recent!Used(k)
  BY <1>5, <1>7, <1>11
<1>19. Recent!Put(k, v)
  BY <1>10, <1>15, <1>16, <1>18 DEF Recent!Put
<1> QED
  BY <1>17, <1>19

\* An empty cache has an empty list.
LEMMA CacheInitIInv == CacheInit => CacheIInv /\ Recent!Init
<1> SUFFICES ASSUME CacheInit PROVE CacheIInv /\ Recent!Init
  OBVIOUS
<1>1. Linked(<< >>)
  BY DEF CacheInit, Linked
<1>2. Len(<< >>) <= Capacity /\ << >> \in Seq(Keys)
  BY CacheAssumption
<1>3. data \in [nodeCache -> Values]
  BY DEF CacheInit
<1>4. nextBlock \in [Keys -> Keys \cup {Nil}] /\ prevBlock \in [Keys -> Keys \cup {Nil}]
  BY DEF CacheInit
<1>5. CacheTypeOK
  BY <1>1, <1>2, <1>3, <1>4, ListGivesTypes DEF ListTyped
<1>6. Walk[Cardinality(Keys)] = << >>
  BY <1>1, <1>2, WalkIsList DEF OrderIsList
<1> QED
  BY <1>1, <1>2, <1>5, <1>6 DEF CacheIInv, Recent!Init, CacheInit

\* A step of the cache keeps the list, and is a step of Recency or none.
LEMMA CacheStep == CacheIInv /\ [CacheNext]_cacheVars => CacheIInv' /\ [Recent!Next]_(Recent!vars)
<1> SUFFICES ASSUME CacheIInv, [CacheNext]_cacheVars
             PROVE  CacheIInv' /\ [Recent!Next]_(Recent!vars)
  OBVIOUS
<1>1. ASSUME NEW k \in Keys, Get(k) PROVE CacheIInv' /\ Recent!Next
  BY <1>1, GetKeeps DEF Recent!Next
<1>2. ASSUME NEW k \in Keys, NEW v \in Values, PutExisting(k, v)
      PROVE  CacheIInv' /\ Recent!Next
  BY <1>2, PutExistingKeeps DEF Recent!Next
<1>3. ASSUME NEW k \in Keys, NEW v \in Values, PutNew(k, v) PROVE CacheIInv' /\ Recent!Next
  BY <1>3, PutNewKeeps DEF Recent!Next
<1>4. CASE UNCHANGED cacheVars
  <2>1. PICK s \in Seq(Keys) : Linked(s)
    BY DEF CacheIInv
  <2>2. Linked(s)' /\ CacheTypeOK' /\ data' = data
    BY <1>4, <2>1 DEF cacheVars, Linked, CacheIInv, CacheTypeOK
  <2>3. OrderIsList /\ OrderIsList'
    BY WalkIsList, PTL
  <2>4. Walk[Cardinality(Keys)] = s /\ (Walk[Cardinality(Keys)])' = s
    BY <2>1, <2>2, <2>3 DEF OrderIsList
  <2> QED
    BY <2>2, <2>4 DEF CacheIInv, Recent!vars
<1> QED
  BY <1>1, <1>2, <1>3, <1>4 DEF CacheNext

\* At every step the two pointers, the map and the links, each changed on its own
\* by re_rank and Put, describe one list of at most Capacity keys.
THEOREM CacheInductive == CacheSpec => []CacheIInv
BY CacheInitIInv, CacheStep, PTL DEF CacheSpec

\* The map of the cache never exceeds its capacity, its pointers are to cached nodes
\* or nil, and it has a value for each key (NewLRUCache, Put, Get).
THEOREM CacheTypeCorrect == CacheSpec => []CacheTypeOK
<1>1. CacheIInv => CacheTypeOK
  BY DEF CacheIInv
<1> QED
  BY <1>1, CacheInductive, PTL

\* Get and Put do what the readme of the cache promises: what is evicted is the least
\* recently used key and no other, and a lookup finds what was put last.
THEOREM RecencyImplemented == CacheSpec => CacheIsRecency
BY CacheInitIInv, CacheStep, CacheInductive, PTL DEF CacheSpec, CacheIsRecency, Recent!Spec

-----------------------------------------------------------------------------
(* The four programs together *)

\* The bounds of the model: as many players as are allowed, and a turn of one.
GameBounded ==
    /\ Len(positions) <= MaxPlayers
    /\ currentTurn \in 1..MaxPlayers /\ winner \in 0..MaxPlayers

\* The turn and the winner stay among the players that may be added.
LEMMA GameStaysBounded ==
    ASSUME GameIInv, GameBounded, [GameNext]_gameVars
    PROVE  GameBounded'
<1>1. GameStored /\ Stage /\ MaxPlayers \in Nat \ {0}
  BY GameAssumption DEF GameIInv
<1>2. Len(positions) \in Nat /\ DOMAIN positions = 1..Len(positions) /\ positions \in Seq(0..Last)
  BY <1>1, LenProperties DEF GameStored
<1>3. CASE AddPlayer
  <2>1. Len(positions') = Len(positions) + 1 /\ Len(positions) < MaxPlayers
    <3>1. 0 \in 0..Last
      BY GameAssumption
    <3> QED
      BY <1>2, <1>3, <3>1, AppendProperties DEF AddPlayer
  <2>2. currentTurn' = currentTurn /\ winner' = winner
    BY <1>3 DEF AddPlayer
  <2> QED
    BY <1>1, <1>2, <2>1, <2>2 DEF GameBounded
<1>4. CASE \E c, d \in Cells : AddSnake(c, d) \/ AddLadder(c, d)
  BY <1>4 DEF AddSnake, AddLadder, GameBounded, turnVars
<1>5. CASE StartGame
  BY <1>5 DEF StartGame, GameBounded, turnVars
<1>6. CASE BankSix
  BY <1>6 DEF BankSix, GameBounded
<1>7. ASSUME NEW dice \in 1..Sides, Forfeit(dice) PROVE GameBounded'
  <2>1. currentTurn' \in 1..Len(positions) /\ positions' = positions /\ winner' = winner
    BY <1>2, <1>7, Passes DEF Forfeit
  <2> QED
    BY <1>1, <1>2, <2>1 DEF GameBounded
<1>8. ASSUME NEW dice \in 1..Sides, Move(dice) PROVE GameBounded'
  <2> DEFINE cell == Landing(toPosition(dice))
  <2>1. /\ status = "IN_PROGRESS"
        /\ positions' = [positions EXCEPT ![currentTurn] = cell]
        /\ \/ winner' = currentTurn /\ currentTurn' = currentTurn
           \/ PassTurn /\ winner' = winner
    BY <1>8 DEF Move
  <2>2. Len(positions') = Len(positions)
    BY <1>2, <2>1
  <2>3. currentTurn' \in 1..MaxPlayers /\ winner' \in 0..MaxPlayers
    <3>1. CASE winner' = currentTurn /\ currentTurn' = currentTurn
      BY <1>1, <3>1 DEF GameBounded
    <3>2. CASE PassTurn /\ winner' = winner
      <4>1. currentTurn' \in 1..Len(positions)
        BY <1>2, <2>1, <3>2, Passes
      <4> QED
        BY <1>1, <1>2, <3>2, <4>1 DEF GameBounded
    <3> QED
      BY <2>1, <3>1, <3>2
  <2> QED
    BY <2>2, <2>3 DEF GameBounded
<1>9. CASE UNCHANGED gameVars
  BY <1>9 DEF GameBounded, gameVars, turnVars
<1> QED
  BY <1>3, <1>4, <1>5, <1>6, <1>7, <1>8, <1>9 DEF GameNext, PlayTurn

\* The game has a player's turn, a winner among the players and a banked two sixes
\* at most.
THEOREM GameTypeCorrect == GameSpec => []GameTypeOK
<1>1. GameInit => GameBounded
  BY GameAssumption DEF GameInit, GameBounded
<1>2. GameIInv /\ GameBounded => GameTypeOK
  BY DEF GameIInv, GameStored, GameBounded, GameTypeOK
<1> QED
  BY <1>1, <1>2, GameInductive, GameStaysBounded, PTL DEF GameSpec

\* A bucket holds at most its capacity and was not refilled in the future, and a
\* user's bucket is one that was made.
THEOREM BucketTypeCorrect == BucketSpec => []BucketTypeOK
<1>1. ASSUME BucketIInv PROVE BucketTypeOK
  <2>1. BucketStored /\ Asking
    BY <1>1 DEF BucketIInv
  <2>2. ASSUME NEW q \in Goroutines PROVE request[q].pc \in {"idle", "create", "take"}
    <3>1. \/ request[q] \in [pc : {"idle"}]
          \/ request[q] \in [pc : {"create"}, user : Users, bucket : {0}]
          \/ request[q] \in [pc : {"take"}, user : Users, bucket : 1..Len(buckets)]
      BY <2>1 DEF Asking
    <3> QED
      BY <3>1
  <2>3. ASSUME NEW i \in DOMAIN buckets
        PROVE  buckets[i].tokens \in 0..MaxTokens /\ buckets[i].lastRefill \in 0..clock
    <3> DEFINE B == [tokens : 0..MaxTokens, lastRefill : 0..clock]
    <3>1. buckets \in Seq(B)
      BY <2>1 DEF BucketStored
    <3>2. buckets[i] \in B
      <4> HIDE DEF B
      <4> QED
        BY <3>1
    <3> QED
      BY <3>2
  <2> QED
    BY <2>1, <2>2, <2>3 DEF BucketStored, BucketTypeOK
<1> QED
  BY <1>1, BucketInductive, PTL

\* A run of the four programs is a run of each: the others leave its variables alone.
THEOREM ProgramsRun == Spec => ElevatorSpec /\ CacheSpec /\ BucketSpec /\ GameSpec
<1>1. Init => ElevatorInit /\ CacheInit /\ BucketInit /\ GameInit
  BY DEF Init
<1>2. [Next]_vars => /\ [ElevatorNext]_elevatorVars /\ [CacheNext]_cacheVars
                     /\ [BucketNext]_bucketVars /\ [GameNext]_gameVars
  BY DEF Next, vars, programVars, Running
<1> QED
  BY <1>1, <1>2, PTL DEF Spec, ElevatorSpec, CacheSpec, BucketSpec, GameSpec

\* The types of the four programs hold in the run of all of them.
THEOREM ProgramsTypeCorrect == Spec => []TypeOK
<1>1. ElevatorTypeOK /\ CacheTypeOK /\ BucketTypeOK /\ GameTypeOK => TypeOK
  BY DEF TypeOK
<1> QED
  BY <1>1, ProgramsRun, ElevatorTypeCorrect, CacheTypeCorrect, BucketTypeCorrect,
     GameTypeCorrect, PTL

\* What the four programs promise holds in the run of all of them: no work is lost
\* and Look is implemented, the cache is Recency, the rate and the game are kept.
THEOREM ProgramsKeepPromises ==
    Spec => /\ []NoLostWork /\ ImplementsLook
            /\ CacheIsRecency
            /\ []WithinRate
            /\ []GameConsistent
BY ProgramsRun, NoWorkLost, LookImplemented, RecencyImplemented, RateKept,
   GameStaysConsistent, PTL
===============================================================================
