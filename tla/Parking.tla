------------------------------- MODULE Parking -------------------------------
(***************************************************************************)
(* The automated parking system: Park, Unpark and SwitchStrategy           *)
(* (parking.go), the pools of parking, unparking and shuffling robots      *)
(* (workers.go, robot_pool.go) and the buffer slots (buffer_slots.go).     *)
(*                                                                         *)
(* A section under p.mu is one action.  A robot is between two sections    *)
(* while it moves a vehicle, and waits on a condition variable in a state  *)
(* of its own, which only a Broadcast ends.  A record stays reachable for  *)
(* the robots that hold its pointer after it is deleted from               *)
(* recordsByTktID, so deleting it clears present and keeps the rest.       *)
(* recordsByRegNo is only written and is left out, as are the receipts.    *)
(***************************************************************************)
EXTENDS ParkingPlan

CONSTANTS
    Parkers, Unparkers, Shufflers,   \* the robots of the three pools
    BufferSlots,                     \* the indices of the buffer slots
    ParkCap, UnparkCap,              \* the capacities of the job channels
    Switches,                        \* the strategies given to SwitchStrategy
    Leavers,                         \* the tickets given to Unpark
    Earlier,                         \* the visits that begin before each one
    NoTicket                         \* the empty ticket

\* The number of slot 0 in a movement job; the floors have the numbers below.
BufferSlotIDBase == 1000000

ASSUME ParkingAssumption ==
    /\ IsFiniteSet(Shufflers)
    /\ FloorCount <= BufferSlotIDBase
    /\ BufferSlots \subseteq Nat /\ IsFiniteSet(BufferSlots)
    /\ ParkCap \in Nat /\ UnparkCap \in Nat
    /\ Switches \subseteq Strategies
    /\ Leavers \subseteq Tickets
    /\ Earlier \in [Tickets -> SUBSET Tickets]
    /\ NoTicket \notin Tickets

VARIABLES
    physical,      \* floor.PhysicallyUsedCapacity
    reserved,      \* floor.ReservedCapacity
    issued,        \* the tickets given out
    rec,           \* the parking record of each ticket
    strategy,      \* p.strategy
    shuffling,     \* p.shufflingInProgress
    shuffleWG,     \* the counter of p.ShuffleJobWG
    parkingJobCh,  \* jobs [ticket, floor]
    unparkJobCh,   \* tickets
    shuffleJobCh,  \* components [tickets, loop]; those still with the goroutine
                   \* that sends them are at the end
    slots,         \* p.bufferSlots: claimed and vehicleTicket
    parker, unparker, shuffler   \* the local state of each robot

\* What no robot changes.
deskVars == <<reserved, issued, strategy, shuffling>>
vars == <<physical, rec, deskVars, shuffleWG, parkingJobCh, unparkJobCh,
          shuffleJobCh, slots, parker, unparker, shuffler>>

NoSlot == -1
BufferSlotID(i) == BufferSlotIDBase + i
IsBufferSlotID(n) == n - BufferSlotIDBase \in BufferSlots

NoRecord == [present |-> FALSE, floor |-> NoFloor, slot |-> NoSlot,
             target |-> NoFloor, status |-> "PENDING", unpark |-> FALSE]
IdleRobot == [pc |-> "idle", ticket |-> NoTicket, floor |-> NoFloor]
IdleShuffler == [pc |-> "idle", phase |-> "none", loop |-> FALSE,
                 tickets |-> << >>, jobs |-> << >>, slot |-> NoSlot,
                 floor |-> NoFloor]

Init ==
    /\ physical = [f \in Floors |-> 0]
    /\ reserved = [f \in Floors |-> 0]
    /\ issued = {}
    /\ rec = [t \in Tickets |-> NoRecord]
    /\ strategy = "Nearest"
    /\ shuffling = FALSE
    /\ shuffleWG = 0
    /\ parkingJobCh = << >>
    /\ unparkJobCh = << >>
    /\ shuffleJobCh = << >>
    /\ slots = [i \in BufferSlots |-> [claimed |-> FALSE, ticket |-> NoTicket]]
    /\ parker = [r \in Parkers |-> IdleRobot]
    /\ unparker = [r \in Unparkers |-> IdleRobot]
    /\ shuffler = [r \in Shufflers |-> IdleShuffler]

HasRoom(f, t) == Capacity - physical[f] >= Space(t)

\* The robots after a Broadcast: those asleep in pc = from for which P holds
\* check their condition again in pc = to.
Woken(robots, from, to, P(_)) ==
    [r \in DOMAIN robots |->
        IF robots[r].pc = from /\ P(robots[r])
        THEN [robots[r] EXCEPT !.pc = to] ELSE robots[r]]

\* floor.Cond.Broadcast()
WakeParkers(f, robots) == Woken(robots, "asleep", "claim", LAMBDA r : r.floor = f)
WakeShufflers(f, robots) ==
    Woken(robots, "onFloor", "settle", LAMBDA r : r.floor = f)

\* Mutant of WakeReady: the Broadcast is forgotten.
WakeReadyNobody(robots) == robots

\* p.shuffleWake.Broadcast()
WakeReady(robots) == Woken(robots, "onWake", "ready", LAMBDA r : TRUE)

\* p.bufferSlotAvailable.Broadcast()
WakeSlot(robots) == Woken(robots, "onSlot", "claimSlot", LAMBDA r : TRUE)

-----------------------------------------------------------------------------
(* The customers' operations *)

\* Park, when the strategy finds a floor and the staging area has room; it
\* returns an error and changes nothing otherwise.
Park(t) ==
    LET f == Choose(strategy, t, reserved)
    IN /\ t \notin issued /\ Earlier[t] \subseteq issued
       /\ f # NoFloor
       /\ Len(parkingJobCh) < ParkCap
       /\ parkingJobCh' = Append(parkingJobCh, [ticket |-> t, floor |-> f])
       /\ issued' = issued \cup {t}
       /\ rec' = [rec EXCEPT ![t] = [NoRecord EXCEPT !.present = TRUE,
                                                     !.target = f]]
       /\ reserved' = [reserved EXCEPT ![f] = @ + Space(t)]
       /\ UNCHANGED <<physical, strategy, shuffling, shuffleWG, unparkJobCh,
                      shuffleJobCh, slots, parker, unparker, shuffler>>

\* The vehicle stands on a floor and no robot has to bring it there first.
Standing(t) == /\ rec[t].status = "PARKED"
               /\ rec[t].slot = NoSlot
               /\ rec[t].floor # NoFloor

\* Mutant of UnparkAccepted: a second request for the ticket is not refused.
UnparkAcceptedAgain(t) ==
    /\ rec[t].present
    /\ Standing(t) => Len(unparkJobCh) < UnparkCap
    /\ unparkJobCh' = IF Standing(t) THEN Append(unparkJobCh, t) ELSE unparkJobCh
    /\ rec' = [rec EXCEPT ![t].unpark = TRUE]
    /\ reserved' = [reserved EXCEPT ![rec[t].target] = @ - Space(t)]
    /\ shuffler' = WakeReady(shuffler)
    /\ UNCHANGED <<physical, issued, strategy, shuffling, shuffleWG,
                   parkingJobCh, shuffleJobCh, slots, parker, unparker>>

\* Unpark, when the ticket is valid and retrieval was not requested before.  The
\* request of a vehicle that is under way is served by the robot that has it.
UnparkAccepted(t) ==
    /\ rec[t].present /\ ~rec[t].unpark
    /\ Standing(t) => Len(unparkJobCh) < UnparkCap
    /\ unparkJobCh' = IF Standing(t) THEN Append(unparkJobCh, t) ELSE unparkJobCh
    /\ rec' = [rec EXCEPT ![t].unpark = TRUE]
    /\ reserved' = [reserved EXCEPT ![rec[t].target] = @ - Space(t)]
    /\ shuffler' = WakeReady(shuffler)
    /\ UNCHANGED <<physical, issued, strategy, shuffling, shuffleWG,
                   parkingJobCh, shuffleJobCh, slots, parker, unparker>>

\* The unparking channel is full: UnparkRequested is reset in the same section,
\* after the Broadcast.
UnparkBusy(t) ==
    /\ rec[t].present /\ ~rec[t].unpark
    /\ Standing(t) /\ Len(unparkJobCh) = UnparkCap
    /\ shuffler' = WakeReady(shuffler)
    /\ UNCHANGED <<physical, reserved, issued, rec, strategy, shuffling,
                   shuffleWG, parkingJobCh, unparkJobCh, shuffleJobCh, slots,
                   parker, unparker>>

Unpark(t) == UnparkAccepted(t) \/ UnparkBusy(t)

\* The vehicles a rearrangement plans for.
Planned == {t \in Tickets : rec[t].present /\ ~rec[t].unpark}

\* commitBlueprint: what is left of the components when the vehicles that stand
\* on their new target are taken out.
Blueprint(order, layout) ==
    LET away == {t \in Planned : rec[t].floor # layout[t]}
        left == [i \in DOMAIN order |->
                    [order[i] EXCEPT !.tickets = Only(@, away)]]
    IN Only(left, {c \in ToSet(left) : c.tickets # << >>})

\* SwitchStrategy to a strategy that rearranges.  The goroutine it starts sends
\* the components and waits for them in ShuffleDone.
SwitchRearranging(s) ==
    /\ ~shuffling
    /\ s # "Nearest"
    /\ \E layout \in Layouts(s, Planned) :
         LET moved == {t \in Planned : layout[t] # rec[t].target}
             moves == [t \in moved |-> [from |-> rec[t].target, to |-> layout[t]]]
         IN \E order \in MovementOrders(moves) :
              LET comps == Blueprint(order, layout)
              IN /\ reserved' = [f \in Floors |->
                       reserved[f]
                         + SpaceOf({t \in moved : layout[t] = f})
                         - SpaceOf({t \in moved : rec[t].target = f})]
                 /\ rec' = [t \in Tickets |->
                       IF t \in moved THEN [rec[t] EXCEPT !.target = layout[t]]
                       ELSE rec[t]]
                 /\ shuffleJobCh' = comps
                 /\ shuffleWG' = Len(comps)
                 /\ shuffling' = (comps # << >>)
    /\ strategy' = s
    /\ UNCHANGED <<physical, issued, parkingJobCh, unparkJobCh, slots, parker,
                   unparker, shuffler>>

\* SwitchStrategy to a strategy without PlanRearrangement.
SwitchPlain(s) ==
    /\ ~shuffling
    /\ s = "Nearest"
    /\ strategy' = s
    /\ UNCHANGED <<physical, reserved, issued, rec, shuffling, shuffleWG,
                   parkingJobCh, unparkJobCh, shuffleJobCh, slots, parker,
                   unparker, shuffler>>

\* Mutant of ShuffleDone: the flag falls when the components have been sent.
ShuffleDoneSent ==
    /\ shuffling /\ shuffleJobCh = << >>
    /\ shuffling' = FALSE
    /\ UNCHANGED <<physical, reserved, issued, rec, strategy, shuffleWG,
                   parkingJobCh, unparkJobCh, shuffleJobCh, slots, parker,
                   unparker, shuffler>>

\* ShuffleJobWG.Wait() returns and the goroutine of SwitchStrategy ends.
ShuffleDone ==
    /\ shuffling /\ shuffleWG = 0
    /\ shuffling' = FALSE
    /\ UNCHANGED <<physical, reserved, issued, rec, strategy, shuffleWG,
                   parkingJobCh, unparkJobCh, shuffleJobCh, slots, parker,
                   unparker, shuffler>>

-----------------------------------------------------------------------------
(* Parking robots: parkers() *)

ParkerTake(r) ==
    /\ parker[r].pc = "idle"
    /\ parkingJobCh # << >>
    /\ parker' = [parker EXCEPT ![r] = [pc |-> "claim",
                                        ticket |-> Head(parkingJobCh).ticket,
                                        floor |-> Head(parkingJobCh).floor]]
    /\ parkingJobCh' = Tail(parkingJobCh)
    /\ UNCHANGED <<physical, rec, deskVars, shuffleWG, unparkJobCh,
                   shuffleJobCh, slots, unparker, shuffler>>

\* The floor of the job, not the present target of the record, is claimed.
ParkerClaim(r) ==
    /\ parker[r].pc = "claim"
    /\ HasRoom(parker[r].floor, parker[r].ticket)
    /\ physical' = [physical EXCEPT ![parker[r].floor] = @ + Space(parker[r].ticket)]
    /\ parker' = [parker EXCEPT ![r].pc = "moving"]
    /\ UNCHANGED <<rec, deskVars, shuffleWG, parkingJobCh, unparkJobCh,
                   shuffleJobCh, slots, unparker, shuffler>>

\* floor.Cond.Wait()
ParkerSleep(r) ==
    /\ parker[r].pc = "claim"
    /\ ~HasRoom(parker[r].floor, parker[r].ticket)
    /\ parker' = [parker EXCEPT ![r].pc = "asleep"]
    /\ UNCHANGED <<physical, rec, deskVars, shuffleWG, parkingJobCh,
                   unparkJobCh, shuffleJobCh, slots, unparker, shuffler>>

\* Mutant of ParkerStore: a retrieval requested on the way is not passed on.
ParkerStoreOnly(r) ==
    LET t == parker[r].ticket
    IN /\ parker[r].pc = "moving"
       /\ IF rec[t].present
          THEN /\ rec' = [rec EXCEPT ![t] = [@ EXCEPT !.floor = parker[r].floor,
                                                      !.slot = NoSlot,
                                                      !.status = "PARKED"]]
               /\ shuffler' = WakeReady(shuffler)
          ELSE UNCHANGED <<rec, shuffler>>
       /\ parker' = [parker EXCEPT ![r] = IdleRobot]
       /\ UNCHANGED <<physical, deskVars, shuffleWG, parkingJobCh, unparkJobCh,
                      shuffleJobCh, slots, unparker>>

\* The vehicle has arrived.
ParkerStore(r) ==
    LET t == parker[r].ticket
    IN /\ parker[r].pc = "moving"
       /\ IF rec[t].present
          THEN /\ rec' = [rec EXCEPT ![t] = [@ EXCEPT !.floor = parker[r].floor,
                                                      !.slot = NoSlot,
                                                      !.status = "PARKED"]]
               /\ shuffler' = WakeReady(shuffler)
          ELSE UNCHANGED <<rec, shuffler>>
       /\ parker' = [parker EXCEPT ![r] = IF rec[t].present /\ rec[t].unpark
                                          THEN [@ EXCEPT !.pc = "send"]
                                          ELSE IdleRobot]
       /\ UNCHANGED <<physical, deskVars, shuffleWG, parkingJobCh, unparkJobCh,
                      shuffleJobCh, slots, unparker>>

\* The robot that finds UnparkRequested passes the vehicle on; the send blocks
\* while the channel is full.
ParkerSend(r) ==
    /\ parker[r].pc = "send"
    /\ Len(unparkJobCh) < UnparkCap
    /\ unparkJobCh' = Append(unparkJobCh, parker[r].ticket)
    /\ parker' = [parker EXCEPT ![r] = IdleRobot]
    /\ UNCHANGED <<physical, rec, deskVars, shuffleWG, parkingJobCh,
                   shuffleJobCh, slots, unparker, shuffler>>

ParkerStep(r) == \/ ParkerTake(r) \/ ParkerClaim(r) \/ ParkerSleep(r)
                 \/ ParkerStore(r) \/ ParkerSend(r)

-----------------------------------------------------------------------------
(* Unparking robots: unparkers() *)

UnparkerTake(r) ==
    /\ unparker[r].pc = "idle"
    /\ unparkJobCh # << >>
    /\ unparker' = [unparker EXCEPT ![r] = [IdleRobot EXCEPT !.pc = "look",
                                              !.ticket = Head(unparkJobCh)]]
    /\ unparkJobCh' = Tail(unparkJobCh)
    /\ UNCHANGED <<physical, rec, deskVars, shuffleWG, parkingJobCh,
                   shuffleJobCh, slots, parker, shuffler>>

\* The section that reads where the vehicle is, before the robot goes there.
UnparkerLook(r) ==
    LET t == unparker[r].ticket
    IN /\ unparker[r].pc = "look"
       /\ unparker' = [unparker EXCEPT ![r] =
             IF rec[t].present /\ rec[t].unpark
             THEN [@ EXCEPT !.pc = "moving", !.floor = rec[t].floor]
             ELSE IdleRobot]
       /\ UNCHANGED <<physical, rec, deskVars, shuffleWG, parkingJobCh,
                      unparkJobCh, shuffleJobCh, slots, parker, shuffler>>

\* The vehicle leaves: the floor read before gets its space back, if it was one,
\* and the record goes.
UnparkerFinish(r) ==
    LET t == unparker[r].ticket
        f == unparker[r].floor
    IN /\ unparker[r].pc = "moving"
       /\ IF f # NoFloor
          THEN /\ physical' = [physical EXCEPT ![f] = @ - Space(t)]
               /\ parker' = WakeParkers(f, parker)
               /\ shuffler' = WakeShufflers(f, shuffler)
          ELSE UNCHANGED <<physical, parker, shuffler>>
       /\ rec' = [rec EXCEPT ![t] = [@ EXCEPT !.floor = NoFloor, !.present = FALSE]]
       /\ unparker' = [unparker EXCEPT ![r] = IdleRobot]
       /\ UNCHANGED <<deskVars, shuffleWG, parkingJobCh, unparkJobCh,
                      shuffleJobCh, slots>>

UnparkerStep(r) == UnparkerTake(r) \/ UnparkerLook(r) \/ UnparkerFinish(r)

-----------------------------------------------------------------------------
(* Shuffling robots: shuffleRobot(), processShuffleComponent() *)

\* A step that changes the robot and nothing else.
ShufflerMoves(r, state) ==
    /\ shuffler' = [shuffler EXCEPT ![r] = state]
    /\ UNCHANGED <<physical, rec, deskVars, parkingJobCh, unparkJobCh, slots,
                   parker, unparker>>

ShufflerTake(r) ==
    /\ shuffler[r].pc = "idle"
    /\ shuffleJobCh # << >>
    /\ shuffleJobCh' = Tail(shuffleJobCh)
    /\ ShufflerMoves(r, [IdleShuffler EXCEPT
                            !.pc = "ready", !.loop = Head(shuffleJobCh).loop,
                            !.tickets = Head(shuffleJobCh).tickets])
    /\ UNCHANGED shuffleWG

\* Mutant of NotReady: vehicles that are still being parked are not waited for.
NotReadyRearranging(ts) == \E t \in ToSet(ts) :
    /\ rec[t].present /\ ~rec[t].unpark
    /\ ~Standing(t) /\ rec[t].status # "PENDING"

\* waitTillComponentReady waits for the vehicles that are on their way.
NotReady(ts) == \E t \in ToSet(ts) : /\ rec[t].present /\ ~rec[t].unpark
                                     /\ ~Standing(t)

\* A vehicle that a planned move still has to take somewhere.
ToMove(t) == /\ rec[t].present /\ ~rec[t].unpark
             /\ rec[t].slot = NoSlot /\ rec[t].floor # NoFloor
             /\ rec[t].floor # rec[t].target

\* The vehicles that the code keeps of a component when it plans its moves.
Movable == {t \in Tickets : ToMove(t)}

MoveHome(t) == [ticket |-> t, from |-> rec[t].floor, to |-> rec[t].target]
MovesOf(ts) == [i \in DOMAIN ts |-> MoveHome(ts[i])]

\* p.shuffleWake.Wait()
ShufflerSleep(r) ==
    /\ shuffler[r].pc = "ready"
    /\ NotReady(shuffler[r].tickets)
    /\ ShufflerMoves(r, [shuffler[r] EXCEPT !.pc = "onWake"])
    /\ UNCHANGED <<shuffleJobCh, shuffleWG>>

\* The component is ready: it is made in order, or with a buffer slot.
ShufflerReady(r) ==
    /\ shuffler[r].pc = "ready"
    /\ ~NotReady(shuffler[r].tickets)
    /\ \E ts \in {Only(shuffler[r].tickets, Movable)} :
         LET s == [shuffler[r] EXCEPT !.tickets = ts, !.jobs = MovesOf(ts)]
         IN ShufflerMoves(r,
              CASE ts = << >> -> [s EXCEPT !.pc = "finish"]
                [] ts # << >> /\ ~s.loop -> [s EXCEPT !.pc = "lift",
                                                      !.phase = "inOrder"]
                [] ts # << >> /\ s.loop -> [s EXCEPT !.pc = "claimSlot"])
    /\ UNCHANGED <<shuffleJobCh, shuffleWG>>

FreeSlots == {i \in BufferSlots : ~slots[i].claimed}

\* claimBufferSlot takes the first free slot.
ShufflerClaimSlot(r) ==
    LET i == Min(FreeSlots)
        breaker == Head(shuffler[r].jobs)
    IN /\ shuffler[r].pc = "claimSlot"
       /\ FreeSlots # {}
       /\ slots' = [slots EXCEPT ![i].claimed = TRUE]
       /\ shuffler' = [shuffler EXCEPT ![r] = [@ EXCEPT
             !.pc = "lift", !.phase = "breaker", !.slot = i,
             !.jobs = <<[breaker EXCEPT !.to = BufferSlotID(i)]>>]]
       /\ UNCHANGED <<physical, rec, deskVars, shuffleWG, parkingJobCh,
                      unparkJobCh, shuffleJobCh, parker, unparker>>

\* p.bufferSlotAvailable.Wait()
ShufflerSleepSlot(r) ==
    /\ shuffler[r].pc = "claimSlot"
    /\ FreeSlots = {}
    /\ ShufflerMoves(r, [shuffler[r] EXCEPT !.pc = "onSlot"])
    /\ UNCHANGED <<shuffleJobCh, shuffleWG>>

\* The robot after processShuffleJob returns from the first of its jobs.
AfterJob(s) ==
    LET left == Tail(s.jobs)
    IN [s EXCEPT !.jobs = left, !.floor = NoFloor,
                 !.pc = CASE left # << >> -> "lift"
                          [] left = << >> /\ s.phase = "inOrder" -> "finish"
                          [] left = << >> /\ s.phase = "breaker" -> "replan"
                          [] left = << >> /\ s.phase = "rest" -> "home"
                          [] left = << >> /\ s.phase = "home" -> "release"]

\* The first section of processShuffleJob finds the vehicle where the job says;
\* it does not ask for UnparkRequested.
Liftable(job) ==
    /\ rec[job.ticket].present
    /\ IF IsBufferSlotID(job.from)
       THEN BufferSlotID(rec[job.ticket].slot) = job.from
       ELSE rec[job.ticket].slot = NoSlot /\ rec[job.ticket].floor = job.from

ShufflerSkip(r) ==
    /\ shuffler[r].pc = "lift"
    /\ ~Liftable(Head(shuffler[r].jobs))
    /\ ShufflerMoves(r, AfterJob(shuffler[r]))
    /\ UNCHANGED <<shuffleJobCh, shuffleWG>>

ShufflerLift(r) ==
    LET job == Head(shuffler[r].jobs)
        t == job.ticket
        lifted == [shuffler EXCEPT ![r].pc = "carry"]
    IN /\ shuffler[r].pc = "lift"
       /\ Liftable(job)
       /\ IF IsBufferSlotID(job.from)
          THEN /\ slots' = [slots EXCEPT ![rec[t].slot].ticket = NoTicket]
               /\ shuffler' = lifted
               /\ UNCHANGED <<physical, parker>>
          ELSE /\ physical' = [physical EXCEPT ![job.from] = @ - Space(t)]
               /\ parker' = WakeParkers(job.from, parker)
               /\ shuffler' = WakeShufflers(job.from, lifted)
               /\ UNCHANGED slots
       /\ rec' = [rec EXCEPT ![t] = [@ EXCEPT !.floor = NoFloor, !.slot = NoSlot,
                                              !.status = "REARRANGING"]]
       /\ UNCHANGED <<deskVars, shuffleWG, parkingJobCh, unparkJobCh,
                      shuffleJobCh, unparker>>

\* The second section: the record is gone, and the robot has nothing to do.
ShufflerDrop(r) ==
    /\ shuffler[r].pc = "carry"
    /\ ~rec[Head(shuffler[r].jobs).ticket].present
    /\ ShufflerMoves(r, AfterJob(shuffler[r]))
    /\ UNCHANGED <<shuffleJobCh, shuffleWG>>

\* The vehicle goes into the buffer slot.
ShufflerBuffer(r) ==
    LET job == Head(shuffler[r].jobs)
        i == job.to - BufferSlotIDBase
    IN /\ shuffler[r].pc = "carry"
       /\ rec[job.ticket].present
       /\ IsBufferSlotID(job.to)
       /\ slots' = [slots EXCEPT ![i].ticket = job.ticket]
       /\ rec' = [rec EXCEPT ![job.ticket] = [@ EXCEPT !.slot = i,
                                                       !.status = "PARKED"]]
       /\ shuffler' = WakeReady([shuffler EXCEPT ![r] = AfterJob(@)])
       /\ UNCHANGED <<physical, deskVars, shuffleWG, parkingJobCh, unparkJobCh,
                      shuffleJobCh, parker, unparker>>

\* The robot is at the target floor of its vehicle: on arrival it looks the
\* record up, after a wait it goes on with the pointer it has.
AtTarget(r) ==
    LET job == Head(shuffler[r].jobs)
    IN \/ /\ shuffler[r].pc = "carry"
          /\ rec[job.ticket].present
          /\ ~IsBufferSlotID(job.to)
       \/ shuffler[r].pc = "settle"

ShufflerPlace(r) ==
    LET t == Head(shuffler[r].jobs).ticket
        f == rec[t].target
        placed == IF rec[t].unpark THEN [shuffler[r] EXCEPT !.pc = "send"]
                                   ELSE AfterJob(shuffler[r])
    IN /\ AtTarget(r)
       /\ HasRoom(f, t)
       /\ physical' = [physical EXCEPT ![f] = @ + Space(t)]
       /\ rec' = [rec EXCEPT ![t] = [@ EXCEPT !.floor = f, !.slot = NoSlot,
                                              !.status = "PARKED"]]
       /\ shuffler' = WakeReady([shuffler EXCEPT ![r] = placed])
       /\ UNCHANGED <<deskVars, shuffleWG, parkingJobCh, unparkJobCh,
                      shuffleJobCh, slots, parker, unparker>>

\* toFloor.Cond.Wait()
ShufflerSleepFloor(r) ==
    LET t == Head(shuffler[r].jobs).ticket
        f == rec[t].target
    IN /\ AtTarget(r)
       /\ ~HasRoom(f, t)
       /\ ShufflerMoves(r, [shuffler[r] EXCEPT !.pc = "onFloor", !.floor = f])
       /\ UNCHANGED <<shuffleJobCh, shuffleWG>>

ShufflerSend(r) ==
    /\ shuffler[r].pc = "send"
    /\ Len(unparkJobCh) < UnparkCap
    /\ unparkJobCh' = Append(unparkJobCh, Head(shuffler[r].jobs).ticket)
    /\ shuffler' = [shuffler EXCEPT ![r] = AfterJob(@)]
    /\ UNCHANGED <<physical, rec, deskVars, shuffleWG, parkingJobCh,
                   shuffleJobCh, slots, parker, unparker>>

\* The rest of a cycle is ordered again once the breaker is in its slot.
ShufflerReplan(r) ==
    /\ shuffler[r].pc = "replan"
    /\ \E ts \in {Only(Tail(shuffler[r].tickets), Movable)} :
         \E order \in MovementOrders([t \in ToSet(ts) |-> MoveHome(t)]) :
           LET all == FlattenSeq([i \in DOMAIN order |-> order[i].tickets])
           IN ShufflerMoves(r, [shuffler[r] EXCEPT
                 !.jobs = MovesOf(all), !.phase = "rest",
                 !.pc = IF ts = << >> THEN "home" ELSE "lift"])
    /\ UNCHANGED <<shuffleJobCh, shuffleWG>>

\* Mutant of ShufflerHome: a breaker that was asked back stays in its slot.
ShufflerHomeStaying(r) ==
    LET t == Head(shuffler[r].tickets)
        home == [ticket |-> t, from |-> BufferSlotID(rec[t].slot),
                 to |-> rec[t].target]
    IN /\ shuffler[r].pc = "home"
       /\ ShufflerMoves(r,
             IF rec[t].present /\ ~rec[t].unpark /\ rec[t].slot # NoSlot
             THEN [shuffler[r] EXCEPT !.jobs = <<home>>, !.phase = "home",
                                      !.pc = "lift"]
             ELSE [shuffler[r] EXCEPT !.pc = "release"])
       /\ UNCHANGED <<shuffleJobCh, shuffleWG>>

\* The breaker comes out of its slot.
ShufflerHome(r) ==
    LET t == Head(shuffler[r].tickets)
        home == [ticket |-> t, from |-> BufferSlotID(rec[t].slot),
                 to |-> rec[t].target]
    IN /\ shuffler[r].pc = "home"
       /\ ShufflerMoves(r,
             IF rec[t].present /\ rec[t].slot # NoSlot
             THEN [shuffler[r] EXCEPT !.jobs = <<home>>, !.phase = "home",
                                      !.pc = "lift"]
             ELSE [shuffler[r] EXCEPT !.pc = "release"])
       /\ UNCHANGED <<shuffleJobCh, shuffleWG>>

\* releaseBufferSlot, deferred by processShuffleComponent.
ShufflerRelease(r) ==
    /\ shuffler[r].pc = "release"
    /\ slots' = [slots EXCEPT ![shuffler[r].slot] =
                    [claimed |-> FALSE, ticket |-> NoTicket]]
    /\ shuffler' = WakeSlot([shuffler EXCEPT ![r].pc = "finish",
                                             ![r].slot = NoSlot])
    /\ UNCHANGED <<physical, rec, deskVars, shuffleWG, parkingJobCh,
                   unparkJobCh, shuffleJobCh, parker, unparker>>

\* p.ShuffleJobWG.Done()
ShufflerFinish(r) ==
    /\ shuffler[r].pc = "finish"
    /\ shuffleWG' = shuffleWG - 1
    /\ ShufflerMoves(r, IdleShuffler)
    /\ UNCHANGED shuffleJobCh

ShufflerStep(r) ==
    \/ ShufflerTake(r) \/ ShufflerSleep(r) \/ ShufflerReady(r)
    \/ ShufflerClaimSlot(r) \/ ShufflerSleepSlot(r)
    \/ ShufflerSkip(r) \/ ShufflerLift(r) \/ ShufflerDrop(r)
    \/ ShufflerBuffer(r) \/ ShufflerPlace(r) \/ ShufflerSleepFloor(r)
    \/ ShufflerSend(r) \/ ShufflerReplan(r) \/ ShufflerHome(r)
    \/ ShufflerRelease(r) \/ ShufflerFinish(r)

-----------------------------------------------------------------------------
RobotStep == \/ \E r \in Parkers : ParkerStep(r)
             \/ \E r \in Unparkers : UnparkerStep(r)
             \/ \E r \in Shufflers : ShufflerStep(r)

Next == \/ \E t \in Tickets : Park(t)
        \/ \E t \in Leavers : Unpark(t)
        \/ \E s \in Switches : SwitchRearranging(s) \/ SwitchPlain(s)
        \/ ShuffleDone
        \/ RobotStep

\* The robots and the goroutine of SwitchStrategy are scheduled; no customer has
\* to come or to leave and nobody has to switch the strategy.
Fairness == /\ \A r \in Parkers : WF_vars(ParkerStep(r))
            /\ \A r \in Unparkers : WF_vars(UnparkerStep(r))
            /\ \A r \in Shufflers : WF_vars(ShufflerStep(r))
            /\ WF_vars(ShuffleDone)

Spec == Init /\ [][Next]_vars /\ Fairness

-----------------------------------------------------------------------------
(* Properties *)

Records == [present : BOOLEAN, floor : Floors \cup {NoFloor},
            slot : BufferSlots \cup {NoSlot}, target : Floors \cup {NoFloor},
            status : {"PENDING", "PARKED", "REARRANGING"}, unpark : BOOLEAN]
Robots(pcs) == [pc : pcs, ticket : Tickets \cup {NoTicket},
                floor : Floors \cup {NoFloor}]
Components == [tickets : Seq(Tickets), loop : BOOLEAN]
Places == Floors \cup {BufferSlotID(i) : i \in BufferSlots}
Jobs == [ticket : Tickets, from : Places, to : Places]
ShufflerStates ==
    [pc : {"idle", "ready", "onWake", "claimSlot", "onSlot", "lift", "carry",
           "settle", "onFloor", "send", "replan", "home", "release", "finish"},
     phase : {"none", "inOrder", "breaker", "rest", "home"}, loop : BOOLEAN,
     tickets : Seq(Tickets), jobs : Seq(Jobs), slot : BufferSlots \cup {NoSlot},
     floor : Floors \cup {NoFloor}]

\* Types.  physical is an integer only: see CapacityRespected.
TypeOK ==
    /\ physical \in [Floors -> Int]
    /\ reserved \in [Floors -> Nat]
    /\ issued \subseteq Tickets
    /\ rec \in [Tickets -> Records]
    /\ strategy \in Strategies
    /\ shuffling \in BOOLEAN
    /\ shuffleWG \in Nat
    /\ parkingJobCh \in Seq([ticket : Tickets, floor : Floors])
    /\ unparkJobCh \in Seq(Tickets)
    /\ Len(parkingJobCh) <= ParkCap /\ Len(unparkJobCh) <= UnparkCap
    /\ shuffleJobCh \in Seq(Components)
    /\ slots \in [BufferSlots -> [claimed : BOOLEAN, ticket : Tickets \cup {NoTicket}]]
    /\ parker \in [Parkers -> Robots({"idle", "claim", "asleep", "moving", "send"})]
    /\ unparker \in [Unparkers -> Robots({"idle", "look", "moving"})]
    /\ shuffler \in [Shufflers -> ShufflerStates]

\* The vehicles the building has promised floor f to.
PromisedTo(f) == {t \in Tickets : rec[t].present /\ ~rec[t].unpark /\ rec[t].target = f}

\* ReservedCapacity is what the strategies decide with: over any sequence of
\* Park, Unpark and rearrangements it is the space of the vehicles the floor is
\* promised to, and never more than the floor has.
ReservationsFit ==
    \A f \in Floors : /\ reserved[f] = SpaceOf(PromisedTo(f))
                      /\ reserved[f] <= Capacity

\* shufflingInProgress ends exactly when the last component is done: no robot, no
\* job and no buffer slot of the shuffle is left when the next switch may come.
ShuffleOver ==
    /\ shuffleWG = Len(shuffleJobCh)
                     + Cardinality({r \in Shufflers : shuffler[r].pc # "idle"})
    /\ ~shuffling => shuffleWG = 0 /\ FreeSlots = BufferSlots

\* A buffer slot belongs to the one robot that claimed it, and a vehicle in a
\* slot is the one the robot will take home.
SlotOwned ==
    /\ \A i \in BufferSlots :
          slots[i].claimed <=> \E r \in Shufflers : shuffler[r].slot = i
    /\ \A r, q \in Shufflers :
          shuffler[r].slot # NoSlot /\ shuffler[r].slot = shuffler[q].slot => r = q
    /\ \A t \in Tickets : rec[t].present /\ rec[t].slot # NoSlot =>
          /\ slots[rec[t].slot].ticket = t
          /\ \E r \in Shufflers : /\ shuffler[r].slot = rec[t].slot
                                  /\ Head(shuffler[r].tickets) = t

\* No Broadcast is missing: a robot sleeps only while what it waits for is false.
NoLostWakeup ==
    /\ \A r \in Parkers : parker[r].pc = "asleep" =>
          ~HasRoom(parker[r].floor, parker[r].ticket)
    /\ \A r \in Shufflers :
          /\ shuffler[r].pc = "onFloor" =>
                ~HasRoom(shuffler[r].floor, Head(shuffler[r].jobs).ticket)
          /\ shuffler[r].pc = "onWake" => NotReady(shuffler[r].tickets)
          /\ shuffler[r].pc = "onSlot" => FreeSlots = {}

\* After a rearrangement every vehicle that stays is where it was promised.
SettledAfterShuffle ==
    ~shuffling => \A t \in Tickets :
        rec[t].present /\ ~rec[t].unpark /\ rec[t].status = "PARKED"
            => rec[t].slot = NoSlot /\ rec[t].floor = rec[t].target

\* Without a rearrangement an accepted retrieval completes, also one that was
\* requested while the vehicle was still on its way to its floor.
RetrievedWithoutShuffle ==
    []~shuffling => \A t \in Tickets : rec[t].unpark ~> ~rec[t].present

\* A rearrangement ends: no cycle of moves waits for itself, for a buffer slot or
\* for a vehicle that is being parked.
RearrangementEnds == shuffling ~> ~shuffling

\* "A floor must never exceed its capacity."
OnFloor(f) == {t \in Tickets : rec[t].floor = f}
CapacityRespected == \A f \in Floors : SpaceOf(OnFloor(f)) <= Capacity

\* "The system must safely handle retrieval requests in all of these
\* situations": an accepted retrieval completes.
Retrieved == \A t \in Tickets : rec[t].unpark ~> ~rec[t].present
=============================================================================
