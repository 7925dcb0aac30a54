----------------------------- MODULE ParkingProofs -----------------------------
(***************************************************************************)
(* Proofs about the parking system, for any building, vehicles, robots,    *)
(* buffer slots, channels and switches of the strategy.                    *)
(***************************************************************************)
EXTENDS Parking, ParkingPlanProofs

-----------------------------------------------------------------------------
(* The inductive invariant *)

\* Only visits that have begun are known, each with a floor promised to it.
VisitsIssued ==
    /\ \A t \in Tickets : rec[t].present \/ rec[t].unpark => t \in issued
    /\ \A t \in issued : rec[t].target \in Floors

\* The jobs of the channels and of the robots are about visits that have begun,
\* and an unparking robot moves only a vehicle that was asked back.
JobsIssued ==
    /\ \A i \in DOMAIN parkingJobCh : parkingJobCh[i].ticket \in issued
    /\ \A i \in DOMAIN unparkJobCh : unparkJobCh[i] \in issued
    /\ \A i \in DOMAIN shuffleJobCh : ToSet(shuffleJobCh[i].tickets) \subseteq issued
    /\ \A r \in Parkers : parker[r].pc # "idle" =>
          parker[r].ticket \in issued /\ parker[r].floor \in Floors
    /\ \A r \in Unparkers : unparker[r].pc # "idle" =>
          /\ unparker[r].ticket \in issued
          /\ unparker[r].pc = "moving" => rec[unparker[r].ticket].unpark

Waiting == {"ready", "onWake", "claimSlot", "onSlot"}
Carrying == {"lift", "carry", "settle", "onFloor", "send"}
SlotPhases == {"breaker", "rest", "home"}

\* How far a shuffling robot is with its component.
InStage(s) ==
    /\ s.pc = "idle" => s = IdleShuffler
    /\ s.pc \in Waiting => s.phase = "none" /\ s.slot = NoSlot
    /\ s.pc = "finish" => s.slot = NoSlot
    /\ s.pc \in Carrying => /\ s.jobs # << >>
                            /\ s.phase # "none"
                            /\ s.phase \in SlotPhases <=> s.slot # NoSlot
    /\ s.pc = "replan" => s.slot # NoSlot /\ s.phase = "breaker"
    /\ s.pc = "home" => s.slot # NoSlot /\ s.phase = "rest"
    /\ s.pc = "release" => s.slot # NoSlot /\ s.phase \in {"rest", "home"}

\* The first of the tickets is the one that breaks the cycle: it alone goes into
\* the slot, and it alone comes out.
Breaks(s) ==
    /\ s.pc \in {"claimSlot", "onSlot"} =>
          /\ s.jobs # << >> /\ s.tickets # << >>
          /\ Head(s.jobs).ticket = Head(s.tickets)
    /\ s.slot # NoSlot => s.tickets # << >>
    /\ \A k \in DOMAIN s.jobs : IsBufferSlotID(s.jobs[k].to) =>
          /\ s.phase = "breaker"
          /\ s.slot # NoSlot
          /\ s.jobs[k].to = BufferSlotID(s.slot)
          /\ s.jobs[k].ticket = Head(s.tickets)
    /\ s.phase = "home" /\ s.pc \in Carrying =>
          /\ Len(s.jobs) = 1
          /\ Head(s.jobs).ticket = Head(s.tickets)
          /\ Head(s.jobs).from = BufferSlotID(s.slot)

\* The slot that a robot is going to give back is empty.
Emptied(R, s) ==
    s.pc = "release" \/ (s.phase = "home" /\ s.pc \in Carrying \ {"lift"}) =>
        \A t \in Tickets : R[t].present => R[t].slot # s.slot

\* A robot has jobs only for visits that have begun.
Issues(I, s) ==
    /\ ToSet(s.tickets) \subseteq I
    /\ \A k \in DOMAIN s.jobs : s.jobs[k].ticket \in I
    /\ s.pc = "onFloor" => s.floor \in Floors

\* A vehicle that a component waits for.
Late(e) == e.present /\ ~e.unpark /\ ~(e.status = "PARKED" /\ e.slot = NoSlot /\ e.floor # NoFloor)

\* A shuffling robot sleeps only while what it waits for is false.
Sleeps(p, R, free, s) ==
    /\ s.pc = "onFloor" => ~(Capacity - p[s.floor] >= Space(Head(s.jobs).ticket))
    /\ s.pc = "onWake" => \E t \in ToSet(s.tickets) : Late(R[t])
    /\ s.pc = "onSlot" => free = {}

\* All that holds of one shuffling robot.
Fits(I, R, p, free, s) ==
    Issues(I, s) /\ InStage(s) /\ Breaks(s) /\ Emptied(R, s) /\ Sleeps(p, R, free, s)
ShufflersFit == \A r \in Shufflers : Fits(issued, rec, physical, FreeSlots, shuffler[r])

\* A parking robot sleeps only while its floor has no room.
ParkersSleep == \A r \in Parkers : parker[r].pc = "asleep" =>
    ~(Capacity - physical[parker[r].floor] >= Space(parker[r].ticket))

\* A vehicle is in one component, and a component with one robot.
ComponentsApart ==
    /\ \A i, k \in DOMAIN shuffleJobCh : i # k => Apart(shuffleJobCh[i], shuffleJobCh[k])
    /\ \A i \in DOMAIN shuffleJobCh, r \in Shufflers : Apart(shuffleJobCh[i], shuffler[r])
    /\ \A r, q \in Shufflers : r # q => Apart(shuffler[r], shuffler[q])

\* The counter of the wait group counts the components that are not done.
Busy(robots) == {r \in Shufflers : robots[r].pc # "idle"}
Counted == /\ shuffleWG = Len(shuffleJobCh) + Cardinality(Busy(shuffler))
           /\ ~shuffling => shuffleWG = 0

\* The inductive invariant.
IInv == /\ TypeOK /\ ReservationsFit /\ VisitsIssued /\ JobsIssued
        /\ ShufflersFit /\ ParkersSleep /\ ComponentsApart /\ Counted /\ SlotOwned

-----------------------------------------------------------------------------
(* What a step leaves alone *)

\* The numbers of the floors and of the slots.
LEMMA Numbers ==
    /\ \A f \in Floors : f \in Nat /\ f # NoFloor /\ ~IsBufferSlotID(f)
    /\ \A i \in BufferSlots : /\ i \in Nat /\ i # NoSlot /\ IsBufferSlotID(BufferSlotID(i))
                              /\ BufferSlotID(i) - BufferSlotIDBase = i
    /\ \A n \in Places : ~IsBufferSlotID(n) => n \in Floors
    /\ \A n \in Places : n \in Int
<1>1. \A f \in Floors : f \in Nat /\ f < BufferSlotIDBase
  BY PlanAssumption, ParkingAssumption DEF Floors, BufferSlotIDBase
<1>2. BufferSlots \subseteq Nat /\ BufferSlotIDBase \in Nat
  BY ParkingAssumption DEF BufferSlotIDBase
<1> QED
  BY <1>1, <1>2 DEF NoFloor, NoSlot, IsBufferSlotID, BufferSlotID, Places

\* What no step but those of the customers changes of a record.
KeepsPromises ==
    /\ reserved' = reserved /\ issued' = issued
    /\ \A t \in Tickets : /\ rec'[t].target = rec[t].target
                          /\ rec'[t].unpark = rec[t].unpark
                          /\ rec'[t].present => rec[t].present
                          /\ rec[t].present /\ ~rec[t].unpark => rec'[t].present

\* A step that keeps the promises keeps the reservations in order.
LEMMA PromisesKept ==
    ASSUME TypeOK, ReservationsFit, VisitsIssued, KeepsPromises
    PROVE  ReservationsFit' /\ VisitsIssued'
<1>1. \A f \in Floors : PromisedTo(f)' = PromisedTo(f)
  BY DEF PromisedTo, KeepsPromises
<1>2. ReservationsFit'
  BY <1>1 DEF ReservationsFit, KeepsPromises
<1>3. VisitsIssued'
  BY DEF VisitsIssued, KeepsPromises, TypeOK
<1> QED
  BY <1>2, <1>3

\* What a Broadcast does to a robot, if anything.
Stirred(s, z) ==
    \/ z = s
    \/ s.pc = "onFloor" /\ z = [s EXCEPT !.pc = "settle"]
    \/ s.pc = "onWake" /\ z = [s EXCEPT !.pc = "ready"]
    \/ s.pc = "onSlot" /\ z = [s EXCEPT !.pc = "claimSlot"]

\* A Broadcast changes where a robot waits and nothing else.
LEMMA StirredFields ==
    ASSUME NEW s \in ShufflerStates, NEW z, Stirred(s, z)
    PROVE  /\ z \in ShufflerStates
           /\ z.phase = s.phase /\ z.loop = s.loop /\ z.tickets = s.tickets
           /\ z.jobs = s.jobs /\ z.slot = s.slot /\ z.floor = s.floor
           /\ z.pc = s.pc \/ \/ s.pc = "onFloor" /\ z.pc = "settle"
                             \/ s.pc = "onWake" /\ z.pc = "ready"
                             \/ s.pc = "onSlot" /\ z.pc = "claimSlot"
           /\ z.pc = s.pc => z = s
BY DEF Stirred, ShufflerStates

\* A robot that does nothing itself still fits when what it waits for did not
\* come true.
LEMMA StirredFits ==
    ASSUME NEW s \in ShufflerStates, NEW z, Stirred(s, z),
           NEW I, NEW R, NEW p \in [Floors -> Int], NEW free, Fits(I, R, p, free, s),
           NEW I2, NEW R2, NEW p2 \in [Floors -> Int], NEW free2, I \subseteq I2,
           \A t \in Tickets : R2[t].present /\ R2[t].slot = s.slot /\ s.slot # NoSlot
                                  => R[t].present /\ R[t].slot = s.slot,
           z.pc = "onFloor" => p2[z.floor] = p[z.floor] \/ p2[z.floor] >= p[z.floor],
           z.pc = "onWake" => \A t \in ToSet(z.tickets) : Late(R[t]) => Late(R2[t]),
           z.pc = "onSlot" => free2 \subseteq free
    PROVE  Fits(I2, R2, p2, free2, z)
<1>1. /\ z \in ShufflerStates
      /\ z.phase = s.phase /\ z.loop = s.loop /\ z.tickets = s.tickets
      /\ z.jobs = s.jobs /\ z.slot = s.slot /\ z.floor = s.floor
      /\ z.pc = s.pc \/ \/ s.pc = "onFloor" /\ z.pc = "settle"
                        \/ s.pc = "onWake" /\ z.pc = "ready"
                        \/ s.pc = "onSlot" /\ z.pc = "claimSlot"
      /\ z.pc = s.pc => z = s
  BY StirredFields
<1>2. Issues(I, s) /\ InStage(s) /\ Breaks(s) /\ Emptied(R, s) /\ Sleeps(p, R, free, s)
  BY DEF Fits
<1>3. Issues(I2, z)
  BY <1>1, <1>2 DEF Issues
<1>4. InStage(z)
  <2>1. CASE z.pc = s.pc
    BY <1>1, <1>2, <2>1
  <2>2. CASE s.pc = "onFloor" /\ z.pc = "settle"
    BY <1>1, <1>2, <2>2 DEF InStage, Carrying, Waiting
  <2>3. CASE s.pc \in {"onWake", "onSlot"} /\ z.pc \in {"ready", "claimSlot"}
    BY <1>1, <1>2, <2>3 DEF InStage, Carrying, Waiting
  <2> QED
    BY <1>1, <2>1, <2>2, <2>3
<1>5. Breaks(z)
  <2>1. z.pc \in {"claimSlot", "onSlot"} <=> s.pc \in {"claimSlot", "onSlot"}
    BY <1>1
  <2>2. z.pc \in Carrying <=> s.pc \in Carrying
    BY <1>1 DEF Carrying
  <2> QED
    BY <1>1, <1>2, <2>1, <2>2 DEF Breaks
<1>6. Emptied(R2, z)
  <2>1. z.pc = "release" => s.pc = "release" /\ s.slot # NoSlot
    BY <1>1, <1>2 DEF InStage
  <2>2. z.phase = "home" /\ z.pc \in Carrying \ {"lift"} =>
            s.phase = "home" /\ s.pc \in Carrying \ {"lift"} /\ s.slot # NoSlot
    BY <1>1, <1>2 DEF InStage, Carrying, SlotPhases
  <2> QED
    BY <1>1, <1>2, <2>1, <2>2 DEF Emptied
<1>7. Sleeps(p2, R2, free2, z)
  <2>1. ASSUME z.pc = "onFloor"
        PROVE  ~(Capacity - p2[z.floor] >= Space(Head(z.jobs).ticket))
    <3>1. s.pc = "onFloor" /\ s.floor \in Floors /\ s.jobs # << >>
      BY <1>1, <1>2, <2>1 DEF Issues, InStage, Carrying
    <3>2. Head(s.jobs).ticket \in Tickets
      <4>1. s.jobs \in Seq(Jobs)
        BY DEF ShufflerStates
      <4>2. Head(s.jobs) \in Jobs
        BY <3>1, <4>1, HeadTail
      <4> QED
        BY <4>2 DEF Jobs
    <3>3. Space(Head(s.jobs).ticket) \in Nat /\ Capacity \in Nat
      BY <3>2, SpaceType, PlanAssumption
    <3>4. ~(Capacity - p[s.floor] >= Space(Head(s.jobs).ticket))
      BY <1>2, <3>1 DEF Sleeps
    <3>5. p[s.floor] \in Int /\ p2[s.floor] \in Int /\ p2[s.floor] >= p[s.floor]
      BY <1>1, <2>1, <3>1
    <3> QED
      BY <1>1, <3>3, <3>4, <3>5
  <2>2. ASSUME z.pc = "onWake" PROVE \E t \in ToSet(z.tickets) : Late(R2[t])
    <3>1. s.pc = "onWake"
      BY <1>1, <2>2
    <3> QED
      BY <1>1, <1>2, <2>2, <3>1 DEF Sleeps
  <2>3. ASSUME z.pc = "onSlot" PROVE free2 = {}
    <3>1. s.pc = "onSlot"
      BY <1>1, <2>3
    <3> QED
      BY <1>2, <2>3, <3>1 DEF Sleeps
  <2> QED
    BY <2>1, <2>2, <2>3 DEF Sleeps
<1> QED
  BY <1>3, <1>4, <1>5, <1>6, <1>7 DEF Fits

\* The parts of a shuffling robot's state that the others depend on stay, but
\* for tickets it has no more to do with.
Steady(s, z) ==
    /\ ToSet(z.tickets) \subseteq ToSet(s.tickets)
    /\ z.slot = s.slot
    /\ s.slot # NoSlot => Head(z.tickets) = Head(s.tickets)
    /\ z.pc = "idle" <=> s.pc = "idle"

\* A robot that a Broadcast reaches keeps its component and its slot.
LEMMA StirredSteady ==
    ASSUME NEW s \in ShufflerStates, NEW z, Stirred(s, z)
    PROVE  Steady(s, z)
BY StirredFields DEF Steady

\* A step that takes no component and ends none.
LEMMA WorkKept ==
    ASSUME ComponentsApart, Counted, UNCHANGED <<shuffleJobCh, shuffleWG, shuffling>>,
           \A r \in Shufflers : /\ ToSet(shuffler'[r].tickets) \subseteq ToSet(shuffler[r].tickets)
                                /\ shuffler'[r].pc = "idle" <=> shuffler[r].pc = "idle"
    PROVE  ComponentsApart' /\ Counted'
<1>1. ComponentsApart'
  BY DEF ComponentsApart, Apart
<1>2. Busy(shuffler') = Busy(shuffler)
  BY DEF Busy
<1> QED
  BY <1>1, <1>2 DEF Counted

ShufflersSteady == \A r \in Shufflers : Steady(shuffler[r], shuffler'[r])

\* When all robots keep their components, the components stay apart and counted.
LEMMA ShuffleKept ==
    ASSUME ComponentsApart, Counted, ShufflersSteady,
           UNCHANGED <<shuffleJobCh, shuffleWG, shuffling>>
    PROVE  ComponentsApart' /\ Counted'
<1>1. \A r \in Shufflers : /\ ToSet(shuffler'[r].tickets) \subseteq ToSet(shuffler[r].tickets)
                           /\ shuffler'[r].pc = "idle" <=> shuffler[r].pc = "idle"
  BY DEF ShufflersSteady, Steady
<1> QED
  BY <1>1, WorkKept

\* A step that no slot notices.
LEMMA SlotsKept ==
    ASSUME TypeOK, SlotOwned, ShufflersSteady, slots' = slots,
           \A t \in Tickets : rec'[t].present /\ rec'[t].slot # NoSlot
                                  => rec[t].present /\ rec[t].slot = rec'[t].slot
    PROVE  SlotOwned'
<1>1. \A i \in BufferSlots : slots'[i].claimed <=> \E r \in Shufflers : shuffler'[r].slot = i
  BY DEF SlotOwned, ShufflersSteady, Steady
<1>2. \A r, q \in Shufflers :
          shuffler'[r].slot # NoSlot /\ shuffler'[r].slot = shuffler'[q].slot => r = q
  BY DEF SlotOwned, ShufflersSteady, Steady
<1>3. ASSUME NEW t \in Tickets, rec'[t].present, rec'[t].slot # NoSlot
      PROVE  /\ slots'[rec'[t].slot].ticket = t
             /\ \E r \in Shufflers : /\ shuffler'[r].slot = rec'[t].slot
                                     /\ Head(shuffler'[r].tickets) = t
  <2>1. rec[t].present /\ rec[t].slot = rec'[t].slot
    BY <1>3
  <2>2. slots[rec[t].slot].ticket = t
    BY <1>3, <2>1 DEF SlotOwned
  <2>3. PICK r \in Shufflers : shuffler[r].slot = rec[t].slot /\ Head(shuffler[r].tickets) = t
    BY <1>3, <2>1 DEF SlotOwned
  <2> QED
    BY <1>3, <2>1, <2>2, <2>3 DEF ShufflersSteady, Steady
<1> QED
  BY <1>1, <1>2, <1>3 DEF SlotOwned

\* The Broadcasts stir the robots, and wake those that they are for.
LEMMA Broadcasts ==
    ASSUME NEW robots \in [Shufflers -> ShufflerStates]
    PROVE  /\ WakeReady(robots) \in [Shufflers -> ShufflerStates]
           /\ \A r \in Shufflers : /\ Stirred(robots[r], WakeReady(robots)[r])
                                   /\ WakeReady(robots)[r].pc # "onWake"
           /\ WakeSlot(robots) \in [Shufflers -> ShufflerStates]
           /\ \A r \in Shufflers : /\ Stirred(robots[r], WakeSlot(robots)[r])
                                   /\ WakeSlot(robots)[r].pc # "onSlot"
           /\ \A f \in Floors :
                 /\ WakeShufflers(f, robots) \in [Shufflers -> ShufflerStates]
                 /\ \A r \in Shufflers :
                       /\ Stirred(robots[r], WakeShufflers(f, robots)[r])
                       /\ WakeShufflers(f, robots)[r].pc = "onFloor"
                             => WakeShufflers(f, robots)[r].floor # f
<1>1. DOMAIN robots = Shufflers
  OBVIOUS
<1>2. \A s \in ShufflerStates : \A p \in {"settle", "ready", "claimSlot"} :
          [s EXCEPT !.pc = p] \in ShufflerStates /\ [s EXCEPT !.pc = p].pc = p
  BY DEF ShufflerStates
<1> HIDE DEF ShufflerStates
<1>3. /\ WakeReady(robots) \in [Shufflers -> ShufflerStates]
      /\ \A r \in Shufflers : WakeReady(robots)[r]
            = IF robots[r].pc = "onWake" THEN [robots[r] EXCEPT !.pc = "ready"] ELSE robots[r]
  BY <1>1, <1>2 DEF WakeReady, Woken
<1>4. /\ WakeSlot(robots) \in [Shufflers -> ShufflerStates]
      /\ \A r \in Shufflers : WakeSlot(robots)[r]
            = IF robots[r].pc = "onSlot" THEN [robots[r] EXCEPT !.pc = "claimSlot"] ELSE robots[r]
  BY <1>1, <1>2 DEF WakeSlot, Woken
<1>5. \A f \in Floors :
      /\ WakeShufflers(f, robots) \in [Shufflers -> ShufflerStates]
      /\ \A r \in Shufflers : WakeShufflers(f, robots)[r]
            = IF robots[r].pc = "onFloor" /\ robots[r].floor = f THEN [robots[r] EXCEPT !.pc = "settle"] ELSE robots[r]
  BY <1>1, <1>2 DEF WakeShufflers, Woken
<1>6. ASSUME NEW r \in Shufflers
      PROVE  /\ Stirred(robots[r], WakeReady(robots)[r]) /\ WakeReady(robots)[r].pc # "onWake"
             /\ Stirred(robots[r], WakeSlot(robots)[r]) /\ WakeSlot(robots)[r].pc # "onSlot"
  BY <1>2, <1>3, <1>4 DEF Stirred
<1>7. ASSUME NEW r \in Shufflers, NEW f \in Floors
      PROVE  /\ Stirred(robots[r], WakeShufflers(f, robots)[r])
             /\ WakeShufflers(f, robots)[r].pc = "onFloor" => WakeShufflers(f, robots)[r].floor # f
  <2>1. CASE robots[r].pc = "onFloor" /\ robots[r].floor = f
    <3>1. robots[r] \in ShufflerStates /\ WakeShufflers(f, robots)[r] = [robots[r] EXCEPT !.pc = "settle"]
      BY <1>5, <2>1
    <3>2. WakeShufflers(f, robots)[r].pc = "settle"
      BY <1>2, <3>1
    <3> QED
      BY <2>1, <3>1, <3>2 DEF Stirred
  <2>2. CASE ~(robots[r].pc = "onFloor" /\ robots[r].floor = f)
    <3>1. WakeShufflers(f, robots)[r] = robots[r]
      BY <1>5, <2>2
    <3> QED
      BY <2>2, <3>1 DEF Stirred
  <2> QED
    BY <2>1, <2>2
<1> QED
  BY <1>3, <1>4, <1>5, <1>6, <1>7

\* The same of the parking robots.
LEMMA ParkersWoken ==
    ASSUME NEW f \in Floors, TypeOK, JobsIssued, ParkersSleep,
           parker' = WakeParkers(f, parker), NEW d \in Int,
           physical' = [physical EXCEPT ![f] = d]
    PROVE  /\ parker' \in [Parkers -> Robots({"idle", "claim", "asleep", "moving", "send"})]
           /\ \A r \in Parkers : /\ parker'[r].ticket = parker[r].ticket
                                 /\ parker'[r].floor = parker[r].floor
                                 /\ parker[r].pc = "idle" => parker'[r].pc = "idle"
           /\ ParkersSleep'
<1> DEFINE P == Robots({"idle", "claim", "asleep", "moving", "send"})
<1>1. parker \in [Parkers -> P] /\ physical \in [Floors -> Int]
  BY DEF TypeOK
<1>2. \A s \in P : /\ [s EXCEPT !.pc = "claim"] \in P
                   /\ [s EXCEPT !.pc = "claim"].ticket = s.ticket
                   /\ [s EXCEPT !.pc = "claim"].floor = s.floor
                   /\ [s EXCEPT !.pc = "claim"].pc = "claim"
  BY DEF Robots
<1> HIDE DEF P
<1>3. \A r \in Parkers : parker'[r] = IF parker[r].pc = "asleep" /\ parker[r].floor = f
                                      THEN [parker[r] EXCEPT !.pc = "claim"] ELSE parker[r]
  BY <1>1 DEF WakeParkers, Woken
<1>4. parker' \in [Parkers -> P]
  <2>1. \A r \in Parkers : parker'[r] \in P
    BY <1>1, <1>2, <1>3
  <2>2. \E w : parker' = [r \in Parkers |-> w[r]]
    BY <1>1 DEF WakeParkers, Woken
  <2> QED
    BY <2>1, <2>2
<1>5. \A r \in Parkers : /\ parker'[r].ticket = parker[r].ticket
                         /\ parker'[r].floor = parker[r].floor
                         /\ parker[r].pc = "idle" => parker'[r].pc = "idle"
                         /\ parker'[r].pc = "asleep" => parker[r].pc = "asleep" /\ parker[r].floor # f
  BY <1>1, <1>2, <1>3
<1>6. ASSUME NEW r \in Parkers, parker'[r].pc = "asleep"
      PROVE  ~(Capacity - physical'[parker'[r].floor] >= Space(parker'[r].ticket))
  <2>1. parker[r].pc = "asleep" /\ parker[r].floor # f /\ parker[r].floor \in Floors
    BY <1>5, <1>6 DEF JobsIssued
  <2>2. physical'[parker[r].floor] = physical[parker[r].floor]
    BY <1>1, <2>1
  <2> QED
    BY <1>5, <2>1, <2>2 DEF ParkersSleep
<1> QED
  BY <1>4, <1>5, <1>6 DEF ParkersSleep, P

\* A robot that a step does not move still fits.
LEMMA OthersFit ==
    ASSUME TypeOK, ShufflersFit, physical' \in [Floors -> Int], issued \subseteq issued',
           NEW q \in Shufflers, Stirred(shuffler[q], shuffler'[q]),
           \A t \in Tickets : rec'[t].present /\ rec'[t].slot = shuffler[q].slot
                                  /\ shuffler[q].slot # NoSlot
                                      => rec[t].present /\ rec[t].slot = shuffler[q].slot,
           shuffler'[q].pc = "onFloor" =>
               \/ physical'[shuffler'[q].floor] = physical[shuffler'[q].floor]
               \/ physical'[shuffler'[q].floor] >= physical[shuffler'[q].floor],
           shuffler'[q].pc = "onWake" =>
               \A t \in ToSet(shuffler'[q].tickets) : Late(rec[t]) => Late(rec'[t]),
           shuffler'[q].pc = "onSlot" => FreeSlots' \subseteq FreeSlots
    PROVE  Fits(issued', rec', physical', FreeSlots', shuffler'[q])
<1>1. /\ shuffler[q] \in ShufflerStates /\ physical \in [Floors -> Int]
      /\ Fits(issued, rec, physical, FreeSlots, shuffler[q])
  BY DEF TypeOK, ShufflersFit
<1> QED
  BY <1>1, StirredFits

-----------------------------------------------------------------------------
(* The first state and the customers *)

\* What is empty at the beginning.
LEMMA NothingPromised ==
    (\A f \in Floors : SpaceOf(PromisedTo(f)) = 0) \/ \E t \in Tickets : rec[t].present
<1> SUFFICES ASSUME \A t \in Tickets : ~rec[t].present PROVE \A f \in Floors : SpaceOf(PromisedTo(f)) = 0
  OBVIOUS
<1>1. \A f \in Floors : PromisedTo(f) = {}
  BY DEF PromisedTo
<1> QED
  BY <1>1, SpaceOfType

\* The first state.
LEMMA InitFits == Init => IInv
<1> SUFFICES ASSUME Init PROVE IInv
  OBVIOUS
<1> USE DEF Init
<1>1. NoRecord \in Records /\ ~NoRecord.present /\ ~NoRecord.unpark /\ NoRecord.slot = NoSlot
  BY DEF NoRecord, Records
<1>2. \A pcs : "idle" \in pcs => IdleRobot \in Robots(pcs)
  BY DEF IdleRobot, Robots
<1>3. IdleShuffler \in ShufflerStates /\ IdleShuffler.pc = "idle" /\ IdleShuffler.phase = "none"
      /\ IdleShuffler.slot = NoSlot /\ IdleShuffler.tickets = << >> /\ IdleShuffler.jobs = << >>
  BY DEF IdleShuffler, ShufflerStates
<1>4. TypeOK
  <2>1. rec \in [Tickets -> Records]
    BY <1>1
  <2>2. /\ parker \in [Parkers -> Robots({"idle", "claim", "asleep", "moving", "send"})]
        /\ unparker \in [Unparkers -> Robots({"idle", "look", "moving"})]
        /\ shuffler \in [Shufflers -> ShufflerStates]
    BY <1>2, <1>3
  <2>3. "Nearest" \in Strategies
    BY DEF Strategies
  <2>4. Len(parkingJobCh) <= ParkCap /\ Len(unparkJobCh) <= UnparkCap
    BY ParkingAssumption
  <2>5. slots \in [BufferSlots -> [claimed : BOOLEAN, ticket : Tickets \cup {NoTicket}]]
    OBVIOUS
  <2>6. physical \in [Floors -> Int] /\ reserved \in [Floors -> Nat]
    OBVIOUS
  <2>7. /\ parkingJobCh \in Seq([ticket : Tickets, floor : Floors])
        /\ unparkJobCh \in Seq(Tickets) /\ shuffleJobCh \in Seq(Components)
    OBVIOUS
  <2> QED
    BY <2>1, <2>2, <2>3, <2>4, <2>5, <2>6, <2>7 DEF TypeOK
<1>5. ReservationsFit
  <2>1. \A f \in Floors : SpaceOf(PromisedTo(f)) = 0
    BY <1>1, NothingPromised
  <2> QED
    BY <2>1, PlanAssumption DEF ReservationsFit
<1>6. VisitsIssued /\ JobsIssued /\ ParkersSleep
  BY <1>1 DEF VisitsIssued, JobsIssued, ParkersSleep, IdleRobot
<1>7. ShufflersFit
  <2> SUFFICES ASSUME NEW r \in Shufflers PROVE Fits(issued, rec, physical, FreeSlots, IdleShuffler)
    BY DEF ShufflersFit
  <2>1. ToSet(<< >>) = {} /\ DOMAIN << >> = {}
    BY Nothing
  <2> QED
    BY <1>3, <2>1 DEF Fits, Issues, InStage, Breaks, Emptied, Sleeps, Waiting, Carrying
<1>8. ComponentsApart
  BY <1>3, Nothing DEF ComponentsApart, Apart
<1>9. Counted
  <2>1. Busy(shuffler) = {}
    BY <1>3 DEF Busy
  <2>2. Cardinality(Busy(shuffler)) = 0 /\ Len(shuffleJobCh) = 0
    BY <2>1, FS_EmptySet
  <2> QED
    BY <2>2 DEF Counted
<1>10. SlotOwned
  <2>1. \A i \in BufferSlots : i # NoSlot
    BY Numbers
  <2> QED
    BY <1>1, <1>3, <2>1 DEF SlotOwned
<1> QED
  BY <1>4, <1>5, <1>6, <1>7, <1>8, <1>9, <1>10 DEF IInv

\* Park.
LEMMA ParkKeeps ==
    ASSUME IInv, NEW t \in Tickets, Park(t)
    PROVE  IInv'
<1> DEFINE f == Choose(strategy, t, reserved)
           e == [NoRecord EXCEPT !.present = TRUE, !.target = f]
<1>1. TypeOK /\ SlotOwned /\ Counted /\ ComponentsApart /\ VisitsIssued /\ JobsIssued
      /\ ShufflersFit /\ ParkersSleep /\ ReservationsFit
  BY DEF IInv
<1>2. f \in Floors /\ reserved[f] + Space(t) <= Capacity
  <2>1. strategy \in Strategies /\ f # NoFloor
    BY <1>1 DEF TypeOK, Park
  <2>2. f \in Fitting(t, reserved)
    BY <2>1, ChooseFits
  <2> QED
    BY <2>2 DEF Fitting
<1>3. Space(t) \in Nat /\ Capacity \in Nat /\ f # NoFloor
  BY <1>2, SpaceType, PlanAssumption, Numbers
<1>4. /\ e \in Records /\ e.present /\ ~e.unpark /\ e.target = f /\ e.floor = NoFloor
      /\ e.slot = NoSlot /\ Late(e)
  BY <1>2 DEF NoRecord, Records, Late
<1>5. /\ t \notin issued /\ issued' = issued \cup {t} /\ rec' = [rec EXCEPT ![t] = e]
      /\ reserved' = [reserved EXCEPT ![f] = @ + Space(t)]
      /\ parkingJobCh' = Append(parkingJobCh, [ticket |-> t, floor |-> f])
      /\ Len(parkingJobCh) < ParkCap
      /\ physical' = physical /\ strategy' = strategy /\ shuffling' = shuffling /\ shuffleWG' = shuffleWG
      /\ unparkJobCh' = unparkJobCh /\ shuffleJobCh' = shuffleJobCh /\ slots' = slots
      /\ parker' = parker /\ unparker' = unparker /\ shuffler' = shuffler
  BY DEF Park
<1> HIDE DEF f, e
<1>6. ~rec[t].present /\ ~rec[t].unpark
  BY <1>1, <1>5 DEF VisitsIssued
<1>7. \A u \in Tickets : rec'[u] = IF u = t THEN e ELSE rec[u]
  BY <1>1, <1>5 DEF TypeOK
<1>8. TypeOK'
  <2>1. parkingJobCh' \in Seq([ticket : Tickets, floor : Floors]) /\ Len(parkingJobCh') <= ParkCap
    <3> DEFINE job == [ticket |-> t, floor |-> f]
               J == [ticket : Tickets, floor : Floors]
    <3>1. job \in J
      BY <1>2
    <3>2. parkingJobCh \in Seq(J)
      BY <1>1 DEF TypeOK
    <3> HIDE DEF job, J
    <3>3. Append(parkingJobCh, job) \in Seq(J) /\ Len(Append(parkingJobCh, job)) = Len(parkingJobCh) + 1
      BY <3>1, <3>2
    <3>4. Len(parkingJobCh) \in Nat /\ ParkCap \in Nat
      BY <3>2, ParkingAssumption
    <3> QED
      BY <1>5, <3>3, <3>4 DEF job, J
  <2>2. rec' \in [Tickets -> Records] /\ reserved' \in [Floors -> Nat]
    BY <1>1, <1>2, <1>3, <1>4, <1>5 DEF TypeOK
  <2> QED
    BY <1>1, <1>5, <2>1, <2>2 DEF TypeOK
<1>9. ReservationsFit'
  <2> SUFFICES ASSUME NEW g \in Floors
               PROVE  reserved'[g] = SpaceOf(PromisedTo(g)') /\ reserved'[g] <= Capacity
    BY DEF ReservationsFit
  <2>1. reserved[g] = SpaceOf(PromisedTo(g)) /\ reserved[g] <= Capacity /\ reserved \in [Floors -> Nat]
    BY <1>1 DEF ReservationsFit, TypeOK
  <2>2. CASE g = f
    <3>1. PromisedTo(g)' = PromisedTo(g) \cup {t} /\ t \notin PromisedTo(g)
      BY <1>4, <1>6, <1>7, <2>2 DEF PromisedTo
    <3> DEFINE A == PromisedTo(g) \cup {t}
    <3>2. A \in SUBSET Tickets /\ t \in A /\ A \ {t} = PromisedTo(g)
      BY <3>1 DEF PromisedTo
    <3> HIDE DEF A
    <3>3. SpaceOf(A) = Space(t) + SpaceOf(PromisedTo(g))
      BY <3>2, SpaceOfRemove
    <3>4. reserved'[g] = reserved[g] + Space(t)
      BY <1>2, <1>5, <2>1, <2>2
    <3> QED
      BY <1>2, <1>3, <2>1, <2>2, <3>1, <3>3, <3>4 DEF A
  <2>3. CASE g # f
    <3>1. PromisedTo(g)' = PromisedTo(g)
      BY <1>4, <1>6, <1>7, <2>3 DEF PromisedTo
    <3>2. reserved'[g] = reserved[g]
      BY <1>5, <2>1, <2>3
    <3> QED
      BY <2>1, <3>1, <3>2
  <2> QED
    BY <2>2, <2>3
<1>10. VisitsIssued'
  BY <1>1, <1>2, <1>4, <1>5, <1>7 DEF VisitsIssued, TypeOK
<1>11. JobsIssued'
  <2> DEFINE n == Len(parkingJobCh)
  <2>1. /\ n \in Nat /\ DOMAIN parkingJobCh = 1..n /\ DOMAIN parkingJobCh' = 1..(n + 1)
        /\ parkingJobCh'[n + 1].ticket = t
        /\ \A i \in 1..n : parkingJobCh'[i] = parkingJobCh[i]
    BY <1>1, <1>5 DEF TypeOK
  <2>2. \A i \in 1..(n + 1) : i \in 1..n \/ i = n + 1
    BY <2>1
  <2>3. \A i \in DOMAIN parkingJobCh' : parkingJobCh'[i].ticket \in issued'
    <3> HIDE DEF n
    <3> QED
      BY <1>1, <1>5, <2>1, <2>2 DEF JobsIssued
  <2>4. \A r \in Unparkers : unparker[r].pc = "moving" => unparker[r].ticket # t
    BY <1>1, <1>5 DEF JobsIssued
  <2>5. \A r \in Unparkers : unparker[r].pc # "idle" =>
          /\ unparker[r].ticket \in issued
          /\ unparker[r].pc = "moving" => rec'[unparker[r].ticket].unpark
    BY <1>1, <1>5, <1>7, <2>4 DEF JobsIssued, TypeOK
  <2> QED
    BY <1>1, <1>5, <2>3, <2>5 DEF JobsIssued
<1>12. ShufflersFit'
  <2> SUFFICES ASSUME NEW q \in Shufflers
               PROVE  Fits(issued', rec', physical', FreeSlots', shuffler'[q])
    BY DEF ShufflersFit
  <2>1. FreeSlots' = FreeSlots /\ shuffler'[q] = shuffler[q] /\ shuffler[q].tickets \in Seq(Tickets)
    BY <1>1, <1>5 DEF FreeSlots, TypeOK, ShufflerStates
  <2>2. physical' \in [Floors -> Int] /\ issued \subseteq issued'
    BY <1>5, <1>8 DEF TypeOK
  <2>3. \A u \in Tickets : rec'[u].present /\ rec'[u].slot = shuffler[q].slot /\ shuffler[q].slot # NoSlot
                              => rec[u].present /\ rec[u].slot = shuffler[q].slot
    BY <1>4, <1>7
  <2>4. \A u \in ToSet(shuffler[q].tickets) : Late(rec[u]) => Late(rec'[u])
    <3>1. ToSet(shuffler[q].tickets) \subseteq Tickets
      BY <2>1, ToSetType
    <3> QED
      BY <1>4, <1>7, <3>1
  <2>5. Stirred(shuffler[q], shuffler'[q])
    BY <2>1 DEF Stirred
  <2> QED
    BY <1>1, <1>5, <2>1, <2>2, <2>3, <2>4, <2>5, OthersFit
<1>13. ParkersSleep'
  BY <1>1, <1>5 DEF ParkersSleep
<1>14. ShufflersSteady
  BY <1>5 DEF ShufflersSteady, Steady
<1>15. ComponentsApart' /\ Counted'
  BY <1>1, <1>5, <1>14, ShuffleKept
<1>16. SlotOwned'
  BY <1>1, <1>4, <1>5, <1>7, <1>14, SlotsKept
<1> QED
  BY <1>8, <1>9, <1>10, <1>11, <1>12, <1>13, <1>15, <1>16 DEF IInv

\* What is left of a channel when its first job is taken.
LEMMA Taken ==
    ASSUME NEW X, NEW s \in Seq(X), s # << >>
    PROVE  /\ Head(s) \in X /\ Head(s) = s[1] /\ 1 \in DOMAIN s
           /\ Tail(s) \in Seq(X) /\ Len(Tail(s)) = Len(s) - 1 /\ Len(s) \in Nat
           /\ \A i \in DOMAIN Tail(s) : /\ i \in Nat /\ i + 1 \in DOMAIN s
                                        /\ Tail(s)[i] = s[i + 1]
<1>1. Len(s) \in Nat /\ DOMAIN s = 1..Len(s) /\ Len(s) > 0
  BY EmptySeq, LenProperties
<1>2. /\ Head(s) \in X /\ Head(s) = s[1] /\ Tail(s) \in Seq(X) /\ Len(Tail(s)) = Len(s) - 1
      /\ \A i \in 1..(Len(s) - 1) : Tail(s)[i] = s[i + 1]
  BY HeadTailProperties
<1>3. DOMAIN Tail(s) = 1..(Len(s) - 1)
  BY <1>2, LenProperties
<1> QED
  BY <1>1, <1>2, <1>3

\* A retrieval that is sent.
LEMMA Sent ==
    ASSUME TypeOK, JobsIssued, NEW t \in issued, Len(unparkJobCh) < UnparkCap,
           unparkJobCh' = Append(unparkJobCh, t)
    PROVE  /\ unparkJobCh' \in Seq(Tickets) /\ Len(unparkJobCh') <= UnparkCap
           /\ \A i \in DOMAIN unparkJobCh' : unparkJobCh'[i] \in issued
<1> DEFINE n == Len(unparkJobCh)
<1>1. unparkJobCh \in Seq(Tickets) /\ t \in Tickets /\ UnparkCap \in Nat /\ n \in Nat
  BY ParkingAssumption DEF TypeOK
<1>2. unparkJobCh' \in Seq(Tickets) /\ Len(unparkJobCh') = n + 1
  BY <1>1
<1>3. DOMAIN unparkJobCh = 1..n /\ DOMAIN unparkJobCh' = 1..(n + 1) /\ unparkJobCh'[n + 1] = t
  BY <1>1
<1>4. \A i \in 1..n : unparkJobCh'[i] = unparkJobCh[i]
  BY <1>1
<1>5. \A i \in 1..(n + 1) : i \in 1..n \/ i = n + 1
  BY <1>1
<1>6. Len(unparkJobCh') <= UnparkCap
  BY <1>1, <1>2
<1>7. \A i \in DOMAIN unparkJobCh : unparkJobCh[i] \in issued
  BY DEF JobsIssued
<1> HIDE DEF n
<1> QED
  BY <1>2, <1>3, <1>4, <1>5, <1>6, <1>7

\* A vehicle that is asked back gives up its reservation.
LEMMA UnparkAcceptedKeeps ==
    ASSUME IInv, NEW t \in Tickets, UnparkAccepted(t)
    PROVE  IInv'
<1> DEFINE f == rec[t].target
           e == [rec[t] EXCEPT !.unpark = TRUE]
<1>1. TypeOK /\ SlotOwned /\ Counted /\ ComponentsApart /\ VisitsIssued /\ JobsIssued
      /\ ShufflersFit /\ ParkersSleep /\ ReservationsFit
  BY DEF IInv
<1>2. /\ rec[t].present /\ ~rec[t].unpark /\ rec' = [rec EXCEPT ![t] = e]
      /\ Standing(t) => Len(unparkJobCh) < UnparkCap
      /\ unparkJobCh' = IF Standing(t) THEN Append(unparkJobCh, t) ELSE unparkJobCh
      /\ reserved' = [reserved EXCEPT ![f] = @ - Space(t)]
      /\ shuffler' = WakeReady(shuffler)
      /\ physical' = physical /\ issued' = issued /\ strategy' = strategy /\ shuffling' = shuffling
      /\ shuffleWG' = shuffleWG /\ parkingJobCh' = parkingJobCh /\ shuffleJobCh' = shuffleJobCh
      /\ slots' = slots /\ parker' = parker /\ unparker' = unparker
  BY DEF UnparkAccepted
<1>3. t \in issued /\ f \in Floors
  BY <1>1, <1>2 DEF VisitsIssued
<1>4. Space(t) \in Nat /\ Capacity \in Nat
  BY SpaceType, PlanAssumption
<1>5. e \in Records /\ e.present = rec[t].present /\ e.unpark /\ e.target = f
      /\ e.slot = rec[t].slot
  BY <1>1 DEF TypeOK, Records
<1>6. shuffler \in [Shufflers -> ShufflerStates]
  BY <1>1 DEF TypeOK
<1>7. /\ shuffler' \in [Shufflers -> ShufflerStates]
      /\ \A q \in Shufflers : Stirred(shuffler[q], shuffler'[q]) /\ shuffler'[q].pc # "onWake"
  BY <1>2, <1>6, Broadcasts
<1> HIDE DEF f, e
<1>8. \A u \in Tickets : rec'[u] = IF u = t THEN e ELSE rec[u]
  BY <1>1, <1>2 DEF TypeOK
<1>9. ReservationsFit' /\ reserved' \in [Floors -> Nat]
  <2>1. reserved \in [Floors -> Nat]
    BY <1>1 DEF TypeOK
  <2>2. ASSUME NEW g \in Floors
        PROVE  /\ reserved'[g] = SpaceOf(PromisedTo(g)') /\ reserved'[g] <= Capacity
               /\ reserved'[g] \in Nat
    <3>1. reserved[g] = SpaceOf(PromisedTo(g)) /\ reserved[g] <= Capacity
      BY <1>1 DEF ReservationsFit
    <3>2. CASE g = f
      <4>1. PromisedTo(g)' = PromisedTo(g) \ {t} /\ t \in PromisedTo(g)
        BY <1>2, <1>5, <1>8, <3>2 DEF PromisedTo, f
      <4> DEFINE A == PromisedTo(g)
                 B == A \ {t}
      <4>2. A \in SUBSET Tickets /\ t \in A /\ B \in SUBSET Tickets
        BY <4>1 DEF PromisedTo
      <4> HIDE DEF A
      <4>3. SpaceOf(A) = Space(t) + SpaceOf(B) /\ SpaceOf(B) \in Nat
        BY <4>2, SpaceOfRemove, SpaceOfType
      <4>4. reserved'[g] = reserved[g] - Space(t)
        BY <1>2, <2>1, <3>2
      <4> HIDE DEF B
      <4>5. reserved[g] = SpaceOf(A) /\ SpaceOf(PromisedTo(g)') = SpaceOf(B) /\ reserved[g] \in Nat
        BY <2>1, <3>1, <4>1 DEF A, B
      <4> QED
        BY <1>4, <3>1, <4>3, <4>4, <4>5
    <3>3. CASE g # f
      <4>1. PromisedTo(g)' = PromisedTo(g)
        BY <1>5, <1>8, <3>3 DEF PromisedTo, f
      <4>2. reserved'[g] = reserved[g]
        BY <1>2, <2>1, <3>3
      <4> QED
        BY <2>1, <3>1, <4>1, <4>2
    <3> QED
      BY <3>2, <3>3
  <2>3. reserved' \in [Floors -> Nat]
    BY <1>2, <2>1, <2>2
  <2> QED
    BY <2>2, <2>3 DEF ReservationsFit
<1>10. /\ unparkJobCh' \in Seq(Tickets) /\ Len(unparkJobCh') <= UnparkCap
       /\ \A i \in DOMAIN unparkJobCh' : unparkJobCh'[i] \in issued
  <2>1. CASE Standing(t)
    BY <1>1, <1>2, <1>3, <2>1, Sent
  <2>2. CASE ~Standing(t)
    BY <1>1, <1>2, <2>2 DEF TypeOK, JobsIssued
  <2> QED
    BY <2>1, <2>2
<1>11. TypeOK'
  <2>1. rec' \in [Tickets -> Records]
    BY <1>1, <1>2, <1>5 DEF TypeOK
  <2> QED
    BY <1>1, <1>2, <1>7, <1>9, <1>10, <2>1 DEF TypeOK
<1>12. VisitsIssued'
  BY <1>1, <1>2, <1>3, <1>5, <1>8 DEF VisitsIssued, TypeOK
<1>13. JobsIssued'
  <2>1. \A u \in Tickets : rec[u].unpark => rec'[u].unpark
    BY <1>5, <1>8
  <2>2. \A r \in Unparkers : unparker[r].pc # "idle" =>
          /\ unparker[r].ticket \in issued
          /\ unparker[r].pc = "moving" => rec'[unparker[r].ticket].unpark
    BY <1>1, <2>1 DEF JobsIssued, TypeOK
  <2> QED
    BY <1>1, <1>2, <1>10, <2>2 DEF JobsIssued
<1>14. ShufflersFit'
  <2> SUFFICES ASSUME NEW q \in Shufflers
               PROVE  Fits(issued', rec', physical', FreeSlots', shuffler'[q])
    BY DEF ShufflersFit
  <2>1. FreeSlots' = FreeSlots
    BY <1>2 DEF FreeSlots
  <2>2. physical' \in [Floors -> Int] /\ issued \subseteq issued'
    BY <1>2, <1>11 DEF TypeOK
  <2>3. \A u \in Tickets : rec'[u].present /\ rec'[u].slot = shuffler[q].slot /\ shuffler[q].slot # NoSlot
                              => rec[u].present /\ rec[u].slot = shuffler[q].slot
    BY <1>5, <1>8
  <2> QED
    BY <1>1, <1>2, <1>7, <2>1, <2>2, <2>3, OthersFit
<1>15. ParkersSleep'
  BY <1>1, <1>2 DEF ParkersSleep
<1>16. ShufflersSteady
  BY <1>6, <1>7, StirredSteady DEF ShufflersSteady
<1>17. ComponentsApart' /\ Counted'
  BY <1>1, <1>2, <1>16, ShuffleKept
<1>18. SlotOwned'
  BY <1>1, <1>2, <1>5, <1>8, <1>16, SlotsKept
<1> QED
  BY <1>9, <1>11, <1>12, <1>13, <1>14, <1>15, <1>17, <1>18 DEF IInv

\* The Broadcast of a retrieval that is refused.
LEMMA UnparkBusyKeeps ==
    ASSUME IInv, NEW t \in Tickets, UnparkBusy(t)
    PROVE  IInv'
<1>1. TypeOK /\ SlotOwned /\ Counted /\ ComponentsApart /\ VisitsIssued /\ JobsIssued
      /\ ShufflersFit /\ ParkersSleep /\ ReservationsFit
  BY DEF IInv
<1>2. /\ shuffler' = WakeReady(shuffler)
      /\ rec' = rec /\ reserved' = reserved /\ unparkJobCh' = unparkJobCh
      /\ physical' = physical /\ issued' = issued /\ strategy' = strategy /\ shuffling' = shuffling
      /\ shuffleWG' = shuffleWG /\ parkingJobCh' = parkingJobCh /\ shuffleJobCh' = shuffleJobCh
      /\ slots' = slots /\ parker' = parker /\ unparker' = unparker
  BY DEF UnparkBusy
<1>3. shuffler \in [Shufflers -> ShufflerStates]
  BY <1>1 DEF TypeOK
<1>4. /\ shuffler' \in [Shufflers -> ShufflerStates]
      /\ \A q \in Shufflers : Stirred(shuffler[q], shuffler'[q]) /\ shuffler'[q].pc # "onWake"
  BY <1>2, <1>3, Broadcasts
<1>5. TypeOK'
  BY <1>1, <1>2, <1>4 DEF TypeOK
<1>6. ReservationsFit' /\ VisitsIssued'
  BY <1>1, <1>2, PromisesKept DEF KeepsPromises
<1>7. JobsIssued' /\ ParkersSleep'
  BY <1>1, <1>2 DEF JobsIssued, ParkersSleep
<1>8. ShufflersFit'
  <2> SUFFICES ASSUME NEW q \in Shufflers
               PROVE  Fits(issued', rec', physical', FreeSlots', shuffler'[q])
    BY DEF ShufflersFit
  <2>1. FreeSlots' = FreeSlots
    BY <1>2 DEF FreeSlots
  <2>2. physical' \in [Floors -> Int] /\ issued \subseteq issued'
    BY <1>2, <1>5 DEF TypeOK
  <2> QED
    BY <1>1, <1>2, <1>4, <2>1, <2>2, OthersFit
<1>9. ShufflersSteady
  BY <1>3, <1>4, StirredSteady DEF ShufflersSteady
<1>10. ComponentsApart' /\ Counted'
  BY <1>1, <1>2, <1>9, ShuffleKept
<1>11. SlotOwned'
  BY <1>1, <1>2, <1>9, SlotsKept
<1> QED
  BY <1>5, <1>6, <1>7, <1>8, <1>10, <1>11 DEF IInv

\* A switch that rearranges nothing, and the end of one that does.
LEMMA SwitchPlainKeeps ==
    ASSUME IInv, NEW s \in Switches, SwitchPlain(s)
    PROVE  IInv'
<1>1. /\ shuffler' = shuffler /\ strategy' = s
      /\ rec' = rec /\ reserved' = reserved /\ unparkJobCh' = unparkJobCh
      /\ physical' = physical /\ issued' = issued /\ shuffling' = shuffling
      /\ shuffleWG' = shuffleWG /\ parkingJobCh' = parkingJobCh /\ shuffleJobCh' = shuffleJobCh
      /\ slots' = slots /\ parker' = parker /\ unparker' = unparker
  BY DEF SwitchPlain
<1>2. TypeOK'
  BY <1>1, ParkingAssumption DEF IInv, TypeOK
<1>3. ReservationsFit' /\ VisitsIssued'
  BY <1>1, PromisesKept DEF IInv, KeepsPromises
<1>4. ShufflersFit'
  <2>1. FreeSlots' = FreeSlots
    BY <1>1 DEF FreeSlots
  <2> QED
    BY <1>1, <2>1 DEF IInv, ShufflersFit
<1>5. ShufflersSteady
  BY <1>1 DEF ShufflersSteady, Steady
<1>6. SlotOwned' /\ ComponentsApart' /\ Counted'
  BY <1>1, <1>5, SlotsKept, ShuffleKept DEF IInv
<1> QED
  BY <1>1, <1>2, <1>3, <1>4, <1>6 DEF IInv, JobsIssued, ParkersSleep

\* The goroutine of SwitchStrategy ends.
LEMMA ShuffleDoneKeeps ==
    ASSUME IInv, ShuffleDone
    PROVE  IInv'
<1>1. /\ shuffler' = shuffler /\ shuffling' = FALSE /\ shuffleWG = 0
      /\ rec' = rec /\ reserved' = reserved /\ unparkJobCh' = unparkJobCh
      /\ physical' = physical /\ issued' = issued /\ strategy' = strategy
      /\ shuffleWG' = shuffleWG /\ parkingJobCh' = parkingJobCh /\ shuffleJobCh' = shuffleJobCh
      /\ slots' = slots /\ parker' = parker /\ unparker' = unparker
  BY DEF ShuffleDone
<1>2. TypeOK'
  BY <1>1 DEF IInv, TypeOK
<1>3. ReservationsFit' /\ VisitsIssued'
  BY <1>1, PromisesKept DEF IInv, KeepsPromises
<1>4. ShufflersFit'
  <2>1. FreeSlots' = FreeSlots
    BY <1>1 DEF FreeSlots
  <2> QED
    BY <1>1, <2>1 DEF IInv, ShufflersFit
<1>5. ShufflersSteady
  BY <1>1 DEF ShufflersSteady, Steady
<1>6. SlotOwned'
  BY <1>1, <1>5, SlotsKept DEF IInv
<1>7. ComponentsApart' /\ Counted'
  BY <1>1 DEF IInv, ComponentsApart, Counted
<1> QED
  BY <1>1, <1>2, <1>3, <1>4, <1>6, <1>7 DEF IInv, JobsIssued, ParkersSleep

\* An idle robot fits whatever the state.
LEMMA IdleFits ==
    /\ IdleShuffler \in ShufflerStates /\ IdleShuffler.pc = "idle" /\ IdleShuffler.phase = "none"
    /\ IdleShuffler.slot = NoSlot /\ IdleShuffler.tickets = << >> /\ IdleShuffler.jobs = << >>
    /\ \A I, R, p, free : Fits(I, R, p, free, IdleShuffler)
<1>1. /\ IdleShuffler \in ShufflerStates /\ IdleShuffler.pc = "idle" /\ IdleShuffler.phase = "none"
      /\ IdleShuffler.slot = NoSlot /\ IdleShuffler.tickets = << >> /\ IdleShuffler.jobs = << >>
  BY DEF IdleShuffler, ShufflerStates
<1>2. ToSet(<< >>) = {} /\ DOMAIN << >> = {}
  BY Nothing
<1> QED
  BY <1>1, <1>2 DEF Fits, Issues, InStage, Breaks, Emptied, Sleeps, Waiting, Carrying

\* When no rearrangement is on, no component and no busy robot is left.
LEMMA NobodyBusy ==
    ASSUME TypeOK, Counted, ShufflersFit, shuffleWG = 0
    PROVE  shuffleJobCh = << >> /\ \A r \in Shufflers : shuffler[r] = IdleShuffler
<1>1. IsFiniteSet(Busy(shuffler))
  BY ParkingAssumption, FS_Subset DEF Busy
<1>2. Cardinality(Busy(shuffler)) \in Nat /\ Len(shuffleJobCh) \in Nat
  BY <1>1, FS_CardinalityType DEF TypeOK
<1>3. Cardinality(Busy(shuffler)) = 0 /\ Len(shuffleJobCh) = 0
  BY <1>2 DEF Counted
<1>4. Busy(shuffler) = {}
  BY <1>1, <1>3, FS_EmptySet
<1>5. shuffleJobCh = << >>
  BY <1>3, EmptySeq DEF TypeOK
<1> QED
  BY <1>4, <1>5 DEF Busy, ShufflersFit, Fits, InStage

\* What is left of a movement order still divides its vehicles.
LEMMA BlueprintResult ==
    ASSUME NEW D \in SUBSET Tickets, NEW order, Divides(D, D, order), NEW layout
    PROVE  /\ Blueprint(order, layout) \in Seq(Components)
           /\ \A i \in DOMAIN Blueprint(order, layout) :
                 ToSet(Blueprint(order, layout)[i].tickets) \subseteq D
           /\ \A i, k \in DOMAIN Blueprint(order, layout) :
                 i # k => Apart(Blueprint(order, layout)[i], Blueprint(order, layout)[k])
           /\ \A t \in D \cap Planned : rec[t].floor # layout[t] =>
                 \E i \in DOMAIN Blueprint(order, layout) :
                    t \in ToSet(Blueprint(order, layout)[i].tickets)
<1> DEFINE away == {t \in Planned : rec[t].floor # layout[t]}
           left == [i \in DOMAIN order |-> [order[i] EXCEPT !.tickets = Only(@, away)]]
           N == {c \in ToSet(left) : c.tickets # << >>}
           comps == Only(left, N)
           C == Comps(D)
<1>1. order \in Seq(C) /\ Len(order) \in Nat /\ DOMAIN order = 1..Len(order)
  BY LenProperties DEF Divides
<1>2. ASSUME NEW i \in DOMAIN order
      PROVE  /\ left[i] \in C /\ left[i].tickets \in Seq(D)
             /\ ToSet(left[i].tickets) = ToSet(order[i].tickets) \cap away
  <2> DEFINE c == order[i]
             w == Only(c.tickets, away)
  <2>1. c \in C
    BY <1>1
  <2>2. w \in Seq(D) /\ ToSet(w) = ToSet(c.tickets) \cap away
    <3>1. c.tickets \in Seq(D)
      BY <2>1 DEF Comps
    <3> HIDE DEF away, c
    <3> QED
      BY <3>1, OnlyResult
  <2>3. left[i] = [c EXCEPT !.tickets = w]
    OBVIOUS
  <2> HIDE DEF c, w, left
  <2>4. left[i] \in C /\ left[i].tickets = w
    BY <2>1, <2>2, <2>3 DEF Comps
  <2> QED
    BY <2>2, <2>4 DEF c
<1>3. left \in Seq(C) /\ DOMAIN left = DOMAIN order
  <2>1. left \in [1..Len(order) -> C]
    BY <1>1, <1>2
  <2> HIDE DEF left, C
  <2> QED
    BY <1>1, <2>1
<1> HIDE DEF left
<1>4. \A i, k \in DOMAIN left : i # k => Apart(left[i], left[k])
  <2>1. \A i \in DOMAIN left : ToSet(left[i].tickets) \subseteq ToSet(order[i].tickets)
    BY <1>2, <1>3
  <2> QED
    BY <1>3, <2>1 DEF Divides, Apart
<1>5. OnceIn(left, N)
  <2>1. ASSUME NEW i \in DOMAIN left, NEW k \in DOMAIN left, left[i] \in N, left[i] = left[k], i # k
        PROVE  FALSE
    <3>1. ToSet(left[i].tickets) = {}
      BY <1>4, <2>1 DEF Apart
    <3>2. left[i].tickets \in Seq(D)
      BY <1>2, <1>3
    <3>3. left[i].tickets = << >>
      BY <3>1, <3>2, ToSetType
    <3> QED
      BY <2>1, <3>3
  <2> QED
    BY <2>1 DEF OnceIn
<1> HIDE DEF N, C
<1>6. comps \in Seq(C) /\ ToSet(comps) = ToSet(left) \cap N /\ Once(comps)
  BY <1>3, <1>5, OnlyResult
<1>7. Blueprint(order, layout) = comps
  BY DEF Blueprint, N, left
<1> HIDE DEF comps
<1>8. \A i \in DOMAIN comps : \E j \in DOMAIN left : comps[i] = left[j]
  <2> TAKE i \in DOMAIN comps
  <2>1. comps[i] \in ToSet(comps)
    BY DEF ToSet
  <2>2. comps[i] \in ToSet(left)
    BY <1>6, <2>1
  <2> QED
    BY <2>2 DEF ToSet
<1>9. comps \in Seq(Components)
  <2>1. C \subseteq Components
    <3>1. Seq(D) \subseteq Seq(Tickets)
      BY SeqMonotonic
    <3> QED
      BY <3>1 DEF C, Comps, Components
  <2> QED
    BY <1>6, <2>1, SeqMonotonic
<1>10. \A i \in DOMAIN comps : ToSet(comps[i].tickets) \subseteq D
  <2>1. \A j \in DOMAIN left : ToSet(left[j].tickets) \subseteq D
    <3> TAKE j \in DOMAIN left
    <3>1. left[j].tickets \in Seq(D)
      BY <1>2, <1>3
    <3> QED
      BY <3>1, ToSetType
  <2> QED
    BY <1>8, <2>1
<1>11. \A i, k \in DOMAIN comps : i # k => Apart(comps[i], comps[k])
  <2>1. ASSUME NEW i \in DOMAIN comps, NEW k \in DOMAIN comps, i # k PROVE Apart(comps[i], comps[k])
    <3>1. comps[i] # comps[k]
      BY <1>6, <2>1 DEF Once
    <3> QED
      BY <1>4, <1>8, <3>1
  <2> QED
    BY <2>1
<1>12. ASSUME NEW t \in D, t \in away PROVE \E i \in DOMAIN comps : t \in ToSet(comps[i].tickets)
  <2>1. PICK j \in DOMAIN left : t \in ToSet(left[j].tickets)
    <3> HIDE DEF away
    <3> QED
      BY <1>2, <1>3, <1>12 DEF Divides
  <2>2. left[j] \in ToSet(left)
    BY DEF ToSet
  <2>3. left[j].tickets # << >>
    BY <2>1 DEF ToSet
  <2>4. left[j] \in ToSet(comps)
    BY <1>6, <2>2, <2>3 DEF N
  <2> QED
    BY <2>1, <2>4 DEF ToSet
<1> QED
  BY <1>7, <1>9, <1>10, <1>11, <1>12

\* A rearrangement.
LEMMA SwitchRearrangingKeeps ==
    ASSUME IInv, NEW s \in Switches, SwitchRearranging(s)
    PROVE  IInv'
<1>1. TypeOK /\ SlotOwned /\ Counted /\ ComponentsApart /\ VisitsIssued /\ JobsIssued
      /\ ShufflersFit /\ ParkersSleep /\ ReservationsFit
  BY DEF IInv
<1> DEFINE movedBy(layout) == {t \in Planned : layout[t] # rec[t].target}
           movesBy(layout) == [t \in movedBy(layout) |-> [from |-> rec[t].target, to |-> layout[t]]]
<1>2. PICK layout \in Layouts(s, Planned) :
        \E order \in MovementOrders(movesBy(layout)) :
          /\ reserved' = [f \in Floors |->
                reserved[f]
                  + SpaceOf({t \in movedBy(layout) : layout[t] = f})
                  - SpaceOf({t \in movedBy(layout) : rec[t].target = f})]
          /\ rec' = [t \in Tickets |->
                IF t \in movedBy(layout) THEN [rec[t] EXCEPT !.target = layout[t]]
                ELSE rec[t]]
          /\ shuffleJobCh' = Blueprint(order, layout)
          /\ shuffleWG' = Len(Blueprint(order, layout))
          /\ shuffling' = (Blueprint(order, layout) # << >>)
  BY Zenon DEF SwitchRearranging
<1> DEFINE moved == movedBy(layout)
           moves == movesBy(layout)
<1>3. PICK order \in MovementOrders(moves) :
          /\ reserved' = [f \in Floors |->
                reserved[f]
                  + SpaceOf({t \in moved : layout[t] = f})
                  - SpaceOf({t \in moved : rec[t].target = f})]
          /\ rec' = [t \in Tickets |->
                IF t \in moved THEN [rec[t] EXCEPT !.target = layout[t]]
                ELSE rec[t]]
          /\ shuffleJobCh' = Blueprint(order, layout)
          /\ shuffleWG' = Len(Blueprint(order, layout))
          /\ shuffling' = (Blueprint(order, layout) # << >>)
  BY <1>2
<1> DEFINE comps == Blueprint(order, layout)
<1>4. /\ ~shuffling /\ strategy' = s
      /\ physical' = physical /\ issued' = issued /\ parkingJobCh' = parkingJobCh
      /\ unparkJobCh' = unparkJobCh /\ slots' = slots /\ parker' = parker
      /\ unparker' = unparker /\ shuffler' = shuffler
  BY DEF SwitchRearranging
<1>5. s \in Strategies /\ Planned \in SUBSET Tickets /\ Planned \subseteq issued
  BY <1>1, ParkingAssumption DEF Planned, VisitsIssued
<1>6. /\ layout \in [Planned -> Floors]
      /\ \A f \in Floors : SpaceOf({t \in Planned : layout[t] = f}) <= Capacity
  BY <1>5, LayoutsFit
<1>7. moved \subseteq Planned /\ DOMAIN moves = moved /\ IsFiniteSet(moved)
  BY <1>5, PlanAssumption, FS_Subset
<1>8. Divides(moved, moved, order)
  <2> HIDE DEF moved, moves
  <2> QED
    BY <1>7, MovementOrdersDivide
<1>9. /\ comps \in Seq(Components)
      /\ \A i \in DOMAIN comps : ToSet(comps[i].tickets) \subseteq moved
      /\ \A i, k \in DOMAIN comps : i # k => Apart(comps[i], comps[k])
  <2> HIDE DEF moved, moves
  <2>1. moved \in SUBSET Tickets
    BY <1>5, <1>7
  <2> QED
    BY <1>8, <2>1, BlueprintResult
<1>10. shuffleJobCh = << >> /\ \A r \in Shufflers : shuffler[r] = IdleShuffler
  BY <1>1, <1>4, NobodyBusy DEF Counted
<1>11. \A t \in moved : [rec[t] EXCEPT !.target = layout[t]] \in Records
  BY <1>1, <1>5, <1>6 DEF TypeOK, Records
<1>12. \A t \in Tickets :
          /\ rec'[t] \in Records /\ rec'[t].present = rec[t].present /\ rec'[t].unpark = rec[t].unpark
          /\ rec'[t].slot = rec[t].slot
          /\ rec'[t].target = IF t \in moved THEN layout[t] ELSE rec[t].target
  <2> TAKE t \in Tickets
  <2>1. rec[t] \in Records
    BY <1>1 DEF TypeOK
  <2>2. CASE t \in moved
    <3>1. rec'[t] = [rec[t] EXCEPT !.target = layout[t]]
      BY <1>3, <2>2
    <3> HIDE DEF moved
    <3> QED
      BY <1>11, <2>1, <2>2, <3>1 DEF Records
  <2>3. CASE t \notin moved
    <3>1. rec'[t] = rec[t]
      BY <1>3, <2>3
    <3> QED
      BY <2>1, <2>3, <3>1
  <2> QED
    BY <2>2, <2>3
<1>13. rec' \in [Tickets -> Records]
  <2> HIDE DEF moved
  <2> QED
    BY <1>3, <1>12
<1>14. ASSUME NEW f \in Floors
       PROVE  /\ reserved'[f] = SpaceOf(PromisedTo(f)') /\ reserved'[f] <= Capacity
              /\ reserved'[f] \in Nat
  <2> DEFINE P == PromisedTo(f)
             L == {t \in moved : layout[t] = f}
             M == {t \in moved : rec[t].target = f}
             K == P \ M
  <2>1. reserved'[f] = reserved[f] + SpaceOf(L) - SpaceOf(M)
    BY <1>3
  <2>2. PromisedTo(f)' = {t \in Planned : layout[t] = f}
    <3>1. \A t \in Planned : t \notin moved => layout[t] = rec[t].target
      OBVIOUS
    <3>2. PromisedTo(f)' = {t \in Tickets : rec'[t].present /\ ~rec'[t].unpark /\ rec'[t].target = f}
      BY DEF PromisedTo
    <3> HIDE DEF moved
    <3> QED
      BY <1>7, <1>12, <3>1, <3>2 DEF Planned
  <2>3. /\ P \in SUBSET Tickets /\ M \subseteq P /\ K \cup M = P /\ K \cap M = {}
        /\ K \cap L = {} /\ K \cup L = PromisedTo(f)' /\ L \in SUBSET Tickets
    <3>1. M \subseteq P
      BY <1>5, <1>7 DEF PromisedTo, Planned
    <3>2. \A t \in Planned : t \notin moved => layout[t] = rec[t].target
      OBVIOUS
    <3>3. K \cup L = PromisedTo(f)'
      <4>1. \A t \in Planned : t \in K <=> t \notin moved /\ layout[t] = f
        <5>1. \A t \in Planned : t \in moved => layout[t] # rec[t].target
          OBVIOUS
        <5> HIDE DEF moved
        <5> QED
          BY <1>5, <1>7, <3>2, <5>1 DEF PromisedTo, Planned
      <4>2. K \subseteq Planned
        BY DEF PromisedTo, Planned
      <4> HIDE DEF moved, K
      <4> QED
        BY <1>7, <2>2, <4>1, <4>2
    <3>4. K \cap L = {}
      <4>1. ASSUME NEW t \in L PROVE t \notin K
        <5>1. t \in moved /\ t \in Planned
          BY <1>7
        <5>2. layout[t] # rec[t].target
          BY <5>1
        <5> QED
          BY <5>1, <5>2 DEF PromisedTo
      <4> QED
        BY <4>1
    <3> QED
      BY <1>5, <1>7, <3>1, <3>3, <3>4 DEF PromisedTo
  <2>4. reserved[f] = SpaceOf(P)
    BY <1>1 DEF ReservationsFit
  <2> HIDE DEF P, K, L, M
  <2>5. K \in SUBSET Tickets /\ M \in SUBSET Tickets
    BY <2>3
  <2>6. SpaceOf(P) = SpaceOf(K) + SpaceOf(M) /\ SpaceOf(PromisedTo(f)') = SpaceOf(K) + SpaceOf(L)
    <3>1. SpaceOf(K \cup M) = SpaceOf(K) + SpaceOf(M)
      BY <2>3, <2>5, SpaceOfUnion
    <3>2. SpaceOf(K \cup L) = SpaceOf(K) + SpaceOf(L)
      BY <2>3, <2>5, SpaceOfUnion
    <3> QED
      BY <2>3, <3>1, <3>2
  <2>7. SpaceOf(K) \in Nat /\ SpaceOf(L) \in Nat /\ SpaceOf(M) \in Nat
    BY <2>3, <2>5, SpaceOfType
  <2>8. SpaceOf(PromisedTo(f)') <= Capacity
    BY <1>6, <2>2
  <2> QED
    BY <2>1, <2>4, <2>6, <2>7, <2>8
<1>15. ReservationsFit' /\ reserved' \in [Floors -> Nat]
  <2>1. reserved' = [f \in Floors |-> reserved'[f]]
    BY <1>3
  <2> QED
    BY <1>14, <2>1 DEF ReservationsFit
<1> HIDE DEF moved, moves, comps
<1>16. shuffleJobCh' = comps /\ shuffleWG' = Len(comps) /\ shuffling' = (comps # << >>)
  BY <1>3 DEF comps
<1>17. TypeOK'
  <2>1. Len(comps) \in Nat
    BY <1>9
  <2> QED
    BY <1>1, <1>4, <1>5, <1>9, <1>13, <1>15, <1>16, <2>1 DEF TypeOK
<1>18. VisitsIssued'
  <2>1. \A t \in moved : layout[t] \in Floors
    BY <1>6, <1>7
  <2> QED
    BY <1>1, <1>4, <1>12, <2>1 DEF VisitsIssued, TypeOK
<1>19. JobsIssued'
  <2>1. \A i \in DOMAIN comps : ToSet(comps[i].tickets) \subseteq issued
    BY <1>5, <1>7, <1>9
  <2>2. \A r \in Unparkers : unparker[r].pc # "idle" =>
          /\ unparker[r].ticket \in issued
          /\ unparker[r].pc = "moving" => rec'[unparker[r].ticket].unpark
    BY <1>1, <1>12 DEF JobsIssued, TypeOK
  <2> QED
    BY <1>1, <1>4, <1>16, <2>1, <2>2 DEF JobsIssued
<1>20. ShufflersFit'
  BY <1>4, <1>10, IdleFits DEF ShufflersFit
<1>21. ParkersSleep'
  BY <1>1, <1>4 DEF ParkersSleep
<1>22. ComponentsApart'
  <2>1. \A r \in Shufflers : ToSet(shuffler'[r].tickets) = {}
    BY <1>4, <1>10, IdleFits, Nothing
  <2>2. \A i, k \in DOMAIN shuffleJobCh' : i # k => Apart(shuffleJobCh'[i], shuffleJobCh'[k])
    BY <1>9, <1>16
  <2> QED
    BY <2>1, <2>2 DEF ComponentsApart, Apart
<1>23. Counted'
  <2>1. Busy(shuffler') = {}
    BY <1>4, <1>10, IdleFits DEF Busy
  <2>2. Cardinality(Busy(shuffler')) = 0 /\ Len(comps) \in Nat
    BY <1>9, <2>1, FS_EmptySet
  <2>3. ~shuffling' => Len(comps) = 0
    <3>1. ~shuffling' => comps = << >>
      BY <1>16
    <3> QED
      BY <3>1
  <2>4. shuffleWG' = Len(shuffleJobCh') + Cardinality(Busy(shuffler'))
    BY <1>16, <2>2
  <2> QED
    BY <1>16, <2>3, <2>4 DEF Counted
<1>24. ShufflersSteady
  BY <1>4 DEF ShufflersSteady, Steady
<1>25. SlotOwned'
  BY <1>1, <1>4, <1>12, <1>24, SlotsKept
<1> QED
  BY <1>15, <1>17, <1>18, <1>19, <1>20, <1>21, <1>22, <1>23, <1>25 DEF IInv

-----------------------------------------------------------------------------
(* Parking and unparking robots *)

\* A step of these robots as the shuffling robots and the slots see it.
LEMMA RestKept ==
    ASSUME IInv, TypeOK', JobsIssued', ParkersSleep', KeepsPromises,
           UNCHANGED <<shuffleJobCh, shuffleWG, shuffling, slots>>,
           \A q \in Shufflers : Stirred(shuffler[q], shuffler'[q]),
           \A t \in Tickets : rec'[t].present /\ rec'[t].slot # NoSlot
                                  => rec[t].present /\ rec[t].slot = rec'[t].slot,
           \A q \in Shufflers : shuffler'[q].pc = "onFloor" =>
               \/ physical'[shuffler'[q].floor] = physical[shuffler'[q].floor]
               \/ physical'[shuffler'[q].floor] >= physical[shuffler'[q].floor],
           \A q \in Shufflers : shuffler'[q].pc = "onWake" =>
               \A t \in ToSet(shuffler'[q].tickets) : Late(rec[t]) => Late(rec'[t])
    PROVE  IInv'
<1>1. TypeOK /\ SlotOwned /\ Counted /\ ComponentsApart /\ VisitsIssued /\ JobsIssued
      /\ ShufflersFit /\ ParkersSleep /\ ReservationsFit
  BY DEF IInv
<1>2. ReservationsFit' /\ VisitsIssued'
  BY <1>1, PromisesKept
<1>3. ShufflersFit'
  <2> SUFFICES ASSUME NEW q \in Shufflers
               PROVE  Fits(issued', rec', physical', FreeSlots', shuffler'[q])
    BY DEF ShufflersFit
  <2>1. FreeSlots' \subseteq FreeSlots
    BY DEF FreeSlots
  <2>2. physical' \in [Floors -> Int] /\ issued \subseteq issued'
    BY DEF TypeOK, KeepsPromises
  <2>3. Stirred(shuffler[q], shuffler'[q])
    OBVIOUS
  <2>4. \A t \in Tickets : rec'[t].present /\ rec'[t].slot = shuffler[q].slot /\ shuffler[q].slot # NoSlot
                              => rec[t].present /\ rec[t].slot = shuffler[q].slot
    OBVIOUS
  <2> QED
    BY <1>1, <2>1, <2>2, <2>3, <2>4, OthersFit
<1>4. ShufflersSteady
  <2> SUFFICES ASSUME NEW q \in Shufflers PROVE Steady(shuffler[q], shuffler'[q])
    BY DEF ShufflersSteady
  <2>1. shuffler[q] \in ShufflerStates
    BY <1>1 DEF TypeOK
  <2> QED
    BY <2>1, StirredSteady
<1>5. ComponentsApart' /\ Counted'
  BY <1>1, <1>4, ShuffleKept
<1>6. SlotOwned'
  BY <1>1, <1>4, SlotsKept
<1> QED
  BY <1>2, <1>3, <1>5, <1>6 DEF IInv

ParkerStates == Robots({"idle", "claim", "asleep", "moving", "send"})

\* The states that the robots come to.
LEMMA RobotStates ==
    /\ IdleRobot \in ParkerStates /\ IdleRobot.pc = "idle"
    /\ IdleRobot \in Robots({"idle", "look", "moving"})
    /\ \A s \in ParkerStates : \A p \in {"claim", "asleep", "moving", "send"} :
          /\ [s EXCEPT !.pc = p] \in ParkerStates
          /\ [s EXCEPT !.pc = p].pc = p
          /\ [s EXCEPT !.pc = p].ticket = s.ticket
          /\ [s EXCEPT !.pc = p].floor = s.floor
BY DEF IdleRobot, ParkerStates, Robots

\* A parking robot takes a job.
LEMMA ParkerTakeKeeps ==
    ASSUME IInv, NEW r \in Parkers, ParkerTake(r)
    PROVE  IInv'
<1> DEFINE job == Head(parkingJobCh)
           z == [pc |-> "claim", ticket |-> job.ticket, floor |-> job.floor]
           J == [ticket : Tickets, floor : Floors]
<1>1. TypeOK /\ JobsIssued /\ ParkersSleep
  BY DEF IInv
<1>2. /\ parkingJobCh # << >> /\ parker' = [parker EXCEPT ![r] = z]
      /\ parkingJobCh' = Tail(parkingJobCh)
      /\ physical' = physical /\ issued' = issued /\ strategy' = strategy /\ shuffling' = shuffling
      /\ rec' = rec /\ reserved' = reserved /\ shuffleWG' = shuffleWG /\ unparkJobCh' = unparkJobCh
      /\ shuffleJobCh' = shuffleJobCh /\ slots' = slots /\ unparker' = unparker /\ shuffler' = shuffler
  BY DEF ParkerTake, deskVars
<1>3. parkingJobCh \in Seq(J) /\ Len(parkingJobCh) <= ParkCap /\ ParkCap \in Nat
  BY <1>1, ParkingAssumption DEF TypeOK
<1> HIDE DEF J
<1>4. /\ job \in J /\ job = parkingJobCh[1] /\ 1 \in DOMAIN parkingJobCh
      /\ Tail(parkingJobCh) \in Seq(J) /\ Len(Tail(parkingJobCh)) = Len(parkingJobCh) - 1
      /\ Len(parkingJobCh) \in Nat
      /\ \A i \in DOMAIN Tail(parkingJobCh) : /\ i \in Nat /\ i + 1 \in DOMAIN parkingJobCh
                                              /\ Tail(parkingJobCh)[i] = parkingJobCh[i + 1]
  BY <1>2, <1>3, Taken
<1>5. job.ticket \in issued /\ job.ticket \in Tickets /\ job.floor \in Floors
  BY <1>1, <1>4 DEF JobsIssued, J
<1> HIDE DEF job
<1>6. z \in ParkerStates /\ z.pc = "claim" /\ z.ticket = job.ticket /\ z.floor = job.floor
  BY <1>5 DEF ParkerStates, Robots
<1> HIDE DEF z
<1>7. parker \in [Parkers -> ParkerStates] /\ parker' \in [Parkers -> ParkerStates]
  BY <1>1, <1>2, <1>6 DEF TypeOK, ParkerStates
<1>8. \A q \in Parkers : parker'[q] = IF q = r THEN z ELSE parker[q]
  BY <1>2, <1>7
<1>9. TypeOK'
  <2>1. Len(parkingJobCh') <= ParkCap
    BY <1>2, <1>3, <1>4
  <2> QED
    BY <1>1, <1>2, <1>4, <1>7, <2>1 DEF TypeOK, ParkerStates, J
<1>10. JobsIssued'
  <2>1. \A q \in Parkers : parker'[q].pc # "idle" =>
            parker'[q].ticket \in issued /\ parker'[q].floor \in Floors
    BY <1>1, <1>5, <1>6, <1>8 DEF JobsIssued
  <2>2. \A i \in DOMAIN parkingJobCh' : parkingJobCh'[i].ticket \in issued
    BY <1>1, <1>2, <1>4 DEF JobsIssued
  <2> QED
    BY <1>1, <1>2, <2>1, <2>2 DEF JobsIssued
<1>11. ParkersSleep'
  BY <1>1, <1>2, <1>6, <1>8 DEF ParkersSleep
<1> QED
  BY <1>2, <1>9, <1>10, <1>11, RestKept DEF KeepsPromises, Stirred

\* It claims the space on the floor of its job.
LEMMA ParkerClaimKeeps ==
    ASSUME IInv, NEW r \in Parkers, ParkerClaim(r)
    PROVE  IInv'
<1> DEFINE z == [parker[r] EXCEPT !.pc = "moving"]
           g == parker[r].floor
           t == parker[r].ticket
<1>1. TypeOK /\ JobsIssued /\ ParkersSleep
  BY DEF IInv
<1>2. /\ parker[r].pc = "claim"
      /\ physical' = [physical EXCEPT ![g] = @ + Space(t)]
      /\ parkingJobCh' = parkingJobCh
      /\ issued' = issued /\ strategy' = strategy /\ shuffling' = shuffling
      /\ rec' = rec /\ reserved' = reserved /\ shuffleWG' = shuffleWG /\ unparkJobCh' = unparkJobCh
      /\ shuffleJobCh' = shuffleJobCh /\ slots' = slots /\ unparker' = unparker /\ shuffler' = shuffler
  BY DEF ParkerClaim, deskVars
<1>3. parker' = [parker EXCEPT ![r] = z]
  BY DEF ParkerClaim
<1>4. parker \in [Parkers -> ParkerStates] /\ physical \in [Floors -> Int]
  BY <1>1 DEF TypeOK, ParkerStates
<1>5. g \in Floors /\ t \in issued /\ t \in Tickets
  BY <1>1, <1>2 DEF JobsIssued, TypeOK
<1>6. z \in ParkerStates /\ z.pc = "moving" /\ z.ticket = t /\ z.floor = g
  BY <1>4, RobotStates
<1> HIDE DEF z, g, t
<1>7. /\ parker' \in [Parkers -> ParkerStates]
      /\ \A q \in Parkers : parker'[q] = IF q = r THEN z ELSE parker[q]
  BY <1>3, <1>4, <1>6
<1>8. /\ physical' \in [Floors -> Int]
      /\ \A f \in Floors : physical'[f] >= physical[f]
  <2>1. Space(t) \in Nat /\ physical[g] \in Int
    BY <1>4, <1>5, SpaceType
  <2>2. physical[g] + Space(t) \in Int /\ physical[g] + Space(t) >= physical[g]
    BY <2>1
  <2>3. \A f \in Floors : physical'[f] = IF f = g THEN physical[g] + Space(t) ELSE physical[f]
    BY <1>2, <1>4
  <2>4. \A f \in Floors : physical[f] \in Int
    BY <1>4
  <2>5. \A f \in Floors : physical'[f] \in Int /\ physical'[f] >= physical[f]
    BY <2>2, <2>3, <2>4
  <2>6. physical' \in [Floors -> Int]
    BY <1>2, <1>4, <2>2
  <2> QED
    BY <2>5, <2>6
<1>9. TypeOK'
  BY <1>1, <1>2, <1>7, <1>8 DEF TypeOK, ParkerStates
<1>10. JobsIssued'
  BY <1>1, <1>2, <1>5, <1>6, <1>7 DEF JobsIssued
<1>11. ParkersSleep'
  <2> SUFFICES ASSUME NEW q \in Parkers, parker'[q].pc = "asleep"
               PROVE  ~(Capacity - physical'[parker'[q].floor] >= Space(parker'[q].ticket))
    BY DEF ParkersSleep
  <2>1. q # r /\ parker'[q] = parker[q]
    BY <1>6, <1>7
  <2>2. parker[q].floor \in Floors /\ parker[q].ticket \in Tickets
    BY <1>1, <2>1 DEF JobsIssued, TypeOK
  <2>3. ~(Capacity - physical[parker[q].floor] >= Space(parker[q].ticket))
    BY <1>1, <2>1 DEF ParkersSleep
  <2>4. /\ Space(parker[q].ticket) \in Nat /\ Capacity \in Nat
        /\ physical[parker[q].floor] \in Int /\ physical'[parker[q].floor] \in Int
        /\ physical'[parker[q].floor] >= physical[parker[q].floor]
    BY <1>4, <1>8, <2>2, SpaceType, PlanAssumption
  <2> QED
    BY <2>1, <2>3, <2>4
<1>12. \A q \in Shufflers : shuffler'[q].pc = "onFloor" =>
               \/ physical'[shuffler'[q].floor] = physical[shuffler'[q].floor]
               \/ physical'[shuffler'[q].floor] >= physical[shuffler'[q].floor]
  BY <1>1, <1>2, <1>8 DEF IInv, ShufflersFit, Fits, Issues
<1> QED
  BY <1>2, <1>9, <1>10, <1>11, <1>12, RestKept DEF KeepsPromises, Stirred

\* It waits for the floor.
LEMMA ParkerSleepKeeps ==
    ASSUME IInv, NEW r \in Parkers, ParkerSleep(r)
    PROVE  IInv'
<1> DEFINE z == [parker[r] EXCEPT !.pc = "asleep"]
<1>1. TypeOK /\ JobsIssued /\ ParkersSleep
  BY DEF IInv
<1>2. /\ parker[r].pc = "claim" /\ ~HasRoom(parker[r].floor, parker[r].ticket)
      /\ physical' = physical /\ parkingJobCh' = parkingJobCh
      /\ issued' = issued /\ strategy' = strategy /\ shuffling' = shuffling
      /\ rec' = rec /\ reserved' = reserved /\ shuffleWG' = shuffleWG /\ unparkJobCh' = unparkJobCh
      /\ shuffleJobCh' = shuffleJobCh /\ slots' = slots /\ unparker' = unparker /\ shuffler' = shuffler
  BY DEF ParkerSleep, deskVars
<1>3. parker' = [parker EXCEPT ![r] = z]
  BY DEF ParkerSleep
<1>4. parker \in [Parkers -> ParkerStates]
  BY <1>1 DEF TypeOK, ParkerStates
<1>6. z \in ParkerStates /\ z.pc = "asleep" /\ z.ticket = parker[r].ticket /\ z.floor = parker[r].floor
  BY <1>4, RobotStates
<1> HIDE DEF z
<1>7. /\ parker' \in [Parkers -> ParkerStates]
      /\ \A q \in Parkers : parker'[q] = IF q = r THEN z ELSE parker[q]
  BY <1>3, <1>4, <1>6
<1>9. TypeOK'
  BY <1>1, <1>2, <1>7 DEF TypeOK, ParkerStates
<1>10. JobsIssued'
  BY <1>1, <1>2, <1>6, <1>7 DEF JobsIssued
<1>11. ParkersSleep'
  BY <1>1, <1>2, <1>6, <1>7 DEF ParkersSleep, HasRoom
<1> QED
  BY <1>2, <1>9, <1>10, <1>11, RestKept DEF KeepsPromises, Stirred

\* The vehicle has arrived, and the components that wait for one hear of it.
LEMMA ParkerStoreKeeps ==
    ASSUME IInv, NEW r \in Parkers, ParkerStore(r)
    PROVE  IInv'
<1> DEFINE t == parker[r].ticket
           g == parker[r].floor
           e == [rec[t] EXCEPT !.floor = g, !.slot = NoSlot, !.status = "PARKED"]
           z == IF rec[t].present /\ rec[t].unpark THEN [parker[r] EXCEPT !.pc = "send"]
                ELSE IdleRobot
<1>1. TypeOK /\ JobsIssued /\ ParkersSleep
  BY DEF IInv
<1>2. /\ parker[r].pc = "moving"
      /\ physical' = physical /\ parkingJobCh' = parkingJobCh
      /\ issued' = issued /\ strategy' = strategy /\ shuffling' = shuffling
      /\ reserved' = reserved /\ shuffleWG' = shuffleWG /\ unparkJobCh' = unparkJobCh
      /\ shuffleJobCh' = shuffleJobCh /\ slots' = slots /\ unparker' = unparker
      /\ parker' = [parker EXCEPT ![r] = z]
  BY DEF ParkerStore, deskVars
<1>3. \/ rec[t].present /\ rec' = [rec EXCEPT ![t] = e] /\ shuffler' = WakeReady(shuffler)
      \/ rec' = rec /\ shuffler' = shuffler
  BY DEF ParkerStore
<1>4. parker \in [Parkers -> ParkerStates] /\ shuffler \in [Shufflers -> ShufflerStates]
      /\ rec \in [Tickets -> Records]
  BY <1>1 DEF TypeOK, ParkerStates
<1>5. g \in Floors /\ t \in issued /\ t \in Tickets
  BY <1>1, <1>2 DEF JobsIssued, TypeOK
<1>6. /\ e \in Records /\ e.present = rec[t].present /\ e.unpark = rec[t].unpark
      /\ e.target = rec[t].target /\ e.slot = NoSlot
  BY <1>4, <1>5 DEF Records
<1>7. z \in ParkerStates /\ z.pc \in {"send", "idle"} /\ (z.pc # "idle" => z.ticket = t /\ z.floor = g)
  BY <1>4, RobotStates
<1> HIDE DEF z, g, t, e
<1>8. /\ parker' \in [Parkers -> ParkerStates]
      /\ \A q \in Parkers : parker'[q] = IF q = r THEN z ELSE parker[q]
  BY <1>2, <1>4, <1>7
<1>9. JobsIssued' /\ ParkersSleep' /\ rec' \in [Tickets -> Records] /\ KeepsPromises
  <2>1. /\ rec' \in [Tickets -> Records]
        /\ \A u \in Tickets : /\ rec'[u].present = rec[u].present /\ rec'[u].unpark = rec[u].unpark
                              /\ rec'[u].target = rec[u].target
    BY <1>3, <1>4, <1>6
  <2>2. \A q \in Unparkers : unparker[q].pc # "idle" =>
          /\ unparker[q].ticket \in issued
          /\ unparker[q].pc = "moving" => rec'[unparker[q].ticket].unpark
    BY <1>1, <2>1 DEF JobsIssued, TypeOK
  <2>3. \A q \in Parkers : parker'[q].pc # "idle" =>
            parker'[q].ticket \in issued /\ parker'[q].floor \in Floors
    BY <1>1, <1>5, <1>7, <1>8 DEF JobsIssued
  <2>4. JobsIssued'
    BY <1>1, <1>2, <2>2, <2>3 DEF JobsIssued
  <2>5. ParkersSleep'
    BY <1>1, <1>2, <1>7, <1>8 DEF ParkersSleep
  <2> QED
    BY <1>2, <2>1, <2>4, <2>5 DEF KeepsPromises
<1>10. CASE rec' = rec /\ shuffler' = shuffler
  <2>1. TypeOK'
    BY <1>1, <1>2, <1>8, <1>10 DEF TypeOK, ParkerStates
  <2> QED
    BY <1>2, <1>9, <1>10, <2>1, RestKept DEF Stirred
<1>11. CASE rec' = [rec EXCEPT ![t] = e] /\ shuffler' = WakeReady(shuffler)
  <2>1. /\ shuffler' \in [Shufflers -> ShufflerStates]
        /\ \A q \in Shufflers : Stirred(shuffler[q], shuffler'[q]) /\ shuffler'[q].pc # "onWake"
    BY <1>4, <1>11, Broadcasts
  <2>2. TypeOK'
    BY <1>1, <1>2, <1>8, <1>9, <2>1 DEF TypeOK, ParkerStates
  <2>3. \A u \in Tickets : rec'[u].present /\ rec'[u].slot # NoSlot
                                  => rec[u].present /\ rec[u].slot = rec'[u].slot
    BY <1>4, <1>6, <1>11
  <2> QED
    BY <1>2, <1>9, <2>1, <2>2, <2>3, RestKept
<1> QED
  BY <1>3, <1>10, <1>11

\* It passes on a vehicle that was asked back on the way.
LEMMA ParkerSendKeeps ==
    ASSUME IInv, NEW r \in Parkers, ParkerSend(r)
    PROVE  IInv'
<1>1. TypeOK /\ JobsIssued /\ ParkersSleep
  BY DEF IInv
<1>2. /\ parker[r].pc = "send" /\ Len(unparkJobCh) < UnparkCap
      /\ unparkJobCh' = Append(unparkJobCh, parker[r].ticket)
      /\ parker' = [parker EXCEPT ![r] = IdleRobot]
      /\ physical' = physical /\ parkingJobCh' = parkingJobCh
      /\ issued' = issued /\ strategy' = strategy /\ shuffling' = shuffling
      /\ rec' = rec /\ reserved' = reserved /\ shuffleWG' = shuffleWG
      /\ shuffleJobCh' = shuffleJobCh /\ slots' = slots /\ unparker' = unparker /\ shuffler' = shuffler
  BY DEF ParkerSend, deskVars
<1>3. parker[r].ticket \in issued
  BY <1>1, <1>2 DEF JobsIssued
<1>4. /\ unparkJobCh' \in Seq(Tickets) /\ Len(unparkJobCh') <= UnparkCap
      /\ \A i \in DOMAIN unparkJobCh' : unparkJobCh'[i] \in issued
  BY <1>1, <1>2, <1>3, Sent
<1>5. parker \in [Parkers -> ParkerStates]
  BY <1>1 DEF TypeOK, ParkerStates
<1>6. /\ parker' \in [Parkers -> ParkerStates]
      /\ \A q \in Parkers : parker'[q] = IF q = r THEN IdleRobot ELSE parker[q]
  BY <1>2, <1>5, RobotStates
<1>7. TypeOK'
  BY <1>1, <1>2, <1>4, <1>6 DEF TypeOK, ParkerStates
<1>8. JobsIssued'
  BY <1>1, <1>2, <1>4, <1>6, RobotStates DEF JobsIssued
<1>9. ParkersSleep'
  BY <1>1, <1>2, <1>6, RobotStates DEF ParkersSleep
<1> QED
  BY <1>2, <1>7, <1>8, <1>9, RestKept DEF KeepsPromises, Stirred

\* An unparking robot takes a job.
LEMMA UnparkerTakeKeeps ==
    ASSUME IInv, NEW r \in Unparkers, UnparkerTake(r)
    PROVE  IInv'
<1> DEFINE job == Head(unparkJobCh)
           z == [IdleRobot EXCEPT !.pc = "look", !.ticket = job]
           P == Robots({"idle", "look", "moving"})
<1>1. TypeOK /\ JobsIssued /\ ParkersSleep
  BY DEF IInv
<1>2. /\ unparkJobCh # << >> /\ unparker' = [unparker EXCEPT ![r] = z]
      /\ unparkJobCh' = Tail(unparkJobCh)
      /\ physical' = physical /\ issued' = issued /\ strategy' = strategy /\ shuffling' = shuffling
      /\ rec' = rec /\ reserved' = reserved /\ shuffleWG' = shuffleWG /\ parkingJobCh' = parkingJobCh
      /\ shuffleJobCh' = shuffleJobCh /\ slots' = slots /\ parker' = parker /\ shuffler' = shuffler
  BY DEF UnparkerTake, deskVars
<1>3. unparkJobCh \in Seq(Tickets) /\ Len(unparkJobCh) <= UnparkCap /\ UnparkCap \in Nat
  BY <1>1, ParkingAssumption DEF TypeOK
<1>4. /\ job \in Tickets /\ job = unparkJobCh[1] /\ 1 \in DOMAIN unparkJobCh
      /\ Tail(unparkJobCh) \in Seq(Tickets) /\ Len(Tail(unparkJobCh)) = Len(unparkJobCh) - 1
      /\ Len(unparkJobCh) \in Nat
      /\ \A i \in DOMAIN Tail(unparkJobCh) : /\ i \in Nat /\ i + 1 \in DOMAIN unparkJobCh
                                             /\ Tail(unparkJobCh)[i] = unparkJobCh[i + 1]
  BY <1>2, <1>3, Taken
<1>5. job \in issued
  BY <1>1, <1>4 DEF JobsIssued
<1> HIDE DEF job
<1>6. z \in P /\ z.pc = "look" /\ z.ticket = job
  BY <1>4 DEF Robots, IdleRobot
<1> HIDE DEF z, P
<1>7. unparker \in [Unparkers -> P] /\ unparker' \in [Unparkers -> P]
  BY <1>1, <1>2, <1>6 DEF TypeOK, P
<1>8. \A q \in Unparkers : unparker'[q] = IF q = r THEN z ELSE unparker[q]
  BY <1>2, <1>7
<1>9. TypeOK'
  <2>1. Len(unparkJobCh') <= UnparkCap
    BY <1>2, <1>3, <1>4
  <2> QED
    BY <1>1, <1>2, <1>4, <1>7, <2>1 DEF TypeOK, P
<1>10. JobsIssued'
  <2>1. \A q \in Unparkers : unparker'[q].pc # "idle" =>
          /\ unparker'[q].ticket \in issued
          /\ unparker'[q].pc = "moving" => rec[unparker'[q].ticket].unpark
    BY <1>1, <1>5, <1>6, <1>8 DEF JobsIssued
  <2>2. \A i \in DOMAIN unparkJobCh' : unparkJobCh'[i] \in issued
    BY <1>1, <1>2, <1>4 DEF JobsIssued
  <2> QED
    BY <1>1, <1>2, <2>1, <2>2 DEF JobsIssued
<1>11. ParkersSleep'
  BY <1>1, <1>2 DEF ParkersSleep
<1> QED
  BY <1>2, <1>9, <1>10, <1>11, RestKept DEF KeepsPromises, Stirred

\* It reads where the vehicle is.
LEMMA UnparkerLookKeeps ==
    ASSUME IInv, NEW r \in Unparkers, UnparkerLook(r)
    PROVE  IInv'
<1> DEFINE t == unparker[r].ticket
           z == IF rec[t].present /\ rec[t].unpark
                THEN [unparker[r] EXCEPT !.pc = "moving", !.floor = rec[t].floor]
                ELSE IdleRobot
           P == Robots({"idle", "look", "moving"})
<1>1. TypeOK /\ JobsIssued /\ ParkersSleep
  BY DEF IInv
<1>2. /\ unparker[r].pc = "look"
      /\ unparker' = [unparker EXCEPT ![r] = z]
      /\ unparkJobCh' = unparkJobCh
      /\ physical' = physical /\ issued' = issued /\ strategy' = strategy /\ shuffling' = shuffling
      /\ rec' = rec /\ reserved' = reserved /\ shuffleWG' = shuffleWG /\ parkingJobCh' = parkingJobCh
      /\ shuffleJobCh' = shuffleJobCh /\ slots' = slots /\ parker' = parker /\ shuffler' = shuffler
  BY DEF UnparkerLook, deskVars
<1>3. t \in issued /\ t \in Tickets
  BY <1>1, <1>2 DEF JobsIssued, TypeOK
<1>4. rec[t].floor \in Floors \cup {NoFloor} /\ unparker[r] \in P
  BY <1>1, <1>3 DEF TypeOK, Records
<1>6. z \in P /\ (z.pc # "idle" => z.ticket = t /\ rec[t].unpark)
  BY <1>4, RobotStates DEF Robots
<1> HIDE DEF z, P, t
<1>7. unparker \in [Unparkers -> P] /\ unparker' \in [Unparkers -> P]
  BY <1>1, <1>2, <1>6 DEF TypeOK, P
<1>8. \A q \in Unparkers : unparker'[q] = IF q = r THEN z ELSE unparker[q]
  BY <1>2, <1>7
<1>9. TypeOK'
  BY <1>1, <1>2, <1>7 DEF TypeOK, P
<1>10. JobsIssued'
  <2>1. \A q \in Unparkers : unparker'[q].pc # "idle" =>
          /\ unparker'[q].ticket \in issued
          /\ unparker'[q].pc = "moving" => rec[unparker'[q].ticket].unpark
    BY <1>1, <1>3, <1>6, <1>8 DEF JobsIssued
  <2> QED
    BY <1>1, <1>2, <2>1 DEF JobsIssued
<1>11. ParkersSleep'
  BY <1>1, <1>2 DEF ParkersSleep
<1> QED
  BY <1>2, <1>9, <1>10, <1>11, RestKept DEF KeepsPromises, Stirred

\* The vehicle leaves, and who waits for its floor hears of it.
LEMMA UnparkerFinishKeeps ==
    ASSUME IInv, NEW r \in Unparkers, UnparkerFinish(r)
    PROVE  IInv'
<1> DEFINE t == unparker[r].ticket
           f == unparker[r].floor
           e == [rec[t] EXCEPT !.floor = NoFloor, !.present = FALSE]
           P == Robots({"idle", "look", "moving"})
<1>1. TypeOK /\ JobsIssued /\ ParkersSleep
  BY DEF IInv
<1>2. /\ unparker[r].pc = "moving" /\ rec' = [rec EXCEPT ![t] = e]
      /\ unparker' = [unparker EXCEPT ![r] = IdleRobot]
      /\ unparkJobCh' = unparkJobCh
      /\ issued' = issued /\ strategy' = strategy /\ shuffling' = shuffling
      /\ reserved' = reserved /\ shuffleWG' = shuffleWG /\ parkingJobCh' = parkingJobCh
      /\ shuffleJobCh' = shuffleJobCh /\ slots' = slots
  BY DEF UnparkerFinish, deskVars
<1>3. \/ /\ f # NoFloor
         /\ physical' = [physical EXCEPT ![f] = @ - Space(t)]
         /\ parker' = WakeParkers(f, parker)
         /\ shuffler' = WakeShufflers(f, shuffler)
      \/ physical' = physical /\ parker' = parker /\ shuffler' = shuffler
  BY DEF UnparkerFinish
<1>4. unparker \in [Unparkers -> P] /\ shuffler \in [Shufflers -> ShufflerStates]
      /\ rec \in [Tickets -> Records] /\ physical \in [Floors -> Int]
  BY <1>1 DEF TypeOK
<1>5. t \in issued /\ t \in Tickets /\ rec[t].unpark
  BY <1>1, <1>2 DEF JobsIssued, TypeOK
<1>6. f \in Floors \cup {NoFloor}
  BY <1>4 DEF Robots
<1>7. e \in Records /\ ~e.present /\ e.unpark = rec[t].unpark /\ e.target = rec[t].target
  <2>1. rec[t] \in Records
    BY <1>4, <1>5
  <2>2. e \in Records
    BY <2>1 DEF Records
  <2>3. e.present = FALSE /\ e.unpark = rec[t].unpark /\ e.target = rec[t].target
    BY <2>1 DEF Records
  <2> QED
    BY <2>2, <2>3
<1> HIDE DEF t, f, e, P
<1>8. /\ unparker' \in [Unparkers -> P]
      /\ \A q \in Unparkers : unparker'[q] = IF q = r THEN IdleRobot ELSE unparker[q]
  BY <1>2, <1>4, RobotStates DEF P
<1>9. \A u \in Tickets : rec'[u] = IF u = t THEN e ELSE rec[u]
  BY <1>2, <1>4
<1>10. KeepsPromises /\ rec' \in [Tickets -> Records]
  <2>1. rec' \in [Tickets -> Records]
    BY <1>2, <1>4, <1>7
  <2> QED
    BY <1>2, <1>5, <1>7, <1>9, <2>1 DEF KeepsPromises
<1>11. \A u \in Tickets : rec'[u].present /\ rec'[u].slot # NoSlot
                                  => rec[u].present /\ rec[u].slot = rec'[u].slot
  BY <1>7, <1>9
<1>12. \A u \in Tickets : Late(rec[u]) => Late(rec'[u])
  BY <1>5, <1>9 DEF Late
<1>13. \A q \in Unparkers : unparker'[q].pc # "idle" =>
          /\ unparker'[q].ticket \in issued
          /\ unparker'[q].pc = "moving" => rec'[unparker'[q].ticket].unpark
  <2>1. \A u \in Tickets : rec[u].unpark => rec'[u].unpark
    BY <1>5, <1>7, <1>9
  <2> QED
    BY <1>1, <1>2, <1>8, <2>1, RobotStates DEF JobsIssued, TypeOK
<1>14. ASSUME NEW q \in Shufflers PROVE ToSet(shuffler[q].tickets) \subseteq Tickets
  BY <1>1, ToSetType DEF TypeOK, ShufflerStates
<1>15. CASE physical' = physical /\ parker' = parker /\ shuffler' = shuffler
  <2>1. TypeOK'
    BY <1>1, <1>2, <1>8, <1>10, <1>15 DEF TypeOK, P
  <2>2. JobsIssued'
    BY <1>1, <1>2, <1>13, <1>15 DEF JobsIssued
  <2>3. ParkersSleep'
    BY <1>1, <1>15 DEF ParkersSleep
  <2>4. \A q \in Shufflers : \A u \in ToSet(shuffler'[q].tickets) : Late(rec[u]) => Late(rec'[u])
    BY <1>12, <1>14, <1>15
  <2> QED
    BY <1>2, <1>10, <1>11, <1>15, <2>1, <2>2, <2>3, <2>4, RestKept DEF Stirred
<1>16. CASE /\ f # NoFloor
            /\ physical' = [physical EXCEPT ![f] = @ - Space(t)]
            /\ parker' = WakeParkers(f, parker)
            /\ shuffler' = WakeShufflers(f, shuffler)
  <2> DEFINE d == physical[f] - Space(t)
  <2>1. f \in Floors
    BY <1>6, <1>16
  <2>2. d \in Int /\ physical' = [physical EXCEPT ![f] = d]
    <3>1. Space(t) \in Nat /\ physical[f] \in Int
      BY <1>4, <1>5, <2>1, SpaceType
    <3> QED
      BY <1>16, <3>1
  <2> HIDE DEF d
  <2>3. /\ parker' \in [Parkers -> ParkerStates]
        /\ \A q \in Parkers : /\ parker'[q].ticket = parker[q].ticket
                              /\ parker'[q].floor = parker[q].floor
                              /\ parker[q].pc = "idle" => parker'[q].pc = "idle"
        /\ ParkersSleep'
    BY <1>1, <1>16, <2>1, <2>2, ParkersWoken DEF ParkerStates
  <2>4. /\ shuffler' \in [Shufflers -> ShufflerStates]
        /\ \A q \in Shufflers :
                       /\ Stirred(shuffler[q], shuffler'[q])
                       /\ shuffler'[q].pc = "onFloor" => shuffler'[q].floor # f
    BY <1>4, <1>16, <2>1, Broadcasts
  <2>5. physical' \in [Floors -> Int] /\ \A g \in Floors : g # f => physical'[g] = physical[g]
    BY <1>4, <2>1, <2>2
  <2>6. TypeOK'
    BY <1>1, <1>2, <1>8, <1>10, <2>3, <2>4, <2>5 DEF TypeOK, P, ParkerStates
  <2>7. JobsIssued'
    <3>1. ASSUME NEW q \in Parkers, parker'[q].pc # "idle"
          PROVE  parker'[q].ticket \in issued /\ parker'[q].floor \in Floors
      <4>1. parker[q].pc # "idle"
        BY <2>3, <3>1
      <4>2. parker[q].ticket \in issued /\ parker[q].floor \in Floors
        BY <1>1, <4>1 DEF JobsIssued
      <4> QED
        BY <2>3, <4>2
    <3> QED
      BY <1>1, <1>2, <1>13, <3>1 DEF JobsIssued
  <2>8. ASSUME NEW q \in Shufflers
        PROVE  /\ shuffler'[q].tickets = shuffler[q].tickets
               /\ shuffler'[q].pc = "onFloor" => physical'[shuffler'[q].floor] = physical[shuffler'[q].floor]
    <3>1. /\ shuffler'[q].tickets = shuffler[q].tickets /\ shuffler'[q].floor = shuffler[q].floor
          /\ shuffler'[q].pc = "onFloor" => shuffler[q].pc = "onFloor"
      BY <1>4, <2>4, StirredFields
    <3>2. shuffler[q].pc = "onFloor" => shuffler[q].floor \in Floors
      BY DEF IInv, ShufflersFit, Fits, Issues
    <3> QED
      BY <2>4, <2>5, <3>1, <3>2
  <2>9. \A q \in Shufflers : \A u \in ToSet(shuffler'[q].tickets) : Late(rec[u]) => Late(rec'[u])
    BY <1>12, <1>14, <2>8
  <2> QED
    BY <1>2, <1>10, <1>11, <2>3, <2>4, <2>6, <2>7, <2>8, <2>9, RestKept
<1> QED
  BY <1>3, <1>15, <1>16

-----------------------------------------------------------------------------
(* Shuffling robots *)

\* A step of one shuffling robot as the others see it.
LEMMA RobotKept ==
    ASSUME IInv, NEW r \in Shufflers,
           TypeOK', JobsIssued', ParkersSleep', KeepsPromises, SlotOwned',
           ComponentsApart', Counted',
           Fits(issued', rec', physical', FreeSlots', shuffler'[r]),
           \A q \in Shufflers : q # r => Stirred(shuffler[q], shuffler'[q]),
           \A q \in Shufflers : q # r => \A t \in Tickets :
               rec'[t].present /\ rec'[t].slot = shuffler[q].slot /\ shuffler[q].slot # NoSlot
                   => rec[t].present /\ rec[t].slot = shuffler[q].slot,
           \A q \in Shufflers : q # r /\ shuffler'[q].pc = "onFloor" =>
               \/ physical'[shuffler'[q].floor] = physical[shuffler'[q].floor]
               \/ physical'[shuffler'[q].floor] >= physical[shuffler'[q].floor],
           \A q \in Shufflers : q # r /\ shuffler'[q].pc = "onWake" =>
               \A t \in ToSet(shuffler'[q].tickets) : Late(rec[t]) => Late(rec'[t]),
           \A q \in Shufflers : q # r /\ shuffler'[q].pc = "onSlot" => FreeSlots' \subseteq FreeSlots
    PROVE  IInv'
<1>1. TypeOK /\ ShufflersFit /\ VisitsIssued /\ ReservationsFit
  BY DEF IInv
<1>2. ReservationsFit' /\ VisitsIssued'
  BY <1>1, PromisesKept
<1>3. ShufflersFit'
  <2> SUFFICES ASSUME NEW q \in Shufflers
               PROVE  Fits(issued', rec', physical', FreeSlots', shuffler'[q])
    BY DEF ShufflersFit
  <2>1. physical' \in [Floors -> Int] /\ issued \subseteq issued'
    BY DEF TypeOK, KeepsPromises
  <2>2. CASE q = r
    BY <2>2
  <2>3. CASE q # r
    BY <1>1, <2>1, <2>3, OthersFit
  <2> QED
    BY <2>2, <2>3
<1> QED
  BY <1>2, <1>3 DEF IInv

\* A robot goes on with its component while the others are at most woken.
LEMMA GoesOn ==
    ASSUME IInv, NEW r \in Shufflers, Steady(shuffler[r], shuffler'[r]),
           \A q \in Shufflers : q # r => Stirred(shuffler[q], shuffler'[q]),
           UNCHANGED <<shuffleJobCh, shuffleWG, shuffling>>
    PROVE  ShufflersSteady /\ ComponentsApart' /\ Counted'
<1>1. TypeOK /\ ComponentsApart /\ Counted
  BY DEF IInv
<1>2. ShufflersSteady
  <2> SUFFICES ASSUME NEW q \in Shufflers PROVE Steady(shuffler[q], shuffler'[q])
    BY DEF ShufflersSteady
  <2>1. shuffler[q] \in ShufflerStates
    BY <1>1 DEF TypeOK
  <2>2. CASE q = r
    BY <2>2
  <2>3. CASE q # r
    BY <2>1, <2>3, StirredSteady
  <2> QED
    BY <2>2, <2>3
<1> QED
  BY <1>1, <1>2, ShuffleKept

\* A step that changes the robot and nothing else.
LEMMA MovesKeeps ==
    ASSUME IInv, NEW r \in Shufflers, NEW z \in ShufflerStates, Steady(shuffler[r], z),
           Fits(issued, rec, physical, FreeSlots, z),
           ShufflerMoves(r, z), UNCHANGED <<shuffleJobCh, shuffleWG>>
    PROVE  IInv'
<1>1. TypeOK /\ SlotOwned /\ JobsIssued /\ ParkersSleep
  BY DEF IInv
<1>2. /\ shuffler' = [shuffler EXCEPT ![r] = z]
      /\ physical' = physical /\ parkingJobCh' = parkingJobCh
      /\ issued' = issued /\ strategy' = strategy /\ shuffling' = shuffling
      /\ rec' = rec /\ reserved' = reserved /\ unparkJobCh' = unparkJobCh
      /\ slots' = slots /\ unparker' = unparker /\ parker' = parker
  BY DEF ShufflerMoves, deskVars
<1>3. shuffler \in [Shufflers -> ShufflerStates]
  BY <1>1 DEF TypeOK
<1>4. /\ shuffler' \in [Shufflers -> ShufflerStates]
      /\ shuffler'[r] = z /\ \A q \in Shufflers : q # r => shuffler'[q] = shuffler[q]
  BY <1>2, <1>3
<1>5. FreeSlots' = FreeSlots
  BY <1>2 DEF FreeSlots
<1>6. TypeOK'
  BY <1>1, <1>2, <1>4 DEF TypeOK
<1>7. JobsIssued' /\ ParkersSleep'
  BY <1>1, <1>2 DEF JobsIssued, ParkersSleep
<1>8. ShufflersSteady /\ ComponentsApart' /\ Counted'
  BY <1>2, <1>4, GoesOn DEF Stirred
<1>9. SlotOwned'
  BY <1>1, <1>2, <1>8, SlotsKept
<1>10. KeepsPromises
  BY <1>2 DEF KeepsPromises
<1>11. Fits(issued', rec', physical', FreeSlots', shuffler'[r])
  BY <1>2, <1>4, <1>5
<1> QED
  BY <1>2, <1>4, <1>5, <1>6, <1>7, <1>8, <1>9, <1>10, <1>11, RobotKept DEF Stirred

\* A robot whose job has ended has another one, or comes to the next stage.
LEMMA AfterJobFits ==
    ASSUME NEW I, NEW R, NEW p, NEW free, NEW s \in ShufflerStates,
           Issues(I, s), InStage(s), Breaks(s), s.pc \in Carrying,
           s.phase = "home" => \A t \in Tickets : R[t].present => R[t].slot # s.slot
    PROVE  /\ AfterJob(s) \in ShufflerStates
           /\ Steady(s, AfterJob(s))
           /\ Fits(I, R, p, free, AfterJob(s))
           /\ AfterJob(s).pc \notin {"onFloor", "onWake", "onSlot"}
           /\ AfterJob(s).slot = s.slot /\ AfterJob(s).tickets = s.tickets
<1> DEFINE left == Tail(s.jobs)
           z == AfterJob(s)
<1>1. s.jobs # << >> /\ s.phase \in {"inOrder", "breaker", "rest", "home"}
      /\ (s.phase \in SlotPhases <=> s.slot # NoSlot)
  BY DEF InStage, ShufflerStates
<1>2. s.jobs \in Seq(Jobs)
  BY DEF ShufflerStates
<1>3. /\ left \in Seq(Jobs) /\ Len(left) = Len(s.jobs) - 1 /\ Len(s.jobs) \in Nat
      /\ \A k \in DOMAIN left : \E n \in DOMAIN s.jobs : left[k] = s.jobs[n]
  BY <1>1, <1>2, Taken
<1> HIDE DEF left
<1>4. /\ z \in ShufflerStates
      /\ z.phase = s.phase /\ z.tickets = s.tickets /\ z.slot = s.slot /\ z.jobs = left
      /\ left # << >> => z.pc = "lift"
      /\ left = << >> =>
            \/ s.phase = "inOrder" /\ z.pc = "finish"
            \/ s.phase = "breaker" /\ z.pc = "replan"
            \/ s.phase = "rest" /\ z.pc = "home"
            \/ s.phase = "home" /\ z.pc = "release"
  <2> DEFINE pc == CASE left # << >> -> "lift"
                     [] left = << >> /\ s.phase = "inOrder" -> "finish"
                     [] left = << >> /\ s.phase = "breaker" -> "replan"
                     [] left = << >> /\ s.phase = "rest" -> "home"
                     [] left = << >> /\ s.phase = "home" -> "release"
  <2>1. z = [s EXCEPT !.jobs = left, !.floor = NoFloor, !.pc = pc]
    BY DEF AfterJob, left
  <2>2. /\ left # << >> => pc = "lift"
        /\ left = << >> =>
            \/ s.phase = "inOrder" /\ pc = "finish"
            \/ s.phase = "breaker" /\ pc = "replan"
            \/ s.phase = "rest" /\ pc = "home"
            \/ s.phase = "home" /\ pc = "release"
    BY <1>1
  <2> HIDE DEF pc, z
  <2>3. pc \in {"lift", "finish", "replan", "home", "release"}
    BY <2>2
  <2>4. z \in ShufflerStates /\ z.pc = pc /\ z.phase = s.phase /\ z.tickets = s.tickets
        /\ z.slot = s.slot /\ z.jobs = left
    BY <1>3, <2>1, <2>3 DEF ShufflerStates
  <2> QED
    BY <2>2, <2>4
<1>5. s.phase = "home" => left = << >>
  <2>1. s.phase = "home" => Len(left) = 0
    BY <1>3 DEF Breaks
  <2> QED
    BY <1>3, <2>1, EmptySeq
<1> HIDE DEF z
<1>6. z.pc \in {"lift", "finish", "replan", "home", "release"} /\ s.pc # "idle"
  BY <1>4 DEF Carrying
<1>7. Steady(s, z)
  BY <1>4, <1>6 DEF Steady
<1>8. Issues(I, z)
  BY <1>3, <1>4, <1>6 DEF Issues
<1>9. InStage(z)
  BY <1>1, <1>4 DEF InStage, Waiting, Carrying, SlotPhases
<1>10. Breaks(z)
  <2>1. z.pc \in Carrying => z.phase # "home"
    BY <1>4, <1>5, <1>6 DEF Carrying
  <2>2. z.pc \notin {"claimSlot", "onSlot"}
    BY <1>6
  <2>3. \A k \in DOMAIN z.jobs : IsBufferSlotID(z.jobs[k].to) =>
          /\ z.phase = "breaker"
          /\ z.slot # NoSlot
          /\ z.jobs[k].to = BufferSlotID(z.slot)
          /\ z.jobs[k].ticket = Head(z.tickets)
    BY <1>3, <1>4 DEF Breaks
  <2>4. z.slot # NoSlot => z.tickets # << >>
    BY <1>4 DEF Breaks
  <2> QED
    BY <2>1, <2>2, <2>3, <2>4 DEF Breaks
<1>11. Emptied(R, z)
  BY <1>4, <1>5 DEF Emptied, Carrying
<1>12. Sleeps(p, R, free, z)
  BY <1>6 DEF Sleeps
<1> QED
  BY <1>4, <1>6, <1>7, <1>8, <1>9, <1>10, <1>11, <1>12 DEF Fits, z

\* What the invariant says of one robot.
LEMMA RobotFits ==
    ASSUME IInv, NEW r \in Shufflers
    PROVE  /\ shuffler \in [Shufflers -> ShufflerStates] /\ shuffler[r] \in ShufflerStates
           /\ Issues(issued, shuffler[r]) /\ InStage(shuffler[r]) /\ Breaks(shuffler[r])
           /\ Emptied(rec, shuffler[r]) /\ Sleeps(physical, rec, FreeSlots, shuffler[r])
           /\ ToSet(shuffler[r].tickets) \subseteq issued
           /\ rec \in [Tickets -> Records] /\ physical \in [Floors -> Int] /\ issued \subseteq Tickets
BY DEF IInv, TypeOK, ShufflersFit, Fits, Issues

\* A vehicle in the slot of a robot is the one that breaks its cycle.
LEMMA SlotMate ==
    ASSUME IInv, NEW r \in Shufflers, NEW t \in Tickets,
           rec[t].present, rec[t].slot = shuffler[r].slot, shuffler[r].slot # NoSlot
    PROVE  Head(shuffler[r].tickets) = t
<1>1. PICK q \in Shufflers : shuffler[q].slot = rec[t].slot /\ Head(shuffler[q].tickets) = t
  BY DEF IInv, SlotOwned
<1>2. q = r
  BY <1>1 DEF IInv, SlotOwned
<1> QED
  BY <1>1, <1>2

\* The one that breaks the cycle is in no other slot.
LEMMA BreakerSlot ==
    ASSUME IInv, NEW r \in Shufflers, NEW t \in Tickets, shuffler[r].slot # NoSlot,
           t = Head(shuffler[r].tickets), rec[t].present, rec[t].slot # NoSlot
    PROVE  rec[t].slot = shuffler[r].slot
<1>1. PICK q \in Shufflers : shuffler[q].slot = rec[t].slot /\ Head(shuffler[q].tickets) = t
  BY DEF IInv, SlotOwned
<1>2. ASSUME NEW p \in Shufflers, shuffler[p].slot # NoSlot, Head(shuffler[p].tickets) = t
      PROVE  t \in ToSet(shuffler[p].tickets)
  <2>1. shuffler[p].tickets # << >> /\ shuffler[p].tickets \in Seq(Tickets)
    BY <1>2, RobotFits DEF Breaks, ShufflerStates
  <2> QED
    BY <1>2, <2>1, HeadTail
<1>3. t \in ToSet(shuffler[r].tickets) /\ t \in ToSet(shuffler[q].tickets)
  BY <1>1, <1>2
<1>4. q = r
  BY <1>3 DEF IInv, ComponentsApart, Apart
<1> QED
  BY <1>1, <1>4

\* The moves that bring vehicles home.
LEMMA MovesOfResult ==
    ASSUME IInv, NEW ts \in Seq(Tickets), ToSet(ts) \subseteq Movable, ToSet(ts) \subseteq issued
    PROVE  /\ MovesOf(ts) \in Seq(Jobs)
           /\ \A k \in DOMAIN MovesOf(ts) : /\ MovesOf(ts)[k].ticket \in issued
                                            /\ ~IsBufferSlotID(MovesOf(ts)[k].to)
           /\ ts # << >> => /\ MovesOf(ts) # << >>
                            /\ Head(MovesOf(ts)).ticket = Head(ts)
           /\ ts = << >> => MovesOf(ts) = << >>
<1> DEFINE n == Len(ts)
           D == 1..n
           m == MovesOf(ts)
<1>1. n \in Nat /\ DOMAIN ts = D /\ \A k \in D : ts[k] \in ToSet(ts)
  BY LenProperties DEF ToSet
<1>2. ASSUME NEW t \in ToSet(ts)
      PROVE  MoveHome(t) \in Jobs /\ MoveHome(t).ticket = t /\ ~IsBufferSlotID(MoveHome(t).to)
  <2>1. t \in Tickets /\ rec[t].floor \in Floors
    BY DEF Movable, ToMove, IInv, TypeOK, Records
  <2>2. rec[t].target \in Floors
    BY DEF IInv, VisitsIssued
  <2>3. ~IsBufferSlotID(rec[t].target)
    BY <2>2, Numbers
  <2>4. MoveHome(t) \in Jobs
    BY <2>1, <2>2 DEF MoveHome, Jobs, Places
  <2> QED
    BY <2>3, <2>4 DEF MoveHome
<1>3. m = [k \in D |-> MoveHome(ts[k])]
  BY <1>1 DEF MovesOf
<1> HIDE DEF m, D
<1>4. m \in [D -> Jobs] /\ \A k \in D : m[k] = MoveHome(ts[k])
  BY <1>1, <1>2, <1>3
<1>5. m \in Seq(Jobs) /\ DOMAIN m = D
  BY <1>1, <1>4 DEF D
<1>6. \A k \in D : m[k].ticket \in issued /\ ~IsBufferSlotID(m[k].to)
  BY <1>1, <1>2, <1>4
<1>7. ASSUME ts # << >> PROVE m # << >> /\ Head(m).ticket = Head(ts)
  <2>1. n > 0 /\ 1 \in D
    BY <1>1, <1>7, EmptySeq DEF D
  <2>2. m # << >>
    <3>1. DOMAIN << >> = {}
      OBVIOUS
    <3> QED
      BY <1>5, <2>1, <3>1
  <2>3. Head(m) = m[1] /\ Head(ts) = ts[1]
    BY <1>5, <1>7, <2>2, Taken
  <2>4. m[1].ticket = ts[1]
    BY <1>1, <1>2, <1>4, <2>1
  <2> QED
    BY <2>2, <2>3, <2>4
<1>8. ts = << >> => m = << >>
  <2>1. ts = << >> => D = {}
    BY <1>1
  <2>2. ts = << >> => ToSet(m) = {}
    BY <1>5, <2>1 DEF ToSet
  <2> QED
    BY <1>5, <2>2, ToSetType
<1> QED
  BY <1>5, <1>6, <1>7, <1>8 DEF m

\* The waits of a shuffling robot.
LEMMA ShufflerWaits ==
    ASSUME IInv, NEW r \in Shufflers, ShufflerSleep(r) \/ ShufflerSleepSlot(r)
    PROVE  IInv'
<1> DEFINE s == shuffler[r]
<1>1. /\ shuffler[r] \in ShufflerStates
      /\ Issues(issued, shuffler[r]) /\ InStage(shuffler[r]) /\ Breaks(shuffler[r])
      /\ ToSet(shuffler[r].tickets) \subseteq issued /\ issued \subseteq Tickets
  BY RobotFits
<1>2. CASE ShufflerSleep(r)
  <2> DEFINE z == [s EXCEPT !.pc = "onWake"]
  <2>1. /\ s.pc = "ready" /\ NotReady(s.tickets) /\ ShufflerMoves(r, z)
        /\ UNCHANGED <<shuffleJobCh, shuffleWG>>
    BY <1>2 DEF ShufflerSleep
  <2>2. /\ z \in ShufflerStates /\ z.pc = "onWake" /\ z.phase = s.phase /\ z.tickets = s.tickets
        /\ z.jobs = s.jobs /\ z.slot = s.slot
    BY <1>1 DEF ShufflerStates
  <2>3. \E t \in ToSet(s.tickets) : Late(rec[t])
    BY <2>1 DEF NotReady, Late, Standing
  <2> HIDE DEF z, s
  <2>4. Fits(issued, rec, physical, FreeSlots, z)
    BY <1>1, <2>1, <2>2, <2>3 DEF Fits, Issues, InStage, Breaks, Emptied, Sleeps, Waiting, Carrying, s
  <2>5. Steady(s, z)
    BY <2>1, <2>2 DEF Steady
  <2> QED
    BY <2>1, <2>2, <2>4, <2>5, MovesKeeps DEF s
<1>3. CASE ShufflerSleepSlot(r)
  <2> DEFINE z == [s EXCEPT !.pc = "onSlot"]
  <2>1. /\ s.pc = "claimSlot" /\ FreeSlots = {} /\ ShufflerMoves(r, z)
        /\ UNCHANGED <<shuffleJobCh, shuffleWG>>
    BY <1>3 DEF ShufflerSleepSlot
  <2>2. /\ z \in ShufflerStates /\ z.pc = "onSlot" /\ z.phase = s.phase /\ z.tickets = s.tickets
        /\ z.jobs = s.jobs /\ z.slot = s.slot
    BY <1>1 DEF ShufflerStates
  <2> HIDE DEF z, s
  <2>4. Fits(issued, rec, physical, FreeSlots, z)
    BY <1>1, <2>1, <2>2 DEF Fits, Issues, InStage, Breaks, Emptied, Sleeps, Waiting, Carrying, s
  <2>5. Steady(s, z)
    BY <2>1, <2>2 DEF Steady
  <2> QED
    BY <2>1, <2>2, <2>4, <2>5, MovesKeeps DEF s
<1> QED
  BY <1>2, <1>3

\* The wait for a floor.
LEMMA ShufflerSleepFloorKeeps ==
    ASSUME IInv, NEW r \in Shufflers, ShufflerSleepFloor(r)
    PROVE  IInv'
<1> DEFINE s == shuffler[r]
           t == Head(s.jobs).ticket
           f == rec[t].target
           z == [s EXCEPT !.pc = "onFloor", !.floor = f]
<1>1. /\ shuffler[r] \in ShufflerStates
      /\ Issues(issued, shuffler[r]) /\ InStage(shuffler[r]) /\ Breaks(shuffler[r])
      /\ Emptied(rec, shuffler[r])
      /\ ToSet(shuffler[r].tickets) \subseteq issued /\ issued \subseteq Tickets
  BY RobotFits
<1>2. /\ AtTarget(r) /\ ~(Capacity - physical[f] >= Space(t)) /\ ShufflerMoves(r, z)
      /\ UNCHANGED <<shuffleJobCh, shuffleWG>>
  BY DEF ShufflerSleepFloor, HasRoom
<1>3. s.pc \in {"carry", "settle"}
  BY <1>2 DEF AtTarget
<1>4. t \in issued /\ f \in Floors
  <2>1. s.jobs # << >> /\ s.jobs \in Seq(Jobs)
    BY <1>1, <1>3 DEF InStage, Carrying, ShufflerStates
  <2>2. Head(s.jobs) = s.jobs[1] /\ 1 \in DOMAIN s.jobs
    BY <2>1, Taken
  <2>3. t \in issued
    BY <1>1, <2>2 DEF Issues
  <2> QED
    BY <2>3 DEF IInv, VisitsIssued
<1> HIDE DEF f
<1>5. /\ z \in ShufflerStates /\ z.pc = "onFloor" /\ z.phase = s.phase /\ z.tickets = s.tickets
      /\ z.jobs = s.jobs /\ z.slot = s.slot /\ z.floor = f
  BY <1>1, <1>4 DEF ShufflerStates
<1> HIDE DEF z, s
<1>6. Issues(issued, z) /\ InStage(z)
  BY <1>1, <1>3, <1>4, <1>5 DEF Issues, InStage, Waiting, Carrying, s
<1>7. Breaks(z)
  <2>1. s.pc \in Carrying /\ z.pc \in Carrying /\ z.pc \notin {"claimSlot", "onSlot"}
    BY <1>3, <1>5 DEF Carrying
  <2> QED
    BY <1>1, <1>5, <2>1 DEF Breaks, s
<1>8. Emptied(rec, z)
  <2>1. s.pc \in Carrying \ {"lift"} /\ z.pc # "release"
    BY <1>3, <1>5 DEF Carrying
  <2> QED
    BY <1>1, <1>5, <2>1 DEF Emptied, s
<1>9. Sleeps(physical, rec, FreeSlots, z)
  BY <1>2, <1>5 DEF Sleeps
<1>10. Steady(s, z)
  BY <1>3, <1>5 DEF Steady
<1> QED
  BY <1>2, <1>5, <1>6, <1>7, <1>8, <1>9, <1>10, MovesKeeps DEF Fits, s

\* A job that has nothing to do, or nothing left to do.
LEMMA ShufflerDropsKeeps ==
    ASSUME IInv, NEW r \in Shufflers, ShufflerSkip(r) \/ ShufflerDrop(r)
    PROVE  IInv'
<1> DEFINE s == shuffler[r]
           z == AfterJob(s)
<1>1. /\ shuffler[r] \in ShufflerStates
      /\ Issues(issued, shuffler[r]) /\ InStage(shuffler[r]) /\ Breaks(shuffler[r])
      /\ Emptied(rec, shuffler[r])
  BY RobotFits
<1>2. s.pc \in Carrying /\ ShufflerMoves(r, z) /\ UNCHANGED <<shuffleJobCh, shuffleWG>>
  BY DEF ShufflerSkip, ShufflerDrop, Carrying
<1>3. s.phase = "home" => \A t \in Tickets : rec[t].present => rec[t].slot # s.slot
  <2> SUFFICES ASSUME s.phase = "home", NEW t \in Tickets, rec[t].present, rec[t].slot = s.slot
               PROVE  FALSE
    OBVIOUS
  <2>1. CASE s.pc = "carry"
    BY <1>1, <2>1 DEF Emptied, Carrying
  <2>2. CASE ShufflerSkip(r)
    <3>1. s.slot # NoSlot
      BY <1>1, <1>2 DEF InStage, SlotPhases
    <3>2. Head(s.tickets) = t
      BY <3>1, SlotMate
    <3>3. Head(s.jobs).ticket = t /\ Head(s.jobs).from = BufferSlotID(s.slot)
      BY <1>1, <1>2, <3>2 DEF Breaks
    <3>4. s.slot \in BufferSlots
      BY <1>1, <3>1 DEF ShufflerStates
    <3>5. IsBufferSlotID(Head(s.jobs).from)
      BY <3>3, <3>4, Numbers
    <3>6. Liftable(Head(s.jobs))
      BY <3>3, <3>5 DEF Liftable
    <3> QED
      BY <2>2, <3>6 DEF ShufflerSkip
  <2> QED
    BY <2>1, <2>2 DEF ShufflerDrop
<1>4. z \in ShufflerStates /\ Steady(s, z) /\ Fits(issued, rec, physical, FreeSlots, z)
  <2> HIDE DEF s
  <2> QED
    BY <1>1, <1>2, <1>3, AfterJobFits DEF s
<1> HIDE DEF z
<1> QED
  BY <1>2, <1>4, MovesKeeps

\* The component is ready.
LEMMA ShufflerReadyKeeps ==
    ASSUME IInv, NEW r \in Shufflers, ShufflerReady(r)
    PROVE  IInv'
<1> DEFINE s == shuffler[r]
           ts == Only(s.tickets, Movable)
           m == MovesOf(ts)
           y == [s EXCEPT !.tickets = ts, !.jobs = m]
           z == CASE ts = << >> -> [y EXCEPT !.pc = "finish"]
                  [] ts # << >> /\ ~y.loop -> [y EXCEPT !.pc = "lift", !.phase = "inOrder"]
                  [] ts # << >> /\ y.loop -> [y EXCEPT !.pc = "claimSlot"]
<1>1. /\ s \in ShufflerStates
      /\ Issues(issued, s) /\ InStage(s) /\ Breaks(s)
      /\ ToSet(s.tickets) \subseteq issued /\ issued \subseteq Tickets
  BY RobotFits
<1>2. s.pc = "ready" /\ ShufflerMoves(r, z) /\ UNCHANGED <<shuffleJobCh, shuffleWG>>
  BY Zenon DEF ShufflerReady
<1>3. s.phase = "none" /\ s.slot = NoSlot /\ s.tickets \in Seq(Tickets) /\ s.loop \in BOOLEAN
  BY <1>1, <1>2 DEF InStage, Waiting, ShufflerStates
<1>4. ts \in Seq(Tickets) /\ ToSet(ts) = ToSet(s.tickets) \cap Movable
  BY <1>3, OnlyResult
<1> HIDE DEF ts
<1>5. /\ m \in Seq(Jobs)
      /\ \A k \in DOMAIN m : m[k].ticket \in issued /\ ~IsBufferSlotID(m[k].to)
      /\ ts # << >> => m # << >> /\ Head(m).ticket = Head(ts)
  BY <1>1, <1>4, MovesOfResult
<1> HIDE DEF m, s
<1>6. /\ y \in ShufflerStates /\ y.tickets = ts /\ y.jobs = m /\ y.slot = NoSlot /\ y.phase = "none"
      /\ y.loop \in BOOLEAN
  BY <1>1, <1>3, <1>4, <1>5 DEF ShufflerStates
<1> HIDE DEF y
<1>7. /\ z \in ShufflerStates /\ z.tickets = ts /\ z.jobs = m /\ z.slot = NoSlot
      /\ \/ z.pc = "finish" /\ z.phase = "none"
         \/ z.pc = "lift" /\ z.phase = "inOrder" /\ ts # << >>
         \/ z.pc = "claimSlot" /\ z.phase = "none" /\ ts # << >>
  <2>1. CASE ts = << >>
    <3>1. z = [y EXCEPT !.pc = "finish"]
      BY <2>1
    <3> HIDE DEF z
    <3> QED
      BY <1>6, <3>1 DEF ShufflerStates
  <2>2. CASE ts # << >> /\ ~y.loop
    <3>1. z = [y EXCEPT !.pc = "lift", !.phase = "inOrder"]
      BY <2>2
    <3> HIDE DEF z
    <3> QED
      BY <1>6, <2>2, <3>1 DEF ShufflerStates
  <2>3. CASE ts # << >> /\ y.loop
    <3>1. z = [y EXCEPT !.pc = "claimSlot"]
      BY <2>3
    <3> HIDE DEF z
    <3> QED
      BY <1>6, <2>3, <3>1 DEF ShufflerStates
  <2> QED
    BY <2>1, <2>2, <2>3
<1> HIDE DEF z
<1>8. ToSet(ts) \subseteq issued /\ ToSet(ts) \subseteq ToSet(s.tickets)
  BY <1>1, <1>4
<1>9. Fits(issued, rec, physical, FreeSlots, z)
  BY <1>5, <1>7, <1>8 DEF Fits, Issues, InStage, Breaks, Emptied, Sleeps, Waiting, Carrying, SlotPhases
<1>10. Steady(s, z)
  BY <1>2, <1>3, <1>7, <1>8 DEF Steady
<1> QED
  BY <1>2, <1>7, <1>9, <1>10, MovesKeeps DEF s

\* The rest of a cycle in a new order.
LEMMA ReplanOrder ==
    ASSUME NEW ts \in Seq(Tickets),
           NEW order \in MovementOrders([t \in ToSet(ts) |-> MoveHome(t)])
    PROVE  LET all == FlattenSeq([i \in DOMAIN order |-> order[i].tickets])
           IN /\ all \in Seq(Tickets)
              /\ ToSet(all) = ToSet(ts)
<1> DEFINE moves == [t \in ToSet(ts) |-> MoveHome(t)]
           D == ToSet(ts)
           seqs == [i \in DOMAIN order |-> order[i].tickets]
           all == FlattenSeq(seqs)
<1>1. DOMAIN moves = D /\ IsFiniteSet(D) /\ D \subseteq Tickets
  <2>1. D \subseteq Tickets
    BY ToSetType
  <2> QED
    BY <2>1, PlanAssumption, FS_Subset
<1>2. Divides(D, D, order)
  <2>1. order \in MovementOrders(moves)
    OBVIOUS
  <2> HIDE DEF moves, D
  <2> QED
    BY <1>1, <2>1, MovementOrdersDivide
<1>3. order \in Seq(Comps(D)) /\ DOMAIN order = 1..Len(order) /\ Len(order) \in Nat
  BY <1>2, LenProperties DEF Divides
<1>4. seqs \in Seq(Seq(D)) /\ DOMAIN seqs = DOMAIN order
      /\ \A i \in DOMAIN order : seqs[i] = order[i].tickets
  <2>1. ASSUME NEW i \in DOMAIN order PROVE order[i].tickets \in Seq(D)
    <3> DEFINE c == order[i]
    <3>1. c \in Comps(D)
      BY <1>3
    <3> HIDE DEF c, D
    <3>2. c.tickets \in Seq(D)
      BY <3>1 DEF Comps
    <3> QED
      BY <3>2 DEF c
  <2>2. seqs \in [1..Len(order) -> Seq(D)]
    BY <1>3, <2>1
  <2> HIDE DEF seqs, D
  <2>3. seqs \in Seq(Seq(D))
    BY <1>3, <2>2
  <2> QED
    BY <1>3, <2>2, <2>3 DEF seqs
<1> HIDE DEF seqs, D
<1>5. all \in Seq(D) /\ ToSet(all) = UNION {ToSet(seqs[i]) : i \in DOMAIN seqs}
  BY <1>4, FlattenResult
<1>6. all \in Seq(Tickets) /\ ToSet(all) \subseteq D
  BY <1>1, <1>5, ToSetType, SeqMonotonic
<1>7. ASSUME NEW t \in D PROVE t \in ToSet(all)
  <2>1. PICK i \in DOMAIN order : t \in ToSet(order[i].tickets)
    BY <1>2 DEF Divides
  <2>2. t \in ToSet(seqs[i]) /\ i \in DOMAIN seqs
    BY <1>4, <2>1
  <2> QED
    BY <1>5, <2>2
<1> QED
  BY <1>6, <1>7 DEF seqs, D

\* The rest of a cycle is ordered again.
LEMMA ShufflerReplanKeeps ==
    ASSUME IInv, NEW r \in Shufflers, ShufflerReplan(r)
    PROVE  IInv'
<1> DEFINE s == shuffler[r]
           ts == Only(Tail(s.tickets), Movable)
           moves == [t \in ToSet(ts) |-> MoveHome(t)]
           allOf(order) == FlattenSeq([i \in DOMAIN order |-> order[i].tickets])
           zOf(order) == [s EXCEPT !.jobs = MovesOf(allOf(order)), !.phase = "rest",
                                   !.pc = IF ts = << >> THEN "home" ELSE "lift"]
<1>1. /\ s \in ShufflerStates
      /\ Issues(issued, s) /\ InStage(s) /\ Breaks(s)
      /\ ToSet(s.tickets) \subseteq issued /\ issued \subseteq Tickets
  BY RobotFits
<1>2. /\ s.pc = "replan" /\ UNCHANGED <<shuffleJobCh, shuffleWG>>
      /\ \E order \in MovementOrders(moves) : ShufflerMoves(r, zOf(order))
  BY Zenon DEF ShufflerReplan
<1>3. PICK order \in MovementOrders(moves) : ShufflerMoves(r, zOf(order))
  BY <1>2
<1> DEFINE all == allOf(order)
           m == MovesOf(all)
           z == zOf(order)
<1>4. s.slot # NoSlot /\ s.phase = "breaker" /\ s.tickets \in Seq(Tickets) /\ s.tickets # << >>
  BY <1>1, <1>2 DEF InStage, Breaks, ShufflerStates
<1>5. /\ ts \in Seq(Tickets) /\ ToSet(ts) = ToSet(Tail(s.tickets)) \cap Movable
      /\ ToSet(Tail(s.tickets)) \subseteq ToSet(s.tickets)
  <2>1. Tail(s.tickets) \in Seq(Tickets) /\ ToSet(s.tickets) = {Head(s.tickets)} \cup ToSet(Tail(s.tickets))
    BY <1>4, HeadTail
  <2> HIDE DEF s
  <2> QED
    BY <2>1, OnlyResult
<1> HIDE DEF ts
<1>6. all \in Seq(Tickets) /\ ToSet(all) = ToSet(ts)
  <2>1. order \in MovementOrders([t \in ToSet(ts) |-> MoveHome(t)])
    BY <1>3
  <2> QED
    BY <1>5, <2>1, ReplanOrder
<1> HIDE DEF all, moves
<1>7. ts # << >> => all # << >>
  BY <1>5, <1>6, Nothing, ToSetType
<1>8. ToSet(all) \subseteq Movable /\ ToSet(all) \subseteq issued
  BY <1>1, <1>5, <1>6
<1>9. /\ m \in Seq(Jobs)
      /\ \A k \in DOMAIN m : m[k].ticket \in issued /\ ~IsBufferSlotID(m[k].to)
      /\ all # << >> => m # << >>
  BY <1>6, <1>8, MovesOfResult
<1> HIDE DEF s, m
<1>10. /\ z \in ShufflerStates /\ z.tickets = s.tickets /\ z.jobs = m /\ z.slot = s.slot /\ z.phase = "rest"
       /\ z.pc = "home" \/ (z.pc = "lift" /\ ts # << >>)
  <2> DEFINE pc == IF ts = << >> THEN "home" ELSE "lift"
  <2>1. z = [s EXCEPT !.jobs = m, !.phase = "rest", !.pc = pc]
    BY DEF m, all
  <2>2. pc = "home" \/ (pc = "lift" /\ ts # << >>)
    OBVIOUS
  <2> HIDE DEF pc, z
  <2> QED
    BY <1>1, <1>9, <2>1, <2>2 DEF ShufflerStates
<1>11. ShufflerMoves(r, z)
  BY <1>3 DEF m, all
<1> HIDE DEF z
<1>12. Fits(issued, rec, physical, FreeSlots, z)
  BY <1>1, <1>4, <1>7, <1>9, <1>10 DEF Fits, Issues, InStage, Breaks, Emptied, Sleeps, Waiting, Carrying, SlotPhases
<1>13. Steady(s, z)
  BY <1>2, <1>10 DEF Steady
<1> QED
  BY <1>2, <1>10, <1>11, <1>12, <1>13, MovesKeeps DEF s

\* The vehicle that broke the cycle comes out of its slot, or has left it.
LEMMA ShufflerHomeKeeps ==
    ASSUME IInv, NEW r \in Shufflers, ShufflerHome(r)
    PROVE  IInv'
<1> DEFINE s == shuffler[r]
           t == Head(s.tickets)
           home == [ticket |-> t, from |-> BufferSlotID(rec[t].slot), to |-> rec[t].target]
           z == IF rec[t].present /\ rec[t].slot # NoSlot
                THEN [s EXCEPT !.jobs = <<home>>, !.phase = "home", !.pc = "lift"]
                ELSE [s EXCEPT !.pc = "release"]
<1>1. /\ s \in ShufflerStates
      /\ Issues(issued, s) /\ InStage(s) /\ Breaks(s)
      /\ ToSet(s.tickets) \subseteq issued /\ issued \subseteq Tickets
  BY RobotFits
<1>2. s.pc = "home" /\ ShufflerMoves(r, z) /\ UNCHANGED <<shuffleJobCh, shuffleWG>>
  BY DEF ShufflerHome
<1>3. /\ s.slot # NoSlot /\ s.phase = "rest" /\ s.tickets \in Seq(Tickets) /\ s.tickets # << >>
      /\ s.slot \in BufferSlots
  BY <1>1, <1>2 DEF InStage, Breaks, ShufflerStates
<1>4. t \in issued /\ t \in Tickets /\ rec[t].target \in Floors
  <2>1. t \in ToSet(s.tickets)
    BY <1>3, HeadTail
  <2> QED
    BY <1>1, <2>1 DEF IInv, VisitsIssued
<1>5. CASE rec[t].present /\ rec[t].slot # NoSlot
  <2>1. rec[t].slot = s.slot
    BY <1>3, <1>4, <1>5, BreakerSlot
  <2>2. home \in Jobs /\ home.ticket = t /\ home.from = BufferSlotID(s.slot) /\ ~IsBufferSlotID(home.to)
    BY <1>3, <1>4, <2>1, Numbers DEF Jobs, Places
  <2>3. z = [s EXCEPT !.jobs = <<home>>, !.phase = "home", !.pc = "lift"]
    BY <1>5
  <2> HIDE DEF home, z, t
  <2>4. /\ <<home>> \in Seq(Jobs) /\ Len(<<home>>) = 1 /\ <<home>> # << >> /\ Head(<<home>>) = home
        /\ DOMAIN <<home>> = {1} /\ <<home>>[1] = home
    BY <2>2, Single
  <2> DEFINE m == <<home>>
  <2>5. m \in Seq(Jobs) /\ Len(m) = 1 /\ m # << >> /\ Head(m) = home /\ DOMAIN m = {1} /\ m[1] = home
    BY <2>4
  <2>6. z = [s EXCEPT !.jobs = m, !.phase = "home", !.pc = "lift"]
    BY <2>3
  <2> HIDE DEF m, s
  <2>7. /\ z \in ShufflerStates /\ z.tickets = s.tickets /\ z.jobs = m /\ z.slot = s.slot
        /\ z.phase = "home" /\ z.pc = "lift"
    BY <1>1, <2>5, <2>6 DEF ShufflerStates
  <2>8. Issues(issued, z) /\ InStage(z)
    BY <1>1, <1>3, <1>4, <2>2, <2>5, <2>7 DEF Issues, InStage, Waiting, Carrying, SlotPhases
  <2>9. Breaks(z)
    BY <1>3, <2>2, <2>5, <2>7 DEF Breaks, t
  <2>10. Emptied(rec, z) /\ Sleeps(physical, rec, FreeSlots, z)
    BY <2>7 DEF Emptied, Sleeps
  <2>11. Steady(s, z)
    BY <1>2, <2>7 DEF Steady
  <2> QED
    BY <1>2, <2>7, <2>8, <2>9, <2>10, <2>11, MovesKeeps DEF s, Fits
<1>6. CASE ~(rec[t].present /\ rec[t].slot # NoSlot)
  <2>1. z = [s EXCEPT !.pc = "release"]
    BY <1>6
  <2>2. \A u \in Tickets : rec[u].present => rec[u].slot # s.slot
    BY <1>3, <1>6, SlotMate
  <2> HIDE DEF z, t, s
  <2>3. /\ z \in ShufflerStates /\ z.tickets = s.tickets /\ z.jobs = s.jobs /\ z.slot = s.slot
        /\ z.phase = "rest" /\ z.pc = "release"
    BY <1>1, <1>3, <2>1 DEF ShufflerStates
  <2>4. Fits(issued, rec, physical, FreeSlots, z)
    BY <1>1, <1>3, <2>2, <2>3 DEF Fits, Issues, InStage, Breaks, Emptied, Sleeps, Waiting, Carrying, SlotPhases
  <2>5. Steady(s, z)
    BY <1>2, <2>3 DEF Steady
  <2> QED
    BY <1>2, <2>3, <2>4, <2>5, MovesKeeps DEF s
<1> QED
  BY <1>5, <1>6

\* A robot takes a component.
LEMMA ShufflerTakeKeeps ==
    ASSUME IInv, NEW r \in Shufflers, ShufflerTake(r)
    PROVE  IInv'
<1> DEFINE c == Head(shuffleJobCh)
           z == [IdleShuffler EXCEPT !.pc = "ready", !.loop = c.loop, !.tickets = c.tickets]
<1>1. TypeOK /\ SlotOwned /\ JobsIssued /\ ParkersSleep /\ ComponentsApart /\ Counted
  BY DEF IInv
<1>2. /\ shuffler' = [shuffler EXCEPT ![r] = z]
      /\ shuffler[r].pc = "idle" /\ shuffleJobCh # << >> /\ shuffleJobCh' = Tail(shuffleJobCh)
      /\ physical' = physical /\ parkingJobCh' = parkingJobCh
      /\ issued' = issued /\ strategy' = strategy /\ shuffling' = shuffling /\ shuffleWG' = shuffleWG
      /\ rec' = rec /\ reserved' = reserved /\ unparkJobCh' = unparkJobCh
      /\ slots' = slots /\ unparker' = unparker /\ parker' = parker
  BY DEF ShufflerTake, ShufflerMoves, deskVars
<1>3. shuffler \in [Shufflers -> ShufflerStates] /\ shuffler[r] = IdleShuffler /\ IdleShuffler.slot = NoSlot
  BY <1>2, RobotFits, IdleFits DEF InStage
<1>4. shuffleJobCh \in Seq(Components)
  BY <1>1 DEF TypeOK
<1>5. /\ c \in Components /\ c = shuffleJobCh[1] /\ 1 \in DOMAIN shuffleJobCh
      /\ shuffleJobCh' \in Seq(Components) /\ Len(shuffleJobCh') = Len(shuffleJobCh) - 1
      /\ Len(shuffleJobCh) \in Nat
      /\ \A i \in DOMAIN shuffleJobCh' : /\ i \in Nat /\ i + 1 \in DOMAIN shuffleJobCh
                                         /\ shuffleJobCh'[i] = shuffleJobCh[i + 1]
  BY <1>2, <1>4, Taken
<1>6. ToSet(c.tickets) \subseteq issued
  BY <1>1, <1>5 DEF JobsIssued
<1> HIDE DEF c
<1>7. /\ z \in ShufflerStates /\ z.pc = "ready" /\ z.phase = "none" /\ z.tickets = c.tickets
      /\ z.jobs = << >> /\ z.slot = NoSlot
  <2> DEFINE lp == c.loop
             tk == c.tickets
  <2>1. lp \in BOOLEAN /\ tk \in Seq(Tickets)
    BY <1>5 DEF Components
  <2>2. z = [IdleShuffler EXCEPT !.pc = "ready", !.loop = lp, !.tickets = tk]
    OBVIOUS
  <2> HIDE DEF lp, z
  <2>3. z.tickets = tk
    <3> HIDE DEF tk
    <3> QED
      BY <2>2, IdleFits DEF ShufflerStates
  <2> HIDE DEF tk
  <2>4. /\ z \in ShufflerStates /\ z.pc = "ready" /\ z.phase = "none"
        /\ z.jobs = << >> /\ z.slot = NoSlot
    BY <2>1, <2>2, IdleFits DEF ShufflerStates
  <2> QED
    BY <2>3, <2>4 DEF tk
<1> HIDE DEF z
<1>8. /\ shuffler' \in [Shufflers -> ShufflerStates]
      /\ shuffler'[r] = z /\ \A q \in Shufflers : q # r => shuffler'[q] = shuffler[q]
  BY <1>2, <1>3, <1>7
<1>9. FreeSlots' = FreeSlots
  BY <1>2 DEF FreeSlots
<1>10. TypeOK'
  BY <1>1, <1>2, <1>5, <1>8 DEF TypeOK
<1>11. JobsIssued' /\ ParkersSleep'
  <2>1. \A i \in DOMAIN shuffleJobCh' : ToSet(shuffleJobCh'[i].tickets) \subseteq issued
    BY <1>1, <1>5 DEF JobsIssued
  <2> QED
    BY <1>1, <1>2, <2>1 DEF JobsIssued, ParkersSleep
<1>12. ComponentsApart'
  <2>1. \A i, k \in DOMAIN shuffleJobCh' : i # k => Apart(shuffleJobCh'[i], shuffleJobCh'[k])
    <3>1. \A i, k \in DOMAIN shuffleJobCh' : i # k => i + 1 # k + 1
      BY <1>5
    <3> QED
      BY <1>1, <1>5, <3>1 DEF ComponentsApart
  <2>2. \A i \in DOMAIN shuffleJobCh', q \in Shufflers : Apart(shuffleJobCh'[i], shuffler'[q])
    <3> SUFFICES ASSUME NEW i \in DOMAIN shuffleJobCh', NEW q \in Shufflers
                 PROVE  Apart(shuffleJobCh'[i], shuffler'[q])
      OBVIOUS
    <3>1. CASE q # r
      BY <1>1, <1>5, <1>8, <3>1 DEF ComponentsApart
    <3>2. CASE q = r
      <4>1. i + 1 # 1
        BY <1>5
      <4>2. Apart(shuffleJobCh[i + 1], shuffleJobCh[1])
        BY <1>1, <1>5, <4>1 DEF ComponentsApart
      <4> QED
        BY <1>5, <1>7, <1>8, <3>2, <4>2 DEF Apart
    <3> QED
      BY <3>1, <3>2
  <2>3. \A p, q \in Shufflers : p # q => Apart(shuffler'[p], shuffler'[q])
    <3>1. \A q \in Shufflers : Apart(shuffleJobCh[1], shuffler[q])
      BY <1>1, <1>5 DEF ComponentsApart
    <3>2. \A q \in Shufflers : q # r => Apart(z, shuffler'[q]) /\ Apart(shuffler'[q], z)
      BY <1>5, <1>7, <1>8, <3>1 DEF Apart
    <3> QED
      BY <1>1, <1>8, <3>2 DEF ComponentsApart
  <2> QED
    BY <2>1, <2>2, <2>3 DEF ComponentsApart
<1>13. Counted'
  <2>1. Busy(shuffler') = Busy(shuffler) \cup {r} /\ r \notin Busy(shuffler)
    BY <1>2, <1>7, <1>8 DEF Busy
  <2>2. IsFiniteSet(Busy(shuffler))
    BY ParkingAssumption, FS_Subset DEF Busy
  <2>3. Cardinality(Busy(shuffler')) = Cardinality(Busy(shuffler)) + 1 /\ Cardinality(Busy(shuffler)) \in Nat
    BY <2>1, <2>2, FS_AddElement, FS_CardinalityType
  <2> QED
    BY <1>1, <1>2, <1>5, <2>3 DEF Counted
<1>14. SlotOwned'
  <2>1. \A q \in Shufflers : /\ shuffler'[q].slot = shuffler[q].slot
                             /\ shuffler[q].slot # NoSlot => Head(shuffler'[q].tickets) = Head(shuffler[q].tickets)
    BY <1>3, <1>7, <1>8
  <2>2. \A i \in BufferSlots : i # NoSlot
    BY Numbers
  <2>3. \A i \in BufferSlots : slots'[i].claimed <=> \E q \in Shufflers : shuffler'[q].slot = i
    BY <1>1, <1>2, <2>1 DEF SlotOwned
  <2>4. \A p, q \in Shufflers :
          shuffler'[p].slot # NoSlot /\ shuffler'[p].slot = shuffler'[q].slot => p = q
    BY <1>1, <2>1 DEF SlotOwned
  <2>5. ASSUME NEW t \in Tickets, rec[t].present, rec[t].slot # NoSlot
        PROVE  /\ slots[rec[t].slot].ticket = t
               /\ \E q \in Shufflers : /\ shuffler'[q].slot = rec[t].slot
                                       /\ Head(shuffler'[q].tickets) = t
    <3>1. PICK q \in Shufflers : shuffler[q].slot = rec[t].slot /\ Head(shuffler[q].tickets) = t
      BY <1>1, <2>5 DEF SlotOwned
    <3> QED
      BY <1>1, <2>1, <2>5, <3>1 DEF SlotOwned
  <2> QED
    BY <1>2, <2>3, <2>4, <2>5 DEF SlotOwned
<1>15. Fits(issued', rec', physical', FreeSlots', shuffler'[r])
  <2>1. Issues(issued, z)
    BY <1>6, <1>7 DEF Issues
  <2>2. Fits(issued, rec, physical, FreeSlots, z)
    BY <1>7, <2>1 DEF Fits, InStage, Breaks, Emptied, Sleeps, Waiting, Carrying
  <2> QED
    BY <1>2, <1>8, <1>9, <2>2
<1>16. KeepsPromises
  BY <1>2 DEF KeepsPromises
<1> QED
  BY <1>2, <1>8, <1>9, <1>10, <1>11, <1>12, <1>13, <1>14, <1>15, <1>16, RobotKept DEF Stirred

\* A robot is done with a component.
LEMMA ShufflerFinishKeeps ==
    ASSUME IInv, NEW r \in Shufflers, ShufflerFinish(r)
    PROVE  IInv'
<1> DEFINE z == IdleShuffler
<1>1. TypeOK /\ SlotOwned /\ JobsIssued /\ ParkersSleep /\ ComponentsApart /\ Counted
  BY DEF IInv
<1>2. /\ shuffler' = [shuffler EXCEPT ![r] = z]
      /\ shuffler[r].pc = "finish" /\ shuffleJobCh' = shuffleJobCh
      /\ physical' = physical /\ parkingJobCh' = parkingJobCh
      /\ issued' = issued /\ strategy' = strategy /\ shuffling' = shuffling /\ shuffleWG' = shuffleWG - 1
      /\ rec' = rec /\ reserved' = reserved /\ unparkJobCh' = unparkJobCh
      /\ slots' = slots /\ unparker' = unparker /\ parker' = parker
  BY DEF ShufflerFinish, ShufflerMoves, deskVars
<1>3. shuffler \in [Shufflers -> ShufflerStates] /\ shuffler[r].slot = NoSlot
  BY <1>2, RobotFits DEF InStage
<1>4. /\ z \in ShufflerStates /\ z.pc = "idle" /\ z.slot = NoSlot /\ ToSet(z.tickets) = {}
      /\ \A I, R, p, free : Fits(I, R, p, free, z)
  BY IdleFits, Nothing
<1> HIDE DEF z
<1>5. /\ shuffler' \in [Shufflers -> ShufflerStates]
      /\ shuffler'[r] = z /\ \A q \in Shufflers : q # r => shuffler'[q] = shuffler[q]
  BY <1>2, <1>3, <1>4
<1>6. FreeSlots' = FreeSlots
  BY <1>2 DEF FreeSlots
<1>7. Counted' /\ shuffleWG' \in Nat
  <2>1. Busy(shuffler') = Busy(shuffler) \ {r} /\ r \in Busy(shuffler)
    BY <1>2, <1>4, <1>5 DEF Busy
  <2>2. IsFiniteSet(Busy(shuffler)) /\ IsFiniteSet(Busy(shuffler'))
    BY ParkingAssumption, FS_Subset DEF Busy
  <2>3. /\ Cardinality(Busy(shuffler')) = Cardinality(Busy(shuffler)) - 1
        /\ Cardinality(Busy(shuffler)) \in Nat /\ Cardinality(Busy(shuffler')) \in Nat
    BY <2>1, <2>2, FS_RemoveElement, FS_CardinalityType
  <2>4. Len(shuffleJobCh) \in Nat
    BY <1>1 DEF TypeOK
  <2>5. shuffleWG' = Len(shuffleJobCh) + Cardinality(Busy(shuffler'))
    BY <1>1, <1>2, <2>3, <2>4 DEF Counted
  <2>6. shuffling
    BY <1>1, <2>3, <2>4 DEF Counted
  <2> QED
    BY <1>2, <2>3, <2>4, <2>5, <2>6 DEF Counted
<1>8. TypeOK'
  BY <1>1, <1>2, <1>5, <1>7 DEF TypeOK
<1>9. JobsIssued' /\ ParkersSleep'
  BY <1>1, <1>2 DEF JobsIssued, ParkersSleep
<1>10. ComponentsApart'
  <2>1. \A c : Apart(c, z) /\ Apart(z, c)
    BY <1>4 DEF Apart
  <2>2. \A q \in Shufflers : shuffler'[q] = z \/ (shuffler'[q] = shuffler[q] /\ q # r)
    BY <1>5
  <2> QED
    BY <1>1, <1>2, <2>1, <2>2 DEF ComponentsApart
<1>11. SlotOwned'
  <2>1. \A q \in Shufflers : /\ shuffler'[q].slot = shuffler[q].slot
                             /\ shuffler[q].slot # NoSlot => Head(shuffler'[q].tickets) = Head(shuffler[q].tickets)
    BY <1>3, <1>4, <1>5
  <2>3. \A i \in BufferSlots : slots'[i].claimed <=> \E q \in Shufflers : shuffler'[q].slot = i
    BY <1>1, <1>2, <2>1 DEF SlotOwned
  <2>4. \A p, q \in Shufflers :
          shuffler'[p].slot # NoSlot /\ shuffler'[p].slot = shuffler'[q].slot => p = q
    BY <1>1, <2>1 DEF SlotOwned
  <2>5. ASSUME NEW t \in Tickets, rec[t].present, rec[t].slot # NoSlot
        PROVE  /\ slots[rec[t].slot].ticket = t
               /\ \E q \in Shufflers : /\ shuffler'[q].slot = rec[t].slot
                                       /\ Head(shuffler'[q].tickets) = t
    <3>1. PICK q \in Shufflers : shuffler[q].slot = rec[t].slot /\ Head(shuffler[q].tickets) = t
      BY <1>1, <2>5 DEF SlotOwned
    <3> QED
      BY <1>1, <2>1, <2>5, <3>1 DEF SlotOwned
  <2> QED
    BY <1>2, <2>3, <2>4, <2>5 DEF SlotOwned
<1>12. Fits(issued', rec', physical', FreeSlots', shuffler'[r])
  BY <1>4, <1>5
<1>13. KeepsPromises
  BY <1>2 DEF KeepsPromises
<1> QED
  BY <1>2, <1>5, <1>6, <1>7, <1>8, <1>9, <1>10, <1>11, <1>12, <1>13, RobotKept DEF Stirred

\* The first free slot is a free one.
LEMMA FirstFree == FreeSlots # {} => Min(FreeSlots) \in FreeSlots
<1> SUFFICES ASSUME FreeSlots # {} PROVE Min(FreeSlots) \in FreeSlots
  OBVIOUS
<1>1. FreeSlots \in SUBSET Nat
  BY ParkingAssumption DEF FreeSlots
<1>2. PICK i \in FreeSlots : \A k \in FreeSlots : i <= k
  BY <1>1, LeastNumber
<1> QED
  BY <1>2 DEF Min

\* A robot claims a slot for the vehicle that breaks the cycle.
LEMMA ShufflerClaimSlotKeeps ==
    ASSUME IInv, NEW r \in Shufflers, ShufflerClaimSlot(r)
    PROVE  IInv'
<1> DEFINE s == shuffler[r]
           i == Min(FreeSlots)
           b == Head(s.jobs)
           job == [b EXCEPT !.to = BufferSlotID(i)]
           z == [s EXCEPT !.pc = "lift", !.phase = "breaker", !.slot = i, !.jobs = <<job>>]
<1>1. TypeOK /\ SlotOwned /\ JobsIssued /\ ParkersSleep /\ ComponentsApart /\ Counted
  BY DEF IInv
<1>2. /\ s.pc = "claimSlot" /\ FreeSlots # {}
      /\ slots' = [slots EXCEPT ![i].claimed = TRUE]
      /\ shuffler' = [shuffler EXCEPT ![r] = z]
      /\ physical' = physical /\ parkingJobCh' = parkingJobCh
      /\ issued' = issued /\ strategy' = strategy /\ shuffling' = shuffling /\ shuffleWG' = shuffleWG
      /\ rec' = rec /\ reserved' = reserved /\ unparkJobCh' = unparkJobCh
      /\ shuffleJobCh' = shuffleJobCh /\ unparker' = unparker /\ parker' = parker
  BY DEF ShufflerClaimSlot, deskVars
<1>3. /\ shuffler \in [Shufflers -> ShufflerStates] /\ s \in ShufflerStates
      /\ Issues(issued, s) /\ InStage(s) /\ Breaks(s)
  BY RobotFits
<1>4. i \in BufferSlots /\ ~slots[i].claimed /\ i # NoSlot
  BY <1>2, FirstFree, Numbers DEF FreeSlots
<1> HIDE DEF i
<1>5. /\ s.slot = NoSlot /\ s.jobs # << >> /\ s.tickets # << >> /\ b.ticket = Head(s.tickets)
      /\ s.jobs \in Seq(Jobs)
  BY <1>2, <1>3 DEF InStage, Waiting, Breaks, ShufflerStates
<1>6. b \in Jobs /\ b.ticket \in issued
  BY <1>3, <1>5, Taken DEF Issues
<1> HIDE DEF b, s
<1>7. job \in Jobs /\ job.ticket = b.ticket /\ job.to = BufferSlotID(i)
  BY <1>4, <1>6 DEF Jobs, Places
<1> HIDE DEF job
<1> DEFINE m == <<job>>
<1>8. m \in Seq(Jobs) /\ m # << >> /\ DOMAIN m = {1} /\ m[1] = job
  BY <1>7, Single
<1> HIDE DEF m
<1>9. /\ z \in ShufflerStates /\ z.pc = "lift" /\ z.phase = "breaker" /\ z.slot = i
      /\ z.jobs = m /\ z.tickets = s.tickets
  <2>1. z = [s EXCEPT !.pc = "lift", !.phase = "breaker", !.slot = i, !.jobs = m]
    BY DEF m
  <2> HIDE DEF z
  <2> QED
    BY <1>3, <1>4, <1>8, <2>1 DEF ShufflerStates
<1> HIDE DEF z
<1>10. /\ shuffler' \in [Shufflers -> ShufflerStates]
       /\ shuffler'[r] = z /\ \A q \in Shufflers : q # r => shuffler'[q] = shuffler[q]
  BY <1>2, <1>3, <1>9
<1>11. /\ slots' \in [BufferSlots -> [claimed : BOOLEAN, ticket : Tickets \cup {NoTicket}]]
       /\ slots'[i].claimed
       /\ \A k \in BufferSlots : /\ slots'[k].ticket = slots[k].ticket
                                 /\ k # i => slots'[k] = slots[k]
  <2> DEFINE S == [claimed : BOOLEAN, ticket : Tickets \cup {NoTicket}]
             y == [slots[i] EXCEPT !.claimed = TRUE]
  <2>1. slots \in [BufferSlots -> S]
    BY <1>1 DEF TypeOK
  <2>2. y \in S /\ y.claimed = TRUE /\ y.ticket = slots[i].ticket
    BY <1>4, <2>1
  <2>3. slots' = [slots EXCEPT ![i] = y]
    BY <1>2
  <2> HIDE DEF S, y
  <2>4. slots' \in [BufferSlots -> S] /\ slots'[i] = y /\ \A k \in BufferSlots : k # i => slots'[k] = slots[k]
    BY <1>4, <2>1, <2>2, <2>3
  <2> QED
    BY <2>2, <2>4 DEF S
<1>12. FreeSlots' \subseteq FreeSlots
  BY <1>11 DEF FreeSlots
<1>13. TypeOK'
  BY <1>1, <1>2, <1>10, <1>11 DEF TypeOK
<1>14. JobsIssued' /\ ParkersSleep'
  BY <1>1, <1>2 DEF JobsIssued, ParkersSleep
<1>15. ComponentsApart' /\ Counted'
  <2>1. \A q \in Shufflers : /\ ToSet(shuffler'[q].tickets) \subseteq ToSet(shuffler[q].tickets)
                             /\ shuffler'[q].pc = "idle" <=> shuffler[q].pc = "idle"
    BY <1>2, <1>9, <1>10 DEF s
  <2> QED
    BY <1>1, <1>2, <2>1, WorkKept
<1>16. SlotOwned'
  <2>1. ASSUME NEW q \in Shufflers PROVE shuffler[q].slot # i
    BY <1>1, <1>4 DEF SlotOwned
  <2>2. ASSUME NEW k \in BufferSlots
        PROVE  slots'[k].claimed <=> \E q \in Shufflers : shuffler'[q].slot = k
    <3>1. CASE k = i
      BY <1>9, <1>10, <1>11, <3>1
    <3>2. CASE k # i
      <4>1. slots'[k] = slots[k] /\ k # NoSlot
        BY <1>11, <3>2, Numbers
      <4>2. \A q \in Shufflers : shuffler'[q].slot = k <=> shuffler[q].slot = k
        BY <1>5, <1>9, <1>10, <3>2, <4>1 DEF s
      <4> QED
        BY <1>1, <4>1, <4>2 DEF SlotOwned
    <3> QED
      BY <3>1, <3>2
  <2>3. ASSUME NEW p \in Shufflers, NEW q \in Shufflers,
               shuffler'[p].slot # NoSlot, shuffler'[p].slot = shuffler'[q].slot
        PROVE  p = q
    BY <1>1, <1>9, <1>10, <2>1, <2>3 DEF SlotOwned
  <2>4. ASSUME NEW t \in Tickets, rec[t].present, rec[t].slot # NoSlot
        PROVE  /\ slots'[rec[t].slot].ticket = t
               /\ \E q \in Shufflers : /\ shuffler'[q].slot = rec[t].slot
                                       /\ Head(shuffler'[q].tickets) = t
    <3>1. PICK q \in Shufflers : shuffler[q].slot = rec[t].slot /\ Head(shuffler[q].tickets) = t
      BY <1>1, <2>4 DEF SlotOwned
    <3>2. q # r
      BY <1>5, <2>4, <3>1 DEF s
    <3>3. rec[t].slot \in BufferSlots /\ slots[rec[t].slot].ticket = t
      BY <1>1, <2>4 DEF SlotOwned, TypeOK, Records
    <3> QED
      BY <1>10, <1>11, <3>1, <3>2, <3>3
  <2> QED
    BY <1>2, <2>2, <2>3, <2>4 DEF SlotOwned
<1>17. Fits(issued', rec', physical', FreeSlots', shuffler'[r])
  <2>1. Issues(issued, z) /\ InStage(z)
    BY <1>3, <1>4, <1>6, <1>7, <1>8, <1>9 DEF Issues, InStage, Waiting, Carrying, SlotPhases
  <2>2. Breaks(z)
    BY <1>4, <1>5, <1>7, <1>8, <1>9 DEF Breaks
  <2>3. Emptied(rec, z) /\ Sleeps(physical, rec, FreeSlots', z)
    BY <1>9 DEF Emptied, Sleeps
  <2> QED
    BY <1>2, <1>10, <2>1, <2>2, <2>3 DEF Fits
<1>18. KeepsPromises
  BY <1>2 DEF KeepsPromises
<1> QED
  BY <1>2, <1>10, <1>12, <1>13, <1>14, <1>15, <1>16, <1>17, <1>18, RobotKept DEF Stirred

\* A robot gives its slot back, and the robots that wait for one hear of it.
LEMMA ShufflerReleaseKeeps ==
    ASSUME IInv, NEW r \in Shufflers, ShufflerRelease(r)
    PROVE  IInv'
<1> DEFINE s == shuffler[r]
           i == s.slot
           z == [s EXCEPT !.pc = "finish", !.slot = NoSlot]
           ended == [shuffler EXCEPT ![r] = z]
           y == [claimed |-> FALSE, ticket |-> NoTicket]
<1>1. TypeOK /\ SlotOwned /\ JobsIssued /\ ParkersSleep /\ ComponentsApart /\ Counted
  BY DEF IInv
<1>2. /\ s.pc = "release"
      /\ slots' = [slots EXCEPT ![i] = y]
      /\ shuffler' = WakeSlot([shuffler EXCEPT ![r].pc = "finish", ![r].slot = NoSlot])
      /\ physical' = physical /\ parkingJobCh' = parkingJobCh
      /\ issued' = issued /\ strategy' = strategy /\ shuffling' = shuffling /\ shuffleWG' = shuffleWG
      /\ rec' = rec /\ reserved' = reserved /\ unparkJobCh' = unparkJobCh
      /\ shuffleJobCh' = shuffleJobCh /\ unparker' = unparker /\ parker' = parker
  BY DEF ShufflerRelease, deskVars
<1>3. /\ shuffler \in [Shufflers -> ShufflerStates] /\ s \in ShufflerStates
      /\ Issues(issued, s) /\ InStage(s) /\ Breaks(s) /\ Emptied(rec, s)
  BY RobotFits
<1>4. /\ i # NoSlot /\ i \in BufferSlots /\ s.phase \in {"rest", "home"}
      /\ \A t \in Tickets : rec[t].present => rec[t].slot # i
  BY <1>2, <1>3 DEF InStage, Emptied, ShufflerStates
<1>5. [shuffler EXCEPT ![r].pc = "finish", ![r].slot = NoSlot] = ended
  BY <1>3
<1> HIDE DEF i
<1>6. /\ z \in ShufflerStates /\ z.pc = "finish" /\ z.phase = s.phase /\ z.slot = NoSlot
      /\ z.jobs = s.jobs /\ z.tickets = s.tickets
  <2> HIDE DEF s
  <2> QED
    BY <1>3 DEF ShufflerStates
<1> HIDE DEF z
<1>7. ended \in [Shufflers -> ShufflerStates] /\ ended[r] = z
      /\ \A q \in Shufflers : q # r => ended[q] = shuffler[q]
  BY <1>3, <1>6
<1> HIDE DEF ended
<1>8. /\ shuffler' \in [Shufflers -> ShufflerStates]
      /\ \A q \in Shufflers : Stirred(ended[q], shuffler'[q]) /\ shuffler'[q].pc # "onSlot"
  BY <1>2, <1>5, <1>7, Broadcasts
<1>9. shuffler'[r] = z /\ \A q \in Shufflers : q # r => Stirred(shuffler[q], shuffler'[q])
  BY <1>6, <1>7, <1>8 DEF Stirred
<1>10. /\ slots' \in [BufferSlots -> [claimed : BOOLEAN, ticket : Tickets \cup {NoTicket}]]
       /\ ~slots'[i].claimed
       /\ \A k \in BufferSlots : k # i => slots'[k] = slots[k]
  <2> DEFINE S == [claimed : BOOLEAN, ticket : Tickets \cup {NoTicket}]
  <2>1. slots \in [BufferSlots -> S]
    BY <1>1 DEF TypeOK
  <2>2. y \in S /\ y.claimed = FALSE
    OBVIOUS
  <2> HIDE DEF S, y
  <2>4. slots' \in [BufferSlots -> S] /\ slots'[i] = y /\ \A k \in BufferSlots : k # i => slots'[k] = slots[k]
    BY <1>2, <1>4, <2>1, <2>2
  <2> QED
    BY <2>2, <2>4 DEF S
<1>13. TypeOK'
  BY <1>1, <1>2, <1>8, <1>10 DEF TypeOK
<1>14. JobsIssued' /\ ParkersSleep'
  BY <1>1, <1>2 DEF JobsIssued, ParkersSleep
<1>15. ASSUME NEW q \in Shufflers, q # r
       PROVE  /\ shuffler'[q].tickets = shuffler[q].tickets /\ shuffler'[q].slot = shuffler[q].slot
              /\ shuffler'[q].pc = "idle" <=> shuffler[q].pc = "idle"
  <2>1. shuffler[q] \in ShufflerStates /\ Stirred(shuffler[q], shuffler'[q])
    BY <1>3, <1>9, <1>15
  <2> QED
    BY <2>1, StirredFields
<1>16. ComponentsApart' /\ Counted'
  <2>1. \A q \in Shufflers : /\ ToSet(shuffler'[q].tickets) \subseteq ToSet(shuffler[q].tickets)
                             /\ shuffler'[q].pc = "idle" <=> shuffler[q].pc = "idle"
    BY <1>2, <1>6, <1>9, <1>15
  <2> QED
    BY <1>1, <1>2, <2>1, WorkKept
<1>17. SlotOwned'
  <2>1. ASSUME NEW q \in Shufflers, q # r PROVE shuffler[q].slot # i
    BY <1>1, <1>4, <2>1 DEF SlotOwned, i
  <2>2. ASSUME NEW k \in BufferSlots
        PROVE  slots'[k].claimed <=> \E q \in Shufflers : shuffler'[q].slot = k
    <3>0. k # NoSlot
      BY Numbers
    <3>1. CASE k = i
      <4>1. \A q \in Shufflers : shuffler'[q].slot # k
        BY <1>6, <1>9, <1>15, <2>1, <3>0, <3>1
      <4> QED
        BY <1>10, <3>1, <4>1
    <3>2. CASE k # i
      <4>1. slots'[k] = slots[k]
        BY <1>10, <3>2
      <4>2. \A q \in Shufflers : shuffler'[q].slot = k <=> shuffler[q].slot = k
        BY <1>6, <1>9, <1>15, <3>0, <3>2 DEF i
      <4> QED
        BY <1>1, <4>1, <4>2 DEF SlotOwned
    <3> QED
      BY <3>1, <3>2
  <2>3. ASSUME NEW p \in Shufflers, NEW q \in Shufflers,
               shuffler'[p].slot # NoSlot, shuffler'[p].slot = shuffler'[q].slot
        PROVE  p = q
    <3>1. p # r /\ q # r
      BY <1>6, <1>9, <2>3
    <3> QED
      BY <1>1, <1>15, <2>3, <3>1 DEF SlotOwned
  <2>4. ASSUME NEW t \in Tickets, rec[t].present, rec[t].slot # NoSlot
        PROVE  /\ slots'[rec[t].slot].ticket = t
               /\ \E q \in Shufflers : /\ shuffler'[q].slot = rec[t].slot
                                       /\ Head(shuffler'[q].tickets) = t
    <3>1. PICK q \in Shufflers : shuffler[q].slot = rec[t].slot /\ Head(shuffler[q].tickets) = t
      BY <1>1, <2>4 DEF SlotOwned
    <3>2. rec[t].slot # i
      BY <1>4, <2>4
    <3>3. q # r
      BY <3>1, <3>2 DEF i
    <3>4. rec[t].slot \in BufferSlots /\ slots[rec[t].slot].ticket = t
      BY <1>1, <2>4 DEF SlotOwned, TypeOK, Records
    <3>5. slots'[rec[t].slot].ticket = t
      BY <1>10, <3>2, <3>4
    <3> QED
      BY <1>15, <3>1, <3>3, <3>5
  <2>5. \A t \in Tickets : rec'[t].present /\ rec'[t].slot # NoSlot =>
            /\ slots'[rec'[t].slot].ticket = t
            /\ \E q \in Shufflers : /\ shuffler'[q].slot = rec'[t].slot
                                    /\ Head(shuffler'[q].tickets) = t
    <3>1. rec' = rec
      BY <1>2
    <3> QED
      BY <2>4, <3>1
  <2> QED
    BY <2>2, <2>3, <2>5, Zenon DEF SlotOwned
<1>18. Fits(issued', rec', physical', FreeSlots', shuffler'[r])
  <2>1. Issues(issued, z) /\ InStage(z)
    BY <1>3, <1>6 DEF Issues, InStage, Waiting, Carrying, SlotPhases
  <2>2. Breaks(z)
    <3>1. \A k \in DOMAIN z.jobs : ~IsBufferSlotID(z.jobs[k].to)
      BY <1>3, <1>4, <1>6 DEF Breaks
    <3> QED
      BY <1>6, <3>1 DEF Breaks, Carrying
  <2>3. Emptied(rec, z) /\ Sleeps(physical, rec, FreeSlots', z)
    BY <1>6 DEF Emptied, Sleeps, Carrying
  <2> QED
    BY <1>2, <1>9, <2>1, <2>2, <2>3 DEF Fits
<1>19. KeepsPromises
  BY <1>2 DEF KeepsPromises
<1> QED
  BY <1>2, <1>8, <1>9, <1>13, <1>14, <1>16, <1>17, <1>18, <1>19, RobotKept

\* A robot passes on the vehicle that was asked back on the way.
LEMMA ShufflerSendKeeps ==
    ASSUME IInv, NEW r \in Shufflers, ShufflerSend(r)
    PROVE  IInv'
<1> DEFINE s == shuffler[r]
           z == AfterJob(s)
<1>1. TypeOK /\ SlotOwned /\ JobsIssued /\ ParkersSleep /\ ComponentsApart /\ Counted
  BY DEF IInv
<1>2. /\ s.pc = "send" /\ Len(unparkJobCh) < UnparkCap
      /\ unparkJobCh' = Append(unparkJobCh, Head(s.jobs).ticket)
      /\ shuffler' = [shuffler EXCEPT ![r] = z]
      /\ physical' = physical /\ parkingJobCh' = parkingJobCh
      /\ issued' = issued /\ strategy' = strategy /\ shuffling' = shuffling /\ shuffleWG' = shuffleWG
      /\ rec' = rec /\ reserved' = reserved /\ slots' = slots
      /\ shuffleJobCh' = shuffleJobCh /\ unparker' = unparker /\ parker' = parker
  BY DEF ShufflerSend, deskVars
<1>3. /\ shuffler \in [Shufflers -> ShufflerStates] /\ s \in ShufflerStates
      /\ Issues(issued, s) /\ InStage(s) /\ Breaks(s) /\ Emptied(rec, s)
  BY RobotFits
<1>4. s.pc \in Carrying /\ s.jobs # << >> /\ s.jobs \in Seq(Jobs)
  BY <1>2, <1>3 DEF InStage, Carrying, ShufflerStates
<1>5. Head(s.jobs).ticket \in issued
  BY <1>3, <1>4, Taken DEF Issues
<1>6. s.phase = "home" => \A t \in Tickets : rec[t].present => rec[t].slot # s.slot
  BY <1>2, <1>3 DEF Emptied, Carrying
<1> HIDE DEF s
<1>7. z \in ShufflerStates /\ Steady(s, z) /\ Fits(issued, rec, physical, FreeSlots, z)
  BY <1>3, <1>4, <1>6, AfterJobFits
<1>8. /\ unparkJobCh' \in Seq(Tickets) /\ Len(unparkJobCh') <= UnparkCap
      /\ \A i \in DOMAIN unparkJobCh' : unparkJobCh'[i] \in issued
  BY <1>1, <1>2, <1>5, Sent
<1> HIDE DEF z
<1>9. /\ shuffler' \in [Shufflers -> ShufflerStates]
      /\ shuffler'[r] = z /\ \A q \in Shufflers : q # r => shuffler'[q] = shuffler[q]
  BY <1>2, <1>3, <1>7
<1>10. FreeSlots' = FreeSlots
  BY <1>2 DEF FreeSlots
<1>11. TypeOK'
  BY <1>1, <1>2, <1>8, <1>9 DEF TypeOK
<1>12. JobsIssued' /\ ParkersSleep'
  BY <1>1, <1>2, <1>8 DEF JobsIssued, ParkersSleep
<1>13. ShufflersSteady /\ ComponentsApart' /\ Counted'
  BY <1>2, <1>7, <1>9, GoesOn DEF Stirred, s
<1>14. SlotOwned'
  BY <1>1, <1>2, <1>13, SlotsKept
<1>15. KeepsPromises
  BY <1>2 DEF KeepsPromises
<1>16. Fits(issued', rec', physical', FreeSlots', shuffler'[r])
  BY <1>2, <1>7, <1>9, <1>10
<1> QED
  BY <1>2, <1>9, <1>10, <1>11, <1>12, <1>13, <1>14, <1>15, <1>16, RobotKept DEF Stirred

\* The first job of a robot that carries a vehicle.
LEMMA JobAtHand ==
    ASSUME IInv, NEW r \in Shufflers, shuffler[r].pc \in Carrying
    PROVE  /\ Head(shuffler[r].jobs) \in Jobs
           /\ Head(shuffler[r].jobs).ticket \in issued /\ Head(shuffler[r].jobs).ticket \in Tickets
           /\ Head(shuffler[r].jobs) = shuffler[r].jobs[1] /\ 1 \in DOMAIN shuffler[r].jobs
           /\ rec[Head(shuffler[r].jobs).ticket] \in Records
           /\ rec[Head(shuffler[r].jobs).ticket].target \in Floors
<1>1. shuffler[r].jobs # << >> /\ shuffler[r].jobs \in Seq(Jobs)
  BY RobotFits DEF InStage, ShufflerStates
<1>2. Head(shuffler[r].jobs) \in Jobs /\ Head(shuffler[r].jobs) = shuffler[r].jobs[1]
      /\ 1 \in DOMAIN shuffler[r].jobs
  BY <1>1, Taken
<1>3. Head(shuffler[r].jobs).ticket \in issued
  BY <1>2, RobotFits DEF Issues
<1> QED
  BY <1>2, <1>3, RobotFits DEF IInv, VisitsIssued

\* A vehicle that is lifted: its record, whatever it is lifted from.
LEMMA LiftedRecord ==
    ASSUME rec \in [Tickets -> Records], NEW t \in Tickets,
           rec' = [rec EXCEPT ![t] = [@ EXCEPT !.floor = NoFloor, !.slot = NoSlot,
                                               !.status = "REARRANGING"]]
    PROVE  /\ rec' \in [Tickets -> Records]
           /\ \A u \in Tickets : /\ rec'[u].present = rec[u].present /\ rec'[u].unpark = rec[u].unpark
                                 /\ rec'[u].target = rec[u].target
                                 /\ rec'[u].slot = IF u = t THEN NoSlot ELSE rec[u].slot
                                 /\ Late(rec[u]) => Late(rec'[u])
<1> DEFINE e == [rec[t] EXCEPT !.floor = NoFloor, !.slot = NoSlot, !.status = "REARRANGING"]
<1>1. rec[t] \in Records
  OBVIOUS
<1>2. /\ e \in Records /\ e.present = rec[t].present /\ e.unpark = rec[t].unpark
      /\ e.target = rec[t].target /\ e.slot = NoSlot /\ e.status = "REARRANGING"
  BY <1>1 DEF Records
<1>3. rec' = [rec EXCEPT ![t] = e]
  OBVIOUS
<1> HIDE DEF e
<1>4. rec' \in [Tickets -> Records] /\ rec'[t] = e /\ \A u \in Tickets : u # t => rec'[u] = rec[u]
  BY <1>2, <1>3
<1>5. Late(rec[t]) => Late(e)
  BY <1>2 DEF Late
<1> QED
  BY <1>2, <1>4, <1>5

\* A robot lifts a vehicle out of its slot or from its floor.
LEMMA ShufflerLiftKeeps ==
    ASSUME IInv, NEW r \in Shufflers, ShufflerLift(r)
    PROVE  IInv'
<1> DEFINE s == shuffler[r]
           job == Head(s.jobs)
           t == job.ticket
           i == rec[t].slot
           f == job.from
           z == [s EXCEPT !.pc = "carry"]
           lifted == [shuffler EXCEPT ![r] = z]
<1>1. TypeOK /\ SlotOwned /\ JobsIssued /\ ParkersSleep /\ ComponentsApart /\ Counted
  BY DEF IInv
<1>2. /\ s.pc = "lift" /\ Liftable(job)
      /\ parkingJobCh' = parkingJobCh /\ unparkJobCh' = unparkJobCh
      /\ issued' = issued /\ strategy' = strategy /\ shuffling' = shuffling /\ shuffleWG' = shuffleWG
      /\ reserved' = reserved
      /\ shuffleJobCh' = shuffleJobCh /\ unparker' = unparker
  BY DEF ShufflerLift, deskVars
<1>23. rec' = [rec EXCEPT ![t] = [@ EXCEPT !.floor = NoFloor, !.slot = NoSlot,
                                           !.status = "REARRANGING"]]
  BY Zenon DEF ShufflerLift
<1>24. [shuffler EXCEPT ![r].pc = "carry"] = lifted
  OBVIOUS
<1>25. IF IsBufferSlotID(f)
       THEN /\ slots' = [slots EXCEPT ![i].ticket = NoTicket]
            /\ shuffler' = [shuffler EXCEPT ![r].pc = "carry"]
            /\ UNCHANGED <<physical, parker>>
       ELSE /\ physical' = [physical EXCEPT ![f] = @ - Space(t)]
            /\ parker' = WakeParkers(f, parker)
            /\ shuffler' = WakeShufflers(f, [shuffler EXCEPT ![r].pc = "carry"])
            /\ UNCHANGED slots
  BY Zenon DEF ShufflerLift
<1>3. \/ /\ IsBufferSlotID(f)
         /\ slots' = [slots EXCEPT ![i].ticket = NoTicket]
         /\ shuffler' = lifted /\ physical' = physical /\ parker' = parker
      \/ /\ ~IsBufferSlotID(f)
         /\ physical' = [physical EXCEPT ![f] = @ - Space(t)]
         /\ parker' = WakeParkers(f, parker)
         /\ shuffler' = WakeShufflers(f, lifted)
         /\ slots' = slots
  <2> HIDE DEF f, i, lifted, t
  <2> QED
    BY <1>24, <1>25
<1>4. /\ shuffler \in [Shufflers -> ShufflerStates] /\ s \in ShufflerStates
      /\ Issues(issued, s) /\ InStage(s) /\ Breaks(s) /\ Emptied(rec, s)
      /\ rec \in [Tickets -> Records] /\ physical \in [Floors -> Int]
  BY RobotFits
<1>5. s.pc \in Carrying /\ s.pc # "idle"
  BY <1>2 DEF Carrying
<1>6. job \in Jobs /\ t \in issued /\ t \in Tickets /\ rec[t] \in Records
  BY <1>5, JobAtHand
<1>7. rec[t].present /\ i \in BufferSlots \cup {NoSlot} /\ f \in Places
  BY <1>2, <1>6 DEF Liftable, Records, Jobs
<1>8. IF IsBufferSlotID(f) THEN BufferSlotID(i) = f ELSE i = NoSlot /\ rec[t].floor = f
  BY <1>2 DEF Liftable
<1>9. /\ rec' \in [Tickets -> Records]
      /\ \A u \in Tickets : /\ rec'[u].present = rec[u].present /\ rec'[u].unpark = rec[u].unpark
                            /\ rec'[u].target = rec[u].target
                            /\ rec'[u].slot = IF u = t THEN NoSlot ELSE rec[u].slot
                            /\ Late(rec[u]) => Late(rec'[u])
  <2> HIDE DEF t
  <2> QED
    BY <1>4, <1>6, <1>23, LiftedRecord
<1>10. s.phase = "home" => job.ticket = Head(s.tickets) /\ f = BufferSlotID(s.slot)
                           /\ s.slot \in BufferSlots /\ s.slot # NoSlot
  BY <1>4, <1>5 DEF Breaks, InStage, SlotPhases, ShufflerStates
<1>11. /\ z \in ShufflerStates /\ z.pc = "carry" /\ z.phase = s.phase /\ z.slot = s.slot
       /\ z.jobs = s.jobs /\ z.tickets = s.tickets
  <2>1. s \in ShufflerStates /\ z = [s EXCEPT !.pc = "carry"]
    BY <1>4
  <2> HIDE DEF s, z
  <2> QED
    BY <2>1 DEF ShufflerStates
<1>12. Steady(s, z)
  BY <1>5, <1>11 DEF Steady
<1>13. KeepsPromises
  BY <1>2, <1>9 DEF KeepsPromises
<1>14. \A u \in Tickets : rec'[u].present /\ rec'[u].slot # NoSlot
                              => rec[u].present /\ rec[u].slot = rec'[u].slot /\ u # t
  BY <1>9
<1>15. \A q \in Shufflers : \A u \in Tickets :
               rec'[u].present /\ rec'[u].slot = shuffler[q].slot /\ shuffler[q].slot # NoSlot
                   => rec[u].present /\ rec[u].slot = shuffler[q].slot
  BY <1>14
<1>16. Emptied(rec', z)
  <2> SUFFICES ASSUME s.phase = "home", NEW u \in Tickets, rec'[u].present, rec'[u].slot = s.slot
               PROVE  FALSE
    BY <1>11 DEF Emptied
  <2>1. u # t /\ rec[u].present /\ rec[u].slot = s.slot
    BY <1>10, <1>14
  <2>2. Head(s.tickets) = u
    BY <1>10, <2>1, SlotMate
  <2> QED
    BY <1>10, <2>1, <2>2
<1>17. \A p, free : Fits(issued, rec', p, free, z)
  <2>1. Issues(issued, z) /\ InStage(z)
    BY <1>4, <1>5, <1>11 DEF Issues, InStage, Waiting, Carrying
  <2>2. Breaks(z)
    BY <1>4, <1>5, <1>11 DEF Breaks, Carrying
  <2>3. \A p, free : Sleeps(p, rec', free, z)
    BY <1>11 DEF Sleeps
  <2> QED
    BY <1>16, <2>1, <2>2, <2>3 DEF Fits
<1>18. \A q \in Unparkers : unparker[q].pc # "idle" =>
          /\ unparker[q].ticket \in issued
          /\ unparker[q].pc = "moving" => rec'[unparker[q].ticket].unpark
  BY <1>1, <1>9 DEF JobsIssued, TypeOK
<1>19. \A q \in Shufflers : ToSet(shuffler[q].tickets) \subseteq Tickets
  BY RobotFits
<1> HIDE DEF z
<1>20. lifted \in [Shufflers -> ShufflerStates] /\ lifted[r] = z
       /\ \A q \in Shufflers : q # r => lifted[q] = shuffler[q]
  BY <1>4, <1>11
<1> HIDE DEF lifted
<1>21. CASE /\ IsBufferSlotID(f)
            /\ slots' = [slots EXCEPT ![i].ticket = NoTicket]
            /\ shuffler' = lifted /\ physical' = physical /\ parker' = parker
  <2>1. i \in BufferSlots
    <3>1. BufferSlotID(i) = f /\ f - BufferSlotIDBase \in BufferSlots /\ i \in Int /\ BufferSlotIDBase \in Int
      <4>1. BufferSlotIDBase \in Int
        BY SMT DEF BufferSlotIDBase
      <4>2. BufferSlotID(i) = f /\ f - BufferSlotIDBase \in BufferSlots
        BY <1>8, <1>21 DEF IsBufferSlotID
      <4>3. i \in Int
        <5>1. BufferSlots \cup {NoSlot} \subseteq Int
          BY ParkingAssumption, SMT DEF NoSlot
        <5> HIDE DEF i
        <5> QED
          BY <1>7, <5>1
      <4> QED
        BY <4>1, <4>2, <4>3
    <3>2. f - BufferSlotIDBase = i
      BY <3>1 DEF BufferSlotID
    <3> QED
      BY <3>1, <3>2
  <2> HIDE DEF i
  <2>2. /\ slots' \in [BufferSlots -> [claimed : BOOLEAN, ticket : Tickets \cup {NoTicket}]]
        /\ \A k \in BufferSlots : /\ slots'[k].claimed = slots[k].claimed
                                  /\ k # i => slots'[k] = slots[k]
    <3> DEFINE S == [claimed : BOOLEAN, ticket : Tickets \cup {NoTicket}]
               y == [slots[i] EXCEPT !.ticket = NoTicket]
    <3>1. slots \in [BufferSlots -> S]
      BY <1>1 DEF TypeOK
    <3>2. y \in S /\ y.claimed = slots[i].claimed
      BY <2>1, <3>1
    <3>3. slots' = [slots EXCEPT ![i] = y]
      BY <1>21
    <3> HIDE DEF S, y
    <3>4. slots' \in [BufferSlots -> S] /\ slots'[i] = y /\ \A k \in BufferSlots : k # i => slots'[k] = slots[k]
      BY <2>1, <3>1, <3>2, <3>3
    <3> QED
      BY <3>2, <3>4 DEF S
  <2>3. FreeSlots' = FreeSlots
    BY <2>2 DEF FreeSlots
  <2>4. TypeOK'
    BY <1>1, <1>2, <1>9, <1>20, <1>21, <2>2 DEF TypeOK
  <2>5. JobsIssued' /\ ParkersSleep'
    BY <1>1, <1>2, <1>18, <1>21 DEF JobsIssued, ParkersSleep
  <2>6. ShufflersSteady /\ ComponentsApart' /\ Counted'
    BY <1>2, <1>12, <1>20, <1>21, GoesOn DEF Stirred
  <2>7. SlotOwned'
    <3>1. \A k \in BufferSlots : slots'[k].claimed <=> \E q \in Shufflers : shuffler'[q].slot = k
      BY <1>1, <2>2, <2>6 DEF SlotOwned, ShufflersSteady, Steady
    <3>2. \A p, q \in Shufflers :
            shuffler'[p].slot # NoSlot /\ shuffler'[p].slot = shuffler'[q].slot => p = q
      BY <1>1, <2>6 DEF SlotOwned, ShufflersSteady, Steady
    <3>3. ASSUME NEW u \in Tickets, rec'[u].present, rec'[u].slot # NoSlot
          PROVE  /\ slots'[rec'[u].slot].ticket = u
                 /\ \E q \in Shufflers : /\ shuffler'[q].slot = rec'[u].slot
                                         /\ Head(shuffler'[q].tickets) = u
      <4>1. rec[u].present /\ rec[u].slot = rec'[u].slot /\ u # t
        BY <1>14, <3>3
      <4>2. PICK q \in Shufflers : shuffler[q].slot = rec[u].slot /\ Head(shuffler[q].tickets) = u
        BY <1>1, <3>3, <4>1 DEF SlotOwned
      <4>3. slots[rec[u].slot].ticket = u /\ rec[u].slot \in BufferSlots
        BY <1>1, <3>3, <4>1 DEF SlotOwned, TypeOK, Records
      <4>4. slots[i].ticket = t
        BY <1>1, <1>6, <1>7, <2>1, Numbers DEF SlotOwned, i
      <4>5. slots'[rec[u].slot] = slots[rec[u].slot]
        BY <2>2, <4>1, <4>3, <4>4
      <4>6. shuffler'[q].slot = shuffler[q].slot /\ Head(shuffler'[q].tickets) = u
        BY <2>6, <3>3, <4>1, <4>2 DEF ShufflersSteady, Steady
      <4> QED
        BY <4>1, <4>2, <4>3, <4>5, <4>6
    <3> QED
      BY <3>1, <3>2, <3>3 DEF SlotOwned
  <2>8. Fits(issued', rec', physical', FreeSlots', shuffler'[r])
    BY <1>2, <1>17, <1>20, <1>21
  <2>9. \A q \in Shufflers : q # r => Stirred(shuffler[q], shuffler'[q])
    BY <1>20, <1>21 DEF Stirred
  <2>10. \A q \in Shufflers : q # r => \A u \in ToSet(shuffler'[q].tickets) : Late(rec[u]) => Late(rec'[u])
    BY <1>9, <1>19, <1>20, <1>21
  <2> QED
    BY <1>13, <1>15, <1>21, <2>3, <2>4, <2>5, <2>6, <2>7, <2>8, <2>9, <2>10, RobotKept
<1>22. CASE /\ ~IsBufferSlotID(f)
            /\ physical' = [physical EXCEPT ![f] = @ - Space(t)]
            /\ parker' = WakeParkers(f, parker)
            /\ shuffler' = WakeShufflers(f, lifted)
            /\ slots' = slots
  <2> DEFINE d == physical[f] - Space(t)
  <2>1. f \in Floors
    BY <1>7, <1>22, Numbers
  <2>2. d \in Int /\ physical' = [physical EXCEPT ![f] = d]
    <3>1. Space(t) \in Nat /\ physical[f] \in Int
      BY <1>4, <1>6, <2>1, SpaceType
    <3> QED
      BY <1>22, <3>1
  <2> HIDE DEF d, f
  <2>3. /\ parker' \in [Parkers -> ParkerStates]
        /\ \A q \in Parkers : /\ parker'[q].ticket = parker[q].ticket
                              /\ parker'[q].floor = parker[q].floor
                              /\ parker[q].pc = "idle" => parker'[q].pc = "idle"
        /\ ParkersSleep'
    BY <1>1, <1>22, <2>1, <2>2, ParkersWoken DEF ParkerStates
  <2>4. /\ shuffler' \in [Shufflers -> ShufflerStates]
        /\ \A q \in Shufflers :
                       /\ Stirred(lifted[q], shuffler'[q])
                       /\ shuffler'[q].pc = "onFloor" => shuffler'[q].floor # f
    BY <1>20, <1>22, <2>1, Broadcasts
  <2>5. shuffler'[r] = z /\ \A q \in Shufflers : q # r => Stirred(shuffler[q], shuffler'[q])
    BY <1>11, <1>20, <2>4 DEF Stirred
  <2>6. physical' \in [Floors -> Int] /\ \A g \in Floors : g # f => physical'[g] = physical[g]
    BY <1>4, <2>1, <2>2
  <2>7. TypeOK'
    BY <1>1, <1>2, <1>9, <1>22, <2>3, <2>4, <2>6 DEF TypeOK, ParkerStates
  <2>8. JobsIssued'
    <3>1. ASSUME NEW q \in Parkers, parker'[q].pc # "idle"
          PROVE  parker'[q].ticket \in issued /\ parker'[q].floor \in Floors
      <4>1. parker[q].pc # "idle"
        BY <2>3, <3>1
      <4>2. parker[q].ticket \in issued /\ parker[q].floor \in Floors
        BY <1>1, <4>1 DEF JobsIssued
      <4> QED
        BY <2>3, <4>2
    <3> QED
      BY <1>1, <1>2, <1>18, <3>1 DEF JobsIssued
  <2>9. ShufflersSteady /\ ComponentsApart' /\ Counted'
    BY <1>2, <1>12, <2>5, GoesOn
  <2>10. SlotOwned'
    BY <1>1, <1>14, <1>22, <2>9, SlotsKept
  <2>11. FreeSlots' = FreeSlots
    BY <1>22 DEF FreeSlots
  <2>12. Fits(issued', rec', physical', FreeSlots', shuffler'[r])
    BY <1>2, <1>17, <2>5
  <2>13. ASSUME NEW q \in Shufflers, q # r
         PROVE  /\ shuffler'[q].tickets = shuffler[q].tickets
                /\ shuffler'[q].pc = "onFloor" => physical'[shuffler'[q].floor] = physical[shuffler'[q].floor]
    <3>1. /\ shuffler'[q].tickets = shuffler[q].tickets /\ shuffler'[q].floor = shuffler[q].floor
          /\ shuffler'[q].pc = "onFloor" => shuffler[q].pc = "onFloor"
      BY <1>4, <2>5, <2>13, StirredFields
    <3>2. shuffler[q].pc = "onFloor" => shuffler[q].floor \in Floors
      BY RobotFits DEF Issues
    <3> QED
      BY <2>4, <2>6, <3>1, <3>2
  <2>14. \A q \in Shufflers : q # r => \A u \in ToSet(shuffler'[q].tickets) : Late(rec[u]) => Late(rec'[u])
    BY <1>9, <1>19, <2>13
  <2> QED
    BY <1>13, <1>15, <2>3, <2>5, <2>7, <2>8, <2>9, <2>10, <2>11, <2>12, <2>13, <2>14, RobotKept
<1> QED
  BY <1>3, <1>21, <1>22

\* A robot that goes on and makes its Broadcast on shuffleWake.
LEMMA Announced ==
    ASSUME shuffler \in [Shufflers -> ShufflerStates], NEW r \in Shufflers,
           NEW z \in ShufflerStates, z.pc \notin {"onFloor", "onWake", "onSlot"},
           shuffler' = WakeReady([shuffler EXCEPT ![r] = z])
    PROVE  /\ shuffler' \in [Shufflers -> ShufflerStates]
           /\ shuffler'[r] = z
           /\ \A q \in Shufflers : q # r => Stirred(shuffler[q], shuffler'[q])
           /\ \A q \in Shufflers : shuffler'[q].pc # "onWake"
<1> DEFINE moved == [shuffler EXCEPT ![r] = z]
<1>1. /\ moved \in [Shufflers -> ShufflerStates] /\ moved[r] = z
      /\ \A q \in Shufflers : q # r => moved[q] = shuffler[q]
  OBVIOUS
<1>2. shuffler' = WakeReady(moved)
  OBVIOUS
<1> HIDE DEF moved
<1>3. /\ shuffler' \in [Shufflers -> ShufflerStates]
      /\ \A q \in Shufflers : Stirred(moved[q], shuffler'[q]) /\ shuffler'[q].pc # "onWake"
  <2>1. /\ WakeReady(moved) \in [Shufflers -> ShufflerStates]
        /\ \A q \in Shufflers : /\ Stirred(moved[q], WakeReady(moved)[q])
                                 /\ WakeReady(moved)[q].pc # "onWake"
    BY Zenon, <1>1, Broadcasts
  <2> QED
    BY Zenon, <1>2, <2>1
<1>4. shuffler'[r] = z
  BY <1>1, <1>3 DEF Stirred
<1> QED
  BY <1>1, <1>3, <1>4

\* A record that changes in its place and its status only.
LEMMA RecordMoved ==
    ASSUME rec \in [Tickets -> Records], NEW t \in Tickets, NEW e \in Records,
           e.present = rec[t].present, e.unpark = rec[t].unpark, e.target = rec[t].target,
           rec' = [rec EXCEPT ![t] = e]
    PROVE  /\ rec' \in [Tickets -> Records] /\ rec'[t] = e
           /\ \A u \in Tickets : /\ rec'[u].present = rec[u].present
                                 /\ rec'[u].unpark = rec[u].unpark
                                 /\ rec'[u].target = rec[u].target
                                 /\ u # t => rec'[u] = rec[u]
<1>1. rec' \in [Tickets -> Records] /\ rec'[t] = e /\ \A u \in Tickets : u # t => rec'[u] = rec[u]
  OBVIOUS
<1> QED
  BY <1>1

\* The vehicle that breaks the cycle goes into the slot of its robot.
LEMMA ShufflerBufferKeeps ==
    ASSUME IInv, NEW r \in Shufflers, ShufflerBuffer(r)
    PROVE  IInv'
<1> DEFINE s == shuffler[r]
           job == Head(s.jobs)
           t == job.ticket
           i == job.to - BufferSlotIDBase
           z == AfterJob(s)
           e == [rec[t] EXCEPT !.slot = i, !.status = "PARKED"]
<1>1. TypeOK /\ SlotOwned /\ JobsIssued /\ ParkersSleep /\ ComponentsApart /\ Counted
  BY DEF IInv
<1>2. /\ s.pc = "carry" /\ rec[t].present /\ IsBufferSlotID(job.to)
      /\ slots' = [slots EXCEPT ![i].ticket = t]
      /\ physical' = physical /\ parkingJobCh' = parkingJobCh /\ unparkJobCh' = unparkJobCh
      /\ issued' = issued /\ strategy' = strategy /\ shuffling' = shuffling /\ shuffleWG' = shuffleWG
      /\ reserved' = reserved
      /\ shuffleJobCh' = shuffleJobCh /\ unparker' = unparker /\ parker' = parker
  BY DEF ShufflerBuffer, deskVars
<1>3. rec' = [rec EXCEPT ![t] = [@ EXCEPT !.slot = i, !.status = "PARKED"]]
  BY Zenon DEF ShufflerBuffer
<1>4. shuffler' = WakeReady([shuffler EXCEPT ![r] = AfterJob(@)])
  BY Zenon DEF ShufflerBuffer
<1>5. /\ shuffler \in [Shufflers -> ShufflerStates] /\ s \in ShufflerStates
      /\ Issues(issued, s) /\ InStage(s) /\ Breaks(s)
      /\ rec \in [Tickets -> Records] /\ physical \in [Floors -> Int]
  BY RobotFits
<1>6. [shuffler EXCEPT ![r] = AfterJob(@)] = [shuffler EXCEPT ![r] = z]
  <2> HIDE DEF z
  <2>1. AfterJob(shuffler[r]) = z
    BY DEF z
  <2> QED
    BY <1>5, <2>1
<1>7. s.pc \in Carrying
  BY <1>2 DEF Carrying
<1>8. /\ job \in Jobs /\ t \in issued /\ t \in Tickets /\ rec[t] \in Records
      /\ job = s.jobs[1] /\ 1 \in DOMAIN s.jobs
  BY <1>7, JobAtHand
<1>9. /\ s.phase = "breaker" /\ s.slot # NoSlot /\ job.to = BufferSlotID(s.slot)
      /\ t = Head(s.tickets)
  BY <1>2, <1>5, <1>8 DEF Breaks
<1>10. s.slot \in BufferSlots /\ i = s.slot
  <2>1. s.slot \in BufferSlots
    BY <1>5, <1>9 DEF ShufflerStates
  <2> QED
    BY <1>9, <2>1, Numbers
<1>11. z \in ShufflerStates /\ Steady(s, z) /\ Fits(issued, rec', physical, FreeSlots, z)
       /\ z.pc \notin {"onFloor", "onWake", "onSlot"}
       /\ z.slot = s.slot /\ z.tickets = s.tickets
  <2> HIDE DEF s, z
  <2>1. s.phase # "home"
    BY <1>9
  <2> QED
    BY <1>5, <1>7, <2>1, AfterJobFits DEF z
<1>12. e \in Records /\ e.present = rec[t].present /\ e.unpark = rec[t].unpark
       /\ e.target = rec[t].target /\ e.slot = i
  <2>1. i \in BufferSlots
    BY <1>10
  <2>2. rec[t] \in Records
    BY <1>8
  <2> HIDE DEF i, t
  <2> QED
    BY <2>1, <2>2 DEF Records
<1>13. rec' = [rec EXCEPT ![t] = e]
  BY <1>3
<1> HIDE DEF z, e, s, t, i, job
<1>14. /\ rec' \in [Tickets -> Records] /\ rec'[t] = e
       /\ \A u \in Tickets : /\ rec'[u].present = rec[u].present
                             /\ rec'[u].unpark = rec[u].unpark
                             /\ rec'[u].target = rec[u].target
                             /\ u # t => rec'[u] = rec[u]
  BY <1>5, <1>8, <1>12, <1>13, RecordMoved
<1>15. /\ shuffler' \in [Shufflers -> ShufflerStates] /\ shuffler'[r] = z
       /\ \A q \in Shufflers : q # r => Stirred(shuffler[q], shuffler'[q])
       /\ \A q \in Shufflers : shuffler'[q].pc # "onWake"
  BY <1>4, <1>5, <1>6, <1>11, Announced
<1>16. /\ slots' \in [BufferSlots -> [claimed : BOOLEAN, ticket : Tickets \cup {NoTicket}]]
       /\ slots'[i].ticket = t
       /\ \A k \in BufferSlots : /\ slots'[k].claimed = slots[k].claimed
                                 /\ k # i => slots'[k] = slots[k]
  <2> DEFINE S == [claimed : BOOLEAN, ticket : Tickets \cup {NoTicket}]
             y == [slots[i] EXCEPT !.ticket = t]
  <2>1. slots \in [BufferSlots -> S] /\ i \in BufferSlots
    BY <1>1, <1>10 DEF TypeOK
  <2>2. y \in S /\ y.claimed = slots[i].claimed /\ y.ticket = t
    BY <1>8, <2>1
  <2>3. slots' = [slots EXCEPT ![i] = y]
    BY <1>2
  <2> HIDE DEF S, y
  <2>4. slots' \in [BufferSlots -> S] /\ slots'[i] = y /\ \A k \in BufferSlots : k # i => slots'[k] = slots[k]
    BY <2>1, <2>2, <2>3
  <2> QED
    BY <2>2, <2>4 DEF S
<1>17. FreeSlots' = FreeSlots
  BY <1>16 DEF FreeSlots
<1>18. TypeOK'
  BY <1>1, <1>2, <1>14, <1>15, <1>16 DEF TypeOK
<1>19. JobsIssued' /\ ParkersSleep'
  <2>1. \A q \in Unparkers : unparker[q].pc # "idle" =>
          /\ unparker[q].ticket \in issued
          /\ unparker[q].pc = "moving" => rec'[unparker[q].ticket].unpark
    BY <1>1, <1>14 DEF JobsIssued, TypeOK
  <2> QED
    BY <1>1, <1>2, <2>1 DEF JobsIssued, ParkersSleep
<1>20. ShufflersSteady /\ ComponentsApart' /\ Counted'
  <2>1. Steady(shuffler[r], shuffler'[r])
    BY <1>11, <1>15 DEF s
  <2> QED
    BY <1>2, <1>15, <2>1, GoesOn
<1>21. KeepsPromises
  BY <1>2, <1>14 DEF KeepsPromises
<1>22. Fits(issued', rec', physical', FreeSlots', shuffler'[r])
  BY <1>2, <1>11, <1>15, <1>17
<1>23. SlotOwned'
  <2>1. \A k \in BufferSlots : slots'[k].claimed <=> \E q \in Shufflers : shuffler'[q].slot = k
    BY <1>1, <1>16, <1>20 DEF SlotOwned, ShufflersSteady, Steady
  <2>2. \A p, q \in Shufflers :
          shuffler'[p].slot # NoSlot /\ shuffler'[p].slot = shuffler'[q].slot => p = q
    BY <1>1, <1>20 DEF SlotOwned, ShufflersSteady, Steady
  <2>3. ASSUME NEW u \in Tickets, rec'[u].present, rec'[u].slot # NoSlot
        PROVE  /\ slots'[rec'[u].slot].ticket = u
               /\ \E q \in Shufflers : /\ shuffler'[q].slot = rec'[u].slot
                                       /\ Head(shuffler'[q].tickets) = u
    <3>1. CASE u = t
      <4>1. rec'[u].slot = i
        BY <1>12, <1>14, <3>1
      <4>2. shuffler'[r].slot = i /\ Head(shuffler'[r].tickets) = t
        BY <1>9, <1>10, <1>11, <1>15
      <4> QED
        BY <1>16, <3>1, <4>1, <4>2
    <3>2. CASE u # t
      <4>1. rec[u].present /\ rec[u].slot = rec'[u].slot
        BY <1>14, <2>3, <3>2
      <4>2. PICK q \in Shufflers : shuffler[q].slot = rec[u].slot /\ Head(shuffler[q].tickets) = u
        BY <1>1, <2>3, <4>1 DEF SlotOwned
      <4>3. slots[rec[u].slot].ticket = u /\ rec[u].slot \in BufferSlots
        BY <1>1, <2>3, <4>1 DEF SlotOwned, TypeOK, Records
      <4>4. rec[u].slot # i
        <5>1. rec[u].slot = i => Head(shuffler[r].tickets) = u
          BY <1>9, <1>10, <4>1, SlotMate DEF s
        <5> QED
          BY <1>9, <3>2, <5>1 DEF s
      <4>5. slots'[rec[u].slot] = slots[rec[u].slot]
        BY <1>16, <4>3, <4>4
      <4>6. shuffler'[q].slot = shuffler[q].slot /\ Head(shuffler'[q].tickets) = u
        BY <1>20, <2>3, <4>1, <4>2 DEF ShufflersSteady, Steady
      <4> QED
        BY <4>1, <4>2, <4>3, <4>5, <4>6
    <3> QED
      BY <3>1, <3>2
  <2> QED
    BY <2>1, <2>2, <2>3 DEF SlotOwned
<1>24. ASSUME NEW q \in Shufflers, q # r, NEW u \in Tickets,
              rec'[u].present, rec'[u].slot = shuffler[q].slot, shuffler[q].slot # NoSlot
       PROVE  rec[u].present /\ rec[u].slot = shuffler[q].slot
  <2>1. u # t
    <3>1. u = t => shuffler[q].slot = shuffler[r].slot
      BY <1>10, <1>12, <1>14, <1>24 DEF s
    <3> QED
      BY <1>1, <1>24, <3>1 DEF SlotOwned
  <2> QED
    BY <1>14, <1>24, <2>1
<1> QED
  BY <1>2, <1>15, <1>17, <1>18, <1>19, <1>20, <1>21, <1>22, <1>23, <1>24, RobotKept

\* The vehicle gets space on its target floor.
LEMMA ShufflerPlaceKeeps ==
    ASSUME IInv, NEW r \in Shufflers, ShufflerPlace(r)
    PROVE  IInv'
<1> DEFINE s == shuffler[r]
           job == Head(s.jobs)
           t == job.ticket
           f == rec[t].target
           z == IF rec[t].unpark THEN [s EXCEPT !.pc = "send"] ELSE AfterJob(s)
           e == [rec[t] EXCEPT !.floor = f, !.slot = NoSlot, !.status = "PARKED"]
<1>1. TypeOK /\ SlotOwned /\ JobsIssued /\ ParkersSleep /\ ComponentsApart /\ Counted
  BY DEF IInv
<1>2. /\ AtTarget(r)
      /\ physical' = [physical EXCEPT ![f] = @ + Space(t)]
      /\ shuffler' = WakeReady([shuffler EXCEPT ![r] = z])
      /\ parkingJobCh' = parkingJobCh /\ unparkJobCh' = unparkJobCh
      /\ issued' = issued /\ strategy' = strategy /\ shuffling' = shuffling /\ shuffleWG' = shuffleWG
      /\ reserved' = reserved /\ slots' = slots
      /\ shuffleJobCh' = shuffleJobCh /\ unparker' = unparker /\ parker' = parker
  BY DEF ShufflerPlace, deskVars
<1>3. rec' = [rec EXCEPT ![t] = [@ EXCEPT !.floor = f, !.slot = NoSlot, !.status = "PARKED"]]
  BY Zenon DEF ShufflerPlace
<1>4. /\ shuffler \in [Shufflers -> ShufflerStates] /\ s \in ShufflerStates
      /\ Issues(issued, s) /\ InStage(s) /\ Breaks(s) /\ Emptied(rec, s)
      /\ rec \in [Tickets -> Records] /\ physical \in [Floors -> Int]
  BY RobotFits
<1>5. s.pc \in {"carry", "settle"}
  BY <1>2 DEF AtTarget
<1>6. s.pc \in Carrying
  BY <1>5 DEF Carrying
<1>7. /\ t \in issued /\ t \in Tickets /\ rec[t] \in Records /\ f \in Floors
  BY <1>6, JobAtHand
<1>8. e \in Records /\ e.present = rec[t].present /\ e.unpark = rec[t].unpark
       /\ e.target = rec[t].target /\ e.slot = NoSlot
  <2> HIDE DEF f, t
  <2> QED
    BY <1>7 DEF Records
<1>9. rec' = [rec EXCEPT ![t] = e]
  BY <1>3
<1>10. /\ physical' \in [Floors -> Int]
       /\ \A g \in Floors : physical'[g] >= physical[g]
  <2> HIDE DEF f, t
  <2>1. Space(t) \in Nat /\ physical[f] \in Int
    BY <1>4, <1>7, SpaceType
  <2>2. physical[f] + Space(t) \in Int /\ physical[f] + Space(t) >= physical[f]
    BY <2>1
  <2>3. \A g \in Floors : physical'[g] = IF g = f THEN physical[f] + Space(t) ELSE physical[g]
    BY <1>2, <1>4
  <2>4. \A g \in Floors : physical[g] \in Int
    BY <1>4
  <2>5. \A g \in Floors : physical'[g] \in Int /\ physical'[g] >= physical[g]
    BY <2>2, <2>3, <2>4
  <2>6. physical' \in [Floors -> Int]
    BY <1>2, <1>4, <2>2
  <2> QED
    BY <2>5, <2>6
<1> HIDE DEF e, s, t, f, job
<1>11. /\ rec' \in [Tickets -> Records] /\ rec'[t] = e
       /\ \A u \in Tickets : /\ rec'[u].present = rec[u].present
                             /\ rec'[u].unpark = rec[u].unpark
                             /\ rec'[u].target = rec[u].target
                             /\ u # t => rec'[u] = rec[u]
  BY <1>4, <1>7, <1>8, <1>9, RecordMoved
<1>12. \A u \in Tickets : rec'[u].present /\ rec'[u].slot # NoSlot
                              => rec[u].present /\ rec[u].slot = rec'[u].slot
  BY <1>8, <1>11
<1>13. s.phase = "home" => \A u \in Tickets : rec'[u].present => rec'[u].slot # s.slot
  <2>1. s.pc \in Carrying \ {"lift"}
    BY <1>5, <1>6
  <2>2. s.phase = "home" => s.slot # NoSlot
    BY <1>4, <1>6 DEF InStage, SlotPhases
  <2> QED
    BY <1>4, <1>12, <2>1, <2>2 DEF Emptied
<1>14. /\ z \in ShufflerStates /\ Steady(s, z) /\ Fits(issued, rec', physical', FreeSlots, z)
       /\ z.pc \notin {"onFloor", "onWake", "onSlot"}
  <2>1. CASE rec[t].unpark
    <3> DEFINE y == [s EXCEPT !.pc = "send"]
    <3>1. z = y
      BY <2>1
    <3>2. /\ y \in ShufflerStates /\ y.pc = "send" /\ y.phase = s.phase /\ y.slot = s.slot
          /\ y.jobs = s.jobs /\ y.tickets = s.tickets
      BY <1>4 DEF ShufflerStates
    <3> HIDE DEF y, z
    <3>3. Steady(s, y)
      BY <1>5, <3>2 DEF Steady
    <3>4. Issues(issued, y) /\ InStage(y)
      BY <1>4, <1>6, <3>2 DEF Issues, InStage, Waiting, Carrying
    <3>5. Breaks(y)
      BY <1>4, <1>6, <3>2 DEF Breaks, Carrying
    <3>6. Emptied(rec', y) /\ Sleeps(physical', rec', FreeSlots, y)
      BY <1>13, <3>2 DEF Emptied, Sleeps
    <3>7. Fits(issued, rec', physical', FreeSlots, y)
      BY <3>4, <3>5, <3>6 DEF Fits
    <3> QED
      BY <3>1, <3>2, <3>3, <3>7
  <2>2. CASE ~rec[t].unpark
    <3>1. z = AfterJob(s)
      BY <2>2
    <3> HIDE DEF z
    <3>2. /\ AfterJob(s) \in ShufflerStates /\ Steady(s, AfterJob(s))
          /\ Fits(issued, rec', physical', FreeSlots, AfterJob(s))
          /\ AfterJob(s).pc \notin {"onFloor", "onWake", "onSlot"}
      <4>1. s \in ShufflerStates /\ Issues(issued, s) /\ InStage(s) /\ Breaks(s)
        BY <1>4
      <4>2. s.phase = "home" => \A u \in Tickets : rec'[u].present => rec'[u].slot # s.slot
        BY <1>13
      <4> QED
        BY <1>6, <4>1, <4>2, AfterJobFits
    <3> QED
      BY Zenon, <3>1, <3>2
  <2> QED
    BY <2>1, <2>2
<1> HIDE DEF z
<1>15. /\ shuffler' \in [Shufflers -> ShufflerStates] /\ shuffler'[r] = z
       /\ \A q \in Shufflers : q # r => Stirred(shuffler[q], shuffler'[q])
       /\ \A q \in Shufflers : shuffler'[q].pc # "onWake"
  BY <1>2, <1>4, <1>14, Announced
<1>16. FreeSlots' = FreeSlots
  BY <1>2 DEF FreeSlots
<1>17. TypeOK'
  BY <1>1, <1>2, <1>10, <1>11, <1>15 DEF TypeOK
<1>18. JobsIssued'
  <2>1. \A q \in Unparkers : unparker[q].pc # "idle" =>
          /\ unparker[q].ticket \in issued
          /\ unparker[q].pc = "moving" => rec'[unparker[q].ticket].unpark
    BY <1>1, <1>11 DEF JobsIssued, TypeOK
  <2> QED
    BY <1>1, <1>2, <2>1 DEF JobsIssued
<1>19. ParkersSleep'
  <2> SUFFICES ASSUME NEW q \in Parkers, parker[q].pc = "asleep"
               PROVE  ~(Capacity - physical'[parker[q].floor] >= Space(parker[q].ticket))
    BY <1>2 DEF ParkersSleep
  <2>1. parker[q].floor \in Floors /\ parker[q].ticket \in Tickets
    BY <1>1 DEF JobsIssued, TypeOK
  <2>2. ~(Capacity - physical[parker[q].floor] >= Space(parker[q].ticket))
    BY <1>1 DEF ParkersSleep
  <2>3. /\ Space(parker[q].ticket) \in Nat /\ Capacity \in Nat
        /\ physical[parker[q].floor] \in Int /\ physical'[parker[q].floor] \in Int
        /\ physical'[parker[q].floor] >= physical[parker[q].floor]
    BY <1>4, <1>10, <2>1, SpaceType, PlanAssumption
  <2> QED
    BY <2>2, <2>3
<1>20. ShufflersSteady /\ ComponentsApart' /\ Counted'
  <2>1. Steady(shuffler[r], shuffler'[r])
    BY <1>14, <1>15 DEF s
  <2> QED
    BY <1>2, <1>15, <2>1, GoesOn
<1>21. SlotOwned'
  BY <1>1, <1>2, <1>12, <1>20, SlotsKept
<1>22. KeepsPromises
  BY <1>2, <1>11 DEF KeepsPromises
<1>23. Fits(issued', rec', physical', FreeSlots', shuffler'[r])
  BY <1>2, <1>14, <1>15, <1>16
<1>24. \A q \in Shufflers : \A u \in Tickets :
               rec'[u].present /\ rec'[u].slot = shuffler[q].slot /\ shuffler[q].slot # NoSlot
                   => rec[u].present /\ rec[u].slot = shuffler[q].slot
  BY <1>12
<1>25. \A q \in Shufflers : q # r /\ shuffler'[q].pc = "onFloor" =>
               physical'[shuffler'[q].floor] >= physical[shuffler'[q].floor]
  <2> SUFFICES ASSUME NEW q \in Shufflers, q # r, shuffler'[q].pc = "onFloor"
               PROVE  shuffler'[q].floor \in Floors
    BY <1>10
  <2>1. shuffler[q] \in ShufflerStates /\ Stirred(shuffler[q], shuffler'[q])
    BY <1>4, <1>15
  <2>2. shuffler[q].pc = "onFloor" /\ shuffler'[q].floor = shuffler[q].floor
    BY <2>1, StirredFields
  <2> QED
    BY <2>2, RobotFits DEF Issues
<1> QED
  BY <1>15, <1>16, <1>17, <1>18, <1>19, <1>20, <1>21, <1>22, <1>23, <1>24, <1>25, RobotKept

\* Every step keeps the invariant.
LEMMA NextKeeps == IInv /\ [Next]_vars => IInv'
<1> SUFFICES ASSUME IInv, [Next]_vars PROVE IInv'
  OBVIOUS
<1>1. ASSUME NEW t \in Tickets, Park(t) PROVE IInv'
  BY <1>1, ParkKeeps
<1>2. ASSUME NEW t \in Leavers, Unpark(t) PROVE IInv'
  <2>1. t \in Tickets
    BY ParkingAssumption
  <2> QED
    BY <1>2, <2>1, UnparkAcceptedKeeps, UnparkBusyKeeps DEF Unpark
<1>3. ASSUME NEW x \in Switches, SwitchRearranging(x) \/ SwitchPlain(x) PROVE IInv'
  BY <1>3, SwitchRearrangingKeeps, SwitchPlainKeeps
<1>4. CASE ShuffleDone
  BY <1>4, ShuffleDoneKeeps
<1>5. ASSUME NEW r \in Parkers, ParkerStep(r) PROVE IInv'
  BY <1>5, ParkerTakeKeeps, ParkerClaimKeeps, ParkerSleepKeeps, ParkerStoreKeeps,
     ParkerSendKeeps DEF ParkerStep
<1>6. ASSUME NEW r \in Unparkers, UnparkerStep(r) PROVE IInv'
  BY <1>6, UnparkerTakeKeeps, UnparkerLookKeeps, UnparkerFinishKeeps DEF UnparkerStep
<1>7. ASSUME NEW r \in Shufflers, ShufflerStep(r) PROVE IInv'
  BY <1>7, ShufflerTakeKeeps, ShufflerWaits, ShufflerReadyKeeps, ShufflerClaimSlotKeeps,
     ShufflerDropsKeeps, ShufflerLiftKeeps, ShufflerBufferKeeps, ShufflerPlaceKeeps,
     ShufflerSleepFloorKeeps, ShufflerSendKeeps, ShufflerReplanKeeps, ShufflerHomeKeeps,
     ShufflerReleaseKeeps, ShufflerFinishKeeps DEF ShufflerStep
<1>8. CASE UNCHANGED vars
  <2>1. /\ physical' = physical /\ rec' = rec /\ reserved' = reserved /\ issued' = issued
        /\ strategy' = strategy /\ shuffling' = shuffling /\ shuffleWG' = shuffleWG
        /\ parkingJobCh' = parkingJobCh /\ unparkJobCh' = unparkJobCh
        /\ shuffleJobCh' = shuffleJobCh /\ slots' = slots /\ parker' = parker
        /\ unparker' = unparker /\ shuffler' = shuffler
    BY <1>8 DEF vars, deskVars
  <2>2. TypeOK'
    BY <2>1 DEF IInv, TypeOK
  <2>3. JobsIssued' /\ ParkersSleep'
    BY <2>1 DEF IInv, JobsIssued, ParkersSleep
  <2> QED
    BY <2>1, <2>2, <2>3, RestKept DEF KeepsPromises, Stirred
<1> QED
  BY <1>1, <1>2, <1>3, <1>4, <1>5, <1>6, <1>7, <1>8 DEF Next, RobotStep

-----------------------------------------------------------------------------
(* The theorems *)

\* The reservations, the slots, the rearrangement and the waits of the robots
\* are in order in every state that the code comes to.
THEOREM SpecInv == Spec => []IInv
<1>1. Init => IInv
  BY InitFits
<1>2. IInv /\ [Next]_vars => IInv'
  BY NextKeeps
<1> QED
  BY <1>1, <1>2, PTL DEF Spec

\* The fields have the types of parking.go, and the channels their capacities.
THEOREM SpecTypeOK == Spec => []TypeOK
<1>1. IInv => TypeOK
  BY DEF IInv
<1> QED
  BY <1>1, SpecInv, PTL

\* ReservedCapacity is what the vehicles promised to a floor take, and a floor is
\* never promised beyond its capacity, whatever the order of Park, Unpark and
\* SwitchStrategy.
THEOREM SpecReservationsFit == Spec => []ReservationsFit
<1>1. IInv => ReservationsFit
  BY DEF IInv
<1> QED
  BY <1>1, SpecInv, PTL

\* shufflingInProgress falls only when no component, no busy robot and no claimed
\* buffer slot of the rearrangement is left.
THEOREM SpecShuffleOver == Spec => []ShuffleOver
<1>1. IInv => ShuffleOver
  <2> SUFFICES ASSUME IInv PROVE ShuffleOver
    OBVIOUS
  <2>1. TypeOK /\ Counted /\ ShufflersFit /\ SlotOwned
    BY DEF IInv
  <2>2. shuffleWG = Len(shuffleJobCh)
                      + Cardinality({r \in Shufflers : shuffler[r].pc # "idle"})
    BY <2>1 DEF Counted, Busy
  <2>3. ASSUME ~shuffling PROVE shuffleWG = 0 /\ FreeSlots = BufferSlots
    <3>1. shuffleWG = 0
      BY <2>1, <2>3 DEF Counted
    <3>2. \A r \in Shufflers : shuffler[r].slot = NoSlot
      BY <2>1, <3>1, NobodyBusy, IdleFits
    <3>3. \A i \in BufferSlots : ~slots[i].claimed
      BY <2>1, <3>2, Numbers DEF SlotOwned
    <3> QED
      BY <3>1, <3>3 DEF FreeSlots
  <2> QED
    BY <2>2, <2>3 DEF ShuffleOver
<1> QED
  BY <1>1, SpecInv, PTL

\* A buffer slot has one owner from claimBufferSlot to releaseBufferSlot, and the
\* vehicle in it is the one that its owner takes home.
THEOREM SpecSlotOwned == Spec => []SlotOwned
<1>1. IInv => SlotOwned
  BY DEF IInv
<1> QED
  BY <1>1, SpecInv, PTL

\* No robot sleeps on floor.Cond, shuffleWake or bufferSlotAvailable while what
\* it waits for is true: no Broadcast of the code is missing.
THEOREM SpecNoLostWakeup == Spec => []NoLostWakeup
<1>1. IInv => NoLostWakeup
  <2> SUFFICES ASSUME IInv PROVE NoLostWakeup
    OBVIOUS
  <2>1. \A r \in Parkers : parker[r].pc = "asleep" =>
            ~HasRoom(parker[r].floor, parker[r].ticket)
    BY DEF IInv, ParkersSleep, HasRoom
  <2>2. ASSUME NEW r \in Shufflers
        PROVE  /\ shuffler[r].pc = "onFloor" =>
                     ~HasRoom(shuffler[r].floor, Head(shuffler[r].jobs).ticket)
               /\ shuffler[r].pc = "onWake" => NotReady(shuffler[r].tickets)
               /\ shuffler[r].pc = "onSlot" => FreeSlots = {}
    <3>1. Sleeps(physical, rec, FreeSlots, shuffler[r])
      BY RobotFits
    <3> QED
      BY <3>1 DEF Sleeps, HasRoom, NotReady, Late, Standing
  <2> QED
    BY <2>1, <2>2 DEF NoLostWakeup
<1> QED
  BY <1>1, SpecInv, PTL

-----------------------------------------------------------------------------
(* Vehicles that are not where they were promised *)

\* Of a record: the vehicle is to stay, it is where it was promised, it stands
\* somewhere, and a job that begins at n finds it.
Stays(e) == e.present /\ ~e.unpark
Home(e) == e.slot = NoSlot /\ e.floor = e.target
Rested(e) == e.slot = NoSlot /\ e.floor # NoFloor
At(e, n) == IF IsBufferSlotID(n) THEN BufferSlotID(e.slot) = n
                                 ELSE e.slot = NoSlot /\ e.floor = n

\* A vehicle is brought to its first floor by one job, and the record is PENDING
\* until then.
Brings(p) == p.pc \in {"claim", "asleep", "moving"}
ParkedOnce(R, Q, P) ==
    /\ \A i \in DOMAIN Q : R[Q[i].ticket].status = "PENDING"
    /\ \A r \in Parkers : Brings(P[r]) => R[P[r].ticket].status = "PENDING"
    /\ \A i, k \in DOMAIN Q : Q[i].ticket = Q[k].ticket => i = k
    /\ \A i \in DOMAIN Q, r \in Parkers : Brings(P[r]) => Q[i].ticket # P[r].ticket
    /\ \A r, q \in Parkers : Brings(P[r]) /\ Brings(P[q]) /\ P[r].ticket = P[q].ticket => r = q
Nowhere(R) == \A t \in Tickets :
    R[t].status = "PENDING" => R[t].slot = NoSlot /\ R[t].floor = NoFloor

\* A shuffling robot moves vehicles of its component that have been parked.
Orderly(R, s) == \A k \in DOMAIN s.jobs : /\ s.jobs[k].ticket \in ToSet(s.tickets)
                                          /\ R[s.jobs[k].ticket].status # "PENDING"

\* What a shuffling robot has still to do with the vehicle t: it waits for its
\* component; or for a slot; it moves the breaker of the cycle, and t after that;
\* it has t in the slot; or in hand; or t is in its list, and the job finds it.
Early(s, t) == s.pc \in {"ready", "onWake"} /\ t \in ToSet(s.tickets)
ToOrder(s, t, e) == /\ s.pc \in {"claimSlot", "onSlot"} /\ t \in ToSet(s.tickets) /\ Rested(e)
                    /\ t = Head(s.tickets) => Head(s.jobs).from = e.floor
Left(s, t, e) == /\ s.phase = "breaker" /\ s.pc \in Carrying \cup {"replan"}
                 /\ t \in ToSet(s.tickets) /\ t # Head(s.tickets) /\ Rested(e)
Slotted(s, t, e) == /\ s.phase \in {"breaker", "rest"} /\ s.pc \in Carrying \cup {"replan", "home"}
                    /\ t = Head(s.tickets) /\ e.slot # NoSlot
InHand(s, t) == s.pc \in {"carry", "settle", "onFloor"} /\ t = Head(s.jobs).ticket
Listed(s, t, e) == /\ s.pc \in Carrying
                   /\ \E k \in DOMAIN s.jobs : /\ k = 1 => s.pc = "lift"
                                               /\ s.jobs[k].ticket = t
                                               /\ At(e, s.jobs[k].from)
Due(s, t, e) == \/ Early(s, t) \/ ToOrder(s, t, e) \/ Left(s, t, e) \/ Slotted(s, t, e)
                \/ InHand(s, t) \/ Listed(s, t, e)

\* A parking robot will bring t to floor f; t is in a component of the channel.
Coming(t, f, Q, P) == \/ \E i \in DOMAIN Q : Q[i].ticket = t /\ Q[i].floor = f
                      \/ \E r \in Parkers : Brings(P[r]) /\ P[r].ticket = t /\ P[r].floor = f
Assigned(t, C) == \E i \in DOMAIN C : t \in ToSet(C[i].tickets)

\* A vehicle that is to stay is where it was promised, or somebody will bring it
\* there.
Settles(t, R, Q, P, C, S) == Stays(R[t]) =>
    Home(R[t]) \/ Coming(t, R[t].target, Q, P) \/ Assigned(t, C) \/ \E r \in Shufflers : Due(S[r], t, R[t])
Accounted(R, Q, P, C, S) == \A t \in Tickets : Settles(t, R, Q, P, C, S)

\* The inductive invariant of where vehicles are, next to IInv.
SInv == /\ ParkedOnce(rec, parkingJobCh, parker) /\ Nowhere(rec)
        /\ \A r \in Shufflers : Orderly(rec, shuffler[r])
        /\ Accounted(rec, parkingJobCh, parker, shuffleJobCh, shuffler)

-----------------------------------------------------------------------------
(* What becomes of a duty *)

\* Two states of a robot with the same duties.
Alike(s, z) ==
    /\ z.tickets = s.tickets /\ z.jobs = s.jobs /\ z.phase = s.phase
    /\ \/ z.pc = s.pc
       \/ s.pc \in {"ready", "onWake"} /\ z.pc \in {"ready", "onWake"}
       \/ s.pc \in {"claimSlot", "onSlot"} /\ z.pc \in {"claimSlot", "onSlot"}
       \/ s.pc \in {"carry", "settle", "onFloor"} /\ z.pc \in {"carry", "settle", "onFloor"}

\* A vehicle that is where it was.
SamePlace(e, f) == f.slot = e.slot /\ f.floor = e.floor

\* They have them for a vehicle that is where it was.
LEMMA AlikeDue ==
    ASSUME NEW s, NEW z, NEW t, NEW e, NEW f, Alike(s, z), SamePlace(e, f), Due(s, t, e)
    PROVE  Due(z, t, f)
<1>1. z.tickets = s.tickets /\ z.jobs = s.jobs /\ z.phase = s.phase
  BY DEF Alike
<1>2. CASE Early(s, t)
  <2>1. Early(z, t)
    BY <1>2 DEF Early, Alike
  <2> QED
    BY <2>1 DEF Due
<1>3. CASE ToOrder(s, t, e)
  <2>1. z.pc \in {"claimSlot", "onSlot"}
    BY <1>3 DEF ToOrder, Alike
  <2>2. ToOrder(z, t, f)
    BY <1>1, <1>3, <2>1 DEF ToOrder, Rested, SamePlace
  <2> QED
    BY <2>2 DEF Due
<1>4. s.pc \in Carrying => z.pc \in Carrying
  BY DEF Alike, Carrying
<1>5. s.pc \in {"replan", "home", "lift"} => z.pc = s.pc
  BY DEF Alike
<1>6. CASE Left(s, t, e)
  <2>1. Left(z, t, f)
    BY <1>1, <1>4, <1>5, <1>6 DEF Left, Rested, SamePlace
  <2> QED
    BY <2>1 DEF Due
<1>7. CASE Slotted(s, t, e)
  <2>1. Slotted(z, t, f)
    BY <1>1, <1>4, <1>5, <1>7 DEF Slotted, SamePlace
  <2> QED
    BY <2>1 DEF Due
<1>8. CASE InHand(s, t)
  <2>1. InHand(z, t)
    BY <1>1, <1>8 DEF InHand, Alike
  <2> QED
    BY <2>1 DEF Due
<1>9. CASE Listed(s, t, e)
  <2>1. Listed(z, t, f)
    BY <1>1, <1>4, <1>5, <1>9 DEF Listed, At, SamePlace
  <2> QED
    BY <2>1 DEF Due
<1> QED
  BY <1>2, <1>3, <1>6, <1>7, <1>8, <1>9 DEF Due

\* A Broadcast changes no duty.
LEMMA StirredAlike ==
    ASSUME NEW s \in ShufflerStates, NEW z, Stirred(s, z)
    PROVE  Alike(s, z)
BY StirredFields DEF Alike

\* The robot is done with the first of its jobs: the duties that were not in it
\* remain.
LEMMA NextJobDue ==
    ASSUME NEW s \in ShufflerStates, InStage(s), s.pc \in Carrying,
           NEW t, NEW e, NEW f, SamePlace(e, f), Due(s, t, e), ~InHand(s, t),
           s.pc = "lift" => ~(Head(s.jobs).ticket = t /\ At(e, Head(s.jobs).from))
    PROVE  Due(AfterJob(s), t, f)
<1> DEFINE z == AfterJob(s)
           l == Tail(s.jobs)
<1>1. s.jobs \in Seq(Jobs) /\ s.jobs # << >> /\ s.phase \in {"inOrder", "breaker", "rest", "home"}
  BY DEF InStage, ShufflerStates
<1>2. /\ l \in Seq(Jobs) /\ DOMAIN s.jobs = 1..Len(s.jobs) /\ Len(s.jobs) \in Nat
      /\ DOMAIN l = 1..(Len(s.jobs) - 1) /\ Head(s.jobs) = s.jobs[1]
      /\ \A i \in 1..(Len(s.jobs) - 1) : l[i] = s.jobs[i + 1]
  BY <1>1, HeadTailProperties, LenProperties
<1> HIDE DEF l
<1>3. /\ z.tickets = s.tickets /\ z.jobs = l /\ z.phase = s.phase
      /\ l # << >> => z.pc = "lift"
      /\ l = << >> /\ s.phase = "breaker" => z.pc = "replan"
      /\ l = << >> /\ s.phase = "rest" => z.pc = "home"
  BY <1>1 DEF AfterJob, ShufflerStates, l
<1> HIDE DEF z
<1>4. s.pc \notin {"ready", "onWake", "claimSlot", "onSlot", "replan", "home"}
  BY DEF Carrying
<1>5. CASE Left(s, t, e)
  <2>1. z.pc \in {"lift", "replan"}
    BY <1>3, <1>5 DEF Left
  <2>2. Left(z, t, f)
    BY <1>3, <1>5, <2>1 DEF Left, Rested, SamePlace, Carrying
  <2> QED
    BY <2>2 DEF Due, z
<1>6. CASE Slotted(s, t, e)
  <2>1. z.pc \in {"lift", "replan", "home"}
    BY <1>3, <1>6 DEF Slotted
  <2>2. Slotted(z, t, f)
    BY <1>3, <1>6, <2>1 DEF Slotted, SamePlace, Carrying
  <2> QED
    BY <2>2 DEF Due, z
<1>7. CASE Listed(s, t, e)
  <2>1. PICK k \in DOMAIN s.jobs : /\ k = 1 => s.pc = "lift"
                                   /\ s.jobs[k].ticket = t
                                   /\ At(e, s.jobs[k].from)
    BY <1>7 DEF Listed
  <2>2. k # 1
    BY <1>2, <2>1
  <2>3. k - 1 \in DOMAIN l /\ l[k - 1] = s.jobs[k]
    BY <1>2, <2>1, <2>2
  <2>4. l # << >>
    BY <1>2, <2>3
  <2>5. At(f, l[k - 1].from) /\ l[k - 1].ticket = t
    BY <2>1, <2>3 DEF At, SamePlace
  <2>6. Listed(z, t, f)
    BY <1>3, <2>3, <2>4, <2>5 DEF Listed, Carrying
  <2> QED
    BY <2>6 DEF Due, z
<1> QED
  BY <1>4, <1>5, <1>6, <1>7 DEF Due, Early, ToOrder

-----------------------------------------------------------------------------
(* What a step does to the duties *)

\* A vehicle that is to stay after the step stayed, and where it was.
Unmoved(e, f) == Stays(f) => Stays(e) /\ SamePlace(e, f) /\ f.target = e.target

\* The step has not to do with whether vehicles are parked.
StatusKept(R, S) == \A t \in Tickets :
    /\ S[t].status = "PENDING" <=> R[t].status = "PENDING"
    /\ S[t].status = "PENDING" => /\ S[t].slot = R[t].slot
                                  /\ S[t].floor = R[t].floor \/ S[t].floor = NoFloor

\* The parking robots have the jobs that they had, or fewer.
SameJobs(P, U) == \A r \in Parkers :
    Brings(U[r]) => Brings(P[r]) /\ U[r].ticket = P[r].ticket /\ U[r].floor = P[r].floor

\* All jobs about visits.
JobsOf(Q, P) == /\ \A i \in DOMAIN Q : Q[i].ticket \in Tickets
                /\ \A r \in Parkers : Brings(P[r]) => P[r].ticket \in Tickets

\* Parking robots with the jobs they had, or fewer, park every vehicle once.
LEMMA OnceKept ==
    ASSUME NEW R, NEW S, StatusKept(R, S), NEW Q, NEW P, NEW U, JobsOf(Q, P), SameJobs(P, U),
           ParkedOnce(R, Q, P)
    PROVE  ParkedOnce(S, Q, U)
<1>1. \A i \in DOMAIN Q : S[Q[i].ticket].status = "PENDING"
  BY DEF ParkedOnce, StatusKept, JobsOf
<1>2. \A r \in Parkers : Brings(U[r]) => /\ Brings(P[r]) /\ U[r].ticket = P[r].ticket
                                         /\ U[r].ticket \in Tickets
  BY DEF SameJobs, JobsOf
<1>3. \A r \in Parkers : Brings(U[r]) => S[U[r].ticket].status = "PENDING"
  BY <1>2 DEF ParkedOnce, StatusKept
<1>4. \A i \in DOMAIN Q, r \in Parkers : Brings(U[r]) => Q[i].ticket # U[r].ticket
  BY <1>2 DEF ParkedOnce
<1>5. \A r, q \in Parkers : Brings(U[r]) /\ Brings(U[q]) /\ U[r].ticket = U[q].ticket => r = q
  BY <1>2 DEF ParkedOnce
<1> QED
  BY <1>1, <1>3, <1>4, <1>5 DEF ParkedOnce

\* A vehicle that is not parked yet stays nowhere.
LEMMA NowhereKept ==
    ASSUME NEW R, NEW S, StatusKept(R, S), Nowhere(R)
    PROVE  Nowhere(S)
BY DEF StatusKept, Nowhere

\* The jobs of a robot stay in its component when neither changes.
LEMMA OrderlyKept ==
    ASSUME NEW R, NEW S, StatusKept(R, S), NEW s, NEW z, z.jobs = s.jobs, z.tickets = s.tickets,
           \A k \in DOMAIN s.jobs : s.jobs[k].ticket \in Tickets, Orderly(R, s)
    PROVE  Orderly(S, z)
BY DEF StatusKept, Orderly

\* A step that takes a duty from nobody.
LEMMA DeskSettles ==
    ASSUME NEW R, NEW Q, NEW P, NEW C, NEW S, Accounted(R, Q, P, C, S),
           NEW R2, NEW Q2, NEW P2, NEW C2, NEW S2,
           \A r \in Shufflers : Alike(S[r], S2[r]),
           \A t \in Tickets : Stays(R2[t]) =>
               \/ Home(R2[t])
               \/ Coming(t, R2[t].target, Q2, P2)
               \/ Assigned(t, C2)
               \/ \E r \in Shufflers : Due(S2[r], t, R2[t])
               \/ /\ Unmoved(R[t], R2[t])
                  /\ Coming(t, R[t].target, Q, P) => Coming(t, R[t].target, Q2, P2)
                  /\ Assigned(t, C) => Assigned(t, C2)
    PROVE  Accounted(R2, Q2, P2, C2, S2)
<1> SUFFICES ASSUME NEW t \in Tickets, Stays(R2[t]), ~Home(R2[t]),
                    ~Coming(t, R2[t].target, Q2, P2), ~Assigned(t, C2),
                    \A r \in Shufflers : ~Due(S2[r], t, R2[t])
             PROVE  FALSE
  BY DEF Accounted, Settles
<1>1. /\ Unmoved(R[t], R2[t])
      /\ Coming(t, R[t].target, Q, P) => Coming(t, R[t].target, Q2, P2)
      /\ Assigned(t, C) => Assigned(t, C2)
  OBVIOUS
<1>2. Stays(R[t]) /\ SamePlace(R[t], R2[t]) /\ R2[t].target = R[t].target
  BY <1>1 DEF Unmoved
<1>3. ~Home(R[t])
  BY <1>2 DEF Home, SamePlace
<1>4. ~Coming(t, R[t].target, Q, P) /\ ~Assigned(t, C)
  BY <1>1, <1>2
<1>5. PICK r \in Shufflers : Due(S[r], t, R[t])
  BY <1>2, <1>3, <1>4 DEF Accounted, Settles
<1>6. Due(S2[r], t, R2[t])
  BY <1>2, <1>5, AlikeDue
<1> QED
  BY <1>6

\* A step of one shuffling robot: what it had to do with a vehicle it has done, or
\* has still to do.
Passes(t, e, f, s, z, C, C2) == Stays(f) =>
    \/ Home(f)
    \/ Due(z, t, f)
    \/ /\ Unmoved(e, f)
       /\ Due(s, t, e) => Due(z, t, f)
       /\ Assigned(t, C) => Assigned(t, C2)

\* Every vehicle is still accounted for.
LEMMA RobotSettles ==
    ASSUME NEW R, NEW Q, NEW P, NEW C, NEW S, Accounted(R, Q, P, C, S),
           NEW R2, NEW P2, NEW C2, NEW S2, NEW r \in Shufflers, SameJobs(P2, P),
           \A q \in Shufflers : q # r => Alike(S[q], S2[q]),
           \A t \in Tickets : Passes(t, R[t], R2[t], S[r], S2[r], C, C2)
    PROVE  Accounted(R2, Q, P2, C2, S2)
<1> SUFFICES ASSUME NEW t \in Tickets, Stays(R2[t]), ~Home(R2[t]),
                    ~Coming(t, R2[t].target, Q, P2), ~Assigned(t, C2)
             PROVE  \E q \in Shufflers : Due(S2[q], t, R2[t])
  BY DEF Accounted, Settles
<1>1. CASE Due(S2[r], t, R2[t])
  BY <1>1
<1>2. CASE ~Due(S2[r], t, R2[t])
  <2>1. /\ Unmoved(R[t], R2[t])
        /\ Due(S[r], t, R[t]) => Due(S2[r], t, R2[t])
        /\ Assigned(t, C) => Assigned(t, C2)
    BY <1>2 DEF Passes
  <2>2. Stays(R[t]) /\ SamePlace(R[t], R2[t]) /\ R2[t].target = R[t].target
    BY <2>1 DEF Unmoved
  <2>3. ~Home(R[t])
    BY <2>2 DEF Home, SamePlace
  <2>4. ~Coming(t, R[t].target, Q, P)
    BY <2>2 DEF Coming, SameJobs
  <2>5. PICK q \in Shufflers : Due(S[q], t, R[t])
    BY <2>1, <2>2, <2>3, <2>4 DEF Accounted, Settles
  <2>6. q # r
    BY <1>2, <2>1, <2>5
  <2>7. Due(S2[q], t, R2[t])
    BY <2>2, <2>5, <2>6, AlikeDue
  <2> QED
    BY <2>7
<1> QED
  BY <1>1, <1>2

-----------------------------------------------------------------------------
(* Steps that keep the jobs of the parking robots *)

\* The jobs are about tickets.
LEMMA JobTickets ==
    ASSUME IInv
    PROVE  /\ JobsOf(parkingJobCh, parker)
           /\ \A r \in Shufflers : \A k \in DOMAIN shuffler[r].jobs :
                 shuffler[r].jobs[k].ticket \in Tickets
<1>1. issued \subseteq Tickets /\ JobsIssued /\ ShufflersFit
  BY DEF IInv, TypeOK
<1>2. JobsOf(parkingJobCh, parker)
  BY <1>1 DEF JobsOf, JobsIssued, Brings
<1> QED
  BY <1>1, <1>2 DEF ShufflersFit, Fits, Issues

\* A step that takes no duty away and leaves the vehicles that stay where they are.
LEMMA QuietSettles ==
    ASSUME IInv, SInv, parkingJobCh' = parkingJobCh, shuffleJobCh' = shuffleJobCh,
           SameJobs(parker, parker'), SameJobs(parker', parker),
           \A q \in Shufflers : Alike(shuffler[q], shuffler'[q]),
           StatusKept(rec, rec'), \A t \in Tickets : Unmoved(rec[t], rec'[t])
    PROVE  SInv'
<1>1. ParkedOnce(rec', parkingJobCh', parker')
  BY JobTickets, OnceKept DEF SInv
<1>2. Nowhere(rec')
  BY NowhereKept DEF SInv
<1>3. ASSUME NEW q \in Shufflers PROVE Orderly(rec', shuffler'[q])
  <2>1. shuffler'[q].jobs = shuffler[q].jobs /\ shuffler'[q].tickets = shuffler[q].tickets
    BY DEF Alike
  <2>2. Orderly(rec, shuffler[q]) /\ \A k \in DOMAIN shuffler[q].jobs : shuffler[q].jobs[k].ticket \in Tickets
    BY JobTickets DEF SInv
  <2> QED
    BY <2>1, <2>2, OrderlyKept
<1>4. Accounted(rec', parkingJobCh', parker', shuffleJobCh', shuffler')
  <2>1. \A t \in Tickets : Coming(t, rec[t].target, parkingJobCh, parker)
                               => Coming(t, rec[t].target, parkingJobCh', parker')
    BY DEF Coming, SameJobs
  <2>2. Accounted(rec, parkingJobCh, parker, shuffleJobCh, shuffler)
    BY DEF SInv
  <2> QED
    BY <2>1, <2>2, DeskSettles
<1> QED
  BY <1>1, <1>2, <1>3, <1>4 DEF SInv

\* A step of one shuffling robot which passes its duties on.
LEMMA ShufflerSettles ==
    ASSUME IInv, SInv, NEW r \in Shufflers, parkingJobCh' = parkingJobCh,
           SameJobs(parker, parker'), SameJobs(parker', parker),
           \A q \in Shufflers : q # r => Alike(shuffler[q], shuffler'[q]),
           StatusKept(rec, rec'), Orderly(rec', shuffler'[r]),
           \A t \in Tickets : Passes(t, rec[t], rec'[t], shuffler[r], shuffler'[r],
                                     shuffleJobCh, shuffleJobCh')
    PROVE  SInv'
<1>1. ParkedOnce(rec', parkingJobCh', parker')
  BY JobTickets, OnceKept DEF SInv
<1>2. Nowhere(rec')
  BY NowhereKept DEF SInv
<1>3. ASSUME NEW q \in Shufflers, q # r PROVE Orderly(rec', shuffler'[q])
  <2>1. shuffler'[q].jobs = shuffler[q].jobs /\ shuffler'[q].tickets = shuffler[q].tickets
    BY <1>3 DEF Alike
  <2>2. Orderly(rec, shuffler[q]) /\ \A k \in DOMAIN shuffler[q].jobs : shuffler[q].jobs[k].ticket \in Tickets
    BY JobTickets DEF SInv
  <2> QED
    BY <2>1, <2>2, OrderlyKept
<1>4. Accounted(rec', parkingJobCh, parker', shuffleJobCh', shuffler')
  <2>1. Accounted(rec, parkingJobCh, parker, shuffleJobCh, shuffler)
    BY DEF SInv
  <2> QED
    BY <2>1, RobotSettles
<1> QED
  BY <1>1, <1>2, <1>3, <1>4 DEF SInv

\* Nothing changes with a record.
LEMMA RecordsKept ==
    ASSUME NEW R
    PROVE  StatusKept(R, R) /\ \A t \in Tickets : Unmoved(R[t], R[t])
BY DEF StatusKept, Unmoved, SamePlace

\* Robots that do not change keep their jobs and their duties.
LEMMA NobodyChanges == \A P, S : SameJobs(P, P) /\ \A q \in Shufflers : Alike(S[q], S[q])
BY DEF SameJobs, Alike

\* floor.Cond.Broadcast changes no job.
LEMMA WokenSameJobs ==
    ASSUME TypeOK, NEW f
    PROVE  SameJobs(parker, WakeParkers(f, parker)) /\ SameJobs(WakeParkers(f, parker), parker)
<1> DEFINE P == WakeParkers(f, parker)
<1>1. ASSUME NEW r \in Parkers
      PROVE  /\ P[r].ticket = parker[r].ticket /\ P[r].floor = parker[r].floor
             /\ Brings(P[r]) <=> Brings(parker[r])
  <2> DEFINE p == parker[r]
  <2>1. p \in ParkerStates /\ DOMAIN parker = Parkers
    BY DEF TypeOK, ParkerStates
  <2>2. P[r] = p \/ (p.pc = "asleep" /\ P[r] = [p EXCEPT !.pc = "claim"])
    BY <2>1 DEF WakeParkers, Woken
  <2> HIDE DEF p
  <2>3. [p EXCEPT !.pc = "claim"].ticket = p.ticket /\ [p EXCEPT !.pc = "claim"].floor = p.floor
        /\ [p EXCEPT !.pc = "claim"].pc = "claim"
    BY <2>1 DEF ParkerStates, Robots
  <2> QED
    BY <2>2, <2>3 DEF Brings, p
<1> HIDE DEF P
<1>2. SameJobs(parker, P) /\ SameJobs(P, parker)
  BY <1>1 DEF SameJobs
<1> QED
  BY <1>2 DEF P

\* The other robots when one shuffling robot changes its state.
LEMMA OneMoves ==
    ASSUME TypeOK, NEW r \in Shufflers, NEW z, shuffler' = [shuffler EXCEPT ![r] = z]
    PROVE  /\ shuffler'[r] = z
           /\ \A q \in Shufflers : q # r => Alike(shuffler[q], shuffler'[q])
<1>1. shuffler'[r] = z /\ \A q \in Shufflers : q # r => shuffler'[q] = shuffler[q]
  BY DEF TypeOK
<1> QED
  BY <1>1 DEF Alike

\* A step that changes one shuffling robot and no record.
LEMMA TurnSettles ==
    ASSUME IInv, SInv, NEW r \in Shufflers, NEW z, shuffler' = [shuffler EXCEPT ![r] = z],
           rec' = rec, parkingJobCh' = parkingJobCh, parker' = parker,
           shuffleJobCh' = shuffleJobCh, Orderly(rec, z),
           \A t \in Tickets : Stays(rec[t]) /\ Due(shuffler[r], t, rec[t])
                                  => Home(rec[t]) \/ Due(z, t, rec[t])
    PROVE  SInv'
<1>1. TypeOK
  BY DEF IInv
<1>2. /\ shuffler'[r] = z /\ \A q \in Shufflers : q # r => Alike(shuffler[q], shuffler'[q])
  BY <1>1, OneMoves
<1>3. StatusKept(rec, rec') /\ \A t \in Tickets : Unmoved(rec[t], rec'[t])
  BY RecordsKept
<1>4. SameJobs(parker, parker') /\ SameJobs(parker', parker)
  BY NobodyChanges
<1>5. \A t \in Tickets : Passes(t, rec[t], rec'[t], shuffler[r], shuffler'[r],
                                shuffleJobCh, shuffleJobCh')
  BY <1>2, <1>3 DEF Passes
<1> QED
  BY <1>2, <1>3, <1>4, <1>5, ShufflerSettles

\* The same for a step that changes nothing but the robot.
LEMMA MovesSettle ==
    ASSUME IInv, SInv, NEW r \in Shufflers, NEW z, ShufflerMoves(r, z),
           shuffleJobCh' = shuffleJobCh, Orderly(rec, z),
           \A t \in Tickets : Stays(rec[t]) /\ Due(shuffler[r], t, rec[t])
                                  => Home(rec[t]) \/ Due(z, t, rec[t])
    PROVE  SInv'
<1>1. /\ shuffler' = [shuffler EXCEPT ![r] = z] /\ rec' = rec /\ parkingJobCh' = parkingJobCh
      /\ parker' = parker
  BY DEF ShufflerMoves
<1> QED
  BY <1>1, TurnSettles

-----------------------------------------------------------------------------
(* Steps that move no vehicle to where it stays *)

\* Robots after a Broadcast have the duties they had.
LEMMA WokenAlike ==
    ASSUME TypeOK
    PROVE  /\ \A q \in Shufflers : Alike(shuffler[q], WakeReady(shuffler)[q])
           /\ \A f \in Floors : \A q \in Shufflers : Alike(shuffler[q], WakeShufflers(f, shuffler)[q])
<1>1. shuffler \in [Shufflers -> ShufflerStates]
  BY DEF TypeOK
<1>2. \A q \in Shufflers : Stirred(shuffler[q], WakeReady(shuffler)[q])
  BY <1>1, Broadcasts
<1>3. \A f \in Floors : \A q \in Shufflers : Stirred(shuffler[q], WakeShufflers(f, shuffler)[q])
  BY <1>1, Broadcasts
<1>4. \A q \in Shufflers : shuffler[q] \in ShufflerStates
  BY <1>1
<1> QED
  BY <1>2, <1>3, <1>4, StirredAlike

\* A vehicle that is asked back is not to stay.
LEMMA UnparkSettles ==
    ASSUME IInv, SInv, NEW t \in Tickets, Unpark(t)
    PROVE  SInv'
<1>1. /\ parkingJobCh' = parkingJobCh /\ shuffleJobCh' = shuffleJobCh /\ parker' = parker
      /\ shuffler' = WakeReady(shuffler)
      /\ rec' = rec \/ rec' = [rec EXCEPT ![t].unpark = TRUE]
  BY DEF Unpark, UnparkAccepted, UnparkBusy
<1>2. TypeOK /\ rec \in [Tickets -> Records]
  BY DEF IInv, TypeOK
<1>3. \A q \in Shufflers : Alike(shuffler[q], shuffler'[q])
  BY <1>1, <1>2, WokenAlike
<1>4. \A u \in Tickets : rec'[u] = rec[u] \/ rec'[u] = [rec[u] EXCEPT !.unpark = TRUE]
  BY <1>1, <1>2
<1>5. ASSUME NEW u \in Tickets
      PROVE  /\ Unmoved(rec[u], rec'[u])
             /\ rec'[u].status = rec[u].status /\ rec'[u].slot = rec[u].slot
             /\ rec'[u].floor = rec[u].floor
  <2> DEFINE e == rec[u]
             f == rec'[u]
  <2>1. e \in Records /\ (f = e \/ f = [e EXCEPT !.unpark = TRUE])
    BY <1>2, <1>4
  <2> HIDE DEF e, f
  <2>2. Unmoved(e, f) /\ f.status = e.status /\ f.slot = e.slot /\ f.floor = e.floor
    BY <2>1 DEF Records, Unmoved, Stays, SamePlace
  <2> QED
    BY <2>2 DEF e, f
<1>6. StatusKept(rec, rec')
  BY <1>5 DEF StatusKept
<1>7. SameJobs(parker, parker') /\ SameJobs(parker', parker)
  BY <1>1, NobodyChanges
<1> QED
  BY <1>1, <1>3, <1>5, <1>6, <1>7, QuietSettles

\* No record and no shuffling robot changes, and the parking robots keep their
\* jobs.
LEMMA IdleSettles ==
    ASSUME IInv, SInv, rec' = rec, shuffler' = shuffler, shuffleJobCh' = shuffleJobCh,
           parkingJobCh' = parkingJobCh, SameJobs(parker, parker'), SameJobs(parker', parker)
    PROVE  SInv'
<1>1. StatusKept(rec, rec') /\ \A t \in Tickets : Unmoved(rec[t], rec'[t])
  BY RecordsKept
<1>2. \A q \in Shufflers : Alike(shuffler[q], shuffler'[q])
  BY NobodyChanges
<1> QED
  BY <1>1, <1>2, QuietSettles

\* Steps that touch neither a record nor a job.
LEMMA OthersSettle ==
    ASSUME IInv, SInv,
           \/ \E x \in Switches : SwitchPlain(x)
           \/ ShuffleDone
           \/ \E r \in Unparkers : UnparkerTake(r) \/ UnparkerLook(r)
           \/ UNCHANGED vars
    PROVE  SInv'
<1>1. /\ rec' = rec /\ shuffler' = shuffler /\ shuffleJobCh' = shuffleJobCh
      /\ parkingJobCh' = parkingJobCh /\ parker' = parker
  BY DEF SwitchPlain, ShuffleDone, UnparkerTake, UnparkerLook, vars, deskVars
<1> QED
  BY <1>1, NobodyChanges, IdleSettles

\* A parking robot that waits or sends keeps its job, or had none.
LEMMA ParkerWaitsSettle ==
    ASSUME IInv, SInv, NEW r \in Parkers, ParkerClaim(r) \/ ParkerSleep(r) \/ ParkerSend(r)
    PROVE  SInv'
<1>1. /\ rec' = rec /\ shuffler' = shuffler /\ shuffleJobCh' = shuffleJobCh
      /\ parkingJobCh' = parkingJobCh
      /\ \/ parker[r].pc = "claim" /\ parker' = [parker EXCEPT ![r].pc = "moving"]
         \/ parker[r].pc = "claim" /\ parker' = [parker EXCEPT ![r].pc = "asleep"]
         \/ parker[r].pc = "send" /\ parker' = [parker EXCEPT ![r] = IdleRobot]
  BY DEF ParkerClaim, ParkerSleep, ParkerSend, deskVars
<1>2. parker \in [Parkers -> ParkerStates]
  BY DEF IInv, TypeOK, ParkerStates
<1>3. \A q \in Parkers : q # r => parker'[q] = parker[q]
  BY <1>1, <1>2
<1>4. /\ Brings(parker'[r]) <=> Brings(parker[r])
      /\ Brings(parker[r]) => /\ parker'[r].ticket = parker[r].ticket
                              /\ parker'[r].floor = parker[r].floor
  <2> DEFINE p == parker[r]
             z == parker'[r]
  <2>1. /\ p \in ParkerStates
        /\ \/ p.pc = "claim" /\ z = [p EXCEPT !.pc = "moving"]
           \/ p.pc = "claim" /\ z = [p EXCEPT !.pc = "asleep"]
           \/ p.pc = "send" /\ z = IdleRobot
    BY <1>1, <1>2
  <2> HIDE DEF p, z
  <2>2. (Brings(z) <=> Brings(p)) /\ (Brings(p) => z.ticket = p.ticket /\ z.floor = p.floor)
    BY <2>1 DEF Brings, ParkerStates, Robots, IdleRobot
  <2> QED
    BY <2>2 DEF p, z
<1>5. SameJobs(parker, parker') /\ SameJobs(parker', parker)
  BY <1>3, <1>4 DEF SameJobs
<1> QED
  BY <1>1, <1>5, IdleSettles

\* A vehicle that leaves is not to stay.
LEMMA UnparkerFinishSettles ==
    ASSUME IInv, SInv, NEW r \in Unparkers, UnparkerFinish(r)
    PROVE  SInv'
<1> DEFINE t == unparker[r].ticket
           f == unparker[r].floor
<1>1. /\ parkingJobCh' = parkingJobCh /\ shuffleJobCh' = shuffleJobCh
      /\ rec' = [rec EXCEPT ![t] = [@ EXCEPT !.floor = NoFloor, !.present = FALSE]]
      /\ unparker[r].pc = "moving"
  BY DEF UnparkerFinish, deskVars
<1>2. \/ f # NoFloor /\ parker' = WakeParkers(f, parker) /\ shuffler' = WakeShufflers(f, shuffler)
      \/ f = NoFloor /\ parker' = parker /\ shuffler' = shuffler
  BY DEF UnparkerFinish
<1>3. /\ TypeOK /\ rec \in [Tickets -> Records] /\ unparker[r] \in Robots({"idle", "look", "moving"})
  BY DEF IInv, TypeOK
<1>4. f \in Floors \cup {NoFloor} /\ t \in Tickets
  <2>1. f \in Floors \cup {NoFloor}
    BY <1>3 DEF Robots
  <2>2. t \in issued /\ issued \subseteq Tickets
    BY <1>1, <1>3 DEF IInv, JobsIssued, TypeOK
  <2> QED
    BY <2>1, <2>2
<1> HIDE DEF f, t
<1>5. SameJobs(parker, parker') /\ SameJobs(parker', parker)
  BY <1>2, <1>3, WokenSameJobs, NobodyChanges
<1>6. \A q \in Shufflers : Alike(shuffler[q], shuffler'[q])
  BY <1>2, <1>3, <1>4, WokenAlike, NobodyChanges
<1>7. \A u \in Tickets : rec'[u] = IF u = t THEN [rec[t] EXCEPT !.floor = NoFloor, !.present = FALSE]
                                            ELSE rec[u]
  BY <1>1, <1>3, <1>4
<1>8. ASSUME NEW u \in Tickets
      PROVE  /\ Unmoved(rec[u], rec'[u])
             /\ rec'[u].status = rec[u].status /\ rec'[u].slot = rec[u].slot
             /\ rec'[u].floor = rec[u].floor \/ rec'[u].floor = NoFloor
  <2> DEFINE e == rec[u]
             g == rec'[u]
  <2>1. e \in Records /\ (g = e \/ g = [e EXCEPT !.floor = NoFloor, !.present = FALSE])
    BY <1>3, <1>7
  <2> HIDE DEF e, g
  <2>2. Unmoved(e, g) /\ g.status = e.status /\ g.slot = e.slot /\ (g.floor = e.floor \/ g.floor = NoFloor)
    BY <2>1 DEF Records, Unmoved, Stays, SamePlace
  <2> QED
    BY <2>2 DEF e, g
<1>9. StatusKept(rec, rec')
  BY <1>8 DEF StatusKept
<1> QED
  BY <1>1, <1>5, <1>6, <1>8, <1>9, QuietSettles

-----------------------------------------------------------------------------
(* Parking *)

\* A job more at the end of the channel.
LEMMA JobAppended ==
    ASSUME NEW X, NEW Q \in Seq(X), NEW job \in X
    PROVE  LET n == Len(Q) + 1
           IN /\ n \in DOMAIN Append(Q, job) /\ n \notin DOMAIN Q /\ Append(Q, job)[n] = job
              /\ DOMAIN Append(Q, job) = DOMAIN Q \cup {n}
              /\ \A i \in DOMAIN Q : Append(Q, job)[i] = Q[i]
<1>1. Len(Q) \in Nat /\ DOMAIN Q = 1..Len(Q)
  BY LenProperties
<1>2. /\ Append(Q, job) \in Seq(X) /\ Len(Append(Q, job)) = Len(Q) + 1
      /\ \A i \in 1..Len(Q) : Append(Q, job)[i] = Q[i]
      /\ Append(Q, job)[Len(Q) + 1] = job
  BY AppendProperties
<1>3. DOMAIN Append(Q, job) = 1..(Len(Q) + 1)
  BY <1>2, LenProperties
<1> QED
  BY <1>1, <1>2, <1>3

\* A new visit is in the channel of the parking robots.
LEMMA ParkSettles ==
    ASSUME IInv, SInv, NEW t \in Tickets, Park(t)
    PROVE  SInv'
<1> DEFINE f == Choose(strategy, t, reserved)
           e == [NoRecord EXCEPT !.present = TRUE, !.target = f]
           job == [ticket |-> t, floor |-> f]
           Q == parkingJobCh
           n == Len(Q) + 1
<1>1. /\ t \notin issued /\ rec' = [rec EXCEPT ![t] = e] /\ f # NoFloor
      /\ parkingJobCh' = Append(Q, job)
      /\ shuffleJobCh' = shuffleJobCh /\ parker' = parker /\ shuffler' = shuffler
  BY DEF Park
<1>2. e.target = f /\ e.floor = NoFloor /\ e.slot = NoSlot /\ e.status = "PENDING"
  BY DEF NoRecord
<1>3. /\ TypeOK /\ JobsIssued /\ ShufflersFit /\ rec \in [Tickets -> Records]
      /\ Q \in Seq([ticket : Tickets, floor : Floors]) /\ strategy \in Strategies
      /\ issued \subseteq Tickets
  BY DEF IInv, TypeOK
<1>4. f \in Floors
  BY <1>1, <1>3, ChooseFits DEF Fitting
<1>5. job \in [ticket : Tickets, floor : Floors] /\ job.ticket = t /\ job.floor = f
  BY <1>4
<1> HIDE DEF e, f, job
<1>6. /\ n \in DOMAIN parkingJobCh' /\ n \notin DOMAIN Q /\ parkingJobCh'[n] = job
      /\ DOMAIN parkingJobCh' = DOMAIN Q \cup {n}
      /\ \A i \in DOMAIN Q : parkingJobCh'[i] = Q[i]
  BY <1>1, <1>3, <1>5, JobAppended
<1> HIDE DEF n
<1>7. /\ \A i \in DOMAIN Q : Q[i].ticket \in issued
      /\ \A r \in Parkers : Brings(parker[r]) => parker[r].ticket \in issued
      /\ \A r \in Shufflers : \A k \in DOMAIN shuffler[r].jobs : shuffler[r].jobs[k].ticket \in issued
  BY <1>3 DEF JobsIssued, Brings, ShufflersFit, Fits, Issues
<1>8. \A u \in Tickets : rec'[u] = IF u = t THEN e ELSE rec[u]
  BY <1>1, <1>3
<1>9. \A u \in issued : rec'[u] = rec[u] /\ u # t
  BY <1>1, <1>3, <1>8
<1>10. ParkedOnce(rec', parkingJobCh', parker')
  <2>1. \A i \in DOMAIN parkingJobCh' : rec'[parkingJobCh'[i].ticket].status = "PENDING"
    BY <1>2, <1>5, <1>6, <1>7, <1>8, <1>9 DEF SInv, ParkedOnce
  <2>2. \A r \in Parkers : Brings(parker'[r]) => rec'[parker'[r].ticket].status = "PENDING"
    BY <1>1, <1>7, <1>9 DEF SInv, ParkedOnce
  <2>3. ASSUME NEW i \in DOMAIN parkingJobCh', NEW k \in DOMAIN parkingJobCh',
               parkingJobCh'[i].ticket = parkingJobCh'[k].ticket
        PROVE  i = k
    <3>1. CASE i \in DOMAIN Q /\ k \in DOMAIN Q
      BY <1>6, <2>3, <3>1 DEF SInv, ParkedOnce
    <3>2. CASE i = n /\ k \in DOMAIN Q
      BY <1>5, <1>6, <1>7, <1>9, <2>3, <3>2
    <3>3. CASE i \in DOMAIN Q /\ k = n
      BY <1>5, <1>6, <1>7, <1>9, <2>3, <3>3
    <3> QED
      BY <1>6, <3>1, <3>2, <3>3
  <2>4. \A i \in DOMAIN parkingJobCh', r \in Parkers :
            Brings(parker'[r]) => parkingJobCh'[i].ticket # parker'[r].ticket
    BY <1>1, <1>5, <1>6, <1>7, <1>9 DEF SInv, ParkedOnce
  <2>5. \A r, q \in Parkers : Brings(parker'[r]) /\ Brings(parker'[q])
                                  /\ parker'[r].ticket = parker'[q].ticket => r = q
    BY <1>1 DEF SInv, ParkedOnce
  <2> QED
    BY <2>1, <2>2, <2>3, <2>4, <2>5 DEF ParkedOnce
<1>11. Nowhere(rec')
  BY <1>2, <1>8 DEF SInv, Nowhere
<1>12. \A r \in Shufflers : Orderly(rec', shuffler'[r])
  BY <1>1, <1>7, <1>9 DEF SInv, Orderly
<1>13. Accounted(rec', parkingJobCh', parker', shuffleJobCh', shuffler')
  <2>1. Coming(t, f, parkingJobCh', parker')
    BY <1>5, <1>6 DEF Coming
  <2>2. ASSUME NEW u \in Tickets, u # t
        PROVE  /\ Unmoved(rec[u], rec'[u])
               /\ Coming(u, rec[u].target, Q, parker) => Coming(u, rec[u].target, parkingJobCh', parker')
    <3>1. Coming(u, rec[u].target, Q, parker) => Coming(u, rec[u].target, parkingJobCh', parker')
      BY <1>1, <1>6 DEF Coming
    <3> QED
      BY <1>8, <2>2, <3>1 DEF Unmoved, SamePlace
  <2>3. \A u \in Tickets : Stays(rec'[u]) =>
               \/ Coming(u, rec'[u].target, parkingJobCh', parker')
               \/ /\ Unmoved(rec[u], rec'[u])
                  /\ Coming(u, rec[u].target, Q, parker) => Coming(u, rec[u].target, parkingJobCh', parker')
    BY <1>2, <1>8, <2>1, <2>2
  <2>4. \A r \in Shufflers : Alike(shuffler[r], shuffler'[r])
    BY <1>1, NobodyChanges
  <2>5. Accounted(rec, Q, parker, shuffleJobCh, shuffler)
    BY DEF SInv
  <2> HIDE DEF Q
  <2> QED
    BY <1>1, <2>3, <2>4, <2>5, DeskSettles
<1> QED
  BY <1>10, <1>11, <1>12, <1>13 DEF SInv

\* A parking robot takes the next job.
LEMMA ParkerTakeSettles ==
    ASSUME IInv, SInv, NEW r \in Parkers, ParkerTake(r)
    PROVE  SInv'
<1> DEFINE Q == parkingJobCh
           T == Tail(Q)
           p == [pc |-> "claim", ticket |-> Head(Q).ticket, floor |-> Head(Q).floor]
<1>1. /\ parker[r].pc = "idle" /\ Q # << >> /\ parker' = [parker EXCEPT ![r] = p]
      /\ parkingJobCh' = T
      /\ rec' = rec /\ shuffler' = shuffler /\ shuffleJobCh' = shuffleJobCh
  BY DEF ParkerTake, deskVars
<1>2. /\ parker \in [Parkers -> ParkerStates] /\ Q \in Seq([ticket : Tickets, floor : Floors])
  BY DEF IInv, TypeOK, ParkerStates
<1>3. /\ Head(Q) = Q[1] /\ 1 \in DOMAIN Q
      /\ \A i \in DOMAIN T : i \in Nat /\ i + 1 \in DOMAIN Q /\ T[i] = Q[i + 1] /\ i + 1 # 1
  <2>1. \A i \in DOMAIN T : i \in Nat /\ i \in 1..Len(T)
    BY <1>1, <1>2, Taken, LenProperties
  <2>2. \A i \in DOMAIN T : i + 1 # 1
    BY <2>1
  <2> QED
    BY <1>1, <1>2, <2>2, Taken
<1>4. \A i \in DOMAIN Q : i # 1 => i - 1 \in DOMAIN T /\ T[i - 1] = Q[i]
  BY <1>1, <1>2, HeadTailProperties, LenProperties
<1> HIDE DEF T
<1>5. /\ Brings(p) /\ p.ticket = Q[1].ticket /\ p.floor = Q[1].floor
  BY <1>3 DEF Brings
<1> HIDE DEF p
<1>6. parker'[r] = p /\ \A q \in Parkers : q # r => parker'[q] = parker[q]
  BY <1>1, <1>2
<1>7. ParkedOnce(rec, Q, parker) /\ Nowhere(rec) /\ \A q \in Shufflers : Orderly(rec, shuffler[q])
  BY DEF SInv
<1>8. ParkedOnce(rec', T, parker')
  <2>1. \A i \in DOMAIN T : rec'[T[i].ticket].status = "PENDING"
    BY <1>1, <1>3, <1>7 DEF ParkedOnce
  <2>2. \A q \in Parkers : Brings(parker'[q]) => rec'[parker'[q].ticket].status = "PENDING"
    BY <1>1, <1>3, <1>5, <1>6, <1>7 DEF ParkedOnce
  <2>3. \A i, k \in DOMAIN T : T[i].ticket = T[k].ticket => i = k
    <3>1. \A i, k \in DOMAIN T : T[i].ticket = T[k].ticket => i + 1 = k + 1
      BY <1>3, <1>7 DEF ParkedOnce
    <3> QED
      BY <1>3, <3>1
  <2>4. ASSUME NEW i \in DOMAIN T, NEW q \in Parkers, Brings(parker'[q])
        PROVE  T[i].ticket # parker'[q].ticket
    <3>1. CASE q = r
      BY <1>3, <1>5, <1>6, <1>7, <3>1 DEF ParkedOnce
    <3>2. CASE q # r
      BY <1>3, <1>6, <1>7, <2>4, <3>2 DEF ParkedOnce
    <3> QED
      BY <3>1, <3>2
  <2>5. ASSUME NEW a \in Parkers, NEW b \in Parkers, Brings(parker'[a]), Brings(parker'[b]),
               parker'[a].ticket = parker'[b].ticket
        PROVE  a = b
    <3>1. CASE a = r /\ b # r
      BY <1>3, <1>5, <1>6, <1>7, <2>5, <3>1 DEF ParkedOnce
    <3>2. CASE a # r /\ b = r
      BY <1>3, <1>5, <1>6, <1>7, <2>5, <3>2 DEF ParkedOnce
    <3>3. CASE a # r /\ b # r
      BY <1>6, <1>7, <2>5, <3>3 DEF ParkedOnce
    <3> QED
      BY <3>1, <3>2, <3>3
  <2> QED
    BY <2>1, <2>2, <2>3, <2>4, <2>5 DEF ParkedOnce
<1>9. ASSUME NEW t, NEW f, Coming(t, f, Q, parker) PROVE Coming(t, f, T, parker')
  <2>1. CASE \E i \in DOMAIN Q : Q[i].ticket = t /\ Q[i].floor = f
    <3>1. PICK i \in DOMAIN Q : Q[i].ticket = t /\ Q[i].floor = f
      BY <2>1
    <3>2. CASE i = 1
      BY <1>5, <1>6, <3>1, <3>2 DEF Coming
    <3>3. CASE i # 1
      BY <1>4, <3>1, <3>3 DEF Coming
    <3> QED
      BY <3>2, <3>3
  <2>2. CASE \E q \in Parkers : Brings(parker[q]) /\ parker[q].ticket = t /\ parker[q].floor = f
    <3>1. ~Brings(parker[r])
      BY <1>1 DEF Brings
    <3> QED
      BY <1>6, <2>2, <3>1 DEF Coming
  <2> QED
    BY <1>9, <2>1, <2>2 DEF Coming
<1>10. Accounted(rec', T, parker', shuffleJobCh', shuffler')
  <2>1. Accounted(rec, Q, parker, shuffleJobCh, shuffler)
    BY DEF SInv
  <2>2. \A t \in Tickets : Unmoved(rec[t], rec'[t])
    BY <1>1, RecordsKept
  <2>3. \A q \in Shufflers : Alike(shuffler[q], shuffler'[q])
    BY <1>1, NobodyChanges
  <2> HIDE DEF Q
  <2> QED
    BY <1>1, <1>9, <2>1, <2>2, <2>3, DeskSettles
<1> QED
  BY <1>1, <1>7, <1>8, <1>10 DEF SInv

\* What robots have to do with a vehicle that is not parked yet is to wait for it.
LEMMA PendingEarly ==
    ASSUME NEW s \in ShufflerStates, InStage(s), NEW R, Orderly(R, s), NEW t,
           R[t].status = "PENDING", R[t].slot = NoSlot, R[t].floor = NoFloor, Due(s, t, R[t])
    PROVE  Early(s, t)
<1>1. ~ToOrder(s, t, R[t]) /\ ~Left(s, t, R[t]) /\ ~Slotted(s, t, R[t])
  BY DEF ToOrder, Left, Slotted, Rested
<1>2. ~Listed(s, t, R[t])
  BY DEF Listed, Orderly
<1>3. ~InHand(s, t)
  <2> SUFFICES ASSUME InHand(s, t) PROVE FALSE
    OBVIOUS
  <2>1. s.jobs \in Seq(Jobs) /\ s.jobs # << >>
    BY DEF InHand, InStage, Carrying, ShufflerStates
  <2>2. 1 \in DOMAIN s.jobs /\ Head(s.jobs) = s.jobs[1]
    BY <2>1, Taken
  <2> QED
    BY <2>2 DEF InHand, Orderly
<1> QED
  BY <1>1, <1>2, <1>3 DEF Due

\* The vehicle has arrived at the floor of its job, which is still the one it was
\* promised, or a component has it.
LEMMA ParkerStoreSettles ==
    ASSUME IInv, SInv, NEW r \in Parkers, ParkerStore(r)
    PROVE  SInv'
<1> DEFINE t == parker[r].ticket
           f == parker[r].floor
           Q == parkingJobCh
           e == [rec[t] EXCEPT !.floor = f, !.slot = NoSlot, !.status = "PARKED"]
<1>1. /\ parker[r].pc = "moving" /\ parkingJobCh' = Q /\ shuffleJobCh' = shuffleJobCh
      /\ IF rec[t].present /\ rec[t].unpark
         THEN parker' = [parker EXCEPT ![r] = [@ EXCEPT !.pc = "send"]]
         ELSE parker' = [parker EXCEPT ![r] = IdleRobot]
  BY DEF ParkerStore, deskVars
<1>2. IF rec[t].present THEN rec' = [rec EXCEPT ![t] = e] /\ shuffler' = WakeReady(shuffler)
                        ELSE rec' = rec /\ shuffler' = shuffler
  BY Zenon DEF ParkerStore
<1>3. /\ TypeOK /\ rec \in [Tickets -> Records] /\ parker \in [Parkers -> ParkerStates]
      /\ issued \subseteq Tickets /\ VisitsIssued /\ JobsIssued
      /\ shuffler \in [Shufflers -> ShufflerStates]
  BY DEF IInv, TypeOK, ParkerStates
<1>4. Brings(parker[r])
  BY <1>1 DEF Brings
<1>5. t \in issued /\ t \in Tickets /\ f \in Floors /\ rec[t] \in Records /\ rec[t].target \in Floors
  BY <1>1, <1>3 DEF JobsIssued, VisitsIssued
<1>6. /\ ParkedOnce(rec, Q, parker) /\ Nowhere(rec) /\ \A q \in Shufflers : Orderly(rec, shuffler[q])
      /\ Accounted(rec, Q, parker, shuffleJobCh, shuffler)
  BY DEF SInv
<1>7. rec[t].status = "PENDING" /\ rec[t].slot = NoSlot /\ rec[t].floor = NoFloor
  BY <1>4, <1>5, <1>6 DEF ParkedOnce, Nowhere
<1>8. ~Brings(parker'[r]) /\ \A q \in Parkers : q # r => parker'[q] = parker[q]
  <2>1. [parker[r] EXCEPT !.pc = "send"].pc = "send" /\ IdleRobot.pc = "idle"
    BY <1>3 DEF ParkerStates, Robots, IdleRobot
  <2>2. parker'[r].pc = "send" \/ parker'[r].pc = "idle"
    BY <1>1, <1>3, <2>1
  <2> QED
    BY <1>1, <1>3, <2>2 DEF Brings
<1>9. \A u \in Tickets : u # t => rec'[u] = rec[u]
  BY <1>2, <1>3
<1>10. rec'[t] = IF rec[t].present THEN e ELSE rec[t]
  BY <1>2, <1>3, <1>5
<1>11. /\ e.floor = f /\ e.slot = NoSlot /\ e.status = "PARKED" /\ e.target = rec[t].target
       /\ e.present = rec[t].present /\ e.unpark = rec[t].unpark
  BY <1>5 DEF Records
<1> HIDE DEF e
<1>12. \A q \in Shufflers : Alike(shuffler[q], shuffler'[q])
  BY <1>2, <1>3, WokenAlike, NobodyChanges
<1>13. /\ \A i \in DOMAIN Q : Q[i].ticket # t /\ Q[i].ticket \in Tickets
       /\ \A q \in Parkers : q # r /\ Brings(parker[q]) => parker[q].ticket # t /\ parker[q].ticket \in Tickets
  BY <1>4, <1>6, JobTickets DEF ParkedOnce, JobsOf
<1> HIDE DEF t, f
<1>14. ParkedOnce(rec', Q, parker')
  BY <1>6, <1>8, <1>9, <1>13 DEF ParkedOnce
<1>15. Nowhere(rec')
  BY <1>6, <1>9, <1>10, <1>11 DEF Nowhere
<1>16. ASSUME NEW q \in Shufflers PROVE Orderly(rec', shuffler'[q])
  <2>1. shuffler'[q].jobs = shuffler[q].jobs /\ shuffler'[q].tickets = shuffler[q].tickets
    BY <1>12 DEF Alike
  <2>2. Orderly(rec, shuffler[q]) /\ \A k \in DOMAIN shuffler[q].jobs : shuffler[q].jobs[k].ticket \in Tickets
    BY <1>6, JobTickets
  <2> QED
    BY <1>7, <1>9, <2>1, <2>2 DEF Orderly
<1>17. ASSUME NEW u \in Tickets, u # t
       PROVE  /\ Unmoved(rec[u], rec'[u])
              /\ Coming(u, rec[u].target, Q, parker) => Coming(u, rec[u].target, Q, parker')
  <2>1. Unmoved(rec[u], rec'[u])
    BY <1>9, <1>17 DEF Unmoved, SamePlace
  <2>2. ASSUME NEW g, Coming(u, g, Q, parker) PROVE Coming(u, g, Q, parker')
    BY <1>8, <1>17, <2>2 DEF Coming, t
  <2> QED
    BY <2>1, <2>2
<1>18. Stays(rec'[t]) =>
           \/ Home(rec'[t])
           \/ Assigned(t, shuffleJobCh)
           \/ \E q \in Shufflers : Due(shuffler'[q], t, rec'[t])
  <2> SUFFICES ASSUME Stays(rec'[t]), ~Assigned(t, shuffleJobCh), ~Home(rec'[t])
               PROVE  \E q \in Shufflers : Due(shuffler'[q], t, rec'[t])
    OBVIOUS
  <2>1. rec[t].present /\ rec'[t] = e /\ Stays(rec[t])
    BY <1>10, <1>11 DEF Stays
  <2>2. ~Home(rec[t])
    BY <1>5, <1>7, Numbers DEF Home
  <2>3. ~Coming(t, rec[t].target, Q, parker)
    <3> SUFFICES ASSUME Coming(t, rec[t].target, Q, parker) PROVE FALSE
      OBVIOUS
    <3>1. PICK q \in Parkers : Brings(parker[q]) /\ parker[q].ticket = t /\ parker[q].floor = rec[t].target
      BY <1>13 DEF Coming
    <3>2. q = r
      BY <1>13, <3>1
    <3>3. f = rec[t].target
      BY <3>1, <3>2 DEF f
    <3> QED
      BY <1>11, <2>1, <3>3 DEF Home
  <2>4. PICK q \in Shufflers : Due(shuffler[q], t, rec[t])
    BY <1>5, <1>6, <2>1, <2>2, <2>3 DEF Accounted, Settles
  <2>5. InStage(shuffler[q]) /\ shuffler[q] \in ShufflerStates /\ Orderly(rec, shuffler[q])
    BY <1>6, RobotFits
  <2>6. Early(shuffler[q], t)
    BY <1>7, <2>4, <2>5, PendingEarly
  <2>7. Early(shuffler'[q], t)
    BY <1>12, <2>6 DEF Early, Alike
  <2> QED
    BY <2>7 DEF Due
<1>19. Accounted(rec', Q, parker', shuffleJobCh', shuffler')
  <2>1. \A u \in Tickets : Stays(rec'[u]) =>
               \/ Home(rec'[u])
               \/ Assigned(u, shuffleJobCh)
               \/ \E q \in Shufflers : Due(shuffler'[q], u, rec'[u])
               \/ /\ Unmoved(rec[u], rec'[u])
                  /\ Coming(u, rec[u].target, Q, parker) => Coming(u, rec[u].target, Q, parker')
    BY <1>17, <1>18
  <2> HIDE DEF Q
  <2> QED
    BY <1>1, <1>6, <1>12, <2>1, DeskSettles
<1> QED
  BY <1>1, <1>14, <1>15, <1>16, <1>19 DEF SInv

\* When no rearrangement is on, nobody has anything to do with a vehicle that is
\* parked.
LEMMA NobodyDue ==
    ASSUME TypeOK, Counted, ShufflersFit, shuffleWG = 0, NEW t
    PROVE  /\ ~Assigned(t, shuffleJobCh)
           /\ \A r \in Shufflers : \A e : ~Due(shuffler[r], t, e)
<1>1. shuffleJobCh = << >> /\ \A r \in Shufflers : shuffler[r] = IdleShuffler
  BY NobodyBusy
<1>2. ~Assigned(t, << >>)
  BY DEF Assigned
<1>3. ASSUME NEW s, s.pc = "idle", NEW e PROVE ~Due(s, t, e)
  BY <1>3 DEF Due, Early, ToOrder, Left, Slotted, InHand, Listed, Carrying
<1> QED
  BY <1>1, <1>2, <1>3, IdleFits

\* A rearrangement gives every vehicle that is to go elsewhere to a component.
LEMMA SwitchRearrangingSettles ==
    ASSUME IInv, SInv, NEW s \in Switches, SwitchRearranging(s)
    PROVE  SInv'
<1>1. TypeOK /\ Counted /\ ShufflersFit /\ VisitsIssued /\ rec \in [Tickets -> Records]
  BY DEF IInv, TypeOK
<1> DEFINE movedBy(layout) == {t \in Planned : layout[t] # rec[t].target}
           movesBy(layout) == [t \in movedBy(layout) |-> [from |-> rec[t].target, to |-> layout[t]]]
<1>2. PICK layout \in Layouts(s, Planned) :
        \E order \in MovementOrders(movesBy(layout)) :
          /\ rec' = [t \in Tickets |->
                IF t \in movedBy(layout) THEN [rec[t] EXCEPT !.target = layout[t]]
                ELSE rec[t]]
          /\ shuffleJobCh' = Blueprint(order, layout)
  BY Zenon DEF SwitchRearranging
<1> DEFINE moved == movedBy(layout)
           moves == movesBy(layout)
<1>3. PICK order \in MovementOrders(moves) :
          /\ rec' = [t \in Tickets |->
                IF t \in moved THEN [rec[t] EXCEPT !.target = layout[t]]
                ELSE rec[t]]
          /\ shuffleJobCh' = Blueprint(order, layout)
  BY <1>2
<1>4. /\ ~shuffling /\ parkingJobCh' = parkingJobCh /\ parker' = parker /\ shuffler' = shuffler
  BY DEF SwitchRearranging
<1>5. s \in Strategies /\ Planned \in SUBSET Tickets /\ Planned \subseteq issued
  BY <1>1, ParkingAssumption DEF Planned, VisitsIssued
<1>6. layout \in [Planned -> Floors]
  BY <1>5, LayoutsFit
<1>7. moved \subseteq Planned /\ DOMAIN moves = moved /\ IsFiniteSet(moved) /\ moved \in SUBSET Tickets
  BY <1>5, PlanAssumption, FS_Subset
<1>8. Divides(moved, moved, order)
  <2> HIDE DEF moved, moves
  <2> QED
    BY <1>7, MovementOrdersDivide
<1>9. \A t \in moved : rec[t].floor # layout[t] => Assigned(t, shuffleJobCh')
  <2>1. \A t \in moved \cap Planned : rec[t].floor # layout[t] =>
          \E i \in DOMAIN Blueprint(order, layout) :
              t \in ToSet(Blueprint(order, layout)[i].tickets)
    <3> HIDE DEF moved, moves
    <3> QED
      BY <1>7, <1>8, BlueprintResult
  <2> QED
    BY <1>3, <1>7, <2>1 DEF Assigned
<1>10. \A t \in moved : layout[t] \in Floors /\ layout[t] # rec[t].target
  BY <1>6, <1>7
<1>11. /\ \A t \in moved : rec'[t] = [rec[t] EXCEPT !.target = layout[t]]
       /\ \A t \in Tickets : t \notin moved => rec'[t] = rec[t]
  BY <1>3, <1>7
<1> HIDE DEF moved
<1>12. ASSUME NEW t \in Tickets
       PROVE  /\ rec'[t].status = rec[t].status /\ rec'[t].slot = rec[t].slot
              /\ rec'[t].floor = rec[t].floor /\ rec'[t].present = rec[t].present
              /\ rec'[t].unpark = rec[t].unpark
  <2> DEFINE e == rec[t]
             f == rec'[t]
  <2>1. e \in Records /\ (f = e \/ f = [e EXCEPT !.target = layout[t]])
    BY <1>1, <1>11
  <2> HIDE DEF e, f
  <2>2. /\ f.status = e.status /\ f.slot = e.slot
        /\ f.floor = e.floor /\ f.present = e.present
        /\ f.unpark = e.unpark
    BY <2>1 DEF Records
  <2> QED
    BY <2>2 DEF e, f
<1>13. StatusKept(rec, rec')
  BY <1>12 DEF StatusKept
<1>14. SameJobs(parker, parker')
  BY <1>4, NobodyChanges
<1>15. ParkedOnce(rec', parkingJobCh', parker') /\ Nowhere(rec')
  BY <1>4, <1>13, <1>14, JobTickets, OnceKept, NowhereKept DEF SInv
<1>16. \A r \in Shufflers : Orderly(rec', shuffler'[r])
  BY <1>4, <1>13, JobTickets, OrderlyKept DEF SInv
<1>17. ASSUME NEW t \in moved, Stays(rec'[t]) PROVE Assigned(t, shuffleJobCh')
  <2>1. t \in Tickets /\ t \in issued /\ Stays(rec[t])
    BY <1>5, <1>7, <1>12, <1>17 DEF Stays
  <2>2. shuffleWG = 0
    BY <1>1, <1>4 DEF Counted
  <2>3. ~Assigned(t, shuffleJobCh) /\ \A r \in Shufflers : ~Due(shuffler[r], t, rec[t])
    BY <1>1, <2>2, NobodyDue
  <2>4. Home(rec[t]) \/ Coming(t, rec[t].target, parkingJobCh, parker)
    BY <2>1, <2>3 DEF SInv, Accounted, Settles
  <2>5. CASE Home(rec[t])
    BY <1>9, <1>10, <2>5 DEF Home
  <2>6. CASE Coming(t, rec[t].target, parkingJobCh, parker)
    <3>1. rec[t].status = "PENDING"
      BY <2>6 DEF Coming, SInv, ParkedOnce
    <3>2. rec[t].floor = NoFloor
      BY <2>1, <3>1 DEF SInv, Nowhere
    <3> QED
      BY <1>9, <1>10, <3>2, Numbers
  <2> QED
    BY <2>4, <2>5, <2>6
<1>18. Accounted(rec', parkingJobCh', parker', shuffleJobCh', shuffler')
  <2>1. \A t \in Tickets : t \notin moved =>
            /\ Unmoved(rec[t], rec'[t])
            /\ Coming(t, rec[t].target, parkingJobCh, parker)
                   => Coming(t, rec[t].target, parkingJobCh', parker')
            /\ Assigned(t, shuffleJobCh) => Assigned(t, shuffleJobCh')
    <3>1. shuffleWG = 0
      BY <1>1, <1>4 DEF Counted
    <3>2. \A t : ~Assigned(t, shuffleJobCh)
      BY <1>1, <3>1, NobodyDue
    <3> QED
      BY <1>4, <1>11, <3>2 DEF Unmoved, SamePlace
  <2>2. \A t \in Tickets : Stays(rec'[t]) =>
               \/ Assigned(t, shuffleJobCh')
               \/ /\ Unmoved(rec[t], rec'[t])
                  /\ Coming(t, rec[t].target, parkingJobCh, parker)
                         => Coming(t, rec[t].target, parkingJobCh', parker')
                  /\ Assigned(t, shuffleJobCh) => Assigned(t, shuffleJobCh')
    BY <1>17, <2>1
  <2>3. \A q \in Shufflers : Alike(shuffler[q], shuffler'[q])
    BY <1>4, NobodyChanges
  <2>4. Accounted(rec, parkingJobCh, parker, shuffleJobCh, shuffler)
    BY DEF SInv
  <2> QED
    BY <2>2, <2>3, <2>4, DeskSettles
<1> QED
  BY <1>15, <1>16, <1>18 DEF SInv

-----------------------------------------------------------------------------
(* A shuffling robot *)

\* A wait takes no duty away.
LEMMA WaitSettles ==
    ASSUME IInv, SInv, NEW r \in Shufflers, NEW z, ShufflerMoves(r, z),
           shuffleJobCh' = shuffleJobCh, Alike(shuffler[r], z)
    PROVE  SInv'
<1>1. Orderly(rec, z)
  <2>1. z.jobs = shuffler[r].jobs /\ z.tickets = shuffler[r].tickets
    BY DEF Alike
  <2> QED
    BY <2>1 DEF SInv, Orderly
<1>2. \A t \in Tickets : Due(shuffler[r], t, rec[t]) => Due(z, t, rec[t])
  <2>1. \A t \in Tickets : SamePlace(rec[t], rec[t])
    BY DEF SamePlace
  <2> QED
    BY <2>1, AlikeDue
<1> QED
  BY <1>1, <1>2, MovesSettle

\* The waits of a shuffling robot.
LEMMA ShufflerWaitsSettle ==
    ASSUME IInv, SInv, NEW r \in Shufflers,
           ShufflerSleep(r) \/ ShufflerSleepSlot(r) \/ ShufflerSleepFloor(r)
    PROVE  SInv'
<1> DEFINE s == shuffler[r]
           f == rec[Head(s.jobs).ticket].target
<1>1. s \in ShufflerStates
  BY RobotFits
<1>2. CASE ShufflerSleep(r)
  <2> DEFINE z == [s EXCEPT !.pc = "onWake"]
  <2>1. s.pc = "ready" /\ ShufflerMoves(r, z) /\ shuffleJobCh' = shuffleJobCh
    BY <1>2 DEF ShufflerSleep
  <2>2. Alike(s, z)
    <3> HIDE DEF s
    <3> QED
      BY <1>1, <2>1 DEF Alike, ShufflerStates
  <2> HIDE DEF z
  <2> QED
    BY <2>1, <2>2, WaitSettles
<1>3. CASE ShufflerSleepSlot(r)
  <2> DEFINE z == [s EXCEPT !.pc = "onSlot"]
  <2>1. s.pc = "claimSlot" /\ ShufflerMoves(r, z) /\ shuffleJobCh' = shuffleJobCh
    BY <1>3 DEF ShufflerSleepSlot
  <2>2. Alike(s, z)
    <3> HIDE DEF s
    <3> QED
      BY <1>1, <2>1 DEF Alike, ShufflerStates
  <2> HIDE DEF z
  <2> QED
    BY <2>1, <2>2, WaitSettles
<1>4. CASE ShufflerSleepFloor(r)
  <2> DEFINE z == [s EXCEPT !.pc = "onFloor", !.floor = f]
  <2>1. s.pc \in {"carry", "settle"} /\ ShufflerMoves(r, z) /\ shuffleJobCh' = shuffleJobCh
    BY <1>4 DEF ShufflerSleepFloor, AtTarget
  <2>2. Alike(s, z)
    <3> HIDE DEF s, f
    <3> QED
      BY <1>1, <2>1 DEF Alike, ShufflerStates
  <2> HIDE DEF z
  <2> QED
    BY <2>1, <2>2, WaitSettles
<1> QED
  BY <1>2, <1>3, <1>4

\* The next job is one of those that the robot had.
LEMMA NextJobOrderly ==
    ASSUME NEW R, NEW s \in ShufflerStates, s.jobs # << >>, Orderly(R, s)
    PROVE  /\ Orderly(R, AfterJob(s))
           /\ \A k \in DOMAIN AfterJob(s).jobs : \E n \in DOMAIN s.jobs :
                 AfterJob(s).jobs[k] = s.jobs[n]
<1> DEFINE z == AfterJob(s)
           l == Tail(s.jobs)
<1>1. \A k \in DOMAIN l : \E n \in DOMAIN s.jobs : l[k] = s.jobs[n]
  BY Taken DEF ShufflerStates
<1>2. z.tickets = s.tickets /\ z.jobs = l
  <2> HIDE DEF l
  <2> QED
    BY DEF AfterJob, ShufflerStates, l
<1> HIDE DEF z, l
<1>3. Orderly(R, z)
  BY <1>1, <1>2 DEF Orderly
<1> QED
  BY <1>1, <1>2, <1>3 DEF z

\* Its vehicle is not where the job says, is gone, or has been handed over.
LEMMA ShufflerDropsSettle ==
    ASSUME IInv, SInv, NEW r \in Shufflers, ShufflerSkip(r) \/ ShufflerDrop(r) \/ ShufflerSend(r)
    PROVE  SInv'
<1> DEFINE s == shuffler[r]
           job == Head(s.jobs)
           z == AfterJob(s)
<1>1. /\ s.pc \in {"lift", "carry", "send"}
      /\ shuffler' = [shuffler EXCEPT ![r] = z]
      /\ rec' = rec /\ parkingJobCh' = parkingJobCh /\ parker' = parker
      /\ shuffleJobCh' = shuffleJobCh
      /\ s.pc = "lift" => ~Liftable(job)
      /\ s.pc = "carry" => ~rec[job.ticket].present
  BY DEF ShufflerSkip, ShufflerDrop, ShufflerSend, ShufflerMoves
<1>2. s \in ShufflerStates /\ InStage(s) /\ s.pc \in Carrying /\ s.jobs # << >>
  BY <1>1, RobotFits DEF InStage, Carrying
<1>3. Orderly(rec, z)
  BY <1>2, NextJobOrderly DEF SInv
<1>4. ASSUME NEW t \in Tickets, Stays(rec[t]), Due(s, t, rec[t])
      PROVE  Due(z, t, rec[t])
  <2>1. SamePlace(rec[t], rec[t])
    BY DEF SamePlace
  <2>2. ~InHand(s, t)
    BY <1>1, <1>4 DEF InHand, Stays
  <2>3. s.pc = "lift" => ~(job.ticket = t /\ At(rec[t], job.from))
    BY <1>1, <1>4 DEF Liftable, At, Stays
  <2> HIDE DEF s
  <2> QED
    BY <1>2, <1>4, <2>1, <2>2, <2>3, NextJobDue
<1> HIDE DEF z
<1> QED
  BY <1>1, <1>3, <1>4, TurnSettles

\* A robot has taken a component.
LEMMA ShufflerTakeSettles ==
    ASSUME IInv, SInv, NEW r \in Shufflers, ShufflerTake(r)
    PROVE  SInv'
<1> DEFINE C == shuffleJobCh
           c == Head(C)
           z == [IdleShuffler EXCEPT !.pc = "ready", !.loop = c.loop, !.tickets = c.tickets]
<1>1. /\ shuffler[r].pc = "idle" /\ C # << >> /\ shuffleJobCh' = Tail(C)
      /\ shuffler' = [shuffler EXCEPT ![r] = z]
      /\ rec' = rec /\ parkingJobCh' = parkingJobCh /\ parker' = parker
  BY DEF ShufflerTake, ShufflerMoves
<1>2. TypeOK /\ C \in Seq(Components)
  BY DEF IInv, TypeOK
<1>3. /\ 1 \in DOMAIN C /\ c = C[1]
      /\ \A i \in DOMAIN C : i # 1 => i - 1 \in DOMAIN shuffleJobCh' /\ shuffleJobCh'[i - 1] = C[i]
  BY <1>1, <1>2, HeadTailProperties, LenProperties
<1>4. z.pc = "ready" /\ z.tickets = c.tickets /\ z.jobs = << >>
  BY DEF IdleShuffler
<1> HIDE DEF z, c
<1>5. /\ shuffler'[r] = z /\ \A q \in Shufflers : q # r => Alike(shuffler[q], shuffler'[q])
  BY <1>1, <1>2, OneMoves
<1>6. Orderly(rec', z)
  <2>1. DOMAIN << >> = {}
    OBVIOUS
  <2> QED
    BY <1>4, <2>1 DEF Orderly
<1>7. ASSUME NEW t \in Tickets
      PROVE  Passes(t, rec[t], rec'[t], shuffler[r], shuffler'[r], C, shuffleJobCh')
  <2>1. Unmoved(rec[t], rec'[t])
    BY <1>1, RecordsKept
  <2>2. ~Due(shuffler[r], t, rec[t])
    BY <1>1 DEF Due, Early, ToOrder, Left, Slotted, InHand, Listed, Carrying
  <2>3. CASE t \in ToSet(c.tickets)
    <3>1. Early(z, t)
      BY <1>4, <2>3 DEF Early
    <3> QED
      BY <1>5, <3>1 DEF Passes, Due
  <2>4. CASE t \notin ToSet(c.tickets)
    <3>1. Assigned(t, C) => Assigned(t, shuffleJobCh')
      BY <1>3, <2>4 DEF Assigned
    <3> QED
      BY <2>1, <2>2, <3>1 DEF Passes
  <2> QED
    BY <2>3, <2>4
<1>8. StatusKept(rec, rec')
  BY <1>1, RecordsKept
<1>9. SameJobs(parker, parker') /\ SameJobs(parker', parker)
  BY <1>1, NobodyChanges
<1> QED
  BY <1>1, <1>5, <1>6, <1>7, <1>8, <1>9, ShufflerSettles

\* A vehicle that a planned move has to take somewhere has been parked.
LEMMA MovableParked ==
    ASSUME SInv, NEW t \in Movable
    PROVE  t \in Tickets /\ rec[t].status # "PENDING" /\ Rested(rec[t])
BY DEF SInv, Nowhere, Movable, ToMove, Rested

\* The moves home start where the vehicles stand.
LEMMA MovesOfListed ==
    ASSUME IInv, NEW ts \in Seq(Tickets), ToSet(ts) \subseteq Movable
    PROVE  /\ \A k \in DOMAIN MovesOf(ts) : MovesOf(ts)[k].ticket \in ToSet(ts)
           /\ \A t \in ToSet(ts) : \E k \in DOMAIN MovesOf(ts) :
                 MovesOf(ts)[k].ticket = t /\ At(rec[t], MovesOf(ts)[k].from)
           /\ ts # << >> => Head(MovesOf(ts)).from = rec[Head(ts)].floor
<1>1. DOMAIN MovesOf(ts) = DOMAIN ts /\ \A k \in DOMAIN ts : MovesOf(ts)[k] = MoveHome(ts[k])
  BY DEF MovesOf
<1>2. \A t \in Movable : MoveHome(t).ticket = t /\ At(rec[t], MoveHome(t).from)
  <2>1. ASSUME NEW t \in Movable
        PROVE  rec[t].slot = NoSlot /\ rec[t].floor \in Floors
    BY DEF Movable, ToMove, IInv, TypeOK, Records
  <2> QED
    BY <2>1, Numbers DEF MoveHome, At
<1>3. \A k \in DOMAIN ts : ts[k] \in ToSet(ts) /\ ts[k] \in Movable
  BY DEF ToSet
<1>4. \A t \in ToSet(ts) : \E k \in DOMAIN ts : ts[k] = t
  BY DEF ToSet
<1>5. ASSUME ts # << >> PROVE Head(MovesOf(ts)).from = rec[Head(ts)].floor
  <2>1. Head(ts) = ts[1] /\ 1 \in DOMAIN ts
    BY <1>5, Taken
  <2>2. Head(MovesOf(ts)) = MovesOf(ts)[1]
    OBVIOUS
  <2> QED
    BY <1>1, <2>1, <2>2 DEF MoveHome
<1> QED
  BY <1>1, <1>2, <1>3, <1>4, <1>5

\* The component is ready: every vehicle of it stands somewhere, and those that
\* are not at home are in the list.
LEMMA ShufflerReadySettles ==
    ASSUME IInv, SInv, NEW r \in Shufflers, ShufflerReady(r)
    PROVE  SInv'
<1> DEFINE s == shuffler[r]
           ts == Only(s.tickets, Movable)
           m == MovesOf(ts)
           y == [s EXCEPT !.tickets = ts, !.jobs = m]
           z == CASE ts = << >> -> [y EXCEPT !.pc = "finish"]
                  [] ts # << >> /\ ~y.loop -> [y EXCEPT !.pc = "lift", !.phase = "inOrder"]
                  [] ts # << >> /\ y.loop -> [y EXCEPT !.pc = "claimSlot"]
<1>1. s \in ShufflerStates
  BY RobotFits
<1>2. /\ s.pc = "ready" /\ ShufflerMoves(r, z) /\ shuffleJobCh' = shuffleJobCh
      /\ ~NotReady(s.tickets)
  BY Zenon DEF ShufflerReady
<1>3. s.tickets \in Seq(Tickets) /\ s.loop \in BOOLEAN
  BY <1>1 DEF ShufflerStates
<1>4. ts \in Seq(Tickets) /\ ToSet(ts) = ToSet(s.tickets) \cap Movable
  BY <1>3, OnlyResult
<1> HIDE DEF ts
<1>5. /\ \A k \in DOMAIN m : m[k].ticket \in ToSet(ts)
      /\ \A t \in ToSet(ts) : \E k \in DOMAIN m : m[k].ticket = t /\ At(rec[t], m[k].from)
      /\ ts # << >> => Head(m).from = rec[Head(ts)].floor
  BY <1>4, MovesOfListed
<1> HIDE DEF m, s
<1>6. y.tickets = ts /\ y.jobs = m /\ y.loop \in BOOLEAN /\ DOMAIN y = DOMAIN s
  BY <1>1, <1>3 DEF ShufflerStates
<1>7. /\ z.tickets = ts /\ z.jobs = m
      /\ \/ ts = << >>
         \/ z.pc = "lift"
         \/ z.pc = "claimSlot"
  <2>1. \A p, ph : /\ [y EXCEPT !.pc = p].tickets = ts /\ [y EXCEPT !.pc = p].jobs = m
                   /\ [y EXCEPT !.pc = p].pc = p
                   /\ [y EXCEPT !.pc = p, !.phase = ph].tickets = ts
                   /\ [y EXCEPT !.pc = p, !.phase = ph].jobs = m
                   /\ [y EXCEPT !.pc = p, !.phase = ph].pc = p
    BY <1>1 DEF ShufflerStates
  <2> HIDE DEF y
  <2> QED
    BY <1>6, <2>1
<1> HIDE DEF z, y
<1>8. Orderly(rec, z)
  BY <1>4, <1>5, <1>7, MovableParked DEF Orderly
<1>9. ASSUME NEW t \in Tickets, Stays(rec[t]), Due(s, t, rec[t]), ~Home(rec[t])
      PROVE  Due(z, t, rec[t])
  <2>1. t \in ToSet(s.tickets)
    BY <1>2, <1>9 DEF Due, Early, ToOrder, Left, Slotted, InHand, Listed, Carrying
  <2>2. t \in Movable
    BY <1>2, <1>9, <2>1 DEF NotReady, Standing, Stays, Home, Movable, ToMove
  <2>3. t \in ToSet(ts)
    BY <1>4, <2>1, <2>2
  <2>4. ts # << >>
    BY <2>3, Nothing
  <2>5. CASE z.pc = "lift"
    <3>1. Listed(z, t, rec[t])
      BY <1>5, <1>7, <2>3, <2>5 DEF Listed, Carrying
    <3> QED
      BY <3>1 DEF Due
  <2>6. CASE z.pc = "claimSlot"
    <3>1. ToOrder(z, t, rec[t])
      BY <1>5, <1>7, <2>2, <2>3, <2>4, <2>6, MovableParked DEF ToOrder
    <3> QED
      BY <3>1 DEF Due
  <2> QED
    BY <1>7, <2>4, <2>5, <2>6
<1> QED
  BY <1>2, <1>8, <1>9, MovesSettle DEF s

\* A robot claims a slot: the vehicle that breaks the cycle is in the list, and
\* the others come after it.
LEMMA ShufflerClaimSlotSettles ==
    ASSUME IInv, SInv, NEW r \in Shufflers, ShufflerClaimSlot(r)
    PROVE  SInv'
<1> DEFINE s == shuffler[r]
           i == Min(FreeSlots)
           b == Head(s.jobs)
           job == [b EXCEPT !.to = BufferSlotID(i)]
           z == [s EXCEPT !.pc = "lift", !.phase = "breaker", !.slot = i, !.jobs = <<job>>]
<1>1. /\ s.pc = "claimSlot" /\ shuffler' = [shuffler EXCEPT ![r] = z]
      /\ rec' = rec /\ parkingJobCh' = parkingJobCh /\ parker' = parker
      /\ shuffleJobCh' = shuffleJobCh
  BY DEF ShufflerClaimSlot
<1>2. s \in ShufflerStates /\ Breaks(s) /\ Orderly(rec, s)
  BY RobotFits DEF SInv
<1>3. s.jobs # << >> /\ b.ticket = Head(s.tickets) /\ s.jobs \in Seq(Jobs)
  BY <1>1, <1>2 DEF Breaks, ShufflerStates
<1>4. b \in Jobs /\ b = s.jobs[1] /\ 1 \in DOMAIN s.jobs
  BY <1>3, Taken
<1> HIDE DEF b, i
<1>5. job.ticket = b.ticket /\ job.from = b.from
  BY <1>4 DEF Jobs
<1> HIDE DEF job, s
<1> DEFINE m == <<job>>
<1>6. DOMAIN m = {1} /\ m[1] = job
  OBVIOUS
<1> HIDE DEF m
<1>7. z.pc = "lift" /\ z.phase = "breaker" /\ z.jobs = m /\ z.tickets = s.tickets
  <2>1. z = [s EXCEPT !.pc = "lift", !.phase = "breaker", !.slot = i, !.jobs = m]
    BY DEF m
  <2> HIDE DEF z
  <2> QED
    BY <1>2, <2>1 DEF ShufflerStates
<1> HIDE DEF z
<1>8. Orderly(rec, z)
  <2>1. b.ticket \in ToSet(s.tickets) /\ rec[b.ticket].status # "PENDING"
    BY <1>2, <1>4 DEF Orderly
  <2> QED
    BY <1>5, <1>6, <1>7, <2>1 DEF Orderly
<1>9. ASSUME NEW t \in Tickets, Due(s, t, rec[t]) PROVE Due(z, t, rec[t])
  <2>1. /\ t \in ToSet(s.tickets) /\ Rested(rec[t])
        /\ t = Head(s.tickets) => b.from = rec[t].floor
    BY <1>1, <1>9 DEF Due, Early, ToOrder, Left, Slotted, InHand, Listed, Carrying, b
  <2>2. CASE t = Head(s.tickets)
    <3>1. rec[t].floor \in Floors
      BY <2>1 DEF Rested, IInv, TypeOK, Records
    <3>2. At(rec[t], job.from)
      BY <1>5, <2>1, <2>2, <3>1, Numbers DEF At, Rested
    <3>3. Listed(z, t, rec[t])
      BY <1>3, <1>5, <1>6, <1>7, <2>2, <3>2 DEF Listed, Carrying
    <3> QED
      BY <3>3 DEF Due
  <2>3. CASE t # Head(s.tickets)
    <3>1. Left(z, t, rec[t])
      BY <1>7, <2>1, <2>3 DEF Left, Carrying
    <3> QED
      BY <3>1 DEF Due
  <2> QED
    BY <2>2, <2>3
<1> QED
  BY <1>1, <1>8, <1>9, TurnSettles DEF s

\* A robot does something with the vehicle of its job.
LEMMA HandSettles ==
    ASSUME IInv, SInv, NEW r \in Shufflers, shuffler[r].pc \in Carrying,
           NEW z, shuffler'[r] = z, NEW t0 \in Tickets, t0 = Head(shuffler[r].jobs).ticket,
           \A q \in Shufflers : q # r => Alike(shuffler[q], shuffler'[q]),
           SameJobs(parker, parker'), SameJobs(parker', parker),
           parkingJobCh' = parkingJobCh, shuffleJobCh' = shuffleJobCh,
           \A t \in Tickets : t # t0 => rec'[t] = rec[t],
           rec'[t0].status # "PENDING",
           z.tickets = shuffler[r].tickets,
           \A k \in DOMAIN z.jobs : \E n \in DOMAIN shuffler[r].jobs : z.jobs[k] = shuffler[r].jobs[n],
           \A t \in Tickets : t # t0 /\ Due(shuffler[r], t, rec[t]) => Due(z, t, rec[t]),
           Stays(rec'[t0]) => Home(rec'[t0]) \/ Due(z, t0, rec'[t0])
    PROVE  SInv'
<1> DEFINE s == shuffler[r]
<1>1. Orderly(rec, s) /\ 1 \in DOMAIN s.jobs /\ t0 = s.jobs[1].ticket
  BY JobAtHand DEF SInv
<1>2. rec[t0].status # "PENDING"
  BY <1>1 DEF Orderly
<1>3. StatusKept(rec, rec')
  BY <1>2 DEF StatusKept
<1>4. Orderly(rec', z)
  <2>1. \A k \in DOMAIN s.jobs : s.jobs[k].ticket \in Tickets
    BY JobTickets
  <2>2. \A k \in DOMAIN s.jobs : rec'[s.jobs[k].ticket].status # "PENDING"
    BY <1>1, <2>1 DEF Orderly
  <2> QED
    BY <1>1, <2>2 DEF Orderly
<1>5. ASSUME NEW t \in Tickets
      PROVE  Passes(t, rec[t], rec'[t], shuffler[r], shuffler'[r], shuffleJobCh, shuffleJobCh')
  <2>1. CASE t = t0
    BY <2>1 DEF Passes
  <2>2. CASE t # t0
    <3>1. rec'[t] = rec[t] /\ Unmoved(rec[t], rec'[t])
      BY <2>2 DEF Unmoved, SamePlace
    <3> QED
      BY <2>2, <3>1 DEF Passes
  <2> QED
    BY <2>1, <2>2
<1> QED
  BY <1>3, <1>4, <1>5, ShufflerSettles

\* The duties for the other vehicles stay when a robot takes up or puts down that
\* of its job.
LEMMA StageDue ==
    ASSUME NEW s, NEW z, s.pc \in Carrying, z.pc \in Carrying, z.tickets = s.tickets,
           z.jobs = s.jobs, z.phase = s.phase, Head(s.jobs) = s.jobs[1],
           NEW t, t # Head(s.jobs).ticket, NEW e, Due(s, t, e)
    PROVE  Due(z, t, e)
<1>1. Left(s, t, e) => Left(z, t, e)
  BY DEF Left, Carrying
<1>2. Slotted(s, t, e) => Slotted(z, t, e)
  BY DEF Slotted, Carrying
<1>3. Listed(s, t, e) => Listed(z, t, e)
  <2> SUFFICES ASSUME Listed(s, t, e) PROVE Listed(z, t, e)
    OBVIOUS
  <2>1. PICK k \in DOMAIN s.jobs : s.jobs[k].ticket = t /\ At(e, s.jobs[k].from)
    BY DEF Listed
  <2>2. k # 1
    BY <2>1
  <2> QED
    BY <2>1, <2>2 DEF Listed
<1>4. ~Early(s, t) /\ ~ToOrder(s, t, e) /\ ~InHand(s, t)
  BY DEF Early, ToOrder, InHand, Carrying
<1> QED
  BY <1>1, <1>2, <1>3, <1>4 DEF Due

\* A robot lifts a vehicle and has it in hand.
LEMMA ShufflerLiftSettles ==
    ASSUME IInv, SInv, NEW r \in Shufflers, ShufflerLift(r)
    PROVE  SInv'
<1> DEFINE s == shuffler[r]
           job == Head(s.jobs)
           t == job.ticket
           f == job.from
           z == [s EXCEPT !.pc = "carry"]
           lifted == [shuffler EXCEPT ![r] = z]
           e == [rec[t] EXCEPT !.floor = NoFloor, !.slot = NoSlot, !.status = "REARRANGING"]
<1>1. s.pc = "lift" /\ parkingJobCh' = parkingJobCh /\ shuffleJobCh' = shuffleJobCh
  BY DEF ShufflerLift
<1>2. rec' = [rec EXCEPT ![t] = e]
  BY Zenon DEF ShufflerLift
<1>3. [shuffler EXCEPT ![r].pc = "carry"] = lifted
  OBVIOUS
<1>4. IF IsBufferSlotID(f)
      THEN /\ shuffler' = [shuffler EXCEPT ![r].pc = "carry"]
           /\ parker' = parker
      ELSE /\ parker' = WakeParkers(f, parker)
           /\ shuffler' = WakeShufflers(f, [shuffler EXCEPT ![r].pc = "carry"])
  BY Zenon DEF ShufflerLift
<1>5. /\ shuffler \in [Shufflers -> ShufflerStates] /\ s \in ShufflerStates
      /\ rec \in [Tickets -> Records] /\ TypeOK
  BY RobotFits DEF IInv
<1>6. s.pc \in Carrying
  BY <1>1 DEF Carrying
<1>7. job \in Jobs /\ t \in Tickets /\ rec[t] \in Records /\ job = s.jobs[1]
  BY <1>6, JobAtHand
<1> HIDE DEF t
<1>8. e.status = "REARRANGING"
  BY <1>7 DEF Records
<1> HIDE DEF e
<1>9. rec'[t].status = "REARRANGING" /\ \A u \in Tickets : u # t => rec'[u] = rec[u]
  BY <1>2, <1>5, <1>7, <1>8
<1>10. /\ z \in ShufflerStates /\ z.pc = "carry" /\ z.tickets = s.tickets /\ z.jobs = s.jobs
       /\ z.phase = s.phase
  <2> HIDE DEF s
  <2> QED
    BY <1>5 DEF ShufflerStates
<1> HIDE DEF z
<1>11. /\ lifted \in [Shufflers -> ShufflerStates] /\ lifted[r] = z
       /\ \A q \in Shufflers : q # r => lifted[q] = shuffler[q]
  BY <1>5, <1>10
<1> HIDE DEF lifted
<1>12. \A q \in Shufflers : Stirred(lifted[q], shuffler'[q])
  <2>1. CASE IsBufferSlotID(f)
    BY <1>3, <1>4, <2>1 DEF Stirred
  <2>2. CASE ~IsBufferSlotID(f)
    <3>1. f \in Floors
      BY <1>7, <2>2, Numbers DEF Jobs
    <3>2. shuffler' = WakeShufflers(f, lifted)
      BY <1>3, <1>4, <2>2
    <3> QED
      BY <1>11, <3>1, <3>2, Broadcasts
  <2> QED
    BY <2>1, <2>2
<1>13. shuffler'[r] = z
  BY <1>10, <1>11, <1>12 DEF Stirred
<1>14. \A q \in Shufflers : q # r => Alike(shuffler[q], shuffler'[q])
  <2> SUFFICES ASSUME NEW q \in Shufflers, q # r PROVE Alike(shuffler[q], shuffler'[q])
    OBVIOUS
  <2>1. Stirred(shuffler[q], shuffler'[q]) /\ shuffler[q] \in ShufflerStates
    BY <1>5, <1>11, <1>12
  <2> QED
    BY <2>1, StirredAlike
<1>15. SameJobs(parker, parker') /\ SameJobs(parker', parker)
  BY <1>4, <1>5, WokenSameJobs, NobodyChanges
<1>16. \A u \in Tickets : u # t /\ Due(s, u, rec[u]) => Due(z, u, rec[u])
  BY <1>6, <1>7, <1>10, StageDue DEF t, Carrying
<1>17. Due(z, t, rec'[t])
  BY <1>10 DEF Due, InHand, t
<1> HIDE DEF s
<1>18. t = Head(shuffler[r].jobs).ticket /\ z.tickets = shuffler[r].tickets /\ z.jobs = shuffler[r].jobs
       /\ shuffler[r].pc \in Carrying
  BY <1>6, <1>10 DEF t, s
<1>19. \A u \in Tickets : u # t /\ Due(shuffler[r], u, rec[u]) => Due(z, u, rec[u])
  BY <1>16 DEF s
<1> HIDE DEF job
<1> QED
  BY <1>1, <1>7, <1>9, <1>13, <1>14, <1>15, <1>17, <1>18, <1>19, HandSettles

\* The vehicle that breaks the cycle is in the slot.
LEMMA ShufflerBufferSettles ==
    ASSUME IInv, SInv, NEW r \in Shufflers, ShufflerBuffer(r)
    PROVE  SInv'
<1> DEFINE s == shuffler[r]
           job == Head(s.jobs)
           t == job.ticket
           i == job.to - BufferSlotIDBase
           z == AfterJob(s)
           e == [rec[t] EXCEPT !.slot = i, !.status = "PARKED"]
<1>1. /\ s.pc = "carry" /\ IsBufferSlotID(job.to)
      /\ parkingJobCh' = parkingJobCh /\ shuffleJobCh' = shuffleJobCh /\ parker' = parker
  BY DEF ShufflerBuffer
<1>2. rec' = [rec EXCEPT ![t] = e]
  BY Zenon DEF ShufflerBuffer
<1>3. shuffler' = WakeReady([shuffler EXCEPT ![r] = AfterJob(@)])
  BY Zenon DEF ShufflerBuffer
<1>4. /\ shuffler \in [Shufflers -> ShufflerStates] /\ s \in ShufflerStates
      /\ Issues(issued, s) /\ InStage(s) /\ Breaks(s)
      /\ rec \in [Tickets -> Records]
  BY RobotFits
<1>5. [shuffler EXCEPT ![r] = AfterJob(@)] = [shuffler EXCEPT ![r] = z]
  <2> HIDE DEF z
  <2>1. AfterJob(shuffler[r]) = z
    BY DEF z
  <2> QED
    BY <1>4, <2>1
<1>6. s.pc \in Carrying /\ s.jobs # << >>
  BY <1>1, <1>4 DEF Carrying, InStage
<1>7. /\ job \in Jobs /\ t \in Tickets /\ rec[t] \in Records
      /\ job = s.jobs[1] /\ 1 \in DOMAIN s.jobs
  BY <1>6, JobAtHand
<1>8. /\ s.phase = "breaker" /\ s.slot # NoSlot /\ job.to = BufferSlotID(s.slot)
      /\ t = Head(s.tickets)
  BY <1>1, <1>4, <1>7 DEF Breaks
<1>9. i \in BufferSlots /\ i # NoSlot
  <2>1. s.slot \in BufferSlots
    BY <1>4, <1>8 DEF ShufflerStates
  <2> QED
    BY <1>8, <2>1, Numbers
<1> HIDE DEF i
<1>10. e.slot = i /\ e.status = "PARKED"
  <2>1. rec[t] \in Records
    BY <1>7
  <2> HIDE DEF t
  <2> QED
    BY <2>1 DEF Records
<1> HIDE DEF e, t
<1>11. rec'[t] = e /\ \A u \in Tickets : u # t => rec'[u] = rec[u]
  BY <1>2, <1>4, <1>7
<1>12. /\ z \in ShufflerStates /\ z.pc \notin {"onFloor", "onWake", "onSlot"}
       /\ z.tickets = s.tickets /\ z.phase = s.phase /\ z.pc \in Carrying \cup {"replan"}
       /\ \A k \in DOMAIN z.jobs : \E n \in DOMAIN s.jobs : z.jobs[k] = s.jobs[n]
  <2> HIDE DEF s, z
  <2>1. s.phase # "home"
    BY <1>8
  <2>2. /\ z \in ShufflerStates /\ z.pc \notin {"onFloor", "onWake", "onSlot"}
        /\ z.tickets = s.tickets
    BY <1>4, <1>6, <2>1, AfterJobFits DEF z
  <2>3. z.phase = s.phase /\ z.pc \in {"lift", "replan"}
    <3>1. \/ z = [s EXCEPT !.jobs = Tail(s.jobs), !.floor = NoFloor, !.pc = "lift"]
          \/ z = [s EXCEPT !.jobs = Tail(s.jobs), !.floor = NoFloor, !.pc = "replan"]
      BY <1>8 DEF AfterJob, z
    <3> QED
      BY <1>4, <3>1 DEF ShufflerStates
  <2>4. Orderly(rec, s)
    BY DEF SInv, s
  <2>5. \A k \in DOMAIN z.jobs : \E n \in DOMAIN s.jobs : z.jobs[k] = s.jobs[n]
    BY <1>4, <1>6, <2>4, NextJobOrderly DEF z
  <2> QED
    BY <2>2, <2>3, <2>5 DEF Carrying
<1>13. \A u \in Tickets : u # t /\ Due(s, u, rec[u]) => Due(z, u, rec[u])
  <2> SUFFICES ASSUME NEW u \in Tickets, u # t, Due(s, u, rec[u]) PROVE Due(z, u, rec[u])
    OBVIOUS
  <2>1. SamePlace(rec[u], rec[u])
    BY DEF SamePlace
  <2>2. ~InHand(s, u) /\ s.pc # "lift"
    BY <1>1 DEF InHand, t
  <2> HIDE DEF s
  <2> QED
    BY <1>4, <1>6, <2>1, <2>2, NextJobDue
<1> HIDE DEF z
<1>14. /\ shuffler'[r] = z
       /\ \A q \in Shufflers : q # r => Stirred(shuffler[q], shuffler'[q])
  BY <1>3, <1>4, <1>5, <1>12, Announced
<1>15. \A q \in Shufflers : q # r => Alike(shuffler[q], shuffler'[q])
  BY <1>4, <1>14, StirredAlike
<1>16. SameJobs(parker, parker') /\ SameJobs(parker', parker)
  BY <1>1, NobodyChanges
<1>17. Due(z, t, rec'[t])
  <2>1. Slotted(z, t, rec'[t])
    BY <1>8, <1>9, <1>10, <1>11, <1>12 DEF Slotted
  <2> QED
    BY <2>1 DEF Due
<1>18. t = Head(shuffler[r].jobs).ticket
  BY DEF t
<1> HIDE DEF job
<1> QED
  BY <1>1, <1>6, <1>7, <1>10, <1>11, <1>12, <1>13, <1>14, <1>15, <1>16, <1>17, <1>18, HandSettles

\* The vehicle is where it was promised, unless it was asked back.
LEMMA ShufflerPlaceSettles ==
    ASSUME IInv, SInv, NEW r \in Shufflers, ShufflerPlace(r)
    PROVE  SInv'
<1> DEFINE s == shuffler[r]
           job == Head(s.jobs)
           t == job.ticket
           f == rec[t].target
           z == IF rec[t].unpark THEN [s EXCEPT !.pc = "send"] ELSE AfterJob(s)
           e == [rec[t] EXCEPT !.floor = f, !.slot = NoSlot, !.status = "PARKED"]
<1>1. /\ AtTarget(r) /\ shuffler' = WakeReady([shuffler EXCEPT ![r] = z])
      /\ parkingJobCh' = parkingJobCh /\ shuffleJobCh' = shuffleJobCh /\ parker' = parker
  BY DEF ShufflerPlace
<1>2. rec' = [rec EXCEPT ![t] = [@ EXCEPT !.floor = f, !.slot = NoSlot, !.status = "PARKED"]]
  BY Zenon DEF ShufflerPlace
<1>3. /\ shuffler \in [Shufflers -> ShufflerStates] /\ s \in ShufflerStates
      /\ Issues(issued, s) /\ InStage(s) /\ Breaks(s) /\ Emptied(rec, s)
      /\ rec \in [Tickets -> Records]
  BY RobotFits
<1>4. s.pc \in {"carry", "settle"}
  BY <1>1 DEF AtTarget
<1>5. s.pc \in Carrying /\ s.jobs # << >>
  BY <1>3, <1>4 DEF Carrying, InStage
<1>6. t \in Tickets /\ rec[t] \in Records /\ job = s.jobs[1] /\ f \in Floors
  BY <1>5, JobAtHand
<1>7. /\ e.slot = NoSlot /\ e.status = "PARKED" /\ e.floor = f /\ e.target = f
      /\ e.unpark = rec[t].unpark
  <2> HIDE DEF t
  <2> QED
    BY <1>6 DEF Records
<1>8. rec' = [rec EXCEPT ![t] = e]
  BY <1>2
<1> HIDE DEF e, t, f
<1>9. rec'[t] = e /\ \A u \in Tickets : u # t => rec'[u] = rec[u]
  BY <1>3, <1>6, <1>8
<1>10. Home(rec'[t])
  BY <1>7, <1>9 DEF Home
<1>11. /\ z \in ShufflerStates /\ z.pc \notin {"onFloor", "onWake", "onSlot"}
       /\ z.tickets = s.tickets
       /\ \A k \in DOMAIN z.jobs : \E n \in DOMAIN s.jobs : z.jobs[k] = s.jobs[n]
       /\ \A u \in Tickets : u # t /\ Due(s, u, rec[u]) => Due(z, u, rec[u])
  <2>1. CASE rec[t].unpark
    <3> DEFINE y == [s EXCEPT !.pc = "send"]
    <3>1. z = y
      BY <2>1
    <3>2. y \in ShufflerStates /\ y.pc = "send" /\ y.tickets = s.tickets /\ y.jobs = s.jobs
          /\ y.phase = s.phase
      <4> HIDE DEF s
      <4> QED
        BY <1>3 DEF ShufflerStates
    <3> HIDE DEF y, z
    <3>3. \A u \in Tickets : u # t /\ Due(s, u, rec[u]) => Due(y, u, rec[u])
      BY <1>5, <1>6, <3>2, StageDue DEF t, Carrying
    <3> QED
      BY <3>1, <3>2, <3>3
  <2>2. CASE ~rec[t].unpark
    <3> DEFINE y == AfterJob(s)
    <3>1. z = y
      BY <2>2
    <3>2. s.phase = "home" => \A u \in Tickets : rec[u].present => rec[u].slot # s.slot
      BY <1>3, <1>4, <1>5 DEF Emptied
    <3>3. /\ y \in ShufflerStates /\ y.pc \notin {"onFloor", "onWake", "onSlot"}
          /\ y.tickets = s.tickets /\ Fits(issued, rec, physical, FreeSlots, y)
      <4> HIDE DEF s, y
      <4> QED
        BY <1>3, <1>5, <3>2, AfterJobFits DEF y
    <3>4. \A k \in DOMAIN y.jobs : \E n \in DOMAIN s.jobs : y.jobs[k] = s.jobs[n]
      BY <1>3, <1>5, NextJobOrderly DEF SInv
    <3>5. ASSUME NEW u \in Tickets, u # t, Due(s, u, rec[u]) PROVE Due(y, u, rec[u])
      <4>1. SamePlace(rec[u], rec[u])
        BY DEF SamePlace
      <4>2. ~InHand(s, u) /\ s.pc # "lift"
        BY <1>4, <3>5 DEF InHand, t
      <4> HIDE DEF s
      <4> QED
        BY <1>3, <1>5, <3>5, <4>1, <4>2, NextJobDue
    <3> HIDE DEF y, z
    <3> QED
      BY <3>1, <3>3, <3>4, <3>5
  <2> QED
    BY <2>1, <2>2
<1> HIDE DEF z
<1>12. /\ shuffler'[r] = z
       /\ \A q \in Shufflers : q # r => Stirred(shuffler[q], shuffler'[q])
  BY <1>1, <1>3, <1>11, Announced
<1>13. \A q \in Shufflers : q # r => Alike(shuffler[q], shuffler'[q])
  BY <1>3, <1>12, StirredAlike
<1>14. SameJobs(parker, parker') /\ SameJobs(parker', parker)
  BY <1>1, NobodyChanges
<1>15. t = Head(shuffler[r].jobs).ticket
  BY DEF t
<1>16. rec'[t].status # "PENDING"
  BY <1>7, <1>9
<1>17. /\ z.tickets = shuffler[r].tickets /\ shuffler[r].pc \in Carrying
       /\ \A k \in DOMAIN z.jobs : \E n \in DOMAIN shuffler[r].jobs : z.jobs[k] = shuffler[r].jobs[n]
       /\ \A u \in Tickets : u # t /\ Due(shuffler[r], u, rec[u]) => Due(z, u, rec[u])
  BY <1>5, <1>11
<1>18. parkingJobCh' = parkingJobCh /\ shuffleJobCh' = shuffleJobCh
  BY <1>1
<1>19. Stays(rec'[t]) => Home(rec'[t]) \/ Due(z, t, rec'[t])
  BY <1>10
<1> HIDE DEF job, s
<1> QED
  BY <1>6, <1>9, <1>12, <1>13, <1>14, <1>15, <1>16, <1>17, <1>18, <1>19, HandSettles

\* The vehicle that broke the cycle is on the way out of its slot.
LEMMA ShufflerHomeSettles ==
    ASSUME IInv, SInv, NEW r \in Shufflers, ShufflerHome(r)
    PROVE  SInv'
<1> DEFINE s == shuffler[r]
           t == Head(s.tickets)
           home == [ticket |-> t, from |-> BufferSlotID(rec[t].slot), to |-> rec[t].target]
           z == IF rec[t].present /\ rec[t].slot # NoSlot
                THEN [s EXCEPT !.jobs = <<home>>, !.phase = "home", !.pc = "lift"]
                ELSE [s EXCEPT !.pc = "release"]
<1>1. s.pc = "home" /\ ShufflerMoves(r, z) /\ shuffleJobCh' = shuffleJobCh
  BY DEF ShufflerHome
<1>2. s \in ShufflerStates /\ InStage(s) /\ Breaks(s) /\ Orderly(rec, s)
  BY RobotFits DEF SInv
<1>3. s.slot # NoSlot /\ s.tickets \in Seq(Tickets) /\ s.tickets # << >>
  BY <1>1, <1>2 DEF InStage, Breaks, ShufflerStates
<1>4. t \in Tickets /\ t \in ToSet(s.tickets) /\ rec[t] \in Records
  <2>1. t \in Tickets /\ t \in ToSet(s.tickets)
    BY <1>3, HeadTail
  <2> QED
    BY <2>1, RobotFits
<1>5. ASSUME NEW u \in Tickets, Stays(rec[u]), Due(s, u, rec[u])
      PROVE  u = t /\ rec[t].present /\ rec[t].slot # NoSlot
  BY <1>1, <1>5 DEF Due, Early, ToOrder, Left, Slotted, InHand, Listed, Carrying, Stays
<1>6. CASE rec[t].present /\ rec[t].slot # NoSlot
  <2> DEFINE m == <<home>>
  <2>1. z = [s EXCEPT !.jobs = m, !.phase = "home", !.pc = "lift"]
    BY <1>6
  <2>2. home.ticket = t /\ home.from = BufferSlotID(rec[t].slot)
    OBVIOUS
  <2> HIDE DEF home
  <2>3. DOMAIN m = {1} /\ m[1] = home
    OBVIOUS
  <2> HIDE DEF m, z, t, s
  <2>4. z.jobs = m /\ z.tickets = s.tickets /\ z.pc = "lift"
    BY <1>2, <2>1 DEF ShufflerStates
  <2>5. At(rec[t], home.from)
    BY <1>4, <1>6, <2>2, Numbers DEF At, Records
  <2>6. rec[t].status # "PENDING"
    BY <1>4, <1>6 DEF SInv, Nowhere
  <2>7. Orderly(rec, z)
    BY <1>4, <2>2, <2>3, <2>4, <2>6 DEF Orderly
  <2>8. Due(z, t, rec[t])
    <3>1. Listed(z, t, rec[t])
      BY <2>2, <2>3, <2>4, <2>5 DEF Listed, Carrying
    <3> QED
      BY <3>1 DEF Due
  <2> QED
    BY <1>1, <1>5, <2>7, <2>8, MovesSettle DEF s
<1>7. CASE ~(rec[t].present /\ rec[t].slot # NoSlot)
  <2>1. z = [s EXCEPT !.pc = "release"]
    BY <1>7
  <2> HIDE DEF z, s
  <2>2. z.jobs = s.jobs /\ z.tickets = s.tickets
    BY <1>2, <2>1 DEF ShufflerStates
  <2>3. Orderly(rec, z)
    BY <1>2, <2>2 DEF Orderly
  <2> QED
    BY <1>1, <1>5, <1>7, <2>3, MovesSettle DEF s
<1> QED
  BY <1>6, <1>7

\* A robot that gives its slot back, or ends, has nothing to do with a vehicle.
LEMMA ShufflerEndsSettle ==
    ASSUME IInv, SInv, NEW r \in Shufflers, ShufflerRelease(r) \/ ShufflerFinish(r)
    PROVE  SInv'
<1> DEFINE s == shuffler[r]
<1>1. /\ shuffler \in [Shufflers -> ShufflerStates] /\ s \in ShufflerStates
      /\ Orderly(rec, s)
  BY RobotFits DEF SInv
<1>2. s.pc \in {"release", "finish"}
  BY DEF ShufflerRelease, ShufflerFinish
<1>3. \A t, e : ~Due(s, t, e)
  BY <1>2 DEF Due, Early, ToOrder, Left, Slotted, InHand, Listed, Carrying
<1>4. CASE ShufflerRelease(r)
  <2> DEFINE z == [s EXCEPT !.pc = "finish", !.slot = NoSlot]
             ended == [shuffler EXCEPT ![r] = z]
  <2>1. /\ shuffler' = WakeSlot([shuffler EXCEPT ![r].pc = "finish", ![r].slot = NoSlot])
        /\ rec' = rec /\ parkingJobCh' = parkingJobCh /\ parker' = parker
        /\ shuffleJobCh' = shuffleJobCh
    BY <1>4 DEF ShufflerRelease
  <2>2. [shuffler EXCEPT ![r].pc = "finish", ![r].slot = NoSlot] = ended
    BY <1>1
  <2>3. z \in ShufflerStates /\ z.jobs = s.jobs /\ z.tickets = s.tickets /\ z.pc = "finish"
    <3> HIDE DEF s
    <3> QED
      BY <1>1 DEF ShufflerStates
  <2> HIDE DEF z
  <2>4. ended \in [Shufflers -> ShufflerStates] /\ ended[r] = z
        /\ \A q \in Shufflers : q # r => ended[q] = shuffler[q]
    BY <1>1, <2>3
  <2> HIDE DEF ended
  <2>5. \A q \in Shufflers : Stirred(ended[q], shuffler'[q])
    BY <2>1, <2>2, <2>4, Broadcasts
  <2>6. shuffler'[r] = z /\ \A q \in Shufflers : q # r => Stirred(shuffler[q], shuffler'[q])
    <3>1. shuffler'[r] = z
      BY <2>3, <2>4, <2>5 DEF Stirred
    <3>2. ASSUME NEW q \in Shufflers, q # r PROVE Stirred(shuffler[q], shuffler'[q])
      BY <2>4, <2>5, <3>2
    <3> QED
      BY <3>1, <3>2
  <2>7. \A q \in Shufflers : q # r => Alike(shuffler[q], shuffler'[q])
    BY <1>1, <2>6, StirredAlike
  <2>8. Orderly(rec', shuffler'[r])
    BY <1>1, <2>1, <2>3, <2>6 DEF Orderly
  <2>9. StatusKept(rec, rec') /\ \A t \in Tickets : Unmoved(rec[t], rec'[t])
    BY <2>1, RecordsKept
  <2>10. SameJobs(parker, parker') /\ SameJobs(parker', parker)
    BY <2>1, NobodyChanges
  <2>11. \A t \in Tickets : Passes(t, rec[t], rec'[t], shuffler[r], shuffler'[r],
                                  shuffleJobCh, shuffleJobCh')
    BY <1>3, <2>1, <2>9 DEF Passes
  <2> QED
    BY <2>1, <2>7, <2>8, <2>9, <2>10, <2>11, ShufflerSettles
<1>5. CASE ShufflerFinish(r)
  <2>1. ShufflerMoves(r, IdleShuffler) /\ shuffleJobCh' = shuffleJobCh
    BY <1>5 DEF ShufflerFinish
  <2>2. Orderly(rec, IdleShuffler)
    <3>1. DOMAIN << >> = {}
      OBVIOUS
    <3> QED
      BY <3>1, IdleFits DEF Orderly
  <2> QED
    BY <1>3, <2>1, <2>2, MovesSettle
<1> QED
  BY <1>4, <1>5

\* The rest of a cycle is ordered again: every vehicle that is not at home is in
\* the list.
LEMMA ShufflerReplanSettles ==
    ASSUME IInv, SInv, NEW r \in Shufflers, ShufflerReplan(r)
    PROVE  SInv'
<1> DEFINE s == shuffler[r]
           ts == Only(Tail(s.tickets), Movable)
           moves == [t \in ToSet(ts) |-> MoveHome(t)]
           allOf(order) == FlattenSeq([i \in DOMAIN order |-> order[i].tickets])
           zOf(order) == [s EXCEPT !.jobs = MovesOf(allOf(order)), !.phase = "rest",
                                   !.pc = IF ts = << >> THEN "home" ELSE "lift"]
<1>1. s \in ShufflerStates /\ InStage(s) /\ Breaks(s)
  BY RobotFits
<1>2. /\ s.pc = "replan" /\ shuffleJobCh' = shuffleJobCh
      /\ \E order \in MovementOrders(moves) : ShufflerMoves(r, zOf(order))
  BY Zenon DEF ShufflerReplan
<1>3. PICK order \in MovementOrders(moves) : ShufflerMoves(r, zOf(order))
  BY <1>2
<1> DEFINE all == allOf(order)
           m == MovesOf(all)
           z == zOf(order)
<1>4. s.tickets \in Seq(Tickets) /\ s.tickets # << >>
  BY <1>1, <1>2 DEF InStage, Breaks, ShufflerStates
<1>5. /\ ts \in Seq(Tickets) /\ ToSet(ts) = ToSet(Tail(s.tickets)) \cap Movable
      /\ ToSet(s.tickets) = {Head(s.tickets)} \cup ToSet(Tail(s.tickets))
  <2>1. Tail(s.tickets) \in Seq(Tickets) /\ ToSet(s.tickets) = {Head(s.tickets)} \cup ToSet(Tail(s.tickets))
    BY <1>4, HeadTail
  <2> HIDE DEF s
  <2> QED
    BY <2>1, OnlyResult
<1> HIDE DEF ts
<1>6. all \in Seq(Tickets) /\ ToSet(all) = ToSet(ts)
  <2>1. order \in MovementOrders([t \in ToSet(ts) |-> MoveHome(t)])
    BY <1>3
  <2> QED
    BY <1>5, <2>1, ReplanOrder
<1> HIDE DEF all, moves
<1>7. ToSet(all) \subseteq Movable
  BY <1>5, <1>6
<1>8. /\ \A k \in DOMAIN m : m[k].ticket \in ToSet(all)
      /\ \A t \in ToSet(all) : \E k \in DOMAIN m : m[k].ticket = t /\ At(rec[t], m[k].from)
  BY <1>6, <1>7, MovesOfListed
<1> HIDE DEF s, m
<1>9. /\ z.tickets = s.tickets /\ z.jobs = m /\ z.phase = "rest"
      /\ (z.pc = "home" /\ ts = << >>) \/ z.pc = "lift"
  <2> DEFINE pc == IF ts = << >> THEN "home" ELSE "lift"
  <2>1. z = [s EXCEPT !.jobs = m, !.phase = "rest", !.pc = pc]
    BY DEF m, all
  <2>2. (pc = "home" /\ ts = << >>) \/ pc = "lift"
    OBVIOUS
  <2> HIDE DEF pc, z
  <2> QED
    BY <1>1, <2>1, <2>2 DEF ShufflerStates
<1>10. ShufflerMoves(r, z)
  BY <1>3 DEF m, all
<1> HIDE DEF z
<1>11. Orderly(rec, z)
  BY <1>5, <1>6, <1>7, <1>8, <1>9, MovableParked DEF Orderly
<1>12. ASSUME NEW t \in Tickets, Stays(rec[t]), Due(s, t, rec[t]), ~Home(rec[t])
       PROVE  Due(z, t, rec[t])
  <2>1. Left(s, t, rec[t]) \/ Slotted(s, t, rec[t])
    BY <1>2, <1>12 DEF Due, Early, ToOrder, InHand, Listed, Carrying
  <2>2. CASE Left(s, t, rec[t])
    <3>1. t \in ToSet(Tail(s.tickets)) /\ Rested(rec[t])
      BY <1>5, <2>2 DEF Left
    <3>2. t \in Movable
      BY <1>12, <3>1 DEF Rested, Stays, Home, Movable, ToMove
    <3>3. t \in ToSet(ts) /\ ts # << >>
      BY <1>5, <3>1, <3>2, Nothing
    <3>4. Listed(z, t, rec[t])
      BY <1>6, <1>8, <1>9, <3>3 DEF Listed, Carrying
    <3> QED
      BY <3>4 DEF Due
  <2>3. CASE Slotted(s, t, rec[t])
    <3>1. Slotted(z, t, rec[t])
      BY <1>9, <2>3 DEF Slotted, Carrying
    <3> QED
      BY <3>1 DEF Due
  <2> QED
    BY <2>1, <2>2, <2>3
<1> QED
  BY <1>2, <1>10, <1>11, <1>12, MovesSettle DEF s

-----------------------------------------------------------------------------
(* Every vehicle that stays is accounted for *)

\* No vehicle is there.
LEMMA InitSettles == Init => SInv
<1> SUFFICES ASSUME Init PROVE SInv
  OBVIOUS
<1>1. /\ rec = [t \in Tickets |-> NoRecord] /\ parkingJobCh = << >>
      /\ parker = [r \in Parkers |-> IdleRobot]
      /\ shuffler = [r \in Shufflers |-> IdleShuffler]
  BY DEF Init
<1>2. DOMAIN << >> = {}
  OBVIOUS
<1>3. \A r \in Parkers : ~Brings(parker[r])
  BY <1>1 DEF Brings, IdleRobot
<1>4. ParkedOnce(rec, parkingJobCh, parker)
  BY <1>1, <1>2, <1>3 DEF ParkedOnce
<1>5. Nowhere(rec)
  BY <1>1 DEF Nowhere, NoRecord
<1>6. \A r \in Shufflers : Orderly(rec, shuffler[r])
  BY <1>1, <1>2, IdleFits DEF Orderly
<1>7. Accounted(rec, parkingJobCh, parker, shuffleJobCh, shuffler)
  BY <1>1 DEF Accounted, Settles, Stays, NoRecord
<1> QED
  BY <1>4, <1>5, <1>6, <1>7 DEF SInv

\* Every step keeps the vehicles accounted for.
LEMMA NextSettles == IInv /\ SInv /\ [Next]_vars => SInv'
<1> SUFFICES ASSUME IInv, SInv, [Next]_vars PROVE SInv'
  OBVIOUS
<1>1. CASE \E t \in Tickets : Park(t)
  BY <1>1, ParkSettles
<1>2. CASE \E t \in Leavers : Unpark(t)
  BY <1>2, ParkingAssumption, UnparkSettles
<1>3. CASE \E s \in Switches : SwitchRearranging(s)
  BY <1>3, SwitchRearrangingSettles
<1>4. CASE \/ \E s \in Switches : SwitchPlain(s)
           \/ ShuffleDone
           \/ \E r \in Unparkers : UnparkerTake(r) \/ UnparkerLook(r)
           \/ UNCHANGED vars
  BY <1>4, OthersSettle
<1>5. ASSUME NEW r \in Parkers, ParkerStep(r) PROVE SInv'
  BY <1>5, ParkerTakeSettles, ParkerWaitsSettle, ParkerStoreSettles DEF ParkerStep
<1>6. ASSUME NEW r \in Unparkers, UnparkerFinish(r) PROVE SInv'
  BY <1>6, UnparkerFinishSettles
<1>7. ASSUME NEW r \in Shufflers, ShufflerStep(r) PROVE SInv'
  BY <1>7, ShufflerTakeSettles, ShufflerWaitsSettle, ShufflerReadySettles,
     ShufflerClaimSlotSettles, ShufflerDropsSettle, ShufflerLiftSettles,
     ShufflerBufferSettles, ShufflerPlaceSettles, ShufflerReplanSettles,
     ShufflerHomeSettles, ShufflerEndsSettle DEF ShufflerStep
<1> QED
  BY <1>1, <1>2, <1>3, <1>4, <1>5, <1>6, <1>7 DEF Next, RobotStep, UnparkerStep

\* When no rearrangement is on, every parked vehicle that stays is where it was
\* promised: nobody is left who could have something to do with it.
THEOREM SpecSettledAfterShuffle == Spec => []SettledAfterShuffle
<1>1. IInv /\ SInv => SettledAfterShuffle
  <2> SUFFICES ASSUME IInv, SInv, ~shuffling, NEW t \in Tickets, rec[t].present,
                      ~rec[t].unpark, rec[t].status = "PARKED"
               PROVE  Home(rec[t])
    BY DEF SettledAfterShuffle, Home
  <2>1. TypeOK /\ Counted /\ ShufflersFit /\ shuffleWG = 0
    BY DEF IInv, Counted
  <2>2. ~Assigned(t, shuffleJobCh) /\ \A r \in Shufflers : ~Due(shuffler[r], t, rec[t])
    BY <2>1, NobodyDue
  <2>3. ~Coming(t, rec[t].target, parkingJobCh, parker)
    BY DEF SInv, ParkedOnce, Coming
  <2> QED
    BY <2>2, <2>3 DEF SInv, Accounted, Settles, Stays
<1> QED
  BY <1>1, InitFits, InitSettles, NextKeeps, NextSettles, PTL DEF Spec
================================================================================
