----------------------------- MODULE ParkingPlan -----------------------------
(***************************************************************************)
(* The decisions of the parking system that depend on no robot: which      *)
(* floor a strategy chooses for a vehicle, which floor it plans for every  *)
(* vehicle when it rearranges the building, and in which order the planned *)
(* moves are made (parking_strategy/, parking_rearrangement/, models/).    *)
(*                                                                         *)
(* The code visits vehicles and moves by ranging over maps, whose order    *)
(* the language leaves open, so a plan and a movement order are sets of    *)
(* possible results.  All floors have one capacity (parking.go:30-35).     *)
(***************************************************************************)
EXTENDS Integers, Sequences, FiniteSets, SequencesExt

CONSTANTS
    FloorCount,   \* floorsCnt of NewAutomatedParkingSystem
    Capacity,     \* floorSpace: the capacity of each floor
    Tickets,      \* the tickets of the visits
    TypeOf        \* the vehicle type of each ticket

ASSUME PlanAssumption ==
    /\ FloorCount \in Nat /\ Capacity \in Nat
    /\ IsFiniteSet(Tickets)
    /\ TypeOf \in [Tickets -> {"BIKE", "CAR", "TRUCK"}]

Floors == 0..(FloorCount - 1)
NoFloor == -1

\* The members of the sequence s that are in T, in their order.
Only(s, T) ==
    FoldLeft(LAMBDA kept, x : IF x \in T THEN Append(kept, x) ELSE kept, << >>, s)

Strategies == {"Nearest", "LoadBalanced", "Compaction", "ZoneBalanced"}

\* GetVehicleSpace.
Space(t) == CASE TypeOf[t] = "BIKE" -> 1
              [] TypeOf[t] = "CAR" -> 2
              [] TypeOf[t] = "TRUCK" -> 6

\* The space that a set of vehicles takes.
SpaceOf(S) == FoldFunctionOnSet(+, 0, [t \in Tickets |-> Space(t)], S)

\* ZoneRange: trucks below, then cars, then bikes; cars get what the rounding
\* of the percentages leaves.
Zone(type) ==
    LET trucks == (FloorCount * 20) \div 100
        bikes == (FloorCount * 30) \div 100
        cars == FloorCount - trucks - bikes
    IN CASE type = "TRUCK" -> 0..(trucks - 1)
         [] type = "CAR" -> trucks..(trucks + cars - 1)
         [] type = "BIKE" -> (trucks + cars)..(FloorCount - 1)

-----------------------------------------------------------------------------
(* Choice of a floor for t, when used[f] of floor f is taken: Allocate calls it
   with the reserved capacities, PlanRearrangement with those of the layout that
   it builds *)

\* Mutant of Fitting: any floor that is not full will do.
FittingAny(t, used) == {f \in Floors : used[f] < Capacity}

\* The floors with room.
Fitting(t, used) == {f \in Floors : used[f] + Space(t) <= Capacity}

Lowest(S) == IF S = {} THEN NoFloor ELSE Min(S)

Nearest(t, used) == Lowest(Fitting(t, used))

LoadBalanced(t, used) ==
    LET fitting == Fitting(t, used)
    IN Lowest({f \in fitting : \A g \in fitting : used[f] <= used[g]})

\* The fullest floor: the floors have one capacity, so it is the one with the
\* highest percentage (Allocate) and the best fit (PlanRearrangement).
Compaction(t, used) ==
    LET fitting == Fitting(t, used)
    IN Lowest({f \in fitting : \A g \in fitting : used[f] >= used[g]})

ZoneBalanced(t, used) == Lowest(Fitting(t, used) \cap Zone(TypeOf[t]))

Choose(s, t, used) == CASE s = "Nearest" -> Nearest(t, used)
                        [] s = "LoadBalanced" -> LoadBalanced(t, used)
                        [] s = "Compaction" -> Compaction(t, used)
                        [] s = "ZoneBalanced" -> ZoneBalanced(t, used)

-----------------------------------------------------------------------------
(* Plan of a rearrangement: PlanRearrangement *)

\* A layout that is being built: where each vehicle goes and what that takes.
EmptyLayout(S) == [failed |-> FALSE, used |-> [f \in Floors |-> 0],
                   at |-> [t \in S |-> NoFloor]]

\* One vehicle more; the plan fails when there is no floor for it.
Put(s, layout, t) ==
    LET f == Choose(s, t, layout.used)
    IN IF layout.failed \/ f = NoFloor
       THEN [layout EXCEPT !.failed = TRUE]
       ELSE [layout EXCEPT !.used[f] = @ + Space(t), !.at[t] = f]

\* The orders in which the vehicles are put: that of the map, which is any;
\* compaction sorts them by size.
Visits(s, S) ==
    {q \in SetToSeqs(S) :
        s = "Compaction" =>
            \A i, j \in DOMAIN q : i < j => Space(q[i]) >= Space(q[j])}

\* The layouts [S -> Floors] that the strategy may build from nothing for the
\* vehicles S.  An order that finds no floor for some vehicle has no layout.
Layouts(s, S) ==
    LET built == {FoldLeft(LAMBDA layout, t : Put(s, layout, t),
                           EmptyLayout(S), q) : q \in Visits(s, S)}
    IN {layout.at : layout \in {l \in built : ~l.failed}}

-----------------------------------------------------------------------------
(* Order of the moves: BuildMovementOrder *)

\* A move frees the floor that another move goes to (buildDirectedGraph).  A set
\* of moves is a function from tickets to records with fields from and to.
Before(moves, a, b) == a # b /\ moves[a].from = moves[b].to

\* findDisconnectedComp: the orders in which the search visits the moves that
\* are connected with start, over the orders of the neighbours.
Searches(moves, start) ==
    LET D == DOMAIN moves
        search[x \in [stack : Seq(D), visited : SUBSET D]] ==
            IF x.stack = << >> THEN {<< >>}
            ELSE LET id == Last(x.stack)
                     next == {n \in D \ x.visited :
                                 Before(moves, id, n) \/ Before(moves, n, id)}
                 IN {<<id>> \o rest : rest \in
                       UNION {search[[stack |-> Front(x.stack) \o pushed,
                                      visited |-> x.visited \cup next]] :
                                 pushed \in SetToSeqs(next)}}
    IN search[[stack |-> <<start>>, visited |-> {start}]]

\* topoSort: the queue takes a move when every move before it has been taken.
Sorts(moves, comp) ==
    LET D == ToSet(comp)
        Free(taken) == {n \in D \ taken :
                          \A m \in D : Before(moves, m, n) => m \in taken}
        sort[x \in [queue : Seq(D), taken : SUBSET D]] ==
            IF x.queue = << >> THEN {<< >>}
            ELSE LET id == Head(x.queue)
                     taken == x.taken \cup {id}
                     freed == Free(taken) \ (Free(x.taken) \cup taken)
                 IN {<<id>> \o rest : rest \in
                       UNION {sort[[queue |-> Tail(x.queue) \o q,
                                    taken |-> taken]] : q \in SetToSeqs(freed)}}
        first == Only(comp, Free({}))
    IN sort[[queue |-> first, taken |-> {}]]

\* Mutant of Ordered: a cycle is not recognised.
OrderedAsIs(moves, comp) ==
    {[tickets |-> comp, loop |-> FALSE] : q \in Sorts(moves, comp)}

\* The component as it is executed: sorted, or as visited when it has a cycle.
Ordered(moves, comp) ==
    {IF Len(q) < Len(comp) THEN [tickets |-> comp, loop |-> TRUE]
                           ELSE [tickets |-> q, loop |-> FALSE] :
        q \in Sorts(moves, comp)}

\* BuildMovementOrder: the sequences of components, each with its order.
MovementOrders(moves) ==
    LET orders[left \in SUBSET DOMAIN moves] ==
            IF left = {} THEN {<< >>}
            ELSE UNION {UNION {{<<c>> \o rest : rest \in orders[left \ ToSet(comp)]} :
                                  c \in Ordered(moves, comp)} :
                           comp \in UNION {Searches(moves, n) : n \in left}}
    IN orders[DOMAIN moves]
=============================================================================
