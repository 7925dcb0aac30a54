--------------------------------- MODULE Look ---------------------------------
(***************************************************************************)
(* The order in which the directional strategy of the elevator serves its  *)
(* stops, without heaps, goroutines and the work token: the nearest stop   *)
(* in the direction of the sweep is next, and the sweep turns only when    *)
(* nothing is left ahead.                                                  *)
(*                                                                         *)
(* It departs from Elevator_System/readme.md:374-375 in one point.  The    *)
(* readme says "while sweeping up, the lowest floor at or above the car is *)
(* served next" and "while sweeping down, the highest floor at or below    *)
(* the car".  The code does so above and below the car, and at the car's   *)
(* own floor for a stop asked for in the direction of the sweep.  A stop   *)
(* at that floor asked for in the other direction is in the other heap,    *)
(* and rebucket (elevator.go:115-120) leaves it there: it waits for the    *)
(* way back.  With the car at 2, the sweep UP and 2 DOWN and 3 UP pending, *)
(* 3 is served first.                                                      *)
(***************************************************************************)
EXTENDS Integers

CONSTANTS Stops, NoTarget

VARIABLES
    floor,    \* where the car is
    sweep,    \* the direction of the sweep
    waiting,  \* the stops that are asked for
    target,   \* the floor the car is on its way to, or NoTarget
    stopped   \* whether the elevator was shut down

vars == <<floor, sweep, waiting, target, stopped>>

Init ==
    /\ floor = 1 /\ sweep = "UP" /\ waiting = {} /\ target = NoTarget
    /\ stopped = FALSE

Ask(r) ==
    /\ waiting' = waiting \cup {r}
    /\ UNCHANGED <<floor, sweep, target, stopped>>

\* Floor f lies in direction d of the car; the car's own floor lies in both.
InDirection(d, f) == IF d = "UP" THEN f >= floor ELSE f <= floor

\* The stops that wait for the way back: those at the car's own floor that are
\* asked for in the direction other than d.  IDLE counts as UP (elevator.go:91).
OnTheWayBack(d, r) == r.floor = floor /\ (r.direction = "DOWN" <=> d = "UP")

\* The stops ahead in direction d.
Ahead(d) == {r \in waiting : InDirection(d, r.floor) /\ ~OnTheWayBack(d, r)}

Pick(r) ==
    /\ target = NoTarget
    /\ r \in waiting
    /\ sweep' \in {"UP", "DOWN"}
    /\ sweep' # sweep => Ahead(sweep) = {}
    /\ InDirection(sweep', r.floor)
    /\ \A s \in Ahead(sweep') :
          IF sweep' = "UP" THEN r.floor <= s.floor ELSE r.floor >= s.floor
    /\ waiting' = waiting \ {r}
    /\ target' = r.floor
    /\ UNCHANGED <<floor, stopped>>

Travel ==
    /\ target \notin {NoTarget, floor}
    /\ floor' = IF target > floor THEN floor + 1 ELSE floor - 1
    /\ UNCHANGED <<sweep, waiting, target, stopped>>

\* The stop is served, or given up because the elevator was shut down.
Finish ==
    /\ target # NoTarget
    /\ target = floor \/ stopped
    /\ target' = NoTarget
    /\ UNCHANGED <<floor, sweep, waiting, stopped>>

Stop == stopped' = TRUE /\ UNCHANGED <<floor, sweep, waiting, target>>

Next == \/ \E r \in Stops : Ask(r) \/ Pick(r)
        \/ Travel \/ Finish \/ Stop

Spec == Init /\ [][Next]_vars
===============================================================================
