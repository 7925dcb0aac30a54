------------------------------ MODULE MCParking ------------------------------
(***************************************************************************)
(* Instances of Parking for TLC.                                           *)
(***************************************************************************)
EXTENDS Parking

\* Two bikes and a car.
MixedTypes == [t \in Tickets |-> IF t = "car" THEN "CAR" ELSE "BIKE"]

\* Cars only.
CarTypes == [t \in Tickets |-> "CAR"]

\* The vehicles arrive in any order, or, when they are all alike and their
\* tickets are numbers, in the order of the numbers.
AnyOrder == [t \in Tickets |-> {}]
InOrder == [t \in Tickets |-> {u \in Tickets : u < t}]
=============================================================================
