----------------------------- MODULE MCStandalone -----------------------------
(***************************************************************************)
(* Four programs of the repository that share nothing, checked in one run: *)
(* `system' is the one that is started, the others stay as they begin.     *)
(***************************************************************************)
EXTENDS Elevator, LRUCache, TokenBucket, SnakeLadders

VARIABLE system

programVars == <<elevatorVars, cacheVars, bucketVars, gameVars>>
vars == <<system, programVars>>

Init ==
    /\ system \in {"elevator", "cache", "limiter", "game"}
    /\ ElevatorInit /\ CacheInit /\ BucketInit /\ GameInit

Running(s) == system = s /\ UNCHANGED system

Next ==
    \/ /\ Running("elevator") /\ ElevatorNext
       /\ UNCHANGED <<cacheVars, bucketVars, gameVars>>
    \/ /\ Running("cache") /\ CacheNext
       /\ UNCHANGED <<elevatorVars, bucketVars, gameVars>>
    \/ /\ Running("limiter") /\ BucketNext
       /\ UNCHANGED <<elevatorVars, cacheVars, gameVars>>
    \/ /\ Running("game") /\ GameNext
       /\ UNCHANGED <<elevatorVars, cacheVars, bucketVars>>

Spec == Init /\ [][Next]_vars /\ ElevatorFairness

\* The types of the four programs, with what they say of them beyond types.
TypeOK == ElevatorTypeOK /\ CacheTypeOK /\ BucketTypeOK /\ GameTypeOK
===============================================================================
