------------------------------- MODULE Recency --------------------------------
(***************************************************************************)
(* What an LRU cache promises (LRU cache/readme.md): the keys in the order *)
(* of their last use, the least recent one leaving when a new key comes to *)
(* a full cache, and the value that was put last.                          *)
(***************************************************************************)
EXTENDS Integers, Sequences, SequencesExt

CONSTANTS Keys, Values, Capacity

VARIABLES
    order,   \* the cached keys, the most recently used one first
    value    \* what is cached for each of them

vars == <<order, value>>

Init == order = << >> /\ value = << >>

\* k is used: it goes to the front.
Used(k) == <<k>> \o RemoveFirst(order, k)

Get(k) ==
    /\ k \in ToSet(order)
    /\ order' = Used(k)
    /\ UNCHANGED value

Put(k, v) ==
    /\ order' = IF Len(Used(k)) > Capacity THEN Front(Used(k)) ELSE Used(k)
    /\ value' = [x \in ToSet(order') |-> IF x = k THEN v ELSE value[x]]

Next == \E k \in Keys : Get(k) \/ \E v \in Values : Put(k, v)

Spec == Init /\ [][Next]_vars
===============================================================================
