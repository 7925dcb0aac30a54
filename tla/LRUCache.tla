------------------------------- MODULE LRUCache -------------------------------
(***************************************************************************)
(* The LRU cache (LRU cache/main.go): a map of nodes that are linked from  *)
(* the most to the least recently used one.  Every operation holds c.mu    *)
(* throughout, so it is one action.  A key has at most one node that       *)
(* anything refers to, so a pointer to a node is its key, or Nil.          *)
(***************************************************************************)
EXTENDS Integers, FiniteSets, Sequences

CONSTANTS Keys, Values, Capacity, Nil

ASSUME CacheAssumption ==
    /\ IsFiniteSet(Keys) /\ Nil \notin Keys
    /\ Capacity \in Nat \ {0}

VARIABLES
    nodeCache,           \* the keys of the map
    data,                \* the field data of the nodes
    nextBlock, prevBlock,
    MFUNode, LRUNode

cacheVars == <<nodeCache, data, nextBlock, prevBlock, MFUNode, LRUNode>>

CacheInit ==
    /\ nodeCache = {}
    /\ data = << >>
    /\ nextBlock = [k \in Keys |-> Nil] /\ prevBlock = [k \in Keys |-> Nil]
    /\ MFUNode = Nil /\ LRUNode = Nil

\* Mutant of LastWithout: LRUNode is not moved.
LastWithoutStays(k) == LRUNode

\* LRUNode when the node of k has left its place.
LastWithout(k) == IF LRUNode = k THEN prevBlock[k] ELSE LRUNode

\* The node of k goes to the front, from the end or from the middle.
re_rank(k) ==
    IF MFUNode = k
    THEN UNCHANGED <<nextBlock, prevBlock, MFUNode, LRUNode>>
    ELSE LET before == prevBlock[k]
             after == IF LRUNode = k THEN Nil ELSE nextBlock[k]
             unlinked == [x \in Keys |-> IF x = k THEN Nil
                             ELSE IF x = after THEN before ELSE prevBlock[x]]
         IN /\ LRUNode' = LastWithout(k)
            /\ nextBlock' = [nextBlock EXCEPT ![before] = after, ![k] = MFUNode]
            /\ prevBlock' = [unlinked EXCEPT ![MFUNode] = k]
            /\ MFUNode' = k

Get(k) ==
    /\ k \in nodeCache
    /\ re_rank(k)
    /\ UNCHANGED <<nodeCache, data>>

PutExisting(k, v) ==
    /\ k \in nodeCache
    /\ data' = [data EXCEPT ![k] = v]
    /\ re_rank(k)
    /\ UNCHANGED nodeCache

\* Room is made by evicting LRUNode; the new node goes before the first one.
PutNew(k, v) ==
    LET full == Cardinality(nodeCache) = Capacity
        last == IF full THEN LastWithout(LRUNode) ELSE LRUNode
        first == IF full /\ last = Nil THEN Nil ELSE MFUNode
        kept == IF full THEN nodeCache \ {LRUNode} ELSE nodeCache
    IN /\ k \notin nodeCache
       /\ nodeCache' = kept \cup {k}
       /\ data' = [x \in kept \cup {k} |-> IF x = k THEN v ELSE data[x]]
       /\ nextBlock' = [x \in Keys |-> IF x = k THEN first
                           ELSE IF full /\ x = last THEN Nil ELSE nextBlock[x]]
       /\ prevBlock' = [x \in Keys |-> IF x = k \/ (full /\ x = LRUNode) THEN Nil
                           ELSE IF x = first THEN k ELSE prevBlock[x]]
       /\ MFUNode' = k
       /\ LRUNode' = IF first = Nil THEN k ELSE last

CacheNext ==
    \E k \in Keys : Get(k) \/ \E v \in Values : PutExisting(k, v) \/ PutNew(k, v)

CacheSpec == CacheInit /\ [][CacheNext]_cacheVars

-----------------------------------------------------------------------------
(* Properties *)

\* The keys that Show passes: from MFUNode along nextBlock, for n nodes at most.
Walk[n \in Nat] ==
    IF n = 0 THEN << >>
    ELSE LET passed == Walk[n - 1]
             node == IF passed = << >> THEN MFUNode ELSE nextBlock[passed[Len(passed)]]
         IN IF Len(passed) < n - 1 \/ node = Nil THEN passed ELSE Append(passed, node)

CacheTypeOK ==
    /\ nodeCache \subseteq Keys /\ Cardinality(nodeCache) <= Capacity
    /\ data \in [nodeCache -> Values]
    /\ nextBlock \in [Keys -> Keys \cup {Nil}]
    /\ prevBlock \in [Keys -> Keys \cup {Nil}]
    /\ MFUNode \in nodeCache \cup {Nil} /\ LRUNode \in nodeCache \cup {Nil}

\* However the links at the head, the tail and in the middle were changed, the
\* list behind MFUNode is the keys by their last use, so what is evicted is the
\* least recently used key and no other, and a lookup finds what was put last.
Recent == INSTANCE Recency WITH order <- Walk[Cardinality(Keys)], value <- data
CacheIsRecency == Recent!Spec
===============================================================================
