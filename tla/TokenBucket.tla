------------------------------ MODULE TokenBucket ------------------------------
(***************************************************************************)
(* The rate limiter (Token Bucket Rate Limiter/main.go): Allow looks for   *)
(* the bucket of its user under the map's read lock, may create it under   *)
(* the write lock, and takes a token under the lock of the bucket.         *)
(*                                                                         *)
(* Amounts are counted in parts of a token, Part of them in one, so that   *)
(* fractions of tokens occur; the rounding of float64 is left out.         *)
(***************************************************************************)
EXTENDS Integers, Sequences

CONSTANTS
    Users,
    Goroutines,    \* goroutines that call Allow
    MaxTokens,     \* TokenBucketRateLimiter.Capacity, in parts
    RefillRate,    \* parts per tick
    Part,          \* the parts of one token
    LastTick       \* bound: the clock stops here

ASSUME BucketAssumption ==
    /\ MaxTokens \in Nat /\ RefillRate \in Nat /\ LastTick \in Nat
    /\ Part \in Nat \ {0}

VARIABLES
    clock,
    cache,      \* the bucket of each user, an index of buckets; 0 is none
    buckets,    \* the buckets made so far: their tokens and their last refill
    request,    \* the goroutines in Allow: where, for whom, with which bucket
    granted     \* history: when each user was allowed, in order

bucketVars == <<clock, cache, buckets, request, granted>>

BucketInit ==
    /\ clock = 0
    /\ cache = [u \in Users |-> 0]
    /\ buckets = << >>
    /\ request = [q \in Goroutines |-> [pc |-> "idle"]]
    /\ granted = [u \in Users |-> << >>]

\* The map is read; the write lock is taken later.
Allow(q, u) ==
    /\ request[q].pc = "idle"
    /\ request' = [request EXCEPT ![q] =
          [pc |-> IF cache[u] = 0 THEN "create" ELSE "take", user |-> u,
           bucket |-> cache[u]]]
    /\ UNCHANGED <<clock, cache, buckets, granted>>

\* Mutant of Missing: the map is not looked at again under the write lock.
MissingStill(u) == TRUE

Missing(u) == cache[u] = 0

Create(q) ==
    LET u == request[q].user
        mine == IF Missing(u) THEN Len(buckets) + 1 ELSE cache[u]
    IN /\ request[q].pc = "create"
       /\ IF Missing(u)
          THEN /\ buckets' = Append(buckets, [tokens |-> MaxTokens, lastRefill |-> clock])
               /\ cache' = [cache EXCEPT ![u] = mine]
          ELSE UNCHANGED <<buckets, cache>>
       /\ request' = [request EXCEPT ![q].pc = "take", ![q].bucket = mine]
       /\ UNCHANGED <<clock, granted>>

minFunction(a, b) == IF a > b THEN b ELSE a

\* What the bucket holds after the refill for the time since the last one.
Refilled(b) ==
    minFunction(MaxTokens, RefillRate * (clock - b.lastRefill) + b.tokens)

\* Refill and, if there is a token, take it.
Take(q) ==
    LET i == request[q].bucket
        u == request[q].user
        tokens == Refilled(buckets[i])
        allowed == tokens >= Part
    IN /\ request[q].pc = "take"
       /\ buckets' = [buckets EXCEPT ![i] =
             [tokens |-> IF allowed THEN tokens - Part ELSE tokens,
              lastRefill |-> clock]]
       /\ granted' = IF allowed THEN [granted EXCEPT ![u] = Append(@, clock)]
                     ELSE granted
       /\ request' = [request EXCEPT ![q] = [pc |-> "idle"]]
       /\ UNCHANGED <<clock, cache>>

Tick ==
    /\ clock < LastTick
    /\ clock' = clock + 1
    /\ UNCHANGED <<cache, buckets, request, granted>>

BucketNext ==
    \/ \E q \in Goroutines : (\E u \in Users : Allow(q, u)) \/ Create(q) \/ Take(q)
    \/ Tick

BucketSpec == BucketInit /\ [][BucketNext]_bucketVars

-----------------------------------------------------------------------------
(* Properties *)

BucketTypeOK ==
    /\ clock \in 0..LastTick
    /\ cache \in [Users -> 0..Len(buckets)]
    /\ \A i \in DOMAIN buckets :
          /\ buckets[i].tokens \in 0..MaxTokens
          /\ buckets[i].lastRefill \in 0..clock
    /\ \A q \in Goroutines : request[q].pc \in {"idle", "create", "take"}
    /\ \A u \in Users : granted[u] \in Seq(0..clock)

\* The rate limit, over every stretch of time and however requests race for the
\* creation of a bucket: from one grant to a later one a user is allowed no more
\* than a full bucket and what is refilled meanwhile.
WithinRate ==
    \A u \in Users : \A i, j \in DOMAIN granted[u] : i <= j =>
        (j - i + 1) * Part
            <= MaxTokens + RefillRate * (granted[u][j] - granted[u][i])
===============================================================================
