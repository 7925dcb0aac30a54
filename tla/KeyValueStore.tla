---------------------------- MODULE KeyValueStore ----------------------------
(***************************************************************************)
(* The key-value store with expiration (KeyValueStore/main.go): Set, Get,  *)
(* Exists, Delete, Shutdown and the goroutine of autoCleanup.              *)
(*                                                                         *)
(* A section under kv.mu is one action.  Between two of them Get and       *)
(* Exists hold a copy of an entry, and the cleaner a time at which it      *)
(* wants to be woken.  Time is a counter; every time.Now() of the code is  *)
(* a read of it in the action that makes the call.  The values are left    *)
(* out: an entry is when it expires.                                       *)
(***************************************************************************)
EXTENDS ExpiryHeap, FiniteSets

CONSTANTS
    Readers,   \* goroutines that call Get and Exists
    TTLs,      \* the ttl arguments of Set, 0 for none
    MaxTime    \* bound: the last time on the clock

ASSUME KeyValueAssumption ==
    /\ IsFiniteSet(Keys)
    /\ TTLs \subseteq Nat
    /\ MaxTime \in Nat

VARIABLES
    now,        \* the clock
    store,      \* kv.store: an entry for each key
    index,      \* the keys of kv.expiryIndex
    expiryHeap, \* kv.expiryHeap
    wakeup,     \* kv.wakeup holds its one token
    shutdown,   \* kv.shutdown, and whether kv.done is closed
    cleaner,    \* the goroutine of autoCleanup and its expiresAt
    reader      \* the goroutines in Get and Exists, with the entry they copied

vars == <<now, store, index, expiryHeap, wakeup, shutdown, cleaner, reader>>

NoEntry == [exists |-> FALSE, expires |-> FALSE, at |-> 0]
Entries == [exists : BOOLEAN, expires : BOOLEAN, at : Nat]
Entry(expires, at) == [exists |-> TRUE, expires |-> expires, at |-> at]

Init ==
    /\ now = 0
    /\ store = [k \in Keys |-> NoEntry]
    /\ index = {}
    /\ expiryHeap = EmptyHeap
    /\ wakeup = FALSE
    /\ shutdown = FALSE
    /\ cleaner = [pc |-> "peek", expiresAt |-> 0]
    /\ reader = [r \in Readers |-> [pc |-> "idle"]]

-----------------------------------------------------------------------------
(* Set and Delete *)

SetForever(k) ==
    /\ ~shutdown
    /\ store' = [store EXCEPT ![k] = Entry(FALSE, 0)]
    /\ IF store[k].expires
       THEN /\ expiryHeap' = Remove(expiryHeap, expiryHeap.pos[k])
            /\ index' = index \ {k}
            /\ wakeup' = TRUE
       ELSE UNCHANGED <<expiryHeap, index, wakeup>>
    /\ UNCHANGED <<now, shutdown, cleaner, reader>>

\* Mutant of SetExpiring: the cleaner is told of new items only.
SetExpiringQuiet(k, ttl) ==
    LET at == now + ttl
    IN /\ ~shutdown
       /\ store' = [store EXCEPT ![k] = Entry(TRUE, at)]
       /\ IF store[k].expires
          THEN /\ expiryHeap' = Fix(expiryHeap, k, at)
               /\ UNCHANGED <<index, wakeup>>
          ELSE /\ expiryHeap' = Push(expiryHeap, k, at)
               /\ index' = index \cup {k}
               /\ wakeup' = TRUE
       /\ UNCHANGED <<now, shutdown, cleaner, reader>>

\* Mutant of SetExpiring: the duration is taken off.
SetExpiringBackwards(k, ttl) ==
    LET at == now - ttl
    IN /\ ~shutdown
       /\ store' = [store EXCEPT ![k] = Entry(TRUE, at)]
       /\ expiryHeap' = IF store[k].expires THEN Fix(expiryHeap, k, at)
                                            ELSE Push(expiryHeap, k, at)
       /\ index' = index \cup {k}
       /\ wakeup' = TRUE
       /\ UNCHANGED <<now, shutdown, cleaner, reader>>

SetExpiring(k, ttl) ==
    LET at == now + ttl
    IN /\ ~shutdown
       /\ store' = [store EXCEPT ![k] = Entry(TRUE, at)]
       /\ IF store[k].expires
          THEN /\ expiryHeap' = Fix(expiryHeap, k, at)
               /\ UNCHANGED index
          ELSE /\ expiryHeap' = Push(expiryHeap, k, at)
               /\ index' = index \cup {k}
       /\ wakeup' = TRUE
       /\ UNCHANGED <<now, shutdown, cleaner, reader>>

Set(k, ttl) == \/ ttl = 0 /\ SetForever(k)
               \/ ttl > 0 /\ SetExpiring(k, ttl)

\* The key goes, with its item if it has one.
Erase(k) ==
    /\ store' = [store EXCEPT ![k] = NoEntry]
    /\ IF k \in index
       THEN /\ expiryHeap' = Remove(expiryHeap, expiryHeap.pos[k])
            /\ index' = index \ {k}
            /\ wakeup' = TRUE
       ELSE UNCHANGED <<expiryHeap, index, wakeup>>

Delete(k) ==
    /\ ~shutdown
    /\ store[k].exists
    /\ Erase(k)
    /\ UNCHANGED <<now, shutdown, cleaner, reader>>

-----------------------------------------------------------------------------
(* Get and Exists, which differ only in what they return *)

\* entry.Expires && entry.ExpiresAt.Before(time.Now())
Expired(entry) == entry.expires /\ entry.at < now

\* The section under the read lock, which finds the key in a running store.
Read(r, k) ==
    /\ reader[r].pc = "idle"
    /\ ~shutdown
    /\ store[k].exists
    /\ reader' = [reader EXCEPT ![r] = [pc |-> "look", key |-> k,
                                        entry |-> store[k]]]
    /\ UNCHANGED <<now, store, index, expiryHeap, wakeup, shutdown, cleaner>>

Get(r, k) == Read(r, k)
Exists(r, k) == Read(r, k)

\* Without the lock: the copy has not expired and is the answer.
ReadAnswer(r) ==
    /\ reader[r].pc = "look"
    /\ ~Expired(reader[r].entry)
    /\ reader' = [reader EXCEPT ![r] = [pc |-> "idle"]]
    /\ UNCHANGED <<now, store, index, expiryHeap, wakeup, shutdown, cleaner>>

\* It has expired: the write lock is asked for.
ReadExpired(r) ==
    /\ reader[r].pc = "look"
    /\ Expired(reader[r].entry)
    /\ reader' = [reader EXCEPT ![r].pc = "erase"]
    /\ UNCHANGED <<now, store, index, expiryHeap, wakeup, shutdown, cleaner>>

\* Mutant of ReadErase: the entry that was copied before is trusted.
ReadEraseStale(r) ==
    /\ reader[r].pc = "erase"
    /\ IF ~shutdown /\ store[reader[r].key].exists
       THEN Erase(reader[r].key)
       ELSE UNCHANGED <<store, index, expiryHeap, wakeup>>
    /\ reader' = [reader EXCEPT ![r] = [pc |-> "idle"]]
    /\ UNCHANGED <<now, shutdown, cleaner>>

\* The section under the write lock reads the entry again.
ReadErase(r) ==
    LET k == reader[r].key
    IN /\ reader[r].pc = "erase"
       /\ IF ~shutdown /\ store[k].exists /\ Expired(store[k])
          THEN Erase(k)
          ELSE UNCHANGED <<store, index, expiryHeap, wakeup>>
       /\ reader' = [reader EXCEPT ![r] = [pc |-> "idle"]]
       /\ UNCHANGED <<now, shutdown, cleaner>>

-----------------------------------------------------------------------------
(* autoCleanup *)

CleanerVars == <<now, shutdown, reader>>

CleanerPeek ==
    /\ cleaner.pc = "peek"
    /\ cleaner' = IF expiryHeap.store = << >>
                  THEN [cleaner EXCEPT !.pc = "empty"]
                  ELSE [pc |-> "until",
                        expiresAt |-> expiryHeap.at[Head(expiryHeap.store)]]
    /\ UNCHANGED <<CleanerVars, store, index, expiryHeap, wakeup>>

\* wait := time.Until(expiresAt), with the lock released.
CleanerUntil ==
    /\ cleaner.pc = "until"
    /\ cleaner' = IF cleaner.expiresAt <= now THEN [pc |-> "pop", expiresAt |-> 0]
                  ELSE [cleaner EXCEPT !.pc = "timer"]
    /\ UNCHANGED <<CleanerVars, store, index, expiryHeap, wakeup>>

\* Mutant of CleanerPop: an item is due only after its time.
CleanerPopLater ==
    LET k == Head(expiryHeap.store)
    IN /\ cleaner.pc = "pop"
       /\ IF expiryHeap.store # << >> /\ expiryHeap.at[k] < now
          THEN /\ store' = [store EXCEPT ![k] = NoEntry]
               /\ index' = index \ {k}
               /\ expiryHeap' = Pop(expiryHeap)
          ELSE UNCHANGED <<store, index, expiryHeap>>
       /\ cleaner' = [pc |-> "peek", expiresAt |-> 0]
       /\ UNCHANGED <<CleanerVars, wakeup>>

\* The earliest item is looked at again under the lock; it goes if it is due.
CleanerPop ==
    LET k == Head(expiryHeap.store)
    IN /\ cleaner.pc = "pop"
       /\ IF expiryHeap.store # << >> /\ expiryHeap.at[k] <= now
          THEN /\ store' = [store EXCEPT ![k] = NoEntry]
               /\ index' = index \ {k}
               /\ expiryHeap' = Pop(expiryHeap)
          ELSE UNCHANGED <<store, index, expiryHeap>>
       /\ cleaner' = [pc |-> "peek", expiresAt |-> 0]
       /\ UNCHANGED <<CleanerVars, wakeup>>

CleanerTimer ==
    /\ cleaner.pc = "timer"
    /\ cleaner.expiresAt <= now
    /\ cleaner' = [pc |-> "peek", expiresAt |-> 0]
    /\ UNCHANGED <<CleanerVars, store, index, expiryHeap, wakeup>>

CleanerWakeup ==
    /\ cleaner.pc \in {"empty", "timer"}
    /\ wakeup
    /\ wakeup' = FALSE
    /\ cleaner' = [pc |-> "peek", expiresAt |-> 0]
    /\ UNCHANGED <<CleanerVars, store, index, expiryHeap>>

\* Mutant of CleanerDone: kv.done ends the wait for a first item only.
CleanerDoneEmpty ==
    /\ cleaner.pc = "empty"
    /\ shutdown
    /\ cleaner' = [pc |-> "stopped", expiresAt |-> 0]
    /\ UNCHANGED <<CleanerVars, store, index, expiryHeap, wakeup>>

\* kv.done is closed.
CleanerDone ==
    /\ cleaner.pc \in {"empty", "timer"}
    /\ shutdown
    /\ cleaner' = [pc |-> "stopped", expiresAt |-> 0]
    /\ UNCHANGED <<CleanerVars, store, index, expiryHeap, wakeup>>

-----------------------------------------------------------------------------
Shutdown ==
    /\ ~shutdown
    /\ shutdown' = TRUE
    /\ UNCHANGED <<now, store, index, expiryHeap, wakeup, cleaner, reader>>

Tick ==
    /\ now < MaxTime
    /\ now' = now + 1
    /\ UNCHANGED <<store, index, expiryHeap, wakeup, shutdown, cleaner, reader>>

ReaderStep(r) == ReadAnswer(r) \/ ReadExpired(r) \/ ReadErase(r)
CleanerStep == \/ CleanerPeek \/ CleanerUntil \/ CleanerPop \/ CleanerTimer
               \/ CleanerWakeup \/ CleanerDone

Next == \/ \E k \in Keys, ttl \in TTLs : Set(k, ttl)
        \/ \E k \in Keys : Delete(k)
        \/ \E r \in Readers, k \in Keys : Get(r, k) \/ Exists(r, k)
        \/ \E r \in Readers : ReaderStep(r)
        \/ CleanerStep
        \/ Shutdown
        \/ Tick

\* The cleaner is scheduled; nobody has to call anything and the clock may stop.
Fairness == WF_vars(CleanerStep)

Spec == Init /\ [][Next]_vars /\ Fairness

-----------------------------------------------------------------------------
(* Properties *)

\* Types.
TypeOK ==
    /\ now \in 0..MaxTime
    /\ store \in [Keys -> Entries]
    /\ index \subseteq Keys
    /\ expiryHeap \in Heap
    /\ wakeup \in BOOLEAN /\ shutdown \in BOOLEAN
    /\ cleaner \in [pc : {"peek", "empty", "until", "pop", "timer", "stopped"},
                   expiresAt : Nat]
    /\ reader \in [Readers -> [pc : {"idle"}]
                    \cup [pc : {"look", "erase"}, key : Keys, entry : Entries]]

\* The map, the index and the heap tell the same story, after any sequence of
\* overwrites with and without a TTL, deletions and expirations: exactly the
\* expiring entries have an item, with their time, where its Position says, and
\* the first item is the earliest.  Otherwise Set would dereference a nil item or
\* remove another key's, or the cleaner sleep past an expiration.
IndexAgrees ==
    /\ Len(expiryHeap.store) = Cardinality(index)
    /\ \A k \in Keys :
          /\ k \in index <=> store[k].exists /\ store[k].expires
          /\ k \in index => /\ expiryHeap.pos[k] \in DOMAIN expiryHeap.store
                            /\ expiryHeap.store[expiryHeap.pos[k]] = k
                            /\ expiryHeap.at[k] = store[k].at
                            /\ expiryHeap.at[Head(expiryHeap.store)] <= store[k].at

\* No wakeup is lost: a sleeping cleaner that has no token to find sleeps no
\* longer than to the first expiration.
SleepsNoLonger ==
    ~wakeup =>
        /\ cleaner.pc = "empty" => expiryHeap.store = << >>
        /\ cleaner.pc = "timer" /\ expiryHeap.store # << >> =>
              cleaner.expiresAt <= expiryHeap.at[Head(expiryHeap.store)]

Due(k) == store[k].exists /\ store[k].expires /\ store[k].at <= now

\* "An old expiration event must never delete a newer value of the same key":
\* what disappears was due at that moment, or was deleted by its user.
OnlyDueRemoved ==
    [][\A k \in Keys : store[k].exists /\ ~store'[k].exists => Due(k) \/ Delete(k)]_vars

\* An expired entry that nobody asks for is removed while the store runs.
DueCollected == \A k \in Keys : Due(k) ~> ~Due(k) \/ shutdown

\* Shutdown ends the goroutine of the cleaner, also when it waits for a timer.
CleanerStops == shutdown ~> cleaner.pc = "stopped"
=============================================================================
