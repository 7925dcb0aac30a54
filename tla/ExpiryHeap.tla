------------------------------ MODULE ExpiryHeap ------------------------------
(***************************************************************************)
(* The expiry heap of the key-value store (KeyValueStore/heap.go) under    *)
(* the operations of container/heap that the store uses.  A heap h has the *)
(* items in h.store, named by their keys, their Position fields in h.pos   *)
(* and their ExpiresAt fields in h.at.  Indices count from 1 here, so the  *)
(* children of i are 2i and 2i+1; a popped item, to which nothing refers   *)
(* any more, has zeroes.                                                   *)
(***************************************************************************)
EXTENDS Integers, Sequences

CONSTANT Keys

EmptyHeap == [store |-> << >>, pos |-> [k \in Keys |-> 0],
              at |-> [k \in Keys |-> 0]]

Less(h, i, j) == h.at[h.store[i]] < h.at[h.store[j]]

\* Mutant of Swap: the Position fields are not exchanged.
SwapStoreOnly(h, i, j) ==
    [h EXCEPT !.store = [@ EXCEPT ![i] = h.store[j], ![j] = h.store[i]]]

Swap(h, i, j) ==
    [h EXCEPT !.store = [@ EXCEPT ![i] = h.store[j], ![j] = h.store[i]],
              !.pos = [@ EXCEPT ![h.store[j]] = i, ![h.store[i]] = j]]

\* ExpiryHeap.Pop: the last item goes.
DropLast(h) ==
    LET n == Len(h.store)
    IN [h EXCEPT !.store = SubSeq(@, 1, n - 1), !.pos[h.store[n]] = 0,
                 !.at[h.store[n]] = 0]

-----------------------------------------------------------------------------
(* container/heap *)

Heap == [store : Seq(Keys), pos : [Keys -> Nat], at : [Keys -> Int]]

\* up: the item at i rises above its later parents.
up[x \in {y \in [h : Heap, i : Nat] : y.i \in DOMAIN y.h.store}] ==
    LET parent == x.i \div 2
    IN IF parent = 0 \/ ~Less(x.h, x.i, parent) THEN x.h
       ELSE up[[h |-> Swap(x.h, x.i, parent), i |-> parent]]

Up(h, i) == up[[h |-> h, i |-> i]]

\* down: the item at i sinks below its earlier children among the first n.
down[x \in {y \in [h : Heap, i : Nat, n : Nat] :
               y.i \in DOMAIN y.h.store /\ y.n <= Len(y.h.store)}] ==
    LET left == 2 * x.i
        child == IF left + 1 <= x.n /\ Less(x.h, left + 1, left)
                 THEN left + 1 ELSE left
    IN IF left > x.n \/ ~Less(x.h, child, x.i) THEN x.h
       ELSE down[[x EXCEPT !.h = Swap(x.h, x.i, child), !.i = child]]

Down(h, i, n) == down[[h |-> h, i |-> i, n |-> n]]

\* An item that does not sink rises.
DownOrUp(h, i, n) ==
    LET d == Down(h, i, n) IN IF d = h THEN Up(h, i) ELSE d

Push(h, k, expiresAt) ==
    LET n == Len(h.store) + 1
    IN Up([store |-> Append(h.store, k), pos |-> [h.pos EXCEPT ![k] = n],
           at |-> [h.at EXCEPT ![k] = expiresAt]], n)

\* The store changes ExpiresAt before it calls Fix.
Fix(h, k, expiresAt) ==
    DownOrUp([h EXCEPT !.at[k] = expiresAt], h.pos[k], Len(h.store))

Remove(h, i) ==
    LET n == Len(h.store)
    IN DropLast(IF i = n THEN h ELSE DownOrUp(Swap(h, i, n), i, n - 1))

Pop(h) ==
    LET n == Len(h.store)
    IN DropLast(Down(Swap(h, 1, n), 1, n - 1))
=============================================================================
