------------------------------ MODULE MemoryLRU ------------------------------
(***************************************************************************)
(* The process-wide memory cache (MemoryLRU of data_cache.py): an ordered  *)
(* dictionary with a byte count beside it, a limit, and a look at the      *)
(* machine's available memory that may come out differently every time.    *)
(*                                                                         *)
(* A lock keeps one put apart from the next; the steps of its eviction loop*)
(* are kept, because the memory is looked at again in each of them.        *)
(***************************************************************************)
EXTENDS Integers, Sequences

CONSTANTS
    MemoryKeys, \* keys of snapshots and features
    Sizes,      \* what values may weigh
    LimitBytes, \* limit_bytes
    NoPut       \* no put is running

ASSUME MemoryConstants ==
    /\ Sizes \subseteq Nat
    /\ LimitBytes \in Nat
    /\ NoPut \notin [key : MemoryKeys, size : Sizes, previous : Sizes, had : BOOLEAN]

VARIABLES
    items, \* _items, the least recently used first: Seq of [key, size]
    bytes, \* _bytes
    put    \* the put under way: its key, its size and the value it took out

memoryVars == <<items, bytes, put>>

Item(k, n) == [key |-> k, size |-> n]
Holds(k) == \E i \in DOMAIN items : items[i].key = k
Place(k) == CHOOSE i \in DOMAIN items : items[i].key = k
ItemOf(k) == items[Place(k)]

\* pop(key): the other values keep their order.
Without(k) ==
    IF Holds(k) THEN SubSeq(items, 1, Place(k) - 1) \o SubSeq(items, Place(k) + 1, Len(items))
    ELSE items

MemoryInit ==
    /\ items = <<>>
    /\ bytes = 0
    /\ put = NoPut

\* get: low memory empties the cache, else the value becomes the most recent.
GetLow ==
    /\ put = NoPut
    /\ items' = <<>>
    /\ bytes' = 0
    /\ UNCHANGED put

Get(k) ==
    /\ put = NoPut
    /\ Holds(k)
    /\ items' = Append(Without(k), ItemOf(k))
    /\ UNCHANGED <<bytes, put>>

\* The value that is replaced leaves the count.
TakeOut(n) == bytes - n

\* put: a value above the limit is refused before the lock; else an earlier value
\* of the key is taken out first.
BeginPut(k, n) ==
    /\ put = NoPut
    /\ 0 < LimitBytes /\ n <= LimitBytes
    /\ bytes' = IF Holds(k) THEN TakeOut(ItemOf(k).size) ELSE bytes
    /\ put' = [key |-> k, size |-> n, had |-> Holds(k),
               previous |-> IF Holds(k) THEN ItemOf(k).size ELSE n]
    /\ items' = Without(k)

\* Mutant: the incoming value is not counted.
FitsBefore == bytes <= LimitBytes

Fits == bytes + put.size <= LimitBytes

\* _evict_for: while the value does not fit, or memory is low at this look, the
\* oldest goes.
Evict(low) ==
    /\ put # NoPut
    /\ items # <<>>
    /\ Fits => low
    /\ items' = Tail(items)
    /\ bytes' = bytes - Head(items).size
    /\ UNCHANGED put

\* The loop is over: nothing is left, or the value fits.
Evicted == put # NoPut /\ (items = <<>> \/ Fits)

Store ==
    /\ Evicted
    /\ Fits
    /\ items' = Append(items, Item(put.key, put.size))
    /\ bytes' = bytes + put.size
    /\ put' = NoPut

\* Memory was low at the check after the loop; if there was an earlier value and
\* memory is not low at the next look, it is put back.
Refuse(low) ==
    /\ Evicted
    /\ IF put.had /\ ~low
       THEN /\ items' = Append(items, Item(put.key, put.previous))
            /\ bytes' = bytes + put.previous
       ELSE UNCHANGED <<items, bytes>>
    /\ put' = NoPut

MemoryNext ==
    \/ GetLow
    \/ \E k \in MemoryKeys : Get(k)
    \/ \E k \in MemoryKeys, n \in Sizes : BeginPut(k, n)
    \/ \E low \in BOOLEAN : Evict(low) \/ Refuse(low)
    \/ Store

MemorySpec == MemoryInit /\ [][MemoryNext]_memoryVars

-----------------------------------------------------------------------------
MemoryTypeOK ==
    /\ items \in Seq([key : MemoryKeys, size : Sizes])
    /\ bytes \in Int
    /\ put \in [key : MemoryKeys, size : Sizes, previous : Sizes, had : BOOLEAN] \cup {NoPut}

Weight[n \in Nat] == IF n = 0 THEN 0 ELSE Weight[n - 1] + items[n].size

\* A key is held once, and the count is what the values weigh: taking a value out,
\* evicting, storing and putting back never lose or keep a byte.
BytesAreExact ==
    /\ \A i, j \in DOMAIN items : items[i].key = items[j].key => i = j
    /\ bytes = Weight[Len(items)]

\* The cache never exceeds its limit, also when a put that fails puts the earlier,
\* perhaps larger, value back after the eviction loop.
WithinLimit == bytes <= LimitBytes
=============================================================================
