------------------------------- MODULE Memory -------------------------------
(***************************************************************************)
(* The kernel's allocator (memory.c): a few pools of equal blocks cut from *)
(* one area, each with a list of free blocks threaded through the blocks'  *)
(* headers.  Addresses count bytes from _freearea.                         *)
(***************************************************************************)
EXTENDS Links, SequencesExt

CONSTANTS
    Pools,      \* the table pool[]: a sequence of [size, num]
    Requests    \* the sizes asked for

HEADER == 8     \* sizeof(mem_block)

Index == DOMAIN Pools

ASSUME PoolAssumption ==
    /\ Pools \in Seq([size : Nat, num : Nat])
    /\ \A i \in Index : Pools[i].size > HEADER /\ Pools[i].num > 0
    /\ \A i, j \in Index : i < j => Pools[i].size < Pools[j].size
    /\ Requests \subseteq Int
    /\ NULL \notin Int

VARIABLES
    heap,       \* the blocks, a record of
                \*   header: address -> [next, size], the mem_block at that address
                \*   first:  pool[i].free
                \*   given:  the blocks handed out: address -> the size asked for
    down        \* "no", or which call of picox_sysdown was reached: the pool
                \* is empty, or no pool's blocks are large enough

(* Definitions named <function>_<fault> are wrong versions of a function,  *)
(* kept to show which property notices the fault.                          *)
area_overlaps(i) ==
    IF i = 1 THEN 0 ELSE Pools[i - 1].size * Pools[i - 1].num

(* The static pointer area when pool i is initialised: past every pool     *)
(* before it.                                                              *)
area(i) ==
    LET end[n \in 0 .. Len(Pools)] ==
            IF n = 0 THEN 0 ELSE end[n - 1] + Pools[n].size * Pools[n].num
    IN  end[i - 1]

block(i, k) == area(i) + (k - 1) * Pools[i].size

Blocks(i) == {block(i, k) : k \in 1 .. Pools[i].num}

AllBlocks == UNION {Blocks(i) : i \in Index}

(* picoxmem_init_pool: the k-th block points to the next, the last nowhere. *)
picoxmem_init ==
    [header |-> [a \in AllBlocks |->
         LET i == CHOOSE i \in Index : a \in Blocks(i) IN
         [next |-> IF a = block(i, Pools[i].num) THEN NULL ELSE a + Pools[i].size,
          size |-> Pools[i].size]],
     first |-> [i \in Index |-> block(i, 1)],
     given |-> <<>>]

(* size <= p->size - sizeof(mem_block) compares as unsigned: a negative    *)
(* size fits nowhere.                                                      *)
fits(size, i) == 0 <= size /\ size <= Pools[i].size - HEADER

best_from_above(size) ==
    CHOOSE i \in Index : fits(size, i) /\ \A j \in Index : fits(size, j) => i >= j

best(size) ==
    CHOOSE i \in Index : fits(size, i) /\ \A j \in Index : fits(size, j) => i <= j

available(h, size) == \E i \in Index : fits(size, i) /\ i = best(size) /\ h.first[i] # NULL

(* Only the smallest pool that fits is tried: when it is empty the system  *)
(* goes down, however many larger blocks are free.                         *)
sysdown(size) ==
    /\ ~available(heap, size)
    /\ down' = IF \E i \in Index : fits(size, i) THEN "empty pool" ELSE "no pool"

allocated(h, size) == h.first[best(size)]

picoxmem_alloc(h, size) ==
    LET i == best(size)  a == h.first[i] IN
    [h EXCEPT !.first[i] = h.header[a].next,
              !.header[a].next = NULL,
              !.given = [c \in DOMAIN @ \cup {a} |-> IF c = a THEN size ELSE @[c]]]

picoxmem_free_unlinked(h, a) ==
    LET i == CHOOSE i \in Index : h.header[a].size = Pools[i].size IN
    [h EXCEPT !.first[i] = a,
              !.given = Restrict(@, DOMAIN @ \ {a})]

(* The header of a block says which pool it goes back to.                  *)
picoxmem_free(h, a) ==
    LET i == CHOOSE i \in Index : h.header[a].size = Pools[i].size IN
    [h EXCEPT !.header[a].next = h.first[i],
              !.first[i] = a,
              !.given = Restrict(@, DOMAIN @ \ {a})]
-----------------------------------------------------------------------------
FreeList(i) ==
    Chain(heap.first[i], [a \in AllBlocks |-> heap.header[a].next], Pools[i].num)

(* Every block of a pool is either handed out or on that pool's free list, *)
(* once; the list has no cycle and no block of another pool.  So two       *)
(* allocations never return the same block and none is ever lost.          *)
FreeOrGiven ==
    \A i \in Index :
        /\ IsInjective(FreeList(i))
        /\ ToSet(FreeList(i)) = Blocks(i) \ DOMAIN heap.given

(* What two callers hold never overlaps, headers included, and each got at *)
(* least the bytes it asked for.                                           *)
Apart ==
    \A a \in DOMAIN heap.given :
        /\ heap.given[a] <= heap.header[a].size - HEADER
        /\ \A c \in DOMAIN heap.given : a < c => a + HEADER + heap.given[a] <= c
=============================================================================
