----------------------------- MODULE Containers -----------------------------
(***************************************************************************)
(* The containers of kernel/src/util that the drivers keep their state in: *)
(* Vector (storage.hh), HeapBitmap (heapbitmap.hh) and Arena (arena.hh).   *)
(*                                                                         *)
(* A container is a record and an operation maps the record before the     *)
(* call to the record after it.  A Vector is                               *)
(*                                                                         *)
(*   data      its block, a function from 0..(capacity - 1); a cell that   *)
(*             holds no constructed element is Junk                        *)
(*   size      the number of elements                                      *)
(*   capacity  the number of cells                                         *)
(*   block     which heap block data points to, counted up at every move:  *)
(*             a pointer taken into an earlier block dangles               *)
(*                                                                         *)
(* Whether the heap can grow a block in place (_gtryrealloc) depends on    *)
(* the rest of the heap, so it is the parameter inplace.                   *)
(***************************************************************************)
EXTENDS Bitmap, FiniteSets

CONSTANTS Junk,      \* the value of a cell nothing was constructed in
          Word       \* bits of a word of a HeapBitmap (64)

growfun(cap) == IF cap = 0 THEN 8 ELSE 2 * cap

Vector(cap) == [data |-> [i \in 0..(cap - 1) |-> Junk],
                size |-> 0, capacity |-> cap, block |-> 0]

\* reserve: the first allocation moves nothing, growing in place keeps every
\* cell, and a move takes only the elements counted by size to the new block.
reserve(v, cap, inplace) ==
    LET c == IF cap < v.size THEN v.size ELSE cap
        first == v.capacity = 0 /\ c # 0
        kept(i) == IF inplace /\ ~first THEN i < v.capacity ELSE i < v.size
    IN  [v EXCEPT !.data = [i \in 0..(c - 1) |-> IF kept(i) THEN v.data[i] ELSE Junk],
                  !.capacity = c,
                  !.block = IF inplace THEN @ ELSE @ + 1]

\* push_back and emplace_back.
Vector_push_back(v, x, inplace) ==
    LET r == IF v.size >= v.capacity THEN reserve(v, growfun(v.capacity), inplace) ELSE v
    IN  [r EXCEPT !.data[r.size] = x, !.size = @ + 1]

(***************************************************************************)
(* HeapBitmap: bits is the set of the set bits, sz the number of bits,     *)
(* words the size of the Vector<u64> behind them.  The constructor leaves  *)
(* that Vector empty and init rounds sz down to whole words.               *)
(***************************************************************************)
HeapBitmap(elems) == [bits |-> {}, sz |-> InitSize(elems, Word), words |-> 0]

\* Mutant of HeapBitmap_resize: every word is cleared.
HeapBitmap_resize_Clear(b, newsize) ==
    [bits |-> {}, sz |-> newsize, words |-> AlignUp(newsize, Word) \div Word]

\* resize constructs, that is clears, the words the Vector did not count yet.
HeapBitmap_resize(b, newsize) ==
    [bits |-> {i \in b.bits : i < b.words * Word},
     sz |-> newsize,
     words |-> AlignUp(newsize, Word) \div Word]

(***************************************************************************)
(* Arena: data is used as raw cells, its size stays 0; free_slots has a 1  *)
(* for every slot in use.                                                  *)
(***************************************************************************)
Arena(cap) == [data |-> Vector(cap), free_slots |-> HeapBitmap(cap)]

Arena_resize(a, newsize, inplace) ==
    [data |-> reserve(a.data, newsize, inplace),
     free_slots |-> HeapBitmap_resize(a.free_slots, newsize)]

FirstFree(b) ==
    CHOOSE r \in 0..(b.sz - 1) : allocate_range(b.bits, b.sz, 0, b.sz, 1, r)

IsFull(a) == allocate_range(a.free_slots.bits, a.free_slots.sz, 0, a.free_slots.sz, 1, NotFound)

\* The arena in which push_back finds its slot.
Grown(a, inplace) ==
    IF IsFull(a) THEN Arena_resize(a, growfun(a.data.capacity), inplace) ELSE a

\* The handle push_back returns.
Arena_handle(a, inplace) == FirstFree(Grown(a, inplace).free_slots)

Arena_push_back(a, x, inplace) ==
    LET g == Grown(a, inplace)
        idx == FirstFree(g.free_slots)
    IN  [g EXCEPT !.data.data[idx] = x, !.free_slots.bits = @ \cup {idx}]

Arena_remove(a, handle) ==
    [a EXCEPT !.data.data[handle] = Junk, !.free_slots.bits = @ \ {handle}]

\* What a loop from begin() to end() visits.
Slots(a) == {i \in a.free_slots.bits : i < a.data.capacity}
=============================================================================
