-------------------------------- MODULE Heap --------------------------------
(***************************************************************************)
(* What the kernel heap (MemoryMgr, kernel/src/util/mm.cc) promises: each  *)
(* operation acts in one step on a partition of the heap into blocks.      *)
(* MemoryMgr, which works on a linked list in several steps, implements    *)
(* this specification.                                                     *)
(*                                                                         *)
(* Addresses and lengths are in units of VMM_MIN_ALLOC, relative to        *)
(* heap_base.                                                              *)
(***************************************************************************)
EXTENDS Bitmap, FiniteSetsExt

CONSTANTS H,        \* length of the heap
          RZ,       \* VMM_REDZONE_SIZE
          Sizes,    \* sizes callers ask for, without the red zones
          Aligns,   \* alignments callers ask for
          MaxLost   \* bound on lost

ASSUME HAssumption == H \in Nat \ {0}
ASSUME RZAssumption == RZ \in Nat
ASSUME SizesAssumption == Sizes \subseteq Nat \ {0}
ASSUME AlignsAssumption == Aligns \subseteq Nat \ {0}
ASSUME MaxLostAssumption == MaxLost \in Nat

VARIABLES len,      \* length of the block that starts at an address, 0 if none
          free,     \* starts of the free blocks
          usedmem, freemem,
          lost,     \* what alloc_aligned counted as used without a block
          halted    \* the kernel stopped

vars == <<len, free, usedmem, freemem, lost, halted>>

Addr == 0..(H - 1)
Starts == {a \in Addr : len[a] > 0}
Used == Starts \ free
Full(n) == n + 2 * RZ

Init ==
    /\ len = [a \in Addr |-> IF a = 0 THEN H ELSE 0]
    /\ free = {0}
    /\ usedmem = 0 /\ freemem = H /\ lost = 0
    /\ halted = FALSE

\* The block at b becomes a used one of length n, from a on; what is left of b
\* before and after it stays free.
Carve(b, a, n) ==
    LET rest == len[b] - (a - b) - n
    IN  /\ len' = [x \in Addr |->
                      CASE x = a -> n
                        [] x = b /\ x # a -> a - b
                        [] x = a + n /\ rest > 0 -> rest
                        [] OTHER -> len[x]]
        /\ free' = (free \ {b}) \cup (IF a # b THEN {b} ELSE {})
                                \cup (IF rest > 0 THEN {a + n} ELSE {})

ChargeDataOnly(n) == usedmem' = usedmem + n - 2 * RZ /\ freemem' = freemem - n + 2 * RZ
Charge(n) == usedmem' = usedmem + n /\ freemem' = freemem - n

\* The kernel stops: the links run out, or a check fails.
Halt == halted' = TRUE /\ UNCHANGED <<len, free, usedmem, freemem, lost>>

\* First fit.
FirstFit(b, n) ==
    /\ b \in free /\ len[b] >= n
    /\ \A c \in free : c < b => len[c] < n

Alloc(n) ==
    \E b \in Addr : FirstFit(b, n) /\ Carve(b, b, n) /\ Charge(n) /\ UNCHANGED <<lost, halted>>

\* No block fits: alloc_nomutex goes on with a null link.
AllocFails(n) ==
    /\ \A b \in free : len[b] < n
    /\ Halt

\* First fit with the data, behind the red zone, on a multiple of al.
Fix(b, al) == AlignUp(b + RZ, al) - (b + RZ)
FitsAligned(b, n, al) == b \in free /\ len[b] >= n + Fix(b, al)
FirstFitAligned(b, n, al) ==
    FitsAligned(b, n, al) /\ \A c \in free : c < b => ~FitsAligned(c, n, al)

AllocAligned(n, al) ==
    \E b \in Addr :
        /\ FirstFitAligned(b, n, al)
        /\ Carve(b, b + Fix(b, al), n) /\ Charge(n) /\ UNCHANGED <<lost, halted>>

\* No block fits: the walk ends behind the heap, and the address there is
\* returned as if it were a block.
AllocAlignedFails(n, al) ==
    /\ \A b \in free : ~FitsAligned(b, n, al)
    /\ lost + n <= MaxLost
    /\ Charge(n) /\ lost' = lost + n
    /\ UNCHANGED <<len, free, halted>>

\* try_realloc takes what it needs from a free block behind.
Grow(a, n) ==
    LET next == a + len[a]
        need == n - len[a]
    IN  /\ a \in Used /\ need > 0
        /\ next \in free /\ len[next] >= need
        /\ len' = [x \in Addr |->
                      CASE x = a -> n
                        [] x = a + n /\ len[next] > need -> len[next] - need
                        [] x = next -> 0
                        [] OTHER -> len[x]]
        /\ free' = (free \ {next}) \cup (IF len[next] > need THEN {a + n} ELSE {})
        /\ Charge(need) /\ UNCHANGED <<lost, halted>>

NoneBefore(a) == {}
Before(a) == {p \in free : p + len[p] = a}

\* free, and the merge with the free neighbours.
Release(a) ==
    LET next == a + len[a]
        withNext == IF next \in free THEN len[a] + len[next] ELSE len[a]
        prev == Before(a)
    IN  /\ a \in Used
        /\ len' = [x \in Addr |->
                      CASE x \in prev -> len[x] + withNext
                        [] x = a /\ prev = {} -> withNext
                        [] x = a /\ prev # {} -> 0
                        [] x = next /\ next \in free -> 0
                        [] OTHER -> len[x]]
        /\ free' = (free \ {next}) \cup (IF prev = {} THEN {a} ELSE {})
        /\ usedmem' = usedmem - len[a] /\ freemem' = freemem + len[a]
        /\ UNCHANGED <<lost, halted>>

Next ==
    /\ ~halted
    /\ \/ \E n \in Sizes : Alloc(Full(n)) \/ AllocFails(Full(n))
       \/ \E n \in Sizes, al \in Aligns :
              AllocAligned(Full(n), al) \/ AllocAlignedFails(Full(n), al)
       \/ \E a \in Addr, n \in Sizes : Grow(a, Full(n))
       \/ \E a \in Addr : Release(a)
       \/ Halt

Spec == Init /\ [][Next]_vars

-----------------------------------------------------------------------------
(* Properties *)

\* The variables have their types.
TypeOK ==
    /\ len \in [Addr -> 0..H] /\ free \subseteq Starts
    /\ usedmem \in Int /\ freemem \in Int
    /\ lost \in 0..MaxLost /\ halted \in BOOLEAN

\* The blocks partition the heap: the first starts at heap_base, each ends where
\* the next one starts or at the end of the heap, and none starts inside another.
Partition ==
    /\ 0 \in Starts
    /\ \A a \in Starts :
           /\ a + len[a] = H \/ a + len[a] \in Starts
           /\ \A b \in Starts : b <= a \/ a + len[a] <= b

\* merge leaves no two free blocks side by side, whatever the order of the frees.
Coalesced == \A a \in free : a + len[a] \notin free

\* A used block always has room for both red zones and one unit of data: check()
\* stops the kernel on a smaller one.
RoomForRedZones == \A a \in Used : len[a] > 2 * RZ

\* The two counters of the heap always add up to its length.
CountersBalance == usedmem + freemem = H

\* usedmem is the sum of the lengths of the used blocks, plus what alloc_aligned
\* counted when it had no block to give.
UsedIsExact == usedmem = SumFunctionOnSet(len, Used) + lost

\* Once everything is freed the heap is one block again: no sequence of calls
\* fragments it for good.
FreedIsWhole == Used = {} => len[0] = H

\* The heap after any sequence of calls: blocks that cover it, free ones
\* merged, used ones with room for their red zones, and counters that add up.
HeapSound ==
    /\ TypeOK /\ Partition /\ Coalesced
    /\ RoomForRedZones /\ CountersBalance /\ FreedIsWhole
=============================================================================
