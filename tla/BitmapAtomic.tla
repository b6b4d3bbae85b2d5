---------------------------- MODULE BitmapAtomic ----------------------------
(***************************************************************************)
(* What a bitmap promises its caller: a search takes the first fitting run *)
(* in one step, or reports that there is none.                             *)
(***************************************************************************)
EXTENDS Bitmap

CONSTANTS Sz,       \* number of bits
          MaxRun,   \* longest run a caller asks for
          MaxStart  \* largest start_at a caller passes

VARIABLES bits,     \* indices of the bits that are 1
          ret       \* result of the last search

vars == <<bits, ret>>

Init == bits \in SUBSET (0..(Sz - 1)) /\ ret = NotFound

\* A search for n bits from start_at that succeeds, or fails.
Find(n, start_at) ==
    \E r \in NotFound..(Sz - 1) :
        /\ find_and_set_multiple(bits, Sz, n, start_at, r)
        /\ ret' = r
        /\ bits' = IF r = NotFound THEN bits ELSE SetRange(bits, r, n)

\* set(k, false) by the owner of the bit.
Clear(k) == bits' = bits \ {k} /\ UNCHANGED ret

Next ==
    \/ \E n \in 1..MaxRun, start_at \in 0..MaxStart : Find(n, start_at)
    \/ \E k \in 0..(Sz - 1) : Clear(k)

Spec == Init /\ [][Next]_vars
=============================================================================
