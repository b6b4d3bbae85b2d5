------------------------------- MODULE Bitmap -------------------------------
(***************************************************************************)
(* The operations of BitmapSkeleton (kernel/src/util/bitmap.hh), as        *)
(* relations between a bitmap before the call and the call's result.       *)
(*                                                                         *)
(* A bitmap of sz bits is the set of the indices whose bit is 1.  The      *)
(* searches are written as predicates with a result parameter r, so that a *)
(* caller says  \E r : find_and_set_multiple(..., r) /\ bits' = ...  The   *)
(* loops that compute them are in BitmapScan, which is proved to implement *)
(* these relations.                                                        *)
(***************************************************************************)
EXTENDS Integers

\* The value -1ull that the searches return when there is no room.
NotFound == -1

Lesser(a, b) == IF a < b THEN a ELSE b

\* align(x, a) and align_down(x, a) of util/bits/arithmetic.hh.
AlignUp(x, a) == ((x + (a - 1)) \div a) * a
AlignDown(x, a) == (x \div a) * a

\* init() keeps only whole 64-bit words: the bits of a last, partial word are
\* out of bounds for set() and get().
InitSize(units, wordBits) == AlignDown(units, wordBits)

\* The starts of the runs of n clear bits that lie inside [start, end).
FreeRuns(bits, start, end, n) ==
    {c \in start..(end - n) : \A k \in c..(c + n - 1) : k \notin bits}

\* allocate_range: the first run of n clear bits of [start, min(end, sz)).
allocate_range(bits, sz, start, end, n, r) ==
    LET runs == FreeRuns(bits, start, Lesser(end, sz), n)
    IN  \/ runs = {} /\ r = NotFound
        \/ r \in runs /\ \A c \in runs : r <= c

\* find_and_set_multiple: the part from start_at on is searched first, then the
\* part before it.  A run that straddles start_at lies in neither.
find_and_set_multiple(bits, sz, n, start_at, r) ==
    \/ r # NotFound /\ allocate_range(bits, sz, start_at, sz, n, r)
    \/ /\ allocate_range(bits, sz, start_at, sz, n, NotFound)
       /\ allocate_range(bits, sz, 0, start_at, n, r)

\* find_and_set: the argument is not passed on.
find_and_set(bits, sz, start_at, r) ==
    find_and_set_multiple(bits, sz, 1, 0, r)

\* The bits after a successful search.
SetRange(bits, r, n) == bits \cup (r..(r + n - 1))
=============================================================================
