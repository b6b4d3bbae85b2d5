----------------------------- MODULE BitmapScan -----------------------------
(***************************************************************************)
(* The loops of BitmapSkeleton::find_and_set_multiple and allocate_range   *)
(* (kernel/src/util/bitmap.hh), one step per iteration.  A bitmap belongs  *)
(* to one caller at a time: the callers hold their own lock.               *)
(***************************************************************************)
EXTENDS Bitmap

CONSTANTS Sz,        \* number of bits (sz)
          MaxRun,    \* longest run a caller asks for
          MaxStart   \* largest start_at a caller passes; may exceed Sz

ASSUME SzAssumption == Sz \in Nat
ASSUME MaxRunAssumption == MaxRun \in Nat \ {0}
ASSUME MaxStartAssumption == MaxStart \in Nat

VARIABLES bits,      \* indices of the bits that are 1
          pc,        \* "idle", "scan", "mark" or "fatal"
          n,         \* run length asked for
          asked,     \* start_at as the caller gave it
          start_at,  \* start_at as find_and_set_multiple received it
          pass,      \* 1: [start_at, sz), 2: [0, start_at)
          i,         \* loop index of the scan
          current,   \* start of the run of clear bits being followed
          j,         \* loop index of the marking loop
          ret,       \* result of the last call
          orig       \* the bits when the call began (history)

scanvars == <<bits, pc, n, asked, start_at, pass, i, current, j, ret, orig>>

Start == IF pass = 1 THEN start_at ELSE 0
End == IF pass = 1 THEN Sz ELSE Lesser(start_at, Sz)

ScanInit ==
    /\ bits \in SUBSET (0..(Sz - 1))
    /\ pc = "idle"
    /\ n = 1 /\ asked = 0 /\ start_at = 0 /\ pass = 1
    /\ i = 0 /\ current = 0 /\ j = 0
    /\ ret = NotFound
    /\ orig = bits

\* Entry of allocate_range: assert(n > 0) stops the kernel.
Enter(k, s, from) ==
    /\ pc = "idle"
    /\ pc' = IF k > 0 THEN "scan" ELSE "fatal"
    /\ n' = k /\ asked' = s /\ start_at' = from /\ pass' = 1
    /\ i' = from /\ current' = from
    /\ orig' = bits
    /\ UNCHANGED <<bits, j, ret>>

FindAndSetMultiple(k, s) == Enter(k, s, s)

FindAndSet(s) == Enter(1, s, 0)

\* A slip of the end of find_and_set_multiple.
MarkDoneReturnsEnd ==
    /\ pc = "mark" /\ ~(j <= i)
    /\ pc' = "idle" /\ ret' = i
    /\ UNCHANGED <<bits, n, asked, start_at, pass, i, current, j, orig>>

\* A clear bit: the run is complete or one longer.
ScanClear ==
    /\ pc = "scan" /\ i < End /\ i \notin bits
    /\ IF (i - current) + 1 = n
       THEN pc' = "mark" /\ j' = current /\ UNCHANGED i
       ELSE i' = i + 1 /\ UNCHANGED <<pc, j>>
    /\ UNCHANGED <<bits, n, asked, start_at, pass, current, ret, orig>>

\* A set bit: the run starts over behind it.
ScanSet ==
    /\ pc = "scan" /\ i < End /\ i \in bits
    /\ i' = i + 1 /\ current' = i + 1
    /\ UNCHANGED <<bits, pc, n, asked, start_at, pass, j, ret, orig>>

\* The range is exhausted: the first pass is followed by the second.
ScanEnd ==
    /\ pc = "scan" /\ ~(i < End)
    /\ IF pass = 1
       THEN /\ pass' = 2 /\ i' = 0 /\ current' = 0
            /\ UNCHANGED <<pc, ret>>
       ELSE /\ pc' = "idle" /\ ret' = NotFound
            /\ UNCHANGED <<pass, i, current>>
    /\ UNCHANGED <<bits, n, asked, start_at, j, orig>>

\* The marking loop sets bits current..i one by one and returns current.
MarkBit ==
    /\ pc = "mark" /\ j <= i
    /\ bits' = bits \cup {j} /\ j' = j + 1
    /\ UNCHANGED <<pc, n, asked, start_at, pass, i, current, ret, orig>>

MarkDone ==
    /\ pc = "mark" /\ ~(j <= i)
    /\ pc' = "idle" /\ ret' = current
    /\ UNCHANGED <<bits, n, asked, start_at, pass, i, current, j, orig>>

\* set(k, false) by the owner of the bit, between two searches.
Clear(k) ==
    /\ pc = "idle"
    /\ bits' = bits \ {k}
    /\ UNCHANGED <<pc, n, asked, start_at, pass, i, current, j, ret, orig>>

Step == ScanClear \/ ScanSet \/ ScanEnd \/ MarkBit \/ MarkDone

ScanNext ==
    \/ \E k \in 0..MaxRun, s \in 0..MaxStart : FindAndSetMultiple(k, s)
    \/ \E s \in 0..MaxStart : FindAndSet(s)
    \/ \E k \in 0..(Sz - 1) : Clear(k)
    \/ Step

\* The caller runs the loop to its end; nothing obliges it to call again.
ScanSpec == ScanInit /\ [][ScanNext]_scanvars /\ WF_scanvars(Step)

-----------------------------------------------------------------------------
(* Properties *)

\* The variables stay in their ranges.
ScanTypeOK ==
    /\ bits \subseteq 0..(Sz - 1) /\ orig \subseteq 0..(Sz - 1)
    /\ pc \in {"idle", "scan", "mark", "fatal"}
    /\ n \in 0..MaxRun /\ asked \in 0..MaxStart /\ start_at \in 0..MaxStart
    /\ pass \in {1, 2}
    /\ i \in Nat /\ current \in Nat /\ j \in Nat
    /\ ret \in NotFound..(Sz - 1)

\* The loop of allocate_range follows a run of clear bits shorter than n that
\* ends just before i, and no run of n clear bits starts before current; the
\* second pass begins only when the first found nothing.
ScanInv ==
    pc = "scan" =>
        /\ n > 0 /\ bits = orig
        /\ Start <= current /\ current <= i /\ i - current < n
        /\ i <= End \/ i = Start
        /\ \A k \in current..(i - 1) : k \notin bits
        /\ \A c \in Start..(current - 1) : \E k \in c..(c + n - 1) : k \in bits
        /\ pass = 2 => FreeRuns(orig, start_at, Sz, n) = {}

\* The marking loop sets exactly the bits of the run that was found, which was
\* clear when the call began and is the first one in its range.
MarkInv ==
    pc = "mark" =>
        /\ n > 0
        /\ Start <= current /\ i = current + n - 1 /\ i < End
        /\ current <= j /\ j <= i + 1
        /\ bits = orig \cup (current..(j - 1))
        /\ \A k \in current..i : k \notin orig
        /\ \A c \in Start..(current - 1) : \E k \in c..(c + n - 1) : k \in orig
        /\ pass = 2 => FreeRuns(orig, start_at, Sz, n) = {}

\* Every call of find_and_set_multiple that passes its assertion returns.
CallReturns == (pc = "scan") ~> (pc = "idle")

\* What the comment above find_and_set says: the search begins at start_at and
\* takes a bit before it only when there is none from start_at on.
StartAtFirst ==
    pc = "mark" /\ current < asked => FreeRuns(orig, asked, Sz, n) = {}

\* The two parts together: what the loops maintain.
LoopInv == ScanInv /\ MarkInv

\* Between calls the bitmap is what the caller sees; while the marking loop
\* runs, the search has not yet taken effect.
Atomic == INSTANCE BitmapAtomic
              WITH bits <- IF pc = "mark" THEN orig ELSE bits

\* The loops implement a search that takes the first fitting run in one step.
ImplementsAtomic == Atomic!Spec
=============================================================================
