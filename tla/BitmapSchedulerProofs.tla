----------------------- MODULE BitmapSchedulerProofs ------------------------
(***************************************************************************)
(* Proofs about two components that have nothing to assume of the others.  *)
(*                                                                         *)
(* BitmapScan: the search loops of BitmapSkeleton compute, for bitmaps of  *)
(* every size, what BitmapAtomic promises.                                 *)
(*                                                                         *)
(* Scheduler: its safety properties, for every number of tasks, all        *)
(* operations, and a kernel that starts from sched_start or with tasks     *)
(* already launched.  The timer may interrupt the task after every label.  *)
(* The inductive invariant says, for every label the current task can be   *)
(* at, who has sched_m and whether the scheduler is on (LockInv,           *)
(* RunningInv): the windows in which the lock is held and the flag is      *)
(* still up, or the flag still down and the lock free again, are what      *)
(* makes NotPreempted less than obvious.                                   *)
(***************************************************************************)
EXTENDS BitmapScan, Scheduler, TLAPS

(* BitmapScan *)


LoopsInv == ScanTypeOK /\ LoopInv

\* No step of the loops leaves the ranges of the variables or breaks LoopInv.
LEMMA InitLoopsInv == ScanInit => LoopsInv
  BY SzAssumption, MaxRunAssumption, MaxStartAssumption
     DEF ScanInit, LoopsInv, ScanTypeOK, LoopInv, ScanInv, MarkInv, NotFound

LEMMA EnterIInv ==
  ASSUME LoopsInv, NEW k \in 0..MaxRun, NEW s \in 0..MaxStart, NEW from \in 0..MaxStart,
         Enter(k, s, from)
  PROVE  LoopsInv'
  <1> USE SzAssumption, MaxRunAssumption, MaxStartAssumption
  <1>1. ScanTypeOK'
    BY DEF Enter, LoopsInv, ScanTypeOK
  <1>2. ScanInv'
    BY DEF Enter, LoopsInv, ScanTypeOK, ScanInv, Start, End, Lesser
  <1>3. MarkInv'
    BY DEF Enter, MarkInv
  <1> QED BY <1>1, <1>2, <1>3 DEF LoopsInv, LoopInv

LEMMA ScanClearIInv == ASSUME LoopsInv, ScanClear PROVE LoopsInv'
  <1> USE SzAssumption, MaxRunAssumption, MaxStartAssumption
  <1>1. ScanTypeOK'
    BY DEF ScanClear, LoopsInv, ScanTypeOK
  <1>2. CASE (i - current) + 1 = n
    <2>1. ScanInv'
      BY <1>2 DEF ScanClear, ScanInv
    <2>2. MarkInv'
      BY <1>2 DEF ScanClear, LoopsInv, ScanTypeOK, LoopInv, ScanInv, MarkInv, Start, End, Lesser
    <2> QED BY <1>1, <2>1, <2>2 DEF LoopsInv, LoopInv
  <1>3. CASE (i - current) + 1 # n
    <2>1. ScanInv'
      BY <1>3 DEF ScanClear, LoopsInv, ScanTypeOK, LoopInv, ScanInv, Start, End, Lesser
    <2>2. MarkInv'
      BY <1>3 DEF ScanClear, LoopsInv, ScanTypeOK, MarkInv
    <2> QED BY <1>1, <2>1, <2>2 DEF LoopsInv, LoopInv
  <1> QED BY <1>2, <1>3

LEMMA ScanSetIInv == ASSUME LoopsInv, ScanSet PROVE LoopsInv'
  <1> USE SzAssumption, MaxRunAssumption, MaxStartAssumption
  <1>1. ScanTypeOK'
    BY DEF ScanSet, LoopsInv, ScanTypeOK
  <1>2. ScanInv'
    BY DEF ScanSet, LoopsInv, ScanTypeOK, LoopInv, ScanInv, Start, End, Lesser
  <1>3. MarkInv'
    BY DEF ScanSet, MarkInv
  <1> QED BY <1>1, <1>2, <1>3 DEF LoopsInv, LoopInv

\* When the scan of a range ends without a result, the range has no run of n
\* clear bits: one that starts before current meets a set bit, and one that
\* starts at current or later would have been completed.
LEMMA ExhaustedRange ==
  ASSUME LoopsInv, pc = "scan", ~(i < End)
  PROVE  FreeRuns(orig, Start, End, n) = {}
  <1> USE SzAssumption, MaxRunAssumption, MaxStartAssumption
  <1> SUFFICES ASSUME NEW c \in Start..(End - n),
                      \A k \in c..(c + n - 1) : k \notin orig
               PROVE  FALSE
    BY DEF FreeRuns
  <1>1. Start \in Nat /\ End \in Nat /\ n \in Nat /\ current \in Nat /\ i \in Nat
    BY DEF LoopsInv, ScanTypeOK, Start, End, Lesser
  <1>2. CASE c < current
    BY <1>1, <1>2 DEF LoopsInv, LoopInv, ScanInv
  <1>3. CASE c >= current
    BY <1>1, <1>3 DEF LoopsInv, LoopInv, ScanInv
  <1> QED BY <1>1, <1>2, <1>3

LEMMA ScanEndIInv == ASSUME LoopsInv, ScanEnd PROVE LoopsInv'
  <1> USE SzAssumption, MaxRunAssumption, MaxStartAssumption
  <1>1. ScanTypeOK'
    BY DEF ScanEnd, LoopsInv, ScanTypeOK, NotFound
  <1>2. ScanInv'
    <2>1. CASE pass = 1
      <3>1. FreeRuns(orig, start_at, Sz, n) = {}
        BY <2>1, ExhaustedRange DEF ScanEnd, Start, End
      <3> QED
        BY <2>1, <3>1 DEF ScanEnd, LoopsInv, ScanTypeOK, LoopInv, ScanInv, Start, End, Lesser, FreeRuns
    <2>2. CASE pass # 1
      BY <2>2 DEF ScanEnd, ScanInv
    <2> QED BY <2>1, <2>2
  <1>3. MarkInv'
    BY DEF ScanEnd, MarkInv
  <1> QED BY <1>1, <1>2, <1>3 DEF LoopsInv, LoopInv

LEMMA MarkBitIInv == ASSUME LoopsInv, MarkBit PROVE LoopsInv'
  <1> USE SzAssumption, MaxRunAssumption, MaxStartAssumption
  <1>1. ScanTypeOK'
    BY DEF MarkBit, LoopsInv, ScanTypeOK, LoopInv, MarkInv, Start, End, Lesser
  <1>2. ScanInv'
    BY DEF MarkBit, ScanInv
  <1>3. MarkInv'
    BY DEF MarkBit, LoopsInv, ScanTypeOK, LoopInv, MarkInv, Start, End, Lesser, FreeRuns
  <1> QED BY <1>1, <1>2, <1>3 DEF LoopsInv, LoopInv

LEMMA MarkDoneIInv == ASSUME LoopsInv, MarkDone PROVE LoopsInv'
  <1> USE SzAssumption, MaxRunAssumption, MaxStartAssumption
  <1>1. ScanTypeOK'
    BY DEF MarkDone, LoopsInv, ScanTypeOK, LoopInv, MarkInv, Start, End, Lesser, NotFound
  <1>2. ScanInv' /\ MarkInv'
    BY DEF MarkDone, ScanInv, MarkInv
  <1> QED BY <1>1, <1>2 DEF LoopsInv, LoopInv

LEMMA ClearIInv == ASSUME LoopsInv, NEW k \in 0..(Sz - 1), Clear(k) PROVE LoopsInv'
  BY DEF Clear, LoopsInv, ScanTypeOK, LoopInv, ScanInv, MarkInv

LEMMA NextLoopsInv == LoopsInv /\ [ScanNext]_scanvars => LoopsInv'
  <1> SUFFICES ASSUME LoopsInv, [ScanNext]_scanvars PROVE LoopsInv'
    OBVIOUS
  <1> USE SzAssumption, MaxRunAssumption, MaxStartAssumption
  <1>1. ASSUME NEW k \in 0..MaxRun, NEW s \in 0..MaxStart, FindAndSetMultiple(k, s)
        PROVE  LoopsInv'
    BY <1>1, EnterIInv DEF FindAndSetMultiple
  <1>2. ASSUME NEW s \in 0..MaxStart, FindAndSet(s)
        PROVE  LoopsInv'
    <2>1. 1 \in 0..MaxRun /\ 0 \in 0..MaxStart
      OBVIOUS
    <2> QED BY <1>2, <2>1, EnterIInv DEF FindAndSet
  <1>3. ASSUME NEW k \in 0..(Sz - 1), Clear(k)
        PROVE  LoopsInv'
    BY <1>3, ClearIInv
  <1>4. CASE Step
    BY <1>4, ScanClearIInv, ScanSetIInv, ScanEndIInv, MarkBitIInv, MarkDoneIInv DEF Step
  <1>5. CASE UNCHANGED scanvars
    BY <1>5 DEF scanvars, LoopsInv, ScanTypeOK, LoopInv, ScanInv, MarkInv, Start, End, Lesser
  <1> QED BY <1>1, <1>2, <1>3, <1>4, <1>5 DEF ScanNext

LEMMA SpecLoopsInv == ScanSpec => []LoopsInv
  <1>1. ScanInit => LoopsInv
    BY InitLoopsInv
  <1>2. LoopsInv /\ [ScanNext]_scanvars => LoopsInv'
    BY NextLoopsInv
  <1> QED BY <1>1, <1>2, PTL DEF ScanSpec

\* The variables of the search stay in their ranges; in particular the marking
\* loop never sets a bit beyond the bitmap.
THEOREM ScanTypeCorrect == ScanSpec => []ScanTypeOK
  <1>1. LoopsInv => ScanTypeOK
    BY DEF LoopsInv
  <1> QED BY <1>1, SpecLoopsInv, PTL

\* The scan and the marking loop keep their invariants for every bitmap size.
THEOREM LoopCorrect == ScanSpec => []LoopInv
  <1>1. LoopsInv => LoopInv
    BY DEF LoopsInv
  <1> QED BY <1>1, SpecLoopsInv, PTL

\* The run the marking loop has set is the one find_and_set_multiple promises.
LEMMA MarkedRunIsFirst ==
  ASSUME LoopsInv, pc = "mark"
  PROVE  find_and_set_multiple(orig, Sz, n, start_at, current)
  <1> USE SzAssumption, MaxRunAssumption, MaxStartAssumption
  <1>1. /\ current \in Nat /\ n \in Nat /\ start_at \in Nat /\ Sz \in Nat
        /\ Start \in Nat /\ End \in Nat
    BY DEF LoopsInv, ScanTypeOK, Start, End, Lesser
  <1>2. current \in FreeRuns(orig, Start, End, n)
    BY <1>1 DEF LoopsInv, LoopInv, MarkInv, FreeRuns
  <1>3. ASSUME NEW c \in FreeRuns(orig, Start, End, n)
        PROVE  current <= c
    <2> SUFFICES ASSUME c < current PROVE FALSE
      BY <1>1, <1>3 DEF FreeRuns
    <2>1. c \in Start..(current - 1) /\ \A k \in c..(c + n - 1) : k \notin orig
      BY <1>1, <1>3 DEF FreeRuns
    <2> QED BY <2>1 DEF LoopsInv, LoopInv, MarkInv
  <1>4. current # NotFound
    BY <1>1 DEF NotFound
  <1>5. CASE pass = 1
    <2>1. Start = start_at /\ End = Lesser(Sz, Sz)
      BY <1>5 DEF Start, End, Lesser
    <2> QED BY <1>2, <1>3, <1>4, <2>1 DEF find_and_set_multiple, allocate_range
  <1>6. CASE pass = 2
    <2>1. Start = 0 /\ End = Lesser(start_at, Sz)
      BY <1>6 DEF Start, End
    <2>2. FreeRuns(orig, start_at, Lesser(Sz, Sz), n) = {}
      BY <1>6 DEF LoopsInv, LoopInv, MarkInv, Lesser
    <2>3. allocate_range(orig, Sz, 0, start_at, n, current)
      BY <1>2, <1>3, <2>1 DEF allocate_range
    <2>4. allocate_range(orig, Sz, start_at, Sz, n, NotFound)
      BY <2>2 DEF allocate_range
    <2> QED BY <2>3, <2>4 DEF find_and_set_multiple
  <1> QED BY <1>5, <1>6 DEF LoopsInv, ScanTypeOK

\* A search gives up only when neither part of the bitmap has a fitting run.
LEMMA GivingUpIsNotFound ==
  ASSUME LoopsInv, pc = "scan", ~(i < End), pass = 2
  PROVE  find_and_set_multiple(orig, Sz, n, start_at, NotFound)
  <1>1. FreeRuns(orig, start_at, Lesser(Sz, Sz), n) = {}
    BY DEF LoopsInv, LoopInv, ScanInv, Lesser
  <1>2. FreeRuns(orig, 0, Lesser(start_at, Sz), n) = {}
    BY ExhaustedRange DEF Start, End
  <1> QED BY <1>1, <1>2 DEF find_and_set_multiple, allocate_range

\* The instance carries its own copy of the relations of Bitmap.
LEMMA SameSearch ==
  ASSUME NEW b, NEW sz, NEW len, NEW from, NEW r
  PROVE  /\ Atomic!find_and_set_multiple(b, sz, len, from, r)
              <=> find_and_set_multiple(b, sz, len, from, r)
         /\ Atomic!SetRange(b, r, len) = SetRange(b, r, len)
         /\ Atomic!NotFound = NotFound
  BY DEF Atomic!find_and_set_multiple, Atomic!allocate_range, Atomic!FreeRuns,
         Atomic!Lesser, Atomic!NotFound, Atomic!SetRange, find_and_set_multiple,
         allocate_range, FreeRuns, Lesser, NotFound, SetRange

LEMMA StepRefines == LoopsInv /\ [ScanNext]_scanvars => [Atomic!Next]_(Atomic!vars)
  <1> SUFFICES ASSUME LoopsInv, [ScanNext]_scanvars PROVE [Atomic!Next]_(Atomic!vars)
    OBVIOUS
  <1> USE SzAssumption, MaxRunAssumption, MaxStartAssumption
  <1> DEFINE abits == IF pc = "mark" THEN orig ELSE bits
  <1>1. ASSUME NEW k \in 0..MaxRun, NEW s \in 0..MaxStart, NEW from \in 0..MaxStart,
               Enter(k, s, from)
        PROVE  UNCHANGED Atomic!vars
    BY <1>1 DEF Enter, Atomic!vars
  <1>2. ASSUME NEW k \in 0..(Sz - 1), Clear(k)
        PROVE  [Atomic!Next]_(Atomic!vars)
    BY <1>2 DEF Clear, Atomic!Next, Atomic!Clear
  <1>3. CASE ScanClear \/ ScanSet \/ MarkBit
    BY <1>3 DEF ScanClear, ScanSet, MarkBit, Atomic!vars, LoopsInv, LoopInv, ScanInv
  <1>4. CASE ScanEnd
    <2>1. CASE pass = 1
      BY <1>4, <2>1 DEF ScanEnd, Atomic!vars
    <2>2. CASE pass = 2
      <3>1. bits = orig /\ n \in 1..MaxRun /\ start_at \in 0..MaxStart
        BY <1>4 DEF ScanEnd, LoopsInv, ScanTypeOK, LoopInv, ScanInv
      <3>2. abits = orig /\ abits' = orig /\ ret' = NotFound
        BY <1>4, <2>2, <3>1 DEF ScanEnd
      <3>3. find_and_set_multiple(abits, Sz, n, start_at, NotFound)
        BY <1>4, <2>2, <3>2, GivingUpIsNotFound DEF ScanEnd
      <3>4. NotFound \in NotFound..(Sz - 1)
        BY DEF NotFound
      <3>5. Atomic!Find(n, start_at)
        BY <3>2, <3>3, <3>4, SameSearch DEF Atomic!Find
      <3> QED BY <3>1, <3>5 DEF Atomic!Next
    <2> QED BY <2>1, <2>2 DEF LoopsInv, ScanTypeOK
  <1>5. CASE MarkDone
    <2>1. n \in 1..MaxRun /\ start_at \in 0..MaxStart
      BY <1>5 DEF MarkDone, LoopsInv, ScanTypeOK, LoopInv, MarkInv
    <2>2. current \in NotFound..(Sz - 1) /\ current # NotFound
      BY <1>5 DEF MarkDone, LoopsInv, ScanTypeOK, LoopInv, MarkInv, Start, End, Lesser, NotFound
    <2>3. bits = SetRange(orig, current, n)
      BY <1>5 DEF MarkDone, LoopsInv, ScanTypeOK, LoopInv, MarkInv, SetRange
    <2>4. abits = orig /\ abits' = bits /\ ret' = current
      BY <1>5 DEF MarkDone
    <2>5. find_and_set_multiple(abits, Sz, n, start_at, current)
      BY <1>5, <2>4, MarkedRunIsFirst DEF MarkDone
    <2>6. Atomic!Find(n, start_at)
      BY <2>2, <2>3, <2>4, <2>5, SameSearch DEF Atomic!Find
    <2> QED BY <2>1, <2>6 DEF Atomic!Next
  <1>6. CASE UNCHANGED scanvars
    BY <1>6 DEF scanvars, Atomic!vars
  <1>7. ASSUME NEW k \in 0..MaxRun, NEW s \in 0..MaxStart, FindAndSetMultiple(k, s)
        PROVE  [Atomic!Next]_(Atomic!vars)
    BY <1>1, <1>7 DEF FindAndSetMultiple
  <1>8. ASSUME NEW s \in 0..MaxStart, FindAndSet(s)
        PROVE  [Atomic!Next]_(Atomic!vars)
    <2>1. 1 \in 0..MaxRun /\ 0 \in 0..MaxStart
      OBVIOUS
    <2> QED BY <1>1, <1>8, <2>1 DEF FindAndSet
  <1> QED
    BY <1>2, <1>3, <1>4, <1>5, <1>6, <1>7, <1>8 DEF ScanNext, Step

\* find_and_set_multiple, run as the loops of the code, implements a search that
\* takes the first fitting run in one step, for bitmaps of every size.
THEOREM Refinement == ScanSpec => ImplementsAtomic
  <1>1. ScanInit => Atomic!Init
    BY DEF ScanInit, Atomic!Init, Atomic!NotFound, NotFound
  <1> QED BY <1>1, StepRefines, SpecLoopsInv, PTL DEF ScanSpec, ImplementsAtomic, Atomic!Spec

-----------------------------------------------------------------------------
(* Scheduler *)


\* Labels at which the scheduler's lock is held, and those at which the scheduler is off.
Locked == {"addlocked", "addalloc", "addpush", "addpushed", "exitlocked", "exitoff", "exitmarked"}
Off == Guarded \ {"addlocked", "exitlocked"}
Starting == {"start", "int41", "started"}
Exiting == {"exitlocked", "exitoff", "exitmarked", "exiton", "pause"}

\* The handler has the lock from sched_tick to the loading of the context; outside
\* of that the current task has it exactly at the labels between lock and unlock.
LockInv ==
    /\ isr \in {"switch", "load"} => sched_m = Handler /\ \A t \in Tasks : where[t] \notin Guarded
    /\ isr \notin {"switch", "load"} => sched_m = IF where[cur] \in Locked THEN cur ELSE NoOne
    /\ \A t \in Tasks \ {cur} : where[t] \notin Guarded

\* The flag is down exactly at the labels behind its clearing, and no tick gets past
\* sched_tick's first test there, but for the forced one of interrupt 0x41.
RunningInv ==
    /\ running <=> where[cur] \notin Off \cup Starting
    /\ isr \in {"tick", "switch", "load"} => running \/ where[cur] = "started"

\* Until sched_start is through, kmain is the only task; it never exits.
BootInv ==
    /\ where[Boot] \in Starting => cur = Boot /\ list = IF where[Boot] = "start" THEN <<>> ELSE <<Boot>>
    /\ where[Boot] = "start" => isr = "task"
    /\ where[Boot] \notin Exiting
    /\ \A t \in Tasks \ {Boot} : where[t] \notin Starting

\* From then on the list has the current task and kmain's, and none twice.
ListInv ==
    where[Boot] # "start" => cur \in Range(list) /\ Boot \in Range(list) /\ IsInjective(list)

\* A task that was not launched is in no list, and has not run.
FreshInv ==
    /\ \A t \in Tasks \ {Boot} : saved[t] = "none" => where[t] = "work" /\ t \notin marked /\ t \notin Range(list)
    /\ Boot \notin marked

\* The registers are those of the current task, or, while a handler has changed the
\* current task, its saved context is; all others in the list are saved.
ContextInv ==
    /\ isr # "load" => rip = where[cur]
    /\ isr = "load" => saved[cur] = where[cur]
    /\ \A t \in Range(list) : t # cur => saved[t] = where[t]

IInv == TypeOK /\ LockInv /\ RunningInv /\ BootInv /\ ListInv /\ FreshInv /\ ContextInv /\ MarkedIsCurrent

-----------------------------------------------------------------------------
(* The list *)

\* Range of a sequence, by its indices.
LEMMA RangeIs ==
    ASSUME NEW S, NEW s \in Seq(S)
    PROVE  Range(s) = {s[p] : p \in 1..Len(s)} /\ Range(s) \subseteq S
BY DEF Range

\* push_back of a task that is not listed.
LEMMA Pushed ==
    ASSUME NEW S, NEW s \in Seq(S), NEW e \in S, e \notin Range(s), IsInjective(s)
    PROVE  /\ Append(s, e) \in Seq(S)
           /\ Range(Append(s, e)) = Range(s) \cup {e}
           /\ IsInjective(Append(s, e))
<1>1. /\ Append(s, e) \in Seq(S) /\ Len(Append(s, e)) = Len(s) + 1
      /\ \A p \in 1..Len(s) : Append(s, e)[p] = s[p]
      /\ Append(s, e)[Len(s) + 1] = e
  OBVIOUS
<1>2. Range(Append(s, e)) = Range(s) \cup {e}
  <2>1. /\ Range(Append(s, e)) = {Append(s, e)[p] : p \in 1..(Len(s) + 1)}
        /\ Range(s) = {s[p] : p \in 1..Len(s)}
    BY <1>1, RangeIs
  <2>2. 1..(Len(s) + 1) = (1..Len(s)) \cup {Len(s) + 1}
    OBVIOUS
  <2> QED
    BY <1>1, <2>1, <2>2
<1>3. IsInjective(Append(s, e))
  BY <1>1, RangeIs DEF IsInjective
<1> QED
  BY <1>1, <1>2, <1>3

\* A list and another one behind it.
LEMMA Joined ==
    ASSUME NEW S, NEW a \in Seq(S), NEW b \in Seq(S)
    PROVE  /\ a \o b \in Seq(S) /\ Len(a \o b) = Len(a) + Len(b)
           /\ \A p \in 1..(Len(a) + Len(b)) :
                  (a \o b)[p] = IF p <= Len(a) THEN a[p] ELSE b[p - Len(a)]
OBVIOUS

\* remove takes exactly one link out of the list.
LEMMA Removed ==
    ASSUME NEW S, NEW s \in Seq(S), NEW k \in 1..Len(s), IsInjective(s)
    PROVE  /\ Without(s, k) \in Seq(S)
           /\ Range(Without(s, k)) = Range(s) \ {s[k]}
           /\ IsInjective(Without(s, k))
<1> DEFINE r == Without(s, k)
           from(p) == IF p < k THEN p ELSE p + 1
<1>1. /\ r \in Seq(S) /\ Len(r) = Len(s) - 1
      /\ \A p \in 1..Len(r) : r[p] = s[from(p)]
  <2> DEFINE a == SubSeq(s, 1, k - 1)
             b == SubSeq(s, k + 1, Len(s))
  <2>1. a \in Seq(S) /\ Len(a) = k - 1 /\ \A p \in 1..(k - 1) : a[p] = s[p]
    OBVIOUS
  <2>2. b \in Seq(S) /\ Len(b) = Len(s) - k /\ \A p \in 1..(Len(s) - k) : b[p] = s[k + p]
    OBVIOUS
  <2> HIDE DEF a, b
  <2>3. r = a \o b
    BY DEF Without, a, b
  <2>4. /\ a \o b \in Seq(S) /\ Len(a \o b) = Len(a) + Len(b)
        /\ \A p \in 1..(Len(a) + Len(b)) :
               (a \o b)[p] = IF p <= Len(a) THEN a[p] ELSE b[p - Len(a)]
    BY <2>1, <2>2, Joined
  <2>5. r \in Seq(S) /\ Len(r) = Len(s) - 1
    BY <2>1, <2>2, <2>3, <2>4
  <2>6. ASSUME NEW p \in 1..(Len(s) - 1), p < k PROVE r[p] = s[p]
    BY <2>1, <2>2, <2>3, <2>4, <2>6
  <2>7. ASSUME NEW p \in 1..(Len(s) - 1), ~(p < k) PROVE r[p] = s[p + 1]
    <3>1. r[p] = b[p - (k - 1)]
      BY <2>1, <2>2, <2>3, <2>4, <2>7
    <3>2. p - (k - 1) \in 1..(Len(s) - k) /\ k + (p - (k - 1)) = p + 1
      BY <2>7
    <3> QED
      BY <2>2, <3>1, <3>2
  <2> QED
    BY <2>5, <2>6, <2>7
<1> HIDE DEF r
<1>2. \A p \in 1..Len(r) : from(p) \in 1..Len(s) /\ from(p) # k
  BY <1>1
<1>3. \A q \in 1..Len(s) : q # k => \E p \in 1..Len(r) : from(p) = q
  <2> TAKE q \in 1..Len(s)
  <2> HAVE q # k
  <2>1. CASE q < k
    BY <2>1, <1>1
  <2>2. CASE q > k
    <3>1. q - 1 \in 1..Len(r) /\ from(q - 1) = q
      BY <2>2, <1>1
    <3> QED
      BY <3>1
  <2> QED
    BY <2>1, <2>2
<1>4. \A p, q \in 1..Len(s) : s[p] = s[q] => p = q
  BY DEF IsInjective
<1>5. Range(r) = Range(s) \ {s[k]}
  <2>1. Range(r) = {r[p] : p \in 1..Len(r)} /\ Range(s) = {s[p] : p \in 1..Len(s)}
    BY <1>1, RangeIs
  <2>2. \A p \in 1..Len(r) : r[p] \in Range(s) \ {s[k]}
    <3> TAKE p \in 1..Len(r)
    <3>1. r[p] = s[from(p)] /\ from(p) \in 1..Len(s) /\ from(p) # k
      BY <1>1, <1>2
    <3> HIDE DEF from
    <3> QED
      BY <1>4, <2>1, <3>1
  <2>3. \A q \in 1..Len(s) : s[q] # s[k] => s[q] \in Range(r)
    BY <1>1, <1>3, <2>1
  <2> QED
    BY <2>1, <2>2, <2>3
<1>6. IsInjective(r)
  BY <1>1, <1>2, <1>4 DEF IsInjective
<1> QED
  BY <1>1, <1>5, <1>6 DEF r

\* The link of a listed task.
LEMMA LinkIs ==
    ASSUME list \in Seq(Tasks), NEW t \in Range(list)
    PROVE  LinkOf(t) \in 1..Len(list) /\ list[LinkOf(t)] = t
BY RangeIs DEF LinkOf

\* The ring of the list: the next task is listed, and it is another one if there is one.
LEMMA NextIs ==
    ASSUME list \in Seq(Tasks), NEW t \in Range(list), IsInjective(list)
    PROVE  /\ NextOf(t) \in Range(list)
           /\ Range(list) # {t} => NextOf(t) # t
<1> DEFINE m == Len(list)
           k == LinkOf(t)
<1>1. m \in Nat /\ k \in 1..m /\ list[k] = t
  BY LinkIs
<1>2. Range(list) = {list[p] : p \in 1..m}
  BY RangeIs
<1> HIDE DEF m, k
<1>3. k % m = IF k = m THEN 0 ELSE k
  BY <1>1
<1>4. (k % m) + 1 \in 1..m
  BY <1>1, <1>3
<1>5. ASSUME m > 1 PROVE (k % m) + 1 # k
  BY <1>1, <1>3, <1>5
<1>6. NextOf(t) = list[(k % m) + 1]
  BY DEF NextOf, m, k
<1>7. ASSUME Range(list) # {t} PROVE m > 1
  BY <1>1, <1>2, <1>7
<1>8. \A p, q \in 1..m : list[p] = list[q] => p = q
  BY DEF IsInjective, m
<1> QED
  BY <1>1, <1>2, <1>4, <1>5, <1>6, <1>7, <1>8

-----------------------------------------------------------------------------
(* The steps *)

\* A list of one task.
LEMMA Alone ==
    ASSUME NEW t \in Tasks
    PROVE  <<t>> \in Seq(Tasks) /\ Range(<<t>>) = {t} /\ IsInjective(<<t>>)
<1>1. <<t>> \in Seq(Tasks) /\ Len(<<t>>) = 1 /\ <<t>>[1] = t
  OBVIOUS
<1>2. Range(<<t>>) = {<<t>>[p] : p \in 1..1}
  BY <1>1, RangeIs
<1>3. Range(<<t>>) = {t}
  BY <1>1, <1>2
<1> QED
  BY <1>1, <1>3 DEF IsInjective

LEMMA StartPushKeeps == IInv /\ StartPush => IInv'
<1> SUFFICES ASSUME IInv, StartPush PROVE IInv'
  OBVIOUS
<1> USE TasksAssumption
<1>1. /\ cur = Boot /\ where[Boot] = "start" /\ list = <<>> /\ isr = "task"
      /\ ~running /\ sched_m = NoOne
  BY DEF IInv, TypeOK, LockInv, RunningInv, BootInv, ContextInv, StartPush, At, Off, Starting, Locked, Guarded
<1>2. /\ list' = <<Boot>> /\ last' = {Boot} /\ cur' = Boot /\ rip' = "int41"
      /\ where' = [where EXCEPT ![Boot] = "int41"]
      /\ UNCHANGED <<running, isr, marked, saved, locks, halted>>
  BY <1>1 DEF StartPush, Goto
<1>3. list' \in Seq(Tasks) /\ Range(list') = {Boot} /\ IsInjective(list')
  BY <1>2, Alone
<1>4. TypeOK'
  BY <1>2, <1>3 DEF IInv, TypeOK, Labels, locks
<1>5. where'[Boot] = "int41" /\ \A t \in Tasks \ {Boot} : where'[t] = where[t]
  BY <1>2 DEF IInv, TypeOK
<1>6. LockInv' /\ RunningInv' /\ BootInv'
  BY <1>1, <1>2, <1>5 DEF IInv, LockInv, RunningInv, BootInv, locks, Off, Starting, Locked, Guarded, Exiting
<1>7. ListInv' /\ FreshInv' /\ ContextInv' /\ MarkedIsCurrent'
  BY <1>1, <1>2, <1>3, <1>5 DEF IInv, ListInv, FreshInv, ContextInv, MarkedIsCurrent
<1> QED
  BY <1>4, <1>6, <1>7 DEF IInv

LEMMA push_backKeeps == ASSUME NEW t \in Tasks PROVE IInv /\ push_back(t) => IInv'
<1> SUFFICES ASSUME IInv, push_back(t) PROVE IInv'
  OBVIOUS
<1> USE TasksAssumption
<1>1. CASE LastOf(list) \notin last
  <2>1. /\ UNCHANGED <<list, last, cur, marked, saved, rip, where, running, isr, sched_m, vmm_m, pmm_mutex>>
        /\ halted' = "assert"
    BY <1>1 DEF push_back, locks
  <2>2. TypeOK' /\ LockInv'
    BY <2>1 DEF IInv, TypeOK, LockInv
  <2>3. RunningInv' /\ BootInv'
    BY <2>1 DEF IInv, RunningInv, BootInv
  <2>4. ListInv' /\ FreshInv' /\ ContextInv' /\ MarkedIsCurrent'
    BY <2>1 DEF IInv, ListInv, FreshInv, ContextInv, MarkedIsCurrent
  <2> QED
    BY <2>2, <2>3, <2>4 DEF IInv
<1>2. CASE LastOf(list) \in last
  <2>1. /\ list' = Append(list, t) /\ last' = (last \ {LastOf(list)}) \cup {t}
        /\ saved' = [saved EXCEPT ![t] = "work"] /\ rip' = "addpushed"
        /\ where' = [where EXCEPT ![cur] = "addpushed"]
        /\ UNCHANGED <<cur, marked, running, isr, locks, halted>>
    BY <1>2 DEF push_back, NewState, Goto
  <2>2. /\ rip = "addpush" /\ isr = "task" /\ where[cur] = "addpush"
        /\ t \in Tasks \ {Boot} /\ saved[t] = "none" /\ where[t] = "work"
        /\ t \notin marked /\ t \notin Range(list) /\ t # cur
    BY DEF push_back, At, Spare, IInv, TypeOK, FreshInv, ContextInv
  <2>3. where[Boot] # "start" /\ where[Boot] \notin Starting
    BY <2>2 DEF IInv, BootInv, Starting
  <2>4. /\ list' \in Seq(Tasks) /\ Range(list') = Range(list) \cup {t}
        /\ IsInjective(list')
    <3>1. list \in Seq(Tasks) /\ IsInjective(list) /\ t \notin Range(list)
      BY <2>2, <2>3 DEF IInv, TypeOK, ListInv
    <3> QED
      BY <2>1, <3>1, Pushed
  <2>5. TypeOK'
    BY <2>1, <2>2, <2>4 DEF IInv, TypeOK, Labels, locks
  <2>6. /\ where'[cur] = "addpushed" /\ \A u \in Tasks \ {cur} : where'[u] = where[u]
        /\ saved'[t] = "work" /\ \A u \in Tasks \ {t} : saved'[u] = saved[u]
    BY <2>1 DEF IInv, TypeOK
  <2>7. LockInv' /\ RunningInv'
    BY <2>1, <2>2, <2>6 DEF IInv, TypeOK, LockInv, RunningInv, locks, Off, Starting, Locked, Guarded
  <2>8. BootInv' /\ ListInv'
    BY <2>1, <2>2, <2>3, <2>4, <2>6 DEF IInv, TypeOK, BootInv, ListInv, Starting, Exiting
  <2>9. FreshInv' /\ MarkedIsCurrent'
    BY <2>1, <2>2, <2>4, <2>6 DEF IInv, FreshInv, MarkedIsCurrent
  <2>10. ContextInv'
    <3>1. Range(list) \subseteq Tasks
      BY RangeIs DEF IInv, TypeOK
    <3> QED
      BY <2>1, <2>2, <2>4, <2>6, <3>1 DEF IInv, ContextInv
  <2> QED
    BY <2>5, <2>7, <2>8, <2>9, <2>10 DEF IInv
<1> QED
  BY <1>1, <1>2

LEMMA SwitchSaveKeeps == IInv /\ SwitchSave => IInv'
<1> SUFFICES ASSUME IInv, SwitchSave PROVE IInv'
  OBVIOUS
<1> USE TasksAssumption
<1>1. /\ isr = "switch" /\ cur \notin marked /\ rip = where[cur] /\ where[Boot] # "start"
      /\ sched_m = Handler /\ \A t \in Tasks : where[t] \notin Guarded
      /\ running \/ where[cur] = "started"
  BY DEF SwitchSave, IInv, LockInv, RunningInv, BootInv, ContextInv
<1>2. /\ saved' = [saved EXCEPT ![cur] = rip] /\ cur' = NextOf(cur) /\ isr' = "load"
      /\ UNCHANGED <<list, last, marked, running, rip, locks, halted, where>>
  BY DEF SwitchSave
<1>3. /\ list \in Seq(Tasks) /\ Range(list) \subseteq Tasks /\ cur \in Range(list)
      /\ Boot \in Range(list) /\ IsInjective(list)
  BY <1>1, RangeIs DEF IInv, TypeOK, ListInv
<1>4. cur' \in Range(list) /\ (Range(list) # {cur} => cur' # cur)
  BY <1>2, <1>3, NextIs
<1>5. TypeOK'
  BY <1>2, <1>3, <1>4 DEF IInv, TypeOK, locks
<1>6. saved'[cur] = where[cur] /\ \A t \in Tasks \ {cur} : saved'[t] = saved[t]
  BY <1>1, <1>2 DEF IInv, TypeOK
<1>7. where[Boot] \in Starting => Range(list) = {Boot} /\ cur = Boot /\ cur' = Boot
  BY <1>1, <1>4, Alone DEF IInv, BootInv
<1>8. LockInv' /\ RunningInv'
  BY <1>1, <1>2, <1>3, <1>4, <1>7 DEF IInv, TypeOK, LockInv, RunningInv, BootInv, locks,
                                Off, Starting
<1>9. BootInv' /\ ListInv'
  BY <1>1, <1>2, <1>3, <1>4, <1>7 DEF IInv, BootInv, ListInv
<1>10. FreshInv' /\ ContextInv' /\ MarkedIsCurrent'
  BY <1>1, <1>2, <1>3, <1>4, <1>6 DEF IInv, TypeOK, Labels, FreshInv, ContextInv, MarkedIsCurrent
<1> QED
  BY <1>5, <1>8, <1>9, <1>10 DEF IInv

LEMMA SwitchRemoveKeeps == IInv /\ SwitchRemove => IInv'
<1> SUFFICES ASSUME IInv, SwitchRemove PROVE IInv'
  OBVIOUS
<1> USE TasksAssumption
<1>1. /\ isr = "switch" /\ cur \in marked /\ rip = where[cur] /\ cur # Boot
      /\ where[Boot] # "start" /\ where[Boot] \notin Starting
      /\ sched_m = Handler /\ running
      /\ \A t \in Tasks : where[t] \notin Guarded
      /\ \A t \in Tasks : where[t] \notin Starting
  BY DEF SwitchRemove, IInv, TypeOK, LockInv, RunningInv, BootInv, ContextInv, FreshInv, Starting
<1>2. /\ list' = Without(list, LinkOf(cur)) /\ last' = last \ {cur}
      /\ cur' = NextOf(cur) /\ isr' = "load"
      /\ UNCHANGED <<marked, saved, running, rip, locks, halted, where>>
  BY DEF SwitchRemove, remove
<1>3. /\ list \in Seq(Tasks) /\ Range(list) \subseteq Tasks /\ cur \in Range(list)
      /\ Boot \in Range(list) /\ IsInjective(list)
  BY <1>1, RangeIs DEF IInv, TypeOK, ListInv
<1>4. cur' \in Range(list) /\ cur' # cur
  BY <1>1, <1>2, <1>3, NextIs
<1>5. /\ list' \in Seq(Tasks) /\ Range(list') = Range(list) \ {cur} /\ IsInjective(list')
  BY <1>2, <1>3, LinkIs, Removed
<1>6. TypeOK'
  BY <1>2, <1>3, <1>4, <1>5 DEF IInv, TypeOK, locks
<1>7. LockInv' /\ RunningInv'
  BY <1>1, <1>2, <1>3, <1>4 DEF IInv, LockInv, RunningInv, locks, Off
<1>8. BootInv' /\ ListInv'
  BY <1>1, <1>2, <1>3, <1>4, <1>5 DEF IInv, BootInv, ListInv
<1>9. FreshInv' /\ ContextInv' /\ MarkedIsCurrent'
  BY <1>1, <1>2, <1>3, <1>4, <1>5 DEF IInv, FreshInv, ContextInv, MarkedIsCurrent
<1> QED
  BY <1>6, <1>7, <1>8, <1>9 DEF IInv

\* The inductive invariant holds when the kernel calls sched_start, and after it.
LEMMA InitInv == Init => IInv
<1> SUFFICES ASSUME Init PROVE IInv
  OBVIOUS
<1> USE TasksAssumption, StartedAssumption
<1>1. CASE Started = <<>>
  <2>1. /\ list = <<>> /\ last = {} /\ running = FALSE /\ rip = "start"
        /\ where[Boot] = "start" /\ \A t \in Tasks \ {Boot} : where[t] = "work"
        /\ saved = [t \in Tasks |-> "none"]
    <3>1. Range(Started) = {}
      BY <1>1 DEF Range
    <3> QED
      BY <1>1, <3>1 DEF Init
  <2>2. Range(list) = {}
    BY <2>1 DEF Range
  <2>3. TypeOK
    BY <1>1, <2>1 DEF Init, TypeOK, Labels
  <2>4. LockInv /\ RunningInv /\ BootInv
    BY <2>1 DEF Init, LockInv, RunningInv, BootInv, Guarded, Locked, Off, Starting, Exiting
  <2>5. ListInv /\ FreshInv /\ ContextInv /\ MarkedIsCurrent
    BY <2>1, <2>2 DEF Init, ListInv, FreshInv, ContextInv, MarkedIsCurrent
  <2> QED
    BY <2>3, <2>4, <2>5 DEF IInv
<1>2. CASE Started # <<>>
  <2>1. /\ list = <<Boot>> \o Started /\ last = {LastOf(Started)} /\ running = TRUE
        /\ rip = "work" /\ where = [t \in Tasks |-> "work"]
        /\ saved = [t \in Tasks |-> IF t \in Range(Started) THEN "work" ELSE "none"]
    BY <1>2 DEF Init
  <2>2. /\ list \in Seq(Tasks) /\ Len(list) = 1 + Len(Started) /\ list[1] = Boot
        /\ \A p \in 1..Len(Started) : list[p + 1] = Started[p]
    <3>1. Started \in Seq(Tasks) /\ <<Boot>> \in Seq(Tasks) /\ Len(<<Boot>>) = 1 /\ <<Boot>>[1] = Boot
      OBVIOUS
    <3>2. /\ list \in Seq(Tasks) /\ Len(list) = Len(<<Boot>>) + Len(Started)
          /\ \A p \in 1..(Len(<<Boot>>) + Len(Started)) :
               list[p] = IF p <= Len(<<Boot>>) THEN <<Boot>>[p] ELSE Started[p - Len(<<Boot>>)]
      BY <2>1, <3>1, Joined
    <3>3. \A p \in 1..Len(Started) : p + 1 \in 1..(1 + Len(Started)) /\ ~(p + 1 <= 1) /\ (p + 1) - 1 = p
      BY <3>1
    <3> QED
      BY <3>1, <3>2, <3>3
  <2>3. Range(Started) = {Started[p] : p \in 1..Len(Started)} /\ Range(Started) \subseteq Tasks \ {Boot}
    BY RangeIs
  <2>4. Range(list) = Range(Started) \cup {Boot}
    <3>1. Range(list) = {list[p] : p \in 1..(1 + Len(Started))}
      BY <2>2, RangeIs
    <3>2. ASSUME NEW p \in 1..(1 + Len(Started)), p # 1 PROVE list[p] \in Range(Started)
      <4>1. p - 1 \in 1..Len(Started) /\ (p - 1) + 1 = p
        BY <3>2
      <4>2. list[p] = Started[p - 1]
        BY <2>2, <4>1
      <4> QED
        BY <2>3, <4>1, <4>2
    <3>3. Range(list) \subseteq Range(Started) \cup {Boot}
      BY <2>2, <3>1, <3>2
    <3>4. Range(Started) \cup {Boot} \subseteq Range(list)
      BY <2>2, <2>3, <3>1
    <3> QED
      BY <3>3, <3>4
  <2>5. IsInjective(list)
    <3>1. \A p, q \in 1..Len(Started) : Started[p] = Started[q] => p = q
      BY DEF IsInjective
    <3>2. ASSUME NEW p \in 1..Len(list), NEW q \in 1..Len(list), list[p] = list[q]
          PROVE  p = q
      <4>1. p = 1 \/ (p - 1 \in 1..Len(Started) /\ list[p] = Started[p - 1])
        BY <2>2
      <4>2. q = 1 \/ (q - 1 \in 1..Len(Started) /\ list[q] = Started[q - 1])
        BY <2>2
      <4> QED
        BY <2>2, <2>3, <3>1, <3>2, <4>1, <4>2
    <3> QED
      BY <3>2, <2>2 DEF IsInjective
  <2>6. LastOf(Started) \in Tasks
    BY <1>2, <2>3 DEF LastOf
  <2>7. TypeOK
    BY <2>1, <2>2, <2>6 DEF Init, TypeOK, Labels
  <2>8. LockInv /\ RunningInv /\ BootInv /\ ListInv
    BY <2>1, <2>4, <2>5 DEF Init, LockInv, RunningInv, BootInv, ListInv, Guarded, Locked, Off,
        Starting, Exiting
  <2>9. FreshInv /\ ContextInv /\ MarkedIsCurrent
    BY <2>1, <2>3, <2>4 DEF Init, FreshInv, ContextInv, MarkedIsCurrent
  <2> QED
    BY <2>7, <2>8, <2>9 DEF IInv
<1> QED
  BY <1>1, <1>2

\* A step of the running task that only moves it on: the lock and the flag are
\* afterwards what the new label calls for.
Move(from, to) ==
    /\ At(from) /\ Goto(to)
    /\ UNCHANGED <<list, last, cur, saved, halted>>
    /\ marked' = marked \/ (marked' = marked \cup {cur} /\ cur # Boot)
    /\ isr' = "task" \/ (isr' = "tick" /\ to = "started")
    /\ sched_m' = IF to \in Locked THEN cur ELSE NoOne
    /\ running' \in BOOLEAN /\ (running' <=> to \notin Off \cup Starting)
    /\ vmm_m' \in Tasks \cup {NoOne} /\ pmm_mutex' \in Tasks \cup {NoOne}
    /\ from # "start" /\ (to \in Starting => from = "int41" /\ to = "started")
    /\ to \in Exiting => cur # Boot

LEMMA MoveKeeps ==
    ASSUME IInv, NEW from \in Labels, NEW to \in Labels, Move(from, to)
    PROVE  IInv'
<1> USE TasksAssumption
<1>1. /\ cur \in Tasks /\ cur' = cur /\ where[cur] = from /\ rip' = to /\ isr = "task"
      /\ where'[cur] = to /\ \A t \in Tasks \ {cur} : where'[t] = where[t]
  BY DEF Move, IInv, TypeOK, ContextInv, At, Goto
<1>2. where[Boot] # "start" /\ where'[Boot] # "start"
  BY <1>1 DEF Move, IInv, BootInv, Starting
<1>3. cur \in Range(list) /\ (cur # Boot => saved[cur] # "none")
  BY <1>1, <1>2 DEF IInv, ListInv, FreshInv
<1>4. TypeOK'
  BY DEF Move, IInv, TypeOK, At, Goto
<1>5. LockInv' /\ RunningInv'
  BY <1>1 DEF Move, IInv, LockInv, RunningInv, Starting
<1>6. BootInv'
  BY <1>1, <1>2 DEF Move, IInv, BootInv, Starting
<1>7. ListInv' /\ FreshInv'
  BY <1>1, <1>2, <1>3 DEF Move, IInv, ListInv, FreshInv
<1>8. ContextInv' /\ MarkedIsCurrent'
  <2>1. Range(list) \subseteq Tasks
    BY RangeIs DEF IInv, TypeOK
  <2> QED
    BY <1>1, <2>1 DEF Move, IInv, ContextInv, MarkedIsCurrent
<1> QED
  BY <1>4, <1>5, <1>6, <1>7, <1>8 DEF IInv

\* What the label of the running task says about the lock, the flag and the task.
LEMMA AtLabel ==
    ASSUME IInv, NEW from, At(from)
    PROVE  /\ cur \in Tasks /\ isr = "task" /\ from \in Labels
           /\ sched_m = IF from \in Locked THEN cur ELSE NoOne
           /\ running \in BOOLEAN /\ (running <=> from \notin Off \cup Starting)
           /\ vmm_m \in Tasks \cup {NoOne} /\ pmm_mutex \in Tasks \cup {NoOne}
           /\ from \in Exiting => cur # Boot
BY DEF IInv, TypeOK, LockInv, RunningInv, BootInv, ContextInv, At

\* The steps of the running task that leave the list as it is.
LEMMA TaskKeeps ==
    ASSUME IInv,
           \/ HeapLock \/ HeapUnlock \/ PmmLock \/ PmmUnlock \/ Int41 \/ StartOn
           \/ AddLock \/ AddOff \/ AddAlloc \/ AddUnlock \/ AddOn
           \/ ExitLock \/ ExitOff \/ ExitMark \/ ExitUnlock \/ ExitOn
    PROVE  IInv'
<1> USE TasksAssumption, AtLabel DEF Move, queue, locks, Labels, Locked, Off, Guarded, Starting, Exiting
<1>1. ASSUME HeapLock PROVE Move("work", "heap")
  BY <1>1 DEF HeapLock, Does
<1>2. ASSUME HeapUnlock PROVE Move("heap", "work")
  BY <1>2 DEF HeapUnlock
<1>3. ASSUME PmmLock PROVE Move("work", "pmm")
  BY <1>3 DEF PmmLock, Does
<1>4. ASSUME PmmUnlock PROVE Move("pmm", "work")
  BY <1>4 DEF PmmUnlock
<1>5. ASSUME Int41 PROVE Move("int41", "started")
  BY <1>5 DEF Int41
<1>6. ASSUME StartOn PROVE Move("started", "work")
  BY <1>6 DEF StartOn
<1>7. ASSUME AddLock PROVE Move("work", "addlocked")
  BY <1>7 DEF AddLock, Does
<1>8. ASSUME AddOff PROVE Move("addlocked", "addalloc")
  BY <1>8 DEF AddOff
<1>9. ASSUME AddAlloc PROVE Move("addalloc", "addpush")
  BY <1>9 DEF AddAlloc
<1>10. ASSUME AddUnlock PROVE Move("addpushed", "addon")
  BY <1>10 DEF AddUnlock
<1>11. ASSUME AddOn PROVE Move("addon", "work")
  BY <1>11 DEF AddOn
<1>12. ASSUME ExitLock PROVE Move("work", "exitlocked")
  BY <1>12 DEF ExitLock, Does
<1>13. ASSUME ExitOff PROVE Move("exitlocked", "exitoff")
  BY <1>13 DEF ExitOff
<1>14. ASSUME ExitMark PROVE Move("exitoff", "exitmarked")
  BY <1>14 DEF ExitMark
<1>15. ASSUME ExitUnlock PROVE Move("exitmarked", "exiton")
  BY <1>15 DEF ExitUnlock
<1>16. ASSUME ExitOn PROVE Move("exiton", "pause")
  BY <1>16 DEF ExitOn
<1> HIDE AtLabel DEF Move
<1> QED
  BY <1>1, <1>2, <1>3, <1>4, <1>5, <1>6, <1>7, <1>8, <1>9, <1>10, <1>11, <1>12, <1>13, <1>14, <1>15, <1>16, MoveKeeps

\* The interrupts that come and go, the loading of a context and the halt.
LEMMA HandlerKeeps ==
    ASSUME IInv, Timer \/ TickLock \/ Load \/ Fault \/ FaultServed \/ Pause
    PROVE  IInv'
<1> USE TasksAssumption
<1>1. /\ UNCHANGED <<list, last, cur, marked, saved, running, where, vmm_m, pmm_mutex>>
      /\ halted' \in {"no", "assert", "cli; hlt"}
  BY DEF IInv, TypeOK, Timer, TickLock, Load, Fault, FaultServed, Pause, queue, locks
<1>2. \/ isr = "task" /\ running /\ isr' = "tick" /\ UNCHANGED <<rip, sched_m>>
      \/ isr = "tick" /\ sched_m = NoOne /\ isr' = "switch" /\ sched_m' = Handler /\ rip' = rip
      \/ isr = "load" /\ isr' = "task" /\ sched_m' = NoOne /\ rip' = saved[cur]
      \/ isr = "task" /\ rip # "start" /\ isr' = "fault" /\ UNCHANGED <<rip, sched_m>>
      \/ isr = "fault" /\ isr' = "task" /\ UNCHANGED <<rip, sched_m>>
      \/ UNCHANGED <<isr, rip, sched_m>>
  BY DEF Timer, TickLock, Load, Fault, FaultServed, Pause, At, locks
<1>3. saved[cur] = where[cur] => saved[cur] \in Labels
  BY DEF IInv, TypeOK
<1>4. TypeOK'
  BY <1>1, <1>2, <1>3 DEF IInv, TypeOK, ContextInv
<1>5. /\ isr = "tick" /\ sched_m = NoOne => where[cur] \notin Guarded
      /\ where[cur] \in Locked => where[cur] \in Guarded
  BY DEF IInv, TypeOK, LockInv, RunningInv, Locked, Guarded, Off, Starting
<1>6. LockInv'
  BY <1>1, <1>2, <1>5 DEF IInv, TypeOK, LockInv
<1>7. RunningInv'
  BY <1>1, <1>2 DEF IInv, TypeOK, RunningInv
<1>8. BootInv'
  BY <1>1, <1>2 DEF IInv, TypeOK, RunningInv, BootInv, ContextInv, Starting
<1>9. ListInv' /\ FreshInv' /\ ContextInv' /\ MarkedIsCurrent'
  BY <1>1, <1>2 DEF IInv, ListInv, FreshInv, ContextInv, MarkedIsCurrent
<1> QED
  BY <1>4, <1>6, <1>7, <1>8, <1>9 DEF IInv

LEMMA StepInv == IInv /\ [Next]_vars => IInv'
<1> SUFFICES ASSUME IInv, [Next]_vars PROVE IInv'
  OBVIOUS
<1>1. CASE TaskStep
  BY <1>1, TaskKeeps, HandlerKeeps, StartPushKeeps, push_backKeeps DEF TaskStep
<1>2. CASE Timer
  BY <1>2, HandlerKeeps
<1>3. CASE HandlerStep
  BY <1>3, HandlerKeeps, SwitchSaveKeeps, SwitchRemoveKeeps DEF HandlerStep
<1>4. CASE UNCHANGED vars
  <2>1. UNCHANGED <<list, last, cur, marked, saved, running, rip, isr, sched_m, vmm_m, pmm_mutex,
                    halted, where>>
    BY <1>4 DEF vars, queue, locks
  <2>2. TypeOK' /\ LockInv'
    BY <2>1 DEF IInv, TypeOK, LockInv
  <2>4. RunningInv' /\ BootInv'
    BY <2>1 DEF IInv, RunningInv, BootInv
  <2>3. ListInv' /\ FreshInv' /\ ContextInv' /\ MarkedIsCurrent'
    BY <2>1 DEF IInv, ListInv, FreshInv, ContextInv, MarkedIsCurrent
  <2> QED
    BY <2>2, <2>3, <2>4 DEF IInv
<1> QED
  BY <1>1, <1>2, <1>3, <1>4 DEF Next

-----------------------------------------------------------------------------
(* The theorems *)

LEMMA InvAlways == Spec => []IInv
BY InitInv, StepInv, PTL DEF Spec

\* The CPU goes on with every task exactly where the timer interrupt took it away
\* (sched_tick saves into the task that is current and loads from the one that
\* becomes current), and a task that called sched_exit_thread is never queued again.
THEOREM ContextsAreRight == Spec => []ContextsRight
<1>1. IInv => ContextsRight
  BY DEF IInv, ContextsRight, ContextsExact, ContextInv
<1> QED
  BY InvAlways, <1>1, PTL

\* sched_cpus[cpu] never points to a task that LinkedList::remove took off
\* sched_tasks, no task is listed twice, and kmain's task stays in the list.
THEOREM ListIsSound == Spec => []ListSound
<1>1. IInv => ListSound
  <2>1. ASSUME IInv, rip # "start" PROVE where[Boot] # "start"
    BY <2>1 DEF IInv, BootInv, ContextInv, Starting
  <2> QED
    BY <2>1 DEF IInv, ListSound, ListInv
<1> QED
  BY InvAlways, <1>1, PTL

\* sched_add_thread, sched_add_user_process and sched_exit_thread are not preempted
\* between the lock and the switching on, although they lock before they switch
\* the scheduler off and unlock before they switch it on again.
THEOREM NeverPreempted == Spec => []NotPreempted
<1>1. IInv => NotPreempted
  BY DEF IInv, TypeOK, NotPreempted, LockInv, RunningInv, Off, Starting
<1> QED
  BY InvAlways, <1>1, PTL
=============================================================================
