----------------------------- MODULE PmmProofs -----------------------------
(***************************************************************************)
(* Proofs about Pmm for every memory map, page size, and set of callers.   *)
(*                                                                         *)
(* GrantsDisjoint is not inductive: it needs the lock (two callers between *)
(* Search and Mark could hold the same run), the freshness of the run that *)
(* was found, and the fact that the bits of a run stay set once marked.    *)
(*                                                                         *)
(* Accounting speaks of the states with a free lock; between Account and   *)
(* Mark the counters are ahead of the runs by the request of the owner.    *)
(* The lemmas about sums are those of HeapProofs.                          *)
(***************************************************************************)
EXTENDS Pmm, HeapProofs

NPages(c) == Pages(req[c].size)

\* The boot left a host entry, and since then only Mark has set bits.
Booted ==
    /\ IsHost(mmap, host)
    /\ BootBits(mmap, host, sz) \subseteq 0..(sz - 1)
    /\ bits = BootBits(mmap, host, sz) \cup Granted

\* Before boot nobody allocates; a stop during boot leaves no grant behind.
BootInv ==
    /\ phase = "boot" =>
           /\ sz = 0 /\ bits = {} /\ grants = <<>>
           /\ \A c \in Callers : pc[c] = "idle"
    /\ phase = "up" => Booted
    /\ phase = "fatal" => Booted \/ grants = <<>>

\* The lock keeps the critical sections apart.
MutexInv == \A c \in Callers : Critical(c) => pmm_mutex = c

\* A caller past Call has a request of its own.
RequestInv == \A c \in Callers : pc[c] # "idle" => req[c].size \in ByteSizes

\* A run that was found is still clear when it is marked.
FoundInv ==
    \A c \in Callers :
        phase = "up" /\ pc[c] = "found" =>
            /\ found[c] # NotFound
            /\ found[c]..(found[c] + NPages(c) - 1) \subseteq (0..(sz - 1)) \ bits

\* The pages of a grant are set, and were clear after boot.
GrantInv ==
    \A k \in 1..Len(grants) :
        GrantPages(grants[k]) \subseteq bits \ BootBits(mmap, host, sz)

PmmInv ==
    /\ PmmTypeOK /\ BootInv /\ MutexInv /\ RequestInv
    /\ FoundInv /\ GrantInv /\ GrantsDisjoint

-----------------------------------------------------------------------------
(* Arithmetic of pages *)

LEMMA DivMonotone ==
    ASSUME NEW x \in Nat, NEW y \in Nat, x <= y, NEW p \in Nat \ {0}
    PROVE  /\ x \div p \in Nat
           /\ x \div p <= y \div p
OBVIOUS

LEMMA DivOfMultiple ==
    ASSUME NEW q \in Nat, NEW p \in Nat \ {0}
    PROVE  (q * p) \div p = q
OBVIOUS

LEMMA PagesMonotone ==
    ASSUME NEW x \in Nat, NEW y \in Nat, x <= y
    PROVE  Pages(x) \in Nat /\ Pages(x) <= Pages(y)
BY PageSizeAssumption, DivMonotone, DivOfMultiple DEF Pages, AlignUp

LEMMA PagesPositive ==
    ASSUME NEW x \in Nat \ {0}
    PROVE  Pages(x) \in Nat \ {0}
BY PageSizeAssumption, DivOfMultiple DEF Pages, AlignUp

LEMMA BmSizeType ==
    ASSUME NEW m \in MMaps
    PROVE  /\ bm_size(m) \in Nat
           /\ bm_bytes(m) \in Nat /\ bm_bytes(m) <= bm_size(m)
           /\ InitSize(bm_size(m), WordBits) \in Nat
<1>1. bm_size(m) \in Nat
  <2>1. m \in Seq(Entries) /\ Len(m) \in Nat /\ Len(m) > 1
    BY MMapsAssumption
  <2>2. m[Len(m)] \in Entries /\ m[Len(m) - 1] \in Entries
    BY <2>1
  <2>3. \A e \in Entries : e.base \in Nat /\ e.length \in Nat
    BY DEF Entries
  <2>4. bm_size(m) = m[Len(m)].base + m[Len(m)].length
        \/ bm_size(m) = m[Len(m) - 1].base + m[Len(m) - 1].length
    BY DEF bm_size
  <2> QED
    BY <2>2, <2>3, <2>4
<1>2. bm_bytes(m) \in Nat /\ bm_bytes(m) <= bm_size(m)
  BY <1>1 DEF bm_bytes
<1>3. bm_size(m) \div WordBits \in Nat
  BY <1>1, DivMonotone, WordBitsAssumption
<1>4. InitSize(bm_size(m), WordBits) \in Nat
  BY <1>3, WordBitsAssumption DEF InitSize, AlignDown
<1> QED
  BY <1>1, <1>2, <1>4

-----------------------------------------------------------------------------
(* The inductive invariant *)

LEMMA InitPmmInv == PmmInit => PmmInv
<1> SUFFICES ASSUME PmmInit PROVE PmmInv
  OBVIOUS
<1> USE DEF PmmInit, NoRequest
<1>1. PmmTypeOK
  BY HighPageAssumption, MMapsAssumption DEF PmmTypeOK, NotFound, Entries
<1>2. BootInv /\ MutexInv /\ RequestInv /\ FoundInv
  BY DEF BootInv, MutexInv, Critical, RequestInv, FoundInv
<1>3. GrantInv /\ GrantsDisjoint
  BY DEF GrantInv, GrantsDisjoint
<1> QED
  BY <1>1, <1>2, <1>3 DEF PmmInv

\* Boot leaves no grant, and bits inside the bitmap.
LEMMA BootStep == PmmInv /\ (pmm_init \/ pmm_init_NoCandidate) => PmmInv'
<1> SUFFICES ASSUME PmmInv, pmm_init \/ pmm_init_NoCandidate PROVE PmmInv'
  OBVIOUS
<1>1. CASE pmm_init
  <2>1. PICK h \in 1..Len(mmap) :
            /\ IsHost(mmap, h) /\ host' = h
            /\ sz' = InitSize(bm_size(mmap), WordBits)
            /\ phase' = IF UsablePages(mmap, 1) \cup Marked(mmap, h) \cup {0} \subseteq 0..(sz' - 1)
                        THEN "up" ELSE "fatal"
            /\ bits' = IF phase' = "up" THEN BootBits(mmap, h, sz') ELSE bits
    BY <1>1 DEF pmm_init
  <2>2. /\ mmap \in MMaps /\ mmap' = mmap /\ pmm_usedmem' = pmm_usedmem
        /\ UNCHANGED callvars
        /\ bits = {} /\ grants = <<>> /\ sz = 0 /\ \A c \in Callers : pc[c] = "idle"
    BY <1>1 DEF pmm_init, PmmInv, PmmTypeOK, BootInv
  <2>3. sz' \in Nat
    BY <2>1, <2>2, BmSizeType
  <2>4. bits' \subseteq 0..(sz' - 1)
    BY <2>1, <2>2, <2>3 DEF BootBits
  <2>5. PmmTypeOK'
    <3>1. grants' \in Seq([first : 0..(sz' - 1), n : Nat, start_at : {0, HighPage}])
      BY <2>2 DEF callvars
    <3>2. found' \in [Callers -> NotFound..(sz' - 1)]
      BY <2>2, <2>3 DEF callvars, PmmInv, PmmTypeOK, NotFound
    <3> QED
      BY <2>1, <2>2, <2>3, <2>4, <3>1, <3>2 DEF callvars, PmmInv, PmmTypeOK
  <2>6. phase' = "up" => Booted'
    <3> SUFFICES ASSUME phase' = "up" PROVE Booted'
      OBVIOUS
    <3>1. Granted' = {}
      BY <2>2 DEF Granted, callvars
    <3> QED
      BY <2>1, <2>2, <2>4, <3>1 DEF Booted
  <2> QED
    BY <2>1, <2>2, <2>5, <2>6
       DEF callvars, PmmInv, BootInv, MutexInv, Critical, RequestInv, FoundInv, GrantInv,
           GrantsDisjoint
<1>2. CASE pmm_init_NoCandidate
  BY <1>2 DEF pmm_init_NoCandidate, bootvars, callvars, PmmInv, PmmTypeOK, BootInv, MutexInv,
              Critical, RequestInv, FoundInv, GrantInv, GrantsDisjoint, GrantPages, BootBits,
              NPages
<1> QED
  BY <1>1, <1>2

LEMMA CallStep ==
    ASSUME NEW c \in Callers, NEW size \in ByteSizes, NEW start_at \in {0, HighPage},
           PmmInv, Call(c, size, start_at)
    PROVE  PmmInv'
<1> USE DEF Call, bootvars
<1>1. PmmTypeOK'
  BY DEF PmmInv, PmmTypeOK
<1>2. MutexInv' /\ RequestInv'
  BY <1>1 DEF PmmInv, PmmTypeOK, MutexInv, Critical, RequestInv
<1>3. BootInv'
  BY DEF PmmInv, BootInv, Booted, Granted
<1>4. FoundInv'
  <2> SUFFICES ASSUME NEW d \in Callers, phase' = "up", pc'[d] = "found"
               PROVE  /\ found'[d] # NotFound
                      /\ found'[d]..(found'[d] + NPages(d)' - 1) \subseteq (0..(sz' - 1)) \ bits'
    BY DEF FoundInv
  <2>1. d # c /\ pc[d] = "found" /\ req'[d] = req[d]
    BY DEF PmmInv, PmmTypeOK
  <2> QED
    BY <2>1 DEF PmmInv, FoundInv, NPages
<1>5. GrantInv' /\ GrantsDisjoint'
  BY DEF PmmInv, GrantInv, GrantsDisjoint, GrantPages, BootBits
<1> QED
  BY <1>1, <1>2, <1>3, <1>4, <1>5 DEF PmmInv

\* The steps that leave the bitmap and the grants alone.
LEMMA LockStep == ASSUME NEW c \in Callers, PmmInv, Lock(c) PROVE PmmInv'
<1> USE DEF Lock, bootvars
<1>1. PmmTypeOK'
  BY DEF PmmInv, PmmTypeOK
<1>2. MutexInv' /\ RequestInv'
  BY NoOneAssumption DEF PmmInv, PmmTypeOK, MutexInv, Critical, RequestInv
<1>3. BootInv' /\ FoundInv'
  BY DEF PmmInv, PmmTypeOK, BootInv, Booted, Granted, FoundInv, NPages
<1>4. GrantInv' /\ GrantsDisjoint'
  BY DEF PmmInv, GrantInv, GrantsDisjoint, GrantPages, BootBits
<1> QED
  BY <1>1, <1>2, <1>3, <1>4 DEF PmmInv

LEMMA AlignUpType ==
    ASSUME NEW x \in Nat
    PROVE  AlignUp(x, PageSize) \in Nat
BY PageSizeAssumption, DivMonotone DEF AlignUp

LEMMA AccountStep == ASSUME NEW c \in Callers, PmmInv, Account(c) PROVE PmmInv'
<1> USE DEF Account, bootvars
<1>1. PmmTypeOK'
  <2>1. AlignUp(req[c].size, PageSize) \in Nat
    BY AlignUpType, ByteSizesAssumption DEF PmmInv, PmmTypeOK
  <2> QED
    BY <2>1 DEF PmmInv, PmmTypeOK
<1>2. MutexInv' /\ RequestInv'
  BY DEF PmmInv, PmmTypeOK, MutexInv, Critical, RequestInv
<1>3. BootInv' /\ FoundInv'
  BY DEF PmmInv, PmmTypeOK, BootInv, Booted, Granted, FoundInv, NPages
<1>4. GrantInv' /\ GrantsDisjoint'
  BY DEF PmmInv, GrantInv, GrantsDisjoint, GrantPages, BootBits
<1> QED
  BY <1>1, <1>2, <1>3, <1>4 DEF PmmInv

LEMMA UnlockStep == ASSUME NEW c \in Callers, PmmInv, Unlock(c) PROVE PmmInv'
<1> USE DEF Unlock, bootvars, NoRequest
<1>1. PmmTypeOK'
  BY DEF PmmInv, PmmTypeOK, NotFound
<1>2. MutexInv' /\ RequestInv'
  BY DEF PmmInv, PmmTypeOK, MutexInv, Critical, RequestInv
<1>3. BootInv' /\ FoundInv'
  BY DEF PmmInv, PmmTypeOK, BootInv, Booted, Granted, FoundInv, NPages
<1>4. GrantInv' /\ GrantsDisjoint'
  BY DEF PmmInv, GrantInv, GrantsDisjoint, GrantPages, BootBits
<1> QED
  BY <1>1, <1>2, <1>3, <1>4 DEF PmmInv

\* A pending request asks for at least one page.
LEMMA RequestType ==
    ASSUME NEW c \in Callers, PmmInv, pc[c] # "idle"
    PROVE  NPages(c) \in Nat \ {0} /\ req[c].start_at \in Nat /\ sz \in Nat
<1>1. req[c].size \in Nat \ {0}
  BY ByteSizesAssumption DEF PmmInv, RequestInv
<1>2. NPages(c) \in Nat \ {0}
  BY <1>1, PagesPositive DEF NPages
<1>3. req[c] \in [size : ByteSizes \cup {0}, start_at : {0, HighPage}]
  BY DEF PmmInv, PmmTypeOK
<1> QED
  BY <1>2, <1>3, HighPageAssumption DEF PmmInv, PmmTypeOK

\* A search that succeeds returns a clear run inside the bitmap.
LEMMA FoundRunIsClear ==
    ASSUME NEW size \in Nat, NEW S, NEW n \in Nat \ {0}, NEW s \in Nat,
           NEW r \in NotFound..(size - 1), r # NotFound,
           find_and_set_multiple(S, size, n, s, r)
    PROVE  r..(r + n - 1) \subseteq (0..(size - 1)) \ S
BY DEF find_and_set_multiple, allocate_range, FreeRuns, Lesser, NotFound

LEMMA SearchStep == ASSUME NEW c \in Callers, PmmInv, Search(c) PROVE PmmInv'
<1>1. PICK r \in NotFound..(sz - 1) :
          /\ find_and_set_multiple(bits, sz, NPages(c), req[c].start_at, r)
          /\ found' = [found EXCEPT ![c] = r]
          /\ phase' = IF r = NotFound THEN "fatal" ELSE "up"
  BY DEF Search, NPages
<1> USE DEF Search, bootvars
<1>2. PmmTypeOK'
  BY <1>1 DEF PmmInv, PmmTypeOK
<1>3. MutexInv' /\ RequestInv'
  BY DEF PmmInv, PmmTypeOK, MutexInv, Critical, RequestInv
<1>4. BootInv'
  <2>1. Booted /\ Booted' = Booted
    BY DEF PmmInv, BootInv, Booted, Granted
  <2> QED
    BY <1>1, <2>1 DEF BootInv
<1>5. FoundInv'
  <2> SUFFICES ASSUME NEW d \in Callers, phase' = "up", pc'[d] = "found"
               PROVE  /\ found'[d] # NotFound
                      /\ found'[d]..(found'[d] + NPages(d)' - 1) \subseteq (0..(sz' - 1)) \ bits'
    BY DEF FoundInv
  <2>1. CASE d = c
    <3>1. NPages(c) \in Nat \ {0} /\ req[c].start_at \in Nat /\ sz \in Nat
      <4>1. pc[c] # "idle"
        OBVIOUS
      <4> QED
        BY <4>1, RequestType
    <3>2. r # NotFound
      BY <1>1
    <3>3. r..(r + NPages(c) - 1) \subseteq (0..(sz - 1)) \ bits
      BY <1>1, <3>1, <3>2, FoundRunIsClear
    <3> QED
      BY <1>1, <2>1, <3>2, <3>3 DEF PmmInv, PmmTypeOK, NPages
  <2>2. CASE d # c
    BY <1>1, <2>2 DEF PmmInv, PmmTypeOK, FoundInv, NPages
  <2> QED
    BY <2>1, <2>2
<1>6. GrantInv' /\ GrantsDisjoint'
  BY DEF PmmInv, GrantInv, GrantsDisjoint, GrantPages, BootBits
<1> QED
  BY <1>2, <1>3, <1>4, <1>5, <1>6 DEF PmmInv

\* The run joins the grants and its bits are set, both at once.
LEMMA MarkStep == ASSUME NEW c \in Callers, PmmInv, Mark(c) PROVE PmmInv'
<1> DEFINE g == [first |-> found[c], n |-> NPages(c), start_at |-> req[c].start_at]
<1>1. /\ phase = "up" /\ phase' = "up" /\ pc[c] = "found"
      /\ bits' = bits \cup GrantPages(g) /\ grants' = Append(grants, g)
      /\ pc' = [pc EXCEPT ![c] = "marked"]
      /\ UNCHANGED <<mmap, host, sz, pmm_usedmem, pmm_mutex, req, found>>
  BY DEF Mark, bootvars, SetRange, NPages, GrantPages
<1>2. /\ NPages(c) \in Nat \ {0} /\ found[c] \in 0..(sz - 1)
      /\ req[c].start_at \in {0, HighPage} /\ sz \in Nat
  <2>1. pc[c] # "idle" /\ found[c] # NotFound /\ found[c] \in NotFound..(sz - 1)
    BY <1>1 DEF PmmInv, PmmTypeOK, FoundInv
  <2>2. req[c] \in [size : ByteSizes \cup {0}, start_at : {0, HighPage}]
    BY DEF PmmInv, PmmTypeOK
  <2>3. NPages(c) \in Nat \ {0} /\ sz \in Nat
    BY <2>1, RequestType
  <2> QED
    BY <2>1, <2>2, <2>3 DEF NotFound
<1>3. GrantPages(g) \subseteq (0..(sz - 1)) \ bits
  BY <1>1 DEF PmmInv, FoundInv, GrantPages
<1>4. g \in [first : 0..(sz - 1), n : Nat, start_at : {0, HighPage}]
  BY <1>2
<1>5. /\ grants \in Seq([first : 0..(sz - 1), n : Nat, start_at : {0, HighPage}])
      /\ grants' \in Seq([first : 0..(sz - 1), n : Nat, start_at : {0, HighPage}])
      /\ Len(grants) \in Nat /\ Len(grants') = Len(grants) + 1
      /\ grants'[Len(grants) + 1] = g
      /\ \A k \in 1..Len(grants) : grants'[k] = grants[k]
  BY <1>1, <1>4 DEF PmmInv, PmmTypeOK
<1> HIDE DEF g
<1>6. PmmTypeOK'
  BY <1>1, <1>3, <1>5 DEF PmmInv, PmmTypeOK
<1>7. Granted' = Granted \cup GrantPages(g)
  <2>1. 1..Len(grants') = (1..Len(grants)) \cup {Len(grants) + 1}
    BY <1>5
  <2>2. \A p : p \in Granted <=> \E k \in 1..Len(grants) : p \in GrantPages(grants[k])
    BY DEF Granted
  <2>3. \A p : p \in Granted' <=> \E k \in 1..Len(grants') : p \in GrantPages(grants'[k])
    BY DEF Granted, GrantPages
  <2>4. \A p : p \in Granted' <=> p \in Granted \/ p \in GrantPages(g)
    BY <1>5, <2>1, <2>2, <2>3
  <2> QED
    BY <2>4
<1>8. BootBits(mmap, host, sz) \subseteq bits /\ BootBits(mmap, host, sz)' = BootBits(mmap, host, sz)
  BY <1>1 DEF PmmInv, BootInv, Booted, BootBits
<1>9. BootInv'
  <2>1. Booted'
    BY <1>1, <1>7, <1>8 DEF PmmInv, BootInv, Booted
  <2> QED
    BY <1>1, <2>1 DEF BootInv
<1>10. MutexInv' /\ RequestInv'
  BY <1>1 DEF PmmInv, PmmTypeOK, MutexInv, Critical, RequestInv
<1>11. FoundInv'
  <2> SUFFICES ASSUME NEW d \in Callers, pc'[d] = "found" PROVE FALSE
    BY DEF FoundInv
  <2> QED
    BY <1>1 DEF PmmInv, PmmTypeOK, MutexInv, Critical
<1>12. GrantInv'
  <2> SUFFICES ASSUME NEW k \in 1..Len(grants')
               PROVE  GrantPages(grants'[k]) \subseteq bits' \ BootBits(mmap, host, sz)
    BY <1>8 DEF GrantInv, GrantPages
  <2>1. CASE k = Len(grants) + 1
    BY <1>1, <1>3, <1>5, <1>8, <2>1
  <2>2. CASE k \in 1..Len(grants)
    BY <1>1, <1>5, <2>2 DEF PmmInv, GrantInv
  <2>3. k \in 1..Len(grants) \/ k = Len(grants) + 1
    BY <1>5
  <2> QED
    BY <2>1, <2>2, <2>3
<1>13. GrantsDisjoint'
  <2> SUFFICES ASSUME NEW a \in 1..Len(grants'), NEW b \in 1..Len(grants'), a # b
               PROVE  GrantPages(grants'[a]) \cap GrantPages(grants'[b]) = {}
    BY DEF GrantsDisjoint, GrantPages
  <2>1. \A k \in 1..Len(grants) : GrantPages(grants[k]) \cap GrantPages(g) = {}
    BY <1>3 DEF PmmInv, GrantInv
  <2>2. CASE a \in 1..Len(grants) /\ b \in 1..Len(grants)
    BY <1>5, <2>2 DEF PmmInv, GrantsDisjoint
  <2>3. CASE a = Len(grants) + 1 /\ b \in 1..Len(grants)
    BY <1>5, <2>1, <2>3
  <2>4. CASE b = Len(grants) + 1 /\ a \in 1..Len(grants)
    BY <1>5, <2>1, <2>4
  <2>5. \A k \in 1..Len(grants') : k \in 1..Len(grants) \/ k = Len(grants) + 1
    BY <1>5
  <2> QED
    BY <2>2, <2>3, <2>4, <2>5
<1> QED
  BY <1>6, <1>9, <1>10, <1>11, <1>12, <1>13 DEF PmmInv

LEMMA NextPmmInv == PmmInv /\ [PmmNext]_pmmvars => PmmInv'
<1> SUFFICES ASSUME PmmInv, [PmmNext]_pmmvars PROVE PmmInv'
  OBVIOUS
<1>1. CASE pmm_init \/ pmm_init_NoCandidate
  BY <1>1, BootStep
<1>2. CASE \E c \in Callers, size \in ByteSizes : pmm_alloc(c, size) \/ pmm_alloc4g(c, size)
  BY <1>2, CallStep DEF pmm_alloc, pmm_alloc4g
<1>3. CASE \E c \in Callers : Step(c)
  BY <1>3, LockStep, AccountStep, SearchStep, MarkStep, UnlockStep DEF Step
<1>4. CASE UNCHANGED pmmvars
  <2> USE <1>4 DEF pmmvars, bootvars, callvars
  <2>1. PmmTypeOK' /\ MutexInv' /\ RequestInv'
    BY DEF PmmInv, PmmTypeOK, MutexInv, Critical, RequestInv
  <2>2. BootInv'
    BY DEF PmmInv, BootInv, Booted, Granted
  <2>3. FoundInv'
    BY DEF PmmInv, FoundInv, NPages
  <2>4. GrantInv' /\ GrantsDisjoint'
    BY DEF PmmInv, GrantInv, GrantsDisjoint, GrantPages, BootBits
  <2> QED
    BY <2>1, <2>2, <2>3, <2>4 DEF PmmInv
<1> QED
  BY <1>1, <1>2, <1>3, <1>4 DEF PmmNext

LEMMA SpecPmmInv == PmmSpec => []PmmInv
BY InitPmmInv, NextPmmInv, PTL DEF PmmSpec

-----------------------------------------------------------------------------
(* The theorems *)

\* The state of pmm.cc stays in its ranges; in particular no bit past the
\* bitmap's size is ever set.
THEOREM PmmTypeCorrect == PmmSpec => []PmmTypeOK
<1>1. PmmInv => PmmTypeOK
  BY DEF PmmInv
<1> QED
  BY <1>1, SpecPmmInv, PTL

\* pmm_alloc and pmm_alloc4g never hand out a page twice, for any number of
\* callers in any interleaving.
THEOREM NoDoubleGrant == PmmSpec => []GrantsDisjoint
<1>1. PmmInv => GrantsDisjoint
  BY DEF PmmInv
<1> QED
  BY <1>1, SpecPmmInv, PTL

\* The bitmap is what boot left plus what was handed out.
THEOREM BitmapExact == PmmSpec => []BitsAreGrants
<1>1. PmmInv => BitsAreGrants
  BY DEF PmmInv, BootInv, Booted, BitsAreGrants
<1> QED
  BY <1>1, SpecPmmInv, PTL

\* The bytes of the bitmap lie in the marked pages, although pmm_init computes
\* the marked pages from the number of bits; all of them are pages of the host.
LEMMA StorageIsMarked ==
    ASSUME NEW m \in MMaps, NEW h, IsHost(m, h),
           NEW p \in m[h].base..(m[h].base + WmPages + Pages(bm_bytes(m)) - 1)
    PROVE  p \in Marked(m, h) /\ p \in PagesOf(m[h])
<1>1. /\ bm_bytes(m) \in Nat /\ bm_size(m) \in Nat /\ bm_bytes(m) <= bm_size(m)
  BY BmSizeType
<1>2. /\ Pages(bm_bytes(m)) \in Nat /\ Pages(bm_size(m)) \in Nat
      /\ Pages(bm_bytes(m)) <= Pages(bm_size(m))
  BY <1>1, PagesMonotone
<1>3. m[h].base \in Nat /\ m[h].length \in Nat
  <2>1. m \in Seq(Entries) /\ h \in 1..Len(m)
    BY MMapsAssumption DEF IsHost
  <2>2. m[h] \in Entries
    BY <2>1
  <2> QED
    BY <2>2 DEF Entries
<1>4. p \in Marked(m, h)
  BY <1>2, <1>3, WmPagesAssumption DEF Marked
<1>5. m[h].length >= WmPages + Pages(bm_bytes(m))
  BY DEF IsHost, Fits
<1> QED
  BY <1>2, <1>3, <1>4, <1>5, WmPagesAssumption DEF PagesOf

LEMMA GrantedIsFree == PmmInv => OnlyFreeMemory
<1> SUFFICES ASSUME PmmInv, NEW p \in Granted
             PROVE  /\ p # 0 /\ \E k \in Usable(mmap) : p \in PagesOf(mmap[k])
                    /\ p \notin mmap[host].base..
                                   (mmap[host].base + WmPages + Pages(bm_bytes(mmap)) - 1)
  BY DEF OnlyFreeMemory
<1>1. p \in bits /\ p \notin BootBits(mmap, host, sz)
  BY DEF PmmInv, GrantInv, Granted
<1>2. Booted
  BY DEF PmmInv, PmmTypeOK, BootInv, Granted
<1>3. mmap \in MMaps /\ bits \subseteq 0..(sz - 1)
  BY DEF PmmInv, PmmTypeOK
<1>4. p # 0 /\ \E k \in Usable(mmap) : p \in PagesOf(mmap[k])
  BY <1>1, <1>3 DEF BootBits, UsablePages, Usable
<1>5. ASSUME p \in mmap[host].base..
                      (mmap[host].base + WmPages + Pages(bm_bytes(mmap)) - 1)
      PROVE  FALSE
  <2>1. p \in Marked(mmap, host) /\ p \in PagesOf(mmap[host])
    BY <1>2, <1>3, <1>5, StorageIsMarked DEF Booted
  <2>2. p \in UsablePages(mmap, host + 1)
    BY <1>1, <2>1 DEF BootBits
  <2>3. PICK k \in (host + 1)..Len(mmap) : mmap[k].type = "usable" /\ p \in PagesOf(mmap[k])
    BY <2>2 DEF UsablePages
  <2>4. host \in Usable(mmap) /\ k \in Usable(mmap) /\ k # host
    <3>1. host \in 1..Len(mmap) /\ mmap[host].type = "usable"
      BY <1>2 DEF Booted, IsHost, Fits
    <3>2. Len(mmap) \in Nat
      BY <1>3, MMapsAssumption
    <3> QED
      BY <2>3, <3>1, <3>2 DEF Usable
  <2> QED
    BY <1>3, <2>1, <2>3, <2>4, MMapsAssumption
<1> QED
  BY <1>4, <1>5

\* Nothing but usable memory outside page 0, the watermark area and the bitmap
\* is ever handed out.
THEOREM ReservedIsSafe == PmmSpec => []OnlyFreeMemory
BY GrantedIsFree, SpecPmmInv, PTL

\* For any number of callers and every memory map of the loader, what the two
\* allocators hand out is safe to use.
THEOREM AllocatorSafe == PmmSpec => []GrantsSafe
BY PmmTypeCorrect, NoDoubleGrant, BitmapExact, ReservedIsSafe, PTL DEF GrantsSafe

-----------------------------------------------------------------------------
(* The counters *)

GrantSum == SumFunction([k \in 1..Len(grants) |-> grants[k].n])
Total == SumFunction(Lengths(mmap))

\* The pages that c has counted and not yet got.
Ahead(c) == pc[c] \in {"accounted", "found"}

CountInv ==
    /\ phase = "boot" => pmm_usedmem = 0
    /\ phase = "up" =>
           /\ pmm_freemem \in Int /\ pmm_usedmem + pmm_freemem = PageSize * Total
           /\ \A c \in Callers : Ahead(c) => pmm_usedmem = PageSize * (GrantSum + NPages(c))
           /\ (\A c \in Callers : ~Ahead(c)) => pmm_usedmem = PageSize * GrantSum

LEMMA Distributes ==
    ASSUME NEW p \in Nat, NEW x \in Nat, NEW y \in Nat
    PROVE  p * x \in Nat /\ p * x + p * y = p * (x + y)
OBVIOUS

\* The bytes that Account adds are those of whole pages.
LEMMA AlignUpIsPages ==
    ASSUME NEW x \in Nat
    PROVE  AlignUp(x, PageSize) = PageSize * Pages(x) /\ Pages(x) \in Nat
<1> DEFINE q == (x + (PageSize - 1)) \div PageSize
<1>1. q \in Nat /\ AlignUp(x, PageSize) = q * PageSize
  BY PageSizeAssumption, DivMonotone DEF AlignUp
<1> HIDE DEF q
<1>2. Pages(x) = q
  BY <1>1, PageSizeAssumption, DivOfMultiple DEF Pages
<1> QED
  BY <1>1, <1>2, PageSizeAssumption

LEMMA TotalType == PmmInv => Total \in Nat
<1> SUFFICES ASSUME PmmInv PROVE Total \in Nat
  OBVIOUS
<1>1. mmap \in Seq(Entries) /\ Len(mmap) \in Nat
  BY MMapsAssumption DEF PmmInv, PmmTypeOK
<1>2. IsFiniteSet(Usable(mmap))
  <2>1. IsFiniteSet(1..Len(mmap)) /\ Usable(mmap) \subseteq 1..Len(mmap)
    BY <1>1, FS_Interval DEF Usable
  <2> QED
    BY <2>1, FS_Subset
<1>3. \A k \in Usable(mmap) : mmap[k] \in Entries
  BY <1>1 DEF Usable
<1>4. /\ DOMAIN Lengths(mmap) = Usable(mmap)
      /\ \A k \in Usable(mmap) : Lengths(mmap)[k] \in Nat
  BY <1>3 DEF Lengths, Entries
<1>5. SumFunctionOnSet(Lengths(mmap), Usable(mmap)) \in Nat
  BY <1>2, <1>4, SumType
<1> QED
  BY <1>4, <1>5 DEF Total, SumFunction

LEMMA GrantFacts ==
    ASSUME PmmInv
    PROVE  /\ Len(grants) \in Nat /\ IsFiniteSet(1..Len(grants))
           /\ \A k \in 1..Len(grants) : grants[k].n \in Nat
           /\ GrantSum = SumFunctionOnSet([k \in 1..Len(grants) |-> grants[k].n], 1..Len(grants))
           /\ GrantSum \in Nat
<1> DEFINE f == [k \in 1..Len(grants) |-> grants[k].n]
<1>1. Len(grants) \in Nat /\ \A k \in 1..Len(grants) : grants[k].n \in Nat
  <2> DEFINE G == [first : 0..(sz - 1), n : Nat, start_at : {0, HighPage}]
  <2>1. grants \in Seq(G)
    BY DEF PmmInv, PmmTypeOK
  <2>2. \A g \in G : g.n \in Nat
    OBVIOUS
  <2> HIDE DEF G
  <2> QED
    BY <2>1, <2>2
<1>2. IsFiniteSet(1..Len(grants))
  BY <1>1, FS_Interval
<1>3. DOMAIN f = 1..Len(grants) /\ \A k \in 1..Len(grants) : f[k] = grants[k].n
  OBVIOUS
<1>4. GrantSum = SumFunctionOnSet(f, 1..Len(grants))
  BY <1>3 DEF GrantSum, SumFunction
<1>5. GrantSum \in Nat
  <2> HIDE DEF f
  <2> QED
    BY <1>1, <1>2, <1>3, <1>4, SumType
<1> QED
  BY <1>1, <1>2, <1>4, <1>5

\* The run that Mark appends is added to the sum.
LEMMA GrantSumGrows ==
    ASSUME PmmInv, PmmInv', NEW g, grants' = Append(grants, g), g.n \in Nat
    PROVE  GrantSum' = GrantSum + g.n
<1> DEFINE f == [k \in 1..Len(grants) |-> grants[k].n]
           h == [k \in 1..Len(grants') |-> grants'[k].n]
           N == Len(grants)
           D == 1..N
<1>1. /\ N \in Nat /\ Len(grants') = N + 1 /\ grants'[N + 1] = g
      /\ \A k \in D : grants'[k] = grants[k]
  BY GrantFacts DEF PmmInv, PmmTypeOK
<1>2. /\ \A k \in D : f[k] \in Nat /\ h[k] = f[k]
      /\ h[N + 1] = g.n
  BY <1>1, GrantFacts
<1>3. N + 1 \notin D /\ 1..Len(grants') = D \cup {N + 1} /\ IsFiniteSet(D)
  BY <1>1, GrantFacts
<1>4. GrantSum = SumFunctionOnSet(f, D) /\ GrantSum' = SumFunctionOnSet(h, 1..Len(grants'))
  BY GrantFacts DEF PmmInv, GrantSum, SumFunction
<1> HIDE DEF f, h, D
<1>5. SumFunctionOnSet(h, D) = SumFunctionOnSet(f, D)
  BY <1>2, <1>3, SumSame
<1>6. \A k \in D \cup {N + 1} : h[k] \in Nat
  BY <1>2
<1> HIDE DEF N
<1>7. SumFunctionOnSet(h, D \cup {N + 1}) = SumFunctionOnSet(h, D) + h[N + 1]
  BY <1>3, <1>6, SumAdd
<1>8. SumFunctionOnSet(h, D \cup {N + 1}) = SumFunctionOnSet(h, 1..Len(grants'))
  BY <1>3, Zenon
<1> QED
  BY <1>2, <1>4, <1>5, <1>7, <1>8

\* A caller ahead of the runs owns the lock, so there is at most one.
LEMMA OneAhead ==
    ASSUME PmmInv, NEW c \in Callers, Critical(c), NEW d \in Callers, Ahead(d)
    PROVE  d = c
BY DEF PmmInv, MutexInv, Critical, Ahead

LEMMA NextCount == PmmInv /\ PmmInv' /\ CountInv /\ [PmmNext]_pmmvars => CountInv'
<1> SUFFICES ASSUME PmmInv, PmmInv', CountInv, [PmmNext]_pmmvars PROVE CountInv'
  OBVIOUS
<1>0. /\ Total \in Nat /\ GrantSum \in Nat /\ PageSize \in Nat /\ pmm_usedmem \in Nat
      /\ pc \in [Callers -> {"idle", "want", "locked", "accounted", "found", "marked"}]
  BY TotalType, GrantFacts, PageSizeAssumption DEF PmmInv, PmmTypeOK
<1>1. CASE pmm_init \/ pmm_init_NoCandidate
  <2>1. /\ phase = "boot" /\ phase' \in {"up", "fatal"} /\ pc' = pc /\ pmm_usedmem' = pmm_usedmem
        /\ grants' = grants /\ mmap' = mmap /\ (phase' = "up" => pmm_freemem' = PageSize * Total)
    BY <1>1 DEF pmm_init, pmm_init_NoCandidate, callvars, bootvars, Total
  <2>2. grants = <<>> /\ pmm_usedmem = 0 /\ \A c \in Callers : ~Ahead(c)
    BY <2>1 DEF PmmInv, BootInv, CountInv, Ahead
  <2>3. GrantSum = 0
    <3>1. 1..Len(grants) = {}
      BY <2>2
    <3>2. GrantSum = SumFunctionOnSet([k \in 1..Len(grants) |-> grants[k].n], {})
      BY <3>1, GrantFacts, Zenon
    <3> QED
      BY <3>2, SumOfNone
  <2>4. /\ GrantSum' = 0 /\ Total' = Total /\ pmm_usedmem' = 0
        /\ \A c \in Callers : ~Ahead(c)'
    BY <2>1, <2>2, <2>3 DEF GrantSum, Total, Ahead
  <2>5. PageSize * Total \in Nat /\ PageSize * 0 = 0
    BY <1>0, Distributes
  <2> QED
    BY <2>1, <2>4, <2>5 DEF CountInv
<1>2. ASSUME NEW c \in Callers, Account(c) PROVE CountInv'
  <2>1. /\ phase = "up" /\ phase' = "up" /\ pc[c] = "locked"
        /\ pmm_usedmem' = pmm_usedmem + AlignUp(req[c].size, PageSize)
        /\ pmm_freemem' = pmm_freemem - AlignUp(req[c].size, PageSize)
        /\ pc' = [pc EXCEPT ![c] = "accounted"]
        /\ req' = req /\ grants' = grants /\ mmap' = mmap
    BY <1>2 DEF Account, bootvars
  <2>2. req[c].size \in Nat
    BY <2>1, ByteSizesAssumption DEF PmmInv, RequestInv
  <2>3. AlignUp(req[c].size, PageSize) = PageSize * NPages(c) /\ NPages(c) \in Nat
    BY <2>2, AlignUpIsPages DEF NPages
  <2>4. \A d \in Callers : ~Ahead(d)
    BY <2>1, OneAhead DEF Critical, Ahead
  <2>5. \A d \in Callers : Ahead(d)' <=> d = c
    BY <1>0, <2>1, <2>4 DEF Ahead
  <2>6. /\ pmm_usedmem = PageSize * GrantSum /\ pmm_freemem \in Int
        /\ pmm_usedmem + pmm_freemem = PageSize * Total
    BY <2>1, <2>4 DEF CountInv
  <2>7. GrantSum' = GrantSum /\ Total' = Total /\ NPages(c)' = NPages(c)
    BY <2>1 DEF GrantSum, Total, NPages
  <2>8. /\ PageSize * NPages(c) \in Nat
        /\ PageSize * GrantSum + PageSize * NPages(c) = PageSize * (GrantSum + NPages(c))
    BY <1>0, <2>3, Distributes
  <2>9. /\ pmm_freemem' \in Int /\ pmm_usedmem' + pmm_freemem' = pmm_usedmem + pmm_freemem
        /\ pmm_usedmem' = PageSize * (GrantSum + NPages(c))
    BY <1>0, <2>1, <2>3, <2>6, <2>8
  <2> QED
    BY <2>1, <2>5, <2>6, <2>7, <2>9 DEF CountInv
<1>3. ASSUME NEW c \in Callers, Mark(c) PROVE CountInv'
  <2> DEFINE g == [first |-> found[c], n |-> NPages(c), start_at |-> req[c].start_at]
  <2>1. /\ phase = "up" /\ phase' = "up" /\ pc[c] = "found" /\ grants' = Append(grants, g)
        /\ pc' = [pc EXCEPT ![c] = "marked"]
        /\ pmm_usedmem' = pmm_usedmem /\ pmm_freemem' = pmm_freemem /\ mmap' = mmap
    BY <1>3 DEF Mark, bootvars, NPages
  <2>2. NPages(c) \in Nat
    BY <2>1, RequestType
  <2>3. GrantSum' = GrantSum + NPages(c)
    <3>1. g.n = NPages(c)
      OBVIOUS
    <3> HIDE DEF g
    <3> QED
      BY <2>1, <2>2, <3>1, GrantSumGrows
  <2>4. \A d \in Callers : ~Ahead(d)'
    <3>1. \A d \in Callers : Ahead(d) => d = c
      BY <2>1, OneAhead DEF Critical
    <3> QED
      BY <1>0, <2>1, <3>1 DEF Ahead
  <2>5. /\ pmm_usedmem = PageSize * (GrantSum + NPages(c)) /\ pmm_freemem \in Int
        /\ pmm_usedmem + pmm_freemem = PageSize * Total
    BY <2>1 DEF CountInv, Ahead
  <2>6. Total' = Total
    BY <2>1 DEF Total
  <2> QED
    BY <2>1, <2>3, <2>4, <2>5, <2>6 DEF CountInv
<1>4. ASSUME /\ UNCHANGED <<pmm_usedmem, pmm_freemem, grants, mmap>>
             /\ phase' = phase \/ phase' = "fatal"
             /\ \A d \in Callers : /\ Ahead(d)' <=> Ahead(d)
                                   /\ Ahead(d) => NPages(d)' = NPages(d)
      PROVE  CountInv'
  <2>1. GrantSum' = GrantSum /\ Total' = Total
    BY <1>4 DEF GrantSum, Total
  <2> QED
    BY <1>4, <2>1 DEF CountInv
<1>5. ASSUME NEW c \in Callers, NEW size \in ByteSizes, NEW s, Call(c, size, s) PROVE CountInv'
  BY <1>0, <1>4, <1>5 DEF Call, bootvars, Ahead, NPages, PmmInv, PmmTypeOK
<1>6. ASSUME NEW c \in Callers, Lock(c) PROVE CountInv'
  BY <1>0, <1>4, <1>6 DEF Lock, bootvars, Ahead, NPages
<1>7. ASSUME NEW c \in Callers, Search(c) PROVE CountInv'
  <2>1. /\ UNCHANGED <<pmm_usedmem, pmm_freemem, grants, mmap, req>> /\ pc[c] = "accounted"
        /\ pc' = [pc EXCEPT ![c] = "found"] /\ phase' \in {"up", "fatal"} /\ phase = "up"
    BY <1>7 DEF Search, bootvars
  <2> QED
    BY <1>0, <1>4, <2>1 DEF Ahead, NPages
<1>8. ASSUME NEW c \in Callers, Unlock(c) PROVE CountInv'
  BY <1>0, <1>4, <1>8 DEF Unlock, bootvars, Ahead, NPages, PmmInv, PmmTypeOK
<1>9. CASE UNCHANGED pmmvars
  BY <1>4, <1>9 DEF pmmvars, bootvars, callvars, Ahead, NPages
<1> QED
  BY <1>1, <1>2, <1>3, <1>5, <1>6, <1>7, <1>8, <1>9 DEF PmmNext, Step, pmm_alloc, pmm_alloc4g

\* Whenever pmm_mutex is free, pmm_usedmem is the memory of the runs handed out
\* and pmm_freemem the rest of what the loader called usable.
THEOREM CountersAgree == PmmSpec => []Accounting
<1>1. PmmInit => CountInv
  BY DEF PmmInit, CountInv
<1>2. ASSUME PmmInv, CountInv PROVE Accounting
  <2>1. pmm_mutex = NoOne => \A c \in Callers : ~Ahead(c)
    BY <1>2, NoOneAssumption DEF PmmInv, MutexInv, Critical, Ahead
  <2> QED
    BY <1>2, <2>1 DEF CountInv, Accounting, GrantSum, Total
<1> QED
  BY <1>1, <1>2, InitPmmInv, NextPmmInv, NextCount, PTL DEF PmmSpec
=============================================================================
