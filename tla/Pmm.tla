-------------------------------- MODULE Pmm --------------------------------
(***************************************************************************)
(* The physical memory manager (kernel/src/mm/pmm.cc): boot from the       *)
(* loader's memory map, and the two allocators that share one bitmap under *)
(* pmm_mutex.                                                              *)
(*                                                                         *)
(* The loader's entries are whole pages, so their base and length are in   *)
(* pages here; sizes that callers pass and the two counters are in bytes.  *)
(***************************************************************************)
EXTENDS Bitmap, Sequences, FiniteSetsExt

CONSTANTS Callers,    \* contexts that call the allocators
          MMaps,      \* the memory maps the loader may hand over
          PageSize,   \* PMM_PAGESIZE
          WordBits,   \* bits of a bitmap word (64)
          WmPages,    \* WM_SIZE in pages
          HighPage,   \* page number of the 4 GiB line
          ByteSizes,      \* sizes callers ask for, in bytes
          NoOne       \* pmm_mutex when it is free

EntryTypes == {"usable", "reserved", "other"}
Entries == [base : Nat, length : Nat, type : EntryTypes]
Usable(m) == {k \in 1..Len(m) : m[k].type = "usable"}
PagesOf(e) == e.base..(e.base + e.length - 1)

ASSUME PageSizeAssumption == PageSize \in Nat \ {0}
ASSUME WordBitsAssumption == WordBits \in Nat \ {0}
ASSUME WmPagesAssumption == WmPages \in Nat \ {0}
ASSUME HighPageAssumption == HighPage \in Nat
ASSUME NoOneAssumption == NoOne \notin Callers

\* Every call in the kernel passes a positive size.
ASSUME ByteSizesAssumption == ByteSizes \subseteq Nat \ {0}

\* The loader promises usable entries that do not overlap one another.
ASSUME MMapsAssumption ==
    \A m \in MMaps :
        /\ m \in Seq(Entries) /\ Len(m) > 1
        /\ \A a, b \in Usable(m) :
               a # b => PagesOf(m[a]) \cap PagesOf(m[b]) = {}

VARIABLES mmap,       \* the memory map of this boot
          phase,      \* "boot", "up" or "fatal"
          host,       \* the entry that holds the watermark area and the bitmap
          sz,         \* pmm_bm->sz
          bits,       \* pages whose bit is 1
          pmm_usedmem,    \* pmm_usedmem, in bytes
          pmm_freemem,    \* pmm_freemem, in bytes
          pmm_mutex,  \* its owner
          pc,         \* where each caller is
          req,        \* what each caller asked for
          found,      \* the run each caller's search returned
          grants      \* the runs handed out, in order (history)

callvars == <<pmm_mutex, pc, req, found, grants>>
bootvars == <<mmap, host, sz>>
pmmvars == <<bootvars, phase, bits, pmm_usedmem, pmm_freemem, callvars>>

-----------------------------------------------------------------------------
(* Boot *)

\* Pages that a number of bytes takes: align(x, PMM_PAGESIZE) / PMM_PAGESIZE.
Pages(x) == AlignUp(x, PageSize) \div PageSize

\* The bitmap covers memory up to the end of the last entry, or of the last but
\* one when the last is reserved.
bm_size(m) ==
    LET last == IF m[Len(m)].type = "reserved" THEN m[Len(m) - 1] ELSE m[Len(m)]
    IN  last.base + last.length
bm_bytes(m) == bm_size(m) \div 8

\* The first usable entry with room for the watermark area and the bitmap.
Fits(m, k) ==
    /\ m[k].type = "usable"
    /\ m[k].length >= WmPages + Pages(bm_bytes(m))
IsHost(m, h) == h \in 1..Len(m) /\ Fits(m, h) /\ \A k \in 1..(h - 1) : ~Fits(m, k)

\* The pages marked as used at the head of the host entry.  The loop counts the
\* bitmap's bits as if they were bytes, so it may take more than bm_bytes.
Marked(m, h) == m[h].base..(m[h].base + WmPages + Pages(bm_size(m)) - 1)

UsablePages(m, from) ==
    UNION {PagesOf(m[k]) : k \in {j \in from..Len(m) : m[j].type = "usable"}}

\* All bits start as 1; the entries are visited in order, each clears its pages,
\* the host then sets the marked ones again; page 0 is set last.
BootBits(m, h, size) ==
    ((0..(size - 1)) \ UsablePages(m, 1))
        \cup (Marked(m, h) \ UsablePages(m, h + 1))
        \cup {0}

\* What the loop over the usable entries adds to pmm_freemem.
Lengths(m) == [k \in Usable(m) |-> m[k].length]

NoRequest == [size |-> 0, start_at |-> 0]

PmmInit ==
    /\ mmap \in MMaps /\ phase = "boot"
    /\ host = 0 /\ sz = 0 /\ bits = {}
    /\ pmm_usedmem = 0 /\ pmm_freemem = 0
    /\ pmm_mutex = NoOne
    /\ pc = [c \in Callers |-> "idle"]
    /\ req = [c \in Callers |-> NoRequest]
    /\ found = [c \in Callers |-> NotFound]
    /\ grants = <<>>

\* pmm_init with a candidate: set() stops the kernel on a page past the bitmap.
pmm_init ==
    /\ phase = "boot"
    /\ \E h \in 1..Len(mmap) :
           /\ IsHost(mmap, h)
           /\ host' = h
           /\ sz' = InitSize(bm_size(mmap), WordBits)
           /\ phase' = IF UsablePages(mmap, 1) \cup Marked(mmap, h) \cup {0} \subseteq 0..(sz' - 1)
                       THEN "up" ELSE "fatal"
           /\ bits' = IF phase' = "up" THEN BootBits(mmap, h, sz') ELSE bits
    /\ pmm_freemem' = PageSize * SumFunction(Lengths(mmap))
    /\ UNCHANGED <<mmap, pmm_usedmem, callvars>>

\* "No good candidate found for bitmap and WM alloc!"
pmm_init_NoCandidate ==
    /\ phase = "boot"
    /\ \A k \in 1..Len(mmap) : ~Fits(mmap, k)
    /\ phase' = "fatal"
    /\ UNCHANGED <<bootvars, bits, pmm_usedmem, pmm_freemem, callvars>>

-----------------------------------------------------------------------------
(* pmm_alloc and pmm_alloc4g: the same body with a different start_at *)

Call(c, size, start_at) ==
    /\ phase = "up" /\ pc[c] = "idle"
    /\ req' = [req EXCEPT ![c] = [size |-> size, start_at |-> start_at]]
    /\ pc' = [pc EXCEPT ![c] = "want"]
    /\ UNCHANGED <<bootvars, phase, bits, pmm_usedmem, pmm_freemem, pmm_mutex, found, grants>>

pmm_alloc(c, size) == Call(c, size, HighPage)

pmm_alloc4g(c, size) == Call(c, size, 0)

\* Slips in the allocators.
LockNotExclusive(c) ==
    /\ phase = "up" /\ pc[c] = "want"
    /\ pmm_mutex' = c
    /\ pc' = [pc EXCEPT ![c] = "locked"]
    /\ UNCHANGED <<bootvars, phase, bits, pmm_usedmem, pmm_freemem, req, found, grants>>

AccountUnaligned(c) ==
    /\ phase = "up" /\ pc[c] = "locked"
    /\ pmm_usedmem' = pmm_usedmem + req[c].size
    /\ pmm_freemem' = pmm_freemem - req[c].size
    /\ pc' = [pc EXCEPT ![c] = "accounted"]
    /\ UNCHANGED <<bootvars, phase, bits, pmm_mutex, req, found, grants>>

Lock(c) ==
    /\ phase = "up" /\ pc[c] = "want"
    /\ pmm_mutex = NoOne
    /\ pmm_mutex' = c
    /\ pc' = [pc EXCEPT ![c] = "locked"]
    /\ UNCHANGED <<bootvars, phase, bits, pmm_usedmem, pmm_freemem, req, found, grants>>

\* The counters move before it is known whether there is room.
Account(c) ==
    /\ phase = "up" /\ pc[c] = "locked"
    /\ pmm_usedmem' = pmm_usedmem + AlignUp(req[c].size, PageSize)
    /\ pmm_freemem' = pmm_freemem - AlignUp(req[c].size, PageSize)
    /\ pc' = [pc EXCEPT ![c] = "accounted"]
    /\ UNCHANGED <<bootvars, phase, bits, pmm_mutex, req, found, grants>>

\* The search reads the bitmap; without room the kernel stops.
Search(c) ==
    /\ phase = "up" /\ pc[c] = "accounted"
    /\ \E r \in NotFound..(sz - 1) :
           /\ find_and_set_multiple(bits, sz, Pages(req[c].size), req[c].start_at, r)
           /\ found' = [found EXCEPT ![c] = r]
           /\ phase' = IF r = NotFound THEN "fatal" ELSE "up"
    /\ pc' = [pc EXCEPT ![c] = "found"]
    /\ UNCHANGED <<bootvars, bits, pmm_usedmem, pmm_freemem, pmm_mutex, req, grants>>

\* The bits of the run are set and the run is the caller's.
Mark(c) ==
    /\ phase = "up" /\ pc[c] = "found"
    /\ bits' = SetRange(bits, found[c], Pages(req[c].size))
    /\ grants' = Append(grants, [first |-> found[c], n |-> Pages(req[c].size),
                                 start_at |-> req[c].start_at])
    /\ pc' = [pc EXCEPT ![c] = "marked"]
    /\ UNCHANGED <<bootvars, phase, pmm_usedmem, pmm_freemem, pmm_mutex, req, found>>

Unlock(c) ==
    /\ phase = "up" /\ pc[c] = "marked"
    /\ pmm_mutex' = NoOne
    /\ pc' = [pc EXCEPT ![c] = "idle"]
    /\ req' = [req EXCEPT ![c] = NoRequest]
    /\ found' = [found EXCEPT ![c] = NotFound]
    /\ UNCHANGED <<bootvars, phase, bits, pmm_usedmem, pmm_freemem, grants>>

Step(c) == Lock(c) \/ Account(c) \/ Search(c) \/ Mark(c) \/ Unlock(c)

PmmNext ==
    \/ pmm_init
    \/ pmm_init_NoCandidate
    \/ \E c \in Callers, size \in ByteSizes : pmm_alloc(c, size) \/ pmm_alloc4g(c, size)
    \/ \E c \in Callers : Step(c)

PmmSpec == PmmInit /\ [][PmmNext]_pmmvars

-----------------------------------------------------------------------------
(* Properties *)

GrantPages(g) == g.first..(g.first + g.n - 1)
Granted == UNION {GrantPages(grants[k]) : k \in 1..Len(grants)}
Critical(c) == pc[c] \in {"locked", "accounted", "found", "marked"}

\* The variables have their types (Accounting says what pmm_freemem holds).
PmmTypeOK ==
    /\ mmap \in MMaps /\ phase \in {"boot", "up", "fatal"}
    /\ host \in 0..Len(mmap) /\ sz \in Nat /\ bits \subseteq 0..(sz - 1)
    /\ pmm_usedmem \in Nat
    /\ pmm_mutex \in Callers \cup {NoOne}
    /\ pc \in [Callers -> {"idle", "want", "locked", "accounted", "found", "marked"}]
    /\ req \in [Callers -> [size : ByteSizes \cup {0}, start_at : {0, HighPage}]]
    /\ found \in [Callers -> NotFound..(sz - 1)]
    /\ grants \in Seq([first : 0..(sz - 1), n : Nat, start_at : {0, HighPage}])

\* No page is handed out twice: two runs returned by pmm_alloc or pmm_alloc4g,
\* at whatever times and to whichever callers, have no page in common.
GrantsDisjoint ==
    \A a, b \in 1..Len(grants) :
        a # b => GrantPages(grants[a]) \cap GrantPages(grants[b]) = {}

\* No page gets lost or appears: the set bits are those of boot and those of the
\* runs handed out since.
BitsAreGrants ==
    phase = "up" => bits = BootBits(mmap, host, sz) \cup Granted

\* What the allocators hand out is usable memory, and never page 0, the
\* watermark area or the pages the bitmap itself lies in.
OnlyFreeMemory ==
    \A p \in Granted :
        /\ p # 0 /\ \E k \in Usable(mmap) : p \in PagesOf(mmap[k])
        /\ p \notin mmap[host].base..
                       (mmap[host].base + WmPages + Pages(bm_bytes(mmap)) - 1)

\* Between two critical sections the counters agree with the bitmap: the used
\* bytes are those of the runs handed out, the rest of usable memory is free.
Accounting ==
    phase = "up" /\ pmm_mutex = NoOne =>
        /\ pmm_usedmem = PageSize * SumFunction([k \in 1..Len(grants) |-> grants[k].n])
        /\ pmm_usedmem + pmm_freemem = PageSize * SumFunction(Lengths(mmap))

\* What test.cc asserts of memory from kmalloc4g (pmm_alloc4g): it lies below
\* the 4 GiB line.
Below4G ==
    \A k \in 1..Len(grants) :
        grants[k].start_at = 0 => grants[k].first + grants[k].n <= HighPage

\* What pmm_alloc and pmm_alloc4g hand out is safe to use: usable memory that
\* nobody else has, recorded in the bitmap and nothing else recorded.
GrantsSafe == PmmTypeOK /\ GrantsDisjoint /\ BitsAreGrants /\ OnlyFreeMemory
=============================================================================
