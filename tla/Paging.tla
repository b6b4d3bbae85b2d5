------------------------------- MODULE Paging -------------------------------
(***************************************************************************)
(* Page tables (arch/amd64/paging.cc, paging.hh), the demand paging of the *)
(* kernel heap (the page fault case of onInterrupt, arch/amd64/idt.cc) and *)
(* the address space of a program (loader/loader.cc).  An address is a     *)
(* page number; a table has Fan entries, the PML4 Top, so a "2 MiB" page   *)
(* (size 1) has Fan pages and a "1 GiB" page (size 2) Fan^2.  The upper    *)
(* half of the addresses is the kernel's.  A table is named by where the   *)
(* watermark allocator's block was hooked in when it was allocated: the    *)
(* PML4 it hangs from and the indices down to it.                          *)
(***************************************************************************)
EXTENDS Integers, Sequences, FiniteSets

CONSTANTS Fan, Top,   \* entries of a table and of the PML4: 512
          Devices,    \* the kernel addresses drivers and modules map
          HhdmSizes,  \* page sizes the boot loader may have used
          MaxFrames,  \* bound: frames allocated
          MaxKernel,  \* bound: of them, frames for the kernel
          Segments    \* the PT_LOAD segments a program may have: [at, pages]

VARIABLES tables,     \* the page tables in memory
          nextframe,  \* frames below it have been handed out by pmm_alloc
          program,    \* the program being loaded or loaded
          asked,      \* ghost: what the last map_page of an address asked for
          frameowner  \* ghost: whom pmm_alloc gave a frame to

pagingvars == <<tables, nextframe, program, asked, frameowner>>

Size == Top * Fan^3
VPages == 0 .. Size - 1
Half == Size \div 2
PageBase == Half + Fan^3           \* the HHDM, VIRTUAL(0)
Heap == {Half}                     \* 0xffff90...: filled by page faults
Hhdm == PageBase .. Size - 1       \* mapped at boot
Stack == Half - Fan                \* VSTACK, the last 2 MiB below the kernel
Kernel == <<1>>                    \* the kernel's PML4, and a program's
User == <<2>>
NoTable == << >>

Index(v, level) == (v \div Fan^(level - 1)) % (IF level = 4 THEN Top ELSE Fan)
Down(a, size) == a - (a % Fan^size)

NoEntry == [present |-> FALSE, to |-> 0, table |-> NoTable, huge |-> FALSE, user |-> FALSE,
            rw |-> FALSE, nx |-> FALSE]
EmptyTable == [i \in 0 .. Top - 1 |-> NoEntry]

KDATA == [user |-> FALSE, rw |-> TRUE, exe |-> FALSE]
UDATA == [KDATA EXCEPT !.user = TRUE]
Code  == [KDATA EXCEPT !.exe = TRUE]
UCode == [user |-> TRUE, rw |-> TRUE, exe |-> TRUE]

LeafEntry(to, fl, size) ==
  [present |-> TRUE, to |-> to, table |-> NoTable, huge |-> size > 0,
   user |-> fl.user, rw |-> fl.rw, nx |-> ~fl.exe]

(* What the processor makes of an address: its frame and the rights, which *)
(* every level must grant.                                                 *)
PageWalk(ts, root, v) ==
  LET e4 == ts[root][Index(v, 4)]
      e3 == ts[e4.table][Index(v, 3)]
      e2 == ts[e3.table][Index(v, 2)]
      e1 == ts[e2.table][Index(v, 1)]
      es == IF ~e4.present THEN <<e4>>
            ELSE IF ~e3.present \/ e3.huge THEN <<e4, e3>>
            ELSE IF ~e2.present \/ e2.huge THEN <<e4, e3, e2>>
            ELSE <<e4, e3, e2, e1>>
      leaf == es[Len(es)]
  IN IF ~leaf.present THEN [frame |-> -1]
     ELSE [frame |-> leaf.to + (v % Fan^(4 - Len(es))),
           user  |-> \A i \in DOMAIN es : es[i].user,
           rw    |-> \A i \in DOMAIN es : es[i].rw,
           exe   |-> \A i \in DOMAIN es : ~es[i].nx]

(* paging_lookup: the physical address or -1.  It reads an entry of the    *)
(* page directory before it asks whether the entry above is a 1 GiB page;  *)
(* HhdmSizes leaves those out.                                             *)
paging_lookup(ts, root, v) ==
  LET e4 == ts[root][Index(v, 4)]
      e3 == ts[e4.table][Index(v, 3)]
      e2 == ts[e3.table][Index(v, 2)]
      e1 == ts[e2.table][Index(v, 1)]
  IN IF ~e4.present \/ ~e3.present \/ ~e2.present THEN -1
     ELSE IF e2.huge THEN e2.to + (v % Fan)
     ELSE IF e1.present THEN e1.to ELSE -1

NewTable(c, i, fl) ==
  LET id == Append(c.at, i)
      hook == [LeafEntry(0, fl, 0) EXCEPT !.table = id]
  IN [ts |-> [t \in DOMAIN c.ts \cup {id} |->
                IF t = id THEN EmptyTable
                ELSE IF t = c.at THEN [c.ts[t] EXCEPT ![i] = hook] ELSE c.ts[t]],
      at |-> id, path |-> Append(c.path, <<c.at, i>>)]

(* One level down: the table an entry leads to, opened to the user if the  *)
(* mapping is, or a cleared table from the watermark allocator that gets   *)
(* the flags of the mapping.                                               *)
Enter(c, i, fl) ==
  LET e == c.ts[c.at][i]
  IN IF e.present
     THEN [ts |-> [c.ts EXCEPT ![c.at][i].user = @ \/ fl.user],
           at |-> e.table, path |-> Append(c.path, <<c.at, i>>)]
     ELSE NewTable(c, i, fl)

\* Mutant of Opened: only the last entry on the way is opened for execution.
Opened_Last(fl, path) == IF fl.exe THEN {path[Len(path)]} ELSE {}

(* The entries whose no-execute bit an executable page clears.             *)
Opened(fl, path) == IF fl.exe THEN {path[k] : k \in DOMAIN path} ELSE {}

(* map_page: the walk to the level of the page size, then the entry; an    *)
(* executable page also clears the no-execute bit of every level above it. *)
map_page(ts, root, virt, phys, fl, size) ==
  LET v  == Down(virt, size)
      c4 == Enter([ts |-> ts, at |-> root, path |-> << >>], Index(v, 4), fl)
      c3 == IF size = 2 THEN c4 ELSE Enter(c4, Index(v, 3), fl)
      c2 == IF size >= 1 THEN c3 ELSE Enter(c3, Index(v, 2), fl)
  IN [t \in DOMAIN c2.ts |-> [i \in 0 .. Top - 1 |->
        IF t = c2.at /\ i = Index(v, size + 1)
        THEN LeafEntry(Down(phys, size), fl, size)
        ELSE IF <<t, i>> \in Opened(fl, c2.path)
        THEN [c2.ts[t][i] EXCEPT !.nx = FALSE]
        ELSE c2.ts[t][i]]]

(* The ghost of a call of map_page: every page it covers.                  *)
Ask(a, root, virt, phys, fl, size) ==
  [x \in DOMAIN a \cup {<<root, Down(virt, size) + k>> : k \in 0 .. Fan^size - 1} |->
     IF x[1] = root /\ Down(x[2], size) = Down(virt, size)
     THEN [frame |-> Down(phys, size) + (x[2] % Fan^size), fl |-> fl]
     ELSE a[x]]

KernelMay ==
  /\ program.state # "halted" /\ nextframe < MaxFrames
  /\ Cardinality({f \in DOMAIN frameowner : frameowner[f] = "kernel"}) < MaxKernel

(* The kernel, a driver or a module maps a page into the kernel's tables:  *)
(* pci_prepare_bar and the APIC code device memory, modules_load its       *)
(* frames.  Neither maps an address inside a huge page of the boot loader. *)
MapKernel(v, fl) ==
  /\ v \in Devices
  /\ KernelMay
  /\ tables' = map_page(tables, Kernel, v, nextframe, fl, 0)
  /\ asked' = Ask(asked, Kernel, v, nextframe, fl, 0)
  /\ frameowner' = [frameowner EXCEPT ![nextframe] = "kernel"]
  /\ nextframe' = nextframe + 1
  /\ UNCHANGED program

(* check_page: maps an address of the direct map that is not mapped.       *)
check_page(v) ==
  /\ v \in Hhdm /\ program.state # "halted"
  /\ tables' = IF paging_lookup(tables, Kernel, v) = -1
               THEN map_page(tables, Kernel, v, v - PageBase, KDATA, 0)
               ELSE tables
  /\ asked' = IF paging_lookup(tables, Kernel, v) = -1
              THEN Ask(asked, Kernel, v, v - PageBase, KDATA, 0)
              ELSE asked
  /\ UNCHANGED <<nextframe, program, frameowner>>

(* A page fault at an address of the kernel heap gets a frame, in the      *)
(* tables of the kernel whatever address space is loaded.                  *)
HeapFault(v) ==
  /\ v \in Heap /\ PageWalk(tables, Kernel, v).frame = -1
  /\ KernelMay
  /\ tables' = map_page(tables, Kernel, v, nextframe, KDATA, 0)
  /\ asked' = Ask(asked, Kernel, v, nextframe, KDATA, 0)
  /\ frameowner' = [frameowner EXCEPT ![nextframe] = "kernel"]
  /\ nextframe' = nextframe + 1
  /\ UNCHANGED program

\* Mutant of NewSpace: the kernel's half is not copied.
NewSpace_Cleared(ts) == [t \in DOMAIN ts \cup {User} |-> IF t = User THEN EmptyTable ELSE ts[t]]

(* A new PML4: the kernel's half copied, the user's half cleared.          *)
NewSpace(ts) ==
  [t \in DOMAIN ts \cup {User} |->
     IF t # User THEN ts[t]
     ELSE [i \in 0 .. Top - 1 |-> IF i >= Top \div 2 THEN ts[Kernel][i] ELSE NoEntry]]

(* program::program begins: the address space.                             *)
Create(segs) ==
  /\ program.state = "none"
  /\ tables' = NewSpace(tables)
  /\ program' = [state |-> "load", cr3 |-> User, segs |-> segs, i |-> 1,
                 slots |-> {i \in 0 .. Top - 1 : i >= Top \div 2 /\ tables[Kernel][i].present},
                 stack |-> 0]
  /\ UNCHANGED <<nextframe, asked, frameowner>>

(* Whether the first page of a segment still needs a frame.                *)
NeedsFrame(prog, s) == paging_lookup(tables, prog.cr3, s.at) = -1

(* One PT_LOAD segment.  The loop advances by 2 MiB and maps a 4 KiB page  *)
(* each time, so of a segment within 2 MiB only the first page is mapped;  *)
(* clearing a longer one then faults, which halts the kernel.              *)
LoadSegment ==
  LET s == program.segs[program.i]
      need == NeedsFrame(program, s)
  IN /\ program.state = "load" /\ program.i <= Len(program.segs)
     /\ need => nextframe < MaxFrames
     /\ tables' = IF need
                  THEN map_page(tables, program.cr3, s.at, nextframe, UCode, 0)
                  ELSE tables
     /\ asked' = IF need THEN Ask(asked, program.cr3, s.at, nextframe, UCode, 0)
                 ELSE asked
     /\ frameowner' = IF need THEN [frameowner EXCEPT ![nextframe] = "program"] ELSE frameowner
     /\ nextframe' = IF need THEN nextframe + 1 ELSE nextframe
     /\ program' = IF \A k \in 0 .. s.pages - 1 :
                        PageWalk(tables', program.cr3, s.at + k).frame # -1
                   THEN [program EXCEPT !.i = @ + 1]
                   ELSE [program EXCEPT !.state = "halted"]

StackFrames == Fan                 \* USER_STACK_SIZE

(* The user stack: 2 MiB of frames, aligned to a frame only, mapped as one *)
(* 2 MiB page, which rounds their address down.                            *)
LoadStack ==
  /\ program.state = "load" /\ program.i > Len(program.segs)
  /\ nextframe + StackFrames <= MaxFrames
  /\ tables' = map_page(tables, program.cr3, Stack, nextframe, UDATA, 1)
  /\ asked' = Ask(asked, program.cr3, Stack, nextframe, UDATA, 1)
  /\ frameowner' = [f \in DOMAIN frameowner |->
                 IF f \in nextframe .. nextframe + StackFrames - 1 THEN "program" ELSE frameowner[f]]
  /\ nextframe' = nextframe + StackFrames
  /\ program' = [program EXCEPT !.state = "ready", !.stack = nextframe]

(* The tables the boot loader leaves: the direct map, in pages of one size *)
(* (its first page is left out: check_page finds something to do).         *)
Booted(size) ==
  LET start == [t \in {Kernel, NoTable} |-> EmptyTable]
      ends == {v \in Hhdm : v % Fan^size = 0 /\ v - PageBase >= Fan}
      f[n \in 0 .. Cardinality(Hhdm)] ==
        IF n = 0 THEN start
        ELSE IF (PageBase + n - 1) \in ends
             THEN map_page(f[n - 1], Kernel, PageBase + n - 1, n - 1, KDATA, size)
             ELSE f[n - 1]
  IN f[Cardinality(Hhdm)]

PagingInit ==
  /\ tables \in {Booted(size) : size \in HhdmSizes}
  /\ nextframe \in {0, 1}
  /\ program = [state |-> "none", cr3 |-> NoTable, segs |-> << >>, i |-> 1,
                slots |-> {}, stack |-> 0]
  /\ asked = << >>
  /\ frameowner = [f \in 0 .. MaxFrames - 1 |-> "none"]

PagingNext ==
  \/ \E v \in VPages, fl \in {KDATA, Code} : MapKernel(v, fl)
  \/ \E v \in VPages : check_page(v) \/ HeapFault(v)
  \/ \E s \in Segments : Create(s)
  \/ LoadSegment \/ LoadStack

PagingSpec == PagingInit /\ [][PagingNext]_pagingvars
-----------------------------------------------------------------------------
Roots == {Kernel} \cup (IF program.cr3 = NoTable THEN {} ELSE {program.cr3})

(* LookupRight: paging_lookup answers what the processor would translate   *)
(* an address to, in every address space and after any history of          *)
(* map_page calls, huge pages included.                                    *)
LookupRight ==
  \A root \in Roots, v \in VPages :
    paging_lookup(tables, root, v) = PageWalk(tables, root, v).frame

(* MappingsKept: whatever is mapped later, next to it or in tables it      *)
(* shares, an address map_page was given still leads to the frame it was   *)
(* mapped to, is executable and reachable by the user when that was asked, *)
(* and is never opened to the user when it was not.                        *)
MappingsKept ==
  \A x \in DOMAIN asked :
    LET w == PageWalk(tables, x[1], x[2])
        a == asked[x]
    IN /\ w.frame = a.frame /\ w.rw
       /\ w.user = a.fl.user
       /\ a.fl.exe => w.exe

(* KernelShared: in the address space of a program every kernel address    *)
(* under a PML4 entry that existed when the program was made translates as *)
(* in the kernel's own tables, for pages mapped later too, so the kernel   *)
(* can run a system call or an interrupt there.                            *)
KernelShared ==
  program.cr3 # NoTable =>
    \A v \in Half .. Size - 1 : Index(v, 4) \in program.slots =>
      PageWalk(tables, program.cr3, v).frame = PageWalk(tables, Kernel, v).frame

(* FramesOwned: user code reaches only frames that pmm_alloc gave to the   *)
(* program, provided the frames of its stack happened to be aligned to     *)
(* 2 MiB, and it reaches the page of every segment and of its stack.       *)
FramesOwned ==
  program.state = "ready" /\ program.stack % Fan = 0 =>
    /\ \A v \in VPages :
         LET w == PageWalk(tables, program.cr3, v)
         IN w.frame # -1 /\ w.user => frameowner[w.frame] = "program"
    /\ \A i \in DOMAIN program.segs : PageWalk(tables, program.cr3, program.segs[i].at).user
    /\ PageWalk(tables, program.cr3, Stack).user

(* TranslationRight: what map_page was asked, what the processor does and  *)
(* what paging_lookup says agree.                                          *)
TranslationRight == LookupRight /\ MappingsKept

(* ProgramSpace: the address space the loader builds shows a program its   *)
(* own memory and the kernel the whole of its half.                        *)
ProgramSpace == KernelShared /\ FramesOwned
=============================================================================
