-------------------------------- MODULE Smp ---------------------------------
(***************************************************************************)
(* Bringing up the processors and the interrupt controllers: the tables of *)
(* a processor (arch/amd64/amd64.cc, gdt.cc, tss.cc, arch_idt_init), the   *)
(* MADT, the I/O APICs and the wait for the other processors (apic.cc,     *)
(* smp.cc), the vectors (idt.cc) and the drivers that then ask for an IRQ  *)
(* (arch_assign_irq).  Processor 0 boots; the boot loader releases the     *)
(* others when smp_init tells it where to.  A unit of memory is 64 bytes,  *)
(* a page PageUnits of them.                                               *)
(***************************************************************************)
EXTENDS Integers, Sequences, FiniteSets

CONSTANTS APs,       \* APIC ids of the processors the boot loader starts
          Madts,     \* the MADTs to boot with: sequences of entries
          Irqs,      \* IRQ numbers, 0 the timer's
          Pins,      \* GSIs an I/O APIC serves: 24
          FirstVector, TimerVector, LastVector, \* 0x21, 0x40, 255
          DriverIrqs,\* the IRQs drivers ask for, in their order
          PageUnits, \* units in 0x1000 bytes
          Wait,      \* 300: milliseconds the other processors get in all
          MaxEarly   \* bound: ticks before the wait

VARIABLES cpupc,     \* where each processor is in arch_late_init
          blocks,    \* blocks of the watermark allocator, by owner and kind
          wm_top,
          handler,   \* vector -> who is called
          boot,      \* the boot processor: where it is
          madt, redirection_table, ioapics, entries, cpus, up,
          tmr_counter, timer, timedout,
          started    \* ghost: tmr_counter when the processors were released

smpvars == <<cpupc, blocks, wm_top, handler, boot, madt, redirection_table,
             ioapics, entries, cpus, up, tmr_counter, timer, timedout, started>>

Cpus == {0} \cup APs
Vectors == FirstVector .. LastVector
onInterrupt == -1
NoEntryYet == [vector |-> -1, mask |-> TRUE]

(* wm_alloc aligns a block to its own size.                                *)
wm_aligned(size) == ((wm_top + size - 1) \div size) * size

Allocate(c, kind, size) ==
  /\ blocks' = [x \in DOMAIN blocks \cup {<<c, kind>>} |->
                  IF x = <<c, kind>>
                  THEN [at |-> wm_aligned(size), size |-> size, ok |-> FALSE]
                  ELSE blocks[x]]
  /\ wm_top' = wm_aligned(size) + size

bootvars == <<boot, madt, redirection_table, ioapics, entries, cpus, timer,
              timedout, started>>

(* A processor in arch_late_init: it allocates its GDT ...                 *)
GdtAlloc(c) ==
  /\ cpupc[c] = "gdt" /\ Allocate(c, "gdt", 1)
  /\ cpupc' = [cpupc EXCEPT ![c] = "clear"]
  /\ UNCHANGED <<bootvars, handler, up, tmr_counter>>

(* ... clears a whole page there, the GDT being one unit of it, and fills  *)
(* the GDT in.                                                             *)
GdtFill(c) ==
  LET at == blocks[<<c, "gdt">>].at
      Hit(b) == b.at < at + PageUnits /\ b.at + b.size > at
  IN /\ cpupc[c] = "clear"
     /\ blocks' = [x \in DOMAIN blocks |->
                     [blocks[x] EXCEPT !.ok = IF x = <<c, "gdt">> THEN TRUE
                                              ELSE @ /\ ~Hit(blocks[x])]]
     /\ cpupc' = [cpupc EXCEPT ![c] = "tss"]
     /\ UNCHANGED <<bootvars, wm_top, handler, up, tmr_counter>>

Filled(b, x) == [b EXCEPT ![x].ok = TRUE]

TssInit(c) ==
  /\ cpupc[c] = "tss" /\ Allocate(c, "tss", 2)
  /\ cpupc' = [cpupc EXCEPT ![c] = "tssfill"]
  /\ UNCHANGED <<bootvars, handler, up, tmr_counter>>

TssFill(c) ==
  /\ cpupc[c] = "tssfill"
  /\ blocks' = Filled(blocks, <<c, "tss">>)
  /\ cpupc' = [cpupc EXCEPT ![c] = "idt"]
  /\ UNCHANGED <<bootvars, wm_top, handler, up, tmr_counter>>

IdtInit(c) ==
  /\ cpupc[c] = "idt" /\ Allocate(c, "idt", PageUnits)
  /\ cpupc' = [cpupc EXCEPT ![c] = "idtfill"]
  /\ UNCHANGED <<bootvars, handler, up, tmr_counter>>

(* arch_idt_init also gives every vector back to onInterrupt, in the table *)
(* all processors share.                                                   *)
IdtFill(c) ==
  /\ cpupc[c] = "idtfill"
  /\ blocks' = Filled(blocks, <<c, "idt">>)
  /\ handler' = [v \in Vectors |-> onInterrupt]
  /\ cpupc' = [cpupc EXCEPT ![c] = "thread"]
  /\ UNCHANGED <<bootvars, wm_top, up, tmr_counter>>

(* The end of arch_late_init: the boot processor goes on with kmain, the   *)
(* others report themselves (ap_init) and halt.                            *)
Thread(c) ==
  /\ cpupc[c] = "thread" /\ Allocate(c, "thread", 1)
  /\ cpupc' = [cpupc EXCEPT ![c] = "run"]
  /\ up' = IF c \in {cpus[i] : i \in DOMAIN cpus} THEN up \cup {c} ELSE up
  /\ boot' = IF c = 0 THEN [boot EXCEPT !.pc = "madt"] ELSE boot
  /\ UNCHANGED <<madt, redirection_table, ioapics, entries, cpus, timer, timedout,
                 started, handler, tmr_counter>>

cpuvars == <<cpupc, blocks, wm_top, handler, up>>

(* arch_parse_madt, one entry.                                             *)
MadtEntry ==
  /\ boot.pc = "madt" /\ boot.i <= Len(madt)
  /\ LET e == madt[boot.i]
     IN /\ cpus' = IF e.type = "lapic" /\ e.id # 0 THEN Append(cpus, e.id) ELSE cpus
        /\ ioapics' = IF e.type = "ioapic" THEN Append(ioapics, e.base) ELSE ioapics
        /\ redirection_table' = IF e.type = "override"
                                THEN [redirection_table EXCEPT ![e.irq] = e.gsi]
                                ELSE redirection_table
  /\ boot' = [boot EXCEPT !.i = @ + 1]
  /\ UNCHANGED <<cpuvars, madt, entries, timer, timedout, started, tmr_counter>>

(* Its end: without an I/O APIC in the MADT one is looked for at the usual *)
(* address, and its absence is fatal.                                      *)
MadtEnd ==
  /\ boot.pc = "madt" /\ boot.i > Len(madt)
  /\ \/ ioapics # << >> /\ boot' = [boot EXCEPT !.pc = "timer"] /\ UNCHANGED ioapics
     \/ ioapics = << >> /\ boot' = [boot EXCEPT !.pc = "timer"] /\ ioapics' = <<0>>
     \/ ioapics = << >> /\ boot' = [boot EXCEPT !.pc = "fatal"] /\ UNCHANGED ioapics
  /\ UNCHANGED <<cpuvars, madt, redirection_table, entries, cpus, timer, timedout,
                 started, tmr_counter>>

Serves(base, gsi) == gsi >= base /\ gsi - base < Pins
Matching(gsi) == {i \in DOMAIN ioapics : Serves(ioapics[i], gsi)}
bestmatch(gsi) == ioapics[CHOOSE i \in Matching(gsi) : \A j \in Matching(gsi) : i <= j]

(* arch_ioapic_initialize_irq, arch_ioapic_mask_irq: the register is that  *)
(* of the GSI itself, whatever the base of the I/O APIC.                   *)
Register(irq) == <<bestmatch(redirection_table[irq]), redirection_table[irq]>>
initialize_irq(irq, vector) ==
  [entries EXCEPT ![Register(irq)] = [vector |-> vector, mask |-> TRUE]]
mask_irq(irq, mask) == [entries EXCEPT ![Register(irq)].mask = mask]

TimerEntry ==
  /\ boot.pc = "timer"
  /\ IF Matching(redirection_table[0]) = {}
     THEN boot' = [boot EXCEPT !.pc = "fatal"] /\ UNCHANGED entries
     ELSE /\ entries' = initialize_irq(0, TimerVector)
          /\ boot' = [boot EXCEPT !.pc = "unmask"]
  /\ UNCHANGED <<cpuvars, madt, redirection_table, ioapics, cpus, timer, timedout,
                 started, tmr_counter>>

\* Mutant of TimerUnmask: the timer entry stays masked.
TimerUnmask_Not ==
  /\ boot.pc = "unmask"
  /\ boot' = [boot EXCEPT !.pc = "smp"]
  /\ UNCHANGED <<cpuvars, madt, redirection_table, ioapics, entries, cpus, timer,
                 timedout, started, tmr_counter>>

TimerUnmask ==
  /\ boot.pc = "unmask"
  /\ entries' = mask_irq(0, FALSE)
  /\ boot' = [boot EXCEPT !.pc = "smp"]
  /\ UNCHANGED <<cpuvars, madt, redirection_table, ioapics, cpus, timer, timedout,
                 started, tmr_counter>>

(* smp_init: the boot loader's processors jump to ap_init.                 *)
smp_init ==
  /\ boot.pc = "smp"
  /\ cpupc' = [c \in Cpus |-> IF c = 0 THEN cpupc[c] ELSE "released"]
  /\ boot' = [boot EXCEPT !.pc = "start"]
  /\ started' = tmr_counter
  /\ UNCHANGED <<blocks, wm_top, handler, up, madt, redirection_table, ioapics,
                 entries, cpus, timer, timedout, tmr_counter>>

(* A released processor gets going, or never does.                         *)
Arrive(c) ==
  /\ cpupc[c] = "released"
  /\ cpupc' = [cpupc EXCEPT ![c] = "gdt"]
  /\ UNCHANGED <<bootvars, blocks, wm_top, handler, up, tmr_counter>>

arch_start_timer == tmr_counter

StartTimer ==
  /\ boot.pc = "start"
  /\ timer' = arch_start_timer
  /\ boot' = [pc |-> "wait", i |-> 1]
  /\ UNCHANGED <<cpuvars, madt, redirection_table, ioapics, entries, cpus, timedout,
                 started, tmr_counter>>

arch_elapsed(ms) == tmr_counter > timer + ms

\* Mutant of WaitUp: the processors are not waited for.
WaitUp_Not ==
  /\ boot.pc = "wait" /\ boot.i <= Len(cpus)
  /\ boot' = [boot EXCEPT !.i = @ + 1]
  /\ UNCHANGED <<cpuvars, madt, redirection_table, ioapics, entries, cpus, timer,
                 timedout, started, tmr_counter>>

(* One turn of the wait for a processor; the time is shared by all.        *)
WaitUp ==
  /\ boot.pc = "wait" /\ boot.i <= Len(cpus)
  /\ \/ cpus[boot.i] \in up /\ UNCHANGED timedout
     \/ /\ cpus[boot.i] \notin up /\ arch_elapsed(Wait)
        /\ timedout' = timedout \cup {cpus[boot.i]}
  /\ boot' = [boot EXCEPT !.i = @ + 1]
  /\ UNCHANGED <<cpuvars, madt, redirection_table, ioapics, entries, cpus, timer,
                 started, tmr_counter>>

WaitEnd ==
  /\ boot.pc = "wait" /\ boot.i > Len(cpus)
  /\ boot' = [pc |-> "map", i |-> 1]
  /\ UNCHANGED <<cpuvars, madt, redirection_table, ioapics, entries, cpus, timer,
                 timedout, started, tmr_counter>>

FreeVector == CHOOSE v \in Vectors : handler[v] = onInterrupt
               /\ \A w \in Vectors : handler[w] = onInterrupt => v <= w

(* A driver: map_page takes a page table from the watermark allocator ...  *)
DriverMap ==
  /\ boot.pc = "map" /\ boot.i <= Len(DriverIrqs)
  /\ blocks' = [x \in DOMAIN blocks \cup {<<boot.i, "table">>} |->
                  IF x = <<boot.i, "table">>
                  THEN [at |-> wm_aligned(PageUnits), size |-> PageUnits, ok |-> TRUE]
                  ELSE blocks[x]]
  /\ wm_top' = wm_aligned(PageUnits) + PageUnits
  /\ boot' = [boot EXCEPT !.pc = "vector"]
  /\ UNCHANGED <<cpupc, handler, up, madt, redirection_table, ioapics, entries, cpus,
                 timer, timedout, started, tmr_counter>>

(* ... and arch_assign_irq allocates a vector, programs the entry masked   *)
(* and unmasks it.                                                         *)
DriverVector ==
  /\ boot.pc = "vector"
  /\ handler' = [handler EXCEPT ![FreeVector] = DriverIrqs[boot.i]]
  /\ entries' = initialize_irq(DriverIrqs[boot.i], FreeVector)
  /\ boot' = [boot EXCEPT !.pc = "enable"]
  /\ UNCHANGED <<cpupc, blocks, wm_top, up, madt, redirection_table, ioapics, cpus,
                 timer, timedout, started, tmr_counter>>

DriverEnable ==
  /\ boot.pc = "enable"
  /\ entries' = mask_irq(DriverIrqs[boot.i], FALSE)
  /\ boot' = [pc |-> "map", i |-> boot.i + 1]
  /\ UNCHANGED <<cpuvars, madt, redirection_table, ioapics, cpus, timer, timedout,
                 started, tmr_counter>>

(* The GSI of an IRQ as the machine is wired: the MADT's override.         *)
WiredGsi(irq) ==
  LET os == {i \in DOMAIN madt : madt[i].type = "override" /\ madt[i].irq = irq}
  IN IF os = {} THEN irq ELSE madt[CHOOSE i \in os : TRUE].gsi

(* The entry that a raised IRQ meets: the pin counted from the I/O APIC's  *)
(* own base.                                                               *)
WiredEntry(irq) ==
  LET bases == {ioapics[i] : i \in {j \in DOMAIN ioapics : Serves(ioapics[j], WiredGsi(irq))}}
  IN IF bases = {} THEN NoEntryYet
     ELSE LET b == CHOOSE x \in bases : TRUE IN entries[<<b, WiredGsi(irq) - b>>]

(* A PIT tick counts when its entry is open and leads to onInterrupt (the  *)
(* bound: it counts to MaxEarly before the wait and to its end during it). *)
Tick ==
  /\ ~WiredEntry(0).mask /\ WiredEntry(0).vector = TimerVector
  /\ handler[TimerVector] = onInterrupt
  /\ \/ boot.pc \in {"smp", "start"} /\ tmr_counter < MaxEarly
     \/ boot.pc = "wait" /\ tmr_counter <= timer + Wait
  /\ tmr_counter' = tmr_counter + 1
  /\ UNCHANGED <<cpuvars, bootvars>>

SmpInit ==
  /\ cpupc = [c \in Cpus |-> IF c = 0 THEN "gdt" ELSE "off"]
  /\ blocks = << >> /\ wm_top = 0
  /\ handler = [v \in Vectors |-> onInterrupt]
  /\ boot = [pc |-> "late", i |-> 1]
  /\ madt \in Madts
  /\ redirection_table = [irq \in Irqs |-> irq]
  /\ ioapics = << >> /\ cpus = << >> /\ up = {}
  /\ entries = [r \in {0, Pins} \X (0 .. 2 * Pins - 1) |-> NoEntryYet]
  /\ tmr_counter = 0 /\ timer = 0 /\ timedout = {} /\ started = 0

LateInit(c) ==
  \/ GdtAlloc(c) \/ GdtFill(c) \/ TssInit(c) \/ TssFill(c)
  \/ IdtInit(c) \/ IdtFill(c) \/ Thread(c)

Bsp == \/ LateInit(0) \/ MadtEntry \/ MadtEnd \/ TimerEntry \/ TimerUnmask
       \/ smp_init \/ StartTimer \/ WaitUp \/ WaitEnd
       \/ DriverMap \/ DriverVector \/ DriverEnable

SmpNext == Bsp \/ Tick \/ \E c \in APs : Arrive(c) \/ LateInit(c)

SmpSpec == SmpInit /\ [][SmpNext]_smpvars /\ WF_smpvars(Bsp) /\ WF_smpvars(Tick)
-----------------------------------------------------------------------------
(* TablesIntact: while no processor was given up on, the GDT, TSS and IDT  *)
(* of every running processor, and the page tables drivers add, keep what  *)
(* was written to them, though each processor clears a whole page at a     *)
(* GDT it has 64 bytes of, next to blocks others allocate meanwhile.       *)
TablesIntact ==
  timedout = {} =>
    /\ \A c \in Cpus : cpupc[c] = "run" =>
         \A kind \in {"gdt", "tss", "idt"} : blocks[<<c, kind>>].ok
    /\ \A x \in DOMAIN blocks : x[2] = "table" => blocks[x].ok

(* RoutedRight: while no processor was given up on, an IRQ whose entry is  *)
(* open reaches the driver that asked for it, and the timer's reaches      *)
(* onInterrupt: neither a driver's vector nor another processor's IDT set  *)
(* up later takes it away.                                                 *)
RoutedRight ==
  timedout = {} =>
    \A irq \in {0} \cup {DriverIrqs[i] : i \in DOMAIN DriverIrqs} : ~WiredEntry(irq).mask =>
      handler[WiredEntry(irq).vector] = IF irq = 0 THEN onInterrupt ELSE irq

(* WaitFull: a processor is given up on only after more than Wait ticks of *)
(* the timer since all of them were released.                              *)
WaitFull == timedout # {} => tmr_counter > started + Wait

(* BootGoesOn: whichever of the other processors never arrive, the boot    *)
(* processor gets to the end of its work or stops for want of an I/O APIC. *)
BootGoesOn ==
  <>(boot.pc = "fatal" \/ (boot.pc = "map" /\ boot.i > Len(DriverIrqs)))

(* StartRight: processors that start while the boot goes on do not damage  *)
(* the tables, the interrupt routes or the wait of each other.             *)
StartRight == TablesIntact /\ RoutedRight /\ WaitFull
=============================================================================
