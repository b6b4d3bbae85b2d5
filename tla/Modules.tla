------------------------------ MODULE Modules -------------------------------
(***************************************************************************)
(* Kernel modules and what starts them: the archive (util/ustar.cc),       *)
(* registration, loading, relocation and launch (devmgr/module.cc), the    *)
(* two passes over the ACPI tables (acpi/acpi.cc), the match of a device   *)
(* with the modules (devmgr/devmgr.cc) and the mount of a partition a      *)
(* driver finds.  Addresses and sizes count units of 16 bytes; a section   *)
(* is placed at a multiple of two.  A file is a record: its size in        *)
(* archive blocks, its trigger ("none" without .modinfo), its sections,    *)
(* its relocations and whether it has a mod_main.                          *)
(***************************************************************************)
EXTENDS Integers, Sequences, FiniteSets

CONSTANTS Archives,   \* the archives to boot with: sequences of files
          AcpiOrders, \* the ACPI tables, in the firmware's order
          PciDevices, \* the devices found, in order: [class, progif, product]
          ModuleSlots,\* 64: module areas
          AreaUnits,  \* 1 GiB in units
          PageUnits,  \* a page in units
          Ksyms       \* kernel symbol -> address

VARIABLES archive, acpitables, modules, taken, memory, mapped,
          at,         \* where kmain is: [phase, i, j, mount]
          mcfg, madtdone,
          calls       \* ghost: the calls of mod_main, [file, dev, madt, mcfg]

modulevars == <<archive, acpitables, modules, taken, memory, mapped, at, mcfg,
                madtdone, calls>>

Aligned(n, a) == ((n + a - 1) \div a) * a
InMemory(s) == s.alloc /\ s.size > 0

(* The archive: a header block, then the blocks of the file; a block that  *)
(* is no header ends it.                                                   *)
Layout(files) ==
  LET f[n \in 0 .. Len(files)] ==
        IF n = 0 THEN << >>
        ELSE f[n - 1] \o <<n>> \o [b \in 1 .. files[n].blocks |-> 0]
  IN f[Len(files)] \o <<0, 0>>

(* How far the next header is.                                             *)
Advance(file) == file.blocks + 1

ustar_list(files) ==
  LET blocks == Layout(files)
      f[h \in 1 .. Len(blocks) + 1] ==
        IF h > Len(blocks) \/ blocks[h] = 0 THEN << >>
        ELSE <<blocks[h]>> \o f[h + Advance(files[blocks[h]])]
  IN f[1]

\* Mutant of NextBase: the size is rounded down.
NextBase_Down(base, s) == base + (s.size \div 2) * 2

NextBase(base, s) == base + Aligned(s.size, 2)

(* The pages the loop over a section maps: it starts at the section, which *)
(* may begin inside a page, and includes the page at its aligned end.      *)
PagesFor(base, s) ==
  {(base + j) \div PageUnits :
     j \in {k \in 0 .. Aligned(s.size, PageUnits) : k % PageUnits = 0}}

Image(n, k, s, u) == <<IF s.nobits THEN "zero" ELSE "data", n, k, u>>
Overwrite(m, from, size, value) ==
  [a \in DOMAIN m \cup (from .. from + size - 1) |->
     IF a \in from .. from + size - 1 THEN value[a - from] ELSE m[a]]

(* modules_load's loop: each allocated section is placed, mapped, filled.  *)
Placed(n, base) ==
  LET ss == archive[n].sections
      f[k \in 0 .. Len(ss)] ==
        IF k = 0 THEN [addr |-> << >>, base |-> base, memory |-> memory,
                       mapped |-> mapped]
        ELSE LET p == f[k - 1]
                 s == ss[k]
             IN IF ~InMemory(s) THEN [p EXCEPT !.addr = Append(@, 0)]
                ELSE [addr   |-> Append(p.addr, p.base),
                      base   |-> NextBase(p.base, s),
                      memory |-> Overwrite(p.memory, p.base, s.size,
                                   [u \in 0 .. s.size - 1 |-> Image(n, k, s, u)]),
                      mapped |-> p.mapped \cup PagesFor(p.base, s)]
  IN f[Len(ss)]

(* The value of a symbol; sec 0 is an undefined one, looked up among the   *)
(* kernel's.                                                               *)
Resolved(addr, r) == IF r.sec = 0 THEN Ksyms[r.sym] ELSE addr[r.sec] + r.sym

(* modules_link: S + A at every relocated place, after all sections have   *)
(* their address.                                                          *)
Linked(n, p) ==
  LET rs == archive[n].relocs
      f[k \in 0 .. Len(rs)] ==
        IF k = 0 THEN p.memory
        ELSE [f[k - 1] EXCEPT ![p.addr[rs[k].in] + rs[k].off] =
                <<"ptr", Resolved(p.addr, rs[k]) + rs[k].addend, 0, 0>>]
  IN f[Len(rs)]

(* What modules_link refuses: no mod_main, a relocation of another type,   *)
(* a symbol the kernel does not have.                                      *)
Unlinkable(n) ==
  \/ ~archive[n].entry
  \/ \E k \in DOMAIN archive[n].relocs :
       LET r == archive[n].relocs[k]
       IN r.type # "64" \/ (r.sec = 0 /\ r.sym \notin DOMAIN Ksyms)

(* bm.find_and_set: the first free area, -1 when there is none.            *)
Slot == IF taken = 0 .. ModuleSlots - 1 THEN -1
        ELSE CHOOSE s \in 0 .. ModuleSlots - 1 : s \notin taken
               /\ \A q \in 0 .. s - 1 : q \in taken

(* modules_launch: loads the module the first time, then calls it.         *)
Launch(m, dev) ==
  LET p == Placed(m.file, Slot * AreaUnits)
  IN /\ calls' = Append(calls, [file |-> m.file, dev |-> dev, madt |-> madtdone,
                                mcfg |-> mcfg])
     /\ IF m.loaded
        THEN UNCHANGED <<taken, memory, mapped>>
        ELSE /\ taken' = taken \cup {Slot}
             /\ memory' = Linked(m.file, p)
             /\ mapped' = p.mapped

Launched(m) == IF m.loaded THEN m
               ELSE [m EXCEPT !.loaded = TRUE,
                              !.addr = Placed(m.file, Slot * AreaUnits).addr]

Stays == UNCHANGED <<taken, memory, mapped, calls>>
LinkFails(m) == ~m.loaded /\ Unlinkable(m.file)
Stop == at' = [at EXCEPT !.phase = "fatal"]

Files == ustar_list(archive)

(* modules_register: a file without .modinfo is refused, one that wants    *)
(* any trigger is launched before it is listed.                            *)
RegisterFile ==
  /\ at.phase = "register" /\ at.i <= Len(Files)
  /\ LET n == Files[at.i]
         m == [file |-> n, loaded |-> FALSE, addr |-> << >>]
     IN IF archive[n].trigger.type = "any"
        THEN IF LinkFails(m) THEN Stop /\ Stays /\ UNCHANGED modules
             ELSE /\ Launch(m, 0)
                  /\ modules' = Append(modules, Launched(m))
                  /\ at' = [at EXCEPT !.i = @ + 1]
        ELSE /\ modules' = IF archive[n].trigger.type = "none" THEN modules
                           ELSE Append(modules, m)
             /\ at' = [at EXCEPT !.i = @ + 1]
             /\ Stays
  /\ UNCHANGED <<archive, acpitables, mcfg, madtdone>>

Registered ==
  /\ at.phase = "register" /\ at.i > Len(Files)
  /\ at' = [phase |-> "acpi", i |-> 1, j |-> 1, mount |-> 0]
  /\ Stays /\ UNCHANGED <<archive, acpitables, modules, mcfg, madtdone>>

(* acpi_init's first pass: the memory mapped configuration space, the MADT.*)
AcpiFirst ==
  /\ at.phase = "acpi" /\ at.i <= Len(acpitables)
  /\ mcfg' = (mcfg \/ acpitables[at.i].sign = "MCFG")
  /\ madtdone' = (madtdone \/ acpitables[at.i].sign = "APIC")
  /\ at' = [at EXCEPT !.i = @ + 1]
  /\ Stays /\ UNCHANGED <<archive, acpitables, modules>>

AcpiFirstEnd ==
  /\ at.phase = "acpi" /\ at.i > Len(acpitables)
  /\ at' = [at EXCEPT !.phase = "fadt", !.i = 1]
  /\ Stays /\ UNCHANGED <<archive, acpitables, modules, mcfg, madtdone>>

(* The second pass: of a FADT with a keyboard controller, every module     *)
(* that waits for one; a machine that forbids MSI is refused.              *)
AcpiSecond ==
  /\ at.phase = "fadt" /\ at.i <= Len(acpitables)
  /\ LET t == acpitables[at.i]
     IN IF t.sign = "FADT" /\ t.nomsi THEN Stop /\ Stays /\ UNCHANGED modules
        ELSE IF t.sign = "FADT" /\ t.i8042 /\ at.j <= Len(modules)
        THEN LET m == modules[at.j]
             IN IF archive[m.file].trigger.type # "i8042"
                THEN at' = [at EXCEPT !.j = @ + 1] /\ Stays /\ UNCHANGED modules
                ELSE IF LinkFails(m) THEN Stop /\ Stays /\ UNCHANGED modules
                ELSE /\ Launch(m, 0)
                     /\ modules' = [modules EXCEPT ![at.j] = Launched(m)]
                     /\ at' = [at EXCEPT !.j = @ + 1]
        ELSE /\ at' = [at EXCEPT !.i = @ + 1, !.j = 1]
             /\ Stays /\ UNCHANGED modules
  /\ UNCHANGED <<archive, acpitables, mcfg, madtdone>>

AcpiSecondEnd ==
  /\ at.phase = "fadt" /\ at.i > Len(acpitables)
  /\ at' = [phase |-> "pci", i |-> 1, j |-> 1, mount |-> 0]
  /\ Stays /\ UNCHANGED <<archive, acpitables, modules, mcfg, madtdone>>

\* Mutant of Matches: the programming interface is ignored.
Matches_NoProgif(t, d) ==
  CASE t.type = "class" -> t.class = d.class
    [] t.type = "progif" -> t.class = d.class
    [] t.type = "product" -> t.product = d.product
    [] OTHER -> FALSE

(* devmgr_add_device's switch: the case with the programming interface     *)
(* falls through to the one without.                                       *)
Matches(t, d) ==
  CASE t.type = "class" -> t.class = d.class
    [] t.type = "progif" -> t.progif = d.progif /\ t.class = d.class
    [] t.type = "product" -> t.product = d.product
    [] OTHER -> FALSE

(* A found device meets one module; the driver it launches may find a disk *)
(* with a partition to mount.                                              *)
AddDevice ==
  /\ at.phase = "pci" /\ at.i <= Len(PciDevices) /\ at.mount = 0
  /\ IF at.j > Len(modules)
     THEN at' = [at EXCEPT !.i = @ + 1, !.j = 1] /\ Stays /\ UNCHANGED modules
     ELSE LET m == modules[at.j]
          IN IF ~Matches(archive[m.file].trigger, PciDevices[at.i])
             THEN at' = [at EXCEPT !.j = @ + 1] /\ Stays /\ UNCHANGED modules
             ELSE IF LinkFails(m) THEN Stop /\ Stays /\ UNCHANGED modules
             ELSE /\ Launch(m, at.i)
                  /\ modules' = [modules EXCEPT ![at.j] = Launched(m)]
                  /\ \E disk \in {0, 1} : at' = [at EXCEPT !.j = @ + 1, !.mount = disk]
  /\ UNCHANGED <<archive, acpitables, mcfg, madtdone>>

(* devmgr_try_mount, inside the driver's call: file system modules in turn *)
(* until one takes the partition.                                          *)
TryMount ==
  /\ at.phase = "pci" /\ at.mount > 0
  /\ IF at.mount > Len(modules)
     THEN at' = [at EXCEPT !.mount = 0] /\ Stays /\ UNCHANGED modules
     ELSE LET m == modules[at.mount]
          IN IF archive[m.file].trigger.type # "fs"
             THEN at' = [at EXCEPT !.mount = @ + 1] /\ Stays /\ UNCHANGED modules
             ELSE IF LinkFails(m) THEN Stop /\ Stays /\ UNCHANGED modules
             ELSE /\ Launch(m, 0)
                  /\ modules' = [modules EXCEPT ![at.mount] = Launched(m)]
                  /\ \E next \in {0, at.mount + 1} : at' = [at EXCEPT !.mount = next]
  /\ UNCHANGED <<archive, acpitables, mcfg, madtdone>>

ModulesInit(archives, orders) ==
  /\ archive \in archives /\ acpitables \in orders
  /\ modules = << >> /\ taken = {} /\ memory = << >> /\ mapped = {}
  /\ at = [phase |-> "register", i |-> 1, j |-> 1, mount |-> 0]
  /\ mcfg = FALSE /\ madtdone = FALSE /\ calls = << >>

ModulesNext ==
  \/ RegisterFile \/ Registered \/ AcpiFirst \/ AcpiFirstEnd \/ AcpiSecond
  \/ AcpiSecondEnd \/ AddDevice \/ TryMount

ModulesSpec == ModulesInit(Archives, AcpiOrders) /\ [][ModulesNext]_modulevars
-----------------------------------------------------------------------------
Relocated(m, k, u) == \E i \in DOMAIN archive[m.file].relocs :
  archive[m.file].relocs[i].in = k /\ archive[m.file].relocs[i].off = u

(* ImagesIntact: every unit of a loaded module still holds what its file   *)
(* has there, and every relocated pointer points at what its symbol names, *)
(* whatever was loaded after it.                                           *)
ImagesIntact ==
  \A i \in DOMAIN modules : modules[i].loaded =>
    LET m == modules[i] f == archive[m.file]
    IN /\ \A k \in DOMAIN f.sections : InMemory(f.sections[k]) =>
            \A u \in 0 .. f.sections[k].size - 1 : ~Relocated(m, k, u) =>
              memory[m.addr[k] + u] = Image(m.file, k, f.sections[k], u)
       /\ \A r \in {f.relocs[x] : x \in DOMAIN f.relocs} :
            LET v == memory[m.addr[r.in] + r.off]
            IN /\ v[1] = "ptr"
               /\ IF r.sec = 0 THEN v[2] - r.addend = Ksyms[r.sym]
                  ELSE v[2] - r.addend \in DOMAIN memory
                       /\ (Relocated(m, r.sec, r.sym) \/
                           memory[v[2] - r.addend] =
                             Image(m.file, r.sec, f.sections[r.sec], r.sym))

(* ImagesMapped: no unit of a loaded section lies in a page without frame, *)
(* though sections begin in the middle of pages.                           *)
ImagesMapped == \A a \in DOMAIN memory : a \div PageUnits \in mapped

(* DriversMatched: when a device has met all modules, exactly those were   *)
(* called for it whose trigger names its class, and its programming        *)
(* interface where the trigger has one, or its product; each once, in the  *)
(* order of the archive.                                                   *)
DriversMatched ==
  at.phase = "pci" /\ at.i <= Len(PciDevices) /\ at.j > Len(modules) =>
    LET d == PciDevices[at.i]
        Wants(f) == LET t == archive[f].trigger
                    IN \/ t.type \in {"class", "progif"} /\ t.class = d.class
                          /\ (t.type = "progif" => t.progif = d.progif)
                       \/ t.type = "product" /\ t.product = d.product
        mine == SelectSeq(calls, LAMBDA c : c.dev = at.i)
    IN [k \in DOMAIN mine |-> mine[k].file]
         = SelectSeq([k \in DOMAIN modules |-> modules[k].file], Wants)

(* TablesFirst: a keyboard controller driver runs only after the interrupt *)
(* controllers of the MADT are set up, and a PCI driver only after the     *)
(* MCFG was seen, in whatever order the firmware lists its tables.         *)
TablesFirst ==
  \A k \in DOMAIN calls :
    LET has(s) == \E i \in DOMAIN acpitables : acpitables[i].sign = s
        type == archive[calls[k].file].trigger.type
    IN /\ type = "i8042" /\ has("APIC") => calls[k].madt
       /\ calls[k].dev > 0 /\ has("MCFG") => calls[k].mcfg

(* AllRegistered: every file of the archive with a .modinfo section is a   *)
(* module once registration is over, in the order of the archive, whatever *)
(* the sizes of the files.                                                 *)
AllRegistered ==
  at.phase \notin {"register", "fatal"} =>
    [k \in DOMAIN modules |-> modules[k].file]
      = SelectSeq([n \in DOMAIN archive |-> n],
                  LAMBDA n : archive[n].trigger.type # "none")

(* ImagesRight: what the loader of modules left in memory is whole: the    *)
(* right bytes and pointers, all of them in mapped pages.                  *)
ImagesRight == ImagesIntact /\ ImagesMapped

(* DriversStarted: from archive and firmware tables to mod_main, exactly   *)
(* the modules that match a device are started for it, and not before what *)
(* they rely on is set up.                                                 *)
DriversStarted == AllRegistered /\ DriversMatched /\ TablesFirst
=============================================================================
