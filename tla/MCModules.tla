----------------------------- MODULE MCModules ------------------------------
(* Small instances of Modules: archives with files of several sizes,      *)
(* sections that share pages, and files that cannot be linked.             *)
EXTENDS Modules

Text(n) == [alloc |-> TRUE, nobits |-> FALSE, size |-> n]
Bss(n) == [alloc |-> TRUE, nobits |-> TRUE, size |-> n]
NoteSection(n) == [alloc |-> FALSE, nobits |-> FALSE, size |-> n]
To(in, off, sec, sym, addend) ==
  [type |-> "64", in |-> in, off |-> off, sec |-> sec, sym |-> sym, addend |-> addend]
Trigger(type, class, progif, product) ==
  [type |-> type, class |-> class, progif |-> progif, product |-> product]
ModFile(blocks, trigger, sections, relocs) ==
  [blocks |-> blocks, trigger |-> trigger, sections |-> sections,
   relocs |-> relocs, entry |-> TRUE]

AnyFile == ModFile(1, Trigger("any", 0, 0, 0), <<Text(1)>>, << >>)
Plain == [ModFile(2, Trigger("none", 0, 0, 0), <<Text(2)>>, << >>) EXCEPT !.entry = FALSE]
AhciFile == ModFile(3, Trigger("progif", 1, 1, 0),
                 <<NoteSection(2), Text(3), Bss(2), Text(7)>>,
                 <<To(2, 1, 4, 2, 1), To(4, 0, 3, 1, 0), To(4, 3, 0, 1, 0)>>)
EhciFile == ModFile(1, Trigger("class", 2, 0, 0), <<Text(5), Text(1), Bss(0), Bss(3)>>,
                 <<To(2, 0, 4, 2, 0), To(1, 4, 1, 0, 3)>>)
NicFile == ModFile(2, Trigger("product", 0, 0, 7), <<Bss(4), Text(4)>>,
                <<To(2, 2, 1, 3, 0)>>)
FatFile == ModFile(2, Trigger("fs", 0, 0, 0), <<Text(7), Text(2)>>,
                <<To(1, 6, 2, 1, 0)>>)
Ps2File == ModFile(1, Trigger("i8042", 0, 0, 0), <<Text(2), Bss(1), Text(1)>>,
                <<To(3, 0, 2, 0, 0), To(1, 1, 0, 2, 4)>>)
Other(file) == [file EXCEPT !.relocs = Append(@, To(1, 0, 0, 9, 0))]

MCArchives ==
  {<<AnyFile, AhciFile, Plain, EhciFile, FatFile, Ps2File>>,
   <<Ps2File, FatFile, FatFile, AhciFile, AhciFile>>,
   <<NicFile, EhciFile, Other(FatFile), AhciFile>>,
   <<Other(NicFile), Plain, FatFile>>,
   <<Other(AnyFile), Ps2File>>, <<Other(Ps2File), AnyFile>>}

Mcfg == [sign |-> "MCFG", nomsi |-> FALSE, i8042 |-> FALSE]
Apic == [sign |-> "APIC", nomsi |-> FALSE, i8042 |-> FALSE]
Hpet == [sign |-> "HPET", nomsi |-> FALSE, i8042 |-> FALSE]
Fadt(nomsi, i8042) == [sign |-> "FADT", nomsi |-> nomsi, i8042 |-> i8042]

MCAcpiOrders ==
  {<<Fadt(FALSE, TRUE), Apic, Mcfg>>, <<Mcfg, Fadt(FALSE, TRUE), Apic>>,
   <<Hpet, Apic, Fadt(FALSE, FALSE)>>, <<Apic, Fadt(TRUE, TRUE)>>}

Pci(class, progif, product) == [class |-> class, progif |-> progif, product |-> product]
MCPciDevices == <<Pci(2, 1, 3), Pci(1, 1, 4), Pci(1, 2, 5), Pci(2, 2, 7), Pci(1, 1, 7)>>
MCKsyms == <<1000, 1010>>
=============================================================================
