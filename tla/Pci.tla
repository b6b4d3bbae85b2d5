-------------------------------- MODULE Pci ---------------------------------
(***************************************************************************)
(* PCI (pci/pci.cc, pci/pci.hh): reads and writes of registers narrower    *)
(* than the 32 bits of an access, the scan of the buses, and what a driver *)
(* does to the device it was called for: the command register, the base    *)
(* address registers, message signalled interrupts.  A dword is the set of *)
(* its one bits; a function's configuration space maps dwords to such      *)
(* sets.  A machine maps <<bus, device, function>> to what the hardware    *)
(* is: its class, header, bars and capabilities, from which Space derives  *)
(* the registers as the firmware leaves them.                              *)
(***************************************************************************)
EXTENDS Integers, Sequences, FiniteSets, FiniteSetsExt

CONSTANTS Machines,  \* the machines to scan
          Devs,      \* 32: devices of a bus
          Funs       \* 8: functions of a device

VARIABLES machine, space,  \* the hardware, its registers
          root, busses,    \* pci_init's function, the stack of check_bus
          found, driver,   \* devices added, the driver at work
          barmaps, bars    \* frames mapped for bars, what prepare_bar returned

pcivars == <<machine, space, root, busses, found, driver, barmaps, bars>>

Number(b) == MapThenSumSet(LAMBDA x : 2 ^ x, b)
BitsOf(n) == {b \in 0 .. 15 : (n \div 2 ^ b) % 2 = 1}
Up(b, n) == {x + n : x \in b}
AllBits == 0 .. 31

CMD == [at |-> 4, bits |-> 16]
STS == [at |-> 6, bits |-> 16]
SUBCLASS == [at |-> 10, bits |-> 8]
CLASS == [at |-> 11, bits |-> 8]
HDRTYPE == [at |-> 14, bits |-> 8]
PRIMARYBUS == [at |-> 24, bits |-> 8]
SECONDARYBUS == [at |-> 25, bits |-> 8]
CAPSPTR == [at |-> 52, bits |-> 8]
BarReg(n) == [at |-> 16 + 4 * n, bits |-> 32]
At(a, b) == [at |-> a, bits |-> b]

-----------------------------------------------------------------------------
(* The hardware.  A bar is [n, kind, pre, addr, k]: 2^k bytes at addr; a   *)
(* capability [at, id, wide, masks].                                       *)
KindBits(b) == (CASE b.kind = "io" -> {0} [] b.kind = "mem" -> {} [] OTHER -> {2})
                 \cup (IF b.pre THEN {3} ELSE {})
CapBytes(fn, i) ==
  BitsOf(fn.caps[i].id)
    \cup Up(IF i = Len(fn.caps) THEN {} ELSE BitsOf(fn.caps[i + 1].at), 8)
    \cup (IF fn.caps[i].wide THEN {23} ELSE {})
    \cup (IF fn.caps[i].masks THEN {24} ELSE {})

Dwords == 0 .. 63
Space(fn) ==
  [d \in Dwords |->
     CASE d = 1 -> IF fn.caps = << >> THEN {} ELSE {20}
       [] d = 2 -> Up(BitsOf(fn.sub), 16) \cup Up(BitsOf(fn.class), 24)
       [] d = 3 -> Up(BitsOf(fn.hdr), 16)
       [] d = 6 /\ fn.hdr % 4 = 1 -> BitsOf(fn.primary) \cup Up(BitsOf(fn.secondary), 8)
       [] d = 13 -> IF fn.caps = << >> THEN {} ELSE BitsOf(fn.caps[1].at)
       [] \E b \in fn.bars : d = 4 + b.n ->
            LET b == CHOOSE b \in fn.bars : d = 4 + b.n
            IN (b.addr \cap AllBits) \cup KindBits(b)
       [] \E b \in fn.bars : b.kind = "mem64" /\ d = 5 + b.n ->
            LET b == CHOOSE b \in fn.bars : b.kind = "mem64" /\ d = 5 + b.n
            IN {x - 32 : x \in b.addr \ AllBits}
       [] \E i \in DOMAIN fn.caps : 4 * d = fn.caps[i].at ->
            CapBytes(fn, CHOOSE i \in DOMAIN fn.caps : 4 * d = fn.caps[i].at)
       [] OTHER -> {}]

(* The bits a write changes: command, bars above their size, the MSI       *)
(* capability's registers; the rest is read-only.                          *)
WritableBits(fn, d) ==
  CASE d = 1 -> 0 .. 10
    [] \E b \in fn.bars : d = 4 + b.n ->
         (CHOOSE b \in fn.bars : d = 4 + b.n).k .. 31
    [] \E b \in fn.bars : b.kind = "mem64" /\ d = 5 + b.n -> AllBits
    [] \E i \in DOMAIN fn.caps : fn.caps[i].id = 5 /\ 4 * d = fn.caps[i].at ->
         {16, 20, 21, 22}
    [] \E i \in DOMAIN fn.caps : fn.caps[i].id = 5 /\ 4 * d > fn.caps[i].at
         /\ 4 * d <= fn.caps[i].at + (IF fn.caps[i].wide THEN 12 ELSE 8)
                       + (IF fn.caps[i].masks THEN 4 ELSE 0) ->
         AllBits
    [] OTHER -> {}

Store(fn, s, d, data) ==
  [s EXCEPT ![d] = (@ \ WritableBits(fn, d)) \cup (data \cap WritableBits(fn, d))]

-----------------------------------------------------------------------------
pci_read(s, r) ==
  LET shift == 8 * (r.at % 4)
  IN {b - shift : b \in {x \in s[r.at \div 4] : x >= shift}} \cap 0 .. r.bits - 1

(* The mask is not shifted to the register's place: a register that is not *)
(* the lowest of its dword keeps its old bits, and the lowest bits of the  *)
(* dword are written as zeros.                                             *)
pci_write(fn, s, r, data) ==
  Store(fn, s, r.at \div 4,
        (s[r.at \div 4] \ 0 .. r.bits - 1) \cup (Up(data, 8 * (r.at % 4)) \cap AllBits))

(* -v in 32 bits.                                                          *)
Negated(v) == IF v = {} THEN {} ELSE {Min(v)} \cup ((Min(v) + 1 .. 31) \ v)

pci_setup_cmd_reg(fn, s) ==
  pci_write(fn, s, CMD, pci_read(s, CMD) \cup {0, 1, 2})

\* Mutant of Sized: the old value is not written back.
Sized_Left(fn, s, n) ==
  LET w == pci_write(fn, s, BarReg(n), AllBits)
  IN [space |-> w, size |-> Negated(pci_read(w, BarReg(n)) \ 0 .. 3)]

(* The size of a memory bar: the ones that stick, negated; then the bar    *)
(* gets its old value back.                                                *)
Sized(fn, s, n) ==
  LET w == pci_write(fn, s, BarReg(n), AllBits)
  IN [space |-> pci_write(fn, w, BarReg(n), pci_read(s, BarReg(n))),
      size  |-> Negated(pci_read(w, BarReg(n)) \ 0 .. 3)]

(* The upper half of a 64 bit bar, without its low four bits.              *)
HighPart(s, n) == Up(pci_read(s, BarReg(n + 1)) \ 0 .. 3, 32)

PageOf(addr) == Number({b - 12 : b \in {x \in addr : x >= 12}})

pci_prepare_bar(fn, s, n) ==
  LET raw == pci_read(s, BarReg(n))
      addr == (raw \ 0 .. 3)
                \cup (IF 0 \notin raw /\ {1, 2} \cap raw = {2} THEN HighPart(s, n) ELSE {})
      z == Sized(fn, s, n)
  IN IF 0 \in raw
     THEN [space |-> s, io |-> TRUE, addr |-> addr, frames |-> {}, fatal |-> FALSE]
     ELSE [space |-> z.space, io |-> FALSE, addr |-> addr,
           frames |-> {PageOf(addr) + i : i \in 0 .. ((Number(z.size) + 4095) \div 4096) - 1},
           fatal |-> n = 5 /\ {1, 2} \cap raw = {2}]

(* The capability the walk stops at: the first that is MSI or MSI-X, or 0. *)
Capability(s) ==
  LET id(c) == Number(pci_read(s, At(c, 8)))
      f[k \in 0 .. 4] ==
        IF k = 0 THEN Number(pci_read(s, CAPSPTR))
        ELSE LET c == f[k - 1]
             IN IF c = 0 \/ id(c) \in {5, 17} THEN c
                ELSE Number(pci_read(s, At(c + 1, 8)))
  IN f[4]

(* Where the message data is: after a 64 bit address, or a 32 bit one.     *)
DataReg(c, wide) == At(c + (IF wide THEN 12 ELSE 8), 16)

MsiAddress == {3, 21, 22, 23} \cup 25 .. 31

(* pci_enable_msi from the capability on: data, address, control, mask.    *)
EnableMsi(fn, s, c, vector) ==
  LET ctl == pci_read(s, At(c + 2, 16))
      wide == 7 \in ctl
      s1 == IF wide THEN pci_write(fn, s, At(c + 8, 32), {}) ELSE s
      s2 == pci_write(fn, s1, DataReg(c, wide), vector)
      s3 == pci_write(fn, s2, At(c + 4, 32), MsiAddress)
      s4 == pci_write(fn, s3, At(c + 2, 16), (ctl \ {4, 5, 6, 8}) \cup {0})
      s5 == IF wide THEN pci_write(fn, s4, At(c + 16, 32), {}) ELSE s4
  IN pci_write(fn, s5, CMD, pci_read(s5, CMD) \cup {10})

-----------------------------------------------------------------------------
NoDriver == [at |-> <<0, 0, 0>>, todo |-> << >>]
Absent(f) == f \notin DOMAIN machine
Class(f) == <<Number(pci_read(space[f], CLASS)), Number(pci_read(space[f], SUBCLASS))>>
Frame(bus) == [bus |-> bus, dev |-> 0, fun |-> 0]

(* What the AHCI and the EHCI driver do with the bus, in their order.      *)
Work(f) ==
  CASE Class(f) = <<1, 6>> -> <<"cmd", "bar5", "msi">>
    [] Class(f) = <<12, 3>> -> <<"bar0", "cmd">>
    [] OTHER -> << >>

(* pci_init looks at the functions of 0:0 for roots.                       *)
RootFunction ==
  /\ busses = << >> /\ driver = NoDriver /\ root < Funs
  /\ LET f == <<0, 0, root>>
     IN busses' = CASE Absent(f) -> << >>
                  [] OTHER ->
                     CASE Class(f) = <<6, 4>> ->
                            <<Frame(Number(pci_read(space[f], SECONDARYBUS))),
                              Frame(Number(pci_read(space[f], PRIMARYBUS)))>>
                       [] Class(f) = <<6, 0>> -> <<Frame(root)>>
                       [] OTHER -> << >>
  /\ root' = root + 1
  /\ UNCHANGED <<machine, space, found, driver, barmaps, bars>>

\* Mutant of Bridge: the whole header type is compared.
Bridge_Whole(f) == pci_read(space[f], HDRTYPE) = {0}

(* A bridge's header has type 1, beside the bit of several functions.      *)
Bridge(f) == pci_read(space[f], HDRTYPE) \cap {0, 1} = {0}

(* The rest of check_bus once this function is done.                       *)
After(t) ==
  IF t.fun < Funs - 1 THEN <<[t EXCEPT !.fun = @ + 1]>>
  ELSE IF t.dev < Devs - 1 THEN <<[t EXCEPT !.fun = 0, !.dev = @ + 1]>>
  ELSE << >>

(* check_bus: one function; a present one becomes a device, whose driver   *)
(* runs before a bridge's bus is entered.                                  *)
CheckFunction ==
  /\ busses # << >> /\ driver = NoDriver
  /\ LET t == busses[Len(busses)]
         f == <<t.bus, t.dev, t.fun>>
         rest == SubSeq(busses, 1, Len(busses) - 1) \o After(t)
     IN IF Absent(f) THEN busses' = rest /\ UNCHANGED <<found, driver>>
        ELSE /\ found' = Append(found, f)
             /\ driver' = IF Work(f) = << >> THEN NoDriver ELSE [at |-> f, todo |-> Work(f)]
             /\ busses' = IF ~Bridge(f) THEN rest
                        ELSE Append(rest, Frame(Number(pci_read(space[f], SECONDARYBUS))))
  /\ UNCHANGED <<machine, space, root, barmaps, bars>>

StepDone == driver' = IF Len(driver.todo) = 1 THEN NoDriver ELSE [driver EXCEPT !.todo = Tail(@)]
DriverStops == driver' = [driver EXCEPT !.todo = <<"fatal">>]
Doing(what) == driver # NoDriver /\ Head(driver.todo) = what

SetupCmd ==
  /\ Doing("cmd")
  /\ space' = [space EXCEPT ![driver.at] = pci_setup_cmd_reg(machine[driver.at], @)]
  /\ StepDone
  /\ UNCHANGED <<machine, root, busses, found, barmaps, bars>>

PrepareBar(n) ==
  LET r == pci_prepare_bar(machine[driver.at], space[driver.at], n)
  IN /\ space' = [space EXCEPT ![driver.at] = r.space]
     /\ IF r.fatal THEN DriverStops /\ UNCHANGED <<barmaps, bars>>
        ELSE /\ barmaps' = barmaps \cup {<<driver.at, p>> : p \in r.frames}
             /\ bars' = bars \cup {[f |-> driver.at, n |-> n, io |-> r.io, addr |-> r.addr]}
             /\ IF r.io THEN DriverStops ELSE StepDone   \* the drivers assert a memory bar
     /\ UNCHANGED <<machine, root, busses, found>>

PrepareBar0 == Doing("bar0") /\ PrepareBar(0)
PrepareBar5 == Doing("bar5") /\ PrepareBar(5)

(* pci_enable_msi for the AHCI driver's vector 0x60: nothing for a device  *)
(* without capabilities, a stop for one with MSI-X first or without MSI.   *)
SetupMsi ==
  /\ Doing("msi")
  /\ LET s == space[driver.at]
         c == Capability(s)
     IN IF 4 \notin pci_read(s, STS) THEN StepDone /\ UNCHANGED space
        ELSE IF c = 0 \/ Number(pci_read(s, At(c, 8))) = 17 THEN DriverStops /\ UNCHANGED space
        ELSE /\ space' = [space EXCEPT ![driver.at] =
                            EnableMsi(machine[driver.at], s, c, {5, 6})]
             /\ StepDone
  /\ UNCHANGED <<machine, root, busses, found, barmaps, bars>>

PciInit(machines) ==
  /\ machine \in machines
  /\ space = [f \in DOMAIN machine |-> Space(machine[f])]
  /\ root = 0 /\ busses = << >> /\ found = << >> /\ driver = NoDriver
  /\ barmaps = {} /\ bars = {}

PciNext == \/ RootFunction \/ CheckFunction \/ SetupCmd \/ PrepareBar0
           \/ PrepareBar5 \/ SetupMsi

PciSpec == PciInit(Machines) /\ [][PciNext]_pcivars
-----------------------------------------------------------------------------
(* EnumeratedOnce: no function is added twice, and when pci_init is over   *)
(* every function of the machine was added, those behind bridges, those of *)
(* devices with several functions and those of further roots included.     *)
EnumeratedOnce ==
  /\ \A i, j \in DOMAIN found : found[i] = found[j] => i = j
  /\ root = Funs /\ busses = << >> /\ driver = NoDriver =>
       {found[i] : i \in DOMAIN found} = DOMAIN machine

(* BarsRight: prepare_bar returns where the device's memory is, and has    *)
(* mapped exactly the frames it spans, for 32 and 64 bit bars.             *)
BarsRight ==
  \A r \in bars : \E b \in machine[r.f].bars :
    /\ b.n = r.n /\ r.addr = b.addr /\ r.io = (b.kind = "io")
    /\ b.kind # "io" =>
         {x[2] : x \in {y \in barmaps : y[1] = r.f}} =
           {PageOf(b.addr) + i : i \in 0 .. ((2 ^ b.k + 4095) \div 4096) - 1}

(* ConfigKept: setting a device up changes its command register and its    *)
(* MSI registers and nothing else: not a bar whose size was asked for, not *)
(* what lies behind a capability without mask register.                    *)
ConfigKept ==
  \A f \in DOMAIN machine : \A d \in Dwords \ {1} :
    space[f][d] = Space(machine[f])[d]
      \/ \E i \in DOMAIN machine[f].caps :
           LET c == machine[f].caps[i]
           IN c.id = 5 /\ 4 * d \in c.at .. c.at + (IF c.wide THEN 12 ELSE 8)

(* MsiRight: once interrupts by pins are off, the device's MSI is on: one  *)
(* message, its vector in the data register of this capability's layout,   *)
(* a 32 bit address at the local APICs.                                    *)
MsiRight ==
  \A f \in DOMAIN machine : 10 \in space[f][1] =>
    \E i \in DOMAIN machine[f].caps :
      LET c == machine[f].caps[i] d == c.at \div 4 s == space[f]
      IN /\ c.id = 5 /\ {16, 20, 21, 22} \cap s[d] = {16}
         /\ s[d + 1] = MsiAddress
         /\ IF c.wide THEN s[d + 2] = {} /\ s[d + 3] = {5, 6} ELSE s[d + 2] = {5, 6}

(* DevicesSetUp: setting a device up gives its driver the right memory and *)
(* the right interrupt, and changes nothing else.                          *)
DevicesSetUp == BarsRight /\ ConfigKept /\ MsiRight
=============================================================================
