-------------------------------- MODULE Disk --------------------------------
(***************************************************************************)
(* The AHCI driver (modules/ahci), the partition scan (devmgr/msd) and the *)
(* mounting of the first partition (devmgr, fs, modules/fat mod_main),     *)
(* against a host bus adapter (HBA) and its drives.                        *)
(*                                                                         *)
(* The driver is one thread of control: dpc says where it is, cmd is the   *)
(* command it is sending and cmd.then where it goes on after it.  The HBA  *)
(* works on its own: it starts the commands whose bit is set in the port's *)
(* cmd_issue, moves their sectors one by one into memory, and may fail or  *)
(* be arbitrarily slow.  A time limit of the driver may be over as soon as *)
(* what it waits for has not happened.                                     *)
(*                                                                         *)
(* Memory is counted in sectors of 512 bytes, handed out first fit.        *)
(***************************************************************************)
EXTENDS Containers, Sequences

CONSTANTS
    Ports,          \* 0..n, the ports the HBA implements
    CmdSlots,       \* 0..n, the command slots (32)
    Setups,         \* what may be attached: [drive, table], drive from the ports to
                    \* "none", "atapi" and "ata", table the partition table of the
                    \* drives, a sequence of entries in use or not
    PerEntrySector, \* GPT entries in a sector (4)
    StartLba,       \* hdr->startlba
    Base,           \* values of a byte of the FIS (256)
    UserReads,      \* the reads of the drives later on, pairs of a sector and a number
    Cells           \* 1..n, the memory

ASSUME PortsAssumption == Ports \subseteq Nat
ASSUME CmdSlotsAssumption == CmdSlots \subseteq Nat /\ {0, 1} \subseteq CmdSlots
ASSUME BaseAssumption == Base \in Nat \ {0, 1}
ASSUME StartLbaAssumption == StartLba \in Nat
ASSUME PerEntrySectorAssumption == PerEntrySector \in Nat \ {0}
ASSUME UserReadsAssumption == UserReads \subseteq Nat \X Nat
ASSUME CellsAssumption == Cells \subseteq Nat

\* One more than the greatest sector that lba0..lba4 can hold (40 bits).
Low == Base * Base * Base * Base * Base
ASSUME SetupsAssumption ==
    \A s \in Setups : s.table \in Seq(BOOLEAN) /\ StartLba + Len(s.table) <= Low

VARIABLES
    dpc, port, cmd, \* control of the driver
    drive, table,   \* what is attached, and the partition table of the drives
    px,             \* the registers and the engine of every port
    mem, owner,     \* cell -> its content, and who owns it
    scan,           \* locals of msd_scout
    devices,        \* the ports with a device, in the order of registration
    parts,          \* port -> its Vector of partitions
    mount,          \* the mount point of "/" once msd_scout has tried
    late, stray     \* history: an identify was given up; commands that wrote to
                    \* memory that was no longer theirs

diskvars == <<dpc, port, cmd, drive, table, px, mem, owner, scan, devices, parts, mount, late, stray>>

Free == <<"free", 0>>
NoCmd == [kind |-> "none"]
NoSlot == -1
NotMounted == [tried |-> FALSE, ok |-> FALSE, port |-> 0, block |-> 0]

-----------------------------------------------------------------------------
(***************************************************************************)
(* The HBA (external).  A port's st, fre, ci are written by the driver;    *)
(* cr, fr follow st, fre.  active is the slot whose command is being       *)
(* carried out (the task file is busy), done counts its sectors.  A task   *)
(* file error stops the engine and leaves the bits in ci.                  *)
(***************************************************************************)
PortReset == [st |-> FALSE, cr |-> FALSE, fre |-> FALSE, fr |-> FALSE, ci |-> {}, active |-> NoSlot,
              done |-> 0, stopped |-> FALSE, sata_err |-> FALSE, tables |-> [s \in CmdSlots |-> NoCmd]]

Hardware == UNCHANGED <<dpc, port, cmd, drive, table, scan, devices, parts, mount, late>>

Follow(p) ==
    /\ <<px[p].cr, px[p].fr>> # <<px[p].st, px[p].fre>>
    /\ px' = [px EXCEPT ![p].cr = px[p].st, ![p].fr = px[p].fre]
    /\ UNCHANGED <<mem, owner, stray>> /\ Hardware

EngineStart(p) ==
    /\ px[p].cr /\ ~px[p].stopped /\ px[p].active = NoSlot
    /\ \E s \in px[p].ci : px' = [px EXCEPT ![p].active = s, ![p].done = 0]
    /\ UNCHANGED <<mem, owner, stray>> /\ Hardware

SectorOf(c, k) == IF c.kind = "identify" THEN -1 ELSE c.fis + k

Transfer(p) ==
    /\ px[p].active # NoSlot
    /\ LET c == px[p].tables[px[p].active]
           at == c.buf + px[p].done
       IN  /\ px[p].done < c.n
           /\ mem' = IF owner[at] = Free THEN mem ELSE [mem EXCEPT ![at] = SectorOf(c, px[p].done)]
           /\ px' = [px EXCEPT ![p].done = @ + 1]
           /\ stray' = IF owner[at] = c.id THEN stray ELSE stray \cup {c.kind}
    /\ UNCHANGED owner /\ Hardware

Complete(p) ==
    /\ px[p].active # NoSlot
    /\ px[p].done = px[p].tables[px[p].active].n
    /\ px' = [px EXCEPT ![p].ci = @ \ {px[p].active}, ![p].active = NoSlot, ![p].done = 0]
    /\ UNCHANGED <<mem, owner, stray>> /\ Hardware

Fail(p) ==
    /\ px[p].active # NoSlot
    /\ \E serr \in BOOLEAN :
         px' = [px EXCEPT ![p].active = NoSlot, ![p].stopped = TRUE, ![p].sata_err = serr]
    /\ UNCHANGED <<mem, owner, stray>> /\ Hardware

-----------------------------------------------------------------------------
\* kmalloc_aligned(n * 512, 512) for the purpose id, and kfree of its cells.
\* There is room: MemoryMgr models a heap that runs out.
FirstFit(own, b, n) == /\ \A k \in b..(b + n - 1) : k \in Cells /\ own[k] = Free
                       /\ \A a \in Cells : a < b => \E k \in a..(a + n - 1) : own[k] # Free
Allocated(own, b, n, id) == [k \in Cells |-> IF k \in b..(b + n - 1) THEN id ELSE own[k]]
Released(own, ids) == [k \in Cells |-> IF own[k] \in ids THEN Free ELSE own[k]]

\* Mutant of alloc_cmdslot: only sata_active, which the driver never sets, is
\* looked at.
alloc_cmdslot_Active(p) == 0

\* alloc_cmdslot: the first slot that is not in cmd_issue.
alloc_cmdslot(p) == CHOOSE s \in CmdSlots : s \notin px[p].ci /\ \A t \in CmdSlots : t < s => t \in px[p].ci

\* Mutant of Encoded: only lba0 and lba1 are filled in.
Encoded_Low(lba) == lba % (Base * Base)

\* What lba0..lba5 of the FIS say: lba0..lba4 take the low 40 bits, lba5 the
\* ones from 48 on.
Encoded(lba) == (lba % Low) + ((lba \div (Low * Base)) % Base) * Low

\* ahci_read or ahci_identify begins; the driver goes on at then.
Send(kind, p, lba, n, buf, id, then) ==
    /\ cmd' = [kind |-> kind, port |-> p, lba |-> lba, n |-> n, buf |-> buf, id |-> id,
               then |-> then, slot |-> NoSlot, seen |-> {}]
    /\ dpc' = "build"

\* ahci_send_cmd up to create_cmd: the command table of the slot is filled.
Build ==
    /\ dpc = "build"
    /\ LET s == alloc_cmdslot(cmd.port)
       IN  /\ px' = [px EXCEPT ![cmd.port].tables[s] =
                       [kind |-> cmd.kind, fis |-> Encoded(cmd.lba), n |-> cmd.n, buf |-> cmd.buf, id |-> cmd.id]]
           /\ cmd' = [cmd EXCEPT !.slot = s]
    /\ dpc' = "busy"
    /\ UNCHANGED <<port, drive, table, mem, owner, scan, devices, parts, mount, late, stray>>

Busy(p) == px[p].active # NoSlot
Quiet == UNCHANGED <<port, drive, table, mem, owner, scan, devices, parts, mount, late, stray>>

\* The port is idle: cmd_issue is read, to be written back with the slot's bit.
DriveReady ==
    /\ dpc = "busy" /\ ~Busy(cmd.port)
    /\ dpc' = IF px[cmd.port].sata_err THEN "fatal" ELSE "issue"
    /\ cmd' = [cmd EXCEPT !.seen = px[cmd.port].ci]
    /\ UNCHANGED px /\ Quiet

Issue ==
    /\ dpc = "issue"
    /\ px' = [px EXCEPT ![cmd.port].ci = @ \cup cmd.seen \cup {cmd.slot}]
    /\ dpc' = "wait"
    /\ UNCHANGED cmd /\ Quiet

\* Mutant of Succeed: an identify is not waited for.
Succeed_Early ==
    /\ dpc = "wait" /\ (cmd.kind = "identify" \/ cmd.slot \notin px[cmd.port].ci)
    /\ dpc' = cmd.then
    /\ UNCHANGED <<px, cmd>> /\ Quiet

\* The bit is clear again: the command was carried out.  What its table says
\* means nothing from here on (the model forgets it).
Succeed ==
    /\ dpc = "wait" /\ cmd.slot \notin px[cmd.port].ci
    /\ dpc' = cmd.then
    /\ px' = [px EXCEPT ![cmd.port].tables[cmd.slot] = NoCmd]
    /\ UNCHANGED cmd /\ Quiet

\* The time is over, the task file has an error or the link has one.  This is
\* the end for a read; ahci_identify does not look at the result.
GiveUp ==
    /\ dpc = "wait" /\ cmd.slot \in px[cmd.port].ci
    /\ late' = (late \/ cmd.kind = "identify")
    /\ dpc' = IF cmd.kind = "identify" THEN cmd.then ELSE "fatal"
    /\ UNCHANGED <<px, cmd, port, drive, table, mem, owner, scan, devices, parts, mount, stray>>

-----------------------------------------------------------------------------
BootFrame == UNCHANGED <<cmd, drive, table, mem, owner, scan, devices, parts, mount, late, stray>>

\* mod_main: the controller is taken from the BIOS (by force after 10 ms) and
\* put into AHCI mode with its interrupt off.
mod_main ==
    /\ dpc = "start"
    /\ dpc' = "port"
    /\ UNCHANGED <<px, port>> /\ BootFrame

\* The loop over the ports and the checks at the start of init_port, which
\* begins to stop the engine.
init_port ==
    /\ dpc = "port"
    /\ IF port \notin Ports THEN dpc' = "idle" /\ UNCHANGED <<px, port>>
       ELSE IF drive[port] # "ata" THEN port' = port + 1 /\ UNCHANGED <<px, dpc>>
       ELSE px' = [px EXCEPT ![port].st = FALSE] /\ dpc' = "stop engine" /\ UNCHANGED port
    /\ BootFrame

\* setrunning(false) and setrunning(true), one step for each register that is
\* waited for.
Waits == {"stop engine", "stop fis", "start fis", "start engine"}
Met == CASE dpc = "stop engine" -> ~px[port].cr /\ ~Busy(port)
         [] dpc = "stop fis" -> ~px[port].fr
         [] dpc = "start fis" -> px[port].fr
         [] dpc = "start engine" -> px[port].cr

setrunning ==
    /\ dpc \in Waits /\ Met
    /\ CASE dpc = "stop engine" -> px' = [px EXCEPT ![port].fre = FALSE] /\ dpc' = "stop fis"
         [] dpc = "stop fis" -> px' = [px EXCEPT ![port].fre = TRUE] /\ dpc' = "start fis"
         [] dpc = "start fis" -> px' = [px EXCEPT ![port].st = TRUE] /\ dpc' = "start engine"
         [] dpc = "start engine" -> UNCHANGED px /\ dpc' = "add"
    /\ UNCHANGED port /\ BootFrame

\* Mutant of PollTimeout: the wait for an idle port has no limit.
PollTimeout_Endless ==
    /\ dpc \in Waits /\ ~Met
    /\ dpc' = "fatal"
    /\ UNCHANGED <<px, port>> /\ BootFrame

\* poll and the wait for an idle port end in fatal.
PollTimeout ==
    /\ \/ dpc \in Waits /\ ~Met
       \/ dpc = "busy" /\ Busy(cmd.port)
    /\ dpc' = "fatal"
    /\ UNCHANGED <<px, port>> /\ BootFrame

\* devmgr_add_device up to msd_scout, and its first read.
devmgr_add_device ==
    /\ dpc = "add"
    /\ devices' = Append(devices, port)
    /\ \E hdr, ents \in Cells :
           LET own == Allocated(owner, hdr, 1, <<"hdr", port>>) IN
           /\ FirstFit(owner, hdr, 1) /\ FirstFit(own, ents, 1)
           /\ owner' = Allocated(own, ents, 1, <<"ents", port>>)
           /\ scan' = [i |-> 0, hdr |-> hdr, ents |-> ents]
           /\ Send("read", port, 1, 1, hdr, <<"hdr", port>>, "header")
    /\ UNCHANGED <<port, drive, table, px, mem, parts, mount, late, stray>>

Scan == UNCHANGED <<port, drive, table, px, mem, devices, late, stray>>

\* The end of msd_scout; devmgr_add_device returns to init_port, which
\* identifies the drive.
Leave ==
    /\ \E id \in Cells :
           LET own == Released(owner, {<<"hdr", port>>, <<"ents", port>>}) IN
           /\ FirstFit(own, id, 1)
           /\ owner' = Allocated(own, id, 1, <<"id", port>>)
           /\ Send("identify", port, 0, 1, id, <<"id", port>>, "named")
    /\ UNCHANGED <<scan, parts, mount>> /\ Scan

\* The header is read (from sector 1): a disk without a GPT is left alone.
Header ==
    /\ dpc = "header"
    /\ IF table = <<>> \/ mem[scan.hdr] # 1 THEN Leave
       ELSE dpc' = "table" /\ UNCHANGED <<cmd, owner, scan, parts, mount>> /\ Scan

\* The loop over the entries: a new sector is read for the first one in it.
NextEntry ==
    /\ dpc = "table"
    /\ IF scan.i = Len(table) THEN Leave
       ELSE IF scan.i % PerEntrySector = 0
       THEN /\ Send("read", port, StartLba + (scan.i \div PerEntrySector), 1, scan.ents,
                    <<"ents", port>>, "entry")
            /\ UNCHANGED <<owner, scan, parts, mount>> /\ Scan
       ELSE dpc' = "entry" /\ UNCHANGED <<cmd, owner, scan, parts, mount>> /\ Scan

\* What is at entry i of the table, if the right sector is in memory.
EntryAt(i) == mem[scan.ents] = StartLba + (i \div PerEntrySector) /\ table[i + 1]

\* An entry: a partition is registered, and the first one there is gets mounted
\* (fs_mount, devmgr_try_mount, then mod_main of the FAT module reads its first
\* sector).
PartEntry ==
    /\ dpc = "entry"
    /\ scan' = [scan EXCEPT !.i = @ + 1]
    /\ IF ~EntryAt(scan.i) THEN dpc' = "table" /\ UNCHANGED <<cmd, owner, parts, mount>>
       ELSE \E inplace \in BOOLEAN :
            LET grown == Vector_push_back(parts[port], scan.i, inplace) IN
            /\ parts' = [parts EXCEPT ![port] = grown]
            /\ IF mount.tried THEN dpc' = "table" /\ UNCHANGED <<cmd, owner, mount>>
               ELSE \E bpb \in Cells :
                    /\ FirstFit(owner, bpb, 2)
                    /\ mount' = [tried |-> TRUE, ok |-> FALSE, port |-> port, block |-> grown.block]
                    /\ owner' = Allocated(owner, bpb, 2, <<"bpb", port>>)
                    /\ Send("read", port, StartLba + 3, 1, bpb, <<"bpb", port>>, "mount")
    /\ Scan

\* mod_main of the FAT module after its first read: it refuses the partition
\* or goes on to read the table of clusters.
FatMount ==
    /\ dpc = "mount"
    /\ \/ dpc' = "table" /\ UNCHANGED cmd
       \/ Send("read", port, StartLba + 4, 1, cmd.buf + 1, <<"bpb", port>>, "mounted")
    /\ UNCHANGED <<owner, scan, parts, mount>> /\ Scan

FatMounted ==
    /\ dpc = "mounted"
    /\ mount' = [mount EXCEPT !.ok = TRUE]
    /\ dpc' = "table"
    /\ UNCHANGED <<cmd, owner, scan, parts>> /\ Scan

\* The rest of init_port: the names are copied and the buffer is freed.
Named ==
    /\ dpc = "named"
    /\ owner' = Released(owner, {<<"id", port>>})
    /\ port' = port + 1
    /\ dpc' = "port"
    /\ UNCHANGED <<cmd, drive, table, px, mem, scan, devices, parts, mount, late, stray>>

\* A read of a registered drive after the boot, into memory of its own.
UserRead ==
    /\ dpc = "idle"
    /\ \E p \in {devices[k] : k \in DOMAIN devices}, r \in UserReads :
         \E buf \in Cells :
         /\ FirstFit(owner, buf, r[2])
         /\ owner' = Allocated(owner, buf, r[2], <<"user", p>>)
         /\ Send("read", p, r[1], r[2], buf, <<"user", p>>, "returned")
    /\ UNCHANGED <<scan, parts, mount>> /\ Scan

UserDone ==
    /\ dpc = "returned"
    /\ owner' = Released(owner, {<<"user", cmd.port>>})
    /\ dpc' = "idle" /\ cmd' = NoCmd
    /\ UNCHANGED <<scan, parts, mount>> /\ Scan

DiskInit(setups) ==
    /\ dpc = "start" /\ port = 0 /\ cmd = NoCmd
    /\ \E s \in setups : drive = s.drive /\ table = s.table
    /\ px = [p \in Ports |-> PortReset]
    /\ mem = [c \in Cells |-> 0] /\ owner = [c \in Cells |-> Free]
    /\ scan = [i |-> 0, hdr |-> 0, ents |-> 0]
    /\ devices = <<>> /\ parts = [p \in Ports |-> Vector(0)]
    /\ mount = NotMounted /\ late = FALSE /\ stray = {}

Driver == \/ mod_main \/ init_port \/ setrunning \/ PollTimeout
          \/ Build \/ DriveReady \/ Issue \/ Succeed \/ GiveUp
          \/ devmgr_add_device \/ Header \/ NextEntry \/ PartEntry \/ FatMount \/ FatMounted \/ Named
          \/ UserDone

DiskNext ==
    /\ dpc # "fatal"
    /\ \/ Driver \/ UserRead
       \/ \E p \in Ports : Follow(p) \/ EngineStart(p) \/ Transfer(p) \/ Complete(p) \/ Fail(p)

\* The driver runs; nothing is assumed of the HBA.
DiskFair == WF_diskvars(dpc # "fatal" /\ Driver)
DiskSpec == DiskInit(Setups) /\ [][DiskNext]_diskvars /\ DiskFair
-----------------------------------------------------------------------------
\* The HBA writes only to memory that the command's caller still owns: a read
\* that failed ends in fatal, so its buffer is never given back while the
\* command may run.  An identify that was given up is the exception.
DmaOwned == stray \subseteq {"identify"} /\ (stray # {} => late)

\* The command table of a slot is not rewritten while the HBA may read it.
TablesKept ==
    [][\A p \in Ports : \A s \in px[p].ci : px'[p].tables[s] = px[p].tables[s]]_diskvars

\* A read that returns has the sectors asked for, in order, as long as no
\* identify was given up and the address has no more than 40 bits.
ReadRight ==
    cmd.kind = "read" /\ dpc = cmd.then /\ ~late /\ cmd.lba + cmd.n <= Low =>
        \A k \in 0..(cmd.n - 1) : mem[cmd.buf + k] = cmd.lba + k

\* A Vector holds the numbers of a set, once each and in ascending order.
Enumerates(v, numbers) ==
    /\ numbers = {v.data[a] : a \in 0..(v.size - 1)}
    /\ \A a, b \in 0..(v.size - 1) : a < b => v.data[a] < v.data[b]

\* After the scan of a drive its partitions are the entries in use, once each
\* and in order, and "/" is mounted from the first.
ScanRight ==
    dpc = "named" /\ ~late =>
        LET used == {i \in 0..(Len(table) - 1) : table[i + 1]}
        IN  /\ Enumerates(parts[port], used)
            /\ used # {} => mount.tried /\ mount.port <= port

\* The mount point keeps a pointer into the Vector of partitions.  It stays
\* valid as long as the Vector does not outgrow its first block.
PartitionValid ==
    mount.tried /\ parts[mount.port].size <= growfun(0) => parts[mount.port].block = mount.block

\* Every command the driver sends comes to an end, whatever the HBA does: the
\* driver goes on, or stops the kernel.
CommandEnds == dpc = "build" ~> dpc \notin {"build", "busy", "issue", "wait"}

\* The kernel sees the disk as it is: reads return their sectors, the scan
\* finds the partitions, and the mount point refers to one of them.
DiskSeen == ReadRight /\ ScanRight /\ PartitionValid
=============================================================================
