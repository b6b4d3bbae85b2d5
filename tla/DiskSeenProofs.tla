--------------------------- MODULE DiskSeenProofs ---------------------------
(***************************************************************************)
(* What the kernel sees of the disk, for every partition table and         *)
(* whatever the HBA does.                                                  *)
(*                                                                         *)
(* That a read returns its sectors in order rests on DmaInv of DiskProofs: *)
(* no other command can write to the buffer.  The invariant adds which     *)
(* sectors of the command are in memory (ReadInv), which sector of the     *)
(* table the scan looks at (ScanInv), that the Vector of partitions holds  *)
(* the entries in use among those passed (PartsInv), and which block of    *)
(* that Vector the mount point refers to (MountInv).                       *)
(***************************************************************************)
EXTENDS DiskProofs

\* The first n sectors of the command c are in memory.
Held(c, n) == \A k \in 0..(n - 1) : mem[c.buf + k] = SectorOf(Filled(c), k)

\* Unless an identify was given up, the HBA works only on the command that is
\* waited for, in order, and what it moved stays until the next command.
CmdType == cmd \in Commands \/ cmd = NoCmd
ReadInv ==
    /\ mem \in [Cells -> Int]
    /\ ~late /\ dpc = "wait" =>
           /\ cmd.slot \notin px[cmd.port].ci => Held(cmd, cmd.n)
           /\ px[cmd.port].active = cmd.slot =>
                  px[cmd.port].done <= cmd.n /\ Held(cmd, px[cmd.port].done)
    /\ ~late /\ ~Sending /\ cmd # NoCmd => Held(cmd, cmd.n)

\* Where msd_scout is in the table, and which sector of it is in memory.
EntrySector(i) == StartLba + (i \div PerEntrySector)
InTable == {"table", "entry", "mount", "mounted"}
ScanInv ==
    ~late =>
        /\ Place = "header" => /\ cmd \in Commands /\ cmd.kind = "read" /\ cmd.then = "header"
                               /\ cmd.buf = scan.hdr /\ cmd.lba = 1 /\ cmd.n = 1 /\ scan.i = 0
        /\ Place \in InTable => scan.i <= Len(table)
        /\ Place = "entry" => scan.i < Len(table)
        /\ Sending /\ cmd.then = "entry" =>
               cmd.buf = scan.ents /\ cmd.lba = EntrySector(scan.i) /\ cmd.n = 1
        /\ Sending /\ cmd.then \in {"mount", "mounted"} => cmd.id = <<"bpb", port>>
        /\ \/ dpc = "entry"
           \/ Place \in InTable \ {"entry"} /\ scan.i % PerEntrySector # 0
           => mem[scan.ents] = EntrySector(scan.i)

\* The entries in use among the first j, and the Vector that holds just them.
UsedUpTo(j) == {k \in 0..(Len(table) - 1) : table[k + 1] /\ k < j}
Registered(v, j) == Enumerates(v, UsedUpTo(j))

PartsInv ==
    /\ \A p \in Ports : p > port => parts[p] = Vector(0)
    /\ Place \in Waits \cup {"start", "port", "add"} /\ port \in Ports => parts[port] = Vector(0)
    /\ ~late /\ Place \in Scouting => Registered(parts[port], scan.i)
    /\ ~late /\ Place = "named" => Registered(parts[port], Len(table))

\* The first partition of all is mounted; the Vector it is in has one block up
\* to eight partitions.
VectorOk(v) ==
    /\ v = [data |-> v.data, size |-> v.size, capacity |-> v.capacity, block |-> v.block]
    /\ v.size \in Nat /\ v.capacity \in Nat /\ v.size <= v.capacity
    /\ v.data = [i \in 0..(v.capacity - 1) |-> v.data[i]]
MountInv ==
    /\ table \in Seq(BOOLEAN) /\ StartLba + Len(table) <= Low
    /\ mount = [tried |-> mount.tried, ok |-> mount.ok, port |-> mount.port, block |-> mount.block]
    /\ parts = [p \in Ports |-> parts[p]] /\ \A p \in Ports : VectorOk(parts[p])
    /\ ~mount.tried => \A p \in Ports : parts[p] = Vector(0)
    /\ mount.tried =>
           /\ mount.port \in Ports /\ mount.port <= port
           /\ parts[mount.port].capacity >= 8
           /\ parts[mount.port].capacity = 8 => parts[mount.port].block = mount.block
           /\ parts[mount.port].capacity # 8 => parts[mount.port].size > 8

Seen == ScanInv /\ PartsInv

-----------------------------------------------------------------------------
(* Reads *)

\* Addresses of 40 bits are what the FIS says.
LEMMA LowIs == Low \in Nat /\ Low > 1
<1>1. \A a \in Nat : a > 1 => a * Base \in Nat /\ a * Base > 1
  BY BaseAssumption
<1> QED
  BY <1>1, BaseAssumption DEF Low

LEMMA EncodedIs == ASSUME NEW lba \in Nat, lba < Low PROVE Encoded(lba) = lba
<1>1. Low \in Nat \ {0} /\ Base \in Nat \ {0} /\ Low * Base \in Nat /\ Low * Base > lba
  BY LowIs, BaseAssumption
<1> DEFINE b == Low * Base
<1>2. lba % Low = lba
  BY <1>1
<1>3. lba \div b = 0
  BY <1>1
<1>4. 0 % Base = 0 /\ 0 * Low = 0
  BY <1>1
<1> QED
  BY <1>2, <1>3, <1>4 DEF Encoded

\* Only the command that is waited for is in a slot.
LEMMA OnlyCommand ==
    ASSUME DmaInv, ~late, NEW p \in Ports, NEW s \in px[p].ci
    PROVE  dpc = "wait" /\ cmd.port = p /\ s = cmd.slot
<1>1. px[p] \in PortStates
  BY DEF DmaInv, Types
<1>2. s \in CmdSlots
  BY <1>1 DEF PortStates
<1>3. s \notin Old(p)
  BY DEF DmaInv, OldInv
<1> QED
  BY <1>2, <1>3 DEF Old

\* Nothing is moved between two commands.
LEMMA ReadMove ==
    ASSUME ReadInv, ~Sending, ~Sending', UNCHANGED <<mem, cmd, late>>
    PROVE  ReadInv'
BY DEF ReadInv, Held, Sending

LEMMA ReadSend ==
    ASSUME ReadInv, dpc' \in {"build", "busy", "issue"}, UNCHANGED mem
    PROVE  ReadInv'
BY DEF ReadInv, Sending
\* The HBA moves sectors of this command only.
LEMMA ReadHba ==
    ASSUME DmaInv, ReadInv, NEW p \in Ports,
           Follow(p) \/ EngineStart(p) \/ Transfer(p) \/ Complete(p) \/ Fail(p)
    PROVE  /\ ReadInv'
           /\ ~late => \A k \in Cells : mem'[k] # mem[k] =>
                  dpc = "wait" /\ owner[k] = cmd.id
<1>0. /\ px \in [Ports -> PortStates] /\ px[p] \in PortStates /\ Hardware
      /\ px[p].active # NoSlot => px[p].active \in px[p].ci
      /\ Sending' = Sending
  BY DEF DmaInv, Types, ActiveInv, Follow, EngineStart, Transfer, Complete, Fail, Hardware, Sending
<1> DEFINE Other == \A q \in Ports : q # p => px'[q] = px[q]
<1>1. ASSUME mem' = mem, Other,
             px'[p].ci \subseteq px[p].ci,
             ~late /\ dpc = "wait" /\ cmd.port = p =>
                 /\ cmd.slot \in px[p].ci /\ cmd.slot \notin px'[p].ci => Held(cmd, cmd.n)
                 /\ px'[p].active = cmd.slot => px'[p].done <= cmd.n /\ Held(cmd, px'[p].done)
      PROVE  ReadInv'
  <2>1. dpc = "wait" => cmd.port \in Ports
    BY DEF DmaInv, Types, Commands, Sending
  <2>2. UNCHANGED <<dpc, cmd, late>>
    BY <1>0 DEF Hardware
  <2>4. ASSUME ~late, dpc = "wait"
        PROVE  /\ cmd.slot \notin px'[cmd.port].ci => Held(cmd, cmd.n)
               /\ px'[cmd.port].active = cmd.slot =>
                      px'[cmd.port].done <= cmd.n /\ Held(cmd, px'[cmd.port].done)
    <3>1. CASE cmd.port = p
      <4>1. cmd.slot \notin px[p].ci => Held(cmd, cmd.n)
        BY <2>4, <3>1 DEF ReadInv
      <4> QED
        BY <1>1, <2>4, <3>1, <4>1
    <3>2. CASE cmd.port # p
      <4>1. px'[cmd.port] = px[cmd.port]
        BY <1>1, <2>1, <2>4, <3>2
      <4> QED
        BY <2>4, <4>1 DEF ReadInv
    <3> QED
      BY <3>1, <3>2
  <2>5. ~late /\ ~Sending /\ cmd # NoCmd => Held(cmd, cmd.n)
    BY DEF ReadInv
  <2>6. mem' \in [Cells -> Int]
    BY <1>1 DEF ReadInv
  <2>8. Held(cmd, px'[cmd.port].done) => Held(cmd, px[cmd.port].done)'
    BY <1>1, <2>2, Zenon DEF Held
  <2>9. Held(cmd, cmd.n) => Held(cmd, cmd.n)'
    BY <1>1, <2>2, Zenon DEF Held
  <2> QED
    BY <1>0, <2>2, <2>4, <2>5, <2>6, <2>8, <2>9 DEF ReadInv
<1>2. CASE Follow(p)
  <2>1. /\ mem' = mem /\ Other /\ px'[p].ci = px[p].ci /\ px'[p].active = px[p].active
        /\ px'[p].done = px[p].done
    BY <1>0, <1>2 DEF Follow, PortStates
  <2> QED
    BY <1>1, <2>1 DEF ReadInv
<1>3. CASE EngineStart(p)
  <2>1. /\ mem' = mem /\ Other /\ px'[p].ci = px[p].ci /\ px'[p].done = 0
    <3>1. PICK s \in px[p].ci : px' = [px EXCEPT ![p].active = s, ![p].done = 0]
      BY <1>3 DEF EngineStart
    <3> QED
      BY <1>0, <1>3, <3>1 DEF EngineStart, PortStates
  <2>2. dpc = "wait" => cmd.n \in Nat
    BY DEF DmaInv, Types, Commands, Sending
  <2>3. Held(cmd, 0)
    BY DEF Held
  <2> QED
    BY <1>1, <2>1, <2>2, <2>3
<1>4. CASE Complete(p)
  <2> DEFINE s == px[p].active
  <2>1. /\ mem' = mem /\ Other /\ px'[p].ci = px[p].ci \ {s} /\ px'[p].active = NoSlot
        /\ s # NoSlot /\ px[p].done = px[p].tables[s].n /\ s \in px[p].ci
    BY <1>0, <1>4 DEF Complete, PortStates
  <2>2. ASSUME ~late, dpc = "wait", cmd.port = p
        PROVE  Held(cmd, cmd.n) /\ cmd.slot # NoSlot
    <3>1. cmd.slot = s
      BY <2>1, <2>2, OnlyCommand
    <3>2. px[p].tables[s] = Filled(cmd)
      BY <2>2, <3>1 DEF DmaInv, CmdInv, Sending
    <3>3. px[p].done = cmd.n
      BY <2>1, <3>2 DEF Filled
    <3> QED
      BY <2>1, <2>2, <3>1, <3>3 DEF ReadInv
  <2> QED
    BY <1>1, <2>1, <2>2
<1>5. CASE Fail(p)
  <2>1. /\ mem' = mem /\ Other /\ px'[p].ci = px[p].ci /\ px'[p].active = NoSlot
    <3>1. PICK serr \in Flags :
              px' = [px EXCEPT ![p].active = NoSlot, ![p].stopped = TRUE, ![p].sata_err = serr]
      BY <1>5 DEF Fail, Flags
    <3> QED
      BY <1>0, <1>5, <3>1 DEF Fail, PortStates
  <2>2. dpc = "wait" => cmd.slot \in CmdSlots
    BY DEF DmaInv, CmdInv, Sending
  <2>3. NoSlot \notin CmdSlots
    BY CmdSlotsAssumption DEF NoSlot
  <2> QED
    BY <1>1, <2>1, <2>2, <2>3
<1>6. CASE Transfer(p)
  <2> DEFINE s == px[p].active
             d == px[p].done
             c == px[p].tables[s]
             at == c.buf + d
  <2>0. d \in Nat /\ d < c.n
    BY <1>0, <1>6 DEF Transfer, PortStates
  <2>1. /\ s # NoSlot /\ s \in px[p].ci /\ s \in CmdSlots
        /\ mem' = IF owner[at] = Free THEN mem ELSE [mem EXCEPT ![at] = SectorOf(c, d)]
    BY <1>0, <1>6 DEF Transfer, PortStates
  <2>2. Other /\ px'[p].ci = px[p].ci /\ px'[p].active = s /\ px'[p].done = d + 1
    BY <1>0, <1>6 DEF Transfer, PortStates
  <2>3. CASE s \in Old(p)
    <3>1. late /\ c.kind = "identify"
      BY <2>3 DEF DmaInv, OldInv
    <3>2. mem' \in [Cells -> Int]
      <4>1. SectorOf(c, d) \in Int
        BY <3>1 DEF SectorOf
      <4> HIDE DEF c, d
      <4> QED
        BY <2>1, <4>1 DEF ReadInv
    <3> QED
      BY <1>0, <3>1, <3>2 DEF ReadInv, Hardware
  <2>4. CASE s \notin Old(p)
    <3>1. dpc = "wait" /\ cmd.port = p /\ s = cmd.slot
      BY <2>1, <2>4 DEF Old
    <3>2. /\ Sending /\ cmd \in Commands /\ c = Filled(cmd)
          /\ \A k \in cmd.buf..(cmd.buf + cmd.n - 1) : k \in Cells /\ owner[k] = cmd.id
      BY <3>1 DEF DmaInv, Types, CmdInv, Sending
    <3>3. cmd.buf \in Nat /\ cmd.n \in Nat /\ cmd.id \in Ids /\ cmd.lba \in Nat
      BY <3>2 DEF Commands
    <3>4. c.buf = cmd.buf /\ c.n = cmd.n
      BY <3>2 DEF Filled
    <3> HIDE DEF c, d
    <3>5. at \in cmd.buf..(cmd.buf + cmd.n - 1) /\ at = cmd.buf + d /\ d < cmd.n
      BY <2>0, <3>3, <3>4
    <3> HIDE DEF at
    <3>6. at \in Cells /\ owner[at] = cmd.id /\ cmd.id # Free
      BY <3>2, <3>3, <3>5 DEF Ids, Free
    <3>7. mem' = [mem EXCEPT ![at] = SectorOf(c, d)] /\ SectorOf(c, d) \in Int
      <4>1. Encoded(cmd.lba) \in Int
        BY <3>3, EncodedType
      <4> QED
        BY <2>0, <2>1, <3>2, <3>6, <4>1 DEF SectorOf, Filled
    <3>8. mem' \in [Cells -> Int] /\ \A k \in Cells : k # at => mem'[k] = mem[k]
      BY <3>7 DEF ReadInv
    <3>9. ASSUME ~late
          PROVE  /\ px'[p].done <= cmd.n
                 /\ \A k \in 0..(px'[p].done - 1) : mem'[cmd.buf + k] = SectorOf(Filled(cmd), k)
      <4>1. Held(cmd, d)
        BY <3>1, <3>9 DEF ReadInv, d
      <4>2. ASSUME NEW k \in 0..d PROVE mem'[cmd.buf + k] = SectorOf(Filled(cmd), k)
        <5>1. CASE k = d
          BY <5>1, <3>2, <3>5, <3>6, <3>7 DEF ReadInv
        <5>2. CASE k # d
          <6>1. k \in 0..(d - 1) /\ cmd.buf + k # at
            BY <5>2, <2>0, <3>3, <3>5
          <6>2. cmd.buf + k \in cmd.buf..(cmd.buf + cmd.n - 1)
            BY <2>0, <3>3, <3>5, <6>1
          <6> QED
            BY <3>2, <3>8, <4>1, <6>1, <6>2 DEF Held
        <5> QED
          BY <5>1, <5>2
      <4>3. px'[p].done <= cmd.n /\ px'[p].done - 1 = d
        BY <2>0, <2>2, <3>3, <3>5
      <4> QED
        BY <4>2, <4>3
    <3>10. ReadInv'
      <4>1. UNCHANGED <<dpc, cmd, late>>
        BY <1>0 DEF Hardware
      <4>2. cmd.slot \in px'[cmd.port].ci
        BY <2>1, <2>2, <3>1
      <4>3. Filled(cmd)' = Filled(cmd)
        BY <4>1 DEF Filled
      <4>4. ~late => px'[cmd.port].done <= cmd.n /\ Held(cmd, px[cmd.port].done)'
        <5> SUFFICES ASSUME ~late
                     PROVE  px'[cmd.port].done <= cmd.n /\ Held(cmd, px[cmd.port].done)'
          OBVIOUS
        <5>1. \A k \in 0..(px'[cmd.port].done - 1) : mem'[cmd.buf + k] = SectorOf(Filled(cmd), k)
          BY <3>1, <3>9
        <5>2. px'[cmd.port].done <= cmd.n
          BY <3>1, <3>9
        <5> QED
          BY <4>1, <4>3, <5>1, <5>2, Zenon DEF Held
      <4>5. Sending'
        BY <1>0, <3>2
      <4> QED
        BY <3>8, <4>1, <4>2, <4>4, <4>5 DEF ReadInv
    <3> QED
      BY <3>1, <3>6, <3>8, <3>10
  <2> QED
    BY <2>3, <2>4
<1> QED
  BY <1>2, <1>3, <1>4, <1>5, <1>6 DEF Follow, EngineStart, Complete, Fail
LEMMA ReadCommand ==
    ASSUME DmaInv, ReadInv, Build \/ DriveReady \/ Issue \/ Succeed \/ GiveUp, dpc' # "fatal"
    PROVE  ReadInv'
<1>1. CASE Build \/ DriveReady
  BY <1>1, ReadSend DEF Build, DriveReady, Quiet
<1>2. CASE Issue
  <2>1. /\ dpc = "issue" /\ dpc' = "wait" /\ UNCHANGED <<cmd, mem, late>>
        /\ px' = [px EXCEPT ![cmd.port].ci = @ \cup cmd.seen \cup {cmd.slot}]
    BY <1>2 DEF Issue, Quiet
  <2>2. /\ cmd.port \in Ports /\ px \in [Ports -> PortStates] /\ px[cmd.port] \in PortStates
        /\ cmd.slot \in CmdSlots /\ cmd.slot \notin px[cmd.port].ci
    BY <2>1 DEF DmaInv, Types, CmdInv, Sending, Commands
  <2>3. cmd.slot \in px'[cmd.port].ci /\ px'[cmd.port].active = px[cmd.port].active
    BY <2>1, <2>2 DEF PortStates
  <2>4. px[cmd.port].active # cmd.slot
    BY <2>2, CmdSlotsAssumption DEF DmaInv, ActiveInv, NoSlot
  <2>5. Sending'
    BY <2>1 DEF Sending
  <2> QED
    BY <2>1, <2>3, <2>4, <2>5 DEF ReadInv
<1>3. CASE Succeed
  <2>1. /\ dpc = "wait" /\ dpc' = cmd.then /\ UNCHANGED <<cmd, mem, late>>
        /\ cmd.slot \notin px[cmd.port].ci
    BY <1>3 DEF Succeed, Quiet
  <2>2. cmd \in Commands
    BY <2>1 DEF DmaInv, Types, Sending
  <2>3. dpc' # "wait"
    BY <2>1, <2>2 DEF Commands
  <2>4. ~late => Held(cmd, cmd.n)'
    BY <2>1 DEF ReadInv, Held, Filled
  <2> QED
    BY <2>1, <2>3, <2>4 DEF ReadInv
<1>4. CASE GiveUp
  BY <1>4 DEF GiveUp, ReadInv
<1> QED
  BY <1>1, <1>2, <1>3, <1>4
-----------------------------------------------------------------------------
(* The scan of the table *)

LEMMA SectorStep ==
    ASSUME NEW i \in Nat, (i + 1) % PerEntrySector # 0
    PROVE  EntrySector(i + 1) = EntrySector(i)
<1> DEFINE n == PerEntrySector
<1>1. n \in Nat \ {0}
  BY PerEntrySectorAssumption
<1> HIDE DEF n
<1> DEFINE q == i \div n
           r == i % n
<1>2. q \in Nat /\ r \in 0..(n - 1) /\ i = n * q + r
  BY <1>1
<1> HIDE DEF q, r
<1>3. r + 1 # n
  <2> SUFFICES ASSUME r + 1 = n PROVE FALSE
    OBVIOUS
  <2>1. i + 1 = n * (q + 1)
    BY <1>1, <1>2
  <2>2. (i + 1) % n = 0
    BY <1>1, <1>2, <2>1
  <2> QED
    BY <2>2 DEF n
<1>4. i + 1 = n * q + (r + 1) /\ r + 1 \in 0..(n - 1)
  BY <1>1, <1>2, <1>3
<1>5. (i + 1) \div n = q
  BY <1>1, <1>2, <1>4
<1> QED
  BY <1>5 DEF EntrySector, n, q

LEMMA SectorLow ==
    ASSUME MountInv, NEW i \in Nat, i < Len(table)
    PROVE  EntrySector(i) \in Nat /\ EntrySector(i) < Low
<1> DEFINE n == PerEntrySector
           q == i \div n
<1>1. n \in Nat \ {0} /\ StartLba \in Nat
  BY PerEntrySectorAssumption, StartLbaAssumption
<1>2. Len(table) \in Nat /\ StartLba + Len(table) <= Low
  BY DEF MountInv
<1> HIDE DEF n
<1>3. q \in Nat /\ q <= i
  BY <1>1
<1> HIDE DEF q
<1> QED
  BY <1>1, <1>2, <1>3, LowIs DEF EntrySector, q, n

LEMMA ScanHba ==
    ASSUME DmaInv, ReadInv, ScanInv, NEW p \in Ports,
           Follow(p) \/ EngineStart(p) \/ Transfer(p) \/ Complete(p) \/ Fail(p)
    PROVE  ScanInv'
<1>1. UNCHANGED <<dpc, cmd, port, scan, table, late>>
  BY DEF Follow, EngineStart, Transfer, Complete, Fail, Hardware
<1>2. Sending' = Sending /\ Place' = Place
  BY <1>1 DEF Sending, Place
<1> SUFFICES ASSUME ~late,
                    \/ dpc = "entry"
                    \/ Place \in InTable \ {"entry"} /\ scan.i % PerEntrySector # 0
             PROVE  mem'[scan.ents] = mem[scan.ents]
  BY <1>1, <1>2 DEF ScanInv, EntrySector
<1>3. /\ Place \in Scouting /\ scan.ents \in Cells /\ owner[scan.ents] = <<"ents", port>>
  BY DEF DmaInv, PlaceInv, Place, Sending, InTable, Scouting
<1>4. dpc = "wait" => cmd.id = <<"bpb", port>>
  <2> SUFFICES ASSUME dpc = "wait" PROVE cmd.id = <<"bpb", port>>
    OBVIOUS
  <2>1. Sending /\ cmd \in Commands /\ cmd.then \in InTable \ {"entry"}
    BY DEF DmaInv, Types, Sending, Place
  <2>2. cmd.then \in {"mount", "mounted"}
    BY <2>1 DEF Commands, InTable
  <2> QED
    BY <2>1, <2>2 DEF ScanInv
<1>5. <<"bpb", port>> # <<"ents", port>>
  OBVIOUS
<1> QED
  BY <1>3, <1>4, <1>5, ReadHba

LEMMA ScanCommand ==
    ASSUME DmaInv, ReadInv, ScanInv, MountInv,
           Build \/ DriveReady \/ Issue \/ Succeed \/ GiveUp, dpc' # "fatal"
    PROVE  ScanInv' /\ Place' = Place /\ Sending
<1>0. /\ UNCHANGED <<port, scan, table, mem>> /\ Sending /\ cmd \in Commands
  BY DEF Build, DriveReady, Issue, Succeed, GiveUp, Quiet, DmaInv, Types, Sending
<1>1. CASE Build \/ DriveReady \/ Issue
  <2>1. /\ Sending' /\ dpc' # "entry" /\ late' = late
        /\ \/ cmd' = cmd
           \/ \E x : cmd' = [cmd EXCEPT !.slot = x]
           \/ cmd' = [cmd EXCEPT !.seen = px[cmd.port].ci]
    BY <1>1 DEF Build, DriveReady, Issue, Quiet, Sending
  <2>2. /\ cmd'.kind = cmd.kind /\ cmd'.then = cmd.then /\ cmd'.buf = cmd.buf
        /\ cmd'.lba = cmd.lba /\ cmd'.n = cmd.n /\ cmd'.id = cmd.id
    BY <1>0, <2>1 DEF Commands
  <2>3. cmd' \in Commands
    BY <1>1, <2>1, BuildKeeps, DriveReadyKeeps, IssueKeeps DEF DmaInv, Types
  <2>4. Place' = Place
    BY <1>0, <2>1, <2>2 DEF Place
  <2> QED
    BY <1>0, <2>1, <2>2, <2>3, <2>4 DEF ScanInv, EntrySector
<1>2. CASE GiveUp
  <2>1. late' /\ cmd' = cmd /\ dpc' = cmd.then /\ dpc' \notin {"build", "busy", "issue", "wait"}
    BY <1>0, <1>2 DEF GiveUp, Commands
  <2> QED
    BY <1>0, <2>1 DEF ScanInv, Place, Sending
<1>3. CASE Succeed
  <2>1. /\ cmd' = cmd /\ dpc = "wait" /\ dpc' = cmd.then /\ late' = late
        /\ dpc' \notin {"build", "busy", "issue", "wait"}
        /\ cmd.slot \notin px[cmd.port].ci
    BY <1>0, <1>3 DEF Succeed, Commands, Quiet
  <2>2. ~Sending' /\ Place' = Place
    BY <1>0, <2>1 DEF Sending, Place
  <2>3. ASSUME ~late, dpc' = "entry" PROVE mem[scan.ents] = EntrySector(scan.i)
    <3>1. /\ cmd.then = "entry" /\ cmd.buf = scan.ents /\ cmd.lba = EntrySector(scan.i)
          /\ cmd.n = 1 /\ scan.i < Len(table)
      BY <1>0, <2>1, <2>3 DEF ScanInv, Place
    <3>2. cmd.kind = "read" /\ cmd.buf \in Nat
      BY <1>0, <3>1 DEF DmaInv, PlaceInv, Commands
    <3>3. Held(cmd, 1)
      BY <2>1, <2>3, <3>1 DEF ReadInv
    <3>4. mem[cmd.buf + 0] = SectorOf(Filled(cmd), 0)
      BY <3>3 DEF Held
    <3>5. scan.i \in Nat
      BY DEF DmaInv, Types, Scans
    <3>6. cmd.lba \in Nat /\ Encoded(cmd.lba) = cmd.lba
      BY <3>1, <3>5, SectorLow, EncodedIs
    <3> QED
      BY <3>1, <3>2, <3>4, <3>6 DEF SectorOf, Filled
  <2> QED
    BY <1>0, <2>1, <2>2, <2>3 DEF ScanInv, EntrySector
<1> QED
  BY <1>0, <1>1, <1>2, <1>3
-----------------------------------------------------------------------------
(* The Vector of partitions *)

LEMMA VectorNone == VectorOk(Vector(0)) /\ Vector(0).size = 0 /\ Vector(0).capacity = 0
BY DEF VectorOk, Vector

Block(e, k) == e = [i \in 0..(k - 1) |-> e[i]]
Pushed(e, s, x, k, a) == [data |-> [e EXCEPT ![s] = x], size |-> s + 1, capacity |-> k, block |-> a]
HasPushed(w, e, s, x, k, a) ==
    /\ VectorOk(w) /\ w.size = s + 1 /\ w.capacity = k /\ w.block = a
    /\ w.data[s] = x /\ \A i \in 0..(s - 1) : w.data[i] = e[i]

LEMMA PushRoom ==
    ASSUME NEW e, NEW s \in Nat, NEW k \in Nat, NEW a, NEW x, s < k, Block(e, k)
    PROVE  HasPushed(Pushed(e, s, x, k, a), e, s, x, k, a)
<1> USE DEF Block, Pushed
<1> DEFINE f == [e EXCEPT ![s] = x]
           w == Pushed(e, s, x, k, a)
<1>1. s \in 0..(k - 1) /\ DOMAIN e = 0..(k - 1)
  OBVIOUS
<1>2. DOMAIN f = 0..(k - 1) /\ f[s] = x /\ \A i \in 0..(k - 1) : i # s => f[i] = e[i]
  BY <1>1
<1>3. f = [i \in 0..(k - 1) |-> f[i]]
  BY <1>1
<1>4. w.data = f /\ w.size = s + 1 /\ w.capacity = k /\ w.block = a
  OBVIOUS
<1> HIDE DEF f
<1>5. \A i \in 0..(s - 1) : i \in 0..(k - 1) /\ i # s
  OBVIOUS
<1>6. VectorOk(w)
  <2>1. w = [data |-> w.data, size |-> w.size, capacity |-> w.capacity, block |-> w.block]
    BY DEF f
  <2>2. w.size \in Nat /\ w.capacity \in Nat /\ w.size <= w.capacity
    BY <1>4
  <2>3. w.data = [i \in 0..(w.capacity - 1) |-> w.data[i]]
    BY <1>3, <1>4
  <2> QED
    BY <2>1, <2>2, <2>3 DEF VectorOk
<1> QED
  BY <1>2, <1>4, <1>5, <1>6 DEF HasPushed

\* push_back puts x behind the elements of v, whether it had to grow or not.
Longer(w, v, x) ==
    /\ VectorOk(w) /\ w.size = v.size + 1 /\ w.data[v.size] = x
    /\ \A i \in 0..(v.size - 1) : w.data[i] = v.data[i]
    /\ w.capacity = IF v.size >= v.capacity THEN growfun(v.capacity) ELSE v.capacity
    /\ v.size < v.capacity => w.block = v.block

LEMMA PushBack ==
    ASSUME NEW v, VectorOk(v), NEW x, NEW inplace \in BOOLEAN
    PROVE  Longer(Vector_push_back(v, x, inplace), v, x)
<1> DEFINE w == Vector_push_back(v, x, inplace)
<1> SUFFICES Longer(w, v, x)
  OBVIOUS
<1> HIDE DEF w
<1>1. /\ v.size \in Nat /\ v.capacity \in Nat /\ v.size <= v.capacity
      /\ v.data = [i \in 0..(v.capacity - 1) |-> v.data[i]]
      /\ v = [data |-> v.data, size |-> v.size, capacity |-> v.capacity, block |-> v.block]
  BY DEF VectorOk
<1>2. CASE v.size < v.capacity
  <2>1. ~(v.size >= v.capacity)
    BY <1>1, <1>2
  <2>2. w = [v EXCEPT !.data[v.size] = x, !.size = @ + 1]
    BY <2>1 DEF Vector_push_back, w
  <2>3. w = Pushed(v.data, v.size, x, v.capacity, v.block) /\ Block(v.data, v.capacity)
    BY <1>1, <2>2 DEF Pushed, Block
  <2>4. /\ VectorOk(w) /\ w.size = v.size + 1 /\ w.capacity = v.capacity /\ w.block = v.block
        /\ w.data[v.size] = x /\ \A i \in 0..(v.size - 1) : w.data[i] = v.data[i]
    <3>1. v.size \in Nat /\ v.capacity \in Nat
      BY <1>1
    <3>2. HasPushed(Pushed(v.data, v.size, x, v.capacity, v.block), v.data, v.size, x, v.capacity, v.block)
      BY <1>2, <2>3, <3>1, PushRoom
    <3>3. HasPushed(w, v.data, v.size, x, v.capacity, v.block)
      BY <2>3, <3>2, Zenon
    <3> QED
      BY <3>3 DEF HasPushed
  <2> QED
    BY <1>2, <2>1, <2>4 DEF Longer
<1>3. CASE v.size >= v.capacity
  <2> DEFINE g == growfun(v.capacity)
             first == v.capacity = 0 /\ g # 0
             kept(i) == IF inplace /\ ~first THEN i < v.capacity ELSE i < v.size
             e == [i \in 0..(g - 1) |-> IF kept(i) THEN v.data[i] ELSE Junk]
             a == IF inplace THEN v.block ELSE v.block + 1
             r == [data |-> e, size |-> v.size, capacity |-> g, block |-> a]
  <2>1. g \in Nat /\ v.size < g /\ ~(g < v.size)
    BY <1>1 DEF growfun
  <2>2. reserve(v, g, inplace) = [v EXCEPT !.data = e, !.capacity = g, !.block = a]
    <3> HIDE DEF g
    <3>1. (IF g < v.size THEN v.size ELSE g) = g
      BY <2>1
    <3> QED
      BY <3>1 DEF reserve
  <2>3. Block(e, g)
    BY DEF Block
  <2>4. \A i \in 0..(v.size - 1) : e[i] = v.data[i]
    <3> HIDE DEF g
    <3> SUFFICES ASSUME NEW i \in 0..(v.size - 1) PROVE kept(i) /\ i \in 0..(g - 1)
      OBVIOUS
    <3>1. i < v.capacity /\ i < v.size /\ i \in 0..(g - 1)
      BY <1>1, <2>1
    <3> QED
      BY <3>1
  <2> HIDE DEF e, a, g
  <2>5. reserve(v, g, inplace) = r
    BY <1>1, <2>2
  <2>6. w = [r EXCEPT !.data[r.size] = x, !.size = @ + 1]
    BY <1>3, <2>5 DEF Vector_push_back, g, w
  <2>7. w = Pushed(e, v.size, x, g, a)
    BY <2>6 DEF Pushed
  <2>8. /\ VectorOk(w) /\ w.size = v.size + 1 /\ w.capacity = g
        /\ w.data[v.size] = x /\ \A i \in 0..(v.size - 1) : w.data[i] = e[i]
    <3>1. v.size \in Nat
      BY <1>1
    <3>2. HasPushed(Pushed(e, v.size, x, g, a), e, v.size, x, g, a)
      BY <2>1, <2>3, <3>1, PushRoom
    <3>3. HasPushed(w, e, v.size, x, g, a)
      BY <2>7, <3>2, Zenon
    <3> QED
      BY <3>3 DEF HasPushed
  <2>9. ~(v.size < v.capacity)
    BY <1>1, <1>3
  <2> QED
    BY <1>3, <2>4, <2>8, <2>9 DEF g, Longer
<1>4. v.size < v.capacity \/ v.size >= v.capacity
  <2>1. v.size \in Nat /\ v.capacity \in Nat
    BY <1>1
  <2> QED
    BY <2>1
<1> QED
  BY <1>2, <1>3, <1>4

LEMMA RegisteredNone == Registered(Vector(0), 0)
<1>1. UsedUpTo(0) = {} /\ 0..(Vector(0).size - 1) = {}
  BY VectorNone DEF UsedUpTo
<1> QED
  BY <1>1 DEF Registered, Enumerates

\* An entry that is not in use is passed over.
LEMMA RegisteredSkip ==
    ASSUME MountInv, NEW i \in Nat, i < Len(table), ~table[i + 1], NEW v, Registered(v, i)
    PROVE  Registered(v, i + 1)
<1>1. UsedUpTo(i + 1) = UsedUpTo(i)
  BY DEF UsedUpTo, MountInv
<1> QED
  BY <1>1 DEF Registered

\* One that is in use is put behind the ones before it.
LEMMA RegisteredStep ==
    ASSUME MountInv, NEW i \in Nat, i < Len(table), table[i + 1],
           NEW v, Registered(v, i), v.size \in Nat,
           NEW w, w.size = v.size + 1, w.data[v.size] = i,
           \A k \in 0..(v.size - 1) : w.data[k] = v.data[k]
    PROVE  Registered(w, i + 1)
<1>1. UsedUpTo(i + 1) = UsedUpTo(i) \cup {i} /\ \A k \in UsedUpTo(i) : k \in Nat /\ k < i
  BY DEF UsedUpTo, MountInv
<1>2. /\ UsedUpTo(i) = {v.data[a] : a \in 0..(v.size - 1)}
      /\ \A a, b \in 0..(v.size - 1) : a < b => v.data[a] < v.data[b]
  BY DEF Registered, Enumerates
<1> DEFINE n == v.size
<1>3. n \in Nat /\ w.size - 1 = n /\ 0..n = (0..(n - 1)) \cup {n}
  OBVIOUS
<1>4. \A a \in 0..(n - 1) : w.data[a] = v.data[a] /\ v.data[a] \in UsedUpTo(i)
  BY <1>2
<1>5. w.data[n] = i
  OBVIOUS
<1> HIDE DEF n
<1>6. UsedUpTo(i + 1) = {w.data[a] : a \in 0..n}
  <2>1. ASSUME NEW k \in UsedUpTo(i) PROVE \E a \in 0..n : w.data[a] = k
    <3>1. PICK a \in 0..(n - 1) : v.data[a] = k
      BY <1>2 DEF n
    <3> QED
      BY <1>3, <1>4, <3>1
  <2>2. ASSUME NEW a \in 0..n PROVE w.data[a] \in UsedUpTo(i) \cup {i}
    BY <1>3, <1>4, <1>5
  <2>3. \E a \in 0..n : w.data[a] = i
    BY <1>3, <1>5
  <2> QED
    BY <1>1, <2>1, <2>2, <2>3
<1>7. ASSUME NEW a \in 0..n, NEW b \in 0..n, a < b PROVE w.data[a] < w.data[b]
  <2>1. a \in 0..(n - 1)
    BY <1>3, <1>7
  <2>2. CASE b = n
    BY <1>1, <1>4, <1>5, <2>1, <2>2
  <2>3. CASE b # n
    <3>1. b \in 0..(n - 1)
      BY <1>3, <2>3
    <3> QED
      BY <1>2, <1>4, <1>7, <2>1, <3>1 DEF n
  <2> QED
    BY <2>2, <2>3
<1> QED
  BY <1>3, <1>6, <1>7 DEF Registered, Enumerates
-----------------------------------------------------------------------------
(* The mount point *)

\* Only PartEntry registers a partition.
LEMMA PartsSame ==
    ASSUME DiskNext, ~PartEntry
    PROVE  /\ UNCHANGED <<table, parts>>
           /\ port' = port \/ port' = port + 1
           /\ mount' = mount \/ mount' = [mount EXCEPT !.ok = TRUE]
<1>1. CASE Driver \/ UserRead
  BY <1>1, Zenon
     DEF Driver, mod_main, init_port, setrunning, PollTimeout, BootFrame, Build,
         DriveReady, Issue, Succeed, GiveUp, Quiet, devmgr_add_device, Header, NextEntry,
         FatMount, FatMounted, Leave, Scan, Named, UserRead, UserDone
<1>2. CASE ~(Driver \/ UserRead)
  BY <1>2, Zenon DEF DiskNext, Follow, EngineStart, Transfer, Complete, Fail, Hardware
<1> QED
  BY <1>1, <1>2

LEMMA MountOther ==
    ASSUME DmaInv, MountInv, DiskNext, ~PartEntry
    PROVE  MountInv'
<1>1. /\ UNCHANGED <<table, parts>>
      /\ port' = port \/ port' = port + 1
      /\ mount' = mount \/ mount' = [mount EXCEPT !.ok = TRUE]
  BY PartsSame
<1>2. /\ mount'.tried = mount.tried /\ mount'.port = mount.port /\ mount'.block = mount.block
      /\ mount' = [tried |-> mount'.tried, ok |-> mount'.ok, port |-> mount'.port, block |-> mount'.block]
  BY <1>1 DEF MountInv
<1>3. port \in Nat /\ Ports \subseteq Nat
  BY PortsAssumption DEF DmaInv, Types
<1>4. \A p \in Ports : p <= port => p <= port'
  BY <1>1, <1>3
<1>5. (\A p \in Ports : VectorOk(parts[p]))'
  BY <1>1 DEF MountInv, VectorOk
<1> QED
  BY <1>1, <1>2, <1>4, <1>5 DEF MountInv

\* What PartEntry does with an entry in use.
LEMMA EntryUsed ==
    ASSUME DmaInv, MountInv, PartEntry, EntryAt(scan.i)
    PROVE  \E inplace \in BOOLEAN : \E w :
              /\ w = Vector_push_back(parts[port], scan.i, inplace)
              /\ parts' = [parts EXCEPT ![port] = w]
              /\ mount' = IF mount.tried THEN mount
                          ELSE [tried |-> TRUE, ok |-> FALSE, port |-> port, block |-> w.block]
BY Zenon DEF PartEntry, Send

LEMMA MountEntry ==
    ASSUME DmaInv, MountInv, PartEntry
    PROVE  MountInv'
<1>1. /\ port \in Ports /\ UNCHANGED <<table, port>> /\ port \in Nat
      /\ parts = [p \in Ports |-> parts[p]]
  BY DEF PartEntry, Scan, DmaInv, PlaceInv, Types, Place, Sending, Scouting, MountInv
<1>2. CASE ~EntryAt(scan.i)
  <2>1. UNCHANGED <<parts, mount>>
    BY <1>2 DEF PartEntry
  <2> QED
    BY <1>1, <2>1 DEF MountInv, VectorOk
<1>3. CASE EntryAt(scan.i)
  <2>0. PICK inplace \in BOOLEAN : \E w :
              /\ w = Vector_push_back(parts[port], scan.i, inplace)
              /\ parts' = [parts EXCEPT ![port] = w]
              /\ mount' = IF mount.tried THEN mount
                          ELSE [tried |-> TRUE, ok |-> FALSE, port |-> port, block |-> w.block]
    BY <1>3, EntryUsed
  <2>1. PICK w :
              /\ w = Vector_push_back(parts[port], scan.i, inplace)
              /\ parts' = [parts EXCEPT ![port] = w]
              /\ mount' = IF mount.tried THEN mount
                          ELSE [tried |-> TRUE, ok |-> FALSE, port |-> port, block |-> w.block]
    BY <2>0
  <2> DEFINE v == parts[port]
  <2>2. VectorOk(v)
    BY <1>1 DEF MountInv
  <2> HIDE DEF v
  <2>3. /\ VectorOk(w) /\ w.size = v.size + 1
        /\ w.capacity = IF v.size >= v.capacity THEN growfun(v.capacity) ELSE v.capacity
        /\ v.size < v.capacity => w.block = v.block
    <3>1. Longer(Vector_push_back(v, scan.i, inplace), v, scan.i)
      BY <2>2, PushBack
    <3>2. Longer(w, v, scan.i)
      BY <2>1, <3>1, Zenon DEF v
    <3> QED
      BY <3>2 DEF Longer
  <2>4. /\ parts' = [p \in Ports |-> parts'[p]] /\ parts'[port] = w
        /\ \A p \in Ports : p # port => parts'[p] = parts[p]
    BY <1>1, <2>1
  <2>5. \A p \in Ports : VectorOk(parts'[p])
    BY <2>3, <2>4 DEF MountInv
  <2>6. v.size \in Nat /\ v.capacity \in Nat /\ v.size <= v.capacity
    BY <2>2 DEF VectorOk
  <2>7. CASE mount.tried
    <3>1. mount' = mount
      BY <2>1, <2>7
    <3>2. CASE mount.port = port
      <4>1. /\ v.capacity >= 8 /\ (v.capacity = 8 => v.block = mount.block)
            /\ (v.capacity # 8 => v.size > 8)
        BY <2>7, <3>2 DEF MountInv, v
      <4>2. /\ w.capacity >= 8 /\ (w.capacity = 8 => w.block = mount.block)
            /\ (w.capacity # 8 => w.size > 8)
        BY <2>3, <2>6, <4>1 DEF growfun
      <4> QED
        BY <1>1, <2>4, <2>5, <2>7, <3>1, <3>2, <4>2 DEF MountInv, VectorOk
    <3>3. CASE mount.port # port
      BY <1>1, <2>4, <2>5, <2>7, <3>1, <3>3 DEF MountInv, VectorOk
    <3> QED
      BY <3>2, <3>3
  <2>8. CASE ~mount.tried
    <3>1. mount' = [tried |-> TRUE, ok |-> FALSE, port |-> port, block |-> w.block]
      BY <2>1, <2>8
    <3>2. v.size = 0 /\ v.capacity = 0
      BY <1>1, <2>8, VectorNone DEF MountInv, v
    <3>3. w.capacity = 8
      BY <2>3, <3>2 DEF growfun
    <3>4. /\ mount'.tried /\ mount'.port = port /\ mount'.block = w.block
          /\ mount' = [tried |-> mount'.tried, ok |-> mount'.ok,
                       port |-> mount'.port, block |-> mount'.block]
      BY <3>1
    <3>5. port <= port'
      BY <1>1
    <3>6. parts'[mount'.port] = w
      BY <2>4, <3>4
    <3>7. w.capacity >= 8
      BY <3>3
    <3>8. table' \in Seq(BOOLEAN) /\ StartLba + Len(table') <= Low
      BY <1>1 DEF MountInv
    <3> QED
      BY <1>1, <2>4, <2>5, <3>3, <3>4, <3>5, <3>6, <3>7, <3>8, Zenon DEF MountInv, VectorOk
  <2> QED
    BY <2>7, <2>8
<1> QED
  BY <1>2, <1>3
-----------------------------------------------------------------------------
(* The steps of the driver *)

\* Steps that leave the driver in its place.
LEMMA PartsKept ==
    ASSUME PartsInv, Place' = Place, UNCHANGED <<port, parts, scan, table>>, late => late'
    PROVE  PartsInv'
<1>1. \A v, j : Registered(v, j)' = Registered(v, j)
  BY DEF Registered, UsedUpTo
<1> QED
  BY <1>1 DEF PartsInv

\* Steps outside msd_scout.
LEMMA OutsideScan ==
    ASSUME ~Sending', dpc' \notin Scouting
    PROVE  ScanInv'
BY DEF ScanInv, Place, Scouting, InTable

LEMMA SeenBoot ==
    ASSUME DmaInv, Seen, mod_main \/ init_port \/ setrunning \/ Named \/ UserDone
    PROVE  Seen'
<1>0. /\ UNCHANGED <<parts, late, table>> /\ port \in Nat /\ ~Sending /\ Place = dpc
      /\ ~Sending' /\ Place' = dpc' /\ dpc' \notin Scouting \cup {"named"}
  <2>1. /\ UNCHANGED <<parts, late, table>>
        /\ dpc \in Waits \cup {"start", "port", "named", "returned"}
        /\ dpc' \in Waits \cup {"port", "add", "idle"}
    BY Zenon DEF mod_main, init_port, setrunning, Named, UserDone, BootFrame, Scan, Waits
  <2> QED
    BY <2>1 DEF DmaInv, Types, Sending, Place, Scouting, Waits
<1>1. ScanInv'
  BY <1>0, OutsideScan
<1> DEFINE Early == Waits \cup {"start", "port", "add"}
<1>2. ASSUME port' = port, dpc \in Early \/ dpc' \notin Early
      PROVE  PartsInv'
  BY <1>0, <1>2 DEF Seen, PartsInv
<1>3. ASSUME port' = port + 1
      PROVE  PartsInv'
  <2>1. Ports \subseteq Nat
    BY PortsAssumption
  <2>2. \A p \in Ports : p > port' => p > port
    BY <1>0, <1>3, <2>1
  <2>3. port' > port
    BY <1>0, <1>3
  <2> QED
    BY <1>0, <2>2, <2>3 DEF Seen, PartsInv
<1>4. \/ port' = port /\ (dpc \in Early \/ dpc' \notin Early)
      \/ port' = port + 1
  BY Zenon DEF mod_main, init_port, setrunning, Named, UserDone, Scan, Waits
<1> QED
  BY <1>1, <1>2, <1>3, <1>4 DEF Seen
LEMMA SeenAdd ==
    ASSUME DmaInv, MountInv, Seen, devmgr_add_device
    PROVE  Seen'
<1>0. /\ dpc = "add" /\ Place = dpc /\ port \in Ports
      /\ UNCHANGED <<port, parts, table, late>>
  BY DEF devmgr_add_device, DmaInv, PlaceInv, Place, Sending
<1>1. PICK hdr \in Cells, ents \in Cells :
          /\ scan' = [i |-> 0, hdr |-> hdr, ents |-> ents]
          /\ Send("read", port, 1, 1, hdr, <<"hdr", port>>, "header")
  BY DEF devmgr_add_device
<1>2. /\ Sending' /\ Place' = "header" /\ dpc' = "build" /\ scan'.i = 0 /\ scan'.hdr = hdr
      /\ cmd'.kind = "read" /\ cmd'.then = "header" /\ cmd'.buf = hdr /\ cmd'.lba = 1 /\ cmd'.n = 1
  BY <1>1 DEF Send, Sending, Place
<1>3. cmd' \in Commands
  BY <1>2, AddKeeps DEF DmaInv, Types
<1>4. ScanInv'
  BY <1>2, <1>3 DEF ScanInv, InTable
<1>5. Registered(parts[port], 0)'
  <2>1. parts[port] = Vector(0)
    BY <1>0 DEF Seen, PartsInv
  <2>2. Registered(parts[port], 0)
    BY <2>1, RegisteredNone
  <2> QED
    BY <1>0, <2>2 DEF Registered, UsedUpTo
<1>6. PartsInv'
  BY <1>0, <1>2, <1>5 DEF Seen, PartsInv, Waits, Scouting
<1> QED
  BY <1>4, <1>6 DEF Seen

\* msd_scout ends with every entry seen.
LEMMA SeenLeave ==
    ASSUME Seen, ~Sending, dpc \in Scouting, Leave, ~late => scan.i = Len(table)
    PROVE  Seen'
<1>0. UNCHANGED <<port, parts, table, scan, late>> /\ Place = dpc
  BY DEF Leave, Scan, Place
<1>1. Sending' /\ Place' = "named" /\ dpc' = "build" /\ cmd'.then = "named"
  BY DEF Leave, Send, Sending, Place
<1>2. ScanInv'
  BY <1>1 DEF ScanInv, InTable
<1>3. ~late => Registered(parts[port], Len(table))'
  BY <1>0 DEF Seen, PartsInv, Registered, UsedUpTo
<1>4. PartsInv'
  BY <1>0, <1>1, <1>3 DEF Seen, PartsInv, Waits, Scouting
<1> QED
  BY <1>2, <1>4 DEF Seen

\* Steps of msd_scout that register nothing.
LEMMA SeenStays ==
    ASSUME Seen, ~Sending, dpc \in Scouting, Place' \in Scouting,
           UNCHANGED <<port, parts, table, scan, late>>
    PROVE  PartsInv'
<1>1. Place = dpc
  BY DEF Place
<1>2. ~late => Registered(parts[port], scan.i)'
  BY <1>1 DEF Seen, PartsInv, Registered, UsedUpTo
<1> QED
  BY <1>1, <1>2 DEF Seen, PartsInv, Waits, Scouting

LEMMA SeenHeader ==
    ASSUME DmaInv, ReadInv, MountInv, Seen, Header
    PROVE  Seen'
<1>0. dpc = "header" /\ ~Sending /\ Place = dpc /\ dpc \in Scouting
  BY DEF Header, Sending, Place, Scouting
<1>1. ~late => mem[scan.hdr] = 1 /\ scan.i = 0
  <2> SUFFICES ASSUME ~late PROVE mem[scan.hdr] = 1 /\ scan.i = 0
    OBVIOUS
  <2>1. /\ cmd \in Commands /\ cmd.kind = "read" /\ cmd.buf = scan.hdr /\ cmd.lba = 1 /\ cmd.n = 1
        /\ scan.i = 0
    BY <1>0 DEF Seen, ScanInv
  <2>2. cmd # NoCmd /\ cmd.buf \in Nat
    <3>1. cmd.buf \in Nat
      BY <2>1 DEF Commands
    <3>2. NoCmd.kind # "read"
      BY DEF NoCmd
    <3> QED
      BY <2>1, <3>1, <3>2
  <2>3. Held(cmd, 1)
    BY <1>0, <2>1, <2>2 DEF ReadInv
  <2>4. mem[cmd.buf + 0] = SectorOf(Filled(cmd), 0)
    BY <2>3 DEF Held
  <2>5. Encoded(1) = 1
    BY LowIs, EncodedIs
  <2> QED
    BY <2>1, <2>2, <2>4, <2>5 DEF SectorOf, Filled
<1>2. CASE table = <<>> \/ mem[scan.hdr] # 1
  <2>1. Leave
    BY <1>2 DEF Header
  <2>2. ~late => scan.i = Len(table)
    BY <1>1, <1>2
  <2> QED
    BY <1>0, <2>1, <2>2, SeenLeave
<1>3. CASE ~(table = <<>> \/ mem[scan.hdr] # 1)
  <2>1. dpc' = "table" /\ UNCHANGED <<cmd, scan, parts, port, table, mem, late>>
    BY <1>3 DEF Header, Scan
  <2>2. ~Sending' /\ Place' = "table"
    BY <2>1 DEF Sending, Place
  <2>3. Len(table) \in Nat /\ 0 % PerEntrySector = 0
    BY PerEntrySectorAssumption DEF MountInv
  <2>4. ScanInv'
    BY <1>1, <2>1, <2>2, <2>3 DEF ScanInv, InTable
  <2> QED
    BY <1>0, <2>1, <2>2, <2>4, SeenStays DEF Seen, Scouting
<1> QED
  BY <1>2, <1>3

LEMMA SeenNextEntry ==
    ASSUME DmaInv, ReadInv, MountInv, Seen, NextEntry
    PROVE  Seen'
<1>0. dpc = "table" /\ ~Sending /\ Place = dpc /\ dpc \in Scouting
  BY DEF NextEntry, Sending, Place, Scouting
<1>1. scan.i \in Nat /\ Len(table) \in Nat /\ (~late => scan.i <= Len(table))
  BY <1>0 DEF DmaInv, Types, Scans, MountInv, Seen, ScanInv, InTable
<1>2. CASE scan.i = Len(table)
  BY <1>0, <1>2, SeenLeave DEF NextEntry
<1>3. CASE scan.i # Len(table) /\ scan.i % PerEntrySector = 0
  <2>1. /\ Send("read", port, EntrySector(scan.i), 1, scan.ents, <<"ents", port>>, "entry")
        /\ UNCHANGED <<scan, parts, port, table, late>>
    BY <1>3 DEF NextEntry, Scan, EntrySector
  <2>2. /\ Sending' /\ Place' = "entry" /\ dpc' = "build" /\ cmd'.then = "entry"
        /\ cmd'.buf = scan.ents /\ cmd'.lba = EntrySector(scan.i) /\ cmd'.n = 1
    BY <2>1 DEF Send, Sending, Place
  <2>3. ~late => scan.i < Len(table)
    BY <1>1, <1>3
  <2>4. ScanInv'
    BY <1>1, <2>1, <2>2, <2>3 DEF ScanInv, InTable, EntrySector
  <2> QED
    BY <1>0, <2>1, <2>2, <2>4, SeenStays DEF Seen, Scouting
<1>4. CASE scan.i # Len(table) /\ scan.i % PerEntrySector # 0
  <2>1. dpc' = "entry" /\ UNCHANGED <<cmd, scan, parts, port, table, mem, late>>
    BY <1>4 DEF NextEntry, Scan
  <2>2. ~Sending' /\ Place' = "entry"
    BY <2>1 DEF Sending, Place
  <2>3. ~late => scan.i < Len(table)
    BY <1>1, <1>4
  <2>4. ~late => mem[scan.ents] = EntrySector(scan.i)
    BY <1>0, <1>4 DEF Seen, ScanInv, InTable
  <2>5. ScanInv'
    BY <1>1, <2>1, <2>2, <2>3, <2>4 DEF ScanInv, InTable, EntrySector
  <2> QED
    BY <1>0, <2>1, <2>2, <2>5, SeenStays DEF Seen, Scouting
<1> QED
  BY <1>2, <1>3, <1>4
LEMMA SeenPartEntry ==
    ASSUME DmaInv, ReadInv, MountInv, Seen, PartEntry
    PROVE  Seen'
<1>0. dpc = "entry" /\ ~Sending /\ Place = dpc /\ dpc \in Scouting
  BY DEF PartEntry, Sending, Place, Scouting
<1>1. /\ scan.i \in Nat /\ Len(table) \in Nat /\ port \in Ports
      /\ ~late => scan.i < Len(table) /\ mem[scan.ents] = EntrySector(scan.i)
  <2>1. scan.i \in Nat /\ Len(table) \in Nat
    BY DEF DmaInv, Types, Scans, MountInv
  <2>2. port \in Ports
    BY <1>0 DEF DmaInv, PlaceInv
  <2>3. ~late => scan.i < Len(table) /\ mem[scan.ents] = EntrySector(scan.i)
    BY <1>0 DEF Seen, ScanInv
  <2> QED
    BY <2>1, <2>2, <2>3
<1>2. /\ UNCHANGED <<port, table, mem, late>> /\ scan' = [scan EXCEPT !.i = @ + 1]
  BY DEF PartEntry, Scan
<1>3. scan'.i = scan.i + 1 /\ scan'.ents = scan.ents
  BY <1>2 DEF DmaInv, Types, Scans
<1>4. \/ dpc' = "table" /\ ~Sending' /\ Place' = "table"
      \/ /\ Sending' /\ dpc' = "build" /\ Place' = "mount" /\ cmd'.then = "mount"
         /\ cmd'.id = <<"bpb", port>>
  <2>1. \/ dpc' = "table"
        \/ \E bpb : Send("read", port, StartLba + 3, 1, bpb, <<"bpb", port>>, "mount")
    BY Zenon DEF PartEntry
  <2> QED
    BY <2>1 DEF Send, Sending, Place
<1>5. ScanInv'
  <2>1. ~late => scan.i + 1 <= Len(table)
    BY <1>1
  <2>2. ~late /\ (scan.i + 1) % PerEntrySector # 0 => mem[scan.ents] = EntrySector(scan.i + 1)
    BY <1>1, SectorStep
  <2>3. EntrySector(scan.i)' = EntrySector(scan.i + 1)
    BY <1>3 DEF EntrySector
  <2>4. CASE dpc' = "table" /\ ~Sending' /\ Place' = "table"
    BY <1>2, <1>3, <2>1, <2>2, <2>3, <2>4 DEF ScanInv, InTable
  <2>5. CASE /\ Sending' /\ dpc' = "build" /\ Place' = "mount" /\ cmd'.then = "mount"
             /\ cmd'.id = <<"bpb", port>>
    BY <1>2, <1>3, <2>1, <2>2, <2>3, <2>5 DEF ScanInv, InTable
  <2> QED
    BY <1>4, <2>4, <2>5
<1>6. /\ \A p \in Ports : p # port => parts'[p] = parts[p]
      /\ ~late => Registered(parts'[port], scan.i + 1)
  <2>1. ~late => Registered(parts[port], scan.i)
    BY <1>0 DEF Seen, PartsInv
  <2>2. parts = [p \in Ports |-> parts[p]] /\ VectorOk(parts[port])
    BY <1>1 DEF MountInv
  <2>3. CASE ~EntryAt(scan.i)
    <3>1. parts' = parts
      BY <2>3 DEF PartEntry
    <3>2. ~late => ~table[scan.i + 1]
      BY <1>1, <2>3 DEF EntryAt, EntrySector
    <3> QED
      BY <1>1, <2>1, <3>1, <3>2, RegisteredSkip
  <2>4. CASE EntryAt(scan.i)
    <3>0. PICK inplace \in BOOLEAN : \E w :
              /\ w = Vector_push_back(parts[port], scan.i, inplace)
              /\ parts' = [parts EXCEPT ![port] = w]
      BY <2>4, EntryUsed
    <3>1. PICK w :
              /\ w = Vector_push_back(parts[port], scan.i, inplace)
              /\ parts' = [parts EXCEPT ![port] = w]
      BY <3>0
    <3> DEFINE v == parts[port]
    <3>2. VectorOk(v) /\ (~late => Registered(v, scan.i))
      BY <2>1, <2>2
    <3>3. w = Vector_push_back(v, scan.i, inplace)
      BY <3>1
    <3>4. parts'[port] = w /\ \A p \in Ports : p # port => parts'[p] = parts[p]
      BY <1>1, <2>2, <3>1
    <3> HIDE DEF v
    <3>5. /\ w.size = v.size + 1 /\ w.data[v.size] = scan.i
          /\ \A k \in 0..(v.size - 1) : w.data[k] = v.data[k]
      <4>1. Longer(Vector_push_back(v, scan.i, inplace), v, scan.i)
        BY <3>2, PushBack
      <4>2. Longer(w, v, scan.i)
        BY <3>3, <4>1, Zenon
      <4> QED
        BY <4>2 DEF Longer
    <3>6. table[scan.i + 1]
      BY <2>4 DEF EntryAt
    <3>7. ~late => Registered(w, scan.i + 1)
      <4>1. v.size \in Nat
        BY <3>2 DEF VectorOk
      <4> QED
        BY <1>1, <3>2, <3>5, <3>6, <4>1, RegisteredStep
    <3> QED
      BY <3>4, <3>7
  <2> QED
    BY <2>3, <2>4
<1>7. PartsInv'
  <2>1. ~late => Registered(parts[port], scan.i)'
    BY <1>2, <1>3, <1>6 DEF Registered, UsedUpTo
  <2>2. \A p \in Ports : p > port => parts'[p] = Vector(0)
    <3>1. \A p \in Ports : p > port => p # port
      BY <1>1, PortsAssumption
    <3> QED
      BY <1>6, <3>1 DEF Seen, PartsInv
  <2>3. Place' \in {"table", "mount"}
    BY <1>4
  <2> QED
    BY <1>2, <2>1, <2>2, <2>3 DEF PartsInv, Waits
<1> QED
  BY <1>5, <1>7 DEF Seen

LEMMA SeenMount ==
    ASSUME DmaInv, Seen, FatMount \/ FatMounted
    PROVE  Seen'
<1>0. /\ dpc \in {"mount", "mounted"} /\ ~Sending /\ Place = dpc /\ dpc \in Scouting
      /\ UNCHANGED <<scan, parts, port, table, mem, late>>
  BY DEF FatMount, FatMounted, Scan, Sending, Place, Scouting
<1>1. \/ dpc' = "table" /\ ~Sending' /\ Place' = "table"
      \/ /\ Sending' /\ dpc' = "build" /\ Place' = "mounted" /\ cmd'.then = "mounted"
         /\ cmd'.id = <<"bpb", port>>
  BY DEF FatMount, FatMounted, Send, Sending, Place
<1>2. ScanInv'
  BY <1>0, <1>1 DEF Seen, ScanInv, InTable, EntrySector
<1>3. Place' \in Scouting
  BY <1>1 DEF Scouting
<1> QED
  BY <1>0, <1>2, <1>3, SeenStays DEF Seen

LEMMA SeenUserRead ==
    ASSUME Seen, UserRead
    PROVE  Seen'
<1>1. dpc = "idle" /\ ~Sending /\ Place = dpc /\ UNCHANGED <<scan, parts, port, table, mem, late>>
  BY DEF UserRead, Scan, Sending, Place
<1>2. Sending' /\ dpc' = "build" /\ Place' = "returned" /\ cmd'.then = "returned"
  <2>1. \E p, r, buf : Send("read", p, r[1], r[2], buf, <<"user", p>>, "returned")
    BY Zenon DEF UserRead
  <2>2. dpc' = "build" /\ cmd'.then = "returned"
    BY <2>1 DEF Send
  <2> QED
    BY <2>2 DEF Sending, Place
<1>3. ScanInv'
  BY <1>2 DEF ScanInv, InTable
<1>4. PartsInv'
  BY <1>1, <1>2 DEF Seen, PartsInv, Waits, Scouting
<1> QED
  BY <1>3, <1>4 DEF Seen
-----------------------------------------------------------------------------
(* The theorem *)

SeenInv == CmdType /\ MountInv /\ (dpc # "fatal" => DmaInv /\ ReadInv /\ Seen)

LEMMA SeenInit == DiskInit(Setups) => SeenInv
<1> SUFFICES ASSUME DiskInit(Setups) PROVE SeenInv
  OBVIOUS
<1>1. CmdType /\ ~Sending /\ Place = "start" /\ cmd = NoCmd /\ dpc = "start"
  BY DEF DiskInit, CmdType, Sending, Place
<1>2. \A p \in Ports : parts[p] = Vector(0)
  BY DEF DiskInit
<1>3. MountInv
  <2>1. table \in Seq(BOOLEAN) /\ StartLba + Len(table) <= Low
    BY SetupsAssumption DEF DiskInit
  <2>2. parts = [p \in Ports |-> parts[p]] /\ \A p \in Ports : VectorOk(parts[p])
    BY <1>2, VectorNone DEF DiskInit
  <2>3. /\ mount = [tried |-> mount.tried, ok |-> mount.ok, port |-> mount.port, block |-> mount.block]
        /\ ~mount.tried
    BY DEF DiskInit, NotMounted
  <2> QED
    BY <1>2, <2>1, <2>2, <2>3 DEF MountInv
<1>4. ReadInv
  <2>1. mem \in [Cells -> Int]
    BY DEF DiskInit
  <2> QED
    BY <1>1, <2>1 DEF ReadInv
<1>5. Seen
  BY <1>1, <1>2 DEF Seen, ScanInv, PartsInv, InTable, Scouting
<1> QED
  BY <1>1, <1>3, <1>4, <1>5, InitDma DEF SeenInv

\* Between two commands.
LEMMA ReadDriver ==
    ASSUME DmaInv, ReadInv,
           \/ mod_main \/ init_port \/ setrunning \/ devmgr_add_device \/ Header \/ NextEntry
           \/ PartEntry \/ FatMount \/ FatMounted \/ Named \/ UserDone \/ UserRead
    PROVE  ReadInv'
<1>1. /\ UNCHANGED <<mem, late>> /\ ~Sending
      /\ \/ dpc' = "build"
         \/ ~Sending' /\ cmd' = cmd
         \/ ~Sending' /\ cmd' = NoCmd
  <2>1. CASE mod_main \/ init_port \/ setrunning \/ Named
    <3>1. /\ UNCHANGED <<mem, late, cmd>> /\ dpc \in Waits \cup {"start", "port", "named"}
          /\ dpc' \in Waits \cup {"port", "idle", "add"}
      BY <2>1, Zenon DEF mod_main, init_port, setrunning, Named, BootFrame, Waits
    <3> QED
      BY <3>1 DEF Waits, Sending
  <2>2. CASE devmgr_add_device \/ UserRead
    BY <2>2 DEF devmgr_add_device, UserRead, Send, Scan, Sending
  <2>3. CASE UserDone
    BY <2>3 DEF UserDone, Scan, Sending
  <2>4. CASE Header \/ NextEntry \/ PartEntry \/ FatMount \/ FatMounted
    <3>1. /\ UNCHANGED <<mem, late>> /\ dpc \in Scouting
          /\ dpc' = "build" \/ (cmd' = cmd /\ dpc' \in Scouting)
      BY <2>4, Zenon DEF Header, NextEntry, PartEntry, FatMount, FatMounted, Leave, Send, Scan, Scouting
    <3> QED
      BY <3>1 DEF Scouting, Sending
  <2> QED
    BY <2>1, <2>2, <2>3, <2>4
<1>2. CASE dpc' = "build"
  BY <1>1, <1>2, ReadSend
<1>3. CASE ~Sending' /\ cmd' = cmd
  BY <1>1, <1>3, ReadMove
<1>4. CASE ~Sending' /\ cmd' = NoCmd
  BY <1>1, <1>4 DEF ReadInv, Sending
<1> QED
  BY <1>1, <1>2, <1>3, <1>4

LEMMA SeenStep ==
    ASSUME DmaInv, MountInv, ReadInv, Seen, dpc # "fatal", DiskNext, dpc' # "fatal"
    PROVE  ReadInv' /\ Seen'
<1>1. CASE mod_main \/ init_port \/ setrunning \/ Named \/ UserDone
  BY <1>1, ReadDriver, SeenBoot
<1>2. CASE devmgr_add_device
  BY <1>2, ReadDriver, SeenAdd
<1>3. CASE Header \/ NextEntry \/ PartEntry
  BY <1>3, ReadDriver, SeenHeader, SeenNextEntry, SeenPartEntry
<1>4. CASE FatMount \/ FatMounted \/ UserRead
  BY <1>4, ReadDriver, SeenMount, SeenUserRead
<1>5. CASE Build \/ DriveReady \/ Issue \/ Succeed \/ GiveUp
  <2>1. ReadInv'
    BY <1>5, ReadCommand
  <2>2. ScanInv' /\ Place' = Place
    BY <1>5, ScanCommand DEF Seen
  <2>3. UNCHANGED <<port, parts, scan, table>> /\ (late => late')
    <3>1. CASE GiveUp
      BY <3>1, Zenon DEF GiveUp
    <3>2. CASE ~GiveUp
      <4>1. UNCHANGED <<port, parts, scan, table, late>>
        BY <1>5, <3>2 DEF Build, DriveReady, Issue, Succeed, Quiet
      <4> QED
        BY <4>1
    <3> QED
      BY <3>1, <3>2
  <2> QED
    BY <2>1, <2>2, <2>3, PartsKept DEF Seen
<1>6. CASE \E p \in Ports : Follow(p) \/ EngineStart(p) \/ Transfer(p) \/ Complete(p) \/ Fail(p)
  <2>1. ReadInv' /\ ScanInv'
    BY <1>6, ReadHba, ScanHba DEF Seen
  <2>2. Hardware
    BY <1>6, Zenon DEF Follow, EngineStart, Transfer, Complete, Fail
  <2>3. Place' = Place
    BY <2>2 DEF Hardware, Place, Sending
  <2> QED
    BY <2>1, <2>2, <2>3, PartsKept DEF Seen, Hardware
<1>7. ~PollTimeout
  BY DEF PollTimeout
<1> QED
  BY <1>1, <1>2, <1>3, <1>4, <1>5, <1>6, <1>7 DEF DiskNext, Driver

LEMMA CmdTyped ==
    ASSUME DmaInv, CmdType, DiskNext, dpc' # "fatal" => DmaInv'
    PROVE  CmdType'
<1>1. CASE DriveReady
  <2>1. cmd \in Commands /\ cmd.port \in Ports
    BY <1>1 DEF DriveReady, DmaInv, Types, Sending, Commands
  <2>2. px[cmd.port].ci \subseteq CmdSlots
    BY <2>1 DEF DmaInv, Types, PortStates
  <2> QED
    BY <1>1, <2>1, <2>2 DEF DriveReady, CmdType, Commands
<1>2. CASE ~DriveReady
  <2>1. cmd' = cmd \/ cmd' = NoCmd \/ dpc' \in {"build", "busy"}
    <3>1. CASE Driver \/ UserRead
      BY <1>2, <3>1, Zenon
         DEF Driver, mod_main, init_port, setrunning, PollTimeout, BootFrame, Build, Send,
             Issue, Succeed, GiveUp, Quiet, devmgr_add_device, Header, NextEntry,
             PartEntry, FatMount, FatMounted, Leave, Named, UserRead, UserDone
    <3>2. CASE ~(Driver \/ UserRead)
      BY <3>2, Zenon DEF DiskNext, Follow, EngineStart, Transfer, Complete, Fail, Hardware
    <3> QED
      BY <3>1, <3>2
  <2>2. CASE dpc' \in {"build", "busy"}
    BY <2>2 DEF DmaInv, Types, Sending, CmdType
  <2> QED
    BY <2>1, <2>2 DEF CmdType
<1> QED
  BY <1>1, <1>2

LEMMA SeenNext == SeenInv /\ [DiskNext]_diskvars => SeenInv'
<1> SUFFICES ASSUME SeenInv, [DiskNext]_diskvars PROVE SeenInv'
  OBVIOUS
<1>1. CASE UNCHANGED diskvars
  <2> USE <1>1 DEF diskvars
  <2>1. CmdType' /\ MountInv'
    BY DEF SeenInv, CmdType, MountInv, VectorOk
  <2>2. dpc # "fatal" => DmaInv'
    BY NextDma DEF SeenInv
  <2>3. dpc # "fatal" => ReadInv'
    BY DEF SeenInv, ReadInv, Held, Sending, Filled
  <2>4. dpc # "fatal" => ScanInv'
    BY DEF SeenInv, Seen, ScanInv, Sending, Place, EntrySector
  <2>5. dpc # "fatal" => PartsInv'
    <3>1. Place' = Place
      BY DEF Place, Sending
    <3> QED
      BY <3>1, PartsKept DEF SeenInv, Seen
  <2> QED
    BY <2>1, <2>2, <2>3, <2>4, <2>5 DEF SeenInv, Seen
<1>2. CASE DiskNext
  <2>1. DmaInv /\ ReadInv /\ Seen /\ dpc # "fatal" /\ MountInv /\ CmdType
    BY <1>2 DEF SeenInv, DiskNext
  <2>2. dpc' # "fatal" => DmaInv'
    BY <2>1, NextDma
  <2>3. CmdType'
    BY <1>2, <2>1, <2>2, CmdTyped
  <2>4. MountInv'
    BY <1>2, <2>1, MountEntry, MountOther
  <2> QED
    BY <1>2, <2>1, <2>2, <2>3, <2>4, SeenStep DEF SeenInv
<1> QED
  BY <1>1, <1>2

LEMMA SeenIsSeen == SeenInv => DiskSeen
<1> SUFFICES ASSUME SeenInv PROVE DiskSeen
  OBVIOUS
<1>1. ReadRight
  <2> SUFFICES ASSUME cmd.kind = "read", dpc = cmd.then, ~late, cmd.lba + cmd.n <= Low,
                      NEW k \in 0..(cmd.n - 1)
               PROVE  mem[cmd.buf + k] = cmd.lba + k
    BY DEF ReadRight
  <2>1. cmd \in Commands /\ cmd # NoCmd
    BY DEF SeenInv, CmdType, NoCmd
  <2>2. /\ cmd.then \in {"header", "entry", "mount", "mounted", "named", "returned"}
        /\ cmd.lba \in Nat /\ cmd.n \in Nat
    BY <2>1 DEF Commands
  <2>3. dpc # "fatal" /\ ~Sending
    BY <2>2 DEF Sending
  <2>4. Held(cmd, cmd.n)
    BY <2>1, <2>3 DEF SeenInv, ReadInv
  <2>5. Encoded(cmd.lba) = cmd.lba
    <3>1. cmd.lba < Low
      BY <2>2, LowIs
    <3> QED
      BY <2>2, <3>1, EncodedIs
  <2> QED
    BY <2>4, <2>5 DEF Held, SectorOf, Filled
<1>2. ScanRight
  <2> SUFFICES ASSUME dpc = "named", ~late PROVE ScanRight
    BY DEF ScanRight
  <2> DEFINE used == {i \in 0..(Len(table) - 1) : table[i + 1]}
  <2>1. MountInv /\ Registered(parts[port], Len(table)) /\ Len(table) \in Nat /\ port \in Ports
    <3>1. Place = "named"
      BY DEF Place, Sending
    <3>2. MountInv /\ PartsInv /\ PlaceInv
      BY DEF SeenInv, Seen, DmaInv
    <3>3. Len(table) \in Nat
      BY <3>2 DEF MountInv
    <3> QED
      BY <3>1, <3>2, <3>3 DEF PartsInv, PlaceInv
  <2>2. used = UsedUpTo(Len(table))
    BY <2>1 DEF UsedUpTo
  <2>3. Enumerates(parts[port], used)
    BY <2>1, <2>2 DEF Registered
  <2>4. ASSUME used # {} PROVE mount.tried /\ mount.port <= port
    <3>1. 0..(parts[port].size - 1) # {}
      BY <2>3, <2>4 DEF Enumerates
    <3>2. parts[port] # Vector(0)
      BY <3>1, VectorNone
    <3> QED
      BY <2>1, <3>2 DEF MountInv
  <2> HIDE DEF used
  <2> QED
    BY <2>3, <2>4 DEF ScanRight, used
<1>3. PartitionValid
  <2> SUFFICES ASSUME mount.tried, parts[mount.port].size <= 8
               PROVE  parts[mount.port].block = mount.block
    BY DEF PartitionValid, growfun
  <2>1. parts[mount.port].size \in Nat
    BY DEF SeenInv, MountInv, VectorOk
  <2> QED
    BY <2>1 DEF SeenInv, MountInv
<1> QED
  BY <1>1, <1>2, <1>3 DEF DiskSeen

\* Reads return their sectors in order, the scan registers exactly the entries
\* in use, and the mounted partition is where the mount point says, for every
\* table and whatever the HBA does, as long as no identify was given up.
THEOREM DiskIsSeen == DiskSpec => []DiskSeen
BY SeenInit, SeenNext, SeenIsSeen, PTL DEF DiskSpec
=============================================================================
