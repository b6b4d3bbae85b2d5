----------------------------- MODULE DiskProofs -----------------------------
(***************************************************************************)
(* Proofs about Disk for every number of ports, slots, cells and reads,    *)
(* and for every partition table.                                          *)
(*                                                                         *)
(* That the HBA writes only to memory of the caller is not inductive: it   *)
(* needs to know which commands may still be in the slots.  These are the  *)
(* one the driver waits for, whose buffer nobody has given back, and at    *)
(* most one identify per port that was given up.  The latter also shows    *)
(* that alloc_cmdslot always finds a slot.                                 *)
(***************************************************************************)
EXTENDS Disk, TLAPS

Sending == dpc \in {"build", "busy", "issue", "wait"}

\* Where the driver is, or goes on after the command.
Place == IF Sending THEN cmd.then ELSE dpc

Ids == {"hdr", "ents", "id", "bpb", "user"} \X Nat
Tables == [kind : {"read", "identify"}, fis : Int, n : Nat, buf : Nat, id : Ids] \cup {NoCmd}
Commands == [kind : {"read", "identify"}, port : Ports, lba : Nat, n : Nat, buf : Nat, id : Ids,
             then : {"header", "entry", "mount", "mounted", "named", "returned"},
             slot : CmdSlots \cup {NoSlot}, seen : SUBSET CmdSlots]
Flags == BOOLEAN
PortStates == [st : Flags, cr : Flags, fre : Flags, fr : Flags, ci : SUBSET CmdSlots,
               active : CmdSlots \cup {NoSlot}, done : Nat, stopped : Flags,
               sata_err : Flags, tables : [CmdSlots -> Tables]]
Owners == [Cells -> Ids \cup {Free}]
Scans == [i : Nat, hdr : Nat, ents : Nat]

Types ==
    /\ port \in Nat /\ devices \in Seq(Ports)
    /\ scan \in Scans
    /\ owner \in Owners /\ late \in BOOLEAN
    /\ px \in [Ports -> PortStates]
    /\ Sending => cmd \in Commands

\* Where the driver is in init_port and msd_scout, and what it owns there.
Scouting == {"header", "table", "entry", "mount", "mounted"}
PlaceInv ==
    /\ Place \in Waits \cup Scouting \cup {"add", "named"} => port \in Ports
    /\ Place \in Scouting => scan.ents \in Cells /\ owner[scan.ents] = <<"ents", port>>
    /\ Place = "mount" => cmd.buf \in Nat /\ cmd.buf + 1 \in Cells /\ owner[cmd.buf + 1] = <<"bpb", port>>
    /\ Sending => /\ cmd.then # "returned" => cmd.port = port
                  /\ cmd.kind = "identify" <=> cmd.then = "named"

\* The command that is being sent: its buffer is its own, its table holds it
\* from Build on, and its slot is not in use before Issue.
Filled(c) == [kind |-> c.kind, fis |-> Encoded(c.lba), n |-> c.n, buf |-> c.buf, id |-> c.id]
CmdInv ==
    Sending =>
        /\ \A k \in cmd.buf..(cmd.buf + cmd.n - 1) : k \in Cells /\ owner[k] = cmd.id
        /\ dpc # "build" =>
               cmd.slot \in CmdSlots /\ px[cmd.port].tables[cmd.slot] = Filled(cmd)
        /\ dpc \in {"busy", "issue"} => cmd.slot \notin px[cmd.port].ci
        /\ dpc = "issue" => cmd.slot \notin cmd.seen /\ px[cmd.port].ci \subseteq cmd.seen

\* The slots that are in use, or that Issue is about to set again, but for the
\* one of the command that is waited for.
Old(p) == {s \in CmdSlots : /\ s \in px[p].ci \/ (dpc = "issue" /\ cmd.port = p /\ s \in cmd.seen)
                            /\ ~(dpc = "wait" /\ cmd.port = p /\ s = cmd.slot)}

\* They hold identifies that were given up, at most one for every port.
ActiveInv == \A p \in Ports : px[p].active # NoSlot => px[p].active \in px[p].ci
OldInv ==
    \A p \in Ports :
        /\ \A s \in Old(p) : late /\ px[p].tables[s].kind = "identify"
        /\ \A s, t \in Old(p) : s = t
        /\ p >= port /\ ~(p = port /\ dpc = "named") => Old(p) = {}

DmaInv == Types /\ PlaceInv /\ CmdInv /\ ActiveInv /\ OldInv

LEMMA FlagsAre == TRUE \in Flags /\ FALSE \in Flags
BY DEF Flags

-----------------------------------------------------------------------------
(* The HBA *)

\* A step of the HBA may end commands, but neither adds one nor changes a table.
LEMMA HbaKeeps ==
    ASSUME DmaInv, Hardware, owner' = owner, px' \in [Ports -> PortStates], ActiveInv',
           \A q \in Ports : px'[q].tables = px[q].tables /\ px'[q].ci \subseteq px[q].ci
    PROVE  DmaInv'
<1> USE DEF Hardware
<1>1. Sending' = Sending /\ Place' = Place
  BY DEF Sending, Place
<1>2. Types'
  BY <1>1 DEF DmaInv, Types
<1>3. PlaceInv'
  BY <1>1 DEF DmaInv, PlaceInv
<1>4. CmdInv'
  <2>1. Sending => cmd.port \in Ports
    BY DEF DmaInv, Types, Commands
  <2> QED
    BY <1>1, <2>1 DEF DmaInv, CmdInv, Filled
<1>5. OldInv'
  <2>1. \A p \in Ports : Old(p)' \subseteq Old(p)
    BY DEF Old
  <2> QED
    BY <2>1 DEF DmaInv, OldInv
<1> QED
  BY <1>2, <1>3, <1>4, <1>5 DEF DmaInv

\* One port changes.
LEMMA OnePort ==
    ASSUME DmaInv, NEW p \in Ports, NEW r \in PortStates, px' = [px EXCEPT ![p] = r]
    PROVE  /\ px' \in [Ports -> PortStates] /\ px'[p] = r
           /\ \A q \in Ports : q # p => px'[q] = px[q]
BY DEF DmaInv, Types

LEMMA HbaStep ==
    ASSUME DmaInv, Hardware, owner' = owner, NEW p \in Ports, NEW r \in PortStates,
           px' = [px EXCEPT ![p] = r],
           r.tables = px[p].tables, r.ci \subseteq px[p].ci,
           r.active # NoSlot => r.active \in r.ci
    PROVE  DmaInv'
<1>1. /\ px' \in [Ports -> PortStates] /\ px'[p] = r
      /\ \A q \in Ports : q # p => px'[q] = px[q]
  BY OnePort
<1>2. /\ ActiveInv'
      /\ \A q \in Ports : px'[q].tables = px[q].tables /\ px'[q].ci \subseteq px[q].ci
  BY <1>1 DEF DmaInv, ActiveInv
<1> QED
  BY <1>1, <1>2, HbaKeeps

LEMMA HbaKeepsDma ==
    ASSUME DmaInv, NEW p \in Ports,
           Follow(p) \/ EngineStart(p) \/ Transfer(p) \/ Complete(p) \/ Fail(p)
    PROVE  DmaInv'
<1>0. /\ px[p] \in PortStates /\ px \in [Ports -> PortStates] /\ owner' = owner /\ Hardware
      /\ px[p].active # NoSlot => px[p].active \in px[p].ci
  BY DEF DmaInv, Types, ActiveInv, Follow, EngineStart, Transfer, Complete, Fail
<1>1. CASE Follow(p)
  <2> DEFINE r == [px[p] EXCEPT !.cr = px[p].st, !.fr = px[p].fre]
  <2>1. px' = [px EXCEPT ![p] = r]
    BY <1>0, <1>1 DEF Follow, PortStates
  <2>2. r \in PortStates /\ r.tables = px[p].tables /\ r.ci = px[p].ci /\ r.active = px[p].active
    BY <1>0 DEF PortStates
  <2> HIDE DEF r
  <2> QED
    BY <1>0, <2>1, <2>2, HbaStep
<1>2. CASE EngineStart(p)
  <2>1. PICK s \in px[p].ci : px' = [px EXCEPT ![p].active = s, ![p].done = 0]
    BY <1>2 DEF EngineStart
  <2> DEFINE r == [px[p] EXCEPT !.active = s, !.done = 0]
  <2>2. px' = [px EXCEPT ![p] = r]
    BY <1>0, <2>1 DEF PortStates
  <2>3. r \in PortStates /\ r.tables = px[p].tables /\ r.ci = px[p].ci /\ r.active = s
    BY <1>0 DEF PortStates
  <2> HIDE DEF r
  <2> QED
    BY <1>0, <2>2, <2>3, HbaStep
<1>3. CASE Transfer(p)
  <2> DEFINE r == [px[p] EXCEPT !.done = @ + 1]
  <2>1. px' = [px EXCEPT ![p] = r]
    BY <1>0, <1>3 DEF Transfer, PortStates
  <2>2. r \in PortStates /\ r.tables = px[p].tables /\ r.ci = px[p].ci /\ r.active = px[p].active
    BY <1>0 DEF PortStates
  <2> HIDE DEF r
  <2> QED
    BY <1>0, <2>1, <2>2, HbaStep
<1>4. CASE Complete(p)
  <2> DEFINE r == [px[p] EXCEPT !.ci = @ \ {px[p].active}, !.active = NoSlot, !.done = 0]
  <2>1. px' = [px EXCEPT ![p] = r]
    BY <1>0, <1>4 DEF Complete, PortStates
  <2>2. r \in PortStates /\ r.tables = px[p].tables /\ r.ci \subseteq px[p].ci /\ r.active = NoSlot
    BY <1>0 DEF PortStates
  <2> HIDE DEF r
  <2> QED
    BY <1>0, <2>1, <2>2, HbaStep
<1>5. CASE Fail(p)
  <2>1. PICK serr \in Flags :
            px' = [px EXCEPT ![p].active = NoSlot, ![p].stopped = TRUE, ![p].sata_err = serr]
    BY <1>5 DEF Fail, Flags
  <2> DEFINE r == [px[p] EXCEPT !.active = NoSlot, !.stopped = TRUE, !.sata_err = serr]
  <2>2. px' = [px EXCEPT ![p] = r]
    BY <1>0, <2>1 DEF PortStates
  <2>3. r \in PortStates /\ r.tables = px[p].tables /\ r.ci = px[p].ci /\ r.active = NoSlot
    BY <1>0, FlagsAre DEF PortStates
  <2> HIDE DEF r
  <2> QED
    BY <1>0, <2>2, <2>3, HbaStep
<1> QED
  BY <1>1, <1>2, <1>3, <1>4, <1>5

-----------------------------------------------------------------------------
(* Sending a command *)

LEMMA EncodedType == ASSUME NEW lba \in Nat PROVE Encoded(lba) \in Int
<1>1. Base \in Nat \ {0} /\ Low \in Nat \ {0} /\ Low * Base \in Nat \ {0}
  BY BaseAssumption DEF Low
<1>2. /\ lba % Low \in Nat /\ lba \div (Low * Base) \in Nat
      /\ (lba \div (Low * Base)) % Base \in Nat
  BY <1>1
<1>3. \A a, b, c \in Nat : a + b * c \in Int
  OBVIOUS
<1> QED
  BY <1>1, <1>2, <1>3 DEF Encoded

LEMMA FilledType == ASSUME NEW c \in Commands PROVE Filled(c) \in Tables
BY EncodedType DEF Commands, Filled, Tables

\* There is a slot: at most one identify that was given up holds one.
LEMMA SlotFound ==
    ASSUME DmaInv, dpc = "build"
    PROVE  /\ cmd \in Commands /\ cmd.port \in Ports /\ px[cmd.port] \in PortStates
           /\ alloc_cmdslot(cmd.port) \in CmdSlots
           /\ alloc_cmdslot(cmd.port) \notin px[cmd.port].ci
<1> DEFINE ci == px[cmd.port].ci
<1>1. cmd \in Commands /\ cmd.port \in Ports
  BY DEF DmaInv, Types, Sending, Commands
<1>2. px[cmd.port] \in PortStates
  BY <1>1 DEF DmaInv, Types
<1>3. ci \subseteq CmdSlots
  BY <1>2 DEF PortStates
<1>4. Old(cmd.port) = ci
  BY <1>3 DEF Old
<1>5. \A s, t \in ci : s = t
  BY <1>1, <1>4 DEF DmaInv, OldInv
<1> HIDE DEF ci
<1>6. \E s \in CmdSlots : s \notin ci /\ \A t \in CmdSlots : t < s => t \in ci
  <2>1. CASE 0 \notin ci
    BY <2>1, CmdSlotsAssumption
  <2>2. CASE 0 \in ci
    <3>1. 1 \notin ci
      BY <2>2, <1>5
    <3>2. \A t \in CmdSlots : t < 1 => t = 0
      BY CmdSlotsAssumption
    <3> QED
      BY <2>2, <3>1, <3>2, CmdSlotsAssumption
  <2> QED
    BY <2>1, <2>2
<1> QED
  BY <1>1, <1>2, <1>6 DEF alloc_cmdslot, ci

LEMMA BuildKeeps == ASSUME DmaInv, Build PROVE DmaInv'
<1> DEFINE s == alloc_cmdslot(cmd.port)
           q == cmd.port
           r == [px[q] EXCEPT !.tables = [@ EXCEPT ![s] = Filled(cmd)]]
<1>1. /\ dpc = "build" /\ dpc' = "busy" /\ cmd' = [cmd EXCEPT !.slot = s]
      /\ px' = [px EXCEPT ![q].tables[s] = Filled(cmd)]
      /\ UNCHANGED <<port, owner, scan, devices, late>>
  BY DEF Build, Filled
<1>2. /\ cmd \in Commands /\ q \in Ports /\ px[q] \in PortStates
      /\ s \in CmdSlots /\ s \notin px[q].ci
  BY <1>1, SlotFound
<1> HIDE DEF s
<1>3. px \in [Ports -> PortStates]
  BY DEF DmaInv, Types
<1>4. px' = [px EXCEPT ![q] = r]
  BY <1>1, <1>2, <1>3 DEF PortStates
<1>5. /\ r \in PortStates /\ r.ci = px[q].ci /\ r.active = px[q].active /\ r.tables[s] = Filled(cmd)
      /\ \A t \in CmdSlots : t # s => r.tables[t] = px[q].tables[t]
  BY <1>2, FilledType DEF PortStates
<1> HIDE DEF r
<1>6. /\ px' \in [Ports -> PortStates] /\ px'[q] = r
      /\ \A p \in Ports : p # q => px'[p] = px[p]
  BY <1>2, <1>4, <1>5, OnePort
<1>7. cmd' \in Commands /\ cmd'.slot = s /\ cmd'.port = q /\ Filled(cmd') = Filled(cmd)
      /\ cmd'.buf = cmd.buf /\ cmd'.n = cmd.n /\ cmd'.id = cmd.id /\ cmd'.then = cmd.then
      /\ cmd'.kind = cmd.kind
  BY <1>1, <1>2 DEF Commands, Filled
<1>8. Sending /\ Sending' /\ Place' = Place
  BY <1>1, <1>7 DEF Sending, Place
<1>9. Types' /\ PlaceInv'
  BY <1>1, <1>6, <1>7, <1>8 DEF DmaInv, Types, PlaceInv
<1>10. CmdInv'
  BY <1>1, <1>2, <1>5, <1>6, <1>7, <1>8 DEF DmaInv, CmdInv
<1>11. ActiveInv'
  BY <1>5, <1>6 DEF DmaInv, ActiveInv
<1>12. OldInv'
  <2>1. \A p \in Ports : Old(p)' = Old(p)
    BY <1>1, <1>5, <1>6 DEF Old
  <2>2. ASSUME NEW p \in Ports, NEW t \in Old(p) PROVE px'[p].tables[t] = px[p].tables[t]
    BY <2>2, <1>1, <1>2, <1>5, <1>6 DEF Old
  <2> QED
    BY <2>1, <2>2, <1>1 DEF DmaInv, OldInv
<1> QED
  BY <1>9, <1>10, <1>11, <1>12 DEF DmaInv

LEMMA DriveReadyKeeps == ASSUME DmaInv, DriveReady, dpc' # "fatal" PROVE DmaInv'
<1>1. /\ dpc = "busy" /\ dpc' = "issue" /\ cmd' = [cmd EXCEPT !.seen = px[cmd.port].ci]
      /\ UNCHANGED <<px, port, owner, scan, devices, late>>
  BY DEF DriveReady, Quiet
<1>2. cmd \in Commands /\ cmd.port \in Ports /\ px[cmd.port].ci \subseteq CmdSlots
  BY <1>1 DEF DmaInv, Types, Sending, Commands, PortStates
<1>3. /\ cmd' \in Commands /\ cmd'.slot = cmd.slot /\ cmd'.port = cmd.port /\ Filled(cmd') = Filled(cmd)
      /\ cmd'.buf = cmd.buf /\ cmd'.n = cmd.n /\ cmd'.id = cmd.id /\ cmd'.then = cmd.then
      /\ cmd'.kind = cmd.kind /\ cmd'.seen = px[cmd.port].ci
  BY <1>1, <1>2 DEF Commands, Filled
<1>4. Sending /\ Sending' /\ Place' = Place
  BY <1>1, <1>3 DEF Sending, Place
<1>5. Types' /\ PlaceInv'
  BY <1>1, <1>3, <1>4 DEF DmaInv, Types, PlaceInv
<1>6. CmdInv' /\ ActiveInv'
  BY <1>1, <1>3, <1>4 DEF DmaInv, CmdInv, ActiveInv
<1>7. OldInv'
  <2>1. \A p \in Ports : Old(p)' = Old(p)
    BY <1>1, <1>3 DEF Old
  <2> QED
    BY <2>1, <1>1 DEF DmaInv, OldInv
<1> QED
  BY <1>5, <1>6, <1>7 DEF DmaInv

LEMMA IssueKeeps == ASSUME DmaInv, Issue PROVE DmaInv'
<1> DEFINE q == cmd.port
           r == [px[q] EXCEPT !.ci = @ \cup cmd.seen \cup {cmd.slot}]
<1>1. /\ dpc = "issue" /\ dpc' = "wait" /\ cmd' = cmd
      /\ px' = [px EXCEPT ![q].ci = @ \cup cmd.seen \cup {cmd.slot}]
      /\ UNCHANGED <<port, owner, scan, devices, late>>
  BY DEF Issue, Quiet
<1>2. /\ cmd \in Commands /\ q \in Ports /\ px \in [Ports -> PortStates] /\ px[q] \in PortStates
      /\ cmd.seen \subseteq CmdSlots
  BY <1>1 DEF DmaInv, Types, Sending, Commands
<1>3. cmd.slot \in CmdSlots /\ cmd.slot \notin px[q].ci /\ cmd.slot \notin cmd.seen
  BY <1>1 DEF DmaInv, CmdInv, Sending
<1>4. px' = [px EXCEPT ![q] = r]
  BY <1>1, <1>2 DEF PortStates
<1>5. /\ r \in PortStates /\ r.ci = px[q].ci \cup cmd.seen \cup {cmd.slot}
      /\ r.active = px[q].active /\ r.tables = px[q].tables
  BY <1>2, <1>3 DEF PortStates
<1> HIDE DEF r
<1>6. /\ px' \in [Ports -> PortStates] /\ px'[q] = r
      /\ \A p \in Ports : p # q => px'[p] = px[p]
  BY <1>2, <1>4, <1>5, OnePort
<1>7. Sending /\ Sending' /\ Place' = Place
  BY <1>1 DEF Sending, Place
<1>8. Types' /\ PlaceInv'
  BY <1>1, <1>6, <1>7 DEF DmaInv, Types, PlaceInv
<1>9. CmdInv'
  BY <1>1, <1>2, <1>5, <1>6, <1>7 DEF DmaInv, CmdInv, Filled
<1>10. ActiveInv'
  BY <1>5, <1>6 DEF DmaInv, ActiveInv
<1>11. OldInv'
  <2>1. \A p \in Ports : Old(p)' = Old(p)
    BY <1>1, <1>3, <1>5, <1>6 DEF Old
  <2>2. \A p \in Ports : px'[p].tables = px[p].tables
    BY <1>5, <1>6
  <2> QED
    BY <2>1, <2>2, <1>1 DEF DmaInv, OldInv
<1> QED
  BY <1>8, <1>9, <1>10, <1>11 DEF DmaInv

LEMMA SucceedKeeps == ASSUME DmaInv, Succeed PROVE DmaInv'
<1> DEFINE q == cmd.port
           r == [px[q] EXCEPT !.tables = [@ EXCEPT ![cmd.slot] = NoCmd]]
<1>1. /\ dpc = "wait" /\ dpc' = cmd.then /\ cmd' = cmd /\ cmd.slot \notin px[q].ci
      /\ px' = [px EXCEPT ![q].tables[cmd.slot] = NoCmd]
      /\ UNCHANGED <<port, owner, scan, devices, late>>
  BY DEF Succeed, Quiet
<1>2. /\ cmd \in Commands /\ q \in Ports /\ px \in [Ports -> PortStates] /\ px[q] \in PortStates
  BY <1>1 DEF DmaInv, Types, Sending, Commands
<1>3. cmd.slot \in CmdSlots
  BY <1>1 DEF DmaInv, CmdInv, Sending
<1>4. px' = [px EXCEPT ![q] = r]
  BY <1>1, <1>2, <1>3 DEF PortStates
<1>5. /\ r \in PortStates /\ r.ci = px[q].ci /\ r.active = px[q].active
      /\ \A t \in CmdSlots : t # cmd.slot => r.tables[t] = px[q].tables[t]
  BY <1>2, <1>3 DEF PortStates, Tables
<1> HIDE DEF r
<1>6. /\ px' \in [Ports -> PortStates] /\ px'[q] = r
      /\ \A p \in Ports : p # q => px'[p] = px[p]
  BY <1>2, <1>4, <1>5, OnePort
<1>7. /\ Sending /\ ~Sending' /\ Place' = Place
      /\ dpc' \in {"header", "entry", "mount", "mounted", "named", "returned"}
  BY <1>1, <1>2 DEF Sending, Place, Commands
<1>8. Types' /\ PlaceInv' /\ CmdInv'
  BY <1>1, <1>6, <1>7 DEF DmaInv, Types, PlaceInv, CmdInv
<1>9. ActiveInv'
  BY <1>5, <1>6 DEF DmaInv, ActiveInv
<1>10. OldInv'
  <2>1. \A p \in Ports : Old(p)' = Old(p)
    BY <1>1, <1>5, <1>6, <1>7 DEF Old
  <2>2. ASSUME NEW p \in Ports, NEW t \in Old(p) PROVE px'[p].tables[t] = px[p].tables[t]
    BY <2>2, <1>1, <1>5, <1>6 DEF Old
  <2> QED
    BY <2>1, <2>2, <1>1 DEF DmaInv, OldInv
<1> QED
  BY <1>8, <1>9, <1>10 DEF DmaInv

\* An identify that is given up is the only old command of its port.
LEMMA GiveUpKeeps == ASSUME DmaInv, GiveUp, dpc' # "fatal" PROVE DmaInv'
<1>1. /\ dpc = "wait" /\ cmd.kind = "identify" /\ dpc' = cmd.then /\ late' = TRUE
      /\ UNCHANGED <<px, cmd, port, owner, scan, devices>>
  BY DEF GiveUp
<1>2. cmd \in Commands /\ cmd.port \in Ports
  BY <1>1 DEF DmaInv, Types, Sending, Commands
<1>3. Sending /\ cmd.then = "named" /\ cmd.port = port
  BY <1>1 DEF DmaInv, PlaceInv, Sending
<1>4. ~Sending' /\ Place' = Place /\ dpc' = "named"
  BY <1>1, <1>3 DEF Sending, Place
<1>5. Types' /\ PlaceInv' /\ CmdInv' /\ ActiveInv'
  <2>1. late' \in BOOLEAN
    BY <1>1
  <2> QED
    BY <2>1, <1>1, <1>4 DEF DmaInv, Types, PlaceInv, CmdInv, ActiveInv
<1>6. OldInv'
  <2>1. px[port].tables[cmd.slot].kind = "identify"
    BY <1>1, <1>3 DEF DmaInv, CmdInv, Filled
  <2>2. port \in Nat /\ Old(port) = {}
    BY <1>1, <1>2, <1>3 DEF DmaInv, OldInv, Types
  <2>3. \A s \in Old(port)' : s = cmd.slot
    BY <2>2, <1>1, <1>3 DEF Old
  <2>4. \A p \in Ports : p # port => Old(p)' = Old(p)
    BY <1>1, <1>3, <1>4 DEF Old
  <2>5. ASSUME NEW p \in Ports
        PROVE  /\ \A s \in Old(p)' : late' /\ px'[p].tables[s].kind = "identify"
               /\ \A s, t \in Old(p)' : s = t
               /\ p >= port' /\ ~(p = port' /\ dpc' = "named") => Old(p)' = {}
    <3>1. CASE p = port
      BY <3>1, <1>1, <1>4, <2>1, <2>3
    <3>2. CASE p # port
      BY <3>2, <1>1, <2>4 DEF DmaInv, OldInv
    <3> QED
      BY <3>1, <3>2
  <2> QED
    BY <2>5 DEF OldInv
<1> QED
  BY <1>5, <1>6 DEF DmaInv

-----------------------------------------------------------------------------
(* The driver between two commands *)

\* The driver moves on without touching a slot.
LEMMA MoveKeeps ==
    ASSUME DmaInv, ~Sending, ~Sending', late' = late,
           port' \in Nat, port' >= port, dpc = "named" => port' > port,
           devices' = devices, owner' \in Owners,
           scan' \in Scans,
           px' \in [Ports -> PortStates],
           \A p \in Ports : /\ px'[p].tables = px[p].tables /\ px'[p].ci = px[p].ci
                            /\ px'[p].active = px[p].active,
           PlaceInv'
    PROVE  DmaInv'
<1>1. Types' /\ CmdInv' /\ ActiveInv'
  BY DEF DmaInv, Types, CmdInv, ActiveInv
<1>2. \A p \in Ports : Old(p)' = Old(p)
  BY DEF Old, Sending
<1>3. OldInv'
  BY <1>2, PortsAssumption DEF DmaInv, OldInv, Types
<1> QED
  BY <1>1, <1>3 DEF DmaInv

\* A command begins.
LEMMA SendKeeps ==
    ASSUME DmaInv, ~Sending, dpc # "named", UNCHANGED <<px, port, late>>,
           devices' \in Seq(Ports), owner' \in Owners, scan' \in Scans,
           dpc' = "build", cmd' \in Commands,
           \A k \in cmd'.buf..(cmd'.buf + cmd'.n - 1) : k \in Cells /\ owner'[k] = cmd'.id,
           cmd'.kind = "identify" <=> cmd'.then = "named",
           cmd'.then # "returned" => cmd'.port = port,
           cmd'.then \in Scouting => scan'.ents \in Cells /\ owner'[scan'.ents] = <<"ents", port>>,
           cmd'.then = "mount" => /\ cmd'.buf + 1 \in Cells
                                  /\ owner'[cmd'.buf + 1] = <<"bpb", port>>
    PROVE  DmaInv'
<1>1. /\ Sending' /\ Place' = cmd'.then /\ cmd'.port \in Ports /\ cmd'.buf \in Nat
      /\ cmd'.then \in {"header", "entry", "mount", "mounted", "named", "returned"}
  BY DEF Sending, Place, Commands
<1>2. Types' /\ ActiveInv'
  BY DEF DmaInv, Types, ActiveInv
<1>3. PlaceInv'
  BY <1>1 DEF PlaceInv, Waits, Scouting
<1>4. CmdInv'
  BY <1>1 DEF CmdInv
<1>5. OldInv'
  <2>1. \A q \in Ports : Old(q)' = Old(q)
    BY DEF Old, Sending
  <2> QED
    BY <2>1 DEF DmaInv, OldInv
<1> QED
  BY <1>2, <1>3, <1>4, <1>5 DEF DmaInv

\* Memory: who owns a cell after kmalloc_aligned and kfree.
LEMMA AllocatedFacts ==
    ASSUME NEW own \in Owners, NEW b \in Cells, NEW n \in Nat, NEW id \in Ids,
           FirstFit(own, b, n)
    PROVE  /\ Allocated(own, b, n, id) \in Owners
           /\ \A k \in b..(b + n - 1) : k \in Cells /\ Allocated(own, b, n, id)[k] = id
           /\ \A k \in Cells : own[k] # Free => Allocated(own, b, n, id)[k] = own[k]
BY CellsAssumption DEF Allocated, FirstFit, Owners

LEMMA AllocatedOne ==
    ASSUME NEW own \in Owners, NEW b \in Cells, NEW id \in Ids,
           FirstFit(own, b, 1)
    PROVE  /\ Allocated(own, b, 1, id) \in Owners
           /\ Allocated(own, b, 1, id)[b] = id
           /\ \A k \in Cells : own[k] # Free => Allocated(own, b, 1, id)[k] = own[k]
BY CellsAssumption DEF Allocated, FirstFit, Owners

LEMMA ReleasedFacts ==
    ASSUME NEW own \in Owners, NEW ids
    PROVE  Released(own, ids) \in Owners
BY DEF Released, Owners

LEMMA IdsAre ==
    ASSUME NEW p \in Ports
    PROVE  /\ <<"hdr", p>> \in Ids /\ <<"ents", p>> \in Ids /\ <<"id", p>> \in Ids
           /\ <<"bpb", p>> \in Ids /\ <<"user", p>> \in Ids
           /\ <<"hdr", p>> # Free /\ <<"ents", p>> # Free /\ <<"bpb", p>> # Free
BY PortsAssumption DEF Ids, Free

LEMMA BootKeeps ==
    ASSUME DmaInv, mod_main \/ init_port \/ setrunning
    PROVE  DmaInv'
<1>0. px \in [Ports -> PortStates] /\ port \in Nat /\ UNCHANGED <<owner, devices, late, scan, cmd>>
      /\ owner \in Owners /\ scan \in Scans
  BY DEF DmaInv, Types, mod_main, init_port, setrunning, BootFrame
<1>1. CASE mod_main
  <2>1. dpc = "start" /\ dpc' = "port" /\ px' = px /\ port' = port
    BY <1>1 DEF mod_main
  <2>2. ~Sending /\ ~Sending' /\ PlaceInv'
    BY <2>1 DEF Sending, PlaceInv, Place, Waits, Scouting
  <2> QED
    BY <1>0, <2>1, <2>2, MoveKeeps
<1>2. CASE init_port /\ px' = px
  <2>1. /\ dpc = "port" /\ dpc' \in {"port", "idle", "stop engine"} /\ port' \in Nat /\ port' >= port
        /\ dpc' = "stop engine" => port' \in Ports
    <3>1. /\ dpc = "port"
          /\ \/ dpc' = "idle" /\ port' = port
             \/ dpc' = dpc /\ port' = port + 1
             \/ dpc' = "stop engine" /\ port' = port /\ port \in Ports
      BY <1>2, Zenon DEF init_port
    <3>2. port \in Nat /\ dpc = "port"
      BY <1>0, <3>1
    <3>3. CASE dpc' = dpc /\ port' = port + 1
      BY <3>1, <3>2, <3>3
    <3>4. CASE dpc' = "idle" /\ port' = port
      BY <3>2, <3>4
    <3>5. CASE dpc' = "stop engine" /\ port' = port /\ port \in Ports
      <4>1. port' \in Ports
        BY <3>5, Zenon
      <4>2. port' \in Nat /\ port' >= port
        <5>1. port' = port
          BY <3>5
        <5>2. port \in Nat
          BY <3>2
        <5> QED
          BY <5>1, <5>2
      <4> QED
        BY <3>2, <3>5, <4>1, <4>2
    <3> QED
      BY <3>1, <3>3, <3>4, <3>5, Zenon
  <2>2. ~Sending /\ ~Sending' /\ PlaceInv'
    BY <2>1 DEF Sending, PlaceInv, Place, Waits, Scouting
  <2> QED
    BY <1>0, <1>2, <2>1, <2>2, MoveKeeps
<1>3. ASSUME NEW r \in PortStates, port \in Ports, px' = [px EXCEPT ![port] = r],
             r.tables = px[port].tables, r.ci = px[port].ci, r.active = px[port].active,
             ~Sending, dpc # "named", port' = port, dpc' \in Waits
      PROVE  DmaInv'
  <2>1. /\ px' \in [Ports -> PortStates]
        /\ \A p \in Ports : /\ px'[p].tables = px[p].tables /\ px'[p].ci = px[p].ci
                            /\ px'[p].active = px[p].active
    BY <1>3, OnePort
  <2>2. ~Sending' /\ PlaceInv'
    BY <1>3 DEF Sending, PlaceInv, Place, Waits, Scouting
  <2> QED
    BY <1>0, <1>3, <2>1, <2>2, MoveKeeps
<1>4. CASE init_port /\ px' # px
  <2> DEFINE r == [px[port] EXCEPT !.st = FALSE]
  <2>1. /\ dpc = "port" /\ dpc' = "stop engine" /\ port' = port /\ port \in Ports
        /\ px' = [px EXCEPT ![port].st = FALSE]
    BY <1>4 DEF init_port
  <2>2. px' = [px EXCEPT ![port] = r] /\ px[port] \in PortStates
    BY <1>0, <2>1 DEF PortStates
  <2>3. r \in PortStates /\ r.tables = px[port].tables /\ r.ci = px[port].ci /\ r.active = px[port].active
    BY <2>2, FlagsAre DEF PortStates
  <2>4. ~Sending /\ dpc # "named" /\ dpc' \in Waits
    BY <2>1 DEF Sending, Waits
  <2> HIDE DEF r
  <2> QED
    BY <1>3, <2>1, <2>2, <2>3, <2>4
<1>5. CASE setrunning
  <2>1. dpc \in Waits /\ port' = port /\ ~Sending /\ dpc # "named" /\ Place = dpc
    BY <1>5 DEF setrunning, Sending, Waits, Place
  <2>2. port \in Ports
    BY <2>1 DEF DmaInv, PlaceInv
  <2>3. px[port] \in PortStates
    BY <1>0, <2>2
  <2>4. ASSUME NEW f \in Flags, px' = [px EXCEPT ![port].fre = f], dpc' \in Waits PROVE DmaInv'
    <3> DEFINE r == [px[port] EXCEPT !.fre = f]
    <3>1. px' = [px EXCEPT ![port] = r]
      BY <1>0, <2>2, <2>4 DEF PortStates
    <3>2. r \in PortStates /\ r.tables = px[port].tables /\ r.ci = px[port].ci /\ r.active = px[port].active
      BY <2>3 DEF PortStates
    <3> HIDE DEF r
    <3> QED
      BY <1>3, <2>1, <2>2, <2>4, <3>1, <3>2
  <2>5. ASSUME NEW f \in Flags, px' = [px EXCEPT ![port].st = f], dpc' \in Waits PROVE DmaInv'
    <3> DEFINE r == [px[port] EXCEPT !.st = f]
    <3>1. px' = [px EXCEPT ![port] = r]
      BY <1>0, <2>2, <2>5 DEF PortStates
    <3>2. r \in PortStates /\ r.tables = px[port].tables /\ r.ci = px[port].ci /\ r.active = px[port].active
      BY <2>3 DEF PortStates
    <3> HIDE DEF r
    <3> QED
      BY <1>3, <2>1, <2>2, <2>5, <3>1, <3>2
  <2>6. CASE dpc = "start engine"
    <3>1. px' = px /\ dpc' = "add"
      BY <1>5, <2>6 DEF setrunning
    <3>2. ~Sending' /\ PlaceInv'
      BY <2>1, <2>2, <3>1 DEF Sending, PlaceInv, Place, Waits, Scouting
    <3> QED
      BY <1>0, <2>1, <3>1, <3>2, MoveKeeps
  <2>7. CASE dpc = "stop engine"
    BY <1>5, <2>4, <2>7, FlagsAre DEF setrunning, Waits
  <2>8. CASE dpc = "stop fis"
    BY <1>5, <2>4, <2>8, FlagsAre DEF setrunning, Waits
  <2>9. CASE dpc = "start fis"
    BY <1>5, <2>5, <2>9, FlagsAre DEF setrunning, Waits
  <2> QED
    BY <2>1, <2>6, <2>7, <2>8, <2>9 DEF Waits
<1> QED
  BY <1>1, <1>2, <1>4, <1>5

LEMMA AddKeeps == ASSUME DmaInv, devmgr_add_device PROVE DmaInv'
<1>0. dpc = "add" /\ ~Sending /\ Place = dpc
  BY DEF devmgr_add_device, Sending, Place
<1>1. /\ port \in Ports /\ port \in Nat /\ owner \in Owners
      /\ devices \in Seq(Ports)
  BY <1>0 DEF DmaInv, PlaceInv, Types
<1>9. /\ <<"hdr", port>> \in Ids /\ <<"ents", port>> \in Ids
      /\ <<"hdr", port>> # Free /\ <<"ents", port>> # Free
  BY <1>1, IdsAre
<1>2. PICK hdr \in Cells, ents \in Cells :
          LET own == Allocated(owner, hdr, 1, <<"hdr", port>>) IN
          /\ FirstFit(owner, hdr, 1) /\ FirstFit(own, ents, 1)
          /\ owner' = Allocated(own, ents, 1, <<"ents", port>>)
          /\ scan' = [i |-> 0, hdr |-> hdr, ents |-> ents]
          /\ Send("read", port, 1, 1, hdr, <<"hdr", port>>, "header")
  BY DEF devmgr_add_device
<1> DEFINE own == Allocated(owner, hdr, 1, <<"hdr", port>>)
<1>3. /\ FirstFit(owner, hdr, 1) /\ FirstFit(own, ents, 1)
      /\ owner' = Allocated(own, ents, 1, <<"ents", port>>)
      /\ scan' = [i |-> 0, hdr |-> hdr, ents |-> ents]
      /\ Send("read", port, 1, 1, hdr, <<"hdr", port>>, "header")
  BY <1>2
<1>4. own \in Owners /\ own[hdr] = <<"hdr", port>>
  BY <1>1, <1>3, <1>9, AllocatedOne
<1> HIDE DEF own
<1>5. /\ owner' \in Owners /\ owner'[ents] = <<"ents", port>>
      /\ \A k \in Cells : own[k] # Free => owner'[k] = own[k]
  BY <1>3, <1>4, <1>9, AllocatedOne
<1>6. hdr \in Nat /\ owner'[hdr] = <<"hdr", port>>
  BY <1>4, <1>5, <1>9, CellsAssumption
<1>7. \A k \in hdr..(hdr + 1 - 1) : k \in Cells /\ owner'[k] = <<"hdr", port>>
  BY <1>6
<1>20. /\ dpc' = "build" /\ cmd' \in Commands
       /\ cmd'.kind = "read" /\ cmd'.port = port /\ cmd'.then = "header"
       /\ cmd'.buf = hdr /\ cmd'.n = 1 /\ cmd'.id = <<"hdr", port>>
  BY <1>1, <1>3, <1>6, <1>9 DEF Send, Commands
<1>8. /\ UNCHANGED <<px, port, late>> /\ devices' \in Seq(Ports)
      /\ scan'.ents \in Cells /\ owner'[scan'.ents] = <<"ents", port>>
      /\ scan' \in Scans
  <2>1. UNCHANGED <<px, port, late>> /\ devices' = Append(devices, port)
    BY DEF devmgr_add_device
  <2>2. scan' \in Scans /\ scan'.ents = ents
    BY <1>3, CellsAssumption DEF Scans
  <2> QED
    BY <1>1, <1>5, <2>1, <2>2
<1> QED
  BY <1>0, <1>5, <1>7, <1>8, <1>20, SendKeeps

LEMMA LeaveKeeps ==
    ASSUME DmaInv, dpc \in Scouting, Leave
    PROVE  DmaInv'
<1>0. ~Sending /\ Place = dpc /\ dpc # "named"
  BY DEF Scouting, Sending, Place
<1>1. /\ port \in Ports /\ port \in Nat /\ owner \in Owners
      /\ devices \in Seq(Ports) /\ scan \in Scans
  BY <1>0 DEF DmaInv, PlaceInv, Types
<1> DEFINE own == Released(owner, {<<"hdr", port>>, <<"ents", port>>})
<1>2. PICK id \in Cells :
          /\ FirstFit(own, id, 1)
          /\ owner' = Allocated(own, id, 1, <<"id", port>>)
          /\ Send("identify", port, 0, 1, id, <<"id", port>>, "named")
  BY DEF Leave
<1>3. own \in Owners
  BY <1>1, ReleasedFacts
<1> HIDE DEF own
<1>4. /\ owner' \in Owners /\ owner'[id] = <<"id", port>>
  <2>1. <<"id", port>> \in Ids
    BY <1>1, IdsAre
  <2> QED
    BY <1>1, <1>2, <1>3, <2>1, AllocatedOne
<1>5. UNCHANGED <<px, port, late, devices, scan>> /\ id \in Nat /\ "named" \notin Scouting
  BY CellsAssumption DEF Leave, Scan, Scouting
<1>6. \A k \in id..(id + 1 - 1) : k \in Cells /\ owner'[k] = <<"id", port>>
  BY <1>4, <1>5
<1>20. /\ dpc' = "build" /\ cmd' \in Commands
       /\ cmd'.kind = "identify" /\ cmd'.port = port /\ cmd'.then = "named"
       /\ cmd'.buf = id /\ cmd'.n = 1 /\ cmd'.id = <<"id", port>>
  <2>1. <<"id", port>> \in Ids
    BY <1>1, IdsAre
  <2> QED
    BY <1>1, <1>2, <1>5, <2>1 DEF Send, Commands
<1> QED
  BY <1>0, <1>1, <1>4, <1>5, <1>6, <1>20, SendKeeps

\* A step within msd_scout that sends nothing.
LEMMA ScoutMove ==
    ASSUME DmaInv, dpc \in Scouting, dpc' \in Scouting, dpc' # "mount", Scan,
           owner' = owner, scan' \in Scans, scan'.ents = scan.ents
    PROVE  DmaInv'
<1>1. ~Sending /\ ~Sending' /\ Place = dpc /\ Place' = dpc' /\ dpc # "named"
  BY DEF Scouting, Sending, Place
<1>2. PlaceInv'
  BY <1>1 DEF DmaInv, PlaceInv, Scan
<1> QED
  BY <1>1, <1>2, MoveKeeps DEF DmaInv, Types, Scan

LEMMA ScoutKeeps ==
    ASSUME DmaInv, Header \/ NextEntry \/ PartEntry \/ FatMount \/ FatMounted
    PROVE  DmaInv'
<1>0. dpc \in Scouting /\ ~Sending /\ Place = dpc /\ dpc # "named"
  BY DEF Header, NextEntry, PartEntry, FatMount, FatMounted, Scouting, Sending, Place
<1>1. /\ port \in Ports /\ port \in Nat /\ owner \in Owners /\ devices \in Seq(Ports)
      /\ scan.ents \in Cells /\ owner[scan.ents] = <<"ents", port>> /\ scan.ents \in Nat
      /\ scan \in Scans
  BY <1>0, CellsAssumption DEF DmaInv, PlaceInv, Types
<1>11. <<"ents", port>> \in Ids /\ <<"ents", port>> # Free /\ <<"bpb", port>> \in Ids
  BY <1>1, IdsAre
<1>2. CASE Leave
  BY <1>0, <1>2, LeaveKeeps
<1>3. CASE Header /\ ~Leave
  BY <1>0, <1>1, <1>3, ScoutMove DEF Header, Scouting
<1>4. CASE NextEntry /\ ~Leave /\ scan.i % PerEntrySector = 0
  <2> DEFINE lba == StartLba + (scan.i \div PerEntrySector)
  <2>1. lba \in Nat
    <3>1. scan.i \in Nat
      BY <1>1 DEF Scans
    <3> QED
      BY <3>1, StartLbaAssumption, PerEntrySectorAssumption
  <2>2. /\ Send("read", port, lba, 1, scan.ents, <<"ents", port>>, "entry")
        /\ UNCHANGED <<owner, scan>> /\ Scan
    BY <1>4 DEF NextEntry
  <2> HIDE DEF lba
  <2>3. \A k \in scan.ents..(scan.ents + 1 - 1) : k \in Cells /\ owner'[k] = <<"ents", port>>
    BY <1>1, <2>2
  <2>4. UNCHANGED <<px, port, late, devices>>
    BY <2>2 DEF Scan
  <2>20. /\ dpc' = "build" /\ cmd' \in Commands
         /\ cmd'.kind = "read" /\ cmd'.port = port /\ cmd'.then = "entry"
         /\ cmd'.buf = scan.ents /\ cmd'.n = 1 /\ cmd'.id = <<"ents", port>>
    BY <1>1, <1>11, <2>1, <2>2 DEF Send, Commands
  <2> QED
    BY <1>0, <1>1, <2>2, <2>3, <2>4, <2>20, SendKeeps
<1>5. CASE NextEntry /\ ~Leave /\ scan.i % PerEntrySector # 0
  BY <1>0, <1>1, <1>5, ScoutMove DEF NextEntry, Scouting
<1>6. CASE PartEntry /\ dpc' = "table"
  <2>1. scan' = [scan EXCEPT !.i = @ + 1] /\ owner' = owner /\ Scan
    BY <1>6 DEF PartEntry, Send
  <2>2. scan' \in Scans /\ scan'.ents = scan.ents
    BY <1>1, <2>1 DEF Scans
  <2> QED
    BY <1>0, <1>6, <2>1, <2>2, ScoutMove DEF Scouting
<1>7. CASE PartEntry /\ dpc' # "table"
  <2>1. PICK bpb \in Cells :
            /\ FirstFit(owner, bpb, 2)
            /\ owner' = Allocated(owner, bpb, 2, <<"bpb", port>>)
            /\ Send("read", port, StartLba + 3, 1, bpb, <<"bpb", port>>, "mount")
    BY <1>7 DEF PartEntry
  <2>2. /\ scan' = [scan EXCEPT !.i = @ + 1] /\ UNCHANGED <<px, port, late, devices>>
    BY <1>7 DEF PartEntry, Scan
  <2>3. scan' \in Scans /\ scan'.ents = scan.ents
    BY <1>1, <2>2 DEF Scans
  <2>4. /\ owner' \in Owners
        /\ \A k \in bpb..(bpb + 2 - 1) : k \in Cells /\ owner'[k] = <<"bpb", port>>
        /\ \A k \in Cells : owner[k] # Free => owner'[k] = owner[k]
    <3> DEFINE id == <<"bpb", port>>
               n == 2
    <3>1. n \in Nat /\ id \in Ids /\ FirstFit(owner, bpb, n) /\ owner' = Allocated(owner, bpb, n, id)
      BY <1>11, <2>1
    <3> HIDE DEF id, n
    <3>2. /\ owner' \in Owners
          /\ \A k \in bpb..(bpb + n - 1) : k \in Cells /\ owner'[k] = id
          /\ \A k \in Cells : owner[k] # Free => owner'[k] = owner[k]
      BY <1>1, <3>1, AllocatedFacts
    <3> QED
      BY <3>2 DEF id, n
  <2>5. bpb \in Nat /\ bpb \in bpb..(bpb + 2 - 1) /\ bpb + 1 \in bpb..(bpb + 2 - 1)
    BY CellsAssumption
  <2>6. /\ \A k \in bpb..(bpb + 1 - 1) : k \in Cells /\ owner'[k] = <<"bpb", port>>
        /\ bpb + 1 \in Cells /\ owner'[bpb + 1] = <<"bpb", port>>
    BY <2>4, <2>5
  <2>7. scan'.ents \in Cells /\ owner'[scan'.ents] = <<"ents", port>>
    BY <1>1, <1>11, <2>3, <2>4
  <2>8. StartLba + 3 \in Nat
    BY StartLbaAssumption
  <2>20. /\ dpc' = "build" /\ cmd' \in Commands
         /\ cmd'.kind = "read" /\ cmd'.port = port /\ cmd'.then = "mount"
         /\ cmd'.buf = bpb /\ cmd'.n = 1 /\ cmd'.id = <<"bpb", port>>
    BY <1>1, <1>11, <2>1, <2>5, <2>8 DEF Send, Commands
  <2> QED
    BY <1>0, <1>1, <2>2, <2>3, <2>4, <2>6, <2>7, <2>20, SendKeeps
<1>8. CASE FatMount /\ dpc' = "table"
  BY <1>0, <1>1, <1>8, ScoutMove DEF FatMount, Scouting
<1>9. CASE FatMount /\ dpc' # "table"
  <2>1. /\ dpc = "mount" /\ UNCHANGED <<owner, scan, px, port, late, devices>>
        /\ Send("read", port, StartLba + 4, 1, cmd.buf + 1, <<"bpb", port>>, "mounted")
    BY <1>9 DEF FatMount, Scan
  <2>2. cmd.buf \in Nat /\ cmd.buf + 1 \in Cells /\ owner[cmd.buf + 1] = <<"bpb", port>>
    BY <1>0, <2>1 DEF DmaInv, PlaceInv
  <2> DEFINE b == cmd.buf + 1
  <2>3. b \in Nat /\ StartLba + 4 \in Nat
    BY <2>2, StartLbaAssumption
  <2>4. \A k \in b..(b + 1 - 1) : k \in Cells /\ owner'[k] = <<"bpb", port>>
    <3>1. b \in Cells /\ owner'[b] = <<"bpb", port>>
      BY <2>1, <2>2
    <3> HIDE DEF b
    <3> QED
      BY <2>3, <3>1
  <2> HIDE DEF b
  <2>5. Send("read", port, StartLba + 4, 1, b, <<"bpb", port>>, "mounted")
    BY <2>1 DEF b
  <2>20. /\ dpc' = "build" /\ cmd' \in Commands
         /\ cmd'.kind = "read" /\ cmd'.port = port /\ cmd'.then = "mounted"
         /\ cmd'.buf = b /\ cmd'.n = 1 /\ cmd'.id = <<"bpb", port>>
    BY <1>1, <1>11, <2>3, <2>5 DEF Send, Commands
  <2> QED
    BY <1>0, <1>1, <2>1, <2>4, <2>20, SendKeeps
<1>10. CASE FatMounted
  BY <1>0, <1>1, <1>10, ScoutMove DEF FatMounted, Scouting
<1> QED
  BY <1>2, <1>3, <1>4, <1>5, <1>6, <1>7, <1>8, <1>9, <1>10

LEMMA RestKeeps ==
    ASSUME DmaInv, Named \/ UserRead \/ UserDone
    PROVE  DmaInv'
<1>0. /\ ~Sending /\ Place = dpc /\ port \in Nat /\ owner \in Owners
      /\ devices \in Seq(Ports) /\ scan \in Scans
      /\ px \in [Ports -> PortStates]
  BY DEF Named, UserRead, UserDone, Sending, Place, DmaInv, Types
<1>1. CASE Named
  <2>1. /\ dpc = "named" /\ dpc' = "port" /\ port' = port + 1
        /\ UNCHANGED <<px, scan, devices, late>> /\ owner' = Released(owner, {<<"id", port>>})
    BY <1>1 DEF Named
  <2>2. ~Sending' /\ PlaceInv'
    BY <2>1 DEF Sending, PlaceInv, Place, Waits, Scouting
  <2>3. port' \in Nat /\ port' > port /\ owner' \in Owners
    BY <1>0, <2>1, ReleasedFacts
  <2> QED
    BY <1>0, <2>1, <2>2, <2>3, MoveKeeps
<1>2. CASE UserRead
  <2>1. PICK p \in {devices[k] : k \in DOMAIN devices}, r \in UserReads, buf \in Cells :
            /\ FirstFit(owner, buf, r[2])
            /\ owner' = Allocated(owner, buf, r[2], <<"user", p>>)
            /\ Send("read", p, r[1], r[2], buf, <<"user", p>>, "returned")
    BY <1>2 DEF UserRead
  <2>2. /\ dpc = "idle" /\ UNCHANGED <<px, port, late, devices, scan>>
    BY <1>2 DEF UserRead, Scan
  <2>3. p \in Ports /\ r[1] \in Nat /\ r[2] \in Nat /\ buf \in Nat /\ <<"user", p>> \in Ids
    <3>1. p \in Ports
      BY <1>0
    <3> QED
      BY <3>1, UserReadsAssumption, CellsAssumption, IdsAre
  <2>4. /\ owner' \in Owners
        /\ \A k \in buf..(buf + r[2] - 1) : k \in Cells /\ owner'[k] = <<"user", p>>
    <3> DEFINE n == r[2]
               u == <<"user", p>>
    <3>1. n \in Nat /\ u \in Ids /\ FirstFit(owner, buf, n) /\ owner' = Allocated(owner, buf, n, u)
      BY <2>1, <2>3
    <3> HIDE DEF n, u
    <3>2. owner' \in Owners /\ \A k \in buf..(buf + n - 1) : k \in Cells /\ owner'[k] = u
      BY <1>0, <3>1, AllocatedFacts
    <3> QED
      BY <3>2 DEF n, u
  <2>5. "returned" \notin Scouting /\ dpc # "named"
    BY <2>2 DEF Scouting
  <2>20. /\ dpc' = "build" /\ cmd' \in Commands
         /\ cmd'.kind = "read" /\ cmd'.port = p /\ cmd'.then = "returned"
         /\ cmd'.buf = buf /\ cmd'.n = r[2] /\ cmd'.id = <<"user", p>>
    BY <2>1, <2>3 DEF Send, Commands
  <2> QED
    BY <1>0, <2>2, <2>4, <2>5, <2>20, SendKeeps
<1>3. CASE UserDone
  <2>1. /\ dpc = "returned" /\ dpc' = "idle" /\ UNCHANGED <<px, scan, devices, late, port>>
        /\ owner' = Released(owner, {<<"user", cmd.port>>})
    BY <1>3 DEF UserDone, Scan
  <2>2. ~Sending' /\ PlaceInv'
    BY <2>1 DEF Sending, PlaceInv, Place, Waits, Scouting
  <2>3. owner' \in Owners
    BY <1>0, <2>1, ReleasedFacts
  <2> QED
    BY <1>0, <2>1, <2>2, <2>3, MoveKeeps
<1> QED
  BY <1>1, <1>2, <1>3

-----------------------------------------------------------------------------
(* The theorems on memory and tables *)

LEMMA InitDma == DiskInit(Setups) => DmaInv
<1> SUFFICES ASSUME DiskInit(Setups) PROVE DmaInv
  OBVIOUS
<1>1. PortReset \in PortStates /\ PortReset.ci = {} /\ PortReset.active = NoSlot
  <2>1. [s \in CmdSlots |-> NoCmd] \in [CmdSlots -> Tables]
    BY DEF Tables
  <2> QED
    BY <2>1, FlagsAre DEF PortReset, PortStates
<1>2. \A p \in Ports : px[p] = PortReset
  BY DEF DiskInit
<1>3. ~Sending /\ Place = "start"
  BY DEF DiskInit, Sending, Place
<1>4. Types
  <2>1. late \in BOOLEAN
    BY DEF DiskInit
  <2>2. owner \in Owners /\ scan \in Scans /\ devices \in Seq(Ports)
    BY DEF DiskInit, Owners, Scans
  <2>3. px \in [Ports -> PortStates] /\ port \in Nat
    BY <1>1 DEF DiskInit
  <2> QED
    BY <1>3, <2>1, <2>2, <2>3 DEF Types
<1>5. PlaceInv /\ CmdInv
  BY <1>3 DEF PlaceInv, CmdInv, Waits, Scouting
<1>6. ActiveInv /\ OldInv
  BY <1>1, <1>2 DEF DiskInit, ActiveInv, OldInv, Old
<1> QED
  BY <1>4, <1>5, <1>6 DEF DmaInv

LEMMA NextDma == DmaInv /\ dpc # "fatal" /\ [DiskNext]_diskvars /\ dpc' # "fatal" => DmaInv'
<1> SUFFICES ASSUME DmaInv, [DiskNext]_diskvars, dpc' # "fatal" PROVE DmaInv'
  OBVIOUS
<1>1. CASE mod_main \/ init_port \/ setrunning
  BY <1>1, BootKeeps
<1>2. CASE PollTimeout
  BY <1>2 DEF PollTimeout
<1>3. CASE Build \/ DriveReady \/ Issue \/ Succeed \/ GiveUp
  BY <1>3, BuildKeeps, DriveReadyKeeps, IssueKeeps, SucceedKeeps, GiveUpKeeps
<1>4. CASE devmgr_add_device \/ Header \/ NextEntry \/ PartEntry \/ FatMount \/ FatMounted
  BY <1>4, AddKeeps, ScoutKeeps
<1>5. CASE Named \/ UserRead \/ UserDone
  BY <1>5, RestKeeps
<1>6. CASE \E p \in Ports : Follow(p) \/ EngineStart(p) \/ Transfer(p) \/ Complete(p) \/ Fail(p)
  BY <1>6, HbaKeepsDma
<1>7. CASE UNCHANGED diskvars
  <2> USE <1>7 DEF diskvars
  <2>1. Types' /\ PlaceInv'
    BY DEF DmaInv, Types, PlaceInv, Sending, Place
  <2>2. CmdInv' /\ ActiveInv'
    BY DEF DmaInv, CmdInv, ActiveInv, Sending, Filled
  <2>3. OldInv'
    <3>1. \A p : Old(p)' = Old(p)
      BY Zenon DEF Old
    <3> QED
      BY <3>1, Zenon DEF DmaInv, OldInv
  <2> QED
    BY <2>1, <2>2, <2>3 DEF DmaInv
<1> QED
  BY <1>1, <1>2, <1>3, <1>4, <1>5, <1>6, <1>7 DEF DiskNext, Driver

\* The inductive invariant: once the kernel has stopped nothing moves.
DiskInv == DmaOwned /\ (dpc # "fatal" => DmaInv)

\* What an active command may write.
LEMMA TransferOwned ==
    ASSUME DmaInv, DmaOwned, NEW p \in Ports, Transfer(p)
    PROVE  DmaOwned'
<1> DEFINE s == px[p].active
           c == px[p].tables[s]
           at == c.buf + px[p].done
<1>1. /\ s # NoSlot /\ px[p].done < c.n /\ late' = late
      /\ stray' = IF owner[at] = c.id THEN stray ELSE stray \cup {c.kind}
  BY DEF Transfer, Hardware
<1>2. s \in px[p].ci /\ s \in CmdSlots /\ px[p].done \in Nat
  BY <1>1 DEF DmaInv, ActiveInv, Types, PortStates
<1>3. CASE s \in Old(p)
  <2>1. late /\ c.kind = "identify"
    BY <1>3 DEF DmaInv, OldInv
  <2> QED
    BY <1>1, <2>1 DEF DmaOwned
<1>4. CASE s \notin Old(p)
  <2>1. dpc = "wait" /\ cmd.port = p /\ s = cmd.slot
    BY <1>2, <1>4 DEF Old
  <2>2. /\ Sending /\ cmd \in Commands
        /\ \A k \in cmd.buf..(cmd.buf + cmd.n - 1) : owner[k] = cmd.id
        /\ c = Filled(cmd)
    BY <2>1 DEF DmaInv, Types, CmdInv, Sending
  <2> HIDE DEF c
  <2>3. c.buf = cmd.buf /\ c.n = cmd.n /\ c.id = cmd.id /\ cmd.buf \in Nat /\ cmd.n \in Nat
    <3>1. cmd.buf \in Nat /\ cmd.n \in Nat
      BY <2>2 DEF Commands
    <3> QED
      BY <2>2, <3>1 DEF Filled
  <2>4. owner[at] = c.id
    <3>1. at \in cmd.buf..(cmd.buf + cmd.n - 1)
      BY <1>1, <1>2, <2>3
    <3> QED
      BY <2>2, <2>3, <3>1
  <2> QED
    BY <1>1, <2>4 DEF DmaOwned
<1> QED
  BY <1>3, <1>4

LEMMA NextOwned == DiskInv /\ [DiskNext]_diskvars => DiskInv'
<1> SUFFICES ASSUME DiskInv, [DiskNext]_diskvars PROVE DiskInv'
  OBVIOUS
<1>1. CASE UNCHANGED diskvars
  <2>1. DmaOwned'
    BY <1>1 DEF diskvars, DiskInv, DmaOwned
  <2>2. dpc' # "fatal" => DmaInv'
    BY <1>1, NextDma DEF diskvars, DiskInv
  <2> QED
    BY <2>1, <2>2 DEF DiskInv
<1>2. CASE DiskNext
  <2>1. DmaInv /\ DmaOwned /\ dpc # "fatal"
    BY <1>2 DEF DiskInv, DiskNext
  <2>2. dpc' # "fatal" => DmaInv'
    BY <2>1, NextDma
  <2>3. CASE \E p \in Ports : Transfer(p)
    BY <2>1, <2>2, <2>3, TransferOwned DEF DiskInv
  <2>4. CASE ~\E p \in Ports : Transfer(p)
    <3>1. stray' = stray /\ (late' = late \/ GiveUp)
      <4>1. CASE Driver \/ UserRead
        BY <4>1, Zenon
           DEF Driver, mod_main, init_port, setrunning, PollTimeout, BootFrame, Build,
               DriveReady, Issue, Succeed, GiveUp, Quiet, devmgr_add_device, Header, NextEntry,
               PartEntry, FatMount, FatMounted, Leave, Scan, Named, UserRead, UserDone
      <4>2. CASE ~(Driver \/ UserRead)
        BY <1>2, <2>4, <4>2, Zenon DEF DiskNext, Follow, EngineStart, Complete, Fail, Hardware
      <4> QED
        BY <4>1, <4>2
    <3>2. late => late'
      BY <3>1, Zenon DEF GiveUp
    <3>3. DmaOwned'
      BY <2>1, <3>1, <3>2 DEF DmaOwned
    <3> QED
      BY <2>2, <3>3 DEF DiskInv
  <2> QED
    BY <2>2, <2>3, <2>4 DEF DiskInv
<1> QED
  BY <1>1, <1>2

\* Whatever the HBA does and however late it is, it writes only to memory that
\* the caller of ahci_read still owns; the one exception is an identify that
\* ahci_identify gave up waiting for.
THEOREM OnlyOwnedIsWritten == DiskSpec => []DmaOwned
<1>1. DiskInit(Setups) => DmaOwned
  BY DEF DiskInit, DmaOwned
<1>2. DiskInit(Setups) => DiskInv
  BY <1>1, InitDma DEF DiskInv
<1>3. DiskInv => DmaOwned
  BY DEF DiskInv
<1> QED
  BY <1>2, <1>3, NextOwned, PTL DEF DiskSpec

\* No step rewrites the table of a slot whose bit is set in cmd_issue.
LEMMA StepKeepsTables ==
    ASSUME DmaInv, dpc # "fatal", DiskNext, NEW p \in Ports, NEW s \in px[p].ci
    PROVE  px'[p].tables[s] = px[p].tables[s]
<1>0. px \in [Ports -> PortStates] /\ px[p] \in PortStates /\ s \in CmdSlots
  BY DEF DmaInv, Types, PortStates
<1>1. CASE Build
  <2>1. /\ cmd.port \in Ports /\ alloc_cmdslot(cmd.port) \notin px[cmd.port].ci
        /\ alloc_cmdslot(cmd.port) \in CmdSlots
    BY <1>1, SlotFound DEF Build
  <2>2. \E x : px' = [px EXCEPT ![cmd.port].tables[alloc_cmdslot(cmd.port)] = x]
    BY <1>1 DEF Build
  <2> QED
    BY <1>0, <2>1, <2>2 DEF PortStates
<1>2. CASE Succeed
  <2>1. /\ cmd.port \in Ports /\ cmd.slot \notin px[cmd.port].ci /\ cmd.slot \in CmdSlots
        /\ px' = [px EXCEPT ![cmd.port].tables[cmd.slot] = NoCmd]
    BY <1>2 DEF Succeed, DmaInv, Types, CmdInv, Sending, Commands
  <2> QED
    BY <1>0, <2>1 DEF PortStates
<1>3. CASE init_port \/ setrunning
  <2>1. \/ px' = px
        \/ \E x : px' = [px EXCEPT ![port].st = x]
        \/ \E x : px' = [px EXCEPT ![port].fre = x]
    BY <1>3, Zenon DEF init_port, setrunning, Waits
  <2> QED
    BY <1>0, <2>1 DEF PortStates
<1>4. CASE Issue
  BY <1>0, <1>4 DEF Issue, PortStates
<1>5. ASSUME NEW q \in Ports,
             Follow(q) \/ EngineStart(q) \/ Transfer(q) \/ Complete(q) \/ Fail(q)
      PROVE  px'[p].tables[s] = px[p].tables[s]
  <2>1. CASE Follow(q)
    BY <1>0, <2>1 DEF Follow, PortStates
  <2>2. CASE EngineStart(q)
    BY <1>0, <2>2 DEF EngineStart, PortStates
  <2>3. CASE Transfer(q)
    BY <1>0, <2>3 DEF Transfer, PortStates
  <2>4. CASE Complete(q)
    BY <1>0, <2>4 DEF Complete, PortStates
  <2>5. CASE Fail(q)
    BY <1>0, <2>5 DEF Fail, PortStates
  <2> QED
    BY <1>5, <2>1, <2>2, <2>3, <2>4, <2>5
<1>6. CASE px' = px
  BY <1>6
<1> QED
  BY <1>1, <1>2, <1>3, <1>4, <1>5, <1>6
     DEF DiskNext, Driver, mod_main, PollTimeout, DriveReady, GiveUp, devmgr_add_device, Header,
         NextEntry, PartEntry, FatMount, FatMounted, Leave, Scan, Named, UserRead, UserDone

\* A command table stays as it is for as long as the HBA may read it: there is
\* always a slot for alloc_cmdslot to return that is not in use.
THEOREM TablesAreKept == DiskSpec => TablesKept
<1>1. ASSUME DiskInv, [DiskNext]_diskvars
      PROVE  [\A p \in Ports : \A s \in px[p].ci : px'[p].tables[s] = px[p].tables[s]]_diskvars
  <2>1. CASE UNCHANGED diskvars
    BY <2>1
  <2>2. CASE DiskNext
    <3>1. DmaInv /\ dpc # "fatal"
      BY <1>1, <2>2 DEF DiskInv, DiskNext
    <3> QED
      BY <2>2, <3>1, StepKeepsTables
  <2> QED
    BY <1>1, <2>1, <2>2
<1>2. DiskInit(Setups) => DiskInv
  BY InitDma DEF DiskInv, DiskInit, DmaOwned
<1> QED
  BY <1>1, <1>2, NextOwned, PTL DEF DiskSpec, TablesKept
=============================================================================
