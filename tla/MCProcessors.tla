---------------------------- MODULE MCProcessors ----------------------------
(***************************************************************************)
(* The start of the processors, and the watermark allocator their tables   *)
(* come from.  Each is explored by itself; the other one waits.            *)
(***************************************************************************)
EXTENDS Watermark, Smp

(* Watermark for TLC: sizes are rounded to multiples of 2, the area starts   *)
(* off the alignment of the larger requests.                                 *)
\* Smaller than, equal to and larger than its alignment; <<5, 4>> is aligned to
\* six, which is no power of two.
MCRequests == {<<1, 0>>, <<2, 4>>, <<5, 4>>}

(* Smp for TLC: tables with one I/O APIC, with two, with none, and with one   *)
(* that lacks the first pins.                                                 *)
Lapic(i) == [type |-> "lapic", id |-> i]
Ioapic(b) == [type |-> "ioapic", base |-> b]
Override(irq, gsi) == [type |-> "override", irq |-> irq, gsi |-> gsi]
Other == [type |-> "other"]

MCMadts == {<<Lapic(0), Lapic(1), Ioapic(0), Override(0, 2)>>,
            <<Ioapic(0), Ioapic(Pins), Lapic(0), Lapic(1), Lapic(2), Override(3, 2), Other>>,
            <<Lapic(0), Lapic(1)>>,
            <<Ioapic(Pins), Lapic(1)>>}
MCDriverIrqs == <<1, 3>>

-----------------------------------------------------------------------------

VARIABLE focus

ProcessorsInit ==
    /\ focus \in {"watermark", "smp"}
    /\ Init
    /\ SmpInit /\ (focus # "smp" => madt = CHOOSE m \in Madts : TRUE)

ProcessorsNext ==
    /\ \/ focus = "watermark" /\ Next /\ UNCHANGED <<smpvars>>
       \/ focus = "smp" /\ SmpNext /\ UNCHANGED <<vars>>
    /\ UNCHANGED focus

processorvars == <<focus, vars, smpvars>>

(* The boot processor runs on and the timer ticks.                         *)
ProcessorsSpec ==
    /\ ProcessorsInit /\ [][ProcessorsNext]_processorvars
    /\ WF_smpvars(focus = "smp" /\ Bsp) /\ WF_smpvars(focus = "smp" /\ Tick)

(* BootGoesOn, of the behaviours in which the processors are started.      *)
StartGoesOn == focus = "smp" => BootGoesOn
=============================================================================
