-------------------------------- MODULE Ps2 ---------------------------------
(***************************************************************************)
(* The PS/2 driver (modules/ps2) with the state of the keys that it keeps  *)
(* in devmgr/input.                                                        *)
(*                                                                         *)
(* Three parties interleave: the keyboard, the mouse and the i8042         *)
(* controller (external); mod_main of the driver, which sets the           *)
(* controller up by polling; and the interrupt handlers, which run to      *)
(* their end with interrupts off and are therefore single actions.  What   *)
(* a key press does to the line being edited is in Terminal.               *)
(***************************************************************************)
EXTENDS Integers, Sequences, FiniteSets

CONSTANTS
    Keys,           \* the keys of the keyboard
    Code,           \* their scan codes, set 2
    Char,           \* scancode_set2_to_ascii of their codes
    KeysHeld,       \* bound: keys held at once
    Queue           \* bound: bytes waiting in the keyboard

VARIABLES
    held, kbq,              \* keys held; the bytes the keyboard still has to send
    mouse,                  \* "none", "idle" or "moved" (has a byte to send)
    ctl, obf, resp,         \* i8042: configuration, output buffer, pending answer
    main, cfg, port1, port2, \* mod_main: where it is, its locals
    irqs, pending,          \* interrupts unmasked; interrupts raised
    released, pressed,      \* the handler's flag; the characters taken for pressed
    early                   \* history: a byte came while the driver was setting up

hardware == <<held, kbq, mouse, ctl, obf, resp>>
driver == <<main, cfg, port1, port2, irqs, early>>
keys == <<released, pressed>>
ps2vars == <<hardware, driver, pending, keys>>

Empty == -1
NoChar == "nul"
Byte == 0..255

\* The bits of config_byte, by their values.
irq_kb == 1
irq_mouse == 2
clock_kb == 16
clock_mouse == 32
first_port_translation == 64
Bit(n, b) == (n \div b) % 2
With(n, b, v) == n + (v - Bit(n, b)) * b

\* 0xf0 announces a release; scancode_set2_to_ascii has one character for a code.
ASSUME CodeAssumption == Code \in [Keys -> Byte \ {240}]
ASSUME CharAssumption == \A k, l \in Keys : Code[k] = Code[l] => Char[k] = Char[l]

-----------------------------------------------------------------------------
(***************************************************************************)
(* The interrupt handlers of the driver.                                   *)
(***************************************************************************)
\* The character of a scan code: scancode_set2_to_ascii holds 0 for the rest.
ToChar(code) == IF \E k \in Keys : Code[k] = code
                THEN Char[CHOOSE k \in Keys : Code[k] = code] ELSE NoChar

Press(ch) == pressed' = pressed \cup {ch}
Release(ch) == pressed' = pressed \ {ch}

\* Mutant of handlekb: codes above 0x6f are dropped before 0xf0 is looked at.
handlekb_Swapped ==
    /\ 1 \in pending /\ obf # Empty
    /\ pending' = pending \ {1}
    /\ obf' = Empty
    /\ IF obf > 111 THEN UNCHANGED pressed ELSE Press(ToChar(obf))
    /\ UNCHANGED <<held, kbq, mouse, ctl, resp, driver, released>>

\* Mutant of handlekb: the byte is left in the output buffer.
handlekb_NoRead ==
    /\ 1 \in pending
    /\ pending' = pending \ {1}
    /\ UNCHANGED <<hardware, driver, keys>>

handlekb ==
    LET code == IF obf = Empty THEN 0 ELSE obf
    IN  /\ 1 \in pending
        /\ pending' = pending \ {1}
        /\ obf' = Empty
        /\ \/ /\ code = 240
              /\ released' = TRUE
              /\ UNCHANGED pressed
           \/ /\ code > 111 /\ code # 240
              /\ UNCHANGED keys
           \/ /\ code <= 111 /\ released
              /\ released' = FALSE
              /\ Release(ToChar(code))
           \/ /\ code <= 111 /\ ~released
              /\ Press(ToChar(code))
              /\ UNCHANGED released
        /\ UNCHANGED <<held, kbq, mouse, ctl, resp, driver>>

handlemouse ==
    /\ 12 \in pending
    /\ pending' = pending \ {12}
    /\ obf' = Empty
    /\ UNCHANGED <<held, kbq, mouse, ctl, resp, driver, keys>>

-----------------------------------------------------------------------------
(***************************************************************************)
(* The keyboard, the mouse and the controller.                             *)
(***************************************************************************)
Send(bytes) ==
    /\ Len(kbq) + Len(bytes) <= Queue
    /\ kbq' = kbq \o bytes

KeyDown(k) ==
    /\ k \notin held /\ Cardinality(held) < KeysHeld
    /\ held' = held \cup {k}
    /\ Send(<<Code[k]>>)
    /\ UNCHANGED <<mouse, ctl, obf, resp, driver, pending, keys>>

KeyUp(k) ==
    /\ k \in held
    /\ held' = held \ {k}
    /\ Send(<<240, Code[k]>>)
    /\ UNCHANGED <<mouse, ctl, obf, resp, driver, pending, keys>>

\* The keyboard's own repetition of a key that is held.
Typematic(k) ==
    /\ k \in held
    /\ Send(<<Code[k]>>)
    /\ UNCHANGED <<held, mouse, ctl, obf, resp, driver, pending, keys>>

MouseMove ==
    /\ mouse = "idle"
    /\ mouse' = "moved"
    /\ UNCHANGED <<held, kbq, ctl, obf, resp, driver, pending, keys>>

\* A byte reaches the output buffer: an interrupt is raised when the
\* configuration enables it, and kept only when the I/O APIC lets it through.
Raise(irq, bit) ==
    pending' = IF Bit(ctl, bit) = 1 /\ irq \in irqs THEN pending \cup {irq} ELSE pending

SettingUp == main \notin {"done", "failed", "halted"}

KeyByte ==
    /\ obf = Empty /\ kbq # <<>> /\ Bit(ctl, clock_kb) = 0
    /\ obf' = Head(kbq)
    /\ kbq' = Tail(kbq)
    /\ Raise(1, irq_kb)
    /\ early' = (early \/ SettingUp)
    /\ UNCHANGED <<held, mouse, ctl, resp, main, cfg, port1, port2, irqs, keys>>

MouseByte ==
    /\ obf = Empty /\ mouse = "moved" /\ Bit(ctl, clock_mouse) = 0
    /\ obf' = 8
    /\ mouse' = "idle"
    /\ Raise(12, irq_mouse)
    /\ early' = (early \/ SettingUp)
    /\ UNCHANGED <<held, kbq, ctl, resp, main, cfg, port1, port2, irqs, keys>>

Answer ==
    /\ obf = Empty /\ resp # Empty
    /\ obf' = resp
    /\ resp' = Empty
    /\ UNCHANGED <<held, kbq, mouse, ctl, driver, pending, keys>>

(***************************************************************************)
(* mod_main.  A step is the code from one read() to the next: it takes the *)
(* byte that read() returns, whoever sent it, and ends with the command    *)
(* whose answer the next step reads.                                       *)
(***************************************************************************)
\* read(): the byte in the output buffer, or 0 when ten polls found none.
read(v) == IF obf # Empty THEN v = obf ELSE resp = Empty /\ v = 0

Port2Off(c) == IF mouse = "none" THEN c ELSE With(c, clock_mouse, 1)
Port2On(c) == IF mouse = "none" THEN c ELSE With(c, clock_mouse, 0)

\* The rest of the state that a step of mod_main leaves alone.
Rest == UNCHANGED <<held, kbq, mouse, irqs, early, pending, keys>>

Goes(from, to) == main = from /\ main' = to

\* Both ports off, the output buffer drained, READ_CFG.
DisablePorts ==
    /\ Goes("start", "config")
    /\ ctl' = Port2Off(With(ctl, clock_kb, 1))
    /\ obf' = Empty
    /\ resp' = ctl'
    /\ UNCHANGED <<cfg, port1, port2>> /\ Rest

\* The configuration with the keyboard's interrupt and the translation off;
\* clearing clock_kb lets the keyboard send again.  SELF_TEST.
Configure ==
    /\ Goes("config", "selftest")
    /\ \E v \in Byte : read(v) /\
         cfg' = With(With(With(v, clock_kb, 0), irq_kb, 0), first_port_translation, 0)
    /\ ctl' = cfg'
    /\ obf' = Empty
    /\ resp' \in {85, 252, Empty}
    /\ UNCHANGED <<port1, port2>> /\ Rest

\* Anything but 0x55 makes mod_main return.  Otherwise WRITE_CFG, ENABLE_SECOND,
\* READ_CFG.
SelfTest ==
    /\ main = "selftest"
    /\ \E v \in Byte :
         /\ read(v)
         /\ \/ v # 85 /\ main' = "failed" /\ UNCHANGED <<ctl, resp>>
            \/ v = 85 /\ main' = "detect" /\ ctl' = Port2On(cfg) /\ resp' = ctl'
    /\ obf' = Empty
    /\ UNCHANGED <<cfg, port1, port2>> /\ Rest

\* A clock that stayed off is taken for a port that is there, and switched off;
\* in the other case TEST_FIRST follows at once.
DetectSecond ==
    /\ main = "detect"
    /\ \E v \in Byte : read(v) /\ cfg' = v
    /\ obf' = Empty
    /\ \/ /\ Bit(cfg', clock_mouse) = 1
          /\ main' = "detected" /\ ctl' = Port2Off(ctl) /\ resp' = ctl'
       \/ /\ Bit(cfg', clock_mouse) = 0
          /\ main' = "test1" /\ resp' \in {0, 1} /\ UNCHANGED ctl
    /\ UNCHANGED <<port1, port2>> /\ Rest

SecondFound ==
    /\ Goes("detected", "test1")
    /\ \E v \in Byte : read(v) /\ cfg' = v
    /\ obf' = Empty
    /\ resp' \in {0, 1}
    /\ UNCHANGED <<ctl, port1, port2>> /\ Rest

\* The answer to TEST_FIRST; TEST_SECOND.
TestFirst ==
    /\ Goes("test1", "test2")
    /\ \E v \in Byte : read(v) /\ port1' = (v = 0)
    /\ obf' = Empty
    /\ resp' = IF mouse = "none" THEN 1 ELSE 0
    /\ UNCHANGED <<ctl, cfg, port2>> /\ Rest

\* ENABLE_FIRST or ENABLE_SECOND with READ_CFG, for the next port that passed.
Enable(p1, p2, c) ==
    \/ p1 /\ main' = "enable1" /\ ctl' = With(c, clock_kb, 0) /\ resp' = ctl'
    \/ ~p1 /\ p2 /\ main' = "enable2" /\ ctl' = Port2On(c) /\ resp' = ctl'
    \/ ~p1 /\ ~p2 /\ main' = "assign" /\ ctl' = c /\ UNCHANGED resp

TestSecond ==
    /\ main = "test2"
    /\ \E v \in Byte : read(v) /\ port2' = (v = 0)
    /\ obf' = Empty
    /\ Enable(port1, port2', ctl)
    /\ UNCHANGED <<cfg, port1>> /\ Rest

EnableFirst ==
    /\ main = "enable1"
    /\ \E v \in Byte : read(v) /\
         cfg' = With(With(With(v, clock_kb, 0), irq_kb, 1), first_port_translation, 0)
    /\ obf' = Empty
    /\ Enable(FALSE, port2, cfg')
    /\ UNCHANGED <<port1, port2>> /\ Rest

EnableSecond ==
    /\ main = "enable2"
    /\ \E v \in Byte : read(v) /\ cfg' = With(With(v, clock_mouse, 0), irq_mouse, 1)
    /\ obf' = Empty
    /\ Enable(FALSE, FALSE, cfg')
    /\ UNCHANGED <<port1, port2>> /\ Rest

\* arch_assign_irq for the keyboard, then for the mouse.  An edge that came
\* before is gone.
AssignIrq ==
    /\ \/ Goes("assign", "assign2") /\ irqs' = irqs \cup {1}
       \/ Goes("assign2", "done") /\ irqs' = irqs \cup {12}
    /\ UNCHANGED <<hardware, cfg, port1, port2, early, pending, keys>>

\* poll_standby: the controller takes no more commands.
Stuck ==
    /\ SettingUp
    /\ main' = "halted"
    /\ UNCHANGED <<hardware, cfg, port1, port2, irqs, early, pending, keys>>

SetUp == \/ DisablePorts \/ Configure \/ SelfTest \/ DetectSecond \/ SecondFound
         \/ TestFirst \/ TestSecond \/ EnableFirst \/ EnableSecond \/ AssignIrq

-----------------------------------------------------------------------------
Ps2Init ==
    /\ held = {} /\ kbq = <<>> /\ mouse \in {"none", "idle"}
    \* What the firmware leaves: translation on, the interrupt on or off.
    /\ \E i \in {0, 1} : ctl = With(With(4, first_port_translation, 1), irq_kb, i)
    /\ obf = Empty /\ resp = Empty
    /\ main = "start" /\ cfg = 0 /\ port1 = TRUE /\ port2 = TRUE
    /\ irqs = {} /\ pending = {} /\ early = FALSE
    /\ released = FALSE /\ pressed = {}

Ps2Next ==
    \/ SetUp \/ Stuck
    \/ \E k \in Keys : KeyDown(k) \/ KeyUp(k) \/ Typematic(k)
    \/ MouseMove \/ KeyByte \/ MouseByte \/ Answer
    \/ handlekb \/ handlemouse

\* The processor goes on with mod_main and serves what is pending; the
\* controller passes on every byte in the end.
Ps2Spec == /\ Ps2Init /\ [][Ps2Next]_ps2vars
           /\ WF_ps2vars(SetUp) /\ WF_ps2vars(handlekb) /\ WF_ps2vars(handlemouse)
           /\ SF_ps2vars(KeyByte) /\ WF_ps2vars(Answer)

-----------------------------------------------------------------------------
\* The types; in particular the I/O APIC raises no interrupt the driver has
\* not asked for, and only characters of keys count as pressed.
Ps2TypeOK ==
    /\ held \subseteq Keys /\ kbq \in Seq(Byte) /\ mouse \in {"none", "idle", "moved"}
    /\ ctl \in Byte /\ obf \in Byte \cup {Empty} /\ resp \in Byte \cup {Empty}
    /\ cfg \in Byte /\ irqs \subseteq {1, 12} /\ pending \subseteq irqs
    /\ pressed \subseteq {Char[k] : k \in Keys} \cup {NoChar}

Dead == main \in {"failed", "halted"} \/ ~port1

\* When no byte of a device came in while mod_main was polling, it leaves the
\* controller as it wanted it: the keyboard enabled, untranslated, interrupting.
SetUpRight ==
    main = "done" /\ ~early /\ ~Dead =>
        /\ Bit(ctl, irq_kb) = 1 /\ Bit(ctl, clock_kb) = 0
        /\ Bit(ctl, first_port_translation) = 0
        /\ 1 \in irqs

\* A key the kernel takes for pressed is held, or its release is on the way: no
\* key repeats for ever.  The release of a key with a code above 0x6f leaves
\* released set, which only makes the next press go unnoticed.
NoStuckKeys ==
    ~early => \A ch \in pressed : \E k \in Keys :
        /\ Char[k] = ch
        /\ k \in held \/ obf = Code[k] \/ \E i \in DOMAIN kbq : kbq[i] = Code[k]

\* A keyboard whose queue is full gets rid of a byte, unless the driver gave up
\* on it or lost an interrupt to a byte that came during its set-up.
KeysServed == Len(kbq) = Queue ~> Len(kbq) < Queue \/ early \/ Dead

\* From set-up to key release the driver and the keyboard agree: the controller
\* is left as mod_main wanted it, and no key is stuck.
KeyboardRight == Ps2TypeOK /\ SetUpRight /\ NoStuckKeys
=============================================================================
