---------------------------- MODULE MCInterrupts ----------------------------
(***************************************************************************)
(* What interrupts drive: the scheduler, the registers saved and restored, *)
(* the PS/2 keyboard.  Each is explored by itself: the one in focus moves, *)
(* the others wait.                                                        *)
(***************************************************************************)
EXTENDS MCScheduler, Context, Ps2

(* Ps2 for TLC: a letter, a key without a character (shift) and one whose    *)
(* code is above 0x6f (F7).                                                  *)

MCKeys == {"c", "shift", "f7"}
MCCode == [c |-> 33, shift |-> 18, f7 |-> 131]
MCChar == [c |-> "c", shift |-> "nul", f7 |-> "nul"]

-----------------------------------------------------------------------------

VARIABLE focus

InterruptsInit ==
    /\ focus \in {"scheduler", "context", "ps2"}
    /\ Init /\ ContextInit
    /\ Ps2Init /\ (focus # "ps2" => mouse = "none" /\ ctl = With(4, first_port_translation, 1))

InterruptsNext ==
    /\ \/ focus = "scheduler" /\ Next /\ UNCHANGED <<contextvars, ps2vars>>
       \/ focus = "context" /\ ContextNext /\ UNCHANGED <<vars, ps2vars>>
       \/ focus = "ps2" /\ Ps2Next /\ UNCHANGED <<vars, contextvars>>
    /\ UNCHANGED focus

interruptvars == <<focus, vars, contextvars, ps2vars>>

(* Interrupted code goes on, timer interrupts come, and the controller     *)
(* passes on every byte in the end.                                        *)
InterruptsSpec ==
    /\ InterruptsInit /\ [][InterruptsNext]_interruptvars
    /\ WF_vars(focus = "scheduler" /\ TaskStep) /\ WF_vars(focus = "scheduler" /\ Timer)
    /\ WF_vars(focus = "scheduler" /\ HandlerStep)
    /\ WF_ps2vars(focus = "ps2" /\ SetUp) /\ WF_ps2vars(focus = "ps2" /\ handlekb)
    /\ WF_ps2vars(focus = "ps2" /\ handlemouse) /\ SF_ps2vars(focus = "ps2" /\ KeyByte)
    /\ WF_ps2vars(focus = "ps2" /\ Answer)

(* RoundRobin, of the behaviours in which tasks run: as long as they only  *)
(* use the allocators, every task gets the CPU again and again, also when  *)
(* one is preempted holding a lock.                                        *)
TasksServed == focus = "scheduler" => RoundRobin
=============================================================================
