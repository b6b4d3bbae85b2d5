------------------------------ MODULE Context -------------------------------
(***************************************************************************)
(* What the boot processor's registers hold: the interrupt stubs and the   *)
(* one SSE save area (arch/amd64/int.s), onInterrupt's entry, the timer,   *)
(* yield and page fault cases (idt.cc), the switch (sched_tick and         *)
(* arch_cpu_state_load) and the system call entry with its one stack       *)
(* (syscalls.s).  The contents of a register set are named by the code     *)
(* they belong to: the user code of a thread, its system call, a handler.  *)
(* Every gate uses the same interrupt stack (ist = 1), so an interrupt     *)
(* always saves at its top.                                                *)
(***************************************************************************)
EXTENDS Integers, Sequences

CONSTANTS Threads   \* 1 .. n: the threads, scheduled in a ring

ASSUME ThreadsAssumption == Threads \in Nat \ {0}

VARIABLES current,  \* the running thread
          code,     \* thread -> the nested code it is in, innermost last
          isrs,     \* the handlers running on top of it, innermost last
          regs,     \* the general registers and the SSE registers
          ist,      \* the registers saved at the top of the interrupt stack
          sse_state,
          tasks,    \* thread -> the state saved by sched_tick
          ursp, kframe, \* syscalls.s: the user's stack, the saved registers
          inservice,\* the interrupts the local APIC waits for the end of
          servicing,
          stopped,
          nested, overlapped \* ghosts: a fault in a handler, a call in a call

contextvars == <<current, code, isrs, regs, ist, sse_state, tasks, ursp, kframe,
                 inservice, servicing, stopped, nested, overlapped>>

UserOf(t) == <<t, "user">>
CallOf(t) == <<t, "call">>
Isr(kind) == <<0, kind>>
Innermost(s) == s[Len(s)]
Outer(s) == SubSeq(s, 1, Len(s) - 1)
Executing == IF isrs = << >> THEN Innermost(code[current]) ELSE Innermost(isrs)

(* Code that was given registers of other code goes nowhere predictable:   *)
(* the model stops there.                                                  *)
Alive == ~stopped /\ (isrs = << >> => regs.gp = Executing)

(* The stub: fxsave to the one area, the registers pushed on the interrupt *)
(* stack from its top.                                                     *)
Save(kind) ==
  /\ ist' = regs.gp
  /\ sse_state' = regs.fx
  /\ regs' = [gp |-> Isr(kind), fx |-> Isr(kind)]
  /\ isrs' = Append(isrs, Isr(kind))

\* Mutant of Restore: the SSE registers are not restored.
Restore_NoSse == regs' = [gp |-> ist, fx |-> regs.fx]

(* Its end: the registers popped, fxrstor, iretq.                          *)
Restore == regs' = [gp |-> ist, fx |-> sse_state]

(* The timer or a driver's interrupt; interrupts are off in a handler, on  *)
(* in a system call (nothing masks them).                                  *)
Interrupt(kind) ==
  /\ Alive /\ isrs = << >> /\ kind \notin inservice
  /\ Save(kind)
  /\ inservice' = inservice \cup {kind}
  /\ servicing' = IF kind = "timer" THEN 64 ELSE servicing
  /\ UNCHANGED <<current, code, tasks, ursp, kframe, stopped, nested, overlapped>>

(* sched_yield: int $0x41, from kernel code.                               *)
Yield ==
  /\ Alive /\ isrs = << >> /\ Len(code[current]) = 2
  /\ Save("yield")
  /\ servicing' = 65
  /\ UNCHANGED <<current, code, tasks, ursp, kframe, inservice, stopped, nested,
                 overlapped>>

(* The kernel touches a page of the heap for the first time.               *)
HeapFault ==
  /\ Alive
  /\ isrs # << >> \/ Len(code[current]) = 2
  /\ isrs # << >> => Innermost(isrs) \in {Isr("timer"), Isr("driver")}
  /\ Save("fault")
  /\ servicing' = 14
  /\ nested' = (nested \/ isrs # << >>)
  /\ UNCHANGED <<current, code, tasks, ursp, kframe, inservice, stopped, overlapped>>

(* onInterrupt's first test: an exception while an exception is serviced.  *)
FaultGuard(exc) == servicing < 32 /\ servicing # 14 /\ servicing # 0 /\ exc # 14

(* Another exception: onInterrupt reports and halts; what it calls may     *)
(* raise one more.                                                         *)
Exception(exc) ==
  /\ Alive /\ exc < 32 /\ exc # 14
  /\ Save("exception")
  /\ servicing' = IF FaultGuard(exc) THEN servicing ELSE exc
  /\ stopped' = FaultGuard(exc)
  /\ Len(isrs) < 5
  /\ UNCHANGED <<current, code, tasks, ursp, kframe, inservice, nested, overlapped>>

Halt ==
  /\ Alive /\ isrs # << >> /\ Innermost(isrs) = Isr("exception")
  /\ stopped' = TRUE
  /\ UNCHANGED <<current, code, isrs, regs, ist, sse_state, tasks, ursp, kframe,
                 inservice, servicing, nested, overlapped>>

Eoi(kind) == inservice \ {kind}

(* A handler that does not switch: end of interrupt, return.               *)
Return ==
  /\ Alive /\ isrs # << >>
  /\ Innermost(isrs) \in {Isr("timer"), Isr("driver"), Isr("fault")}
  /\ Restore
  /\ isrs' = Outer(isrs)
  /\ inservice' = Eoi(Innermost(isrs)[2])
  /\ servicing' = IF Innermost(isrs) = Isr("driver") THEN servicing ELSE 0
  /\ UNCHANGED <<current, code, ist, sse_state, tasks, ursp, kframe, stopped, nested,
                 overlapped>>

NextThread == IF current = Threads THEN 1 ELSE current + 1

\* Mutant of SwitchEoi: the interrupt is not acknowledged before the switch.
SwitchEoi_None(kind) == inservice

SwitchEoi(kind) == IF kind = "timer" THEN Eoi(kind) ELSE inservice

(* What the task of the interrupted thread gets.                           *)
Saved == [gp |-> ist, fx |-> sse_state]

(* sched_tick from the timer's or the yield's case: the frame and the SSE  *)
(* area go to the task, the next task's come back, and the frame of the    *)
(* old one is never returned to.                                           *)
sched_tick ==
  /\ Alive /\ Len(isrs) = 1 /\ isrs[1] \in {Isr("timer"), Isr("yield")}
  /\ tasks' = [tasks EXCEPT ![current] = Saved]
  /\ sse_state' = tasks'[NextThread].fx
  /\ regs' = tasks'[NextThread]
  /\ current' = NextThread
  /\ isrs' = << >>
  /\ inservice' = SwitchEoi(isrs[1][2])
  /\ servicing' = 0
  /\ UNCHANGED <<code, ist, ursp, kframe, stopped, nested, overlapped>>

(* on_syscall: the user's stack pointer goes to ursp, the registers to the *)
(* top of the system call stack.                                           *)
on_syscall ==
  /\ Alive /\ isrs = << >> /\ code[current] = <<UserOf(current)>>
  /\ ursp' = regs.gp /\ kframe' = regs.gp
  /\ regs' = [regs EXCEPT !.gp = CallOf(current)]
  /\ code' = [code EXCEPT ![current] = Append(@, CallOf(current))]
  /\ overlapped' = (overlapped \/ \E t \in 1 .. Threads : Len(code[t]) = 2)
  /\ UNCHANGED <<current, isrs, ist, sse_state, tasks, inservice, servicing, stopped,
                 nested>>

sysret ==
  /\ Alive /\ isrs = << >> /\ Len(code[current]) = 2
  /\ regs' = [regs EXCEPT !.gp = IF ursp = kframe THEN kframe ELSE Isr("mixed")]
  /\ code' = [code EXCEPT ![current] = Outer(@)]
  /\ UNCHANGED <<current, isrs, ist, sse_state, tasks, ursp, kframe, inservice,
                 servicing, stopped, nested, overlapped>>

(* A thread's first state: sched_start's and sched_add's tasks run their   *)
(* own code with a copy of the SSE registers.                              *)
ContextInit ==
  /\ current = 1
  /\ code = [t \in 1 .. Threads |-> <<UserOf(t)>>]
  /\ isrs = << >>
  /\ regs = [gp |-> UserOf(1), fx |-> UserOf(1)]
  /\ ist = Isr("none") /\ sse_state = Isr("none")
  /\ tasks = [t \in 1 .. Threads |-> [gp |-> UserOf(t), fx |-> UserOf(t)]]
  /\ ursp = Isr("none") /\ kframe = Isr("none")
  /\ inservice = {} /\ servicing = 0
  /\ stopped = FALSE /\ nested = FALSE /\ overlapped = FALSE

ContextNext ==
  \/ Interrupt("timer") \/ Interrupt("driver")
  \/ Yield \/ HeapFault \/ Exception(13) \/ Halt \/ Return
  \/ sched_tick \/ on_syscall \/ sysret

ContextSpec == ContextInit /\ [][ContextNext]_contextvars
-----------------------------------------------------------------------------
(* RegistersKept: code that is resumed, by the return of a handler, by a   *)
(* switch or by sysret, has its own general and SSE registers back, as     *)
(* long as no page fault hits a handler (the fault overwrites the frame of *)
(* the interrupt it hits) and no thread calls during another one's call.   *)
(* SSE registers belong to the user code: a system call leaves them alone. *)
RegistersKept ==
  ~nested /\ ~overlapped /\ ~stopped /\ isrs = << >> =>
    regs = [gp |-> Executing, fx |-> UserOf(current)]

(* SavedRight: in the same conditions a thread that is not running has in  *)
(* its task the registers of the code it will go on with.                  *)
SavedRight ==
  ~nested /\ ~overlapped =>
    \A t \in 1 .. Threads \ {current} :
      tasks[t] = [gp |-> Innermost(code[t]), fx |-> UserOf(t)]

(* TimerGoesOn: when no handler runs, the local APIC waits for the end of  *)
(* no interrupt, so the next tick, and the next key, can come; this holds  *)
(* on the path that switches threads and never returns to the handler.     *)
TimerGoesOn == isrs = << >> => inservice = {}

(* ReportOnce: an exception raised while onInterrupt reports another one   *)
(* stops the machine: there are never three at once.                       *)
ReportOnce ==
  \A i, j, k \in DOMAIN isrs : i < j /\ j < k =>
    ~(isrs[i] = Isr("exception") /\ isrs[j] = Isr("exception")
      /\ isrs[k] = Isr("exception"))

(* ContextKept: interrupts, switches, system calls and exceptions leave    *)
(* the code they interrupt as it was, and an exception in the report of an *)
(* exception does not recurse.                                             *)
ContextKept == RegistersKept /\ SavedRight /\ ReportOnce
=============================================================================
