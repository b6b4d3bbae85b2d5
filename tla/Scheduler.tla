----------------------------- MODULE Scheduler -----------------------------
(***************************************************************************)
(* The scheduler (kernel/src/scheduler) on its one CPU: the task that runs *)
(* executes kernel code label by label; the timer interrupt may come after *)
(* every label, runs with interrupts off, and switches tasks.  A spinlock  *)
(* that is taken when an interrupt handler wants it, or when the scheduler *)
(* is off, is never released: the step that needs it is then disabled for  *)
(* good.                                                                   *)
(*                                                                         *)
(* The registers are abstracted to the label, the heap and the physical    *)
(* allocator to their locks.  The list of tasks is the sequence LinkedList *)
(* stores, with its `last' flags.                                          *)
(***************************************************************************)
EXTENDS Sequences, Functions

CONSTANTS Tasks,     \* task numbers
          Boot,      \* the task kmain runs in, which never exits
          Started,   \* tasks already launched, <<>> before sched_start
          Ops,       \* what the tasks do: "heap", "pmm", "add", "exit"
          Faults,    \* whether a first write to heap memory faults
          NoOne      \* owner of a free lock

ASSUME TasksAssumption == Boot \in Tasks /\ NoOne \notin Tasks
ASSUME StartedAssumption == Started \in Seq(Tasks \ {Boot}) /\ IsInjective(Started)

VARIABLES list, last,        \* sched_tasks, and its links whose flag is set
          cur,               \* sched_cpus[cpu]
          running,           \* sched_running
          marked,            \* scheduled_for_deletion
          saved,             \* task::state
          rip,               \* the label the CPU is at, when no handler runs
          isr,               \* what the CPU does: a task, or steps of a handler
          sched_m, vmm_m, pmm_mutex,
          halted,            \* why the kernel stopped, or "no"
          where              \* where each task really is (history)

locks == <<sched_m, vmm_m, pmm_mutex>>
queue == <<list, last, cur, marked, saved>>
vars == <<queue, running, rip, isr, locks, halted, where>>

Handler == "handler"

\* The end of a list, and a list without one of its links.
LastOf(s) == s[Len(s)]
Without(s, k) == SubSeq(s, 1, k - 1) \o SubSeq(s, k + 1, Len(s))

Init ==
    /\ list = IF Started = <<>> THEN <<>> ELSE <<Boot>> \o Started
    /\ last = IF Started = <<>> THEN {} ELSE {LastOf(Started)}
    /\ running = (Started # <<>>)
    /\ rip = IF Started = <<>> THEN "start" ELSE "work"
    /\ where = [t \in Tasks |-> IF t = Boot THEN rip ELSE "work"]
    /\ saved = [t \in Tasks |-> IF t \in Range(Started) THEN "work" ELSE "none"]
    /\ cur = Boot /\ marked = {} /\ isr = "task" /\ halted = "no"
    /\ sched_m = NoOne /\ vmm_m = NoOne /\ pmm_mutex = NoOne

-----------------------------------------------------------------------------
(* The running task *)

At(label) == halted = "no" /\ isr = "task" /\ rip = label
Goto(label) == rip' = label /\ where' = [where EXCEPT ![cur] = label]
Does(op, label) == At("work") /\ op \in Ops /\ Goto(label)

\* kmalloc, kfree: the heap lock, held over several labels.
HeapLock == Does("heap", "heap") /\ vmm_m = NoOne /\ vmm_m' = cur
            /\ UNCHANGED <<queue, running, isr, sched_m, pmm_mutex, halted>>
HeapUnlock == At("heap") /\ Goto("work") /\ vmm_m' = NoOne
              /\ UNCHANGED <<queue, running, isr, sched_m, pmm_mutex, halted>>

\* pmm_alloc by a task.
PmmLock == Does("pmm", "pmm") /\ pmm_mutex = NoOne /\ pmm_mutex' = cur
           /\ UNCHANGED <<queue, running, isr, sched_m, vmm_m, halted>>
PmmUnlock == At("pmm") /\ Goto("work") /\ pmm_mutex' = NoOne
             /\ UNCHANGED <<queue, running, isr, sched_m, vmm_m, halted>>

\* sched_start: the list gets the boot task, interrupt 0x41 saves its context.
\* The guard of the function has switched the scheduler off; it is off anyway.
StartPush ==
    /\ At("start") /\ Goto("int41")
    /\ list' = <<Boot>> /\ last' = {Boot} /\ cur' = Boot
    /\ UNCHANGED <<running, isr, marked, saved, locks, halted>>
Int41 ==
    /\ At("int41") /\ Goto("started")
    /\ isr' = "tick"
    /\ UNCHANGED <<queue, running, locks, halted>>
StartOn ==
    /\ At("started") /\ Goto("work")
    /\ running' = TRUE
    /\ UNCHANGED <<queue, isr, locks, halted>>

\* Tasks that were not launched yet: a bound on the number of launches.
Spare == {t \in Tasks \ {Boot} : saved[t] = "none"}

\* sched_add_thread and sched_add_user_process: the lock, and only then the
\* scheduler goes off; two or three allocations; push_back; unlock; and on again.
AddLock ==
    /\ Does("add", "addlocked") /\ sched_m = NoOne /\ Spare # {}
    /\ sched_m' = cur
    /\ UNCHANGED <<queue, running, isr, vmm_m, pmm_mutex, halted>>
AddOff ==
    /\ At("addlocked") /\ Goto("addalloc")
    /\ running' = FALSE
    /\ UNCHANGED <<queue, isr, locks, halted>>
AddAlloc ==
    /\ At("addalloc") /\ Goto("addpush")
    /\ vmm_m = NoOne
    /\ UNCHANGED <<queue, running, isr, locks, halted>>
NewState(t) == [saved EXCEPT ![t] = "work"]
push_back(t) ==
    /\ At("addpush") /\ vmm_m = NoOne
    /\ t \in Spare
    /\ \/ /\ LastOf(list) \in last
          /\ list' = Append(list, t)
          /\ last' = (last \ {LastOf(list)}) \cup {t}
          /\ saved' = NewState(t)
          /\ Goto("addpushed") /\ UNCHANGED halted
       \/ /\ LastOf(list) \notin last
          /\ halted' = "assert"
          /\ UNCHANGED <<list, last, saved, rip, where>>
    /\ UNCHANGED <<cur, marked, running, isr, locks>>
AddUnlock ==
    /\ At("addpushed") /\ Goto("addon")
    /\ sched_m' = NoOne
    /\ UNCHANGED <<queue, running, isr, vmm_m, pmm_mutex, halted>>
AddOn ==
    /\ At("addon") /\ Goto("work")
    /\ running' = TRUE
    /\ UNCHANGED <<queue, isr, locks, halted>>

\* sched_exit_thread, by every task but the one of kmain.
ExitLock ==
    /\ Does("exit", "exitlocked") /\ cur # Boot /\ sched_m = NoOne
    /\ sched_m' = cur
    /\ UNCHANGED <<queue, running, isr, vmm_m, pmm_mutex, halted>>
ExitOff ==
    /\ At("exitlocked") /\ Goto("exitoff")
    /\ running' = FALSE
    /\ UNCHANGED <<queue, isr, locks, halted>>
ExitMark ==
    /\ At("exitoff") /\ Goto("exitmarked")
    /\ marked' = marked \cup {cur}
    /\ UNCHANGED <<list, last, cur, saved, running, isr, locks, halted>>
ExitUnlock ==
    /\ At("exitmarked") /\ Goto("exiton")
    /\ sched_m' = NoOne
    /\ UNCHANGED <<queue, running, isr, vmm_m, pmm_mutex, halted>>
ExitOn ==
    /\ At("exiton") /\ Goto("pause")
    /\ running' = TRUE
    /\ UNCHANGED <<queue, isr, locks, halted>>

\* pause(): interrupts off, halt.  Nothing wakes the only CPU up again.
Pause ==
    /\ At("pause")
    /\ halted' = "cli; hlt"
    /\ UNCHANGED <<queue, running, rip, isr, locks, where>>

-----------------------------------------------------------------------------
(* Interrupts *)

\* The timer interrupt at the end of a quantum: sched_tick returns at once when
\* the scheduler is off, and else goes for the lock.
Timer ==
    /\ halted = "no" /\ isr = "task" /\ running
    /\ isr' = "tick"
    /\ UNCHANGED <<queue, running, rip, locks, halted, where>>

TickLockForced ==
    /\ halted = "no" /\ isr = "tick"
    /\ sched_m' = Handler /\ isr' = "switch"
    /\ UNCHANGED <<queue, running, rip, vmm_m, pmm_mutex, halted, where>>
TickLock ==
    /\ halted = "no" /\ isr = "tick" /\ sched_m = NoOne
    /\ sched_m' = Handler /\ isr' = "switch"
    /\ UNCHANGED <<queue, running, rip, vmm_m, pmm_mutex, halted, where>>

NextOfFirst(t) == list[(1 % Len(list)) + 1]
LinkOf(t) == CHOOSE i \in 1..Len(list) : list[i] = t
NextOf(t) == list[(LinkOf(t) % Len(list)) + 1]

SwitchSaveLate ==
    /\ halted = "no" /\ isr = "switch" /\ cur \notin marked
    /\ saved' = [saved EXCEPT ![NextOf(cur)] = rip]
    /\ cur' = NextOf(cur) /\ isr' = "load"
    /\ UNCHANGED <<list, last, marked, running, rip, locks, halted, where>>

\* The context of the current task is saved and the next one becomes current.
SwitchSave ==
    /\ halted = "no" /\ isr = "switch" /\ cur \notin marked
    /\ saved' = [saved EXCEPT ![cur] = rip]
    /\ cur' = NextOf(cur) /\ isr' = "load"
    /\ UNCHANGED <<list, last, marked, running, rip, locks, halted, where>>

\* LinkedList::remove, which ends in delete and so needs the heap lock.  The link
\* before the removed one does not get its flag.
remove(t) ==
    /\ vmm_m = NoOne
    /\ list' = Without(list, LinkOf(t))
    /\ last' = last \ {t}

SwitchRemoveStays ==
    /\ halted = "no" /\ isr = "switch" /\ cur \in marked
    /\ remove(cur)
    /\ isr' = "load"
    /\ UNCHANGED <<cur, marked, saved, running, rip, locks, halted, where>>
\* A task that called sched_exit_thread is taken off the list and deleted.
SwitchRemove ==
    /\ halted = "no" /\ isr = "switch" /\ cur \in marked
    /\ remove(cur)
    /\ cur' = NextOf(cur) /\ isr' = "load"
    /\ UNCHANGED <<marked, saved, running, rip, locks, halted, where>>

\* The lock is released and the context of the new task loaded.
Load ==
    /\ halted = "no" /\ isr = "load"
    /\ sched_m' = NoOne /\ rip' = saved[cur] /\ isr' = "task"
    /\ UNCHANGED <<queue, running, vmm_m, pmm_mutex, halted, where>>

\* The page fault handler, on the first write to a page of the heap, also by the
\* allocations of a launch: pmm_alloc with interrupts off.
Fault ==
    /\ Faults /\ \E label \in {"heap", "addalloc", "addpush"} : At(label)
    /\ isr' = "fault"
    /\ UNCHANGED <<queue, running, rip, locks, halted, where>>
FaultServed ==
    /\ halted = "no" /\ isr = "fault" /\ pmm_mutex = NoOne
    /\ isr' = "task"
    /\ UNCHANGED <<queue, running, rip, locks, halted, where>>

TaskStep ==
    \/ HeapLock \/ HeapUnlock \/ PmmLock \/ PmmUnlock
    \/ StartPush \/ Int41 \/ StartOn
    \/ AddLock \/ AddOff \/ AddAlloc \/ (\E t \in Tasks : push_back(t)) \/ AddUnlock \/ AddOn
    \/ ExitLock \/ ExitOff \/ ExitMark \/ ExitUnlock \/ ExitOn \/ Pause
    \/ Fault
HandlerStep == TickLock \/ SwitchSave \/ SwitchRemove \/ Load \/ FaultServed

Next == TaskStep \/ Timer \/ HandlerStep
Spec == Init /\ [][Next]_vars /\ WF_vars(TaskStep) /\ WF_vars(Timer) /\ WF_vars(HandlerStep)

-----------------------------------------------------------------------------
(* Properties *)

Labels == {"start", "int41", "started", "work", "heap", "pmm", "addlocked", "addalloc",
           "addpush", "addpushed", "addon", "exitlocked", "exitoff", "exitmarked",
           "exiton", "pause"}

\* The variables have their types.
TypeOK ==
    /\ list \in Seq(Tasks) /\ last \subseteq Tasks /\ cur \in Tasks /\ marked \subseteq Tasks
    /\ saved \in [Tasks -> Labels \cup {"none"}] /\ where \in [Tasks -> Labels]
    /\ rip \in Labels /\ running \in BOOLEAN
    /\ isr \in {"task", "tick", "switch", "load", "fault"}
    /\ sched_m \in Tasks \cup {NoOne, Handler}
    /\ vmm_m \in Tasks \cup {NoOne} /\ pmm_mutex \in Tasks \cup {NoOne}
    /\ halted \in {"no", "assert", "cli; hlt"}

\* The CPU continues every task exactly where it was interrupted.
ContextsExact ==
    /\ isr = "task" => rip = where[cur]
    /\ \A t \in Range(list) : t # cur => saved[t] = where[t]

\* sched_cpus never points to a deleted task, no task is listed twice, and the
\* task of kmain is never lost.
ListSound ==
    rip # "start" => cur \in Range(list) /\ Boot \in Range(list) /\ IsInjective(list)

Guarded == {"addlocked", "addalloc", "addpush", "addpushed", "addon",
            "exitlocked", "exitoff", "exitmarked", "exiton"}

\* No task is preempted in the scheduler's own critical sections, whether the lock
\* or only the flag protects it: sched_m belongs to the current task or to the
\* handler, all other tasks are outside, and while the scheduler is off the task
\* that switched it off is current, so that sched_add_user_process always finds it
\* on, as it asserts.
NotPreempted ==
    /\ sched_m \in {NoOne, Handler, cur}
    /\ \A t \in Tasks \ {cur} : where[t] \notin Guarded
    /\ ~running => where[cur] \in (Guarded \ {"addlocked", "exitlocked"})
                                      \cup {"start", "int41", "started"}

\* A task that called sched_exit_thread is on the CPU or gone: it is never put
\* back in the queue.
MarkedIsCurrent == marked \cap Range(list) \subseteq {cur}

\* Round robin: every listed task gets the CPU again and again.
RoundRobin ==
    \A t \in Tasks : (t \in Range(list)) ~> ((cur = t /\ isr = "task") \/ t \notin Range(list))

\* A task that called sched_exit_thread is taken off the list.
ExitedIsRemoved == \A t \in Tasks : (t \in marked) ~> (t \notin Range(list))

\* push_back finds the flag of the last link set.
TailIsLast == halted # "assert"

\* A page fault on the heap is served.
FaultsServed == (isr = "fault") ~> (isr = "task")

\* Every task that is not running is saved where it really is, and only the
\* current task waits for its removal.
ContextsRight == TypeOK /\ ContextsExact /\ MarkedIsCurrent
=============================================================================
