------------------------------- MODULE Preempt -------------------------------
(***************************************************************************)
(* preempt.h and core.c: how a reschedule reaches a CPU.  Another CPU sets *)
(* a flag of the running task and sends an interrupt unless the idle task  *)
(* polls the flag; the interrupt folds the flag into preempt_count, where  *)
(* preempt_enable sees it.  The schedule loops test the flag again.  One   *)
(* CPU, with the others as callers; the idle loop, the interrupt entry and *)
(* the return to user space are outside the tree.                          *)
(***************************************************************************)
EXTENDS Integers

CONSTANTS MaxDepth      \* bound: nesting of preempt_disable

VARIABLES
    pcpu    \* mode, from (interrupted mode), back (where the task goes after schedule), cnt and bh (preempt_count),
            \* folded (PREEMPT_NEED_RESCHED), irqs, tif and lazy (flags of curr), idleTif (of idle while not running),
            \* poll, ipi (one is on its way), calls (call queue), aged: a tick has seen the
            \* lazy flag, missed: preempt_schedule returned because interrupts were disabled

ppVars == <<pcpu>>

PreemptInit ==
    pcpu = [mode |-> "kernel", from |-> "none", back |-> "kernel", cnt |-> 0, bh |-> 0, folded |-> FALSE, irqs |-> TRUE,
            tif |-> FALSE, lazy |-> FALSE, idleTif |-> FALSE, poll |-> FALSE, ipi |-> FALSE, calls |-> FALSE, aged |-> FALSE,
            missed |-> FALSE]

IdleModes == {"idle", "cleared", "hlt", "mwait", "leave", "flushed"}
\* curr is the idle task
IsIdle(s) == s.back = "idle"
preempt_count(s) == s.cnt + s.bh
preemptible(s) == preempt_count(s) = 0 /\ s.irqs

-----------------------------------------------------------------------------
(* Callers on other CPUs                                                   *)

\* fetch_or of the flag and a test of the old polling flag
set_nr_and_not_polling(s) == [s EXCEPT !.tif = TRUE, !.ipi = @ \/ ~s.poll]

\* __resched_curr with the rq lock of this CPU; schedule_lazy: get_lazy_tif_bit
resched_curr(s, lazily) ==
    LET full == IsIdle(s) \/ ~lazily
    IN  IF s.tif \/ (~full /\ s.lazy) THEN s
        ELSE IF full THEN set_nr_and_not_polling(s) ELSE [s EXCEPT !.lazy = TRUE]

RemoteResched(lazily) == pcpu.mode # "switch" /\ pcpu' = resched_curr(pcpu, lazily)

\* It sets the flag of the idle task, which may not be running.
wake_up_idle_cpu ==
    pcpu' = IF IsIdle(pcpu) THEN set_nr_and_not_polling(pcpu) ELSE [pcpu EXCEPT !.idleTif = TRUE, !.ipi = TRUE]

wake_up_if_idle == IsIdle(pcpu) /\ pcpu' = resched_curr(pcpu, FALSE)

\* set_nr_if_polling
call_function_single_prep_ipi(s) == IF s.poll THEN [s EXCEPT !.tif = TRUE] ELSE [s EXCEPT !.ipi = TRUE]

\* A call is queued, first in its list.
QueueCall == ~pcpu.calls /\ pcpu' = call_function_single_prep_ipi([pcpu EXCEPT !.calls = TRUE])

-----------------------------------------------------------------------------
(* The task                                                                *)

\* resched_curr on this CPU
LocalResched(s) == [s EXCEPT !.tif = TRUE, !.folded = TRUE]

Schedule(s) == [s EXCEPT !.mode = "switch", !.cnt = 1]
preempt_schedule(s) == IF preemptible(s) THEN Schedule(s) ELSE [s EXCEPT !.missed = TRUE]

preempt_disable == pcpu.mode = "kernel" /\ pcpu.cnt < MaxDepth /\ pcpu' = [pcpu EXCEPT !.cnt = @ + 1]

\* preempt_count_dec_and_test: zero, with the folded bit
Dec(s) == IF preempt_count(s) = 0 /\ s.folded THEN preempt_schedule(s) ELSE s
preempt_enable == pcpu.mode = "kernel" /\ pcpu.cnt > 0 /\ pcpu' = Dec([pcpu EXCEPT !.cnt = @ - 1])

local_irq_disable == pcpu.mode = "kernel" /\ pcpu.irqs /\ pcpu' = [pcpu EXCEPT !.irqs = FALSE]
local_irq_enable == pcpu.mode = "kernel" /\ ~pcpu.irqs /\ pcpu' = [pcpu EXCEPT !.irqs = TRUE]

local_bh_disable == pcpu.mode = "kernel" /\ pcpu.bh = 0 /\ pcpu' = [pcpu EXCEPT !.bh = 1]
\* It ends with preempt_check_resched.
local_bh_enable == pcpu.mode = "kernel" /\ pcpu.bh = 1 /\ pcpu.irqs /\ pcpu' = Dec([pcpu EXCEPT !.bh = 0])

\* The task wakes another one here: rq_lock_irqsave, and the unlock enables interrupts before preemption.
WakeHere == pcpu.mode = "kernel" /\ pcpu.irqs /\ pcpu' = Dec(LocalResched(pcpu))

schedule == pcpu.mode = "kernel" /\ preemptible(pcpu) /\ pcpu' = Schedule(pcpu)

ReturnToUser ==
    /\ pcpu.mode = "kernel" /\ preemptible(pcpu)
    /\ pcpu' = IF pcpu.tif \/ pcpu.lazy THEN Schedule(pcpu) ELSE [pcpu EXCEPT !.mode = "user"]
Syscall == pcpu.mode = "user" /\ pcpu' = [pcpu EXCEPT !.mode = "kernel"]

\* __schedule: the flags of prev are cleared; balance callbacks may set the flag of next.  Then preemption is enabled.
__schedule(toIdle, again) ==
    LET s == [pcpu EXCEPT !.folded = FALSE, !.lazy = FALSE, !.aged = FALSE, !.missed = FALSE,
                          !.tif = toIdle /\ ~IsIdle(pcpu) /\ pcpu.idleTif,
                          !.idleTif = ~toIdle /\ ~IsIdle(pcpu) /\ @,
                          !.back = IF toIdle THEN "idle" ELSE "kernel"]
    IN  /\ pcpu.mode = "switch"
        /\ pcpu' = [(IF again THEN LocalResched(s) ELSE s) EXCEPT !.mode = "loop"]

\* sched_preempt_enable_no_resched; the idle task leaves preemption disabled.
EnableNoResched == pcpu.mode = "loop" /\ pcpu' = [pcpu EXCEPT !.mode = "again", !.cnt = IF IsIdle(pcpu) THEN 1 ELSE 0]

\* while (need_resched())
LoopAgain ==
    /\ pcpu.mode = "again"
    /\ pcpu' = IF pcpu.tif THEN Schedule(pcpu) ELSE [pcpu EXCEPT !.mode = pcpu.back]

-----------------------------------------------------------------------------
(* Interrupts                                                              *)

Interrupted(s) == [s EXCEPT !.mode = "irq", !.from = s.mode]
CanInterrupt == pcpu.mode \notin {"irq", "switch", "cleared"} /\ pcpu.irqs

\* Mutant: the interrupt itself is enough.
preempt_fold_need_resched_not(s) == s

\* The call queue is flushed, and a woken task preempts the current one; scheduler_ipi folds the flag.
Flush(s) == IF s.calls THEN LocalResched([s EXCEPT !.calls = FALSE]) ELSE s
preempt_fold_need_resched(s) == [s EXCEPT !.folded = @ \/ s.tif]

Ipi == CanInterrupt /\ pcpu.ipi /\ pcpu' = preempt_fold_need_resched(Flush([Interrupted(pcpu) EXCEPT !.ipi = FALSE]))

\* sched_tick: a lazy reschedule that waited for a tick becomes a full one.
sched_tick(s) == IF s.lazy THEN LocalResched([s EXCEPT !.aged = TRUE]) ELSE s
Tick == CanInterrupt /\ pcpu' = sched_tick(Interrupted(pcpu))
DeviceIrq == CanInterrupt /\ pcpu' = LocalResched(Interrupted(pcpu))

\* preempt_schedule_irq if nothing holds preemption; an idle task that halted polls again.
IrqExit ==
    LET s == [pcpu EXCEPT !.mode = pcpu.from, !.from = "none"]
    IN  /\ pcpu.mode = "irq"
        /\ pcpu' = IF pcpu.from = "user" /\ (pcpu.tif \/ pcpu.lazy) THEN Schedule(s)
                   ELSE IF pcpu.from \in {"kernel", "again"} /\ preempt_count(pcpu) = 0 /\ pcpu.tif THEN Schedule(s)
                   ELSE IF pcpu.from \in {"hlt", "mwait"} THEN [s EXCEPT !.mode = "idle", !.poll = TRUE]
                   ELSE s

-----------------------------------------------------------------------------
(* The idle loop                                                           *)

\* While need_resched is clear, mwait on the flag, or stop polling, test again and halt.
IdlePoll ==
    /\ pcpu.mode = "idle"
    /\ \/ ~pcpu.poll /\ pcpu' = [pcpu EXCEPT !.poll = TRUE]
       \/ pcpu.poll /\ ~pcpu.tif /\ \E m \in {"mwait", "cleared"} : pcpu' = [pcpu EXCEPT !.mode = m, !.poll = m = "mwait"]
       \/ pcpu.poll /\ pcpu.tif /\ pcpu' = [pcpu EXCEPT !.mode = "leave", !.folded = TRUE, !.poll = FALSE]
IdleHalt == pcpu.mode = "cleared" /\ pcpu' = [pcpu EXCEPT !.mode = IF pcpu.tif THEN "idle" ELSE "hlt"]
MwaitEnds == pcpu.mode = "mwait" /\ pcpu.tif /\ pcpu' = [pcpu EXCEPT !.mode = "idle"]
\* flush_smp_call_function_queue, then schedule_idle
IdleLeave ==
    \/ pcpu.mode = "leave" /\ pcpu' = [Flush(pcpu) EXCEPT !.mode = "flushed"]
    \/ pcpu.mode = "flushed" /\ pcpu' = Schedule(pcpu)

PreemptNext ==
    \/ \E lazily \in BOOLEAN : RemoteResched(lazily)
    \/ wake_up_idle_cpu \/ wake_up_if_idle \/ QueueCall
    \/ preempt_disable \/ preempt_enable \/ local_irq_disable \/ local_irq_enable \/ local_bh_disable \/ local_bh_enable
    \/ WakeHere \/ schedule \/ ReturnToUser \/ Syscall
    \/ \E toIdle, again \in BOOLEAN : __schedule(toIdle, again)
    \/ EnableNoResched \/ LoopAgain
    \/ Ipi \/ Tick \/ DeviceIrq \/ IrqExit
    \/ IdlePoll \/ IdleHalt \/ MwaitEnds \/ IdleLeave

PreemptSpec == PreemptInit /\ [][PreemptNext]_ppVars

-----------------------------------------------------------------------------
(* Properties                                                              *)

\* A task does not run on with preemption enabled while a reschedule is asked for and no interrupt is on its
\* way (resched_curr, preempt_enable), and is not in user mode once sched_tick has seen its lazy flag.
Preempted ==
    /\ pcpu.mode = "kernel" /\ preemptible(pcpu) /\ pcpu.tif => pcpu.ipi \/ pcpu.missed
    /\ pcpu.mode = "user" /\ pcpu.tif => pcpu.ipi
    /\ ~(pcpu.mode = "user" /\ pcpu.aged)

\* A CPU does not sleep on a reschedule or on a queued call: an interrupt comes, or the flag that it polls is set.
Woken ==
    /\ pcpu.mode = "hlt" /\ (pcpu.tif \/ pcpu.calls) => pcpu.ipi
    /\ pcpu.mode = "mwait" /\ pcpu.calls => pcpu.tif \/ pcpu.ipi
    /\ pcpu.mode \notin IdleModes \cup {"irq"} /\ pcpu.calls => pcpu.ipi

\* preempt_count shows a reschedule only with the flag set, and is the task's own again after schedule.
CountKept ==
    /\ pcpu.folded => pcpu.tif
    /\ pcpu.mode = "switch" => pcpu.cnt = 1 /\ pcpu.bh = 0
    /\ pcpu.mode = "user" => preempt_count(pcpu) = 0 /\ pcpu.irqs

\* No reschedule is lost on its way to the CPU, whether it runs, polls or halts.
PreemptInv == Preempted /\ Woken /\ CountKept
=============================================================================
