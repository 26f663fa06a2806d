------------------------------ MODULE Hotplug -------------------------------
(***************************************************************************)
(* core.c: CPU 1 goes down and comes back while CPU 2 stays.  Its hotplug  *)
(* thread, which runs on CPU 1, clears cpu_active, makes __schedule push   *)
(* tasks away with the balance_push callback, waits for the wakeups that   *)
(* chose CPU 1 before, and then until nothing is left.                     *)
(***************************************************************************)
EXTENDS Integers, FiniteSets

CONSTANTS
    HpTasks,    \* tasks
    PerCpu,     \* those that are per-CPU kthreads of CPU 1
    Kthreads,   \* those that are other kernel threads
    Bound,      \* user tasks whose mask is {1}
    Remotes,    \* tasks on CPU 2 that change the priority of a task of CPU 1
    Stop, Hp, IdleTask     \* the stopper, the hotplug thread and the idle task of CPU 1

VARIABLES
    th,     \* th[t]: cpu, on, mask, disabled
    rq1,    \* struct rq of CPU 1: curr, balance_callback, push_work, the hotplug thread
    hp,     \* phase of the hotplug thread, the CPU masks, hotplug_wait
    spliced \* spliced[r]: the callback list that r took off rq1

hpVars == <<th, rq1, hp, spliced>>

Init ==
    /\ th = [t \in HpTasks |-> [cpu |-> IF t \in PerCpu \cup Bound THEN 1 ELSE 2, on |-> "queued",
                                mask |-> IF t \in PerCpu \cup Bound THEN {1} ELSE {1, 2}, disabled |-> FALSE]]
    /\ rq1 = [curr |-> IdleTask, callback |-> "none", work |-> {}, hp_on |-> FALSE, warn |-> FALSE]
    /\ hp = [phase |-> "up", active |-> TRUE, dying |-> FALSE, waiting |-> FALSE, grace |-> {}]
    /\ spliced = [r \in Remotes |-> "none"]

Online == hp.phase # "down"
On1(t) == th[t].cpu = 1 /\ th[t].on \in {"queued", "running"}
Queue1 == {t \in HpTasks : On1(t)}
Pinned == {t \in HpTasks : th[t].cpu = 1 /\ th[t].disabled}

-----------------------------------------------------------------------------
(* Placement: is_cpu_allowed, select_fallback_rq, select_task_rq           *)

is_cpu_allowed(t, c, mask) ==
    /\ c \in mask
    /\ CASE c = 2 -> TRUE
         [] th[t].disabled \/ t \in PerCpu -> Online
         [] t \in Kthreads -> Online /\ ~hp.dying
         [] OTHER -> hp.active

\* A task with no CPU left gets a mask it can use (cpuset, then possible CPUs).
Fallback(t) == LET ok == {c \in {1, 2} : is_cpu_allowed(t, c, th[t].mask)} IN
    IF ok # {} THEN {[th[t] EXCEPT !.cpu = c] : c \in ok} ELSE {[th[t] EXCEPT !.cpu = 2, !.mask = {1, 2}]}

select_task_rq(t) ==
    UNION {IF is_cpu_allowed(t, c, th[t].mask) THEN {[th[t] EXCEPT !.cpu = c]} ELSE Fallback(t) :
           c \in IF th[t].disabled THEN {th[t].cpu} ELSE th[t].mask}

\* The waker has preemption disabled from here until the task is queued.
WakeUp(t) ==
    /\ th[t].on = "blocked"
    /\ \E s \in select_task_rq(t) : th' = [th EXCEPT ![t] = [s EXCEPT !.on = "waking"]]
    /\ UNCHANGED <<rq1, hp, spliced>>

Enqueue(t) ==
    /\ th[t].on = "waking"
    /\ th' = [th EXCEPT ![t].on = "queued"]
    /\ hp' = [hp EXCEPT !.grace = @ \ {t}]
    /\ rq1' = [rq1 EXCEPT !.warn = @ \/ (th[t].cpu = 1 /\ ~Online)]
    /\ UNCHANGED spliced

\* The balancer moves tasks between active CPUs; on CPU 2 a task blocks at any time.
Balance(t) ==
    /\ th[t].on = "queued" /\ ~th[t].disabled /\ th[t].mask = {1, 2} /\ hp.active
    /\ th' = [th EXCEPT ![t].cpu = 3 - @]
    /\ UNCHANGED <<rq1, hp, spliced>>

BlockOn2(t) ==
    /\ th[t].cpu = 2 /\ th[t].on = "queued"
    /\ th' = [th EXCEPT ![t].on = "blocked"]
    /\ UNCHANGED <<rq1, hp, spliced>>

-----------------------------------------------------------------------------
(* __schedule on CPU 1 and the callback at its end                         *)

\* Mutant: a callback that returns early does not install itself again.
balance_push_once(t, nr_running) ==
    IF rq1.callback = "none" \/ ~hp.dying THEN rq1' = [rq1 EXCEPT !.curr = t] /\ UNCHANGED hp
    ELSE IF t \in PerCpu \cup {Stop, Hp, IdleTask} \/ th[t].disabled
    THEN LET wake == nr_running = 0 /\ Pinned = {} /\ hp.waiting
         IN  /\ rq1' = [rq1 EXCEPT !.curr = t, !.hp_on = @ \/ wake, !.callback = "none"]
             /\ hp' = [hp EXCEPT !.waiting = @ /\ ~wake]
    ELSE /\ rq1' = [rq1 EXCEPT !.curr = t, !.work = {t}, !.warn = @ \/ rq1.work # {}]
         /\ UNCHANGED hp

\* balance_push, on CPU 1, with the task that was switched to: a per-CPU or pinned task
\* stays, and the idle task tells the hotplug thread; any other is for the stopper.
balance_push(t, nr_running) ==
    IF rq1.callback = "none" \/ ~hp.dying THEN rq1' = [rq1 EXCEPT !.curr = t] /\ UNCHANGED hp
    ELSE IF t \in PerCpu \cup {Stop, Hp, IdleTask} \/ th[t].disabled
    THEN LET wake == nr_running = 0 /\ Pinned = {} /\ hp.waiting
         IN  /\ rq1' = [rq1 EXCEPT !.curr = t, !.hp_on = @ \/ wake]
             /\ hp' = [hp EXCEPT !.waiting = @ /\ ~wake]
    ELSE /\ rq1' = [rq1 EXCEPT !.curr = t, !.work = {t}, !.warn = @ \/ rq1.work # {}]
         /\ UNCHANGED hp

\* The running task is preempted or blocks; the stopper comes first, the idle task last.
Schedule(block) ==
    /\ Online /\ (rq1.curr = Stop => rq1.work = {}) /\ (block => rq1.curr \in HpTasks)
    /\ LET prev == rq1.curr
           all == {t \in Queue1 : t # prev \/ ~block} \cup (IF rq1.hp_on THEN {Hp} ELSE {})
           picks == IF rq1.work # {} THEN {Stop} ELSE IF all = {} THEN {IdleTask} ELSE all
       IN \E n \in picks :
            /\ th' = [t \in HpTasks |->
                        IF t = prev /\ t # n THEN [th[t] EXCEPT !.on = IF @ # "running" THEN @ ELSE IF block THEN "blocked" ELSE "queued"]
                        ELSE IF t = n THEN [th[t] EXCEPT !.on = "running"] ELSE th[t]]
            /\ balance_push(n, Cardinality(all) + (IF n = Stop THEN 1 ELSE 0))
    /\ UNCHANGED spliced

\* The task is moved if it is still here.
__balance_push_cpu_stop ==
    /\ rq1.curr = Stop
    /\ \E t \in rq1.work :
         IF On1(t) THEN \E s \in Fallback(t) : th' = [th EXCEPT ![t] = s] ELSE UNCHANGED th
    /\ rq1' = [rq1 EXCEPT !.work = {}]
    /\ UNCHANGED <<hp, spliced>>

migrate_disable(t) ==
    /\ rq1.curr = t /\ t \notin PerCpu /\ ~th[t].disabled /\ rq1.work = {}
    /\ th' = [th EXCEPT ![t].disabled = TRUE]
    /\ UNCHANGED <<rq1, hp, spliced>>

migrate_enable(t) ==
    /\ rq1.curr = t /\ th[t].disabled
    /\ th' = [th EXCEPT ![t].disabled = FALSE]
    /\ UNCHANGED <<rq1, hp, spliced>>

\* A priority change by a task of CPU 2 takes the callbacks off the list under the rq
\* lock and runs them later, but leaves balance_push_callback (split).
splice_balance_callbacks(r) ==
    /\ spliced[r] = "none"
    /\ spliced' = [spliced EXCEPT ![r] = IF rq1.callback = "push" THEN "none" ELSE "class"]
    /\ UNCHANGED <<th, rq1, hp>>

balance_callbacks(r) ==
    /\ spliced[r] # "none"
    /\ spliced' = [spliced EXCEPT ![r] = "none"]
    /\ rq1' = [rq1 EXCEPT !.callback = IF spliced[r] = "push" THEN "push" ELSE @]
    /\ UNCHANGED <<th, hp>>

-----------------------------------------------------------------------------
(* The hotplug thread.  Its parts outside the scheduler (the cpuhp states, *)
(* cpu_dying, parking) are external.                                       *)

AsHp(from, to) == hp.phase = from /\ rq1.curr = Hp /\ rq1.hp_on /\ hp' = [hp EXCEPT !.phase = to]

TakeDown ==
    /\ hp.phase = "up" /\ ~rq1.hp_on
    /\ hp' = [hp EXCEPT !.phase = "take_down", !.dying = TRUE]
    /\ rq1' = [rq1 EXCEPT !.hp_on = TRUE]
    /\ UNCHANGED <<th, spliced>>

\* sched_cpu_deactivate: set_cpu_active, balance_push_set, ...
ClearActive ==
    /\ hp.phase = "take_down" /\ rq1.curr = Hp
    /\ hp' = [hp EXCEPT !.phase = "inactive", !.active = FALSE]
    /\ UNCHANGED <<th, rq1, spliced>>

balance_push_set_on ==
    /\ AsHp("inactive", "pushing")
    /\ rq1' = [rq1 EXCEPT !.callback = "push", !.warn = @ \/ rq1.callback # "none"]
    /\ UNCHANGED <<th, spliced>>

\* ... synchronize_rcu, during which the thread sleeps, ...
synchronize_rcu ==
    /\ hp.phase = "pushing" /\ rq1.curr = Hp
    /\ hp' = [hp EXCEPT !.phase = "rcu", !.grace = {t \in HpTasks : th[t].on = "waking"}]
    /\ rq1' = [rq1 EXCEPT !.hp_on = FALSE]
    /\ UNCHANGED <<th, spliced>>

GraceOver ==
    /\ hp.phase = "rcu" /\ hp.grace = {} /\ rq1.curr # Hp
    /\ hp' = [hp EXCEPT !.phase = "offline"]
    /\ rq1' = [rq1 EXCEPT !.hp_on = TRUE]
    /\ UNCHANGED <<th, spliced>>

\* ... then the per-CPU kthreads are parked, ...
Park(t) ==
    /\ hp.phase = "offline" /\ t \in PerCpu /\ rq1.curr = t
    /\ th' = [th EXCEPT ![t].on = "parked"]
    /\ UNCHANGED <<rq1, hp, spliced>>

\* ... and sched_cpu_wait_empty: balance_hotplug_wait looks, and sleeps.
WaitEmpty ==
    /\ hp.phase = "offline" /\ rq1.curr = Hp /\ rq1.hp_on /\ \A t \in PerCpu : th[t].on = "parked"
    /\ IF Queue1 = {} /\ Pinned = {}
       THEN hp' = [hp EXCEPT !.phase = "empty", !.waiting = FALSE] /\ UNCHANGED rq1
       ELSE hp' = [hp EXCEPT !.waiting = TRUE] /\ rq1' = [rq1 EXCEPT !.hp_on = FALSE]
    /\ UNCHANGED <<th, spliced>>

\* In stop_machine: "Dying CPU not properly vacated!"
sched_cpu_dying ==
    /\ AsHp("empty", "down")
    /\ rq1' = [rq1 EXCEPT !.curr = IdleTask, !.hp_on = FALSE, !.warn = @ \/ Queue1 # {} \/ Pinned # {} \/ rq1.work # {}]
    /\ UNCHANGED <<th, spliced>>

BringUp ==
    /\ hp.phase = "down"
    /\ hp' = [hp EXCEPT !.phase = "starting", !.dying = FALSE]
    /\ rq1' = [rq1 EXCEPT !.hp_on = TRUE]
    /\ UNCHANGED <<th, spliced>>

\* A later step of going down failed: the way back up.
Rollback ==
    /\ AsHp("empty", "starting")
    /\ UNCHANGED <<th, rq1, spliced>>

\* sched_cpu_activate: the callback is removed, then cpu_active is set.
balance_push_set_off ==
    /\ hp.phase = "starting" /\ rq1.curr = Hp
    /\ hp' = [hp EXCEPT !.phase = "regular", !.dying = FALSE]
    /\ rq1' = [rq1 EXCEPT !.callback = "none"]
    /\ UNCHANGED <<th, spliced>>

sched_cpu_activate ==
    /\ hp.phase = "regular" /\ rq1.curr = Hp
    /\ hp' = [hp EXCEPT !.phase = "up", !.active = TRUE]
    /\ rq1' = [rq1 EXCEPT !.hp_on = FALSE]
    /\ th' = [t \in HpTasks |-> IF th[t].on = "parked" THEN [th[t] EXCEPT !.on = "queued"] ELSE th[t]]
    /\ UNCHANGED spliced

-----------------------------------------------------------------------------
Next ==
    \/ \E t \in HpTasks :
         WakeUp(t) \/ Enqueue(t) \/ Balance(t) \/ BlockOn2(t) \/ migrate_disable(t) \/ migrate_enable(t) \/ Park(t)
    \/ \E block \in BOOLEAN : Schedule(block)
    \/ __balance_push_cpu_stop
    \/ \E r \in Remotes : splice_balance_callbacks(r) \/ balance_callbacks(r)
    \/ TakeDown \/ ClearActive \/ balance_push_set_on \/ synchronize_rcu \/ GraceOver \/ WaitEmpty \/ sched_cpu_dying
    \/ BringUp \/ Rollback \/ balance_push_set_off \/ sched_cpu_activate

-----------------------------------------------------------------------------
\* The CPU is vacated: nothing is queued on it or pinned to it when it dies, nothing is
\* queued there while it is down, and no stop work is queued twice.
Vacated == ~rq1.warn

\* The hotplug thread is not left waiting: when the CPU has gone idle with nothing
\* queued and nothing pinned, it has been woken.
HotplugWoken ==
    hp.waiting /\ rq1.curr = IdleTask => Queue1 # {} \/ Pinned # {} \/ rq1.hp_on

\* sched_cpu_deactivate to sched_cpu_dying: the CPU is empty when it dies, and
\* balance_hotplug_wait is woken.
HotplugInv == Vacated /\ HotplugWoken

Spec == Init /\ [][Next]_hpVars
=============================================================================
