------------------------------- MODULE Wakeup -------------------------------
(***************************************************************************)
(* core.c: __schedule against try_to_wake_up.  A task p is described by    *)
(* __state, on_rq, on_cpu and its cpu, which different locks cover:        *)
(* p->pi_lock holds off wakeups, the rq lock holds off scheduling, and     *)
(* on_cpu tells that a CPU is not done with p.  Interrupt handlers wake,   *)
(* one per CPU; a CPU that schedules or runs a handler has interrupts      *)
(* disabled.  Memory is sequentially consistent here: the barriers of the  *)
(* code are taken to do what their comments say.                           *)
(***************************************************************************)
EXTENDS Integers, FiniteSets

CONSTANTS
    WakeCpus,       \* CPUs
    WakeTasks,      \* tasks
    Sleepers,       \* those that sleep, exit and are moved; the others only run
    Idle,           \* the idle task
    Free            \* no holder of a lock

VARIABLES
    tk,     \* tk[p]: the task_struct; signals tells that p waits for a signal, which
            \* try_to_block_task tests, and not for a condition it tests itself
    cp,     \* cp[c]: struct rq, with what __schedule on c has in its locals
    wk,     \* wk[c]: the handler on c that runs try_to_wake_up
    mv,     \* the task that move_queued_task moves
    cf,     \* the caller of task_call_func
    seen    \* history: tasks wait_task_inactive found, and what they did since

wakeVars == <<tk, cp, wk, mv, cf, seen>>

None == [at |-> "idle", p |-> Idle, dst |-> Free]

Init ==
    /\ tk \in [WakeTasks -> {[state |-> "RUNNING", on_rq |-> "QUEUED", on_cpu |-> FALSE, cpu |-> c, pi_lock |-> Free,
                              delayed |-> FALSE, cond |-> FALSE, at |-> "work", drops |-> 0,
                              signals |-> s] : c \in WakeCpus, s \in BOOLEAN}]
    /\ \A p \in WakeTasks \ Sleepers : ~tk[p].signals
    /\ cp = [c \in WakeCpus |->
                [curr |-> Idle, queue |-> {p \in WakeTasks : tk[p].cpu = c}, lock |-> Free, wake_list |-> {},
                 resched |-> TRUE, at |-> "run", preempt |-> FALSE, prev |-> Idle, prev_state |-> "RUNNING", warn |-> FALSE]]
    /\ wk = [c \in WakeCpus |-> None] /\ mv = None /\ cf = None
    /\ seen = [p \in WakeTasks |-> [found |-> FALSE, ran |-> FALSE, switched |-> FALSE]]

InTask(c) == cp[c].at = "run" /\ wk[c].at = "idle" /\ cp[c].curr # Idle
Running(c) == cp[c].curr

-----------------------------------------------------------------------------
(* The wait loop quoted above ttwu_runnable, and do_task_dead              *)

set_current_state(c) == LET p == Running(c) IN
    /\ InTask(c) /\ p \in Sleepers /\ tk[p].at = "work"
    /\ tk' = [tk EXCEPT ![p].state = "SLEEPING", ![p].at = IF tk[p].signals THEN "schedule" ELSE "check"]
    /\ UNCHANGED <<cp, wk, mv, cf, seen>>

CheckCondition(c) == LET p == Running(c) IN
    /\ InTask(c) /\ tk[p].at = "check"
    /\ tk' = IF tk[p].cond THEN [tk EXCEPT ![p].cond = FALSE, ![p].state = "RUNNING", ![p].at = "work"]
             ELSE [tk EXCEPT ![p].at = "schedule"]
    /\ UNCHANGED <<cp, wk, mv, cf, seen>>

\* set_special_state is under pi_lock, with interrupts off, so that no wakeup that saw
\* an earlier state overwrites TASK_DEAD.
do_task_dead(c) == LET p == Running(c) IN
    /\ InTask(c) /\ p \in Sleepers /\ tk[p].at = "work" /\ tk[p].pi_lock = Free
    /\ tk' = [tk EXCEPT ![p].state = "DEAD", ![p].at = "dying"]
    /\ UNCHANGED <<cp, wk, mv, cf, seen>>

\* schedule() returned.
Return(c) == LET p == Running(c) IN
    /\ InTask(c) /\ tk[p].at = "return"
    /\ tk' = [tk EXCEPT ![p].at = "work", ![p].cond = @ /\ ~tk[p].signals]
    /\ UNCHANGED <<cp, wk, mv, cf, seen>>

-----------------------------------------------------------------------------
(* __schedule on c                                                         *)

\* Interrupts go off, the rq is locked, the state of prev is read once.  do_exit has
\* preemption disabled when it calls do_task_dead.
Enter(c, preempt) == LET p == cp[c].curr IN
    /\ cp[c].at = "run" /\ wk[c].at = "idle" /\ cp[c].lock = Free
    /\ IF p = Idle \/ preempt THEN cp[c].resched /\ (p # Idle => tk[p].at # "dying") ELSE tk[p].at \in {"schedule", "dying"}
    /\ cp' = [cp EXCEPT ![c].lock = c, ![c].at = "block", ![c].prev = p, ![c].preempt = preempt,
                        ![c].prev_state = IF p = Idle THEN "RUNNING" ELSE tk[p].state]
    /\ UNCHANGED <<tk, wk, mv, cf, seen>>

\* signal_pending_state, under the rq lock
Signalled(p) == tk[p].signals /\ tk[p].cond /\ tk[p].state # "DEAD"

\* dequeue_task with DEQUEUE_SLEEP and __block_task: the fair class may keep the task
\* queued (sched_delayed), except in a special state.
block_task(p, special) ==
    {[tk EXCEPT ![p].on_rq = "NO"]} \cup (IF special THEN {} ELSE {[tk EXCEPT ![p].delayed = TRUE]})

\* The tasks, after it
try_to_block_task(p, prev_state) ==
    IF Signalled(p) THEN {[tk EXCEPT ![p].state = "RUNNING"]} ELSE block_task(p, prev_state = "DEAD")

\* pick_next_task and context_switch up to the switch.  Picking a delayed task dequeues
\* it, and the pick goes on; the idle task runs when nothing is left.
Block(c) == LET p == cp[c].prev  blocks == p # Idle /\ ~cp[c].preempt /\ cp[c].prev_state # "RUNNING" IN
    /\ cp[c].at = "block"
    /\ \E t \in IF blocks THEN try_to_block_task(p, cp[c].prev_state) ELSE {tk} :
       LET left == {q \in cp[c].queue : t[q].on_rq = "QUEUED"}
           late == {q \in left : t[q].delayed}
       IN \E gone \in SUBSET late, n \in (left \ late) \cup (IF left = late THEN {Idle} ELSE {}) :
          /\ n = Idle => gone = late
          /\ tk' = [q \in WakeTasks |->
                      [t[q] EXCEPT !.on_rq = IF q \in gone THEN "NO" ELSE @,
                                   !.delayed = @ /\ q \notin gone,
                                   !.on_cpu = @ \/ q = n,
                                   !.at = IF q # p \/ cp[c].preempt THEN @ ELSE IF @ = "dying" THEN "dead" ELSE "return"]]
          /\ cp' = [cp EXCEPT ![c].queue = left \ gone, ![c].curr = n, ![c].resched = FALSE,
                              ![c].at = IF n = p THEN "run" ELSE "switch", ![c].lock = IF n = p THEN Free ELSE @]
          /\ seen' = [q \in WakeTasks |->
                      [seen[q] EXCEPT !.ran = @ \/ (seen[q].found /\ q = n),
                                      !.switched = @ \/ (seen[q].found /\ q = p /\ n # p /\ blocks)]]
    /\ UNCHANGED <<wk, mv, cf>>

\* finish_task_switch: prev->__state is read before on_cpu is cleared, ...
FinishRead(c) == LET p == cp[c].prev IN
    /\ cp[c].at = "switch"
    /\ cp' = [cp EXCEPT ![c].at = "finish", ![c].prev_state = IF p = Idle THEN "RUNNING" ELSE tk[p].state]
    /\ UNCHANGED <<tk, wk, mv, cf, seen>>

\* ... finish_task and finish_lock_switch, after which interrupts are on, ...
finish_task(c) == LET p == cp[c].prev IN
    /\ cp[c].at = "finish"
    /\ tk' = IF p = Idle THEN tk ELSE [tk EXCEPT ![p].on_cpu = FALSE]
    /\ cp' = [cp EXCEPT ![c].at = "drop", ![c].lock = Free]
    /\ UNCHANGED <<wk, mv, cf, seen>>

\* ... and the reference of a task that was dead is dropped.
Drop(c) == LET p == cp[c].prev IN
    /\ cp[c].at = "drop" /\ wk[c].at = "idle"
    /\ tk' = IF cp[c].prev_state = "DEAD" THEN [tk EXCEPT ![p].drops = @ + 1] ELSE tk
    /\ cp' = [cp EXCEPT ![c].at = "run", ![c].prev = Idle, ![c].prev_state = "RUNNING"]
    /\ UNCHANGED <<wk, mv, cf, seen>>

__schedule(c) ==
    \/ \E preempt \in BOOLEAN : Enter(c, preempt)
    \/ Block(c) \/ FinishRead(c) \/ finish_task(c) \/ Drop(c)

-----------------------------------------------------------------------------
(* try_to_wake_up in a handler on c; holder w of the locks                 *)

Goto(c, label) == wk' = [wk EXCEPT ![c].at = label]
Handler(c) == <<"handler", c>>
pi_unlock(t, p) == [t EXCEPT ![p].pi_lock = Free]

\* The caller makes the condition true, or sends the signal, then calls.  A task that is
\* current here is not locked: schedule() cannot be under way.
StartWake(c, p) ==
    /\ cp[c].at \in {"run", "drop"} /\ wk[c].at = "idle" /\ tk[p].state # "DEAD"
    /\ IF p = cp[c].curr
       THEN /\ tk' = [tk EXCEPT ![p].cond = TRUE, ![p].state = IF @ = "SLEEPING" THEN "RUNNING" ELSE @]
            /\ cp' = [cp EXCEPT ![c].warn = @ \/ tk[p].delayed]
            /\ UNCHANGED wk
       ELSE /\ tk' = [tk EXCEPT ![p].cond = TRUE]
            /\ wk' = [wk EXCEPT ![c] = [at |-> "lock", p |-> p, dst |-> Free]]
            /\ UNCHANGED cp
    /\ UNCHANGED <<mv, cf, seen>>

\* pi_lock, and ttwu_state_match
ttwu_state_match(c) == LET p == wk[c].p IN
    /\ wk[c].at = "lock" /\ tk[p].pi_lock = Free
    /\ IF tk[p].state = "SLEEPING"
       THEN tk' = [tk EXCEPT ![p].pi_lock = Handler(c)] /\ Goto(c, "on_rq")
       ELSE UNCHANGED tk /\ wk' = [wk EXCEPT ![c] = None]
    /\ UNCHANGED <<cp, mv, cf, seen>>

ReadOnRq(c) == LET p == wk[c].p IN
    /\ wk[c].at = "on_rq"
    /\ Goto(c, IF tk[p].on_rq # "NO" THEN "runnable" ELSE "waking")
    /\ UNCHANGED <<tk, cp, mv, cf, seen>>

\* wakeup_preempt may set TIF_NEED_RESCHED; it does on an idle CPU.
Resched(d) == IF cp[d].curr = Idle THEN {TRUE} ELSE {TRUE, cp[d].resched}

\* __task_rq_lock spins while the task moves.
ttwu_runnable(c) == LET p == wk[c].p  d == tk[p].cpu IN
    /\ wk[c].at = "runnable" /\ cp[d].lock = Free /\ tk[p].on_rq # "MIGRATING"
    /\ IF tk[p].on_rq = "QUEUED"
       THEN /\ tk' = pi_unlock([tk EXCEPT ![p].delayed = FALSE, ![p].state = "RUNNING"], p)
            /\ \E r \in IF tk[p].on_cpu THEN {cp[d].resched} ELSE Resched(d) : cp' = [cp EXCEPT ![d].resched = r]
            /\ wk' = [wk EXCEPT ![c] = None]
       ELSE UNCHANGED <<tk, cp>> /\ Goto(c, "waking")
    /\ UNCHANGED <<mv, cf, seen>>

SetWaking(c) == LET p == wk[c].p IN
    /\ wk[c].at = "waking"
    /\ tk' = [tk EXCEPT ![p].state = "WAKING"] /\ Goto(c, "on_cpu")
    /\ UNCHANGED <<cp, mv, cf, seen>>

\* ttwu_queue_wakelist, which the features and the topology may decide either way
\* unless d is this CPU
Wakelist(c, p, d) ==
    /\ c # d
    /\ cp' = [cp EXCEPT ![d].wake_list = @ \cup {p}]
    /\ tk' = pi_unlock(tk, p)
    /\ wk' = [wk EXCEPT ![c] = None]

\* Still on_cpu: leave p to the CPU that is about to be done with it, or wait.
ReadOnCpu(c) == LET p == wk[c].p IN
    /\ wk[c].at = "on_cpu"
    /\ \/ tk[p].on_cpu /\ Wakelist(c, p, tk[p].cpu)
       \/ Goto(c, "wait") /\ UNCHANGED <<tk, cp>>
    /\ UNCHANGED <<mv, cf, seen>>

\* Mutant: the CPU that p left is not waited for.
SelectAtOnce(c, d) == LET p == wk[c].p IN
    /\ wk[c].at = "wait"
    /\ tk' = [tk EXCEPT ![p].cpu = d]
    /\ wk' = [wk EXCEPT ![c].at = "queue", ![c].dst = d]
    /\ UNCHANGED <<cp, mv, cf, seen>>

\* smp_cond_load_acquire(&p->on_cpu, !VAL), select_task_rq, set_task_cpu
Select(c, d) == LET p == wk[c].p IN
    /\ wk[c].at = "wait" /\ ~tk[p].on_cpu
    /\ tk' = [tk EXCEPT ![p].cpu = d]
    /\ wk' = [wk EXCEPT ![c].at = "queue", ![c].dst = d]
    /\ UNCHANGED <<cp, mv, cf, seen>>

\* ttwu_do_activate of the tasks ps on d
Activated(ps) == [p \in WakeTasks |-> IF p \in ps THEN [tk[p] EXCEPT !.on_rq = "QUEUED", !.state = "RUNNING"] ELSE tk[p]]

ttwu_queue(c) == LET p == wk[c].p  d == wk[c].dst IN
    /\ wk[c].at = "queue"
    /\ \/ Wakelist(c, p, d)
       \/ /\ cp[d].lock = Free
          /\ tk' = pi_unlock(Activated({p}), p)
          /\ \E r \in Resched(d) : cp' = [cp EXCEPT ![d].queue = @ \cup {p}, ![d].resched = r,
                                                   ![d].warn = @ \/ \E e \in WakeCpus : p \in cp[e].queue]
          /\ wk' = [wk EXCEPT ![c] = None]
    /\ UNCHANGED <<mv, cf, seen>>

\* The IPI, with both warnings
sched_ttwu_pending(c) == LET ps == cp[c].wake_list IN
    /\ ps # {} /\ cp[c].at \in {"run", "drop"} /\ wk[c].at = "idle" /\ cp[c].lock = Free
    /\ tk' = Activated(ps)
    /\ \E r \in Resched(c) :
         cp' = [cp EXCEPT ![c].queue = @ \cup ps, ![c].wake_list = {}, ![c].resched = r,
                          ![c].warn = @ \/ \E p \in ps : tk[p].on_cpu \/ tk[p].cpu # c \/ \E e \in WakeCpus : p \in cp[e].queue]
    /\ UNCHANGED <<wk, mv, cf, seen>>

try_to_wake_up(c) ==
    \/ \E p \in Sleepers : StartWake(c, p)
    \/ ttwu_state_match(c) \/ ReadOnRq(c) \/ ttwu_runnable(c) \/ SetWaking(c) \/ ReadOnCpu(c)
    \/ (\E d \in WakeCpus : Select(c, d)) \/ ttwu_queue(c)

-----------------------------------------------------------------------------
(* move_queued_task: p is in neither queue while neither rq is locked      *)

Detach(p, d) == LET c == tk[p].cpu IN
    /\ mv = None /\ c # d /\ cp[c].lock = Free /\ tk[p].on_rq = "QUEUED" /\ ~tk[p].on_cpu
    /\ tk' = [tk EXCEPT ![p].on_rq = "MIGRATING", ![p].cpu = d]
    /\ cp' = [cp EXCEPT ![c].queue = @ \ {p}]
    /\ mv' = [at |-> "moving", p |-> p, dst |-> d]
    /\ UNCHANGED <<wk, cf, seen>>

Attach == LET p == mv.p  d == mv.dst IN
    /\ mv # None /\ cp[d].lock = Free
    /\ tk' = [tk EXCEPT ![p].on_rq = "QUEUED"]
    /\ \E r \in Resched(d) : cp' = [cp EXCEPT ![d].queue = @ \cup {p}, ![d].resched = r, ![d].warn = @ \/ tk[p].cpu # d]
    /\ mv' = None
    /\ UNCHANGED <<wk, cf, seen>>

-----------------------------------------------------------------------------
(* task_call_func, and wait_task_inactive                                  *)

\* The caller, which holds pi_lock from Call to EndCall
Call(p) ==
    /\ cf = None /\ tk[p].pi_lock = Free
    /\ tk' = [tk EXCEPT ![p].pi_lock = "call"]
    /\ cf' = [at |-> "state", p |-> p, dst |-> Free]
    /\ UNCHANGED <<cp, wk, mv, seen>>

\* __task_needs_rq_lock: the state, ...
NeedsState == LET p == cf.p IN
    /\ cf.at = "state"
    /\ cf' = [cf EXCEPT !.at = IF tk[p].state \in {"RUNNING", "WAKING"} THEN "rq" ELSE "on_rq"]
    /\ UNCHANGED <<tk, cp, wk, mv, seen>>

\* ... then on_rq, then on_cpu
NeedsOnRq == LET p == cf.p IN
    /\ cf.at = "on_rq"
    /\ cf' = [cf EXCEPT !.at = IF tk[p].on_rq # "NO" THEN "rq" ELSE "on_cpu"]
    /\ UNCHANGED <<tk, cp, wk, mv, seen>>

NeedsOnCpu ==
    /\ cf.at = "on_cpu" /\ ~tk[cf.p].on_cpu
    /\ cf' = [cf EXCEPT !.at = "func"]
    /\ UNCHANGED <<tk, cp, wk, mv, seen>>

CallLocked == LET p == cf.p  d == tk[p].cpu IN
    /\ cf.at = "rq" /\ cp[d].lock = Free /\ tk[p].on_rq # "MIGRATING"
    /\ cf' = [cf EXCEPT !.at = "func", !.dst = d]
    /\ cp' = [cp EXCEPT ![d].lock = "call"]
    /\ UNCHANGED <<tk, wk, mv, seen>>

EndCall ==
    /\ cf.at = "func"
    /\ tk' = pi_unlock(tk, cf.p)
    /\ cp' = IF cf.dst = Free THEN cp ELSE [cp EXCEPT ![cf.dst].lock = Free]
    /\ cf' = None
    /\ UNCHANGED <<wk, mv, seen>>

task_call_func == (\E p \in Sleepers : Call(p)) \/ NeedsState \/ NeedsOnRq \/ NeedsOnCpu \/ CallLocked \/ EndCall

\* The part under task_rq_lock: a delayed task is dequeued; the call succeeds for a task
\* that sleeps and is neither running nor queued.
Inactive(p, t) == t[p].state = "SLEEPING" /\ ~t[p].on_cpu /\ t[p].on_rq = "NO"

wait_task_inactive(p) == LET d == tk[p].cpu IN
    /\ tk[p].pi_lock = Free /\ cp[d].lock = Free /\ tk[p].on_rq # "MIGRATING"
    /\ LET t == IF tk[p].delayed THEN [tk EXCEPT ![p].delayed = FALSE, ![p].on_rq = "NO"] ELSE tk
       IN /\ tk' = t
          /\ cp' = [cp EXCEPT ![d].queue = {q \in @ : t[q].on_rq = "QUEUED"}]
          /\ seen' = IF Inactive(p, t) THEN [seen EXCEPT ![p] = [found |-> TRUE, ran |-> FALSE, switched |-> FALSE]] ELSE seen
    /\ UNCHANGED <<wk, mv, cf>>

-----------------------------------------------------------------------------
InTaskStep(c) == set_current_state(c) \/ CheckCondition(c) \/ do_task_dead(c) \/ Return(c)

Next ==
    \/ \E c \in WakeCpus : InTaskStep(c) \/ __schedule(c) \/ try_to_wake_up(c) \/ sched_ttwu_pending(c)
    \/ \E p \in Sleepers, d \in WakeCpus : Detach(p, d)
    \/ Attach \/ task_call_func
    \/ \E p \in Sleepers : wait_task_inactive(p)

-----------------------------------------------------------------------------
\* A task is on one CPU at a time: it is queued on the one it says, runs on one, and no
\* CPU queues or runs it while another is not done with it; none of the warnings fires.
OneCpu ==
    /\ \A c \in WakeCpus :
         /\ ~cp[c].warn
         /\ \A p \in cp[c].queue : tk[p].cpu = c /\ tk[p].on_rq = "QUEUED"
         /\ cp[c].curr # Idle => tk[cp[c].curr].on_cpu
    /\ \A p \in WakeTasks :
         /\ tk[p].on_rq = "QUEUED" => p \in cp[tk[p].cpu].queue
         /\ Cardinality({c \in WakeCpus : cp[c].curr = p \/ (cp[c].at \in {"switch", "finish"} /\ cp[c].prev = p)})
              = IF tk[p].on_cpu THEN 1 ELSE 0

\* No wakeup is lost: a task that sleeps off the queue while its condition holds has a
\* wakeup on the way.
NoLostWakeup ==
    \A p \in WakeTasks :
      tk[p].state = "SLEEPING" /\ (tk[p].on_rq = "NO" \/ tk[p].delayed) /\ tk[p].cond =>
        \E c \in WakeCpus : wk[c].at # "idle" /\ wk[c].p = p

\* A task that set TASK_DEAD is never seen in another state, never runs after its last
\* schedule(), and its reference is dropped once.
DeadOnce ==
    \A p \in WakeTasks :
      /\ tk[p].at \in {"dying", "dead"} => tk[p].state = "DEAD"
      /\ tk[p].at = "dead" => \A c \in WakeCpus : cp[c].at = "run" => cp[c].curr # p
      /\ tk[p].drops <= IF tk[p].at = "dead" /\ ~tk[p].on_cpu THEN 1 ELSE 0

\* "At this point the task is pinned": while task_call_func runs its function, the task
\* is on the locked rq, or is blocked and no CPU still uses it.
Pinned ==
    cf.at = "func" =>
      LET p == cf.p IN
      IF cf.dst # Free THEN tk[p].cpu = cf.dst /\ cp[cf.dst].lock = "call" /\ tk[p].on_rq # "MIGRATING"
      ELSE tk[p].state \in {"SLEEPING", "DEAD"} /\ tk[p].on_rq = "NO" /\ ~tk[p].on_cpu

\* "If a second call a short while later returns the same number, the caller can be sure
\* that @p has remained unscheduled the whole time."
Unscheduled ==
    \A p \in WakeTasks : seen[p].found /\ Inactive(p, tk) /\ ~seen[p].switched => ~seen[p].ran

\* try_to_wake_up against __schedule: no task on two CPUs, no wakeup lost, a dead
\* task dropped once, and what task_call_func and wait_task_inactive see stays true.
WakeupInv == OneCpu /\ NoLostWakeup /\ DeadOnce /\ Pinned /\ Unscheduled

Spec == Init /\ [][Next]_wakeVars
=============================================================================
