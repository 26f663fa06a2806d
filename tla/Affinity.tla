------------------------------ MODULE Affinity ------------------------------
(***************************************************************************)
(* core.c: changes of a task's CPU affinity.  Other tasks (callers) change *)
(* cpus_mask and wait until the task is somewhere it may be.  The CPU      *)
(* stopper moves it when it runs, and migrate_disable makes them wait for  *)
(* migrate_enable.  What is under p->pi_lock and the rq lock is one step;  *)
(* the stop works and the completions come after the unlock.  Every CPU is *)
(* active here (Hotplug has the others).                                   *)
(***************************************************************************)
EXTENDS Integers, FiniteSets

CONSTANTS
    AffCpus,    \* CPUs
    Callers,    \* tasks that call set_cpus_allowed_ptr or sched_setaffinity for p
    NoCaller    \* NULL, for a pointer to a caller's my_pending

VARIABLES
    p,          \* the task: cpu, on, cpus_mask, pinned (cpus_ptr is not &cpus_mask), user_cpus_ptr, migration_pending;
                \* history: a warning fired (warn), migration_cpu_stop took it for moved (fooled)
    pend,       \* pend[x]: my_pending on the stack of caller x
    call,       \* call[x]: where x is, with its locals pending and cpu
    stops,      \* stops[c]: stop works queued on c, each the pending it is part of
    stopper,    \* stopper[c]: the pending that migration_cpu_stop on c chases after
    completing  \* the pendings that somebody is about to complete_all

affVars == <<p, pend, call, stops, stopper, completing>>

Masks == SUBSET AffCpus \ {{}}

Init ==
    /\ p \in [cpu: AffCpus, on: {"running", "blocked"}, mask: {AffCpus}, user: {AffCpus}, disabled: {FALSE}, pinned: {FALSE},
              enabling: {"no"}, pending: {NoCaller}, warn: {FALSE},
              fooled: {FALSE}]
    /\ pend = [x \in Callers |-> [refs |-> 0, stop_pending |-> FALSE, done |-> FALSE, dest |-> 0]]
    /\ call = [x \in Callers |-> [at |-> "idle", pending |-> NoCaller, cpu |-> 0]]
    /\ stops = [c \in AffCpus |-> {}]
    /\ stopper = [c \in AffCpus |-> NoCaller]
    /\ completing = {}

\* *p->cpus_ptr
Allowed(t) == IF t.pinned THEN {t.cpu} ELSE t.mask

-----------------------------------------------------------------------------
(* The task is scheduled, blocks, is woken and balanced                    *)

\* cpus_ptr is set apart when the task first leaves its CPU.
migrate_disable_switch(t) == [t EXCEPT !.pinned = t.disabled]

Preemptible == p.on = "running" /\ p.enabling = "no"

SwitchOut(to) ==
    /\ Preemptible
    /\ p' = [migrate_disable_switch(p) EXCEPT !.on = to]
    /\ UNCHANGED <<pend, call, stops, stopper, completing>>

SwitchIn ==
    /\ p.on = "queued" /\ stopper[p.cpu] = NoCaller
    /\ p' = [p EXCEPT !.on = "running"]
    /\ UNCHANGED <<pend, call, stops, stopper, completing>>

\* try_to_wake_up: select_task_rq under pi_lock, then the wake list of that CPU
WakeUp(d) ==
    /\ p.on = "blocked" /\ d \in Allowed(p)
    /\ p' = [p EXCEPT !.cpu = d, !.on = "waking"]
    /\ UNCHANGED <<pend, call, stops, stopper, completing>>

sched_ttwu_pending ==
    /\ p.on = "waking"
    /\ p' = [p EXCEPT !.on = "queued"]
    /\ UNCHANGED <<pend, call, stops, stopper, completing>>

Balance(d) ==
    /\ p.on = "queued" /\ ~p.disabled /\ d \in Allowed(p) \ {p.cpu}
    /\ p' = [p EXCEPT !.cpu = d]
    /\ UNCHANGED <<pend, call, stops, stopper, completing>>

migrate_disable ==
    /\ Preemptible /\ ~p.disabled
    /\ p' = [p EXCEPT !.disabled = TRUE]
    /\ UNCHANGED <<pend, call, stops, stopper, completing>>

-----------------------------------------------------------------------------
(* migrate_enable: preemption is disabled until migration_disabled is 0.   *)
(* ___migrate_enable sets cpus_ptr back (SCA_MIGRATE_ENABLE).              *)

___migrate_enable == LET x == p.pending  stop == p.pinned /\ p.cpu \notin p.mask IN
    /\ Preemptible /\ p.disabled
    /\ LET done == p.pinned /\ ~stop /\ x # NoCaller /\ ~pend[x].stop_pending
       IN /\ p' = [p EXCEPT !.pinned = FALSE, !.pending = IF done THEN NoCaller ELSE @,
                            !.warn = @ \/ (stop /\ x = NoCaller /\ ~p.fooled),
                            !.enabling = IF stop /\ x # NoCaller /\ ~pend[x].stop_pending THEN "stop" ELSE "clear"]
          /\ completing' = completing \cup IF done THEN {x} ELSE {}
          /\ pend' = IF stop /\ x # NoCaller THEN [pend EXCEPT ![x].stop_pending = TRUE] ELSE pend
    /\ UNCHANGED <<call, stops, stopper>>

EnableStops ==
    /\ p.enabling = "stop"
    /\ stops' = [stops EXCEPT ![p.cpu] = @ \cup {p.pending}]
    /\ p' = [p EXCEPT !.enabling = "clear", !.warn = @ \/ \E c \in AffCpus : p.pending \in stops[c]]
    /\ UNCHANGED <<pend, call, stopper, completing>>

Enabled ==
    /\ p.enabling = "clear"
    /\ p' = [p EXCEPT !.enabling = "no", !.disabled = FALSE]
    /\ UNCHANGED <<pend, call, stops, stopper, completing>>

-----------------------------------------------------------------------------
(* __set_cpus_allowed_ptr and affine_move_task by caller x                 *)

\* The mask is narrowed to user_cpus_ptr unless the call comes from the user.
Narrowed(m, user) == IF user \/ m \cap p.user = {} THEN m ELSE m \cap p.user

\* The task may stay where it is.  Waiters whose stop work is not queued are done.
StayPut(x, t) == LET y == t.pending  done == y # NoCaller /\ ~pend[y].stop_pending IN
    /\ p' = [t EXCEPT !.pending = IF done THEN NoCaller ELSE @]
    /\ completing' = completing \cup IF done THEN {y} ELSE {}
    /\ UNCHANGED <<pend, call>>

\* The first caller installs its pending, later ones join it with a new destination.
Install(x, t, dest) ==
    IF t.pending = NoCaller
    THEN [pend EXCEPT ![x] = [refs |-> 1, stop_pending |-> FALSE, done |-> FALSE, dest |-> dest]]
    ELSE [pend EXCEPT ![t.pending].refs = @ + 1, ![t.pending].dest = dest]

\* The task must move: the stopper moves one that runs or is being woken; one that does
\* not run is moved here, unless it has disabled migration.
Move(x, t, dest) ==
    LET y == IF t.pending = NoCaller THEN x ELSE t.pending
        b == Install(x, t, dest)
        stop == t.on \in {"running", "waking"}
        done == ~stop /\ ~t.disabled /\ ~b[y].stop_pending
    IN  /\ pend' = IF stop THEN [b EXCEPT ![y].stop_pending = TRUE] ELSE b
        /\ call' = [call EXCEPT ![x] = [at |-> IF stop /\ ~b[y].stop_pending THEN "stop" ELSE "wait", pending |-> y, cpu |-> t.cpu]]
        /\ p' = [t EXCEPT !.pending = IF done THEN NoCaller ELSE y,
                          !.cpu = IF t.on = "queued" /\ ~t.disabled THEN dest ELSE @]
        /\ completing' = completing \cup IF done THEN {y} ELSE {}

__set_cpus_allowed_ptr(x, m, user) == LET new == Narrowed(m, user)  t == [p EXCEPT !.user = IF user THEN m ELSE @] IN
    /\ call[x].at = "idle"
    /\ IF new = p.mask THEN p' = t /\ UNCHANGED <<pend, call, completing>>
       ELSE \E dest \in new :
              LET u == [t EXCEPT !.mask = new, !.fooled = FALSE] IN IF p.cpu \in new THEN StayPut(x, u) ELSE Move(x, u, dest)
    /\ UNCHANGED <<stops, stopper>>

\* After the unlock: stop_one_cpu_nowait
QueueStop(x) == LET y == call[x].pending IN
    /\ call[x].at = "stop"
    /\ stops' = [stops EXCEPT ![call[x].cpu] = @ \cup {y}]
    /\ call' = [call EXCEPT ![x].at = "wait"]
    /\ p' = [p EXCEPT !.warn = @ \/ \E c \in AffCpus : y \in stops[c]]
    /\ UNCHANGED <<pend, stopper, completing>>

complete_all(x) ==
    /\ x \in completing
    /\ pend' = [pend EXCEPT ![x].done = TRUE]
    /\ completing' = completing \ {x}
    /\ UNCHANGED <<p, call, stops, stopper>>

\* wait_for_completion, and the reference is given back
Completed(x) == LET y == call[x].pending IN
    /\ call[x].at = "wait" /\ pend[y].done
    /\ pend' = [pend EXCEPT ![y].refs = @ - 1]
    /\ call' = [call EXCEPT ![x].at = "drain"]
    /\ UNCHANGED <<p, stops, stopper, completing>>

\* Mutant: the owner does not wait for the callers that use its pending.
ReturnAtOnce(x) ==
    /\ call[x].at = "drain"
    /\ p' = [p EXCEPT !.warn = @ \/ pend[x].stop_pending]
    /\ pend' = [pend EXCEPT ![x] = [refs |-> 0, stop_pending |-> FALSE, done |-> FALSE, dest |-> 0]]
    /\ call' = [call EXCEPT ![x] = [at |-> "idle", pending |-> NoCaller, cpu |-> 0]]
    /\ UNCHANGED <<stops, stopper, completing>>

\* wait_var_event(&my_pending.refs), and the stack frame is gone
Return(x) ==
    /\ call[x].at = "drain" /\ pend[x].refs = 0
    /\ p' = [p EXCEPT !.warn = @ \/ pend[x].stop_pending]
    /\ pend' = [pend EXCEPT ![x] = [refs |-> 0, stop_pending |-> FALSE, done |-> FALSE, dest |-> 0]]
    /\ call' = [call EXCEPT ![x] = [at |-> "idle", pending |-> NoCaller, cpu |-> 0]]
    /\ UNCHANGED <<stops, stopper, completing>>

-----------------------------------------------------------------------------
(* migration_cpu_stop on c for pending x                                   *)

\* The stopper preempts the task, and first queues it if it is on the wake list of c.
Stopped(c) ==
    IF p.cpu # c THEN p
    ELSE IF p.on = "running" THEN [migrate_disable_switch(p) EXCEPT !.on = "queued"]
    ELSE IF p.on = "waking" THEN [p EXCEPT !.on = "queued"] ELSE p

\* __migrate_task does nothing when the destination is no longer allowed.
__migrate_task(t, dest) == IF t.on = "queued" /\ dest \in Allowed(t) THEN [t EXCEPT !.cpu = dest] ELSE t

\* Somewhere else, and not allowed there: chase after it.
ChaseNeeded(c, t) == t.cpu # c /\ t.cpu \notin Allowed(t)

\* Somewhere else, and allowed there only because cpus_ptr is set apart: the task moved
\* and disabled migration before the stop work came, and the mask changed since.
Fooled(c, t) == t.cpu # c /\ t.cpu \in Allowed(t) \ t.mask

migration_cpu_stop(c, x) == LET t == Stopped(c) IN
    /\ x \in stops[c] /\ stopper[c] = NoCaller
    /\ p.on = "running" /\ p.cpu = c => Preemptible
    /\ stops' = [stops EXCEPT ![c] = @ \ {x}]
    /\ IF ChaseNeeded(c, t)
       THEN /\ stopper' = [stopper EXCEPT ![c] = x]
            /\ p' = [t EXCEPT !.warn = @ \/ x # t.pending \/ ~pend[x].stop_pending]
            /\ UNCHANGED <<pend, completing>>
       ELSE LET done == t.cpu # c \/ ~t.disabled
            IN /\ pend' = [pend EXCEPT ![x].stop_pending = FALSE]
               /\ completing' = completing \cup IF done THEN {x} ELSE {}
               /\ p' = [(IF done /\ t.cpu = c /\ c \notin t.mask THEN __migrate_task(t, pend[x].dest) ELSE t)
                          EXCEPT !.pending = IF done THEN NoCaller ELSE @, !.warn = @ \/ x # t.pending,
                                 !.fooled = @ \/ Fooled(c, t)]
               /\ UNCHANGED stopper
    /\ UNCHANGED call

\* stop_one_cpu_nowait(task_cpu(p)), read after the unlock
Chase(c) == LET x == stopper[c] IN
    /\ x # NoCaller
    /\ stops' = [stops EXCEPT ![p.cpu] = @ \cup {x}]
    /\ stopper' = [stopper EXCEPT ![c] = NoCaller]
    /\ p' = [p EXCEPT !.warn = @ \/ \E d \in AffCpus : x \in stops[d]]
    /\ UNCHANGED <<pend, call, completing>>

-----------------------------------------------------------------------------
Next ==
    \/ \E to \in {"queued", "blocked"} : SwitchOut(to)
    \/ SwitchIn \/ sched_ttwu_pending \/ \E d \in AffCpus : WakeUp(d) \/ Balance(d)
    \/ migrate_disable \/ ___migrate_enable \/ EnableStops \/ Enabled
    \/ \E x \in Callers :
         \/ \E m \in Masks, user \in BOOLEAN : __set_cpus_allowed_ptr(x, m, user)
         \/ QueueStop(x) \/ complete_all(x) \/ Completed(x) \/ Return(x)
         \/ \E c \in AffCpus : migration_cpu_stop(c, x)
    \/ \E c \in AffCpus : Chase(c)

-----------------------------------------------------------------------------
\* The pendings that a stop work, a stopper or a completer still uses
InUse == UNION {stops[c] : c \in AffCpus} \cup {stopper[c] : c \in AffCpus} \cup completing \cup {p.pending}

\* None of the warnings fires, and a pending is used only while the call on whose stack
\* it is has not returned.
PendingLives == ~p.warn /\ \A x \in InUse \ {NoCaller} : call[x].at # "idle"

\* "__set_cpus_allowed_ptr() must block until the designated task is enqueued on an
\* allowed CPU": when every call has returned, the task is on a CPU of its mask, or
\* sleeps and will be placed when it is woken; or migration_cpu_stop came late, found it
\* pinned to another CPU and, since it asks cpus_ptr, completed the call all the same.
Honoured == (\A x \in Callers : call[x].at = "idle") => p.on = "blocked" \/ p.cpu \in p.mask \/ p.fooled

\* No caller waits for nothing: its completion is on the way, or a stop work is, or the
\* task has yet to leave its migrate_disable region.
NobodyForgotten ==
    \A x \in Callers : LET y == call[x].pending IN
      call[x].at = "wait" /\ ~pend[y].done =>
        \/ y \in completing
        \/ /\ p.pending = y
           /\ \/ p.disabled
              \/ \E c \in AffCpus : y \in stops[c] \/ stopper[c] = y
              \/ \E z \in Callers : call[z].at = "stop" /\ call[z].pending = y

\* affine_move_task: a set_affinity_pending outlives its users, a caller returns with
\* the mask honoured unless the stop work was late and fooled, and none waits for a
\* completion that nobody will make.
AffinityInv == PendingLives /\ Honoured /\ NobodyForgotten

Spec == Init /\ [][Next]_affVars
=============================================================================
