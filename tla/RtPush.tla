------------------------------- MODULE RtPush -------------------------------
(***************************************************************************)
(* rt.c: which CPU an RT task waits on.  A runqueue with an RT task that   *)
(* could run elsewhere pushes it; a CPU that turns to something less       *)
(* important pulls (without RT_PUSH_IPI, which RtoPush models).  Both have *)
(* to take a second runqueue's lock and may lose their own meanwhile:      *)
(* window[c] is what a push from CPU c has found before it did.  A step is *)
(* what happens under the locks, and any step may come between two of      *)
(* them.  rp.disturbed is a history: RT_MAX_TRIES were not enough, or one  *)
(* of the changes came at which nobody pushes or pulls.                    *)
(***************************************************************************)
EXTENDS Integers, FiniteSetsExt

CONSTANTS
    RtCpus, RtTasks,
    Prio,           \* Prio[t]: smaller is more important
    MAX_PRIO,       \* the priority of the idle task
    Affinities,     \* the values of cpus_mask
    Disabling       \* tasks that call migrate_disable

VARIABLES
    rp,             \* the runqueues
    pushing,        \* CPUs whose runqueue a push_rt_tasks loop is working on
    window,         \* window[c]: <<task, lowest cpu>> of that loop, or <<>>
    pulling         \* pulling[c]: CPUs that pull_rt_task has still to look at, or {c}

pushVars == <<rp, pushing, window, pulling>>
Idle == "idle"
NotPulling(c) == {c}

Init ==
    /\ \E mask \in [RtTasks -> Affinities] : \E at \in [RtTasks -> RtCpus] :
         /\ \A t \in RtTasks : at[t] \in mask[t]
         /\ rp = [cpu |-> at, queued |-> {}, allowed |-> mask, migdis |-> {},
                  run |-> [c \in RtCpus |-> Idle], resched |-> [c \in RtCpus |-> FALSE],
                  pushable |-> [c \in RtCpus |-> {}], next |-> [c \in RtCpus |-> MAX_PRIO],
                  over |-> {}, online |-> RtCpus, rto_mask |-> {}, rto_count |-> 0,
                  disturbed |-> FALSE]
    /\ pushing = {} /\ window = [c \in RtCpus |-> <<>>] /\ pulling = [c \in RtCpus |-> NotPulling(c)]

prio(t) == IF t = Idle THEN MAX_PRIO ELSE Prio[t]
On(r, c) == {t \in r.queued : r.cpu[t] = c}
highest(r, c) == Min({Prio[t] : t \in On(r, c)} \cup {MAX_PRIO})
nr_cpus_allowed(r, t) == Cardinality(r.allowed[t])
MostImportant(set) == {t \in set : \A u \in set : Prio[t] <= Prio[u]}

-----------------------------------------------------------------------------
(* The list of pushable tasks and the overload mask                        *)

rt_set_overload(r, c) ==
    IF c \in r.online THEN [r EXCEPT !.rto_mask = @ \cup {c}, !.rto_count = @ + 1] ELSE r
rt_clear_overload(r, c) ==
    IF c \in r.online THEN [r EXCEPT !.rto_mask = @ \ {c}, !.rto_count = @ - 1] ELSE r

enqueue_pushable_task(r, t) ==
    LET c == r.cpu[t]
        s == [r EXCEPT !.pushable[c] = @ \cup {t}, !.next[c] = Min({@, Prio[t]})]
    IN  IF c \in r.over THEN s ELSE [rt_set_overload(s, c) EXCEPT !.over = @ \cup {c}]

dequeue_pushable_task(r, t) ==
    LET c == r.cpu[t]
        left == r.pushable[c] \ {t}
        s == [r EXCEPT !.pushable[c] = left, !.next[c] = Min({Prio[u] : u \in left} \cup {MAX_PRIO})]
    IN  IF left = {} /\ c \in r.over THEN [rt_clear_overload(s, c) EXCEPT !.over = @ \ {c}] ELSE s

resched_curr(r, c) == [r EXCEPT !.resched[c] = TRUE]
wakeup_preempt_rt(r, t) ==
    LET c == r.cpu[t] IN IF Prio[t] < prio(r.run[c]) THEN resched_curr(r, c) ELSE r

enqueue_task_rt(r, t, c) ==
    LET s == [r EXCEPT !.queued = @ \cup {t}, !.cpu[t] = c] IN
    IF s.run[c] # t /\ nr_cpus_allowed(s, t) > 1 THEN enqueue_pushable_task(s, t) ELSE s
dequeue_task_rt(r, t) == dequeue_pushable_task([r EXCEPT !.queued = @ \ {t}], t)

move_queued_task_locked(r, t, c) == wakeup_preempt_rt(enqueue_task_rt(dequeue_task_rt(r, t), t, c), t)

-----------------------------------------------------------------------------
(* Push                                                                    *)

\* find_lowest_rq by way of cpupri_find: the allowed CPUs of the lowest priority
\* that is below the task's; the CPU of the task if it is one of them.
find_lowest_rq(r, t) ==
    LET below == {c \in r.allowed[t] \cap r.online : highest(r, c) > Prio[t]}
        lowest == {c \in below : \A d \in below : highest(r, c) >= highest(r, d)}
    IN  IF nr_cpus_allowed(r, t) = 1 THEN {}
        ELSE IF r.cpu[t] \in lowest THEN {r.cpu[t]} ELSE lowest

pick_next_pushable_task(r, c) == MostImportant({t \in r.pushable[c] : r.run[c] # t})

\* push_rt_task up to double_lock_balance
PushBegin(c) ==
    /\ c \in pushing /\ window[c] = <<>>
    /\ LET stop == pushing' = pushing \ {c} /\ UNCHANGED window IN
       IF pick_next_pushable_task(rp, c) = {} THEN stop /\ UNCHANGED rp
       ELSE \E t \in pick_next_pushable_task(rp, c) :
              IF Prio[t] < prio(rp.run[c]) THEN stop /\ rp' = resched_curr(rp, c)
              ELSE /\ rp' = rp
                   /\ \/ (t \in rp.migdis \/ find_lowest_rq(rp, t) \subseteq {c}) /\ stop
                      \/ /\ t \notin rp.migdis
                         /\ \E d \in find_lowest_rq(rp, t) \ {c} :
                              window' = [window EXCEPT ![c] = <<t, d>>] /\ UNCHANGED pushing
    /\ UNCHANGED pulling

\* Mutant: the task is moved although its runqueue was unlocked.
StillPushableTrusting(c, t, d) == TRUE

\* The lock was lost: is the task still the one to push, and may it go there?
StillPushable(c, t, d) ==
    t \notin rp.migdis /\ d \in rp.allowed[t] /\ t \in pick_next_pushable_task(rp, c)

\* ... and after it.  When nothing was moved it tries again, at most RT_MAX_TRIES times.
PushEnd(c) ==
    /\ c \in pushing /\ window[c] # <<>>
    /\ LET t == window[c][1]
           d == window[c][2]
       IN  IF StillPushable(c, t, d) /\ highest(rp, d) > Prio[t]
           THEN rp' = resched_curr(move_queued_task_locked(rp, t, d), d) /\ UNCHANGED pushing
           ELSE \/ UNCHANGED <<rp, pushing>>
                \/ /\ t \in pick_next_pushable_task(rp, c)
                   /\ rp' = [rp EXCEPT !.disturbed = TRUE] /\ pushing' = pushing \ {c}
    /\ window' = [window EXCEPT ![c] = <<>>]
    /\ UNCHANGED pulling

-----------------------------------------------------------------------------
(* Wakeup and __schedule                                                   *)

\* select_task_rq_rt: stay, unless the current task there is not worth disturbing.
select_task_rq_rt(t) ==
    LET c == rp.cpu[t]
        curr == rp.run[c]
        test == curr # Idle /\ (nr_cpus_allowed(rp, curr) < 2 \/ Prio[curr] <= Prio[t])
        targets == {d \in find_lowest_rq(rp, t) : Prio[t] < highest(rp, d)}
    IN  IF test /\ targets # {} THEN targets ELSE {c}

\* task_woken_rt
need_to_push(r, t) ==
    LET curr == r.run[r.cpu[t]] IN
    /\ curr # t /\ ~r.resched[r.cpu[t]] /\ nr_cpus_allowed(r, t) > 1 /\ curr # Idle
    /\ nr_cpus_allowed(r, curr) < 2 \/ Prio[curr] <= Prio[t]

Wake(t) ==
    /\ t \notin rp.queued /\ \A c \in RtCpus : rp.run[c] # t
    /\ \E c \in IF t \in rp.migdis THEN {rp.cpu[t]} ELSE select_task_rq_rt(t) :
         LET r == wakeup_preempt_rt(enqueue_task_rt(rp, t, c), t) IN
         /\ rp' = r
         /\ pushing' = IF need_to_push(r, t) THEN pushing \cup {c} ELSE pushing
    /\ UNCHANGED <<window, pulling>>

need_pull_rt_task(r, c) == c \in r.online /\ highest(r, c) > prio(r.run[c])

\* __schedule up to the pick: the task may block, and balance_rt pulls.
ScheduleBegin(c, block) ==
    LET prev == rp.run[c]
        r == IF block THEN dequeue_task_rt(rp, prev) ELSE rp
    IN  /\ pulling[c] = NotPulling(c) /\ c \notin pushing
        /\ block \/ rp.resched[c]
        /\ block => prev # Idle
        /\ rp' = r
        /\ pulling' = [pulling EXCEPT ![c] = IF (block \/ prev = Idle) /\ need_pull_rt_task(r, c) /\ r.rto_count # 0
                                             THEN RtCpus \ {c} ELSE {}]
        /\ UNCHANGED <<pushing, window>>

\* One CPU of pull_rt_task, under both locks.
PullFrom(c, s) ==
    /\ s \in pulling[c] /\ s # c
    /\ LET fit == MostImportant({t \in rp.pushable[s] : rp.run[s] # t /\ c \in rp.allowed[t]}) IN
       IF s \notin rp.rto_mask \/ rp.next[s] >= highest(rp, c) \/ fit = {} THEN rp' = rp
       ELSE \E t \in fit :
              rp' = IF Prio[t] >= highest(rp, c) \/ Prio[t] < prio(rp.run[s]) \/ t \in rp.migdis THEN rp
                    ELSE resched_curr(move_queued_task_locked(rp, t, c), c)
    /\ pulling' = [pulling EXCEPT ![c] = @ \ {s}]
    /\ UNCHANGED <<pushing, window>>

\* put_prev_task_rt, set_next_task_rt and the push that is queued for after the switch.
Switch(r, c, next) ==
    LET prev == r.run[c]
        put == IF prev # Idle /\ prev \in r.queued /\ nr_cpus_allowed(r, prev) > 1 THEN enqueue_pushable_task(r, prev) ELSE r
        s == IF prev = next THEN r ELSE IF next = Idle THEN put ELSE dequeue_pushable_task(put, next)
    IN  [s EXCEPT !.run[c] = next, !.resched[c] = FALSE]

Pick(c) ==
    /\ pulling[c] = {}
    /\ \E next \in IF On(rp, c) = {} THEN {Idle} ELSE MostImportant(On(rp, c)) :
         LET r == Switch(rp, c, next) IN
         /\ rp' = r
         /\ pushing' = IF next # Idle /\ r.pushable[c] # {} THEN pushing \cup {c} ELSE pushing
    /\ pulling' = [pulling EXCEPT ![c] = NotPulling(c)]
    /\ UNCHANGED window

-----------------------------------------------------------------------------
(* What else changes the lists                                             *)

Quiet(c) == pulling[c] = NotPulling(c)

\* do_set_cpus_allowed for a task that may stay where it is.
SetAffinity(t, mask) ==
    /\ mask # rp.allowed[t] /\ rp.cpu[t] \in mask /\ t \notin rp.migdis
    /\ LET set(r) == [r EXCEPT !.allowed[t] = mask, !.disturbed = TRUE] IN
       rp' = IF t \in rp.queued THEN enqueue_task_rt(set(dequeue_task_rt(rp, t)), t, rp.cpu[t]) ELSE set(rp)
    /\ UNCHANGED <<pushing, window, pulling>>

\* migrate_disable and migrate_enable, by the task that runs
Migratable(c) ==
    LET t == rp.run[c] IN
    /\ t \in Disabling /\ Quiet(c)
    /\ rp' = [rp EXCEPT !.migdis = IF t \in @ THEN @ \ {t} ELSE @ \cup {t}, !.disturbed = TRUE]
    /\ UNCHANGED <<pushing, window, pulling>>

rq_offline_rt(c) ==
    /\ c \in rp.online
    /\ rp' = [(IF c \in rp.over THEN rt_clear_overload(rp, c) ELSE rp) EXCEPT !.online = @ \ {c}, !.disturbed = TRUE]
    /\ UNCHANGED <<pushing, window, pulling>>

rq_online_rt(c) ==
    /\ c \notin rp.online
    /\ LET r == [rp EXCEPT !.online = @ \cup {c}] IN
       rp' = IF c \in rp.over THEN rt_set_overload(r, c) ELSE r
    /\ UNCHANGED <<pushing, window, pulling>>

Next ==
    \/ \E t \in RtTasks : Wake(t) \/ \E mask \in Affinities : SetAffinity(t, mask)
    \/ \E c \in RtCpus :
         \/ PushBegin(c) \/ PushEnd(c) \/ Pick(c) \/ Migratable(c)
         \/ rq_offline_rt(c) \/ rq_online_rt(c)
         \/ \E block \in BOOLEAN : ScheduleBegin(c, block)
         \/ \E s \in RtCpus : PullFrom(c, s)

-----------------------------------------------------------------------------
\* What the lists say is so whenever the locks are free: a pushable task is queued
\* there, does not run and may go elsewhere (the BUG_ONs of pick_next_pushable_task),
\* none is missing, and the overload mask and count that other CPUs read without
\* a lock agree with the lists.
PushableInv ==
    /\ \A c \in RtCpus :
         /\ rp.pushable[c] = {t \in On(rp, c) : rp.run[c] # t /\ nr_cpus_allowed(rp, t) > 1}
         /\ rp.next[c] = Min({Prio[t] : t \in rp.pushable[c]} \cup {MAX_PRIO})
         /\ c \in rp.over <=> rp.pushable[c] # {}
         /\ rp.run[c] # Idle /\ Quiet(c) => rp.run[c] \in On(rp, c)
    /\ rp.rto_mask = rp.over \cap rp.online /\ rp.rto_count = Cardinality(rp.rto_mask)
    /\ \A t \in RtTasks : rp.cpu[t] \in rp.allowed[t]

\* When nothing is under way, no RT task waits while a CPU that it may use runs
\* something less important.
Settled ==
    /\ ~rp.disturbed /\ pushing = {} /\ \A c \in RtCpus : Quiet(c) /\ ~rp.resched[c]
    => \A t \in rp.queued, c \in RtCpus :
         c \in rp.allowed[t] /\ (\A d \in RtCpus : rp.run[d] # t) => prio(rp.run[c]) <= Prio[t]

\* The pushable lists and the overload mask agree with the queues, and once every
\* push and pull is over no task waits that could run (push_rt_task, pull_rt_task).
RtPushInv == PushableInv /\ Settled

Spec == Init /\ [][Next]_pushVars
=============================================================================
