----------------------------- MODULE RtRunqueue -----------------------------
(***************************************************************************)
(* rt.c with CONFIG_RT_GROUP_SCHED: the runqueue of one CPU, a tree of     *)
(* rt_rqs.  A group is named once, for its rt_rq and for its entity in the *)
(* rt_rq above it.  Everything here runs under the rq lock, so a call is   *)
(* one step; rq is the state that the calls pass on.  How much a group may *)
(* run is the subject of RtBandwidth: here update_curr_rt finds any of the *)
(* groups of the running task over its limit.                              *)
(***************************************************************************)
EXTENDS Integers, SequencesExt, FiniteSetsExt

CONSTANTS
    Tasks, Groups, Root,
    Above,          \* Above[e]: the rt_rq that entity e belongs to
    NormalPrio,     \* normal_prio; MAX_RT_PRIO stands for any fair priority
    MAX_RT_PRIO,
    BoostPrios      \* priorities of the waiters that boost

VARIABLE rq

Idle == "idle"
Entities == Tasks \cup Groups
Queues == Groups \cup {Root}
Levels == 0..(MAX_RT_PRIO - 1)

Init == rq = [
    queue |-> [q \in Queues |-> [l \in Levels |-> <<>>]], bitmap |-> [q \in Queues |-> {}],
    on_rq |-> [e \in Entities |-> FALSE], on_list |-> [e \in Entities |-> FALSE],
    nr |-> [q \in Queues |-> 0], highest |-> [q \in Queues |-> MAX_RT_PRIO - 1],
    boosted |-> [q \in Queues |-> 0], throttled |-> [q \in Queues |-> FALSE],
    rt_queued |-> FALSE, nr_running |-> 0,
    prio |-> NormalPrio, queued |-> {}, donor |-> Idle, resched |-> FALSE,
    warn |-> {},        \* history: the assertions that have failed
    torn |-> FALSE]     \* history: see SetAffinity

\* for_each_sched_rt_entity
stack[e \in Entities] == IF Above[e] = Root THEN <<e>> ELSE <<e>> \o stack[Above[e]]

rt_se_prio(r, e) == IF e \in Groups THEN r.highest[e] ELSE r.prio[e]
rt_se_boosted(r, e) == IF e \in Groups THEN r.boosted[e] # 0 ELSE r.prio[e] # NormalPrio[e]
rt_se_nr_running(r, e) == IF e \in Groups THEN r.nr[e] ELSE 1
rt_rq_throttled(r, q) == r.throttled[q] /\ r.boosted[q] = 0
donor_prio(r) == IF r.donor = Idle THEN MAX_RT_PRIO ELSE r.prio[r.donor]
resched_curr(r, cond) == [r EXCEPT !.resched = @ \/ cond]
Warn(r, what, cond) == IF cond THEN [r EXCEPT !.warn = @ \cup {what}] ELSE r
first_bit(r, q) == Min(r.bitmap[q] \cup {MAX_RT_PRIO})

-----------------------------------------------------------------------------
(* One entity and its rt_rq                                                *)

\* Mutant: the priority of the rt_rq is not looked for again.
dec_rt_prio_kept(r, q, prio) ==
    IF r.nr[q] = 0 THEN [r EXCEPT !.highest[q] = MAX_RT_PRIO - 1] ELSE r

dec_rt_prio(r, q, prio) ==
    IF r.nr[q] = 0 THEN [r EXCEPT !.highest[q] = MAX_RT_PRIO - 1]
    ELSE Warn(IF prio = r.highest[q] THEN [r EXCEPT !.highest[q] = first_bit(r, q)] ELSE r,
              "prio", prio < r.highest[q])

inc_rt_tasks(r, e) ==
    LET q == Above[e] IN
    [r EXCEPT !.nr[q] = @ + rt_se_nr_running(r, e),
              !.highest[q] = Min({@, rt_se_prio(r, e)}),
              !.boosted[q] = @ + IF rt_se_boosted(r, e) THEN 1 ELSE 0]

dec_rt_tasks(r, e) ==
    LET q == Above[e]
        less == dec_rt_prio([r EXCEPT !.nr[q] = @ - rt_se_nr_running(r, e)], q, rt_se_prio(r, e))
        done == [less EXCEPT !.boosted[q] = @ - IF rt_se_boosted(r, e) THEN 1 ELSE 0]
    IN  Warn(done, "group", done.nr[q] = 0 /\ done.boosted[q] # 0)

ListDel(r, e) == [l \in Levels |-> SelectSeq(r.queue[Above[e]][l], LAMBDA x : x # e)]

__delist_rt_entity(r, e) ==
    LET q == Above[e]
        lists == ListDel(r, e)
        prio == rt_se_prio(r, e)
    IN  [r EXCEPT !.queue[q] = lists, !.on_list[e] = FALSE,
                  !.bitmap[q] = IF prio \in Levels /\ lists[prio] = <<>> THEN @ \ {prio} ELSE @]

AddTo(list, e, head) == IF head THEN <<e>> \o list ELSE Append(list, e)

\* flags: move is false for SAVE without MOVE, head is ENQUEUE_HEAD.
__enqueue_rt_entity(r, e, flags) ==
    LET q == Above[e]
        prio == rt_se_prio(r, e)
        listed == IF ~flags.move THEN r
                  ELSE Warn([r EXCEPT !.queue[q][prio] = AddTo(@, e, flags.head),
                                      !.bitmap[q] = @ \cup {prio}, !.on_list[e] = TRUE],
                            "listed", r.on_list[e])
    IN  IF e \in Groups /\ (rt_rq_throttled(r, e) \/ r.nr[e] = 0)
        THEN IF r.on_list[e] THEN __delist_rt_entity(r, e) ELSE r
        ELSE inc_rt_tasks([listed EXCEPT !.on_rq[e] = TRUE], e)

__dequeue_rt_entity(r, e, flags) ==
    LET delisted == IF flags.move THEN Warn(__delist_rt_entity(r, e), "unlisted", ~r.on_list[e]) ELSE r
    IN  dec_rt_tasks([delisted EXCEPT !.on_rq[e] = FALSE], e)

-----------------------------------------------------------------------------
(* The tree                                                                *)

dequeue_top_rt_rq(r, count) ==
    IF ~r.rt_queued THEN r
    ELSE Warn([r EXCEPT !.nr_running = @ - count, !.rt_queued = FALSE], "top", r.nr_running = 0)

enqueue_top_rt_rq(r) ==
    IF r.rt_queued \/ rt_rq_throttled(r, Root) \/ r.nr[Root] = 0 THEN r
    ELSE [r EXCEPT !.nr_running = @ + r.nr[Root], !.rt_queued = TRUE]

\* The stack is taken down from the top, whose priority depends on what is below.
dequeue_rt_stack(r, e, flags) ==
    dequeue_top_rt_rq(
        FoldLeft(LAMBDA s, x : IF s.on_rq[x] THEN __dequeue_rt_entity(s, x, flags) ELSE s,
                 r, Reverse(stack[e])),
        r.nr[Root])

enqueue_rt_entity(r, e, flags) ==
    enqueue_top_rt_rq(FoldLeft(LAMBDA s, x : __enqueue_rt_entity(s, x, flags),
                               dequeue_rt_stack(r, e, flags), stack[e]))

dequeue_rt_entity(r, e, flags) ==
    enqueue_top_rt_rq(
        FoldLeft(LAMBDA s, x : IF x \in Groups /\ s.nr[x] # 0 THEN __enqueue_rt_entity(s, x, flags) ELSE s,
                 dequeue_rt_stack(r, e, flags), stack[e]))

requeue_task_rt(r, t, head) ==
    FoldLeft(LAMBDA s, e : IF ~s.on_rq[e] THEN s
                           ELSE [s EXCEPT !.queue[Above[e]] =
                                   [ListDel(s, e) EXCEPT ![rt_se_prio(s, e)] = AddTo(@, e, head)]],
             r, stack[t])

Plain == [move |-> TRUE, head |-> FALSE]

sched_rt_rq_enqueue(r, q) ==
    IF r.nr[q] = 0 THEN r
    ELSE LET served == IF q = Root THEN enqueue_top_rt_rq(r)
                       ELSE IF ~r.on_rq[q] THEN enqueue_rt_entity(r, q, Plain) ELSE r
         IN  resched_curr(served, served.highest[q] < donor_prio(r))

sched_rt_rq_dequeue(r, q) ==
    IF q = Root THEN dequeue_top_rt_rq(r, r.nr[Root])
    ELSE IF r.on_rq[q] THEN dequeue_rt_entity(r, q, Plain) ELSE r

-----------------------------------------------------------------------------
(* The operations of the class                                             *)

IsRt(r, t) == t # Idle /\ r.prio[t] < MAX_RT_PRIO

\* sched_rt_runtime_exceeded for the rt_rqs above the running task, of which the
\* ones in over have used up their time.
Exceeded(r, q, over) ==
    IF r.throttled[q] \/ q \notin over THEN resched_curr(r, rt_rq_throttled(r, q))
    ELSE LET s == [r EXCEPT !.throttled[q] = TRUE]
         IN  IF rt_rq_throttled(s, q) THEN resched_curr(sched_rt_rq_dequeue(s, q), TRUE) ELSE s

update_curr_rt(over) ==
    /\ IsRt(rq, rq.donor)
    /\ rq' = FoldLeft(LAMBDA s, e : Exceeded(s, Above[e], over), rq, stack[rq.donor])

\* do_sched_rt_period_timer for one rt_rq, with time that is paid back or not.
PeriodTimer(q, paid) ==
    LET s == [rq EXCEPT !.throttled[q] = @ /\ ~paid] IN
    /\ paid => rq.throttled[q]
    /\ rq' = IF paid \/ ~rt_rq_throttled(rq, q) THEN sched_rt_rq_enqueue(s, q) ELSE s

\* __disable_runtime, when the CPU goes offline.
disable_runtime ==
    rq' = FoldLeft(LAMBDA s, q : sched_rt_rq_enqueue([s EXCEPT !.throttled[q] = FALSE], q),
                   rq, <<Root>> \o SetToSeq(Groups))

\* Of two equal tasks the new one goes first if only the current one can run elsewhere.
check_preempt_equal_prio(r, t, elsewhere) ==
    IF elsewhere THEN resched_curr(requeue_task_rt(r, t, TRUE), TRUE) ELSE r

wakeup_preempt_rt(r, t, elsewhere) ==
    IF r.prio[t] < donor_prio(r) THEN resched_curr(r, TRUE)
    ELSE IF r.prio[t] = donor_prio(r) /\ ~r.resched THEN check_preempt_equal_prio(r, t, elsewhere)
    ELSE r

enqueue_task_rt(r, t) == enqueue_rt_entity([r EXCEPT !.queued = @ \cup {t}], t, Plain)

\* ttwu_do_activate
Wake(t, elsewhere) ==
    /\ t \notin rq.queued
    /\ rq' = IF IsRt(rq, t) THEN wakeup_preempt_rt(enqueue_task_rt(rq, t), t, elsewhere)
             ELSE [rq EXCEPT !.queued = @ \cup {t}]

\* _pick_next_task_rt: the first entity of the first list, down to a task.
pick(r) ==
    LET next[q \in Queues] ==
          LET idx == first_bit(r, q) IN
          IF idx = MAX_RT_PRIO THEN "BUG_ON"
          ELSE IF r.queue[q][idx] = <<>> THEN "NULL"
          ELSE LET e == Head(r.queue[q][idx]) IN IF e \in Groups THEN next[e] ELSE e
    IN  next[Root]

Choose(r) ==
    IF r.rt_queued /\ pick(r) \in Tasks THEN {pick(r)}
    ELSE {Idle} \cup {t \in r.queued : ~IsRt(r, t)}

\* __schedule: the current task may block, and the next one is picked.
Schedule(block) ==
    LET t == rq.donor
        gone == [rq EXCEPT !.queued = @ \ {t}]
        s == IF ~block THEN rq ELSE IF IsRt(rq, t) THEN dequeue_rt_entity(gone, t, Plain) ELSE gone
    IN  /\ rq.resched \/ block \/ t = Idle
        /\ block => t # Idle
        /\ \E next \in Choose(s) :
             rq' = Warn([s EXCEPT !.donor = next, !.resched = FALSE], "pick",
                        s.rt_queued /\ pick(s) \notin Tasks)

yield_task_rt ==
    /\ IsRt(rq, rq.donor)
    /\ rq' = resched_curr(requeue_task_rt(rq, rq.donor, FALSE), TRUE)

\* task_tick_rt of a round-robin task whose slice is over: it goes to the end
\* unless it, and all of its ancestors, are alone on their lists.
task_tick_rt ==
    LET t == rq.donor IN
    /\ IsRt(rq, t)
    /\ \E i \in DOMAIN stack[t], l \in Levels :
         stack[t][i] \in ToSet(rq.queue[Above[stack[t][i]]][l]) /\ Len(rq.queue[Above[stack[t][i]]][l]) > 1
    /\ rq' = resched_curr(requeue_task_rt(rq, t, FALSE), TRUE)

\* Whether the task that got its priority, or came to the class, calls for a reschedule.
prio_changed_rt(r, t) ==
    IF t = r.donor THEN r.prio[t] > r.highest[Root] ELSE r.prio[t] < donor_prio(r)
switched_to_rt(r, t) == t # r.donor /\ r.prio[t] < donor_prio(r)

\* rt_mutex_setprio within sched_change.
SetPrio(t, prio) ==
    LET old == rq.prio[t]
        in == t \in rq.queued
        out == IF in /\ IsRt(rq, t) THEN dequeue_rt_entity(rq, t, Plain) ELSE rq
        set == [out EXCEPT !.prio[t] = prio]
        s == IF in /\ IsRt(set, t)
             THEN enqueue_rt_entity(set, t, [move |-> TRUE, head |-> old < prio]) ELSE set
    IN  /\ prio # old
        /\ rq' = resched_curr(s, in /\
                   IF IsRt(s, t) /\ IsRt(rq, t) THEN prio_changed_rt(s, t)
                   ELSE IF IsRt(s, t) THEN switched_to_rt(s, t) ELSE t = s.donor)

\* do_set_cpus_allowed: out of the tree and back, without leaving the lists.  A
\* task whose boost alone is the reason why a throttled group serves its other
\* tasks takes the group from its list, and since it comes back with DEQUEUE_SAVE
\* does not put it back: the tree is torn, with a group in it that no list has.
\* What the class does with a torn tree is not followed, a pick may run into its
\* BUG_ON.
Tears(out, t) ==
    \E g \in Groups \cap ToSet(stack[t]) : rq.on_rq[g] /\ out.nr[g] # 0 /\ rt_rq_throttled(out, g)

SetAffinity(t) ==
    LET flags == [move |-> FALSE, head |-> FALSE]
        out == dequeue_rt_entity(rq, t, flags)
    IN
    /\ t \in rq.queued /\ IsRt(rq, t)
    /\ rq' = [enqueue_rt_entity(out, t, flags) EXCEPT !.torn = Tears(out, t)]

Step ==
    \/ \E over \in SUBSET Queues : update_curr_rt(over)
    \/ \E q \in Queues, paid \in BOOLEAN : PeriodTimer(q, paid)
    \/ \E block \in BOOLEAN : Schedule(block)
    \/ yield_task_rt \/ task_tick_rt \/ disable_runtime
    \/ \E t \in Tasks : \/ SetAffinity(t)
                       \/ \E elsewhere \in BOOLEAN : Wake(t, elsewhere)
                       \/ \E p \in BoostPrios \cup {NormalPrio[t]} : p <= NormalPrio[t] /\ SetPrio(t, p)

Torn == rq.torn /\ UNCHANGED rq

Next == (~rq.torn /\ Step) \/ Torn

-----------------------------------------------------------------------------
On(q) == {e \in Entities : Above[e] = q /\ rq.on_rq[e]}

\* The numbers that an rt_rq keeps are those of its entities.
Counts ==
    \A q \in Queues :
        /\ rq.nr[q] = MapThenSumSet(LAMBDA e : rt_se_nr_running(rq, e), On(q))
        /\ rq.boosted[q] = Cardinality({e \in On(q) : rt_se_boosted(rq, e)})

\* Each entity is on one list, of its own priority, with its bit set, and the best
\* priority is the one recorded.
Lists ==
    \A q \in Queues :
        /\ rq.highest[q] = Min({rt_se_prio(rq, e) : e \in On(q)} \cup {MAX_RT_PRIO - 1})
        /\ rq.bitmap[q] = {l \in Levels : rq.queue[q][l] # <<>>}
        /\ \A l \in Levels : /\ ToSet(rq.queue[q][l]) = {e \in On(q) : rt_se_prio(rq, e) = l}
                             /\ Len(rq.queue[q][l]) = Cardinality(ToSet(rq.queue[q][l]))

\* A group is in the tree exactly when it has something to run and may run, and
\* rq->nr_running counts what can be picked.
Served ==
    /\ \A g \in Groups : rq.on_rq[g] <=> rq.nr[g] # 0 /\ ~rt_rq_throttled(rq, g)
    /\ rq.rt_queued <=> rq.nr[Root] # 0 /\ ~rt_rq_throttled(rq, Root)
    /\ rq.nr_running = IF rq.rt_queued THEN rq.nr[Root] ELSE 0
    /\ \A t \in Tasks : rq.on_rq[t] <=> t \in rq.queued /\ IsRt(rq, t)

\* No assertion of rt.c fails and the lists are right, whatever is throttled, boosted
\* and moved when, except in a torn tree; and a tree is torn where SetAffinity says.
TreeInv ==
    /\ Counts /\ Served
    /\ IF rq.torn THEN \E g \in Groups : rq.on_rq[g] /\ ~rq.on_list[g] ELSE rq.warn = {} /\ Lists

\* A task of higher priority than the current one is not left waiting: a
\* reschedule is due, unless only a boost of another member makes its group run.
PreemptionDue ==
    LET t == pick(rq) IN
    /\ ~rq.torn /\ rq.rt_queued /\ \A i \in DOMAIN stack[t] : ~rq.throttled[Above[stack[t][i]]]
    /\ rq.prio[t] < donor_prio(rq)
    => rq.resched

\* pick_next_rt_entity finds a bit in the bitmap and an entity on its list (its
\* BUG_ON and WARN_ON_ONCE) whenever the class says that it has something to run,
\* unless the tree is torn.
PickFinds == rq.rt_queued /\ ~rq.torn => pick(rq) \in Tasks

\* The tree, the reschedules and the picks of rt.c agree at all times, but for the tree
\* that do_set_cpus_allowed tears under a boosted task of a throttled group.
RtRunqueueInv == TreeInv /\ PreemptionDue /\ PickFinds

Spec == Init /\ [][Next]_rq
=============================================================================
