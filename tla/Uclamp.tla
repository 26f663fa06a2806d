------------------------------- MODULE Uclamp -------------------------------
(***************************************************************************)
(* core.c: utilization clamps.  Each runnable task is counted in a bucket  *)
(* of its rq for each clamp (MIN, MAX), and the rq's value is the highest  *)
(* in use.  A task's effective value comes from its request, its group and *)
(* the system default; a writer holds uclamp_mutex while it walks groups   *)
(* and tasks, and tasks come, go and move meanwhile.                       *)
(***************************************************************************)
EXTENDS Integers, FiniteSets, Sequences

CONSTANTS
    UcTasks,        \* tasks of one rq
    RtTask,         \* those of the real-time classes
    Tree,           \* the task groups in pre-order, as a chain: each the parent of the next
    Requests,       \* values that are written
    Scale,          \* SCHED_CAPACITY_SCALE
    BucketDelta,    \* UCLAMP_BUCKET_DELTA
    MaxWrites       \* bound: writes of requests, groups and defaults

VARIABLES
    uc,     \* uc[t]: group, on (off, queued, delayed, unborn), req, user_defined, clamp[id]: p->uclamp[id]
    uq,     \* rq->uclamp: value[id], tasks[id], bucket value[id], idle flag; sched_uclamp_used
    tg,     \* tg[g]: req[id], eff[id]
    deflt,  \* uclamp_default[id], and min_rt: sysctl_sched_uclamp_util_min_rt_default
    wr,     \* the holder of uclamp_mutex: the groups and tasks it still has to visit
    writes  \* writes so far

ucVars == <<uc, uq, tg, deflt, wr, writes>>

Ids == {"MIN", "MAX"}
Groups == {Tree[i] : i \in 1..Len(Tree)}
Root == Tree[1]
uclamp_none(id) == IF id = "MIN" THEN 0 ELSE Scale
Buckets == 0..(Scale \div BucketDelta)
uclamp_bucket_id(v) == v \div BucketDelta
Lower(x, y) == IF x < y THEN x ELSE y
Highest(S) == CHOOSE x \in S : \A y \in S : y <= x

NoWriter == [css |-> 0, at |-> "none", tasks |-> {}, changed |-> FALSE]
NewClamp == [value |-> 0, active |-> FALSE]

Init ==
    /\ uc = [t \in UcTasks |-> [group |-> Root, on |-> "unborn", req |-> [id \in Ids |-> uclamp_none(id)], user |-> FALSE,
                                clamp |-> [id \in Ids |-> NewClamp]]]
    /\ uq = [value |-> [id \in Ids |-> uclamp_none(id)], tasks |-> [id \in Ids |-> [b \in Buckets |-> 0]],
             bval |-> [id \in Ids |-> [b \in Buckets |-> 0]], idle |-> TRUE, used |-> FALSE, warn |-> FALSE]
    /\ tg = [g \in Groups |-> [req |-> [id \in Ids |-> IF g = Root THEN Scale ELSE uclamp_none(id)],
                               eff |-> [id \in Ids |-> IF g = Root THEN Scale ELSE uclamp_none(id)]]]
    /\ deflt = [MIN |-> Scale, MAX |-> Scale, min_rt |-> Scale]
    /\ wr = NoWriter /\ writes = 0

-----------------------------------------------------------------------------
(* Effective values                                                        *)

\* The root group restricts nothing; clamp(value, min, max) of linux/minmax.h.
uclamp_tg_restrict(t, id) ==
    LET v == t.req[id]  lo == tg[t.group].eff["MIN"]  hi == tg[t.group].eff["MAX"]
    IN  IF t.group = Root THEN v ELSE IF v >= hi THEN hi ELSE IF v <= lo THEN lo ELSE v

uclamp_eff_get(t, id) == Lower(uclamp_tg_restrict(t, id), deflt[id])

-----------------------------------------------------------------------------
(* Counting; s is the pair of the task and the rq                          *)

\* The highest bucket in use, or the value to hold when idle
uclamp_rq_max_value(q, id, v) ==
    LET inuse == {b \in Buckets : q.tasks[id][b] > 0}
    IN  IF inuse # {} THEN q.bval[id][Highest(inuse)] ELSE IF id = "MAX" THEN v ELSE 0

uclamp_rq_inc_id(s, id) ==
    LET v == uclamp_eff_get(s.t, id)
        b == uclamp_bucket_id(v)
        n == s.q.tasks[id][b] + 1
        base == IF s.q.idle THEN v ELSE s.q.value[id]
    IN  [t |-> [s.t EXCEPT !.clamp[id] = [value |-> v, active |-> TRUE]],
         q |-> [s.q EXCEPT !.tasks[id][b] = n,
                           !.bval[id][b] = IF n = 1 \/ v > @ THEN v ELSE @,
                           !.value[id] = IF v > base THEN v ELSE base]]

uclamp_rq_dec_id(s, id) ==
    LET c == s.t.clamp[id]
        b == uclamp_bucket_id(c.value)
        q == [s.q EXCEPT !.tasks[id][b] = IF @ > 0 THEN @ - 1 ELSE @, !.warn = @ \/ s.q.tasks[id][b] = 0]
        t == [s.t EXCEPT !.clamp[id].active = FALSE]
        high == q.bval[id][b] >= q.value[id]
    IN  IF ~c.active THEN s
        ELSE IF q.tasks[id][b] > 0 THEN [t |-> t, q |-> q]
        ELSE [t |-> t,
              q |-> [q EXCEPT !.warn = @ \/ q.bval[id][b] > q.value[id],
                              !.value[id] = IF high THEN uclamp_rq_max_value(q, id, c.value) ELSE @,
                              !.idle = @ \/ (high /\ id = "MAX" /\ \A d \in Buckets : q.tasks[id][d] = 0)]]

Both(s, Op(_, _)) == Op(Op(s, "MIN"), "MAX")

\* enqueue_task: a delayed task counts only when it is woken (ENQUEUE_DELAYED).
uclamp_rq_inc(s, wakes_delayed) ==
    IF ~s.q.used \/ (s.t.on = "delayed" /\ ~wakes_delayed) THEN s
    ELSE LET r == Both(s, uclamp_rq_inc_id) IN [r EXCEPT !.q.idle = FALSE]

uclamp_rq_dec(s) == IF ~s.q.used \/ s.t.on = "delayed" THEN s ELSE Both(s, uclamp_rq_dec_id)


uclamp_rq_reinc_id(s, id) ==
    IF ~s.t.clamp[id].active THEN s
    ELSE LET r == uclamp_rq_inc_id(uclamp_rq_dec_id(s, id), id)
         IN  [r EXCEPT !.q.idle = @ /\ id # "MAX"]

Pair(t) == [t |-> uc[t], q |-> uq]
Put(t, s) == uc' = [uc EXCEPT ![t] = s.t] /\ uq' = s.q

-----------------------------------------------------------------------------
(* Tasks                                                                   *)

enqueue_task(t) ==
    /\ uc[t].on \in {"off", "delayed"}
    /\ LET s == uclamp_rq_inc(Pair(t), TRUE) IN Put(t, [s EXCEPT !.t.on = "queued"])
    /\ UNCHANGED <<tg, deflt, wr>>

\* A task that sleeps may stay queued, delayed; it is no longer counted.
dequeue_task(t, to) ==
    /\ uc[t].on = "queued" \/ (uc[t].on = "delayed" /\ to = "off")
    /\ LET s == uclamp_rq_dec(Pair(t)) IN Put(t, [s EXCEPT !.t.on = to])
    /\ UNCHANGED <<tg, deflt, wr>>

\* sched_change: a queued task is dequeued, changed, and enqueued again.
Change(t, new) ==
    /\ LET s == IF uc[t].on \in {"queued", "delayed"} THEN uclamp_rq_dec(Pair(t)) ELSE Pair(t)
           r == [s EXCEPT !.t = [new EXCEPT !.clamp = s.t.clamp]]
       IN  Put(t, IF uc[t].on \in {"queued", "delayed"} THEN uclamp_rq_inc(r, FALSE) ELSE r)
    /\ UNCHANGED <<tg, deflt, wr>>

\* sched_move_task
MoveTo(t, g) == uc[t].on # "unborn" /\ uc[t].group # g /\ Change(t, [uc[t] EXCEPT !.group = g])

\* sched_setattr with a clamp, which first enables uclamp
SetRequest(t, id, v) ==
    /\ uc[t].on # "unborn" /\ uq.used /\ (IF id = "MIN" THEN v <= uc[t].req["MAX"] ELSE v >= uc[t].req["MIN"])
    /\ Change(t, [uc[t] EXCEPT !.req[id] = v, !.user = @ \/ id = "MIN"])

\* Only an RT task whose MIN was never set by the user follows the default.
SyncRt(t) == IF t.user THEN t ELSE [t EXCEPT !.req["MIN"] = deflt.min_rt]

\* uclamp_fork; the thread is then linked, and sched_post_fork syncs it
uclamp_fork(t) ==
    /\ uc[t].on = "unborn"
    /\ uc' = [uc EXCEPT ![t].on = "linked", ![t].clamp = [id \in Ids |-> NewClamp]]
    /\ UNCHANGED <<uq, tg, deflt, wr>>

uclamp_post_fork(t) ==
    /\ uc[t].on = "linked"
    /\ uc' = [uc EXCEPT ![t] = [(IF t \in RtTask THEN SyncRt(@) ELSE @) EXCEPT !.on = "off"]]
    /\ UNCHANGED <<uq, tg, deflt, wr>>

-----------------------------------------------------------------------------
(* Writers: cpu_util_update_eff walks down from a group                    *)

\* sysctl: the default and the root group; a refused write changes nothing
sysctl_sched_uclamp_handler(min, max) ==
    /\ wr = NoWriter /\ min <= max /\ <<min, max>> # <<deflt["MIN"], deflt["MAX"]>>
    /\ deflt' = [deflt EXCEPT !["MIN"] = min, !["MAX"] = max]
    /\ uq' = [uq EXCEPT !.used = TRUE]
    /\ tg' = [tg EXCEPT ![Root].req = [MIN |-> min, MAX |-> max]]
    /\ wr' = [NoWriter EXCEPT !.css = 1, !.at = "min"]
    /\ UNCHANGED uc

\* the RT default, and uclamp_sync_util_min_rt_default over the linked threads
WriteMinRt(v) ==
    /\ wr = NoWriter /\ v # deflt.min_rt
    /\ deflt' = [deflt EXCEPT !.min_rt = v]
    /\ uq' = [uq EXCEPT !.used = TRUE]
    /\ wr' = [NoWriter EXCEPT !.at = "list"]
    /\ UNCHANGED <<uc, tg>>

ListThreads ==
    /\ wr.at = "list"
    /\ wr' = [wr EXCEPT !.at = "sync", !.tasks = {t \in RtTask \cap UcTasks : uc[t].on # "unborn"}]
    /\ UNCHANGED <<uc, uq, tg, deflt>>

uclamp_update_util_min_rt_default(t) ==
    /\ wr.at = "sync" /\ t \in wr.tasks
    /\ uc' = [uc EXCEPT ![t] = SyncRt(@)]
    /\ wr' = [wr EXCEPT !.tasks = @ \ {t}]
    /\ UNCHANGED <<uq, tg, deflt>>

cpu_uclamp_write(i, id, v) ==
    /\ wr = NoWriter /\ i > 1
    /\ tg' = [tg EXCEPT ![Tree[i]].req[id] = v]
    /\ uq' = [uq EXCEPT !.used = TRUE]
    /\ wr' = [NoWriter EXCEPT !.css = i, !.at = "min"]
    /\ UNCHANGED <<uc, deflt>>

\* What the parent allows
Capped(i, id) == IF i = 1 THEN tg[Tree[i]].req[id] ELSE Lower(tg[Tree[i]].req[id], tg[Tree[i - 1]].eff[id])
\* Protection is capped by the limit.
Eff(i, id) == IF id = "MIN" THEN Lower(Capped(i, "MIN"), Capped(i, "MAX")) ELSE Capped(i, "MAX")

\* The two values of a group are written one after the other, with no lock.
WriteEff(id) ==
    /\ wr.at = (IF id = "MIN" THEN "min" ELSE "max")
    /\ LET v == Eff(wr.css, id)  g == Tree[wr.css]  changed == wr.changed \/ v # tg[g].eff[id]
       IN  /\ tg' = [tg EXCEPT ![g].eff[id] = v]
           /\ wr' = IF id = "MIN" THEN [wr EXCEPT !.at = "max", !.changed = changed]
                    ELSE IF changed THEN [wr EXCEPT !.at = "tasks", !.tasks = {t \in UcTasks : uc[t].group = g /\ uc[t].on # "unborn"}]
                    ELSE NoWriter
    /\ UNCHANGED <<uc, uq, deflt>>

uclamp_update_active(t) ==
    /\ wr.at = "tasks" /\ t \in wr.tasks
    /\ Put(t, Both(Pair(t), uclamp_rq_reinc_id))
    /\ wr' = [wr EXCEPT !.tasks = @ \ {t}]
    /\ UNCHANGED <<tg, deflt>>

\* css_for_each_descendant_pre: a group that changed nothing ends the walk below it.
NextCss ==
    /\ wr.at \in {"tasks", "sync"} /\ wr.tasks = {}
    /\ wr' = IF wr.at = "tasks" /\ wr.css < Len(Tree) THEN [NoWriter EXCEPT !.css = wr.css + 1, !.at = "min"] ELSE NoWriter
    /\ UNCHANGED <<uc, uq, tg, deflt>>

-----------------------------------------------------------------------------
Written == writes < MaxWrites /\ writes' = writes + 1

Next ==
    \/ \E t \in UcTasks :
         /\ \/ uclamp_fork(t) \/ uclamp_post_fork(t) \/ enqueue_task(t)
            \/ \E to \in {"off", "delayed"} : dequeue_task(t, to)
            \/ \E g \in Groups : MoveTo(t, g)
            \/ uclamp_update_active(t) \/ uclamp_update_util_min_rt_default(t)
         /\ UNCHANGED writes
    \/ (ListThreads \/ (\E id \in Ids : WriteEff(id)) \/ NextCss) /\ UNCHANGED writes
    \/ /\ \/ \E t \in UcTasks, id \in Ids, v \in Requests : SetRequest(t, id, v)
          \/ \E min, max \in Requests : sysctl_sched_uclamp_handler(min, max)
          \/ \E v \in Requests : WriteMinRt(v)
          \/ \E i \in 1..Len(Tree), id \in Ids, v \in Requests : cpu_uclamp_write(i, id, v)
       /\ Written

-----------------------------------------------------------------------------
Active(id) == {t \in UcTasks : uc[t].clamp[id].active}

\* The buckets count exactly the tasks that are counted, none of the warnings fires, and
\* the rq's clamp is the highest bucket value in use, which is at least every task's.
BucketsCount ==
    /\ ~uq.warn
    /\ \A id \in Ids :
         /\ \A b \in Buckets : uq.tasks[id][b] = Cardinality({t \in Active(id) : uclamp_bucket_id(uc[t].clamp[id].value) = b})
         /\ \A t \in Active(id) : uc[t].clamp[id].value <= uq.value[id]
         /\ Active(id) # {} =>
              uq.value[id] = uq.bval[id][Highest({b \in Buckets : uq.tasks[id][b] > 0})] /\ ~uq.idle

\* When no writer is under way every counted task outside the root group is within the
\* clamps of its group.  (A change of the default alone reaches tasks lazily.)
GroupBounds ==
    wr = NoWriter => \A id \in Ids : \A t \in Active(id) :
      uc[t].group # Root => LET eff == tg[uc[t].group].eff IN eff["MIN"] <= uc[t].clamp[id].value /\ uc[t].clamp[id].value <= eff["MAX"]

\* When no writer is under way every RT task that did not choose has the default.
RtDefault ==
    wr = NoWriter => \A t \in RtTask \cap UcTasks :
      uc[t].on \notin {"unborn", "linked"} /\ ~uc[t].user => uc[t].req["MIN"] = deflt.min_rt


Spec == Init /\ [][Next]_ucVars
=============================================================================
