------------------------------ MODULE CoreSched ------------------------------
(***************************************************************************)
(* core.c: core scheduling.  The SMT siblings of a core share one lock and *)
(* run tasks of one cookie at a time: a sibling that schedules picks for   *)
(* all, sends the others a reschedule, and they take the pick if nothing   *)
(* was queued since.  The lock is dropped in prev_balance and while a      *)
(* forced-idle sibling looks for a task to steal; siblings go offline and  *)
(* come back, and the leader's state moves.  The sequence counters are     *)
(* only compared: fresh is core_pick_seq = core_task_seq and taken is      *)
(* core_sched_seq = core_pick_seq.                                         *)
(***************************************************************************)
EXTENDS Integers, FiniteSets

CONSTANTS
    Smt,        \* the hardware threads of a core
    Cookied,    \* tasks
    Cookie,     \* the core_cookie of each task, 0 for none
    Rank,       \* __task_prio and the order of prio_less: the smaller goes first
    IdleOf,     \* the idle tasks, one per CPU
    NoPick      \* NULL

VARIABLES
    srq,    \* srq[c]: online, leader (rq->core), cur, queue, tree (core_tree), pick (core_pick), taken, need, stage
    core    \* core[c]: what rq->core of leader c holds: fresh, cookie, fi (core_forceidle_count); warn: a WARN_ON_ONCE

coreVars == <<srq, core>>

IsIdle(t) == \E c \in Smt : IdleOf[c] = t
CookieOf(t) == IF IsIdle(t) THEN 0 ELSE Cookie[t]
RankOf(t) == IF IsIdle(t) THEN 99 ELSE Rank[t]
smt_mask(s) == {c \in Smt : s[c].online # "no"}
Leader(s, c) == s[c].leader

Init ==
    /\ srq = [c \in Smt |-> [online |-> "yes", leader |-> CHOOSE d \in Smt : \A e \in Smt : d <= e, cur |-> IdleOf[c],
                             queue |-> {}, tree |-> {}, pick |-> NoPick, taken |-> TRUE, need |-> FALSE, stage |-> "run"]]
    /\ core = [c \in Smt |-> [fresh |-> TRUE, cookie |-> 0, fi |-> 0, warn |-> FALSE]]

-----------------------------------------------------------------------------
(* Queueing.  A step works on z = [s: srq, k: core].                       *)

Z == [s |-> srq, k |-> core]
Becomes(z) == srq' = z.s /\ core' = z.k

resched_curr(z, c) == [z EXCEPT !.s[c].need = TRUE]
\* Mutant: the picks made before are still taken for valid.
StaleNot(z, c) == z

\* core_task_seq++
Stale(z, c) == [z EXCEPT !.k[z.s[c].leader].fresh = FALSE]

sched_core_enqueue(z, t, c) ==
    LET y == Stale(z, c) IN IF Cookie[t] = 0 THEN y ELSE [y EXCEPT !.s[c].tree = @ \cup {t}]

sched_core_dequeue(z, t, c) ==
    LET y == [Stale(z, c) EXCEPT !.s[c].tree = @ \ {t}]
    IN  IF Cardinality(z.s[c].queue) = 1 /\ z.k[z.s[c].leader].fi > 0 /\ z.s[c].cur = IdleOf[c]
        THEN resched_curr(y, c) ELSE y

enqueue_task(z, t, c) == [sched_core_enqueue(z, t, c) EXCEPT !.s[c].queue = @ \cup {t}]
dequeue_task(z, t, c) == [sched_core_dequeue(z, t, c) EXCEPT !.s[c].queue = @ \ {t}]
wakeup_preempt(z, t, c) == IF RankOf(t) < RankOf(z.s[c].cur) THEN resched_curr(z, c) ELSE z
move_queued_task(z, t, c, d) == enqueue_task(dequeue_task(z, t, c), t, d)

Wake(t, c) ==
    /\ srq[c].online = "yes"
    /\ \A d \in Smt : t \notin srq[d].queue /\ srq[d].cur # t
    /\ Becomes(wakeup_preempt(enqueue_task(Z, t, c), t, c))

\* Load balancing
Migrate(t, c, d) ==
    /\ c # d /\ t \in srq[c].queue /\ srq[c].cur # t /\ srq[d].online = "yes"
    /\ Becomes(wakeup_preempt(move_queued_task(Z, t, c, d), t, d))

-----------------------------------------------------------------------------
(* Picking                                                                 *)

First(S, dflt) == IF S = {} THEN dflt ELSE CHOOSE t \in S : \A u \in S : Rank[t] <= Rank[u]
pick_task(s, c) == First(s[c].queue, IdleOf[c])
sched_core_find(s, c, k) == First({t \in s[c].tree : Cookie[t] = k}, NoPick)

SetNext(z, c, next) == [z EXCEPT !.s[c].cur = next, !.s[c].need = FALSE, !.s[c].stage = "run"]

\* queue_core_balance
Set_Next(z, c, next) ==
    LET l == z.k[z.s[c].leader]
        y == SetNext(z, c, next)
    IN  IF l.fi > 0 /\ next = IdleOf[c] /\ l.cookie # 0 /\ z.s[c].queue # {} THEN [y EXCEPT !.s[c].stage = "steal"] ELSE y

\* The pick of max's cookie for each sibling, and what each is left with
Selection(z, c) ==
    LET l == z.s[c].leader
        mask == smt_mask(z.s)
        first == [d \in mask |-> pick_task(z.s, d)]
        max == CHOOSE d \in mask : /\ \A e \in mask : RankOf(first[d]) <= RankOf(first[e])
                                   /\ d = c \/ RankOf(first[d]) < RankOf(first[c])
        k == CookieOf(first[max])
        found(d) == IF k = 0 THEN NoPick ELSE sched_core_find(z.s, d, k)
        pick == [d \in mask |-> IF IsIdle(first[d]) \/ CookieOf(first[d]) = k THEN first[d]
                                ELSE IF found(d) = NoPick THEN IdleOf[d] ELSE found(d)]
        fi == Cardinality({d \in mask : pick[d] = IdleOf[d] /\ z.s[d].queue # {}})
        match(d) == IsIdle(pick[c]) \/ IsIdle(pick[d]) \/ CookieOf(pick[c]) = CookieOf(pick[d])
    IN  [z EXCEPT !.s = [d \in Smt |->
                            IF d \notin mask THEN z.s[d]
                            ELSE [z.s[d] EXCEPT !.pick = IF d = c \/ z.s[d].cur = pick[d] THEN NoPick ELSE pick[d],
                                                !.taken = d = c,
                                                !.need = @ \/ (d # c /\ z.s[d].cur # pick[d])]],
                  !.k[l] = [fresh |-> TRUE, cookie |-> k, fi |-> fi, warn |-> @.warn \/ \E d \in mask : ~match(d)],
                  !.s[c].cur = pick[c]]

\* Enter __schedule; the previous task may block.  The siblings' pick is taken if it is still valid.
StartSchedule(c, block) ==
    LET t == srq[c].cur
        z == IF block THEN dequeue_task(Z, t, c) ELSE Z
        l == z.k[srq[c].leader]
        fast == l.fresh /\ ~srq[c].taken /\ srq[c].pick # NoPick
    IN  /\ srq[c].stage # "pick" /\ srq[c].online # "no"
        /\ block => ~IsIdle(t)
        /\ srq[c].need \/ block \/ (~IsIdle(t) /\ srq[c].queue # {t})
        /\ Becomes(IF fast THEN Set_Next([z EXCEPT !.s[c].taken = TRUE, !.s[c].pick = NoPick], c, srq[c].pick)
                   ELSE [z EXCEPT !.s[c].stage = "pick"])

\* After prev_balance
pick_next_task(c) ==
    LET l == srq[c].leader
        need_sync == core[l].cookie # 0 \/ core[l].fi > 0
        z == [Z EXCEPT !.k[l].cookie = 0, !.k[l].fi = 0, !.k[l].fresh = FALSE]
        next == pick_task(srq, c)
        y == Selection(z, c)
    IN  /\ srq[c].stage = "pick"
        /\ Becomes(IF ~need_sync /\ CookieOf(next) = 0 THEN Set_Next([z EXCEPT !.s[c].pick = NoPick], c, next)
                   ELSE Set_Next(y, c, y.s[c].cur))

\* try_steal_cookie, from sched_core_balance after the switch to idle; whether occupation allows it is left open.
try_steal_cookie(c, d) ==
    LET k == core[srq[c].leader].cookie
    IN  /\ c # d /\ srq[c].stage = "steal"
        /\ \/ /\ k # 0 /\ srq[c].cur = IdleOf[c] /\ ~srq[c].need
              /\ \E t \in {u \in srq[d].tree : Cookie[u] = k} \ {srq[d].pick, srq[d].cur} :
                    /\ srq[c].online = "yes"
                    /\ Becomes(resched_curr([move_queued_task(Z, t, d, c) EXCEPT !.s[c].stage = "run"], c))
           \/ Becomes([Z EXCEPT !.s[c].stage = "run"])

-----------------------------------------------------------------------------
(* Hotplug, one CPU at a time, with the siblings locked                    *)

Steady == \A c \in Smt : srq[c].online # "leaving"

sched_core_cpu_deactivate(c) ==
    LET others == smt_mask(srq) \ {c}
        l == CHOOSE d \in others : \A e \in others : d <= e
    IN  /\ Steady /\ srq[c].online = "yes" /\ others # {}
        /\ IF srq[c].leader # c THEN Becomes([Z EXCEPT !.s[c].online = "leaving"])
           ELSE Becomes([s |-> [d \in Smt |-> [srq[d] EXCEPT !.leader = IF d \in smt_mask(srq) THEN l ELSE @,
                                                            !.online = IF d = c THEN "leaving" ELSE @]],
                         k |-> [core EXCEPT ![l] = [core[c] EXCEPT !.warn = @ \/ core[l].warn]]])

\* The CPU is empty by then and switches to idle with core_pick reset.
sched_core_cpu_dying(c) ==
    /\ srq[c].online = "leaving" /\ srq[c].queue = {} /\ srq[c].stage = "run" /\ srq[c].cur = IdleOf[c]
    /\ srq' = [srq EXCEPT ![c].leader = c, ![c].online = "no", ![c].pick = NoPick, ![c].need = FALSE]
    /\ UNCHANGED core

sched_core_cpu_starting(c) ==
    LET leaders == {d \in smt_mask(srq) : srq[d].leader = d}
        l == CHOOSE d \in leaders : \A e \in leaders : d <= e
    IN  /\ Steady /\ srq[c].online = "no"
        /\ IF leaders = {} THEN core' = [core EXCEPT ![c].warn = TRUE] /\ UNCHANGED srq
           ELSE /\ srq' = [srq EXCEPT ![c].leader = l, ![c].online = "yes"]
                /\ core' = [core EXCEPT ![l].warn = @ \/ srq[c].leader # c \/ \E d \in smt_mask(srq) : srq[d].leader # l]

Next ==
    \E c \in Smt :
        \/ \E t \in Cookied : Wake(t, c) \/ \E d \in Smt : Migrate(t, c, d)
        \/ \E block \in BOOLEAN : StartSchedule(c, block)
        \/ pick_next_task(c)
        \/ \E d \in Smt : try_steal_cookie(c, d)
        \/ sched_core_cpu_deactivate(c) \/ sched_core_cpu_dying(c) \/ sched_core_cpu_starting(c)

Spec == Init /\ [][Next]_coreVars

-----------------------------------------------------------------------------
(* Properties                                                              *)

InUser(c) == srq[c].online # "no" /\ srq[c].stage # "pick" /\ ~srq[c].need /\ ~IsIdle(srq[c].cur)

\* "no inter-sibling overlap between non-matching user state": two siblings without a pending reschedule run tasks of
\* one cookie; and the WARN_ON_ONCEs about the picks and the leader never fire.
OneCookie ==
    /\ \A c, d \in Smt : InUser(c) /\ InUser(d) => CookieOf(srq[c].cur) = CookieOf(srq[d].cur)
    /\ \A c \in Smt : ~core[c].warn

\* A pick made by a sibling and taken later is a task that is queued on that CPU ("the task pointers are all still
\* valid"), and no task runs on two.
PickValid ==
    /\ \A c \in Smt : srq[c].stage # "pick" /\ ~IsIdle(srq[c].cur) => srq[c].cur \in srq[c].queue
    /\ \A c \in Smt : srq[c].tree = {t \in srq[c].queue : Cookie[t] # 0}
    /\ \A c, d \in Smt : c # d => srq[c].cur # srq[d].cur

\* A CPU idles with tasks queued only while a sibling's cookie forces it: the end of that always reschedules it.
ForcedOnly ==
    \A c \in Smt :
        /\ srq[c].online # "no" /\ srq[c].stage = "run" /\ ~srq[c].need /\ srq[c].cur = IdleOf[c] /\ srq[c].queue # {}
        => \E d \in Smt \ {c} : srq[d].online # "no" /\ (srq[d].stage = "pick" \/ srq[d].need \/ ~IsIdle(srq[d].cur))

\* pick_next_task on the siblings of a core: tasks of different cookies never run in
\* user mode together, and forced idle is neither forgotten nor forced for nothing.
CoreSchedInv == OneCookie /\ PickValid /\ ForcedOnly
=============================================================================
