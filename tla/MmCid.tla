-------------------------------- MODULE MmCid --------------------------------
(***************************************************************************)
(* core.c: concurrency ids of an mm.  A cid belongs to a thread (per task  *)
(* mode), to a CPU (per CPU mode), or is in transit: held by a running     *)
(* thread until it is switched out.  fork and exit flip the mode under     *)
(* mm_cid.mutex and then walk the threads or the CPUs, taking one rq lock  *)
(* at a time, while the threads are switched everywhere.                   *)
(* mm_cid_schedin, mm_cid_schedout and the bitmap are in sched.h, which is *)
(* not in the tree: they follow the protocol that core.c describes.        *)
(***************************************************************************)
EXTENDS Integers, FiniteSets, Sequences, SequencesExt

CONSTANTS
    NrPossible,     \* num_possible_cpus()
    Threads,        \* threads of the mm
    Online,         \* CPUs where threads of the mm may be allowed
    NoThread        \* rq->curr is not of this mm

VARIABLES
    mc,     \* mm->mm_cid: on and transit (mode), user_list, max_cids, allowed, pcpu_thrs, update_deferred, cidmask
    cid,    \* cid[t]: t->mm_cid.cid
    pcp,    \* pcp[c]: mm->mm_cid.pcpu->cid of CPU c
    run,    \* run[c]: rq->curr
    life,   \* life[t]: "new", "live" (mm_cid.active), "leaving", "dead"
    fix,    \* the fixup in progress under mm_cid.mutex: which, by whom, what is left of the walk, the forked child
    dry     \* history: mm_get_cid found no cid

cidVars == <<mc, cid, pcp, run, life, fix, dry>>

Possible == 1..NrPossible
CidIds == 0..(NrPossible - 1)
UNSET == [own |-> "unset", id |-> 0]
Own(k, i) == [own |-> k, id |-> i]
NoFix == [way |-> "none", by |-> NoThread, todo |-> <<>>, child |-> NoThread]
Smaller(x, y) == IF x < y THEN x ELSE y
Larger(x, y) == IF x > y THEN x ELSE y
Least(S) == CHOOSE x \in S : \A y \in S : x <= y
ActiveOn(c) == run[c] # NoThread /\ life[run[c]] = "live"
CpuOf(t) == CHOOSE c \in Possible : run[c] = t
Running(t) == \E c \in Possible : run[c] = t

-----------------------------------------------------------------------------
(* The bitmap.  A step works on s = [mc, cid, pcp, dry].                   *)

Now == [mc |-> mc, cid |-> cid, pcp |-> pcp, dry |-> dry]
Becomes(s) == mc' = s.mc /\ cid' = s.cid /\ pcp' = s.pcp /\ dry' = s.dry

\* Below max_cids if there is one, else any; it spins when there is none.
mm_get_cid(s) ==
    LET free == CidIds \ s.mc.mask
        near == {i \in free : i < s.mc.max_cids}
    IN  Least(IF near # {} THEN near ELSE IF free # {} THEN free ELSE CidIds)
Taken(s) == [s EXCEPT !.mc.mask = @ \cup {mm_get_cid(s)}, !.dry = @ \/ CidIds \subseteq s.mc.mask]
mm_drop_cid(s, i) == [s EXCEPT !.mc.mask = @ \ {i}]

mm_drop_cid_on_cpu(s, c) ==
    IF s.pcp[c].own = "cpu" THEN mm_drop_cid([s EXCEPT !.pcp[c].own = "task"], s.pcp[c].id) ELSE s
mm_unset_cid_on_task(s, t) ==
    LET u == [s EXCEPT !.cid[t] = UNSET] IN IF s.cid[t].own = "task" THEN mm_drop_cid(u, s.cid[t].id) ELSE u
SetBoth(s, t, c, x) == [s EXCEPT !.cid[t] = x, !.pcp[c] = x]

\* A cid out of the range that is needed now is given back for one inside, if there is one.
Converged(s, x) ==
    LET near == {i \in CidIds \ s.mc.mask : i < s.mc.max_cids}
    IN  IF x.id < s.mc.max_cids \/ near = {} THEN [s |-> s, x |-> x]
        ELSE [s |-> [mm_drop_cid(s, x.id) EXCEPT !.mc.mask = @ \cup {Least(near)}], x |-> [x EXCEPT !.id = Least(near)]]

\* The owner of the present mode keeps its cid, or takes the other's, or a new one; in transit during a transition.
Handover(s, t, c) ==
    LET ofTask == s.cid[t].own = "task"
        ofCpu == s.pcp[c].own = "cpu"
        i == IF ofCpu /\ (s.mc.on \/ ~ofTask) THEN s.pcp[c].id ELSE IF ofTask THEN s.cid[t].id ELSE mm_get_cid(s)
        rest == CASE ofCpu /\ ofTask /\ s.mc.on -> mm_unset_cid_on_task(s, t)
                  [] ofCpu /\ ofTask /\ ~s.mc.on -> mm_drop_cid_on_cpu(s, c)
                  [] ~ofCpu /\ ~ofTask -> Taken(s)
                  [] OTHER -> s
        own == IF s.mc.transit THEN "transit" ELSE IF s.mc.on THEN "cpu" ELSE "task"
    IN  SetBoth(rest, t, c, Own(own, i))

mm_cid_schedin(s, t, c) ==
    LET mode == IF s.mc.on THEN "cpu" ELSE "task"
        mine == Converged(s, IF s.mc.on THEN s.pcp[c] ELSE s.cid[t])
    IN  IF life[t] # "live" THEN s
        ELSE IF s.cid[t].own = mode /\ s.pcp[c].own = mode THEN SetBoth(mine.s, t, c, mine.x)
        ELSE Handover(s, t, c)

mm_cid_schedout(s, t, c) ==
    LET i == s.cid[t].id
    IN  IF s.cid[t].own # "transit" THEN s
        ELSE IF ~s.mc.transit /\ i < s.mc.max_cids THEN SetBoth(s, t, c, Own(IF s.mc.on THEN "cpu" ELSE "task", i))
        ELSE mm_drop_cid([s EXCEPT !.cid[t] = UNSET], i)

\* mm_cid_switch_to, in context_switch under the rq lock
Switch(c, next) ==
    LET out == IF run[c] = NoThread THEN Now ELSE mm_cid_schedout(Now, run[c], c)
    IN  /\ next # run[c]
        /\ next # NoThread => life[next] \in {"live", "leaving"} /\ ~Running(next) /\ c \in mc.allowed
        /\ Becomes(IF next = NoThread THEN out ELSE mm_cid_schedin(out, next, c))
        /\ run' = [run EXCEPT ![c] = next]
        /\ UNCHANGED <<life, fix>>

-----------------------------------------------------------------------------
(* The range of cids and the mode                                          *)

Users(m) == Len(m.user_list)
OptCids(m) == Smaller(Cardinality(m.allowed), Users(m))
__mm_update_max_cids(m) ==
    [m EXCEPT !.max_cids = Smaller(OptCids(m) + (OptCids(m) \div 4), NrPossible)]
mm_cid_calc_pcpu_thrs(m) ==
    Larger(Smaller(OptCids(m) - (OptCids(m) \div 4), NrPossible \div 2), 1)

mm_update_max_cids(m) ==
    LET n == __mm_update_max_cids([m EXCEPT !.update_deferred = FALSE])
        thrs == IF ~n.on THEN IF Users(n) > n.max_cids THEN mm_cid_calc_pcpu_thrs(n) ELSE n.pcpu_thrs
                ELSE IF Users(n) < n.pcpu_thrs THEN 0 ELSE n.pcpu_thrs
    IN  IF n.on = (thrs # 0) THEN [n EXCEPT !.pcpu_thrs = thrs]
        ELSE [n EXCEPT !.pcpu_thrs = thrs, !.on = ~@, !.transit = ~@]

\* Under the rq lock of the thread whose affinity changes
mm_update_cpus_allowed(c) ==
    LET m == __mm_update_max_cids([mc EXCEPT !.allowed = @ \cup {c}])
        n == [m EXCEPT !.pcpu_thrs = mm_cid_calc_pcpu_thrs(m)]
    IN  /\ Users(mc) > 0 /\ c \in Online \ mc.allowed
        /\ mc' = IF ~m.on THEN m ELSE [n EXCEPT !.update_deferred = @ \/ Users(n) < n.pcpu_thrs]
        /\ UNCHANGED <<cid, pcp, run, life, fix, dry>>

mm_init_cid(c) ==
    [on |-> FALSE, transit |-> FALSE, user_list |-> <<>>, max_cids |-> 0, allowed |-> {c}, pcpu_thrs |-> 0,
     update_deferred |-> FALSE, mask |-> {}]

-----------------------------------------------------------------------------
(* fork and exit                                                           *)

mm_cid_transit_to_task(s, t, c) ==
    IF s.cid[t].own = "cpu" THEN SetBoth(s, t, c, Own("transit", s.cid[t].id)) ELSE s
mm_cid_transit_to_cpu(s, t, c) ==
    IF s.cid[t].own = "task" THEN SetBoth(s, t, c, Own("transit", s.cid[t].id)) ELSE s

sched_mm_cid_add_user(s, t) == [s EXCEPT !.mc = mm_update_max_cids([@ EXCEPT !.user_list = <<t>> \o @])]

\* The first user, who also comes here after an exec
FirstUser(t, c) ==
    LET s == sched_mm_cid_add_user([mc |-> mm_init_cid(c), cid |-> [u \in Threads |-> UNSET],
                                    pcp |-> [d \in Possible |-> UNSET], dry |-> FALSE], t)
    IN  SetBoth(Taken(s), t, c, Own("task", mm_get_cid(s)))

sched_mm_cid_fork(t, new) ==
    LET s == sched_mm_cid_add_user(Now, new)
        c == CpuOf(t)
        flipped == s.mc.on # mc.on
        todo == IF s.mc.on THEN SelectSeq(s.mc.user_list, LAMBDA u : u # t) ELSE [i \in Possible |-> i]
    IN  /\ fix = NoFix /\ Running(t) /\ life[t] = "live" /\ life[new] = "new"
        /\ \/ /\ ~flipped
              /\ Becomes(IF s.mc.on THEN s ELSE [Taken(s) EXCEPT !.cid[new] = Own("task", mm_get_cid(s))])
              /\ life' = [life EXCEPT ![new] = "live"]
              /\ UNCHANGED fix
           \/ /\ flipped
              /\ Becomes(IF s.mc.on THEN mm_cid_transit_to_cpu(s, t, c) ELSE mm_cid_transit_to_task(s, t, c))
              /\ fix' = [way |-> IF s.mc.on THEN "to_cpus" ELSE "to_tasks", by |-> t, todo |-> todo, child |-> new]
              /\ UNCHANGED life
        /\ UNCHANGED run

sched_mm_cid_remove_user(s, t) ==
    LET u == mm_unset_cid_on_task([s EXCEPT !.cid[t].own = IF @ = "transit" THEN "task" ELSE @], t)
    IN  [u EXCEPT !.mc = mm_update_max_cids([@ EXCEPT !.user_list = SelectSeq(@, LAMBDA x : x # t)])]

sched_mm_cid_exit(t) ==
    LET c == CpuOf(t)
        last == Users(mc) = 1
        s == sched_mm_cid_remove_user(IF last THEN mm_cid_transit_to_task(Now, t, c) ELSE Now, t)
        flipped == ~last /\ s.mc.on # mc.on
    IN  /\ fix = NoFix /\ Running(t) /\ life[t] = "live"
        /\ Becomes(IF flipped THEN mm_drop_cid_on_cpu(s, c) ELSE s)
        /\ fix' = IF flipped THEN [way |-> "to_tasks", by |-> t, todo |-> [i \in Possible |-> i], child |-> NoThread] ELSE fix
        /\ life' = [life EXCEPT ![t] = IF flipped THEN "leaving" ELSE "dead"]
        /\ UNCHANGED run

-----------------------------------------------------------------------------
(* The walks, in the context of the forking or exiting thread              *)

Walking(way) == fix.way = way /\ Running(fix.by)


mm_cid_fixup_task_to_cpu ==
    LET t == Head(fix.todo)
    IN  /\ Walking("to_cpus") /\ fix.todo # <<>>
        /\ Becomes(IF cid[t].own # "task" THEN Now
                   ELSE IF Running(t) THEN mm_cid_transit_to_cpu(Now, t, CpuOf(t)) ELSE mm_unset_cid_on_task(Now, t))
        /\ fix' = [fix EXCEPT !.todo = Tail(@)]
        /\ UNCHANGED <<run, life>>

mm_cid_fixup_cpu_to_task ==
    LET c == Head(fix.todo)
    IN  /\ Walking("to_tasks") /\ fix.todo # <<>>
        /\ Becomes(IF pcp[c].own = "cpu"
                   THEN IF ActiveOn(c) THEN mm_cid_transit_to_task(Now, run[c], c) ELSE mm_drop_cid_on_cpu(Now, c)
                   ELSE IF ActiveOn(c) /\ cid[run[c]].own # "transit" THEN SetBoth(Now, run[c], c, Own("transit", cid[run[c]].id))
                   ELSE Now)
        /\ fix' = [fix EXCEPT !.todo = Tail(@)]
        /\ UNCHANGED <<run, life>>

\* Then the mutex is released; the child of a fork becomes runnable, an exiting thread is done.
mm_cid_complete_transit ==
    /\ fix # NoFix /\ Running(fix.by) /\ fix.todo = <<>>
    /\ mc' = [mc EXCEPT !.transit = FALSE]
    /\ life' = [t \in Threads |-> IF t = fix.child THEN "live" ELSE IF life[t] = "leaving" THEN "dead" ELSE life[t]]
    /\ fix' = NoFix
    /\ UNCHANGED <<cid, pcp, run, dry>>

\* The mm is gone: another program starts.
Exec(t, c) ==
    /\ mc.user_list = <<>> /\ \A d \in Possible : run[d] = NoThread
    /\ Becomes(FirstUser(t, c))
    /\ life' = [u \in Threads |-> IF u = t THEN "live" ELSE "new"]
    /\ run' = [run EXCEPT ![c] = t]
    /\ UNCHANGED fix

-----------------------------------------------------------------------------

Init ==
    \E t \in Threads, c \in Online :
        /\ LET s == FirstUser(t, c) IN mc = s.mc /\ cid = s.cid /\ pcp = s.pcp /\ dry = s.dry
        /\ life = [u \in Threads |-> IF u = t THEN "live" ELSE "new"]
        /\ run = [d \in Possible |-> IF d = c THEN t ELSE NoThread]
        /\ fix = NoFix

Next ==
    \/ \E c \in Online, t \in Threads \cup {NoThread} : Switch(c, t)
    \/ \E c \in Online : mm_update_cpus_allowed(c)
    \/ \E t, new \in Threads : sched_mm_cid_fork(t, new)
    \/ \E t \in Threads : sched_mm_cid_exit(t)
    \/ mm_cid_fixup_task_to_cpu \/ mm_cid_fixup_cpu_to_task \/ mm_cid_complete_transit
    \/ \E t \in Threads, c \in Online : Exec(t, c)

Spec == Init /\ [][Next]_cidVars

-----------------------------------------------------------------------------
(* Properties                                                              *)

TaskOwned == {t \in Threads : cid[t].own \in {"task", "transit"}}
CpuOwned == {c \in Possible : pcp[c].own = "cpu"}

\* The bitmap has the cids that threads and CPUs own, each with one owner, so two running threads never share one
\* and none leaks, whatever switches come between the steps of a walk.
OneOwner ==
    /\ mc.mask = {cid[t].id : t \in TaskOwned} \cup {pcp[c].id : c \in CpuOwned}
    /\ Cardinality(mc.mask) = Cardinality(TaskOwned) + Cardinality(CpuOwned)
    /\ \A c \in Possible : ActiveOn(c) => cid[run[c]].own # "unset" /\ cid[run[c]] = pcp[c]

\* "When mm_cid_fixup_tasks_to_cpus() completes it is guaranteed that no task related to that MM owns a CID anymore",
\* and no CPU after the other walk; a cid is in transit only while its thread runs.
WalkComplete ==
    /\ ~mc.transit /\ mc.on => \A t \in Threads : cid[t].own # "task"
    /\ ~mc.transit /\ ~mc.on => CpuOwned = {}
    /\ mc.transit => fix # NoFix \/ mc.user_list = <<>>
    /\ \A t \in Threads : cid[t].own = "transit" => Running(t)

\* mm_get_cid, which spins under an rq lock, always finds a free cid: the two phases avoid "CID space exhaustion".
\* Only forks switch to per CPU mode and only exits switch back: an affinity change never leaves it to the deferred work.
NeverDry ==
    /\ ~dry /\ ~mc.update_deferred
    /\ fix # NoFix => (fix.way = "to_cpus" <=> fix.child # NoThread)

=============================================================================
