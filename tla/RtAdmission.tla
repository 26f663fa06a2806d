---------------------------- MODULE RtAdmission -----------------------------
(***************************************************************************)
(* rt.c: which real-time budgets the tree of task groups accepts.  Writers *)
(* of cpu.rt_runtime_us and cpu.rt_period_us read the other value before   *)
(* they take rt_constraints_mutex; the global limit is a sysctl that is    *)
(* stored, then validated, then perhaps taken back; a task is moved into a *)
(* group some time after the group has accepted it.                        *)
(***************************************************************************)
EXTENDS Integers, FiniteSetsExt

CONSTANTS
    Groups, Root,
    Parent,             \* Parent[g], for the groups below Root
    Writers,
    RtTasks,
    Periods, Runtimes,  \* the values that are written; RUNTIME_INF may be a runtime
    RUNTIME_INF,
    BW_UNIT             \* 1 << BW_SHIFT

VARIABLES
    rtb,        \* rtb[g]: period and runtime
    limit,      \* sysctl_sched_rt_period, sysctl_sched_rt_runtime
    undo,       \* what sched_rt_handler has saved while it validates, or <<>>
    writer,     \* writer[w]: the values that w is about to set, or <<>>
    member,     \* member[t]: the group of RT task t
    moving,     \* moving[t]: the group that has accepted t, or Nowhere
    late        \* history: tasks whose group lost its runtime unseen

admVars == <<rtb, limit, undo, writer, member, moving, late>>
Nowhere == "nowhere"
All == Groups \cup {Root}
Children(g) == {c \in Groups : Parent[c] = g}

to_ratio(b) == IF b.runtime = RUNTIME_INF THEN BW_UNIT ELSE (b.runtime * BW_UNIT) \div b.period

\* Root has what the sysctls say; alloc_rt_sched_group gives a new group nothing.
Init ==
    /\ \E p \in Periods : \E r \in Runtimes :
         /\ limit = [period |-> p, runtime |-> r] /\ r \in 1..p
         /\ rtb = [g \in All |-> [period |-> p, runtime |-> IF g = Root THEN r ELSE 0]]
    /\ undo = <<>> /\ writer = [w \in Writers |-> <<>>]
    /\ member = [t \in RtTasks |-> Root] /\ moving = [t \in RtTasks |-> Nowhere]
    /\ late = {}

tg_has_rt_tasks(g) == \E t \in RtTasks : member[t] = g

\* tg_rt_schedulable for group g, where f has the proposed values.
tg_rt_schedulable(f, g) ==
    /\ f[g].runtime <= f[g].period \/ f[g].runtime = RUNTIME_INF
    /\ ~(/\ limit.runtime # RUNTIME_INF /\ f[g].runtime = 0
         /\ rtb[g].runtime # 0 /\ tg_has_rt_tasks(g))
    /\ to_ratio(f[g]) <= to_ratio(limit)
    /\ MapThenSumSet(LAMBDA c : to_ratio(f[c]), Children(g)) <= to_ratio(f[g])


__rt_schedulable(f) == \A g \in All : tg_rt_schedulable(f, g)

-----------------------------------------------------------------------------
\* sched_group_set_rt_runtime and sched_group_set_rt_period: the value that is
\* not written is read here, without the mutex.
BeginWrite(w, g) ==
    /\ writer[w] = <<>>
    /\ \/ \E r \in Runtimes : writer' = [writer EXCEPT ![w] = <<g, [rtb[g] EXCEPT !.runtime = r]>>]
       \/ \E p \in Periods : writer' = [writer EXCEPT ![w] = <<g, [rtb[g] EXCEPT !.period = p]>>]
    /\ UNCHANGED <<rtb, limit, undo, member, moving, late>>

\* The tasks that the check for RT tasks cannot see, or does not look for.
Unseen(g) == {t \in RtTasks : moving[t] = g \/ (member[t] = g /\ limit.runtime = RUNTIME_INF)}

tg_set_rt_bandwidth(w) ==
    /\ writer[w] # <<>>
    /\ LET g == writer[w][1]
           new == [rtb EXCEPT ![g] = writer[w][2]]
           ok == ~(g = Root /\ new[g].runtime = 0) /\ __rt_schedulable(new)
       IN  /\ rtb' = IF ok THEN new ELSE rtb
           /\ late' = IF ok /\ new[g].runtime = 0 THEN late \cup Unseen(g) ELSE late
    /\ writer' = [writer EXCEPT ![w] = <<>>]
    /\ UNCHANGED <<limit, undo, member, moving>>

\* sched_rt_handler: proc_dointvec_minmax stores the value ...
SysctlStore(p, r) ==
    /\ undo = <<>>
    /\ r = RUNTIME_INF \/ r <= p
    /\ limit' = [period |-> p, runtime |-> r] /\ limit' # limit
    /\ undo' = <<limit>>
    /\ UNCHANGED <<rtb, writer, member, moving, late>>

\* ... which sched_rt_global_validate and sched_dl_global_validate accept or not.
\* The deadline class (not in the repository) can only object to less than it had.
SysctlValidate(dl_ok) ==
    /\ undo # <<>>
    /\ ~dl_ok => to_ratio(limit) < to_ratio(undo[1])
    /\ limit' = IF __rt_schedulable(rtb) /\ dl_ok THEN limit ELSE undo[1]
    /\ undo' = <<>>
    /\ UNCHANGED <<rtb, writer, member, moving, late>>

\* sched_rt_can_attach, in cpu_cgroup_can_attach
sched_rt_can_attach(t, g) ==
    /\ moving[t] = Nowhere /\ member[t] # g
    /\ rtb[g].runtime # 0
    /\ moving' = [moving EXCEPT ![t] = g]
    /\ UNCHANGED <<rtb, limit, undo, writer, member, late>>

cpu_cgroup_attach(t) ==
    /\ moving[t] # Nowhere
    /\ member' = [member EXCEPT ![t] = moving[t]]
    /\ moving' = [moving EXCEPT ![t] = Nowhere]
    /\ late' = IF rtb[moving[t]].runtime = 0 THEN late ELSE late \ {t}
    /\ UNCHANGED <<rtb, limit, undo, writer>>

Next ==
    \/ \E w \in Writers : (\E g \in All : BeginWrite(w, g)) \/ tg_set_rt_bandwidth(w)
    \/ \E p \in Periods, r \in Runtimes : SysctlStore(p, r)
    \/ \E dl_ok \in BOOLEAN : SysctlValidate(dl_ok)
    \/ \E t \in RtTasks : (\E g \in All : sched_rt_can_attach(t, g)) \/ cpu_cgroup_attach(t)

-----------------------------------------------------------------------------
\* "Nobody can have more than the global setting allows" and "The sum of our
\* children's runtime should not exceed our own", whatever is written at the same
\* time, and also after a global setting was tried and taken back.
Schedulable ==
    \A g \in All :
        /\ MapThenSumSet(LAMBDA c : to_ratio(rtb[c]), Children(g)) <= to_ratio(rtb[g])
        /\ undo = <<>> => to_ratio(rtb[g]) <= to_ratio(limit)

\* "Ensure we don't starve existing RT tasks if runtime turns zero": while the limit
\* is on, a task is without runtime only if it was on its way into the group, or
\* the limit was off, when the group lost it.
NoneStarved ==
    limit.runtime # RUNTIME_INF => \A t \in RtTasks : rtb[member[t]].runtime = 0 => t \in late

\* What __rt_schedulable admits holds between the writes, and no group with RT
\* tasks is left without runtime.
RtAdmissionInv == Schedulable /\ NoneStarved

Spec == Init /\ [][Next]_admVars
=============================================================================
