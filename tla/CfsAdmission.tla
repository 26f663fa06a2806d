----------------------------- MODULE CfsAdmission -----------------------------
(***************************************************************************)
(* core.c: writes of cpu.max and of the cfs_period_us, cfs_quota_us and    *)
(* cfs_burst_us files.  A writer reads the values that it does not write   *)
(* without a lock; the walk over the groups under cfs_constraints_mutex    *)
(* checks the new quota and stores every group's hierarchical_quota as it  *)
(* goes.  Groups are created and released meanwhile.                       *)
(***************************************************************************)
EXTENDS Integers, FiniteSets, Sequences, TLC

CONSTANTS
    CfsTree,        \* the groups in the order of the walk, the root first
    ParentOf,       \* the parent of each other group
    QuotaWriters,
    CfsPeriods, CfsQuotas, CfsBursts,   \* values that are written, in usecs
    DefaultPeriod,  \* default_bw_period_us()
    QUOTA_INF,      \* RUNTIME_INF
    MinUs, MaxUs,   \* min_bw_quota_period_us, max_bw_quota_period_us
    MaxRuntime,     \* max_bw_runtime_us
    BwUnit          \* 1 << BW_SHIFT

VARIABLES
    cfs,    \* cfs[g]: st ("none", "alloc", "online") and the cfs_bandwidth: period, quota, burst, hier;
            \* late is history: hier was copied from the parent before a write that did not see g
    qw,     \* qw[w]: the write in progress: group, period, quota, burst
    dfl     \* cgroup_subsys_on_dfl(cpu_cgrp_subsys): cgroup v2

admVars == <<cfs, qw, dfl>>

CfsGroups == {CfsTree[i] : i \in 1..Len(CfsTree)}
Top == CfsTree[1]
Up(g) == ParentOf[g]
NoWrite == [at |-> "idle", g |-> Top, period |-> 0, quota |-> 0, burst |-> 0]
to_ratio(period, quota) == (quota * BwUnit) \div period
Online(g) == cfs[g].st = "online"

init_cfs_bandwidth(st, hier, late) ==
    [st |-> st, period |-> DefaultPeriod, quota |-> QUOTA_INF, burst |-> 0, hier |-> hier, late |-> late]

Init ==
    /\ cfs = [g \in CfsGroups |-> init_cfs_bandwidth(IF g = Top THEN "online" ELSE "none", QUOTA_INF, FALSE)]
    /\ qw = [w \in QuotaWriters |-> NoWrite]
    /\ dfl \in BOOLEAN

-----------------------------------------------------------------------------
(* Groups                                                                  *)

sched_create_group(g) ==
    /\ g # Top /\ cfs[g].st = "none" /\ Online(Up(g))
    /\ cfs' = [cfs EXCEPT ![g] = init_cfs_bandwidth("alloc", cfs[Up(g)].hier, cfs[Up(g)].late)]
    /\ UNCHANGED <<qw, dfl>>

sched_online_group(g) ==
    /\ cfs[g].st = "alloc"
    /\ cfs' = [cfs EXCEPT ![g].st = "online"]
    /\ UNCHANGED <<qw, dfl>>

\* cgroup removes a group without children, when the writes to its files are over.
sched_release_group(g) ==
    /\ g # Top /\ Online(g)
    /\ \A h \in CfsGroups \ {Top} : Up(h) = g => cfs[h].st = "none"
    /\ \A w \in QuotaWriters : qw[w].at = "idle" \/ qw[w].g # g
    /\ cfs' = [cfs EXCEPT ![g] = init_cfs_bandwidth("none", QUOTA_INF, FALSE)]
    /\ UNCHANGED <<qw, dfl>>

-----------------------------------------------------------------------------
(* Writes                                                                  *)

\* tg_bandwidth: the values not written are those of now.
Read(w, g, period, quota, burst) ==
    /\ qw[w].at = "idle" /\ Online(g)
    /\ qw' = [qw EXCEPT ![w] = [at |-> "set", g |-> g, period |-> period, quota |-> quota, burst |-> burst]]
    /\ UNCHANGED <<cfs, dfl>>

cpu_period_write_u64(w, g, x) == Read(w, g, x, cfs[g].quota, cfs[g].burst)
cpu_quota_write_s64(w, g, x) == Read(w, g, cfs[g].period, x, cfs[g].burst)
cpu_burst_write_u64(w, g, x) == Read(w, g, cfs[g].period, cfs[g].quota, x)
cpu_max_write(w, g, x, y) == Read(w, g, x, y, cfs[g].burst)

\* What tg_set_bandwidth refuses
BadBandwidth(q) ==
    \/ q.g = Top
    \/ q.quota < MinUs \/ q.period < MinUs \/ q.period > MaxUs
    \/ q.quota # QUOTA_INF /\ (q.quota > MaxRuntime \/ q.burst > q.quota \/ q.burst + q.quota > MaxRuntime)

\* The values the walk for write q uses for group g
normalize_cfs_quota(g, q) ==
    LET b == IF g = q.g THEN q ELSE cfs[g] IN IF b.quota = QUOTA_INF THEN QUOTA_INF ELSE to_ratio(b.period, b.quota)

Least2(x, y) == IF x < y THEN x ELSE y

\* Mutant: a group without a limit of its own does not inherit its parent's.
tg_cfs_schedulable_down_own(hier, g, q) ==
    LET quota == normalize_cfs_quota(g, q)
    IN  [ok |-> g = Top \/ quota = QUOTA_INF \/ hier[Up(g)] = QUOTA_INF \/ dfl \/ quota <= hier[Up(g)],
         v |-> IF g = Top \/ quota = QUOTA_INF THEN QUOTA_INF ELSE quota]

\* One group of the walk: ok becomes FALSE where it returns -EINVAL.
tg_cfs_schedulable_down(hier, g, q) ==
    LET quota == normalize_cfs_quota(g, q)
        parent_quota == hier[Up(g)]
    IN  IF g = Top THEN [ok |-> TRUE, v |-> QUOTA_INF]
        ELSE IF quota = QUOTA_INF THEN [ok |-> TRUE, v |-> parent_quota]
        ELSE IF parent_quota = QUOTA_INF THEN [ok |-> TRUE, v |-> quota]
        ELSE IF dfl THEN [ok |-> TRUE, v |-> Least2(quota, parent_quota)]
        ELSE [ok |-> quota <= parent_quota, v |-> quota]

\* walk_tg_tree over the groups that are online, up to the first that refuses
__cfs_schedulable(q) ==
    LET tree == SelectSeq(CfsTree, Online)
        walk[i \in 0..Len(tree)] ==
            IF i = 0 THEN [hier |-> [g \in CfsGroups |-> cfs[g].hier], ok |-> TRUE]
            ELSE LET s == walk[i - 1]
                     d == tg_cfs_schedulable_down(s.hier, tree[i], q)
                 IN  IF s.ok /\ d.ok THEN [s EXCEPT !.hier[tree[i]] = d.v] ELSE [s EXCEPT !.ok = FALSE]
    IN  walk[Len(tree)]

\* The walk does not reach a group that is allocated and not yet online.
tg_set_cfs_bandwidth(w) ==
    LET q == qw[w]
        res == __cfs_schedulable(q)
        late(g) == cfs[g].st = "alloc" \/ (cfs[g].late /\ ~res.ok)
        stored == [g \in CfsGroups |-> [cfs[g] EXCEPT !.hier = res.hier[g], !.late = late(g)]]
    IN  /\ q.at = "set"
        /\ cfs' = IF BadBandwidth(q) THEN cfs
                  ELSE IF ~res.ok THEN stored
                  ELSE [stored EXCEPT ![q.g].period = q.period, ![q.g].quota = q.quota, ![q.g].burst = q.burst]
        /\ qw' = [qw EXCEPT ![w] = NoWrite]
        /\ UNCHANGED dfl

Next ==
    \/ \E g \in CfsGroups : sched_create_group(g) \/ sched_online_group(g) \/ sched_release_group(g)
    \/ \E w \in QuotaWriters, g \in CfsGroups :
          \/ ~dfl /\ \E x \in CfsPeriods : cpu_period_write_u64(w, g, x)
          \/ ~dfl /\ \E x \in CfsQuotas : cpu_quota_write_s64(w, g, x)
          \/ \E x \in CfsBursts : cpu_burst_write_u64(w, g, x)
          \/ dfl /\ \E x \in CfsPeriods, y \in CfsQuotas : cpu_max_write(w, g, x, y)
    \/ \E w \in QuotaWriters : tg_set_cfs_bandwidth(w)

Spec == Init /\ [][Next]_admVars

-----------------------------------------------------------------------------
(* Properties                                                              *)

Ratio(g) == IF cfs[g].quota = QUOTA_INF THEN QUOTA_INF ELSE to_ratio(cfs[g].period, cfs[g].quota)

Above(g) ==
    LET chain[i \in 0..Len(CfsTree)] == IF i = 0 THEN {g} ELSE chain[i - 1] \cup {Up(h) : h \in chain[i - 1] \ {Top}}
    IN  chain[Len(CfsTree)]
Limits(g) == {Ratio(h) : h \in Above(g)} \ {QUOTA_INF}

\* On cgroup v1, no group is allowed more than an ancestor; each write was checked with the period and quota that other
\* writers changed since they were read.
WithinParent ==
    ~dfl => \A g \in CfsGroups : \A h \in Above(g) :
        Online(g) /\ Ratio(g) # QUOTA_INF /\ Ratio(h) # QUOTA_INF => Ratio(g) <= Ratio(h)

\* hierarchical_quota, by which the tick is kept, shows a limit wherever there is one, refused writes included; on v2,
\* where the walk cannot fail, it is the smallest of the limits.  The exception are groups that copied their parent's
\* before a write and went online after its walk, and those made below them, until the next write that is admitted.
LimitSeen ==
    \A g \in CfsGroups :
        Online(g) /\ ~cfs[g].late /\ Limits(g) # {} =>
            /\ cfs[g].hier # QUOTA_INF
            /\ dfl => cfs[g].hier \in Limits(g) /\ \A x \in Limits(g) : cfs[g].hier <= x

\* The period, quota and burst in force were valid together when they were written.
ValidTogether == \A g \in CfsGroups \ {Top} : ~BadBandwidth([g |-> g] @@ cfs[g])

\* What __cfs_schedulable admits holds between the writes of concurrent callers, and what it
\* records reaches every group that was online for the walk.
CfsAdmissionInv == WithinParent /\ LimitSeen /\ ValidTogether
=============================================================================
