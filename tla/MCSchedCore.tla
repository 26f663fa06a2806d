---------------------------- MODULE MCSchedCore ----------------------------
(* The models of what CPUs do to each other: core.c, preempt.h, the pushes *)
(* and pulls of rt.c and the idle balancing of fair.c, checked side by     *)
(* side: part says which of them the behaviour is of.                      *)
EXTENDS Preempt, Sequences

CONSTANT Nothing

\* The variables of whichever part it is, in the order its module declares them;
\* Preempt has its own.
VARIABLES part, v1, v2, v3, v4, v5, v6, v7

Cpus2 == {1, 2}
Tasks2 == {"a", "b"}
Tasks3 == {"a", "b", "c"}
Ones == {1}

\* p sleeps, is woken, is moved and dies; q competes with it on the CPU it is on.
Competing == {"p", "q"}
Sleeping == {"p"}
Wake == INSTANCE Wakeup WITH
    WakeCpus <- Cpus2, WakeTasks <- Competing, Sleepers <- Sleeping, Idle <- "idle", Free <- Nothing,
    tk <- v1, cp <- v2, wk <- v3, mv <- v4, cf <- v5, seen <- v6

Setters == {"x", "y", "z"}
Aff == INSTANCE Affinity WITH
    AffCpus <- Cpus2, Callers <- Setters, NoCaller <- Nothing,
    p <- v1, pend <- v2, call <- v3, stops <- v4, stopper <- v5, completing <- v6

\* A task that moves freely, one bound to CPU 1, a per-CPU and another kernel thread.
OnCpu1 == {"u", "v", "k", "w"}
BoundTask == {"v"}
PerCpuThread == {"k"}
Kthread == {"w"}
Waker == {"r"}
Plug == INSTANCE Hotplug WITH
    HpTasks <- OnCpu1, PerCpu <- PerCpuThread, Kthreads <- Kthread, Bound <- BoundTask,
    Remotes <- Waker, Stop <- "stop", Hp <- "hp", IdleTask <- "idle",
    th <- v1, rq1 <- v2, hp <- v3, spliced <- v4

Groups == <<"R", "G">>
RtOne == {"b"}
Clamp == INSTANCE Uclamp WITH
    UcTasks <- Tasks2, RtTask <- RtOne, Tree <- Groups, Requests <- Ones,
    MaxWrites <- 2, Scale <- 2, BucketDelta <- 2,
    uc <- v1, uq <- v2, tg <- v3, deflt <- v4, wr <- v5, writes <- v6

Cid == INSTANCE MmCid WITH
    NrPossible <- 4, Threads <- Tasks3, Online <- Cpus2, NoThread <- Nothing,
    mc <- v1, cid <- v2, pcp <- v3, run <- v4, life <- v5, fix <- v6, dry <- v7

\* Two tasks of one cookie and one without; and tasks of two cookies.
Ranks == [a |-> 1, b |-> 2, c |-> 3]
OneOrNone == [a |-> 1, b |-> 0, c |-> 1]
OneOrTwo == [a |-> 1, b |-> 2]
IdleTasks == [c \in Cpus2 |-> IF c = 1 THEN "i1" ELSE "i2"]
Core == INSTANCE CoreSched WITH
    Smt <- Cpus2, Cookied <- Tasks3, Cookie <- OneOrNone, Rank <- Ranks, IdleOf <- IdleTasks, NoPick <- "none",
    srq <- v1, core <- v2
CoreTwo == INSTANCE CoreSched WITH
    Smt <- Cpus2, Cookied <- Tasks2, Cookie <- OneOrTwo, Rank <- Ranks, IdleOf <- IdleTasks, NoPick <- "none",
    srq <- v1, core <- v2

JustB == {"b"}
Prios3 == [a |-> 0, b |-> 1, c |-> 2]
BothOrFirst == {Cpus2, Ones}
RtPushing == INSTANCE RtPush WITH
    RtCpus <- Cpus2, RtTasks <- Tasks3, Prio <- Prios3,
    MAX_PRIO <- 3, Affinities <- BothOrFirst, Disabling <- JustB,
    rp <- v1, pushing <- v2, window <- v3, pulling <- v4

Nohz == INSTANCE NohzBalance WITH NrNohz <- 2, Woken <- Ones, nz <- v1, ncpu <- v2

-----------------------------------------------------------------------------
\* The variables that a part does not have.
None7 == v7 = 0
None5 == v5 = 0 /\ v6 = 0 /\ v7 = 0
None3 == v3 = 0 /\ v4 = 0 /\ v5 = 0 /\ v6 = 0 /\ v7 = 0
None1 == v1 = 0 /\ v2 = 0 /\ v3 = 0 /\ v4 = 0 /\ v5 = 0 /\ v6 = 0 /\ v7 = 0

SideInit ==
  /\ PreemptInit
  /\ \/ part = "wakeup" /\ Wake!Init /\ None7
     \/ part = "affinity" /\ Aff!Init /\ None7
     \/ part = "hotplug" /\ Plug!Init /\ None5
     \/ part = "uclamp" /\ Clamp!Init /\ None7
     \/ part = "cid" /\ Cid!Init
     \/ part = "core" /\ Core!Init /\ None3
     \/ part = "cookies" /\ CoreTwo!Init /\ None3
     \/ part = "push" /\ RtPushing!Init /\ None5
     \/ part = "preempt" /\ None1
     \/ part = "nohz" /\ Nohz!Init /\ None3

SideNext ==
    \/ part = "wakeup" /\ Wake!Next /\ UNCHANGED <<ppVars, part, v7>>
    \/ part = "affinity" /\ Aff!Next /\ UNCHANGED <<ppVars, part, v7>>
    \/ part = "hotplug" /\ Plug!Next /\ UNCHANGED <<ppVars, part, v5, v6, v7>>
    \/ part = "uclamp" /\ Clamp!Next /\ UNCHANGED <<ppVars, part, v7>>
    \/ part = "cid" /\ Cid!Next /\ UNCHANGED <<ppVars, part>>
    \/ part = "core" /\ Core!Next /\ UNCHANGED <<ppVars, part, v3, v4, v5, v6, v7>>
    \/ part = "cookies" /\ CoreTwo!Next /\ UNCHANGED <<ppVars, part, v3, v4, v5, v6, v7>>
    \/ part = "push" /\ RtPushing!Next /\ UNCHANGED <<ppVars, part, v5, v6, v7>>
    \/ part = "preempt" /\ PreemptNext /\ UNCHANGED <<part, v1, v2, v3, v4, v5, v6, v7>>
    \/ part = "nohz" /\ Nohz!Next /\ UNCHANGED <<ppVars, part, v3, v4, v5, v6, v7>>

-----------------------------------------------------------------------------
\* Wakeups: whatever try_to_wake_up, __schedule, a migration and a function called
\* under the locks overlap, no task is on two CPUs, no wakeup is lost, a dead task
\* is dropped once, and what wait_task_inactive found stays off its CPU.
WakeupInv == part = "wakeup" => Wake!WakeupInv

\* Affinity: a set_affinity_pending lives as long as anybody uses it, a caller
\* returns with the task where its mask says, and none waits for nothing.  The mask is
\* not honoured in one case: a late stop work finds the task on another CPU, pinned
\* there by migrate_disable, and completes the call.
AffinityInv == part = "affinity" => Aff!AffinityInv

\* Hotplug: a CPU that dies has nobody left on it, whoever was woken, pinned or
\* split off its callback list meanwhile, and the hotplug thread is woken.
HotplugInv == part = "hotplug" => Plug!HotplugInv



\* Core scheduling: siblings in user mode run tasks of one cookie, a pick made for a
\* sibling is used only while it is valid, and a CPU idles by force only while a
\* sibling runs or is about to pick.
CoreSchedInv ==
    /\ part = "core" => Core!CoreSchedInv
    /\ part = "cookies" => CoreTwo!CoreSchedInv

\* RT push and pull: the pushable lists and the overload mask are exact, and when
\* all is quiet no task waits for a CPU that runs something less important.
RtPushInv == part = "push" => RtPushing!RtPushInv

\* Idle balancing: no CPU's blocked load or tickless newcomer is lost between the
\* flags, the mask and the walks, the kick's csd has one owner, and the mask and the
\* busy count are exact.
NohzInv == part = "nohz" => Nohz!NohzInv
=============================================================================
