--------------------------- MODULE MCSchedClasses ---------------------------
(* The models of the queues and the bandwidth of rt.c and fair.c, and of   *)
(* the admission of CFS quotas in core.c, checked side by side: part says  *)
(* which of them the behaviour is of.                                      *)
EXTENDS RtoPush, Sequences, TLC

CONSTANT Nothing

\* The variables of whichever part it is, in the order its module declares them;
\* RtoPush has its own.
VARIABLES part, v1, v2, v3, v4, v5, v6, v7

Ones == {1}
Twos == {2}
OneTwo == {1, 2}
OneOrInf == {1, 99}
Cpus2 == {1, 2}
JustA == {"a"}
JustB == {"b"}
Tasks2 == {"a", "b"}
Tasks3 == {"a", "b", "c"}

-----------------------------------------------------------------------------
(* rt.c *)

\* H lies in G, which lies in the root; a and c are in H, d is in G, b in no group.
\* d is a normal task until it is boosted.
RtFour == {"a", "b", "c", "d"}
RtGroups == {"G", "H"}
RtAbove == [a |-> "H", c |-> "H", d |-> "G", H |-> "G", b |-> "R", G |-> "R"]
RtPrios == [a |-> 3, b |-> 2, c |-> 1, d |-> 5]
RtRq == INSTANCE RtRunqueue WITH
    Tasks <- RtFour, Groups <- RtGroups, Root <- "R", Above <- RtAbove, NormalPrio <- RtPrios,
    MAX_RT_PRIO <- 5, BoostPrios <- Twos,
    rq <- v1

\* Three rt_rqs, each with a third to lend to the others; and two with a budget
\* that changes.
Threes == {3}
Budgets == {2, 4, 99}
RtBw == INSTANCE RtBandwidth WITH
    NrCpus <- 3, Period <- 4, Runtimes <- Threes, RUNTIME_INF <- 99, Unplugged <- Threes, MaxTime <- 4,
    bw <- v1, rr <- v2, stray <- v3, leaked <- v4
RtBudget == INSTANCE RtBandwidth WITH
    NrCpus <- 2, Period <- 5, Runtimes <- Budgets, RUNTIME_INF <- 99, Unplugged <- Cpus2, MaxTime <- 6,
    bw <- v1, rr <- v2, stray <- v3, leaked <- v4

\* Two groups that compete, and one that may be unlimited.
SideBySide == {"A", "B"}
Alone == {"A"}
UnderRoot == [A |-> "R", B |-> "R"]
Writing == {"v", "w"}
RtOne == {"t"}
Fours == {4}
TwoFour == {2, 4}
ZeroOne == {0, 1}
OrUnlimited == {0, 1, 99}
Admit == INSTANCE RtAdmission WITH
    Groups <- SideBySide, Root <- "R", Parent <- UnderRoot,
    Writers <- Writing, RtTasks <- RtOne, Periods <- TwoFour, Runtimes <- ZeroOne,
    RUNTIME_INF <- 99, BW_UNIT <- 8,
    rtb <- v1, limit <- v2, undo <- v3, writer <- v4, member <- v5, moving <- v6, late <- v7
Limit == INSTANCE RtAdmission WITH
    Groups <- Alone, Root <- "R", Parent <- UnderRoot,
    Writers <- Writing, RtTasks <- RtOne, Periods <- Fours, Runtimes <- OrUnlimited,
    RUNTIME_INF <- 99, BW_UNIT <- 8,
    rtb <- v1, limit <- v2, undo <- v3, writer <- v4, member <- v5, moving <- v6, late <- v7

-----------------------------------------------------------------------------
(* fair.c *)

\* b runs with SCHED_IDLE.  a runs in H, which lies in G, and both groups have a
\* quota; or G has, with b in it, and H is made idle; or b changes its group and class;
\* or b does, and is a kernel thread.
Groups == <<"H", "G", "R">>
OneGroup == <<"G", "R">>
ParentOf == [H |-> "G", G |-> "R"]
Apart == [a |-> "H", b |-> "R"]
Below == [a |-> "H", b |-> "G"]
InOrOut == [a |-> "G", b |-> "R"]
JustG == {"G"}
JustH == {"H"}
Fair == INSTANCE FairQueue WITH
    FTasks <- Tasks2, FKthreads <- {}, IdlePolicy <- JustB, FGroups <- Groups,
    FParent <- ParentOf, Home <- Apart, Bw <- RtGroups, Movers <- {},
    Toggled <- {}, FIdle <- "idle", FNone <- Nothing,
    fq <- v1
FairIdle == INSTANCE FairQueue WITH
    FTasks <- Tasks2, FKthreads <- {}, IdlePolicy <- JustB, FGroups <- Groups,
    FParent <- ParentOf, Home <- Below, Bw <- JustG, Movers <- {},
    Toggled <- JustH, FIdle <- "idle", FNone <- Nothing,
    fq <- v1
FairMove == INSTANCE FairQueue WITH
    FTasks <- Tasks2, FKthreads <- {}, IdlePolicy <- JustB, FGroups <- OneGroup,
    FParent <- ParentOf, Home <- InOrOut, Bw <- JustG, Movers <- JustB,
    Toggled <- {}, FIdle <- "idle", FNone <- Nothing,
    fq <- v1
FairKthread == INSTANCE FairQueue WITH
    FTasks <- Tasks2, FKthreads <- JustB, IdlePolicy <- JustB, FGroups <- OneGroup,
    FParent <- ParentOf, Home <- InOrOut, Bw <- JustG, Movers <- JustB,
    Toggled <- {}, FIdle <- "idle", FNone <- Nothing,
    fq <- v1

\* Three groups in a line, and two writers.
Line == <<"R", "A", "B">>
LineParent == [A |-> "R", B |-> "A"]
Quota == INSTANCE CfsAdmission WITH
    CfsTree <- Line, ParentOf <- LineParent, QuotaWriters <- Writing, CfsPeriods <- OneTwo,
    CfsQuotas <- OneOrInf, CfsBursts <- Ones, DefaultPeriod <- 2, QUOTA_INF <- 99, MinUs <- 1,
    MaxUs <- 2, MaxRuntime <- 4, BwUnit <- 2,
    cfs <- v1, qw <- v2, dfl <- v3

\* The period timer with overruns, or with hotplug, or with the slack timer, and a
\* quota that comes and goes.
OneOrMax == {1, 5}
NoBurst == [q \in OneOrMax |-> 0]
PeriodTimer == {"period"}
BothTimers == {"period", "slack"}
CfsBw == INSTANCE CfsBandwidth WITH
    BwCpus <- Cpus2, Slice <- 1, MinKeep <- 0, Quotas <- OneOrMax, INF <- 5,
    BurstOf <- NoBurst, LoopLimit <- 0, Overruns <- BOOLEAN, MaxScale <- 1, MaxCharge <- 1,
    Timers <- PeriodTimer, TimerCpus <- Ones, Sleepy <- {}, MaxGifts <- 1,
    Pluggable <- {}, End <- Nothing,
    cb <- v1, lq <- v2, walk <- v3, wq <- v4
CfsPlug == INSTANCE CfsBandwidth WITH
    BwCpus <- Cpus2, Slice <- 1, MinKeep <- 0, Quotas <- OneOrMax, INF <- 5,
    BurstOf <- NoBurst, LoopLimit <- 0, Overruns <- {FALSE}, MaxScale <- 0, MaxCharge <- 1,
    Timers <- PeriodTimer, TimerCpus <- Ones, Sleepy <- {}, MaxGifts <- 1,
    Pluggable <- Twos, End <- Nothing,
    cb <- v1, lq <- v2, walk <- v3, wq <- v4
CfsSlack == INSTANCE CfsBandwidth WITH
    BwCpus <- Cpus2, Slice <- 1, MinKeep <- 0, Quotas <- OneOrMax, INF <- 5,
    BurstOf <- NoBurst, LoopLimit <- 1, Overruns <- {FALSE}, MaxScale <- 0, MaxCharge <- 1,
    Timers <- BothTimers, TimerCpus <- Twos, Sleepy <- Twos, MaxGifts <- 1,
    Pluggable <- {}, End <- Nothing,
    cb <- v1, lq <- v2, walk <- v3, wq <- v4

\* Two entities with everything that happens to them, and three that only compete.
Slices == [a |-> 2, b |-> 1, c |-> 1]
Loads == [a |-> 2, b |-> 1, c |-> 2]
Pair == INSTANCE Eevdf WITH
    Entities <- Tasks2, SliceOf <- Slices, WeightOf <- Loads, Weights <- OneTwo,
    Reweighted <- JustA, Moved <- Tasks2, Buddies <- Tasks2, Nice0 <- 2, Tick <- 1,
    Charges <- Ones, Rounding <- 1, MaxKey <- 5, NoEntity <- "none",
    ev <- v1
Three == INSTANCE Eevdf WITH
    Entities <- Tasks3, SliceOf <- Slices, WeightOf <- Loads, Weights <- OneTwo,
    Reweighted <- {}, Moved <- {}, Buddies <- {}, Nice0 <- 2, Tick <- 1,
    Charges <- Ones, Rounding <- 1, MaxKey <- 2, NoEntity <- "none",
    ev <- v1

-----------------------------------------------------------------------------
\* The variables that a part does not have.
None5 == v5 = 0 /\ v6 = 0 /\ v7 = 0
None4 == v4 = 0 /\ v5 = 0 /\ v6 = 0 /\ v7 = 0
None1 == v1 = 0 /\ v2 = 0 /\ v3 = 0 /\ v4 = 0 /\ v5 = 0 /\ v6 = 0 /\ v7 = 0
None2 == v2 = 0 /\ v3 = 0 /\ v4 = 0 /\ v5 = 0 /\ v6 = 0 /\ v7 = 0

SideInit ==
  /\ Init
  /\ \/ part = "rq" /\ RtRq!Init /\ None2
     \/ part = "bandwidth" /\ RtBw!Init /\ None5
     \/ part = "budget" /\ RtBudget!Init /\ None5
     \/ part = "admit" /\ Admit!Init
     \/ part = "limit" /\ Limit!Init
     \/ part = "rto" /\ None1
     \/ part = "fair" /\ Fair!Init /\ None2
     \/ part = "move" /\ FairMove!Init /\ None2
     \/ part = "kthread" /\ FairKthread!Init /\ None2
     \/ part = "idle" /\ FairIdle!Init /\ None2
     \/ part = "cfsadmit" /\ Quota!Init /\ None4
     \/ part = "quota" /\ CfsBw!Init /\ None5
     \/ part = "plug" /\ CfsPlug!Init /\ None5
     \/ part = "slack" /\ CfsSlack!Init /\ None5
     \/ part = "pair" /\ Pair!Init /\ None2
     \/ part = "three" /\ Three!Init /\ None2

SideNext ==
    \/ part = "rq" /\ RtRq!Next /\ UNCHANGED <<rtoVars, part, v2, v3, v4, v5, v6, v7>>
    \/ part = "bandwidth" /\ RtBw!Next /\ UNCHANGED <<rtoVars, part, v5, v6, v7>>
    \/ part = "budget" /\ RtBudget!Next /\ UNCHANGED <<rtoVars, part, v5, v6, v7>>
    \/ part = "admit" /\ Admit!Next /\ UNCHANGED <<rtoVars, part>>
    \/ part = "limit" /\ Limit!Next /\ UNCHANGED <<rtoVars, part>>
    \/ part = "rto" /\ Next /\ UNCHANGED <<part, v1, v2, v3, v4, v5, v6, v7>>
    \/ part = "fair" /\ Fair!Next /\ UNCHANGED <<rtoVars, part, v2, v3, v4, v5, v6, v7>>
    \/ part = "move" /\ FairMove!Next /\ UNCHANGED <<rtoVars, part, v2, v3, v4, v5, v6, v7>>
    \/ part = "kthread" /\ FairKthread!Next /\ UNCHANGED <<rtoVars, part, v2, v3, v4, v5, v6, v7>>
    \/ part = "idle" /\ FairIdle!Next /\ UNCHANGED <<rtoVars, part, v2, v3, v4, v5, v6, v7>>
    \/ part = "cfsadmit" /\ Quota!Next /\ UNCHANGED <<rtoVars, part, v4, v5, v6, v7>>
    \/ part = "quota" /\ CfsBw!Next /\ UNCHANGED <<rtoVars, part, v5, v6, v7>>
    \/ part = "plug" /\ CfsPlug!Next /\ UNCHANGED <<rtoVars, part, v5, v6, v7>>
    \/ part = "slack" /\ CfsSlack!Next /\ UNCHANGED <<rtoVars, part, v5, v6, v7>>
    \/ part = "pair" /\ Pair!Next /\ UNCHANGED <<rtoVars, part, v2, v3, v4, v5, v6, v7>>
    \/ part = "three" /\ Three!Next /\ UNCHANGED <<rtoVars, part, v2, v3, v4, v5, v6, v7>>

-----------------------------------------------------------------------------
\* The RT runqueue: the counts, priorities, bitmaps and lists of every rt_rq say
\* what is queued below it, no assertion of rt.c fails, a task more important than
\* the running one has a reschedule coming, and a pick always finds a task,
\* through any throttling, boosting and requeueing of the tree.  The exception is
\* exact: do_set_cpus_allowed of a task whose boost alone keeps a throttled group
\* with other tasks served leaves the group in the tree and on no list.
RtRunqueueInv == part = "rq" => RtRq!RtRunqueueInv

\* RT bandwidth: what rt_rqs lend each other is neither made nor lost across
\* hotplug and the period timer's walk, and a throttled rt_rq has a timer coming.
\* Two exceptions, each counted where it arises: a CPU that comes back forgets what
\* it lent or borrowed after tg_set_rt_bandwidth wrote its disabled rt_rq, and an
\* rt_rq that runs out between the walk's visit and the walk's end has no timer if
\* the walk found all idle.
RtBandwidthInv ==
    /\ part = "bandwidth" => RtBw!RtBandwidthInv
    /\ part = "budget" => RtBudget!RtBandwidthInv


\* The fair runqueue: the hierarchical counts are exact through delayed dequeues,
\* moves and throttling, no task is forgotten in limbo, the leaf list is in order,
\* a task under a throttled queue parks itself, and no assertion of fair.c fails.
FairQueueInv ==
    /\ part = "fair" => Fair!FairQueueInv
    /\ part = "move" => FairMove!FairQueueInv
    /\ part = "kthread" => FairKthread!FairQueueInv
    /\ part = "idle" => FairIdle!FairQueueInv

\* CFS bandwidth: a throttled queue always has somebody bound to come for it, the
\* runtime in use stays within the quota, and no queue out of runtime runs on.
CfsBandwidthInv ==
    /\ part = "quota" => CfsBw!CfsBandwidthInv
    /\ part = "plug" => CfsPlug!CfsBandwidthInv
    /\ part = "slack" => CfsSlack!CfsBandwidthInv

\* EEVDF: avg_vruntime's sums are exact, pick_eevdf finds the eligible entity with
\* the earliest deadline whatever the shape of the tree, the average errs to the
\* left only, and an entity comes back with the lag it left with.
EevdfInv ==
    /\ part = "pair" => Pair!EevdfInv
    /\ part = "three" => Three!EevdfInv
=============================================================================
