---------------------------- MODULE RtBandwidth -----------------------------
(***************************************************************************)
(* rt.c: the time that the rt_rqs of one task group may run.  Each CPU has *)
(* its own rt_rq with a budget per period; an rt_rq that runs out borrows  *)
(* from the others, and one that finds nothing to borrow is throttled      *)
(* until the period timer has paid back what it used.  The timer visits    *)
(* the CPUs one after the other, the tasks run on meanwhile.  Everything   *)
(* that moves budget holds rt_b->rt_runtime_lock, and is one step.         *)
(* Boosting is in RtRunqueue; no rt_rq is boosted here.                    *)
(***************************************************************************)
EXTENDS Integers, SequencesExt, FiniteSetsExt

CONSTANTS
    NrCpus,
    Period,
    Runtimes,           \* values written to rt_runtime, RUNTIME_INF among them or not
    RUNTIME_INF,
    Unplugged,          \* the CPUs that go offline and come back
    MaxTime             \* bound: rt_time counts up to here

VARIABLES
    bw,                 \* struct rt_bandwidth: runtime, active; the timer's walk
    rr,                 \* rr[c]: the rt_rq of CPU c
    stray,              \* history: the runtime that __enable_runtime made (or lost)
    leaked              \* history: __disable_runtime was left wanting, with nothing stray

bwVars == <<bw, rr, stray, leaked>>
Cpus == 1..NrCpus
CpuSeq == [i \in Cpus |-> i]
Finite(f, c) == f[c].runtime # RUNTIME_INF
Over(f, c) == Finite(f, c) /\ f[c].time > f[c].runtime

\* init_rt_bandwidth, init_rt_rq and the first tg_set_rt_bandwidth.
Init ==
    /\ \E run \in Runtimes \ {RUNTIME_INF} :
         /\ bw = [runtime |-> run, active |-> FALSE, walk |-> {}, walking |-> FALSE, idle |-> TRUE]
         /\ rr = [c \in Cpus |-> [runtime |-> run, time |-> 0, throttled |-> FALSE, nr |-> FALSE, online |-> TRUE,
                               late |-> FALSE]]
    /\ stray = 0 /\ leaked = FALSE

do_balance_runtime(f, c) ==
    FoldLeft(LAMBDA g, i :
               LET spare == g[i].runtime - g[i].time
                   diff == Min({spare \div NrCpus, Period - g[c].runtime})
               IN  IF i = c \/ ~Finite(g, i) \/ spare <= 0 \/ g[c].runtime = Period THEN g
                   ELSE [g EXCEPT ![i].runtime = @ - diff, ![c].runtime = @ + diff],
             f, CpuSeq)

balance_runtime(f, c) == IF Over(f, c) THEN do_balance_runtime(f, c) ELSE f

\* do_start_rt_bandwidth; start_rt_bandwidth has the condition.
started == [bw EXCEPT !.active = TRUE]
start_rt_bandwidth == IF bw.runtime = RUNTIME_INF THEN bw ELSE started

\* inc_rt_group, dec_rt_group
Wake(c) ==
    /\ ~rr[c].nr
    /\ rr' = [rr EXCEPT ![c].nr = TRUE]
    /\ bw' = start_rt_bandwidth
    /\ UNCHANGED <<stray, leaked>>

Sleep(c) == rr[c].nr /\ rr' = [rr EXCEPT ![c].nr = FALSE] /\ UNCHANGED <<bw, stray, leaked>>

\* sched_rt_runtime_exceeded
exceeded(f, c) == f[c].runtime < Period /\ Over(balance_runtime(f, c), c)

\* The task on CPU c is charged.  A walk that is under way sees the throttling only
\* if CPU c is still to be visited; otherwise it comes too late for this walk.
update_curr_rt(c) ==
    LET ran == [rr EXCEPT ![c].time = Min({@ + 1, MaxTime})] IN
    /\ rr[c].nr /\ ~rr[c].throttled /\ Finite(rr, c)
    /\ rr' = IF ran[c].runtime >= Period THEN ran
             ELSE [balance_runtime(ran, c) EXCEPT ![c].throttled = exceeded(ran, c),
                   ![c].late = exceeded(ran, c) /\ bw.walking /\ c \notin bw.walk]
    /\ bw' = IF exceeded(ran, c) THEN started ELSE bw
    /\ UNCHANGED <<stray, leaked>>

-----------------------------------------------------------------------------
(* sched_rt_period_timer                                                   *)

BeginWalk == [bw EXCEPT !.walking = TRUE, !.idle = TRUE, !.walk = {c \in Cpus : rr[c].online}]

TimerFires == bw.active /\ ~bw.walking /\ bw' = BeginWalk /\ UNCHANGED <<rr, stray, leaked>>

\* do_sched_rt_period_timer for one CPU, after overrun periods.
Refill(c, overrun) ==
    LET f == IF rr[c].throttled THEN balance_runtime(rr, c) ELSE rr
        time == IF Finite(f, c) THEN Max({f[c].time - overrun * f[c].runtime, 0}) ELSE 0
        pay == f[c].throttled /\ (~Finite(f, c) \/ time < f[c].runtime)
    IN  [f EXCEPT ![c].time = time, ![c].throttled = @ /\ ~pay, ![c].late = @ /\ ~pay]

VisitCpu(c, overrun) ==
    /\ bw.walking /\ c \in bw.walk /\ \A d \in bw.walk : c <= d
    /\ rr' = IF rr[c].time = 0 THEN rr ELSE Refill(c, overrun)
    /\ bw' = [bw EXCEPT !.walk = @ \ {c}, !.idle = @ /\ ~rr'[c].nr /\ rr'[c].time = 0]
    /\ UNCHANGED <<stray, leaked>>

\* The end of the walk: another period has passed meanwhile, or the timer is
\* forwarded, or it stops when nobody needs it.
EndWalk(overrun) ==
    /\ bw.walking /\ bw.walk = {}
    /\ LET idle == bw.idle \/ (bw.runtime = RUNTIME_INF /\ \A c \in Cpus : ~rr[c].throttled)
       IN  bw' = IF overrun THEN BeginWalk ELSE [bw EXCEPT !.walking = FALSE, !.idle = TRUE, !.active = ~idle]
    /\ UNCHANGED <<rr, stray, leaked>>

-----------------------------------------------------------------------------
(* CPU hotplug and changes of the budget                                   *)

\* The greedy reclaim of __disable_runtime: the runqueues of the others, and what
\* is still wanted.
Reclaim(f, c) ==
    FoldLeft(LAMBDA s, i :
               LET diff == IF s.want > 0 THEN Min({s.f[i].runtime, s.want}) ELSE s.want
               IN  IF i = c \/ ~Finite(s.f, i) THEN s
                   ELSE [f |-> [s.f EXCEPT ![i].runtime = @ - diff], want |-> s.want - diff],
             [f |-> f, want |-> bw.runtime - f[c].runtime], CpuSeq)

\* Mutant: the CPU leaves without settling its account.
__disable_runtime_unsettled(c) ==
    /\ c \in Unplugged /\ rr[c].online /\ \E d \in Cpus \ {c} : rr[d].online
    /\ rr' = [rr EXCEPT ![c].runtime = RUNTIME_INF, ![c].throttled = FALSE, ![c].late = FALSE, ![c].online = FALSE]
    /\ UNCHANGED <<bw, stray, leaked>>

__disable_runtime(c) ==
    LET s == IF ~Finite(rr, c) THEN [f |-> rr, want |-> 0] ELSE Reclaim(rr, c) IN
    /\ c \in Unplugged /\ rr[c].online /\ \E d \in Cpus \ {c} : rr[d].online
    /\ rr' = [s.f EXCEPT ![c].runtime = RUNTIME_INF, ![c].throttled = FALSE, ![c].late = FALSE, ![c].online = FALSE]
    /\ leaked' = (leaked \/ (s.want # 0 /\ stray = 0))
    /\ stray' = stray + s.want
    /\ UNCHANGED bw

__enable_runtime(c) ==
    /\ ~rr[c].online
    /\ rr' = [rr EXCEPT ![c].runtime = bw.runtime, ![c].time = 0, ![c].throttled = FALSE, ![c].late = FALSE,
                        ![c].online = TRUE]
    /\ stray' = IF Finite(rr, c) THEN stray + bw.runtime - rr[c].runtime ELSE stray
    /\ UNCHANGED <<bw, leaked>>

\* Every rt_rq gets the new value, the disabled ones too.
tg_set_rt_bandwidth(run) ==
    /\ run # bw.runtime
    /\ bw' = [bw EXCEPT !.runtime = run]
    /\ rr' = [c \in Cpus |-> [rr[c] EXCEPT !.runtime = run]]
    /\ stray' = 0
    /\ UNCHANGED leaked

Timer == TimerFires \/ (\E c \in Cpus : VisitCpu(c, 1)) \/ EndWalk(FALSE)

Next ==
    \/ TimerFires
    \/ \E overrun \in {1, 2}, c \in Cpus : VisitCpu(c, overrun)
    \/ \E overrun \in BOOLEAN : EndWalk(overrun)
    \/ \E c \in Cpus : Wake(c) \/ Sleep(c) \/ update_curr_rt(c) \/ __disable_runtime(c) \/ __enable_runtime(c)
    \/ \E run \in Runtimes : tg_set_rt_bandwidth(run)

-----------------------------------------------------------------------------
\* "We cannot be left wanting - that would mean some runtime leaked out of the
\* system": budget is only moved between the runqueues that are enabled, so together
\* they have what the group grants to each, and none has less than nothing.  The one
\* exception is counted in stray: tg_set_rt_bandwidth writes the disabled runqueues
\* too, which can then borrow and lend, and __enable_runtime forgets what they did.
RuntimeConserved ==
    LET enabled == {c \in Cpus : Finite(rr, c)} IN
    /\ ~leaked
    /\ bw.runtime # RUNTIME_INF =>
         MapThenSumSet(LAMBDA c : rr[c].runtime, enabled) = bw.runtime * Cardinality(enabled) + stray
    /\ \A c \in enabled : rr[c].runtime \in Nat

\* A throttled rt_rq of an online CPU has a timer that will come to it, unless it was
\* throttled behind the back of a walk: visited before, in time to find it idle.
TimerComes == \A c \in Cpus : rr[c].throttled /\ rr[c].nr /\ rr[c].online => bw.active \/ rr[c].late

\* RT runtime that rt_rqs lend each other is neither made nor lost but by a CPU that
\* returns after its budget was written, and none stays throttled without a timer but
\* one that ran out behind a walk (do_balance_runtime, do_sched_rt_period_timer).
RtBandwidthInv == RuntimeConserved /\ TimerComes

Spec == Init /\ [][Next]_bwVars
=============================================================================
