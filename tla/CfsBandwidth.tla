---------------------------- MODULE CfsBandwidth ----------------------------
(* The quota of one task group across its CPUs (fair.c): the pool of the period,
   the slices the queues of the CPUs take from it, throttling, the period and
   the slack timer that distribute runtime, the cross-CPU calls that unthrottle,
   a writer of the quota and CPU hotplug.

   Distribution walks the list of throttled queues under RCU: it locks one
   queue at a time, and queues leave and join the list meanwhile. Runtime is
   counted in units; when a timer expires is left open. *)
EXTENDS Integers, FiniteSets, Sequences, SequencesExt, FiniteSetsExt

CONSTANTS BwCpus,      \* CPUs
          Slice,       \* sched_cfs_bandwidth_slice
          MinKeep,     \* min_cfs_rq_runtime: what a queue keeps when it goes idle
          Quotas,      \* quotas written, INF among them
          INF,         \* RUNTIME_INF, the largest u64
          BurstOf,     \* the burst written with every quota
          LoopLimit,   \* periods one expiry may catch up with before the period is doubled (3)
          Overruns,    \* whether an expiry finds that it missed a period
          MaxScale,    \* how often the period may be doubled
          MaxCharge,   \* the longest run between two charges
          Timers,      \* the timers that expire, of "period" and "slack"
          TimerCpus,   \* CPUs the timers expire on
          Sleepy,      \* CPUs whose last task may sleep
          MaxGifts,    \* throttled queues that may go offline within a period
          Pluggable,   \* CPUs that go offline and come back
          End          \* the head of the list, as a place of a walk

VARIABLES cb,    \* the pool, its timers and the list of throttled queues
          lq,    \* the queue of every CPU
          walk,  \* the distributions under way: of the period and of the slack timer
          wq     \* the writer of the quota

bwvars == <<cb, lq, walk, wq>>

NoWalk == [on |-> FALSE, cpu |-> End, at |-> End, next |-> End, remaining |-> 1, throttled |-> FALSE,
           local |-> {}, count |-> 0]

Init ==
  /\ cb = [runtime |-> 0, quota |-> INF, burst |-> 0, active |-> FALSE, idle |-> FALSE,
           slack |-> FALSE, list |-> <<>>, scale |-> 0, gifts |-> 0, warn |-> {}]
  /\ lq = [c \in BwCpus |-> [rem |-> 0, enabled |-> FALSE, thr |-> FALSE, csd |-> FALSE, stale |-> End,
                             curr |-> FALSE, queued |-> FALSE, resched |-> FALSE,
                             online |-> TRUE, fresh |-> FALSE]]
  /\ walk = [t \in {"period", "slack"} |-> NoWalk]
  /\ wq = [left |-> {}, enabled |-> FALSE]

Warn(b, cond, what) == IF cond THEN [b EXCEPT !.warn = @ \cup {what}] ELSE b

-----------------------------------------------------------------------------
(* The pool. *)

U64(n) == n % (INF + 1)

__refill_cfs_bandwidth_runtime(b) ==
  IF b.quota = INF THEN b
  ELSE [b EXCEPT !.runtime = Min({U64(@ + b.quota), U64(b.quota + b.burst)}), !.gifts = 0]

start_cfs_bandwidth(b) == [b EXCEPT !.active = TRUE]

\* How much the pool grants a queue that wants to reach target.
Amount(b, q, target) ==
  IF b.quota = INF THEN target - q.rem
  ELSE IF b.runtime > 0 THEN Min({b.runtime, target - q.rem}) ELSE 0
PoolAfter(b, q, target) ==
  IF b.quota = INF THEN b
  ELSE [start_cfs_bandwidth(b) EXCEPT !.runtime = @ - Amount(b, q, target),
                                      !.idle = IF b.runtime > 0 THEN FALSE ELSE @]
__assign_cfs_rq_runtime(b, q, target) ==
  [b |-> PoolAfter(b, q, target), q |-> [q EXCEPT !.rem = @ + Amount(b, q, target)]]

__account_cfs_rq_runtime(b, q, delta) ==
  LET q1 == [q EXCEPT !.rem = @ - delta, !.fresh = FALSE]
      r == __assign_cfs_rq_runtime(b, q1, Slice)
  IN  IF q1.rem > 0 \/ q1.thr THEN [b |-> b, q |-> q1]
      ELSE [r EXCEPT !.q.resched = @ \/ (r.q.rem <= 0 /\ q.curr)]
account_cfs_rq_runtime(b, q, delta) ==
  IF q.enabled THEN __account_cfs_rq_runtime(b, q, delta) ELSE [b |-> b, q |-> q]

\* The queue asks for one unit more before it joins the list.
throttle_cfs_rq(b, q, c) ==
  LET r == __assign_cfs_rq_runtime(b, q, 1)
  IN  IF r.q.rem > 0 THEN r
      ELSE [r EXCEPT !.b.list = Append(@, c), !.q.thr = TRUE]

check_cfs_rq_runtime(b, q, c) ==
  IF ~q.enabled \/ q.rem > 0 \/ q.thr THEN [b |-> b, q |-> q] ELSE throttle_cfs_rq(b, q, c)

check_enqueue_throttle(b, q, c) ==
  LET r == account_cfs_rq_runtime(b, q, 0)
  IN  IF ~q.enabled \/ q.curr \/ q.thr THEN [b |-> b, q |-> q]
      ELSE IF r.q.rem <= 0 THEN throttle_cfs_rq(r.b, r.q, c) ELSE r

\* A queue leaves the list keeping its pointer to the next one (list_del_rcu).
NextOn(l, c) == LET i == CHOOSE i \in 1..Len(l): l[i] = c IN IF i = Len(l) THEN End ELSE l[i + 1]
unthrottle_cfs_rq(b, q, c) ==
  IF q.enabled /\ q.rem <= 0 THEN [b |-> b, q |-> q]
  ELSE [b |-> [b EXCEPT !.list = SelectSeq(@, LAMBDA d: d # c)],
        q |-> [q EXCEPT !.thr = FALSE, !.stale = IF \E t \in DOMAIN walk: walk[t].on THEN NextOn(b.list, c) ELSE End]]

\* What a queue gives back when its last task leaves it.
Slack(q) == IF q.rem > MinKeep THEN q.rem - MinKeep ELSE 0
return_cfs_rq_runtime(b, q, soon) ==
  IF ~q.enabled \/ Slack(q) = 0 THEN [b |-> b, q |-> q]
  ELSE [b |-> IF b.quota = INF THEN b
              ELSE [b EXCEPT !.runtime = @ + Slack(q),
                             !.slack = @ \/ (b.runtime + Slack(q) > Slice /\ b.list # <<>> /\ ~soon)],
        q |-> [q EXCEPT !.rem = @ - Slack(q)]]

-----------------------------------------------------------------------------
(* The CPUs. *)

Put(c, r) == cb' = r.b /\ lq' = [lq EXCEPT ![c] = r.q]

\* A task arrives in the queue, is picked, runs, is put, and leaves.
enqueue_entity(c) ==
  /\ lq[c].online /\ ~lq[c].queued
  /\ Put(c, check_enqueue_throttle(cb, [lq[c] EXCEPT !.queued = TRUE], c))
  /\ UNCHANGED <<walk, wq>>
set_next_entity(c) ==
  /\ lq[c].online /\ lq[c].queued /\ ~lq[c].curr
  /\ Put(c, account_cfs_rq_runtime(cb, [lq[c] EXCEPT !.curr = TRUE, !.resched = FALSE], 0))
  /\ UNCHANGED <<walk, wq>>
update_curr(c, delta) ==
  /\ lq[c].curr /\ lq[c].rem > -MaxCharge
  /\ Put(c, account_cfs_rq_runtime(cb, lq[c], delta))
  /\ UNCHANGED <<walk, wq>>
put_prev_entity(c) ==
  /\ lq[c].curr
  /\ Put(c, check_cfs_rq_runtime(cb, [lq[c] EXCEPT !.curr = FALSE, !.resched = FALSE], c))
  /\ UNCHANGED <<walk, wq>>
\* The running task sleeps, the last one of its queue.
dequeue_entity(c, soon) ==
  /\ lq[c].curr
  /\ LET r == return_cfs_rq_runtime(cb, lq[c], soon \/ walk["period"].on)
     IN  Put(c, check_cfs_rq_runtime(r.b, [r.q EXCEPT !.curr = FALSE, !.queued = FALSE, !.resched = FALSE], c))
  /\ UNCHANGED <<walk, wq>>

__cfsb_csd_unthrottle(c) ==
  /\ lq[c].csd /\ \A t \in DOMAIN walk: c \notin walk[t].local
  /\ LET q == [lq[c] EXCEPT !.csd = FALSE]
     IN  Put(c, IF q.thr THEN unthrottle_cfs_rq(cb, q, c) ELSE [b |-> cb, q |-> q])
  /\ UNCHANGED <<walk, wq>>

-----------------------------------------------------------------------------
(* Distribution: t is the timer on whose behalf it walks the list. *)

First(l) == IF l = <<>> THEN End ELSE Head(l)
StartWalk(t, c, n) ==
  walk' = [walk EXCEPT ![t] = [NoWalk EXCEPT !.on = TRUE, !.cpu = c, !.at = First(cb.list), !.count = n]]

\* When the timer has nothing left to do.
Deactivates(b) == b.quota = INF \/ (b.idle /\ b.list = <<>>)

\* One period, up to the distribution.
do_sched_cfs_period_timer(b0, c, n) ==
  LET b == __refill_cfs_bandwidth_runtime(b0)
  IN  /\ cb' = IF Deactivates(b0) THEN [b EXCEPT !.active = FALSE]
               ELSE IF b.list = <<>> THEN [b EXCEPT !.idle = TRUE]
               ELSE [b EXCEPT !.idle = IF b.runtime > 0 THEN @ ELSE FALSE]
      /\ IF ~Deactivates(b0) /\ b.list # <<>> /\ b.runtime > 0 THEN StartWalk("period", c, n)
         ELSE walk' = [walk EXCEPT !["period"] = NoWalk]
  /\ UNCHANGED <<lq, wq>>

sched_cfs_period_timer(c) ==
  /\ "period" \in Timers /\ cb.active /\ ~walk["period"].on
  /\ do_sched_cfs_period_timer(cb, c, 0)

do_sched_cfs_slack_timer(c, soon) ==
  /\ "slack" \in Timers /\ cb.slack /\ ~walk["slack"].on
  /\ cb' = [cb EXCEPT !.slack = FALSE]
  /\ IF ~soon /\ ~walk["period"].on /\ cb.quota # INF /\ cb.runtime > Slice
     THEN StartWalk("slack", c, 0) ELSE UNCHANGED walk
  /\ UNCHANGED <<lq, wq>>

\* Mutant: a queue whose call is on its way is paid again.
PassOverUnthrottled(c) == ~lq[c].thr

\* A walk passes over what was let go meanwhile and what is called already.
PassOver(c) == ~lq[c].thr \/ lq[c].csd

\* The debt is paid, as far as the pool goes; a paid queue is called, or kept
\* for this CPU to unthrottle itself when the walk is over.
Paid(c) == Min({1 - lq[c].rem, cb.runtime})
distribute_cfs_runtime(t) ==
  LET w == walk[t]
      c == w.at
      paid == [lq[c] EXCEPT !.rem = @ + Paid(c)]
      freed == paid.rem > 0
  IN  /\ w.on /\ c # End /\ w.next = End /\ w.remaining > 0
      /\ IF PassOver(c)
         THEN /\ walk' = [walk EXCEPT ![t].next = c]
              /\ UNCHANGED <<cb, lq>>
         ELSE /\ cb' = Warn(Warn([cb EXCEPT !.runtime = @ - Paid(c)], lq[c].rem > 0, "unpaid"),
                            freed /\ c = w.cpu /\ w.local # {}, "local")
              /\ lq' = [lq EXCEPT ![c] = [paid EXCEPT !.csd = freed]]
              /\ walk' = [walk EXCEPT ![t].next = c, ![t].remaining = Min({1, cb.runtime - Paid(c)}),
                                      ![t].throttled = @ \/ ~freed,
                                      ![t].local = IF freed /\ c = w.cpu THEN @ \cup {c} ELSE @]
      /\ UNCHANGED wq

\* The queue is unlocked; only then its pointer to the next one is read.
Advance(t) ==
  LET w == walk[t]
      c == w.next
  IN  /\ w.on /\ c # End
      /\ walk' = [walk EXCEPT ![t].next = End,
                    ![t].at = IF c \in Range(cb.list) THEN NextOn(cb.list, c) ELSE lq[c].stale]
      /\ UNCHANGED <<cb, lq, wq>>

WalkOver(t) == walk[t].on /\ walk[t].next = End /\ (walk[t].at = End \/ walk[t].remaining <= 0)
Left(t) == walk[t].throttled \/ (walk[t].at # End /\ walk[t].remaining <= 0)

LocalUnthrottle(t) ==
  /\ WalkOver(t)
  /\ \E c \in walk[t].local:
       /\ LET q == [lq[c] EXCEPT !.csd = FALSE]
          IN  Put(c, IF q.thr THEN unthrottle_cfs_rq(cb, q, c) ELSE [b |-> cb, q |-> q])
       /\ walk' = [walk EXCEPT ![t].local = @ \ {c}]
  /\ UNCHANGED wq

\* Back under the pool's lock: distribute again, or the period is served. The
\* timer may have missed more periods, and catching up too often doubles it.
DistributeAgain ==
  /\ WalkOver("period") /\ walk["period"].local = {} /\ Left("period") /\ cb.runtime > 0
  /\ StartWalk("period", walk["period"].cpu, walk["period"].count)
  /\ UNCHANGED <<cb, lq, wq>>
\* RUNTIME_INF, of a quota that was lifted meanwhile, is doubled as well.
ScaleUp(b) == IF b.scale = MaxScale THEN b
              ELSE [b EXCEPT !.scale = @ + 1, !.quota = U64(@ * 2), !.burst = U64(@ * 2)]
PeriodServed(overrun) ==
  LET n == walk["period"].count + 1
      b == [IF n > LoopLimit THEN ScaleUp(cb) ELSE cb EXCEPT !.idle = FALSE]
  IN  /\ WalkOver("period") /\ walk["period"].local = {} /\ ~(Left("period") /\ cb.runtime > 0)
      /\ IF overrun
         THEN do_sched_cfs_period_timer(b, walk["period"].cpu, IF n > LoopLimit THEN 0 ELSE n)
         ELSE cb' = b /\ walk' = [walk EXCEPT !["period"] = NoWalk] /\ UNCHANGED <<lq, wq>>
SlackServed ==
  /\ WalkOver("slack") /\ walk["slack"].local = {}
  /\ walk' = [walk EXCEPT !["slack"] = NoWalk]
  /\ UNCHANGED <<cb, lq, wq>>

-----------------------------------------------------------------------------
(* The writer and hotplug. *)

tg_set_cfs_bandwidth(quota) ==
  /\ wq.left = {} /\ quota # cb.quota
  /\ LET b == __refill_cfs_bandwidth_runtime([cb EXCEPT !.quota = quota, !.burst = BurstOf[quota], !.scale = 0])
     IN  cb' = IF quota # INF THEN start_cfs_bandwidth(b) ELSE b
  /\ wq' = [left |-> {c \in BwCpus: lq[c].online}, enabled |-> quota # INF]
  /\ UNCHANGED <<lq, walk>>
SetOnCpu(c) ==
  /\ c \in wq.left
  /\ LET q == [lq[c] EXCEPT !.enabled = wq.enabled, !.rem = 1]
     IN  Put(c, IF q.thr THEN unthrottle_cfs_rq(cb, q, c) ELSE [b |-> cb, q |-> q])
  /\ wq' = [wq EXCEPT !.left = @ \ {c}]
  /\ UNCHANGED walk

update_runtime_enabled(c) ==
  /\ wq.left = {} /\ ~lq[c].online
  /\ lq' = [lq EXCEPT ![c].online = TRUE, ![c].enabled = cb.quota # INF, ![c].fresh = TRUE]
  /\ UNCHANGED <<cb, walk, wq>>
unthrottle_offline_cfs_rqs(c) ==
  /\ wq.left = {} /\ lq[c].online /\ \E d \in BwCpus \ {c}: lq[d].online
  /\ cb.gifts < MaxGifts
  /\ LET q == [lq[c] EXCEPT !.enabled = FALSE, !.online = FALSE]
         given == [cb EXCEPT !.gifts = @ + 1]
     IN  Put(c, IF lq[c].enabled /\ q.thr THEN unthrottle_cfs_rq(given, [q EXCEPT !.rem = 1], c)
                ELSE [b |-> cb, q |-> q])
  /\ UNCHANGED <<walk, wq>>

Next ==
  \/ \E c \in BwCpus: \/ enqueue_entity(c) \/ set_next_entity(c) \/ put_prev_entity(c)
                      \/ __cfsb_csd_unthrottle(c) \/ SetOnCpu(c)
                      \/ \E d \in 1..MaxCharge: update_curr(c, d)
  \/ \E c \in Sleepy, soon \in BOOLEAN: dequeue_entity(c, soon)
  \/ \E c \in TimerCpus: \/ sched_cfs_period_timer(c)
                         \/ \E soon \in BOOLEAN: do_sched_cfs_slack_timer(c, soon)
  \/ \E c \in Pluggable: update_runtime_enabled(c) \/ unthrottle_offline_cfs_rqs(c)
  \/ \E t \in DOMAIN walk: distribute_cfs_runtime(t) \/ Advance(t) \/ LocalUnthrottle(t)
  \/ DistributeAgain \/ SlackServed
  \/ \E overrun \in Overruns: PeriodServed(overrun)
  \/ \E quota \in Quotas: tg_set_cfs_bandwidth(quota)

-----------------------------------------------------------------------------
\* A throttled queue is on the list and somebody is bound to come for it: the
\* period timer is running, its unthrottling is called or held by a walk, or the
\* writer of the quota has not reached its CPU yet. And the list holds nobody
\* else (throttle_cfs_rq, do_sched_cfs_period_timer's way to deactivate).
ThrottledServed ==
  \A c \in BwCpus:
    /\ lq[c].thr <=> c \in Range(cb.list)
    /\ lq[c].thr => lq[c].online /\ (cb.active \/ lq[c].csd \/ c \in wq.left)

\* The runtime that can still be used is bounded by the quota, the burst, the
\* slices handed out and the unit a queue is given when its CPU leaves: what a queue
\* gives back, takes, or is paid by a walk is never counted twice (__refill, __assign,
\* __return_cfs_rq_runtime). A quota that is lowered while tasks sleep is outside it:
\* slices of the old quota come back to a pool that has the new one.
Available == MapThenSumSet(LAMBDA c: IF lq[c].rem > 0 THEN lq[c].rem ELSE 0, BwCpus)
RuntimeBounded ==
  cb.quota # INF /\ wq.left = {} => cb.runtime >= 0
    /\ cb.runtime + Available <= cb.quota + cb.burst + Cardinality(BwCpus) * Slice + cb.gifts

\* A running queue out of runtime is throttled or being rescheduled, unless its
\* CPU came back and nothing was charged since; a queue let go has runtime, and no assertion fails: a walk
\* never meets a throttled queue that is paid and not called.
NoFreeRun ==
  /\ \A c \in BwCpus: lq[c].enabled /\ lq[c].rem <= 0 /\ lq[c].queued
                      => lq[c].thr \/ lq[c].resched \/ ~lq[c].curr \/ lq[c].fresh
  /\ cb.warn = {}

\* A queue out of runtime is throttled and paid again by the timers, and never gets
\* more than the quota and burst (distribute_cfs_runtime, account_cfs_rq_runtime).
CfsBandwidthInv == ThrottledServed /\ RuntimeBounded /\ NoFreeRun
=============================================================================
