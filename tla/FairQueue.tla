------------------------------ MODULE FairQueue ------------------------------
(* The fair class's run queue of one CPU (fair.c): the tree of cfs_rqs of the
   task groups, delayed dequeue, next buddies, the leaf list, and the throttling
   of a hierarchy, under which a task is parked in the limbo list of its cfs_rq
   when it returns to user space.

   Virtual time is left open: an entity is eligible or not, a load average has
   decayed or not and the pool of a group has runtime or not as the action
   chooses (the fields inel, dec and gr, set for the length of a handler). *)
EXTENDS Integers, FiniteSets, Sequences, SequencesExt

CONSTANTS FTasks,     \* tasks of this CPU
          FKthreads,  \* those that never return to user space
          IdlePolicy, \* those with policy SCHED_IDLE
          FGroups,    \* the groups as a sequence, children before their parent, the root last
          FParent,    \* the parent of every group but the root
          Home,       \* the group every task starts in
          Bw,         \* the groups with a quota
          Movers,     \* the tasks that change their group or their class
          Toggled,    \* the groups made idle and back
          FIdle,      \* the idle task
          FNone       \* no entity

VARIABLE fq

Groups == Range(FGroups)
Root == Last(FGroups)
Entities == FTasks \cup (Groups \ {Root})

\* for_each_sched_entity: a group stands for its entity in its parent's queue.
UpFrom[g \in Groups] == IF g = Root THEN <<>> ELSE <<g>> \o UpFrom[FParent[g]]
PathOf(s, se) == IF se \in FTasks THEN <<se>> \o UpFrom[s.grp[se]] ELSE UpFrom[se]
cfs_rq_of(s, se) == IF se \in FTasks THEN s.grp[se] ELSE FParent[se]
Above(g) == Range(UpFrom[g]) \cup {Root}
Subtree(g) == SelectSeq(FGroups, LAMBDA h: g \in Above(h) \cup {h})

Init == fq = [q |-> [g \in Groups |-> {}], delayed |-> {}, curr |-> [g \in Groups |-> FNone],
              next |-> [g \in Groups |-> FNone],
              queued |-> [g \in Groups |-> 0], runnable |-> [g \in Groups |-> 0],
              idle |-> [g \in Groups |-> 0], idleGroups |-> {}, nr |-> 0,
              thr |-> {}, count |-> [g \in Groups |-> 0], limbo |-> [g \in Groups |-> {}],
              stopped |-> {}, clock |-> {}, self |-> {}, leaf |-> <<>>, alone |-> FNone,
              out |-> {}, late |-> {}, csd |-> {}, throttled |-> {}, work |-> {},
              on |-> {}, rt |-> {}, grp |-> Home, run |-> FIdle, resched |-> FALSE,
              pc |-> "run", at |-> Root, exceeded |-> FALSE, pse |-> FNone,
              inel |-> {}, dec |-> {}, gr |-> {}, warn |-> {}]

Warn(s, cond, what) == IF cond THEN [s EXCEPT !.warn = @ \cup {what}] ELSE s

-----------------------------------------------------------------------------
(* The leaf list: children before their parents. *)

PosIn(l, g) == CHOOSE i \in 1..Len(l): l[i] = g
OnList(s, g) == g \in Range(s.leaf)

\* The parent is linked already, g is the root, or g starts or prolongs a branch.
list_add_leaf_cfs_rq(s, g) ==
  IF OnList(s, g) THEN s
  ELSE IF g # Root /\ OnList(s, FParent[g])
       THEN [s EXCEPT !.leaf = InsertAt(@, PosIn(@, FParent[g]), g), !.alone = FNone]
  ELSE IF g = Root
       THEN [s EXCEPT !.leaf = Append(@, g), !.alone = FNone]
  ELSE [s EXCEPT !.leaf = InsertAt(@, IF s.alone = FNone THEN 1 ELSE PosIn(@, s.alone) + 1, g),
                 !.alone = g]

Before(l, g) == IF PosIn(l, g) = 1 THEN FNone ELSE l[PosIn(l, g) - 1]
list_del_leaf_cfs_rq(s, g) ==
  IF ~OnList(s, g) THEN s
  ELSE [s EXCEPT !.alone = IF @ = g THEN Before(s.leaf, g) ELSE @,
                 !.leaf = SelectSeq(@, LAMBDA h: h # g)]
assert_list_leaf_cfs_rq(s) == Warn(s, s.alone # FNone, "leaf")

child_cfs_rq_on_list(s, g) ==
  LET prev == IF OnList(s, g) THEN Before(s.leaf, g) ELSE s.alone
  IN  prev # FNone /\ prev # Root /\ FParent[prev] = g
cfs_rq_is_decayed(s, g) == s.q[g] = {} /\ g \in s.dec /\ ~child_cfs_rq_on_list(s, g)

\* __update_blocked_fair walks the list from its head and drops what has decayed.
UpdateBlocked(s) ==
  FoldLeft(LAMBDA x, g: IF cfs_rq_is_decayed(x, g) THEN list_del_leaf_cfs_rq(x, g) ELSE x,
           s, s.leaf)

\* propagate_entity_cfs_rq, from attaching or detaching a task of group g.
Propagate(s, g) ==
  assert_list_leaf_cfs_rq(
    FoldLeft(LAMBDA x, h: IF h \in x.stopped THEN x ELSE list_add_leaf_cfs_rq(x, h),
             s, UpFrom[g] \o <<Root>>))

-----------------------------------------------------------------------------
(* Buddies and delayed entities. *)

Chain(s, se) == PathOf(s, se)

__clear_buddies_next(s, se) ==
  LET p == Chain(s, se)
      n == {i \in 1..Len(p): \A j \in 1..i: s.next[cfs_rq_of(s, p[j])] = p[j]}
  IN  [s EXCEPT !.next = [g \in Groups |-> IF \E i \in n: cfs_rq_of(s, p[i]) = g
                                           THEN FNone ELSE s.next[g]]]
clear_buddies(s, se) == IF s.next[cfs_rq_of(s, se)] = se THEN __clear_buddies_next(s, se) ELSE s

OnRq(s, se) == se \in s.q[cfs_rq_of(s, se)]
se_is_idle(s, se) == se \in IdlePolicy \cup s.idleGroups

set_next_buddy(s, se) ==
  LET Step(x, e) == IF x.stop THEN x
                    ELSE IF ~OnRq(x.s, e) THEN [s |-> Warn(x.s, TRUE, "buddy"), stop |-> TRUE]
                    ELSE IF se_is_idle(x.s, e) THEN [x EXCEPT !.stop = TRUE]
                    ELSE [x EXCEPT !.s.next[cfs_rq_of(x.s, e)] = e]
  IN  FoldLeft(Step, [s |-> s, stop |-> FALSE], Chain(s, se)).s

AddRunnable(s, se, n) ==
  IF se \notin FTasks THEN s
  ELSE [s EXCEPT !.runnable = [g \in Groups |->
          @[g] + (IF g \in {cfs_rq_of(s, e): e \in Range(PathOf(s, se))} THEN n ELSE 0)]]
set_delayed(s, se) == AddRunnable([s EXCEPT !.delayed = @ \cup {se}], se, -1)
clear_delayed(s, se) == AddRunnable([s EXCEPT !.delayed = @ \ {se}], se, 1)

\* The placement the entity gets is virtual time; it leaves the delayed state.
requeue_delayed_entity(s, se) ==
  clear_delayed(Warn(s, se \notin s.delayed \/ ~OnRq(s, se), "requeue"), se)

-----------------------------------------------------------------------------
(* Throttling. *)

\* The PELT clock of an empty queue stands still while the queue is throttled.
StopIfEmpty(s, g) ==
  IF s.q[g] = {} /\ s.count[g] > 0
  THEN [list_del_leaf_cfs_rq(s, g) EXCEPT !.stopped = @ \cup {g}] ELSE s

tg_throttle_down(s, g) ==
  LET s1 == [s EXCEPT !.count[g] = @ + 1]
  IN  IF s.count[g] > 0 THEN s1
      ELSE Warn(Warn(StopIfEmpty(s1, g), g \in s.self, "clock_self"), s.limbo[g] # {}, "limbo")

\* The group asks its pool once more before it is throttled.
throttle_cfs_rq(s, g) ==
  IF g \in s.gr THEN [s EXCEPT !.out = @ \ {g}]
  ELSE LET s1 == FoldLeft(tg_throttle_down, s, Reverse(Subtree(g)))
       IN  Warn([s1 EXCEPT !.thr = @ \cup {g}], g \in s.clock, "clock")

check_enqueue_throttle(s, g) ==
  IF g \in Bw /\ s.curr[g] = FNone /\ g \notin s.thr /\ g \in s.out
  THEN Warn(throttle_cfs_rq(s, g), TRUE, "enqueue_throttle") ELSE s

\* What put_prev_entity and pick_task_fair do to a queue out of runtime.
check_cfs_rq_runtime(s, g) == IF g \in s.out /\ g \notin s.thr THEN throttle_cfs_rq(s, g) ELSE s
Exceeds(s, g) == g \in s.out /\ g \in check_cfs_rq_runtime(s, g).thr

record_throttle_clock(s, g) ==
  [s EXCEPT !.clock = IF g \in s.thr THEN @ \cup {g} ELSE @, !.self = @ \cup {g}]

-----------------------------------------------------------------------------
(* Enqueue. *)

enqueue_entity(s, se) ==
  LET g == cfs_rq_of(s, se)
      s1 == [s EXCEPT !.q[g] = @ \cup {se}]
  IN  IF s.q[g] # {} THEN s1
      ELSE [list_add_leaf_cfs_rq(check_enqueue_throttle(s1, g), g) EXCEPT !.stopped = @ \ {g}]

Counted(s, g, hq, hr, hi) ==
  [s EXCEPT !.queued[g] = @ + hq, !.runnable[g] = @ + hr, !.idle[g] = @ + hi]

\* Up the path: enqueue until an entity that is queued already, count all the way.
EnqueueWalk(s, p, hr) ==
  LET Step(x, se) ==
        LET g == cfs_rq_of(x.s, se)
            s1 == IF ~x.open THEN x.s
                  ELSE IF ~OnRq(x.s, se) THEN enqueue_entity(x.s, se)
                  ELSE IF se \in x.s.delayed THEN requeue_delayed_entity(x.s, se) ELSE x.s
        IN  [s |-> Counted(s1, g, 1, hr, x.hi), open |-> x.open /\ ~OnRq(x.s, se),
             hi |-> IF g \in s.idleGroups THEN 1 ELSE x.hi]
      done == FoldLeft(Step, [s |-> s, open |-> TRUE, hi |-> IF p \in IdlePolicy THEN 1 ELSE 0],
                       PathOf(s, p)).s
  IN  assert_list_leaf_cfs_rq([done EXCEPT !.nr = @ + 1])

\* Mutant: a delayed task that changes its group counts as runnable again.
EnqueuePathRunnable(s, p, new) == EnqueueWalk(s, p, 1)

\* A delayed task that is not woken is not runnable.
EnqueuePath(s, p, new) == EnqueueWalk(s, p, IF new /\ p \in s.delayed THEN 0 ELSE 1)

\* Straight to the limbo list.
enqueue_throttled_task(s, p) ==
  Warn([s EXCEPT !.limbo[s.grp[p]] = @ \cup {p}], \E g \in Groups: p \in s.limbo[g], "double_limbo")

\* A running task, or one whose hierarchy is not throttled, gets rid of its state.
enqueue_task_fair(s, p, new) ==
  IF p \in s.throttled /\ s.count[s.grp[p]] > 0 /\ s.run # p THEN enqueue_throttled_task(s, p)
  ELSE EnqueuePath([s EXCEPT !.throttled = @ \ {p}], p, new)

LinkIfUsed(s, g) == IF cfs_rq_is_decayed(s, g) THEN s ELSE list_add_leaf_cfs_rq(s, g)

tg_unthrottle_up(s, g) ==
  LET s1 == [s EXCEPT !.count[g] = @ - 1]
      s2 == [s1 EXCEPT !.stopped = @ \ {g}, !.self = @ \ {g}]
      Back(x, p) == EnqueuePath([x EXCEPT !.limbo[g] = @ \ {p}, !.throttled = @ \ {p}], p, FALSE)
  IN  IF s.count[g] > 1 THEN s1 ELSE LinkIfUsed(FoldLeft(Back, s2, SetToSeq(s.limbo[g])), g)

\* An empty queue that stayed on the list is joined to its parents; an idle CPU is
\* told of the tasks that came back.
AfterUnthrottle(s, g) ==
  LET Join(x, h) == IF x.joined THEN x
                    ELSE LET y == list_add_leaf_cfs_rq(x.s, h) IN [s |-> y, joined |-> y.alone = FNone]
      s1 == IF s.q[g] = {}
            THEN FoldLeft(Join, [s |-> s, joined |-> FALSE], Tail(UpFrom[g]) \o <<Root>>).s ELSE s
  IN  IF s.q[g] = {} /\ ~OnList(s, g) THEN s
      ELSE [assert_list_leaf_cfs_rq(s1) EXCEPT !.resched = @ \/ (s.run = FIdle /\ s.q[Root] # {})]

unthrottle_cfs_rq(s, g) ==
  LET s1 == [s EXCEPT !.thr = @ \ {g}, !.clock = @ \ {g}]
  IN  IF g \in s.out THEN s ELSE AfterUnthrottle(FoldLeft(tg_unthrottle_up, s1, Subtree(g)), g)

-----------------------------------------------------------------------------
(* Dequeue. *)

Flags(sleep, delayed, special, throttle) ==
  [sleep |-> sleep, delayed |-> delayed, special |-> special, throttle |-> throttle]

\* Whether the entity stays queued, delayed, until it is eligible.
Delays(s, se, fl) ==
  fl.sleep /\ ~fl.delayed /\ ~fl.special /\ ~fl.throttle /\ se \in s.inel

dequeue_entity(s, se, fl) ==
  LET g == cfs_rq_of(s, se)
      s1 == Warn(clear_buddies(s, se),
                 IF fl.delayed THEN se \notin s.delayed
                 ELSE fl.sleep /\ ~fl.special /\ ~fl.throttle /\ se \in s.delayed, "delayed")
      s2 == [s1 EXCEPT !.q[g] = @ \ {se}]
  IN  IF Delays(s, se, fl) THEN set_delayed(s1, se)
      ELSE StopIfEmpty(IF fl.delayed THEN clear_delayed(s2, se) ELSE s2, g)

\* Both loops of dequeue_entities, one level: x.open while the first still runs. It
\* ends at a queue that keeps other entities and at a group entity that is delayed.
Uncount(x, g) ==
  LET s1 == Counted(x.s, g, -x.hq, -x.hr, -x.hi)
      s2 == IF x.flags.throttle /\ s1.count[g] > 0 THEN record_throttle_clock(s1, g) ELSE s1
      kept == x.open /\ x.s.q[g] # {}
  IN  [x EXCEPT !.s = IF kept /\ x.flags.sleep /\ g # Root THEN set_next_buddy(s2, g) ELSE s2,
                !.open = @ /\ ~kept,
                !.hi = IF g \in x.s.idleGroups THEN x.hq ELSE @,
                !.fl = [@ EXCEPT !.sleep = TRUE, !.delayed = FALSE, !.special = FALSE]]

\* A delayed task stops it at once.
DequeueStep(x, se) ==
  LET held == x.open /\ Delays(x.s, se, x.fl)
      x1 == [x EXCEPT !.s = IF x.open THEN dequeue_entity(x.s, se, x.fl) ELSE @,
                      !.open = @ /\ ~held]
  IN  IF x.abort THEN x
      ELSE IF held /\ se = x.se THEN [x1 EXCEPT !.abort = TRUE]
      ELSE Uncount(x1, cfs_rq_of(x.s, se))

DequeueEnd(x) ==
  IF x.abort THEN x.s
  ELSE [x.s EXCEPT !.nr = @ - x.hq, !.on = IF x.hq = 1 /\ x.flags.delayed THEN @ \ {x.se} ELSE @]

dequeue_entities(s, se, flags) ==
  LET task == se \in FTasks
      hr == task /\ (flags.sleep \/ flags.delayed \/ se \notin s.delayed)
      x0 == [s |-> s, se |-> se, flags |-> flags, fl |-> flags, open |-> TRUE, abort |-> FALSE,
             hq |-> IF task THEN 1 ELSE 0, hr |-> IF hr THEN 1 ELSE 0,
             hi |-> IF task /\ se \in IdlePolicy THEN 1 ELSE 0]
  IN  DequeueEnd(FoldLeft(DequeueStep, x0, PathOf(s, se)))

dequeue_throttled_task(s, p, fl) ==
  Warn([s EXCEPT !.limbo[s.grp[p]] = @ \ {p}, !.throttled = IF fl.sleep THEN @ \ {p} ELSE @],
       OnRq(s, p), "throttled_on_rq")

dequeue_task_fair(s, p, fl) ==
  IF p \in s.throttled THEN dequeue_throttled_task(s, p, fl) ELSE dequeue_entities(s, p, fl)

Save == Flags(FALSE, FALSE, FALSE, FALSE)
PickedDelayed == Flags(TRUE, TRUE, FALSE, FALSE)

-----------------------------------------------------------------------------
(* The current entities. *)

set_next_entity(s, se) ==
  LET g == cfs_rq_of(s, se)
      s1 == IF OnRq(s, se) THEN clear_buddies(s, se) ELSE s
  IN  [Warn(s1, s.curr[g] # FNone, "set_next") EXCEPT !.curr[g] = se]
put_prev_entity(s, se) ==
  LET g == cfs_rq_of(s, se)
  IN  [Warn(check_cfs_rq_runtime(s, g), s.curr[g] # se, "put_prev") EXCEPT !.curr[g] = FNone]
put_prev_task_fair(s, p) == FoldLeft(put_prev_entity, s, PathOf(s, p))
set_next_task_fair(s, p) == FoldLeft(set_next_entity, s, PathOf(s, p))

Fair(s, p) == p \in FTasks \ s.rt

\* pick_next_task_fair only changes the entities below the queue both share.
Below(s, p, other) ==
  LET shared == {cfs_rq_of(s, e): e \in Range(PathOf(s, other))}
      path == PathOf(s, p)
  IN  SubSeq(path, 1, CHOOSE i \in 1..Len(path):
        cfs_rq_of(s, path[i]) \in shared /\ \A j \in 1..(i - 1): cfs_rq_of(s, path[j]) \notin shared)

PutPrev(s, prev, p) ==
  IF ~Fair(s, prev) THEN s
  ELSE FoldLeft(put_prev_entity, s, IF Fair(s, p) THEN Below(s, prev, p) ELSE PathOf(s, prev))
SetNext(s, prev, p) ==
  IF ~Fair(s, p) THEN s
  ELSE FoldLeft(set_next_entity, s, IF Fair(s, prev) THEN Below(s, p, prev) ELSE PathOf(s, p))

SwitchTo(s, p) ==
  [IF p = s.run THEN s ELSE SetNext(PutPrev(s, s.run, p), s.run, p) EXCEPT
     !.run = p, !.resched = FALSE, !.pc = "run", !.at = Root, !.exceeded = FALSE, !.late = {}]

-----------------------------------------------------------------------------
(* The handlers. *)

\* The choices of one handler, forgotten when it is over.
Oracle(s, inel, dec, gr) == [s EXCEPT !.inel = inel, !.dec = dec, !.gr = gr]
Done(s) == Oracle(s, {}, {}, {})
Ineligible(s, p) == SUBSET Range(PathOf(s, p))

Running(s) == s.pc = "run"

\* wakeup_preempt_fair looks for a fair current at the queue both share.
wakeup_preempt(s, p) ==
  IF ~Fair(s, s.run) THEN [s EXCEPT !.resched = TRUE]
  ELSE IF s.run = p \/ p \in s.throttled \/ s.resched THEN s
  ELSE LET b == Below(s, p, s.run)
       IN  [s EXCEPT !.pc = "wakeup", !.pse = b[Len(b)], !.at = cfs_rq_of(s, b[Len(b)])]

\* A blocked task, or one whose dequeue was delayed (ttwu_runnable), is woken.
Wake(p) ==
  /\ Running(fq) /\ Fair(fq, p) /\ (p \notin fq.on \/ p \in fq.delayed)
  /\ fq' = Done(wakeup_preempt(
        IF p \in fq.delayed THEN requeue_delayed_entity(fq, p)
        ELSE enqueue_task_fair([fq EXCEPT !.on = @ \cup {p}], p, FALSE), p))

\* What ends it with a reschedule: the slice of an idle or longer current is cut
\* short, and no buddy of it is kept.
Preempted(s, short) ==
  [IF short THEN clear_buddies(s, s.curr[s.at]) ELSE s EXCEPT !.resched = TRUE]
NoPreempt(s) == [s EXCEPT !.pc = "run", !.at = Root, !.pse = FNone]

\* The loop of wakeup_preempt_fair: what would be picked now?
PreemptPick(e, short) ==
  /\ fq.pc = "preempt" /\ e \in fq.q[fq.at]
  /\ LET Again(s) == IF s.q[s.at] # {} THEN s ELSE NoPreempt(s)
     IN  fq' = IF e \notin fq.delayed
               THEN NoPreempt(IF e = fq.pse THEN Preempted(fq, short) ELSE fq)
               ELSE Again(dequeue_entities(fq, e, PickedDelayed))

\* How it begins: an idle current yields, an idle or batch wakee does not
\* preempt, a delayed one is left alone unless its slice is shorter, and
\* NEXT_BUDDY has the woken entity run next, whoever is picked.
PreemptBegin(buddy) ==
  /\ fq.pc = "wakeup" /\ (buddy => fq.pse \notin fq.delayed)
  /\ fq' = [IF buddy THEN set_next_buddy(fq, fq.pse) ELSE fq EXCEPT !.pc = "preempt"]
PreemptNow(short) == fq.pc = "wakeup" /\ fq' = NoPreempt(Preempted(fq, short))
PreemptNot == fq.pc = "wakeup" /\ fq' = NoPreempt(fq)

\* __schedule: the running task blocks, or is preempted.
Block(inel, special) ==
  /\ Running(fq) /\ fq.run \in FTasks
  /\ LET p == fq.run
         s == Oracle(fq, inel, {}, {})
         s1 == IF ~Fair(s, p) THEN s ELSE dequeue_task_fair(s, p, Flags(TRUE, FALSE, special, FALSE))
     IN  fq' = [Done(s1) EXCEPT !.pc = "pick",
                                !.on = IF p \in s1.delayed THEN @ ELSE @ \ {p}]
Preempt == /\ Running(fq) /\ fq' = [fq EXCEPT !.pc = "pick"]

RtRunnable(s) == s.rt \cap s.on

\* pick_task_fair, one level of the tree at a time.
PickLevel(e, gr) ==
  /\ fq.pc = "pick" /\ RtRunnable(fq) = {} /\ e \in fq.q[fq.at]
  /\ LET s == Oracle(fq, {}, {}, gr)
         s1 == [check_cfs_rq_runtime(s, s.at) EXCEPT !.exceeded = @ \/ Exceeds(s, s.at)]
         s2 == IF s1.exceeded /\ e \notin FKthreads
               THEN [s1 EXCEPT !.work = @ \cup {e}] ELSE s1
     IN  fq' = Done(IF e \in s.delayed
                    THEN [dequeue_entities(s1, e, PickedDelayed) EXCEPT !.at = Root, !.exceeded = FALSE]
                    ELSE IF e \notin FTasks THEN [s1 EXCEPT !.at = e]
                    ELSE SwitchTo(s2, e))
PickOther(p, gr) ==
  /\ fq.pc = "pick"
  /\ IF RtRunnable(fq) # {} THEN p \in RtRunnable(fq)
     ELSE fq.at = Root /\ fq.q[Root] = {} /\ p = FIdle
  /\ fq' = Done(SwitchTo(Oracle(fq, {}, {}, gr), p))

\* throttle_cfs_rq_work, on the way to user space.
ReturnToUser ==
  /\ Running(fq) /\ fq.run \in fq.work
  /\ LET p == fq.run
         g == fq.grp[p]
         s == [fq EXCEPT !.work = @ \ {p}]
         s1 == dequeue_task_fair(Warn(s, p \in s.throttled, "work"), p, Flags(TRUE, FALSE, FALSE, TRUE))
     IN  fq' = IF ~Fair(s, p) \/ s.count[g] = 0 THEN s
               ELSE [s1 EXCEPT !.limbo[g] = @ \cup {p}, !.throttled = @ \cup {p}, !.resched = TRUE]

\* Around a change of the task: a queued one is dequeued and a running one put, and
\* both are undone, in the class it has then.
sched_change_begin(s, p) ==
  LET s1 == IF p \in s.on /\ Fair(s, p) THEN dequeue_task_fair(s, p, Save) ELSE s
  IN  IF s.run = p /\ Fair(s, p) THEN put_prev_task_fair(s1, p) ELSE s1
sched_change_end(s, p) ==
  LET s1 == IF p \in s.on /\ Fair(s, p) THEN enqueue_task_fair(s, p, TRUE) ELSE s
  IN  IF s.run = p /\ Fair(s, p) THEN set_next_task_fair(s1, p) ELSE s1

\* sched_move_task.
MoveTask(p, g, gr) ==
  /\ Running(fq) /\ g # fq.grp[p]
  /\ LET s == Oracle(fq, {}, {}, gr)
         Op(x) == IF Fair(x, p)
                  THEN Propagate([Propagate(x, x.grp[p]) EXCEPT !.grp[p] = g], g)
                  ELSE [x EXCEPT !.grp[p] = g]
         Tell(x) == IF x.run = p THEN [x EXCEPT !.resched = TRUE]
                    ELSE IF p \in x.on /\ Fair(x, p) THEN wakeup_preempt(x, p) ELSE x
     IN  fq' = Done(Tell(sched_change_end(Op(sched_change_begin(s, p)), p)))

\* To the RT class and back (switching_from_fair ends a delayed dequeue).
SwitchClass(p, gr) ==
  /\ Running(fq)
  /\ LET s == Oracle(fq, {}, {}, gr)
         s0 == IF p \in s.delayed THEN dequeue_entities(s, p, PickedDelayed) ELSE s
         Op(x) == IF Fair(x, p) THEN [Propagate(x, x.grp[p]) EXCEPT !.rt = @ \cup {p}]
                  ELSE Propagate([x EXCEPT !.rt = @ \ {p}], x.grp[p])
         Tell(x) == IF p \notin x.on THEN x
                    ELSE IF x.run = p \/ p \in x.rt THEN [x EXCEPT !.resched = TRUE]
                    ELSE wakeup_preempt(x, p)
     IN  fq' = Done(Tell(sched_change_end(Op(sched_change_begin(s0, p)), p)))

\* update_curr finds the runtime of a running queue used up and the pool empty.
\* A queue that is throttled still, its runtime paid but the call to unthrottle
\* it on its way, is charged silently (late).
account_cfs_rq_runtime(g) ==
  /\ Running(fq) /\ g \in Bw \ fq.out /\ fq.curr[g] # FNone
  /\ fq' = [fq EXCEPT !.out = @ \cup {g}, !.resched = @ \/ g \notin fq.thr,
                        !.late = IF g \in fq.thr THEN @ \cup {g} ELSE @]

\* distribute_cfs_runtime pays the debt and calls the CPU; the CPU unthrottles.
Distribute(g) ==
  /\ Running(fq) /\ g \in (fq.thr \cap fq.out) \ fq.csd
  /\ fq' = [fq EXCEPT !.out = @ \ {g}, !.csd = @ \cup {g}]
__cfsb_csd_unthrottle(g, dec) ==
  /\ Running(fq) /\ g \in fq.csd
  /\ LET s == [Oracle(fq, {}, dec, {}) EXCEPT !.csd = @ \ {g}]
     IN  fq' = Done(IF g \in s.thr THEN unthrottle_cfs_rq(s, g) ELSE s)

UpdateBlockedAverages(dec) ==
  /\ Running(fq) /\ fq' = Done(UpdateBlocked(Oracle(fq, {}, dec, {}))) /\ fq' # fq

sched_group_set_idle(g) ==
  LET now == [fq EXCEPT !.idleGroups = IF g \in @ THEN @ \ {g} ELSE @ \cup {g}]
      delta == (fq.queued[g] - fq.idle[g]) * (IF g \in now.idleGroups THEN 1 ELSE -1)
      Step(x, se) == LET h == cfs_rq_of(x.s, se)
                     IN  IF x.stop \/ ~OnRq(x.s, se) THEN [x EXCEPT !.stop = TRUE]
                         ELSE [s |-> Counted(x.s, h, 0, 0, delta), stop |-> h \in now.idleGroups]
  IN  /\ Running(fq)
      /\ fq' = FoldLeft(Step, [s |-> now, stop |-> FALSE], UpFrom[g]).s

\* yield_to_task_fair.
YieldTo(p) ==
  /\ Running(fq) /\ Fair(fq, p) /\ Fair(fq, fq.run) /\ p # fq.run /\ OnRq(fq, p)
  /\ fq' = [(LET s == set_next_buddy(fq, p)
             IN  IF s.nr = 1 THEN s ELSE clear_buddies(s, fq.run)) EXCEPT !.resched = TRUE]

Next ==
  \/ \E p \in FTasks: Wake(p) \/ YieldTo(p)
  \/ \E e \in Entities, short \in BOOLEAN: PreemptPick(e, short)
  \/ \E b \in BOOLEAN: PreemptBegin(b) \/ PreemptNow(b)
  \/ PreemptNot
  \/ fq.run \in FTasks /\ \E inel \in Ineligible(fq, fq.run), sp \in BOOLEAN: Block(inel, sp)
  \/ Preempt
  \/ \E e \in Entities, gr \in SUBSET fq.out: PickLevel(e, gr)
  \/ \E p \in FTasks \cup {FIdle}, gr \in SUBSET fq.out: PickOther(p, gr)
  \/ ReturnToUser
  \/ \E p \in Movers, gr \in SUBSET fq.out: SwitchClass(p, gr) \/ (\E g \in Groups: MoveTask(p, g, gr))
  \/ \E g \in Bw: account_cfs_rq_runtime(g) \/ Distribute(g)
  \/ \E g \in Bw, dec \in SUBSET Groups: __cfsb_csd_unthrottle(g, dec)
  \/ \E dec \in SUBSET Groups: UpdateBlockedAverages(dec)
  \/ \E g \in Toggled: sched_group_set_idle(g)

-----------------------------------------------------------------------------
Sub(s, g) == {p \in FTasks: Fair(s, p) /\ g \in Above(s.grp[p]) \cup {s.grp[p]}
                            /\ OnRq(s, p)}
IdleUnder(s, g, p) == p \in IdlePolicy \/ \E h \in s.idleGroups: h # g /\ g \in Above(h)
                                           /\ h \in Above(s.grp[p]) \cup {s.grp[p]}

\* The hierarchical counts of every queue are the tasks queued below it, the
\* ones not delayed and the ones of idle policy or of an idle group, and
\* nr_running counts them all (enqueue_task_fair, dequeue_entities, set_delayed,
\* sched_group_set_idle each adjust them on their own).
CountsRight ==
  /\ \A g \in Groups:
       /\ fq.queued[g] = Cardinality(Sub(fq, g))
       /\ fq.runnable[g] = Cardinality(Sub(fq, g) \ fq.delayed)
       /\ fq.idle[g] = Cardinality({p \in Sub(fq, g): IdleUnder(fq, g, p)})
       /\ g # Root /\ fq.q[g] # {} => OnRq(fq, g)
  /\ fq.nr = fq.queued[Root]

\* A queue's throttle count is its throttled ancestors. A runnable fair task is
\* queued, or in the limbo list of a queue that is throttled and whose
\* unthrottling brings it back: none is forgotten.
LimboInv ==
  /\ \A g \in Groups: fq.count[g] = Cardinality(fq.thr \cap (Above(g) \cup {g}))
  /\ \A p \in fq.on \ fq.rt:
       OnRq(fq, p) # (p \in fq.limbo[fq.grp[p]] /\ p \in fq.throttled /\ fq.count[fq.grp[p]] > 0)
  /\ \A g \in Groups: \A p \in fq.limbo[g]: p \in fq.on \ fq.rt /\ fq.grp[p] = g

\* Every queue with an entity is on the leaf list, every queue of the list
\* stands before its parent there, and the PELT clock of a queue stands still
\* exactly while its hierarchy is throttled and it is empty.
LeafInv ==
  /\ \A g \in Groups: fq.q[g] # {} => OnList(fq, g)
  /\ \A g \in Range(fq.leaf) \ {Root}:
       OnList(fq, FParent[g]) /\ PosIn(fq.leaf, g) < PosIn(fq.leaf, FParent[g])
  /\ fq.stopped = {g \in Groups: fq.count[g] > 0 /\ fq.q[g] = {}}

\* A task that runs under a throttled queue out of runtime is about to park
\* itself or to be rescheduled, unless the queue ran out a second time while the
\* call to unthrottle it was on its way; a buddy is queued; and no assertion fails.
ThrottleDue ==
  /\ Running(fq) /\ Fair(fq, fq.run) /\ fq.run \notin FKthreads \cup fq.throttled
     /\ (\E g \in (Above(fq.grp[fq.run]) \cup {fq.grp[fq.run]}): g \in (fq.thr \cap fq.out) \ fq.late)
     => fq.run \in fq.work \/ fq.resched
  /\ \A g \in Groups: fq.next[g] # FNone => fq.next[g] \in fq.q[g]
  /\ fq.warn = {}

\* The tree, its counts, its limbo lists and its leaf list agree at every step.
FairQueueInv == CountsRight /\ LimboInv /\ LeafInv /\ ThrottleDue
=============================================================================
