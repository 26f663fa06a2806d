------------------------------- MODULE Eevdf -------------------------------
(***************************************************************************)
(* The arithmetic of the fair class on one cfs_rq (fair.c): virtual        *)
(* runtimes and deadlines, the running sums the average is taken from, the *)
(* lag kept over a sleep, and the choice of the earliest eligible virtual  *)
(* deadline.                                                               *)
(*                                                                         *)
(* Only differences of virtual times are ever used (vruntime_op), so every *)
(* time here is relative to cfs_rq->zero_vruntime: v is entity_key(), and  *)
(* moving the zero moves all of them (update_zero_vruntime).  ev holds     *)
(*   ent[e]  v, d (deadline), w (weight), lag (vlag), on (on_rq), del      *)
(*           (sched_delayed), rel (rel_deadline), prot (vprot - vruntime); *)
(*           lag is 0 while it is not read, prot when it does not run      *)
(*   curr, next     the running entity, kept out of the tree, and the buddy*)
(*   sum, load      sum_w_vruntime and sum_weight of the tree              *)
(*   missed         a placement missed the lag it was to restore by more   *)
(*                  than the rounding                                      *)
(* Time passes only in Run: every handler starts with update_curr, and Run *)
(* before it is that charge.  The red-black tree is any search tree over   *)
(* the deadlines.  PARANOID_AVG's scaling of the weights is left out.      *)
(***************************************************************************)
EXTENDS Integers, FiniteSets, Sequences, SequencesExt, FiniteSetsExt

CONSTANTS
    Entities,
    SliceOf,    \* each entity's request, set with sched_setattr
    WeightOf,   \* its weight at first
    Weights,    \* the weights a reweight may give
    Reweighted, \* the entities whose weight changes
    Moved,      \* those that leave the queue otherwise than to sleep
    Buddies,    \* those somebody yields to
    Nice0,      \* the weight of nice 0
    Tick,       \* TICK_NSEC
    Charges,    \* how much one update_curr may charge
    Rounding,   \* what two divisions may lose of a lag
    MaxKey,     \* bound on how far a vruntime strays from the zero
    NoEntity

VARIABLE ev

ent == ev.ent

Init ==
    ev = [ent |-> [e \in Entities |->
                     [v |-> 0, d |-> 0, w |-> WeightOf[e], lag |-> 0, on |-> FALSE,
                      del |-> FALSE, rel |-> FALSE, prot |-> 0]],
          curr |-> NoEntity, next |-> NoEntity, sum |-> 0, load |-> 0, missed |-> FALSE]

----------------------------------------------------------------------------
(* The average.                                                            *)

Queued(s) == {e \in Entities : s.ent[e].on}

Tree(s) == Queued(s) \ {s.curr}

nr_queued(s) == Cardinality(Queued(s))

CurrOn(s) == s.curr # NoEntity /\ s.ent[s.curr].on

calc_delta_fair(x, w) == (x * Nice0) \div w

\* C division: towards zero.
DivC(a, b) == IF a < 0 THEN -((-a) \div b) ELSE a \div b

Clamp(x, lo, hi) == IF x < lo THEN lo ELSE IF x > hi THEN hi ELSE x

\* The tree's sums with the running entity added.
Total(s) ==
    IF CurrOn(s)
    THEN [sum  |-> s.sum + s.ent[s.curr].v * s.ent[s.curr].w,
          load |-> s.load + s.ent[s.curr].w]
    ELSE [sum |-> s.sum, load |-> s.load]

__sum_w_vruntime_add(s, e) ==
    [s EXCEPT !.sum = @ + s.ent[e].v * s.ent[e].w, !.load = @ + s.ent[e].w]

sum_w_vruntime_sub(s, e) ==
    [s EXCEPT !.sum = @ - s.ent[e].v * s.ent[e].w, !.load = @ - s.ent[e].w]

\* Times that are meaningful move with the zero; a deadline taken off the
\* queue with its entity is relative to the entity itself.
update_zero_vruntime(s, delta) ==
    [s EXCEPT
       !.sum = @ - s.load * delta,
       !.ent = [e \in Entities |->
                  IF s.ent[e].on
                  THEN [s.ent[e] EXCEPT !.v = @ - delta, !.d = @ - delta]
                  ELSE s.ent[e]]]

\* "the result of this function must have a left bias"
Avg(s) ==
    LET t == Total(s) IN
    IF s.load # 0 THEN DivC(IF t.sum < 0 THEN t.sum - (t.load - 1) ELSE t.sum, t.load)
    ELSE IF CurrOn(s) THEN s.ent[s.curr].v ELSE 0

\* The state after the call; the average is the new zero.
avg_vruntime(s) == update_zero_vruntime(s, Avg(s))

vruntime_eligible(s, v) == LET t == Total(s) IN t.sum >= v * t.load

entity_eligible(s, e) == vruntime_eligible(s, s.ent[e].v)

cfs_rq_max_slice(s) == Max({SliceOf[e] : e \in Queued(s)} \union {0})

cfs_rq_min_slice(s) == Min({SliceOf[e] : e \in Queued(s)})

\* Called with the zero at the average.
entity_lag(s, e) ==
    LET limit == calc_delta_fair(cfs_rq_max_slice(s) + Tick, s.ent[e].w)
    IN  Clamp(-s.ent[e].v, -limit, limit)

\* The state with the lag recorded, and whether it is not the true one.
update_entity_lag(s0, e) ==
    LET s   == avg_vruntime(s0)
        lag == IF s.ent[e].del
               THEN Min({0, Max({entity_lag(s, e), s.ent[e].lag})})
               ELSE entity_lag(s, e)
    IN  [s |-> [s EXCEPT !.ent[e].lag = lag], changed |-> -lag # s.ent[e].v]

----------------------------------------------------------------------------
(* Queueing.                                                               *)

update_deadline(s, e) ==
    IF s.ent[e].v < s.ent[e].d THEN s
    ELSE avg_vruntime([s EXCEPT !.ent[e].d =
                         s.ent[e].v + calc_delta_fair(SliceOf[e], s.ent[e].w)])

\* "in order to preserve lag we should inflate the lag before placement"
Inflated(lag, load, w) == DivC(lag * (load + w), load)

place_entity(s0, e, initial) ==
    LET s1   == avg_vruntime(s0)
        load == Total(s1).load
        w    == s1.ent[e].w
        lag  == IF load # 0 /\ s1.ent[e].lag # 0
                THEN Inflated(s1.ent[e].lag, load, w) ELSE 0
        move == lag # 0 /\ w > load
        s    == IF move THEN update_zero_vruntime(s1, -lag) ELSE s1
        v    == IF move THEN 0 ELSE -lag
        vs   == calc_delta_fair(SliceOf[e], w)
    IN  [s EXCEPT !.ent[e].v = v,
                  !.ent[e].d = IF s.ent[e].rel THEN @ + v
                               ELSE v + (IF initial THEN vs \div 2 ELSE vs),
                  !.ent[e].rel = FALSE]

\* An entity off the queue keeps only what outlives its dequeue.
Off(x) == [x EXCEPT !.v = 0, !.d = IF x.rel THEN @ ELSE 0, !.prot = 0,
                    !.on = FALSE, !.del = FALSE]

clear_buddies(s, e) == IF s.next = e THEN [s EXCEPT !.next = NoEntity] ELSE s

enqueue_entity(s, e, initial) ==
    LET p == place_entity(s, e, initial)
        q == [__sum_w_vruntime_add(p, e) EXCEPT !.ent[e].on = TRUE]
        off == (Avg(q) - q.ent[e].v) - s.ent[e].lag
    IN  [q EXCEPT !.ent[e].lag = 0,
                  !.missed = @ \/ (s.ent[e].lag # 0 /\ nr_queued(s) # 0
                                   /\ off \notin -Rounding..Rounding)]

\* A sleeper that is owed nothing stays queued until it is eligible.
dequeue_entity(s0, e, sleep, delayed) ==
    LET s == clear_buddies(s0, e) IN
    IF sleep /\ ~delayed /\ ~entity_eligible(s, e)
    THEN [update_entity_lag(s, e).s EXCEPT !.ent[e].del = TRUE]
    ELSE LET l == update_entity_lag(s, e).s
             r == IF sleep THEN l
                  ELSE [l EXCEPT !.ent[e].d = @ - l.ent[e].v, !.ent[e].rel = TRUE]
             t == IF e = s.curr THEN r ELSE sum_w_vruntime_sub(r, e)
         IN  [t EXCEPT !.ent[e] = Off(@)]

requeue_delayed_entity(s, e) ==
    LET u == update_entity_lag(s, e)
        o == [sum_w_vruntime_sub(u.s, e) EXCEPT !.ent[e].on = FALSE]
        p == place_entity(o, e, FALSE)
        q == [__sum_w_vruntime_add(p, e) EXCEPT !.ent[e].on = TRUE]
    IN  [IF u.changed THEN q ELSE u.s EXCEPT !.ent[e].del = FALSE, !.ent[e].lag = 0]

\* The vruntime of the rescaled lag is set before the entity is taken out.
reweight_entity_late(s0, e, w) ==
    LET s   == IF s0.ent[e].on THEN avg_vruntime(s0) ELSE s0
        x   == s.ent[e]
        lag == DivC((IF x.on THEN entity_lag(s, e) ELSE x.lag) * x.w, w)
        y   == [x EXCEPT !.lag = IF x.on /\ ~x.del THEN 0 ELSE lag,
                         !.v = IF x.on THEN -lag ELSE @,
                         !.d = IF x.on \/ x.rel THEN DivC(@ * x.w, w) ELSE @]
        t   == [s EXCEPT !.ent[e] = y]
        u   == IF ~x.on \/ e = s.curr THEN t ELSE sum_w_vruntime_sub(t, e)
        r   == [u EXCEPT !.ent[e].w = w]
    IN  IF ~x.on \/ e = s.curr THEN r ELSE __sum_w_vruntime_add(r, e)

\* A time relative to the entity keeps its value in real time.
rescale_entity(x, old, w) == DivC(x * old, w)

reweight_entity(s0, e, w) ==
    LET s   == IF s0.ent[e].on THEN avg_vruntime(s0) ELSE s0
        x   == s.ent[e]
        lag == rescale_entity(IF x.on THEN entity_lag(s, e) ELSE x.lag, x.w, w)
        y   == [x EXCEPT !.w = w, !.lag = IF x.on /\ ~x.del THEN 0 ELSE lag,
                         !.v = IF x.on THEN -lag ELSE @,
                         !.d = IF x.on \/ x.rel THEN rescale_entity(@, x.w, w) ELSE @,
                         !.prot = IF e # s.curr \/ ~x.on THEN 0
                                  ELSE IF x.prot > 0 THEN rescale_entity(x.v + @, x.w, w) + lag
                                  ELSE Max({x.v + @ + lag, -2 * MaxKey})]
    IN  IF ~x.on \/ e = s.curr THEN [s EXCEPT !.ent[e] = y]
        ELSE __sum_w_vruntime_add([sum_w_vruntime_sub(s, e) EXCEPT !.ent[e] = y], e)

----------------------------------------------------------------------------
(* The choice.                                                             *)

\* The orders the tree may hold its entities in: by deadline, ties either way.
Timelines(s) ==
    {q \in SetToSeqs(Tree(s)) :
       \A i, j \in DOMAIN q : i < j => s.ent[q[i]].d <= s.ent[q[j]].d}

\* What the search finds in q[lo..hi] whatever node roots it; the left half
\* is entered when its min_vruntime is eligible.
Search(s, q) ==
    LET n == Len(q)
        f[iv \in (1..n+1) \X (0..n)] ==
          LET lo == iv[1]
              hi == iv[2]
          IN  IF lo > hi THEN {NoEntity}
              ELSE UNION {
                LET minv == Min({s.ent[q[i]].v : i \in lo..(k-1)}) IN
                IF lo < k /\ vruntime_eligible(s, minv) THEN f[<<lo, k-1>>]
                ELSE IF entity_eligible(s, q[k]) THEN {q[k]}
                ELSE f[<<k+1, hi>>] : k \in lo..hi}
    IN  f[<<1, n>>]

\* The results a call may have, over all trees.
pick_eevdf(s, protect) ==
    LET on   == CurrOn(s)
        curr == IF on /\ entity_eligible(s, s.curr) THEN s.curr ELSE NoEntity
        Pick(q) ==
          LET found == IF q # <<>> /\ entity_eligible(s, q[1]) THEN {q[1]}
                       ELSE Search(s, q)
          IN  {IF b = NoEntity \/ (curr # NoEntity /\ s.ent[curr].d < s.ent[b].d)
               THEN curr ELSE b : b \in found}
    IN  IF nr_queued(s) = 1 THEN Queued(s)
        ELSE IF protect /\ s.next # NoEntity /\ entity_eligible(s, s.next) THEN {s.next}
        ELSE IF curr # NoEntity /\ protect /\ s.ent[curr].prot > 0 THEN {curr}
        ELSE UNION {Pick(q) : q \in Timelines(s)}

set_protect_slice(s, e) ==
    LET slice == Min({cfs_rq_min_slice(s), SliceOf[e]})
        x     == s.ent[e]
    IN  IF slice = SliceOf[e] THEN x.d - x.v
        ELSE Min({x.d - x.v, calc_delta_fair(slice, x.w)})

put_prev_entity(s) ==
    IF s.curr = NoEntity THEN s
    ELSE LET t == IF s.ent[s.curr].on THEN __sum_w_vruntime_add(s, s.curr) ELSE s
         IN  [t EXCEPT !.ent[s.curr].prot = 0, !.curr = NoEntity]

set_next_entity(s, e) ==
    LET t == [sum_w_vruntime_sub(clear_buddies(s, e), e) EXCEPT !.curr = e]
    IN  [t EXCEPT !.ent[e].prot = set_protect_slice(t, e)]

----------------------------------------------------------------------------
(* The handlers.                                                           *)

\* schedule() follows at once when the running entity leaves or is delayed.
Steady == ev.curr \in {NoEntity} \union {e \in Entities : ent[e].on /\ ~ent[e].del}

Bounded(s) == \A e \in Queued(s) : s.ent[e].v \in -MaxKey..MaxKey /\ s.ent[e].d <= 2 * MaxKey

\* The running entity's time moves on; a protection that ran out long ago is
\* kept at a bound.
Advance(s, dv) ==
    [s EXCEPT !.ent[s.curr].v = @ + dv, !.ent[s.curr].prot = Max({@ - dv, -2 * MaxKey})]

update_curr ==
    /\ CurrOn(ev) /\ Steady
    /\ \E x \in Charges :
         LET s == update_deadline(Advance(ev, calc_delta_fair(x, ent[ev.curr].w)), ev.curr)
         IN  Bounded(s) /\ ev' = s

\* A wakeup, a fork (initial) or a migration; a delayed sleeper is requeued.
Wake(e) ==
    /\ Steady
    /\ \/ /\ ~ent[e].on
          /\ \E initial \in BOOLEAN : ev' = enqueue_entity(ev, e, initial)
       \/ /\ ent[e].del
          /\ ev' = requeue_delayed_entity(ev, e)

Sleep ==
    /\ Steady /\ CurrOn(ev)
    /\ ev' = dequeue_entity(ev, ev.curr, TRUE, FALSE)

\* Off the queue for a migration or a change of its parameters.
Take(e) ==
    /\ e \in Moved
    /\ Steady /\ ent[e].on /\ ~ent[e].del
    /\ ev' = dequeue_entity(ev, e, FALSE, FALSE)

Reweight(e) ==
    /\ e \in Reweighted
    /\ Steady
    /\ \E w \in Weights \ {ent[e].w} : ev' = reweight_entity(ev, e, w)

\* set_next_buddy for the target of a yield_to.
SetBuddy(e) ==
    /\ e \in Buddies
    /\ Steady /\ e \in Tree(ev) /\ ~ent[e].del
    /\ ev' = [ev EXCEPT !.next = e]

\* "Forfeit the remaining vruntime"
YieldTo(s) == update_deadline(Advance(s, s.ent[s.curr].d - s.ent[s.curr].v), s.curr)

yield_task_fair ==
    /\ Steady /\ CurrOn(ev) /\ nr_queued(ev) > 1
    /\ LET s == clear_buddies(ev, ev.curr) IN
       /\ entity_eligible(s, s.curr) => Bounded(YieldTo(s))
       /\ ev' = IF entity_eligible(s, s.curr) THEN YieldTo(s) ELSE s

\* pick_next_task_fair; a delayed entity that is picked is dequeued instead.
Schedule ==
    /\ nr_queued(ev) # 0
    /\ \E e \in pick_eevdf(ev, TRUE) \ {NoEntity} :
         ev' = IF ent[e].del THEN dequeue_entity(ev, e, TRUE, TRUE)
               ELSE IF e = ev.curr THEN ev
               ELSE set_next_entity(put_prev_entity(ev), e)

\* Nothing is queued: the fair class has nothing to run.
GoIdle ==
    /\ nr_queued(ev) = 0 /\ ev.curr # NoEntity
    /\ ev' = put_prev_entity(ev)

Next ==
    \/ update_curr \/ Sleep \/ yield_task_fair \/ Schedule \/ GoIdle
    \/ \E e \in Entities : Wake(e) \/ Take(e) \/ Reweight(e) \/ SetBuddy(e)

----------------------------------------------------------------------------
Sum(f(_), S) == FoldSet(LAMBDA e, a : f(e) + a, 0, S)

(* sum_w_vruntime and sum_weight, updated at every queueing, reweight and  *)
(* move of the zero and never recomputed, are the sums over the tree.      *)
SumsExact ==
    /\ ev.sum = Sum(LAMBDA e : ent[e].v * ent[e].w, Tree(ev))
    /\ ev.load = Sum(LAMBDA e : ent[e].w, Tree(ev))

(* The average over all queued entities, from the definition.              *)
EligibleRef(e) ==
    Sum(LAMBDA f : (ent[f].v - ent[e].v) * ent[f].w, Queued(ev)) >= 0

(* pick_eevdf never returns NULL while something is queued (its caller     *)
(* dereferences the result), and without the protection of a slice it      *)
(* returns an eligible entity that no eligible one precedes in deadline,   *)
(* whatever the shape of the tree.                                         *)
PickRight ==
    nr_queued(ev) # 0 =>
      /\ pick_eevdf(ev, TRUE) \subseteq Queued(ev)
      /\ \A b \in pick_eevdf(ev, FALSE) :
           /\ b \in Queued(ev)
           /\ EligibleRef(b)
           /\ \A e \in Queued(ev) : EligibleRef(e) => ent[b].d <= ent[e].d

(* "avg_vruntime() + 0 must result in entity_eligible() := true": the      *)
(* average rounds to the left, and by less than one.                       *)
LeftBias ==
    nr_queued(ev) # 0 =>
      /\ vruntime_eligible(ev, Avg(ev))
      /\ ~vruntime_eligible(ev, Avg(ev) + 1)

(* "the lag after placement is the lag we computed before dequeue", up to  *)
(* the rounding of the two divisions, whatever was queued meanwhile.       *)
LagRestored == ~ev.missed

(* The buddy is queued, not running and not delayed (the WARN_ON_ONCE in   *)
(* pick_eevdf).                                                            *)
BuddyQueued ==
    ev.next # NoEntity => ev.next \in Tree(ev) /\ ~ent[ev.next].del

\* The sums avg_vruntime works with, the pick and the lags are those of the EEVDF
\* definition, whatever is queued, delayed, moved and reweighted.
EevdfInv == SumsExact /\ PickRight /\ LeftBias /\ LagRestored /\ BuddyQueued
=============================================================================
