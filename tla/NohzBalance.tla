---------------------------- MODULE NohzBalance ----------------------------
(***************************************************************************)
(* Idle load balancing on behalf of CPUs whose tick is stopped (fair.c,    *)
(* nohz; core.c, nohz_csd_func).  A CPU that stops its tick announces      *)
(* itself in nohz.idle_cpus_mask and then raises nohz.needs_update and     *)
(* nohz.has_blocked_load.  A busy CPU's tick kicks one idle CPU through    *)
(* that CPU's only nohz_csd.  The kicked CPU, or a CPU about to go idle,   *)
(* clears the flags and then walks the mask one CPU at a time.  Nothing    *)
(* but atomics orders these steps; each shared store is a step here.       *)
(*                                                                         *)
(* nz is the global nohz structure and its nr_busy_cpus, ncpu[c] what CPU  *)
(* c owns:                                                                 *)
(*   mode     "busy", "newidle", "run", "mask", "needs", "flag", "idle":   *)
(*            where it is between running tasks and tickless idle          *)
(*   queued   a task was queued while it was on its way to idle            *)
(*   stopped  rq->nohz_tick_stopped;  load  rq->has_blocked_load           *)
(*   flags    nohz_flags;  csd  nohz_csd is queued                         *)
(*   walk     the CPU's own _nohz_idle_balance, NoWalk when none           *)
(*   fresh    "new" from its announcement until a walk looks at it, or     *)
(*            "passed" when one found it in the mask and not idle          *)
(* The decay and the clocks are choices, as is every reason to balance; a  *)
(* full balance (BALANCE) always comes with STATS and is not told apart.   *)
(***************************************************************************)
EXTENDS Naturals, FiniteSets, Sequences, SequencesExt

CONSTANTS
    NrNohz,     \* CPUs 1..NrNohz go idle; CPU 0 is always busy
    Woken       \* those that get work again while they are idle

VARIABLES nz, ncpu

nohzVars == <<nz, ncpu>>

NohzCpus == 1..NrNohz

KICK_MASK == {"STATS", "NEXT"}

NoWalk == [on |-> FALSE, flags |-> {}, todo |-> <<>>, has_blocked_load |-> FALSE]

Init ==
    /\ nz = [mask |-> {}, has_blocked_load |-> FALSE, needs_update |-> FALSE,
             nr_busy |-> NrNohz, warn |-> {}]
    /\ ncpu = [c \in NohzCpus |->
                 [mode |-> "busy", queued |-> FALSE, stopped |-> FALSE,
                  nohz_idle |-> FALSE, load |-> FALSE,
                  flags |-> {}, csd |-> FALSE, walk |-> NoWalk, fresh |-> "no"]]

idle_cpu(c) == ncpu[c].mode \notin {"busy", "newidle"} /\ ~ncpu[c].queued

Walking(c) == ncpu[c].walk.on

\* schedule() and the stores of nohz_balance_enter_idle run with interrupts off.
IrqsOn(c) == ncpu[c].mode \in {"busy", "run", "idle"}

----------------------------------------------------------------------------
(* Kicking an idle CPU.                                                    *)

\* fetch_or of the flags; the first to set one owns the csd.
kick_ilb(f, c, s) ==
    IF f \subseteq s[c].flags THEN s
    ELSE [s EXCEPT ![c].flags = @ \union f,
                   ![c].csd = IF s[c].flags \cap KICK_MASK = {} THEN TRUE ELSE @]

\* A csd that has not run is queued again.
Requeued(f, c) ==
    /\ ~(f \subseteq ncpu[c].flags)
    /\ ncpu[c].csd
    /\ ncpu[c].flags \cap KICK_MASK = {}

find_new_ilb(self) ==
    LET C == {c \in nz.mask \ {self} : idle_cpu(c)}
    IN  IF C = {} THEN 0 ELSE CHOOSE c \in C : \A d \in C : c <= d

\* What a busy tick may ask for: nothing is due, or the stats and perhaps
\* a full balance; and the update of next_balance.
Reasons ==
    {r \union (IF nz.needs_update THEN {"NEXT"} ELSE {}) :
       r \in {{}} \union (IF nz.has_blocked_load \/ nz.mask # {} THEN {{"STATS"}} ELSE {})}

\* The tick's kick on behalf of CPU self.
Kick(self, s, z) ==
    LET ilb == find_new_ilb(self) IN
    \E f \in Reasons :
       IF f = {} \/ ilb = 0 THEN ncpu' = s /\ nz' = z
       ELSE /\ ncpu' = kick_ilb(f, ilb, s)
            /\ nz' = IF Requeued(f, ilb) THEN [z EXCEPT !.warn = @ \union {"csd"}] ELSE z

\* The first busy tick takes the CPU out of the mask.
nohz_balance_exit_idle(c) ==
    /\ ~idle_cpu(c) /\ ncpu[c].stopped /\ IrqsOn(c)
    /\ Kick(c, [ncpu EXCEPT ![c].stopped = FALSE, ![c].nohz_idle = FALSE, ![c].fresh = "no"],
               [nz EXCEPT !.mask = @ \ {c},
                          !.nr_busy = IF ncpu[c].nohz_idle THEN @ + 1 ELSE @])

\* nohz_balancer_kick from the tick of a CPU that was busy before: what CPU 0
\* does stands for all of them.
nohz_balancer_kick == Kick(0, ncpu, nz)

----------------------------------------------------------------------------
(* The two places a walk starts.                                           *)

\* for_each_cpu_wrap from the CPU after c, ending with c; whether a CPU is in
\* the mask is read when the walk gets to it.
Wrap(c) == [i \in 1..NrNohz |-> ((c + i - 1) % NrNohz) + 1]

\* The start of _nohz_idle_balance: both flags down, then the walk.
BeginWalk(c, f, s, z) ==
    [s |-> [s EXCEPT ![c].walk = [on |-> TRUE, flags |-> f, todo |-> Wrap(c),
                                  has_blocked_load |-> FALSE]],
     z |-> [z EXCEPT !.has_blocked_load = IF "STATS" \in f THEN FALSE ELSE @,
                     !.needs_update = IF "NEXT" \in f THEN FALSE ELSE @]]

\* The csd on the kicked CPU, and the softirq it raises there, which "will be
\* run before returning from the IPI": nohz_idle_balance drops the request
\* when a tick between the two found the CPU busy.
nohz_csd_func(c) ==
    /\ ncpu[c].csd /\ IrqsOn(c) /\ ~Walking(c)
    /\ LET f == ncpu[c].flags
           s == [ncpu EXCEPT ![c].csd = FALSE, ![c].flags = {}]
           z == IF f \cap KICK_MASK = {}
                THEN [nz EXCEPT !.warn = @ \union {"noflag"}] ELSE nz
           w == BeginWalk(c, f \cap KICK_MASK, s, z)
       IN IF idle_cpu(c) THEN ncpu' = w.s /\ nz' = w.z
          ELSE ncpu' = s /\ nz' = z

\* The last task sleeps; sched_balance_newidle and nohz_newidle_balance.
nohz_newidle_balance(c) ==
    /\ ncpu[c].mode = "busy" /\ ~Walking(c)
    /\ \E due \in {FALSE, nz.has_blocked_load} :
         ncpu' = [ncpu EXCEPT ![c].mode = "newidle",
                              ![c].flags = IF due THEN @ \union {"NEWILB"} ELSE @]
    /\ UNCHANGED nz

\* do_idle: the walk is made here unless a softirq will make it.
nohz_run_idle_balance(c) ==
    /\ ncpu[c].mode = "newidle"
    /\ LET s == [ncpu EXCEPT ![c].mode = "run", ![c].flags = @ \ {"NEWILB"}]
           w == BeginWalk(c, {"STATS"}, s, nz)
       IN IF ncpu[c].flags = {"NEWILB"}
          THEN ncpu' = w.s /\ nz' = w.z
          ELSE ncpu' = s /\ UNCHANGED nz

----------------------------------------------------------------------------
(* nohz_balance_enter_idle, store by store.                                *)

\* The flags are raised before the CPU is in the mask.
NextStoreEarly(c) ==
    CASE ncpu[c].mode = "run"   -> IF ncpu[c].stopped THEN "flag" ELSE "needs"
      [] ncpu[c].mode = "needs" -> "flag"
      [] ncpu[c].mode = "flag"  -> IF ncpu[c].stopped THEN "idle" ELSE "mask"
      [] OTHER                  -> "idle"

\* The store that comes next.
NextStore(c) ==
    CASE ncpu[c].mode = "run"   -> IF ncpu[c].stopped THEN "flag" ELSE "mask"
      [] ncpu[c].mode = "mask"  -> "needs"
      [] ncpu[c].mode = "needs" -> "flag"
      [] OTHER                  -> "idle"

nohz_balance_enter_idle(c) ==
    /\ ncpu[c].mode \in {"run", "mask", "needs", "flag"} /\ ~Walking(c)
    /\ ~(ncpu[c].mode = "run" /\ ncpu[c].queued)
    /\ LET m == ncpu[c].mode IN
       /\ ncpu' = [ncpu EXCEPT ![c].mode = NextStore(c),
                               ![c].load = IF m = "run" THEN TRUE ELSE @,
                               ![c].stopped = IF m = "mask" THEN TRUE ELSE @,
                               ![c].nohz_idle = IF m = "mask" THEN TRUE ELSE @,
                               ![c].fresh = IF m = "mask" THEN "new" ELSE @]
       /\ nz' = [nz EXCEPT
                   !.mask = IF m = "mask" THEN @ \union {c} ELSE @,
                   !.nr_busy = IF m = "mask" /\ ~ncpu[c].nohz_idle THEN @ - 1 ELSE @,
                   !.needs_update = IF m = "needs" THEN TRUE ELSE @,
                   !.has_blocked_load = IF m = "flag" THEN TRUE ELSE @]

\* A wakeup from another CPU, and the idle loop that runs what it queued.
Queue(c) ==
    /\ c \in Woken /\ ncpu[c].mode \notin {"busy", "newidle"} /\ ~ncpu[c].queued
    /\ ncpu' = [ncpu EXCEPT ![c].queued = TRUE]
    /\ UNCHANGED nz

LeaveIdle(c) ==
    /\ ncpu[c].mode \in {"run", "idle"} /\ ncpu[c].queued /\ ~Walking(c)
    /\ ncpu' = [ncpu EXCEPT ![c].mode = "busy", ![c].queued = FALSE]
    /\ UNCHANGED nz

----------------------------------------------------------------------------
(* The walk.                                                               *)

\* What the walk learns of a CPU's blocked load: none left, it was updated in
\* this very tick, or the update under its lock decays it or does not.
update_nohz_stats(d) == IF ncpu[d].load THEN BOOLEAN ELSE {FALSE}

\* The next CPU of the walk is looked at.
Visit(c) ==
    /\ Walking(c) /\ ncpu[c].walk.todo # <<>>
    /\ LET w == ncpu[c].walk
           d == Head(w.todo)
           s == [ncpu EXCEPT ![c].walk.todo = Tail(@)]
       IN \/ /\ d \notin nz.mask \/ ~idle_cpu(d)
             /\ ncpu' = [s EXCEPT ![d].fresh = IF @ = "new" /\ d \in nz.mask
                                               THEN "passed" ELSE @]
          \/ /\ d \in nz.mask /\ idle_cpu(d)
             /\ IF "STATS" \in w.flags
                THEN \E b \in update_nohz_stats(d) :
                       ncpu' = [s EXCEPT ![d].fresh = "no", ![d].load = b,
                                         ![c].walk.has_blocked_load = @ \/ b]
                ELSE ncpu' = [s EXCEPT ![d].fresh = "no"]
    /\ UNCHANGED nz

\* This CPU has work of its own: whoever comes next starts over.
Abort(c) ==
    /\ Walking(c) /\ ncpu[c].walk.todo # <<>> /\ ~idle_cpu(c)
    /\ Head(ncpu[c].walk.todo) \in nz.mask /\ idle_cpu(Head(ncpu[c].walk.todo))
    /\ LET f == ncpu[c].walk.flags IN
       /\ nz' = IF "NEXT" \in f THEN [nz EXCEPT !.needs_update = TRUE] ELSE nz
       /\ ncpu' = [ncpu EXCEPT ![c].walk.todo = <<>>,
                               ![c].walk.has_blocked_load = @ \/ "STATS" \in f]

EndWalk(c) ==
    /\ Walking(c) /\ ncpu[c].walk.todo = <<>>
    /\ nz' = IF ncpu[c].walk.has_blocked_load
             THEN [nz EXCEPT !.has_blocked_load = TRUE] ELSE nz
    /\ ncpu' = [ncpu EXCEPT ![c].walk = NoWalk]

Next ==
    \/ nohz_balancer_kick
    \/ \E c \in NohzCpus :
       \/ nohz_balance_exit_idle(c) \/ nohz_csd_func(c)
       \/ nohz_newidle_balance(c) \/ nohz_run_idle_balance(c)
       \/ nohz_balance_enter_idle(c)
       \/ Queue(c) \/ LeaveIdle(c)
       \/ Visit(c) \/ Abort(c) \/ EndWalk(c)

----------------------------------------------------------------------------
(* A walk under way will still look at c, or will raise the flag again.    *)
StatsComing(c) ==
    \E w \in NohzCpus :
       /\ Walking(w) /\ "STATS" \in ncpu[w].walk.flags
       /\ \/ ncpu[w].walk.has_blocked_load
          \/ c \in Range(ncpu[w].walk.todo)

NextComing(c) ==
    \E w \in NohzCpus :
       /\ Walking(w) /\ "NEXT" \in ncpu[w].walk.flags
       /\ c \in Range(ncpu[w].walk.todo)

(* "we are sure to not clear the state and not check the load of an idle   *)
(* cpu" (_nohz_idle_balance): while an idle CPU's load has not decayed,    *)
(* either nohz.has_blocked_load is up or a walk that cleared it is still   *)
(* going to look at this CPU or to raise it again.                         *)
BlockedLoadSeen ==
    \A c \in NohzCpus :
       (ncpu[c].mode = "idle" /\ ncpu[c].load /\ ~ncpu[c].queued)
         => nz.has_blocked_load \/ StatsComing(c)

(* The same for needs_update: a CPU that announced itself and was not      *)
(* looked at since is still announced, unless a walk passed it over while  *)
(* it was running a task.                                                  *)
NewcomerSeen ==
    \A c \in NohzCpus :
       (ncpu[c].mode = "idle" /\ ncpu[c].fresh = "new")
         => nz.needs_update \/ NextComing(c)

(* "he who sets the first flag owns it; cleared by nohz_csd_func()": a CPU *)
(* has kick flags exactly while its csd is queued, so that the csd is      *)
(* never queued twice and nohz_csd_func's WARN_ON is silent.               *)
CsdOwned ==
    /\ nz.warn = {}
    /\ \A c \in NohzCpus : ncpu[c].csd <=> ncpu[c].flags \cap KICK_MASK # {}

(* The LLC's count of busy CPUs is exact whatever enters and leaves idle,  *)
(* and the mask holds exactly the CPUs whose tick is stopped.              *)
MaskExact ==
    /\ nz.mask = {c \in NohzCpus : ncpu[c].stopped}
    /\ nz.nr_busy = Cardinality({c \in NohzCpus : ~ncpu[c].nohz_idle})

\* Nothing that nohz_balance_enter_idle announces is lost between the flags, the
\* mask and the walk of _nohz_idle_balance.
NohzInv == BlockedLoadSeen /\ NewcomerSeen /\ CsdOwned /\ MaskExact
=============================================================================
