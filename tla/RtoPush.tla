------------------------------ MODULE RtoPush -------------------------------
(***************************************************************************)
(* rt.c with RT_PUSH_IPI: a CPU that turns to something less important     *)
(* does not pull, it has the overloaded CPUs push.  One irq_work per root  *)
(* domain goes from one overloaded CPU to the next (rto_cpu); a request    *)
(* that comes during a round adds one to rto_loop_next, and the round is   *)
(* made again.  The two counters matter only for their difference, which   *)
(* is the variable behind.                                                 *)
(***************************************************************************)
EXTENDS Integers, FiniteSets

CONSTANT NrRtoCpus

ASSUME RtoAssumption == NrRtoCpus \in Nat

VARIABLES
    rto,        \* struct root_domain: cpu (0 for -1), mask, behind, start, lock, refs
    at,         \* at[c]: where CPU c is in tell_cpu_to_push or rto_push_irq_work_func
    target,     \* target[c]: the local variable cpu of these functions (0 for -1)
    pending     \* CPUs on which the irq_work is queued

rtoVars == <<rto, at, target, pending>>
RtoCpus == 1..NrRtoCpus
NoCpu == 0

Init ==
    /\ rto = [cpu |-> NoCpu, mask |-> {}, behind |-> FALSE, start |-> FALSE, lock |-> NoCpu, refs |-> 0,
              twice |-> FALSE]       \* history: queued while it was queued
    /\ at = [c \in RtoCpus |-> "run"] /\ target = [c \in RtoCpus |-> NoCpu]
    /\ pending = {}

Goto(c, label) == at' = [at EXCEPT ![c] = label]

\* rt_set_overload and rt_clear_overload, seen from here.  They hold the lock of the
\* runqueue, which its own CPU holds in tell_cpu_to_push.
RqLockFree(c) == at[c] \in {"run", "wlock", "wscan", "wunlock", "pass"}

SetOverload(c) ==
    /\ c \notin rto.mask /\ RqLockFree(c)
    /\ rto' = [rto EXCEPT !.mask = @ \cup {c}]
    /\ UNCHANGED <<at, target, pending>>

ClearOverload(c) ==
    /\ c \in rto.mask /\ RqLockFree(c)
    /\ rto' = [rto EXCEPT !.mask = @ \ {c}]
    /\ UNCHANGED <<at, target, pending>>

-----------------------------------------------------------------------------
(* rto_next_cpu: one turn of its loop, under rto_lock                      *)

NextInMask(from) == {d \in rto.mask : d > from /\ \A e \in rto.mask : e > from => d <= e}

rto_next_cpu(c, from, to) ==
    /\ at[c] = from /\ rto.lock = c
    /\ IF NextInMask(rto.cpu) # {}
       THEN \E d \in NextInMask(rto.cpu) :
              /\ rto' = [rto EXCEPT !.cpu = d]
              /\ IF d = c THEN UNCHANGED <<at, target>> ELSE Goto(c, to) /\ target' = [target EXCEPT ![c] = d]
       ELSE /\ rto' = [rto EXCEPT !.cpu = NoCpu, !.behind = FALSE]
            /\ IF rto.behind THEN UNCHANGED <<at, target>> ELSE Goto(c, to) /\ target' = [target EXCEPT ![c] = NoCpu]
    /\ UNCHANGED pending

\* irq_work_queue_on does nothing when the work is queued already.
irq_work_queue_on(d) ==
    /\ pending' = IF pending = {} THEN {d} ELSE pending
    /\ rto' = [rto EXCEPT !.twice = @ \/ pending # {}]

TakeRtoLock(c, from, to) ==
    /\ at[c] = from /\ rto.lock = NoCpu
    /\ rto' = [rto EXCEPT !.lock = c] /\ Goto(c, to)
    /\ UNCHANGED <<target, pending>>

DropRtoLock(c, from, to) ==
    /\ at[c] = from /\ rto.lock = c
    /\ rto' = [rto EXCEPT !.lock = NoCpu] /\ Goto(c, to)
    /\ UNCHANGED <<target, pending>>

-----------------------------------------------------------------------------
(* tell_cpu_to_push                                                        *)

\* pull_rt_task, with its early returns, and atomic_inc(rto_loop_next)
Request(c) ==
    /\ at[c] = "run" /\ rto.mask \ {c} # {}
    /\ rto' = [rto EXCEPT !.behind = TRUE]
    /\ Goto(c, "start") /\ target' = [target EXCEPT ![c] = NoCpu]
    /\ UNCHANGED pending

rto_start_trylock(c) ==
    /\ at[c] = "start"
    /\ Goto(c, IF rto.start THEN "run" ELSE "lock")
    /\ rto' = [rto EXCEPT !.start = TRUE]
    /\ UNCHANGED <<target, pending>>

\* Mutant: the iterator that is under way is not looked for.
LookNot(c) == at[c] = "look" /\ Goto(c, "scan") /\ UNCHANGED <<rto, target, pending>>

\* Under rto_lock: an iterator that is under way will see rto_loop_next.
Look(c) ==
    /\ at[c] = "look"
    /\ Goto(c, IF rto.cpu = NoCpu THEN "scan" ELSE "unlock")
    /\ UNCHANGED <<rto, target, pending>>

rto_start_unlock(c) ==
    /\ at[c] = "end"
    /\ rto' = [rto EXCEPT !.start = FALSE]
    /\ Goto(c, IF target[c] = NoCpu THEN "run" ELSE "send")
    /\ UNCHANGED <<target, pending>>

\* sched_get_rd and irq_work_queue_on
Send(c) ==
    /\ at[c] = "send"
    /\ pending' = IF pending = {} THEN {target[c]} ELSE pending
    /\ rto' = [rto EXCEPT !.refs = @ + 1, !.twice = @ \/ pending # {}]
    /\ Goto(c, "run")
    /\ UNCHANGED target

tell_cpu_to_push(c) ==
    \/ Request(c) \/ rto_start_trylock(c) \/ TakeRtoLock(c, "lock", "look") \/ Look(c)
    \/ rto_next_cpu(c, "scan", "unlock") \/ DropRtoLock(c, "unlock", "end")
    \/ rto_start_unlock(c) \/ Send(c)

-----------------------------------------------------------------------------
(* rto_push_irq_work_func                                                  *)

\* The work starts, and the CPU pushes what it can (see RtPush).
Push(c) ==
    /\ c \in pending /\ at[c] = "run"
    /\ pending' = {}
    /\ rto' \in {rto, [rto EXCEPT !.mask = @ \ {c}]}
    /\ Goto(c, "wlock")
    /\ UNCHANGED target

\* sched_put_rd, or the work goes on to the next CPU
PassOn(c) ==
    /\ at[c] = "pass"
    /\ Goto(c, "run")
    /\ IF target[c] = NoCpu THEN rto' = [rto EXCEPT !.refs = @ - 1] /\ UNCHANGED pending
       ELSE irq_work_queue_on(target[c])
    /\ UNCHANGED target

rto_push_irq_work_func(c) ==
    \/ Push(c) \/ TakeRtoLock(c, "wlock", "wscan") \/ rto_next_cpu(c, "wscan", "wunlock")
    \/ DropRtoLock(c, "wunlock", "pass") \/ PassOn(c)

Next == \E c \in RtoCpus : SetOverload(c) \/ ClearOverload(c) \/ tell_cpu_to_push(c) \/ rto_push_irq_work_func(c)

-----------------------------------------------------------------------------
\* There is one iterator: it is queued on a CPU, or runs on one, or is about to be
\* queued, exactly while rto_cpu is a CPU, and it holds the one reference that keeps the
\* root domain from being freed under it.
Holders ==
    pending \cup {c \in RtoCpus : at[c] \in {"wlock", "wscan", "wunlock"}}
            \cup {c \in RtoCpus : at[c] = "pass" /\ target[c] # NoCpu}

OneIterator ==
    LET sending == {c \in RtoCpus : at[c] = "send"}
        leaving == {c \in RtoCpus : at[c] = "pass" /\ target[c] = NoCpu}
    IN  /\ ~rto.twice
        /\ Cardinality(Holders \cup sending) <= 1
        /\ rto.lock = NoCpu /\ ~rto.start => (rto.cpu # NoCpu <=> Holders \cup sending # {})
        /\ rto.refs = Cardinality(Holders) + Cardinality(leaving)

Spec == Init /\ [][Next]_rtoVars
=============================================================================
