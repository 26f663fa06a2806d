----------------------------- MODULE SchedProofs -----------------------------
(***************************************************************************)
(* The push IPIs of the RT class for every number of CPUs, and the way of  *)
(* a reschedule to its CPU for every depth of preempt_disable.             *)
(***************************************************************************)
EXTENDS RtoPush, Preempt, FiniteSetTheorems, TLAPS

-----------------------------------------------------------------------------
(* The push IPIs                                                           *)

Labels == {"run", "start", "lock", "look", "scan", "unlock", "end", "send",
           "wlock", "wscan", "wunlock", "pass"}

\* CPU c is between rto_start_trylock and rto_start_unlock.
Starts(c) == at[c] \in {"lock", "look", "scan", "unlock", "end"}

\* CPU c runs the iterator, or has found a CPU to queue it on and not done so yet.
Iterates(c) ==
    \/ at[c] \in {"wlock", "wscan", "wunlock", "send"}
    \/ at[c] \in {"unlock", "end", "pass"} /\ target[c] # NoCpu

RtoTypes ==
    /\ rto \in [cpu : RtoCpus \cup {NoCpu}, mask : SUBSET RtoCpus, behind : BOOLEAN, start : BOOLEAN,
                lock : RtoCpus \cup {NoCpu}, refs : Int, twice : BOOLEAN]
    /\ at \in [RtoCpus -> Labels] /\ target \in [RtoCpus -> RtoCpus \cup {NoCpu}]
    /\ pending \in SUBSET RtoCpus

\* The places where rto_lock and rto_loop_start are held.
Locks ==
    /\ \A c \in RtoCpus : rto.lock = c <=> at[c] \in {"look", "scan", "unlock", "wscan", "wunlock"}
    /\ \A c \in RtoCpus : Starts(c) => rto.start
    /\ \A c, d \in RtoCpus : Starts(c) /\ Starts(d) => c = d

\* rto_cpu is a CPU while the iterator is somewhere; a CPU scans for a start only
\* when there is none.  Only the holder of rto_lock may see it otherwise.
Once ==
    /\ ~rto.twice
    /\ \A c, d \in pending : c = d
    /\ \A c, d \in RtoCpus : Iterates(c) /\ Iterates(d) => c = d
    /\ \A c \in RtoCpus : Iterates(c) => pending = {}
    /\ \A c \in RtoCpus : at[c] = "scan" => pending = {} /\ \A d \in RtoCpus : ~Iterates(d)

RtoCpuSet ==
    /\ pending # {} => rto.cpu # NoCpu
    /\ \A c \in RtoCpus : Iterates(c) /\ at[c] \notin {"wscan", "wunlock"} => rto.cpu # NoCpu
    /\ \A c \in RtoCpus : at[c] = "wunlock" => (rto.cpu # NoCpu <=> target[c] # NoCpu)
    /\ rto.cpu # NoCpu => pending # {} \/ \E c \in RtoCpus : Iterates(c) \/ at[c] = "scan"

Targets ==
    /\ \A c \in RtoCpus : at[c] = "send" => target[c] # NoCpu
    /\ \A c \in RtoCpus : at[c] \in {"start", "lock", "look", "scan"} => target[c] = NoCpu

Iterator == Once /\ RtoCpuSet /\ Targets

\* CPUs that have yet to drop the reference of an iterator that ended.
Leaving == {c \in RtoCpus : at[c] = "pass" /\ target[c] = NoCpu}

References == rto.refs = Cardinality(Holders) + Cardinality(Leaving)

RtoInv == RtoTypes /\ Locks /\ Iterator /\ References

USE DEF NoCpu

\* Initially nobody asks.
LEMMA RtoInitially == Init => RtoInv
<1> SUFFICES ASSUME Init PROVE RtoInv
  OBVIOUS
<1>1. RtoTypes
  BY DEF Init, RtoTypes, Labels
<1>2. Locks
  BY DEF Init, Locks, Starts, RtoCpus
<1>3. Iterator
  BY DEF Init, Iterator, Once, RtoCpuSet, Targets, Iterates
<1>4. References
  <2>1. Holders = {} /\ Leaving = {} /\ rto.refs = 0
    BY DEF Init, Holders, Leaving
  <2> QED BY <2>1, FS_EmptySet DEF References
<1> QED BY <1>1, <1>2, <1>3, <1>4 DEF RtoInv

\* A step moves one CPU, and sets its local variable at most.
Only(c, a) == \A d \in RtoCpus : at'[d] = IF d = c THEN a ELSE at[d]
OnlyTarget(c, t) == \A d \in RtoCpus : target'[d] = IF d = c THEN t ELSE target[d]

\* One turn of the loop of rto_next_cpu goes round again or leaves with rto_cpu.
LEMMA NextCpuMoves ==
    ASSUME RtoTypes, NEW c \in RtoCpus, NEW from \in Labels, NEW to \in Labels, rto_next_cpu(c, from, to)
    PROVE  /\ at[c] = from /\ rto.lock = c
           /\ \/ at' = at /\ Only(c, from) /\ target' = target
              \/ at' \in [RtoCpus -> Labels] /\ Only(c, to) /\ target' \in [RtoCpus -> RtoCpus \cup {NoCpu}] /\ OnlyTarget(c, rto'.cpu)
           /\ rto'.lock = rto.lock /\ rto'.start = rto.start /\ rto'.cpu \in RtoCpus \cup {NoCpu} /\ rto'.twice = rto.twice
           /\ rto'.refs = rto.refs /\ pending' = pending
           /\ RtoTypes'
<1> USE DEF RtoTypes, Goto, Only, OnlyTarget
<1>1. CASE NextInMask(rto.cpu) # {}
  <2> PICK d \in NextInMask(rto.cpu) :
         /\ rto' = [rto EXCEPT !.cpu = d]
         /\ IF d = c THEN UNCHANGED <<at, target>> ELSE Goto(c, to) /\ target' = [target EXCEPT ![c] = d]
    BY <1>1 DEF rto_next_cpu
  <2>1. d \in RtoCpus /\ pending' = pending /\ at[c] = from /\ rto.lock = c
    BY DEF NextInMask, rto_next_cpu
  <2> QED BY <2>1
<1>2. CASE NextInMask(rto.cpu) = {}
  <2>1. /\ rto' = [rto EXCEPT !.cpu = NoCpu, !.behind = FALSE]
        /\ IF rto.behind THEN UNCHANGED <<at, target>> ELSE Goto(c, to) /\ target' = [target EXCEPT ![c] = NoCpu]
        /\ pending' = pending /\ at[c] = from /\ rto.lock = c
    BY <1>2 DEF rto_next_cpu
  <2> QED BY Zenon, <2>1
<1> QED BY <1>1, <1>2

\* The types are kept by every step.
LEMMA TypesStep ==
    ASSUME RtoInv, Next
    PROVE  RtoTypes'
<1> USE DEF RtoInv, RtoTypes, Goto, Labels
<1> PICK c \in RtoCpus : SetOverload(c) \/ ClearOverload(c) \/ tell_cpu_to_push(c) \/ rto_push_irq_work_func(c)
  BY DEF Next
<1>1. CASE SetOverload(c) \/ ClearOverload(c)
  BY <1>1 DEF SetOverload, ClearOverload
<1>2. CASE Request(c) \/ rto_start_trylock(c) \/ Look(c) \/ rto_start_unlock(c)
  BY Zenon, <1>2 DEF Request, rto_start_trylock, Look, rto_start_unlock
<1>3. CASE Send(c)
  <2>1. target[c] \in RtoCpus /\ pending' \in SUBSET RtoCpus /\ at' \in [RtoCpus -> Labels] /\ target' = target
    BY <1>3 DEF Send, Iterator, Targets
  <2>2. rto' = [rto EXCEPT !.refs = @ + 1, !.twice = FALSE]
    BY Zenon, <1>3 DEF Send, Iterator, Once, RtoCpuSet, Targets, Iterates
  <2>3. rto' \in [cpu : RtoCpus \cup {NoCpu}, mask : SUBSET RtoCpus, behind : BOOLEAN, start : BOOLEAN,
                   lock : RtoCpus \cup {NoCpu}, refs : Int, twice : BOOLEAN]
    <3>1. rto.refs \in Int /\ rto.refs + 1 \in Int
      OBVIOUS
    <3> QED BY <2>2, <3>1, Zenon
  <2> QED BY <2>1, <2>3
<1>4. ASSUME NEW from \in Labels, NEW to \in Labels, TakeRtoLock(c, from, to) \/ DropRtoLock(c, from, to)
      PROVE  RtoTypes'
  BY <1>4 DEF TakeRtoLock, DropRtoLock
<1>5. ASSUME NEW from \in Labels, NEW to \in Labels, rto_next_cpu(c, from, to)
      PROVE  RtoTypes'
  <2> HIDE DEF RtoTypes, Goto, Labels
  <2> QED BY <1>5, NextCpuMoves
<1>6. CASE Push(c)
  BY <1>6 DEF Push
<1>7. CASE PassOn(c)
  <2>1. /\ at' \in [RtoCpus -> Labels] /\ target' = target
        /\ \/ rto' = [rto EXCEPT !.refs = @ - 1] /\ pending' = pending
           \/ pending' \in SUBSET RtoCpus /\ rto' = [rto EXCEPT !.twice = FALSE]
    BY <1>7 DEF PassOn, irq_work_queue_on, Iterator, Once, RtoCpuSet, Targets, Iterates
  <2>2. rto' \in [cpu : RtoCpus \cup {NoCpu}, mask : SUBSET RtoCpus, behind : BOOLEAN, start : BOOLEAN,
                   lock : RtoCpus \cup {NoCpu}, refs : Int, twice : BOOLEAN]
    <3>1. CASE rto' = [rto EXCEPT !.refs = @ - 1]
      BY <3>1
    <3>2. CASE rto' = [rto EXCEPT !.twice = FALSE]
      BY Zenon, <3>2
    <3> QED BY <2>1, <3>1, <3>2
  <2> QED BY <2>1, <2>2
<1> QED BY <1>1, <1>2, <1>3, <1>4, <1>5, <1>6, <1>7 DEF tell_cpu_to_push, rto_push_irq_work_func

\* There is at most one holder, so it is counted by one or by none.
LEMMA OneHolder ==
    ASSUME RtoInv
    PROVE  /\ Holders = {} \/ \E d \in RtoCpus : Holders = {d}
           /\ IsFiniteSet(Leaving)
<1>1. Holders \subseteq RtoCpus /\ \A d, e \in Holders : d = e
  BY DEF RtoInv, RtoTypes, Iterator, Once, Iterates, Holders
<1>2. IsFiniteSet(RtoCpus)
  BY FS_Interval, RtoAssumption DEF RtoCpus
<1>3. IsFiniteSet(Leaving)
  BY <1>2, FS_Subset DEF Leaving
<1> QED BY <1>1, <1>3

\* No step makes a second iterator or loses the one there is, and whoever is at a
\* place that needs a lock has it.
LEMMA IteratorStep ==
    ASSUME RtoInv, Next
    PROVE  Locks' /\ Iterator' /\ References'
<1> USE DEF RtoInv
<1> PICK c \in RtoCpus : SetOverload(c) \/ ClearOverload(c) \/ tell_cpu_to_push(c) \/ rto_push_irq_work_func(c)
  BY DEF Next
<1>1. CASE SetOverload(c) \/ ClearOverload(c)
  <2>1. /\ \A d \in RtoCpus : at'[d] = at[d]
        /\ rto'.lock = rto.lock /\ rto'.start = rto.start /\ rto'.cpu = rto.cpu /\ rto'.twice = rto.twice /\ rto'.refs = rto.refs
        /\ target' = target /\ pending' = pending
    BY <1>1 DEF RtoTypes, Goto, Only, OnlyTarget, SetOverload, ClearOverload
  <2>2. Locks'
    BY <2>1 DEF RtoTypes, Locks, Starts, Only, RtoCpus
  <2>3. Iterator'
    BY <2>1 DEF RtoTypes, Locks, Starts, Iterator, Once, RtoCpuSet, Targets, Iterates, Only, OnlyTarget, RtoCpus
  <2>4. References'
    <3>1. Holders' = Holders /\ Leaving' = Leaving
      BY <2>1 DEF Holders, Leaving, Only, OnlyTarget
    <3> QED BY <2>1, <3>1 DEF References
  <2> QED BY <2>2, <2>3, <2>4
<1>2. CASE Request(c)
  <2>1. /\ at[c] = "run" /\ Only(c, "start") /\ OnlyTarget(c, NoCpu)
        /\ rto'.lock = rto.lock /\ rto'.start = rto.start /\ rto'.cpu = rto.cpu /\ rto'.twice = rto.twice /\ rto'.refs = rto.refs
        /\ pending' = pending
    BY <1>2 DEF RtoTypes, Goto, Only, OnlyTarget, Request
  <2>2. Locks'
    BY <2>1 DEF RtoTypes, Locks, Starts, Only, RtoCpus
  <2>3. Iterator'
    <3>1. \A d \in RtoCpus : Iterates(d)' <=> Iterates(d)
      BY <2>1 DEF Once, RtoCpuSet, Targets, Iterates, Only, OnlyTarget
    <3> QED BY <2>1, <3>1 DEF RtoTypes, Locks, Starts, Iterator, Once, RtoCpuSet, Targets, Only, OnlyTarget, RtoCpus
  <2>4. References'
    <3>1. Holders' = Holders /\ Leaving' = Leaving
      BY <2>1 DEF RtoTypes, Iterator, Once, Iterates, Targets, Holders, Leaving, Only, OnlyTarget
    <3> QED BY <2>1, <3>1 DEF References
  <2> QED BY <2>2, <2>3, <2>4
<1>3. CASE rto_start_trylock(c)
  <2>1. /\ at[c] = "start" /\ Only(c, IF rto.start THEN "run" ELSE "lock")
        /\ rto'.lock = rto.lock /\ rto'.start = TRUE /\ rto'.cpu = rto.cpu /\ rto'.twice = rto.twice /\ rto'.refs = rto.refs
        /\ target' = target /\ pending' = pending
    BY <1>3 DEF RtoTypes, Goto, Only, OnlyTarget, rto_start_trylock
  <2>2. Locks'
    BY <2>1 DEF RtoTypes, Locks, Starts, Only, RtoCpus
  <2>3. Iterator'
    <3>1. CASE rto.start
      BY SMTT(20), <2>1, <3>1 DEF RtoTypes, Locks, Starts, Iterator, Once, RtoCpuSet, Targets, Iterates, Only, OnlyTarget, RtoCpus
    <3>2. CASE ~rto.start
      BY <2>1, <3>2 DEF RtoTypes, Locks, Starts, Iterator, Once, RtoCpuSet, Targets, Iterates, Only, OnlyTarget, RtoCpus
    <3> QED BY <2>1, <3>1, <3>2
  <2>4. References'
    <3>1. Holders' = Holders /\ Leaving' = Leaving
      BY <2>1 DEF Holders, Leaving, Only, OnlyTarget
    <3> QED BY <2>1, <3>1 DEF References
  <2> QED BY <2>2, <2>3, <2>4
<1>4. CASE TakeRtoLock(c, "lock", "look")
  <2>1. /\ at[c] = "lock" /\ Only(c, "look") /\ rto.lock = NoCpu
        /\ rto'.lock = c /\ rto'.start = rto.start /\ rto'.cpu = rto.cpu /\ rto'.twice = rto.twice /\ rto'.refs = rto.refs
        /\ target' = target /\ pending' = pending
    BY <1>4 DEF RtoTypes, Goto, Only, OnlyTarget, TakeRtoLock
  <2>2. Locks'
    BY <2>1 DEF RtoTypes, Locks, Starts, Only, RtoCpus
  <2>3. Iterator'
    BY <2>1 DEF RtoTypes, Locks, Starts, Iterator, Once, RtoCpuSet, Targets, Iterates, Only, OnlyTarget, RtoCpus
  <2>4. References'
    <3>1. Holders' = Holders /\ Leaving' = Leaving
      BY <2>1 DEF Holders, Leaving, Only, OnlyTarget
    <3> QED BY <2>1, <3>1 DEF References
  <2> QED BY <2>2, <2>3, <2>4
<1>5. CASE Look(c)
  <2>1. /\ at[c] = "look" /\ Only(c, IF rto.cpu = NoCpu THEN "scan" ELSE "unlock")
        /\ rto' = rto /\ target' = target /\ pending' = pending
    BY <1>5 DEF RtoTypes, Goto, Only, OnlyTarget, Look
  <2>2. Locks'
    BY <2>1 DEF RtoTypes, Locks, Starts, Only, RtoCpus
  <2>3. Iterator'
    BY SMTT(20), <2>1 DEF RtoTypes, Locks, Starts, Iterator, Once, RtoCpuSet, Targets, Iterates, Only, OnlyTarget, RtoCpus
  <2>4. References'
    <3>1. Holders' = Holders /\ Leaving' = Leaving
      BY <2>1 DEF Holders, Leaving, Only, OnlyTarget
    <3> QED BY <2>1, <3>1 DEF References
  <2> QED BY <2>2, <2>3, <2>4
<1>6. CASE rto_next_cpu(c, "scan", "unlock")
  <2>1. /\ at[c] = "scan" /\ rto.lock = c
        /\ \/ Only(c, "scan") /\ target' = target
           \/ Only(c, "unlock") /\ OnlyTarget(c, rto'.cpu)
        /\ rto'.lock = rto.lock /\ rto'.start = rto.start /\ rto'.cpu \in RtoCpus \cup {NoCpu} /\ rto'.twice = rto.twice /\ rto'.refs = rto.refs
        /\ pending' = pending
    BY <1>6, NextCpuMoves DEF Labels
  <2>2. Locks'
    BY <2>1 DEF RtoTypes, Locks, Starts, Only, RtoCpus
  <2>3. Iterator'
    <3>1. CASE Only(c, "scan") /\ target' = target
      BY Zenon, <2>1, <3>1 DEF RtoTypes, Locks, Starts, Iterator, Once, RtoCpuSet, Targets, Iterates, Only, OnlyTarget, RtoCpus
    <3>2. CASE Only(c, "unlock") /\ OnlyTarget(c, rto'.cpu)
      <4>1. \A d \in RtoCpus : Iterates(d)' <=> d = c /\ rto'.cpu # NoCpu
        BY <2>1, <3>2 DEF Once, RtoCpuSet, Targets, Iterates, Only, OnlyTarget, Iterator, Once, Targets, RtoCpuSet
      <4>2. Once'
        BY <2>1, <3>2, <4>1 DEF RtoTypes, Locks, Iterator, Once, Only, RtoCpus
      <4>3. RtoCpuSet'
        BY Zenon, <2>1, <3>2, <4>1 DEF RtoTypes, Locks, Iterator, Once, RtoCpuSet, Only, OnlyTarget, RtoCpus
      <4>4. Targets'
        BY <2>1, <3>2 DEF RtoTypes, Iterator, Targets, Only, OnlyTarget
      <4> QED BY <4>2, <4>3, <4>4 DEF Iterator
    <3> QED BY <2>1, <3>1, <3>2
  <2>4. References'
    <3>1. Holders' = Holders /\ Leaving' = Leaving
      BY <2>1 DEF Holders, Leaving, Only, OnlyTarget
    <3> QED BY <2>1, <3>1 DEF References
  <2> QED BY <2>2, <2>3, <2>4
<1>7. CASE DropRtoLock(c, "unlock", "end")
  <2>1. /\ at[c] = "unlock" /\ Only(c, "end") /\ rto.lock = c
        /\ rto'.lock = NoCpu /\ rto'.start = rto.start /\ rto'.cpu = rto.cpu /\ rto'.twice = rto.twice /\ rto'.refs = rto.refs
        /\ target' = target /\ pending' = pending
    BY <1>7 DEF RtoTypes, Goto, Only, OnlyTarget, DropRtoLock
  <2>2. Locks'
    BY <2>1 DEF RtoTypes, Locks, Starts, Only, RtoCpus
  <2>3. Iterator'
    BY <2>1 DEF RtoTypes, Locks, Starts, Iterator, Once, RtoCpuSet, Targets, Iterates, Only, OnlyTarget, RtoCpus
  <2>4. References'
    <3>1. Holders' = Holders /\ Leaving' = Leaving
      BY <2>1 DEF Holders, Leaving, Only, OnlyTarget
    <3> QED BY <2>1, <3>1 DEF References
  <2> QED BY <2>2, <2>3, <2>4
<1>8. CASE rto_start_unlock(c)
  <2>1. /\ at[c] = "end" /\ Only(c, IF target[c] = NoCpu THEN "run" ELSE "send")
        /\ rto'.lock = rto.lock /\ rto'.start = FALSE /\ rto'.cpu = rto.cpu /\ rto'.twice = rto.twice /\ rto'.refs = rto.refs
        /\ target' = target /\ pending' = pending
    BY <1>8 DEF RtoTypes, Goto, Only, OnlyTarget, rto_start_unlock
  <2>2. Locks'
    BY <2>1 DEF RtoTypes, Locks, Starts, Only, RtoCpus
  <2>3. Iterator'
    BY <2>1 DEF RtoTypes, Locks, Starts, Iterator, Once, RtoCpuSet, Targets, Iterates, Only, OnlyTarget, RtoCpus
  <2>4. References'
    <3>1. Holders' = Holders /\ Leaving' = Leaving
      BY <2>1 DEF Holders, Leaving, Only, OnlyTarget
    <3> QED BY <2>1, <3>1 DEF References
  <2> QED BY <2>2, <2>3, <2>4
<1>9. CASE Send(c)
  <2>1. /\ at[c] = "send" /\ Only(c, "run") /\ pending = {} /\ pending' = {target[c]}
        /\ rto'.lock = rto.lock /\ rto'.start = rto.start /\ rto'.cpu = rto.cpu /\ rto'.twice = rto.twice /\ rto'.refs = rto.refs + 1
        /\ target' = target
    BY <1>9 DEF RtoTypes, Goto, Only, OnlyTarget, Send, Iterator, Once, RtoCpuSet, Targets, Iterates
  <2>2. Locks'
    BY <2>1 DEF RtoTypes, Locks, Starts, Only, RtoCpus
  <2>3. Iterator'
    BY <2>1 DEF RtoTypes, Locks, Starts, Iterator, Once, RtoCpuSet, Targets, Iterates, Only, OnlyTarget, RtoCpus
  <2>4. References'
    <3>1. Holders = {} /\ Holders' = {target[c]} /\ Leaving' = Leaving
      BY <2>1 DEF RtoTypes, Iterator, Once, RtoCpuSet, Targets, Iterates, Holders, Leaving, Only
    <3>2. Cardinality(Holders) = 0 /\ Cardinality(Holders') = 1 /\ Cardinality(Leaving) \in Nat
      BY Zenon, <3>1, FS_EmptySet, FS_Singleton, OneHolder, FS_CardinalityType
    <3> QED BY <2>1, <3>1, <3>2 DEF References
  <2> QED BY <2>2, <2>3, <2>4
<1>10. CASE Push(c)
  <2>1. /\ c \in pending /\ at[c] = "run" /\ Only(c, "wlock") /\ pending' = {}
        /\ rto'.lock = rto.lock /\ rto'.start = rto.start /\ rto'.cpu = rto.cpu /\ rto'.twice = rto.twice /\ rto'.refs = rto.refs
        /\ target' = target
    BY <1>10 DEF RtoTypes, Goto, Only, OnlyTarget, Push
  <2>2. Locks'
    BY <2>1 DEF RtoTypes, Locks, Starts, Only, RtoCpus
  <2>3. Iterator'
    BY <2>1 DEF RtoTypes, Locks, Starts, Iterator, Once, RtoCpuSet, Targets, Iterates, Only, OnlyTarget, RtoCpus
  <2>4. References'
    <3>1. Holders' = Holders /\ Leaving' = Leaving
      BY <2>1 DEF RtoTypes, Iterator, Once, Iterates, Targets, Holders, Leaving, Only, OnlyTarget
    <3> QED BY <2>1, <3>1 DEF References
  <2> QED BY <2>2, <2>3, <2>4
<1>11. CASE TakeRtoLock(c, "wlock", "wscan")
  <2>1. /\ at[c] = "wlock" /\ Only(c, "wscan") /\ rto.lock = NoCpu
        /\ rto'.lock = c /\ rto'.start = rto.start /\ rto'.cpu = rto.cpu /\ rto'.twice = rto.twice /\ rto'.refs = rto.refs
        /\ target' = target /\ pending' = pending
    BY <1>11 DEF RtoTypes, Goto, Only, OnlyTarget, TakeRtoLock
  <2>2. Locks'
    BY <2>1 DEF RtoTypes, Locks, Starts, Only, RtoCpus
  <2>3. Iterator'
    BY <2>1 DEF RtoTypes, Locks, Starts, Iterator, Once, RtoCpuSet, Targets, Iterates, Only, OnlyTarget, RtoCpus
  <2>4. References'
    <3>1. Holders' = Holders /\ Leaving' = Leaving
      BY SMTT(20), <2>1 DEF Holders, Leaving, Only, OnlyTarget
    <3> QED BY <2>1, <3>1 DEF References
  <2> QED BY <2>2, <2>3, <2>4
<1>12. CASE rto_next_cpu(c, "wscan", "wunlock")
  <2>1. /\ at[c] = "wscan" /\ rto.lock = c
        /\ \/ Only(c, "wscan") /\ target' = target
           \/ Only(c, "wunlock") /\ OnlyTarget(c, rto'.cpu)
        /\ rto'.lock = rto.lock /\ rto'.start = rto.start /\ rto'.cpu \in RtoCpus \cup {NoCpu} /\ rto'.twice = rto.twice /\ rto'.refs = rto.refs
        /\ pending' = pending
    BY <1>12, NextCpuMoves DEF Labels
  <2>2. Locks'
    BY <2>1 DEF RtoTypes, Locks, Starts, Only, RtoCpus
  <2>3. Iterator'
    <3>1. CASE Only(c, "wscan") /\ target' = target
      BY Zenon, <2>1, <3>1 DEF RtoTypes, Locks, Starts, Iterator, Once, RtoCpuSet, Targets, Iterates, Only, OnlyTarget, RtoCpus
    <3>2. CASE Only(c, "wunlock") /\ OnlyTarget(c, rto'.cpu)
      <4>1. Iterates(c) /\ \A d \in RtoCpus : Iterates(d)' <=> Iterates(d)
        BY <2>1, <3>2 DEF Once, RtoCpuSet, Targets, Iterates, Only, OnlyTarget, Iterator, Once, Targets, RtoCpuSet, RtoTypes
      <4>2. Once'
        BY <2>1, <3>2, <4>1 DEF RtoTypes, Locks, Iterator, Once, Only, RtoCpus
      <4>3. RtoCpuSet'
        <5>1. pending' = {} /\ Iterates(c)' /\ at'[c] = "wunlock" /\ target'[c] = rto'.cpu
          BY <2>1, <3>2, <4>1 DEF Iterator, Once, Only, OnlyTarget
        <5>2. \A d \in RtoCpus : d # c => ~Iterates(d)' /\ at'[d] # "wunlock"
          BY <2>1, <3>2, <4>1 DEF Iterator, Once, Only, Iterates
        <5> QED BY <2>1, <5>1, <5>2 DEF RtoCpuSet
      <4>4. Targets'
        BY <2>1, <3>2 DEF RtoTypes, Iterator, Targets, Only, OnlyTarget
      <4> QED BY <4>2, <4>3, <4>4 DEF Iterator
    <3> QED BY <2>1, <3>1, <3>2
  <2>4. References'
    <3>1. Holders' = Holders /\ Leaving' = Leaving
      BY <2>1 DEF RtoTypes, Iterator, Once, Iterates, Targets, Holders, Leaving, Only, OnlyTarget
    <3> QED BY <2>1, <3>1 DEF References
  <2> QED BY <2>2, <2>3, <2>4
<1>13. CASE DropRtoLock(c, "wunlock", "pass")
  <2>1. /\ at[c] = "wunlock" /\ Only(c, "pass") /\ rto.lock = c
        /\ rto'.lock = NoCpu /\ rto'.start = rto.start /\ rto'.cpu = rto.cpu /\ rto'.twice = rto.twice /\ rto'.refs = rto.refs
        /\ target' = target /\ pending' = pending
    BY <1>13 DEF RtoTypes, Goto, Only, OnlyTarget, DropRtoLock
  <2>2. Locks'
    BY <2>1 DEF RtoTypes, Locks, Starts, Only, RtoCpus
  <2>3. Iterator'
    BY <2>1 DEF RtoTypes, Locks, Starts, Iterator, Once, RtoCpuSet, Targets, Iterates, Only, OnlyTarget, RtoCpus
  <2>4. References'
    <3>1. CASE target[c] # NoCpu
      <4>1. Holders' = Holders /\ Leaving' = Leaving
        BY <2>1, <3>1 DEF Holders, Leaving, Only
      <4> QED BY <2>1, <4>1 DEF References
    <3>2. CASE target[c] = NoCpu
      <4>1. Holders = {c} /\ Holders' = {} /\ Leaving' = Leaving \cup {c} /\ c \notin Leaving
        BY <2>1, <3>2 DEF RtoTypes, Iterator, Once, Iterates, Holders, Leaving, Only
      <4>2. Cardinality(Holders) = 1 /\ Cardinality(Holders') = 0
        BY Zenon, <4>1, FS_EmptySet, FS_Singleton
      <4>3. Cardinality(Leaving') = Cardinality(Leaving) + 1 /\ Cardinality(Leaving) \in Nat
        BY <4>1, FS_AddElement, OneHolder, FS_CardinalityType
      <4> QED BY <2>1, <4>2, <4>3 DEF References
    <3> QED BY <3>1, <3>2
  <2> QED BY <2>2, <2>3, <2>4
<1>14. CASE PassOn(c)
  <2>1. /\ at[c] = "pass" /\ Only(c, "run") /\ target' = target
        /\ IF target[c] = NoCpu THEN pending' = pending ELSE pending = {} /\ pending' = {target[c]}
        /\ rto'.refs = IF target[c] = NoCpu THEN rto.refs - 1 ELSE rto.refs
        /\ rto'.lock = rto.lock /\ rto'.start = rto.start /\ rto'.cpu = rto.cpu /\ rto'.twice = rto.twice
    BY <1>14 DEF RtoTypes, Goto, Only, OnlyTarget, PassOn, irq_work_queue_on, Iterator, Once, RtoCpuSet, Targets, Iterates
  <2>2. Locks'
    BY <2>1 DEF RtoTypes, Locks, Starts, Only, RtoCpus
  <2>3. Iterator'
    <3>1. CASE target[c] = NoCpu
      <4>1. pending' = pending /\ \A d \in RtoCpus : Iterates(d)' <=> Iterates(d)
        BY <2>1, <3>1 DEF Once, RtoCpuSet, Targets, Iterates, Only, OnlyTarget
      <4>2. Once'
        BY <2>1, <3>1, <4>1 DEF RtoTypes, Locks, Iterator, Once, Only, RtoCpus
      <4>3. RtoCpuSet'
        BY <2>1, <3>1, <4>1 DEF RtoTypes, Locks, Iterator, Once, RtoCpuSet, Only, OnlyTarget, RtoCpus
      <4>4. Targets'
        BY <2>1, <3>1 DEF RtoTypes, Iterator, Targets, Only, OnlyTarget
      <4> QED BY <4>2, <4>3, <4>4 DEF Iterator
    <3>2. CASE target[c] # NoCpu
      <4>1. Iterates(c) /\ pending' = {target[c]} /\ \A d \in RtoCpus : ~Iterates(d)'
        BY <2>1, <3>2 DEF Once, RtoCpuSet, Targets, Iterates, Only, OnlyTarget, Iterator, Once, Targets, RtoCpuSet
      <4>2. Once'
        BY <2>1, <3>2, <4>1 DEF RtoTypes, Locks, Iterator, Once, Only, RtoCpus
      <4>3. RtoCpuSet'
        BY <2>1, <3>2, <4>1 DEF RtoTypes, Locks, Iterator, Once, RtoCpuSet, Only, OnlyTarget, RtoCpus
      <4>4. Targets'
        BY <2>1, <3>2 DEF RtoTypes, Iterator, Targets, Only, OnlyTarget
      <4> QED BY <4>2, <4>3, <4>4 DEF Iterator
    <3> QED BY <2>1, <3>1, <3>2
  <2>4. References'
    <3>1. CASE target[c] = NoCpu
      <4>1. Holders' = Holders /\ Leaving' = Leaving \ {c} /\ c \in Leaving
        BY <2>1, <3>1 DEF Holders, Leaving, Only
      <4>2. Cardinality(Leaving') = Cardinality(Leaving) - 1 /\ Cardinality(Leaving) \in Nat
        BY Zenon, <4>1, FS_RemoveElement, OneHolder, FS_CardinalityType
      <4>3. Cardinality(Holders) \in Nat
        BY OneHolder, FS_EmptySet, FS_Singleton
      <4> QED BY <2>1, <3>1, <4>1, <4>2, <4>3 DEF References
    <3>2. CASE target[c] # NoCpu
      <4>1. Holders = {c} /\ Holders' = {target[c]} /\ Leaving' = Leaving
        BY <2>1, <3>2 DEF RtoTypes, Iterator, Once, Iterates, Holders, Leaving, Only
      <4>2. Cardinality(Holders) = 1 /\ Cardinality(Holders') = 1
        BY Zenon, <4>1, FS_Singleton
      <4> QED BY <2>1, <3>2, <4>1, <4>2 DEF References
    <3> QED BY <3>1, <3>2
  <2> QED BY <2>2, <2>3, <2>4
<1> QED BY <1>1, <1>2, <1>3, <1>4, <1>5, <1>6, <1>7, <1>8, <1>9, <1>10, <1>11, <1>12, <1>13, <1>14
        DEF tell_cpu_to_push, rto_push_irq_work_func

\* What OneIterator says follows from the invariant: the places that Iterates counts
\* before a lock is dropped are not reached with both locks free.
LEMMA InvImpliesOneIterator == RtoInv => OneIterator
<1> SUFFICES ASSUME RtoInv PROVE OneIterator
  OBVIOUS
<1> DEFINE sending == {c \in RtoCpus : at[c] = "send"}
<1>1. Cardinality(Holders \cup sending) <= 1
  <2>1. \A d, e \in Holders \cup sending : d = e
    BY DEF RtoInv, RtoTypes, Iterator, Once, Iterates, Holders
  <2>2. Holders \cup sending = {} \/ \E d : Holders \cup sending = {d}
    BY <2>1
  <2>3. CASE Holders \cup sending = {}
    BY <2>3, FS_EmptySet
  <2>4. CASE \E d : Holders \cup sending = {d}
    <3> PICK d : Holders \cup sending = {d}
      BY Zenon, <2>4
    <3>1. Cardinality({d}) = 1
      BY FS_Singleton
    <3> HIDE DEF sending
    <3> QED BY <3>1
  <2> QED BY <2>2, <2>3, <2>4
<1>2. ASSUME rto.lock = NoCpu, ~rto.start
      PROVE  rto.cpu # NoCpu <=> Holders \cup sending # {}
  <2>1. \A c \in RtoCpus : ~Starts(c) /\ at[c] \notin {"scan", "wscan", "wunlock"}
    BY <1>2 DEF RtoInv, Locks, RtoCpus, Starts
  <2> QED BY <2>1 DEF RtoInv, RtoTypes, Iterator, Once, RtoCpuSet, Targets, Iterates, Starts, Holders
<1> QED BY <1>1, <1>2 DEF OneIterator, RtoInv, Iterator, Once, References, Leaving

\* There is one iterator for every number of CPUs: the irq_work of a root domain is
\* never queued twice, rto_cpu is a CPU exactly while it is under way, and it holds the
\* one reference on the root domain (tell_cpu_to_push, rto_push_irq_work_func).
THEOREM OneIteratorAlways == Spec => []OneIterator
<1>1. RtoInv /\ [Next]_rtoVars => RtoInv'
  <2> SUFFICES ASSUME RtoInv, [Next]_rtoVars PROVE RtoInv'
    OBVIOUS
  <2>1. CASE Next
    BY <2>1, TypesStep, IteratorStep DEF RtoInv
  <2>2. CASE UNCHANGED rtoVars
    BY <2>2 DEF rtoVars, RtoInv, RtoTypes, Locks, Starts, Iterator, Once, RtoCpuSet, Targets, Iterates,
               References, Holders, Leaving
  <2> QED BY <2>1, <2>2
<1> QED BY RtoInitially, <1>1, InvImpliesOneIterator, PTL DEF Spec

-----------------------------------------------------------------------------
(* The way of a reschedule                                                 *)

Modes == {"kernel", "user", "switch", "loop", "again", "irq"} \cup IdleModes

PreemptStates ==
    [mode : Modes, from : Modes \cup {"none"}, back : {"kernel", "idle"}, cnt : Nat, bh : {0, 1},
     folded : BOOLEAN, irqs : BOOLEAN, tif : BOOLEAN, lazy : BOOLEAN, idleTif : BOOLEAN,
     poll : BOOLEAN, ipi : BOOLEAN, calls : BOOLEAN, aged : BOOLEAN, missed : BOOLEAN]

\* Where the task is, below an interrupt handler if there is one.
Place(s) == IF s.mode = "irq" THEN s.from ELSE s.mode

\* Where preemption and interrupts are enabled, and who is running.
PlaceInv(s) ==
    /\ s.mode = "irq" => s.from \notin {"irq", "switch", "cleared", "none"}
    /\ Place(s) # "kernel" => s.irqs /\ s.bh = 0
    /\ s.mode = "irq" => s.irqs
    /\ Place(s) \in IdleModes => s.back = "idle"
    /\ Place(s) \in {"kernel", "user"} => s.back = "kernel"
    /\ Place(s) = "user" => s.cnt = 0
    /\ Place(s) = "again" /\ s.back = "kernel" => s.cnt = 0
    /\ Place(s) = "switch" => s.cnt = 1
    /\ s.poll => Place(s) \in {"idle", "mwait"}
    /\ Place(s) = "mwait" => s.poll

\* What is known of the flags at these places: a task that goes on has an interrupt
\* coming or the folded bit, and it keeps that bit only with preemption disabled.
FlagsInv(s) ==
    /\ s.folded => s.tif
    /\ s.aged => s.folded
    /\ Place(s) \in {"kernel", "user"} /\ s.tif => s.ipi \/ s.folded
    /\ s.mode = "user" => ~s.folded
    /\ s.mode = "kernel" /\ preempt_count(s) = 0 /\ s.folded => s.missed
    /\ s.mode = "hlt" /\ s.tif => s.ipi
    /\ s.calls => s.ipi \/ (s.tif /\ Place(s) \in {"idle", "mwait", "leave"})

PlacesAndFlags == pcpu \in PreemptStates /\ PlaceInv(pcpu) /\ FlagsInv(pcpu)

\* What the functions do to the state of a CPU leaves it one.
LEMMA StateTypes ==
    ASSUME NEW s \in PreemptStates
    PROVE  /\ LocalResched(s) \in PreemptStates
           /\ Schedule(s) \in PreemptStates
           /\ set_nr_and_not_polling(s) \in PreemptStates
           /\ \A lazily \in BOOLEAN : resched_curr(s, lazily) \in PreemptStates
           /\ call_function_single_prep_ipi(s) \in PreemptStates
           /\ Dec(s) \in PreemptStates
           /\ Interrupted(s) \in PreemptStates
           /\ Flush(s) \in PreemptStates
           /\ preempt_fold_need_resched(s) \in PreemptStates
           /\ sched_tick(s) \in PreemptStates
<1> USE DEF PreemptStates, Modes
<1>1. LocalResched(s) \in PreemptStates
  BY Zenon DEF LocalResched
<1>2. Schedule(s) \in PreemptStates
  BY Zenon DEF Schedule
<1>3. set_nr_and_not_polling(s) \in PreemptStates
  BY Zenon DEF set_nr_and_not_polling
<1>4. [s EXCEPT !.lazy = TRUE] \in PreemptStates
  BY Zenon
<1>5. [s EXCEPT !.tif = TRUE] \in PreemptStates /\ [s EXCEPT !.ipi = TRUE] \in PreemptStates
  BY Zenon
<1>6. [s EXCEPT !.missed = TRUE] \in PreemptStates
  BY Zenon
<1>7. [s EXCEPT !.aged = TRUE] \in PreemptStates /\ [s EXCEPT !.calls = FALSE] \in PreemptStates
  BY Zenon
<1>8. ASSUME NEW r \in PreemptStates
      PROVE  LocalResched(r) \in PreemptStates
  BY Zenon DEF LocalResched
<1>9. Interrupted(s) \in PreemptStates
  BY Zenon DEF Interrupted
<1>10. preempt_fold_need_resched(s) \in PreemptStates
  BY DEF preempt_fold_need_resched
<1> HIDE DEF PreemptStates, Modes
<1>11. \A lazily \in BOOLEAN : resched_curr(s, lazily) \in PreemptStates
  BY <1>3, <1>4 DEF resched_curr
<1>12. call_function_single_prep_ipi(s) \in PreemptStates
  BY <1>5 DEF call_function_single_prep_ipi
<1>13. Dec(s) \in PreemptStates
  BY <1>2, <1>6 DEF Dec, preempt_schedule
<1>14. Flush(s) \in PreemptStates
  BY <1>7, <1>8 DEF Flush
<1>15. sched_tick(s) \in PreemptStates
  BY <1>7, <1>8 DEF sched_tick
<1> QED BY <1>1, <1>2, <1>3, <1>9, <1>10, <1>11, <1>12, <1>13, <1>14, <1>15

\* Every step leaves the state of the CPU one.
LEMMA PreemptTypes ==
    ASSUME pcpu \in PreemptStates, PlaceInv(pcpu), PreemptNext
    PROVE  pcpu' \in PreemptStates
<1>1. CASE (\E lazily \in BOOLEAN : RemoteResched(lazily)) \/ wake_up_if_idle \/ schedule
  BY Zenon, <1>1, StateTypes DEF RemoteResched, wake_up_if_idle, schedule
<1>2. CASE wake_up_idle_cpu
  <2>1. [pcpu EXCEPT !.idleTif = TRUE, !.ipi = TRUE] \in PreemptStates
    BY Zenon DEF PreemptStates
  <2> QED BY <1>2, <2>1, StateTypes DEF wake_up_idle_cpu
<1>3. CASE QueueCall
  <2>1. [pcpu EXCEPT !.calls = TRUE] \in PreemptStates
    BY Zenon DEF PreemptStates
  <2> QED BY <1>3, <2>1, StateTypes DEF QueueCall
<1>4. CASE preempt_disable \/ preempt_enable
  <2>1. pcpu.cnt + 1 \in Nat /\ (pcpu.cnt > 0 => pcpu.cnt - 1 \in Nat)
    BY DEF PreemptStates
  <2>2. \A n \in Nat : [pcpu EXCEPT !.cnt = n] \in PreemptStates
    BY DEF PreemptStates
  <2> QED BY <1>4, <2>1, <2>2, StateTypes DEF preempt_disable, preempt_enable
<1>5. CASE local_irq_disable \/ local_irq_enable
  <2>1. \A x \in BOOLEAN : [pcpu EXCEPT !.irqs = x] \in PreemptStates
    BY DEF PreemptStates
  <2> QED BY Zenon, <1>5, <2>1 DEF local_irq_disable, local_irq_enable
<1>6. CASE local_bh_disable \/ local_bh_enable
  <2>1. \A n \in {0, 1} : [pcpu EXCEPT !.bh = n] \in PreemptStates
    BY DEF PreemptStates
  <2> QED BY <1>6, <2>1, StateTypes DEF local_bh_disable, local_bh_enable
<1>7. CASE WakeHere
  BY <1>7, StateTypes DEF WakeHere
<1>8. \A s \in PreemptStates, m \in Modes : [s EXCEPT !.mode = m] \in PreemptStates
  BY DEF PreemptStates
<1>9. {"kernel", "user", "loop", "flushed", "idle", "hlt"} \subseteq Modes
      /\ {"mwait", "cleared", "leave"} \subseteq Modes /\ pcpu.back \in Modes
  BY DEF PreemptStates, Modes, IdleModes
<1>10. CASE ReturnToUser \/ Syscall
  BY <1>8, <1>9, <1>10, StateTypes DEF ReturnToUser, Syscall
<1>11. CASE \E toIdle, again \in BOOLEAN : __schedule(toIdle, again)
  <2> PICK toIdle \in BOOLEAN, again \in BOOLEAN : __schedule(toIdle, again)
    BY <1>11
  <2> DEFINE s == [pcpu EXCEPT !.folded = FALSE, !.lazy = FALSE, !.aged = FALSE, !.missed = FALSE,
                               !.tif = toIdle /\ ~IsIdle(pcpu) /\ pcpu.idleTif,
                               !.idleTif = ~toIdle /\ ~IsIdle(pcpu) /\ @,
                               !.back = IF toIdle THEN "idle" ELSE "kernel"]
  <2>1. s \in PreemptStates
    <3>1. \A i, j \in BOOLEAN, x \in {"kernel", "idle"} :
            [pcpu EXCEPT !.folded = FALSE, !.lazy = FALSE, !.aged = FALSE, !.missed = FALSE,
                         !.tif = i, !.idleTif = j, !.back = x] \in PreemptStates
      BY Zenon DEF PreemptStates
    <3>2. (toIdle /\ ~IsIdle(pcpu) /\ pcpu.idleTif) \in BOOLEAN
          /\ (~toIdle /\ ~IsIdle(pcpu) /\ pcpu.idleTif) \in BOOLEAN
      OBVIOUS
    <3> QED BY Zenon, <3>1, <3>2
  <2> HIDE DEF s
  <2>2. (IF again THEN LocalResched(s) ELSE s) \in PreemptStates
    BY <2>1, StateTypes
  <2>3. pcpu' = [(IF again THEN LocalResched(s) ELSE s) EXCEPT !.mode = "loop"]
    BY DEF __schedule, s
  <2> QED BY <1>8, <1>9, <2>2, <2>3
<1>12. CASE EnableNoResched
  <2>1. \A n \in Nat, m \in Modes : [pcpu EXCEPT !.mode = m, !.cnt = n] \in PreemptStates
    BY Zenon DEF PreemptStates
  <2>2. "again" \in Modes /\ 0 \in Nat /\ 1 \in Nat
    BY DEF Modes
  <2> QED BY Zenon, <1>12, <2>1, <2>2 DEF EnableNoResched
<1>13. CASE LoopAgain
  BY <1>8, <1>9, <1>13, StateTypes DEF LoopAgain
<1>14. CASE Ipi
  <2>1. \A s \in PreemptStates : [s EXCEPT !.ipi = FALSE] \in PreemptStates
    BY Zenon DEF PreemptStates
  <2> DEFINE s == [Interrupted(pcpu) EXCEPT !.ipi = FALSE]
  <2>2. s \in PreemptStates
    BY <2>1, StateTypes
  <2> HIDE DEF s
  <2>3. preempt_fold_need_resched(Flush(s)) \in PreemptStates
    BY <2>2, StateTypes
  <2> QED BY <1>14, <2>3 DEF Ipi, s
<1>15. CASE Tick \/ DeviceIrq
  <2>1. Interrupted(pcpu) \in PreemptStates
    BY StateTypes
  <2> QED BY <1>15, <2>1, StateTypes DEF Tick, DeviceIrq
<1>16. CASE IrqExit
  <2> DEFINE s == [pcpu EXCEPT !.mode = pcpu.from, !.from = "none"]
  <2>1. s \in PreemptStates
    <3>1. pcpu.from \in Modes
      BY <1>16 DEF PreemptStates, PlaceInv, IrqExit
    <3>2. \A m \in Modes : [pcpu EXCEPT !.mode = m, !.from = "none"] \in PreemptStates
      BY Zenon DEF PreemptStates
    <3> QED BY Zenon, <3>1, <3>2
  <2> HIDE DEF s
  <2>2. Schedule(s) \in PreemptStates /\ [s EXCEPT !.mode = "idle", !.poll = TRUE] \in PreemptStates
    <3>1. [s EXCEPT !.mode = "idle", !.poll = TRUE] \in PreemptStates
      BY Zenon, <2>1, <1>9 DEF PreemptStates
    <3> QED BY <2>1, <3>1, StateTypes
  <2> QED BY <1>16, <2>1, <2>2 DEF IrqExit, s
<1>17. CASE IdlePoll
  <2>1. \A m \in Modes, x \in BOOLEAN : [pcpu EXCEPT !.mode = m, !.poll = x] \in PreemptStates
    BY Zenon DEF PreemptStates
  <2>2. [pcpu EXCEPT !.poll = TRUE] \in PreemptStates
    BY Zenon DEF PreemptStates
  <2>3. [pcpu EXCEPT !.mode = "leave", !.folded = TRUE, !.poll = FALSE] \in PreemptStates
    BY Zenon, <1>9 DEF PreemptStates
  <2>4. ASSUME NEW m \in {"mwait", "cleared"}
        PROVE  [pcpu EXCEPT !.mode = m, !.poll = m = "mwait"] \in PreemptStates
    <3>1. m \in Modes /\ (m = "mwait") \in BOOLEAN
      BY <1>9
    <3> QED BY Zenon, <2>1, <3>1
  <2> QED BY Zenon, <1>17, <2>2, <2>3, <2>4 DEF IdlePoll
<1>18. CASE IdleHalt \/ MwaitEnds
  BY <1>8, <1>9, <1>18 DEF IdleHalt, MwaitEnds
<1>19. CASE IdleLeave
  BY <1>8, <1>9, <1>19, StateTypes DEF IdleLeave
<1> QED
  BY <1>1, <1>2, <1>3, <1>4, <1>5, <1>6, <1>7, <1>10, <1>11, <1>12, <1>13, <1>14, <1>15, <1>16,
     <1>17, <1>18, <1>19 DEF PreemptNext

\* Callers on other CPUs (resched_curr, wake_up_idle_cpu, the call queue) keep the invariant.
LEMMA CallersStep ==
    ASSUME PlacesAndFlags, pcpu' \in PreemptStates,
           (\E lazily \in BOOLEAN : RemoteResched(lazily)) \/ wake_up_idle_cpu \/
           wake_up_if_idle \/ QueueCall
    PROVE  PlaceInv(pcpu') /\ FlagsInv(pcpu')
<1> USE DEF PlacesAndFlags, PlaceInv, Place, Modes, IdleModes
<1>1. CASE \E lazily \in BOOLEAN : RemoteResched(lazily)
  <2> PICK lazily \in BOOLEAN : RemoteResched(lazily)
    BY <1>1
  <2>1. CASE pcpu' = pcpu
    BY <2>1 DEF FlagsInv, preempt_count
  <2>2. CASE pcpu' = [pcpu EXCEPT !.lazy = TRUE]
    BY <2>2 DEF PreemptStates, FlagsInv, preempt_count
  <2>3. CASE pcpu.mode # "switch" /\ ~pcpu.tif /\ pcpu' = set_nr_and_not_polling(pcpu)
    <3>1. PlaceInv(pcpu')
      BY <2>3 DEF PreemptStates, set_nr_and_not_polling
    <3>2. /\ pcpu'.tif /\ ~pcpu'.folded /\ ~pcpu'.aged /\ (pcpu'.ipi \/ pcpu.poll)
      BY Zenon, <2>3 DEF PreemptStates, FlagsInv, set_nr_and_not_polling
    <3>3. /\ pcpu'.mode = pcpu.mode /\ pcpu'.from = pcpu.from
          /\ pcpu'.calls = pcpu.calls /\ (pcpu.ipi => pcpu'.ipi)
      BY <2>3 DEF PreemptStates, set_nr_and_not_polling
    <3>4. FlagsInv(pcpu')
      BY <3>2, <3>3 DEF PreemptStates, FlagsInv
    <3> QED BY <3>1, <3>4
  <2> QED BY <2>1, <2>2, <2>3 DEF RemoteResched, resched_curr
<1>2. CASE wake_up_idle_cpu
  <2>1. PlaceInv(pcpu')
    BY <1>2 DEF PreemptStates, wake_up_idle_cpu, set_nr_and_not_polling, IsIdle
  <2>2. FlagsInv(pcpu')
    BY <1>2 DEF PreemptStates, FlagsInv, wake_up_idle_cpu, set_nr_and_not_polling, IsIdle,
      preempt_count
  <2> QED BY <2>1, <2>2
<1>3. CASE wake_up_if_idle
  <2>1. PlaceInv(pcpu')
    BY <1>3 DEF PreemptStates, wake_up_if_idle, resched_curr, set_nr_and_not_polling, IsIdle
  <2>2. FlagsInv(pcpu')
    BY <1>3 DEF PreemptStates, FlagsInv, wake_up_if_idle, resched_curr,
      set_nr_and_not_polling, IsIdle, preempt_count
  <2> QED BY <2>1, <2>2
<1>4. CASE QueueCall
  <2>1. PlaceInv(pcpu')
    BY <1>4 DEF PreemptStates, QueueCall, call_function_single_prep_ipi
  <2>2. FlagsInv(pcpu')
    BY SMTT(20), <1>4 DEF PreemptStates, FlagsInv, QueueCall, call_function_single_prep_ipi,
      preempt_count
  <2> QED BY <2>1, <2>2
<1> QED BY SMTT(20), <1>1, <1>2, <1>3, <1>4

\* The task keeps the invariant: what it disables and enables, and its way into schedule.
LEMMA TaskStep ==
    ASSUME PlacesAndFlags, pcpu' \in PreemptStates,
           preempt_disable \/ preempt_enable \/ local_irq_disable \/ local_irq_enable \/
           local_bh_disable \/ local_bh_enable \/ WakeHere \/ schedule \/ ReturnToUser \/
           Syscall
    PROVE  PlaceInv(pcpu') /\ FlagsInv(pcpu')
<1> USE DEF PlacesAndFlags, PlaceInv, Place, Modes, IdleModes
<1>1. CASE preempt_disable
  <2>1. PlaceInv(pcpu')
    BY <1>1 DEF PreemptStates, preempt_disable
  <2>2. FlagsInv(pcpu')
    BY <1>1 DEF PreemptStates, FlagsInv, preempt_disable, preempt_count
  <2> QED BY <2>1, <2>2
<1>2. CASE preempt_enable
  <2>1. PlaceInv(pcpu')
    BY <1>2 DEF PreemptStates, preempt_enable, Dec, preempt_schedule, preemptible, Schedule,
      preempt_count
  <2>2. FlagsInv(pcpu')
    BY <1>2 DEF PreemptStates, FlagsInv, preempt_enable, Dec, preempt_schedule, preemptible,
      Schedule, preempt_count
  <2> QED BY <2>1, <2>2
<1>3. CASE local_irq_disable
  <2>1. PlaceInv(pcpu')
    BY <1>3 DEF PreemptStates, local_irq_disable
  <2>2. FlagsInv(pcpu')
    BY <1>3 DEF PreemptStates, FlagsInv, local_irq_disable, preempt_count
  <2> QED BY <2>1, <2>2
<1>4. CASE local_irq_enable
  <2>1. PlaceInv(pcpu')
    BY <1>4 DEF PreemptStates, local_irq_enable
  <2>2. FlagsInv(pcpu')
    BY <1>4 DEF PreemptStates, FlagsInv, local_irq_enable, preempt_count
  <2> QED BY <2>1, <2>2
<1>5. CASE local_bh_disable
  <2>1. PlaceInv(pcpu')
    BY <1>5 DEF PreemptStates, local_bh_disable
  <2>2. FlagsInv(pcpu')
    BY <1>5 DEF PreemptStates, FlagsInv, local_bh_disable, preempt_count
  <2> QED BY <2>1, <2>2
<1>6. CASE local_bh_enable
  <2>1. PlaceInv(pcpu')
    BY <1>6 DEF PreemptStates, local_bh_enable, Dec, preempt_schedule, preemptible, Schedule,
      preempt_count
  <2>2. FlagsInv(pcpu')
    BY <1>6 DEF PreemptStates, FlagsInv, local_bh_enable, Dec, preempt_schedule, preemptible,
      Schedule, preempt_count
  <2> QED BY <2>1, <2>2
<1>7. CASE WakeHere
  <2>1. PlaceInv(pcpu')
    BY <1>7 DEF PreemptStates, WakeHere, LocalResched, Dec, preempt_schedule, preemptible,
      Schedule, preempt_count
  <2>2. FlagsInv(pcpu')
    BY <1>7 DEF PreemptStates, FlagsInv, WakeHere, LocalResched, Dec, preempt_schedule,
      preemptible, Schedule, preempt_count
  <2> QED BY <2>1, <2>2
<1>8. CASE schedule
  <2>1. PlaceInv(pcpu')
    BY <1>8 DEF PreemptStates, schedule, preemptible, Schedule, preempt_count
  <2>2. FlagsInv(pcpu')
    BY <1>8 DEF PreemptStates, FlagsInv, schedule, preemptible, Schedule, preempt_count
  <2> QED BY <2>1, <2>2
<1>9. CASE ReturnToUser
  <2>1. PlaceInv(pcpu')
    BY <1>9 DEF PreemptStates, ReturnToUser, preemptible, Schedule, preempt_count
  <2>2. FlagsInv(pcpu')
    BY <1>9 DEF PreemptStates, FlagsInv, ReturnToUser, preemptible, Schedule, preempt_count
  <2> QED BY <2>1, <2>2
<1>10. CASE Syscall
  <2>1. PlaceInv(pcpu')
    BY <1>10 DEF PreemptStates, Syscall
  <2>2. FlagsInv(pcpu')
    BY <1>10 DEF PreemptStates, FlagsInv, Syscall, preempt_count
  <2> QED BY <2>1, <2>2
<1> QED BY <1>1, <1>2, <1>3, <1>4, <1>5, <1>6, <1>7, <1>8, <1>9, <1>10

\* __schedule and the loop around it keep the invariant.
LEMMA ScheduleStep ==
    ASSUME PlacesAndFlags, pcpu' \in PreemptStates,
           (\E toIdle, again \in BOOLEAN : __schedule(toIdle, again)) \/ EnableNoResched \/
           LoopAgain
    PROVE  PlaceInv(pcpu') /\ FlagsInv(pcpu')
<1> USE DEF PlacesAndFlags, PlaceInv, Place, Modes, IdleModes
<1>1. CASE \E toIdle, again \in BOOLEAN : __schedule(toIdle, again)
  <2> PICK toIdle \in BOOLEAN, again \in BOOLEAN : __schedule(toIdle, again)
    BY <1>1
  <2> DEFINE s == [pcpu EXCEPT !.folded = FALSE, !.lazy = FALSE, !.aged = FALSE, !.missed = FALSE,
                               !.tif = toIdle /\ ~IsIdle(pcpu) /\ pcpu.idleTif,
                               !.idleTif = ~toIdle /\ ~IsIdle(pcpu) /\ @,
                               !.back = IF toIdle THEN "idle" ELSE "kernel"]
             r == IF again THEN LocalResched(s) ELSE s
  <2>1. pcpu.mode = "switch" /\ pcpu' = [r EXCEPT !.mode = "loop"]
    BY Zenon DEF __schedule
  <2>2. s.cnt = 1 /\ s.bh = 0 /\ s.irqs /\ ~s.poll /\ ~s.folded /\ ~s.aged /\ (s.calls => s.ipi)
    BY <2>1 DEF PreemptStates, FlagsInv
  <2>3. DOMAIN s = DOMAIN pcpu
    OBVIOUS
  <2> HIDE DEF s
  <2>4. /\ r.cnt = 1 /\ r.bh = 0 /\ r.irqs /\ ~r.poll /\ (r.folded => r.tif) /\ ~r.aged
        /\ r.calls => r.ipi
        /\ DOMAIN r = DOMAIN pcpu
    BY <2>2, <2>3 DEF PreemptStates, LocalResched
  <2> HIDE DEF r
  <2>5. PlaceInv(pcpu') /\ FlagsInv(pcpu')
    BY <2>1, <2>4 DEF PreemptStates, FlagsInv
  <2> QED BY <2>5
<1>2. CASE EnableNoResched
  <2>1. PlaceInv(pcpu')
    BY <1>2 DEF PreemptStates, EnableNoResched, IsIdle
  <2>2. FlagsInv(pcpu')
    BY <1>2 DEF PreemptStates, FlagsInv, EnableNoResched, IsIdle, preempt_count
  <2> QED BY <2>1, <2>2
<1>3. CASE LoopAgain
  <2>1. PlaceInv(pcpu')
    BY <1>3 DEF PreemptStates, LoopAgain, Schedule
  <2>2. FlagsInv(pcpu')
    BY SMTT(20), <1>3 DEF PreemptStates, FlagsInv, LoopAgain, Schedule, preempt_count
  <2> QED BY <2>1, <2>2
<1> QED BY <1>1, <1>2, <1>3

\* Interrupts keep the invariant, from their entry to preempt_schedule_irq.
LEMMA InterruptStep ==
    ASSUME PlacesAndFlags, pcpu' \in PreemptStates,
           Ipi \/ Tick \/ DeviceIrq \/ IrqExit
    PROVE  PlaceInv(pcpu') /\ FlagsInv(pcpu')
<1> USE DEF PlacesAndFlags, PlaceInv, Place, Modes, IdleModes
<1>1. CASE Ipi
  <2>1. PlaceInv(pcpu')
    BY <1>1 DEF PreemptStates, Ipi, CanInterrupt, Interrupted, preempt_fold_need_resched,
      Flush, LocalResched
  <2>2. FlagsInv(pcpu')
    BY <1>1 DEF PreemptStates, FlagsInv, Ipi, CanInterrupt, Interrupted,
      preempt_fold_need_resched, Flush, LocalResched, preempt_count
  <2> QED BY <2>1, <2>2
<1>2. CASE Tick
  <2>1. PlaceInv(pcpu')
    BY <1>2 DEF PreemptStates, Tick, CanInterrupt, Interrupted, sched_tick, LocalResched
  <2>2. FlagsInv(pcpu')
    BY <1>2 DEF PreemptStates, FlagsInv, Tick, CanInterrupt, Interrupted, sched_tick,
      LocalResched, preempt_count
  <2> QED BY <2>1, <2>2
<1>3. CASE DeviceIrq
  <2>1. PlaceInv(pcpu')
    BY <1>3 DEF PreemptStates, DeviceIrq, CanInterrupt, Interrupted, LocalResched
  <2>2. FlagsInv(pcpu')
    BY <1>3 DEF PreemptStates, FlagsInv, DeviceIrq, CanInterrupt, Interrupted, LocalResched,
      preempt_count
  <2> QED BY <2>1, <2>2
<1>4. CASE IrqExit
  <2>1. PlaceInv(pcpu')
    BY <1>4 DEF PreemptStates, IrqExit, Schedule, preempt_count
  <2>2. FlagsInv(pcpu')
    BY <1>4 DEF PreemptStates, FlagsInv, IrqExit, Schedule, preempt_count
  <2> QED BY <2>1, <2>2
<1> QED BY <1>1, <1>2, <1>3, <1>4

\* The idle loop keeps the invariant.
LEMMA IdleStep ==
    ASSUME PlacesAndFlags, pcpu' \in PreemptStates,
           IdlePoll \/ IdleHalt \/ MwaitEnds \/ IdleLeave
    PROVE  PlaceInv(pcpu') /\ FlagsInv(pcpu')
<1> USE DEF PlacesAndFlags, PlaceInv, Place, Modes, IdleModes
<1>1. CASE IdlePoll
  <2>1. CASE ~pcpu.poll /\ pcpu' = [pcpu EXCEPT !.poll = TRUE]
    BY <1>1, <2>1 DEF PreemptStates, FlagsInv, IdlePoll, preempt_count
  <2>2. CASE pcpu.poll /\ ~pcpu.tif /\ pcpu' = [pcpu EXCEPT !.mode = "mwait", !.poll = TRUE]
    BY <1>1, <2>2 DEF PreemptStates, FlagsInv, IdlePoll, preempt_count
  <2>3. CASE pcpu.poll /\ ~pcpu.tif /\ pcpu' = [pcpu EXCEPT !.mode = "cleared", !.poll = FALSE]
    BY <1>1, <2>3 DEF PreemptStates, FlagsInv, IdlePoll, preempt_count
  <2>4. CASE /\ pcpu.poll /\ pcpu.tif
             /\ pcpu' = [pcpu EXCEPT !.mode = "leave", !.folded = TRUE, !.poll = FALSE]
    BY <1>1, <2>4 DEF PreemptStates, FlagsInv, IdlePoll, preempt_count
  <2>5. \A m \in {"mwait", "cleared"} :
           (m = "mwait") = TRUE \/ (m = "cleared" /\ (m = "mwait") = FALSE)
    OBVIOUS
  <2> QED BY Zenon, <1>1, <2>1, <2>2, <2>3, <2>4, <2>5 DEF IdlePoll
<1>2. CASE IdleHalt
  <2>1. PlaceInv(pcpu')
    BY <1>2 DEF PreemptStates, IdleHalt
  <2>2. FlagsInv(pcpu')
    BY <1>2 DEF PreemptStates, FlagsInv, IdleHalt, preempt_count
  <2> QED BY <2>1, <2>2
<1>3. CASE MwaitEnds
  <2>1. PlaceInv(pcpu')
    BY <1>3 DEF PreemptStates, MwaitEnds
  <2>2. FlagsInv(pcpu')
    BY <1>3 DEF PreemptStates, FlagsInv, MwaitEnds, preempt_count
  <2> QED BY <2>1, <2>2
<1>4. CASE IdleLeave
  <2>1. CASE pcpu.mode = "leave" /\ ~pcpu.calls /\ pcpu' = [pcpu EXCEPT !.mode = "flushed"]
    BY <2>1 DEF PreemptStates, FlagsInv, preempt_count
  <2>2. CASE /\ pcpu.mode = "leave" /\ pcpu.calls
             /\ pcpu' = [LocalResched([pcpu EXCEPT !.calls = FALSE]) EXCEPT !.mode = "flushed"]
    <3>1. PlaceInv(pcpu')
      BY <2>2 DEF PreemptStates, LocalResched
    <3>2. FlagsInv(pcpu')
      BY <2>2 DEF PreemptStates, FlagsInv, LocalResched, preempt_count
    <3> QED BY <3>1, <3>2
  <2>3. CASE pcpu.mode = "flushed" /\ pcpu' = Schedule(pcpu)
    BY <2>3 DEF PreemptStates, FlagsInv, Schedule, preempt_count
  <2> QED BY Zenon, <1>4, <2>1, <2>2, <2>3 DEF IdleLeave, Flush
<1> QED BY <1>1, <1>2, <1>3, <1>4

\* Every step keeps the invariant.
LEMMA PreemptStep == PlacesAndFlags /\ [PreemptNext]_ppVars => PlacesAndFlags'
<1>1. PlacesAndFlags /\ PreemptNext => PlacesAndFlags'
  BY PreemptTypes, CallersStep, TaskStep, ScheduleStep, InterruptStep, IdleStep
     DEF PreemptNext, PlacesAndFlags
<1>2. PlacesAndFlags /\ UNCHANGED ppVars => PlacesAndFlags'
  BY DEF ppVars, PlacesAndFlags, PreemptStates, PlaceInv, FlagsInv, Place, preempt_count
<1> QED BY <1>1, <1>2

\* No reschedule is lost on its way to the CPU, whether it runs a task, polls or halts
\* (resched_curr, preempt_enable, the idle loop), for any depth of preempt_disable.
THEOREM ReschedulesArrive == PreemptSpec => []PreemptInv
<1>1. PreemptInit => PlacesAndFlags
  BY DEF PreemptInit, PlacesAndFlags, PreemptStates, PlaceInv, FlagsInv, Place, Modes, IdleModes,
         preempt_count
<1>2. PlacesAndFlags => PreemptInv
  <2> SUFFICES ASSUME PlacesAndFlags PROVE PreemptInv
    OBVIOUS
  <2> USE DEF PlacesAndFlags, PreemptStates, PlaceInv, FlagsInv, Place, Modes, IdleModes,
              preempt_count
  <2>1. Preempted
    BY DEF Preempted, preemptible
  <2>2. Woken
    BY DEF Woken
  <2>3. CountKept
    BY DEF CountKept
  <2> QED BY <2>1, <2>2, <2>3 DEF PreemptInv
<1> QED BY <1>1, <1>2, PreemptStep, PTL DEF PreemptSpec
=============================================================================
