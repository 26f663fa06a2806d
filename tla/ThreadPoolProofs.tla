-------------------------- MODULE ThreadPoolProofs --------------------------
(***************************************************************************)
(* Proofs about ThreadPool, concluded: no wakeup is lost, and the pool     *)
(* implements PoolService.                                                 *)
(***************************************************************************)
EXTENDS ThreadPoolLife, FiniteSetTheorems

(* Wakeups                                                                 *)

\* The workers on their way to the queue.
Coming == At("lock") \cup At("check")

\* A set of workers is finite.
LEMMA FiniteWorkers ==
  ASSUME NEW S, S \subseteq Workers
  PROVE  IsFiniteSet(S) /\ Cardinality(S) \in Nat
BY PoolAssumption, FS_Subset, FS_CardinalityType DEF PoolAssumption

\* Every step preserves NoLostWakeup.
LEMMA WakeupStep ==
  ASSUME IInv, NoLostWakeup, [Next]_vars
  PROVE  NoLostWakeup'
<1> USE DEF IInv, Threads, Goto, On, Inside, Acquire, fields, memory, history
<1> Workers \cap Clients = {} /\ Main \in Clients
  BY PoolAssumption DEF PoolAssumption, Clients
<1> DEFINE left == Len(accepted) - started
<1>1. /\ TypeOK' /\ Lifecycle' /\ QueueIsFifo'
      /\ left \in Nat /\ started \in Nat /\ Len(accepted) \in Nat
  BY TypeStep, DataStep, LifecycleStep DEF DataInv, QueueIsFifo, TypeOK
<1>2. /\ IsFiniteSet(Coming) /\ Cardinality(Coming) \in Nat
      /\ IsFiniteSet(Coming') /\ Cardinality(Coming') \in Nat
  <2>1. Coming \subseteq Workers
    BY DEF TypeOK, Coming, At, ClientPcs
  <2>2. Coming' \subseteq Workers
    BY <1>1 DEF TypeOK, Coming, At, ClientPcs
  <2>3. QED BY <2>1, <2>2, FiniteWorkers
<1>3. NoLostWakeup <=> (Waiting # {} => ~shutdown /\ left <= Cardinality(Coming))
  BY DEF NoLostWakeup, Coming
<1>4. NoLostWakeup' <=> (Waiting' # {} => ~shutdown' /\ left' <= Cardinality(Coming'))
  BY DEF NoLostWakeup, Coming
<1>5. Waiting' # {} => ~shutdown'
  BY <1>1 DEF Lifecycle, Waiting
<1>6. ASSUME Waiting' \subseteq Waiting, Coming' = Coming, UNCHANGED <<accepted, started>>
      PROVE  NoLostWakeup'
  BY <1>3, <1>4, <1>5, <1>6
<1>7. ASSUME NEW w, w \notin Coming, Coming' = Coming \cup {w}, Waiting' \subseteq Waiting,
             UNCHANGED <<accepted, started>>
      PROVE  NoLostWakeup'
  BY <1>1, <1>2, <1>3, <1>4, <1>5, <1>7, FS_AddElement
<1>10. ASSUME NEW w \in Workers, WorkerStep(w) \/ SpuriousWakeup(w)
       PROVE  NoLostWakeup'
  <2>1. CASE WorkerLock(w)
    BY <1>6, <2>1 DEF WorkerLock, Waiting, Coming, At, TypeOK
  <2>2. CASE WorkerWait(w)
    <3>1. started' = Len(accepted')
      BY <1>1, <2>2, PoolAssumption
         DEF WorkerWait, QueueIsFifo, DataInv, TypeOK, PoolAssumption
    <3>2. QED BY <1>1, <1>2, <1>4, <1>5, <3>1
  <2>3. CASE WorkerExit(w)
    BY <1>4, <2>3 DEF WorkerExit, Waiting, Lifecycle, TypeOK
  <2>4. CASE WorkerTake(w)
    <3>1. w \in Coming /\ Coming' = Coming \ {w} /\ Waiting' = Waiting
      BY <2>4 DEF WorkerTake, Coming, At, Waiting, TypeOK
    <3>2. Cardinality(Coming') = Cardinality(Coming) - 1 /\ left' = left - 1
      BY <1>1, <1>2, <2>4, <3>1, FS_RemoveElement DEF WorkerTake
    <3>3. QED BY <1>1, <1>2, <1>3, <1>4, <1>5, <3>1, <3>2
  <2>5. CASE WorkerRun(w)
    BY <1>6, <2>5 DEF WorkerRun, Waiting, Coming, At, TypeOK
  <2>6. CASE WorkerFree(w)
    <3>1. w \notin Coming /\ Coming' = Coming \cup {w} /\ Waiting' = Waiting
      BY <2>6 DEF WorkerFree, Coming, At, Waiting, TypeOK
    <3>2. QED BY <1>7, <2>6, <3>1 DEF WorkerFree
  <2>7. CASE SpuriousWakeup(w)
    <3>1. w \notin Coming /\ Coming' = Coming \cup {w} /\ Waiting' \subseteq Waiting
      BY <2>7 DEF SpuriousWakeup, Coming, At, Waiting, TypeOK
    <3>2. QED BY <1>7, <2>7, <3>1 DEF SpuriousWakeup
  <2>8. QED BY <1>10, <2>1, <2>2, <2>3, <2>4, <2>5, <2>6, <2>7 DEF WorkerStep
<1>11. ASSUME NEW c \in Clients, SubmitAccepted(c)
       PROVE  NoLostWakeup'
  <2>1. left' = left + 1
    BY <1>1, <1>11 DEF SubmitAccepted, TypeOK
  <2>2. CASE Waiting = {}
    <3>1. Waiting' = {}
      BY <1>11, <2>2 DEF SubmitAccepted, SignalAndGoto, On, Waiting, TypeOK
    <3>2. QED BY <1>4, <3>1
  <2>3. ASSUME NEW w \in Waiting, pc' = [pc EXCEPT ![c] = "arg", ![w] = "lock"]
        PROVE  NoLostWakeup'
    <3>1. w \in Workers /\ w # c /\ pc[w] = "wait"
      BY <2>3 DEF Waiting
    <3>2. w \notin Coming /\ Coming' = Coming \cup {w}
      BY <1>11, <2>3, <3>1 DEF SubmitAccepted, Coming, At, TypeOK
    <3>3. Cardinality(Coming') = Cardinality(Coming) + 1
      BY <1>2, <3>2, FS_AddElement
    <3>4. QED BY <1>1, <1>2, <1>3, <1>4, <1>5, <2>1, <2>3, <3>3
  <2>4. QED BY <1>11, <2>2, <2>3 DEF SubmitAccepted, SignalAndGoto
<1>12. ASSUME NEW c \in Clients, ClientStep(c), ~SubmitAccepted(c),
              ~DestroyClose(c)
       PROVE  NoLostWakeup'
  <2>1. Waiting' = Waiting /\ Coming' = Coming /\ UNCHANGED <<accepted, started>>
    BY <1>12 DEF ClientStep, NewArg, NewArgFails, NewNode, NewNodeFails, SubmitLock,
       SubmitRejected, BeginDestroy, Leave, DestroyLock, DestroyAgain, DestroyJoin,
       FreePool, Return, Waiting, Coming, At, TypeOK
  <2>2. QED BY <1>6, <2>1
<1>13. ASSUME NEW c \in Clients, DestroyClose(c) \/ (c = Main /\ FailClose)
       PROVE  NoLostWakeup'
  BY <1>4, <1>13 DEF DestroyClose, FailClose, BroadcastAndGoto, On, Waiting, TypeOK
<1>14. CASE MainStep
  <2>1. CASE SetUp \/ SetUpFails \/ CreateFails \/ FailLock \/ FailJoin
    BY <1>6, <2>1 DEF SetUp, SetUpFails, CreateFails, FailLock, FailJoin, FreePool,
       Waiting, Coming, At, TypeOK
  <2>2. ASSUME NEW w \in Workers, CreateWorker(w)
        PROVE  NoLostWakeup'
    <3>1. w \notin Coming /\ Coming' = Coming \cup {w} /\ Waiting' = Waiting
      BY <2>2 DEF CreateWorker, Coming, At, Waiting, TypeOK
    <3>2. QED BY <1>7, <2>2, <3>1 DEF CreateWorker
  <2>3. QED BY <1>13, <1>14, <2>1, <2>2 DEF MainStep
<1>15. ASSUME NEW t \in Threads, UseAfterFree(t)
       PROVE  NoLostWakeup'
  <2>1. t \in Clients
    BY <1>15 DEF UseAfterFree, Lifecycle, AllJoined, PoolPcs
  <2>2. QED BY <1>6, <1>15, <2>1
          DEF UseAfterFree, Waiting, Coming, At, TypeOK, ClientPcs
<1>16. CASE UNCHANGED vars
  BY <1>6, <1>16 DEF vars, Waiting, Coming, At
<1>17. QED BY <1>10, <1>11, <1>12, <1>13, <1>14, <1>15, <1>16 DEF Next, Terminated

\* One pthread_cond_signal per submitted task is enough: a worker that sleeps
\* is never needed, whatever the number of workers and tasks.
THEOREM WakeupsAreNotLost == Spec => []NoLostWakeup
<1>1. Init => NoLostWakeup
  BY DEF Init, NoLostWakeup, Waiting, Threads
<1>2. QED BY <1>1, WakeupStep, InductiveInvariant, PTL DEF Spec
-----------------------------------------------------------------------------
(* ThreadPool implements PoolService                                       *)

\* Every step of the pool is a step of PoolService or changes nothing of it.
LEMMA ServiceStep ==
  ASSUME IInv, IInv', [Next]_vars
  PROVE  [Service!SNext]_(Service!svars)
<1> USE DEF IInv, On, Inside, fields, memory, history, Service!svars
<1> Service!Accepted = Submitted /\ Service!Started = Dequeued
  BY DEF Service!Accepted, Service!Started, Submitted, Dequeued
<1>1. ASSUME NEW w \in Workers, WorkerTake(w)
      PROVE  Service!Start
  <2>1. pool # "freed"
    BY <1>1 DEF WorkerTake, Inside
  <2>2. started < Len(accepted)
    BY <1>1 DEF WorkerTake, DataInv, QueueIsFifo, TypeOK
  <2>3. QED BY <1>1, <2>1, <2>2 DEF WorkerTake, Service!Start
<1>2. ASSUME NEW w \in Workers, WorkerRun(w)
      PROVE  Service!Finish(cur[w]) /\ cur[w] \in Tasks
  <2>1. pool # "freed"
    BY <1>2 DEF WorkerRun, Lifecycle, AllJoined
  <2>2. cur[w] \in HeldAt("run") /\ cur[w] \in Tasks
    BY <1>2 DEF WorkerRun, HeldAt, At, Threads, TypeOK
  <2>3. cur[w] \in Dequeued \ done
    BY <2>2 DEF DataInv, ExactlyOnce
  <2>4. QED BY <1>2, <2>1, <2>2, <2>3 DEF WorkerRun, Service!Finish
<1>3. ASSUME NEW c \in Clients, SubmitAccepted(c)
      PROVE  Service!Accept(cur[c]) /\ cur[c] \in Tasks
  <2>1. cur[c] \in Tasks /\ cur[c] \notin Submitted
    BY <1>3 DEF SubmitAccepted, Inside, TypeOK, Threads, DataInv, ClientsOwnTasks
  <2>2. QED BY <1>3, <2>1 DEF SubmitAccepted, Service!Accept
<1>4. ASSUME NEW c \in Clients, DestroyClose(c) \/ FailClose
      PROVE  Service!Close \/ UNCHANGED Service!svars
  BY <1>4 DEF DestroyClose, FailClose, Service!Close, TypeOK
<1>5. ASSUME NEW c \in Clients, FreePool(c, "join") \/ FreePool(c, "fail_join")
      PROVE  Service!Release \/ UNCHANGED Service!svars
  BY <1>5, JoinedMeansDrained DEF FreePool, Lifecycle, Service!Release
<1>6. CASE SetUp
  BY <1>6 DEF SetUp, Lifecycle
<1>7. ASSUME NEW w \in Workers,
             \/ WorkerLock(w) \/ WorkerWait(w) \/ WorkerExit(w) \/ WorkerFree(w)
             \/ SpuriousWakeup(w) \/ CreateWorker(w)
      PROVE  UNCHANGED Service!svars
  BY <1>7 DEF WorkerLock, Acquire, WorkerWait, WorkerExit, WorkerFree,
     SpuriousWakeup, CreateWorker
<1>8. ASSUME NEW c \in Clients,
             \/ \E t \in Tasks : NewArg(c, t) \/ NewArgFails(c, t)
             \/ NewNode(c) \/ NewNodeFails(c)
             \/ SubmitLock(c) \/ SubmitRejected(c) \/ BeginDestroy(c) \/ Leave(c)
             \/ DestroyLock(c) \/ DestroyAgain(c) \/ Return(c)
      PROVE  UNCHANGED Service!svars
  BY <1>8 DEF NewArg, NewArgFails, NewNode, NewNodeFails, SubmitLock, Acquire,
     SubmitRejected, BeginDestroy, Leave, DestroyLock, DestroyAgain, Return
<1>9. CASE SetUpFails \/ CreateFails \/ FailLock
  BY <1>9 DEF SetUpFails, CreateFails, FailLock, Acquire
<1>10. ASSUME NEW t \in Threads, UseAfterFree(t) PROVE UNCHANGED Service!svars
  BY <1>10 DEF UseAfterFree
<1>11. CASE UNCHANGED vars
  BY <1>11 DEF vars
<1>12. Main \in Clients
  BY DEF Clients
<1>13. ASSUME NEW w \in Workers, WorkerStep(w) \/ SpuriousWakeup(w)
       PROVE  [Service!SNext]_(Service!svars)
  BY <1>1, <1>2, <1>7, <1>13 DEF WorkerStep, Service!SNext
<1>14. ASSUME NEW c \in Clients, ClientStep(c)
       PROVE  [Service!SNext]_(Service!svars)
  BY <1>3, <1>4, <1>5, <1>8, <1>14 DEF ClientStep, DestroyJoin, Service!SNext
<1>15. CASE MainStep
  BY <1>4, <1>5, <1>6, <1>7, <1>9, <1>12, <1>15 DEF MainStep, FailJoin, Service!SNext
<1>16. QED BY <1>10, <1>11, <1>13, <1>14, <1>15 DEF Next, Terminated

\* The pool keeps the promises of PoolService.
THEOREM ImplementsService == Spec => ServiceSpec
<1>1. Init => Service!SInit
  BY DEF Init, Service!SInit
<1>2. IInv /\ IInv' /\ [Next]_vars => [Service!SNext]_(Service!svars)
  BY ServiceStep
<1>3. QED BY <1>1, <1>2, InductiveInvariant, PTL
        DEF Spec, ServiceSpec, Service!SSpec
=============================================================================
