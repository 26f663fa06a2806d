--------------------------- MODULE ThreadPoolData ---------------------------
(***************************************************************************)
(* Proofs about ThreadPool, for any number of workers, clients and tasks.  *)
(* This module proves the type invariant and DataInv: the queue, who owns  *)
(* which task, and what is allocated.  Steps that change none of these are *)
(* dealt with together, as Quiet.                                          *)
(***************************************************************************)
EXTENDS ThreadPool, TLAPS

\* main starts with every variable of its type.
LEMMA TypeInit == Init => TypeOK
<1> SUFFICES ASSUME Init PROVE TypeOK
  OBVIOUS
<1> USE PoolAssumption DEF PoolAssumption, Init, Threads, Clients
<1>1. /\ pc \in [Threads -> WorkerPcs \cup ClientPcs \cup {"ub"}]
      /\ \A w \in Workers : pc[w] = "unborn"
      /\ \A c \in Clients : pc[c] \in {"setup", "arg"}
  BY DEF WorkerPcs, ClientPcs
<1>2. /\ cur \in [Threads -> Tasks \cup {NULL}]
      /\ \A t \in Threads : cur[t] = NULL
      /\ \A t \in Threads : pc[t] \in {"unborn", "setup", "arg"}
  BY <1>1
<1>3. /\ accepted \in Seq(Tasks) /\ started \in Nat /\ spurious \in 0..MaxSpurious
      /\ nxt \in [Tasks -> Tasks \cup {NULL}]
  OBVIOUS
<1>4. QED BY <1>1, <1>2, <1>3 DEF TypeOK, WorkerPcs, ClientPcs

\* The steps of thread_pool_worker preserve the types.
LEMMA TypeWorker ==
  ASSUME TypeOK, NEW w \in Workers, WorkerStep(w) \/ SpuriousWakeup(w)
  PROVE  TypeOK'
<1> USE DEF TypeOK, Threads, Clients, WorkerPcs, ClientPcs, Goto, On, Inside,
            fields, memory, history
<1>1. CASE WorkerLock(w)
  BY <1>1 DEF WorkerLock, Acquire
<1>2. CASE WorkerWait(w)
  BY <1>2 DEF WorkerWait
<1>3. CASE WorkerExit(w)
  BY <1>3 DEF WorkerExit
<1>4. CASE WorkerTake(w)
  BY <1>4 DEF WorkerTake
<1>5. CASE WorkerRun(w)
  BY <1>5 DEF WorkerRun
<1>6. CASE WorkerFree(w)
  BY <1>6 DEF WorkerFree
<1>7. CASE SpuriousWakeup(w)
  BY <1>7, PoolAssumption DEF SpuriousWakeup, PoolAssumption
<1>8. QED BY <1>1, <1>2, <1>3, <1>4, <1>5, <1>6, <1>7 DEF WorkerStep

\* The steps of thread_pool_submit, thread_pool_destroy and their callers
\* preserve the types.
LEMMA TypeClient ==
  ASSUME TypeOK, NEW c \in Clients, ClientStep(c)
  PROVE  TypeOK'
<1> USE DEF TypeOK, Threads, Clients, WorkerPcs, ClientPcs, Goto, On, Inside,
            fields, memory, history
<1> Workers \cap Clients = {} /\ NULL \notin Tasks
  BY PoolAssumption DEF PoolAssumption
<1>1. ASSUME NEW t \in Tasks, NewArg(c, t) \/ NewArgFails(c, t)
      PROVE  TypeOK'
  <2>1. CASE NewArg(c, t)
    BY <2>1 DEF NewArg
  <2>2. CASE NewArgFails(c, t)
    BY <2>2 DEF NewArgFails
  <2>3. QED BY <1>1, <2>1, <2>2
<1>2. CASE NewNode(c) \/ NewNodeFails(c)
  <2>1. CASE NewNode(c)
    BY <2>1 DEF NewNode
  <2>2. CASE NewNodeFails(c)
    BY <2>2 DEF NewNodeFails
  <2>3. QED BY <1>2, <2>1, <2>2
<1>3. CASE SubmitLock(c) \/ DestroyLock(c)
  BY <1>3 DEF SubmitLock, DestroyLock, Acquire
<1>4. CASE SubmitRejected(c)
  BY <1>4 DEF SubmitRejected
<1>5. CASE SubmitAccepted(c)
  <2> cur[c] \in Tasks
    BY <1>5 DEF SubmitAccepted
  <2>1. head' \in Tasks /\ tail' \in Tasks /\ nxt' \in [Tasks -> Tasks \cup {NULL}]
    BY <1>5 DEF SubmitAccepted
  <2>2. accepted' \in Seq(Tasks)
    BY <1>5 DEF SubmitAccepted
  <2>3. /\ cur' \in [Threads -> Tasks \cup {NULL}] /\ cur'[c] = NULL
        /\ \A t \in Threads \ {c} : cur'[t] = cur[t]
    BY <1>5 DEF SubmitAccepted
  <2>4. /\ pc' \in [Threads -> WorkerPcs \cup ClientPcs \cup {"ub"}]
        /\ pc'[c] = "arg"
        /\ \A t \in Threads \ {c} :
             pc'[t] = pc[t] \/ (t \in Waiting /\ pc'[t] = "lock")
    BY <1>5 DEF SubmitAccepted, SignalAndGoto, On, Waiting
  <2>5. lock' = NULL /\ UNCHANGED <<shutdown, pool, nodes, args, todo, spurious, started, done>>
    BY <1>5 DEF SubmitAccepted
  <2>6. QED BY <2>1, <2>2, <2>3, <2>4, <2>5 DEF Waiting
<1>6. CASE BeginDestroy(c) \/ Leave(c) \/ DestroyAgain(c) \/ Return(c)
  BY <1>6 DEF BeginDestroy, Leave, DestroyAgain, Return
<1>7. CASE DestroyClose(c)
  BY <1>7 DEF DestroyClose, BroadcastAndGoto, On, Waiting
<1>8. CASE DestroyJoin(c)
  BY <1>8 DEF DestroyJoin, FreePool
<1>9. QED BY <1>1, <1>2, <1>3, <1>4, <1>5, <1>6, <1>7, <1>8 DEF ClientStep

\* The steps with which main sets up the pool preserve the types.
LEMMA TypeMain ==
  ASSUME TypeOK, MainStep
  PROVE  TypeOK'
<1> USE DEF TypeOK, Threads, Clients, WorkerPcs, ClientPcs, Goto, On, Inside,
            fields, memory, history
<1> Workers \cap Clients = {} /\ Main \in Clients
  BY PoolAssumption DEF PoolAssumption
<1>1. CASE SetUp \/ SetUpFails \/ CreateFails
  BY <1>1 DEF SetUp, SetUpFails, CreateFails
<1>2. ASSUME NEW w \in Workers, CreateWorker(w)
      PROVE  TypeOK'
  BY <1>2 DEF CreateWorker
<1>3. CASE FailLock
  BY <1>3 DEF FailLock, Acquire
<1>4. CASE FailClose
  BY <1>4 DEF FailClose, BroadcastAndGoto, On, Waiting
<1>5. CASE FailJoin
  BY <1>5 DEF FailJoin, FreePool
<1>6. QED BY <1>1, <1>2, <1>3, <1>4, <1>5 DEF MainStep

\* Every step preserves the types.
LEMMA TypeStep ==
  ASSUME TypeOK, [Next]_vars
  PROVE  TypeOK'
<1>1. ASSUME NEW t \in Threads, UseAfterFree(t)
      PROVE  TypeOK'
  BY <1>1 DEF UseAfterFree, TypeOK, Threads, Clients, WorkerPcs, ClientPcs,
     Goto, On, PoolPcs, fields, memory, history
<1>2. CASE UNCHANGED vars
  BY <1>2 DEF TypeOK, vars, fields, memory, history
<1>3. QED BY <1>1, <1>2, TypeWorker, TypeClient, TypeMain DEF Next, Terminated

\* The variables keep their types; in particular the node that
\* thread_pool_worker runs and the one thread_pool_submit inserts are never
\* null.
THEOREM TypeCorrect == Spec => []TypeOK
BY TypeInit, TypeStep, PTL DEF Spec
-----------------------------------------------------------------------------
(* The queue, the tasks and the heap                                       *)

\* The data part of the inductive invariant.
DataInv == QueueIsFifo /\ ExactlyOnce /\ MemoryOwned /\ ClientsOwnTasks

\* A step that leaves the queue, the heap and the tasks alone, and does not
\* move a thread into or out of the places where it owns a task.
Quiet ==
    /\ UNCHANGED <<head, tail, nxt, nodes, args, cur, todo, history>>
    /\ \A t \in Threads, l \in {"run", "free", "node"} : pc'[t] = l <=> pc[t] = l
    /\ \A c \in Clients :
         pc'[c] \in {"sub_lock", "sub_body"} => pc[c] \in {"sub_lock", "sub_body"}

\* The empty queue satisfies DataInv.
LEMMA DataInit == Init => DataInv
<1> SUFFICES ASSUME Init PROVE DataInv
  OBVIOUS
<1> USE PoolAssumption DEF PoolAssumption, Init
<1>1. \A t \in Threads : cur[t] = NULL /\ pc[t] \in {"unborn", "setup", "arg"}
  BY DEF Threads
<1>2. Held = {} /\ HeldAt("run") = {} /\ HeldAt("free") = {} /\ HeldAt("node") = {}
  BY <1>1 DEF Held, HeldAt, At
<1>3. Queued = {} /\ Dequeued = {} /\ Submitted = {}
  BY DEF Queued, Dequeued, Submitted
<1>4. QueueIsFifo
  BY DEF QueueIsFifo
<1>5. ExactlyOnce
  BY <1>1, <1>2, <1>3 DEF ExactlyOnce
<1>6. MemoryOwned
  BY <1>2, <1>3 DEF MemoryOwned
<1>7. ClientsOwnTasks
  BY <1>1, <1>3 DEF ClientsOwnTasks, Threads
<1>8. QED BY <1>4, <1>5, <1>6, <1>7 DEF DataInv

\* A quiet step preserves DataInv.
LEMMA DataQuiet ==
  ASSUME DataInv, Quiet
  PROVE  DataInv'
<1> USE DEF Quiet, DataInv, history
<1>1. Held' = Held /\ Queued' = Queued /\ Dequeued' = Dequeued /\ Submitted' = Submitted
  BY DEF Held, Queued, Dequeued, Submitted
<1>2. \A l \in {"run", "free", "node"} : HeldAt(l)' = HeldAt(l)
  BY DEF HeldAt, At
<1>3. QueueIsFifo'
  BY DEF QueueIsFifo
<1>4. ExactlyOnce'
  BY <1>1, <1>2 DEF ExactlyOnce
<1>5. MemoryOwned'
  BY <1>1, <1>2 DEF MemoryOwned
<1>6. ClientsOwnTasks'
  BY <1>1 DEF ClientsOwnTasks
<1>7. QED BY <1>3, <1>4, <1>5, <1>6

\* Locking, waiting, exiting, creating, closing and freeing the pool are quiet.
LEMMA QuietSteps ==
  ASSUME TypeOK,
         \/ \E w \in Workers : \/ WorkerLock(w) \/ WorkerWait(w)
                               \/ WorkerExit(w) \/ SpuriousWakeup(w)
         \/ \E c \in Clients : \/ SubmitLock(c) \/ DestroyLock(c)
                               \/ BeginDestroy(c) \/ Leave(c)
                               \/ DestroyAgain(c) \/ DestroyClose(c)
                               \/ DestroyJoin(c) \/ Return(c)
         \/ MainStep
         \/ \E t \in Threads : UseAfterFree(t)
         \/ UNCHANGED vars
  PROVE  Quiet
<1> USE DEF TypeOK, Quiet, Threads, Clients, Goto, On, Inside, Acquire, fields,
            memory, history
<1> Workers \cap Clients = {} /\ Main \in Clients
  BY PoolAssumption DEF PoolAssumption
<1>1. ASSUME NEW w \in Workers,
             WorkerLock(w) \/ WorkerWait(w) \/ WorkerExit(w) \/ SpuriousWakeup(w)
      PROVE  Quiet
  BY <1>1 DEF WorkerLock, WorkerWait, WorkerExit, SpuriousWakeup
<1>2. ASSUME NEW c \in Clients,
             \/ SubmitLock(c) \/ DestroyLock(c) \/ BeginDestroy(c) \/ Leave(c)
             \/ DestroyAgain(c) \/ Return(c)
      PROVE  Quiet
  BY <1>2 DEF SubmitLock, DestroyLock, BeginDestroy, Leave, DestroyAgain, Return
<1>3. ASSUME NEW c \in Clients, DestroyClose(c) \/ DestroyJoin(c)
      PROVE  Quiet
  BY <1>3 DEF DestroyClose, DestroyJoin, FreePool, BroadcastAndGoto, On, Waiting
<1>4. CASE MainStep
  <2>1. CASE SetUp \/ SetUpFails \/ CreateFails \/ FailLock
    BY <2>1 DEF SetUp, SetUpFails, CreateFails, FailLock
  <2>2. ASSUME NEW w \in Workers, CreateWorker(w)
        PROVE  Quiet
    BY <2>2 DEF CreateWorker
  <2>3. CASE FailClose \/ FailJoin
    BY <2>3 DEF FailClose, FailJoin, FreePool, BroadcastAndGoto, On, Waiting
  <2>4. QED BY <1>4, <2>1, <2>2, <2>3 DEF MainStep
<1>5. ASSUME NEW t \in Threads, UseAfterFree(t)
      PROVE  Quiet
  BY <1>5 DEF UseAfterFree, PoolPcs
<1>6. CASE UNCHANGED vars
  BY <1>6 DEF vars
<1>7. QED BY <1>1, <1>2, <1>3, <1>4, <1>5, <1>6

\* Dequeuing in thread_pool_worker preserves DataInv.
LEMMA DataTake ==
  ASSUME TypeOK, DataInv, NEW w \in Workers, WorkerTake(w)
  PROVE  DataInv'
<1> USE DEF DataInv
<1> DEFINE h == head
<1> USE DEF WorkerTake, Inside, Goto, On, memory
<1>1. /\ started < Len(accepted) /\ started' = started + 1 /\ accepted' = accepted
      /\ h = accepted[started + 1] /\ h \in Tasks
      /\ accepted \in Seq(Tasks) /\ started \in Nat
  BY DEF TypeOK, QueueIsFifo
<1>2. /\ Queued' = Queued \ {h} /\ Dequeued' = Dequeued \cup {h}
      /\ Submitted' = Submitted
      /\ h \in Queued /\ h \notin Dequeued
  BY <1>1 DEF QueueIsFifo, Queued, Dequeued, Submitted
<1>3. /\ w \in Threads /\ cur[w] = NULL /\ cur'[w] = h /\ pc'[w] = "run"
      /\ \A t \in Threads \ {w} : cur'[t] = cur[t] /\ pc'[t] = pc[t]
      /\ h # NULL
  BY PoolAssumption DEF PoolAssumption, TypeOK, Threads
<1>4. Held' = Held \cup {h} /\ h \notin Held
  BY <1>2, <1>3 DEF Held, MemoryOwned
<1>5. HeldAt("run")' = HeldAt("run") \cup {h}
  BY <1>3 DEF HeldAt, At
<1>6. HeldAt("free")' = HeldAt("free") /\ HeldAt("node")' = HeldAt("node")
  BY <1>3 DEF HeldAt, At
<1>7. QueueIsFifo'
  <2>1. \A i \in 1..Len(accepted) : accepted[i] \in Tasks /\ accepted[i] # NULL
    BY <1>1, PoolAssumption DEF PoolAssumption
  <2>2. CASE started + 1 = Len(accepted)
    BY <1>1, <2>2 DEF QueueIsFifo
  <2>3. CASE started + 1 < Len(accepted)
    <3>1. nxt[h] = accepted[started + 2] /\ nxt[h] # NULL
      BY <1>1, <2>1, <2>3 DEF QueueIsFifo
    <3>2. QED BY <1>1, <2>3, <3>1 DEF QueueIsFifo
  <2>4. QED BY <1>1, <2>2, <2>3
<1>8. ExactlyOnce'
  <2>1. done' = Dequeued' \ HeldAt("run")'
    BY <1>2, <1>5 DEF ExactlyOnce
  <2>2. HeldAt("run")' \cup HeldAt("free")' \subseteq Dequeued'
    BY <1>2, <1>5, <1>6 DEF ExactlyOnce
  <2>3. \A t, u \in Threads : t # u /\ cur'[t] # NULL => cur'[t] # cur'[u]
    BY <1>3, <1>4 DEF ExactlyOnce, Held
  <2>4. QED BY <2>1, <2>2, <2>3 DEF ExactlyOnce
<1>9. MemoryOwned'
  <2>1. h \notin HeldAt("node") /\ h \notin HeldAt("free")
    BY <1>3, <1>4 DEF HeldAt, At, Held
  <2>2. QED BY <1>2, <1>4, <1>6, <2>1 DEF MemoryOwned
<1>10. ClientsOwnTasks'
  <2>1. \A c \in Clients : c \in Threads /\ c # w
    BY PoolAssumption DEF PoolAssumption, Threads
  <2>2. QED BY <1>2, <1>3, <2>1 DEF ClientsOwnTasks
<1>11. QED BY <1>7, <1>8, <1>9, <1>10

\* Running a task, which frees its argument, preserves DataInv.
LEMMA DataRun ==
  ASSUME TypeOK, DataInv, NEW w \in Workers, WorkerRun(w)
  PROVE  DataInv'
<1> USE DEF DataInv
<1> DEFINE h == cur[w]
<1> USE DEF WorkerRun, Goto, On, fields
<1>1. Queued' = Queued /\ Dequeued' = Dequeued /\ Submitted' = Submitted /\ Held' = Held
  BY DEF Queued, Dequeued, Submitted, Held
<1>2. /\ w \in Threads /\ h # NULL /\ pc'[w] = "free"
      /\ \A t \in Threads \ {w} : pc'[t] = pc[t]
      /\ h \in HeldAt("run") /\ h \in Dequeued /\ h \in Held
  BY PoolAssumption DEF PoolAssumption, TypeOK, Threads, HeldAt, At, ExactlyOnce, Held
<1>3. /\ HeldAt("run")' = HeldAt("run") \ {h}
      /\ HeldAt("free")' = HeldAt("free") \cup {h}
      /\ HeldAt("node")' = HeldAt("node")
  BY <1>2 DEF HeldAt, At, ExactlyOnce
<1>4. QueueIsFifo'
  BY DEF QueueIsFifo
<1>5. ExactlyOnce'
  BY SMTT(20), <1>1, <1>2, <1>3 DEF ExactlyOnce
<1>6. MemoryOwned'
  BY <1>1, <1>2, <1>3 DEF MemoryOwned
<1>7. ClientsOwnTasks'
  <2>1. \A c \in Clients : c \in Threads /\ c # w
    BY PoolAssumption DEF PoolAssumption, Threads
  <2>2. QED BY <1>1, <1>2, <2>1 DEF ClientsOwnTasks
<1>8. QED BY <1>4, <1>5, <1>6, <1>7

\* Freeing the node of a finished task preserves DataInv.
LEMMA DataFree ==
  ASSUME TypeOK, DataInv, NEW w \in Workers, WorkerFree(w)
  PROVE  DataInv'
<1> USE DEF DataInv
<1> DEFINE h == cur[w]
<1> USE DEF WorkerFree, Goto, On, fields, history
<1>1. Queued' = Queued /\ Dequeued' = Dequeued /\ Submitted' = Submitted
  BY DEF Queued, Dequeued, Submitted
<1>2. /\ w \in Threads /\ h # NULL /\ pc'[w] = "lock" /\ cur'[w] = NULL
      /\ \A t \in Threads \ {w} : pc'[t] = pc[t] /\ cur'[t] = cur[t]
      /\ h \in HeldAt("free") /\ h \in Held
  BY PoolAssumption DEF PoolAssumption, TypeOK, Threads, HeldAt, At, Held
<1>3. /\ HeldAt("run")' = HeldAt("run") /\ h \notin HeldAt("run")
      /\ HeldAt("free")' = HeldAt("free") \ {h}
      /\ HeldAt("node")' = HeldAt("node") /\ h \notin HeldAt("node")
  BY SMTT(20), <1>2 DEF HeldAt, At, ExactlyOnce
<1>4. Held' = Held \ {h}
  <2>1. \A t \in Threads \ {w} : cur[t] # h
    BY <1>2 DEF ExactlyOnce
  <2> HIDE DEF WorkerFree, DataInv
  <2>2. QED BY <1>2, <2>1 DEF Held
<1>5. QueueIsFifo'
  BY DEF QueueIsFifo
<1>6. ExactlyOnce'
  BY <1>1, <1>2, <1>3 DEF ExactlyOnce
<1>7. MemoryOwned'
  BY <1>1, <1>2, <1>3, <1>4 DEF MemoryOwned
<1>8. ClientsOwnTasks'
  <2>1. \A c \in Clients : c \in Threads /\ c # w
    BY PoolAssumption DEF PoolAssumption, Threads
  <2>2. QED BY <1>1, <1>2, <2>1 DEF ClientsOwnTasks
<1>9. QED BY <1>5, <1>6, <1>7, <1>8

\* Allocating the argument of a task, or failing to, preserves DataInv.
LEMMA DataNewArg ==
  ASSUME TypeOK, DataInv, NEW c \in Clients, NEW t \in Tasks,
         NewArg(c, t) \/ NewArgFails(c, t)
  PROVE  DataInv'
<1> USE DEF DataInv
<1> USE DEF Goto, On, fields, history, memory
<1> c \in Threads
  BY DEF Threads
<1>1. CASE NewArgFails(c, t)
  <2> USE <1>1 DEF NewArgFails
  <2>1. /\ Queued' = Queued /\ Dequeued' = Dequeued /\ Submitted' = Submitted
        /\ Held' = Held
        /\ \A l \in {"run", "free", "node"} : HeldAt(l)' = HeldAt(l)
    BY DEF Queued, Dequeued, Submitted, Held, HeldAt, At
  <2>2. \A d \in Clients : todo'[d] \subseteq todo[d]
    BY DEF TypeOK
  <2>3. QED BY <2>1, <2>2
          DEF QueueIsFifo, ExactlyOnce, MemoryOwned, ClientsOwnTasks
<1>2. CASE NewArg(c, t)
  <2> USE <1>2 DEF NewArg
  <2>1. Queued' = Queued /\ Dequeued' = Dequeued /\ Submitted' = Submitted
    BY DEF Queued, Dequeued, Submitted
  <2>2. /\ t # NULL /\ cur[c] = NULL /\ cur'[c] = t /\ pc'[c] = "node"
        /\ \A u \in Threads \ {c} : pc'[u] = pc[u] /\ cur'[u] = cur[u]
    BY PoolAssumption DEF PoolAssumption, TypeOK
  <2>3. /\ HeldAt("run")' = HeldAt("run") /\ HeldAt("free")' = HeldAt("free")
        /\ HeldAt("node")' = HeldAt("node") \cup {t} /\ Held' = Held \cup {t}
    BY <2>2 DEF Held, HeldAt, At
  <2>4. t \in TasksOf[c] /\ t \notin Submitted
    BY DEF ClientsOwnTasks
  <2>5. t \notin Queued /\ t \notin Dequeued
    BY <2>4 DEF Queued, Dequeued, Submitted, QueueIsFifo, TypeOK
  <2>6. t \notin Held
    <3> SUFFICES ASSUME NEW u \in Threads, cur[u] = t PROVE FALSE
      BY DEF Held
    <3>1. CASE u \in Workers
      <4>1. u \in At("run") \cup At("free")
        BY <2>2, <3>1 DEF At, TypeOK
      <4>2. QED BY <2>5, <4>1 DEF ExactlyOnce, HeldAt
    <3>2. CASE u \in Clients
      BY <2>2, <2>4, <3>2, PoolAssumption DEF PoolAssumption, ClientsOwnTasks
    <3>3. QED BY <3>1, <3>2 DEF Threads
  <2>7. QueueIsFifo'
    BY DEF QueueIsFifo
  <2>8. ExactlyOnce'
    BY <2>1, <2>2, <2>3, <2>6 DEF ExactlyOnce, Held
  <2>9. MemoryOwned'
    <3>1. t \notin HeldAt("free")
      BY <2>2, <2>6 DEF HeldAt, At, Held
    <3>2. QED BY <2>1, <2>3, <2>5, <2>6, <3>1 DEF MemoryOwned
  <2>10. ClientsOwnTasks'
    <3>1. \A d \in Clients \ {c} : todo'[d] = todo[d] /\ d \in Threads
      BY DEF TypeOK, Threads
    <3>2. todo'[c] = todo[c] \ {t}
      BY DEF TypeOK
    <3>3. QED BY <2>1, <2>2, <2>4, <3>1, <3>2 DEF ClientsOwnTasks
  <2>11. QED BY <2>7, <2>8, <2>9, <2>10
<1>3. QED BY <1>1, <1>2

\* Allocating the node in thread_pool_submit preserves DataInv.
LEMMA DataNewNode ==
  ASSUME TypeOK, DataInv, NEW c \in Clients, NewNode(c)
  PROVE  DataInv'
<1> USE DEF DataInv
<1> DEFINE h == cur[c]
<1> USE DEF NewNode, Goto, On, history
<1>1. /\ Queued' = Queued /\ Dequeued' = Dequeued /\ Submitted' = Submitted
      /\ Held' = Held
  BY DEF Queued, Dequeued, Submitted, Held
<1>2. /\ c \in Threads /\ h \in Tasks /\ h # NULL /\ pc'[c] = "sub_lock"
      /\ \A u \in Threads \ {c} : pc'[u] = pc[u]
      /\ h \in Held /\ h \in HeldAt("node")
  BY PoolAssumption DEF PoolAssumption, TypeOK, Threads, Held, HeldAt, At
<1>3. /\ HeldAt("run")' = HeldAt("run") /\ HeldAt("free")' = HeldAt("free")
      /\ HeldAt("node")' = HeldAt("node") \ {h}
  BY <1>2 DEF HeldAt, At, ExactlyOnce
<1>4. h \notin Submitted
  BY <1>2 DEF ClientsOwnTasks
<1>5. QueueIsFifo'
  <2>1. \A i \in 1..Len(accepted) : nxt'[accepted[i]] = nxt[accepted[i]]
    BY <1>4 DEF TypeOK, Submitted
  <2>2. UNCHANGED <<head, tail, accepted, started>>
    OBVIOUS
  <2>3. accepted \in Seq(Tasks) /\ started \in Nat
    BY DEF TypeOK
  <2> HIDE DEF NewNode
  <2>4. started < Len(accepted) => nxt'[tail] = nxt[tail]
    BY <2>1, <2>3 DEF QueueIsFifo
  <2>5. QED BY <2>1, <2>2, <2>3, <2>4 DEF QueueIsFifo
<1>6. ExactlyOnce'
  BY <1>1, <1>3 DEF ExactlyOnce
<1>7. MemoryOwned'
  <2>1. nodes' = nodes \cup {h} /\ args' = args
    OBVIOUS
  <2>2. MemoryOwned
    OBVIOUS
  <2> HIDE DEF NewNode, DataInv
  <2>3. QED BY <1>1, <1>2, <1>3, <2>1, <2>2 DEF MemoryOwned
<1>8. ClientsOwnTasks'
  <2>1. \A d \in Clients \ {c} : d \in Threads /\ cur[d] \in Tasks \cup {NULL}
    BY DEF Threads, TypeOK
  <2>2. nxt'[h] = NULL
    BY <1>2 DEF TypeOK
  <2>3. \A d \in Clients \ {c} : nxt[cur[d]] = NULL /\ cur[d] # NULL => nxt'[cur[d]] = NULL
    BY <1>2, <2>1 DEF TypeOK
  <2>4. \A d \in Clients : pc[d] \in {"sub_lock", "sub_body"} => cur[d] # NULL
    BY DEF TypeOK
  <2>5. QED BY <1>1, <1>2, <2>1, <2>2, <2>3, <2>4 DEF ClientsOwnTasks
<1>9. QED BY <1>5, <1>6, <1>7, <1>8

\* The two ways in which a submission is given up preserve DataInv.
LEMMA DataGiveUp ==
  ASSUME TypeOK, DataInv, NEW c \in Clients, NewNodeFails(c) \/ SubmitRejected(c)
  PROVE  DataInv'
<1> USE DEF DataInv
<1> DEFINE h == cur[c]
<1> USE DEF NewNodeFails, SubmitRejected, Inside, Goto, On, fields, history
<1>1. Queued' = Queued /\ Dequeued' = Dequeued /\ Submitted' = Submitted
  BY DEF Queued, Dequeued, Submitted
<1>2. /\ c \in Threads /\ h # NULL /\ pc'[c] = "arg" /\ cur'[c] = NULL
      /\ \A u \in Threads \ {c} : pc'[u] = pc[u] /\ cur'[u] = cur[u]
      /\ h \in Held
  BY DEF TypeOK, Threads, Held
<1>3. /\ HeldAt("run")' = HeldAt("run") /\ HeldAt("free")' = HeldAt("free")
      /\ HeldAt("node")' = HeldAt("node") \ {h} /\ h \notin HeldAt("free")
      /\ Held' = Held \ {h}
  BY <1>2 DEF HeldAt, At, Held, ExactlyOnce
<1>4. QueueIsFifo'
  BY DEF QueueIsFifo
<1>5. ExactlyOnce'
  BY <1>1, <1>2, <1>3 DEF ExactlyOnce
<1>6. MemoryOwned'
  <2>1. args' = args \ {h} /\ (nodes' = nodes \ {h} \/ (nodes' = nodes /\ h \in HeldAt("node")))
    BY <1>2 DEF HeldAt, At
  <2>2. QED BY <1>1, <1>2, <1>3, <2>1 DEF MemoryOwned
<1>7. ClientsOwnTasks'
  BY <1>1, <1>2 DEF ClientsOwnTasks, Threads
<1>8. QED BY <1>4, <1>5, <1>6, <1>7

\* Insertion at the tail in thread_pool_submit preserves DataInv.
LEMMA DataSubmit ==
  ASSUME TypeOK, DataInv, NEW c \in Clients, SubmitAccepted(c)
  PROVE  DataInv'
<1> USE DEF DataInv
<1> DEFINE h == cur[c]
           n == Len(accepted)
<1>a. /\ pc[c] = "sub_body" /\ SignalAndGoto(c, "arg")
      /\ cur' = [cur EXCEPT ![c] = NULL]
      /\ UNCHANGED <<nodes, args, todo, done>>
  BY DEF SubmitAccepted, Inside, On, memory
<1>b. /\ head' = IF head = NULL THEN h ELSE head
      /\ tail' = h
      /\ nxt' = IF head = NULL THEN nxt ELSE [nxt EXCEPT ![tail] = h]
      /\ accepted' = Append(accepted, h) /\ started' = started
  BY DEF SubmitAccepted
<1>1. /\ c \in Threads /\ h # NULL /\ h \in Tasks /\ h \in Held /\ cur'[c] = NULL
      /\ \A u \in Threads \ {c} : cur'[u] = cur[u]
      /\ accepted \in Seq(Tasks) /\ n \in Nat /\ started \in Nat /\ started <= n
      /\ nxt \in [Tasks -> Tasks \cup {NULL}]
  BY <1>a DEF TypeOK, Threads, Held, QueueIsFifo
<1>2. /\ accepted' \in Seq(Tasks) /\ Len(accepted') = n + 1 /\ accepted'[n + 1] = h
      /\ \A i \in 1..n : accepted'[i] = accepted[i]
      /\ started' = started
  BY <1>1, <1>b
<1>3. /\ Queued' = Queued \cup {h} /\ Dequeued' = Dequeued
      /\ Submitted' = Submitted \cup {h}
  <2>1. /\ (started' + 1)..Len(accepted') = ((started + 1)..n) \cup {n + 1}
        /\ 1..Len(accepted') = (1..n) \cup {n + 1}
        /\ (1..started) \subseteq 1..n /\ ((started + 1)..n) \subseteq 1..n
    BY <1>1, <1>2
  <2>2. Queued' = Queued \cup {h}
    BY <1>2, <2>1 DEF Queued
  <2>3. Dequeued' = Dequeued
    BY <1>2, <2>1 DEF Dequeued
  <2>4. Submitted' = Submitted \cup {h}
    BY <1>2, <2>1 DEF Submitted
  <2>5. QED BY <2>2, <2>3, <2>4
<1>4. /\ pc'[c] = "arg"
      /\ \A u \in Threads \ {c} :
           pc'[u] = pc[u] \/ (pc[u] = "wait" /\ pc'[u] = "lock")
  BY <1>1, <1>a DEF SignalAndGoto, On, Goto, On, Waiting, TypeOK
<1>5. \A l \in {"run", "free", "node"} : HeldAt(l)' = HeldAt(l) /\ h \notin HeldAt(l)
  <2> SUFFICES ASSUME NEW l \in {"run", "free", "node"}
               PROVE  HeldAt(l)' = HeldAt(l) /\ h \notin HeldAt(l)
    OBVIOUS
  <2>1. At(l)' = At(l) /\ c \notin At(l)
    BY <1>1, <1>4, <1>a DEF At
  <2>2. \A t \in At(l) : t \in Threads /\ cur'[t] = cur[t] /\ cur[t] # h
    BY <1>1, <2>1 DEF At, ExactlyOnce
  <2>3. QED BY <2>1, <2>2 DEF HeldAt
<1>6. Held' = Held \ {h}
  <2>1. \A u \in Threads \ {c} : cur[u] # h
    BY <1>1 DEF ExactlyOnce
  <2>2. QED BY <1>1, <2>1 DEF Held
<1>7. h \notin Submitted /\ nxt[h] = NULL
  BY <1>1, <1>a DEF ClientsOwnTasks
<1>8. QueueIsFifo'
  <2>1. \A i \in 1..n : accepted[i] # h /\ accepted[i] \in Tasks /\ accepted[i] # NULL
    BY <1>1, <1>7, PoolAssumption DEF Submitted, PoolAssumption
  <2>2. \A i, j \in 1..(n + 1) : accepted'[i] = accepted'[j] => i = j
    BY <1>1, <1>2, <2>1 DEF QueueIsFifo
  <2>3. CASE started = n
    <3>1. head' = h /\ tail' = h /\ nxt' = nxt
      BY <1>b, <2>3 DEF QueueIsFifo
    <3>2. QED BY <1>1, <1>2, <1>7, <2>2, <2>3, <3>1 DEF QueueIsFifo
  <2>4. CASE started < n
    <3>0. head = accepted[started + 1] /\ tail = accepted[n] /\ started + 1 \in 1..n
      BY <1>1, <2>4 DEF QueueIsFifo
    <3>1. /\ head' = accepted[started + 1] /\ tail' = h /\ tail = accepted[n]
          /\ nxt' = [nxt EXCEPT ![accepted[n]] = h]
      BY <1>b, <2>1, <3>0
    <3>2. /\ nxt'[h] = NULL /\ nxt'[accepted[n]] = h
          /\ \A i \in 1..(n - 1) : nxt'[accepted[i]] = nxt[accepted[i]]
      <4>1. \A i \in 1..(n - 1) : accepted[i] # accepted[n] /\ accepted[i] \in Tasks
        BY <1>1, <2>1, <3>0 DEF QueueIsFifo
      <4>2. accepted[n] \in Tasks /\ accepted[n] # h
        BY <1>1, <2>1, <2>4
      <4>3. QED BY <1>1, <1>7, <3>1, <4>1, <4>2
    <3>3. \A i \in (started + 1)..n : nxt'[accepted'[i]] = accepted'[i + 1]
      <4> SUFFICES ASSUME NEW i \in (started + 1)..n
                   PROVE  nxt'[accepted'[i]] = accepted'[i + 1]
        OBVIOUS
      <4>1. CASE i = n
        BY <1>1, <1>2, <2>4, <3>2, <4>1
      <4>2. CASE i < n
        <5>1. nxt[accepted[i]] = accepted[i + 1] /\ i \in 1..(n - 1)
          BY <1>1, <4>2 DEF QueueIsFifo
        <5>2. QED BY <1>1, <1>2, <3>2, <5>1
      <4>3. QED BY <1>1, <4>1, <4>2
    <3>4. /\ started' < Len(accepted') /\ Len(accepted') - 1 = n
          /\ head' = accepted'[started' + 1] /\ tail' = accepted'[Len(accepted')]
      BY <1>1, <1>2, <3>0, <3>1
    <3>5. \A i \in (started' + 1)..(Len(accepted') - 1) : nxt'[accepted'[i]] = accepted'[i + 1]
      BY <1>2, <3>3, <3>4
    <3>6. \A i, j \in 1..Len(accepted') : accepted'[i] = accepted'[j] => i = j
      BY <1>2, <2>2
    <3>7. started' <= Len(accepted') /\ started' # Len(accepted') /\ nxt'[tail'] = NULL
      BY <1>1, <1>2, <3>1, <3>2, <3>4
    <3>8. QED BY <3>4, <3>5, <3>6, <3>7 DEF QueueIsFifo
  <2>5. QED BY <1>1, <2>3, <2>4
<1>9. ExactlyOnce'
  <2>1. ExactlyOnce
    OBVIOUS
  <2>2. done' = done
    BY DEF SubmitAccepted
  <2> HIDE DEF DataInv
  <2>3. \A t, u \in Threads : t # u /\ cur'[t] # NULL => cur'[t] # cur'[u]
    BY <1>1, <2>1 DEF ExactlyOnce
  <2>4. QED BY <1>3, <1>5, <2>1, <2>2, <2>3 DEF ExactlyOnce
<1>10. MemoryOwned'
  <2>1. MemoryOwned
    OBVIOUS
  <2>2. nodes' = nodes /\ args' = args
    BY <1>a
  <2>3. HeldAt("node")' = HeldAt("node") /\ HeldAt("free")' = HeldAt("free")
    BY <1>5
  <2>4. h \in Held /\ h \notin HeldAt("node") /\ h \notin HeldAt("free")
    BY <1>1, <1>5
  <2> HIDE DEF DataInv
  <2>5. QED BY <1>3, <1>6, <2>1, <2>2, <2>3, <2>4 DEF MemoryOwned
<1>11. ClientsOwnTasks'
  <2>1. \A d \in Clients \ {c} :
          /\ d \in Threads /\ h \notin TasksOf[d]
          /\ pc'[d] \in {"sub_lock", "sub_body"} => pc[d] = pc'[d]
    <3>1. h \in TasksOf[c]
      BY <1>1 DEF ClientsOwnTasks
    <3>2. QED BY <1>4, <3>1, PoolAssumption DEF PoolAssumption, Threads
  <2>2. \A d \in Clients \ {c} :
          pc[d] \in {"sub_lock", "sub_body"} => nxt'[cur[d]] = NULL
    <3> SUFFICES ASSUME NEW d \in Clients \ {c}, pc[d] \in {"sub_lock", "sub_body"}
                 PROVE  nxt'[cur[d]] = NULL
      OBVIOUS
    <3>1. nxt[cur[d]] = NULL /\ cur[d] \in Tasks /\ cur[d] \notin Submitted
      BY <2>1 DEF ClientsOwnTasks, TypeOK
    <3>2. CASE head = NULL
      BY <1>b, <3>1, <3>2
    <3>3. CASE head # NULL
      <4>1. started < n /\ tail = accepted[n] /\ n \in 1..n
        BY <1>1, <3>3 DEF QueueIsFifo
      <4>2. tail \in Submitted
        BY <4>1 DEF Submitted
      <4>3. QED BY <1>1, <1>b, <3>1, <3>3, <4>2
    <3>4. QED BY <3>2, <3>3
  <2>3. QED BY SMTT(20), <1>1, <1>3, <1>4, <1>a, <2>1, <2>2 DEF ClientsOwnTasks
<1>12. QED BY <1>8, <1>9, <1>10, <1>11

\* Every step preserves DataInv.
LEMMA DataStep ==
  ASSUME TypeOK, DataInv, [Next]_vars
  PROVE  DataInv'
BY QuietSteps, DataQuiet, DataTake, DataRun, DataFree, DataNewArg, DataNewNode,
   DataGiveUp, DataSubmit DEF Next, WorkerStep, ClientStep, Terminated
=============================================================================
