--------------------------- MODULE ThreadPoolLife ---------------------------
(***************************************************************************)
(* Proofs about ThreadPool, continued: when workers, main and the pool's   *)
(* memory come and go.  IInv, the conjunction of TypeOK, DataInv and       *)
(* Lifecycle, is inductive; what main relies on follows from it.           *)
(***************************************************************************)
EXTENDS ThreadPoolData

(* The life of the pool                                                    *)

\* Lifecycle holds when main starts.
LEMMA LifecycleInit == Init => Lifecycle
BY PoolAssumption
   DEF PoolAssumption, Init, Lifecycle, Starting, PoolReady, Threads, Clients

\* The steps of thread_pool_worker preserve Lifecycle.
LEMMA LifecycleWorker ==
  ASSUME TypeOK, Lifecycle, NEW w \in Workers, WorkerStep(w) \/ SpuriousWakeup(w)
  PROVE  Lifecycle'
<1> USE DEF TypeOK, Lifecycle, Threads, Goto, On, Inside, Starting, Awake, PoolReady,
            AllJoined, fields, memory
<1> Workers \cap Clients = {} /\ Main \in Clients
  BY PoolAssumption DEF PoolAssumption, Clients
<1>1. CASE WorkerLock(w)
  BY <1>1 DEF WorkerLock, Acquire
<1>2. CASE WorkerWait(w)
  BY <1>2 DEF WorkerWait
<1>3. CASE WorkerExit(w)
  BY <1>3 DEF WorkerExit
<1>4. CASE WorkerTake(w)
  BY <1>4 DEF WorkerTake
<1>5. CASE WorkerRun(w)
  BY <1>5 DEF WorkerRun
<1>6. CASE WorkerFree(w)
  BY <1>6 DEF WorkerFree
<1>7. CASE SpuriousWakeup(w)
  BY <1>7 DEF SpuriousWakeup
<1>8. QED BY <1>1, <1>2, <1>3, <1>4, <1>5, <1>6, <1>7 DEF WorkerStep

\* The steps of the clients preserve Lifecycle.
LEMMA LifecycleClient ==
  ASSUME TypeOK, Lifecycle, NEW c \in Clients, ClientStep(c)
  PROVE  Lifecycle'
<1> USE DEF TypeOK, Lifecycle, Threads, Goto, On, Inside, Starting, Awake, PoolReady,
            AllJoined, fields, memory
<1> Workers \cap Clients = {} /\ Main \in Clients
  BY PoolAssumption DEF PoolAssumption, Clients
<1>1. ASSUME NEW t \in Tasks, NewArg(c, t) \/ NewArgFails(c, t)
      PROVE  Lifecycle'
  BY <1>1 DEF NewArg, NewArgFails
<1>2. CASE NewNode(c) \/ NewNodeFails(c)
  BY <1>2 DEF NewNode, NewNodeFails
<1>3. CASE SubmitLock(c) \/ DestroyLock(c)
  BY <1>3 DEF SubmitLock, DestroyLock, Acquire
<1>4. CASE SubmitRejected(c)
  BY <1>4 DEF SubmitRejected
<1>5. CASE SubmitAccepted(c)
  <2>1. /\ pc[c] = "sub_body" /\ PoolReady /\ ~shutdown /\ pool = "live"
        /\ shutdown' = shutdown /\ pool' = pool
    BY <1>5 DEF SubmitAccepted
  <2>2. /\ pc'[c] = "arg"
        /\ \A u \in Threads \ {c} :
             pc'[u] = pc[u] \/ (u \in Workers /\ pc[u] = "wait" /\ pc'[u] = "lock")
    BY <1>5 DEF SubmitAccepted, SignalAndGoto, Waiting
  <2>3. \E w \in Workers : pc'[w] \in Awake
    <3>1. CASE Waiting = {}
      <4>1. PICK w \in Workers : TRUE
        BY PoolAssumption DEF PoolAssumption
      <4>2. pc[w] \in Awake
        BY <2>1, <3>1 DEF Waiting, WorkerPcs
      <4>3. QED BY <2>2, <4>2
    <3>2. CASE Waiting # {}
      <4>1. PICK w \in Waiting : pc' = [pc EXCEPT ![c] = "arg", ![w] = "lock"]
        BY <1>5, <3>2 DEF SubmitAccepted, SignalAndGoto
      <4>2. QED BY <4>1 DEF Waiting
    <3>3. QED BY <3>1, <3>2
  <2>4. PoolReady'
    BY <2>1, <2>2
  <2>5. QED BY <2>1, <2>2, <2>3, <2>4
<1>6. CASE BeginDestroy(c) \/ Leave(c) \/ DestroyAgain(c) \/ Return(c)
  BY <1>6 DEF BeginDestroy, Leave, DestroyAgain, Return
<1>7. CASE DestroyClose(c)
  BY <1>7 DEF DestroyClose, BroadcastAndGoto, On, Waiting
<1>8. CASE DestroyJoin(c)
  BY <1>8 DEF DestroyJoin, FreePool
<1>9. QED BY <1>1, <1>2, <1>3, <1>4, <1>5, <1>6, <1>7, <1>8 DEF ClientStep

\* The set-up of the pool, and its failure paths, preserve Lifecycle.
LEMMA LifecycleMain ==
  ASSUME TypeOK, Lifecycle, MainStep
  PROVE  Lifecycle'
<1> USE DEF TypeOK, Lifecycle, Threads, Goto, On, Inside, Starting, Awake, PoolReady,
            AllJoined, fields, memory
<1> Workers \cap Clients = {} /\ Main \in Clients
  BY PoolAssumption DEF PoolAssumption, Clients
<1>1. CASE SetUp \/ SetUpFails \/ CreateFails
  BY <1>1, PoolAssumption DEF SetUp, SetUpFails, CreateFails, PoolAssumption
<1>2. ASSUME NEW w \in Workers, CreateWorker(w)
      PROVE  Lifecycle'
  BY <1>2 DEF CreateWorker
<1>3. CASE FailLock
  BY <1>3 DEF FailLock, Acquire
<1>4. CASE FailClose
  BY <1>4 DEF FailClose, BroadcastAndGoto, On, Waiting
<1>5. CASE FailJoin
  BY <1>5 DEF FailJoin, FreePool
<1>6. QED BY <1>1, <1>2, <1>3, <1>4, <1>5 DEF MainStep

\* Every step preserves Lifecycle.
LEMMA LifecycleStep ==
  ASSUME TypeOK, Lifecycle, [Next]_vars
  PROVE  Lifecycle'
<1>1. ASSUME NEW t \in Threads, UseAfterFree(t)
      PROVE  Lifecycle'
  <2>1. t \in Clients
    BY <1>1 DEF UseAfterFree, Lifecycle, AllJoined, PoolPcs, Threads
  <2>2. QED BY <1>1, <2>1, PoolAssumption
          DEF UseAfterFree, PoolAssumption, TypeOK, Lifecycle, Threads, Clients,
              Goto, On, Starting, PoolReady, AllJoined, fields, memory
<1>2. CASE UNCHANGED vars
  BY <1>2 DEF Lifecycle, PoolReady, AllJoined, vars, fields, memory
<1>3. QED BY <1>1, <1>2, LifecycleWorker, LifecycleClient, LifecycleMain
        DEF Next, Terminated

\* The inductive invariant.
IInv == TypeOK /\ DataInv /\ Lifecycle

\* The inductive invariant holds throughout.
THEOREM InductiveInvariant == Spec => []IInv
<1>1. Init => IInv
  BY TypeInit, DataInit, LifecycleInit DEF IInv
<1>2. IInv /\ [Next]_vars => IInv'
  BY TypeStep, DataStep, LifecycleStep DEF IInv
<1>3. QED BY <1>1, <1>2, PTL DEF Spec

\* The list of thread_pool_submit and thread_pool_worker is the FIFO queue of
\* the accepted tasks, every task is run once, every allocation has an owner
\* that will free it, and the pool outlives its users.
THEOREM PoolCorrect == Spec => []PoolInv
<1>1. IInv => PoolInv
  BY DEF IInv, DataInv, PoolInv
<1>2. QED BY <1>1, InductiveInvariant, PTL

\* With all workers gone, nothing is queued and nothing is running.
LEMMA JoinedMeansDrained ==
  ASSUME IInv, AllJoined
  PROVE  started = Len(accepted) /\ Queued = {} /\ done = Submitted
<1>1. head = NULL
  BY DEF IInv, Lifecycle, AllJoined, Awake
<1>2. \A i \in 1..Len(accepted) : accepted[i] # NULL
  BY PoolAssumption DEF PoolAssumption, IInv, TypeOK
<1>3. started = Len(accepted)
  BY <1>1, <1>2 DEF IInv, DataInv, QueueIsFifo, TypeOK
<1>4. HeldAt("run") = {}
  BY DEF IInv, TypeOK, AllJoined, HeldAt, At, Threads, ClientPcs
<1>5. QED BY <1>3, <1>4 DEF IInv, TypeOK, DataInv, ExactlyOnce, Queued, Dequeued, Submitted

\* thread_pool_destroy frees the pool only when every accepted task has run
\* and every worker has left.
THEOREM DrainedBeforeRelease == Spec => []ReleasedWhenDrained
<1>1. IInv => ReleasedWhenDrained
  BY JoinedMeansDrained DEF IInv, Lifecycle, ReleasedWhenDrained
<1>2. QED BY <1>1, InductiveInvariant, PTL
-----------------------------------------------------------------------------
(* The program's own use: main is the only client                          *)

\* Where main is when the pool does not exist, shuts down, or is gone.
SoleClient ==
    /\ pc[Main] # "ub"
    /\ pool = "unset" => /\ pc[Main] \in {"setup", "return", "stop"}
                         /\ accepted = <<>>
                         /\ \A w \in Workers : pc[w] = "unborn"
    /\ shutdown => pc[Main] \in {"fail_join", "join", "return", "stop"}
    /\ pool = "freed" <=> pool # "unset" /\ pc[Main] \in {"return", "stop"}

\* Every step of the program in which only main uses the pool preserves
\* SoleClient.
LEMMA SoleClientStep ==
  ASSUME Others = {}, IInv, SoleClient, [Next]_vars
  PROVE  SoleClient'
<1> USE DEF IInv, TypeOK, SoleClient, Threads, Clients, Goto, On, Inside, fields, memory, history
<1> Main \notin Workers
  BY PoolAssumption DEF PoolAssumption
<1>1. ASSUME NEW w \in Workers, WorkerStep(w) \/ SpuriousWakeup(w)
      PROVE  SoleClient'
  BY <1>1 DEF WorkerStep, WorkerLock, Acquire, WorkerWait, WorkerExit, WorkerTake,
              WorkerRun, WorkerFree, SpuriousWakeup
<1>2. CASE ClientStep(Main)
  <2> PoolReady => pool # "unset"
    BY PoolAssumption DEF PoolAssumption, PoolReady
  <2>1. ASSUME NEW t \in Tasks, NewArg(Main, t) \/ NewArgFails(Main, t)
        PROVE  SoleClient'
    BY <2>1 DEF NewArg, NewArgFails
  <2>2. CASE NewNode(Main) \/ NewNodeFails(Main) \/ SubmitLock(Main) \/ DestroyLock(Main)
    BY <2>2 DEF NewNode, NewNodeFails, SubmitLock, DestroyLock, Acquire
  <2>3. CASE SubmitRejected(Main) \/ DestroyAgain(Main)
    BY <2>3 DEF SubmitRejected, DestroyAgain
  <2>4. CASE SubmitAccepted(Main)
    BY <2>4 DEF SubmitAccepted, SignalAndGoto, On, Waiting
  <2>5. CASE BeginDestroy(Main) \/ Leave(Main) \/ Return(Main)
    BY <2>5 DEF BeginDestroy, Leave, Return
  <2>6. CASE DestroyClose(Main) \/ DestroyJoin(Main)
    BY <2>6 DEF DestroyClose, DestroyJoin, FreePool, BroadcastAndGoto, On, Waiting
  <2>7. QED BY <1>2, <2>1, <2>2, <2>3, <2>4, <2>5, <2>6 DEF ClientStep
<1>3. CASE MainStep
  <2>1. CASE SetUp \/ SetUpFails \/ CreateFails \/ FailLock
    BY <2>1 DEF SetUp, SetUpFails, CreateFails, FailLock, Acquire, Lifecycle
  <2>2. ASSUME NEW w \in Workers, CreateWorker(w)
        PROVE  SoleClient'
    BY <2>2 DEF CreateWorker
  <2>3. CASE FailClose \/ FailJoin
    BY <2>3 DEF FailClose, FailJoin, FreePool, BroadcastAndGoto, On, Waiting
  <2>4. QED BY <1>3, <2>1, <2>2, <2>3 DEF MainStep
<1>4. ASSUME NEW t \in Threads, UseAfterFree(t)
      PROVE  SoleClient'
  BY <1>4 DEF UseAfterFree, PoolPcs, Lifecycle, AllJoined
<1>5. CASE UNCHANGED vars
  BY <1>5 DEF vars
<1>6. QED BY <1>1, <1>2, <1>3, <1>4, <1>5 DEF Next, Terminated

\* The program as it stands, in which only main uses the pool, never touches
\* freed memory, and main returns with all accepted tasks run and everything
\* given back.
THEOREM ProgramIsClean ==
  ASSUME Others = {}
  PROVE  Spec => [](NoUseAfterFree /\ CleanExit)
<1>1. Init => SoleClient
  BY PoolAssumption DEF PoolAssumption, Init, SoleClient, Threads, Clients
<1>2. IInv /\ SoleClient => NoUseAfterFree
  BY DEF IInv, Lifecycle, SoleClient, NoUseAfterFree, At, Threads, Clients
<1>3. IInv /\ SoleClient => CleanExit
  <2> SUFFICES ASSUME IInv, SoleClient, pc[Main] = "stop"
               PROVE  /\ pool # "live" /\ nodes = {} /\ args = {}
                      /\ done = Submitted
    BY DEF CleanExit
  <2>1. pool # "live" /\ AllJoined
    BY DEF IInv, TypeOK, Lifecycle, SoleClient, AllJoined
  <2>2. Queued = {} /\ done = Submitted
    BY <2>1, JoinedMeansDrained
  <2>3. Held = {}
    BY <2>1 DEF IInv, TypeOK, Held, AllJoined, Threads, Clients
  <2>4. QED BY <2>1, <2>2, <2>3 DEF IInv, DataInv, MemoryOwned
<1>4. IInv /\ SoleClient /\ [Next]_vars => SoleClient'
  BY SoleClientStep
<1>5. QED BY <1>1, <1>2, <1>3, <1>4, InductiveInvariant, PTL DEF Spec

\* In the program as it stands no worker ever uses a pool that main has freed.
THEOREM ProgramIsSafe ==
  ASSUME Others = {}
  PROVE  Spec => []NoUseAfterFree
BY ProgramIsClean, PTL
=============================================================================
