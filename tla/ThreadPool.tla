------------------------------ MODULE ThreadPool ------------------------------
(***************************************************************************)
(* The thread pool of os_lab2/thread_pooling.cpp.  Worker threads run      *)
(* thread_pool_worker; the main thread creates them, submits tasks with    *)
(* thread_pool_submit and ends with thread_pool_destroy.  Further client   *)
(* threads (Others, empty in the program as it stands) may call the same   *)
(* two functions, which is what their comments prepare for.                *)
(*                                                                         *)
(* A step is the code between two points at which another thread can       *)
(* interfere: taking the mutex, the body of a critical section up to its   *)
(* unlock or wait, the task function, and each allocation.  pc[t] says     *)
(* where thread t is.  A task's node and its argument carry the task's     *)
(* name, so that the list pointers head, tail and nxt range over Tasks.    *)
(***************************************************************************)
EXTENDS Naturals, Sequences, FiniteSets

CONSTANTS
    Workers,        \* the pool's threads; thread_count is their number
    Main,           \* the thread that runs main()
    Others,         \* further client threads
    Tasks,          \* task nodes
    TasksOf,        \* TasksOf[c]: the tasks that client c will try to submit
    NULL,           \* the null pointer, and the absence of a lock holder
    MaxSpurious     \* bound on the spurious wakeups of one behaviour

Clients == {Main} \cup Others
Threads == Workers \cup Clients

ASSUME PoolAssumption ==
    /\ Workers # {} /\ IsFiniteSet(Workers)
    /\ Main \notin Others
    /\ Workers \cap Clients = {}
    /\ NULL \notin Tasks \cup Threads
    /\ TasksOf \in [Clients -> SUBSET Tasks]
    /\ \A c, d \in Clients : c # d => TasksOf[c] \cap TasksOf[d] = {}
    /\ MaxSpurious \in Nat

VARIABLES
    lock,           \* pool->lock: the thread that holds it, or NULL
    shutdown,       \* pool->shutdown
    head, tail,     \* pool->task_queue_head, pool->task_queue_tail
    nxt,            \* nxt[t]: the next pointer in the node of t
    pool,           \* the memory of the pool: "unset", "live" or "freed"
    nodes, args,    \* the nodes and arguments allocated and not yet freed
    pc,             \* pc[t]: where thread t is
    cur,            \* cur[t]: the local variable task (or arg) of thread t
    todo,           \* todo[c]: the tasks client c has not tried yet
    spurious,       \* spurious wakeups so far
    accepted,       \* history: the tasks enqueued, in order
    started,        \* history: how many of them have been dequeued
    done            \* history: the tasks whose function has returned

fields == <<shutdown, head, tail, nxt>>
memory == <<pool, nodes, args>>
history == <<accepted, started, done>>
vars == <<lock, fields, memory, pc, cur, todo, spurious, history>>

WorkerPcs == {"unborn", "lock", "check", "wait", "run", "free", "exited"}
ClientPcs == {"setup", "create", "fail_lock", "fail_body", "fail_join",
              "arg", "node", "sub_lock", "sub_body",
              "des_lock", "des_body", "join", "return", "stop"}

\* The places where a thread is about to use the pool's memory.
PoolPcs == {"lock", "check", "wait", "sub_lock", "sub_body",
            "des_lock", "des_body", "fail_lock", "fail_body"}

Init ==
    /\ lock = NULL
    /\ shutdown = FALSE
    /\ head = NULL
    /\ tail = NULL
    /\ nxt = [t \in Tasks |-> NULL]
    /\ pool = "unset"
    /\ nodes = {}
    /\ args = {}
    /\ pc = [t \in Threads |-> IF t \in Workers THEN "unborn"
                               ELSE IF t = Main THEN "setup" ELSE "arg"]
    /\ cur = [t \in Threads |-> NULL]
    /\ todo = TasksOf
    /\ spurious = 0
    /\ accepted = <<>>
    /\ started = 0
    /\ done = {}
-----------------------------------------------------------------------------
\* When main returns, exit() ends the process and all its threads; after a
\* use of freed memory anything may happen, and the model stops.
Exited ==
    \/ pc[Main] = "stop"
    \/ \E t \in Threads : pc[t] = "ub"

\* Thread t is at l, in a process that is still running.
On(t, l) == pc[t] = l /\ ~Exited

Goto(t, l) == pc' = [pc EXCEPT ![t] = l]

\* pthread_mutex_lock: blocks until nobody holds the mutex.
Acquire(t, from, to) ==
    /\ On(t, from)
    /\ pool = "live"
    /\ lock = NULL
    /\ lock' = t
    /\ Goto(t, to)
    /\ UNCHANGED <<fields, memory, cur, todo, spurious, history>>

\* A thread that holds the mutex is at the body of a critical section.
Inside(t, at) ==
    /\ On(t, at)
    /\ pool = "live"
    /\ lock = t

Waiting == {w \in Workers : pc[w] = "wait"}

\* pthread_cond_signal by t, which goes on to l: one waiter, if there is any,
\* is on its way to the mutex.
SignalAndGoto(t, l) ==
    \/ Waiting = {} /\ Goto(t, l)
    \/ \E w \in Waiting : pc' = [pc EXCEPT ![t] = l, ![w] = "lock"]

\* pthread_cond_broadcast by t, which goes on to l.
BroadcastAndGoto(t, l) ==
    pc' = [u \in Threads |-> IF u = t THEN l
                             ELSE IF u \in Waiting THEN "lock" ELSE pc[u]]
-----------------------------------------------------------------------------
(* thread_pool_worker                                                      *)

WorkerLock(w) == Acquire(w, "lock", "check")

\* Mutant: a loop that lets go of the lock whether or not there is a task.
WorkerHesitates(w) ==
    /\ Inside(w, "check")
    /\ lock' = NULL
    /\ Goto(w, "lock")
    /\ UNCHANGED <<fields, memory, cur, todo, spurious, history>>

\* Mutant: a loop that polls the queue and never looks at shutdown.
WorkerPolls(w) ==
    /\ Inside(w, "check")
    /\ head = NULL
    /\ lock' = NULL
    /\ Goto(w, "lock")
    /\ UNCHANGED <<fields, memory, cur, todo, spurious, history>>

\* The while loop around pthread_cond_wait, which releases the mutex and
\* blocks in one step.
WorkerWait(w) ==
    /\ Inside(w, "check")
    /\ head = NULL /\ ~shutdown
    /\ lock' = NULL
    /\ Goto(w, "wait")
    /\ UNCHANGED <<fields, memory, cur, todo, spurious, history>>

\* pthread_cond_wait may return without a signal.
SpuriousWakeup(w) ==
    /\ On(w, "wait")
    /\ spurious < MaxSpurious
    /\ spurious' = spurious + 1
    /\ Goto(w, "lock")
    /\ UNCHANGED <<lock, fields, memory, cur, todo, history>>

\* Mutant: a worker leaves at shutdown although tasks are queued.
WorkerExitEarly(w) ==
    /\ Inside(w, "check")
    /\ shutdown
    /\ lock' = NULL
    /\ Goto(w, "exited")
    /\ UNCHANGED <<fields, memory, cur, todo, spurious, history>>

WorkerExit(w) ==
    /\ Inside(w, "check")
    /\ head = NULL /\ shutdown
    /\ lock' = NULL
    /\ Goto(w, "exited")
    /\ UNCHANGED <<fields, memory, cur, todo, spurious, history>>

\* Mutant: if instead of while around pthread_cond_wait.
WorkerTakeUnchecked(w) ==
    /\ Inside(w, "check")
    /\ cur' = [cur EXCEPT ![w] = head]
    /\ head' = IF head = NULL THEN NULL ELSE nxt[head]
    /\ tail' = IF head' = NULL THEN NULL ELSE tail
    /\ started' = started + 1
    /\ lock' = NULL
    /\ Goto(w, "run")
    /\ UNCHANGED <<shutdown, nxt, memory, todo, spurious, accepted, done>>

WorkerTake(w) ==
    /\ Inside(w, "check")
    /\ head # NULL
    /\ cur' = [cur EXCEPT ![w] = head]
    /\ head' = nxt[head]
    /\ tail' = IF nxt[head] = NULL THEN NULL ELSE tail
    /\ started' = started + 1
    /\ lock' = NULL
    /\ Goto(w, "run")
    /\ UNCHANGED <<shutdown, nxt, memory, todo, spurious, accepted, done>>

\* Mutant: tasks left in the queue at shutdown are dropped, not run.
WorkerRunUnlessShutdown(w) ==
    /\ On(w, "run")
    /\ done' = IF shutdown THEN done ELSE done \cup {cur[w]}
    /\ args' = args \ {cur[w]}
    /\ Goto(w, "free")
    /\ UNCHANGED <<lock, fields, pool, nodes, cur, todo, spurious,
                   accepted, started>>

\* task->function(task->argument) with my_task, which frees its argument.
WorkerRun(w) ==
    /\ On(w, "run")
    /\ done' = done \cup {cur[w]}
    /\ args' = args \ {cur[w]}
    /\ Goto(w, "free")
    /\ UNCHANGED <<lock, fields, pool, nodes, cur, todo, spurious,
                   accepted, started>>

WorkerFree(w) ==
    /\ On(w, "free")
    /\ nodes' = nodes \ {cur[w]}
    /\ cur' = [cur EXCEPT ![w] = NULL]
    /\ Goto(w, "lock")
    /\ UNCHANGED <<lock, fields, pool, args, todo, spurious, history>>
-----------------------------------------------------------------------------
(* main, up to the loop that submits                                       *)

\* Allocation and initialisation of the pool, its mutex and its condition.
SetUp ==
    /\ On(Main, "setup")
    /\ pool' = "live"
    /\ Goto(Main, "create")
    /\ UNCHANGED <<lock, fields, nodes, args, cur, todo, spurious, history>>

\* One of its four parts fails (pool, mutex, condition, threads): main gives back
\* what it has and returns 1.  No other thread exists yet, so the four are one step.
SetUpFails ==
    /\ On(Main, "setup")
    /\ Goto(Main, "return")
    /\ UNCHANGED <<lock, fields, memory, cur, todo, spurious, history>>

CreateWorker(w) ==
    /\ On(Main, "create")
    /\ pc[w] = "unborn"
    /\ pc' = [pc EXCEPT
                ![w] = "lock",
                ![Main] = IF \A v \in Workers \ {w} : pc[v] # "unborn"
                          THEN "arg" ELSE "create"]
    /\ UNCHANGED <<lock, fields, memory, cur, todo, spurious, history>>

CreateFails ==
    /\ On(Main, "create")
    /\ Goto(Main, "fail_lock")
    /\ UNCHANGED <<lock, fields, memory, cur, todo, spurious, history>>

FailLock == Acquire(Main, "fail_lock", "fail_body")

FailClose ==
    /\ Inside(Main, "fail_body")
    /\ shutdown' = TRUE
    /\ lock' = NULL
    /\ BroadcastAndGoto(Main, "fail_join")
    /\ UNCHANGED <<head, tail, nxt, memory, cur, todo, spurious, history>>

\* pthread_join returns for a thread that has called pthread_exit; the loop
\* ends when all the threads that were created have done so.
AllJoined == \A w \in Workers : pc[w] \in {"unborn", "exited"}

\* Mutant: the pool is freed without joining the workers.
FreePoolUnjoined(c, from) ==
    /\ On(c, from)
    /\ pool' = "freed"
    /\ Goto(c, "return")
    /\ UNCHANGED <<lock, fields, nodes, args, cur, todo, spurious, history>>

FreePool(c, from) ==
    /\ On(c, from)
    /\ AllJoined
    /\ pool' = "freed"
    /\ Goto(c, "return")
    /\ UNCHANGED <<lock, fields, nodes, args, cur, todo, spurious, history>>

FailJoin == FreePool(Main, "fail_join")
-----------------------------------------------------------------------------
(* The submitting loop of main and thread_pool_submit                      *)

\* Client threads other than main get the pool once it is complete.
PoolReady == \A w \in Workers : pc[w] # "unborn"

\* Mutant: the loop does not advance to the next task.
NewArgKept(c, t) ==
    /\ On(c, "arg")
    /\ PoolReady
    /\ t \in todo[c]
    /\ args' = args \cup {t}
    /\ cur' = [cur EXCEPT ![c] = t]
    /\ Goto(c, "node")
    /\ UNCHANGED <<lock, fields, pool, nodes, todo, spurious, history>>

NewArg(c, t) ==
    /\ On(c, "arg")
    /\ PoolReady
    /\ t \in todo[c]
    /\ todo' = [todo EXCEPT ![c] = @ \ {t}]
    /\ args' = args \cup {t}
    /\ cur' = [cur EXCEPT ![c] = t]
    /\ Goto(c, "node")
    /\ UNCHANGED <<lock, fields, pool, nodes, spurious, history>>

\* The argument cannot be allocated: the loop continues with the next task.
NewArgFails(c, t) ==
    /\ On(c, "arg")
    /\ PoolReady
    /\ t \in todo[c]
    /\ todo' = [todo EXCEPT ![c] = @ \ {t}]
    /\ UNCHANGED <<lock, fields, memory, pc, cur, spurious, history>>

NewNode(c) ==
    /\ On(c, "node")
    /\ nodes' = nodes \cup {cur[c]}
    /\ nxt' = [nxt EXCEPT ![cur[c]] = NULL]
    /\ Goto(c, "sub_lock")
    /\ UNCHANGED <<lock, shutdown, head, tail, pool, args, cur, todo,
                   spurious, history>>

\* Mutant: the caller forgets the argument of a task that was not accepted.
NewNodeFailsAndLeaks(c) ==
    /\ On(c, "node")
    /\ cur' = [cur EXCEPT ![c] = NULL]
    /\ Goto(c, "arg")
    /\ UNCHANGED <<lock, fields, memory, todo, spurious, history>>

\* thread_pool_submit returns -1 and the caller frees the argument.
NewNodeFails(c) ==
    /\ On(c, "node")
    /\ args' = args \ {cur[c]}
    /\ cur' = [cur EXCEPT ![c] = NULL]
    /\ Goto(c, "arg")
    /\ UNCHANGED <<lock, fields, pool, nodes, todo, spurious, history>>

SubmitLock(c) == Acquire(c, "sub_lock", "sub_body")

\* Mutant: the node of a rejected task is not freed.
SubmitRejectedAndLeaks(c) ==
    /\ Inside(c, "sub_body")
    /\ shutdown
    /\ lock' = NULL
    /\ args' = args \ {cur[c]}
    /\ cur' = [cur EXCEPT ![c] = NULL]
    /\ Goto(c, "arg")
    /\ UNCHANGED <<fields, pool, nodes, todo, spurious, history>>

SubmitRejected(c) ==
    /\ Inside(c, "sub_body")
    /\ shutdown
    /\ lock' = NULL
    /\ nodes' = nodes \ {cur[c]}
    /\ args' = args \ {cur[c]}
    /\ cur' = [cur EXCEPT ![c] = NULL]
    /\ Goto(c, "arg")
    /\ UNCHANGED <<fields, pool, todo, spurious, history>>

\* Mutant: the new node is not linked to the old tail.
SubmitUnlinked(c) ==
    /\ Inside(c, "sub_body")
    /\ ~shutdown
    /\ head' = IF head = NULL THEN cur[c] ELSE head
    /\ tail' = cur[c]
    /\ accepted' = Append(accepted, cur[c])
    /\ cur' = [cur EXCEPT ![c] = NULL]
    /\ lock' = NULL
    /\ SignalAndGoto(c, "arg")
    /\ UNCHANGED <<shutdown, nxt, memory, todo, spurious, started, done>>

\* Mutant: shutdown is not checked under the lock.
SubmitUnchecked(c) ==
    /\ Inside(c, "sub_body")
    /\ head' = IF head = NULL THEN cur[c] ELSE head
    /\ nxt' = IF head = NULL THEN nxt ELSE [nxt EXCEPT ![tail] = cur[c]]
    /\ tail' = cur[c]
    /\ accepted' = Append(accepted, cur[c])
    /\ cur' = [cur EXCEPT ![c] = NULL]
    /\ lock' = NULL
    /\ SignalAndGoto(c, "arg")
    /\ UNCHANGED <<shutdown, memory, todo, spurious, started, done>>

\* Mutant: the signal is sent only when the queue was empty.
SubmitSignalsIfEmpty(c) ==
    /\ Inside(c, "sub_body")
    /\ ~shutdown
    /\ head' = IF head = NULL THEN cur[c] ELSE head
    /\ nxt' = IF head = NULL THEN nxt ELSE [nxt EXCEPT ![tail] = cur[c]]
    /\ tail' = cur[c]
    /\ accepted' = Append(accepted, cur[c])
    /\ cur' = [cur EXCEPT ![c] = NULL]
    /\ lock' = NULL
    /\ IF head = NULL THEN SignalAndGoto(c, "arg") ELSE Goto(c, "arg")
    /\ UNCHANGED <<shutdown, memory, todo, spurious, started, done>>

\* Insertion at the tail, the signal and the unlock.
SubmitAccepted(c) ==
    /\ Inside(c, "sub_body")
    /\ ~shutdown
    /\ head' = IF head = NULL THEN cur[c] ELSE head
    /\ nxt' = IF head = NULL THEN nxt ELSE [nxt EXCEPT ![tail] = cur[c]]
    /\ tail' = cur[c]
    /\ accepted' = Append(accepted, cur[c])
    /\ cur' = [cur EXCEPT ![c] = NULL]
    /\ lock' = NULL
    /\ SignalAndGoto(c, "arg")
    /\ UNCHANGED <<shutdown, memory, todo, spurious, started, done>>
-----------------------------------------------------------------------------
(* thread_pool_destroy                                                     *)

\* Main always ends with thread_pool_destroy; another client may.
BeginDestroy(c) ==
    /\ On(c, "arg")
    /\ PoolReady
    /\ todo[c] = {}
    /\ Goto(c, "des_lock")
    /\ UNCHANGED <<lock, fields, memory, cur, todo, spurious, history>>

Leave(c) ==
    /\ c # Main
    /\ On(c, "arg")
    /\ PoolReady
    /\ todo[c] = {}
    /\ Goto(c, "return")
    /\ UNCHANGED <<lock, fields, memory, cur, todo, spurious, history>>

DestroyLock(c) == Acquire(c, "des_lock", "des_body")

\* Somebody else is destroying the pool: return at once.
DestroyAgain(c) ==
    /\ Inside(c, "des_body")
    /\ shutdown
    /\ lock' = NULL
    /\ Goto(c, "return")
    /\ UNCHANGED <<fields, memory, cur, todo, spurious, history>>

DestroyClose(c) ==
    /\ Inside(c, "des_body")
    /\ ~shutdown
    /\ shutdown' = TRUE
    /\ lock' = NULL
    /\ BroadcastAndGoto(c, "join")
    /\ UNCHANGED <<head, tail, nxt, memory, cur, todo, spurious, history>>

DestroyJoin(c) == FreePool(c, "join")

\* The client's own function returns.
Return(c) ==
    /\ On(c, "return")
    /\ Goto(c, "stop")
    /\ UNCHANGED <<lock, fields, memory, cur, todo, spurious, history>>
-----------------------------------------------------------------------------
\* A use of the pool's memory after free(pool).
UseAfterFree(t) ==
    /\ ~Exited
    /\ pc[t] \in PoolPcs
    /\ pool = "freed"
    /\ Goto(t, "ub")
    /\ UNCHANGED <<lock, fields, memory, cur, todo, spurious, history>>

Terminated == Exited /\ UNCHANGED vars

WorkerStep(w) ==
    \/ WorkerLock(w) \/ WorkerWait(w) \/ WorkerExit(w)
    \/ WorkerTake(w) \/ WorkerRun(w) \/ WorkerFree(w)

ClientStep(c) ==
    \/ \E t \in Tasks : NewArg(c, t) \/ NewArgFails(c, t)
    \/ NewNode(c) \/ NewNodeFails(c)
    \/ SubmitLock(c) \/ SubmitRejected(c) \/ SubmitAccepted(c)
    \/ BeginDestroy(c) \/ Leave(c) \/ DestroyLock(c)
    \/ DestroyAgain(c) \/ DestroyClose(c) \/ DestroyJoin(c) \/ Return(c)

MainStep ==
    \/ SetUp \/ SetUpFails
    \/ \E w \in Workers : CreateWorker(w)
    \/ CreateFails \/ FailLock \/ FailClose \/ FailJoin

Next ==
    \/ \E w \in Workers : WorkerStep(w) \/ SpuriousWakeup(w)
    \/ \E c \in Clients : ClientStep(c)
    \/ MainStep
    \/ \E t \in Threads : UseAfterFree(t)
    \/ Terminated

Spec == Init /\ [][Next]_vars

\* Every thread that can take a step is eventually scheduled by the kernel.
\* A spurious wakeup owes nothing to anybody.
Fairness ==
    /\ \A w \in Workers : WF_vars(WorkerStep(w))
    /\ \A c \in Clients : WF_vars(ClientStep(c))
    /\ WF_vars(MainStep)

FairSpec == Spec /\ Fairness
-----------------------------------------------------------------------------
(* Properties                                                              *)

Submitted == {accepted[i] : i \in 1..Len(accepted)}
Queued == {accepted[i] : i \in (started + 1)..Len(accepted)}
Dequeued == {accepted[i] : i \in 1..started}
Held == {cur[t] : t \in Threads} \ {NULL}
At(l) == {t \in Threads : pc[t] = l}
HeldAt(l) == {cur[t] : t \in At(l)}

\* Main has not completed the pool; a worker that will look at the queue again.
Starting == {"setup", "create", "fail_lock", "fail_body", "fail_join"}
Awake == {"lock", "check", "run", "free"}

\* Every variable has its type; the local variable task is a real node
\* exactly where thread_pool_worker and thread_pool_submit use it, so that
\* neither of them ever dereferences a null pointer.
TypeOK ==
    /\ lock \in Threads \cup {NULL}
    /\ shutdown \in BOOLEAN
    /\ head \in Tasks \cup {NULL}
    /\ tail \in Tasks \cup {NULL}
    /\ nxt \in [Tasks -> Tasks \cup {NULL}]
    /\ pool \in {"unset", "live", "freed"}
    /\ nodes \subseteq Tasks
    /\ args \subseteq Tasks
    /\ pc \in [Threads -> WorkerPcs \cup ClientPcs \cup {"ub"}]
    /\ \A w \in Workers : pc[w] \in WorkerPcs \cup {"ub"}
    /\ \A c \in Clients : pc[c] \in ClientPcs \cup {"ub"}
    /\ cur \in [Threads -> Tasks \cup {NULL}]
    /\ \A w \in Workers : pc[w] \in {"run", "free"} <=> cur[w] # NULL
    /\ \A c \in Clients :
         /\ pc[c] \in {"node", "sub_lock", "sub_body"} => cur[c] # NULL
         /\ pc[c] \notin {"node", "sub_lock", "sub_body", "ub"} => cur[c] = NULL
    /\ todo \in [Clients -> SUBSET Tasks]
    /\ spurious \in 0..MaxSpurious
    /\ accepted \in Seq(Tasks)
    /\ started \in Nat
    /\ done \subseteq Tasks

\* The linked list that thread_pool_submit and thread_pool_worker maintain
\* with head, tail and next holds exactly the tasks accepted and not yet
\* dequeued, oldest first, each of them once.
QueueIsFifo ==
    /\ started <= Len(accepted)
    /\ \A i, j \in 1..Len(accepted) : accepted[i] = accepted[j] => i = j
    /\ started = Len(accepted) => head = NULL /\ tail = NULL
    /\ started < Len(accepted) =>
         /\ head = accepted[started + 1]
         /\ tail = accepted[Len(accepted)]
         /\ nxt[tail] = NULL
    /\ \A i \in (started + 1)..(Len(accepted) - 1) :
         nxt[accepted[i]] = accepted[i + 1]

\* No task is run twice, dropped or run by two workers at once: what has been
\* dequeued has been run, except for the tasks that a worker has taken and
\* not yet run, and no two threads hold the same task.
ExactlyOnce ==
    /\ done = Dequeued \ HeldAt("run")
    /\ HeldAt("run") \cup HeldAt("free") \subseteq Dequeued
    /\ \A t, u \in Threads : t # u /\ cur[t] # NULL => cur[t] # cur[u]

\* Ownership of the heap: every node and every argument that is allocated is
\* either in the queue or held by the one thread that will free it, whichever
\* of the error paths was taken; and nothing in the queue has been freed.
MemoryOwned ==
    /\ nodes = Queued \cup (Held \ HeldAt("node"))
    /\ args = Queued \cup (Held \ HeldAt("free"))
    /\ Queued \cap Held = {}

\* No wakeup is lost: while a worker sleeps in pthread_cond_wait, there are
\* at least as many workers on their way to the queue as there are tasks in
\* it, so the sleeper is not needed; and nobody sleeps once the pool shuts
\* down.  One signal per submitted task is enough for this.
NoLostWakeup ==
    Waiting # {} =>
      /\ ~shutdown
      /\ Len(accepted) - started <= Cardinality(At("lock") \cup At("check"))

\* A client submits its own tasks and each of them at most once; the node it
\* is about to insert ends the list.
ClientsOwnTasks ==
    \A c \in Clients :
      /\ todo[c] \subseteq TasksOf[c] \ Submitted
      /\ cur[c] # NULL => cur[c] \in TasksOf[c] \ (todo[c] \cup Submitted)
      /\ pc[c] \in {"sub_lock", "sub_body"} => nxt[cur[c]] = NULL

\* The life of the pool: main creates all workers before a client uses the
\* pool, a worker leaves only after shutdown, the pool is freed only after all
\* workers have left, and tasks never wait in the queue without a worker that
\* is awake to take them.
Lifecycle ==
    /\ pc[Main] = "setup" => pool = "unset" /\ \A w \in Workers : pc[w] = "unborn"
    /\ pc[Main] \in Starting => ~PoolReady /\ pool # "freed"
    /\ \A c \in Clients :
         /\ pc[c] \in {"node", "sub_lock", "sub_body", "des_lock", "des_body", "join"}
              => PoolReady
         /\ pc[c] \in {"fail_join", "join"} => shutdown
    /\ \A w \in Workers :
         /\ pc[w] = "exited" => shutdown
         /\ pc[w] = "wait" => ~shutdown
         /\ pc[w] # "ub"
    /\ pool = "freed" => shutdown /\ AllJoined
    /\ head # NULL => \E w \in Workers : pc[w] \in Awake

\* The linked list is the FIFO queue of the accepted tasks, each of them is run
\* once, everything allocated has one owner that will free it, clients keep to
\* their own tasks, and the pool goes through its life in order, with workers
\* and clients between any two of their steps.
PoolInv ==
    /\ TypeOK /\ QueueIsFifo /\ ExactlyOnce
    /\ MemoryOwned /\ ClientsOwnTasks /\ Lifecycle

\* thread_pool_destroy frees the pool only when every accepted task has run
\* and every worker has left.
ReleasedWhenDrained ==
    pool = "freed" =>
      /\ shutdown
      /\ done = Submitted
      /\ AllJoined

\* No thread uses the pool's memory after it has been freed.
NoUseAfterFree == At("ub") = {}

\* A submission that races with thread_pool_destroy is turned down by the
\* check of shutdown under the lock; it never works on a pool that is gone.
LateSubmitIsRejected == \A c \in At("ub") : cur[c] = NULL

\* When main returns, whichever of its error paths it took, every accepted
\* task has run, and the pool, every node and every argument are given back.
CleanExit ==
    pc[Main] = "stop" =>
      /\ pool # "live" /\ nodes = {} /\ args = {}
      /\ done = Submitted

\* What the pool promises (module PoolService): shutdown closes it, and
\* free(pool) releases it.
Service == INSTANCE PoolService
             WITH closed <- shutdown, released <- (pool = "freed")
ServiceSpec == Service!SSpec

\* Every task that thread_pool_submit accepts is eventually run.
AcceptedTasksRun ==
    \A t \in Tasks : (t \in Submitted) ~> (t \in done)

\* main returns: pthread_join does not wait for ever, and so no worker sleeps
\* for ever in pthread_cond_wait.
MainReturns == <>(pc[Main] = "stop")
=============================================================================
