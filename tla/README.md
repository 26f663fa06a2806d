# Verification of OS_system_lab

TLA+ models of the programs of OS_system_lab and of the Linux scheduler sources
kept beside them, checked with TLC on small instances and, for the thread pool,
the paging program with dirty tracking and two parts of the scheduler, proved with
TLAPS for every value of the constants.

## The system

The labs are independent C and C++ programs. They share no code and do not talk to
each other.

| Lab | Program | What it does | Status |
|---|---|---|---|
| 1 | `main.c`, `sys_info.c`, `process_demo.c`, `check_file.sh` | print system data, fork once | not modelled |
| 2 | `thread_pooling.cpp` | thread pool: linked-list queue, mutex, condition variable | modelled, proved |
| 2 | `os_lab2.c`, `threadpool(1).c.bak` | placeholder; unbuilt template | not modelled |
| 3 | `coroutine.c` | coroutines on `ucontext`, preempted by SIGALRM | modelled |
| 3 | `coroutine.cpp` | cooperative coroutines with `coroutine_sleep` | modelled |
| 4 | `my_malloc.c`, `test_my_malloc.c` | first-fit allocator on `sbrk`; its test | modelled |
| 4 | `hook_malloc.c` | thread-safe malloc, free, calloc, realloc on top of it | modelled |
| 5 | `mini_vmem_fifo.c` | user-space paging with SIGSEGV, FIFO replacement | modelled |
| 5 | `mini_vmem_second_chance.c` | the same with a clock | modelled |
| 5 | `mini_vmem_dirty_tracking.c` | the same, writing only dirty pages to swap | modelled, proved |
| 5 | `vm_observe.c` | maps memory and prints what the kernel reports | not modelled |
| 6 | `memfs.c` | FUSE file system in a table of 64 files | modelled |
| – | `rt.c`, `fair.c`, `core.c`, `preempt.h` | Linux scheduler sources, not built here | partly modelled |
| – | `Kconfig.preempt` | build options | not modelled |

`PROJECT.json` has the map from definitions to source lines, the hazards, and for
each hazard the properties that would show it.

## Modules

| Module | Contents |
|---|---|
| `PoolService` | what the pool promises: tasks are accepted, started in order, finished once; closing refuses new tasks, release waits for the old ones |
| `ThreadPool`, `MCThreadPool` | `thread_pooling.cpp`; instances for TLC |
| `ThreadPoolData`, `ThreadPoolLife`, `ThreadPoolProofs` | proofs, each extending the one before |
| `Coroutine`, `CoroutineSleep`, `MCCoroutine` | `coroutine.c`, `coroutine.cpp`; instances |
| `MyMalloc`, `HookMalloc`, `MCMalloc` | `my_malloc.c`; threads on top of it (extends `MyMalloc`); instances |
| `FlatMemory` | what the paging programs promise: an array of pages |
| `VmemBase` | what the three paging programs have in common |
| `VmemFifo`, `VmemSecondChance`, `VmemDirty`, `MCVmem` | the three programs; instances |
| `VmemDirtyProofs` | proofs about `VmemDirty` |
| `FileStore` | what the file system promises: a map from names to contents |
| `MemFS`, `MemFSRace`, `MemFSLookup`, `MCMemFS` | callbacks as single steps; read beside write and truncate; `find_file` beside create and unlink; instances |
| the modules of "The scheduler sources" below | one protocol or data structure each |
| `MCSchedClasses`, `MCSchedCore`, `SchedProofs` | instances; proofs about `RtoPush` and `Preempt` |

An MC module checks several models side by side. Its variable `part` says which
model, or which instance of one, a behaviour is of; it never changes, so nothing
is composed that does not interact in the code.

Definitions whose comment begins with "Mutant" are deliberately wrong versions of a
definition that follows. Nothing uses them, except to show that a property fails
when the code is wrong in that way.

### Thread pool

State: the fields of `ThreadPool` (`lock`, `shutdown`, `head`, `tail`), the `next`
pointers `nxt`, the heap (`pool`, `nodes`, `args`), and for every thread its place
`pc` and its local variable `cur`. `accepted`, `started` and `done` are history. A
node and its argument carry the name of their task.

A step is the code between two points where another thread can interfere: taking
the mutex, the body of a critical section up to unlock or wait, each allocation,
the task function, a join. `pthread_cond_wait` gives up the mutex and blocks in one
step, a signal moves one sleeper (any) to the mutex, a broadcast all of them, and
sleepers may wake without a signal (`MaxSpurious` times). Every allocation may
fail, and so may `pthread_create` for each worker. `SetUpFails` stands for the
failure of any of the four parts of the set-up: no other thread exists yet, and
each of the four exits gives back what it has and returns 1.

| Code | Actions |
|---|---|
| `thread_pool_worker` | `WorkerLock`, `WorkerWait`, `WorkerExit`, `WorkerTake`, `WorkerRun`, `WorkerFree` |
| `thread_pool_submit` | `NewNode`, `NewNodeFails`, `SubmitLock`, `SubmitRejected`, `SubmitAccepted` |
| `thread_pool_destroy` | `DestroyLock`, `DestroyAgain`, `DestroyClose`, `DestroyJoin` |
| `main` | `SetUp`, `SetUpFails`, `CreateWorker`, `CreateFails`, `Fail…`, `NewArg`, `BeginDestroy`, `Return` |

The program has one client, `main`. The comments and the report justify the check
of `shutdown` by a second thread that destroys the pool; `Others` is the set of
such threads, empty for the program as it stands. A thread that uses the pool after
`free(pool)` goes to `"ub"` and the model stops there.

### Coroutines

`Coroutine`: a context is a stack and the frames on it, a frame a place in the code
and the local `id`. `cpu` is the context that runs. The alarm may come before any
step (`Alarm`, `HandlerCheck`, `HandlerPreempt`, `HandlerReturn`), and the steps are
as fine as the handler can tell apart: `coroutine_resume` is `Resume`, `SwapSave`,
`SwapLoad`, `Back`. `scheduler_init` leaves `sa_flags` uninitialised: `flags` is any
of what matters in it, `SA_NODEFER` and `SA_RESETHAND`. Continuing a context that was
never saved, or whose stack was used again, ends in `undefined`.

`CoroutineSleep`: nothing preempts, so a coroutine runs in one step from resume to
the call that switches back. Time is finer than the seconds of `time()`.

### Allocator

`MyMalloc`: `heap` maps the addresses of headers to size, free and next; `brk` is
the program break, `call` the call in progress. The search takes one step per block
(`find_free_block`). `request_space` calls `sbrk(0)` and `sbrk(META_SIZE + size)` in one
step: in the program that uses it alone nothing runs in between, and in
`hook_malloc.c` both are under the mutex and the C library's malloc is replaced, so that
nobody else calls `sbrk`. `OtherSbrk` moves the break between calls. Sizes are modulo
`SizeMod`, and `sbrk` takes the sum as a signed number (`Increment`).

`HookMalloc`: threads with a mutex, the memory byte by byte, and one block per
thread that it fills with its mark. `calloc` clears, and `realloc` reads the header
and copies, outside the mutex, as in the code. `free` of a pointer that is not the
thread's own is not modelled.

### Paging programs

State: the page table (`state`, `dirty`, `load_time`, and `referenced` or `in_swap`),
`resident_count`, `clock_tick`, the memory `mem` with its protection `prot` (the
content of a page survives `PROT_NONE`), the swap file `swap`, and the access under
way. The content of a page is one value.

The CPU tries an access (`Begin`); the protection lets it through (`ReadPage`,
`WritePage`) or SIGSEGV is delivered (`Fault`). The handler makes room (`Room`,
`Evict`), loads the page (`Load`) and returns, and the access is tried again.
`VmemDirty` adds `Upgrade`, the fault for the first write to a clean page;
`VmemSecondChance` takes one step (`Skip`) per turn of the loop in
`choose_victim_second_chance`. `SysCallFails` stands for every `exit(1)` after a failed
system call. `full_write` and `full_read` have the effect of one complete transfer.
The `exit(1)` for "no page can be evicted" is not reachable, since `TableInv` has
`MAX_RESIDENT` resident pages when it is called, and is no action. Accesses outside
the region are included: SIGSEGV is blocked in its handler, so `raise(SIGSEGV)`
returns and the handler goes on with page -1 (`LoadOutside`).

### File system

`MemFS` has one action per FUSE callback, with its errors. `cut` is history: the
bytes that a truncate has cut off and nothing has covered since. They are still in
`data`, so a write past the end brings those in the gap back; `FileStore` says so
(`residue`), and that nothing else comes back.

FUSE runs callbacks on several threads. The kernel serialises write and truncate of
one file, and create and unlink of one directory (external, modelled from how the
code relies on it); a read runs beside write and truncate, and the `find_file` of an
open file beside create and unlink. `MemFSRace` takes the first apart at each
access to `size`, `MemFSLookup` the second: create sets `used`, then copies the name
character by character. `memfs_init` and `look_up_path` are called by nobody.

### The scheduler sources

Each model is of one protocol or data structure and stands alone; what its
neighbours do is a choice of its actions. What the code does under one lock is one
step; what it does between two locks, or with atomics only, is a step each.
Operations keep the kernel's names. Memory is sequentially consistent: the barriers
of the code are taken to do what their comments say.

| Module | State | Actions and what they interleave with |
|---|---|---|
| `RtRunqueue` | `rq`: one CPU's tree of `rt_rq`s with lists, bitmaps, counts, throttling | enqueue, dequeue, requeue, boost, pick, throttle and unthrottle, affinity |
| `RtBandwidth` | budget and used time of a group's `rt_rq`s, the period timer | borrowing, the timer's walk one CPU at a time, hotplug, a write of the budget |
| `RtAdmission` | budgets of a tree of groups, the sysctls, writers, a task on its way into a group | writes that read before they lock, a sysctl stored before it is validated, attach |
| `RtPush` | RT queues of all CPUs, pushable lists, overload mask | push and pull with the window in which `double_lock_balance` drops the lock |
| `RtoPush` | `rto_cpu`, `rto_loop_start`, the loop counters, irq_works, references to the root domain | `tell_cpu_to_push` and the IPI handler on every CPU |
| `FairQueue` | `fq`: one CPU's tree of `cfs_rq`s, delayed entities, buddies, leaf list, limbo lists | enqueue, delayed dequeue, pick, tick, throttle, task work, moves, idle groups |
| `CfsBandwidth` | pool, slices, throttled list, the walks of two timers, a quota writer | charging, throttling, distribution one queue at a time, cross-CPU calls, hotplug |
| `Eevdf` | virtual times relative to the zero, running sums | place, run, dequeue, reweight, pick with any search tree |
| `NohzBalance` | `nohz` flags and mask, per-CPU flags, cross-CPU call, walk | entering idle, kick, balance, exit: one shared store at a time |
| `Wakeup` | `__state`, `on_rq`, `on_cpu`, locks, places | `try_to_wake_up`, `__schedule`, migration, `task_call_func`, `wait_task_inactive` |
| `Affinity` | mask, `migration_pending`, the callers' `my_pending`, stop works | `__set_cpus_allowed_ptr_locked`, `affine_move_task`, `migration_cpu_stop`, `migrate_enable` |
| `Hotplug` | a CPU that goes down, its tasks, the hotplug thread | `balance_push`, `rcuwait`, wakeups, spliced callbacks |
| `Uclamp` | buckets, requests, group and system values | enqueue, dequeue, writers that walk groups and tasks, fork, move |
| `MmCid` | owner of each concurrency ID, mode, fixup walks | context switch, fork, exit, the change of mode one rq at a time |
| `CfsAdmission` | period, quota, burst and hierarchical quota of a line of groups | writers that read before they lock, creation and release of groups |
| `CoreSched` | picks, sequence counters and forced idle of siblings | `pick_next_task` with its unlock windows, stealing, hotplug |
| `Preempt` | `preempt_count`, need-resched flags, interrupts on their way | `preempt_enable`, `schedule` loops, interrupt return, idle loop, `resched_curr` from other CPUs |

Outside the tree and modelled from how the code uses it (`external` in the map): the
idle loop, interrupt entry, the stopper, hrtimers, cross-CPU calls, `mm_cid_schedin`
and `mm_cid_schedout`.

## Runs

| Run | Instance | What it shows |
|---|---|---|
| `pool_program` | 3 workers, 3 tasks, 1 spurious wakeup, `main` alone, fair | no use after free, nothing left behind on any exit path; accepted tasks run, `main` returns |
| `pool_shared` | 2 workers, 2 clients, 3 tasks, 1 spurious wakeup | queue, ownership, wakeups, release; `PoolService` is implemented |
| `vmem` | 3 pages, 2 frames, 2 contents, 6 loads (7 with dirty tracking), fair | the tables agree, the victim is the policy's, every access ends; `FlatMemory` is implemented, by all three programs |
| `coroutine` | `crowd`: 2 slots, 3 tasks, handlers nested up to 2; `pair`: 2 slots, one task never yields; `sleep`: 3 slots, 4 tasks, 3 ticks a second; fair (`pair`, `sleep`) | table and stacks agree, sleeps and turns, nothing reported finished too early; `main` ends, or the two ways in which it does not |
| `malloc` | `alone`: header 2, heap 1..13, sizes 0..4, 28 and 42, `size_t` modulo 64; `hook`: 2 threads, header 1, heap 1..10, sizes 1, 3 and 4; fair | the list tiles the heap, first fit, contents are kept, calls return |
| `memfs` | `table`: 2 slots, 3 names (symmetric), files up to 2 bytes; `race`: 2 readers, 1 writer, `size_t` modulo 16; `lookup`: 3 slots, names a, ab, c, 1 search | the table is sound, `FileStore` is implemented, reads end at an end and files are found, with one exception each |
| `sched_classes` | the parts of `MCSchedClasses` | the models of `rt.c` and `fair.c`, and `CfsAdmission` |
| `sched_core` | the parts of `MCSchedCore` | the models of `core.c` and `preempt.h`, `RtPush` and `NohzBalance` |
| `pool_late_submit` | as `pool_shared` | violation, see Findings |
| `coroutine_window` | `pair` | violation |
| `malloc_near_max` | as `alone`, sizes 1 and 63 | violation |
| `memfs_read` | as `memfs` | violation |

The parts of the two scheduler runs:

| Part | Instance |
|---|---|
| `rq` | two RT groups, one in the other, four tasks, one boosted from the fair class |
| `bandwidth`, `budget` | 3 CPUs that lend, one of them unplugged; 2 CPUs and a budget that is rewritten |
| `admit`, `limit` | two groups, two writers; one group, unlimited or not, and the sysctl |
| `rto` | 3 CPUs |
| `fair`, `idle`, `move`, `kthread` | 2 tasks: two nested quotas; a group made idle; a task, or a kernel thread, that changes group and class |
| `cfsadmit` | 3 groups in a line, 2 writers |
| `quota`, `plug`, `slack` | 2 CPUs, quota 1 or none: overruns; hotplug; both timers |
| `pair`, `three` | 2 entities with all operations; 3 that compete |
| `wakeup` | 2 CPUs, a task that sleeps, is moved and dies, and a rival |
| `affinity` | 2 CPUs, 3 callers |
| `hotplug` | 4 kinds of task, a remote waker |
| `uclamp` | 2 tasks (one RT), 2 groups, 2 writes |
| `cid` | 3 threads, 2 of 4 CPUs online |
| `core`, `cookies` | 2 siblings: one cookie or none; two cookies |
| `push` | 2 CPUs, 3 tasks |
| `preempt` | nesting up to 2 |
| `nohz` | 2 CPUs |

**Bounds.** Two workers are enough for a signal to go to the wrong one, three for two
to sleep while one works; three tasks make the list have a middle. Spurious wakeups
are independent of each other, so one at every possible moment covers the cases.
With two frames for three pages, pages are evicted, reloaded and evicted again
within the bound on loads, which is tested only when an access begins. In the small
heap blocks are split, reused, and left too small to split; the sizes 28 and 42 make
the increment too large or negative and out of the heap, and `sbrk` refuses both.
The readers of the file race with truncates below, at and above their offsets, and
the difference wraps as it does in `size_t`. A search for a file changes nothing that
others see, so one stands for any number. RUNTIME_INF is the largest value of a small
unsigned type in `quota`, `plug` and `slack`, as it is of u64 in the code. Two CPUs have all the pairwise races of
the scheduler; parts in which a third party matters (lending, push IPIs, pending
affinity) have three. `MaxTick`, `MaxNest`, `MaxSpurious`, `MaxKey`, `MaxTime`, `MaxScale`,
`MaxCharge`, `MaxWrites` and `MaxGifts` bound counters in guards and are named where
they are declared.

**Fairness.** The pool assumes weak fairness of each thread, which a preemptive kernel
provides; mutexes need not be fair, since the tasks are finitely many. The paging
programs and the allocator's callers go on while an access, a handler or a call is
under way; whether a new one begins is left open. In `coroutine.c` the process runs
(weak fairness), and steps that the handler can turn back are taken if they are tried
again and again (strong fairness), since the 10 ms between two alarms are longer
than any step. `crowd` is not fair: with `SA_NODEFER` and nesting, handlers may
interrupt handlers for ever. Nothing is assumed of spurious wakeups. The file system
and the scheduler are checked for safety only.

**Deadlock** is checked in every run: states without a successor are those in which
the process has ended, and those stutter explicitly.

**Mutants.** For each property of a passing run, `PROJECT.json` names a definition and a
wrong version of it (a dropped guard, a missing reset, a swapped order) under which
TLC reports that property violated.

## Findings

* `pool_late_submit` (`thread_pooling.cpp:91`): a comment and the report say that a
  submit racing with destroy is rejected under the lock. If destroy has finished by
  then, the lock is in freed memory. The program has one client and is not affected
  (`ProgramIsSafe`).
* `coroutine_window` (`coroutine.c:123`): a comment calls `in_scheduler` the lock of a
  critical section, and `coroutine_resume` clears it before `swapcontext`. An alarm in
  between saves the stack of `main` as the coroutine's context. The coroutine is then
  never resumed properly again, its slot is never free, and `main` goes round for
  ever; `MainReturns` states both the exception and that it is final.
* `malloc_near_max` (`my_malloc.c:47`): a comment says that NULL is returned when `sbrk`
  fails. For a size within the header's or the heap's length of SIZE_MAX, `META_SIZE +
  size` wraps to a small or slightly negative number, `sbrk` succeeds, and the block
  reaches far beyond the break. `HeapInv` is about the other sizes.
* `memfs_read` (`memfs.c:197`): a comment says that the length is cut to the end of the
  file. A truncate to less than the offset, between the two looks at `size`, makes the
  difference wrap, and the read is not cut.

### Seen in the models, without a run of their own

In the labs:

* A file can be taken for another while a longer name that begins with its name is
  being copied by `memfs_create` (the exception in `FindFileFinds`).
* Bytes that a truncate cut off come back in the gap of a later write (`FileStore`).
* An access outside the region of a paging program evicts a page, goes on with page
  -1, and usually ends in `exit(1)` from a failing `mprotect` instead of in the signal.
* `coroutine_sleep(n)` may be almost a second short (`SleepsAlmost`): it counts whole
  seconds. With `SA_RESETHAND` in `sa_flags` the second alarm kills `coroutine.c`.
* `my_malloc` rounds no size up, so a block may begin at any address:
  `test_my_malloc.c:201` expects multiples of 8, which holds only as long as the sizes
  asked for are multiples of 8.

In the scheduler sources. The behaviours are in the models; the properties name each
as an exception and hold otherwise:

* `RtRunqueue`, `torn`: `do_set_cpus_allowed` of a boosted task that alone keeps a
  throttled group with other tasks served leaves the group in the tree and on no
  list. The model stops there.
* `RtBandwidth`, `stray`: a CPU that comes back forgets what it lent or borrowed after
  `tg_set_rt_bandwidth` wrote its disabled `rt_rq`. `late`: an `rt_rq` that runs out
  behind the timer's walk, and before it ends, can be left without a timer.
* `CfsAdmission`, `late`: a group that is allocated before a write and goes online after
  it is not seen by the writer's walk.
* `Affinity`, `fooled`: a stop work so late that the task has moved and called
  `migrate_disable` completes a call whose mask is not honoured.
* `RtPush`, `disturbed`: after an affinity change, `migrate_disable`, an offline CPU or
  `RT_MAX_TRIES` lost races, a task may wait although a CPU could run it.
* `CfsBandwidth`: catching up too often doubles the period and the quota, also a quota
  that was lifted meanwhile: RUNTIME_INF doubled is a number. Lowering a quota while
  slices are out exceeds it, and is outside the instances.
* `NohzBalance`, `fresh = "passed"`: a newcomer can be found in the mask before it is idle
  and be passed over by that walk.

## Proofs

The theorems hold for every value of the constants that satisfies the named
assumption. Each proof has the same shape: a strengthening that is inductive, one
lemma per action or group of actions, and the property as a consequence.

| Module | Theorem | States |
|---|---|---|
| `ThreadPoolData` | `TypeCorrect` | types; a worker never runs a null task |
| `ThreadPoolLife` | `PoolCorrect` | `PoolInv`: the list is the queue, tasks run once, allocations have one owner |
| | `DrainedBeforeRelease` | `ReleasedWhenDrained` |
| | `ProgramIsClean`, `ProgramIsSafe` | `CleanExit`, `NoUseAfterFree`, with `main` as only client |
| `ThreadPoolProofs` | `WakeupsAreNotLost` | `NoLostWakeup` |
| | `ImplementsService` | `ServiceSpec`: refinement of `PoolService` |
| `VmemDirtyProofs` | `PageTableCorrect` | `TableInv` of `VmemDirty` |
| | `ImplementsFlatMemory` | `FlatSpec` of `VmemDirty`: refinement of `FlatMemory` |
| `SchedProofs` | `OneIteratorAlways` | `OneIterator`, any number of CPUs |
| | `ReschedulesArrive` | `PreemptInv`, any depth |

**Thread pool** (`PoolAssumption`: finitely many workers and at least one, clients that
are not workers and share no tasks). `IInv == TypeOK /\ DataInv /\ Lifecycle`. None of
the parts of `DataInv` is inductive alone: that the list is the queue needs that no
client submits a task twice and that its node ends the list; that a task runs once
needs that the list is the queue; ownership needs both. `Lifecycle` ties the pool's
memory to the places of the threads. A signal takes a sleeper to the mutex together
with the task that was added, and a worker sleeps only when the queue is empty:
hence `NoLostWakeup`.

**Paging with dirty tracking** (`VmemAssumption`: any number of pages, a residence limit
above zero, any contents). `PageInv` adds to the table's own invariants what is known
in the handler: it is entered only for an access that the protection refuses, and a
page that is not resident is swapped exactly when its slot was written. The first
keeps `load_page` from being called for a resident page, the second makes the reload
of a clean page agree with its copy. `CountInv` is about `resident_count`. In the
refinement a page is mapped to memory, swap slot or zero according to its state.

**Push IPIs** (`RtoAssumption`: a number of CPUs). `RtoInv == RtoTypes /\ Locks /\
Iterator /\ References`: who holds `rto_lock` and `rto_loop_start`, and that the
irq_work is somewhere exactly while `rto_cpu` is a CPU and one reference to the root
domain is held.

**Preemption** (no assumption). `PlacesAndFlags`: the types, what `preempt_count` is at
each place of the task, the interrupt and the idle loop, and which of flag, folded
bit and interrupt is set there.

### Only model-checked

* Liveness (`AcceptedTasksRun`, `AccessEnds`, `CallsReturn`, both `MainReturns`): out of
  the prover's reach.
* The FIFO and clock programs, the coroutines, the allocators and the file system.
* The other invariants of the scheduler models. Those of `RtRunqueue`, `FairQueue`,
  `RtBandwidth`, `Uclamp`, `Eevdf`, `CfsBandwidth` and the admission models are about
  sums, folds or walks over sets and trees, and need induction over data. Those of
  `Wakeup`, `Affinity`, `Hotplug`, `MmCid`, `CoreSched`, `RtPush` and `NohzBalance` need
  none; their inductive invariants have not been worked out.

## Not modelled

* Lab 1, `vm_observe.c`, `os_lab2.c`: input, output and single calls, no state.
  `threadpool(1).c.bak` is an unbuilt template. Lab 7 has documents only.
* `memfs.c`: a string comparison that sees a name while it is being cleared or copied
  under it; two callbacks that write the same bytes.
* `rt.c`: RLIMIT_RTTIME, core-scheduling picks of the class, statistics,
  `push_cpu_stop`; what happens to a torn RT group afterwards.
* `fair.c`: load tracking, NUMA balancing, the choice of a CPU, balancing between busy
  CPUs: heuristics over measured load.
* `core.c`: proxy execution, the deadline and `sched_ext` classes, system calls, cgroup
  files other than the limits, debugging and statistics.
* `preempt.h`: preemption notifiers, lock guards. `Kconfig.preempt` has build options.
