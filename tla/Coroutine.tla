------------------------------ MODULE Coroutine ------------------------------
(***************************************************************************)
(* os_lab3/coroutine.c: coroutines on ucontext that a SIGALRM handler      *)
(* preempts.  One thread of execution moves between the stack of main and  *)
(* the stacks of the coroutines.  A context is a stack and the frames on   *)
(* it; a frame is a place in the code and the local variable id.           *)
(*                                                                         *)
(* The alarm may come before any step.  Steps are as fine as the handler   *)
(* can tell apart: it reads in_scheduler, current_id and the state of the  *)
(* current coroutine.                                                      *)
(***************************************************************************)
EXTENDS Integers, Sequences, SequencesExt, FiniteSetsExt

CONSTANTS
    MAX_COROUTINES,
    Programs,       \* the functions main spawns: sequences of "work" and "yield"
    MaxNest         \* bound on handlers interrupted by handlers

Slots == 0..(MAX_COROUTINES - 1)
None == -1
\* Stacks: those of the coroutines have the numbers of their slots.
Main == -1
NoStack == -2
Steps == {"work", "yield"}
Frame(at, id) == [at |-> at, id |-> id]

VARIABLES
    state, func, ctx,       \* coroutines[i]
    main_ctx, current_id, in_scheduler,
    cpu,                    \* what is executing: a stack and its frames
    scan, all_done, spawned,\* locals of main
    pos,                    \* progress of the function on the stack of a slot
    flags, disposition,     \* sa.sa_flags as found on the stack; the action of SIGALRM
    ended                   \* history: the slots whose function has returned

table == <<state, func, ctx>>
sched == <<main_ctx, current_id, in_scheduler>>
locals == <<scan, all_done, spawned>>
signal == <<flags, disposition>>
vars == <<table, sched, cpu, locals, pos, signal, ended>>

Unset == [stack |-> NoStack, frames |-> <<>>]
OnMain(at) == [stack |-> Main, frames |-> <<Frame(at, None)>>]

\* The process was killed by SIGALRM; the behaviour of the program is undefined.
Killed == [stack |-> NoStack, frames |-> <<Frame("killed", None)>>]
Undefined == [stack |-> NoStack, frames |-> <<Frame("undefined", None)>>]

Top == Last(cpu.frames)
At(at) == cpu.frames # <<>> /\ Top.at = at
Replace(at, id) == [cpu EXCEPT !.frames = Append(Front(@), Frame(at, id))]
Push(at, id) == [cpu EXCEPT !.frames = Append(@, Frame(at, id))]
Pop == [cpu EXCEPT !.frames = Front(@)]

\* Continuing in a saved context, on whichever stack it is.  One that was never
\* saved, or whose frames were run over, leads anywhere.
Restore(c) == IF c.frames = <<>> THEN Undefined ELSE c

\* A handler on the stack of main runs over the frames that an earlier one left
\* there: nothing protects them once main has gone on.
RunOver == [i \in Slots |-> IF cpu.stack = Main /\ ctx[i].stack = Main
                            THEN [ctx[i] EXCEPT !.frames = <<>>] ELSE ctx[i]]

Over == \E end \in {"exit", "killed", "undefined"} : At(end)

HandlerFrames == {"check", "preempt", "handled"}
Handlers(c) == Len(SelectSeq(c.frames, LAMBDA f : f.at \in HandlerFrames))

\* The static variables are zero, sa_flags is whatever the stack holds.
Init ==
    /\ state = [i \in Slots |-> "FREE"]
    /\ func = [i \in Slots |-> <<>>]
    /\ ctx = [i \in Slots |-> Unset]
    /\ main_ctx = Unset
    /\ current_id = 0
    /\ in_scheduler = FALSE
    /\ cpu = OnMain("init")
    /\ scan = 0 /\ all_done = TRUE /\ spawned = 0
    /\ pos = [i \in Slots |-> 0]
    /\ flags \in [resethand : BOOLEAN, nodefer : BOOLEAN]
    /\ disposition = "none"
    /\ ended = {}

scheduler_init ==
    /\ At("init")
    /\ current_id' = None
    /\ in_scheduler' = TRUE
    /\ state' = [i \in Slots |-> "FREE"]
    /\ disposition' = "handler"
    /\ cpu' = OnMain("spawn")
    /\ UNCHANGED <<func, ctx, main_ctx, locals, pos, flags, ended>>

-----------------------------------------------------------------------------
(* The handler                                                             *)

\* SIGALRM is blocked while its handler runs, unless SA_NODEFER is set.
Alarm ==
    /\ disposition # "none"
    /\ ~Over
    /\ Handlers(cpu) < IF flags.nodefer THEN MaxNest ELSE 1
    /\ cpu' = IF disposition = "default" THEN Killed ELSE Push("check", None)
    /\ ctx' = RunOver
    /\ disposition' = IF flags.resethand THEN "default" ELSE disposition
    /\ UNCHANGED <<state, func, sched, locals, pos, flags, ended>>

\* Mutant: the test of the state is missing.
MayPreemptAnyState == ~in_scheduler /\ current_id # None

MayPreempt ==
    /\ ~in_scheduler
    /\ current_id # None
    /\ state[current_id] = "RUNNING"

HandlerCheck ==
    /\ At("check")
    /\ cpu' = IF MayPreempt THEN Replace("preempt", current_id) ELSE Pop
    /\ UNCHANGED <<table, sched, locals, pos, signal, ended>>

HandlerPreempt ==
    /\ At("preempt")
    /\ state' = [state EXCEPT ![Top.id] = "RUNNABLE"]
    /\ current_id' = None
    /\ ctx' = [ctx EXCEPT ![Top.id] = Replace("handled", Top.id)]
    /\ cpu' = Restore(main_ctx)
    /\ UNCHANGED <<func, main_ctx, in_scheduler, locals, pos, signal, ended>>

HandlerReturn ==
    /\ At("handled")
    /\ cpu' = Pop
    /\ UNCHANGED <<table, sched, locals, pos, signal, ended>>

-----------------------------------------------------------------------------
(* main and coroutine_resume                                               *)

coroutine_spawn(p) ==
    LET free == {i \in Slots : state[i] = "FREE"} IN
    IF free = {}
    THEN UNCHANGED table
    ELSE LET id == Min(free) IN
         /\ state' = [state EXCEPT ![id] = "RUNNABLE"]
         /\ func' = [func EXCEPT ![id] = p]
         /\ ctx' = [ctx EXCEPT ![id] = [stack |-> id, frames |-> <<Frame("entry", None)>>]]

Spawn ==
    /\ At("spawn")
    /\ IF spawned < Len(Programs)
       THEN coroutine_spawn(Programs[spawned + 1]) /\ spawned' = spawned + 1 /\ UNCHANGED cpu
       ELSE cpu' = OnMain("scan") /\ UNCHANGED <<table, spawned>>
    /\ UNCHANGED <<sched, scan, all_done, pos, signal, ended>>

\* Mutants: the loop runs one slot too far; a suspended slot counts as done.
ScanPastEnd ==
    /\ At("scan")
    /\ scan = MAX_COROUTINES \/ state[scan] = "FREE"
    /\ scan' = scan + 1
    /\ UNCHANGED <<table, sched, all_done, spawned, cpu, pos, signal, ended>>
ScanOnlyRunnable ==
    /\ At("scan")
    /\ IF scan = MAX_COROUTINES
       THEN cpu' = (IF all_done THEN OnMain("exit") ELSE cpu) /\ scan' = 0 /\ all_done' = TRUE
       ELSE state[scan] # "RUNNABLE" /\ scan' = scan + 1 /\ UNCHANGED <<cpu, all_done>>
    /\ UNCHANGED <<table, sched, spawned, pos, signal, ended>>

\* One turn of the for loop that does not enter a coroutine, or its end.
Scan ==
    /\ At("scan")
    /\ IF scan = MAX_COROUTINES
       THEN /\ cpu' = IF all_done THEN OnMain("exit") ELSE cpu
            /\ scan' = 0 /\ all_done' = TRUE
       ELSE /\ state[scan] \notin {"RUNNABLE", "SUSPEND"}
            /\ all_done' = (all_done /\ state[scan] = "FREE")
            /\ scan' = scan + 1
            /\ UNCHANGED cpu
    /\ UNCHANGED <<table, sched, spawned, pos, signal, ended>>

\* coroutine_resume up to in_scheduler = 0.
Resume ==
    /\ At("scan") /\ scan < MAX_COROUTINES
    /\ state[scan] \in {"RUNNABLE", "SUSPEND"}
    /\ state' = [state EXCEPT ![scan] = "RUNNING"]
    /\ current_id' = scan
    /\ in_scheduler' = FALSE
    /\ all_done' = FALSE
    /\ cpu' = OnMain("save")
    /\ UNCHANGED <<func, ctx, main_ctx, scan, spawned, pos, signal, ended>>

\* swapcontext stores the registers, sets the signal mask, loads the registers.
SwapSave ==
    /\ At("save")
    /\ main_ctx' = OnMain("back")
    /\ cpu' = OnMain("load")
    /\ UNCHANGED <<table, current_id, in_scheduler, locals, pos, signal, ended>>

SwapLoad ==
    /\ At("load")
    /\ cpu' = Restore(ctx[scan])
    /\ UNCHANGED <<table, sched, locals, pos, signal, ended>>

Back ==
    /\ At("back")
    /\ in_scheduler' = TRUE
    /\ scan' = scan + 1
    /\ cpu' = OnMain("scan")
    /\ UNCHANGED <<table, main_ctx, current_id, all_done, spawned, pos, signal, ended>>

-----------------------------------------------------------------------------
(* The coroutines                                                          *)

Wrapper ==
    /\ At("entry")
    /\ cpu' = [cpu EXCEPT !.frames = <<Frame("wrapper", current_id), Frame("task", current_id)>>]
    /\ UNCHANGED <<table, sched, locals, pos, signal, ended>>

Task(i) ==
    /\ cpu.stack = i
    /\ At("task")
    /\ pos[i] < Len(func[i])
    /\ pos' = [pos EXCEPT ![i] = @ + 1]
    /\ cpu' = IF func[i][pos[i] + 1] = "yield" /\ current_id # None
              THEN Push("yield", current_id) ELSE cpu
    /\ UNCHANGED <<table, sched, locals, signal, ended>>

TaskReturns(i) ==
    /\ cpu.stack = i
    /\ At("task")
    /\ pos[i] = Len(func[i])
    /\ cpu' = Pop
    /\ ended' = ended \cup {i}
    /\ UNCHANGED <<table, sched, locals, pos, signal>>

\* The wrapper's last lines, and yield's: the state, then current_id and the switch.
SetFree ==
    /\ At("wrapper")
    /\ state' = [state EXCEPT ![Top.id] = "FREE"]
    /\ cpu' = Replace("freed", Top.id)
    /\ UNCHANGED <<func, ctx, sched, locals, pos, signal, ended>>

Finish ==
    /\ At("freed")
    /\ current_id' = None
    /\ cpu' = Restore(main_ctx)
    /\ UNCHANGED <<table, main_ctx, in_scheduler, locals, pos, signal, ended>>

SetSuspend ==
    /\ At("yield")
    /\ state' = [state EXCEPT ![Top.id] = "SUSPEND"]
    /\ cpu' = Replace("yielded", Top.id)
    /\ UNCHANGED <<func, ctx, sched, locals, pos, signal, ended>>

\* Mutant: the context is saved in the slot that main looks at next.
YieldElsewhere ==
    /\ At("yielded")
    /\ current_id' = None
    /\ ctx' = [ctx EXCEPT ![(Top.id + 1) % MAX_COROUTINES] = Pop]
    /\ cpu' = Restore(main_ctx)
    /\ UNCHANGED <<state, func, main_ctx, in_scheduler, locals, pos, signal, ended>>

\* Mutant: current_id is not reset.
YieldKeepsCurrent ==
    /\ At("yielded")
    /\ ctx' = [ctx EXCEPT ![Top.id] = Pop]
    /\ cpu' = Restore(main_ctx)
    /\ UNCHANGED <<state, func, sched, locals, pos, signal, ended>>

Yield ==
    /\ At("yielded")
    /\ current_id' = None
    /\ ctx' = [ctx EXCEPT ![Top.id] = Pop]
    /\ cpu' = Restore(main_ctx)
    /\ UNCHANGED <<state, func, main_ctx, in_scheduler, locals, pos, signal, ended>>

-----------------------------------------------------------------------------
Run ==
    \/ scheduler_init \/ Spawn \/ Scan \/ Resume \/ SwapSave \/ SwapLoad \/ Back
    \/ HandlerCheck \/ HandlerPreempt \/ HandlerReturn
    \/ Wrapper \/ SetFree \/ Finish \/ SetSuspend \/ Yield
    \/ \E i \in Slots : Task(i) \/ TaskReturns(i)

Stop == Over /\ UNCHANGED vars

Next == Run \/ Alarm \/ Stop

Spec == Init /\ [][Next]_vars

\* A step of the code on stack s, the handler's excepted.
OwnStep(s) == cpu.stack = s /\ Top.at \notin HandlerFrames /\ Run

-----------------------------------------------------------------------------
Contexts == [stack : Slots \cup {Main, NoStack},
             frames : Seq([at : STRING, id : Slots \cup {None}])]

\* The variables have the types of the declarations.
TypeOK ==
    /\ state \in [Slots -> {"FREE", "RUNNABLE", "RUNNING", "SUSPEND"}]
    /\ func \in [Slots -> Seq(Steps)]
    /\ ctx \in [Slots -> Contexts]
    /\ main_ctx \in Contexts /\ cpu \in Contexts
    /\ current_id \in Slots \cup {None}
    /\ in_scheduler \in BOOLEAN
    /\ scan \in 0..MAX_COROUTINES
    /\ all_done \in BOOLEAN
    /\ spawned \in 0..Len(Programs)
    /\ pos \in [Slots -> Nat]
    /\ disposition \in {"none", "handler", "default"}
    /\ ended \subseteq Slots

\* Whatever the alarm interrupts, the table says who runs: while a task's own
\* code runs, its slot is RUNNING and current; while main scans, nobody is.
TableSaysWhoRuns ==
    /\ \A i \in Slots :
         cpu.stack = i /\ At("task") => state[i] = "RUNNING" /\ current_id = i
    /\ At("scan") => current_id = None /\ \A i \in Slots : state[i] # "RUNNING"

\* The alarm has come between in_scheduler = 0 and the switch of coroutine_resume:
\* the context of some coroutine is now a part of the stack of main.
WindowHit == At("undefined") \/ \E i \in Slots : ctx[i].stack = Main

\* While main is in control, a coroutine that was left will go on inside its own
\* wrapper, with its own number in it.  The one exception is a coroutine whose
\* resume was interrupted in that window: it was left RUNNABLE, and its context
\* goes on in coroutine_resume itself, which switches to the same context again.
SuspendedIsWhole ==
    \A i \in Slots :
        state[i] \in {"RUNNABLE", "SUSPEND"} /\ cpu.stack = Main =>
            IF ctx[i].stack = Main
            THEN /\ state[i] = "RUNNABLE"
                 /\ ctx[i].frames # <<>> => ctx[i].frames[1].at \in {"save", "load"}
            ELSE /\ ctx[i].stack = i
                 /\ \/ ctx[i].frames[1] = Frame("wrapper", i)
                    \/ ctx[i].frames[1] = Frame("entry", None) /\ pos[i] = 0

\* A coroutine whose context is on the stack of main never takes a step again, and
\* its slot is never free: main goes round for ever.
StuckForEver ==
    \A i \in Slots : ctx[i].stack = Main =>
        ctx'[i].stack = Main /\ pos'[i] = pos[i] /\ state'[i] # "FREE"

\* main prints "All coroutines finished." only when every function it spawned
\* has run to its end, once.
FinishedMeansFinished ==
    At("exit") => \A i \in Slots : func[i] # <<>> => i \in ended /\ pos[i] = Len(func[i])

\* The critical section of in_scheduler covers the scheduler: the handler never
\* switches away from the stack of main (report of lab 3, part four, point 1).
PreemptsOnlyCoroutines == At("preempt") => cpu.stack # Main
=============================================================================
