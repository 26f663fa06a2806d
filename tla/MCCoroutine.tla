----------------------------- MODULE MCCoroutine -----------------------------
(* The preemptive and the sleeping coroutines of lab 3, checked side by    *)
(* side: part says which program, with which tasks, the behaviour is of.   *)
EXTENDS Integers, Sequences

VARIABLES
    part, state, func, ctx, main_ctx, current_id, in_scheduler, cpu, scan,
    all_done, spawned, pos, flags, disposition, ended,
    wake_up_time, at, fraction, asked, slept, overtaken

\* One task more than there are slots; handlers interrupt handlers.
Crowd == INSTANCE Coroutine WITH MAX_COROUTINES <- 2, MaxNest <- 2,
           Programs <- << <<"work", "yield">>, <<"work">>, <<"work">> >>
\* A task that never yields, and one that does.
Pair == INSTANCE Coroutine WITH MAX_COROUTINES <- 2, MaxNest <- 1,
          Programs <- << <<"work", "work">>, <<"work", "yield", "work">> >>
\* task_sleeper, monitor_task with fewer rounds (-1: yield), and a task too many.
Sleep == INSTANCE CoroutineSleep WITH MAX_COROUTINES <- 3, TicksPerSec <- 3,
           Programs <- << <<2, 1>>, <<-1, -1, -1>>, <<1, -1, 0>>, <<-1>> >>

alarmVars == <<ctx, main_ctx, in_scheduler, cpu, flags, disposition, ended>>
sleepVars == <<wake_up_time, at, fraction, asked, slept, overtaken>>
vars == <<part, state, func, current_id, scan, all_done, spawned, pos, alarmVars, sleepVars>>

\* The variables of the other program are not there.
NoSleep == /\ wake_up_time = 0 /\ at = 0 /\ fraction = 0 /\ asked = 0 /\ slept = 0
           /\ overtaken = 0
NoAlarm == /\ ctx = 0 /\ main_ctx = 0 /\ in_scheduler = 0 /\ cpu = 0 /\ flags = 0
           /\ disposition = 0 /\ ended = 0

Init ==
    \/ part = "crowd" /\ Crowd!Init /\ NoSleep
    \/ part = "pair" /\ Pair!Init /\ NoSleep
    \/ part = "sleep" /\ Sleep!Init /\ NoAlarm

InPair(A) == part = "pair" /\ A /\ UNCHANGED <<part, sleepVars>>
InSleep(A) == part = "sleep" /\ A /\ UNCHANGED <<part, alarmVars>>

Next ==
    \/ part = "crowd" /\ Crowd!Next /\ UNCHANGED <<part, sleepVars>>
    \/ InPair(Pair!Next)
    \/ InSleep(Sleep!Next)

\* The process runs and time passes, and the 10 ms between two alarms are longer
\* than any step: the steps that the handler can turn back are taken if tried
\* again and again.
FairSpec ==
    /\ Init /\ [][Next]_vars
    /\ WF_vars(InPair(Pair!Run))
    /\ SF_vars(InPair(Pair!SwapSave)) /\ SF_vars(InPair(Pair!SwapLoad))
    /\ \A s \in {-1, 0, 1} : SF_vars(InPair(Pair!OwnStep(s)))
    /\ WF_vars(InSleep(Sleep!Run)) /\ WF_vars(InSleep(Sleep!Tick))

PairSpec == part = "pair" /\ Init /\ [][Next]_vars

\* Whatever the alarm interrupts, the table says which coroutine runs, and a
\* coroutine that was left will go on inside its own wrapper, unless the alarm came
\* between in_scheduler = 0 and the switch of its resume: then it is RUNNABLE and
\* its context is a place in coroutine_resume.
CoroutinesInv ==
    /\ part = "crowd" => Crowd!TypeOK /\ Crowd!TableSaysWhoRuns /\ Crowd!SuspendedIsWhole
    /\ part = "pair" => Pair!TypeOK /\ Pair!TableSaysWhoRuns /\ Pair!SuspendedIsWhole
    /\ part = "sleep" => Sleep!TypeOK

\* main says that all coroutines have finished only when every function that got
\* a slot has run to its end.
FinishedMeansFinished ==
    /\ part = "crowd" => Crowd!FinishedMeansFinished
    /\ part = "pair" => Pair!FinishedMeansFinished
    /\ part = "sleep" => Sleep!FinishedMeansFinished

\* coroutine_sleep(n) lasts for more than n - 1 seconds, and coroutines that are
\* ready take turns.
SleepRounds == [][part = "sleep" => Sleep!SleepsAlmost /\ Sleep!RoundRobin]_vars

\* main returns although tasks do not yield or sleep, except in two cases: the
\* process was killed by the second alarm, because sa_flags held SA_RESETHAND, or
\* an alarm came between in_scheduler = 0 and the switch of a resume.  In the second
\* case it does not return: that coroutine never runs again and its slot is never
\* free, so main goes round for ever.
MainReturns ==
    /\ <>CASE part = "crowd" -> TRUE
           [] part = "pair"  -> Pair!At("exit") \/ Pair!At("killed") \/ Pair!WindowHit
           [] part = "sleep" -> at = "exit"
    /\ [][/\ part = "crowd" => Crowd!StuckForEver
          /\ part = "pair" => Pair!StuckForEver]_vars

\* The critical section of in_scheduler covers the scheduler: the handler never
\* switches away from the stack of main (report of lab 3, part four, point 1).
PreemptsOnlyCoroutines == Pair!PreemptsOnlyCoroutines
=============================================================================
