--------------------------- MODULE CoroutineSleep ---------------------------
(***************************************************************************)
(* os_lab3/coroutine.cpp: cooperative coroutines that may sleep.  Nothing  *)
(* preempts a coroutine, so its code runs as one step from the resume to   *)
(* the call that switches back; real time passes between the steps.        *)
(*                                                                         *)
(* time() counts whole seconds.  The clock is kept as the part of the      *)
(* present second that has passed, and wake_up_time as its distance from   *)
(* time(): neither needs a bound.                                          *)
(***************************************************************************)
EXTENDS Integers, Sequences, FiniteSetsExt

CONSTANTS
    MAX_COROUTINES,
    Programs,       \* the functions main spawns: sequences of calls
    TicksPerSec     \* resolution of real time

Slots == 0..(MAX_COROUTINES - 1)
None == -1
yield == -1         \* a call: yield, or the number of seconds to sleep

VARIABLES
    state, func, wake_up_time,  \* coroutines[i]
    current_id, pos,
    spawned, scan, all_done,    \* locals of main
    at,                         \* "spawn", "scan", "coroutine", "exit"
    fraction,                   \* ticks since time() last changed
    asked, slept,               \* history: the last sleep of i, in seconds and in ticks
    overtaken                   \* history: who ran since i became ready to run

table == <<state, func, wake_up_time>>
mainv == <<spawned, scan, all_done>>
history == <<asked, slept, overtaken>>
vars == <<table, current_id, pos, mainv, at, fraction, history>>

Init ==
    /\ state = [i \in Slots |-> "FREE"]
    /\ func = [i \in Slots |-> <<>>]
    /\ wake_up_time = [i \in Slots |-> 0]
    /\ current_id = None
    /\ pos = [i \in Slots |-> 0]
    /\ spawned = 0 /\ scan = 0 /\ all_done = TRUE
    /\ at = "spawn"
    /\ fraction \in 0..(TicksPerSec - 1)
    /\ asked = [i \in Slots |-> 0] /\ slept = [i \in Slots |-> 0]
    /\ overtaken = [i \in Slots |-> {}]

LongestSleep == Max({1} \cup UNION {{Programs[n][k] : k \in DOMAIN Programs[n]} : n \in DOMAIN Programs})
Longest == TicksPerSec * LongestSleep

Tick ==
    /\ at # "exit"
    /\ fraction' = (fraction + 1) % TicksPerSec
    /\ wake_up_time' = IF fraction' = 0
                       THEN [i \in Slots |-> Max({wake_up_time[i] - 1, 0})] ELSE wake_up_time
    /\ slept' = [i \in Slots |-> IF state[i] = "SLEEPING" THEN Min({slept[i] + 1, Longest}) ELSE slept[i]]
    /\ UNCHANGED <<state, func, current_id, pos, mainv, at, asked, overtaken>>

coroutine_spawn(p) ==
    LET free == {i \in Slots : state[i] = "FREE"} IN
    IF free = {} THEN UNCHANGED <<state, func>>
    ELSE /\ state' = [state EXCEPT ![Min(free)] = "RUNNABLE"]
         /\ func' = [func EXCEPT ![Min(free)] = p]

Spawn ==
    /\ at = "spawn"
    /\ IF spawned < Len(Programs)
       THEN coroutine_spawn(Programs[spawned + 1]) /\ spawned' = spawned + 1 /\ UNCHANGED at
       ELSE at' = "scan" /\ UNCHANGED <<state, func, spawned>>
    /\ UNCHANGED <<wake_up_time, current_id, pos, scan, all_done, fraction, history>>

Asleep(i) == state[i] = "SLEEPING" /\ wake_up_time[i] > 0
\* Mutant: main does not make a sleeper RUNNABLE, so coroutine_resume refuses it.
ReadyNotSleeping(i) == state[i] \notin {"FREE", "SLEEPING"}

Ready(i) == state[i] # "FREE" /\ ~Asleep(i)

\* Mutant: a coroutine that sleeps does not count as unfinished.
CountsAsDoneIfAsleep(i) == state[i] \in {"FREE", "SLEEPING"}

CountsAsDone(i) == state[i] = "FREE"

\* One turn of the loop over the slots that enters no coroutine, or its end.
Scan ==
    /\ at = "scan"
    /\ IF scan = MAX_COROUTINES
       THEN /\ at' = IF all_done THEN "exit" ELSE "scan"
            /\ scan' = 0 /\ all_done' = TRUE
       ELSE /\ ~Ready(scan)
            /\ all_done' = (all_done /\ CountsAsDone(scan))
            /\ scan' = scan + 1 /\ UNCHANGED at
    /\ UNCHANGED <<table, current_id, pos, spawned, fraction, history>>

\* Mutant: the scan begins again after every coroutine.
NextScanFirst(i) == 0

NextScan(i) == i + 1

\* The turn that enters a coroutine, with coroutine_resume.
Resume ==
    /\ at = "scan" /\ scan < MAX_COROUTINES
    /\ Ready(scan)
    /\ state' = [state EXCEPT ![scan] = "RUNNING"]
    /\ current_id' = scan
    /\ all_done' = FALSE
    /\ at' = "coroutine"
    /\ overtaken' = [i \in Slots |-> IF i = scan \/ ~Ready(i) THEN {} ELSE overtaken[i] \cup {scan}]
    /\ scan' = NextScan(scan)
    /\ UNCHANGED <<func, wake_up_time, pos, spawned, fraction, asked, slept>>

Leave(s) ==
    /\ state' = [state EXCEPT ![current_id] = s]
    /\ current_id' = None
    /\ at' = "scan"
    /\ UNCHANGED <<func, mainv, fraction, overtaken>>

Call == func[current_id][pos[current_id] + 1]
Calls(c) == pos[current_id] < Len(func[current_id]) /\ Call = c

coroutine_yield ==
    /\ at = "coroutine" /\ Calls(yield)
    /\ pos' = [pos EXCEPT ![current_id] = @ + 1]
    /\ Leave("SUSPEND")
    /\ UNCHANGED <<wake_up_time, asked, slept>>

\* Mutants: the last second is not waited for; the units are confused.
WakeUpEarly(seconds) == Max({seconds - 1, 0})
WakeUpInTicks(seconds) == seconds * TicksPerSec

WakeUp(seconds) == seconds

coroutine_sleep ==
    /\ at = "coroutine"
    /\ \E seconds \in 0..LongestSleep :
         /\ Calls(seconds)
         /\ wake_up_time' = [wake_up_time EXCEPT ![current_id] = WakeUp(seconds)]
         /\ asked' = [asked EXCEPT ![current_id] = seconds]
    /\ slept' = [slept EXCEPT ![current_id] = 0]
    /\ pos' = [pos EXCEPT ![current_id] = @ + 1]
    /\ Leave("SLEEPING")

coroutine_wrapper ==
    /\ at = "coroutine"
    /\ pos[current_id] = Len(func[current_id])
    /\ Leave("FREE")
    /\ UNCHANGED <<wake_up_time, pos, asked, slept>>

Stop == at = "exit" /\ UNCHANGED vars

Run == Spawn \/ Scan \/ Resume \/ coroutine_yield \/ coroutine_sleep \/ coroutine_wrapper
Next == Run \/ Tick \/ Stop

Spec == Init /\ [][Next]_vars

-----------------------------------------------------------------------------
\* The variables have the types of the declarations.
TypeOK ==
    /\ state \in [Slots -> {"FREE", "RUNNABLE", "RUNNING", "SUSPEND", "SLEEPING"}]
    /\ wake_up_time \in [Slots -> 0..LongestSleep]
    /\ current_id \in Slots \cup {None}
    /\ scan \in 0..MAX_COROUTINES
    /\ fraction \in 0..(TicksPerSec - 1)
    /\ (at = "coroutine") = (current_id # None)

\* main says that all coroutines have finished only when each function that was
\* given a slot has run to its end, sleeping ones included.
FinishedMeansFinished ==
    at = "exit" => \A i \in Slots : state[i] = "FREE" /\ pos[i] = Len(func[i])

Wakes(i) == state[i] = "SLEEPING" /\ state'[i] # "SLEEPING"

\* coroutine_sleep(n) lasts for more than n - 1 seconds: the second in which it
\* is called counts as a whole one, and no other does.
SleepsAlmost == \A i \in Slots : Wakes(i) /\ asked[i] > 0 => slept[i] > (asked[i] - 1) * TicksPerSec

\* Round robin: no coroutine runs twice while another one stays ready to run.
RoundRobin ==
    current_id' # current_id /\ current_id' # None =>
        \A i \in Slots \ {current_id'} : Ready(i) => current_id' \notin overtaken[i]
=============================================================================
