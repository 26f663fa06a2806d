----------------------------- MODULE PoolService -----------------------------
(***************************************************************************)
(* What the thread pool of os_lab2/thread_pooling.cpp promises to the code *)
(* that calls it, without threads, locks or list pointers: an accepted     *)
(* task is started once, in the order of acceptance, and finishes; nothing *)
(* is accepted once the pool is closed; the pool is released only when     *)
(* every accepted task has finished.  ThreadPool implements this module.   *)
(***************************************************************************)
EXTENDS Naturals, Sequences

CONSTANT Tasks          \* the tasks that may be submitted

VARIABLES
    accepted,           \* the accepted tasks, in the order of acceptance
    started,            \* how many of them have been handed to a worker
    done,               \* the tasks whose function has returned
    closed,             \* shutdown has been requested
    released            \* the pool's memory has been given back

svars == <<accepted, started, done, closed, released>>

Accepted == {accepted[i] : i \in 1..Len(accepted)}
Started == {accepted[i] : i \in 1..started}

SInit ==
    /\ accepted = <<>>
    /\ started = 0
    /\ done = {}
    /\ closed = FALSE
    /\ released = FALSE

Accept(t) ==
    /\ ~closed
    /\ t \notin Accepted
    /\ accepted' = Append(accepted, t)
    /\ UNCHANGED <<started, done, closed, released>>

\* Only the oldest task that is not yet started can be started.
Start ==
    /\ started < Len(accepted)
    /\ ~released
    /\ started' = started + 1
    /\ UNCHANGED <<accepted, done, closed, released>>

Finish(t) ==
    /\ t \in Started \ done
    /\ ~released
    /\ done' = done \cup {t}
    /\ UNCHANGED <<accepted, started, closed, released>>

Close ==
    /\ ~closed
    /\ closed' = TRUE
    /\ UNCHANGED <<accepted, started, done, released>>

Release ==
    /\ closed
    /\ ~released
    /\ done = Accepted
    /\ released' = TRUE
    /\ UNCHANGED <<accepted, started, done, closed>>

SNext ==
    \/ \E t \in Tasks : Accept(t) \/ Finish(t)
    \/ Start
    \/ Close
    \/ Release

SSpec == SInit /\ [][SNext]_svars
=============================================================================
