-------------------------------- MODULE MCVmem --------------------------------
(* The three mini_vmem programs, checked side by side: part says which of  *)
(* them the behaviour is of.  They use the same variables of VmemBase, and *)
(* the variables of the other two keep their initial values.               *)
EXTENDS VmemBase

VARIABLES part, queue, referenced, clock_circle, turns, since, in_swap, written

Fifo == INSTANCE VmemFifo
Clock == INSTANCE VmemSecondChance
\* A clean page is evicted, loaded and evicted again only after seven loads.
Tracking == INSTANCE VmemDirty WITH MaxTick <- 7

fifo == <<queue>>
clock == <<referenced, clock_circle, turns, since>>
tracking == <<in_swap, written>>
vars == <<base, fifo, clock, tracking, part>>

Init == /\ part \in {"fifo", "clock", "tracking"}
        /\ Fifo!Init /\ Clock!Init /\ Tracking!Init

\* The dirty-tracking program has the victim of the FIFO program: the same history.
Queued == queue' = CASE resident_count' < resident_count -> Tail(queue)
                     [] resident_count' > resident_count -> Append(queue, access.page)
                     [] OTHER -> queue

Next ==
    \/ part = "fifo" /\ Fifo!Next /\ UNCHANGED <<clock, tracking, part>>
    \/ part = "clock" /\ Clock!Next /\ UNCHANGED <<fifo, tracking, part>>
    \/ part = "tracking" /\ Tracking!Next /\ Queued /\ UNCHANGED <<clock, part>>

\* The process keeps running while an access or the handler is under way.
FairSpec == Init /\ [][Next]_vars
            /\ WF_vars(Next /\ pc \in {"access", "fault", "load"})

\* In each of the programs the page table, the protection of the pages, the
\* dirty bits and the copies in the swap file agree, and load_page is never
\* called for a resident page.
TableInv ==
    /\ part = "fifo" => Fifo!TableInv
    /\ part = "clock" => Clock!TableInv
    /\ part = "tracking" => Tracking!TableInv

\* The page that is evicted is the one the policy names: the oldest one, with or
\* without dirty tracking, or the first one that the clock hand meets without a mark,
\* in a bounded search.
VictimInv ==
    /\ part \in {"fifo", "tracking"} => Fifo!FifoOrder
    /\ part = "clock" => Clock!SearchIsBounded /\ Clock!SecondChance

\* All three implement a flat memory: eviction and loading are invisible.
FlatSpec == Memory!ASpec

\* In all three the handler returns and the interrupted access completes, unless
\* the program ends.
AccessEnds == pc = "access" ~> pc \in {"idle", "exit", "killed"}
=============================================================================
