------------------------------- MODULE VmemFifo -------------------------------
(***************************************************************************)
(* os_lab5/exp5/mini_vmem_fifo.c: the victim is the page that was loaded   *)
(* first, every resident page counts as dirty, and every evicted page is   *)
(* written to the swap file.                                               *)
(***************************************************************************)
EXTENDS VmemBase

VARIABLE queue      \* history: the resident pages in the order of their loads

vars == <<base, queue>>

Init == BaseInit /\ queue = <<>>

\* Mutant: the comparison is the wrong way round.
Youngest(v) ==
    /\ v \in Resident
    /\ \A q \in Resident : load_time[q] <= load_time[v]

\* choose_victim_fifo returns v.
Oldest(v) ==
    /\ v \in Resident
    /\ \A q \in Resident : \/ load_time[v] < load_time[q]
                           \/ load_time[v] = load_time[q] /\ v <= q

\* load_page makes room.  That choose_victim_fifo finds a page, so that the
\* exit(1) for victim < 0 is never reached, is part of FifoOrder.
Evict(v) ==
    /\ Full
    /\ Oldest(v)
    /\ EvictPage(v, "swapped")
    /\ queue' = Tail(queue)

\* Mutant: a page that only was read is taken for clean.
LoadClean(p) ==
    /\ pc = "load"
    /\ access.page = p
    /\ LoadPage(p, state[p] = "swapped", access.op = "write", "rw")
    /\ queue' = Append(queue, p)

Load(p) ==
    /\ pc = "load"
    /\ access.page = p
    /\ LoadPage(p, state[p] = "swapped", TRUE, "rw")
    /\ queue' = Append(queue, p)

\* The steps that do not change the residence of a page.
Other ==
    \/ InitVmem
    \/ \E a \in Accesses : Begin(a)
    \/ ReadPage
    \/ WritePage /\ UNCHANGED dirty
    \/ Fault
    \/ Room
    \/ LoadOutside
    \/ \E from \in {"start", "fault", "load"} : SysCallFails(from)
    \/ Destroy

Ended == pc \in {"done", "exit", "killed"} /\ UNCHANGED vars

Next ==
    \/ Other /\ UNCHANGED queue
    \/ \E v \in Pages : Evict(v)
    \/ \E p \in Pages : Load(p)
    \/ Ended

Spec == Init /\ [][Next]_vars

-----------------------------------------------------------------------------
\* The variables have the types of the declarations.
TypeOK == BaseTypeOK /\ queue \in Seq(Pages)

\* The page table, the protection of the pages and resident_count agree, no
\* more than MAX_RESIDENT pages are ever resident, and the handler never loads
\* a page that is resident already (which would count it twice and overwrite
\* it with its old content).
Residence ==
    /\ resident_count = Cardinality(Resident)
    /\ \A p \in Pages : prot[p] = IF p \in Resident THEN "rw" ELSE "none"
    /\ pc = "load" => access.page \notin Resident

\* choose_victim_fifo finds a page whenever one is needed, and it is the page
\* that has been resident for the longest time.
FifoOrder ==
    /\ \A p \in Pages : p \in Resident <=> \E i \in DOMAIN queue : queue[i] = p
    /\ \A i, j \in DOMAIN queue : i < j => load_time[queue[i]] < load_time[queue[j]]
    /\ Full => queue # <<>> /\ \A v \in Pages : Oldest(v) <=> v = Head(queue)

\* Every page that is resident is marked dirty, so that an eviction without a
\* write to the swap file cannot happen (evict_page calls every evicted page
\* swapped, written or not).
ResidentIsDirty == \A p \in Resident : dirty[p]

\* All of this about the page table holds together.
TableInv == TypeOK /\ Residence /\ ResidentIsDirty

\* Reading a page returns what was last written to it, or zero, and every access
\* takes effect once: evicting and loading are invisible.
FlatSpec == Memory!ASpec
=============================================================================
