------------------------------- MODULE VmemDirty ------------------------------
(***************************************************************************)
(* os_lab5/exp5/mini_vmem_dirty_tracking.c: a page is loaded read-only and *)
(* clean; the first write to it faults, and the handler marks it dirty and *)
(* allows writing.  Only dirty pages are written to the swap file, and     *)
(* in_swap says whether the file holds a copy of the page.                 *)
(***************************************************************************)
EXTENDS VmemBase

VARIABLES
    in_swap,        \* page_table[p].in_swap
    written         \* history: the pages written since they were loaded

vars == <<base, in_swap, written>>

Init ==
    /\ BaseInit
    /\ in_swap = [p \in Pages |-> FALSE]
    /\ written = {}

\* choose_victim_fifo returns v.
Oldest(v) ==
    /\ v \in Resident
    /\ \A q \in Resident : \/ load_time[v] < load_time[q]
                           \/ load_time[v] = load_time[q] /\ v <= q

\* The fault is the first write to a clean resident page.
Upgrade ==
    /\ pc = "fault"
    /\ access.page \in Resident
    /\ ~dirty[access.page]
    /\ prot' = [prot EXCEPT ![access.page] = "rw"]
    /\ dirty' = [dirty EXCEPT ![access.page] = TRUE]
    /\ pc' = "access"
    /\ UNCHANGED <<state, load_time, resident_count, clock_tick, mem, swap,
                   access, out, in_swap, written>>

\* For page -1 the handler tests page_table[-1], which may hold anything.  If it
\* looks resident and clean, mprotect fails and the program exits, or the
\* handler returns and the pending SIGSEGV ends the process.
UpgradeOutside ==
    /\ pc = "fault"
    /\ access.page = Outside
    /\ pc' \in {"exit", "killed"}
    /\ UNCHANGED <<table, store, access, out>>

\* Any other fault makes load_page look for room.
Missing == access.page \notin {p \in Resident : ~dirty[p]}

\* Mutant: a clean page loses its swap copy.
EvictForgets(v) ==
    /\ Full
    /\ Missing
    /\ Oldest(v)
    /\ in_swap' = [in_swap EXCEPT ![v] = dirty[v]]
    /\ EvictPage(v, IF in_swap'[v] THEN "swapped" ELSE "empty")
    /\ written' = written \ {v}

\* load_page makes room: in_swap is set by a write to the swap file, and a page
\* without a copy there goes back to empty.
Evict(v) ==
    /\ Full
    /\ Missing
    /\ Oldest(v)
    /\ in_swap' = [in_swap EXCEPT ![v] = dirty[v] \/ in_swap[v]]
    /\ EvictPage(v, IF in_swap'[v] THEN "swapped" ELSE "empty")
    /\ written' = written \ {v}

\* Mutant: the entry is marked resident before its old state is tested.
LoadCleared(p) ==
    /\ pc = "load"
    /\ access.page = p
    /\ LoadPage(p, FALSE, FALSE, "r")
    /\ UNCHANGED <<in_swap, written>>

\* Mutant: as in mini_vmem_fifo.c, a loaded page is dirty and writable.
LoadDirty(p) ==
    /\ pc = "load"
    /\ access.page = p
    /\ LoadPage(p, state[p] = "swapped" /\ in_swap[p], TRUE, "rw")
    /\ UNCHANGED <<in_swap, written>>

Load(p) ==
    /\ pc = "load"
    /\ access.page = p
    /\ LoadPage(p, state[p] = "swapped" /\ in_swap[p], FALSE, "r")
    /\ UNCHANGED <<in_swap, written>>

\* The steps that change neither in_swap nor the set of written pages.
Other ==
    \/ InitVmem
    \/ \E a \in Accesses : Begin(a)
    \/ ReadPage
    \/ Fault
    \/ Missing /\ Room
    \/ UpgradeOutside
    \/ LoadOutside
    \/ \E from \in {"start", "fault", "load"} : SysCallFails(from)
    \/ Destroy

Ended == pc \in {"done", "exit", "killed"} /\ UNCHANGED vars

Next ==
    \/ Other /\ UNCHANGED <<in_swap, written>>
    \/ /\ WritePage
       /\ written' = written \cup {access.page}
       /\ UNCHANGED <<dirty, in_swap>>
    \/ Upgrade
    \/ \E v \in Pages : Evict(v)
    \/ \E p \in Pages : Load(p)
    \/ Ended

Spec == Init /\ [][Next]_vars

\* The process keeps running while an access or the handler is under way.
FairSpec == Spec /\ WF_vars(Next /\ pc \in {"access", "fault", "load"})

-----------------------------------------------------------------------------
\* The variables have the types of the declarations.
TypeOK ==
    /\ BaseTypeOK
    /\ in_swap \in [Pages -> BOOLEAN]
    /\ written \subseteq Pages

\* The page table, the protection of the pages and resident_count agree: a page
\* is accessible exactly when it is resident and writable exactly when it is
\* dirty too, and load_page is never called for a resident page.
Residence ==
    /\ resident_count = Cardinality(Resident)
    /\ \A p \in Pages : prot[p] = IF p \notin Resident THEN "none"
                                  ELSE IF dirty[p] THEN "rw" ELSE "r"
    /\ pc = "load" => access.page \notin Resident

\* A page is dirty exactly when it was written since it was loaded, or is just
\* about to be: no eviction loses a write, and none writes a clean page to swap.
DirtyIsWritten ==
    /\ written \subseteq {p \in Resident : dirty[p]}
    /\ \A p \in Resident \ written :
          dirty[p] => pc = "access" /\ access.op = "write" /\ access.page = p

\* The copy that a clean page would be reloaded from is its present content:
\* dropping it without a write to the swap file loses nothing.
CleanHasCopy ==
    \A p \in Resident : ~dirty[p] => mem[p] = IF in_swap[p] THEN swap[p] ELSE Zero

\* All of this about the page table holds together: no page is accessible
\* without being resident, and no content is dropped that is not in the swap
\* file.
TableInv == TypeOK /\ Residence /\ DirtyIsWritten /\ CleanHasCopy

\* Reading a page returns what was last written to it, or zero, and every access
\* takes effect once: the faults on the way are invisible.
FlatSpec == Memory!ASpec

\* The handler returns and the interrupted access completes, after at most the
\* faults for loading and for the first write, unless the program ends.
AccessEnds == pc = "access" ~> pc \in {"idle", "exit", "killed"}
=============================================================================
