--------------------------- MODULE VmemSecondChance ---------------------------
(***************************************************************************)
(* os_lab5/exp5/mini_vmem_second_chance.c: vmem_read and vmem_write mark   *)
(* the page as referenced after the access; to find a victim the clock     *)
(* hand clears the marks that it meets and stops at the first resident     *)
(* page without one.  The loop has no bound of its own; each turn of it is *)
(* a step here.                                                            *)
(***************************************************************************)
EXTENDS VmemBase

VARIABLES
    referenced,     \* page_table[p].referenced
    clock_circle,   \* the clock hand
    turns,          \* history: hand moves in the present search
    since           \* history: hand moves since the last access to p, at most
                    \* NUM_VPAGES

vars == <<base, referenced, clock_circle, turns, since>>

Init ==
    /\ BaseInit
    /\ referenced = [p \in Pages |-> FALSE]
    /\ clock_circle = 0
    /\ turns = 0
    /\ since = [p \in Pages |-> 0]

\* vmem_read and vmem_write, once the access went through.
MarkReferenced ==
    /\ referenced' = [referenced EXCEPT ![access.page] = TRUE]
    /\ since' = [since EXCEPT ![access.page] = 0]
    /\ UNCHANGED <<clock_circle, turns>>

\* Mutant: only writing marks a page.
vmem_read_unmarked ==
    /\ ReadPage
    /\ since' = [since EXCEPT ![access.page] = 0]
    /\ UNCHANGED <<referenced, clock_circle, turns>>

vmem_read == ReadPage /\ MarkReferenced

vmem_write ==
    /\ WritePage
    /\ dirty' = [dirty EXCEPT ![access.page] = TRUE]
    /\ MarkReferenced

MoveHand ==
    /\ clock_circle' = (clock_circle + 1) % NUM_VPAGES
    /\ turns' = turns + 1
    /\ since' = [p \in Pages |-> IF since[p] < NUM_VPAGES THEN since[p] + 1
                                                          ELSE since[p]]

\* Mutant: the mark is not cleared.
SkipUncleared ==
    /\ Full
    /\ clock_circle \in Resident => referenced[clock_circle]
    /\ MoveHand
    /\ UNCHANGED <<base, referenced>>

\* The hand passes a page that is not resident, or clears a mark.
Skip ==
    /\ Full
    /\ clock_circle \in Resident => referenced[clock_circle]
    /\ referenced' = IF clock_circle \in Resident
                     THEN [referenced EXCEPT ![clock_circle] = FALSE]
                     ELSE referenced
    /\ MoveHand
    /\ UNCHANGED base

\* The search ends at an unmarked resident page, which is evicted.
Evict ==
    /\ Full
    /\ clock_circle \in Resident
    /\ ~referenced[clock_circle]
    /\ EvictPage(clock_circle, "swapped")
    /\ referenced' = [referenced EXCEPT ![clock_circle] = FALSE]
    /\ MoveHand

\* Mutant: a loaded page is clean until vmem_write marks it.
LoadClean(p) ==
    /\ pc = "load"
    /\ access.page = p
    /\ LoadPage(p, state[p] = "swapped", FALSE, "rw")
    /\ referenced' = [referenced EXCEPT ![p] = FALSE]
    /\ turns' = 0
    /\ UNCHANGED <<clock_circle, since>>

Load(p) ==
    /\ pc = "load"
    /\ access.page = p
    /\ LoadPage(p, state[p] = "swapped", TRUE, "rw")
    /\ referenced' = [referenced EXCEPT ![p] = FALSE]
    /\ turns' = 0
    /\ UNCHANGED <<clock_circle, since>>

\* The steps that do not concern the clock.
Other ==
    \/ InitVmem
    \/ \E a \in Accesses : Begin(a)
    \/ Fault
    \/ Room
    \/ LoadOutside
    \/ \E from \in {"start", "fault", "load"} : SysCallFails(from)
    \/ Destroy

Ended == pc \in {"done", "exit", "killed"} /\ UNCHANGED vars

Next ==
    \/ Other /\ UNCHANGED <<referenced, clock_circle, turns, since>>
    \/ vmem_read
    \/ vmem_write
    \/ Skip
    \/ Evict
    \/ \E p \in Pages : Load(p)
    \/ Ended

Spec == Init /\ [][Next]_vars

\* The process keeps running while an access or the handler is under way.
FairSpec == Spec /\ WF_vars(Next /\ pc \in {"access", "fault", "load"})

-----------------------------------------------------------------------------
\* The variables have the types of the declarations, and the clock hand is an
\* index of page_table.
TypeOK ==
    /\ BaseTypeOK
    /\ referenced \in [Pages -> BOOLEAN]
    /\ clock_circle \in Pages
    /\ turns \in Nat
    /\ since \in [Pages -> 0..NUM_VPAGES]

\* The page table, the protection of the pages and resident_count agree, and
\* load_page is never called for a resident page.
Residence ==
    /\ resident_count = Cardinality(Resident)
    /\ \A p \in Pages : prot[p] = IF p \in Resident THEN "rw" ELSE "none"
    /\ pc = "load" => access.page \notin Resident

\* The search for a victim ends although the loop is while (1): at worst the
\* hand passes all pages that are not resident, clears the mark of every resident
\* page, and after one full round is back at the first of them.
SearchIsBounded == turns <= 2 * NUM_VPAGES - MAX_RESIDENT + 1

\* A page that has been used is given its second chance: between its last use
\* and its eviction the hand passes every page of the table, and all other
\* candidates with it.
SecondChance ==
    Full /\ clock_circle \in Resident /\ ~referenced[clock_circle]
        => since[clock_circle] = NUM_VPAGES

\* Every page that is resident is marked dirty, so that no page is called
\* swapped without having been written to the swap file.
ResidentIsDirty == \A p \in Resident : dirty[p]

\* All of this about the page table holds together.
TableInv == TypeOK /\ Residence /\ ResidentIsDirty

\* Reading a page returns what was last written to it, or zero, and every access
\* takes effect once: evicting and loading are invisible.
FlatSpec == Memory!ASpec

\* The handler returns and the interrupted access completes, unless the program
\* ends.
AccessEnds == pc = "access" ~> pc \in {"idle", "exit", "killed"}
=============================================================================
