---------------------------- MODULE VmemDirtyProofs ---------------------------
(***************************************************************************)
(* mini_vmem_dirty_tracking.c, for any number of pages, any residence      *)
(* limit and any page contents: the handler's bookkeeping is right, and    *)
(* paging is invisible (VmemDirty implements FlatMemory).                  *)
(***************************************************************************)
EXTENDS VmemDirty, FiniteSetTheorems, TLAPS

\* The declared types are right at the start.
LEMMA TypeInit == Init => TypeOK
BY VmemAssumption
DEF VmemAssumption, Init, BaseInit, TypeOK, BaseTypeOK, Accesses, Pages

\* Every step of the program keeps the declared types.
LEMMA TypeStep == TypeOK /\ [Next]_vars => TypeOK'
<1> SUFFICES ASSUME TypeOK, [Next]_vars PROVE TypeOK'
  OBVIOUS
<1> USE VmemAssumption DEF VmemAssumption, TypeOK, BaseTypeOK, table, store
<1>1. CASE Other /\ UNCHANGED <<in_swap, written>>
  <2>1. CASE ReadPage
    BY <1>1, <2>1 DEF ReadPage, Permitted, Accesses
  <2>2. CASE \E a \in Accesses : Begin(a)
    BY <1>1, <2>2 DEF Begin
  <2>3. CASE Missing /\ Room
    BY <1>1, <2>3 DEF Room
  <2>4. CASE InitVmem \/ Fault \/ Destroy
    BY <1>1, <2>4 DEF InitVmem, Fault, Destroy
  <2>5. CASE UpgradeOutside \/ LoadOutside
    BY <1>1, <2>5 DEF UpgradeOutside, LoadOutside
  <2>6. CASE \E from \in {"start", "fault", "load"} : SysCallFails(from)
    BY <1>1, <2>6 DEF SysCallFails
  <2> QED
    BY <1>1, <2>1, <2>2, <2>3, <2>4, <2>5, <2>6 DEF Other
<1>2. CASE /\ WritePage
           /\ written' = written \cup {access.page}
           /\ UNCHANGED <<dirty, in_swap>>
  BY <1>2 DEF WritePage, Permitted, Accesses
<1>3. CASE Upgrade
  BY <1>3 DEF Upgrade, Resident
<1>4. ASSUME NEW v \in Pages, Evict(v) PROVE TypeOK'
  BY <1>4 DEF Evict, EvictPage, Full
<1>5. ASSUME NEW p \in Pages, Load(p) PROVE TypeOK'
  BY <1>5 DEF Load, LoadPage
<1>6. CASE UNCHANGED vars
  BY <1>6 DEF vars, base
<1> QED
  BY <1>1, <1>2, <1>3, <1>4, <1>5, <1>6 DEF Next, Ended

\* The variables always have their declared types, and resident_count never
\* exceeds MAX_RESIDENT (load_page evicts before it loads).
THEOREM TypeCorrect == Spec => []TypeOK
BY TypeInit, TypeStep, PTL DEF Spec

-----------------------------------------------------------------------------
\* What the handler relies on: it is entered only for an access that the
\* protection refuses, and a page that is not resident is called swapped exactly
\* when its slot was written.
Bookkeeping ==
    /\ \A p \in Pages : prot[p] = IF p \notin Resident THEN "none"
                                  ELSE IF dirty[p] THEN "rw" ELSE "r"
    /\ pc = "fault" => ~Permitted
    /\ pc = "load" => access.page \notin Resident
    /\ \A p \in Pages \ Resident : in_swap[p] <=> state[p] = "swapped"

\* The inductive invariant, apart from the count of the resident pages.
PageInv == TypeOK /\ Bookkeeping /\ CleanHasCopy /\ DirtyIsWritten

\* Nothing is resident at the start.
LEMMA PageInit == Init => PageInv
BY TypeInit, VmemAssumption
DEF VmemAssumption, PageInv, Init, BaseInit, Bookkeeping, CleanHasCopy,
    DirtyIsWritten, Resident

\* A step that changes neither the page table nor memory nor swap keeps the
\* invariant, unless it drops a write that has just been permitted.
LEMMA PageQuiet ==
    ASSUME PageInv, TypeOK', UNCHANGED <<table, store, in_swap, written>>,
           pc' = "fault" => ~Permitted',
           pc' = "load" => access'.page \notin Resident,
           \A p \in Resident \ written : ~dirty[p]
    PROVE  PageInv'
BY DEF PageInv, TypeOK, BaseTypeOK, Bookkeeping, CleanHasCopy, DirtyIsWritten,
       Resident, table, store

\* While no access is permitted, every dirty page has been written.
LEMMA NothingPending ==
    ASSUME PageInv, pc # "access" \/ ~Permitted \/ access.op = "read"
    PROVE  \A p \in Resident \ written : ~dirty[p]
<1> SUFFICES ASSUME NEW p \in Resident \ written, dirty[p] PROVE FALSE
  OBVIOUS
<1>1. pc = "access" /\ access.op = "write" /\ access.page = p
  BY DEF PageInv, DirtyIsWritten
<1>2. p \in Pages /\ p # Outside
  BY VmemAssumption DEF VmemAssumption, Resident
<1>3. prot[p] = "rw"
  BY <1>2 DEF PageInv, Bookkeeping
<1> QED
  BY <1>1, <1>2, <1>3 DEF Permitted

\* The handler calls load_page only for a page that is not resident.
LEMMA MissingIsMissing ==
    ASSUME PageInv, pc = "fault", Missing PROVE access.page \notin Resident
<1> SUFFICES ASSUME access.page \in Resident PROVE FALSE
  OBVIOUS
<1>1. access.page \in Pages /\ access.page # Outside
  BY VmemAssumption DEF VmemAssumption, Resident
<1>2. dirty[access.page]
  BY <1>1 DEF Missing
<1>3. prot[access.page] = "rw"
  BY <1>1, <1>2 DEF PageInv, Bookkeeping
<1> QED
  BY <1>1, <1>3 DEF PageInv, Bookkeeping, Permitted

\* Every step keeps the invariant.
LEMMA PageStep == PageInv /\ [Next]_vars => PageInv'
<1> SUFFICES ASSUME PageInv, [Next]_vars PROVE PageInv'
  OBVIOUS
<1>0. TypeOK /\ TypeOK'
  BY TypeStep DEF PageInv
<1>1. CASE Other /\ UNCHANGED <<in_swap, written>>
  <2>0. \A p \in Resident \ written : ~dirty[p]
    <3>1. pc # "access" \/ ~Permitted \/ access.op = "read"
      BY <1>1 DEF Other, InitVmem, Begin, ReadPage, Fault, Room, UpgradeOutside,
                  LoadOutside, SysCallFails, Destroy
    <3> QED
      BY <3>1, NothingPending
  <2>1. UNCHANGED <<table, store>>
    BY <1>1 DEF Other, InitVmem, Begin, ReadPage, Fault, Room, UpgradeOutside,
                LoadOutside, SysCallFails, Destroy
  <2>2. pc' = "fault" => ~Permitted'
    BY <1>1 DEF Other, InitVmem, Begin, ReadPage, Fault, Room, UpgradeOutside,
                LoadOutside, SysCallFails, Destroy, Permitted, store
  <2>3. pc' = "load" => access'.page \notin Resident
    <3>1. ASSUME pc' = "load" PROVE Missing /\ Room
      BY <1>1, <3>1 DEF Other, InitVmem, Begin, ReadPage, Fault, UpgradeOutside,
                        LoadOutside, SysCallFails, Destroy
    <3>2. ASSUME Missing, Room PROVE access'.page \notin Resident
      BY <3>2, MissingIsMissing DEF Room
    <3> QED
      BY <3>1, <3>2
  <2> QED
    BY <1>0, <1>1, <2>0, <2>1, <2>2, <2>3, PageQuiet
<1>2. CASE /\ WritePage
           /\ written' = written \cup {access.page}
           /\ UNCHANGED <<dirty, in_swap>>
  <2>1. access.page \in Resident /\ dirty[access.page]
    BY <1>0, <1>2 DEF WritePage, Permitted, PageInv, Bookkeeping, TypeOK,
                      BaseTypeOK, Accesses
  <2> QED
    BY <1>0, <1>2, <2>1
    DEF WritePage, PageInv, Bookkeeping, CleanHasCopy, DirtyIsWritten, TypeOK,
        BaseTypeOK, Resident
<1>3. CASE Upgrade
  <2>1. access.op = "write"
    <3>1. access.page \in Pages /\ access.page # Outside
      BY <1>3, VmemAssumption DEF VmemAssumption, Upgrade, Resident
    <3>2. prot[access.page] = "r" /\ ~Permitted
      BY <1>3, <3>1 DEF Upgrade, PageInv, Bookkeeping
    <3>3. access.op \in {"read", "write"}
      BY <1>0 DEF TypeOK, BaseTypeOK, Accesses
    <3> QED
      BY <3>1, <3>2, <3>3 DEF Permitted
  <2>2. \A p \in Resident \ written : ~dirty[p]
    BY <1>3, NothingPending DEF Upgrade
  <2> QED
    BY <1>0, <1>3, <2>1, <2>2
    DEF Upgrade, PageInv, Bookkeeping, CleanHasCopy, DirtyIsWritten, TypeOK,
        BaseTypeOK, Resident
<1>4. ASSUME NEW v \in Pages, Evict(v) PROVE PageInv'
  <2>1. access.page \notin Resident
    BY <1>4, MissingIsMissing DEF Evict, Full
  <2>2. \A p \in Resident \ written : ~dirty[p]
    BY <1>4, NothingPending DEF Evict, Full
  <2> QED
    BY <1>0, <1>4, <2>1, <2>2
    DEF Evict, EvictPage, PageInv, Bookkeeping, CleanHasCopy, DirtyIsWritten,
        TypeOK, BaseTypeOK, Resident
<1>5. ASSUME NEW p \in Pages, Load(p) PROVE PageInv'
  <2>2. \A q \in Resident \ written : ~dirty[q]
    BY <1>5, NothingPending DEF Load
  <2> QED
    BY <1>0, <1>5, <2>2
    DEF Load, LoadPage, PageInv, Bookkeeping, CleanHasCopy, DirtyIsWritten,
        TypeOK, BaseTypeOK, Resident
<1>6. CASE UNCHANGED vars
  BY <1>6 DEF vars, base, table, store, PageInv, TypeOK, BaseTypeOK, Bookkeeping,
              Permitted, CleanHasCopy, DirtyIsWritten, Resident
<1> QED
  BY <1>1, <1>2, <1>3, <1>4, <1>5, <1>6 DEF Next, Ended

-----------------------------------------------------------------------------
\* resident_count is the number of resident pages.
CountInv == resident_count = Cardinality(Resident)

\* The pages are finitely many.
LEMMA FinitePages == IsFiniteSet(Pages) /\ \A S \in SUBSET Pages : IsFiniteSet(S)
<1>1. IsFiniteSet(Pages)
  BY FS_Interval, VmemAssumption DEF VmemAssumption, Pages
<1> QED
  BY <1>1, FS_Subset

\* Evicting takes one page out of the count, loading adds one.
LEMMA CountStep == PageInv /\ CountInv /\ [Next]_vars => CountInv'
<1> SUFFICES ASSUME PageInv, CountInv, [Next]_vars PROVE CountInv'
  OBVIOUS
<1>0. state \in [Pages -> {"empty", "resident", "swapped"}]
  BY DEF PageInv, TypeOK, BaseTypeOK
<1>f. IsFiniteSet(Resident)
  BY FinitePages DEF Resident
<1>1. CASE UNCHANGED <<state, resident_count>>
  BY <1>1 DEF CountInv, Resident
<1>2. ASSUME NEW v \in Pages, Evict(v) PROVE CountInv'
  <2>1. v \in Resident
    BY <1>2 DEF Evict, Oldest
  <2>2. Resident' = Resident \ {v}
    BY <1>0, <1>2 DEF Evict, EvictPage, Resident
  <2>3. resident_count' = resident_count - 1
    BY <1>2 DEF Evict, EvictPage
  <2> QED
    BY <1>f, <2>1, <2>2, <2>3, FS_RemoveElement DEF CountInv
<1>3. ASSUME NEW p \in Pages, Load(p) PROVE CountInv'
  <2>1. p \notin Resident
    BY <1>3 DEF Load, PageInv, Bookkeeping
  <2>2. Resident' = Resident \cup {p}
    BY <1>0, <1>3 DEF Load, LoadPage, Resident
  <2>3. resident_count' = resident_count + 1
    BY <1>3 DEF Load, LoadPage
  <2> QED
    BY <1>f, <2>1, <2>2, <2>3, FS_AddElement DEF CountInv
<1>4. \/ UNCHANGED <<state, resident_count>>
      \/ \E v \in Pages : Evict(v)
      \/ \E p \in Pages : Load(p)
  BY DEF Next, vars, base, table, Ended, Other, InitVmem, Begin, ReadPage, WritePage,
         Fault, Room, Upgrade, UpgradeOutside, LoadOutside, SysCallFails, Destroy
<1> QED
  BY <1>1, <1>2, <1>3, <1>4

\* All that is said of the page table in VmemDirty holds of every reachable
\* state.
THEOREM PageTableCorrect == Spec => []TableInv
<1>1. Init => PageInv /\ CountInv
  <2>1. Init => Resident = {} /\ resident_count = 0
    BY DEF Init, BaseInit, Resident
  <2> QED
    BY <2>1, PageInit, FS_EmptySet DEF CountInv
<1>2. PageInv /\ CountInv /\ [Next]_vars => (PageInv /\ CountInv)'
  BY PageStep, CountStep
<1>3. PageInv /\ CountInv => TableInv
  BY DEF PageInv, CountInv, Bookkeeping, Residence, TableInv
<1> QED
  BY <1>1, <1>2, <1>3, PTL DEF Spec

-----------------------------------------------------------------------------
\* Every step of the program is a step of the flat memory or invisible there.
LEMMA FlatStep == PageInv /\ [Next]_vars => [Memory!ANext]_(Memory!avars)
<1> SUFFICES ASSUME PageInv, [Next]_vars PROVE [Memory!ANext]_(Memory!avars)
  OBVIOUS
<1>0. TypeOK
  BY DEF PageInv
<1>1. CASE Other /\ ~ReadPage
  <2>1. View' = View /\ out' = out
    BY <1>1 DEF Other, InitVmem, Begin, Fault, Room, UpgradeOutside, LoadOutside,
                SysCallFails, Destroy, table, store, View
  <2>2. CASE \E a \in Accesses : Begin(a)
    BY <2>1, <2>2 DEF Begin, Status, Memory!ANext, Memory!ARequest
  <2>3. CASE InitVmem \/ Fault \/ Room
    BY <2>1, <2>3 DEF InitVmem, Fault, Room, Status, Memory!avars
  <2>4. CASE UpgradeOutside \/ LoadOutside \/ Destroy
    BY <2>1, <2>4 DEF UpgradeOutside, LoadOutside, Destroy, Status, Memory!ANext,
                      Memory!AEnd
  <2>5. CASE \E from \in {"start", "fault", "load"} : SysCallFails(from)
    BY <2>1, <2>5 DEF SysCallFails, Status, Memory!ANext, Memory!AEnd
  <2> QED
    BY <1>1, <2>2, <2>3, <2>4, <2>5 DEF Other
<1>2. CASE ReadPage
  <2>1. access.page \in Resident
    BY <1>0, <1>2 DEF ReadPage, Permitted, PageInv, Bookkeeping, TypeOK, BaseTypeOK,
                      Accesses
  <2>2. out' = View[access.page] /\ View' = View /\ access.page \in Pages
    BY <1>2, <2>1 DEF ReadPage, table, store, View, Resident
  <2> QED
    BY <1>2, <2>2 DEF ReadPage, Status, Memory!ANext, Memory!ARead
<1>3. CASE WritePage
  <2>1. access.page \in Resident
    BY <1>0, <1>3 DEF WritePage, Permitted, PageInv, Bookkeeping, TypeOK, BaseTypeOK,
                      Accesses
  <2>2. access.page \in Pages /\ out' = out
    BY <1>3, <2>1 DEF WritePage, Resident
  <2>3. View' = [View EXCEPT ![access.page] = access.val]
    BY <1>0, <1>3, <2>1 DEF WritePage, View, Resident, TypeOK, BaseTypeOK
  <2> QED
    BY <1>3, <2>2, <2>3 DEF WritePage, Status, Memory!ANext, Memory!AWrite
<1>4. CASE Upgrade
  BY <1>4 DEF Upgrade, View, Status, Memory!avars
<1>5. ASSUME NEW v \in Pages, Evict(v) PROVE UNCHANGED Memory!avars
  <2>1. View' = View
    BY <1>0, <1>5 DEF Evict, EvictPage, Oldest, PageInv, CleanHasCopy, View,
                      Resident, TypeOK, BaseTypeOK
  <2> QED
    BY <1>5, <2>1 DEF Evict, EvictPage, Full, Status, Memory!avars
<1>6. ASSUME NEW p \in Pages, Load(p) PROVE UNCHANGED Memory!avars
  <2>1. View' = View
    BY <1>0, <1>6 DEF Load, LoadPage, PageInv, Bookkeeping, View, Resident, TypeOK,
                      BaseTypeOK
  <2> QED
    BY <1>6, <2>1 DEF Load, LoadPage, Status, Memory!avars
<1>7. CASE UNCHANGED vars
  BY <1>7 DEF vars, base, table, store, View, Status, Memory!avars
<1> QED
  BY <1>1, <1>2, <1>3, <1>4, <1>5, <1>6, <1>7 DEF Next, Ended

\* mini_vmem_dirty_tracking.c implements a flat memory: whatever is evicted,
\* dropped as clean, written back or reloaded, reads return the last write, and
\* every access that is not cut short by the end of the program is served once.
THEOREM ImplementsFlatMemory == Spec => FlatSpec
<1>1. Init => Memory!AInit
  BY TypeInit DEF Init, BaseInit, TypeOK, BaseTypeOK, Memory!AInit, View, Status
<1> QED
  BY <1>1, PageInit, PageStep, FlatStep, PTL DEF Spec, FlatSpec, Memory!ASpec
=============================================================================
