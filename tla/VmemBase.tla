------------------------------- MODULE VmemBase -------------------------------
(***************************************************************************)
(* The part that the three mini_vmem programs of os_lab5 have in common:   *)
(* NUM_VPAGES pages of which at most MAX_RESIDENT are accessible; the      *)
(* others are PROT_NONE, and touching one raises SIGSEGV, whose handler    *)
(* evicts a page to the swap file and loads the missing one.               *)
(*                                                                         *)
(* The content of a page is one value.  The program is single-threaded:    *)
(* it makes an access, the hardware checks the protection and either       *)
(* completes the access or enters the handler, after which the access is   *)
(* tried again.  pc says how far the access is.                            *)
(***************************************************************************)
EXTENDS Integers, Sequences, FiniteSets

CONSTANTS
    NUM_VPAGES, MAX_RESIDENT,
    Values, Zero,       \* the contents of a page; Zero: all bytes are 0
    Outside,            \* an address that is not in the managed region
    MaxTick             \* bound on the number of loads in a behaviour

Pages == 0..(NUM_VPAGES - 1)

ASSUME VmemAssumption ==
    /\ NUM_VPAGES \in Nat
    /\ MAX_RESIDENT \in Nat \ {0}
    /\ Zero \in Values
    /\ Outside \notin Pages
    /\ MaxTick \in Nat

VARIABLES
    state,              \* page_table[p].state
    dirty,              \* page_table[p].dirty
    load_time,          \* page_table[p].load_time, 0 unless resident
    resident_count,
    clock_tick,
    mem,                \* the content of the page in memory, accessible or not
    prot,               \* its protection: "none", "r" or "rw"
    swap,               \* the content of the page's slot in mini_vmem.swap
    access,             \* the access under way
    out,                \* the value that the last read returned
    pc

table == <<state, dirty, load_time, resident_count, clock_tick>>
store == <<mem, prot, swap>>
base == <<table, store, access, out, pc>>

Accesses ==
         [op : {"read"}, page : Pages \cup {Outside}, val : {Zero}]
    \cup [op : {"write"}, page : Pages \cup {Outside}, val : Values]

Resident == {p \in Pages : state[p] = "resident"}

\* The static variables, before init_vmem.
BaseInit ==
    /\ state = [p \in Pages |-> "empty"]
    /\ dirty = [p \in Pages |-> FALSE]
    /\ load_time = [p \in Pages |-> 0]
    /\ resident_count = 0
    /\ clock_tick = 0
    /\ mem = [p \in Pages |-> Zero]
    /\ prot = [p \in Pages |-> "none"]
    /\ swap = [p \in Pages |-> Zero]
    /\ access = [op |-> "read", page |-> Outside, val |-> Zero]
    /\ out = Zero
    /\ pc = "start"

\* init_vmem: the region is mapped without access, the swap file is created.
InitVmem ==
    /\ pc = "start"
    /\ pc' = "idle"
    /\ UNCHANGED <<table, store, access, out>>

\* Any of the system calls may fail; the program then calls exit(1).
SysCallFails(from) ==
    /\ pc = from
    /\ pc' = "exit"
    /\ UNCHANGED <<table, store, access, out>>

Begin(a) ==
    /\ pc = "idle"
    /\ clock_tick < MaxTick
    /\ access' = a
    /\ pc' = "access"
    /\ UNCHANGED <<table, store, out>>

Permitted ==
    /\ access.page # Outside
    /\ prot[access.page] \in IF access.op = "read" THEN {"r", "rw"} ELSE {"rw"}

\* The hardware carries out the access.
ReadPage ==
    /\ pc = "access"
    /\ Permitted
    /\ access.op = "read"
    /\ out' = mem[access.page]
    /\ pc' = "idle"
    /\ UNCHANGED <<table, store, access>>

WritePage ==
    /\ pc = "access"
    /\ Permitted
    /\ access.op = "write"
    /\ mem' = [mem EXCEPT ![access.page] = access.val]
    /\ pc' = "idle"
    /\ UNCHANGED <<state, load_time, resident_count, clock_tick, prot, swap,
                   access, out>>

\* The hardware refuses it, and the kernel delivers SIGSEGV.
Fault ==
    /\ pc = "access"
    /\ ~Permitted
    /\ pc' = "fault"
    /\ UNCHANGED <<table, store, access, out>>

\* load_page has room for one more page.
Room ==
    /\ pc = "fault"
    /\ resident_count < MAX_RESIDENT
    /\ pc' = "load"
    /\ UNCHANGED <<table, store, access, out>>

\* Mutant: the content is not saved.
EvictUnwritten(v, to) ==
    /\ prot' = [prot EXCEPT ![v] = "none"]
    /\ state' = [state EXCEPT ![v] = to]
    /\ dirty' = [dirty EXCEPT ![v] = FALSE]
    /\ load_time' = [load_time EXCEPT ![v] = 0]
    /\ resident_count' = resident_count - 1
    /\ pc' = "load"
    /\ UNCHANGED <<clock_tick, mem, swap, access, out>>

\* Mutant: resident_count-- is missing.
EvictUncounted(v, to) ==
    /\ swap' = IF dirty[v] THEN [swap EXCEPT ![v] = mem[v]] ELSE swap
    /\ prot' = [prot EXCEPT ![v] = "none"]
    /\ state' = [state EXCEPT ![v] = to]
    /\ dirty' = [dirty EXCEPT ![v] = FALSE]
    /\ load_time' = [load_time EXCEPT ![v] = 0]
    /\ pc' = "load"
    /\ UNCHANGED <<resident_count, clock_tick, mem, access, out>>

\* Mutant: the page stays accessible.
EvictAccessible(v, to) ==
    /\ swap' = IF dirty[v] THEN [swap EXCEPT ![v] = mem[v]] ELSE swap
    /\ state' = [state EXCEPT ![v] = to]
    /\ dirty' = [dirty EXCEPT ![v] = FALSE]
    /\ load_time' = [load_time EXCEPT ![v] = 0]
    /\ resident_count' = resident_count - 1
    /\ pc' = "load"
    /\ UNCHANGED <<prot, clock_tick, mem, access, out>>

\* evict_page: a dirty page goes to its slot of the swap file; to is its state
\* from now on.
EvictPage(v, to) ==
    /\ swap' = IF dirty[v] THEN [swap EXCEPT ![v] = mem[v]] ELSE swap
    /\ prot' = [prot EXCEPT ![v] = "none"]
    /\ state' = [state EXCEPT ![v] = to]
    /\ dirty' = [dirty EXCEPT ![v] = FALSE]
    /\ load_time' = [load_time EXCEPT ![v] = 0]
    /\ resident_count' = resident_count - 1
    /\ pc' = "load"
    /\ UNCHANGED <<clock_tick, mem, access, out>>

\* The rest of load_page: the page gets its content from swap or is cleared.
LoadPage(p, fromSwap, isDirty, rights) ==
    /\ mem' = [mem EXCEPT ![p] = IF fromSwap THEN swap[p] ELSE Zero]
    /\ prot' = [prot EXCEPT ![p] = rights]
    /\ state' = [state EXCEPT ![p] = "resident"]
    /\ dirty' = [dirty EXCEPT ![p] = isDirty]
    /\ load_time' = [load_time EXCEPT ![p] = clock_tick + 1]
    /\ clock_tick' = clock_tick + 1
    /\ resident_count' = resident_count + 1
    /\ pc' = "access"
    /\ UNCHANGED <<swap, access, out>>

\* Mutant: the handler returns and the access is tried again.
LoadOutsideReturns ==
    /\ pc = "load"
    /\ access.page = Outside
    /\ pc' = "access"
    /\ UNCHANGED <<table, store, access, out>>

\* For an address outside the region page_no is -1.  raise(SIGSEGV) leaves the
\* signal pending, because it is blocked while its handler runs, and load_page
\* goes on with page -1: mprotect fails and the program exits, or it clears
\* whatever is mapped below vm_base and the pending signal ends the process.
\* What it does to page_table[-1] matters to nobody any more.
LoadOutside ==
    /\ pc = "load"
    /\ access.page = Outside
    /\ pc' \in {"exit", "killed"}
    /\ UNCHANGED <<table, store, access, out>>

Destroy ==
    /\ pc = "idle"
    /\ pc' = "done"
    /\ UNCHANGED <<table, store, access, out>>

Full == pc = "fault" /\ resident_count >= MAX_RESIDENT

BaseTypeOK ==
    /\ state \in [Pages -> {"empty", "resident", "swapped"}]
    /\ dirty \in [Pages -> BOOLEAN]
    /\ load_time \in [Pages -> Nat]
    /\ resident_count \in 0..MAX_RESIDENT
    /\ pc = "load" => resident_count < MAX_RESIDENT
    /\ clock_tick \in Nat
    /\ mem \in [Pages -> Values]
    /\ prot \in [Pages -> {"none", "r", "rw"}]
    /\ swap \in [Pages -> Values]
    /\ access \in Accesses
    /\ out \in Values
    /\ pc \in {"start", "idle", "access", "fault", "load", "done", "exit", "killed"}

\* What the program sees in page p.
View == [p \in Pages |-> IF state[p] = "resident" THEN mem[p]
                         ELSE IF state[p] = "swapped" THEN swap[p] ELSE Zero]

Status == IF pc \in {"start", "idle"} THEN "idle"
          ELSE IF pc \in {"access", "fault", "load"} THEN "busy" ELSE "ended"

Memory == INSTANCE FlatMemory
          WITH cells <- View, request <- access, status <- Status,
               Requests <- Accesses
=============================================================================
