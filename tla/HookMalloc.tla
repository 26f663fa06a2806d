----------------------------- MODULE HookMalloc -----------------------------
(***************************************************************************)
(* os_lab4/hook_malloc.c: malloc, free, calloc and realloc for threads, on *)
(* top of the allocator of module MyMalloc, whose steps are taken by the   *)
(* thread that holds the mutex.  calloc clears and realloc looks at the    *)
(* old block and copies it without the mutex.                              *)
(*                                                                         *)
(* mem is the memory byte by byte; a thread owns at most one block and     *)
(* fills it with its own mark.                                             *)
(***************************************************************************)
EXTENDS MyMalloc

CONSTANTS
    Threads,        \* numbers, the marks they write
    Members         \* first arguments of calloc

VARIABLES
    lock,       \* the thread that holds the mutex, or Nobody
    th,         \* th[t]: the call the thread is in
    mine,       \* mine[t]: its block, the bytes it asked for, the bytes it has filled
    mem

hookVars == <<lock, th, mine, mem>>
allVars == <<vars, hookVars>>

Nobody == 0
Zero == 0
Header == -1
Junk == -2

Out == [op |-> "none", at |-> "out", size |-> 0, new |-> NULL]
NoBlock == [ptr |-> NULL, size |-> 0, filled |-> 0]

HookInit ==
    /\ Init
    /\ lock = Nobody
    /\ th = [t \in Threads |-> Out]
    /\ mine = [t \in Threads |-> NoBlock]
    /\ mem = [a \in Addresses |-> Junk]

Goto(t, at) == th' = [th EXCEPT ![t].at = at]
Done(t) == th' = [th EXCEPT ![t] = Out]
Enter(t, op, size, at) == th' = [th EXCEPT ![t] = [op |-> op, at |-> at, size |-> size, new |-> NULL]]

-----------------------------------------------------------------------------
(* The calls                                                               *)

malloc(t, size) ==
    /\ th[t].at = "out" /\ mine[t].ptr = NULL
    /\ Enter(t, "malloc", size, "lock")
    /\ UNCHANGED <<vars, lock, mine, mem>>

\* free(NULL) returns at once.
free(t) ==
    /\ th[t].at = "out" /\ mine[t].ptr # NULL
    /\ Enter(t, "free", 0, "lockfree")
    /\ UNCHANGED <<vars, lock, mine, mem>>

\* calloc refuses a product that does not fit in size_t.
calloc(t, nmemb, size) ==
    /\ th[t].at = "out" /\ mine[t].ptr = NULL
    /\ nmemb # 0 => size <= (SizeMod - 1) \div nmemb
    /\ Enter(t, "calloc", nmemb * size, "lock")
    /\ UNCHANGED <<vars, lock, mine, mem>>

\* realloc(NULL, size) is malloc, realloc(ptr, 0) is free, and a block that is
\* large enough is kept.
realloc(t, size) ==
    /\ th[t].at = "out"
    /\ IF mine[t].ptr = NULL THEN Enter(t, "malloc", size, "lock") /\ UNCHANGED mine
       ELSE IF size = 0 THEN Enter(t, "free", 0, "lockfree") /\ UNCHANGED mine
       ELSE IF heap[HeaderOf(mine[t].ptr)].size >= size
            THEN /\ mine' = [mine EXCEPT ![t] = [@ EXCEPT !.size = size,
                                !.filled = IF @ < size THEN @ ELSE size]]
                 /\ UNCHANGED th
            ELSE Enter(t, "realloc", size, "lock") /\ UNCHANGED mine
    /\ UNCHANGED <<vars, lock, mem>>

-----------------------------------------------------------------------------
(* Under the mutex                                                         *)

\* The headers that the allocator writes change the memory they occupy.
Written(h) == [a \in Addresses |-> IF \E b \in DOMAIN h : a \in b..(b + META_SIZE - 1)
                                   THEN Header ELSE mem[a]]

Fill(p, n, f(_)) == mem' = [a \in Addresses |-> IF a \in p..(p + n - 1) THEN f(a) ELSE mem[a]]

MayLock(t) == lock = Nobody

LockMalloc(t) ==
    /\ th[t].at = "lock"
    /\ MayLock(t)
    /\ lock' = t
    /\ Goto(t, "inside")
    /\ MallocZero(th[t].size) \/ MallocBegin(th[t].size)
    /\ UNCHANGED <<mine, mem>>

InMalloc(t) ==
    /\ lock = t /\ th[t].at = "inside" /\ call.at # "idle"
    /\ my_malloc
    /\ mem' = Written(heap')
    /\ UNCHANGED <<lock, th, mine>>

\* The mutex is released, and the pointer is the caller's or calloc's or realloc's.
UnlockMalloc(t) ==
    /\ lock = t /\ th[t].at = "inside" /\ call.at = "idle"
    /\ lock' = Nobody
    /\ IF th[t].op = "malloc"
       THEN /\ mine' = [mine EXCEPT ![t] = IF ret = NULL THEN NoBlock
                                           ELSE [ptr |-> ret, size |-> th[t].size, filled |-> 0]]
            /\ Done(t)
       ELSE /\ th' = [th EXCEPT ![t].at = "after", ![t].new = ret]
            /\ UNCHANGED mine
    /\ UNCHANGED <<vars, mem>>

\* What a freed block holds is not looked at any more: it is forgotten.
LockFree(t) ==
    /\ th[t].at = "lockfree"
    /\ MayLock(t)
    /\ lock' = t
    /\ my_free(mine[t].ptr)
    /\ Fill(mine[t].ptr, heap[HeaderOf(mine[t].ptr)].size, LAMBDA a : Junk)
    /\ Goto(t, "freed")
    /\ UNCHANGED mine

\* The end of free, or of realloc, whose caller gets the new block.
UnlockFree(t) ==
    /\ lock = t /\ th[t].at = "freed"
    /\ lock' = Nobody
    /\ mine' = [mine EXCEPT ![t] = IF th[t].new = NULL THEN NoBlock
                                   ELSE [@ EXCEPT !.ptr = th[t].new, !.size = th[t].size]]
    /\ Done(t)
    /\ UNCHANGED <<vars, mem>>

-----------------------------------------------------------------------------
(* Without the mutex                                                       *)

\* Mutants: one element is cleared; the header is counted in.
ClearSizeOver(t) == th[t].size + 2 * META_SIZE
ClearSizeOne(t) == IF th[t].size = 0 THEN 0 ELSE 1

ClearSize(t) == th[t].size

\* memset, and calloc returns.
CallocClears(t) ==
    /\ th[t].op = "calloc" /\ th[t].at = "after"
    /\ IF th[t].new = NULL THEN UNCHANGED <<mine, mem>>
       ELSE /\ Fill(th[t].new, ClearSize(t), LAMBDA a : Zero)
            /\ mine' = [mine EXCEPT ![t] = [ptr |-> th[t].new, size |-> th[t].size, filled |-> 0]]
    /\ Done(t)
    /\ UNCHANGED <<vars, lock>>

\* memcpy, after which the old block is freed; or realloc returns NULL.
ReallocCopies(t) ==
    /\ th[t].op = "realloc" /\ th[t].at = "after"
    /\ IF th[t].new = NULL THEN Done(t) /\ UNCHANGED mem
       ELSE /\ Fill(th[t].new, heap[HeaderOf(mine[t].ptr)].size, LAMBDA a : mem[mine[t].ptr + (a - th[t].new)])
            /\ Goto(t, "lockfree")
    /\ UNCHANGED <<vars, lock, mine>>

\* The thread writes its mark to all the bytes it asked for.
Use(t) ==
    /\ th[t].at = "out"
    /\ Fill(mine[t].ptr, mine[t].size, LAMBDA a : t)
    /\ mine' = [mine EXCEPT ![t].filled = mine[t].size]
    /\ UNCHANGED <<vars, lock, th>>

-----------------------------------------------------------------------------
Step(t) ==
    \/ LockMalloc(t) \/ InMalloc(t) \/ UnlockMalloc(t) \/ LockFree(t) \/ UnlockFree(t)
    \/ CallocClears(t) \/ ReallocCopies(t)

\* A thread fills its block before its next call.
Call(t) ==
    IF mine[t].filled < mine[t].size THEN Use(t)
    ELSE \/ \E n \in Sizes \cup {0} : malloc(t, n) \/ realloc(t, n)
         \/ \E nmemb \in Members : calloc(t, nmemb, 1)
         \/ free(t)

HookNext == \E t \in Threads : Step(t) \/ Call(t)

HookSpec == HookInit /\ [][HookNext]_allVars

-----------------------------------------------------------------------------
\* What a thread has written to its block stays there, whatever the other
\* threads allocate, split, clear, copy and free, and across its own reallocs.
ContentsKept ==
    \A t \in Threads : \A i \in 0..(mine[t].filled - 1) :
        th[t].at # "freed" => mem[mine[t].ptr + i] = t

\* Blocks of two threads, or a block and the new one of a realloc, share no byte.
OneOwner ==
    LET Held(t) == (IF mine[t].ptr = NULL THEN {} ELSE mine[t].ptr..(mine[t].ptr + mine[t].size - 1))
        New(t) == IF th[t].new = NULL THEN {} ELSE th[t].new..(th[t].new + th[t].size - 1)
    IN  \A t, u \in Threads :
            /\ t # u => (Held(t) \cup New(t)) \cap (Held(u) \cup New(u)) = {}
            /\ th[t].at # "freed" => Held(t) \cap New(t) = {}

\* calloc returns memory that is zero.
CallocZeroes ==
    \A t \in Threads : th[t].op = "calloc" /\ th'[t].op = "none" /\ mine'[t].ptr # NULL =>
        \A i \in 0..(mine'[t].size - 1) : mem'[mine'[t].ptr + i] = Zero
=============================================================================
