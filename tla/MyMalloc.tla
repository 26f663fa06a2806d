------------------------------ MODULE MyMalloc ------------------------------
(***************************************************************************)
(* os_lab4/my_malloc.c: a first-fit allocator on a list of blocks.         *)
(*                                                                         *)
(* A block is a header at some address and size bytes after it.  heap maps *)
(* the address of every header of the list to its fields.  The loop of     *)
(* find_free_block is taken one block at a time.                           *)
(*                                                                         *)
(* The allocator is called by one thread at a time.  Other code that takes *)
(* memory with sbrk does so between the calls: nothing runs between the    *)
(* sbrk(0) and the sbrk(META_SIZE + size) of request_space, which are one  *)
(* step.                                                                   *)
(***************************************************************************)
EXTENDS Integers, FiniteSets

CONSTANTS
    META_SIZE,      \* sizeof(block_meta)
    SizeMod,        \* size_t is arithmetic modulo this
    Base, Limit,    \* the program break at the start, and how far it may go
    Sizes,          \* arguments of my_malloc
    OtherSizes      \* what other users of sbrk in the process take at a time

NULL == 0

VARIABLES
    global_base,
    heap,           \* [size, free, next] of the blocks of the list
    brk,            \* the program break
    call,           \* my_malloc in progress: where, its argument, current, last
    ret,            \* what the last call returned
    live            \* history: the pointers in use and the sizes asked for

vars == <<global_base, heap, brk, call, ret, live>>

Idle == [at |-> "idle", size |-> 0, current |-> NULL, last |-> NULL]

Init ==
    /\ global_base = NULL
    /\ heap = [a \in {} |-> NULL]
    /\ brk = Base
    /\ call = Idle
    /\ ret = NULL
    /\ live = [p \in {} |-> 0]

Payload(a) == a + META_SIZE
End(a) == Payload(a) + heap[a].size

\* Another part of the program moves the break.
OtherSbrk(n) ==
    /\ brk + n <= Limit
    /\ brk' = brk + n
    /\ UNCHANGED <<global_base, heap, call, ret, live>>

-----------------------------------------------------------------------------
Returns(p) ==
    /\ call' = Idle
    /\ ret' = p
    /\ live' = IF p = NULL THEN live
               ELSE [q \in DOMAIN live \cup {p} |-> IF q = p THEN call.size ELSE live[q]]

\* Mutant: the search starts at the second block.
FirstCurrentNext == IF global_base = NULL THEN NULL ELSE heap[global_base].next

FirstCurrent == global_base

MallocZero(size) ==
    /\ size = 0
    /\ ret' = NULL
    /\ UNCHANGED <<global_base, heap, brk, call, live>>

MallocBegin(size) ==
    /\ size > 0
    /\ call' = [at |-> "find", size |-> size, current |-> FirstCurrent, last |-> global_base]
    /\ UNCHANGED <<global_base, heap, brk, ret, live>>

\* Mutants: the size, or the mark, is not looked at.
FitsAnySize(a) == heap[a].free
FitsTaken(a) == heap[a].size >= call.size

Fits(a) == heap[a].free /\ heap[a].size >= call.size

\* Mutant: the search does not move on.
AdvanceStays(a) == a

Advance(a) == heap[a].next

find_free_block ==
    /\ call.at = "find" /\ call.current # NULL
    /\ ~Fits(call.current)
    /\ call' = [call EXCEPT !.last = call.current, !.current = Advance(call.current)]
    /\ UNCHANGED <<global_base, heap, brk, ret, live>>

\* Mutants: the room for the header is not asked for; nothing need remain.
CanSplitAlways(a, size) == heap[a].size > size
CanSplitEmpty(a, size) == heap[a].size >= (size + META_SIZE) % SizeMod

CanSplit(a, size) == heap[a].size >= (size + META_SIZE + 1) % SizeMod

\* Mutants: the new block is not linked to the rest of the list; its next is not set.
SplitNextLost(a) == NULL
SplitNextUnset(a) == Limit + 1

SplitNext(a) == heap[a].next

split_block(a, size) ==
    LET new == Payload(a) + size
    IN  [b \in DOMAIN heap \cup {new} |->
           CASE b = a   -> [size |-> size, free |-> FALSE, next |-> new]
             [] b = new -> [size |-> (heap[a].size - size - META_SIZE) % SizeMod,
                            free |-> TRUE, next |-> SplitNext(a)]
             [] OTHER   -> heap[b]]

\* A block was found: it is split if it can be, and taken.
TakeBlock ==
    /\ call.at = "find" /\ call.current # NULL
    /\ Fits(call.current)
    /\ heap' = IF CanSplit(call.current, call.size)
               THEN split_block(call.current, call.size)
               ELSE [heap EXCEPT ![call.current].free = FALSE]
    /\ Returns(Payload(call.current))
    /\ UNCHANGED <<global_base, brk>>

\* The sum is a size_t, the argument of sbrk is signed: for sizes near SizeMod the
\* break does not move, moves by less than the block, or moves down.
Increment(size) ==
    LET n == (META_SIZE + size) % SizeMod
    IN  IF 2 * n < SizeMod THEN n ELSE n - SizeMod

\* request_space, at the end of an unsuccessful search or for the first block.
request_space ==
    LET top == brk + Increment(call.size) IN
    /\ call.at = "find" /\ call.current = NULL
    /\ top \in Base..Limit
    /\ brk' = top
    /\ heap' = [b \in DOMAIN heap \cup {brk} |->
                  IF b = brk THEN [size |-> call.size, free |-> FALSE, next |-> NULL]
                  ELSE IF b = call.last THEN [heap[b] EXCEPT !.next = brk]
                  ELSE heap[b]]
    /\ global_base' = IF global_base = NULL THEN brk ELSE global_base
    /\ Returns(Payload(brk))

\* sbrk may fail at any time.
RequestFails ==
    /\ call.at = "find" /\ call.current = NULL
    /\ Returns(NULL)
    /\ UNCHANGED <<global_base, heap, brk>>

\* Mutant: the mark is set in the payload, not in the header.
HeaderMissed(p) == p

HeaderOf(p) == p - META_SIZE

my_free(p) ==
    /\ heap' = IF p = NULL THEN heap ELSE [heap EXCEPT ![HeaderOf(p)].free = TRUE]
    /\ live' = [q \in DOMAIN live \ {p} |-> live[q]]
    /\ UNCHANGED <<global_base, brk, call, ret>>

-----------------------------------------------------------------------------
my_malloc == find_free_block \/ TakeBlock \/ request_space \/ RequestFails

\* One caller, who frees what it was given, and perhaps NULL.
Next ==
    \/ call.at = "idle" /\ \/ \E size \in Sizes : MallocZero(size) \/ MallocBegin(size)
                           \/ \E p \in DOMAIN live \cup {NULL} : my_free(p)
                           \/ \E n \in OtherSizes : OtherSbrk(n)
    \/ my_malloc

Spec == Init /\ [][Next]_vars

-----------------------------------------------------------------------------
Addresses == Base..Limit
Headers == [size : 0..(SizeMod - 1), free : BOOLEAN, next : Addresses \cup {NULL}]

\* The pointers point to blocks and the fields have the types of block_meta.
TypeOK ==
    /\ DOMAIN heap \subseteq Addresses
    /\ heap \in [DOMAIN heap -> Headers]
    /\ global_base \in DOMAIN heap \cup {NULL}
    /\ brk \in Addresses
    /\ call.at \in {"idle", "find"} /\ call.size \in 0..(SizeMod - 1)
    /\ call.current \in DOMAIN heap \cup {NULL} /\ call.last \in DOMAIN heap \cup {NULL}

\* The list is the heap in the order of addresses: it begins at global_base,
\* a block ends where its next one begins or before (memory of other users of
\* sbrk lies between), the last one ends below the break, and none is left out.
HeapIsTiled ==
    /\ DOMAIN heap # {} => global_base \in DOMAIN heap /\ \A a \in DOMAIN heap : global_base <= a
    /\ \A a \in DOMAIN heap :
         IF heap[a].next = NULL
         THEN End(a) <= brk /\ \A b \in DOMAIN heap : b <= a
         ELSE /\ heap[a].next \in DOMAIN heap /\ End(a) <= heap[a].next
              /\ \A b \in DOMAIN heap : b <= a \/ heap[a].next <= b

\* Every pointer in use has a block of its own that is not free and has at least
\* the bytes asked for, through all splits and reuses of the blocks around it.
LiveIsServed ==
    \A p \in DOMAIN live :
        /\ p - META_SIZE \in DOMAIN heap
        /\ ~heap[p - META_SIZE].free
        /\ heap[p - META_SIZE].size >= live[p] /\ live[p] > 0

\* A block that is not free is in use: no block is lost for ever.
NothingIsLost == \A a \in DOMAIN heap : heap[a].free \/ Payload(a) \in DOMAIN live

\* Every block has at least one byte, so that a split leaves no empty block.
NoEmptyBlock == \A a \in DOMAIN heap : heap[a].size > 0

\* The heap between two steps of the allocator, for sizes whose increment is
\* positive or refused by sbrk.
HeapInv == TypeOK /\ HeapIsTiled /\ LiveIsServed /\ NothingIsLost /\ NoEmptyBlock

\* sbrk extends the heap by the new block, or request_space returns NULL (comment
\* in my_malloc.c, line 46): every block lies below the program break.
BlocksBelowBreak == \A a \in DOMAIN heap : End(a) <= brk

\* First fit: the block that is taken is the first one that fits, and the break
\* moves only when none does.
FirstFit ==
    call.at = "find" /\ call'.at = "idle" =>
        LET fit == {a \in DOMAIN heap : Fits(a)} IN
        IF fit = {} THEN ret' \in {NULL, Payload(brk)}
        ELSE ret' - META_SIZE \in fit /\ \A a \in fit : ret' - META_SIZE <= a /\ brk' = brk
=============================================================================
