------------------------------- MODULE MCMalloc -------------------------------
(* The allocator of lab 4 with one caller, and the same allocator under    *)
(* the mutex of hook_malloc.c with two threads, side by side: part says    *)
(* which of the two the behaviour is of.                                   *)
EXTENDS Integers

VARIABLES part, global_base, heap, brk, call, ret, live, lock, th, mine, mem

\* Other code moves the break as well; a split can leave a block of one byte.  The
\* sizes 28 and 42 are too large for the heap: the increment is above its end, or
\* negative and below its beginning, and sbrk refuses both.
Alone == INSTANCE MyMalloc WITH META_SIZE <- 2, SizeMod <- 64, Base <- 1, Limit <- 13,
           Sizes <- 0..4 \cup {28, 42}, OtherSizes <- {1}
\* The same with a size near SIZE_MAX, for which META_SIZE + size is 1 in size_t.
Near == INSTANCE MyMalloc WITH META_SIZE <- 2, SizeMod <- 64, Base <- 1, Limit <- 13,
          Sizes <- {1, 63}, OtherSizes <- {}
Hook == INSTANCE HookMalloc WITH META_SIZE <- 1, SizeMod <- 64, Base <- 1, Limit <- 10,
          Sizes <- {1, 3, 4}, OtherSizes <- {}, Threads <- {1, 2}, Members <- {2}

hookVars == <<lock, th, mine, mem>>
vars == <<part, global_base, heap, brk, call, ret, live, hookVars>>

Init ==
    \/ part = "alone" /\ Alone!Init /\ lock = 0 /\ th = 0 /\ mine = 0 /\ mem = 0
    \/ part = "hook" /\ Hook!HookInit

InAlone(A) == part = "alone" /\ A /\ UNCHANGED <<part, hookVars>>
InHook(A) == part = "hook" /\ A /\ UNCHANGED part

Next == InAlone(Alone!Next) \/ InHook(Hook!HookNext)

NearSpec ==
    /\ part = "near" /\ Near!Init /\ lock = 0 /\ th = 0 /\ mine = 0 /\ mem = 0
    /\ [][Near!Next /\ UNCHANGED <<part, hookVars>>]_vars

\* A call that has begun goes on running; nothing is assumed about who gets the mutex.
FairSpec ==
    /\ Init /\ [][Next]_vars
    /\ WF_vars(InAlone(Alone!my_malloc))
    /\ \A t \in {1, 2} : WF_vars(InHook(Hook!Step(t)))

\* Through all splits and reuses the list is the heap, every pointer in use has
\* a block of its own that is large enough, and no block is lost.  The sizes are those
\* for which sbrk grants the block or refuses it; NearSpec has one of the sizes
\* within a heap's length of SIZE_MAX, for which it grants less.
HeapInv ==
    /\ part = "alone" => Alone!HeapInv
    /\ part = "hook" => Hook!HeapInv

\* sbrk extends the heap by the new block, or request_space returns NULL (comment
\* in my_malloc.c, line 46): every block lies below the program break.
BlocksBelowBreak == Near!BlocksBelowBreak

\* What a thread has written to its block stays there, and no two threads share
\* a byte, although calloc and realloc work on blocks without the mutex.
ContentsKept == part = "hook" => Hook!ContentsKept /\ Hook!OneOwner

\* my_malloc gives the first block that fits, and calloc gives zeros.
CallsAnswer ==
    [][/\ part = "alone" => Alone!FirstFit
       /\ part = "hook" => Hook!FirstFit /\ Hook!CallocZeroes]_vars

\* my_malloc returns, since the list has no cycle, and nobody keeps the mutex
\* for ever, realloc with its calls of malloc and free included.
CallsReturn ==
    /\ (part = "alone" /\ call.at = "find") ~> call.at = "idle"
    /\ []<>(part = "hook" => lock = 0)
=============================================================================
