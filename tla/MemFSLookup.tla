----------------------------- MODULE MemFSLookup -----------------------------
(***************************************************************************)
(* os_lab6/memfs.c under the multi-threaded loop of FUSE: find_file, with  *)
(* which read, write and truncate of an open file begin, beside create and *)
(* unlink of other files.  The kernel holds the lock of the directory      *)
(* during create and unlink, so these exclude each other; a search runs at *)
(* any time.  A name is a sequence of characters, copied one by one; the   *)
(* sizes and the bytes of the files are left out.  strcmp and memset are   *)
(* single steps: what a strcmp sees while it runs beside them is not here. *)
(***************************************************************************)
EXTENDS Integers, SequencesExt

CONSTANTS Seekers, Names, MAX_FILES

VARIABLES
    files,      \* files[s].used and files[s].name
    dir,        \* the callback that holds the lock of the directory: step, slot, name
    th,         \* th[t]: where the search is: step, loop variable, name,
                \* and history: the slot of the file, the name the slot found is given
    given       \* history: the name that each slot has or is being given

vars == <<files, dir, th, given>>

Slots == 0..(MAX_FILES - 1)
NoSlot == -1
NoName == <<>>
Free == [at |-> "free", slot |-> NoSlot, name |-> NoName]
Out == [at |-> "out", i |-> 0, name |-> NoName, own |-> NoSlot, found |-> NoName]

Init ==
    /\ files = [s \in Slots |-> [used |-> FALSE, name |-> NoName]]
    /\ dir = Free
    /\ th = [t \in Seekers |-> Out]
    /\ given = [s \in Slots |-> NoName]

Holds(s, n) == files[s].used /\ files[s].name = n
Absent(n) == \A s \in Slots : ~Holds(s, n)
FirstFree(s) == ~files[s].used /\ \A r \in Slots : r < s => files[r].used

-----------------------------------------------------------------------------
\* memfs_create: the slot is in use before it has its name.
CreateUsed(n, s) ==
    /\ dir.at = "free" /\ Absent(n) /\ FirstFree(s)
    /\ files' = [files EXCEPT ![s].used = TRUE]
    /\ dir' = [at |-> "name", slot |-> s, name |-> n]
    /\ given' = [given EXCEPT ![s] = n]
    /\ UNCHANGED th

\* strncpy; the name in the slot was cleared by memfs_unlink.
CreateName ==
    /\ dir.at = "name"
    /\ files' = [files EXCEPT ![dir.slot].name = Append(@, dir.name[Len(@) + 1])]
    /\ dir' = IF files'[dir.slot].name = dir.name THEN Free ELSE dir
    /\ UNCHANGED <<th, given>>

UnlinkUsed(n, s) ==
    /\ dir.at = "free" /\ Holds(s, n)
    /\ files' = [files EXCEPT ![s].used = FALSE]
    /\ dir' = [at |-> "clear", slot |-> s, name |-> n]
    /\ th' = [t \in Seekers |-> IF th[t].own = s THEN [th[t] EXCEPT !.own = NoSlot] ELSE th[t]]
    /\ UNCHANGED given

UnlinkName ==
    /\ dir.at = "clear"
    /\ files' = [files EXCEPT ![dir.slot].name = NoName]
    /\ dir' = Free
    /\ given' = [given EXCEPT ![dir.slot] = NoName]
    /\ UNCHANGED th

-----------------------------------------------------------------------------
\* read, write or truncate of a file that has been opened, hence created before.
SeekBegin(t, n, s) ==
    /\ th[t].at = "out" /\ Holds(s, n) /\ given[s] = n
    /\ th' = [th EXCEPT ![t] = [Out EXCEPT !.at = "used", !.name = n, !.own = s]]
    /\ UNCHANGED <<files, dir, given>>

Turn(f) == [f EXCEPT !.at = "used", !.i = @ + 1]
Found(f) == [f EXCEPT !.at = "end", !.found = given[f.i]]

\* Mutant: the last slot is not looked at.
LoopOverEarly(i) == i = MAX_FILES - 1

LoopOver(i) == i = MAX_FILES

SeekUsed(t) ==
    /\ th[t].at = "used"
    /\ th' = [th EXCEPT ![t] = IF LoopOver(@.i) THEN [@ EXCEPT !.at = "end", !.i = NoSlot]
                               ELSE IF files[@.i].used THEN [@ EXCEPT !.at = "strcmp"] ELSE Turn(@)]
    /\ UNCHANGED <<files, dir, given>>

SeekCompare(t) ==
    /\ th[t].at = "strcmp"
    /\ th' = [th EXCEPT ![t] = IF files[@.i].name = @.name THEN Found(@) ELSE Turn(@)]
    /\ UNCHANGED <<files, dir, given>>

SeekEnd(t) ==
    /\ th[t].at = "end"
    /\ th' = [th EXCEPT ![t] = Out]
    /\ UNCHANGED <<files, dir, given>>

Next ==
    \/ CreateName \/ UnlinkName
    \/ \E n \in Names, s \in Slots : CreateUsed(n, s) \/ UnlinkUsed(n, s)
    \/ \E t \in Seekers : \/ SeekUsed(t) \/ SeekCompare(t) \/ SeekEnd(t)
                          \/ \E n \in Names, s \in Slots : SeekBegin(t, n, s)

Spec == Init /\ [][Next]_vars

-----------------------------------------------------------------------------
\* A file that is not deleted meanwhile is found, in its own slot, unless a file whose
\* name begins with its name is being created in a slot before it: in the middle of
\* strncpy that slot carries the shorter name, and find_file takes it.
FindFileFinds ==
    \A t \in Seekers : th[t].at = "end" /\ th[t].own # NoSlot =>
        \/ th[t].i = th[t].own
        \/ th[t].i \in 0..(th[t].own - 1) /\ IsStrictPrefix(th[t].name, th[t].found)
=============================================================================
