------------------------------ MODULE MemFSRace ------------------------------
(***************************************************************************)
(* os_lab6/memfs.c under the multi-threaded loop of FUSE: read, write and  *)
(* truncate on one open file, taken apart at their accesses to size.  The  *)
(* kernel holds the lock of the inode during write and truncate, so these  *)
(* exclude each other; a read runs at any time.  The bytes are left out,   *)
(* and so is find_file, which MemFSLookup has.                             *)
(***************************************************************************)
EXTENDS Integers, FiniteSetsExt

CONSTANTS
    Readers, Writers,   \* threads of FUSE
    MAX_FILE_SIZE,
    SizeMod             \* size_t is arithmetic modulo this

VARIABLES
    size,           \* files[idx].size
    inode,          \* the writer that holds the inode's lock
    th,             \* th[t]: where the thread is, and its offset and length
    sizes,          \* history: the sizes the file has had since the read began
    passed          \* history: between its two looks at size the file ended before its offset

vars == <<size, inode, th, sizes, passed>>

Nobody == "nobody"
Frame(at, off, len) == [at |-> at, off |-> off, len |-> len]
Out == Frame("out", 0, 0)

Init ==
    /\ size = 0
    /\ inode = Nobody
    /\ th = [t \in Readers \cup Writers |-> Out]
    /\ sizes = [t \in Readers |-> {}] /\ passed = [t \in Readers |-> FALSE]

\* memfs_read, up to and with find_file.
ReadBegin(t, len, off) ==
    /\ th[t].at = "out"
    /\ th' = [th EXCEPT ![t] = Frame("check", off, len)]
    /\ sizes' = [sizes EXCEPT ![t] = {size}] /\ passed' = [passed EXCEPT ![t] = FALSE]
    /\ UNCHANGED <<size, inode>>

ReadCheck(t) ==
    /\ th[t].at = "check"
    /\ th' = [th EXCEPT ![t] = IF @.off >= size THEN Out ELSE [@ EXCEPT !.at = "avail"]]
    /\ UNCHANGED <<size, inode, sizes, passed>>

\* Mutant: the rest of the buffer is taken for the rest of the file.
AvailOfBuffer(off) == MAX_FILE_SIZE - off

Avail(off) == (size - off) % SizeMod

\* The second look at size.
ReadAvail(t) ==
    /\ th[t].at = "avail"
    /\ th' = [th EXCEPT ![t] = Frame("copy", @.off, Min({@.len, Avail(@.off)}))]
    /\ UNCHANGED <<size, inode, sizes, passed>>

Copy(t) ==
    /\ th[t].at = "copy"
    /\ th' = [th EXCEPT ![t] = Out]
    /\ UNCHANGED <<size, inode, sizes, passed>>

\* memfs_write and memfs_truncate: the checks and the change of the bytes, then the size.
WriteBegin(t, len, off) ==
    /\ inode = Nobody
    /\ inode' = t
    /\ th' = [th EXCEPT ![t] = Frame("write", off, Min({len, MAX_FILE_SIZE - off}))]
    /\ UNCHANGED <<size, sizes, passed>>

TruncateBegin(t, n) ==
    /\ inode = Nobody
    /\ inode' = t
    /\ th' = [th EXCEPT ![t] = Frame("truncate", 0, n)]
    /\ UNCHANGED <<size, sizes, passed>>

Resize(t, n) ==
    /\ size' = n
    /\ inode' = Nobody
    /\ th' = [th EXCEPT ![t] = Out]
    /\ sizes' = [r \in Readers |-> sizes[r] \cup {n}]
    /\ passed' = [r \in Readers |-> passed[r] \/ (th[r].at = "avail" /\ n < th[r].off)]

WriteSize(t) == th[t].at = "write" /\ Resize(t, Max({size, th[t].off + th[t].len}))
TruncateSize(t) == th[t].at = "truncate" /\ Resize(t, th[t].len)

Positions == 0..(MAX_FILE_SIZE - 1)
Lengths == 1..(MAX_FILE_SIZE + 1)

Next ==
    \/ \E t \in Readers : \/ ReadCheck(t) \/ ReadAvail(t) \/ Copy(t)
                          \/ \E off \in Positions, len \in Lengths : ReadBegin(t, len, off)
    \/ \E t \in Writers : \/ WriteSize(t) \/ TruncateSize(t)
                          \/ \E off \in Positions, len \in Lengths : WriteBegin(t, len, off)
                          \/ \E n \in 0..MAX_FILE_SIZE : TruncateBegin(t, n)

Spec == Init /\ [][Next]_vars

CopiesInside(t) == th[t].at = "copy" => \E n \in sizes[t] : th[t].off + th[t].len <= n

\* memfs_read cuts its length to the end of the file (comment in memfs.c, line 196):
\* it copies up to an end that the file had during the read.
ReadStopsAtTheEnd == \A t \in Readers : CopiesInside(t)

\* With writes and truncates at any time, memfs_read copies up to an end that the
\* file had during the read, unless a truncate to less than its offset fell between
\* its two looks at the size.
ReadEndsAtAnEnd == \A t \in Readers : CopiesInside(t) \/ passed[t]
=============================================================================
