-------------------------------- MODULE MemFS --------------------------------
(***************************************************************************)
(* os_lab6/memfs.c: a file system in a table of slots.  Every callback is  *)
(* one step here; MemFSRace and MemFSLookup take the ones that the kernel  *)
(* runs at the same time apart.                                            *)
(***************************************************************************)
EXTENDS Integers, FiniteSetsExt

CONSTANTS
    Names,              \* paths of one level, with at most MAX_NAME_LEN characters
    Root, Nested, Long, \* the root, paths of several levels, names that are too long
    Byte, Zero,
    MAX_FILES, MAX_FILE_SIZE,
    Offsets,            \* offsets and lengths, one negative
    Buffers             \* what is written: functions on 0..n-1

VARIABLES files, reply,
          cut           \* history: in each slot, the positions beyond the end whose byte a truncate cut off

vars == <<files, reply, cut>>

Slots == 0..(MAX_FILES - 1)
Positions == 0..(MAX_FILE_SIZE - 1)
NoName == ""
Unused == [used |-> FALSE, name |-> NoName, data |-> [i \in Positions |-> Zero], size |-> 0]

Init ==
    /\ files = [s \in Slots |-> Unused]
    /\ reply = [call |-> <<"mount", Root>>, err |-> "OK", n |-> 0, data |-> [i \in {} |-> Zero], names |-> {}]
    /\ cut = [s \in Slots |-> {}]

Paths == Names \cup Nested \cup Long \cup {Root}

path_to_name(p) ==
    CASE p = Root     -> "EISDIR"
      [] p \in Nested -> "ENOENT"
      [] p \in Long   -> "ENAMETOOLONG"
      [] OTHER        -> "OK"

Holds(s, n) == files[s].used /\ files[s].name = n

NoSlot == -1
First(S) == IF S = {} THEN NoSlot ELSE Min(S)
find_file(n) == First({s \in Slots : Holds(s, n)})
find_free_slot == First({s \in Slots : ~files[s].used})

Empty == [i \in {} |-> Zero]
Reply(op, p, err, n, data, names) ==
    reply' = [call |-> <<op, p>>, err |-> err, n |-> n, data |-> data, names |-> names]
Return(op, p, n) == Reply(op, p, "OK", n, Empty, {})
Same == UNCHANGED <<files, cut>>
Fail(op, p, err) == Reply(op, p, err, 0, Empty, {}) /\ Same

\* The first lines of every callback on a file: the path, then the slot.  What
\* follows them is an action named after the callback.
BadPath(op, p) == path_to_name(p) # "OK" /\ Fail(op, p, path_to_name(p))
NotFound(op, p) == path_to_name(p) = "OK" /\ find_file(p) = NoSlot /\ Fail(op, p, "ENOENT")
Refused(op, p) == BadPath(op, p) \/ NotFound(op, p)
Found(p) == path_to_name(p) = "OK" /\ find_file(p) # NoSlot

-----------------------------------------------------------------------------
memfs_getattr(p) ==
    \/ p = Root /\ Return("getattr", p, 0) /\ Same
    \/ p # Root /\ Refused("getattr", p)
    \/ Found(p) /\ Return("getattr", p, files[find_file(p)].size) /\ Same

memfs_readdir(p) ==
    \/ p # Root /\ Fail("readdir", p, "ENOENT")
    \/ /\ p = Root /\ Same
       /\ Reply("readdir", p, "OK", 0, Empty, {files[s].name : s \in {t \in Slots : files[t].used}})

memfs_open(p) == Found(p) /\ Return("open", p, 0) /\ Same

\* Mutant: an existing file is not looked for.
MayCreateAlways(p) == path_to_name(p) = "OK"

MayCreate(p) == path_to_name(p) = "OK" /\ find_file(p) = NoSlot

memfs_create(p) ==
    \/ BadPath("create", p)
    \/ Found(p) /\ ~MayCreate(p) /\ Fail("create", p, "EEXIST")
    \/ MayCreate(p) /\ find_free_slot = NoSlot /\ Fail("create", p, "ENOSPC")
    \/ /\ MayCreate(p) /\ find_free_slot # NoSlot
       /\ files' = [files EXCEPT ![find_free_slot] = [Unused EXCEPT !.used = TRUE, !.name = p]]
       /\ cut' = [cut EXCEPT ![find_free_slot] = {}]
       /\ Return("create", p, 0)

\* Mutant: the data of a deleted file is kept.
ClearedButData(f) == [Unused EXCEPT !.data = f.data]

Cleared(f) == Unused

memfs_unlink(p) ==
    /\ Found(p)
    /\ files' = [files EXCEPT ![find_file(p)] = Cleared(@)]
    /\ cut' = [cut EXCEPT ![find_file(p)] = {}]
    /\ Return("unlink", p, 0)

memfs_read(p, size, off) ==
    \/ Found(p) /\ off < 0 /\ Fail("read", p, "EINVAL")
    \/ LET f == files[find_file(p)] IN
       /\ Found(p) /\ off >= 0 /\ Same
       /\ IF off >= f.size THEN Return("read", p, 0)
          ELSE LET len == Min({size, f.size - off}) IN
               Reply("read", p, "OK", len, [i \in 0..(len - 1) |-> f.data[off + i]], {})

Length(buf) == Cardinality(DOMAIN buf)

\* Mutants: a write is not clipped; it does not make the file longer.
ClippedNot(n, off) == n
NewSizeKept(f, end) == f.size

Clipped(n, off) == Min({n, MAX_FILE_SIZE - off})
NewSize(f, end) == Max({f.size, end})

memfs_write(p, buf, off) ==
    LET s == find_file(p)
        size == Clipped(Length(buf), off)
    IN
    \/ Found(p) /\ off < 0 /\ Fail("write", p, "EINVAL")
    \/ Found(p) /\ off >= 0 /\ (off >= MAX_FILE_SIZE \/ size = 0) /\ Fail("write", p, "EFBIG")
    \/ /\ Found(p) /\ off >= 0 /\ off < MAX_FILE_SIZE /\ size > 0
       /\ files' = [files EXCEPT ![s].data = [i \in Positions |-> IF i \in off..(off + size - 1)
                                                                  THEN buf[i - off] ELSE @[i]],
                                 ![s].size = NewSize(files[s], off + size)]
       /\ cut' = [cut EXCEPT ![s] = {i \in @ : i >= off + size}]
       /\ Return("write", p, size)

\* Mutant: the memory that a file grows over is not cleared.
GrownUncleared(f, size) == f.data

Grown(f, size) == [i \in Positions |-> IF i >= f.size /\ i < size THEN Zero ELSE f.data[i]]

memfs_truncate(p, size) ==
    LET s == find_file(p) IN
    \/ Found(p) /\ size < 0 /\ Fail("truncate", p, "EINVAL")
    \/ Found(p) /\ size > MAX_FILE_SIZE /\ Fail("truncate", p, "EFBIG")
    \/ /\ Found(p) /\ size >= 0 /\ size <= MAX_FILE_SIZE
       /\ files' = [files EXCEPT ![s].data = Grown(files[s], size), ![s].size = size]
       /\ cut' = [cut EXCEPT ![s] = {i \in @ \cup 0..(files[s].size - 1) : i >= size}]
       /\ Return("truncate", p, 0)

-----------------------------------------------------------------------------
Next == \E p \in Paths :
    \/ \E op \in {"open", "unlink", "read", "write", "truncate"} : Refused(op, p)
    \/ memfs_getattr(p) \/ memfs_readdir(p) \/ memfs_open(p) \/ memfs_create(p) \/ memfs_unlink(p)
    \/ \E off \in Offsets :
        \/ memfs_truncate(p, off)
        \/ \E buf \in Buffers : memfs_read(p, Length(buf), off) \/ memfs_write(p, buf, off)

Spec == Init /\ [][Next]_vars

-----------------------------------------------------------------------------
\* The table has the types of mem_node_t, and a size is at most MAX_FILE_SIZE.
TypeOK ==
    /\ files \in [Slots -> [used : BOOLEAN, name : Names \cup {NoName},
                            data : [Positions -> Byte], size : 0..MAX_FILE_SIZE]]
    /\ cut \in [Slots -> SUBSET Positions]

\* Two slots in use have two names, so that find_file finds the only one.
NamesAreUnique ==
    \A s, t \in Slots : files[s].used /\ files[t].used /\ files[s].name = files[t].name => s = t

\* A slot that is free holds nothing of the file it held before: a file that is
\* created in it, written beyond its end and read shows no byte of another file.
NothingLeftBehind == \A s \in Slots : ~files[s].used => files[s] = Unused

\* Beyond the end of a file there is zero, except where a truncate cut a byte off
\* that nothing has covered since.  memfs_write clears nothing, so that such a byte
\* is in the file again after a write beyond it (FileStore's residue).
BeyondTheEnd ==
    \A s \in Slots : \A i \in Positions :
        i >= files[s].size /\ files[s].data[i] # Zero => i \in cut[s]

\* The table between two calls.
SlotsInv == TypeOK /\ NamesAreUnique /\ NothingLeftBehind /\ BeyondTheEnd

\* The table implements the map from names to contents, with what a truncate cut off
\* as the residue.
PerFile(Bytes(_)) ==
    [n \in {files[s].name : s \in {t \in Slots : files[t].used}} |->
       LET s == CHOOSE t \in Slots : Holds(t, n) IN [i \in Bytes(s) |-> files[s].data[i]]]
Contents(s) == 0..(files[s].size - 1)
CutOff(s) == cut[s]
Abstract == INSTANCE FileStore WITH
    PathError <- path_to_name, store <- PerFile(Contents), residue <- PerFile(CutOff)
StoreSpec == Abstract!Spec
=============================================================================
