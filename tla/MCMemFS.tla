------------------------------- MODULE MCMemFS -------------------------------
(* The file system of lab 6 with callbacks as single steps, its reads      *)
(* beside writes and truncates, and its searches beside create and unlink: *)
(* part says which of the three the behaviour is of.                       *)
EXTENDS Integers, TLC

CONSTANTS Names, Root, Nested, Long, Readers, Writers, Seekers

VARIABLES part, files, reply, cut, size, inode, th, sizes, passed,
          names, dir, seek, given

Table == INSTANCE MemFS WITH Byte <- {0, 1}, Zero <- 0, MAX_FILES <- 2, MAX_FILE_SIZE <- 2,
           Offsets <- -1..3, Buffers <- {[i \in 0..(n - 1) |-> 1] : n \in {0, 2}}
Race == INSTANCE MemFSRace WITH MAX_FILE_SIZE <- 2, SizeMod <- 16
\* One name begins with another, and a third does not.
Lookup == INSTANCE MemFSLookup WITH Names <- {<<"a">>, <<"a", "b">>, <<"c">>}, MAX_FILES <- 3,
            files <- names, th <- seek

tableVars == <<files, reply, cut>>
raceVars == <<size, inode, th, sizes, passed>>
lookupVars == <<names, dir, seek, given>>
vars == <<part, tableVars, raceVars, lookupVars>>

Init == part \in {"table", "race", "lookup"} /\ Table!Init /\ Race!Init /\ Lookup!Init

Next ==
    \/ part = "table" /\ Table!Next /\ UNCHANGED <<part, raceVars, lookupVars>>
    \/ part = "race" /\ Race!Next /\ UNCHANGED <<part, tableVars, lookupVars>>
    \/ part = "lookup" /\ Lookup!Next /\ UNCHANGED <<part, tableVars, raceVars>>

Spec == Init /\ [][Next]_vars

Symmetry == Permutations(Names)

\* Slots in use have different names, a slot that is free holds nothing of the file
\* it held, and beyond its end a file holds zero or what a truncate cut off.
SlotsInv == Table!SlotsInv

\* The table implements the map from names to contents; what a truncate cut off comes
\* back in the gap of a write beyond it, and nothing else does.
StoreSpec == Table!StoreSpec

\* memfs_read copies up to an end that the file had during the read, unless a
\* truncate to less than its offset fell between its two looks at the size.
ReadEndsAtAnEnd == Race!ReadEndsAtAnEnd

\* memfs_read cuts its length to the end of the file (comment in memfs.c, line 196).
ReadStopsAtTheEnd == Race!ReadStopsAtTheEnd

\* An open file is found in its own slot while others are created and deleted,
\* unless a longer name that begins with its name is being copied before it.
FindFileFinds == Lookup!FindFileFinds
=============================================================================
