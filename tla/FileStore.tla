------------------------------ MODULE FileStore ------------------------------
(***************************************************************************)
(* What the in-memory file system of lab 6 promises: a map from names to   *)
(* contents.  A call is one step; reply holds the call and its answer.     *)
(*                                                                         *)
(* A write beyond the end leaves a gap.  The bytes in it are zero, except  *)
(* where a truncate has cut a byte off and nothing has covered its place   *)
(* since: such a byte is in the file again.  residue keeps those bytes.    *)
(***************************************************************************)
EXTENDS Integers, FiniteSets, TLC

CONSTANTS Names, Paths, Root, PathError(_), Zero, MAX_FILES, MAX_FILE_SIZE, Offsets, Buffers

VARIABLES
    store,      \* the content of each file
    residue,    \* the bytes beyond its end that a truncate has cut off
    reply

Empty == [i \in {} |-> Zero]
Answers(op, p, err, n, data) ==
    reply' = [call |-> <<op, p>>, err |-> err, n |-> n, data |-> data, names |-> {}]

Calls(op, p) == reply'.call = <<op, p>>

Size(f) == Cardinality(DOMAIN f)
Files == DOMAIN store
Less(a, b) == IF a < b THEN a ELSE b

Init ==
    /\ store = [n \in {} |-> Empty] /\ residue = store
    /\ reply = [call |-> <<"mount", Root>>, err |-> "OK", n |-> 0, data |-> Empty, names |-> {}]

Fails(op, p, err) == Answers(op, p, err, 0, Empty) /\ UNCHANGED <<store, residue>>
Finds(op, p, n, data) == Answers(op, p, "OK", n, data) /\ UNCHANGED <<store, residue>>
With(map, n, f) == [m \in Files \cup {n} |-> IF m = n THEN f ELSE map[m]]
Set(n, f, rest) == store' = With(store, n, f) /\ residue' = With(residue, n, rest)
From(f, size) == [i \in {j \in DOMAIN f : j >= size} |-> f[i]]

\* A path that names no file has its own error, a name without a file ENOENT.
Refuse(op, p) ==
    \/ Calls(op, p) /\ PathError(p) # "OK" /\ ~(op = "getattr" /\ p = Root) /\ Fails(op, p, PathError(p))
    \/ Calls(op, p) /\ PathError(p) = "OK" /\ op # "create" /\ p \notin Files /\ Fails(op, p, "ENOENT")

Getattr(p) ==
    \/ p = Root /\ Finds("getattr", p, 0, Empty)
    \/ Calls("getattr", p) /\ p \in Files /\ Finds("getattr", p, Size(store[p]), Empty)
Open(p) == Calls("open", p) /\ p \in Files /\ Finds("open", p, 0, Empty)
Readdir(p) ==
    IF p # Root THEN Calls("readdir", p) /\ Fails("readdir", p, "ENOENT")
    ELSE /\ reply' = [call |-> <<"readdir", p>>, err |-> "OK", n |-> 0, data |-> Empty, names |-> Files]
         /\ UNCHANGED <<store, residue>>

Create(p) ==
    \/ Calls("create", p) /\ p \in Files /\ Fails("create", p, "EEXIST")
    \/ Calls("create", p) /\ p \in Names \ Files /\ Cardinality(Files) = MAX_FILES /\ Fails("create", p, "ENOSPC")
    \/ /\ Calls("create", p) /\ p \in Names \ Files /\ Cardinality(Files) < MAX_FILES
       /\ Set(p, Empty, Empty) /\ Answers("create", p, "OK", 0, Empty)

Unlink(p) ==
    /\ Calls("unlink", p) /\ p \in Files
    /\ store' = [m \in Files \ {p} |-> store[m]]
    /\ residue' = [m \in Files \ {p} |-> residue[m]]
    /\ Answers("unlink", p, "OK", 0, Empty)

Read(p, size, off) ==
    /\ Calls("read", p) /\ p \in Files
    /\ IF off < 0 THEN Fails("read", p, "EINVAL")
       ELSE LET len == Less(size, Size(store[p]) - off) IN
            IF len <= 0 THEN Finds("read", p, 0, Empty)
            ELSE Finds("read", p, len, [i \in 0..(len - 1) |-> store[p][off + i]])

Write(p, buf, off) ==
    LET len == Less(Size(buf), MAX_FILE_SIZE - off)
        end == off + len
        Gap(i) == IF i \in DOMAIN residue[p] THEN residue[p][i] ELSE Zero
        Old(i) == IF i \in DOMAIN store[p] THEN store[p][i] ELSE Gap(i)
    IN
    /\ Calls("write", p) /\ p \in Files
    /\ IF off < 0 THEN Fails("write", p, "EINVAL")
       ELSE IF len <= 0 THEN Fails("write", p, "EFBIG")
       ELSE /\ Set(p, [i \in DOMAIN store[p] \cup 0..(end - 1) |->
                         IF i \in off..(end - 1) THEN buf[i - off] ELSE Old(i)],
                      From(residue[p], end))
            /\ Answers("write", p, "OK", len, Empty)

Truncate(p, size) ==
    /\ Calls("truncate", p) /\ p \in Files
    /\ IF size < 0 THEN Fails("truncate", p, "EINVAL")
       ELSE IF size > MAX_FILE_SIZE THEN Fails("truncate", p, "EFBIG")
       ELSE /\ Set(p, [i \in 0..(size - 1) |-> IF i \in DOMAIN store[p] THEN store[p][i] ELSE Zero],
                   From(store[p] @@ residue[p], size))
            /\ Answers("truncate", p, "OK", 0, Empty)

Next == \E p \in Paths :
    \/ \E op \in {"getattr", "open", "create", "unlink", "read", "write", "truncate"} : Refuse(op, p)
    \/ Getattr(p) \/ Open(p) \/ Readdir(p) \/ Create(p) \/ Unlink(p)
    \/ \E off \in Offsets : \/ Truncate(p, off)
                            \/ \E buf \in Buffers : Read(p, Size(buf), off) \/ Write(p, buf, off)

Spec == Init /\ [][Next]_<<store, residue, reply>>
=============================================================================
