------------------------------ MODULE FlatMemory ------------------------------
(***************************************************************************)
(* What the three mini_vmem programs of os_lab5 promise to the code that   *)
(* uses vm_base: a plain array of pages, zero at first.  The program makes *)
(* one access at a time; it is served at once by the array, and nothing    *)
(* else ever changes the array, however few pages are resident.            *)
(***************************************************************************)
CONSTANTS Pages, Values, Zero, Requests

VARIABLES
    cells,      \* cells[p]: the content of page p
    request,    \* the access under way or the last one
    status,     \* "idle", "busy" with the access, or "ended"
    out         \* what the last read returned

avars == <<cells, request, status, out>>

AInit ==
    /\ cells = [p \in Pages |-> Zero]
    /\ request \in Requests
    /\ status = "idle"
    /\ out = Zero

ARequest ==
    /\ status = "idle"
    /\ status' = "busy"
    /\ request' \in Requests
    /\ UNCHANGED <<cells, out>>

ARead ==
    /\ status = "busy"
    /\ request.op = "read"
    /\ request.page \in Pages
    /\ out' = cells[request.page]
    /\ status' = "idle"
    /\ UNCHANGED <<cells, request>>

AWrite ==
    /\ status = "busy"
    /\ request.op = "write"
    /\ request.page \in Pages
    /\ cells' = [cells EXCEPT ![request.page] = request.val]
    /\ status' = "idle"
    /\ UNCHANGED <<request, out>>

\* The program ends, in the middle of an access or between two.
AEnd ==
    /\ status' = "ended"
    /\ UNCHANGED <<cells, request, out>>

ANext == ARequest \/ ARead \/ AWrite \/ AEnd

ASpec == AInit /\ [][ANext]_avars
=============================================================================
