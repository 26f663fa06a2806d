---------------------------- MODULE MCThreadPool ----------------------------
(* Small instances of ThreadPool for TLC.                                  *)
EXTENDS ThreadPool, TLC

CONSTANTS w1, w2, w3, main, other, t1, t2, t3

\* The program as it stands: main is the only client.
ProgramTasksOf == main :> {t1, t2, t3}

\* A second client thread calls submit and destroy as well.
SharedTasksOf == main :> {t1, t2} @@ other :> {t3}
=============================================================================
