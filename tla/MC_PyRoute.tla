------------------------------- MODULE MC_PyRoute ---------------------------
(***************************************************************************)
(* Four requests and three workers: every worker can hold work and wait  *)
(* for the GIL while a fourth request waits in the dispatcher's queue.    *)
(* The configurations are the ones init() can meet, split by whether the *)
(* script loads.                                                           *)
(***************************************************************************)
EXTENDS PyRoute

CONSTANTS r1, r2, r3, r4, w1, w2, w3

MC_Requests == {r1, r2, r3, r4}
MC_Workers == {w1, w2, w3}

\* init() succeeds, or returns false before Py_Initialize.
MC_LoadingConfigs ==
    {c \in Config : ~ScriptFailed(c)}

\* The script fails to import or its on_load throws.
MC_FailingConfigs ==
    {c \in Config : ~Rejected(c) /\ ScriptFailed(c)}
=============================================================================
