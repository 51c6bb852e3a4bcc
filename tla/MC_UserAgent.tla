---------------------------- MODULE MC_UserAgent ----------------------------
(* Model-checking instance of UserAgent.  Threads and flows are sets of    *)
(* model values given in the .cfg; both are interchangeable in the code    *)
(* (no handler looks at which thread called or which flow key it is), so   *)
(* safety runs use symmetry over them.                                     *)
EXTENDS UserAgent

CONSTANTS t1, t2, f1, f2

MC_Threads == {t1, t2}
MC_Flows == {f1, f2}
MC_OneFlow == {f1}
MC_OneThread == {t1}
MC_Symmetry == Permutations(MC_Threads) \cup Permutations(MC_Flows)
=============================================================================
