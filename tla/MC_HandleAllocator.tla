------------------------- MODULE MC_HandleAllocator -------------------------
EXTENDS HandleAllocator, TLC

CONSTANTS t1, t2, t3

MC_Threads == {t1, t2, t3}
\* No step looks at which thread allocates: threads are interchangeable.
MC_Symmetry == Permutations(MC_Threads)
\* The header initialises the member to 1.
MC_InitialisedStart == {1}
\* The member is read uninitialised: any value of its width.
MC_AnyStart == HandleValues
=============================================================================
