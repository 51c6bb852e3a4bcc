--------------------------- MODULE HandleAllocator ---------------------------
(***************************************************************************)
(* The three handle counters of UserAgent (src/resip/recon/UserAgent.cxx):*)
(* getNewSubscriptionHandle (139-143), getNewPublicationHandle (158-162)  *)
(* and getNewConversationProfileHandle (179-183), each `return counter++` *)
(* under its own mutex, called from any number of application threads.   *)
(*                                                                         *)
(* The counters are unsigned integers of Width bits, so counter++ wraps.  *)
(* The constructor's initialiser list (50-53) sets the subscription and   *)
(* profile counters to 1 and leaves mCurrentPublicationHandle out: unless *)
(* the class header gives it a default, its first read is of an            *)
(* uninitialised member, any value the build can leave there.             *)
(* PublicationStarts is the set of those values a run allows.             *)
(***************************************************************************)
EXTENDS Naturals, Sequences, FiniteSets

CONSTANTS
    Threads,            \* application threads allocating handles
    Width,              \* bits of a handle
    MaxAllocs,          \* allocations per category
    PublicationStarts   \* what mCurrentPublicationHandle may hold at first

Categories == {"profile", "subscription", "publication"}

HandleValues == 0 .. (2^Width - 1)

VARIABLES
    counter,    \* the member counters, per category
    got         \* per thread and category: the handles returned, in order

vars == <<counter, got>>

\* The handles one category has handed out, with the thread and position.
Issued(c) == UNION {{<<t, i>> : i \in DOMAIN got[t][c]} : t \in Threads}

Init ==
    /\ \E p \in PublicationStarts :
          counter = [c \in Categories |->
                       IF c = "publication" THEN p ELSE 1]
    /\ got = [t \in Threads |-> [c \in Categories |-> <<>>]]

\* Mutant: the publication handle taken from the subscription counter.
AllocateWrongCounter(t, c) ==
    LET k == IF c = "publication" THEN "subscription" ELSE c IN
    /\ Cardinality(Issued(c)) < MaxAllocs
    /\ counter' = [counter EXCEPT ![k] = (@ + 1) % 2^Width]
    /\ got' = [got EXCEPT ![t][c] = Append(@, counter[k])]

\* Lock the category's mutex, return the counter and increment it.
Allocate(t, c) ==
    /\ Cardinality(Issued(c)) < MaxAllocs
    /\ counter' = [counter EXCEPT ![c] = (@ + 1) % 2^Width]
    /\ got' = [got EXCEPT ![t][c] = Append(@, counter[c])]

GetNewSubscriptionHandle(t)        == Allocate(t, "subscription")
GetNewPublicationHandle(t)         == Allocate(t, "publication")
GetNewConversationProfileHandle(t) == Allocate(t, "profile")

Next ==
    \E t \in Threads :
        \/ GetNewSubscriptionHandle(t)
        \/ GetNewPublicationHandle(t)
        \/ GetNewConversationProfileHandle(t)

Spec == Init /\ [][Next]_vars

-----------------------------------------------------------------------------
(***************************************************************************)
(* The allocator contract of the spec (4.1 and the property test of 7):   *)
(* within a category every handle is at least 1 (0 means "none"), no two  *)
(* allocations, by the same or different threads, return the same handle, *)
(* and each thread sees its handles strictly increasing.  The counters    *)
(* must start at 1 and never wrap for this to hold.                        *)
(***************************************************************************)
HandleContract ==
    \A c \in Categories :
        /\ \A x \in Issued(c) : got[x[1]][c][x[2]] >= 1
        /\ \A x, y \in Issued(c) :
              x # y => got[x[1]][c][x[2]] # got[y[1]][c][y[2]]
        /\ \A t \in Threads : \A i \in 1 .. Len(got[t][c]) - 1 :
              got[t][c][i] < got[t][c][i + 1]
=============================================================================
