--------------------------- MODULE HandleLifecycle ---------------------------
(***************************************************************************)
(* What the UserAgent promises about the handles of one entity category   *)
(* (conversation profiles, subscriptions or publications), stated without *)
(* threads, commands or the DUM: section 2 and 5 of the spec.              *)
(*                                                                         *)
(* A handle is free until the per-category counter hands it out; the      *)
(* counter hands out the lowest free handle, one at a time.  An allocated *)
(* handle's entity comes into being once; it may be ended, and an ended   *)
(* or live entity goes away.  A handle never returns to an earlier stage, *)
(* so it is never reused and a destroyed entity never comes back.        *)
(***************************************************************************)
EXTENDS Naturals

CONSTANT Handles

VARIABLE life

Stages == {"free", "allocated", "live", "ending", "gone"}

Init == life = [h \in Handles |-> "free"]

Allocate(h) ==
    /\ life[h] = "free"
    /\ \A k \in Handles : k < h => life[k] # "free"
    /\ life' = [life EXCEPT ![h] = "allocated"]

Create(h) ==
    /\ life[h] = "allocated"
    /\ life' = [life EXCEPT ![h] = "live"]

\* A set of live entities is ended at once (shutdown ends a whole map).
End(S) ==
    /\ S # {}
    /\ \A h \in S : life[h] = "live"
    /\ life' = [h \in Handles |-> IF h \in S THEN "ending" ELSE life[h]]

Remove(h) ==
    /\ life[h] \in {"live", "ending"}
    /\ life' = [life EXCEPT ![h] = "gone"]

Next ==
    \/ \E h \in Handles : Allocate(h) \/ Create(h) \/ Remove(h)
    \/ \E S \in SUBSET Handles : End(S)

\* [Next]_life with the stuttering case tried first: a detailed step that
\* changes no stage is then recognised without enumerating Next.
Spec == Init /\ [][UNCHANGED life \/ Next]_life
=============================================================================
