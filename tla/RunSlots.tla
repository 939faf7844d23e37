-------------------------------- MODULE RunSlots --------------------------------
(***************************************************************************)
(* What the RunDriverRegistry promises: a pool of a fixed number of slots. *)
(* A loop takes a slot for one run, no run has two, and only a loop with a *)
(* slot adds to what is recorded of its run.  RunService.tla, where the    *)
(* registry is a dictionary that is cleaned up only when the next run is   *)
(* started, is checked against it.                                         *)
(***************************************************************************)
EXTENDS Naturals, FiniteSets

CONSTANTS Runs, Loops, Caps

VARIABLES
    cap,   \* the number of slots
    open,  \* the service takes new runs
    slots, \* the loops in a slot, each with its run
    length \* per run: the points recorded of it

vars == <<cap, open, slots, length>>

Init ==
    /\ cap \in Caps
    /\ open = TRUE
    /\ slots = {}
    /\ length = [r \in Runs |-> 0]

\* A loop takes a slot ...
Take(l, r) ==
    /\ open
    /\ Cardinality(slots) < cap
    /\ \A s \in slots : s[1] # l /\ s[2] # r
    /\ slots' = slots \cup {<<l, r>>}
    /\ UNCHANGED <<cap, open, length>>

\* ... records a point of its run ...
Record(s) ==
    /\ s \in slots
    /\ length' = [length EXCEPT ![s[2]] = @ + 1]
    /\ UNCHANGED <<cap, open, slots>>

\* ... and gives the slot up: its task has ended, or somebody is stopping it.
Release(s) ==
    /\ s \in slots
    /\ slots' = slots \ {s}
    /\ UNCHANGED <<cap, open, length>>

\* The shutdown begins.
Close ==
    /\ open
    /\ open' = FALSE
    /\ UNCHANGED <<cap, slots, length>>

Next ==
    \/ \E l \in Loops, r \in Runs : Take(l, r)
    \/ \E s \in slots : Record(s) \/ Release(s)
    \/ Close

Spec == Init /\ [][Next]_vars
===============================================================================
