------------------------------ MODULE LeaseQueue ------------------------------
(***************************************************************************)
(* What a queue under leases promises of each item, without clocks, claims *)
(* or the identity of a lease:                                             *)
(*                                                                         *)
(*  - an item is taken only while nobody holds it, and then by one taker;  *)
(*  - a taker may lose its hold at any time, and only then can the item    *)
(*    go back or to another;                                               *)
(*  - an item is finished only while it is held, and by that it is held no *)
(*    more; what is finished, as done or as dead, stays so.                *)
(*                                                                         *)
(* "holders" is what the takers believe, not what a table says of them.    *)
(* Items move independently of each other, several in one step.            *)
(***************************************************************************)
CONSTANTS Items, Takers

VARIABLES status, holders

vars == <<status, holders>>

Init ==
    /\ status \in [Items -> {"absent", "waiting"}]
    /\ holders = [i \in Items |-> {}]

Moves(i, from, to) == status[i] \in from /\ status'[i] \in to

Offer(i) ==
    /\ Moves(i, {"absent"}, {"waiting"})
    /\ holders[i] = {} /\ holders'[i] = {}

\* Also in place of a taker that lost its hold.
Take(i) ==
    /\ Moves(i, {"waiting", "taken"}, {"taken"})
    /\ holders[i] = {}
    /\ \E w \in Takers : holders'[i] = {w}

Return(i) ==
    /\ Moves(i, {"taken"}, {"waiting"})
    /\ holders[i] = {} /\ holders'[i] = {}

Finish(i) ==
    /\ Moves(i, {"taken"}, {"done", "dead"})
    /\ \E w \in Takers : holders[i] = {w}
    /\ holders'[i] = {}

\* The hold of a taker ends, or nothing happens to the item.
Lose(i) ==
    /\ status'[i] = status[i]
    /\ holders'[i] \subseteq holders[i]

Step(i) == Lose(i) \/ Offer(i) \/ Take(i) \/ Return(i) \/ Finish(i)

Spec == Init /\ [][\A i \in Items : Step(i)]_vars
===============================================================================
