---------------------------- MODULE DeliveryPromise ----------------------------
(***************************************************************************)
(* What the outbox promises about every message it holds, without leases,  *)
(* workers, attempt rows or checkpoints:                                   *)
(*                                                                         *)
(*  - a message is taken for delivery at most as often as its budget says, *)
(*    and one that waits in the queue still has budget;                    *)
(*  - once a delivery may have reached the provider, the message waits in  *)
(*    doubt until it is known to be absent (back to the queue, or dead) or *)
(*    confirmed, or until it is blocked;                                   *)
(*  - it is confirmed only if the provider applied it;                     *)
(*  - confirmed, dead and blocked messages stay what they are.             *)
(*                                                                         *)
(* Messages move independently of each other, several in one step.         *)
(***************************************************************************)
EXTENDS Integers

CONSTANTS Messages, budget

VARIABLES status, tries, applied

vars == <<status, tries, applied>>

Statuses == {"queued", "taken", "in doubt", "confirmed", "dead", "blocked"}

Init ==
    /\ status = [m \in Messages |-> "queued"]
    /\ tries = [m \in Messages |-> 0]
    /\ applied = [m \in Messages |-> FALSE]

Moves(m, from, to) == status[m] \in from /\ status'[m] = to

Keeps(f, m) == f'[m] = f[m]

\* Also in place of a taker that was lost before it started.
Take(m) ==
    /\ Moves(m, {"queued", "taken"}, "taken")
    /\ tries[m] < budget[m]
    /\ tries'[m] = tries[m] + 1
    /\ Keeps(applied, m)

\* The taker is lost, or the delivery failed or is absent, with budget left.
Return(m) ==
    /\ Moves(m, {"taken", "in doubt"}, "queued")
    /\ tries[m] < budget[m]
    /\ Keeps(tries, m) /\ Keeps(applied, m)

Dispatch(m) ==
    /\ Moves(m, {"taken"}, "in doubt")
    /\ Keeps(tries, m) /\ Keeps(applied, m)

GiveUp(m) ==
    /\ Moves(m, {"taken", "in doubt"}, "dead")
    /\ Keeps(tries, m) /\ Keeps(applied, m)

Confirm(m) ==
    /\ Moves(m, {"in doubt"}, "confirmed")
    /\ applied[m]
    /\ Keeps(tries, m) /\ Keeps(applied, m)

Block(m) ==
    /\ Moves(m, {"in doubt"}, "blocked")
    /\ Keeps(tries, m) /\ Keeps(applied, m)

\* The provider applies a request of m, at any time after it was taken.
Apply(m) ==
    /\ tries[m] > 0
    /\ applied'[m] = TRUE
    /\ Keeps(status, m) /\ Keeps(tries, m)

Rest(m) == Keeps(status, m) /\ Keeps(tries, m) /\ Keeps(applied, m)

Step(m) ==
    \/ Take(m) \/ Return(m) \/ Dispatch(m) \/ GiveUp(m)
    \/ Confirm(m) \/ Block(m) \/ Apply(m) \/ Rest(m)

Spec == Init /\ [][\A m \in Messages : Step(m)]_vars
===============================================================================
