---------------------------- MODULE MCCommandLedger ----------------------------
(***************************************************************************)
(* Instances of CommandLedger for TLC.                                     *)
(***************************************************************************)
EXTENDS CommandLedger

CONSTANTS k1, k2, k3, c1, c2, c3, p1, p2, p3, l1, a, b

Body(k, c, p, o, e, s, v) ==
    [key |-> k, command |-> c, payload |-> p, object |-> o, expects |-> e,
     source |-> s, sourceVersion |-> v]

\* Two cases of the same lead, an update of the first, and the same update once
\* more under the key of the second and the command id of the first: whichever
\* comes first, it runs into a conflict of the key or into the used command id.
LeadAndCases ==
    {Body(k1, c1, p1, a, 0, l1, 1), Body(k2, c2, p2, b, 0, l1, 1),
     Body(k3, c3, p3, a, 1, NoLead, 0), Body(k2, c1, p3, a, 1, NoLead, 0)}
===============================================================================
