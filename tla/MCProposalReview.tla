--------------------------- MODULE MCProposalReview ---------------------------
(***************************************************************************)
(* Instances of ProposalReview for TLC.                                    *)
(***************************************************************************)
EXTENDS ProposalReview

CONSTANTS n1

Wants(v, d, decision, p) ==
    [expects |-> v, document |-> d, decision |-> decision, notes |-> n1, confirms |-> p]

\* Approvals of two documents under two policies, the first also after the case
\* moved on, the second before its time, and a rejection.
TwoDocuments ==
    {Wants(2, 1, "approved", 1), Wants(3, 1, "approved", 2), Wants(3, 2, "approved", 1),
     Wants(2, 2, "approved", 2), Wants(2, 1, "rejected", 1)}
===============================================================================
