--------------------------- MODULE MCOutboxDelivery ---------------------------
(***************************************************************************)
(* Instances of OutboxDelivery for TLC.                                    *)
(***************************************************************************)
EXTENDS OutboxRefinement, TLC

CONSTANTS m1, w1, w2

\* One destination, two attempts.
OneDestination == [m \in Messages |-> "sandbox.echo"]
TwoAttempts    == [m \in Messages |-> 2]

\* Every process has its own identity.
OwnIdentity    == [w \in Workers |-> w]

\* One representative of each decision of decideRetry.
OneClassEach == {"AMBIGUOUS_AFTER_ACK", "PERMANENT", "RATE_LIMITED"}
===============================================================================
