--------------------------- MODULE OutboxRefinement ---------------------------
(***************************************************************************)
(* The outbox and its workers keep what DeliveryPromise says.              *)
(***************************************************************************)
EXTENDS OutboxDelivery

\* The dispatch of the current claim has durably started.
DispatchStarted(m) ==
    \E n \in Budget : n = outbox[m].attempts /\ attempt[m][n] = "STARTED"

StatusOf(m) ==
    CASE outbox[m].state \in {"PENDING", "RETRY_SCHEDULED"} -> "queued"
      [] outbox[m].state = "CLAIMED" ->
            IF DispatchStarted(m) THEN "in doubt" ELSE "taken"
      [] outbox[m].state \in Doubtful -> "in doubt"
      [] outbox[m].state = "SOURCE_CONFIRMED" -> "confirmed"
      [] outbox[m].state = "DEAD_LETTERED" -> "dead"
      [] outbox[m].state = "BLOCKED" -> "blocked"

Promise == INSTANCE DeliveryPromise WITH
    budget  <- maxAttempts,
    status  <- [m \in Messages |-> StatusOf(m)],
    tries   <- [m \in Messages |-> outbox[m].attempts],
    applied <- [m \in Messages |-> \E n \in Budget : request[m][n] = "applied"]

\* Every step of the store, the workers and the environment is a step of the
\* promise, or changes nothing it speaks of.
KeepsPromise == Promise!Spec
===============================================================================
