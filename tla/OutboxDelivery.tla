---------------------------- MODULE OutboxDelivery ----------------------------
(***************************************************************************)
(* The P110 outbox and the provider workers that empty it.                 *)
(*                                                                         *)
(* PostgresWorkflowDeliveryStore keeps one outbox row per accepted command,*)
(* one attempt row per delivery attempt, one reconciliation checkpoint per *)
(* attempt whose outcome the source has to settle, and dead letters.       *)
(* Every store method is one Postgres transaction that locks the rows it   *)
(* reads, so it is one step here; what a worker does between two           *)
(* transactions (the calls of a provider adapter) is a step of its own.    *)
(* ProviderWorkerRuntime runs a delivery batch, then a reconciliation      *)
(* batch, and over again; an exception of the store ends the process.      *)
(*                                                                         *)
(* Time is abstract: a lease is "live" until its request deadline (45 s)   *)
(* passes, then "overdue" until the lease itself (60 s) expires.           *)
(***************************************************************************)
EXTENDS Integers, FiniteSets

CONSTANTS
    Messages,          \* outbox rows of one tenant
    Destinations,      \* provider destinations
    destination,       \* destination[m]: where m is to be delivered
    MaxBudget,         \* largest delivery budget a row may have (20)
    maxAttempts,       \* maxAttempts[m]: the delivery budget of the row
    ReconAttempts,     \* attempt budget of a reconciliation checkpoint
    Workers,           \* worker processes
    WorkerIds,         \* values of LUZIONE_PROVIDER_WORKER_ID
    workerId,          \* workerId[w]: the identity process w was given
    NoWorker,          \* the null of an owner column
    BatchLimit,        \* rows one claim may take
    Crashable,         \* processes that may be killed at any point
    Classes            \* failure classes adapters report in this instance

GLOBAL == "GLOBAL"

FailureClasses ==
    {"TRANSIENT_BEFORE_ACK", "RATE_LIMITED", "AMBIGUOUS_AFTER_ACK",
     "PERMANENT", "CONTRACT_VIOLATION", "POLICY_BLOCKED"}

ASSUME BudgetAssumption ==
    /\ MaxBudget \in Nat
    /\ maxAttempts \in [Messages -> 1 .. MaxBudget]
    /\ ReconAttempts \in Nat \ {0}
    /\ BatchLimit \in Nat \ {0}

ASSUME WorkerAssumption ==
    /\ workerId \in [Workers -> WorkerIds]
    /\ NoWorker \notin WorkerIds
    /\ Crashable \subseteq Workers

ASSUME DeliveryAssumption ==
    /\ destination \in [Messages -> Destinations]
    /\ GLOBAL \notin Destinations
    /\ Classes \subseteq FailureClasses

(***************************************************************************)
(* One identity per running process.  The store fences by this identity    *)
(* alone; the deployment has to keep it unique.  Not an ASSUME: the        *)
(* properties that need it say so.                                         *)
(***************************************************************************)
UniqueWorkerIds == \A v, w \in Workers : workerId[v] = workerId[w] => v = w

-------------------------------------------------------------------------------

VARIABLES
    outbox,        \* p110_outbox_messages
    attempt,       \* p110_delivery_attempts: result of attempt n of m
    checkpoint,    \* p110_reconciliation_checkpoints: one per attempt
    receipt,       \* p110_command_receipts: state of the receipt of m
    deadLetters,   \* p110_dead_letters: messages that have an entry
    switches,      \* p110_kill_switches: active scopes
    request,       \* what the provider did with the call of attempt n of m
    pc,            \* where a worker process is in its loop
    batch,         \* claimed rows the process has not worked off
    job,           \* row (and attempt) the process works on
    answer         \* last answer of an adapter, not yet recorded

storeVars  == <<outbox, attempt, checkpoint, receipt, deadLetters>>
workerVars == <<pc, batch, job, answer>>
vars == <<outbox, attempt, checkpoint, receipt, deadLetters, switches,
          request, pc, batch, job, answer>>

Budget == 1 .. MaxBudget
Row    == Messages \X Budget      \* the m-th message, its n-th attempt

OutboxStates ==
    {"PENDING", "CLAIMED", "PROVIDER_ACKNOWLEDGED", "SOURCE_CONFIRMED",
     "RETRY_SCHEDULED", "RECONCILIATION_REQUIRED", "DEAD_LETTERED", "BLOCKED"}

AttemptResults ==
    {"NONE", "STARTED", "SUCCEEDED", "RETRY_SCHEDULED",
     "RECONCILIATION_REQUIRED", "FAILED"}

Observations ==
    {"MATCHED", "NOT_FOUND", "VERSION_MISMATCH", "AMBIGUOUS", "SOURCE_UNAVAILABLE"}

OutboxRow ==
    [state : OutboxStates, attempts : 0 .. MaxBudget,
     owner : WorkerIds \cup {NoWorker},
     lease : {"none", "live", "overdue", "expired"}, due : BOOLEAN]

CheckpointRow ==
    [result : Observations \cup {"NONE", "PENDING"}, tries : 0 .. ReconAttempts,
     owner : WorkerIds \cup {NoWorker}, lease : {"none", "live", "expired"},
     due : BOOLEAN]

Requests == {"none", "sent", "applied", "refused"}

Phases ==
    {"poll_outbox", "deliver", "call", "await", "record",
     "poll_checkpoints", "reconcile", "complete", "complete_again", "down"}

NoJob    == <<>>
NoAnswer == "none"
Answers  == Observations \cup FailureClasses \cup {"ACKNOWLEDGED", NoAnswer}

NewOutboxRow ==
    [state |-> "PENDING", attempts |-> 0, owner |-> NoWorker, lease |-> "none",
     due |-> TRUE]

NoCheckpoint ==
    [result |-> "NONE", tries |-> 0, owner |-> NoWorker, lease |-> "none",
     due |-> FALSE]

(***************************************************************************)
(* The commands were accepted: a PENDING outbox row and a DISPATCH_PENDING *)
(* receipt for each.  Workers are not yet started.                         *)
(***************************************************************************)
Init ==
    /\ outbox = [m \in Messages |-> NewOutboxRow]
    /\ attempt = [m \in Messages |-> [n \in Budget |-> "NONE"]]
    /\ checkpoint = [m \in Messages |-> [n \in Budget |-> NoCheckpoint]]
    /\ receipt = [m \in Messages |-> "DISPATCH_PENDING"]
    /\ deadLetters = {}
    /\ switches = {}
    /\ request = [m \in Messages |-> [n \in Budget |-> "none"]]
    /\ pc = [w \in Workers |-> "down"]
    /\ batch = [w \in Workers |-> {}]
    /\ job = [w \in Workers |-> NoJob]
    /\ answer = [w \in Workers |-> NoAnswer]

-------------------------------------------------------------------------------
(***************************************************************************)
(* Rows.                                                                   *)
(***************************************************************************)
Released(row, s, due) ==
    [row EXCEPT !.state = s, !.owner = NoWorker, !.lease = "none", !.due = due]

\* insert ... on conflict (tenant_id, reconciliation_id) do nothing
Opened(c) ==
    IF c.result = "NONE" THEN [NoCheckpoint EXCEPT !.result = "PENDING", !.due = TRUE]
                         ELSE c

Killed(m) == GLOBAL \in switches \/ destination[m] \in switches

\* Mutant: the lease counts, whoever holds it.
OwnedByAnyone(w, m) == outbox[m].state = "CLAIMED" /\ outbox[m].lease = "live"

\* lockOwnedOutbox: fenced by the identity of the worker, not by the attempt.
Owned(w, m) ==
    /\ outbox[m].state = "CLAIMED"
    /\ outbox[m].owner = workerId[w]
    /\ outbox[m].lease = "live"

CheckpointOwned(w, m, n) ==
    /\ checkpoint[m][n].result = "PENDING"
    /\ checkpoint[m][n].owner = workerId[w]
    /\ checkpoint[m][n].lease = "live"

\* Mutant: an ambiguous outcome is retried like a transient one.
DecideBlindly(class, n, max) ==
    IF class \in {"CONTRACT_VIOLATION", "PERMANENT", "POLICY_BLOCKED"} \/ n >= max
    THEN "DEAD_LETTER" ELSE "RETRY"

\* decideRetry, as recordOutboxFailure calls it (killSwitchActive: false).
Decide(class, n, max) ==
    CASE class = "AMBIGUOUS_AFTER_ACK" -> "RECONCILE"
      [] class \in {"CONTRACT_VIOLATION", "PERMANENT", "POLICY_BLOCKED"} -> "DEAD_LETTER"
      [] class \in {"TRANSIENT_BEFORE_ACK", "RATE_LIMITED"} ->
            IF n >= max THEN "DEAD_LETTER" ELSE "RETRY"

\* insert ... on conflict (tenant_id, message_kind, message_ref) do nothing
WithDeadLetter(m, dead) == IF dead THEN deadLetters \cup {m} ELSE deadLetters

Goto(w, phase) == pc' = [pc EXCEPT ![w] = phase]

(***************************************************************************)
(* The process ends: an exception nobody catches, or the process is killed.*)
(* Whatever it had claimed stays claimed until the lease expires.          *)
(***************************************************************************)
Exit(w) ==
    /\ Goto(w, "down")
    /\ batch' = [batch EXCEPT ![w] = {}]
    /\ job' = [job EXCEPT ![w] = NoJob]
    /\ answer' = [answer EXCEPT ![w] = NoAnswer]
    /\ UNCHANGED <<storeVars, switches, request>>

-------------------------------------------------------------------------------
(***************************************************************************)
(* claimDueOutbox: release every expired claim, then claim due rows.  An   *)
(* expired claim whose dispatch had started has to be reconciled; any      *)
(* other one is retried, or dead-lettered when its budget is used up.      *)
(***************************************************************************)
Expired(m) == outbox[m].state = "CLAIMED" /\ outbox[m].lease = "expired"

Abandoned(m) ==
    /\ Expired(m)
    /\ outbox[m].attempts \in Budget
    /\ attempt[m][outbox[m].attempts] = "STARTED"

\* Mutant: one attempt too many.
ExhaustedLate(m) == outbox[m].attempts > maxAttempts[m]

Exhausted(m) == outbox[m].attempts >= maxAttempts[m]

\* Mutant: no continue after the reconciliation branch.
SweptThrough(m) ==
    IF Expired(m)
    THEN Released(outbox[m],
                  IF Exhausted(m) THEN "DEAD_LETTERED" ELSE "RETRY_SCHEDULED", TRUE)
    ELSE outbox[m]

Swept(m) ==
    IF Abandoned(m) THEN Released(outbox[m], "RECONCILIATION_REQUIRED", outbox[m].due)
    ELSE IF Expired(m)
         THEN Released(outbox[m],
                       IF Exhausted(m) THEN "DEAD_LETTERED" ELSE "RETRY_SCHEDULED", TRUE)
    ELSE outbox[m]

\* Mutant: retries are never due.
ClaimableOnce(m) ==
    Swept(m).state = "PENDING" /\ Swept(m).attempts < maxAttempts[m] /\ ~Killed(m)

Claimable(m) ==
    /\ Swept(m).state \in {"PENDING", "RETRY_SCHEDULED"}
    /\ Swept(m).due
    /\ Swept(m).attempts < maxAttempts[m]
    /\ ~Killed(m)

\* A claim takes every due row, or as many as its limit allows.
Take(due) ==
    {S \in SUBSET due : \/ S = due /\ Cardinality(S) <= BatchLimit
                        \/ Cardinality(S) = BatchLimit}

ClaimDueOutbox(w) ==
    /\ pc[w] = "poll_outbox"
    /\ \E S \in Take({m \in Messages : Claimable(m)}) :
        /\ outbox' = [m \in Messages |->
              IF m \in S
              THEN [Swept(m) EXCEPT !.state = "CLAIMED", !.attempts = @ + 1,
                                    !.owner = workerId[w], !.lease = "live"]
              ELSE Swept(m)]
        /\ batch' = [batch EXCEPT ![w] = {<<m, outbox[m].attempts + 1>> : m \in S}]
    /\ attempt' = [m \in Messages |-> [n \in Budget |->
          IF Abandoned(m) /\ n = outbox[m].attempts
          THEN "RECONCILIATION_REQUIRED" ELSE attempt[m][n]]]
    /\ checkpoint' = [m \in Messages |-> [n \in Budget |->
          IF Abandoned(m) /\ n = outbox[m].attempts
          THEN Opened(checkpoint[m][n]) ELSE checkpoint[m][n]]]
    /\ deadLetters' = deadLetters \cup
          {m \in Messages : Expired(m) /\ ~Abandoned(m) /\ Exhausted(m)}
    /\ Goto(w, "deliver")
    /\ UNCHANGED <<receipt, switches, request, job, answer>>

-------------------------------------------------------------------------------
(***************************************************************************)
(* runDeliveryBatch works the claimed rows off one after the other.        *)
(***************************************************************************)

\* recordOutboxFailure for the attempt the row is at, by a worker that owns it.
RecordOutboxFailure(m, class) ==
    LET n == outbox[m].attempts
        d == Decide(class, n, maxAttempts[m])
    IN
    /\ attempt' = [attempt EXCEPT ![m][n] =
          CASE d = "RETRY" -> "RETRY_SCHEDULED"
            [] d = "RECONCILE" -> "RECONCILIATION_REQUIRED"
            [] d = "DEAD_LETTER" -> "FAILED"]
    /\ outbox' = [outbox EXCEPT ![m] =
          CASE d = "RETRY" -> Released(@, "RETRY_SCHEDULED", FALSE)
            [] d = "RECONCILE" -> Released(@, "RECONCILIATION_REQUIRED", @.due)
            [] d = "DEAD_LETTER" -> Released(@, "DEAD_LETTERED", @.due)]
    /\ checkpoint' =
          IF d = "RECONCILE"
          THEN [checkpoint EXCEPT ![m][n] = Opened(@)] ELSE checkpoint
    /\ deadLetters' = WithDeadLetter(m, d = "DEAD_LETTER")
    /\ UNCHANGED receipt

\* The message, its adapter or its enablement is refused before any dispatch.
RefuseBeforeDispatch(w) ==
    /\ pc[w] = "deliver"
    /\ \E j \in batch[w] : \E m \in Messages :
        /\ m = j[1]
        /\ Owned(w, m)
        /\ \E class \in Classes \cap {"CONTRACT_VIOLATION", "PERMANENT", "POLICY_BLOCKED"} :
              RecordOutboxFailure(m, class)
        /\ batch' = [batch EXCEPT ![w] = @ \ {j}]
    /\ UNCHANGED <<switches, request, pc, job, answer>>

\* The durable boundary written before an adapter call.
RecordDispatchStarted(w) ==
    /\ pc[w] = "deliver"
    /\ \E j \in batch[w] : \E m \in Messages, n \in Budget :
        /\ m = j[1]
        /\ Owned(w, m)
        /\ n = outbox[m].attempts
        /\ attempt[m][n] = "NONE"                  \* unique (message, attempt)
        /\ attempt' = [attempt EXCEPT ![m][n] = "STARTED"]
        /\ batch' = [batch EXCEPT ![w] = @ \ {j}]
        /\ job' = [job EXCEPT ![w] = <<m, n>>]
    /\ Goto(w, "call")
    /\ UNCHANGED <<outbox, checkpoint, receipt, deadLetters, switches, request, answer>>

\* LEASE_NOT_OWNED, or the attempt row exists: the exception ends the process.
DispatchRejected(w) ==
    /\ pc[w] = "deliver"
    /\ \E j \in batch[w] : \E m \in Messages :
        /\ m = j[1]
        /\ Owned(w, m) => attempt[m][outbox[m].attempts] # "NONE"
    /\ Exit(w)

DeliveryBatchDone(w) ==
    /\ pc[w] = "deliver"
    /\ batch[w] = {}
    /\ Goto(w, "poll_checkpoints")
    /\ UNCHANGED <<storeVars, switches, request, batch, job, answer>>

\* adapter.execute sends the request; the provider may act on it at any time.
Execute(w) ==
    /\ pc[w] = "call"
    /\ \E m \in Messages, n \in Budget :
        /\ job[w] = <<m, n>>
        /\ request' = [request EXCEPT ![m][n] = "sent"]
    /\ Goto(w, "await")
    /\ UNCHANGED <<storeVars, switches, batch, job, answer>>

\* What an adapter may report.  An acknowledgement is accepted with nothing but
\* a reference: the request may still be queued, and be refused afterwards.
\* Only a class that denies the acknowledgement is taken to be true of the
\* provider.
MayAnswer(r, a) ==
    \/ a \in {"ACKNOWLEDGED", "AMBIGUOUS_AFTER_ACK"}
    \/ a \in Classes \ {"AMBIGUOUS_AFTER_ACK"} /\ r = "refused"

AdapterAnswers(w) ==
    /\ pc[w] = "await"
    /\ \E m \in Messages, n \in Budget, a \in Classes \cup {"ACKNOWLEDGED", "AMBIGUOUS_AFTER_ACK"} :
        /\ job[w] = <<m, n>>
        /\ MayAnswer(request[m][n], a)
        /\ answer' = [answer EXCEPT ![w] = a]
    /\ Goto(w, "record")
    /\ UNCHANGED <<storeVars, switches, request, batch, job>>

\* Mutant: the acknowledgement is taken for the confirmation.
AcknowledgementIsFinal(m) ==
    LET n == outbox[m].attempts IN
    /\ attempt[m][n] = "STARTED"
    /\ attempt' = [attempt EXCEPT ![m][n] = "SUCCEEDED"]
    /\ outbox' = [outbox EXCEPT ![m] = Released(@, "SOURCE_CONFIRMED", @.due)]
    /\ receipt' = [receipt EXCEPT ![m] = "SOURCE_CONFIRMED"]
    /\ UNCHANGED <<deadLetters, checkpoint>>

\* recordProviderAcknowledgement: the attempt of the row has to be STARTED.
RecordProviderAcknowledgement(m) ==
    LET n == outbox[m].attempts IN
    /\ attempt[m][n] = "STARTED"
    /\ attempt' = [attempt EXCEPT ![m][n] = "SUCCEEDED"]
    /\ checkpoint' = [checkpoint EXCEPT ![m][n] = Opened(@)]
    /\ outbox' = [outbox EXCEPT ![m] = Released(@, "PROVIDER_ACKNOWLEDGED", @.due)]
    /\ UNCHANGED <<receipt, deadLetters>>

RecordAnswer(w) ==
    /\ pc[w] = "record"
    /\ \E m \in Messages, n \in Budget :
        /\ job[w] = <<m, n>>
        /\ Owned(w, m)
        /\ \/ answer[w] = "ACKNOWLEDGED" /\ RecordProviderAcknowledgement(m)
           \/ answer[w] \in FailureClasses /\ RecordOutboxFailure(m, answer[w])
    /\ Goto(w, "deliver")
    /\ job' = [job EXCEPT ![w] = NoJob]
    /\ answer' = [answer EXCEPT ![w] = NoAnswer]
    /\ UNCHANGED <<switches, request, batch>>

\* LEASE_NOT_OWNED or DISPATCH_START_MISSING: the answer is lost with the process.
AnswerRejected(w) ==
    /\ pc[w] = "record"
    /\ \E m \in Messages, n \in Budget :
        /\ job[w] = <<m, n>>
        /\ Owned(w, m) => /\ answer[w] = "ACKNOWLEDGED"
                          /\ attempt[m][outbox[m].attempts] # "STARTED"
    /\ Exit(w)

-------------------------------------------------------------------------------
(***************************************************************************)
(* claimDueReconciliations: release expired leases, then claim due rows    *)
(* that have budget left.                                                  *)
(***************************************************************************)
CheckpointSwept(m, n) ==
    IF checkpoint[m][n].result = "PENDING" /\ checkpoint[m][n].lease = "expired"
    THEN [checkpoint[m][n] EXCEPT !.owner = NoWorker, !.lease = "none", !.due = TRUE]
    ELSE checkpoint[m][n]

CheckpointClaimable(m, n) ==
    /\ CheckpointSwept(m, n).result = "PENDING"
    /\ CheckpointSwept(m, n).due
    /\ CheckpointSwept(m, n).tries < ReconAttempts
    /\ CheckpointSwept(m, n).owner = NoWorker

ClaimDueReconciliations(w) ==
    /\ pc[w] = "poll_checkpoints"
    /\ \E S \in Take({r \in Row : CheckpointClaimable(r[1], r[2])}) :
        /\ checkpoint' = [m \in Messages |-> [n \in Budget |->
              IF <<m, n>> \in S
              THEN [CheckpointSwept(m, n) EXCEPT
                      !.owner = workerId[w], !.lease = "live", !.tries = @ + 1]
              ELSE CheckpointSwept(m, n)]]
        /\ batch' = [batch EXCEPT ![w] = S]
    /\ Goto(w, "reconcile")
    /\ UNCHANGED <<outbox, attempt, receipt, deadLetters, switches, request, job, answer>>

-------------------------------------------------------------------------------
(***************************************************************************)
(* runReconciliationBatch: ask the source about each claimed checkpoint.   *)
(***************************************************************************)

\* What reading the source back by the idempotency key of m may report.
MayObserve(m, r) ==
    LET there == \E n \in Budget : request[m][n] = "applied" IN
    /\ r = "MATCHED" => there
    /\ r = "NOT_FOUND" => ~there
    /\ r = "VERSION_MISMATCH" => there

StartReconciliation(w, m, n, r, phase) ==
    /\ <<m, n>> \in batch[w]
    /\ batch' = [batch EXCEPT ![w] = @ \ {<<m, n>>}]
    /\ job' = [job EXCEPT ![w] = <<m, n>>]
    /\ answer' = [answer EXCEPT ![w] = r]
    /\ Goto(w, phase)
    /\ UNCHANGED <<storeVars, switches, request>>

AdapterObserves(w) ==
    /\ pc[w] = "reconcile"
    /\ \E m \in Messages, n \in Budget, r \in Observations :
        /\ MayObserve(m, r)
        /\ StartReconciliation(w, m, n, r, "complete")

\* A row the adapter is never asked about: altered, or its adapter unavailable.
SkipObservation(w) ==
    /\ pc[w] = "reconcile"
    /\ \E m \in Messages, n \in Budget, r \in {"VERSION_MISMATCH", "SOURCE_UNAVAILABLE"} :
        StartReconciliation(w, m, n, r, "complete_again")

\* Mutant: a source that cannot be read counts as absence.
PresumedAbsent(r) == r \in {"NOT_FOUND", "SOURCE_UNAVAILABLE"}

\* Only an authoritative absence lets the message be sent again.
ProvedAbsent(r) == r = "NOT_FOUND"

(***************************************************************************)
(* completeClaimedReconciliation, by a worker that owns the checkpoint.    *)
(***************************************************************************)
CompleteClaimedReconciliation(w) ==
    /\ pc[w] \in {"complete", "complete_again"}
    /\ \E m \in Messages, n \in Budget :
        LET r == answer[w]
            row == checkpoint[m][n]
            pendingAgain == /\ r \in {"AMBIGUOUS", "SOURCE_UNAVAILABLE"}
                            /\ row.tries < ReconAttempts
            absent == ProvedAbsent(r)
        IN
        /\ job[w] = <<m, n>>
        /\ CheckpointOwned(w, m, n)
        /\ checkpoint' = [checkpoint EXCEPT ![m][n] =
              [row EXCEPT !.result = IF pendingAgain THEN "PENDING" ELSE r,
                          !.owner = NoWorker, !.lease = "none",
                          !.due = row.due /\ ~pendingAgain]]
        /\ outbox' = [outbox EXCEPT ![m] =
              CASE pendingAgain -> @
                [] r = "MATCHED" -> [@ EXCEPT !.state = "SOURCE_CONFIRMED"]
                [] absent /\ Exhausted(m) ->
                      [@ EXCEPT !.state = "DEAD_LETTERED", !.due = TRUE]
                [] absent /\ ~Exhausted(m) ->
                      [@ EXCEPT !.state = "RETRY_SCHEDULED", !.due = TRUE]
                [] OTHER -> [@ EXCEPT !.state = "BLOCKED"]]
        /\ receipt' = IF r = "MATCHED"
                      THEN [receipt EXCEPT ![m] = "SOURCE_CONFIRMED"] ELSE receipt
        /\ deadLetters' = WithDeadLetter(m, absent /\ Exhausted(m))
    /\ Goto(w, "reconcile")
    /\ job' = [job EXCEPT ![w] = NoJob]
    /\ answer' = [answer EXCEPT ![w] = NoAnswer]
    /\ UNCHANGED <<attempt, switches, request, batch>>

(***************************************************************************)
(* The completion is inside the try block: when it throws (the lease is    *)
(* lost, or the database fails), the handler completes once more, with     *)
(* SOURCE_UNAVAILABLE.  A second exception ends the process.               *)
(***************************************************************************)
CompletionThrows(w) ==
    /\ pc[w] = "complete"
    /\ Goto(w, "complete_again")
    /\ answer' = [answer EXCEPT ![w] = "SOURCE_UNAVAILABLE"]
    /\ UNCHANGED <<storeVars, switches, request, batch, job>>

CompletionRejected(w) ==
    /\ pc[w] = "complete_again"
    /\ \E m \in Messages, n \in Budget :
        job[w] = <<m, n>> /\ ~CheckpointOwned(w, m, n)
    /\ Exit(w)

ReconciliationBatchDone(w) ==
    /\ pc[w] = "reconcile"
    /\ batch[w] = {}
    /\ Goto(w, "poll_outbox")
    /\ UNCHANGED <<storeVars, switches, request, batch, job, answer>>

Start(w) ==
    /\ pc[w] = "down"
    /\ Goto(w, "poll_outbox")
    /\ UNCHANGED <<storeVars, switches, request, batch, job, answer>>

Crash(w) ==
    /\ w \in Crashable
    /\ pc[w] # "down"
    /\ Exit(w)

-------------------------------------------------------------------------------
(***************************************************************************)
(* The environment: time, the provider, and operators.                     *)
(***************************************************************************)
\* lease_expires_at > now() >= request_deadline_at
RequestDeadlinePasses(m) ==
    /\ outbox[m].lease = "live"
    /\ outbox' = [outbox EXCEPT ![m].lease = "overdue"]
    /\ UNCHANGED <<attempt, checkpoint, receipt, deadLetters, switches, request, workerVars>>

\* The deadline is never after the expiry (p110_outbox_lease_evidence_check).
OutboxLeaseExpires(m) ==
    /\ outbox[m].lease = "overdue"
    /\ outbox' = [outbox EXCEPT ![m].lease = "expired"]
    /\ UNCHANGED <<attempt, checkpoint, receipt, deadLetters, switches, request, workerVars>>

BackoffElapses(m) ==
    /\ outbox[m].state = "RETRY_SCHEDULED"
    /\ ~outbox[m].due
    /\ outbox' = [outbox EXCEPT ![m].due = TRUE]
    /\ UNCHANGED <<attempt, checkpoint, receipt, deadLetters, switches, request, workerVars>>

CheckpointLeaseExpires(m, n) ==
    /\ checkpoint[m][n].lease = "live"
    /\ checkpoint' = [checkpoint EXCEPT ![m][n].lease = "expired"]
    /\ UNCHANGED <<outbox, attempt, receipt, deadLetters, switches, request, workerVars>>

NextCheckDue(m, n) ==
    /\ checkpoint[m][n].result = "PENDING"
    /\ ~checkpoint[m][n].due
    /\ checkpoint' = [checkpoint EXCEPT ![m][n].due = TRUE]
    /\ UNCHANGED <<outbox, attempt, receipt, deadLetters, switches, request, workerVars>>

\* The provider acts on a request that has arrived, however late.
ProviderActs(m, n) ==
    /\ request[m][n] = "sent"
    /\ \E r \in {"applied", "refused"} : request' = [request EXCEPT ![m][n] = r]
    /\ UNCHANGED <<storeVars, switches, workerVars>>

ToggleKillSwitch ==
    /\ \E s \in Destinations \cup {GLOBAL} :
        switches' = IF s \in switches THEN switches \ {s} ELSE switches \cup {s}
    /\ UNCHANGED <<storeVars, request, workerVars>>

(***************************************************************************)
(* recordReconciliation: an operator settles a checkpoint.  It takes no    *)
(* lease, but a leased row cannot leave PENDING                            *)
(* (p110_reconciliation_lease_evidence_check), and only MATCHED reaches    *)
(* the outbox row.                                                         *)
(***************************************************************************)
RecordReconciliation(m, n) ==
    /\ checkpoint[m][n].result = "PENDING"
    /\ checkpoint[m][n].owner = NoWorker
    /\ \E r \in Observations :
        /\ MayObserve(m, r)
        /\ checkpoint' = [checkpoint EXCEPT ![m][n].result = r]
        /\ outbox' = IF r = "MATCHED"
                     THEN [outbox EXCEPT ![m].state = "SOURCE_CONFIRMED"] ELSE outbox
        /\ receipt' = IF r = "MATCHED"
                      THEN [receipt EXCEPT ![m] = "SOURCE_CONFIRMED"] ELSE receipt
    /\ UNCHANGED <<attempt, deadLetters, switches, request, workerVars>>

-------------------------------------------------------------------------------
\* Everything a worker process does of its own accord.
Work(w) ==
    \/ Start(w)
    \/ ClaimDueOutbox(w)
    \/ RefuseBeforeDispatch(w) \/ RecordDispatchStarted(w) \/ DispatchRejected(w)
    \/ DeliveryBatchDone(w)
    \/ Execute(w) \/ AdapterAnswers(w)
    \/ RecordAnswer(w) \/ AnswerRejected(w)
    \/ ClaimDueReconciliations(w)
    \/ AdapterObserves(w) \/ SkipObservation(w)
    \/ CompleteClaimedReconciliation(w) \/ CompletionThrows(w) \/ CompletionRejected(w)
    \/ ReconciliationBatchDone(w)

TimePasses ==
    \/ \E m \in Messages : \/ RequestDeadlinePasses(m) \/ OutboxLeaseExpires(m)
                           \/ BackoffElapses(m)
    \/ \E m \in Messages, n \in Budget : \/ CheckpointLeaseExpires(m, n)
                                         \/ NextCheckDue(m, n)

Next ==
    \/ \E w \in Workers : Work(w) \/ Crash(w)
    \/ TimePasses
    \/ \E m \in Messages, n \in Budget : ProviderActs(m, n) \/ RecordReconciliation(m, n)
    \/ ToggleKillSwitch

Spec == Init /\ [][Next]_vars

(***************************************************************************)
(* Workers keep taking steps (adapters bound their calls), a process that  *)
(* ended is started again, and time passes.  Nothing is assumed of the     *)
(* provider, of operators, or of processes that may crash at any point.    *)
(***************************************************************************)
Fairness ==
    /\ \A w \in Workers : WF_vars(Work(w))
    /\ \A m \in Messages : /\ WF_vars(RequestDeadlinePasses(m))
                           /\ WF_vars(OutboxLeaseExpires(m))
                           /\ WF_vars(BackoffElapses(m))
    /\ \A m \in Messages, n \in Budget : /\ WF_vars(CheckpointLeaseExpires(m, n))
                                         /\ WF_vars(NextCheckDue(m, n))

FairSpec == Spec /\ Fairness

-------------------------------------------------------------------------------
(***************************************************************************)
(* Safety.                                                                 *)
(***************************************************************************)

\* Every variable keeps its type.
TypeOK ==
    /\ outbox \in [Messages -> OutboxRow]
    /\ attempt \in [Messages -> [Budget -> AttemptResults]]
    /\ checkpoint \in [Messages -> [Budget -> CheckpointRow]]
    /\ receipt \in [Messages -> {"DISPATCH_PENDING", "SOURCE_CONFIRMED"}]
    /\ deadLetters \subseteq Messages
    /\ switches \subseteq Destinations \cup {GLOBAL}
    /\ request \in [Messages -> [Budget -> Requests]]
    /\ pc \in [Workers -> Phases]
    /\ batch \in [Workers -> SUBSET Row]
    /\ job \in [Workers -> Row \cup {NoJob}]
    /\ answer \in [Workers -> Answers]

Doubtful == {"PROVIDER_ACKNOWLEDGED", "RECONCILIATION_REQUIRED"}
Settled  == {"SOURCE_CONFIRMED", "DEAD_LETTERED", "BLOCKED"}

\* A pending checkpoint is about the attempt its message is at, and the
\* message waits for it: completing it can never overwrite a message that was
\* claimed again or settled (completeClaimedReconciliation and
\* recordReconciliation update the outbox row without looking at its state).
PendingIsCurrent ==
    \A m \in Messages, n \in Budget :
        checkpoint[m][n].result = "PENDING" =>
            outbox[m].state \in Doubtful /\ outbox[m].attempts = n

\* No attempt follows one whose outcome is open: an earlier attempt never
\* started, failed before acknowledgement, or was read back as absent.
ReconcileBeforeRetry ==
    \A m \in Messages, n \in Budget :
        \/ n > outbox[m].attempts
        \/ n = outbox[m].attempts /\ outbox[m].state \notin {"PENDING", "RETRY_SCHEDULED"}
        \/ attempt[m][n] \in {"NONE", "RETRY_SCHEDULED"}
        \/ checkpoint[m][n].result = "NOT_FOUND"

\* A dispatch-start nobody answered belongs to the current claim: once the
\* claim is gone (crash, lost lease) the attempt is no longer STARTED.
NoOrphanedStart ==
    \A m \in Messages, n \in Budget :
        attempt[m][n] = "STARTED" =>
            outbox[m].state = "CLAIMED" /\ outbox[m].attempts = n

\* Outbox and receipt agree on source confirmation, and the provider did
\* apply a request: an acknowledgement, which may come for a request that is
\* still queued or will be refused, never confirms.
ConfirmedBySource ==
    \A m \in Messages :
        /\ outbox[m].state = "SOURCE_CONFIRMED" <=> receipt[m] = "SOURCE_CONFIRMED"
        /\ outbox[m].state = "SOURCE_CONFIRMED" =>
              \E n \in Budget : request[m][n] = "applied"

\* A message is dead-lettered exactly when it has a dead letter, on each of
\* the three paths that lead there.
DeadLetterEvidence ==
    \A m \in Messages : outbox[m].state = "DEAD_LETTERED" <=> m \in deadLetters

\* An adapter is called at most once per attempt within the budget: with a
\* budget of one, a message is never sent twice.
CallsWithinBudget ==
    \A m \in Messages, n \in Budget :
        request[m][n] # "none" => n <= outbox[m].attempts /\ n <= maxAttempts[m]

\* An attempt that was acknowledged, or may have been, is followed up: it has
\* a checkpoint, on every path that writes such a result.
DoubtIsFollowedUp ==
    \A m \in Messages, n \in Budget :
        attempt[m][n] \in {"SUCCEEDED", "RECONCILIATION_REQUIRED"} =>
            checkpoint[m][n].result # "NONE"

\* What an attempt row says of the provider is true of the provider: it holds
\* no effect of an attempt that is to be retried or failed, and an attempt that
\* was acknowledged was made.  Needs one identity per process.
AttemptEvidenceIsTrue ==
    UniqueWorkerIds =>
    \A m \in Messages, n \in Budget :
        /\ attempt[m][n] \in {"RETRY_SCHEDULED", "FAILED"} =>
              request[m][n] \in {"none", "refused"}
        /\ attempt[m][n] = "SUCCEEDED" => request[m][n] # "none"

\* The rows a message leaves behind fit what was done, whichever path through
\* sweep, failure or reconciliation wrote them.
EvidenceFits ==
    NoOrphanedStart /\ DeadLetterEvidence /\ DoubtIsFollowedUp /\ AttemptEvidenceIsTrue

\* Two calls of one message are never both unaccounted for: the earlier one
\* was refused, or the source was read back without its effect before the
\* later one was made.  Needs one identity per process.
OneUnresolvedCall ==
    UniqueWorkerIds =>
    \A m \in Messages, n1, n2 \in Budget :
        n1 < n2 /\ request[m][n1] \in {"sent", "applied"} /\ request[m][n2] # "none" =>
            checkpoint[m][n1].result = "NOT_FOUND"

(***************************************************************************)
(* What a step may never do.                                               *)
(***************************************************************************)

\* Confirmed, dead-lettered and blocked messages stay so, whatever late
\* worker, sweep or operator comes along.
SettledIsFinal ==
    [][\A m \in Messages :
          outbox[m].state \in Settled => outbox'[m].state = outbox[m].state]_vars

\* The outcome of an attempt is written once, although recordOutboxFailure
\* upserts it.
OutcomeIsWrittenOnce ==
    [][\A m \in Messages, n \in Budget :
          attempt[m][n] \notin {"NONE", "STARTED"} =>
              attempt'[m][n] = attempt[m][n]]_vars

\* History is never rewritten, neither the end of a message nor that of an attempt.
HistoryStands == SettledIsFinal /\ OutcomeIsWrittenOnce

(***************************************************************************)
(* Liveness, under FairSpec.                                               *)
(***************************************************************************)

\* The checkpoint of m used its last try and nobody holds its lease: no claim
\* takes it any more.
Stranded(m) ==
    \E n \in Budget :
        /\ checkpoint[m][n].result = "PENDING"
        /\ checkpoint[m][n].tries = ReconAttempts
        /\ checkpoint[m][n].lease # "live"

\* An operator closed the checkpoint of m with a result that is not MATCHED.
LeftToOperator(m) ==
    /\ outbox[m].state \in Doubtful
    /\ \A n \in Budget : checkpoint[m][n].result # "PENDING"

\* Every message comes to rest: it settles, or is held by a kill switch, or
\* its reconciliation is stranded or was taken over by an operator.
EveryMessageComesToRest ==
    \A m \in Messages :
        []<>(\/ outbox[m].state \in Settled
             \/ Killed(m) \/ Stranded(m) \/ LeftToOperator(m))

(***************************************************************************)
(* What the documents say and the code does not do.                        *)
(***************************************************************************)

\* "PENDING checkpoints are claimed": a pending checkpoint is decided.
ReconciliationConcludes ==
    \A m \in Messages, n \in Budget :
        checkpoint[m][n].result = "PENDING" ~> checkpoint[m][n].result # "PENDING"
===============================================================================
