------------------------ MODULE OutboxDelivery_proofs ------------------------
(***************************************************************************)
(* Theorems about the outbox, for any messages, budgets and workers.       *)
(*                                                                         *)
(* TypeOK is not inductive alone: a completed checkpoint takes the answer  *)
(* of the worker for its result, so the answer has to be an observation.   *)
(* The invariant grows in layers: TypeInv, then IInv on how the rows of a  *)
(* message agree, then ProviderInv on what its provider was asked and who  *)
(* asked.  Every action is first shown to be a MessageStep of each         *)
(* message; the properties and the refinement are about these steps.       *)
(***************************************************************************)
EXTENDS OutboxRefinement, TLAPS

AnswerFits ==
    \A w \in Workers : pc[w] \in {"complete", "complete_again"} => answer[w] \in Observations

TypeInv == TypeOK /\ AnswerFits

-------------------------------------------------------------------------------
(***************************************************************************)
(* What the operators on rows return.                                      *)
(***************************************************************************)

\* A row that is released in a known state stays a row.
LEMMA ReleasedType ==
    ASSUME NEW row \in OutboxRow, NEW s \in OutboxStates, NEW due \in BOOLEAN
    PROVE  Released(row, s, due) \in OutboxRow
BY DEF Released, OutboxRow

\* Opening a checkpoint gives a checkpoint.
LEMMA OpenedType ==
    ASSUME NEW c \in CheckpointRow
    PROVE  Opened(c) \in CheckpointRow
<1>1. CASE c.result = "NONE"
  <2>1. Opened(c) = [result |-> "PENDING", tries |-> 0, owner |-> NoWorker,
                     lease |-> "none", due |-> TRUE]
    BY <1>1 DEF Opened, NoCheckpoint
  <2> QED
    BY <2>1, BudgetAssumption DEF CheckpointRow
<1>2. CASE c.result # "NONE"
  BY <1>2 DEF Opened
<1> QED
  BY <1>1, <1>2

\* The sweep of claimDueOutbox turns rows into rows.
LEMMA SweptType ==
    ASSUME TypeOK, NEW m \in Messages
    PROVE  Swept(m) \in OutboxRow
<1>1. outbox[m] \in OutboxRow
  BY DEF TypeOK
<1>2. outbox[m].due \in BOOLEAN
  BY <1>1 DEF OutboxRow
<1>3. {"RECONCILIATION_REQUIRED", "DEAD_LETTERED", "RETRY_SCHEDULED"} \subseteq OutboxStates
  BY DEF OutboxStates
<1> QED
  BY <1>1, <1>2, <1>3, ReleasedType DEF Swept

\* So does the sweep of claimDueReconciliations with checkpoints.
LEMMA CheckpointSweptType ==
    ASSUME TypeOK, NEW m \in Messages, NEW n \in Budget
    PROVE  CheckpointSwept(m, n) \in CheckpointRow
<1>1. checkpoint[m][n] \in CheckpointRow
  BY DEF TypeOK
<1> QED
  BY <1>1 DEF CheckpointSwept, CheckpointRow

\* A decision of decideRetry is one of three.
LEMMA DecideRange ==
    ASSUME NEW class \in FailureClasses, NEW n, NEW max
    PROVE  Decide(class, n, max) \in {"RETRY", "RECONCILE", "DEAD_LETTER"}
BY DEF FailureClasses, Decide

\* What a claim takes is part of what is due.
LEMMA TakeSubset ==
    ASSUME NEW due, NEW S \in Take(due)
    PROVE  S \subseteq due
BY DEF Take

-------------------------------------------------------------------------------
(***************************************************************************)
(* Types: one lemma per action that writes to the store.                   *)
(***************************************************************************)
LEMMA TypeInit == Init => TypeInv
<1> SUFFICES ASSUME Init PROVE TypeInv
  OBVIOUS
<1>1. NewOutboxRow \in OutboxRow
  BY BudgetAssumption DEF NewOutboxRow, OutboxRow, OutboxStates
<1>2. NoCheckpoint \in CheckpointRow
  BY BudgetAssumption DEF NoCheckpoint, CheckpointRow
<1>3. TypeOK
  BY <1>1, <1>2 DEF Init, TypeOK, AttemptResults, Requests, Phases, Answers, NoAnswer
<1>4. AnswerFits
  BY DEF Init, AnswerFits
<1> QED
  BY <1>3, <1>4 DEF TypeInv

LEMMA TypeClaimDueOutbox ==
    ASSUME TypeInv, NEW w \in Workers, ClaimDueOutbox(w)
    PROVE  TypeInv'
<1> USE DEF TypeInv
<1>1. PICK S \in Take({m \in Messages : Claimable(m)}) :
        /\ outbox' = [m \in Messages |->
              IF m \in S
              THEN [Swept(m) EXCEPT !.state = "CLAIMED", !.attempts = @ + 1,
                                    !.owner = workerId[w], !.lease = "live"]
              ELSE Swept(m)]
        /\ batch' = [batch EXCEPT ![w] = {<<m, outbox[m].attempts + 1>> : m \in S}]
  BY DEF ClaimDueOutbox
<1>2. S \subseteq {m \in Messages : Claimable(m)}
  BY <1>1, TakeSubset
<1>3. ASSUME NEW m \in S
      PROVE  /\ Swept(m).attempts + 1 \in Budget
             /\ Swept(m).attempts = outbox[m].attempts
  <2>1. m \in Messages /\ Swept(m) \in OutboxRow
    BY <1>2, SweptType
  <2>2. Swept(m).attempts \in Nat /\ Swept(m).attempts < maxAttempts[m]
    BY <1>2, <2>1 DEF Claimable, OutboxRow
  <2>3. maxAttempts[m] \in 1 .. MaxBudget
    BY <2>1, BudgetAssumption
  <2>4. outbox[m] \in OutboxRow
    BY <2>1 DEF TypeOK
  <2>5. Swept(m).attempts = outbox[m].attempts
    BY <2>4 DEF Swept, Released, OutboxRow
  <2> QED
    BY <2>2, <2>3, <2>5, BudgetAssumption DEF Budget
<1>4. outbox' \in [Messages -> OutboxRow]
  <2> SUFFICES ASSUME NEW m \in Messages PROVE outbox'[m] \in OutboxRow
    BY <1>1
  <2>1. Swept(m) \in OutboxRow
    BY SweptType
  <2>2. CASE m \in S
    <3>1. Swept(m).attempts + 1 \in 0 .. MaxBudget
      BY <1>3, <2>2, BudgetAssumption DEF Budget
    <3>2. workerId[w] \in WorkerIds
      BY WorkerAssumption
    <3>3. "CLAIMED" \in OutboxStates
      BY DEF OutboxStates
    <3> QED
      BY <1>1, <2>1, <2>2, <3>1, <3>2, <3>3 DEF OutboxRow
  <2>3. CASE m \notin S
    BY <1>1, <2>1, <2>3
  <2> QED
    BY <2>2, <2>3
<1>5. batch' \in [Workers -> SUBSET Row]
  <2>1. {<<m, outbox[m].attempts + 1>> : m \in S} \subseteq Row
    BY <1>2, <1>3 DEF Row
  <2> QED
    BY <1>1, <2>1 DEF TypeOK
<1>6. attempt' \in [Messages -> [Budget -> AttemptResults]]
  <2>1. attempt' = [m \in Messages |-> [n \in Budget |->
                      IF Abandoned(m) /\ n = outbox[m].attempts
                      THEN "RECONCILIATION_REQUIRED" ELSE attempt[m][n]]]
    BY DEF ClaimDueOutbox
  <2>2. attempt \in [Messages -> [Budget -> AttemptResults]]
    BY DEF TypeOK
  <2>3. "RECONCILIATION_REQUIRED" \in AttemptResults
    BY DEF AttemptResults
  <2> QED
    BY ONLY <2>1, <2>2, <2>3
<1>7. checkpoint' \in [Messages -> [Budget -> CheckpointRow]]
  <2>1. \A m \in Messages, n \in Budget : Opened(checkpoint[m][n]) \in CheckpointRow
    BY OpenedType DEF TypeOK
  <2>2. checkpoint' = [m \in Messages |-> [n \in Budget |->
                         IF Abandoned(m) /\ n = outbox[m].attempts
                         THEN Opened(checkpoint[m][n]) ELSE checkpoint[m][n]]]
    BY DEF ClaimDueOutbox
  <2>3. checkpoint \in [Messages -> [Budget -> CheckpointRow]]
    BY DEF TypeOK
  <2> QED
    BY ONLY <2>1, <2>2, <2>3
<1>8. deadLetters' \subseteq Messages
  BY DEF ClaimDueOutbox, TypeOK
<1>9. pc' \in [Workers -> Phases] /\ AnswerFits'
  BY DEF ClaimDueOutbox, TypeOK, AnswerFits, Goto, Phases
<1> QED
  BY <1>4, <1>5, <1>6, <1>7, <1>8, <1>9 DEF ClaimDueOutbox, TypeOK

LEMMA TypeRecordOutboxFailure ==
    ASSUME TypeOK, NEW m \in Messages, NEW class \in FailureClasses,
           RecordOutboxFailure(m, class)
    PROVE  /\ outbox' \in [Messages -> OutboxRow]
           /\ attempt' \in [Messages -> [Budget -> AttemptResults]]
           /\ checkpoint' \in [Messages -> [Budget -> CheckpointRow]]
           /\ deadLetters' \subseteq Messages
           /\ receipt' = receipt
<1> DEFINE n == outbox[m].attempts
           d == Decide(class, n, maxAttempts[m])
<1>1. d \in {"RETRY", "RECONCILE", "DEAD_LETTER"}
  BY DecideRange
<1> HIDE DEF d
<1>2. outbox[m] \in OutboxRow /\ outbox[m].due \in BOOLEAN
  BY DEF TypeOK, OutboxRow
<1>3. outbox' \in [Messages -> OutboxRow]
  <2>1. outbox' = [outbox EXCEPT ![m] =
          CASE d = "RETRY" -> Released(@, "RETRY_SCHEDULED", FALSE)
            [] d = "RECONCILE" -> Released(@, "RECONCILIATION_REQUIRED", @.due)
            [] d = "DEAD_LETTER" -> Released(@, "DEAD_LETTERED", @.due)]
    BY DEF RecordOutboxFailure, d
  <2>2. {"RETRY_SCHEDULED", "RECONCILIATION_REQUIRED", "DEAD_LETTERED"} \subseteq OutboxStates
    BY DEF OutboxStates
  <2>3. /\ Released(outbox[m], "RETRY_SCHEDULED", FALSE) \in OutboxRow
        /\ Released(outbox[m], "RECONCILIATION_REQUIRED", outbox[m].due) \in OutboxRow
        /\ Released(outbox[m], "DEAD_LETTERED", outbox[m].due) \in OutboxRow
    BY <1>2, <2>2, ReleasedType
  <2> QED
    BY <1>1, <2>1, <2>3 DEF TypeOK
<1>4. attempt' \in [Messages -> [Budget -> AttemptResults]]
  <2>1. attempt' = [attempt EXCEPT ![m][n] =
          CASE d = "RETRY" -> "RETRY_SCHEDULED"
            [] d = "RECONCILE" -> "RECONCILIATION_REQUIRED"
            [] d = "DEAD_LETTER" -> "FAILED"]
    BY DEF RecordOutboxFailure, d
  <2> QED
    BY <1>1, <2>1 DEF TypeOK, AttemptResults
<1>5. checkpoint' \in [Messages -> [Budget -> CheckpointRow]]
  <2>1. checkpoint' = checkpoint \/ checkpoint' = [checkpoint EXCEPT ![m][n] = Opened(@)]
    BY DEF RecordOutboxFailure
  <2>2. checkpoint \in [Messages -> [Budget -> CheckpointRow]]
    BY DEF TypeOK
  <2>3. CASE n \in Budget /\ checkpoint' = [checkpoint EXCEPT ![m][n] = Opened(@)]
    <3>1. Opened(checkpoint[m][n]) \in CheckpointRow
      BY <2>2, <2>3, OpenedType
    <3> QED
      BY <2>2, <2>3, <3>1
  <2>4. CASE n \notin Budget /\ checkpoint' = [checkpoint EXCEPT ![m][n] = Opened(@)]
    BY <2>2, <2>4
  <2> QED
    BY <2>1, <2>2, <2>3, <2>4
<1>6. deadLetters' \subseteq Messages
  BY DEF RecordOutboxFailure, WithDeadLetter, TypeOK
<1> QED
  BY <1>3, <1>4, <1>5, <1>6 DEF RecordOutboxFailure

LEMMA TypeRecordAnswer ==
    ASSUME TypeInv, NEW w \in Workers, RecordAnswer(w)
    PROVE  TypeInv'
<1> USE DEF TypeInv
<1>1. PICK m \in Messages, n \in Budget :
        \/ answer[w] = "ACKNOWLEDGED" /\ RecordProviderAcknowledgement(m)
        \/ answer[w] \in FailureClasses /\ RecordOutboxFailure(m, answer[w])
  BY DEF RecordAnswer
<1>2. CASE answer[w] \in FailureClasses /\ RecordOutboxFailure(m, answer[w])
  BY <1>2, TypeRecordOutboxFailure
     DEF RecordAnswer, TypeOK, AnswerFits, Goto, Phases, Answers, NoAnswer
<1>3. CASE RecordProviderAcknowledgement(m)
  <2> DEFINE k == outbox[m].attempts
  <2>1. outbox[m] \in OutboxRow /\ outbox[m].due \in BOOLEAN
    BY DEF TypeOK, OutboxRow
  <2>2. outbox' \in [Messages -> OutboxRow]
    <3>1. Released(outbox[m], "PROVIDER_ACKNOWLEDGED", outbox[m].due) \in OutboxRow
      BY <2>1, ReleasedType DEF OutboxStates
    <3> QED
      BY <1>3, <3>1 DEF RecordProviderAcknowledgement, TypeOK
  <2>3. attempt' \in [Messages -> [Budget -> AttemptResults]]
    BY <1>3 DEF RecordProviderAcknowledgement, TypeOK, AttemptResults
  <2>4. checkpoint' \in [Messages -> [Budget -> CheckpointRow]]
    <3>1. checkpoint \in [Messages -> [Budget -> CheckpointRow]]
      BY DEF TypeOK
    <3>2. checkpoint' = [checkpoint EXCEPT ![m][k] = Opened(@)]
      BY <1>3 DEF RecordProviderAcknowledgement
    <3>3. CASE k \in Budget
      <4>1. Opened(checkpoint[m][k]) \in CheckpointRow
        BY <3>1, <3>3, OpenedType
      <4> QED
        BY <3>1, <3>2, <3>3, <4>1
    <3>4. CASE k \notin Budget
      BY <3>1, <3>2, <3>4
    <3> QED
      BY <3>3, <3>4
  <2> QED
    BY <1>3, <2>2, <2>3, <2>4
       DEF RecordAnswer, RecordProviderAcknowledgement, TypeOK, AnswerFits, Goto, Phases,
           Answers, NoAnswer
<1> QED
  BY <1>1, <1>2, <1>3

LEMMA TypeClaimDueReconciliations ==
    ASSUME TypeInv, NEW w \in Workers, ClaimDueReconciliations(w)
    PROVE  TypeInv'
<1> USE DEF TypeInv
<1>1. PICK S \in Take({r \in Row : CheckpointClaimable(r[1], r[2])}) :
        /\ checkpoint' = [m \in Messages |-> [n \in Budget |->
              IF <<m, n>> \in S
              THEN [CheckpointSwept(m, n) EXCEPT
                      !.owner = workerId[w], !.lease = "live", !.tries = @ + 1]
              ELSE CheckpointSwept(m, n)]]
        /\ batch' = [batch EXCEPT ![w] = S]
  BY DEF ClaimDueReconciliations
<1>2. S \subseteq {r \in Row : CheckpointClaimable(r[1], r[2])}
  BY <1>1, TakeSubset
<1>3. checkpoint' \in [Messages -> [Budget -> CheckpointRow]]
  <2> SUFFICES ASSUME NEW m \in Messages, NEW n \in Budget
               PROVE  checkpoint'[m][n] \in CheckpointRow
    BY <1>1
  <2>1. CheckpointSwept(m, n) \in CheckpointRow
    BY CheckpointSweptType
  <2>2. CASE <<m, n>> \in S
    <3>1. CheckpointSwept(m, n).tries < ReconAttempts
      BY <1>2, <2>2 DEF CheckpointClaimable
    <3>2. CheckpointSwept(m, n).tries + 1 \in 0 .. ReconAttempts
      BY <2>1, <3>1, BudgetAssumption DEF CheckpointRow
    <3>3. workerId[w] \in WorkerIds
      BY WorkerAssumption
    <3> QED
      BY <1>1, <2>1, <2>2, <3>2, <3>3 DEF CheckpointRow
  <2>3. CASE <<m, n>> \notin S
    BY <1>1, <2>1, <2>3
  <2> QED
    BY <2>2, <2>3
<1>4. batch' \in [Workers -> SUBSET Row]
  BY <1>1, <1>2 DEF TypeOK
<1> QED
  BY <1>3, <1>4 DEF ClaimDueReconciliations, TypeOK, AnswerFits, Goto, Phases

LEMMA TypeCompleteClaimedReconciliation ==
    ASSUME TypeInv, NEW w \in Workers, CompleteClaimedReconciliation(w)
    PROVE  TypeInv'
<1> USE DEF TypeInv
<1>1. PICK m \in Messages, n \in Budget :
        LET r == answer[w]
            row == checkpoint[m][n]
            pendingAgain == /\ r \in {"AMBIGUOUS", "SOURCE_UNAVAILABLE"}
                            /\ row.tries < ReconAttempts
            absent == ProvedAbsent(r)
        IN
        /\ checkpoint' = [checkpoint EXCEPT ![m][n] =
              [row EXCEPT !.result = IF pendingAgain THEN "PENDING" ELSE r,
                          !.owner = NoWorker, !.lease = "none",
                          !.due = row.due /\ ~pendingAgain]]
        /\ outbox' = [outbox EXCEPT ![m] =
              CASE pendingAgain -> @
                [] r = "MATCHED" -> [@ EXCEPT !.state = "SOURCE_CONFIRMED"]
                [] absent /\ Exhausted(m) ->
                      [@ EXCEPT !.state = "DEAD_LETTERED", !.due = TRUE]
                [] absent /\ ~Exhausted(m) ->
                      [@ EXCEPT !.state = "RETRY_SCHEDULED", !.due = TRUE]
                [] OTHER -> [@ EXCEPT !.state = "BLOCKED"]]
        /\ receipt' = IF r = "MATCHED"
                      THEN [receipt EXCEPT ![m] = "SOURCE_CONFIRMED"] ELSE receipt
        /\ deadLetters' = WithDeadLetter(m, absent /\ Exhausted(m))
  BY DEF CompleteClaimedReconciliation
<1>2. answer[w] \in Observations
  BY DEF CompleteClaimedReconciliation, AnswerFits
<1>3. checkpoint' \in [Messages -> [Budget -> CheckpointRow]]
  <2>1. checkpoint[m][n] \in CheckpointRow
    BY DEF TypeOK
  <2> DEFINE pendingAgain == /\ answer[w] \in {"AMBIGUOUS", "SOURCE_UNAVAILABLE"}
                             /\ checkpoint[m][n].tries < ReconAttempts
             result == IF pendingAgain THEN "PENDING" ELSE answer[w]
             due == checkpoint[m][n].due /\ ~pendingAgain
             new == [checkpoint[m][n] EXCEPT !.result = result, !.owner = NoWorker,
                                             !.lease = "none", !.due = due]
  <2>2. checkpoint' = [checkpoint EXCEPT ![m][n] = new]
    BY <1>1
  <2>3. result \in Observations \cup {"PENDING"} /\ due \in BOOLEAN
    BY <1>2, <2>1 DEF CheckpointRow
  <2> HIDE DEF result, due
  <2>4. new \in CheckpointRow
    BY <2>1, <2>3 DEF CheckpointRow
  <2> HIDE DEF new
  <2> QED
    BY <2>2, <2>4 DEF TypeOK
<1>4. outbox' \in [Messages -> OutboxRow]
  <2>1. outbox[m] \in OutboxRow
    BY DEF TypeOK
  <2>2. outbox'[m] \in OutboxRow
    BY <1>1, <2>1 DEF OutboxRow, OutboxStates, TypeOK
  <2> QED
    BY <1>1, <2>2 DEF TypeOK
<1>5. receipt' \in [Messages -> {"DISPATCH_PENDING", "SOURCE_CONFIRMED"}]
  BY <1>1 DEF TypeOK
<1>6. deadLetters' \subseteq Messages
  BY <1>1 DEF WithDeadLetter, TypeOK
<1> QED
  BY <1>3, <1>4, <1>5, <1>6
     DEF CompleteClaimedReconciliation, TypeOK, AnswerFits, Goto, Phases, Answers, NoAnswer

\* recordReconciliation writes an observation.
LEMMA TypeRecordReconciliation ==
    ASSUME TypeInv, NEW m \in Messages, NEW n \in Budget, RecordReconciliation(m, n)
    PROVE  TypeInv'
<1> USE DEF TypeInv
<1>1. PICK r \in Observations :
        /\ checkpoint' = [checkpoint EXCEPT ![m][n].result = r]
        /\ outbox' = IF r = "MATCHED"
                     THEN [outbox EXCEPT ![m].state = "SOURCE_CONFIRMED"] ELSE outbox
        /\ receipt' = IF r = "MATCHED"
                      THEN [receipt EXCEPT ![m] = "SOURCE_CONFIRMED"] ELSE receipt
  BY DEF RecordReconciliation
<1>2. checkpoint' \in [Messages -> [Budget -> CheckpointRow]]
  <2>1. checkpoint[m][n] \in CheckpointRow
    BY DEF TypeOK
  <2>2. [checkpoint[m][n] EXCEPT !.result = r] \in CheckpointRow
    BY <2>1 DEF CheckpointRow
  <2> QED
    BY <1>1, <2>2 DEF TypeOK
<1>3. outbox' \in [Messages -> OutboxRow]
  <2>1. outbox[m] \in OutboxRow /\ outbox \in [Messages -> OutboxRow]
    BY DEF TypeOK
  <2>2. [outbox[m] EXCEPT !.state = "SOURCE_CONFIRMED"] \in OutboxRow
    BY ONLY <2>1 DEF OutboxRow, OutboxStates
  <2> QED
    BY <1>1, <2>1, <2>2
<1>4. receipt' \in [Messages -> {"DISPATCH_PENDING", "SOURCE_CONFIRMED"}]
  BY <1>1 DEF TypeOK
<1> QED
  BY <1>2, <1>3, <1>4 DEF RecordReconciliation, workerVars, TypeOK, AnswerFits

\* Time changes a lease or a due mark.
LEMMA TypeTimePasses ==
    ASSUME TypeInv, TimePasses
    PROVE  TypeInv'
<1> USE DEF TypeInv
<1>1. ASSUME NEW m \in Messages,
             \/ RequestDeadlinePasses(m) \/ OutboxLeaseExpires(m) \/ BackoffElapses(m)
      PROVE  TypeInv'
  <2>1. outbox[m] \in OutboxRow
    BY DEF TypeOK
  <2>2. PICK row \in OutboxRow : outbox' = [outbox EXCEPT ![m] = row]
    <3>1. CASE RequestDeadlinePasses(m)
      <4>1. [outbox[m] EXCEPT !.lease = "overdue"] \in OutboxRow
        BY <2>1 DEF OutboxRow
      <4> QED
        BY <3>1, <4>1 DEF RequestDeadlinePasses
    <3>2. CASE OutboxLeaseExpires(m)
      <4>1. [outbox[m] EXCEPT !.lease = "expired"] \in OutboxRow
        BY <2>1 DEF OutboxRow
      <4> QED
        BY <3>2, <4>1 DEF OutboxLeaseExpires
    <3>3. CASE BackoffElapses(m)
      <4>1. [outbox[m] EXCEPT !.due = TRUE] \in OutboxRow
        BY <2>1 DEF OutboxRow
      <4> QED
        BY <3>3, <4>1 DEF BackoffElapses
    <3> QED
      BY <1>1, <3>1, <3>2, <3>3
  <2>3. outbox' \in [Messages -> OutboxRow]
    BY <2>2 DEF TypeOK
  <2> QED
    BY <1>1, <2>3 DEF RequestDeadlinePasses, OutboxLeaseExpires, BackoffElapses,
                      workerVars, TypeOK, AnswerFits
<1>2. ASSUME NEW m \in Messages, NEW n \in Budget,
             CheckpointLeaseExpires(m, n) \/ NextCheckDue(m, n)
      PROVE  TypeInv'
  <2>1. checkpoint[m][n] \in CheckpointRow
    BY DEF TypeOK
  <2>2. PICK row \in CheckpointRow : checkpoint' = [checkpoint EXCEPT ![m][n] = row]
    <3>1. CASE CheckpointLeaseExpires(m, n)
      <4>1. [checkpoint[m][n] EXCEPT !.lease = "expired"] \in CheckpointRow
        BY <2>1 DEF CheckpointRow
      <4> QED
        BY <3>1, <4>1 DEF CheckpointLeaseExpires
    <3>2. CASE NextCheckDue(m, n)
      <4>1. [checkpoint[m][n] EXCEPT !.due = TRUE] \in CheckpointRow
        BY <2>1 DEF CheckpointRow
      <4> QED
        BY <3>2, <4>1 DEF NextCheckDue
    <3> QED
      BY <1>2, <3>1, <3>2
  <2>3. checkpoint' \in [Messages -> [Budget -> CheckpointRow]]
    BY <2>2 DEF TypeOK
  <2> QED
    BY <1>2, <2>3 DEF CheckpointLeaseExpires, NextCheckDue, workerVars, TypeOK, AnswerFits
<1> QED
  BY <1>1, <1>2 DEF TimePasses

-------------------------------------------------------------------------------
(***************************************************************************)
(* The other steps of a worker leave the outbox and the checkpoints alone. *)
(***************************************************************************)
Unwritten(w) ==
    \/ Start(w) \/ DispatchRejected(w) \/ DeliveryBatchDone(w) \/ Execute(w)
    \/ AdapterAnswers(w) \/ AnswerRejected(w) \/ AdapterObserves(w) \/ SkipObservation(w)
    \/ CompletionThrows(w) \/ CompletionRejected(w) \/ ReconciliationBatchDone(w)
    \/ Crash(w)

LEMMA UnwrittenStore ==
    ASSUME NEW w \in Workers, Unwritten(w)
    PROVE  UNCHANGED <<storeVars, switches>>
BY DEF Unwritten, Start, DispatchRejected, DeliveryBatchDone, Execute, AdapterAnswers,
       AnswerRejected, AdapterObserves, SkipObservation, StartReconciliation,
       CompletionThrows, CompletionRejected, ReconciliationBatchDone, Crash, Exit

LEMMA TypeUnwritten ==
    ASSUME TypeInv, NEW w \in Workers, Unwritten(w)
    PROVE  TypeInv'
<1> USE DEF TypeInv
<1>1. UNCHANGED <<storeVars, switches>>
  BY UnwrittenStore
<1>2. CASE DispatchRejected(w) \/ AnswerRejected(w) \/ CompletionRejected(w) \/ Crash(w)
  <2>1. Exit(w)
    BY <1>2 DEF DispatchRejected, AnswerRejected, CompletionRejected, Crash
  <2> QED
    BY <1>1, <2>1 DEF Exit, Goto, Phases, NoJob, NoAnswer, Answers, storeVars, TypeOK, AnswerFits
<1>3. CASE Start(w) \/ DeliveryBatchDone(w) \/ ReconciliationBatchDone(w)
  BY <1>1, <1>3 DEF Start, DeliveryBatchDone, ReconciliationBatchDone, Goto, Phases,
                    storeVars, TypeOK, AnswerFits
<1>4. CASE Execute(w)
  <2>1. request' \in [Messages -> [Budget -> Requests]]
    BY <1>4 DEF Execute, TypeOK, Requests
  <2> QED
    BY <1>1, <1>4, <2>1 DEF Execute, Goto, Phases, storeVars, TypeOK, AnswerFits
<1>5. CASE AdapterAnswers(w)
  <2>1. Classes \cup {"ACKNOWLEDGED", "AMBIGUOUS_AFTER_ACK"} \subseteq Answers
    BY DeliveryAssumption DEF Answers, FailureClasses
  <2> QED
    BY <1>1, <1>5, <2>1 DEF AdapterAnswers, Goto, Phases, storeVars, TypeOK, AnswerFits
<1>6. CASE AdapterObserves(w) \/ SkipObservation(w)
  <2>1. PICK m \in Messages, n \in Budget, r \in Observations, phase \in Phases :
          StartReconciliation(w, m, n, r, phase)
    BY <1>6 DEF AdapterObserves, SkipObservation, Observations, Phases
  <2>2. <<m, n>> \in Row
    BY DEF Row
  <2> QED
    BY <1>1, <2>1, <2>2 DEF StartReconciliation, Goto, Answers, storeVars, TypeOK, AnswerFits
<1>7. CASE CompletionThrows(w)
  BY <1>1, <1>7 DEF CompletionThrows, Goto, Phases, Answers, Observations, storeVars,
                    TypeOK, AnswerFits
<1> QED
  BY <1>2, <1>3, <1>4, <1>5, <1>6, <1>7 DEF Unwritten

LEMMA TypeDispatch ==
    ASSUME TypeInv, NEW w \in Workers, RefuseBeforeDispatch(w) \/ RecordDispatchStarted(w)
    PROVE  TypeInv'
<1> USE DEF TypeInv
<1>1. CASE RefuseBeforeDispatch(w)
  <2>1. PICK m \in Messages, class \in Classes : RecordOutboxFailure(m, class)
    BY <1>1 DEF RefuseBeforeDispatch
  <2>2. class \in FailureClasses
    BY DeliveryAssumption
  <2>3. batch' \in [Workers -> SUBSET Row]
    BY <1>1 DEF RefuseBeforeDispatch, TypeOK
  <2> QED
    BY <1>1, <2>1, <2>2, <2>3, TypeRecordOutboxFailure
       DEF RefuseBeforeDispatch, TypeOK, AnswerFits
<1>2. CASE RecordDispatchStarted(w)
  <2>1. PICK m \in Messages, n \in Budget :
          /\ attempt' = [attempt EXCEPT ![m][n] = "STARTED"]
          /\ job' = [job EXCEPT ![w] = <<m, n>>]
    BY <1>2 DEF RecordDispatchStarted
  <2>2. attempt' \in [Messages -> [Budget -> AttemptResults]]
    BY <2>1 DEF TypeOK, AttemptResults
  <2>3. job' \in [Workers -> Row \cup {NoJob}]
    BY <2>1 DEF TypeOK, Row
  <2>4. batch' \in [Workers -> SUBSET Row]
    BY <1>2 DEF RecordDispatchStarted, TypeOK
  <2> QED
    BY <1>2, <2>2, <2>3, <2>4 DEF RecordDispatchStarted, Goto, Phases, TypeOK, AnswerFits
<1> QED
  BY <1>1, <1>2

LEMMA TypeEnvironment ==
    ASSUME TypeInv,
           \/ \E m \in Messages, n \in Budget : ProviderActs(m, n)
           \/ ToggleKillSwitch
    PROVE  TypeInv'
<1> USE DEF TypeInv
<1>1. CASE \E m \in Messages, n \in Budget : ProviderActs(m, n)
  <2>1. request' \in [Messages -> [Budget -> Requests]]
    BY <1>1 DEF ProviderActs, TypeOK, Requests
  <2> QED
    BY <1>1, <2>1 DEF ProviderActs, storeVars, workerVars, TypeOK, AnswerFits
<1>2. CASE ToggleKillSwitch
  BY <1>2 DEF ToggleKillSwitch, storeVars, workerVars, TypeOK, AnswerFits
<1> QED
  BY <1>1, <1>2

\* The steps of Next, sorted by what they write to the store.
LEMMA NextCases ==
    ASSUME Next
    PROVE  \/ \E w \in Workers :
                \/ ClaimDueOutbox(w)
                \/ RefuseBeforeDispatch(w) \/ RecordDispatchStarted(w)
                \/ RecordAnswer(w)
                \/ ClaimDueReconciliations(w)
                \/ CompleteClaimedReconciliation(w)
                \/ Unwritten(w)
           \/ TimePasses
           \/ \E m \in Messages, n \in Budget : RecordReconciliation(m, n)
           \/ \/ \E m \in Messages, n \in Budget : ProviderActs(m, n)
              \/ ToggleKillSwitch
BY DEF Next, Work, Unwritten

LEMMA TypeStep == TypeInv /\ [Next]_vars => TypeInv'
<1> SUFFICES ASSUME TypeInv, [Next]_vars PROVE TypeInv'
  OBVIOUS
<1>1. CASE UNCHANGED vars
  BY <1>1 DEF vars, TypeInv, TypeOK, AnswerFits
<1>2. CASE Next
  BY <1>2, NextCases, TypeClaimDueOutbox, TypeDispatch, TypeRecordAnswer,
     TypeClaimDueReconciliations, TypeCompleteClaimedReconciliation, TypeUnwritten,
     TypeTimePasses, TypeRecordReconciliation, TypeEnvironment
<1> QED
  BY <1>1, <1>2

\* No step of the store, of a worker or of the environment leaves the types of
\* the tables: budgets are never overrun, every enumerated column keeps one of
\* its values (the check constraints of the P110 migrations).
THEOREM TypeCorrect == Spec => []TypeOK
<1>1. Spec => []TypeInv
  BY TypeInit, TypeStep, PTL DEF Spec
<1>2. TypeInv => TypeOK
  BY DEF TypeInv
<1> QED
  BY <1>1, <1>2, PTL

-------------------------------------------------------------------------------
(***************************************************************************)
(* One message in one step.  The invariants below speak of each message by *)
(* itself, so a step is first reduced to what it does to one message m:    *)
(* the state and attempts of its row, the results of its attempts and      *)
(* checkpoints, its dead letter and its receipt.                           *)
(***************************************************************************)
KeepsEvidence(m) ==
    \A n \in Budget : /\ attempt'[m][n] = attempt[m][n]
                       /\ checkpoint'[m][n].result = checkpoint[m][n].result

KeepsOutcome(m) ==
    /\ m \in deadLetters' <=> m \in deadLetters
    /\ receipt'[m] = receipt[m]

\* The row moves to state s, with the dead letter or the receipt that s asks for.
MovesTo(m, s) ==
    /\ outbox'[m].state = s
    /\ outbox'[m].attempts = outbox[m].attempts
    /\ m \in deadLetters' <=> (m \in deadLetters \/ s = "DEAD_LETTERED")
    /\ receipt'[m] = IF s = "SOURCE_CONFIRMED" THEN s ELSE receipt[m]

Untouched(m) ==
    /\ outbox'[m].state = outbox[m].state
    /\ outbox'[m].attempts = outbox[m].attempts
    /\ KeepsEvidence(m) /\ KeepsOutcome(m)

NotStarted(m) ==
    \A n \in Budget : n = outbox[m].attempts => attempt[m][n] # "STARTED"

IsClaimed(m) ==
    /\ \/ outbox[m].state \in {"PENDING", "RETRY_SCHEDULED"}
       \/ outbox[m].state = "CLAIMED" /\ NotStarted(m)
    /\ outbox[m].attempts < maxAttempts[m]
    /\ outbox'[m].state = "CLAIMED"
    /\ outbox'[m].attempts = outbox[m].attempts + 1
    /\ KeepsEvidence(m) /\ KeepsOutcome(m)

\* A claim is lost before the dispatch started.
IsGivenBack(m) ==
    /\ outbox[m].state = "CLAIMED"
    /\ NotStarted(m)
    /\ \/ MovesTo(m, "RETRY_SCHEDULED") /\ ~Exhausted(m)
       \/ MovesTo(m, "DEAD_LETTERED")
    /\ KeepsEvidence(m)

IsStarted(m) ==
    /\ outbox[m].state = "CLAIMED"
    /\ outbox'[m].state = "CLAIMED"
    /\ outbox'[m].attempts = outbox[m].attempts
    /\ \A n \in Budget :
          /\ \/ attempt'[m][n] = attempt[m][n]
             \/ n = outbox[m].attempts /\ attempt[m][n] = "NONE" /\ attempt'[m][n] = "STARTED"
          /\ checkpoint'[m][n].result = checkpoint[m][n].result
    /\ KeepsOutcome(m)

\* The delivery of a claimed message failed, and surely did not happen.
IsRefused(m) ==
    /\ outbox[m].state = "CLAIMED"
    /\ \/ MovesTo(m, "RETRY_SCHEDULED") /\ ~Exhausted(m)
       \/ MovesTo(m, "DEAD_LETTERED")
    /\ \A n \in Budget :
          /\ IF n = outbox[m].attempts
             THEN attempt'[m][n] = IF outbox'[m].state = "DEAD_LETTERED"
                                   THEN "FAILED" ELSE "RETRY_SCHEDULED"
             ELSE attempt'[m][n] = attempt[m][n]
          /\ checkpoint'[m][n].result = checkpoint[m][n].result

\* The delivery may have happened: its attempt waits for reconciliation.
IsDoubted(m) ==
    /\ outbox[m].state = "CLAIMED"
    /\ \E s \in Doubtful : MovesTo(m, s)
    /\ \A n \in Budget :
          IF n = outbox[m].attempts
          THEN /\ attempt'[m][n] \in {"SUCCEEDED", "RECONCILIATION_REQUIRED"}
               /\ checkpoint'[m][n].result =
                     IF checkpoint[m][n].result = "NONE"
                     THEN "PENDING" ELSE checkpoint[m][n].result
          ELSE /\ attempt'[m][n] = attempt[m][n]
               /\ checkpoint'[m][n].result = checkpoint[m][n].result

\* A pending checkpoint of m is decided, or left pending.
IsObserved(m) ==
    \E n \in Budget :
        /\ checkpoint[m][n].result = "PENDING"
        /\ \A k \in Budget : attempt'[m][k] = attempt[m][k]
        /\ \A k \in Budget \ {n} : checkpoint'[m][k].result = checkpoint[m][k].result
        /\ checkpoint'[m][n].result \in Observations
        /\ \/ /\ outbox'[m].state = outbox[m].state
              /\ outbox'[m].attempts = outbox[m].attempts
              /\ KeepsOutcome(m)
           \/ MovesTo(m, "SOURCE_CONFIRMED")
           \/ MovesTo(m, "BLOCKED")
           \/ /\ checkpoint'[m][n].result = "NOT_FOUND"
              /\ \/ MovesTo(m, "RETRY_SCHEDULED") /\ ~Exhausted(m)
                 \/ MovesTo(m, "DEAD_LETTERED")

MessageStep(m) ==
    \/ Untouched(m) \/ IsClaimed(m) \/ IsGivenBack(m) \/ IsStarted(m)
    \/ IsRefused(m) \/ IsDoubted(m) \/ IsObserved(m)

LEMMA UntouchedStep ==
    ASSUME NEW m \in Messages, UNCHANGED storeVars
    PROVE  Untouched(m)
BY DEF storeVars, Untouched, KeepsEvidence, KeepsOutcome

\* claimDueOutbox sweeps or claims m, or both at once, or leaves it alone.
LEMMA ClaimDueOutboxStep ==
    ASSUME TypeInv, NEW w \in Workers, ClaimDueOutbox(w), NEW m \in Messages
    PROVE  MessageStep(m)
<1>1. PICK S \in Take({p \in Messages : Claimable(p)}) :
        outbox' = [p \in Messages |->
              IF p \in S
              THEN [Swept(p) EXCEPT !.state = "CLAIMED", !.attempts = @ + 1,
                                    !.owner = workerId[w], !.lease = "live"]
              ELSE Swept(p)]
  BY DEF ClaimDueOutbox
<1>2. S \subseteq {p \in Messages : Claimable(p)}
  BY <1>1, TakeSubset
<1>3. outbox[m] \in OutboxRow /\ Swept(m) \in OutboxRow
  BY SweptType DEF TypeInv, TypeOK
<1>4. /\ Swept(m).attempts = outbox[m].attempts
      /\ Swept(m).state = IF Abandoned(m) THEN "RECONCILIATION_REQUIRED"
                          ELSE IF Expired(m)
                          THEN IF Exhausted(m) THEN "DEAD_LETTERED" ELSE "RETRY_SCHEDULED"
                          ELSE outbox[m].state
  BY <1>3 DEF Swept, Released, OutboxRow
<1>5. /\ attempt' = [p \in Messages |-> [n \in Budget |->
            IF Abandoned(p) /\ n = outbox[p].attempts
            THEN "RECONCILIATION_REQUIRED" ELSE attempt[p][n]]]
      /\ checkpoint' = [p \in Messages |-> [n \in Budget |->
            IF Abandoned(p) /\ n = outbox[p].attempts
            THEN Opened(checkpoint[p][n]) ELSE checkpoint[p][n]]]
      /\ deadLetters' = deadLetters \cup
            {p \in Messages : Expired(p) /\ ~Abandoned(p) /\ Exhausted(p)}
      /\ receipt' = receipt
  BY DEF ClaimDueOutbox
<1>6. ~Abandoned(m) => KeepsEvidence(m)
  BY <1>5 DEF KeepsEvidence
<1>7. Expired(m) /\ ~Abandoned(m) => outbox[m].state = "CLAIMED" /\ NotStarted(m)
  BY DEF Expired, Abandoned, NotStarted
<1>8. CASE m \in S
  <2>1. /\ Swept(m).state \in {"PENDING", "RETRY_SCHEDULED"}
        /\ outbox[m].attempts < maxAttempts[m]
    BY <1>2, <1>4, <1>8 DEF Claimable
  <2>2. outbox'[m].state = "CLAIMED" /\ outbox'[m].attempts = outbox[m].attempts + 1
    BY <1>1, <1>3, <1>4, <1>8 DEF OutboxRow
  <2>3. ~Abandoned(m)
    BY <1>4, <2>1
  <2>4. ~(Expired(m) /\ Exhausted(m))
    BY <1>4, <2>1, <2>3
  <2>5. \/ outbox[m].state \in {"PENDING", "RETRY_SCHEDULED"}
        \/ outbox[m].state = "CLAIMED" /\ NotStarted(m)
    BY <1>4, <1>7, <2>1, <2>3
  <2>6. KeepsOutcome(m)
    BY <1>5, <2>4 DEF KeepsOutcome
  <2> QED
    BY <1>6, <2>1, <2>2, <2>3, <2>5, <2>6 DEF MessageStep, IsClaimed
<1>9. CASE m \notin S
  <2>1. outbox'[m] = Swept(m)
    BY <1>1, <1>9
  <2>2. CASE Abandoned(m)
    <3>1. MovesTo(m, "RECONCILIATION_REQUIRED")
      BY <1>4, <1>5, <2>1, <2>2 DEF MovesTo
    <3>2. \A n \in Budget :
            Opened(checkpoint[m][n]).result = IF checkpoint[m][n].result = "NONE"
                                              THEN "PENDING" ELSE checkpoint[m][n].result
      BY DEF Opened, NoCheckpoint
    <3> QED
      BY <1>5, <2>2, <3>1, <3>2 DEF MessageStep, IsDoubted, Abandoned, Expired, Doubtful
  <2>3. CASE Expired(m) /\ ~Abandoned(m)
    <3>1. \/ MovesTo(m, "RETRY_SCHEDULED") /\ ~Exhausted(m)
          \/ MovesTo(m, "DEAD_LETTERED")
      BY <1>4, <1>5, <2>1, <2>3 DEF MovesTo
    <3> QED
      BY <1>6, <1>7, <2>3, <3>1 DEF MessageStep, IsGivenBack
  <2>4. CASE ~Expired(m)
    <3>1. ~Abandoned(m)
      BY <2>4 DEF Abandoned
    <3> QED
      BY <1>4, <1>5, <1>6, <2>1, <2>4, <3>1 DEF MessageStep, Untouched, KeepsOutcome
  <2> QED
    BY <2>2, <2>3, <2>4
<1> QED
  BY <1>8, <1>9

\* recordOutboxFailure requeues, buries or doubts the message it is called for.
LEMMA RecordOutboxFailureStep ==
    ASSUME TypeInv, NEW m \in Messages, NEW class \in FailureClasses,
           outbox[m].state = "CLAIMED", RecordOutboxFailure(m, class), NEW p \in Messages
    PROVE  MessageStep(p)
<1> DEFINE n == outbox[m].attempts
           d == Decide(class, n, maxAttempts[m])
<1>1. d \in {"RETRY", "RECONCILE", "DEAD_LETTER"}
  BY DecideRange
<1>2. d = "RETRY" => ~Exhausted(m)
  BY DEF Decide, FailureClasses, Exhausted
<1> HIDE DEF d
<1>3. /\ attempt' = [attempt EXCEPT ![m][n] =
            CASE d = "RETRY" -> "RETRY_SCHEDULED"
              [] d = "RECONCILE" -> "RECONCILIATION_REQUIRED"
              [] d = "DEAD_LETTER" -> "FAILED"]
      /\ outbox' = [outbox EXCEPT ![m] =
            CASE d = "RETRY" -> Released(@, "RETRY_SCHEDULED", FALSE)
              [] d = "RECONCILE" -> Released(@, "RECONCILIATION_REQUIRED", @.due)
              [] d = "DEAD_LETTER" -> Released(@, "DEAD_LETTERED", @.due)]
      /\ checkpoint' = IF d = "RECONCILE"
                       THEN [checkpoint EXCEPT ![m][n] = Opened(@)] ELSE checkpoint
      /\ deadLetters' = WithDeadLetter(m, d = "DEAD_LETTER")
      /\ receipt' = receipt
  BY DEF RecordOutboxFailure, d
<1>4. outbox \in [Messages -> OutboxRow] /\ attempt \in [Messages -> [Budget -> AttemptResults]]
      /\ checkpoint \in [Messages -> [Budget -> CheckpointRow]]
  BY DEF TypeInv, TypeOK
<1>5. CASE p # m
  BY <1>3, <1>4, <1>5 DEF MessageStep, Untouched, KeepsEvidence, KeepsOutcome, WithDeadLetter
<1>6. CASE p = m
  <2>0. \A s \in OutboxStates, due \in BOOLEAN :
          /\ Released(outbox[m], s, due).state = s
          /\ Released(outbox[m], s, due).attempts = outbox[m].attempts
    BY <1>4 DEF Released, OutboxRow
  <2>1. outbox[m].due \in BOOLEAN
    BY <1>4 DEF OutboxRow
  <2>2. CASE d = "RETRY"
    <3>1. outbox'[m] = Released(outbox[m], "RETRY_SCHEDULED", FALSE)
      BY <1>3, <1>4, <2>2
    <3>2. MovesTo(m, "RETRY_SCHEDULED")
      BY <1>3, <2>0, <2>2, <3>1 DEF MovesTo, WithDeadLetter, OutboxStates
    <3> QED
      BY <1>2, <1>3, <1>4, <1>6, <2>2, <3>2 DEF MessageStep, IsRefused, MovesTo
  <2>3. CASE d = "DEAD_LETTER"
    <3>1. outbox'[m] = Released(outbox[m], "DEAD_LETTERED", outbox[m].due)
      BY <1>3, <1>4, <2>3
    <3>2. MovesTo(m, "DEAD_LETTERED")
      BY <1>3, <2>0, <2>1, <2>3, <3>1 DEF MovesTo, WithDeadLetter, OutboxStates
    <3> QED
      BY <1>3, <1>4, <1>6, <2>3, <3>2 DEF MessageStep, IsRefused, MovesTo
  <2>4. CASE d = "RECONCILE"
    <3>1. outbox'[m] = Released(outbox[m], "RECONCILIATION_REQUIRED", outbox[m].due)
      BY <1>3, <1>4, <2>4
    <3>2. MovesTo(m, "RECONCILIATION_REQUIRED")
      BY <1>3, <2>0, <2>1, <2>4, <3>1 DEF MovesTo, WithDeadLetter, OutboxStates
    <3>3. \A k \in Budget :
            Opened(checkpoint[m][k]).result = IF checkpoint[m][k].result = "NONE"
                                              THEN "PENDING" ELSE checkpoint[m][k].result
      BY DEF Opened, NoCheckpoint
    <3> QED
      BY <1>3, <1>4, <1>6, <2>4, <3>2, <3>3 DEF MessageStep, IsDoubted, Doubtful
  <2> QED
    BY <1>1, <2>2, <2>3, <2>4
<1> QED
  BY <1>5, <1>6

LEMMA RecordAnswerStep ==
    ASSUME TypeInv, NEW w \in Workers, RecordAnswer(w), NEW p \in Messages
    PROVE  MessageStep(p)
<1>1. PICK m \in Messages, n \in Budget :
        /\ outbox[m].state = "CLAIMED"
        /\ \/ RecordProviderAcknowledgement(m)
           \/ answer[w] \in FailureClasses /\ RecordOutboxFailure(m, answer[w])
  BY DEF RecordAnswer, Owned
<1>2. CASE answer[w] \in FailureClasses /\ RecordOutboxFailure(m, answer[w])
  BY <1>1, <1>2, RecordOutboxFailureStep
<1>3. CASE RecordProviderAcknowledgement(m)
  <2> DEFINE k == outbox[m].attempts
  <2>1. /\ outbox \in [Messages -> OutboxRow]
        /\ attempt \in [Messages -> [Budget -> AttemptResults]]
        /\ checkpoint \in [Messages -> [Budget -> CheckpointRow]]
    BY DEF TypeInv, TypeOK
  <2>2. /\ attempt' = [attempt EXCEPT ![m][k] = "SUCCEEDED"]
        /\ checkpoint' = [checkpoint EXCEPT ![m][k] = Opened(@)]
        /\ outbox' = [outbox EXCEPT ![m] = Released(@, "PROVIDER_ACKNOWLEDGED", @.due)]
        /\ receipt' = receipt /\ deadLetters' = deadLetters
    BY <1>3 DEF RecordProviderAcknowledgement
  <2>3. CASE p # m
    BY <2>1, <2>2, <2>3 DEF MessageStep, Untouched, KeepsEvidence, KeepsOutcome
  <2>4. CASE p = m
    <3>1. MovesTo(m, "PROVIDER_ACKNOWLEDGED")
      BY <2>1, <2>2 DEF MovesTo, Released, OutboxRow
    <3>2. \A j \in Budget :
            Opened(checkpoint[m][j]).result = IF checkpoint[m][j].result = "NONE"
                                              THEN "PENDING" ELSE checkpoint[m][j].result
      BY DEF Opened, NoCheckpoint
    <3> QED
      BY <1>1, <2>1, <2>2, <2>4, <3>1, <3>2 DEF MessageStep, IsDoubted, Doubtful
  <2> QED
    BY <2>3, <2>4
<1> QED
  BY <1>1, <1>2, <1>3

LEMMA DispatchStep ==
    ASSUME TypeInv, NEW w \in Workers, RefuseBeforeDispatch(w) \/ RecordDispatchStarted(w),
           NEW p \in Messages
    PROVE  MessageStep(p)
<1>1. CASE RefuseBeforeDispatch(w)
  <2>1. PICK m \in Messages, class \in Classes :
          outbox[m].state = "CLAIMED" /\ RecordOutboxFailure(m, class)
    BY <1>1 DEF RefuseBeforeDispatch, Owned
  <2>2. class \in FailureClasses
    BY DeliveryAssumption
  <2> QED
    BY <2>1, <2>2, RecordOutboxFailureStep
<1>2. CASE RecordDispatchStarted(w)
  <2>1. PICK m \in Messages, n \in Budget :
          /\ outbox[m].state = "CLAIMED" /\ n = outbox[m].attempts
          /\ attempt[m][n] = "NONE"
          /\ attempt' = [attempt EXCEPT ![m][n] = "STARTED"]
    BY <1>2 DEF RecordDispatchStarted, Owned
  <2>2. /\ attempt \in [Messages -> [Budget -> AttemptResults]]
        /\ UNCHANGED <<outbox, checkpoint, receipt, deadLetters>>
    BY <1>2 DEF TypeInv, TypeOK, RecordDispatchStarted
  <2>3. CASE p = m
    BY <2>1, <2>2, <2>3 DEF MessageStep, IsStarted, KeepsOutcome
  <2>4. CASE p # m
    BY <2>1, <2>2, <2>4 DEF MessageStep, Untouched, KeepsEvidence, KeepsOutcome
  <2> QED
    BY <2>3, <2>4
<1> QED
  BY <1>1, <1>2

LEMMA ClaimDueReconciliationsStep ==
    ASSUME TypeInv, NEW w \in Workers, ClaimDueReconciliations(w), NEW p \in Messages
    PROVE  MessageStep(p)
<1>1. PICK S \in Take({r \in Row : CheckpointClaimable(r[1], r[2])}) :
        checkpoint' = [m \in Messages |-> [n \in Budget |->
              IF <<m, n>> \in S
              THEN [CheckpointSwept(m, n) EXCEPT
                      !.owner = workerId[w], !.lease = "live", !.tries = @ + 1]
              ELSE CheckpointSwept(m, n)]]
  BY DEF ClaimDueReconciliations
<1>2. ASSUME NEW n \in Budget
      PROVE  checkpoint'[p][n].result = checkpoint[p][n].result
  <2>1. checkpoint[p][n] \in CheckpointRow /\ CheckpointSwept(p, n) \in CheckpointRow
    BY CheckpointSweptType DEF TypeInv, TypeOK
  <2>2. CheckpointSwept(p, n).result = checkpoint[p][n].result
    BY <2>1 DEF CheckpointSwept, CheckpointRow
  <2> QED
    BY <1>1, <2>1, <2>2 DEF CheckpointRow
<1> QED
  BY <1>2 DEF ClaimDueReconciliations, MessageStep, Untouched, KeepsEvidence, KeepsOutcome

LEMMA CompleteClaimedReconciliationStep ==
    ASSUME TypeInv, NEW w \in Workers, CompleteClaimedReconciliation(w), NEW p \in Messages
    PROVE  MessageStep(p)
<1> DEFINE r == answer[w]
           row(m, n) == checkpoint[m][n]
           pendingAgain(m, n) == /\ r \in {"AMBIGUOUS", "SOURCE_UNAVAILABLE"}
                                 /\ row(m, n).tries < ReconAttempts
           absent == ProvedAbsent(r)
<1>1. PICK m \in Messages, n \in Budget :
        /\ row(m, n).result = "PENDING"
        /\ checkpoint' = [checkpoint EXCEPT ![m][n] =
              [row(m, n) EXCEPT !.result = IF pendingAgain(m, n) THEN "PENDING" ELSE r,
                                !.owner = NoWorker, !.lease = "none",
                                !.due = row(m, n).due /\ ~pendingAgain(m, n)]]
        /\ outbox' = [outbox EXCEPT ![m] =
              CASE pendingAgain(m, n) -> @
                [] r = "MATCHED" -> [@ EXCEPT !.state = "SOURCE_CONFIRMED"]
                [] absent /\ Exhausted(m) ->
                      [@ EXCEPT !.state = "DEAD_LETTERED", !.due = TRUE]
                [] absent /\ ~Exhausted(m) ->
                      [@ EXCEPT !.state = "RETRY_SCHEDULED", !.due = TRUE]
                [] OTHER -> [@ EXCEPT !.state = "BLOCKED"]]
        /\ receipt' = IF r = "MATCHED"
                      THEN [receipt EXCEPT ![m] = "SOURCE_CONFIRMED"] ELSE receipt
        /\ deadLetters' = WithDeadLetter(m, absent /\ Exhausted(m))
  BY DEF CompleteClaimedReconciliation, CheckpointOwned
<1>2. r \in Observations /\ attempt' = attempt
  BY DEF CompleteClaimedReconciliation, TypeInv, AnswerFits
<1>3. /\ outbox \in [Messages -> OutboxRow]
      /\ checkpoint \in [Messages -> [Budget -> CheckpointRow]]
      /\ receipt \in [Messages -> {"DISPATCH_PENDING", "SOURCE_CONFIRMED"}]
  BY DEF TypeInv, TypeOK
<1>4. absent <=> r = "NOT_FOUND"
  BY DEF ProvedAbsent
<1>5. pendingAgain(m, n) => r \in {"AMBIGUOUS", "SOURCE_UNAVAILABLE"}
  OBVIOUS
<1> HIDE DEF absent, pendingAgain, r
<1>6. CASE p # m
  BY <1>1, <1>2, <1>3, <1>4, <1>6
     DEF MessageStep, Untouched, KeepsEvidence, KeepsOutcome, WithDeadLetter
<1>7. CASE p = m
  <2>1. /\ checkpoint'[m][n].result = IF pendingAgain(m, n) THEN "PENDING" ELSE r
        /\ \A k \in Budget \ {n} : checkpoint'[m][k] = checkpoint[m][k]
    BY <1>1, <1>3 DEF CheckpointRow
  <2>2. CASE pendingAgain(m, n)
    <3>1. r # "MATCHED" /\ ~absent
      BY <1>4, <1>5, <2>2
    <3>2. outbox'[m] = outbox[m]
      BY <1>1, <1>3, <2>2, <3>1
    <3>3. KeepsOutcome(m)
      BY <1>1, <3>1 DEF KeepsOutcome, WithDeadLetter
    <3>4. KeepsEvidence(m)
      BY <1>1, <1>2, <2>1, <2>2 DEF KeepsEvidence
    <3> QED
      BY <1>7, <3>2, <3>3, <3>4 DEF MessageStep, Untouched
  <2>3. CASE ~pendingAgain(m, n)
    <3>1. checkpoint'[m][n].result = r
      BY <2>1, <2>3
    <3>2. \/ MovesTo(m, "SOURCE_CONFIRMED")
          \/ MovesTo(m, "BLOCKED")
          \/ /\ checkpoint'[m][n].result = "NOT_FOUND"
             /\ \/ MovesTo(m, "RETRY_SCHEDULED") /\ ~Exhausted(m)
                \/ MovesTo(m, "DEAD_LETTERED")
      <4>1. CASE r = "MATCHED"
        <5>1. outbox'[m] = [outbox[m] EXCEPT !.state = "SOURCE_CONFIRMED"]
          BY <1>1, <1>3, <1>4, <2>3, <4>1
        <5> QED
          BY <1>1, <1>3, <1>4, <4>1, <5>1 DEF MovesTo, WithDeadLetter, OutboxRow
      <4>2. CASE r = "NOT_FOUND"
        <5>1. outbox'[m] = IF Exhausted(m)
                           THEN [outbox[m] EXCEPT !.state = "DEAD_LETTERED", !.due = TRUE]
                           ELSE [outbox[m] EXCEPT !.state = "RETRY_SCHEDULED", !.due = TRUE]
          BY <1>1, <1>3, <1>4, <2>3, <4>2
        <5> QED
          BY <1>1, <1>3, <1>4, <3>1, <4>2, <5>1 DEF MovesTo, WithDeadLetter, OutboxRow
      <4>3. CASE r \notin {"MATCHED", "NOT_FOUND"}
        <5>1. outbox'[m] = [outbox[m] EXCEPT !.state = "BLOCKED"]
          BY <1>1, <1>3, <1>4, <2>3, <4>3
        <5> QED
          BY <1>1, <1>3, <1>4, <4>3, <5>1 DEF MovesTo, WithDeadLetter, OutboxRow
      <4> QED
        BY <4>1, <4>2, <4>3
    <3> QED
      BY <1>1, <1>2, <1>7, <2>1, <3>1, <3>2 DEF MessageStep, IsObserved
  <2> QED
    BY <2>2, <2>3
<1> QED
  BY <1>6, <1>7

LEMMA RecordReconciliationStep ==
    ASSUME TypeInv, NEW m \in Messages, NEW n \in Budget, RecordReconciliation(m, n),
           NEW p \in Messages
    PROVE  MessageStep(p)
<1>1. PICK r \in Observations :
        /\ checkpoint' = [checkpoint EXCEPT ![m][n].result = r]
        /\ outbox' = IF r = "MATCHED"
                     THEN [outbox EXCEPT ![m].state = "SOURCE_CONFIRMED"] ELSE outbox
        /\ receipt' = IF r = "MATCHED"
                      THEN [receipt EXCEPT ![m] = "SOURCE_CONFIRMED"] ELSE receipt
  BY DEF RecordReconciliation
<1>2. checkpoint[m][n].result = "PENDING" /\ UNCHANGED <<attempt, deadLetters>>
  BY DEF RecordReconciliation
<1>3. /\ outbox \in [Messages -> OutboxRow]
      /\ checkpoint \in [Messages -> [Budget -> CheckpointRow]]
      /\ receipt \in [Messages -> {"DISPATCH_PENDING", "SOURCE_CONFIRMED"}]
  BY DEF TypeInv, TypeOK
<1>4. CASE p # m
  BY <1>1, <1>2, <1>3, <1>4 DEF MessageStep, Untouched, KeepsEvidence, KeepsOutcome
<1>5. CASE p = m
  <2>1. /\ checkpoint'[m][n].result = r
        /\ \A k \in Budget \ {n} : checkpoint'[m][k] = checkpoint[m][k]
    BY <1>1, <1>3 DEF CheckpointRow
  <2>2. CASE r = "MATCHED"
    <3>1. MovesTo(m, "SOURCE_CONFIRMED")
      BY <1>1, <1>2, <1>3, <2>2 DEF MovesTo, OutboxRow
    <3> QED
      BY <1>1, <1>2, <1>5, <2>1, <3>1 DEF MessageStep, IsObserved
  <2>3. CASE r # "MATCHED"
    <3>1. UNCHANGED <<outbox, receipt>>
      BY <1>1, <2>3
    <3> QED
      BY <1>1, <1>2, <1>5, <2>1, <3>1 DEF MessageStep, IsObserved, KeepsOutcome
  <2> QED
    BY <2>2, <2>3
<1> QED
  BY <1>4, <1>5

LEMMA TimePassesStep ==
    ASSUME TypeInv, TimePasses, NEW p \in Messages
    PROVE  MessageStep(p)
<1> SUFFICES Untouched(p)
  BY DEF MessageStep
<1>1. /\ outbox \in [Messages -> OutboxRow]
      /\ checkpoint \in [Messages -> [Budget -> CheckpointRow]]
  BY DEF TypeInv, TypeOK
<1>2. UNCHANGED <<attempt, receipt, deadLetters>>
  BY DEF TimePasses, RequestDeadlinePasses, OutboxLeaseExpires, BackoffElapses,
         CheckpointLeaseExpires, NextCheckDue
<1>3. ASSUME NEW m \in Messages,
             RequestDeadlinePasses(m) \/ OutboxLeaseExpires(m) \/ BackoffElapses(m)
      PROVE  Untouched(p)
  <2>1. checkpoint' = checkpoint
    BY <1>3 DEF RequestDeadlinePasses, OutboxLeaseExpires, BackoffElapses
  <2>2. outbox'[p].state = outbox[p].state /\ outbox'[p].attempts = outbox[p].attempts
    <3>1. outbox[m] \in OutboxRow /\ outbox[p] \in OutboxRow
      BY <1>1
    <3>2. CASE RequestDeadlinePasses(m)
      BY <1>1, <3>1, <3>2 DEF RequestDeadlinePasses, OutboxRow
    <3>3. CASE OutboxLeaseExpires(m)
      BY <1>1, <3>1, <3>3 DEF OutboxLeaseExpires, OutboxRow
    <3>4. CASE BackoffElapses(m)
      BY <1>1, <3>1, <3>4 DEF BackoffElapses, OutboxRow
    <3> QED
      BY <1>3, <3>2, <3>3, <3>4
  <2> QED
    BY <1>2, <2>1, <2>2 DEF Untouched, KeepsEvidence, KeepsOutcome
<1>4. ASSUME NEW m \in Messages, NEW n \in Budget,
             CheckpointLeaseExpires(m, n) \/ NextCheckDue(m, n)
      PROVE  Untouched(p)
  <2>1. outbox' = outbox
    BY <1>4 DEF CheckpointLeaseExpires, NextCheckDue
  <2>2. \A k \in Budget : checkpoint'[p][k].result = checkpoint[p][k].result
    <3> SUFFICES ASSUME NEW k \in Budget
                 PROVE  checkpoint'[p][k].result = checkpoint[p][k].result
      OBVIOUS
    <3>1. checkpoint[m][n] \in CheckpointRow /\ checkpoint[p][k] \in CheckpointRow
      BY <1>1
    <3>2. CASE CheckpointLeaseExpires(m, n)
      BY <1>1, <3>1, <3>2 DEF CheckpointLeaseExpires, CheckpointRow
    <3>3. CASE NextCheckDue(m, n)
      BY <1>1, <3>1, <3>3 DEF NextCheckDue, CheckpointRow
    <3> QED
      BY <1>4, <3>2, <3>3
  <2> QED
    BY <1>2, <2>1, <2>2 DEF Untouched, KeepsEvidence, KeepsOutcome
<1> QED
  BY <1>3, <1>4 DEF TimePasses

\* Every step of the specification is one of these steps for every message.
LEMMA EveryStep ==
    ASSUME TypeInv, [Next]_vars, NEW p \in Messages
    PROVE  MessageStep(p)
<1>1. CASE UNCHANGED vars
  BY <1>1, UntouchedStep DEF vars, storeVars, MessageStep
<1>2. CASE \E w \in Workers : Unwritten(w)
  BY <1>2, UnwrittenStore, UntouchedStep DEF MessageStep
<1>3. CASE (\E m \in Messages, n \in Budget : ProviderActs(m, n)) \/ ToggleKillSwitch
  BY <1>3, UntouchedStep DEF ProviderActs, ToggleKillSwitch, MessageStep
<1>4. CASE Next
  BY <1>2, <1>3, <1>4, NextCases, ClaimDueOutboxStep, DispatchStep, RecordAnswerStep,
     ClaimDueReconciliationsStep, CompleteClaimedReconciliationStep, TimePassesStep,
     RecordReconciliationStep
<1> QED
  BY <1>1, <1>4

-------------------------------------------------------------------------------
(***************************************************************************)
(* The inductive invariant.  None of the properties is inductive alone:    *)
(* that no attempt follows an open one needs that the attempt of a claim   *)
(* is blank or merely started when the claim is lost, that attempts still  *)
(* to come are blank, and that a pending checkpoint is about the attempt   *)
(* the message is at.                                                      *)
(***************************************************************************)
WithinBudget == \A m \in Messages : outbox[m].attempts <= maxAttempts[m]

ComingAttemptsAreBlank ==
    \A m \in Messages, n \in Budget :
        n > outbox[m].attempts => attempt[m][n] = "NONE" /\ checkpoint[m][n].result = "NONE"

ClaimIsOpen ==
    \A m \in Messages, n \in Budget :
        outbox[m].state = "CLAIMED" /\ n = outbox[m].attempts =>
            attempt[m][n] \in {"NONE", "STARTED"} /\ checkpoint[m][n].result = "NONE"

ReceiptAgrees ==
    \A m \in Messages : outbox[m].state = "SOURCE_CONFIRMED" <=> receipt[m] = "SOURCE_CONFIRMED"

StoreInv ==
    /\ WithinBudget
    /\ ComingAttemptsAreBlank
    /\ ClaimIsOpen
    /\ NoOrphanedStart
    /\ PendingIsCurrent
    /\ ReconcileBeforeRetry
    /\ DeadLetterEvidence
    /\ DoubtIsFollowedUp
    /\ ReceiptAgrees

\* A process that calls an adapter has written the attempt it calls it for.
CallsAreRecorded ==
    /\ \A w \in Workers, m \in Messages, n \in Budget :
          pc[w] \in {"call", "await", "record"} /\ job[w] = <<m, n>> => attempt[m][n] # "NONE"
    /\ \A m \in Messages, n \in Budget : request[m][n] # "none" => attempt[m][n] # "NONE"

IInv == TypeInv /\ StoreInv /\ CallsAreRecorded

LEMMA IInvInit == Init => IInv
<1> SUFFICES ASSUME Init PROVE IInv
  OBVIOUS
<1>1. TypeInv
  BY TypeInit
<1>2. \A m \in Messages : outbox[m].state = "PENDING" /\ outbox[m].attempts = 0
  BY DEF Init, NewOutboxRow
<1>3. \A m \in Messages, n \in Budget :
        attempt[m][n] = "NONE" /\ checkpoint[m][n].result = "NONE" /\ n > 0
  BY BudgetAssumption DEF Init, NoCheckpoint, Budget
<1>4. \A m \in Messages : maxAttempts[m] \in 1 .. MaxBudget
  BY BudgetAssumption
<1>5. StoreInv
  BY <1>2, <1>3, <1>4, BudgetAssumption
     DEF StoreInv, WithinBudget, ComingAttemptsAreBlank, ClaimIsOpen, NoOrphanedStart,
         PendingIsCurrent, ReconcileBeforeRetry, DeadLetterEvidence, DoubtIsFollowedUp,
         ReceiptAgrees, Init
<1>6. CallsAreRecorded
  BY DEF Init, CallsAreRecorded
<1> QED
  BY <1>1, <1>5, <1>6 DEF IInv

\* Numbers, for the lemmas below.
LEMMA Attempts ==
    ASSUME TypeInv, NEW m \in Messages
    PROVE  /\ outbox[m].attempts \in Nat
           /\ outbox'[m].attempts \in {outbox[m].attempts, outbox[m].attempts + 1} =>
                 outbox'[m].attempts \in Nat
           /\ maxAttempts[m] \in Nat
           /\ Budget \subseteq Nat
BY BudgetAssumption DEF TypeInv, TypeOK, OutboxRow, Budget

\* No step lowers the attempt number, and only a claim within the budget raises it.
LEMMA StepCounts ==
    ASSUME NEW m \in Messages, MessageStep(m)
    PROVE  \/ outbox'[m].attempts = outbox[m].attempts
           \/ /\ outbox'[m].attempts = outbox[m].attempts + 1
              /\ outbox[m].attempts < maxAttempts[m]
<1>1. CASE Untouched(m)
  BY <1>1 DEF Untouched
<1>2. CASE IsClaimed(m)
  BY <1>2 DEF IsClaimed
<1>3. CASE IsGivenBack(m)
  BY <1>3 DEF IsGivenBack, MovesTo
<1>4. CASE IsStarted(m)
  BY <1>4 DEF IsStarted
<1>5. CASE IsRefused(m)
  BY <1>5 DEF IsRefused, MovesTo
<1>6. CASE IsDoubted(m)
  BY <1>6 DEF IsDoubted, MovesTo
<1>7. CASE IsObserved(m)
  BY <1>7 DEF IsObserved, MovesTo
<1> QED
  BY <1>1, <1>2, <1>3, <1>4, <1>5, <1>6, <1>7 DEF MessageStep

\* No step touches the evidence of an attempt that is still to come.
LEMMA StepKeepsBlank ==
    ASSUME NEW m \in Messages, MessageStep(m), NEW n \in Budget, n # outbox[m].attempts,
           checkpoint[m][n].result = "NONE"
    PROVE  /\ attempt'[m][n] = attempt[m][n]
           /\ checkpoint'[m][n].result = "NONE"
<1>1. CASE Untouched(m)
  BY <1>1 DEF Untouched, KeepsEvidence
<1>2. CASE IsClaimed(m)
  BY <1>2 DEF IsClaimed, KeepsEvidence
<1>3. CASE IsGivenBack(m)
  BY <1>3 DEF IsGivenBack, KeepsEvidence
<1>4. CASE IsStarted(m)
  BY <1>4 DEF IsStarted
<1>5. CASE IsRefused(m)
  BY <1>5 DEF IsRefused
<1>6. CASE IsDoubted(m)
  BY <1>6 DEF IsDoubted
<1>7. CASE IsObserved(m)
  BY <1>7 DEF IsObserved
<1> QED
  BY <1>1, <1>2, <1>3, <1>4, <1>5, <1>6, <1>7 DEF MessageStep

LEMMA StoreInvStep ==
    ASSUME TypeInv, StoreInv, \A p \in Messages : MessageStep(p)
    PROVE  StoreInv'
<1>1. WithinBudget'
  <2> SUFFICES ASSUME NEW m \in Messages PROVE outbox'[m].attempts <= maxAttempts[m]
    BY DEF WithinBudget
  <2>1. outbox[m].attempts <= maxAttempts[m] /\ MessageStep(m)
    BY DEF StoreInv, WithinBudget
  <2>2. outbox[m].attempts \in Nat /\ maxAttempts[m] \in Nat
    BY Attempts
  <2> QED
    BY <2>1, <2>2, StepCounts
<1>2. ComingAttemptsAreBlank'
  <2> SUFFICES ASSUME NEW m \in Messages, NEW n \in Budget, n > outbox'[m].attempts
               PROVE  attempt'[m][n] = "NONE" /\ checkpoint'[m][n].result = "NONE"
    BY DEF ComingAttemptsAreBlank
  <2>1. MessageStep(m)
    OBVIOUS
  <2>2. n > outbox[m].attempts
    <3>1. outbox[m].attempts \in Nat /\ n \in Nat
      BY Attempts
    <3> QED
      BY <2>1, <3>1, StepCounts
  <2>3. attempt[m][n] = "NONE" /\ checkpoint[m][n].result = "NONE"
    BY <2>2 DEF StoreInv, ComingAttemptsAreBlank
  <2>4. outbox[m].attempts \in Nat /\ n # outbox[m].attempts
    BY <2>2, Attempts
  <2> QED
    BY <2>1, <2>3, <2>4, StepKeepsBlank
<1>3. ClaimIsOpen'
  <2> SUFFICES ASSUME NEW m \in Messages, NEW n \in Budget,
                      outbox'[m].state = "CLAIMED", n = outbox'[m].attempts
               PROVE  /\ attempt'[m][n] \in {"NONE", "STARTED"}
                      /\ checkpoint'[m][n].result = "NONE"
    BY DEF ClaimIsOpen
  <2>1. MessageStep(m)
    OBVIOUS
  <2>2. CASE IsClaimed(m)
    BY <2>2, Attempts DEF IsClaimed, KeepsEvidence, StoreInv, ComingAttemptsAreBlank
  <2>3. CASE Untouched(m) \/ IsStarted(m)
    BY <2>3 DEF Untouched, IsStarted, KeepsEvidence, StoreInv, ClaimIsOpen
  <2>4. CASE IsGivenBack(m) \/ IsRefused(m) \/ IsDoubted(m)
    BY <2>4 DEF IsGivenBack, IsRefused, IsDoubted, MovesTo, Doubtful
  <2>5. CASE IsObserved(m)
    BY <2>5 DEF IsObserved, MovesTo, StoreInv, PendingIsCurrent, Doubtful
  <2> QED
    BY <2>1, <2>2, <2>3, <2>4, <2>5 DEF MessageStep
<1>4. NoOrphanedStart'
  <2> SUFFICES ASSUME NEW m \in Messages, NEW n \in Budget, attempt'[m][n] = "STARTED"
               PROVE  outbox'[m].state = "CLAIMED" /\ outbox'[m].attempts = n
    BY DEF NoOrphanedStart
  <2>1. MessageStep(m)
    OBVIOUS
  <2>2. attempt[m][n] = "STARTED" => outbox[m].state = "CLAIMED" /\ outbox[m].attempts = n
    BY DEF StoreInv, NoOrphanedStart
  <2>3. CASE Untouched(m) \/ IsStarted(m)
    BY <2>2, <2>3 DEF Untouched, IsStarted, KeepsEvidence
  <2>4. CASE IsClaimed(m) \/ IsGivenBack(m)
    BY <2>2, <2>4 DEF IsClaimed, IsGivenBack, NotStarted, KeepsEvidence
  <2>5. CASE IsRefused(m) \/ IsDoubted(m)
    BY <2>2, <2>5 DEF IsRefused, IsDoubted
  <2>6. CASE IsObserved(m)
    BY <2>2, <2>6 DEF IsObserved, StoreInv, PendingIsCurrent, Doubtful
  <2> QED
    BY <2>1, <2>3, <2>4, <2>5, <2>6 DEF MessageStep
<1>5. PendingIsCurrent'
  <2> SUFFICES ASSUME NEW m \in Messages, NEW n \in Budget,
                      checkpoint'[m][n].result = "PENDING"
               PROVE  outbox'[m].state \in Doubtful /\ outbox'[m].attempts = n
    BY DEF PendingIsCurrent
  <2>1. MessageStep(m)
    OBVIOUS
  <2>2. \A k \in Budget : checkpoint[m][k].result = "PENDING" =>
            outbox[m].state \in Doubtful /\ outbox[m].attempts = k
    BY DEF StoreInv, PendingIsCurrent
  <2>3. CASE Untouched(m)
    BY <2>2, <2>3 DEF Untouched, KeepsEvidence
  <2>4. CASE IsClaimed(m) \/ IsGivenBack(m) \/ IsStarted(m) \/ IsRefused(m)
    BY <2>2, <2>4 DEF IsClaimed, IsGivenBack, IsStarted, IsRefused, KeepsEvidence, Doubtful
  <2>5. CASE IsDoubted(m)
    BY <2>2, <2>5 DEF IsDoubted, MovesTo, Doubtful
  <2>6. CASE IsObserved(m)
    BY <2>2, <2>6 DEF IsObserved, Observations
  <2> QED
    BY <2>1, <2>3, <2>4, <2>5, <2>6 DEF MessageStep
<1>6. ReconcileBeforeRetry'
  <2> DEFINE Sure(a, r) == a \in {"NONE", "RETRY_SCHEDULED"} \/ r = "NOT_FOUND"
  <2> SUFFICES ASSUME NEW m \in Messages, NEW n \in Budget,
                      n <= outbox'[m].attempts,
                      n = outbox'[m].attempts =>
                          outbox'[m].state \in {"PENDING", "RETRY_SCHEDULED"}
               PROVE  Sure(attempt'[m][n], checkpoint'[m][n].result)
    <3>1. \A m \in Messages, n \in Budget :
            outbox'[m].attempts \in Nat => (n > outbox'[m].attempts <=> ~(n <= outbox'[m].attempts))
      BY Attempts
    <3>2. \A m \in Messages : outbox'[m].attempts \in Nat
      BY Attempts DEF MessageStep, Untouched, IsClaimed, IsGivenBack, IsStarted,
         IsRefused, IsDoubted, IsObserved, MovesTo
    <3> QED
      BY <3>1, <3>2 DEF ReconcileBeforeRetry
  <2>1. MessageStep(m)
    OBVIOUS
  <2>2. ASSUME n <= outbox[m].attempts,
               n = outbox[m].attempts => outbox[m].state \in {"PENDING", "RETRY_SCHEDULED"}
        PROVE  Sure(attempt[m][n], checkpoint[m][n].result)
    BY <2>2, Attempts DEF StoreInv, ReconcileBeforeRetry
  <2>3. CASE Untouched(m)
    BY <2>2, <2>3 DEF Untouched, KeepsEvidence
  <2>4. CASE IsClaimed(m)
    <3>1. n <= outbox[m].attempts
      BY <2>4, Attempts DEF IsClaimed
    <3>2. CASE n = outbox[m].attempts /\ outbox[m].state = "CLAIMED"
      BY <2>4, <3>2 DEF IsClaimed, NotStarted, KeepsEvidence, StoreInv, ClaimIsOpen
    <3>3. CASE ~(n = outbox[m].attempts /\ outbox[m].state = "CLAIMED")
      BY <2>2, <2>4, <3>1, <3>3 DEF IsClaimed, KeepsEvidence
    <3> QED
      BY <3>2, <3>3
  <2>5. CASE IsGivenBack(m)
    <3>1. CASE n = outbox[m].attempts
      BY <2>5, <3>1 DEF IsGivenBack, NotStarted, KeepsEvidence, StoreInv, ClaimIsOpen
    <3>2. CASE n # outbox[m].attempts
      BY <2>2, <2>5, <3>2 DEF IsGivenBack, KeepsEvidence, MovesTo
    <3> QED
      BY <3>1, <3>2
  <2>6. CASE IsStarted(m)
    BY <2>2, <2>6 DEF IsStarted
  <2>7. CASE IsRefused(m)
    <3>1. CASE n = outbox[m].attempts
      BY <2>7, <3>1 DEF IsRefused, MovesTo
    <3>2. CASE n # outbox[m].attempts
      BY <2>2, <2>7, <3>2 DEF IsRefused, MovesTo
    <3> QED
      BY <3>1, <3>2
  <2>8. CASE IsDoubted(m)
    BY <2>2, <2>8 DEF IsDoubted, MovesTo, Doubtful
  <2>9. CASE IsObserved(m)
    <3>1. PICK k \in Budget :
            /\ checkpoint[m][k].result = "PENDING"
            /\ \A j \in Budget : attempt'[m][j] = attempt[m][j]
            /\ \A j \in Budget \ {k} : checkpoint'[m][j].result = checkpoint[m][j].result
            /\ \/ /\ outbox'[m].state = outbox[m].state
                  /\ outbox'[m].attempts = outbox[m].attempts
               \/ MovesTo(m, "SOURCE_CONFIRMED")
               \/ MovesTo(m, "BLOCKED")
               \/ /\ checkpoint'[m][k].result = "NOT_FOUND"
                  /\ MovesTo(m, "RETRY_SCHEDULED") \/ MovesTo(m, "DEAD_LETTERED")
      BY <2>9 DEF IsObserved
    <3>2. /\ outbox[m].attempts = k /\ outbox[m].state \in Doubtful
          /\ outbox'[m].attempts = k
      BY <3>1 DEF StoreInv, PendingIsCurrent, MovesTo
    <3>3. CASE n = k
      BY <3>1, <3>2, <3>3 DEF MovesTo, Doubtful
    <3>4. CASE n # k
      BY <2>2, <3>1, <3>2, <3>4
    <3> QED
      BY <3>3, <3>4
  <2> QED
    BY <2>1, <2>3, <2>4, <2>5, <2>6, <2>7, <2>8, <2>9 DEF MessageStep
<1>7. DeadLetterEvidence' /\ ReceiptAgrees'
  <2> SUFFICES ASSUME NEW m \in Messages
               PROVE  /\ outbox'[m].state = "DEAD_LETTERED" <=> m \in deadLetters'
                      /\ outbox'[m].state = "SOURCE_CONFIRMED" <=> receipt'[m] = "SOURCE_CONFIRMED"
    BY DEF DeadLetterEvidence, ReceiptAgrees
  <2>1. MessageStep(m)
    OBVIOUS
  <2>2. /\ outbox[m].state = "DEAD_LETTERED" <=> m \in deadLetters
        /\ outbox[m].state = "SOURCE_CONFIRMED" <=> receipt[m] = "SOURCE_CONFIRMED"
    BY DEF StoreInv, DeadLetterEvidence, ReceiptAgrees
  <2>3. CASE Untouched(m) \/ IsClaimed(m) \/ IsStarted(m)
    BY <2>2, <2>3 DEF Untouched, IsClaimed, IsStarted, KeepsOutcome
  <2>4. CASE IsGivenBack(m) \/ IsRefused(m) \/ IsDoubted(m)
    BY <2>2, <2>4 DEF IsGivenBack, IsRefused, IsDoubted, MovesTo, Doubtful
  <2>5. CASE IsObserved(m)
    <3>1. outbox[m].state \in Doubtful
      BY <2>5 DEF IsObserved, StoreInv, PendingIsCurrent
    <3> QED
      BY <2>2, <2>5, <3>1 DEF IsObserved, MovesTo, KeepsOutcome, Doubtful
  <2> QED
    BY <2>1, <2>3, <2>4, <2>5 DEF MessageStep
<1>8. DoubtIsFollowedUp'
  <2> SUFFICES ASSUME NEW m \in Messages, NEW n \in Budget,
                      attempt'[m][n] \in {"SUCCEEDED", "RECONCILIATION_REQUIRED"}
               PROVE  checkpoint'[m][n].result # "NONE"
    BY DEF DoubtIsFollowedUp
  <2>1. MessageStep(m)
    OBVIOUS
  <2>2. attempt[m][n] \in {"SUCCEEDED", "RECONCILIATION_REQUIRED"} =>
            checkpoint[m][n].result # "NONE"
    BY DEF StoreInv, DoubtIsFollowedUp
  <2>3. CASE Untouched(m) \/ IsClaimed(m) \/ IsGivenBack(m)
    BY <2>2, <2>3 DEF Untouched, IsClaimed, IsGivenBack, KeepsEvidence
  <2>4. CASE IsStarted(m) \/ IsRefused(m)
    BY <2>2, <2>4 DEF IsStarted, IsRefused
  <2>5. CASE IsDoubted(m)
    BY <2>2, <2>5 DEF IsDoubted
  <2>6. CASE IsObserved(m)
    BY <2>2, <2>6 DEF IsObserved, Observations
  <2> QED
    BY <2>1, <2>3, <2>4, <2>5, <2>6 DEF MessageStep
<1> QED
  BY <1>1, <1>2, <1>3, <1>4, <1>5, <1>6, <1>7, <1>8 DEF StoreInv

LEMMA CallsAreRecordedStep ==
    ASSUME TypeInv, CallsAreRecorded, [Next]_vars, \A p \in Messages : MessageStep(p)
    PROVE  CallsAreRecorded'
<1>1. \A m \in Messages, n \in Budget : attempt[m][n] # "NONE" => attempt'[m][n] # "NONE"
  BY DEF MessageStep, Untouched, IsClaimed, IsGivenBack, IsStarted, IsRefused, IsDoubted,
         IsObserved, KeepsEvidence
<1>2. \A w \in Workers, m \in Messages, n \in Budget :
        pc'[w] \in {"call", "await", "record"} /\ job'[w] = <<m, n>> => attempt'[m][n] # "NONE"
  <2> SUFFICES ASSUME NEW w \in Workers, NEW m \in Messages, NEW n \in Budget,
                      pc'[w] \in {"call", "await", "record"}, job'[w] = <<m, n>>
               PROVE  attempt'[m][n] # "NONE"
    OBVIOUS
  <2>1. CASE pc[w] \in {"call", "await", "record"} /\ job[w] = <<m, n>>
    BY <1>1, <2>1 DEF CallsAreRecorded
  <2>2. CASE \E v \in Workers : RecordDispatchStarted(v)
    <3>1. PICK v \in Workers : RecordDispatchStarted(v)
      BY <2>2
    <3>2. PICK p \in Messages, k \in Budget :
            /\ attempt' = [attempt EXCEPT ![p][k] = "STARTED"]
            /\ job' = [job EXCEPT ![v] = <<p, k>>]
      BY <3>1 DEF RecordDispatchStarted
    <3>3. attempt'[p][k] = "STARTED"
      BY <3>2 DEF TypeInv, TypeOK
    <3>4. CASE v = w
      BY <3>2, <3>3, <3>4 DEF TypeInv, TypeOK
    <3>5. CASE v # w
      BY <2>1, <3>1, <3>2, <3>5 DEF RecordDispatchStarted, Goto, TypeInv, TypeOK
    <3> QED
      BY <3>4, <3>5
  <2>3. CASE ~\E v \in Workers : RecordDispatchStarted(v)
    <3>1. pc[w] \in {"call", "await", "record"} /\ job[w] = <<m, n>>
      <4>1. CASE UNCHANGED <<pc, job>>
        BY <4>1
      <4>2. CASE \E v \in Workers : Work(v) \/ Crash(v)
        <5>1. PICK v \in Workers : Work(v) \/ Crash(v)
          BY <4>2
        <5>2. \/ UNCHANGED <<pc, job>>
              \/ \E phase \in Phases \ {"call", "await", "record"} : pc' = [pc EXCEPT ![v] = phase]
                 /\ \A u \in Workers \ {v} : job'[u] = job[u]
              \/ /\ pc[v] \in {"call", "await"} /\ job' = job
                 /\ \E phase \in Phases : pc' = [pc EXCEPT ![v] = phase]
          BY <2>3, <5>1
             DEF Work, Start, ClaimDueOutbox, RefuseBeforeDispatch, DispatchRejected,
                 DeliveryBatchDone, Execute, AdapterAnswers, RecordAnswer, AnswerRejected,
                 ClaimDueReconciliations, AdapterObserves, SkipObservation,
                 StartReconciliation, CompleteClaimedReconciliation, CompletionThrows,
                 CompletionRejected, ReconciliationBatchDone, Crash, Exit, Goto, Phases,
                 TypeInv, TypeOK
        <5> QED
          BY <5>2 DEF TypeInv, TypeOK
      <4> QED
        BY <4>1, <4>2 DEF Next, TimePasses, RequestDeadlinePasses, OutboxLeaseExpires,
           BackoffElapses, CheckpointLeaseExpires, NextCheckDue, ProviderActs,
           ToggleKillSwitch, RecordReconciliation, workerVars, vars
    <3> QED
      BY <2>1, <3>1
  <2> QED
    BY <2>2, <2>3
<1>3. \A m \in Messages, n \in Budget : request'[m][n] # "none" => attempt'[m][n] # "NONE"
  <2> SUFFICES ASSUME NEW m \in Messages, NEW n \in Budget, request'[m][n] # "none"
               PROVE  attempt'[m][n] # "NONE"
    OBVIOUS
  <2>1. CASE request[m][n] # "none"
    BY <1>1, <2>1 DEF CallsAreRecorded
  <2>2. CASE request[m][n] = "none"
    <3>1. PICK w \in Workers : Execute(w)
      <4>1. CASE \E p \in Messages, k \in Budget : ProviderActs(p, k)
        BY <2>2, <4>1 DEF ProviderActs, TypeInv, TypeOK
      <4>2. CASE \E v \in Workers : Work(v) \/ Crash(v)
        <5>1. PICK v \in Workers : Work(v) \/ Crash(v)
          BY <4>2
        <5>2. request' = request \/ Execute(v)
          BY <5>1 DEF Work, Start, ClaimDueOutbox, RefuseBeforeDispatch,
             RecordDispatchStarted, DispatchRejected, DeliveryBatchDone, AdapterAnswers,
             RecordAnswer, AnswerRejected, ClaimDueReconciliations, AdapterObserves,
             SkipObservation, StartReconciliation, CompleteClaimedReconciliation,
             CompletionThrows, CompletionRejected, ReconciliationBatchDone, Crash, Exit
        <5> QED
          BY <2>2, <5>2
      <4>3. CASE request' = request
        BY <2>2, <4>3
      <4> QED
        BY <4>1, <4>2, <4>3 DEF Next, TimePasses, RequestDeadlinePasses, OutboxLeaseExpires,
           BackoffElapses, CheckpointLeaseExpires, NextCheckDue, ToggleKillSwitch,
           RecordReconciliation, vars
    <3>2. job[w] = <<m, n>> /\ pc[w] = "call"
      BY <2>2, <3>1 DEF Execute, TypeInv, TypeOK
    <3> QED
      BY <1>1, <3>2 DEF CallsAreRecorded
  <2> QED
    BY <2>1, <2>2
<1> QED
  BY <1>2, <1>3 DEF CallsAreRecorded

LEMMA IInvStep == IInv /\ [Next]_vars => IInv'
<1> SUFFICES ASSUME IInv, [Next]_vars PROVE IInv'
  OBVIOUS
<1>1. TypeInv'
  BY TypeStep DEF IInv
<1>2. \A p \in Messages : MessageStep(p)
  BY EveryStep DEF IInv
<1>3. StoreInv' /\ CallsAreRecorded'
  BY <1>2, StoreInvStep, CallsAreRecordedStep DEF IInv
<1> QED
  BY <1>1, <1>3 DEF IInv

LEMMA Invariance == Spec => []IInv
BY IInvInit, IInvStep, PTL DEF Spec

-------------------------------------------------------------------------------
(***************************************************************************)
(* Calls.  An attempt is called by the one process that started it, so     *)
(* what that process has heard stays true of the provider until it is      *)
(* recorded, whoever else works on the message.                            *)
(***************************************************************************)
Calling    == {"call", "await", "record"}
Delivering == {"deliver"} \cup Calling
Completing == {"complete", "complete_again"}
Definite   == FailureClasses \ {"AMBIGUOUS_AFTER_ACK"}

Applied(m) == \E n \in Budget : request[m][n] = "applied"

OneCaller ==
    \A v, w \in Workers, r \in Row :
        pc[v] \in Calling /\ pc[w] \in Calling /\ job[v] = r /\ job[w] = r => v = w

CallsAreTrue ==
    \A w \in Workers, m \in Messages, n \in Budget :
        job[w] = <<m, n>> =>
            /\ pc[w] = "call" => request[m][n] = "none"
            /\ pc[w] \in {"await", "record"} => request[m][n] # "none"
            /\ pc[w] = "record" /\ answer[w] \in Definite => request[m][n] = "refused"
            /\ pc[w] \in Completing /\ answer[w] = "MATCHED" => Applied(m)

ConfirmedIsApplied ==
    \A m \in Messages : outbox[m].state = "SOURCE_CONFIRMED" => Applied(m)

CallInv == OneCaller /\ CallsAreTrue /\ ConfirmedIsApplied

(***************************************************************************)
(* Ownership, with one identity per process.  A process that still owns a  *)
(* message it works on owns the very claim it made: a claim of another     *)
(* process would have changed the owner.                                   *)
(***************************************************************************)
Holds(w, m) == outbox[m].state = "CLAIMED" /\ outbox[m].owner = workerId[w]

InFlight == {"STARTED", "RECONCILIATION_REQUIRED"}

\* A claimed row waits in the batch, its attempt not yet started.
BatchFits(w, m) ==
    pc[w] \in Delivering =>
        \A k \in Budget : <<m, k>> \in batch[w] =>
            /\ \A l \in Budget : <<m, l>> \in batch[w] => l = k
            /\ Holds(w, m) => outbox[m].attempts = k /\ attempt[m][k] = "NONE"

\* The attempt a process calls for is the current one, while it owns the row.
JobFits(w, m) ==
    pc[w] \in Calling =>
        \A n \in Budget : job[w] = <<m, n>> =>
            /\ attempt[m][n] \in InFlight
            /\ Holds(w, m) => outbox[m].attempts = n
            /\ \A k \in Budget : <<m, k>> \notin batch[w]

OwnersWorkOnTheirClaims == \A w \in Workers, m \in Messages : BatchFits(w, m) /\ JobFits(w, m)

EvidenceIsTrue ==
    \A m \in Messages, n \in Budget :
        /\ attempt[m][n] \in {"RETRY_SCHEDULED", "FAILED"} => request[m][n] \in {"none", "refused"}
        /\ attempt[m][n] = "SUCCEEDED" => request[m][n] # "none"

OwnerInv == OwnersWorkOnTheirClaims /\ EvidenceIsTrue

ProviderInv == IInv /\ CallInv /\ (UniqueWorkerIds => OwnerInv)

-------------------------------------------------------------------------------
(***************************************************************************)
(* One worker, one message and one call in one step.                       *)
(***************************************************************************)
StaysAt(w) ==
    pc'[w] = pc[w] /\ batch'[w] = batch[w] /\ job'[w] = job[w] /\ answer'[w] = answer[w]

\* What w may do that leaves it delivering or completing.
Moves(w) ==
    \/ ClaimDueOutbox(w) \/ RefuseBeforeDispatch(w) \/ RecordDispatchStarted(w)
    \/ Execute(w) \/ AdapterAnswers(w) \/ RecordAnswer(w)
    \/ AdapterObserves(w) \/ SkipObservation(w) \/ CompletionThrows(w)

\* What the two claims do to the process that makes them.
LEMMA ClaimDueOutboxWorker ==
    ASSUME NEW v \in Workers, ClaimDueOutbox(v)
    PROVE  /\ pc' = [pc EXCEPT ![v] = "deliver"]
           /\ UNCHANGED <<receipt, switches, request, job, answer>>
           /\ \E B : batch' = [batch EXCEPT ![v] = B]
BY Zenon DEF ClaimDueOutbox, Goto

LEMMA ClaimDueReconciliationsWorker ==
    ASSUME NEW v \in Workers, ClaimDueReconciliations(v)
    PROVE  /\ pc' = [pc EXCEPT ![v] = "reconcile"]
           /\ UNCHANGED <<outbox, attempt, receipt, deadLetters, switches, request, job, answer>>
           /\ \E B : batch' = [batch EXCEPT ![v] = B]
BY Zenon DEF ClaimDueReconciliations, Goto

\* A step of one process leaves the others where they are.
LEMMA OthersStay ==
    ASSUME TypeInv, NEW v \in Workers, Work(v) \/ Crash(v), NEW w \in Workers, w # v
    PROVE  StaysAt(w)
<1>1. /\ pc \in [Workers -> Phases] /\ batch \in [Workers -> SUBSET Row]
      /\ job \in [Workers -> Row \cup {NoJob}] /\ answer \in [Workers -> Answers]
  BY DEF TypeInv, TypeOK
<1>2. CASE DispatchRejected(v) \/ AnswerRejected(v) \/ CompletionRejected(v) \/ Crash(v)
  <2>1. Exit(v)
    BY <1>2 DEF DispatchRejected, AnswerRejected, CompletionRejected, Crash
  <2> QED
    BY <1>1, <2>1 DEF Exit, Goto, StaysAt
<1>3. CASE Start(v) \/ DeliveryBatchDone(v) \/ ReconciliationBatchDone(v) \/ Execute(v)
  BY <1>1, <1>3 DEF Start, DeliveryBatchDone, ReconciliationBatchDone, Execute, Goto, StaysAt
<1>4. CASE AdapterAnswers(v) \/ CompletionThrows(v)
  BY <1>1, <1>4 DEF AdapterAnswers, CompletionThrows, Goto, StaysAt
<1>5. CASE AdapterObserves(v) \/ SkipObservation(v)
  <2>1. \E m, n, r, phase : StartReconciliation(v, m, n, r, phase)
    BY <1>5 DEF AdapterObserves, SkipObservation
  <2> QED
    BY <1>1, <2>1 DEF StartReconciliation, Goto, StaysAt
<1>6. CASE ClaimDueOutbox(v)
  BY <1>1, <1>6, ClaimDueOutboxWorker DEF StaysAt
<1>7. CASE ClaimDueReconciliations(v)
  BY <1>1, <1>7, ClaimDueReconciliationsWorker DEF StaysAt
<1>8. CASE RefuseBeforeDispatch(v) \/ RecordDispatchStarted(v)
  BY <1>1, <1>8 DEF RefuseBeforeDispatch, RecordDispatchStarted, Goto, StaysAt
<1>9. CASE RecordAnswer(v)
  BY <1>1, <1>9 DEF RecordAnswer, Goto, StaysAt
<1>10. CASE CompleteClaimedReconciliation(v)
  BY <1>1, <1>10 DEF CompleteClaimedReconciliation, Goto, StaysAt
<1> QED
  BY <1>2, <1>3, <1>4, <1>5, <1>6, <1>7, <1>8, <1>9, <1>10 DEF Work

\* A process stays, makes one of its moves, or neither delivers nor completes.
LEMMA WorkerStep ==
    ASSUME TypeInv, [Next]_vars, NEW w \in Workers
    PROVE  StaysAt(w) \/ Moves(w) \/ pc'[w] \notin Delivering \cup Completing
<1>1. CASE UNCHANGED vars
  BY <1>1 DEF vars, StaysAt
<1>2. CASE \E v \in Workers : Work(v) \/ Crash(v)
  <2>1. PICK v \in Workers : Work(v) \/ Crash(v)
    BY <1>2
  <2>2. CASE v # w
    BY <2>1, <2>2, OthersStay
  <2>3. CASE v = w
    <3>1. CASE \/ DispatchRejected(w) \/ AnswerRejected(w) \/ CompletionRejected(w) \/ Crash(w)
      <4>1. Exit(w)
        BY <3>1 DEF DispatchRejected, AnswerRejected, CompletionRejected, Crash
      <4>2. pc' = [pc EXCEPT ![w] = "down"]
        BY <4>1 DEF Exit, Goto
      <4> QED
        BY <4>2 DEF Delivering, Calling, Completing, TypeInv, TypeOK
    <3>2. CASE \/ Start(w) \/ DeliveryBatchDone(w) \/ ReconciliationBatchDone(w)
               \/ ClaimDueReconciliations(w) \/ CompleteClaimedReconciliation(w)
      <4>1. CASE Start(w) \/ DeliveryBatchDone(w) \/ ReconciliationBatchDone(w)
        BY <4>1 DEF Start, DeliveryBatchDone, ReconciliationBatchDone, Goto, Delivering, Calling,
                    Completing, TypeInv, TypeOK
      <4>2. CASE ClaimDueReconciliations(w) \/ CompleteClaimedReconciliation(w)
        <5>1. CASE ClaimDueReconciliations(w)
          BY <5>1, ClaimDueReconciliationsWorker DEF Delivering, Calling, Completing, TypeInv, TypeOK
        <5>2. CASE CompleteClaimedReconciliation(w)
          BY <5>2 DEF CompleteClaimedReconciliation, Goto, Delivering, Calling, Completing,
                      TypeInv, TypeOK
        <5> QED
          BY <4>2, <5>1, <5>2
      <4> QED
        BY <3>2, <4>1, <4>2
    <3> QED
      BY <2>1, <2>3, <3>1, <3>2 DEF Work, Moves
  <2> QED
    BY <2>2, <2>3
<1>3. CASE TimePasses
  BY <1>3 DEF TimePasses, RequestDeadlinePasses, OutboxLeaseExpires, BackoffElapses,
              CheckpointLeaseExpires, NextCheckDue, workerVars, StaysAt
<1>4. CASE \E m \in Messages, n \in Budget : ProviderActs(m, n) \/ RecordReconciliation(m, n)
  BY <1>4 DEF ProviderActs, RecordReconciliation, workerVars, StaysAt
<1>5. CASE ToggleKillSwitch
  BY <1>5 DEF ToggleKillSwitch, workerVars, StaysAt
<1> QED
  BY <1>1, <1>2, <1>3, <1>4, <1>5 DEF Next

\* The provider hears a call, acts on one it has heard, or does nothing.
LEMMA RequestStep ==
    ASSUME TypeInv, [Next]_vars
    PROVE  \/ request' = request
           \/ \E v \in Workers : Execute(v)
           \/ \E m \in Messages, n \in Budget : ProviderActs(m, n)
<1>1. CASE \E v \in Workers : Work(v) \/ Crash(v)
  <2>1. PICK v \in Workers : Work(v) \/ Crash(v)
    BY <1>1
  <2>2. CASE Start(v) \/ RefuseBeforeDispatch(v) \/ RecordDispatchStarted(v)
    BY <2>2 DEF Start, RefuseBeforeDispatch, RecordDispatchStarted
  <2>3. CASE DispatchRejected(v) \/ AnswerRejected(v) \/ CompletionRejected(v) \/ Crash(v)
    BY <2>3 DEF DispatchRejected, AnswerRejected, CompletionRejected, Crash, Exit
  <2>4. CASE DeliveryBatchDone(v) \/ AdapterAnswers(v) \/ RecordAnswer(v)
             \/ ReconciliationBatchDone(v)
    BY <2>4 DEF DeliveryBatchDone, AdapterAnswers, RecordAnswer, ReconciliationBatchDone
  <2>5. CASE ClaimDueOutbox(v)
    BY <2>5, ClaimDueOutboxWorker
  <2>6. CASE ClaimDueReconciliations(v)
    BY <2>6, ClaimDueReconciliationsWorker
  <2>7. CASE AdapterObserves(v) \/ SkipObservation(v) \/ CompletionThrows(v)
    BY <2>7 DEF AdapterObserves, SkipObservation, StartReconciliation, CompletionThrows
  <2>8. CASE CompleteClaimedReconciliation(v)
    BY <2>8 DEF CompleteClaimedReconciliation
  <2> QED
    BY <2>1, <2>2, <2>3, <2>4, <2>5, <2>6, <2>7, <2>8 DEF Work
<1> QED
  BY <1>1 DEF Next, TimePasses, RequestDeadlinePasses, OutboxLeaseExpires,
     BackoffElapses, CheckpointLeaseExpires, NextCheckDue, ToggleKillSwitch,
     RecordReconciliation, vars

\* One request in one step: it is unchanged, or the one process whose call has
\* come to it sends it, or the provider acts on it.
LEMMA OneRequestStep ==
    ASSUME TypeInv, CallsAreTrue, [Next]_vars, NEW m \in Messages, NEW n \in Budget
    PROVE  \/ request'[m][n] = request[m][n]
           \/ /\ request[m][n] = "none"
              /\ \E v \in Workers : Execute(v) /\ pc[v] = "call" /\ job[v] = <<m, n>>
           \/ request[m][n] = "sent" /\ request'[m][n] \in {"applied", "refused"}
<1>1. CASE \E v \in Workers : Execute(v)
  <2>1. PICK v \in Workers : Execute(v)
    BY <1>1
  <2>2. PICK p \in Messages, k \in Budget :
          job[v] = <<p, k>> /\ request' = [request EXCEPT ![p][k] = "sent"]
    BY <2>1 DEF Execute
  <2>3. pc[v] = "call" /\ request[p][k] = "none"
    BY <2>1, <2>2 DEF Execute, CallsAreTrue
  <2>4. CASE p = m /\ k = n
    BY <2>1, <2>2, <2>3, <2>4
  <2>5. CASE ~(p = m /\ k = n)
    BY <2>2, <2>5 DEF TypeInv, TypeOK
  <2> QED
    BY <2>4, <2>5
<1>2. CASE \E p \in Messages, k \in Budget : ProviderActs(p, k)
  <2>1. PICK p \in Messages, k \in Budget : ProviderActs(p, k)
    BY <1>2
  <2>2. PICK r \in {"applied", "refused"} : request' = [request EXCEPT ![p][k] = r]
    BY <2>1 DEF ProviderActs
  <2>3. request[p][k] = "sent"
    BY <2>1 DEF ProviderActs
  <2>4. CASE p = m /\ k = n
    BY <2>2, <2>3, <2>4 DEF TypeInv, TypeOK
  <2>5. CASE ~(p = m /\ k = n)
    BY <2>2, <2>5 DEF TypeInv, TypeOK
  <2> QED
    BY <2>4, <2>5
<1> QED
  BY <1>1, <1>2, RequestStep

\* What the provider has done is done.
LEMMA AppliedStays ==
    ASSUME TypeInv, CallsAreTrue, [Next]_vars, NEW m \in Messages, Applied(m)
    PROVE  Applied(m)'
<1>1. PICK n \in Budget : request[m][n] = "applied"
  BY DEF Applied
<1>2. request'[m][n] = "applied"
  BY <1>1, OneRequestStep
<1> QED
  BY <1>2 DEF Applied

\* Only the two reconciliation methods write a receipt.
LEMMA ReceiptStep ==
    ASSUME [Next]_vars
    PROVE  \/ receipt' = receipt
           \/ \E w \in Workers : CompleteClaimedReconciliation(w)
           \/ \E m \in Messages, n \in Budget : RecordReconciliation(m, n)
<1>1. CASE \E v \in Workers : Unwritten(v)
  BY <1>1, UnwrittenStore DEF storeVars
<1>2. CASE \E v \in Workers : ClaimDueOutbox(v)
  BY <1>2, ClaimDueOutboxWorker
<1>3. CASE \E v \in Workers : RefuseBeforeDispatch(v)
  BY <1>3 DEF RefuseBeforeDispatch, RecordOutboxFailure
<1>4. CASE \E v \in Workers : RecordDispatchStarted(v)
  BY <1>4 DEF RecordDispatchStarted
<1>5. CASE \E v \in Workers : RecordAnswer(v)
  BY <1>5 DEF RecordAnswer, RecordProviderAcknowledgement, RecordOutboxFailure
<1>6. CASE \E v \in Workers : ClaimDueReconciliations(v)
  BY <1>6, ClaimDueReconciliationsWorker
<1>7. CASE TimePasses
  BY <1>7 DEF TimePasses, RequestDeadlinePasses, OutboxLeaseExpires, BackoffElapses,
              CheckpointLeaseExpires, NextCheckDue
<1>8. CASE ToggleKillSwitch \/ \E m \in Messages, n \in Budget : ProviderActs(m, n)
  BY <1>8 DEF ToggleKillSwitch, ProviderActs, storeVars
<1>9. CASE UNCHANGED vars
  BY <1>9 DEF vars
<1> QED
  BY <1>1, <1>2, <1>3, <1>4, <1>5, <1>6, <1>7, <1>8, <1>9, NextCases

LEMMA CallInvInit == Init => CallInv
BY DEF Init, CallInv, OneCaller, CallsAreTrue, ConfirmedIsApplied, Calling, Completing,
       NewOutboxRow

\* A process enters a call only by starting an attempt nobody had started.
LEMMA OneCallerStep ==
    ASSUME TypeInv, CallsAreRecorded, OneCaller, [Next]_vars
    PROVE  OneCaller'
<1>1. ASSUME NEW w \in Workers, pc'[w] \in Calling
      PROVE  \/ pc[w] \in Calling /\ job'[w] = job[w]
             \/ RecordDispatchStarted(w)
  <2>1. StaysAt(w) \/ Moves(w)
    BY <1>1, WorkerStep DEF Delivering
  <2>2. CASE StaysAt(w)
    BY <1>1, <2>2 DEF StaysAt
  <2>3. CASE ClaimDueOutbox(w)
    BY <1>1, <2>3, ClaimDueOutboxWorker DEF Calling, TypeInv, TypeOK
  <2>4. CASE RefuseBeforeDispatch(w)
    BY <1>1, <2>4 DEF RefuseBeforeDispatch
  <2>5. CASE Execute(w) \/ AdapterAnswers(w)
    BY <2>5 DEF Execute, AdapterAnswers, Calling
  <2>6. CASE RecordAnswer(w)
    <3>1. pc' = [pc EXCEPT ![w] = "deliver"]
      BY <2>6 DEF RecordAnswer, Goto
    <3> QED
      BY <1>1, <3>1 DEF Calling, TypeInv, TypeOK
  <2>7. CASE AdapterObserves(w) \/ SkipObservation(w) \/ CompletionThrows(w)
    <3>1. pc'[w] \in Completing
      BY <2>7 DEF AdapterObserves, SkipObservation, StartReconciliation, CompletionThrows, Goto,
                  Completing, TypeInv, TypeOK
    <3> QED
      BY <1>1, <3>1 DEF Calling, Completing
  <2> QED
    BY <2>1, <2>2, <2>3, <2>4, <2>5, <2>6, <2>7 DEF Moves
<1>2. ASSUME NEW v \in Workers, RecordDispatchStarted(v), NEW w \in Workers,
             pc[w] \in Calling, job'[w] = job[w], NEW r \in Row, job'[v] = r, job'[w] = r
      PROVE  FALSE
  <2>1. PICK m \in Messages, n \in Budget :
          attempt[m][n] = "NONE" /\ job' = [job EXCEPT ![v] = <<m, n>>]
    BY <1>2 DEF RecordDispatchStarted
  <2>2. job[w] = <<m, n>>
    BY <1>2, <2>1 DEF TypeInv, TypeOK
  <2> QED
    BY <1>2, <2>1, <2>2 DEF CallsAreRecorded, Calling
<1>3. ASSUME NEW v \in Workers, RecordDispatchStarted(v), NEW w \in Workers,
             RecordDispatchStarted(w)
      PROVE  v = w
  BY <1>3 DEF RecordDispatchStarted, Goto, TypeInv, TypeOK
<1> SUFFICES ASSUME NEW v \in Workers, NEW w \in Workers, NEW r \in Row,
                    pc'[v] \in Calling, pc'[w] \in Calling, job'[v] = r, job'[w] = r
             PROVE  v = w
  BY DEF OneCaller, Calling
<1>4. CASE RecordDispatchStarted(v)
  BY <1>1, <1>2, <1>3, <1>4
<1>5. CASE RecordDispatchStarted(w)
  BY <1>1, <1>2, <1>3, <1>5
<1>6. CASE pc[v] \in Calling /\ job'[v] = job[v] /\ pc[w] \in Calling /\ job'[w] = job[w]
  BY <1>6 DEF OneCaller
<1> QED
  BY <1>1, <1>4, <1>5, <1>6

\* While a process is on its way to a call, no other one makes it.
LEMMA CallIsMadeOnce ==
    ASSUME TypeInv, OneCaller, CallsAreTrue, [Next]_vars, NEW w \in Workers,
           NEW m \in Messages, NEW n \in Budget,
           pc[w] = "call", pc'[w] = "call", job[w] = <<m, n>>
    PROVE  request'[m][n] = "none"
<1>1. request[m][n] = "none"
  BY DEF CallsAreTrue
<1>2. ASSUME NEW v \in Workers, Execute(v), pc[v] = "call", job[v] = <<m, n>>
      PROVE  FALSE
  <2>1. v = w
    BY <1>2 DEF OneCaller, Calling, Row
  <2> QED
    BY <1>2, <2>1 DEF Execute, Goto, TypeInv, TypeOK
<1> QED
  BY <1>1, <1>2, OneRequestStep

LEMMA CallsAreTrueStep ==
    ASSUME TypeInv, CallsAreRecorded, OneCaller, CallsAreTrue, [Next]_vars
    PROVE  CallsAreTrue'
<1> SUFFICES ASSUME NEW w \in Workers, NEW m \in Messages, NEW n \in Budget, job'[w] = <<m, n>>
             PROVE  /\ pc'[w] = "call" => request'[m][n] = "none"
                    /\ pc'[w] \in {"await", "record"} => request'[m][n] # "none"
                    /\ pc'[w] = "record" /\ answer'[w] \in Definite => request'[m][n] = "refused"
                    /\ pc'[w] \in Completing /\ answer'[w] = "MATCHED" => Applied(m)'
  BY DEF CallsAreTrue, Definite, Completing, FailureClasses
<1>1. CASE StaysAt(w)
  <2>1. job[w] = <<m, n>> /\ pc'[w] = pc[w] /\ answer'[w] = answer[w]
    BY <1>1 DEF StaysAt
  <2>2. pc'[w] = "call" => request'[m][n] = "none"
    BY <2>1, CallIsMadeOnce
  <2>3. /\ request[m][n] \in {"applied", "refused"} => request'[m][n] = request[m][n]
        /\ request[m][n] # "none" => request'[m][n] # "none"
    BY OneRequestStep
  <2> QED
    BY <2>1, <2>2, <2>3, AppliedStays DEF CallsAreTrue
<1>2. CASE pc'[w] \notin Delivering \cup Completing
  BY <1>2 DEF Delivering, Calling, Completing
<1>3. CASE ClaimDueOutbox(w) \/ RefuseBeforeDispatch(w) \/ RecordAnswer(w)
  <2>1. pc'[w] = "deliver"
    BY <1>3, ClaimDueOutboxWorker DEF RefuseBeforeDispatch, RecordAnswer, Goto, TypeInv, TypeOK
  <2> QED
    BY <2>1 DEF Completing
<1>4. CASE RecordDispatchStarted(w)
  <2>1. pc'[w] = "call" /\ request' = request
    BY <1>4 DEF RecordDispatchStarted, Goto, TypeInv, TypeOK
  <2>2. PICK p \in Messages, k \in Budget :
          attempt[p][k] = "NONE" /\ job' = [job EXCEPT ![w] = <<p, k>>]
    BY <1>4 DEF RecordDispatchStarted
  <2>3. p = m /\ k = n
    BY <2>2 DEF TypeInv, TypeOK
  <2> QED
    BY <2>1, <2>2, <2>3 DEF CallsAreRecorded, Completing
<1>5. CASE Execute(w)
  <2>1. pc'[w] = "await"
    BY <1>5 DEF Execute, Goto, TypeInv, TypeOK
  <2>2. PICK p \in Messages, k \in Budget :
          job[w] = <<p, k>> /\ request' = [request EXCEPT ![p][k] = "sent"]
    BY <1>5 DEF Execute
  <2>3. p = m /\ k = n
    BY <1>5, <2>2 DEF Execute
  <2>4. request'[m][n] = "sent"
    BY <2>2, <2>3 DEF TypeInv, TypeOK
  <2> QED
    BY <2>1, <2>4 DEF Completing
<1>6. CASE AdapterAnswers(w)
  <2>1. pc'[w] = "record" /\ request' = request /\ job' = job
    BY <1>6 DEF AdapterAnswers, Goto, TypeInv, TypeOK
  <2>2. PICK p \in Messages, k \in Budget, a \in Classes \cup {"ACKNOWLEDGED", "AMBIGUOUS_AFTER_ACK"} :
          job[w] = <<p, k>> /\ MayAnswer(request[p][k], a) /\ answer' = [answer EXCEPT ![w] = a]
    BY <1>6 DEF AdapterAnswers
  <2>3. p = m /\ k = n /\ answer'[w] = a
    BY <2>1, <2>2 DEF TypeInv, TypeOK
  <2>4. a \in Definite => request[m][n] = "refused"
    BY <2>2, <2>3, DeliveryAssumption DEF MayAnswer, Definite, FailureClasses
  <2>5. request[m][n] # "none"
    BY <1>6, <2>1 DEF AdapterAnswers, CallsAreTrue
  <2> QED
    BY <2>1, <2>3, <2>4, <2>5 DEF Completing
<1>7. CASE AdapterObserves(w)
  <2>1. pc'[w] = "complete" /\ request' = request
    BY <1>7 DEF AdapterObserves, StartReconciliation, Goto, TypeInv, TypeOK
  <2>2. PICK p \in Messages, k \in Budget, r \in Observations :
          MayObserve(p, r) /\ StartReconciliation(w, p, k, r, "complete")
    BY <1>7 DEF AdapterObserves
  <2>3. p = m /\ answer'[w] = r
    BY <2>2 DEF StartReconciliation, TypeInv, TypeOK
  <2> QED
    BY <2>1, <2>2, <2>3 DEF MayObserve, Applied
<1>8. CASE SkipObservation(w) \/ CompletionThrows(w)
  <2>1. pc'[w] = "complete_again" /\ answer'[w] \in {"VERSION_MISMATCH", "SOURCE_UNAVAILABLE"}
    BY <1>8 DEF SkipObservation, StartReconciliation, CompletionThrows, Goto, TypeInv, TypeOK
  <2> QED
    BY <2>1
<1> QED
  BY <1>1, <1>2, <1>3, <1>4, <1>5, <1>6, <1>7, <1>8, WorkerStep DEF Moves

\* A receipt is confirmed only on an observation that was true.
LEMMA ConfirmedIsAppliedStep ==
    ASSUME TypeInv, ReceiptAgrees, CallsAreTrue, ConfirmedIsApplied, [Next]_vars, ReceiptAgrees'
    PROVE  ConfirmedIsApplied'
<1> SUFFICES ASSUME NEW m \in Messages, outbox'[m].state = "SOURCE_CONFIRMED"
             PROVE  Applied(m)'
  BY DEF ConfirmedIsApplied
<1>1. receipt'[m] = "SOURCE_CONFIRMED"
  BY DEF ReceiptAgrees
<1>2. CASE receipt[m] = "SOURCE_CONFIRMED"
  BY <1>2, AppliedStays DEF ReceiptAgrees, ConfirmedIsApplied
<1>3. CASE receipt[m] # "SOURCE_CONFIRMED"
  <2>1. CASE \E w \in Workers : CompleteClaimedReconciliation(w)
    <3>1. PICK w \in Workers : CompleteClaimedReconciliation(w)
      BY <2>1
    <3>2. PICK p \in Messages, n \in Budget :
            /\ job[w] = <<p, n>>
            /\ receipt' = IF answer[w] = "MATCHED"
                          THEN [receipt EXCEPT ![p] = "SOURCE_CONFIRMED"] ELSE receipt
      BY <3>1 DEF CompleteClaimedReconciliation
    <3>3. p = m /\ answer[w] = "MATCHED"
      BY <1>1, <1>3, <3>2 DEF TypeInv, TypeOK
    <3>4. pc[w] \in Completing
      BY <3>1 DEF CompleteClaimedReconciliation, Completing
    <3> QED
      BY <3>2, <3>3, <3>4, AppliedStays DEF CallsAreTrue
  <2>2. CASE \E p \in Messages, n \in Budget : RecordReconciliation(p, n)
    <3>1. PICK p \in Messages, n \in Budget : RecordReconciliation(p, n)
      BY <2>2
    <3>2. PICK r \in Observations :
            /\ MayObserve(p, r)
            /\ receipt' = IF r = "MATCHED"
                          THEN [receipt EXCEPT ![p] = "SOURCE_CONFIRMED"] ELSE receipt
      BY <3>1 DEF RecordReconciliation
    <3>3. p = m /\ r = "MATCHED"
      BY <1>1, <1>3, <3>2 DEF TypeInv, TypeOK
    <3> QED
      BY <3>2, <3>3, AppliedStays DEF MayObserve, Applied
  <2>3. CASE receipt' = receipt
    BY <1>1, <1>3, <2>3
  <2> QED
    BY <2>1, <2>2, <2>3, ReceiptStep
<1> QED
  BY <1>2, <1>3

LEMMA CallInvStep ==
    ASSUME IInv, CallInv, [Next]_vars, IInv'
    PROVE  CallInv'
BY OneCallerStep, CallsAreTrueStep, ConfirmedIsAppliedStep DEF IInv, StoreInv, CallInv

-------------------------------------------------------------------------------
(***************************************************************************)
(* Ownership in one step.                                                  *)
(***************************************************************************)
RowStands(m) ==
    /\ outbox'[m].state = outbox[m].state
    /\ outbox'[m].attempts = outbox[m].attempts
    /\ outbox'[m].owner = outbox[m].owner

AttemptsStand(m) == \A n \in Budget : attempt'[m][n] = attempt[m][n]

\* The step takes nothing from w that it still owns afterwards.
Undisturbed(w, m) ==
    /\ Holds(w, m)' => /\ Holds(w, m) /\ AttemptsStand(m)
                       /\ outbox'[m].attempts = outbox[m].attempts
    /\ pc[w] \in Calling /\ pc'[w] \in Calling =>
          \A n \in Budget : job[w] = <<m, n>> /\ attempt[m][n] \in InFlight =>
                               attempt'[m][n] \in InFlight

\* What w knows of a message it keeps, when nothing it owns is disturbed.
LEMMA BatchStaysFit ==
    ASSUME NEW w \in Workers, NEW m \in Messages, BatchFits(w, m), Undisturbed(w, m),
           pc'[w] \in Delivering => pc[w] \in Delivering /\ batch'[w] \subseteq batch[w]
    PROVE  BatchFits(w, m)'
<1> SUFFICES ASSUME pc'[w] \in Delivering, NEW k \in Budget, <<m, k>> \in batch'[w]
             PROVE  /\ \A l \in Budget : <<m, l>> \in batch'[w] => l = k
                    /\ Holds(w, m)' => outbox'[m].attempts = k /\ attempt'[m][k] = "NONE"
  BY DEF BatchFits, Delivering, Calling
<1>1. pc[w] \in Delivering /\ batch'[w] \subseteq batch[w]
  OBVIOUS
<1>2. \A l \in Budget : <<m, l>> \in batch'[w] => l = k
  BY <1>1 DEF BatchFits
<1>3. Holds(w, m) => outbox[m].attempts = k /\ attempt[m][k] = "NONE"
  BY <1>1 DEF BatchFits
<1>4. Holds(w, m)' => outbox'[m].attempts = k /\ attempt'[m][k] = "NONE"
  BY <1>3 DEF Undisturbed, AttemptsStand
<1> QED
  BY <1>2, <1>4

LEMMA JobStaysFit ==
    ASSUME NEW w \in Workers, NEW m \in Messages, JobFits(w, m), Undisturbed(w, m),
           pc'[w] \in Calling => /\ pc[w] \in Calling /\ job'[w] = job[w]
                                 /\ batch'[w] \subseteq batch[w]
    PROVE  JobFits(w, m)'
<1> SUFFICES ASSUME pc'[w] \in Calling, NEW n \in Budget, job'[w] = <<m, n>>
             PROVE  /\ attempt'[m][n] \in InFlight
                    /\ Holds(w, m)' => outbox'[m].attempts = n
                    /\ \A k \in Budget : <<m, k>> \notin batch'[w]
  BY DEF JobFits, Calling, InFlight
<1>1. pc[w] \in Calling /\ job[w] = <<m, n>> /\ batch'[w] \subseteq batch[w]
  OBVIOUS
<1>2. /\ attempt[m][n] \in InFlight
      /\ Holds(w, m) => outbox[m].attempts = n
      /\ \A k \in Budget : <<m, k>> \notin batch[w]
  BY <1>1 DEF JobFits
<1>3. attempt'[m][n] \in InFlight
  BY <1>1, <1>2 DEF Undisturbed
<1>4. Holds(w, m)' => outbox'[m].attempts = n
  BY <1>2 DEF Undisturbed
<1> QED
  BY <1>1, <1>2, <1>3, <1>4

\* Nobody else owns what v owns.
LEMMA OneOwner ==
    ASSUME UniqueWorkerIds, NEW v \in Workers, NEW w \in Workers, NEW m \in Messages,
           Holds(v, m), Holds(w, m)
    PROVE  v = w
BY DEF UniqueWorkerIds, Holds

(***************************************************************************)
(* The four steps that claim a row or write an attempt of their own.       *)
(***************************************************************************)
ClaimLeaves(v, m) ==
    /\ RowStands(m) \/ outbox'[m].state # "CLAIMED" \/ outbox'[m].owner = workerId[v]
    /\ \A n \in Budget :
          \/ attempt'[m][n] = attempt[m][n]
          \/ /\ attempt[m][n] = "STARTED" /\ attempt'[m][n] = "RECONCILIATION_REQUIRED"
             /\ outbox'[m].state # "CLAIMED"
    /\ \A k \in Budget : <<m, k>> \in batch'[v] =>
          /\ k = outbox[m].attempts + 1
          /\ outbox'[m].attempts = k /\ AttemptsStand(m)

LEMMA ClaimDueOutboxRow ==
    ASSUME TypeInv, NEW v \in Workers, ClaimDueOutbox(v)
    PROVE  \A m \in Messages : ClaimLeaves(v, m)
<1>1. PICK S \in Take({m \in Messages : Claimable(m)}) :
        /\ outbox' = [m \in Messages |->
              IF m \in S
              THEN [Swept(m) EXCEPT !.state = "CLAIMED", !.attempts = @ + 1,
                                    !.owner = workerId[v], !.lease = "live"]
              ELSE Swept(m)]
        /\ batch' = [batch EXCEPT ![v] = {<<m, outbox[m].attempts + 1>> : m \in S}]
  BY DEF ClaimDueOutbox
<1>2. S \subseteq {m \in Messages : Claimable(m)}
  BY <1>1, TakeSubset
<1>3. attempt' = [m \in Messages |-> [n \in Budget |->
            IF Abandoned(m) /\ n = outbox[m].attempts
            THEN "RECONCILIATION_REQUIRED" ELSE attempt[m][n]]]
  BY DEF ClaimDueOutbox
<1>4. batch'[v] = {<<m, outbox[m].attempts + 1>> : m \in S}
  BY <1>1 DEF TypeInv, TypeOK
<1> TAKE m \in Messages
<1>5. outbox[m] \in OutboxRow /\ Swept(m) \in OutboxRow
  BY SweptType DEF TypeInv, TypeOK
<1>6. /\ Swept(m).attempts = outbox[m].attempts
      /\ Swept(m).state = IF Abandoned(m) THEN "RECONCILIATION_REQUIRED"
                          ELSE IF Expired(m)
                          THEN IF Exhausted(m) THEN "DEAD_LETTERED" ELSE "RETRY_SCHEDULED"
                          ELSE outbox[m].state
      /\ ~Expired(m) => Swept(m) = outbox[m]
  BY <1>5 DEF Swept, Released, OutboxRow, Abandoned
<1>7. ~Abandoned(m) => AttemptsStand(m)
  BY <1>3 DEF AttemptsStand
<1>8. m \notin S => outbox'[m] = Swept(m)
  BY <1>1
<1>9. CASE m \in S
  <2>1. Swept(m).state \in {"PENDING", "RETRY_SCHEDULED"}
    BY <1>2, <1>9 DEF Claimable
  <2>2. ~Abandoned(m)
    BY <1>6, <2>1
  <2>3. outbox'[m].owner = workerId[v] /\ outbox'[m].attempts = outbox[m].attempts + 1
    BY <1>1, <1>5, <1>6, <1>9 DEF OutboxRow
  <2>4. \A k \in Budget : <<m, k>> \in batch'[v] => k = outbox[m].attempts + 1
    BY <1>4
  <2> QED
    BY <1>7, <2>2, <2>3, <2>4 DEF ClaimLeaves, AttemptsStand
<1>10. CASE m \notin S
  <2>1. \A k \in Budget : <<m, k>> \notin batch'[v]
    BY <1>4, <1>10
  <2>2. CASE Abandoned(m)
    <3>1. outbox'[m].state = "RECONCILIATION_REQUIRED"
      BY <1>6, <1>8, <1>10, <2>2
    <3> QED
      BY <1>3, <2>1, <2>2, <3>1 DEF ClaimLeaves, Abandoned
  <2>3. CASE Expired(m) /\ ~Abandoned(m)
    <3>1. outbox'[m].state # "CLAIMED"
      BY <1>6, <1>8, <1>10, <2>3
    <3> QED
      BY <1>7, <2>1, <2>3, <3>1 DEF ClaimLeaves, AttemptsStand
  <2>4. CASE ~Expired(m)
    <3>1. ~Abandoned(m)
      BY <2>4 DEF Abandoned
    <3>2. RowStands(m)
      BY <1>6, <1>8, <1>10, <2>4 DEF RowStands
    <3> QED
      BY <1>7, <2>1, <3>1, <3>2 DEF ClaimLeaves, AttemptsStand
  <2> QED
    BY <2>2, <2>3, <2>4
<1> QED
  BY <1>9, <1>10

\* The writer v records result x for attempt n of the row m it owns, and lets
\* the row go.
Concludes(v, m, n, x) ==
    /\ Holds(v, m) /\ n = outbox[m].attempts
    /\ attempt' = [attempt EXCEPT ![m][n] = x]
    /\ outbox'[m].state # "CLAIMED"
    /\ \A p \in Messages \ {m} : outbox'[p] = outbox[p]
    /\ request' = request

LEMMA FailureConcludes ==
    ASSUME TypeInv, NEW v \in Workers, NEW m \in Messages, NEW class \in FailureClasses,
           Owned(v, m), RecordOutboxFailure(m, class), request' = request
    PROVE  \E x \in {"RETRY_SCHEDULED", "RECONCILIATION_REQUIRED", "FAILED"} :
              /\ Concludes(v, m, outbox[m].attempts, x)
              /\ x # "RECONCILIATION_REQUIRED" => class \in Definite
<1> DEFINE n == outbox[m].attempts
           d == Decide(class, n, maxAttempts[m])
           x == CASE d = "RETRY" -> "RETRY_SCHEDULED"
                  [] d = "RECONCILE" -> "RECONCILIATION_REQUIRED"
                  [] d = "DEAD_LETTER" -> "FAILED"
<1>1. d \in {"RETRY", "RECONCILE", "DEAD_LETTER"}
  BY DecideRange
<1>2. d # "RECONCILE" => class \in Definite
  BY DEF Decide, Definite, FailureClasses
<1>3. /\ attempt' = [attempt EXCEPT ![m][n] = x]
      /\ outbox' = [outbox EXCEPT ![m] =
          CASE d = "RETRY" -> Released(@, "RETRY_SCHEDULED", FALSE)
            [] d = "RECONCILE" -> Released(@, "RECONCILIATION_REQUIRED", @.due)
            [] d = "DEAD_LETTER" -> Released(@, "DEAD_LETTERED", @.due)]
  BY DEF RecordOutboxFailure
<1> HIDE DEF d
<1>4. /\ x \in {"RETRY_SCHEDULED", "RECONCILIATION_REQUIRED", "FAILED"}
      /\ x # "RECONCILIATION_REQUIRED" => class \in Definite
  BY <1>1, <1>2
<1>5. outbox'[m].state # "CLAIMED" /\ \A p \in Messages \ {m} : outbox'[p] = outbox[p]
  <2>1. outbox \in [Messages -> OutboxRow] /\ outbox[m] \in OutboxRow
    BY DEF TypeInv, TypeOK
  <2> QED
    BY <1>1, <1>3, <2>1 DEF Released, OutboxRow
<1> HIDE DEF x
<1>6. Concludes(v, m, n, x)
  BY <1>3, <1>5 DEF Concludes, Holds, Owned
<1> QED
  BY <1>4, <1>6

LEMMA RefuseBeforeDispatchRow ==
    ASSUME IInv, OwnerInv, NEW v \in Workers, RefuseBeforeDispatch(v)
    PROVE  \E m \in Messages, n \in Budget,
              x \in {"RETRY_SCHEDULED", "RECONCILIATION_REQUIRED", "FAILED"} :
              Concludes(v, m, n, x) /\ attempt[m][n] = "NONE"
<1>1. PICK j \in batch[v], m \in Messages,
           class \in Classes \cap {"CONTRACT_VIOLATION", "PERMANENT", "POLICY_BLOCKED"} :
        m = j[1] /\ Owned(v, m) /\ RecordOutboxFailure(m, class)
  BY DEF RefuseBeforeDispatch
<1>2. PICK k \in Budget : j = <<m, k>>
  BY <1>1 DEF IInv, TypeInv, TypeOK, Row
<1>3. pc[v] \in Delivering /\ request' = request
  BY DEF RefuseBeforeDispatch, Delivering
<1>4. outbox[m].attempts = k /\ attempt[m][k] = "NONE"
  BY <1>1, <1>2, <1>3 DEF OwnerInv, OwnersWorkOnTheirClaims, BatchFits, Holds, Owned
<1>5. class \in FailureClasses
  BY DeliveryAssumption
<1>6. PICK x \in {"RETRY_SCHEDULED", "RECONCILIATION_REQUIRED", "FAILED"} :
        Concludes(v, m, outbox[m].attempts, x)
  BY <1>1, <1>3, <1>5, FailureConcludes DEF IInv
<1> QED
  BY <1>4, <1>6

LEMMA RecordAnswerRow ==
    ASSUME IInv, OwnerInv, NEW v \in Workers, RecordAnswer(v)
    PROVE  \E m \in Messages, n \in Budget,
              x \in {"SUCCEEDED", "RETRY_SCHEDULED", "RECONCILIATION_REQUIRED", "FAILED"} :
              /\ Concludes(v, m, n, x) /\ job[v] = <<m, n>>
              /\ x \in {"RETRY_SCHEDULED", "FAILED"} => answer[v] \in Definite
              /\ x = "SUCCEEDED" => answer[v] = "ACKNOWLEDGED"
<1>1. PICK m \in Messages, n \in Budget :
        /\ job[v] = <<m, n>>
        /\ Owned(v, m)
        /\ \/ answer[v] = "ACKNOWLEDGED" /\ RecordProviderAcknowledgement(m)
           \/ answer[v] \in FailureClasses /\ RecordOutboxFailure(m, answer[v])
  BY DEF RecordAnswer
<1>2. pc[v] \in Calling /\ request' = request
  BY DEF RecordAnswer, Calling
<1>3. outbox[m].attempts = n
  BY <1>1, <1>2 DEF OwnerInv, OwnersWorkOnTheirClaims, JobFits, Holds, Owned
<1>4. CASE answer[v] = "ACKNOWLEDGED" /\ RecordProviderAcknowledgement(m)
  <2>1. outbox \in [Messages -> OutboxRow] /\ outbox[m] \in OutboxRow
    BY DEF IInv, TypeInv, TypeOK
  <2>2. /\ attempt' = [attempt EXCEPT ![m][n] = "SUCCEEDED"]
        /\ outbox' = [outbox EXCEPT ![m] = Released(@, "PROVIDER_ACKNOWLEDGED", @.due)]
    BY <1>3, <1>4 DEF RecordProviderAcknowledgement
  <2>3. outbox'[m].state # "CLAIMED" /\ \A p \in Messages \ {m} : outbox'[p] = outbox[p]
    BY <2>1, <2>2 DEF Released, OutboxRow
  <2>4. Concludes(v, m, n, "SUCCEEDED")
    BY <1>1, <1>2, <1>3, <2>2, <2>3 DEF Concludes, Holds, Owned
  <2> QED
    BY <1>1, <1>4, <2>4
<1>5. CASE answer[v] \in FailureClasses /\ RecordOutboxFailure(m, answer[v])
  <2>1. PICK x \in {"RETRY_SCHEDULED", "RECONCILIATION_REQUIRED", "FAILED"} :
          /\ Concludes(v, m, outbox[m].attempts, x)
          /\ x # "RECONCILIATION_REQUIRED" => answer[v] \in Definite
    BY <1>1, <1>2, <1>5, FailureConcludes DEF IInv
  <2> QED
    BY <1>1, <1>3, <2>1
<1> QED
  BY <1>1, <1>4, <1>5

Starts(v, m, n) ==
    /\ Holds(v, m) /\ n = outbox[m].attempts /\ attempt[m][n] = "NONE"
    /\ attempt' = [attempt EXCEPT ![m][n] = "STARTED"]
    /\ batch' = [batch EXCEPT ![v] = @ \ {<<m, n>>}]
    /\ job' = [job EXCEPT ![v] = <<m, n>>]
    /\ UNCHANGED <<outbox, request>>

LEMMA RecordDispatchStartedRow ==
    ASSUME IInv, OwnerInv, NEW v \in Workers, RecordDispatchStarted(v)
    PROVE  \E m \in Messages, n \in Budget : Starts(v, m, n)
<1>1. PICK j \in batch[v], m \in Messages, n \in Budget :
        /\ m = j[1]
        /\ Owned(v, m)
        /\ n = outbox[m].attempts
        /\ attempt[m][n] = "NONE"
        /\ attempt' = [attempt EXCEPT ![m][n] = "STARTED"]
        /\ batch' = [batch EXCEPT ![v] = @ \ {j}]
        /\ job' = [job EXCEPT ![v] = <<m, n>>]
  BY DEF RecordDispatchStarted
<1>2. PICK k \in Budget : j = <<m, k>>
  BY <1>1 DEF IInv, TypeInv, TypeOK, Row
<1>3. pc[v] \in Delivering
  BY DEF RecordDispatchStarted, Delivering
<1>4. k = n
  BY <1>1, <1>2, <1>3 DEF OwnerInv, OwnersWorkOnTheirClaims, BatchFits, Holds, Owned
<1> QED
  BY <1>1, <1>2, <1>4 DEF Starts, Holds, Owned, RecordDispatchStarted

(***************************************************************************)
(* What the other processes keep.                                          *)
(***************************************************************************)

\* A process whose claim is taken over no longer owns the row.
LEMMA ClaimDisturbsNoOther ==
    ASSUME TypeInv, UniqueWorkerIds, NEW v \in Workers, ClaimDueOutbox(v),
           NEW w \in Workers, w # v, NEW m \in Messages
    PROVE  Undisturbed(w, m)
<1>1. ClaimLeaves(v, m)
  BY ClaimDueOutboxRow
<1>2. workerId[w] # workerId[v]
  BY DEF UniqueWorkerIds
<1>3. ASSUME Holds(w, m)'
      PROVE  Holds(w, m) /\ AttemptsStand(m) /\ outbox'[m].attempts = outbox[m].attempts
  <2>1. outbox'[m].state = "CLAIMED" /\ outbox'[m].owner = workerId[w]
    BY <1>3 DEF Holds
  <2>2. RowStands(m) /\ AttemptsStand(m)
    BY <1>1, <1>2, <2>1 DEF ClaimLeaves, AttemptsStand
  <2> QED
    BY <2>1, <2>2 DEF RowStands, Holds
<1>4. \A n \in Budget : attempt[m][n] \in InFlight => attempt'[m][n] \in InFlight
  BY <1>1 DEF ClaimLeaves, InFlight
<1> QED
  BY <1>3, <1>4 DEF Undisturbed

\* A result is written for a row the writer then gives up, and for an attempt
\* nobody else is calling for.
LEMMA ConclusionDisturbsNobody ==
    ASSUME TypeInv, NEW v \in Workers, NEW p \in Messages, NEW n \in Budget, NEW x,
           Concludes(v, p, n, x), NEW w \in Workers, NEW m \in Messages,
           ~(pc[w] \in Calling /\ pc'[w] \in Calling /\ job[w] = <<p, n>> /\ attempt[p][n] \in InFlight)
    PROVE  Undisturbed(w, m)
<1>1. \A k \in Budget : m # p \/ k # n => attempt'[m][k] = attempt[m][k]
  BY DEF Concludes, TypeInv, TypeOK
<1>2. CASE m = p
  <2>1. ~Holds(w, m)'
    BY <1>2 DEF Concludes, Holds
  <2> QED
    BY <1>1, <1>2, <2>1 DEF Undisturbed
<1>3. CASE m # p
  <2>1. outbox'[m] = outbox[m]
    BY <1>3 DEF Concludes
  <2> QED
    BY <1>1, <1>3, <2>1 DEF Undisturbed, AttemptsStand, Holds
<1> QED
  BY <1>2, <1>3

LEMMA StartDisturbsNoOther ==
    ASSUME TypeInv, UniqueWorkerIds, NEW v \in Workers, NEW p \in Messages, NEW n \in Budget,
           Starts(v, p, n), NEW w \in Workers, NEW m \in Messages, w # v \/ m # p
    PROVE  Undisturbed(w, m)
<1>1. /\ \A k \in Budget : m # p \/ k # n => attempt'[m][k] = attempt[m][k]
      /\ \A k \in Budget : attempt[m][k] \in InFlight => attempt'[m][k] \in InFlight
  BY DEF Starts, TypeInv, TypeOK, InFlight
<1>2. outbox' = outbox
  BY DEF Starts
<1>3. CASE m = p
  <2>1. ~Holds(w, m)
    BY <1>3, OneOwner DEF Starts
  <2> QED
    BY <1>1, <1>2, <2>1 DEF Undisturbed, Holds
<1>4. CASE m # p
  BY <1>1, <1>2, <1>4 DEF Undisturbed, AttemptsStand, Holds
<1> QED
  BY <1>3, <1>4

\* Every other step leaves the attempts alone, and a claimed row with them.
OtherStep ==
    ~\E v \in Workers : \/ ClaimDueOutbox(v) \/ RefuseBeforeDispatch(v)
                        \/ RecordDispatchStarted(v) \/ RecordAnswer(v)

LEMMA OtherStepRows ==
    ASSUME TypeInv, [Next]_vars, OtherStep
    PROVE  /\ attempt' = attempt
           /\ \A m \in Messages : RowStands(m) \/ outbox'[m].state # "CLAIMED"
<1>0. outbox \in [Messages -> OutboxRow]
  BY DEF TypeInv, TypeOK
<1>1. CASE \E v \in Workers : Unwritten(v)
  BY <1>1, UnwrittenStore DEF storeVars, RowStands
<1>2. CASE \E v \in Workers : ClaimDueReconciliations(v)
  BY <1>2, ClaimDueReconciliationsWorker DEF RowStands
<1>3. CASE \E v \in Workers : CompleteClaimedReconciliation(v)
  <2>1. PICK v \in Workers, p \in Messages, s \in Settled \cup {"RETRY_SCHEDULED"}, due \in BOOLEAN :
          \/ outbox' = outbox
          \/ outbox' = [outbox EXCEPT ![p] = [@ EXCEPT !.state = s]]
          \/ outbox' = [outbox EXCEPT ![p] = [@ EXCEPT !.state = s, !.due = due]]
    <3>1. PICK v \in Workers : CompleteClaimedReconciliation(v)
      BY <1>3
    <3>2. PICK p \in Messages, n \in Budget :
            LET pendingAgain == /\ answer[v] \in {"AMBIGUOUS", "SOURCE_UNAVAILABLE"}
                                /\ checkpoint[p][n].tries < ReconAttempts
                absent == ProvedAbsent(answer[v])
            IN
            outbox' = [outbox EXCEPT ![p] =
              CASE pendingAgain -> @
                [] answer[v] = "MATCHED" -> [@ EXCEPT !.state = "SOURCE_CONFIRMED"]
                [] absent /\ Exhausted(p) ->
                      [@ EXCEPT !.state = "DEAD_LETTERED", !.due = TRUE]
                [] absent /\ ~Exhausted(p) ->
                      [@ EXCEPT !.state = "RETRY_SCHEDULED", !.due = TRUE]
                [] OTHER -> [@ EXCEPT !.state = "BLOCKED"]]
      BY <3>1 DEF CompleteClaimedReconciliation
    <3> QED
      BY <1>0, <3>2 DEF Settled, ProvedAbsent
  <2>2. attempt' = attempt
    BY <1>3 DEF CompleteClaimedReconciliation
  <2>3. \A m \in Messages : RowStands(m) \/ outbox'[m].state # "CLAIMED"
    BY <1>0, <2>1 DEF RowStands, Settled, OutboxRow
  <2> QED
    BY <2>2, <2>3
<1>4. CASE \E m \in Messages, n \in Budget : RecordReconciliation(m, n)
  BY <1>0, <1>4 DEF RecordReconciliation, RowStands, OutboxRow
<1>5. CASE TimePasses
  <2>1. CASE \E m \in Messages : \/ RequestDeadlinePasses(m) \/ OutboxLeaseExpires(m)
                                 \/ BackoffElapses(m)
    BY <1>0, <2>1 DEF RequestDeadlinePasses, OutboxLeaseExpires, BackoffElapses, RowStands, OutboxRow
  <2>2. CASE \E m \in Messages, n \in Budget : CheckpointLeaseExpires(m, n) \/ NextCheckDue(m, n)
    BY <2>2 DEF CheckpointLeaseExpires, NextCheckDue, RowStands
  <2> QED
    BY <1>5, <2>1, <2>2 DEF TimePasses
<1>6. CASE ToggleKillSwitch \/ \E m \in Messages, n \in Budget : ProviderActs(m, n)
  BY <1>6 DEF ToggleKillSwitch, ProviderActs, storeVars, RowStands
<1>7. CASE UNCHANGED vars
  BY <1>7 DEF vars, RowStands
<1> QED
  BY <1>1, <1>2, <1>3, <1>4, <1>5, <1>6, <1>7, NextCases DEF OtherStep

LEMMA OtherStepDisturbsNobody ==
    ASSUME TypeInv, [Next]_vars, OtherStep, NEW w \in Workers, NEW m \in Messages
    PROVE  Undisturbed(w, m)
<1>1. attempt' = attempt /\ (RowStands(m) \/ outbox'[m].state # "CLAIMED")
  BY OtherStepRows
<1> QED
  BY <1>1 DEF Undisturbed, RowStands, AttemptsStand, Holds

(***************************************************************************)
(* The invariant of ownership.                                             *)
(***************************************************************************)

\* The claimer's new batch holds rows whose coming attempt is blank.
LEMMA ClaimerFits ==
    ASSUME IInv, NEW w \in Workers, ClaimDueOutbox(w), NEW m \in Messages
    PROVE  BatchFits(w, m)' /\ JobFits(w, m)'
<1>1. pc'[w] = "deliver"
  BY ClaimDueOutboxWorker DEF IInv, TypeInv, TypeOK
<1>2. ClaimLeaves(w, m)
  BY ClaimDueOutboxRow DEF IInv
<1>3. ASSUME NEW k \in Budget, <<m, k>> \in batch'[w]
      PROVE  /\ \A l \in Budget : <<m, l>> \in batch'[w] => l = k
             /\ outbox'[m].attempts = k /\ attempt'[m][k] = "NONE"
  <2>1. /\ k = outbox[m].attempts + 1 /\ outbox'[m].attempts = k
        /\ attempt'[m][k] = attempt[m][k]
        /\ \A l \in Budget : <<m, l>> \in batch'[w] => l = outbox[m].attempts + 1
    BY <1>2, <1>3 DEF ClaimLeaves, AttemptsStand
  <2>2. k > outbox[m].attempts
    BY <2>1, Attempts DEF IInv
  <2>3. attempt[m][k] = "NONE"
    BY <2>2 DEF IInv, StoreInv, ComingAttemptsAreBlank
  <2> QED
    BY <2>1, <2>3
<1>4. BatchFits(w, m)'
  BY <1>3 DEF BatchFits
<1>5. JobFits(w, m)'
  BY <1>1 DEF JobFits, Calling
<1> QED
  BY <1>4, <1>5

\* The process that starts an attempt calls for the current one.
LEMMA StarterFits ==
    ASSUME IInv, OwnerInv, UniqueWorkerIds, NEW w \in Workers, RecordDispatchStarted(w),
           NEW m \in Messages
    PROVE  BatchFits(w, m)' /\ JobFits(w, m)'
<1>1. PICK p \in Messages, n \in Budget : Starts(w, p, n)
  BY RecordDispatchStartedRow
<1>2. pc[w] = "deliver" /\ pc[w] \in Delivering
  BY DEF RecordDispatchStarted, Delivering
<1>3. /\ batch'[w] = batch[w] \ {<<p, n>>} /\ job'[w] = <<p, n>>
      /\ attempt'[p][n] = "STARTED" /\ outbox' = outbox
  BY <1>1 DEF Starts, IInv, TypeInv, TypeOK
<1>4. \A k \in Budget : <<p, k>> \notin batch'[w]
  <2> SUFFICES ASSUME NEW k \in Budget, <<p, k>> \in batch[w] PROVE k = n
    BY <1>3
  <2>1. Holds(w, p) /\ outbox[p].attempts = n
    BY <1>1 DEF Starts
  <2> QED
    BY <1>2, <2>1 DEF OwnerInv, OwnersWorkOnTheirClaims, BatchFits
<1>5. JobFits(w, m)'
  <2> SUFFICES ASSUME NEW k \in Budget, job'[w] = <<m, k>>
               PROVE  /\ attempt'[m][k] \in InFlight
                      /\ Holds(w, m)' => outbox'[m].attempts = k
                      /\ \A l \in Budget : <<m, l>> \notin batch'[w]
    BY DEF JobFits, Calling, InFlight
  <2>1. m = p /\ k = n
    BY <1>3
  <2>2. outbox[p].attempts = n
    BY <1>1 DEF Starts
  <2> QED
    BY <1>3, <1>4, <2>1, <2>2 DEF InFlight
<1>6. BatchFits(w, m)'
  <2>1. CASE m = p
    BY <1>4, <2>1 DEF BatchFits
  <2>2. CASE m # p
    <3>1. Undisturbed(w, m)
      BY <1>1, <2>2, StartDisturbsNoOther DEF IInv
    <3>2. BatchFits(w, m)
      BY DEF OwnerInv, OwnersWorkOnTheirClaims
    <3> QED
      BY <1>2, <1>3, <3>1, <3>2, BatchStaysFit
  <2> QED
    BY <2>1, <2>2
<1> QED
  BY <1>5, <1>6

\* Nothing else a step does disturbs an owner.
LEMMA OwnersAreUndisturbed ==
    ASSUME IInv, OwnerInv, OneCaller, UniqueWorkerIds, [Next]_vars, NEW w \in Workers,
           ~ClaimDueOutbox(w), ~RecordDispatchStarted(w), NEW m \in Messages
    PROVE  Undisturbed(w, m)
<1>1. CASE \E v \in Workers : ClaimDueOutbox(v)
  BY <1>1, ClaimDisturbsNoOther DEF IInv
<1>2. CASE \E v \in Workers : RefuseBeforeDispatch(v)
  <2>1. PICK p \in Messages, n \in Budget, v \in Workers,
             x \in {"RETRY_SCHEDULED", "RECONCILIATION_REQUIRED", "FAILED"} :
          Concludes(v, p, n, x) /\ attempt[p][n] = "NONE"
    BY <1>2, RefuseBeforeDispatchRow
  <2>2. attempt[p][n] \notin InFlight
    BY <2>1 DEF InFlight
  <2> QED
    BY <2>1, <2>2, ConclusionDisturbsNobody DEF IInv
<1>3. CASE \E v \in Workers : RecordDispatchStarted(v)
  <2>1. PICK v \in Workers : RecordDispatchStarted(v)
    BY <1>3
  <2>2. PICK p \in Messages, n \in Budget : Starts(v, p, n)
    BY <2>1, RecordDispatchStartedRow
  <2>3. w # v
    BY <2>1
  <2> QED
    BY <2>2, <2>3, StartDisturbsNoOther DEF IInv
<1>4. CASE \E v \in Workers : RecordAnswer(v)
  <2>1. PICK v \in Workers : RecordAnswer(v)
    BY <1>4
  <2>2. PICK p \in Messages, n \in Budget,
             x \in {"SUCCEEDED", "RETRY_SCHEDULED", "RECONCILIATION_REQUIRED", "FAILED"} :
          Concludes(v, p, n, x) /\ job[v] = <<p, n>>
    BY <2>1, RecordAnswerRow
  <2>3. ~(pc[w] \in Calling /\ pc'[w] \in Calling /\ job[w] = <<p, n>>)
    <3> SUFFICES ASSUME pc[w] \in Calling, pc'[w] \in Calling, job[w] = <<p, n>> PROVE FALSE
      OBVIOUS
    <3>1. pc[v] \in Calling
      BY <2>1 DEF RecordAnswer, Calling
    <3>2. v = w
      <4>1. <<p, n>> \in Row
        BY DEF Row
      <4> QED
        BY <2>2, <3>1, <4>1 DEF OneCaller
    <3>3. pc' = [pc EXCEPT ![v] = "deliver"]
      BY <2>1 DEF RecordAnswer, Goto
    <3> QED
      BY <3>2, <3>3 DEF Calling, IInv, TypeInv, TypeOK
  <2> QED
    BY <2>2, <2>3, ConclusionDisturbsNobody DEF IInv
<1>5. CASE OtherStep
  BY <1>5, OtherStepDisturbsNobody DEF IInv
<1> QED
  BY <1>1, <1>2, <1>3, <1>4, <1>5 DEF OtherStep

LEMMA OwnersStep ==
    ASSUME IInv, OwnerInv, OneCaller, UniqueWorkerIds, [Next]_vars
    PROVE  OwnersWorkOnTheirClaims'
<1> SUFFICES ASSUME NEW w \in Workers, NEW m \in Messages
             PROVE  BatchFits(w, m)' /\ JobFits(w, m)'
  BY DEF OwnersWorkOnTheirClaims
<1>1. CASE ClaimDueOutbox(w)
  BY <1>1, ClaimerFits
<1>2. CASE RecordDispatchStarted(w)
  BY <1>2, StarterFits
<1>3. CASE ~ClaimDueOutbox(w) /\ ~RecordDispatchStarted(w)
  <2>1. Undisturbed(w, m)
    BY <1>3, OwnersAreUndisturbed
  <2>2. BatchFits(w, m) /\ JobFits(w, m)
    BY DEF OwnerInv, OwnersWorkOnTheirClaims
  <2>3. /\ pc'[w] \in Delivering => pc[w] \in Delivering /\ batch'[w] \subseteq batch[w]
        /\ pc'[w] \in Calling => pc[w] \in Calling /\ job'[w] = job[w]
    <3>1. CASE StaysAt(w)
      BY <3>1 DEF StaysAt
    <3>2. CASE pc'[w] \notin Delivering \cup Completing
      BY <3>2 DEF Delivering
    <3>3. CASE RefuseBeforeDispatch(w)
      <4>1. /\ pc' = pc /\ job' = job /\ batch'[w] \subseteq batch[w]
        BY <3>3 DEF RefuseBeforeDispatch, IInv, TypeInv, TypeOK
      <4> QED
        BY <4>1
    <3>4. CASE Execute(w) \/ AdapterAnswers(w)
      BY <3>4 DEF Execute, AdapterAnswers, Delivering, Calling
    <3>5. CASE RecordAnswer(w)
      <4>1. pc[w] = "record" /\ pc' = [pc EXCEPT ![w] = "deliver"] /\ batch' = batch
        BY <3>5 DEF RecordAnswer, Goto
      <4> QED
        BY <4>1 DEF Delivering, Calling, IInv, TypeInv, TypeOK
    <3>6. CASE AdapterObserves(w) \/ SkipObservation(w) \/ CompletionThrows(w)
      <4>1. pc'[w] \in Completing
        BY <3>6 DEF AdapterObserves, SkipObservation, StartReconciliation, CompletionThrows, Goto,
                    Completing, IInv, TypeInv, TypeOK
      <4> QED
        BY <4>1 DEF Delivering, Calling, Completing
    <3> QED
      BY <1>3, <3>1, <3>2, <3>3, <3>4, <3>5, <3>6, WorkerStep DEF Moves, IInv
  <2> QED
    BY <2>1, <2>2, <2>3, BatchStaysFit, JobStaysFit DEF Delivering
<1> QED
  BY <1>1, <1>2, <1>3

\* A result is written by the process that made the call, for the attempt it
\* made it for, and the provider cannot change its mind afterwards.
LEMMA EvidenceStep ==
    ASSUME IInv, OwnerInv, CallsAreTrue, [Next]_vars
    PROVE  EvidenceIsTrue'
<1> SUFFICES ASSUME NEW m \in Messages, NEW n \in Budget
             PROVE  /\ attempt'[m][n] \in {"RETRY_SCHEDULED", "FAILED"} =>
                          request'[m][n] \in {"none", "refused"}
                    /\ attempt'[m][n] = "SUCCEEDED" => request'[m][n] # "none"
  BY DEF EvidenceIsTrue
<1>1. CASE attempt'[m][n] = attempt[m][n]
  <2>1. CASE request'[m][n] = request[m][n]
    BY <1>1, <2>1 DEF OwnerInv, EvidenceIsTrue
  <2>2. ASSUME NEW v \in Workers, pc[v] = "call", job[v] = <<m, n>>
        PROVE  attempt[m][n] \in InFlight
    BY <2>2 DEF OwnerInv, OwnersWorkOnTheirClaims, JobFits, Calling
  <2>3. CASE request[m][n] = "sent"
    BY <1>1, <2>3, OneRequestStep DEF OwnerInv, EvidenceIsTrue, IInv
  <2> QED
    BY <1>1, <2>1, <2>2, <2>3, OneRequestStep DEF InFlight, IInv
<1>2. CASE attempt'[m][n] # attempt[m][n]
  <2>1. CASE \E v \in Workers : ClaimDueOutbox(v)
    <3>1. PICK v \in Workers : ClaimDueOutbox(v)
      BY <2>1
    <3>2. ClaimLeaves(v, m)
      BY <3>1, ClaimDueOutboxRow DEF IInv
    <3> QED
      BY <1>2, <3>2 DEF ClaimLeaves
  <2>2. CASE \E v \in Workers : RefuseBeforeDispatch(v)
    <3>1. PICK v \in Workers, p \in Messages, k \in Budget,
               x \in {"RETRY_SCHEDULED", "RECONCILIATION_REQUIRED", "FAILED"} :
            Concludes(v, p, k, x) /\ attempt[p][k] = "NONE"
      BY <2>2, RefuseBeforeDispatchRow
    <3>2. p = m /\ k = n /\ attempt'[m][n] = x /\ request' = request
      BY <1>2, <3>1 DEF Concludes, IInv, TypeInv, TypeOK
    <3>3. request[m][n] = "none"
      BY <3>1, <3>2 DEF IInv, CallsAreRecorded
    <3> QED
      BY <3>2, <3>3
  <2>3. CASE \E v \in Workers : RecordDispatchStarted(v)
    <3>1. PICK v \in Workers, p \in Messages, k \in Budget : Starts(v, p, k)
      BY <2>3, RecordDispatchStartedRow
    <3>2. attempt'[m][n] = "STARTED"
      BY <1>2, <3>1 DEF Starts, IInv, TypeInv, TypeOK
    <3> QED
      BY <3>2
  <2>4. CASE \E v \in Workers : RecordAnswer(v)
    <3>1. PICK v \in Workers : RecordAnswer(v)
      BY <2>4
    <3>2. PICK p \in Messages, k \in Budget,
              x \in {"SUCCEEDED", "RETRY_SCHEDULED", "RECONCILIATION_REQUIRED", "FAILED"} :
              /\ Concludes(v, p, k, x) /\ job[v] = <<p, k>>
              /\ x \in {"RETRY_SCHEDULED", "FAILED"} => answer[v] \in Definite
              /\ x = "SUCCEEDED" => answer[v] = "ACKNOWLEDGED"
      BY <3>1, RecordAnswerRow
    <3>3. p = m /\ k = n /\ attempt'[m][n] = x /\ request' = request
      BY <1>2, <3>2 DEF Concludes, IInv, TypeInv, TypeOK
    <3>4. pc[v] = "record"
      BY <3>1 DEF RecordAnswer
    <3> QED
      BY <3>2, <3>3, <3>4 DEF CallsAreTrue
  <2>5. CASE OtherStep
    BY <1>2, <2>5, OtherStepRows DEF IInv
  <2> QED
    BY <2>1, <2>2, <2>3, <2>4, <2>5 DEF OtherStep
<1> QED
  BY <1>1, <1>2

LEMMA ProviderInvInit == Init => ProviderInv
<1> SUFFICES ASSUME Init PROVE ProviderInv
  OBVIOUS
<1>1. OwnersWorkOnTheirClaims
  BY DEF Init, OwnersWorkOnTheirClaims, BatchFits, JobFits, Delivering, Calling
<1>2. EvidenceIsTrue
  BY DEF Init, EvidenceIsTrue
<1> QED
  BY <1>1, <1>2, IInvInit, CallInvInit DEF ProviderInv, OwnerInv

LEMMA ProviderInvStep == ProviderInv /\ [Next]_vars => ProviderInv'
<1> SUFFICES ASSUME ProviderInv, [Next]_vars PROVE ProviderInv'
  OBVIOUS
<1>1. IInv' /\ CallInv'
  BY IInvStep, CallInvStep DEF ProviderInv
<1>2. ASSUME UniqueWorkerIds PROVE OwnerInv'
  BY <1>2, OwnersStep, EvidenceStep DEF ProviderInv, CallInv, OwnerInv
<1>3. UniqueWorkerIds' <=> UniqueWorkerIds
  BY DEF UniqueWorkerIds
<1> QED
  BY <1>1, <1>2, <1>3 DEF ProviderInv

LEMMA ProviderInvariance == Spec => []ProviderInv
BY ProviderInvInit, ProviderInvStep, PTL DEF Spec

-------------------------------------------------------------------------------
(***************************************************************************)
(* The promise.  MessageStep and the invariants say of one message what    *)
(* DeliveryPromise asks: the cases of MessageStep are its actions.         *)
(***************************************************************************)

\* What the provider does to a call, it does in a step that writes no row.
LEMMA ProviderStepRows ==
    ASSUME TypeInv, [Next]_vars, NEW m \in Messages
    PROVE  (Applied(m)' <=> Applied(m)) \/ UNCHANGED <<outbox, attempt>>
<1>1. CASE request' = request
  BY <1>1 DEF Applied
<1>2. CASE \E v \in Workers : Execute(v)
  BY <1>2 DEF Execute, storeVars
<1>3. CASE \E p \in Messages, n \in Budget : ProviderActs(p, n)
  BY <1>3 DEF ProviderActs, storeVars
<1> QED
  BY <1>1, <1>2, <1>3, RequestStep

\* A message with a written attempt was taken before.
LEMMA WrittenWasTaken ==
    ASSUME IInv, NEW m \in Messages, NEW n \in Budget, attempt[m][n] # "NONE"
    PROVE  outbox[m].attempts > 0
<1>1. ~(n > outbox[m].attempts)
  BY DEF IInv, StoreInv, ComingAttemptsAreBlank
<1>2. n > 0 /\ n \in Nat
  BY BudgetAssumption DEF Budget
<1> QED
  BY <1>1, <1>2, Attempts DEF IInv

\* How a message stands with the promise: taken until its dispatch starts.
LEMMA Standing ==
    ASSUME TypeInv, NEW m \in Messages
    PROVE  /\ outbox[m].state \in {"PENDING", "RETRY_SCHEDULED"} => StatusOf(m) = "queued"
           /\ outbox[m].state = "CLAIMED" /\ DispatchStarted(m) => StatusOf(m) = "in doubt"
           /\ outbox[m].state = "CLAIMED" /\ ~DispatchStarted(m) => StatusOf(m) = "taken"
           /\ outbox[m].state \in Doubtful => StatusOf(m) = "in doubt"
           /\ outbox[m].state = "SOURCE_CONFIRMED" => StatusOf(m) = "confirmed"
           /\ outbox[m].state = "DEAD_LETTERED" => StatusOf(m) = "dead"
           /\ outbox[m].state = "BLOCKED" => StatusOf(m) = "blocked"
BY DEF StatusOf, Doubtful

\* What DeliveryPromise says of m, in terms of this module.
Stands(m) == StatusOf(m)' = StatusOf(m)

Counts(m) == outbox'[m].attempts = outbox[m].attempts

LEMMA MessageKeepsPromise ==
    ASSUME IInv, IInv', NEW m \in Messages, MessageStep(m)
    PROVE  \/ /\ StatusOf(m) \in {"queued", "taken"} /\ StatusOf(m)' = "taken"
              /\ outbox[m].attempts < maxAttempts[m]
              /\ outbox'[m].attempts = outbox[m].attempts + 1
           \/ /\ StatusOf(m) \in {"taken", "in doubt"} /\ StatusOf(m)' = "queued"
              /\ outbox[m].attempts < maxAttempts[m] /\ Counts(m)
           \/ StatusOf(m) = "taken" /\ StatusOf(m)' = "in doubt" /\ Counts(m)
           \/ StatusOf(m) \in {"taken", "in doubt"} /\ StatusOf(m)' = "dead" /\ Counts(m)
           \/ /\ StatusOf(m) = "in doubt" /\ StatusOf(m)' = "confirmed" /\ Counts(m)
              /\ outbox'[m].state = "SOURCE_CONFIRMED"
           \/ StatusOf(m) = "in doubt" /\ StatusOf(m)' = "blocked" /\ Counts(m)
           \/ Stands(m) /\ Counts(m)
<1>1. TypeInv /\ TypeInv'
  BY DEF IInv
<1>2. outbox[m].state = "CLAIMED" => StatusOf(m) \in {"taken", "in doubt"}
  BY <1>1, Standing
<1>3. /\ outbox'[m].state = "RETRY_SCHEDULED" => StatusOf(m)' = "queued"
      /\ outbox'[m].state \in Doubtful => StatusOf(m)' = "in doubt"
      /\ outbox'[m].state = "SOURCE_CONFIRMED" => StatusOf(m)' = "confirmed"
      /\ outbox'[m].state = "DEAD_LETTERED" => StatusOf(m)' = "dead"
      /\ outbox'[m].state = "BLOCKED" => StatusOf(m)' = "blocked"
      /\ outbox'[m].state = "CLAIMED" /\ DispatchStarted(m)' => StatusOf(m)' = "in doubt"
      /\ outbox'[m].state = "CLAIMED" /\ ~DispatchStarted(m)' => StatusOf(m)' = "taken"
  BY DEF StatusOf, Doubtful
<1>4. ~Exhausted(m) => outbox[m].attempts < maxAttempts[m]
  BY <1>1, Attempts DEF Exhausted
<1>5. ASSUME outbox'[m].state = outbox[m].state, Counts(m),
             \A n \in Budget : attempt'[m][n] = attempt[m][n]
      PROVE  Stands(m)
  BY <1>5 DEF Stands, Counts, StatusOf, DispatchStarted, Doubtful
<1>6. CASE Untouched(m)
  BY <1>5, <1>6 DEF Untouched, KeepsEvidence, Counts
<1>7. CASE IsClaimed(m)
  <2>1. StatusOf(m) \in {"queued", "taken"}
    <3>1. outbox[m].state = "CLAIMED" => ~DispatchStarted(m)
      BY <1>7 DEF IsClaimed, NotStarted, DispatchStarted
    <3> QED
      BY <1>1, <1>7, <3>1, Standing DEF IsClaimed
  <2>2. ASSUME NEW n \in Budget, n = outbox'[m].attempts
        PROVE  attempt'[m][n] = "NONE"
    <3>1. n > outbox[m].attempts
      BY <1>1, <1>7, <2>2, Attempts DEF IsClaimed
    <3>2. attempt[m][n] = "NONE"
      BY <3>1 DEF IInv, StoreInv, ComingAttemptsAreBlank
    <3> QED
      BY <1>7, <3>2 DEF IsClaimed, KeepsEvidence
  <2>3. StatusOf(m)' = "taken"
    <3>1. ~DispatchStarted(m)'
      BY <2>2 DEF DispatchStarted
    <3> QED
      BY <1>3, <1>7, <3>1 DEF IsClaimed
  <2> QED
    BY <1>7, <2>1, <2>3 DEF IsClaimed
<1>8. CASE IsGivenBack(m)
  BY <1>2, <1>3, <1>4, <1>8 DEF IsGivenBack, MovesTo, Counts
<1>9. CASE IsStarted(m)
  <2>1. Counts(m) /\ outbox[m].state = "CLAIMED" /\ outbox'[m].state = "CLAIMED"
    BY <1>9 DEF IsStarted, Counts
  <2>2. CASE \A n \in Budget : attempt'[m][n] = attempt[m][n]
    BY <1>5, <2>1, <2>2
  <2>3. CASE \E n \in Budget : attempt'[m][n] # attempt[m][n]
    <3>1. PICK n \in Budget : n = outbox[m].attempts /\ attempt[m][n] = "NONE"
                              /\ attempt'[m][n] = "STARTED"
      BY <1>9, <2>3 DEF IsStarted
    <3>2. ~DispatchStarted(m) /\ DispatchStarted(m)'
      BY <2>1, <3>1 DEF DispatchStarted, Counts
    <3>3. StatusOf(m) = "taken" /\ StatusOf(m)' = "in doubt"
      BY <1>1, <1>3, <2>1, <3>2, Standing
    <3> QED
      BY <2>1, <3>3
  <2> QED
    BY <2>2, <2>3
<1>10. CASE IsRefused(m)
  BY <1>2, <1>3, <1>4, <1>10 DEF IsRefused, MovesTo, Counts
<1>11. CASE IsDoubted(m)
  BY <1>2, <1>3, <1>11 DEF IsDoubted, MovesTo, Counts, Stands
<1>12. CASE IsObserved(m)
  <2>1. outbox[m].state \in Doubtful
    BY <1>12 DEF IsObserved, IInv, StoreInv, PendingIsCurrent
  <2>2. StatusOf(m) = "in doubt"
    BY <1>1, <2>1, Standing
  <2> QED
    BY <1>3, <1>4, <1>12, <2>1, <2>2 DEF IsObserved, MovesTo, Counts, Stands
<1> QED
  BY <1>6, <1>7, <1>8, <1>9, <1>10, <1>11, <1>12 DEF MessageStep

\* Every step of the outbox is a step of the promise.
LEMMA PromiseStep ==
    ASSUME ProviderInv, [Next]_vars, ProviderInv', NEW m \in Messages
    PROVE  Promise!Step(m)
<1>1. IInv /\ IInv' /\ MessageStep(m)
  BY EveryStep DEF ProviderInv, IInv
<1>2. Applied(m) => Applied(m)'
  BY <1>1, AppliedStays DEF ProviderInv, CallInv, IInv
<1>3. CASE ~(Applied(m)' <=> Applied(m))
  <2>1. Applied(m)' /\ UNCHANGED <<outbox, attempt>>
    BY <1>1, <1>2, <1>3, ProviderStepRows DEF IInv
  <2>2. outbox[m].attempts > 0
    <3>1. PICK n \in Budget : request'[m][n] = "applied"
      BY <2>1 DEF Applied
    <3>2. attempt[m][n] # "NONE"
      BY <1>1, <2>1, <3>1 DEF IInv, CallsAreRecorded
    <3> QED
      BY <1>1, <3>2, WrittenWasTaken
  <2>3. StatusOf(m)' = StatusOf(m)
    BY <2>1 DEF StatusOf, DispatchStarted
  <2>4. Promise!Apply(m)
    BY <2>1, <2>2, <2>3 DEF Promise!Apply, Promise!Keeps, Applied
  <2> QED
    BY <2>4 DEF Promise!Step
<1>4. CASE Applied(m)' <=> Applied(m)
  <2>1. outbox'[m].state = "SOURCE_CONFIRMED" => Applied(m)
    BY <1>4 DEF ProviderInv, CallInv, ConfirmedIsApplied
  <2> QED
    BY <1>1, <1>4, <2>1, MessageKeepsPromise
       DEF Promise!Step, Promise!Take, Promise!Return, Promise!Dispatch, Promise!GiveUp,
           Promise!Confirm, Promise!Block, Promise!Rest, Promise!Moves, Promise!Keeps,
           Applied, Stands, Counts
<1> QED
  BY <1>3, <1>4

-------------------------------------------------------------------------------
(***************************************************************************)
(* The theorems.                                                           *)
(***************************************************************************)

\* A message is never delivered again while the outcome of an earlier attempt
\* is open (recordOutboxFailure, the sweep of claimDueOutbox and
\* completeClaimedReconciliation together).
THEOREM ReconcileBeforeRetryCorrect == Spec => []ReconcileBeforeRetry
<1>1. IInv => ReconcileBeforeRetry
  BY DEF IInv, StoreInv
<1> QED
  BY <1>1, Invariance, PTL

\* A pending checkpoint is about the current attempt of a message in doubt, so
\* the blind outbox updates of both reconciliation methods are safe.
THEOREM PendingIsCurrentCorrect == Spec => []PendingIsCurrent
<1>1. IInv => PendingIsCurrent
  BY DEF IInv, StoreInv
<1> QED
  BY <1>1, Invariance, PTL

\* No dispatch-start survives the claim it was written under.
THEOREM NoOrphanedStartCorrect == Spec => []NoOrphanedStart
<1>1. IInv => NoOrphanedStart
  BY DEF IInv, StoreInv
<1> QED
  BY <1>1, Invariance, PTL

\* A message is dead-lettered exactly when it has a dead letter.
THEOREM DeadLetterEvidenceCorrect == Spec => []DeadLetterEvidence
<1>1. IInv => DeadLetterEvidence
  BY DEF IInv, StoreInv
<1> QED
  BY <1>1, Invariance, PTL

\* Whatever workers crash, overlap or share an identity, every adapter call is
\* the one call of an attempt within the budget of its message.
THEOREM CallsWithinBudgetCorrect == Spec => []CallsWithinBudget
<1>1. IInv => CallsWithinBudget
  <2> SUFFICES ASSUME IInv, NEW m \in Messages, NEW n \in Budget, request[m][n] # "none"
               PROVE  n <= outbox[m].attempts /\ n <= maxAttempts[m]
    BY DEF CallsWithinBudget
  <2>1. attempt[m][n] # "NONE"
    BY DEF IInv, CallsAreRecorded
  <2>2. ~(n > outbox[m].attempts) /\ outbox[m].attempts <= maxAttempts[m]
    BY <2>1 DEF IInv, StoreInv, ComingAttemptsAreBlank, WithinBudget
  <2> QED
    BY <2>2, Attempts DEF IInv
<1> QED
  BY <1>1, Invariance, PTL

\* A message that is confirmed, dead or blocked stays so.
THEOREM SettledIsFinalCorrect == Spec => SettledIsFinal
<1>1. IInv /\ [Next]_vars =>
        [\A m \in Messages :
            outbox[m].state \in Settled => outbox'[m].state = outbox[m].state]_vars
  <2> SUFFICES ASSUME IInv, [Next]_vars, NEW m \in Messages, outbox[m].state \in Settled
               PROVE  outbox'[m].state = outbox[m].state
    OBVIOUS
  <2>1. MessageStep(m)
    BY EveryStep DEF IInv
  <2>2. ~IsObserved(m)
    BY DEF IsObserved, IInv, StoreInv, PendingIsCurrent, Doubtful, Settled
  <2> QED
    BY <2>1, <2>2 DEF MessageStep, Untouched, IsClaimed, IsGivenBack, IsStarted, IsRefused,
                      IsDoubted, Settled
<1> QED
  BY <1>1, Invariance, PTL DEF Spec, SettledIsFinal

\* The outcome of an attempt is written once, although the code upserts it.
THEOREM OutcomeIsWrittenOnceCorrect == Spec => OutcomeIsWrittenOnce
<1>1. IInv /\ [Next]_vars =>
        [\A m \in Messages, n \in Budget :
            attempt[m][n] \notin {"NONE", "STARTED"} => attempt'[m][n] = attempt[m][n]]_vars
  <2> SUFFICES ASSUME IInv, [Next]_vars, NEW m \in Messages, NEW n \in Budget,
                      attempt[m][n] \notin {"NONE", "STARTED"}
               PROVE  attempt'[m][n] = attempt[m][n]
    OBVIOUS
  <2>1. MessageStep(m)
    BY EveryStep DEF IInv
  <2>2. outbox[m].state = "CLAIMED" => n # outbox[m].attempts
    BY DEF IInv, StoreInv, ClaimIsOpen
  <2> QED
    BY <2>1, <2>2 DEF MessageStep, Untouched, IsClaimed, IsGivenBack, IsStarted, IsRefused,
                      IsDoubted, IsObserved, KeepsEvidence
<1> QED
  BY <1>1, Invariance, PTL DEF Spec, OutcomeIsWrittenOnce

\* Neither a settled message nor the outcome of an attempt is ever rewritten, by a
\* worker, a sweep or an operator.
THEOREM HistoryStandsCorrect == Spec => HistoryStands
  BY SettledIsFinalCorrect, OutcomeIsWrittenOnceCorrect DEF HistoryStands

\* A message is confirmed exactly when its receipt is, and then the provider did
\* apply one of its calls: an acknowledgement alone confirms nothing
\* (completeClaimedReconciliation, recordReconciliation).
THEOREM ConfirmedBySourceCorrect == Spec => []ConfirmedBySource
<1>1. ProviderInv => ConfirmedBySource
  BY DEF ProviderInv, IInv, StoreInv, ReceiptAgrees, CallInv, ConfirmedIsApplied, Applied,
         ConfirmedBySource
<1> QED
  BY <1>1, ProviderInvariance, PTL

\* An acknowledged or doubtful attempt always has the checkpoint that will settle
\* it (recordProviderAcknowledgement, recordOutboxFailure, claimDueOutbox).
THEOREM DoubtIsFollowedUpCorrect == Spec => []DoubtIsFollowedUp
<1>1. IInv => DoubtIsFollowedUp
  BY DEF IInv, StoreInv
<1> QED
  BY <1>1, Invariance, PTL

\* What an attempt row says of the provider is true of it, as long as no two
\* processes share an identity (recordProviderAcknowledgement, recordOutboxFailure
\* fence by the identity alone).
THEOREM AttemptEvidenceIsTrueCorrect == Spec => []AttemptEvidenceIsTrue
<1>1. ProviderInv => AttemptEvidenceIsTrue
  BY DEF ProviderInv, OwnerInv, EvidenceIsTrue, AttemptEvidenceIsTrue
<1> QED
  BY <1>1, ProviderInvariance, PTL

\* The rows a message leaves behind fit what was done: starts, dead letters and
\* results of attempts, on every path through sweep, failure and reconciliation.
THEOREM EvidenceFitsCorrect == Spec => []EvidenceFits
  BY NoOrphanedStartCorrect, DeadLetterEvidenceCorrect, DoubtIsFollowedUpCorrect,
     AttemptEvidenceIsTrueCorrect, PTL DEF EvidenceFits

\* Two calls of one message are never both unaccounted for: before a second call
\* the first was refused, or the source was read back without its effect.
THEOREM OneUnresolvedCallCorrect == Spec => []OneUnresolvedCall
<1>1. ProviderInv => OneUnresolvedCall
  <2> SUFFICES ASSUME ProviderInv, UniqueWorkerIds, NEW m \in Messages,
                      NEW n1 \in Budget, NEW n2 \in Budget, n1 < n2,
                      request[m][n1] \in {"sent", "applied"}, request[m][n2] # "none"
               PROVE  checkpoint[m][n1].result = "NOT_FOUND"
    BY DEF OneUnresolvedCall
  <2>1. attempt[m][n1] # "NONE" /\ attempt[m][n2] # "NONE"
    BY DEF ProviderInv, IInv, CallsAreRecorded
  <2>2. attempt[m][n1] # "RETRY_SCHEDULED"
    BY DEF ProviderInv, OwnerInv, EvidenceIsTrue
  <2>3. ~(n2 > outbox[m].attempts)
    BY <2>1 DEF ProviderInv, IInv, StoreInv, ComingAttemptsAreBlank
  <2>4. n1 < outbox[m].attempts
    BY <2>3, Attempts DEF ProviderInv, IInv
  <2>5. ~(n1 > outbox[m].attempts) /\ n1 # outbox[m].attempts
    BY <2>4, Attempts DEF ProviderInv, IInv
  <2> QED
    BY <2>1, <2>2, <2>5 DEF ProviderInv, IInv, StoreInv, ReconcileBeforeRetry
<1> QED
  BY <1>1, ProviderInvariance, PTL

\* The outbox, its workers and its operators keep what DeliveryPromise says of
\* every message: taken within the budget, in doubt until it is settled on
\* evidence, settled for good (every method of the store, every step of a worker).
THEOREM KeepsPromiseCorrect == Spec => KeepsPromise
<1>1. Init => Promise!Init
  <2> SUFFICES ASSUME Init PROVE Promise!Init
    OBVIOUS
  <2>1. \A m \in Messages : StatusOf(m) = "queued" /\ outbox[m].attempts = 0
    <3>1. \A m \in Messages : outbox[m].state = "PENDING" /\ outbox[m].attempts = 0
      BY DEF Init, NewOutboxRow
    <3> QED
      BY <3>1, TypeInit, Standing
  <2>2. \A m \in Messages, n \in Budget : request[m][n] # "applied"
    BY DEF Init
  <2> QED
    BY <2>1, <2>2 DEF Promise!Init
<1>2. ProviderInv /\ [Next]_vars /\ ProviderInv' =>
        [\A m \in Messages : Promise!Step(m)]_(Promise!vars)
  BY PromiseStep
<1> QED
  BY <1>1, <1>2, ProviderInvariance, PTL DEF Spec, KeepsPromise, Promise!Spec
===============================================================================
