---------------------------- MODULE Stage5Receipts ----------------------------
(***************************************************************************)
(* The Stage 5 receipts of Sultan: canonical readbacks of a source,        *)
(* admissions that rest on readbacks, and outcome observations that        *)
(* compare a later readback with what an admission expected.               *)
(*                                                                         *)
(* Receipts are append-only and idempotent by key.  A request is stamped   *)
(* with the clock of the API when it arrives (an admission after it has    *)
(* read its evidence); it then waits for a connection and for the advisory *)
(* lock of its key, and only inside the lock does a readback look at its   *)
(* source.                                                                 *)
(***************************************************************************)
EXTENDS Stage5Policy

CONSTANTS
    Handlers,    \* concurrent API requests
    Templates,   \* requests that may be sent, without their time
    Lags,        \* how long before its arrival a client wrote a request
    Initially,   \* versions a source may have at the start
    MaxTime,     \* bound: the clock
    MaxVersion,  \* bound: versions of a source
    MaxConflicts,\* bound: conflicts on record
    MaxTold      \* bound: answers that are remembered, whichever they are

Times    == 0 .. MaxTime
Versions == 0 .. MaxVersion
Scopes   == {"READBACK", "ADMISSION", "OUTCOME"}

ASSUME TemplateAssumption ==
    Templates \subseteq ReadbackTemplate \cup AdmissionTemplate \cup OutcomeTemplate

ASSUME BoundAssumption ==
    /\ {MaxTime, MaxVersion, MaxConflicts, MaxTold} \subseteq Nat
    /\ Lags \subseteq Int
    /\ Initially \subseteq Versions
    /\ DOMAIN Claims = Versions \ {0}

VARIABLES
    now,        \* the clock
    source,     \* the version of each subject; 0 while there is none
    receipts,   \* the three receipt tables, by scope and key
    conflicts,  \* sultan_stage5_idempotency_conflicts
    pc,         \* where a handler is
    request,    \* the request it works on: its template and its time
    found,      \* the evidence an admission has read
    stamp,      \* the time the service took for the request
    view,       \* what its readback read, and when; for an admission, its expected
                \* subject as it was when it was decided (no code keeps that)
    told        \* what clients were told is on record, never forgotten (bookkeeping)

rows    == <<source, receipts, conflicts>>
handler == <<pc, request, found, stamp, view>>
vars    == <<now, source, receipts, conflicts, pc, request, found, stamp, view, told>>

Phases  == {"idle", "grounded", "received", "locked"}

NoRequest == [at |-> 0, of |-> [scope |-> None]]
NoReceipt == [request |-> NoRequest]
Request   == [at : Int, of : Templates]
NoView    == [version |-> 0, at |-> 0]
Telling   == [request : Request, onRecord : {"RECEIPT", "CONFLICT"}]
View      == [version : Versions, at : Times]

ReadbackReceipt  == [request : Request, observedAt : Times, version : Versions,
                     readAt : Times]
AdmissionReceipt == [request : Request, decidedAt : Times,
                     status : {"ADMITTED_NO_EFFECT", "DENIED", "SEPARATE_REVIEW_REQUIRED"},
                     consumed : SUBSET Keys, shown : Versions]
OutcomeReceipt   == [request : Request, observedAt : Times,
                     classification : {"CONFIRMED", "REFUTED", "UNRESOLVED", "SUPERSEDED"}]

Receipt(scope, key) == receipts[scope][key]
Recorded(scope)     == {Receipt(scope, k) : k \in Keys} \ {NoReceipt}
Stored(r)           == Receipt(r.of.scope, r.of.key)
Existing(h)         == Stored(request[h])

\* admission_receipt_id is a digest of the operation.
AdmissionsOf(operation) == {a \in Recorded("ADMISSION") : a.request.of.operation = operation}

-------------------------------------------------------------------------------
\* Mutant: the request, not its evidence, has to follow the decision.
FollowsByRequest(r, admission, readback) == r.at >= admission.decidedAt

Follows(r, admission, readback) == readback.observedAt >= admission.decidedAt

\* verifyStage5AdmissionReceiptIntegrity and the exact readback of the rows.
VerifiesAdmission(a) ==
    /\ a.consumed = {} => a.status = "DENIED"
    /\ a.consumed # {} => /\ a.consumed = a.request.of.evidence
                           /\ a.consumed = a.request.of.interaction.used
                           /\ a.consumed \subseteq {e.request.of.key : e \in Recorded("READBACK")}
    /\ a.request.of.interaction.expects = a.request.of.expects

\* verifyOutcomeObservationReceipt
VerifiesWith(o, admission, readback) ==
    /\ VerifiesAdmission(admission)
    /\ Follows(o.request, admission, readback)
    /\ o.classification = Classification(o.request.of, admission.request.of.expects, readback)
    /\ o.request.at >= o.observedAt
    /\ o.observedAt = readback.observedAt

\* The exact readback of an outcome and of the receipts it descends from.
VerifiesOutcome(o) ==
    LET readback == Receipt("READBACK", o.request.of.readback)
    IN  /\ readback # NoReceipt
        /\ \E a \in AdmissionsOf(o.request.of.operation) : VerifiesWith(o, a, readback)

\* What is verified of a receipt before it answers a replay.
Persisted(receipt) ==
    /\ receipt.request.of.scope = "ADMISSION" => VerifiesAdmission(receipt)
    /\ receipt.request.of.scope = "OUTCOME" => VerifiesOutcome(receipt)

\* readVerifiedOutcome: what the GET of an observation answers.
ReadOutcome(key) ==
    IF Receipt("OUTCOME", key) = NoReceipt THEN "NOT_FOUND"
    ELSE IF VerifiesOutcome(Receipt("OUTCOME", key)) THEN "VERIFIED" ELSE "FAILED"

-------------------------------------------------------------------------------
Init ==
    /\ now = 0
    /\ source \in [Subjects -> Initially]
    /\ receipts = [s \in Scopes |-> [k \in Keys |-> NoReceipt]]
    /\ conflicts = {}
    /\ pc = [h \in Handlers |-> "idle"]
    /\ request = [h \in Handlers |-> NoRequest]
    /\ found = [h \in Handlers |-> {}]
    /\ stamp = [h \in Handlers |-> 0]
    /\ view = [h \in Handlers |-> NoView]
    /\ told = {}

\* Version of the subject an admission expects something of.
ExpectedNow(t) == IF t.expects = NoExpectation THEN 0 ELSE source[t.expects.subject]

\* What an answer says is on record; a failure and a refusal say nothing of it.
Says(a) ==
    CASE a \in {"RECORDED", "REPLAYED"} -> {"RECEIPT"}
      [] a = "CONFLICT" -> {"CONFLICT"}
      [] OTHER -> {}

Tell(r, a) ==
    \/ \E x \in Says(a) :
        /\ Cardinality(told) < MaxTold
        /\ told' = told \cup {[request |-> r, onRecord |-> x]}
    \/ UNCHANGED told

Finish(h, a) ==
    /\ pc' = [pc EXCEPT ![h] = "idle"]
    /\ request' = [request EXCEPT ![h] = NoRequest]
    /\ found' = [found EXCEPT ![h] = {}]
    /\ stamp' = [stamp EXCEPT ![h] = 0]
    /\ view' = [view EXCEPT ![h] = NoView]
    /\ Tell(request[h], a)

\* A readback or an outcome outside the freshness window is refused at once, an
\* admission is evaluated, stale or not.
MayEnter(r) == Acceptable(r.of) /\ (r.of.scope = "ADMISSION" \/ Timely(r.at, now))

\* A request is authenticated, parsed and accepted.
Receive(h) ==
    /\ pc[h] = "idle"
    /\ \E t \in Templates, lag \in Lags :
        /\ MayEnter([at |-> now - lag, of |-> t])
        /\ request' = [request EXCEPT ![h] = [at |-> now - lag, of |-> t]]
        /\ pc' = [pc EXCEPT ![h] = IF t.scope = "ADMISSION" THEN "grounded" ELSE "received"]
        /\ found' = IF t.scope = "ADMISSION"
                    THEN [found EXCEPT ![h] = {k \in t.evidence : Receipt("READBACK", k) # NoReceipt}]
                    ELSE found
    /\ stamp' = [stamp EXCEPT ![h] = now]
    /\ UNCHANGED <<told, now, rows, view>>

\* CLIENT_AUTHORITY_REJECTED, WORKLOAD_IDENTITY_DENIED, REQUEST_STALE and the like:
\* the refusal of the request leaves nothing behind.
TurnAway(h) ==
    /\ pc[h] = "idle"
    /\ \E t \in Templates, lag \in Lags : ~MayEnter([at |-> now - lag, of |-> t])
    /\ UNCHANGED <<told, now, rows, handler>>

\* The evidence of an admission has been read: it is decided now.
Evaluate(h) ==
    /\ pc[h] = "grounded"
    /\ pc' = [pc EXCEPT ![h] = "received"]
    /\ stamp' = [stamp EXCEPT ![h] = now]
    /\ view' = [view EXCEPT ![h] = [version |-> ExpectedNow(request[h].of), at |-> now]]
    /\ UNCHANGED <<told, now, rows, request, found>>

KeyFree(h) ==
    \A g \in Handlers \ {h} :
        pc[g] = "locked" =>
            \/ request[g].of.scope # request[h].of.scope
            \/ request[g].of.key # request[h].of.key

\* The lock is granted and the key is new; a readback then reads its source.
Enter(h) ==
    /\ pc[h] = "received"
    /\ KeyFree(h)
    /\ Existing(h) = NoReceipt
    /\ pc' = [pc EXCEPT ![h] = "locked"]
    /\ view' = IF request[h].of.scope = "READBACK"
               THEN [view EXCEPT ![h] =
                        [version |-> source[request[h].of.subject], at |-> now]]
               ELSE view
    /\ UNCHANGED <<told, now, rows, request, found, stamp>>

\* request_hash
SameRequest(h) == Existing(h).request = request[h]

Replay(h) ==
    /\ pc[h] = "received"
    /\ KeyFree(h)
    /\ Existing(h) # NoReceipt
    /\ SameRequest(h)
    /\ Persisted(Existing(h))
    /\ Finish(h, "REPLAYED")
    /\ UNCHANGED <<now, rows>>

\* A receipt is committed; the answer to the commit may be lost.
Insert(h, receipt) ==
    /\ receipts' = [receipts EXCEPT ![request[h].of.scope][request[h].of.key] = receipt]
    /\ \E a \in {"RECORDED", "ERROR"} : Finish(h, a)
    /\ UNCHANGED <<source, conflicts>>

\* Mutant: a readback that is asked again under its key is read again, in place of
\* the receipt that was answered before.
KeyConflictRefreshes(h) ==
    /\ pc[h] = "received"
    /\ KeyFree(h)
    /\ Existing(h) # NoReceipt
    /\ ~SameRequest(h)
    /\ request[h].of.scope = "READBACK"
    /\ Insert(h, [request |-> request[h], observedAt |-> stamp[h],
                  version |-> source[request[h].of.subject], readAt |-> now])
    /\ UNCHANGED now

\* The conflict is committed before it is answered.  Its identity is a digest of
\* the key and the request: the same conflict a second time breaks the primary
\* key, an error without a domain code.
KeyConflict(h) ==
    /\ pc[h] = "received"
    /\ KeyFree(h)
    /\ Existing(h) # NoReceipt
    /\ ~SameRequest(h)
    /\ \/ /\ request[h] \notin conflicts
          /\ Cardinality(conflicts) < MaxConflicts
          /\ conflicts' = conflicts \cup {request[h]}
          /\ \E a \in {"CONFLICT", "ERROR"} : Finish(h, a)
       \/ /\ request[h] \in conflicts
          /\ Finish(h, "DUPLICATE")
          /\ UNCHANGED conflicts
    /\ UNCHANGED <<now, source, receipts>>

\* Mutant: a readback is stamped when it is committed.
RecordReadbackLate(h) ==
    /\ pc[h] = "locked"
    /\ request[h].of.scope = "READBACK"
    /\ now < MaxTime
    /\ now' = now + 1
    /\ Existing(h) = NoReceipt
    /\ Insert(h, [request |-> request[h], observedAt |-> now,
                  version |-> view[h].version, readAt |-> view[h].at])

\* Nobody knows a readback in the millisecond in which it was made.
RecordReadback(h) ==
    /\ pc[h] = "locked"
    /\ request[h].of.scope = "READBACK"
    /\ now < MaxTime
    /\ now' = now + 1
    /\ Existing(h) = NoReceipt
    /\ Insert(h, [request |-> request[h], observedAt |-> stamp[h],
                  version |-> view[h].version, readAt |-> view[h].at])

-------------------------------------------------------------------------------
Evidence(h) == {Receipt("READBACK", k) : k \in found[h]}

\* admission_receipt_id and operation_id are unique.
OperationUnused(h) == Existing(h) = NoReceipt /\ AdmissionsOf(request[h].of.operation) = {}

\* A denial is recorded too, except of a request from the future: a constraint of
\* the table refuses that row.
RecordAdmission(h) ==
    LET r == request[h]
        receipt == [request |-> r, decidedAt |-> stamp[h],
                    status |-> AdmissionStatus(r, Evidence(h), stamp[h]),
                    consumed |-> Consumed(r.of, Evidence(h)), shown |-> view[h].version]
    IN  /\ pc[h] = "locked"
        /\ r.of.scope = "ADMISSION"
        /\ OperationUnused(h)
        /\ r.at <= stamp[h] + Tolerance
        /\ VerifiesAdmission(receipt)
        /\ Insert(h, receipt)
        /\ UNCHANGED now

\* The eligible admission of an outcome.
Eligible(t) == {a \in AdmissionsOf(t.operation) : a.status # "DENIED" /\ VerifiesAdmission(a)}

\* The prior observation is of the same admission and of an older readback.
Supersedes(t, readback) ==
    LET prior == Receipt("OUTCOME", t.supersedes)
    IN  /\ prior # NoReceipt
        /\ prior.request.of.operation = t.operation
        /\ prior.request.of.readback # t.readback
        /\ prior.observedAt < readback.observedAt
        /\ VerifiesOutcome(prior)

\* OUTCOME_SUBJECT_MISMATCH, OUTCOME_READBACK_PRECEDES_ADMISSION,
\* SUPERSEDED_OBSERVATION_MISMATCH, SUPERSESSION_REQUIRES_NEWER_EVIDENCE, and the
\* constraint that the request is not older than what it observes.
AdmitsOutcome(r, admission, readback) ==
    /\ admission.request.of.expects.subject \in {None, readback.request.of.subject}
    /\ Follows(r, admission, readback)
    /\ r.at >= readback.observedAt
    /\ r.of.supersedes # None => Supersedes(r.of, readback)

RecordOutcome(h) ==
    LET r == request[h]
        readback == Receipt("READBACK", r.of.readback)
    IN  /\ pc[h] = "locked"
        /\ r.of.scope = "OUTCOME"
        /\ readback # NoReceipt
        /\ \E admission \in Eligible(r.of) :
            /\ AdmitsOutcome(r, admission, readback)
            /\ Insert(h, [request |-> r, observedAt |-> readback.observedAt,
                          classification |-> Classification(r.of, admission.request.of.expects, readback)])
        /\ UNCHANGED now

\* A check of the outcome, or the constraint, refuses it: nothing is written.
RefuseOutcome(h) ==
    LET r == request[h]
        readback == Receipt("READBACK", r.of.readback)
    IN  /\ pc[h] = "locked"
        /\ r.of.scope = "OUTCOME"
        /\ readback # NoReceipt =>
                \A admission \in Eligible(r.of) : ~AdmitsOutcome(r, admission, readback)
        /\ Finish(h, "REFUSED")
        /\ UNCHANGED <<now, rows>>

\* A unique index refuses the row: an error without a domain code.
Duplicate(h) ==
    /\ pc[h] = "locked"
    /\ \/ Existing(h) # NoReceipt
       \/ request[h].of.scope = "ADMISSION" /\ ~OperationUnused(h)
    /\ Finish(h, "DUPLICATE")
    /\ UNCHANGED <<now, rows>>

\* The handler fails, or its process ends: rolled back.
Fail(h) ==
    /\ pc[h] # "idle"
    /\ Finish(h, "ERROR")
    /\ UNCHANGED <<now, rows>>

-------------------------------------------------------------------------------
\* The owner of a subject creates or changes it.
ChangeSource(s) ==
    /\ source[s] < MaxVersion
    /\ source' = [source EXCEPT ![s] = @ + 1]
    /\ UNCHANGED <<told, now, receipts, conflicts, handler>>

Tick ==
    /\ now < MaxTime
    /\ now' = now + 1
    /\ UNCHANGED <<told, rows, handler>>

Next ==
    \/ \E h \in Handlers :
        \/ Receive(h) \/ TurnAway(h) \/ Evaluate(h) \/ Enter(h) \/ Replay(h) \/ KeyConflict(h)
        \/ RecordReadback(h) \/ RecordAdmission(h) \/ RecordOutcome(h)
        \/ RefuseOutcome(h) \/ Duplicate(h) \/ Fail(h)
    \/ \E s \in Subjects : ChangeSource(s)
    \/ Tick

Spec == Init /\ [][Next]_vars

-------------------------------------------------------------------------------
\* Every variable keeps its type.
TypeOK ==
    /\ now \in Times
    /\ source \in [Subjects -> Versions]
    /\ DOMAIN receipts = Scopes
    /\ receipts["READBACK"] \in [Keys -> ReadbackReceipt \cup {NoReceipt}]
    /\ receipts["ADMISSION"] \in [Keys -> AdmissionReceipt \cup {NoReceipt}]
    /\ receipts["OUTCOME"] \in [Keys -> OutcomeReceipt \cup {NoReceipt}]
    /\ conflicts \subseteq Request
    /\ pc \in [Handlers -> Phases]
    /\ request \in [Handlers -> Request \cup {NoRequest}]
    /\ found \in [Handlers -> SUBSET Keys]
    /\ stamp \in [Handlers -> Times]
    /\ view \in [Handlers -> View]
    /\ told \subseteq Telling

\* An admission rests on sources that were read less than a window before the
\* decision, however long the readback waited between its stamp and its source.
AdmittedOnCurrentEvidence ==
    \A a \in Recorded("ADMISSION") :
        a.status = "ADMITTED_NO_EFFECT" =>
            \A k \in a.consumed :
                LET e == Receipt("READBACK", k)
                IN  e.readAt <= a.decidedAt /\ a.decidedAt < e.readAt + Window

\* The admission an outcome is about and the readback it rests on.
AdmissionOf(o) == CHOOSE a \in Recorded("ADMISSION") :
                      a.request.of.operation = o.request.of.operation
ReadbackOf(o)  == Receipt("READBACK", o.request.of.readback)

\* An outcome rests on evidence independent of its admission: never on a readback
\* the admission itself consumed.
IndependentEvidence ==
    \A o \in Recorded("OUTCOME") :
        o.request.of.readback \notin AdmissionOf(o).request.of.evidence

\* An outcome that confirms or refutes shows the expected subject as it was at
\* the decision or later, never an older version of it; within the millisecond of
\* the decision the two may cross.
ConcludedAfterDecision ==
    \A o \in Recorded("OUTCOME") :
        o.classification \in {"CONFIRMED", "REFUTED"} =>
            /\ ReadbackOf(o).request.of.subject = AdmissionOf(o).request.of.expects.subject
            /\ \/ ReadbackOf(o).version >= AdmissionOf(o).shown
               \/ ReadbackOf(o).readAt = AdmissionOf(o).decidedAt

\* What a client was told stays so, whatever happens after: the receipt holds its
\* exact request, and an outcome is verified whenever it is read back; or the
\* conflict is on record beside the receipt it ran into.
Stands(t) ==
    /\ Stored(t.request) # NoReceipt
    /\ t.onRecord = "RECEIPT" =>
            /\ Stored(t.request).request = t.request
            /\ t.request.of.scope = "OUTCOME" => ReadOutcome(t.request.of.key) = "VERIFIED"
    /\ t.onRecord = "CONFLICT" =>
            /\ Stored(t.request).request # t.request
            /\ t.request \in conflicts

AnswersAreDurable == \A t \in told : Stands(t)
===============================================================================
