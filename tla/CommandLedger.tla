----------------------------- MODULE CommandLedger -----------------------------
(***************************************************************************)
(* The P110 command ledger with Leads and Commercial Cases as owner rows.  *)
(*                                                                         *)
(* LifecycleCommandKernel.execute runs one transaction: it takes an        *)
(* advisory lock on the idempotency key, looks the receipt up, lets the    *)
(* owner change its row, and inserts receipt, event and outbox message.    *)
(* The transaction is several steps here, because other API requests and   *)
(* the writer of the UI run between its statements; locks decide what they *)
(* may touch.  After the commit the store reads the row back in a second   *)
(* transaction; a payload conflict is recorded in another one after the    *)
(* rollback.  Every transaction needs a connection of the pool.            *)
(***************************************************************************)
EXTENDS Integers, FiniteSets

CONSTANTS
    Handlers,     \* concurrent API requests
    Requests,     \* command bodies that callers send, and send again
    Keys,         \* idempotency keys of one tenant
    Commands,     \* command ids
    Payloads,     \* payload hashes
    Leads, Cases, \* owner rows
    NoLead, NoCase,
    PoolSize,     \* DATABASE_POOL_MAX
    MaxVersion    \* bound: the UI writes a row up to this version

Objects == Leads \cup Cases

\* expects = 0 stands for ABSENT, the expected version of a create command.
Request ==
    [key : Keys, command : Commands, payload : Payloads, object : Objects,
     expects : Nat, source : Leads \cup {NoLead}, sourceVersion : Nat]

ASSUME RequestAssumption ==
    /\ Requests \subseteq Request
    /\ \A r \in Requests : r.source # NoLead => r.object \in Cases
    /\ \A r \in Requests : r.object \in Leads => r.expects = 0

ASSUME RowAssumption ==
    /\ Leads \cap Cases = {}
    /\ NoLead \notin Leads
    /\ NoCase \notin Cases
    /\ PoolSize \in Nat \ {0}
    /\ MaxVersion \in Nat

NoReceipt == [accepted |-> FALSE]
NoRequest == [received |-> FALSE]

VARIABLES
    receipts,     \* p110_command_receipts, with their event and outbox rows
    conflicts,    \* p110_idempotency_conflicts
    version,      \* version[o]: version of the owner row, 0 when absent
    origin,       \* commercial_case_identities: the case that came from a lead
    external,     \* how often the UI wrote the row (bookkeeping)
    pc,           \* where a handler is
    request,      \* what it works on
    replay,       \* whether it found a receipt
    answer        \* what its caller was told

ledger == <<receipts, conflicts, version, origin, external>>
vars == <<receipts, conflicts, version, origin, external, pc, request, replay, answer>>

Phases ==
    {"idle", "begin", "find", "mutate", "commit", "record conflict", "read back"}

Answers ==
    {"NONE", "CONFIRMED", "REPLAYED", "READBACK_UNCONFIRMED", "IDEMPOTENCY_CONFLICT",
     "REJECTED", "ERROR"}

\* Answers that tell a caller of something on record.
Tellings == {"CONFIRMED", "REPLAYED", "READBACK_UNCONFIRMED", "IDEMPOTENCY_CONFLICT"}

\* What insertAccepted stores of a request: the version it committed is added.
ReceiptOf(r, v) ==
    [accepted |-> TRUE, command |-> r.command, payload |-> r.payload,
     object |-> r.object, expects |-> r.expects, version |-> v,
     source |-> r.source, sourceVersion |-> r.sourceVersion]

Receipt ==
    [accepted : {TRUE}, command : Commands, payload : Payloads, object : Objects,
     expects : Nat, version : Nat, source : Leads \cup {NoLead}, sourceVersion : Nat]

Accepted == {k \in Keys : receipts[k].accepted}

Init ==
    /\ receipts = [k \in Keys |-> NoReceipt]
    /\ conflicts = {}
    /\ version = [o \in Objects |-> 0]
    /\ origin = [l \in Leads |-> NoCase]
    /\ external = [o \in Objects |-> 0]
    /\ pc = [h \in Handlers |-> "idle"]
    /\ request = [h \in Handlers |-> NoRequest]
    /\ replay = [h \in Handlers |-> FALSE]
    /\ answer = [h \in Handlers |-> "NONE"]

-------------------------------------------------------------------------------
(***************************************************************************)
(* Connections and locks.  Both are given back at commit and at rollback.  *)
(***************************************************************************)
\* Mutant: a request keeps its connection until it is answered, and asks for a
\* second one to read its row back or to record a conflict.
ConnectedUntilAnswered == {h \in Handlers : pc[h] \notin {"idle", "begin"}}

Connected == {h \in Handlers : pc[h] \in {"find", "mutate", "commit"}}

\* databasePool().connect() has a connection to give.
ConnectionFree == Cardinality(Connected) < PoolSize

\* Mutant: no advisory lock.
HoldsNoKey(h, k) == FALSE

\* pg_advisory_xact_lock on tenant and key.
HoldsKey(h, k) == pc[h] \in {"mutate", "commit"} /\ request[h].key = k

\* Mutant: the version is read without "for update".
HoldsNoRow(h, o) == FALSE

\* The row was inserted, or locked "for update".
HoldsRow(h, o) == pc[h] = "commit" /\ request[h].object = o

\* The lead a case is created from is locked "for share"; the identity of the
\* new case makes another case of the same lead wait.
HoldsSource(h, l) == pc[h] = "commit" /\ request[h].source = l

Others(h) == Handlers \ {h}

(***************************************************************************)
(* Owner mutations: executeLeadCreate and mutateCommercialCase.            *)
(***************************************************************************)
\* Mutant: a lead may become several cases.
SourceExists(r) == r.source # NoLead => version[r.source] = r.sourceVersion

\* LEAD_NOT_FOUND, VERSION_CONFLICT, ORIGIN_CONFLICT
SourceAdmits(r) ==
    r.source # NoLead =>
        /\ version[r.source] > 0
        /\ version[r.source] = r.sourceVersion
        /\ origin[r.source] = NoCase

\* OBJECT_EXISTS, CASE_NOT_FOUND, VERSION_CONFLICT
Admits(r) == version[r.object] = r.expects /\ SourceAdmits(r)

\* The handler keeps the request of which it told something, as bookkeeping.
Finish(h, a) ==
    /\ pc' = [pc EXCEPT ![h] = "idle"]
    /\ answer' = [answer EXCEPT ![h] = a]
    /\ replay' = [replay EXCEPT ![h] = FALSE]
    /\ request' = [request EXCEPT ![h] = IF a \in Tellings THEN @ ELSE NoRequest]

Goto(h, phase) ==
    /\ pc' = [pc EXCEPT ![h] = phase]
    /\ UNCHANGED <<request, answer>>

-------------------------------------------------------------------------------
\* A caller sends a command, or repeats one with the same key.
Receive(h) ==
    /\ pc[h] = "idle"
    /\ \E r \in Requests : request' = [request EXCEPT ![h] = r]
    /\ pc' = [pc EXCEPT ![h] = "begin"]
    /\ answer' = [answer EXCEPT ![h] = "NONE"]
    /\ UNCHANGED <<ledger, replay>>

Begin(h) ==
    /\ pc[h] = "begin"
    /\ ConnectionFree
    /\ Goto(h, "find")
    /\ UNCHANGED <<ledger, replay>>

\* Mutant: whatever was accepted under the key answers the request.
AnyPayload(h) == TRUE

SamePayload(h) == receipts[request[h].key].payload = request[h].payload

\* findReceipt, once the lock on the key is granted.
FindReceipt(h) ==
    LET k == request[h].key IN
    /\ pc[h] = "find"
    /\ \A g \in Others(h) : ~HoldsKey(g, k)
    /\ \/ /\ k \notin Accepted
          /\ Goto(h, "mutate")
          /\ UNCHANGED replay
       \/ /\ k \in Accepted
          /\ SamePayload(h)
          /\ Goto(h, "read back")
          /\ replay' = [replay EXCEPT ![h] = TRUE]
       \/ /\ k \in Accepted
          /\ ~SamePayload(h)
          /\ Goto(h, "record conflict")
          /\ UNCHANGED replay
    /\ UNCHANGED ledger

RowsGranted(h) ==
    LET r == request[h] IN
    /\ \A g \in Others(h) : ~HoldsRow(g, r.object)
    /\ r.source # NoLead => \A g \in Others(h) : ~HoldsSource(g, r.source)

MutateOwner(h) ==
    /\ pc[h] = "mutate"
    /\ RowsGranted(h)
    /\ Admits(request[h])
    /\ Goto(h, "commit")
    /\ UNCHANGED <<ledger, replay>>

RejectMutation(h) ==
    /\ pc[h] = "mutate"
    /\ RowsGranted(h)
    /\ ~Admits(request[h])
    /\ Finish(h, "REJECTED")
    /\ UNCHANGED ledger

\* unique (tenant_id, command_id)
CommandUnused(r) == \A k \in Accepted : receipts[k].command # r.command

\* The owner row, its identity and the accepted write, all at once.
Write(h) ==
    LET r == request[h] IN
    /\ version' = [version EXCEPT ![r.object] = @ + 1]
    /\ origin' = IF r.source # NoLead THEN [origin EXCEPT ![r.source] = r.object] ELSE origin
    /\ receipts' = [receipts EXCEPT ![r.key] = ReceiptOf(r, version[r.object] + 1)]
    /\ UNCHANGED <<conflicts, external>>

\* Mutant: a command id that was used before is skipped, its effect is not.
CommitIgnoringDuplicate(h) ==
    LET r == request[h] IN
    /\ pc[h] = "commit"
    /\ IF CommandUnused(r) THEN Write(h)
       ELSE /\ version' = [version EXCEPT ![r.object] = @ + 1]
            /\ UNCHANGED <<receipts, conflicts, origin, external>>
    /\ Goto(h, "read back")
    /\ UNCHANGED replay

\* insertAccepted and commit.
Commit(h) ==
    /\ pc[h] = "commit"
    /\ CommandUnused(request[h])
    /\ Write(h)
    /\ Goto(h, "read back")
    /\ UNCHANGED replay

\* The command id was used under another key: rolled back, an error of the database.
CommandReused(h) ==
    /\ pc[h] = "commit"
    /\ ~CommandUnused(request[h])
    /\ Finish(h, "ERROR")
    /\ UNCHANGED ledger

\* The connection breaks while the commit is answered.
CommitUnacknowledged(h) ==
    /\ pc[h] = "commit"
    /\ CommandUnused(request[h])
    /\ Write(h)
    /\ Finish(h, "ERROR")

\* No connection in time, or a statement fails: rolled back, and the caller is told.
DatabaseFails(h) ==
    /\ pc[h] # "idle"
    /\ Finish(h, "ERROR")
    /\ UNCHANGED ledger

\* The process ends: rolled back, and nobody is told anything.
Crash(h) ==
    /\ pc[h] # "idle"
    /\ Finish(h, "NONE")
    /\ UNCHANGED ledger

\* recordConflict, after the rollback, on a connection of its own.
RecordConflict(h) ==
    LET r == request[h] IN
    /\ pc[h] = "record conflict"
    /\ ConnectionFree
    /\ conflicts' = conflicts \cup {<<r.key, receipts[r.key].payload, r.payload>>}
    /\ Finish(h, "IDEMPOTENCY_CONFLICT")
    /\ UNCHANGED <<receipts, version, origin, external>>

\* readLead, readCommercialCase: what a transaction of its own, that locks nothing,
\* finds of a row, whoever wrote it last.
VersionRead(o) == version[o]

\* A replay is not compared with the receipt.
Readback(h) ==
    LET r == request[h]
        matches == VersionRead(r.object) = receipts[r.key].version
    IN
    /\ pc[h] = "read back"
    /\ ConnectionFree
    /\ Finish(h, IF replay[h] THEN "REPLAYED"
                 ELSE IF matches THEN "CONFIRMED" ELSE "READBACK_UNCONFIRMED")
    /\ UNCHANGED ledger

\* The UI, still the active writer, creates leads and changes rows nobody locks.
ExternalWrite(o) ==
    /\ version[o] < MaxVersion
    /\ o \in Cases => version[o] > 0
    /\ \A h \in Handlers : ~HoldsRow(h, o) /\ ~HoldsSource(h, o)
    /\ version' = [version EXCEPT ![o] = @ + 1]
    /\ external' = [external EXCEPT ![o] = @ + 1]
    /\ UNCHANGED <<receipts, conflicts, origin, pc, request, replay, answer>>

-------------------------------------------------------------------------------
Handle(h) ==
    \/ Begin(h) \/ FindReceipt(h)
    \/ MutateOwner(h) \/ RejectMutation(h)
    \/ Commit(h) \/ CommandReused(h)
    \/ RecordConflict(h) \/ Readback(h)

Next ==
    \/ \E h \in Handlers : Receive(h) \/ Handle(h) \/ CommitUnacknowledged(h)
                            \/ DatabaseFails(h) \/ Crash(h)
    \/ \E o \in Objects : ExternalWrite(o)

Spec == Init /\ [][Next]_vars

(***************************************************************************)
(* A handler goes on; the pool and the lock queues of Postgres serve every *)
(* waiting handler in turn, hence strong fairness.  Nothing is assumed of  *)
(* callers, failures and the UI.                                           *)
(***************************************************************************)
Fairness == \A h \in Handlers : SF_vars(Handle(h))

FairSpec == Spec /\ Fairness

-------------------------------------------------------------------------------
(***************************************************************************)
(* Safety.                                                                 *)
(***************************************************************************)

\* Every variable keeps its type; a recorded conflict is one (the check of
\* p110_idempotency_conflicts).
TypeOK ==
    /\ receipts \in [Keys -> Receipt \cup {NoReceipt}]
    /\ conflicts \subseteq {c \in Keys \X Payloads \X Payloads : c[2] # c[3]}
    /\ version \in [Objects -> Nat]
    /\ origin \in [Leads -> Cases \cup {NoCase}]
    /\ external \in [Objects -> Nat]
    /\ pc \in [Handlers -> Phases]
    /\ request \in [Handlers -> Requests \cup {NoRequest}]
    /\ replay \in [Handlers -> BOOLEAN]
    /\ answer \in [Handlers -> Answers]

\* No lost update: an accepted command changed exactly the version its caller
\* expected, and no two accepted commands wrote the same version of a row.
NoLostUpdate ==
    \A k \in Accepted :
        /\ receipts[k].version = receipts[k].expects + 1
        /\ receipts[k].version <= version[receipts[k].object]
        /\ \A j \in Accepted \ {k} :
              receipts[j].object = receipts[k].object =>
                  receipts[j].version # receipts[k].version

\* Owner mutation, event, receipt and outbox share one transaction: whatever
\* the UI did not write has exactly one receipt, through crashes, commits
\* whose answer is lost, and repeated commands.
EveryEffectHasReceipt ==
    \A o \in Objects :
        version[o] = external[o] + Cardinality({k \in Accepted : receipts[k].object = o})

\* A lead becomes at most one Commercial Case, the one its identity names.
OneCasePerLead ==
    \A l \in Leads, k \in Accepted :
        receipts[k].source = l => origin[l] = receipts[k].object

\* A caller is told of a commit only if its own payload was committed, and
\* READBACK_UNCONFIRMED is told of a durable receipt: reconciling first works.
CommittedAnswers ==
    \A h \in Handlers :
        answer[h] \in {"CONFIRMED", "REPLAYED", "READBACK_UNCONFIRMED"} =>
            /\ request[h].key \in Accepted
            /\ receipts[request[h].key].payload = request[h].payload

\* A caller that is told of a conflict finds the receipt and the conflict recorded.
ConflictAnswers ==
    \A h \in Handlers :
        answer[h] = "IDEMPOTENCY_CONFLICT" =>
            /\ request[h].key \in Accepted
            /\ <<request[h].key, receipts[request[h].key].payload, request[h].payload>>
                  \in conflicts

\* What a caller is told is durable, a commit as well as a conflict.
AnswersAreDurable == CommittedAnswers /\ ConflictAnswers

\* Retrying an accepted command, also while the first try is still running,
\* is never refused by the owner: stale-version refusals are told only to
\* commands that were not accepted.
AcceptedIsNeverRefused ==
    [][\A h \in Handlers :
          pc[h] # "idle" /\ pc'[h] = "idle" /\ answer'[h] = "REJECTED" =>
              request[h].key \notin Accepted]_vars

\* A case is created from the lead version its command names, although the
\* UI writes leads between the check and the commit.
CreatedFromExactLead ==
    [][\A k \in Keys :
          k \notin Accepted /\ receipts'[k].accepted /\ receipts'[k].source # NoLead =>
              version[receipts'[k].source] = receipts'[k].sourceVersion]_vars

\* A command is checked against the rows it is about to change, once: neither a
\* retry nor a write of the UI gets between the check and the commit.
CheckedWhenCommitted == AcceptedIsNeverRefused /\ CreatedFromExactLead

(***************************************************************************)
(* Liveness, under FairSpec.                                               *)
(***************************************************************************)

\* No request waits for ever for a key, a row or a connection.
EveryRequestIsAnswered ==
    \A h \in Handlers : pc[h] = "begin" ~> pc[h] = "idle"
===============================================================================
