------------------------- MODULE CommandLedger_proofs -------------------------
(***************************************************************************)
(* What CommandLedger guarantees for any number of concurrent requests,    *)
(* command bodies, rows and connections.                                   *)
(*                                                                         *)
(* The argument: the lock on the key makes a handler that found no receipt *)
(* the only one that may write one, and the locks on the rows keep the     *)
(* check of the owner true until the commit.  Both are statements about    *)
(* what is still to come, so they join the properties in IInv.             *)
(***************************************************************************)
EXTENDS CommandLedger, FiniteSetTheorems, TLAPS

Fresh(r) == r.key \notin Accepted

\* A handler knows its request, and tells nothing before it is done.
RequestsAreKnown ==
    \A h \in Handlers :
        /\ pc[h] # "idle" => request[h] \in Requests /\ answer[h] = "NONE"
        /\ answer[h] \in Tellings => request[h] \in Requests

\* Locks exclude each other.
KeysExclude ==
    \A g, h \in Handlers :
        g # h /\ pc[g] \in {"mutate", "commit"} /\ pc[h] \in {"mutate", "commit"} =>
            request[g].key # request[h].key

RowsExclude ==
    \A g, h \in Handlers :
        g # h /\ pc[g] = "commit" /\ pc[h] = "commit" =>
            /\ request[g].object # request[h].object
            /\ request[g].source = request[h].source => request[g].source = NoLead

\* What a handler found out under its locks stays true while it holds them.
FoundNoReceipt ==
    \A h \in Handlers : pc[h] \in {"mutate", "commit"} => Fresh(request[h])

CheckedOwner ==
    \A h \in Handlers : pc[h] = "commit" => Admits(request[h])

FoundReceipt ==
    \A h \in Handlers :
        /\ pc[h] = "read back" => ~Fresh(request[h]) /\ SamePayload(h)
        /\ pc[h] = "record conflict" => ~Fresh(request[h]) /\ ~SamePayload(h)

\* A receipt is one of a well-formed create or update.
ReceiptsAreSound ==
    \A k \in Accepted : receipts[k].source # NoLead => receipts[k].object \in Cases

TypeInv == TypeOK /\ RequestsAreKnown

LockInv == KeysExclude /\ RowsExclude /\ FoundNoReceipt /\ CheckedOwner /\ FoundReceipt

LedgerInv ==
    NoLostUpdate /\ OneCasePerLead /\ CommittedAnswers /\ ConflictAnswers /\ ReceiptsAreSound

IInv == TypeInv /\ LockInv /\ LedgerInv

\* The receipts of an owner row can be counted, for commands came one by one.
ReceiptsOn(o) == {k \in Accepted : receipts[k].object = o}

EffectInv == IsFiniteSet(Accepted) /\ EveryEffectHasReceipt

-------------------------------------------------------------------------------
(***************************************************************************)
(* Every step either leaves the ledger alone, or writes one command, or    *)
(* records a conflict, or is the UI's.                                     *)
(***************************************************************************)

\* One handler moves, the others stay as they are.
OnlyMoves(h) ==
    /\ pc' = [pc EXCEPT ![h] = pc'[h]]
    /\ request' = [request EXCEPT ![h] = request'[h]]
    /\ answer' = [answer EXCEPT ![h] = answer'[h]]
    /\ replay' \in [Handlers -> BOOLEAN]

Finishes(h, a) ==
    /\ pc'[h] = "idle" /\ answer'[h] = a
    /\ request'[h] = IF a \in Tellings THEN request[h] ELSE NoRequest

Advances(h, phase) ==
    /\ pc'[h] = phase /\ answer'[h] = answer[h] /\ request'[h] = request[h]

\* The steps of a handler that change nothing durable.
Quiet(h) ==
    /\ UNCHANGED ledger
    /\ \/ /\ pc[h] = "idle" /\ pc'[h] = "begin" /\ answer'[h] = "NONE"
          /\ request'[h] \in Requests
       \/ pc[h] = "begin" /\ Advances(h, "find")
       \/ /\ pc[h] = "find" /\ \A g \in Others(h) : ~HoldsKey(g, request[h].key)
          /\ Fresh(request[h]) /\ Advances(h, "mutate")
       \/ pc[h] = "find" /\ ~Fresh(request[h]) /\ SamePayload(h) /\ Advances(h, "read back")
       \/ pc[h] = "find" /\ ~Fresh(request[h]) /\ ~SamePayload(h) /\ Advances(h, "record conflict")
       \/ pc[h] = "mutate" /\ RowsGranted(h) /\ Admits(request[h]) /\ Advances(h, "commit")
       \/ pc[h] = "mutate" /\ Finishes(h, "REJECTED")
       \/ /\ pc[h] = "read back"
          /\ \E a \in {"CONFIRMED", "REPLAYED", "READBACK_UNCONFIRMED"} : Finishes(h, a)
       \/ pc[h] # "idle" /\ \E a \in {"NONE", "ERROR"} : Finishes(h, a)

Writes(h) ==
    /\ pc[h] = "commit" /\ Write(h)
    /\ Advances(h, "read back") \/ Finishes(h, "ERROR")

Records(h) ==
    /\ pc[h] = "record conflict"
    /\ conflicts' = conflicts \cup
          {<<request[h].key, receipts[request[h].key].payload, request[h].payload>>}
    /\ UNCHANGED <<receipts, version, origin, external>>
    /\ Finishes(h, "IDEMPOTENCY_CONFLICT")

HandlerStep(h) == OnlyMoves(h) /\ (Quiet(h) \/ Writes(h) \/ Records(h))

LEMMA StepCases ==
    ASSUME TypeInv, Next
    PROVE  (\E h \in Handlers : HandlerStep(h)) \/ (\E o \in Objects : ExternalWrite(o))
<1>1. CASE \E o \in Objects : ExternalWrite(o)
  BY <1>1
<1>2. ASSUME NEW h \in Handlers,
             Receive(h) \/ Handle(h) \/ CommitUnacknowledged(h) \/ DatabaseFails(h) \/ Crash(h)
      PROVE  HandlerStep(h)
  <2> USE DEF TypeInv, TypeOK, Finish, Goto, Finishes, Advances, Quiet, OnlyMoves, Tellings
  <2>1. CASE Receive(h)
    BY <2>1 DEF Receive, HandlerStep
  <2>2. CASE Begin(h)
    BY <2>2 DEF Begin, HandlerStep
  <2>3. CASE FindReceipt(h)
    BY <2>3 DEF FindReceipt, HandlerStep, Fresh
  <2>4. CASE MutateOwner(h)
    BY <2>4 DEF MutateOwner, HandlerStep
  <2>5. CASE RejectMutation(h)
    BY <2>5 DEF RejectMutation, HandlerStep
  <2>6. CASE Commit(h)
    BY <2>6 DEF Commit, HandlerStep, Writes
  <2>7. CASE CommandReused(h)
    BY <2>7 DEF CommandReused, HandlerStep
  <2>8. CASE CommitUnacknowledged(h)
    BY <2>8 DEF CommitUnacknowledged, HandlerStep, Writes
  <2>9. CASE RecordConflict(h)
    BY <2>9 DEF RecordConflict, HandlerStep, Records
  <2>10. CASE Readback(h)
    BY <2>10 DEF Readback, HandlerStep
  <2>11. CASE DatabaseFails(h) \/ Crash(h)
    BY <2>11 DEF DatabaseFails, Crash, HandlerStep
  <2> QED
    BY <1>2, <2>1, <2>2, <2>3, <2>4, <2>5, <2>6, <2>7, <2>8, <2>9, <2>10, <2>11 DEF Handle
<1> QED
  BY <1>1, <1>2 DEF Next
-------------------------------------------------------------------------------
(***************************************************************************)
(* Types.                                                                  *)
(***************************************************************************)
LEMMA RequestType ==
    ASSUME NEW r \in Requests
    PROVE  /\ r \in Request /\ r.key \in Keys /\ r.command \in Commands
           /\ r.payload \in Payloads /\ r.object \in Objects /\ r.expects \in Nat
           /\ r.source \in Leads \cup {NoLead} /\ r.sourceVersion \in Nat
BY RequestAssumption DEF Request

LEMMA AcceptedReceipt ==
    ASSUME TypeOK, NEW k \in Accepted
    PROVE  /\ k \in Keys /\ receipts[k] \in Receipt
           /\ receipts[k].payload \in Payloads /\ receipts[k].object \in Objects
           /\ receipts[k].version \in Nat /\ receipts[k].expects \in Nat
           /\ receipts[k].source \in Leads \cup {NoLead}
<1>1. k \in Keys /\ receipts[k].accepted
  BY DEF Accepted
<1>2. receipts[k] \in Receipt \cup {NoReceipt}
  BY <1>1 DEF TypeOK
<1>3. receipts[k] # NoReceipt
  BY <1>1 DEF NoReceipt
<1>4. receipts[k] \in Receipt
  BY <1>2, <1>3
<1> QED
  BY <1>1, <1>4 DEF Receipt

LEMMA IInvInit == Init => IInv
<1> SUFFICES ASSUME Init PROVE IInv
  OBVIOUS
<1>1. Accepted = {}
  BY DEF Init, Accepted, NoReceipt
<1>2. TypeInv
  BY DEF Init, TypeInv, TypeOK, RequestsAreKnown, Phases, Answers, Tellings
<1>3. LockInv
  BY DEF Init, LockInv, KeysExclude, RowsExclude, FoundNoReceipt, CheckedOwner, FoundReceipt
<1>4. LedgerInv
  BY <1>1 DEF Init, LedgerInv, NoLostUpdate, OneCasePerLead, CommittedAnswers,
              ConflictAnswers, ReceiptsAreSound
<1> QED
  BY <1>2, <1>3, <1>4 DEF IInv

\* The request of a handler that is at work.
LEMMA AtWork ==
    ASSUME TypeInv, NEW h \in Handlers, pc[h] # "idle"
    PROVE  /\ request[h] \in Requests /\ request[h].key \in Keys
           /\ request[h].payload \in Payloads /\ request[h].object \in Objects
           /\ answer[h] = "NONE"
BY RequestType DEF TypeInv, RequestsAreKnown

LEMMA WriteType ==
    ASSUME TypeInv, NEW h \in Handlers, pc[h] = "commit", Write(h)
    PROVE  /\ receipts' \in [Keys -> Receipt \cup {NoReceipt}]
           /\ conflicts' = conflicts
           /\ version' \in [Objects -> Nat]
           /\ origin' \in [Leads -> Cases \cup {NoCase}]
           /\ external' = external
<1> DEFINE r == request[h]
<1>1. r \in Requests
  BY AtWork
<1>2. version[r.object] \in Nat
  BY <1>1, RequestType DEF TypeInv, TypeOK
<1>3. ReceiptOf(r, version[r.object] + 1) \in Receipt
  BY <1>1, <1>2, RequestType DEF ReceiptOf, Receipt
<1>4. r.source # NoLead => r.object \in Cases
  BY <1>1, RequestAssumption
<1> QED
  BY <1>1, <1>2, <1>3, <1>4, RequestType DEF Write, TypeInv, TypeOK

LEMMA TypeStep == IInv /\ [Next]_vars => TypeInv'
<1> SUFFICES ASSUME IInv, [Next]_vars PROVE TypeInv'
  OBVIOUS
<1>1. TypeInv
  BY DEF IInv
<1>2. CASE UNCHANGED vars
  BY <1>1, <1>2 DEF vars, TypeInv, TypeOK, RequestsAreKnown
<1>3. CASE \E o \in Objects : ExternalWrite(o)
  BY <1>1, <1>3 DEF ExternalWrite, TypeInv, TypeOK, RequestsAreKnown
<1>4. ASSUME NEW h \in Handlers, HandlerStep(h) PROVE TypeInv'
  <2>1. OnlyMoves(h)
    BY <1>4 DEF HandlerStep
  <2>2. /\ pc'[h] \in Phases /\ answer'[h] \in Answers
        /\ request'[h] \in Requests \cup {NoRequest}
        /\ pc'[h] # "idle" => request'[h] \in Requests /\ answer'[h] = "NONE"
        /\ answer'[h] \in Tellings => request'[h] \in Requests
    BY <1>1, <1>4, AtWork
       DEF HandlerStep, Quiet, Writes, Records, Finishes, Advances, Phases, Answers,
           Tellings, TypeInv, TypeOK
  <2>3. /\ pc' \in [Handlers -> Phases] /\ answer' \in [Handlers -> Answers]
        /\ request' \in [Handlers -> Requests \cup {NoRequest}]
        /\ replay' \in [Handlers -> BOOLEAN]
    BY <1>1, <2>1, <2>2 DEF OnlyMoves, TypeInv, TypeOK
  <2>4. RequestsAreKnown'
    BY <1>1, <2>1, <2>2 DEF OnlyMoves, TypeInv, TypeOK, RequestsAreKnown
  <2>5. /\ receipts' \in [Keys -> Receipt \cup {NoReceipt}]
        /\ conflicts' \subseteq {c \in Keys \X Payloads \X Payloads : c[2] # c[3]}
        /\ version' \in [Objects -> Nat] /\ external' \in [Objects -> Nat]
        /\ origin' \in [Leads -> Cases \cup {NoCase}]
    <3>1. CASE Quiet(h)
      BY <1>1, <3>1 DEF Quiet, ledger, TypeInv, TypeOK
    <3>2. CASE Writes(h)
      BY <1>1, <3>2, WriteType DEF Writes, TypeInv, TypeOK
    <3>3. CASE Records(h)
      <4>1. /\ request[h].key \in Keys /\ request[h].payload \in Payloads
            /\ request[h].key \in Accepted
            /\ receipts[request[h].key].payload # request[h].payload
        BY <1>1, <3>3, AtWork DEF Records, IInv, LockInv, FoundReceipt, Fresh, SamePayload
      <4>2. receipts[request[h].key].payload \in Payloads
        BY <1>1, <4>1, AcceptedReceipt DEF TypeInv
      <4>3. <<request[h].key, receipts[request[h].key].payload, request[h].payload>>
              \in {c \in Keys \X Payloads \X Payloads : c[2] # c[3]}
        BY <4>1, <4>2
      <4> QED
        BY <1>1, <3>3, <4>3 DEF Records, TypeInv, TypeOK
    <3> QED
      BY <1>4, <3>1, <3>2, <3>3 DEF HandlerStep
  <2> QED
    BY <2>3, <2>4, <2>5 DEF TypeInv, TypeOK
<1> QED
  BY <1>1, <1>2, <1>3, <1>4, StepCases

-------------------------------------------------------------------------------
(***************************************************************************)
(* Locks.                                                                  *)
(***************************************************************************)
\* What a commit does to the ledger.
LEMMA WriteEffect ==
    ASSUME IInv, NEW h \in Handlers, Writes(h)
    PROVE  LET r == request[h] IN
           /\ r \in Requests /\ r.key \notin Accepted
           /\ Accepted' = Accepted \cup {r.key}
           /\ receipts'[r.key] = ReceiptOf(r, version[r.object] + 1)
           /\ \A k \in Keys \ {r.key} : receipts'[k] = receipts[k]
           /\ version'[r.object] = version[r.object] + 1
           /\ \A o \in Objects \ {r.object} : version'[o] = version[o]
           /\ r.source # NoLead => origin'[r.source] = r.object
           /\ \A l \in Leads \ {r.source} : origin'[l] = origin[l]
           /\ conflicts' = conflicts
<1> DEFINE r == request[h]
<1>1. TypeOK /\ r \in Requests /\ r.key \in Keys /\ r.object \in Objects
  BY AtWork DEF IInv, TypeInv, Writes
<1>2. r.key \notin Accepted
  BY <1>1 DEF IInv, LockInv, FoundNoReceipt, Fresh, Writes
<1>3. /\ receipts'[r.key] = ReceiptOf(r, version[r.object] + 1)
      /\ \A k \in Keys \ {r.key} : receipts'[k] = receipts[k]
      /\ version'[r.object] = version[r.object] + 1
      /\ \A o \in Objects \ {r.object} : version'[o] = version[o]
      /\ conflicts' = conflicts
  BY <1>1 DEF Writes, Write, TypeOK
<1>4. Accepted' = Accepted \cup {r.key}
  <2>1. receipts'[r.key].accepted
    BY <1>3 DEF ReceiptOf
  <2> QED
    BY <1>1, <1>3, <2>1 DEF Accepted
<1>5. /\ r.source # NoLead => origin'[r.source] = r.object
      /\ \A l \in Leads \ {r.source} : origin'[l] = origin[l]
  BY <1>1, RequestType DEF Writes, Write, TypeOK
<1> QED
  BY <1>1, <1>2, <1>3, <1>4, <1>5

\* The other handlers in a step of h.
LEMMA Elsewhere ==
    ASSUME TypeInv, NEW h \in Handlers, HandlerStep(h), NEW g \in Handlers \ {h}
    PROVE  pc'[g] = pc[g] /\ request'[g] = request[g] /\ answer'[g] = answer[g]
BY DEF HandlerStep, OnlyMoves, TypeInv, TypeOK

\* Receipts only ever come to the ledger, and stay as they are.
LEMMA ReceiptsStay ==
    ASSUME IInv, NEW h \in Handlers, HandlerStep(h)
    PROVE  /\ Accepted \subseteq Accepted'
           /\ \A k \in Accepted : receipts'[k] = receipts[k]
           /\ Writes(h) \/ (Accepted' = Accepted /\ receipts' = receipts
                            /\ version' = version /\ origin' = origin)
<1>1. CASE Quiet(h) \/ Records(h)
  BY <1>1 DEF Quiet, Records, ledger, Accepted
<1>2. CASE Writes(h)
  <2>1. \A k \in Accepted : k \in Keys /\ k # request[h].key
    BY <1>2, WriteEffect DEF Accepted
  <2> QED
    BY <1>2, <2>1, WriteEffect
<1> QED
  BY <1>1, <1>2 DEF HandlerStep

LEMMA LockStep == IInv /\ [Next]_vars => LockInv'
<1> SUFFICES ASSUME IInv, [Next]_vars PROVE LockInv'
  OBVIOUS
<1>1. TypeInv /\ TypeOK
  BY DEF IInv, TypeInv
<1>2. CASE UNCHANGED vars
  BY <1>2 DEF vars, IInv, LockInv, KeysExclude, RowsExclude, FoundNoReceipt, CheckedOwner,
              FoundReceipt, Fresh, Accepted, Admits, SourceAdmits, SamePayload
<1>3. ASSUME NEW o \in Objects, ExternalWrite(o) PROVE LockInv'
  <2>1. CheckedOwner'
    <3> SUFFICES ASSUME NEW h \in Handlers, pc'[h] = "commit" PROVE Admits(request[h])'
      BY DEF CheckedOwner
    <3>1. pc[h] = "commit" /\ request'[h] = request[h] /\ Admits(request[h])
      BY <1>3 DEF ExternalWrite, IInv, LockInv, CheckedOwner
    <3>2. request[h].object # o /\ request[h].source # o
      BY <1>3, <3>1 DEF ExternalWrite, HoldsRow, HoldsSource
    <3>3. request[h].object \in Objects /\ request[h].source \in Leads \cup {NoLead}
      BY <1>1, <3>1, AtWork, RequestType
    <3> QED
      BY <1>1, <1>3, <3>1, <3>2, <3>3
         DEF ExternalWrite, Admits, SourceAdmits, TypeOK, Objects
  <2> QED
    BY <1>3, <2>1 DEF ExternalWrite, IInv, LockInv, KeysExclude, RowsExclude, FoundNoReceipt,
                      FoundReceipt, Fresh, Accepted, SamePayload
<1>4. ASSUME NEW h \in Handlers, HandlerStep(h) PROVE LockInv'
  <2>1. \A g \in Handlers \ {h} :
          pc'[g] = pc[g] /\ request'[g] = request[g] /\ answer'[g] = answer[g]
    BY <1>1, <1>4, Elsewhere
  <2>2. \/ pc'[h] \notin {"mutate", "commit", "read back", "record conflict"}
        \/ pc[h] # "idle" /\ request'[h] = request[h]
    BY <1>4 DEF HandlerStep, Quiet, Writes, Records, Finishes, Advances
  <2>3. KeysExclude'
    <3>1. ASSUME NEW g \in Handlers \ {h}, pc[g] \in {"mutate", "commit"},
                 pc'[h] \in {"mutate", "commit"}
          PROVE  request[g].key # request'[h].key
      <4>1. CASE pc[h] \in {"mutate", "commit"}
        BY <2>2, <3>1, <4>1 DEF IInv, LockInv, KeysExclude
      <4>2. CASE pc[h] = "find"
        BY <1>4, <2>2, <3>1, <4>2
           DEF HandlerStep, Quiet, Writes, Records, Finishes, Advances, Others, HoldsKey
      <4> QED
        BY <1>4, <3>1, <4>1, <4>2
           DEF HandlerStep, Quiet, Writes, Records, Finishes, Advances
    <3> QED
      BY <2>1, <3>1 DEF KeysExclude, IInv, LockInv
  <2>4. RowsExclude'
    <3>1. ASSUME NEW g \in Handlers \ {h}, pc[g] = "commit", pc'[h] = "commit"
          PROVE  /\ request[g].object # request'[h].object
                 /\ request[g].source = request'[h].source => request[g].source = NoLead
      BY <1>4, <2>2, <3>1
         DEF HandlerStep, Quiet, Writes, Records, Finishes, Advances, RowsGranted, HoldsRow,
             HoldsSource, Others
    <3> QED
      BY <2>1, <3>1 DEF RowsExclude, IInv, LockInv
  <2>5. FoundNoReceipt'
    <3> SUFFICES ASSUME NEW g \in Handlers, pc'[g] \in {"mutate", "commit"}
                 PROVE  request'[g].key \notin Accepted'
      BY DEF FoundNoReceipt, Fresh
    <3>1. CASE Writes(h)
      <4>1. g # h /\ pc[g] \in {"mutate", "commit"} /\ pc[h] = "commit"
        BY <2>1, <3>1 DEF Writes, Advances, Finishes
      <4>2. request[g].key # request[h].key /\ request[g].key \notin Accepted
        BY <4>1 DEF IInv, LockInv, KeysExclude, FoundNoReceipt, Fresh
      <4> QED
        BY <2>1, <3>1, <4>1, <4>2, WriteEffect
    <3>2. CASE Accepted' = Accepted /\ ~Writes(h)
      BY <1>4, <2>1, <2>2, <3>2
         DEF HandlerStep, Quiet, Records, Finishes, Advances, IInv, LockInv, FoundNoReceipt, Fresh
    <3> QED
      BY <1>4, <3>1, <3>2, ReceiptsStay
  <2>6. CheckedOwner'
    <3> SUFFICES ASSUME NEW g \in Handlers, pc'[g] = "commit" PROVE Admits(request[g])'
      BY DEF CheckedOwner
    <3>1. CASE Writes(h)
      <4>1. g # h /\ pc[g] = "commit" /\ pc[h] = "commit" /\ request'[g] = request[g]
        BY <2>1, <3>1 DEF Writes, Advances, Finishes
      <4>2. /\ Admits(request[g]) /\ Admits(request[h])
            /\ request[g].object # request[h].object
            /\ request[g].source = request[h].source => request[g].source = NoLead
        BY <4>1 DEF IInv, LockInv, CheckedOwner, RowsExclude
      <4>3. /\ request[g] \in Requests /\ request[h] \in Requests
            /\ request[g].object \in Objects
            /\ request[g].source \in Leads \cup {NoLead}
        BY <1>1, <4>1, AtWork, RequestType
      <4>4. request[g].source # NoLead => request[g].source # request[h].object
        <5>1. request[g].source # NoLead => version[request[g].source] > 0
          BY <4>2 DEF Admits, SourceAdmits
        <5>2. request[h].object \in Leads => version[request[h].object] = 0
          BY <4>2, <4>3, RequestAssumption DEF Admits
        <5> QED
          BY <4>3, <5>1, <5>2
      <4> QED
        BY <3>1, <4>1, <4>2, <4>3, <4>4, WriteEffect DEF Admits, SourceAdmits, Objects
    <3>2. CASE version' = version /\ origin' = origin /\ ~Writes(h)
      BY <1>4, <2>1, <2>2, <3>2
         DEF HandlerStep, Quiet, Records, Finishes, Advances, IInv, LockInv, CheckedOwner,
             Admits, SourceAdmits
    <3> QED
      BY <1>4, <3>1, <3>2, ReceiptsStay
  <2>7. FoundReceipt'
    <3> SUFFICES ASSUME NEW g \in Handlers
                 PROVE  /\ pc'[g] = "read back" => ~Fresh(request[g])' /\ SamePayload(g)'
                        /\ pc'[g] = "record conflict" => ~Fresh(request[g])' /\ ~SamePayload(g)'
      BY DEF FoundReceipt
    <3>1. CASE pc[g] = pc'[g] /\ request'[g] = request[g]
      <4>1. /\ Accepted \subseteq Accepted'
            /\ \A k \in Accepted : receipts'[k] = receipts[k]
        BY <1>4, ReceiptsStay
      <4>2. /\ pc[g] = "read back" => ~Fresh(request[g]) /\ SamePayload(g)
            /\ pc[g] = "record conflict" => ~Fresh(request[g]) /\ ~SamePayload(g)
        BY DEF IInv, LockInv, FoundReceipt
      <4> QED
        BY ONLY <3>1, <4>1, <4>2 DEF Fresh, SamePayload
    <3>2. CASE g = h /\ Writes(h)
      <4>1. /\ pc'[h] # "record conflict"
            /\ pc'[h] = "read back" => request'[h] = request[h]
        BY <3>2 DEF Writes, Advances, Finishes
      <4>2. request[h].key \in Accepted'
        BY <3>2, WriteEffect
      <4>3. receipts'[request[h].key] = ReceiptOf(request[h], version[request[h].object] + 1)
        BY <3>2, WriteEffect
      <4>4. receipts'[request[h].key].payload = request[h].payload
        BY <4>3 DEF ReceiptOf
      <4> QED
        BY <3>2, <4>1, <4>2, <4>4 DEF Fresh, SamePayload
    <3>3. CASE g = h /\ ~Writes(h) /\ pc'[h] \in {"read back", "record conflict"}
      <4>1. /\ pc[h] = "find" /\ request'[h] = request[h] /\ ~Fresh(request[h])
            /\ pc'[h] = "read back" => SamePayload(h)
            /\ pc'[h] = "record conflict" => ~SamePayload(h)
        BY <1>4, <3>3 DEF HandlerStep, Quiet, Records, Finishes, Advances
      <4>2. Accepted' = Accepted /\ receipts' = receipts
        BY <1>4, <3>3, ReceiptsStay
      <4> QED
        BY <3>3, <4>1, <4>2 DEF Fresh, SamePayload
    <3> QED
      BY <1>4, <2>1, <3>1, <3>2, <3>3
  <2> QED
    BY <2>3, <2>4, <2>5, <2>6, <2>7 DEF LockInv
<1> QED
  BY <1>1, <1>2, <1>3, <1>4, StepCases

-------------------------------------------------------------------------------
(***************************************************************************)
(* The ledger.                                                             *)
(***************************************************************************)

\* The two properties a commit could break.
LEMMA WriteStep ==
    ASSUME IInv, NEW h \in Handlers, Writes(h)
    PROVE  (NoLostUpdate /\ OneCasePerLead /\ ReceiptsAreSound)'
<1> DEFINE r == request[h]
           v == version[r.object] + 1
<1>1. TypeOK /\ r \in Requests /\ r.object \in Objects /\ version[r.object] \in Nat
  BY AtWork DEF IInv, TypeInv, TypeOK, Writes
<1>2. Admits(r)
  BY DEF Writes, IInv, LockInv, CheckedOwner
<1>3. /\ Accepted' = Accepted \cup {r.key} /\ r.key \notin Accepted
      /\ receipts'[r.key] = ReceiptOf(r, v)
      /\ version'[r.object] = v
      /\ \A o \in Objects \ {r.object} : version'[o] = version[o]
      /\ r.source # NoLead => origin'[r.source] = r.object
      /\ \A l \in Leads \ {r.source} : origin'[l] = origin[l]
  BY WriteEffect
<1>4. \A k \in Accepted : receipts'[k] = receipts[k] /\ k # r.key
  <2>1. \A k \in Accepted : k \in Keys /\ k # r.key
    BY <1>3 DEF Accepted
  <2> QED
    BY <2>1, WriteEffect
<1>5. /\ receipts'[r.key].version = v /\ receipts'[r.key].expects = r.expects
      /\ receipts'[r.key].object = r.object /\ receipts'[r.key].source = r.source
  BY <1>3 DEF ReceiptOf
<1>6. \A k \in Accepted :
        /\ receipts[k].object \in Objects /\ receipts[k].version \in Nat
        /\ receipts[k].source \in Leads \cup {NoLead}
        /\ receipts[k].version = receipts[k].expects + 1
        /\ receipts[k].version <= version[receipts[k].object]
  BY <1>1, AcceptedReceipt DEF IInv, LedgerInv, NoLostUpdate
<1>7. NoLostUpdate'
  <2>1. v = r.expects + 1
    BY <1>2 DEF Admits
  <2>2. \A k \in Accepted : receipts[k].version <= version'[receipts[k].object]
    BY <1>1, <1>3, <1>6
  <2>3. \A k \in Accepted : receipts[k].object = r.object => receipts[k].version # v
    BY <1>1, <1>6
  <2>4. \A k \in Accepted : \A j \in Accepted \ {k} :
          receipts[j].object = receipts[k].object => receipts[j].version # receipts[k].version
    BY DEF IInv, LedgerInv, NoLostUpdate
  <2>5. ASSUME NEW k \in Accepted'
        PROVE  /\ receipts'[k].version = receipts'[k].expects + 1
               /\ receipts'[k].version <= version'[receipts'[k].object]
    BY <1>1, <1>3, <1>4, <1>5, <1>6, <2>1, <2>2, <2>5
  <2>6. ASSUME NEW k \in Accepted', NEW j \in Accepted' \ {k},
               receipts'[j].object = receipts'[k].object
        PROVE  receipts'[j].version # receipts'[k].version
    BY <1>3, <1>4, <1>5, <2>3, <2>4, <2>6
  <2> QED
    BY <2>5, <2>6 DEF NoLostUpdate
<1>8. OneCasePerLead'
  <2> SUFFICES ASSUME NEW l \in Leads, NEW k \in Accepted', receipts'[k].source = l
               PROVE  origin'[l] = receipts'[k].object
    BY DEF OneCasePerLead
  <2>1. l # NoLead
    BY RowAssumption
  <2>2. CASE k = r.key
    BY <1>3, <1>5, <2>1, <2>2
  <2>3. CASE k \in Accepted
    <3>1. receipts[k].source = l /\ origin[l] = receipts[k].object
      BY <1>4, <2>3 DEF IInv, LedgerInv, OneCasePerLead
    <3>2. origin[l] \in Cases
      BY <2>1, <2>3, <3>1 DEF IInv, LedgerInv, ReceiptsAreSound
    <3>3. l # r.source
      BY <1>2, <2>1, <3>2, RowAssumption DEF Admits, SourceAdmits
    <3> QED
      BY <1>3, <1>4, <2>3, <3>1, <3>3
  <2> QED
    BY <1>3, <2>2, <2>3
<1>9. ReceiptsAreSound'
  <2>1. r.source # NoLead => r.object \in Cases
    BY <1>1, RequestAssumption
  <2> QED
    BY <1>3, <1>4, <1>5, <2>1 DEF ReceiptsAreSound, IInv, LedgerInv
<1> QED
  BY <1>7, <1>8, <1>9

LEMMA LedgerStep == IInv /\ [Next]_vars => LedgerInv'
<1> SUFFICES ASSUME IInv, [Next]_vars PROVE LedgerInv'
  OBVIOUS
<1>1. TypeInv /\ TypeOK
  BY DEF IInv, TypeInv
<1>2. CASE UNCHANGED vars
  BY <1>2 DEF vars, IInv, LedgerInv, NoLostUpdate, OneCasePerLead, CommittedAnswers,
              ConflictAnswers, ReceiptsAreSound, Accepted, SamePayload
<1>3. ASSUME NEW o \in Objects, ExternalWrite(o) PROVE LedgerInv'
  <2>1. Accepted' = Accepted /\ receipts' = receipts
    BY <1>3 DEF ExternalWrite, Accepted
  <2>2. \A k \in Accepted :
          receipts[k].version \in Nat /\ receipts[k].object \in Objects
    BY <1>1, AcceptedReceipt
  <2>3. \A p \in Objects : version[p] \in Nat /\ version'[p] \in Nat /\ version[p] <= version'[p]
    BY <1>1, <1>3 DEF ExternalWrite, TypeOK
  <2>4. NoLostUpdate'
    BY <2>1, <2>2, <2>3 DEF IInv, LedgerInv, NoLostUpdate
  <2> QED
    BY <1>3, <2>1, <2>4
       DEF ExternalWrite, IInv, LedgerInv, OneCasePerLead, CommittedAnswers,
           ConflictAnswers, ReceiptsAreSound, SamePayload
<1>4. ASSUME NEW h \in Handlers, HandlerStep(h) PROVE LedgerInv'
  <2>1. \A g \in Handlers \ {h} :
          pc'[g] = pc[g] /\ request'[g] = request[g] /\ answer'[g] = answer[g]
    BY <1>1, <1>4, Elsewhere
  <2>2. /\ Accepted \subseteq Accepted'
        /\ \A k \in Accepted : receipts'[k] = receipts[k]
    BY <1>4, ReceiptsStay
  <2>3. (NoLostUpdate /\ OneCasePerLead /\ ReceiptsAreSound)'
    <3>1. CASE Writes(h)
      BY <3>1, WriteStep
    <3>2. CASE Accepted' = Accepted /\ receipts' = receipts /\ version' = version
               /\ origin' = origin
      BY <3>2 DEF IInv, LedgerInv, NoLostUpdate, OneCasePerLead, ReceiptsAreSound
    <3> QED
      BY <1>4, <3>1, <3>2, ReceiptsStay
  <2>4. CommittedAnswers'
    <3> SUFFICES ASSUME NEW g \in Handlers,
                        answer'[g] \in {"CONFIRMED", "REPLAYED", "READBACK_UNCONFIRMED"}
                 PROVE  request'[g].key \in Accepted' /\ SamePayload(g)'
      BY DEF CommittedAnswers, SamePayload
    <3>1. request'[g] = request[g] /\ request[g].key \in Accepted /\ SamePayload(g)
      <4>1. CASE g # h
        BY <2>1, <4>1 DEF IInv, LedgerInv, CommittedAnswers, SamePayload
      <4>2. CASE g = h
        <5>1. pc[h] = "read back" /\ request'[h] = request[h]
          BY <1>1, <1>4, <4>2, AtWork
             DEF HandlerStep, Quiet, Writes, Records, Finishes, Advances, Tellings
        <5> QED
          BY <4>2, <5>1 DEF IInv, LockInv, FoundReceipt, Fresh
      <4> QED
        BY <4>1, <4>2
    <3> QED
      BY <2>2, <3>1 DEF SamePayload
  <2>5. ConflictAnswers'
    <3> SUFFICES ASSUME NEW g \in Handlers, answer'[g] = "IDEMPOTENCY_CONFLICT"
                 PROVE  /\ request'[g].key \in Accepted'
                        /\ <<request'[g].key, receipts'[request'[g].key].payload,
                             request'[g].payload>> \in conflicts'
      BY DEF ConflictAnswers
    <3>1. conflicts \subseteq conflicts'
      BY <1>4 DEF HandlerStep, Quiet, Writes, Write, Records, ledger
    <3>2. /\ request'[g] = request[g] /\ request[g].key \in Accepted
          /\ <<request[g].key, receipts[request[g].key].payload, request[g].payload>>
                \in conflicts'
      <4>1. CASE g # h
        BY <2>1, <3>1, <4>1 DEF IInv, LedgerInv, ConflictAnswers
      <4>2. CASE g = h
        <5>1. Records(h)
          BY <1>1, <1>4, <4>2, AtWork
             DEF HandlerStep, Quiet, Writes, Finishes, Advances
        <5> QED
          BY <4>2, <5>1 DEF Records, Finishes, Tellings, IInv, LockInv, FoundReceipt, Fresh
      <4> QED
        BY <4>1, <4>2
    <3> QED
      BY <2>2, <3>2
  <2> QED
    BY <2>3, <2>4, <2>5 DEF LedgerInv
<1> QED
  BY <1>1, <1>2, <1>3, <1>4, StepCases

LEMMA Invariance == Spec => []IInv
<1>1. IInv /\ [Next]_vars => IInv'
  BY TypeStep, LockStep, LedgerStep DEF IInv
<1> QED
  BY IInvInit, <1>1, PTL DEF Spec

-------------------------------------------------------------------------------
(***************************************************************************)
(* Effects and receipts.                                                   *)
(***************************************************************************)
LEMMA EffectInit == Init => EffectInv
<1> SUFFICES ASSUME Init PROVE EffectInv
  OBVIOUS
<1>1. Accepted = {}
  BY DEF Init, Accepted, NoReceipt
<1>2. IsFiniteSet({}) /\ Cardinality({}) = 0
  BY FS_EmptySet
<1>3. \A o \in Objects : {k \in Accepted : receipts[k].object = o} = {}
  BY <1>1
<1>4. \A o \in Objects : version[o] = 0 /\ external[o] = 0
  BY DEF Init
<1> QED
  BY <1>1, <1>2, <1>3, <1>4 DEF EffectInv, EveryEffectHasReceipt

LEMMA Counted ==
    ASSUME IsFiniteSet(Accepted), NEW o
    PROVE  IsFiniteSet(ReceiptsOn(o)) /\ Cardinality(ReceiptsOn(o)) \in Nat
<1>1. ReceiptsOn(o) \in SUBSET Accepted
  BY DEF ReceiptsOn
<1>2. IsFiniteSet(ReceiptsOn(o))
  BY <1>1, FS_Subset
<1> QED
  BY <1>2, FS_CardinalityType

\* A commit adds one version to one row and one receipt to that row.
LEMMA WriteCounts ==
    ASSUME IInv, EffectInv, NEW h \in Handlers, Writes(h)
    PROVE  EffectInv'
<1> DEFINE r == request[h]
           k == r.key
<1>1. TypeOK /\ r \in Requests /\ r.object \in Objects
  BY AtWork DEF IInv, TypeInv, Writes
<1>2. /\ k \notin Accepted
      /\ Accepted' = Accepted \cup {k}
      /\ receipts'[k].object = r.object
      /\ version'[r.object] = version[r.object] + 1
      /\ \A o \in Objects \ {r.object} : version'[o] = version[o]
  <2>1. receipts'[k] = ReceiptOf(r, version[r.object] + 1)
    BY WriteEffect
  <2>2. receipts'[k].object = r.object
    BY <2>1 DEF ReceiptOf
  <2> QED
    BY <2>2, WriteEffect
<1>3. \A j \in Accepted : receipts'[j] = receipts[j]
  <2>1. \A j \in Accepted : j \in Keys /\ j # k
    BY <1>2 DEF Accepted
  <2> QED
    BY <2>1, WriteEffect
<1>4. external' = external
  BY DEF Writes, Write
<1>5. IsFiniteSet(Accepted)
  BY DEF EffectInv
<1> HIDE DEF k
<1>6. IsFiniteSet(Accepted')
  BY <1>2, <1>5, FS_AddElement
<1>7. ASSUME NEW o \in Objects
      PROVE  version'[o] = external'[o] + Cardinality(ReceiptsOn(o)')
  <2>1. version[o] = external[o] + Cardinality(ReceiptsOn(o))
    BY DEF EffectInv, EveryEffectHasReceipt, ReceiptsOn
  <2>2. IsFiniteSet(ReceiptsOn(o)) /\ Cardinality(ReceiptsOn(o)) \in Nat
    BY <1>5, Counted
  <2>3. version[o] \in Nat /\ external[o] \in Nat
    BY <1>1 DEF TypeOK
  <2>4. CASE o = r.object
    <3>1. ReceiptsOn(o)' = ReceiptsOn(o) \cup {k}
      BY <1>2, <1>3, <2>4 DEF ReceiptsOn
    <3>2. k \notin ReceiptsOn(o)
      BY <1>2 DEF ReceiptsOn
    <3>3. Cardinality(ReceiptsOn(o) \cup {k}) = Cardinality(ReceiptsOn(o)) + 1
      BY <2>2, <3>2, FS_AddElement
    <3> QED
      BY <1>2, <1>4, <2>1, <2>2, <2>3, <2>4, <3>1, <3>3
  <2>5. CASE o # r.object
    <3>1. ReceiptsOn(o)' = ReceiptsOn(o)
      BY <1>2, <1>3, <2>5 DEF ReceiptsOn
    <3> QED
      BY <1>2, <1>4, <2>1, <2>5, <3>1
  <2> QED
    BY <2>4, <2>5
<1> QED
  BY <1>6, <1>7 DEF EffectInv, EveryEffectHasReceipt, ReceiptsOn

LEMMA EffectStep == IInv /\ EffectInv /\ [Next]_vars => EffectInv'
<1> SUFFICES ASSUME IInv, EffectInv, [Next]_vars PROVE EffectInv'
  OBVIOUS
<1>1. TypeInv /\ TypeOK
  BY DEF IInv, TypeInv
<1>2. CASE UNCHANGED <<receipts, version, external>>
  BY <1>2 DEF EffectInv, EveryEffectHasReceipt, Accepted
<1>3. ASSUME NEW p \in Objects, ExternalWrite(p) PROVE EffectInv'
  <2>1. UNCHANGED receipts /\ Accepted' = Accepted
    BY <1>3 DEF ExternalWrite, Accepted
  <2>2. ASSUME NEW o \in Objects
        PROVE  version'[o] = external'[o] + Cardinality(ReceiptsOn(o)')
    <3>1. version[o] = external[o] + Cardinality(ReceiptsOn(o))
      BY DEF EffectInv, EveryEffectHasReceipt, ReceiptsOn
    <3>2. Cardinality(ReceiptsOn(o)) \in Nat
      BY Counted DEF EffectInv
    <3>3. ReceiptsOn(o)' = ReceiptsOn(o)
      BY <2>1 DEF ReceiptsOn
    <3>4. version[o] \in Nat /\ external[o] \in Nat
      BY <1>1 DEF TypeOK
    <3>5. \/ version'[o] = version[o] /\ external'[o] = external[o]
          \/ version'[o] = version[o] + 1 /\ external'[o] = external[o] + 1
      BY <1>1, <1>3 DEF ExternalWrite, TypeOK
    <3> QED
      BY <3>1, <3>2, <3>3, <3>4, <3>5
  <2> QED
    BY <2>1, <2>2 DEF EffectInv, EveryEffectHasReceipt, ReceiptsOn
<1>4. ASSUME NEW h \in Handlers, HandlerStep(h) PROVE EffectInv'
  <2>1. CASE Quiet(h) \/ Records(h)
    BY <1>2, <2>1 DEF Quiet, Records, ledger
  <2>2. CASE Writes(h)
    BY <2>2, WriteCounts
  <2> QED
    BY <1>4, <2>1, <2>2 DEF HandlerStep
<1>5. CASE UNCHANGED vars
  BY <1>2, <1>5 DEF vars
<1> QED
  BY <1>1, <1>3, <1>4, <1>5, StepCases

-------------------------------------------------------------------------------
(***************************************************************************)
(* The theorems.                                                           *)
(***************************************************************************)

\* Rows, receipts and conflicts keep their types, and a recorded conflict is one.
THEOREM TypeCorrect == Spec => []TypeOK
<1>1. IInv => TypeOK
  BY DEF IInv, TypeInv
<1> QED
  BY Invariance, <1>1, PTL

\* However many callers and UI writes interleave, an accepted command changed
\* the version its caller expected, and none was overwritten by another.
THEOREM NoLostUpdateCorrect == Spec => []NoLostUpdate
<1>1. IInv => NoLostUpdate
  BY DEF IInv, LedgerInv
<1> QED
  BY Invariance, <1>1, PTL

\* All accepted creates that name a lead created the case of its identity.
THEOREM OneCasePerLeadCorrect == Spec => []OneCasePerLead
<1>1. IInv => OneCasePerLead
  BY DEF IInv, LedgerInv
<1> QED
  BY Invariance, <1>1, PTL

\* An answer that speaks of a commit speaks of the payload of this caller.
THEOREM CommittedAnswersCorrect == Spec => []CommittedAnswers
<1>1. IInv => CommittedAnswers
  BY DEF IInv, LedgerInv
<1> QED
  BY Invariance, <1>1, PTL

\* A conflict is answered only when its evidence is durable.
THEOREM ConflictAnswersCorrect == Spec => []ConflictAnswers
<1>1. IInv => ConflictAnswers
  BY DEF IInv, LedgerInv
<1> QED
  BY Invariance, <1>1, PTL

\* The lock on the key serialises retries: the owner never refuses a command
\* that was accepted before.
THEOREM AcceptedIsNeverRefusedCorrect == Spec => AcceptedIsNeverRefused
<1>1. ASSUME IInv, [Next]_vars, NEW g \in Handlers,
             pc[g] # "idle", pc'[g] = "idle", answer'[g] = "REJECTED"
      PROVE  request[g].key \notin Accepted
  <2>1. TypeInv
    BY <1>1 DEF IInv
  <2>2. answer[g] = "NONE"
    BY <1>1, <2>1, AtWork
  <2>3. CASE UNCHANGED vars
    BY <1>1, <2>3 DEF vars
  <2>4. CASE \E o \in Objects : ExternalWrite(o)
    BY <1>1, <2>4 DEF ExternalWrite
  <2>5. ASSUME NEW h \in Handlers, HandlerStep(h)
        PROVE  pc[g] = "mutate"
    <3>1. g = h
      BY <1>1, <2>1, <2>2, <2>5, Elsewhere
    <3> QED
      BY <1>1, <2>2, <2>5, <3>1 DEF HandlerStep, Quiet, Writes, Records, Finishes, Advances
  <2> QED
    BY <1>1, <2>1, <2>3, <2>4, <2>5, StepCases DEF IInv, LockInv, FoundNoReceipt, Fresh
<1>2. IInv /\ [Next]_vars =>
        [\A h \in Handlers :
            pc[h] # "idle" /\ pc'[h] = "idle" /\ answer'[h] = "REJECTED" =>
                request[h].key \notin Accepted]_vars
  BY <1>1
<1> QED
  BY Invariance, <1>2, PTL DEF Spec, AcceptedIsNeverRefused

\* The share lock on the lead keeps the check of its version true until the commit.
THEOREM CreatedFromExactLeadCorrect == Spec => CreatedFromExactLead
<1>1. ASSUME IInv, [Next]_vars, NEW k \in Keys,
             k \notin Accepted, receipts'[k].accepted, receipts'[k].source # NoLead
      PROVE  version[receipts'[k].source] = receipts'[k].sourceVersion
  <2>1. TypeInv
    BY <1>1 DEF IInv
  <2>2. k \in Accepted'
    BY <1>1 DEF Accepted
  <2>3. Accepted' # Accepted
    BY <1>1, <2>2
  <2>4. CASE UNCHANGED vars \/ \E o \in Objects : ExternalWrite(o)
    BY <2>3, <2>4 DEF vars, ExternalWrite, Accepted
  <2>5. ASSUME NEW h \in Handlers, HandlerStep(h)
        PROVE  version[receipts'[k].source] = receipts'[k].sourceVersion
    <3>1. Writes(h)
      BY <1>1, <2>3, <2>5, ReceiptsStay
    <3>2. k = request[h].key
      BY <1>1, <2>2, <3>1, WriteEffect
    <3>3. receipts'[k] = ReceiptOf(request[h], version[request[h].object] + 1)
      BY <1>1, <3>1, <3>2, WriteEffect
    <3>4. receipts'[k].source = request[h].source
          /\ receipts'[k].sourceVersion = request[h].sourceVersion
      BY <3>3 DEF ReceiptOf
    <3> QED
      BY <1>1, <3>1, <3>4 DEF Writes, IInv, LockInv, CheckedOwner, Admits, SourceAdmits
  <2> QED
    BY <1>1, <2>1, <2>4, <2>5, StepCases
<1>2. IInv /\ [Next]_vars =>
        [\A k \in Keys :
            k \notin Accepted /\ receipts'[k].accepted /\ receipts'[k].source # NoLead =>
                version[receipts'[k].source] = receipts'[k].sourceVersion]_vars
  BY <1>1
<1> QED
  BY Invariance, <1>2, PTL DEF Spec, CreatedFromExactLead

\* What a caller is told, of a commit or of a conflict, is durable when it is told.
THEOREM AnswersAreDurableCorrect == Spec => []AnswersAreDurable
<1>1. CommittedAnswers /\ ConflictAnswers => AnswersAreDurable
  BY DEF AnswersAreDurable
<1> QED
  BY <1>1, CommittedAnswersCorrect, ConflictAnswersCorrect, PTL

\* Every version of an owner row that the UI did not write has its receipt, and
\* every receipt its version, through crashes, commits whose answer is lost and
\* commands that are sent again (insertAccepted in the transaction of the owner).
THEOREM EveryEffectHasReceiptCorrect == Spec => []EveryEffectHasReceipt
<1>1. IInv /\ EffectInv /\ [Next]_vars => EffectInv'
  BY EffectStep
<1>2. EffectInv => EveryEffectHasReceipt
  BY DEF EffectInv
<1> QED
  BY EffectInit, Invariance, <1>1, <1>2, PTL DEF Spec

\* Neither a retry nor a write of the UI gets between the check of a command and
\* its commit.
THEOREM CheckedWhenCommittedCorrect == Spec => CheckedWhenCommitted
  BY AcceptedIsNeverRefusedCorrect, CreatedFromExactLeadCorrect DEF CheckedWhenCommitted
===============================================================================
