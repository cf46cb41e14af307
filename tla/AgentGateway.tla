----------------------------- MODULE AgentGateway -----------------------------
(***************************************************************************)
(* The tool gateway of Sultan.  A read is answered from a case and its     *)
(* evidence; a command is prepared as a reservation, approved by a human,  *)
(* and executed once, as an internal action.  An archival command retires  *)
(* an earlier action.                                                      *)
(*                                                                         *)
(* Every request passes several transactions: the admission is checked in  *)
(* one, the case is read in the next, and the reservation is written in a  *)
(* third, by the clock read before it.  An execution verifies its approval *)
(* by one reading of the clock and is stamped by the next.  It locks its   *)
(* reservation, and an archival its case and its target, until it commits. *)
(*                                                                         *)
(* Which admissions Stage 5 has granted is the constant Admissions.        *)
(***************************************************************************)
EXTENDS Integers, FiniteSets

CONSTANTS
    Handlers,     \* concurrent API requests
    Operations,   \* operations of Sultan: one admission, one reservation each
    Cases,        \* business cases
    Calls,        \* names of the tool calls that clients send
    CallOf,       \* the content of each call
    Admissions,   \* admission receipts of Stage 5, at most one per operation
    Legacy,       \* calls reserved before admissions were recorded
    Hold,         \* how long a reservation may be executed: 15 minutes
    AdmissionAge, \* how long an admission is accepted: 5 minutes
    ApprovalAge,  \* the longest life of an approval: 15 minutes
    Skew,         \* how far ahead another clock may be: 30 seconds
    MaxApprovals, \* bound: approvals that are signed
    MaxTime,      \* bound: the clock
    MaxVersion    \* bound: versions of a case

Times    == 0 .. MaxTime
Versions == 0 .. MaxVersion

None == "none"

\* "task" stands for the three tools whose records may be archived: tasks,
\* drafts and proposal revisions; "evidence" for the reads beside the case.
Reads    == {"case_context", "evidence"}
Commands == {"task", "note", "archive"}
Tools    == Reads \cup Commands \cup {"rfq"}

EffectOf(tool) ==
    IF tool \in Reads THEN "A0" ELSE IF tool \in Commands THEN "A1" ELSE "A2"

\* Only the steward of commercial cases has consequential tools; of the
\* others, some read and some have no tool at all.
ToolsFor(type) ==
    CASE type = "COMMERCIAL"               -> Tools
      [] type \in {"FULFILLMENT", "CATALOG_QUALITY"} -> Reads
      [] OTHER                             -> {}

\* A call names its case by its version, 0 for none; an archival also the
\* call whose action it retires.  "affirmed" is the verdict of the critic, "sound" that
\* the arguments fit the schema of the tool, "bound" that identity, run,
\* agent, purpose and context are those of its admission.
Call ==
    [operation : Operations, tool : Tools, case : Cases,
     type : {"COMMERCIAL", "FULFILLMENT", "CATALOG_QUALITY", "OTHER"},
     version : Versions, target : Calls \cup {None},
     affirmed : BOOLEAN, sound : BOOLEAN, bound : BOOLEAN]

\* Its status and phase follow from its effect class; "freshUntil" is the
\* earliest end of its readbacks.
Admission ==
    [operation : Operations, effect : {"A0", "A1", "A2"},
     case : Cases, version : Versions, decided : Times, freshUntil : Times]

ASSUME CallAssumption ==
    /\ CallOf \in [Calls -> Call]
    /\ Legacy \subseteq Calls
    /\ \A c, d \in Legacy : CallOf[c].operation = CallOf[d].operation => c = d
    /\ None \notin Calls
    /\ \A c \in Calls : CallOf[c].tool = "archive" <=> CallOf[c].target # None

ASSUME AdmissionAssumption ==
    /\ Admissions \subseteq Admission
    /\ \A a, b \in Admissions : a.operation = b.operation => a = b

ASSUME NumberAssumption ==
    /\ MaxTime \in Nat /\ MaxVersion \in Nat \ {0} /\ MaxApprovals \in Nat
    /\ Hold \in Nat \ {0} /\ AdmissionAge \in Nat /\ ApprovalAge \in Nat /\ Skew \in Nat

VARIABLES
    now,         \* the clock
    version,     \* commercial_cases.version by case; 0: no such case
    reservation, \* sultan_agent_command_reservations, by operation
    action,      \* sultan_agent_internal_actions, by operation
    approvals,   \* what human operators have signed
    verifiedAt,  \* history: when the approval of an action was verified
    handler,     \* what each request is doing
    answer       \* what each request was last told of an execution

store == <<reservation, action, verifiedAt>>
vars == <<now, version, store, approvals, handler, answer>>

NoRow == [call |-> None]

Reservation ==
    [call : Calls, admitted : BOOLEAN, created : Times,
     state : {"PREPARED", "EXECUTED"}]

\* The payload of an action is the preview of its call.
Action ==
    [call : Calls, state : {"SOURCE_CONFIRMED", "ARCHIVED"}, at : Times]

Approval == [operation : Operations, call : Calls, at : Times, until : Int]

Idle == [pc |-> "idle"]

Work ==
    {Idle}
      \cup [pc : {"admitted"}, call : Calls]
      \cup [pc : {"observed"}, call : Calls, stamp : Times]
      \cup [pc : {"verified"}, operation : Operations, call : Calls, verified : Times]
      \cup [pc : {"approved", "locked"}, operation : Operations, call : Calls,
            verified : Times, stamp : Times]

NoAnswer == [state |-> None]

Answer ==
    {NoAnswer} \cup [operation : Operations, state : {"SOURCE_CONFIRMED", "ARCHIVED"}]

TypeOK ==
    /\ now \in Times
    /\ version \in [Cases -> Versions]
    /\ reservation \in [Operations -> Reservation \cup {NoRow}]
    /\ action \in [Operations -> Action \cup {NoRow}]
    /\ approvals \subseteq Approval
    /\ verifiedAt \in [Operations -> Times]
    /\ handler \in [Handlers -> Work]
    /\ answer \in [Handlers -> Answer]

Init ==
    /\ now = 0
    /\ version \in [Cases -> {0, 1}]
    /\ reservation = [o \in Operations |->
         IF \E c \in Legacy : CallOf[c].operation = o
         THEN [call |-> CHOOSE c \in Legacy : CallOf[c].operation = o,
               admitted |-> FALSE, created |-> 0, state |-> "PREPARED"]
         ELSE NoRow]
    /\ action = [o \in Operations |-> NoRow]
    /\ approvals = {}
    /\ verifiedAt = [o \in Operations |-> 0]
    /\ handler = [h \in Handlers |-> Idle]
    /\ answer = [h \in Handlers |-> NoAnswer]

Finish(h, told) ==
    /\ handler' = [handler EXCEPT ![h] = Idle]
    /\ answer' = [answer EXCEPT ![h] = told]

\* The request ends and nothing was written.
Quit(h) ==
    /\ Finish(h, NoAnswer)
    /\ UNCHANGED <<now, version, store, approvals>>

\* The answer to a commit may be lost on its way: the caller is told that the
\* request failed.
Reply(h, told) ==
    Finish(h, told) \/ Finish(h, NoAnswer)

Outcome(o, state) == [operation |-> o, state |-> state]

\* readInternalActionTx: an action that was archived answers as archived, even to
\* the retry of the command that made it.
Recorded(o) == Outcome(o, action[o].state)
-----------------------------------------------------------------------------
\* Admission and case: invoke and prepare begin alike.

Admits(a, call, t) ==
    /\ call.bound
    /\ a.operation = call.operation
    /\ a.case = call.case /\ a.version = call.version
    /\ a.effect = EffectOf(call.tool)
    /\ a.decided <= t + Skew /\ t - a.decided <= AdmissionAge
    /\ a.freshUntil > t

Receive(h, c) ==
    LET call == CallOf[c]
        passes == /\ call.tool \in ToolsFor(call.type)
                  /\ \E a \in Admissions : Admits(a, call, now)
                  /\ EffectOf(call.tool) = "A0" \/ call.affirmed
    IN  /\ handler[h] = Idle
        /\ \/ /\ passes
              /\ handler' = [handler EXCEPT ![h] = [pc |-> "admitted", call |-> c]]
              /\ UNCHANGED <<now, version, store, approvals, answer>>
           \/ ~passes /\ Quit(h)

\* The case is compared with the version of the call.  A case read is
\* answered at once; a command is stamped and goes on to its reservation.
ReadCase(h) ==
    /\ handler[h].pc = "admitted"
    /\ LET c == handler[h].call
           call == CallOf[c]
           exact == call.version = version[call.case]
           passes == /\ version[call.case] # 0
                     /\ IF EffectOf(call.tool) = "A0" THEN exact \/ call.version = 0
                        ELSE exact /\ call.sound
       IN  \/ ~passes /\ Quit(h)
           \/ /\ passes
              /\ IF call.tool = "case_context"
                 THEN Finish(h, NoAnswer)
                 ELSE /\ handler' = [handler EXCEPT ![h] =
                           [pc |-> "observed", call |-> c, stamp |-> now]]
                      /\ UNCHANGED answer
              /\ UNCHANGED <<now, version, store, approvals>>

\* The evidence of the case is read in a transaction of its own and may be
\* stale; it is bound to the version read before.
ReadEvidence(h) ==
    /\ handler[h].pc = "observed"
    /\ CallOf[handler[h].call].tool = "evidence"
    /\ Quit(h)

\* Mutant: the end of the reservation is stored as its beginning.
PrepareCommandByExpiry(h) ==
    /\ handler[h].pc = "observed"
    /\ LET c == handler[h].call
       IN  /\ reservation[CallOf[c].operation] = NoRow
           /\ reservation' = [reservation EXCEPT ![CallOf[c].operation] =
                [call |-> c, admitted |-> TRUE,
                 created |-> handler[h].stamp + Hold, state |-> "PREPARED"]]
    /\ Finish(h, NoAnswer)
    /\ UNCHANGED <<now, version, action, verifiedAt, approvals>>

\* One reservation per operation: a retry finds it, another command is refused.
PrepareCommand(h) ==
    /\ handler[h].pc = "observed"
    /\ LET c == handler[h].call
           o == CallOf[c].operation
           row == reservation[o]
       IN  /\ CallOf[c].tool # "evidence"
           /\ \/ row # NoRow /\ Quit(h)
              \/ /\ row = NoRow
                 /\ reservation' = [reservation EXCEPT ![o] =
                      [call |-> c, admitted |-> TRUE,
                       created |-> handler[h].stamp, state |-> "PREPARED"]]
                 /\ Finish(h, NoAnswer)
                 /\ UNCHANGED <<now, version, action, verifiedAt, approvals>>
-----------------------------------------------------------------------------
\* Execution.

\* verifyApproval, at a first reading of the clock.
VerifyApproval(h, a) ==
    LET passes == /\ a.at <= now + Skew /\ a.until > now
                  /\ a.until - a.at <= ApprovalAge
    IN  /\ handler[h] = Idle
        /\ \/ /\ passes
              /\ handler' = [handler EXCEPT ![h] =
                   [pc |-> "verified", operation |-> a.operation, call |-> a.call,
                    verified |-> now]]
              /\ UNCHANGED <<now, version, store, approvals, answer>>
           \/ ~passes /\ Quit(h)

\* The execution is stamped by a second reading, when the approval may have
\* ended: nobody looks at it again.
Execute(h) ==
    /\ handler[h].pc = "verified"
    /\ LET w == handler[h]
       IN  handler' = [handler EXCEPT ![h] =
             [pc |-> "approved", operation |-> w.operation, call |-> w.call,
              verified |-> w.verified, stamp |-> now]]
    /\ UNCHANGED <<now, version, store, approvals, answer>>

Holds(h, o) == handler[h].pc = "locked" /\ handler[h].operation = o

\* Mutant: the case is read without a lock.
ReadsOnly(h, case) == FALSE

\* An archival holds its case in share mode until it ends.
Shares(h, case) ==
    /\ handler[h].pc = "locked"
    /\ CallOf[handler[h].call].tool = "archive"
    /\ CallOf[handler[h].call].case = case

\* Mutant: the command is not compared with the reserved one.
ExecutableByOperation(row, c, stamp) ==
    /\ row.admitted
    /\ EffectOf(CallOf[c].tool) = "A1"
    /\ row.created + Hold > stamp

Executable(row, c, stamp) ==
    /\ row.call = c /\ row.admitted
    /\ EffectOf(CallOf[c].tool) = "A1"
    /\ row.created + Hold > stamp

\* An archival finds its case at the version the command was prepared for.
CaseStands(c) ==
    CallOf[c].tool = "archive" => version[CallOf[c].case] = CallOf[c].version

\* The reservation is locked and checked, in the order of the code: expiry
\* comes before the replay of what was executed.
LockReservation(h) ==
    /\ handler[h].pc = "approved"
    /\ LET o == handler[h].operation
           c == handler[h].call
           row == reservation[o]
           checked == row # NoRow /\ Executable(row, c, handler[h].stamp)
       IN  /\ \A g \in Handlers : ~Holds(g, o)
           /\ \/ ~checked /\ Quit(h)
              \/ /\ checked /\ row.state = "EXECUTED"
                 /\ Reply(h, Recorded(o))
                 /\ UNCHANGED <<now, version, store, approvals>>
              \/ /\ checked /\ row.state = "PREPARED" /\ CaseStands(c)
                 /\ handler' = [handler EXCEPT ![h].pc = "locked"]
                 /\ UNCHANGED <<now, version, store, approvals, answer>>
              \/ /\ checked /\ row.state = "PREPARED" /\ ~CaseStands(c)
                 /\ Quit(h)

\* The target of an archival is an action of the same case, on record as the
\* command describes it, and of a kind that may be archived.
MayArchive(c) ==
    LET t == CallOf[c].target
        row == action[CallOf[t].operation]
    IN  /\ row.call = t
        /\ CallOf[t].case = CallOf[c].case
        /\ CallOf[t].tool = "task"

Archived(c) ==
    IF CallOf[c].tool = "archive"
    THEN [action EXCEPT ![CallOf[CallOf[c].target].operation].state = "ARCHIVED"]
    ELSE action

\* Mutant: the caller is answered before the commit, which fails.
CommitExecutionTooLate(h) ==
    /\ handler[h].pc = "locked"
    /\ Finish(h, Outcome(handler[h].operation, "SOURCE_CONFIRMED"))
    /\ UNCHANGED <<now, version, store, approvals>>

\* The target is locked, the action is written, and the whole commits.
CommitExecution(h) ==
    /\ handler[h].pc = "locked"
    /\ LET o == handler[h].operation
           c == handler[h].call
           allowed == CallOf[c].tool = "archive" => MayArchive(c)
       IN  \/ ~allowed /\ Quit(h)
           \/ /\ allowed
              /\ action' = [Archived(c) EXCEPT ![o] =
                   [call |-> c, state |-> "SOURCE_CONFIRMED", at |-> handler[h].stamp]]
              /\ reservation' = [reservation EXCEPT ![o].state = "EXECUTED"]
              /\ verifiedAt' = [verifiedAt EXCEPT ![o] = handler[h].verified]
              /\ Reply(h, Outcome(o, "SOURCE_CONFIRMED"))
              /\ UNCHANGED <<now, version, approvals>>

ReadEffect(h, o) ==
    /\ handler[h] = Idle
    /\ action[o] # NoRow
    /\ Finish(h, Recorded(o))
    /\ UNCHANGED <<now, version, store, approvals>>

\* A connection or a process fails before its commit.
Fail(h) == handler[h] # Idle /\ Quit(h)
-----------------------------------------------------------------------------
\* The surroundings: a human operator signs some command that he was shown
\* under an operation, for some time; the UI moves a case, and waits for
\* those that share it.

Approve(c, at, life) ==
    /\ reservation[CallOf[c].operation] # NoRow
    /\ Cardinality(approvals) < MaxApprovals
    /\ approvals' = approvals \cup
         {[operation |-> CallOf[c].operation, call |-> c, at |-> at,
           until |-> at + life]}
    /\ UNCHANGED <<now, version, store, handler, answer>>

MoveCase(case) ==
    /\ version[case] < MaxVersion
    /\ \A h \in Handlers : ~Shares(h, case)
    /\ version' = [version EXCEPT ![case] = @ + 1]
    /\ UNCHANGED <<now, store, approvals, handler, answer>>

Tick ==
    /\ now < MaxTime
    /\ now' = now + 1
    /\ UNCHANGED <<version, store, approvals, handler, answer>>

Next ==
    \/ \E h \in Handlers :
         \/ \E c \in Calls : Receive(h, c)
         \/ ReadCase(h)
         \/ ReadEvidence(h)
         \/ PrepareCommand(h)
         \/ \E a \in approvals : VerifyApproval(h, a)
         \/ Execute(h)
         \/ LockReservation(h)
         \/ CommitExecution(h)
         \/ \E o \in Operations : ReadEffect(h, o)
         \/ Fail(h)
    \/ \E c \in Calls, at \in Times, life \in {ApprovalAge, ApprovalAge + 1} :
         at \in {now, now + Skew} /\ Approve(c, at, life)
    \/ \E case \in Cases : MoveCase(case)
    \/ Tick

Spec == Init /\ [][Next]_vars
-----------------------------------------------------------------------------
\* An internal action is the command that was reserved under an admission and
\* that a human had approved: the approval, of this very command, was live and
\* short enough when it was verified, which was after the reservation and not
\* after the stamp; the reservation was live at the stamp, however long the
\* execution then waited.
ExecutedAsApproved ==
    \A o \in Operations : action[o] # NoRow =>
        /\ reservation[o].call = action[o].call
        /\ reservation[o].state = "EXECUTED"
        /\ \E m \in Admissions : /\ m.operation = o
                                 /\ m.effect = "A1"
                                 /\ m.version = CallOf[action[o].call].version
        /\ reservation[o].created <= verifiedAt[o]
        /\ verifiedAt[o] <= action[o].at
        /\ action[o].at < reservation[o].created + Hold
        /\ \E a \in approvals : /\ a.operation = o /\ a.call = action[o].call
                                /\ a.at <= verifiedAt[o] + Skew
                                /\ a.until > verifiedAt[o]
                                /\ a.until - a.at <= ApprovalAge

\* What a caller was told of an executed command is on record: the action is
\* there, and one that was reported archived is archived.
AnswersAreDurable ==
    \A h \in Handlers : answer[h] # NoAnswer =>
        LET row == action[answer[h].operation]
        IN  /\ row # NoRow
            /\ answer[h].state = "ARCHIVED" => row.state = "ARCHIVED"

\* Evidence only grows: an action never disappears or changes, but for one
\* archival, by a command for this very action, made at the version of the
\* case that the command was approved for; a note is never archived.
Retires(o, p) ==
    /\ action[p] = NoRow /\ action'[p] # NoRow
    /\ CallOf[action'[p].call].target = action[o].call
    /\ CallOf[action'[p].call].case = CallOf[action[o].call].case
    /\ version[CallOf[action'[p].call].case] = CallOf[action'[p].call].version

ArchivedAtNamedVersion ==
    [][\A o \in Operations :
         action[o] # NoRow /\ action'[o] # action[o] =>
           /\ action'[o] = [action[o] EXCEPT !.state = "ARCHIVED"]
           /\ CallOf[action[o].call].tool # "note"
           /\ \E p \in Operations : Retires(o, p)]_vars
=============================================================================
