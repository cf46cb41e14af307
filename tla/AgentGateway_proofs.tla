------------------------ MODULE AgentGateway_proofs ------------------------
(***************************************************************************)
(* Proofs about AgentGateway, for any requests, calls, cases, admissions   *)
(* and approvals, and any ages.                                            *)
(*                                                                         *)
(* What was checked in an earlier transaction is remembered in what the    *)
(* request carries and in the rows: an admitted reservation has its        *)
(* admission, a request past the check of its approval has the approval,   *)
(* and one that holds the lock of its reservation finds it as it was when  *)
(* the lock was taken, for nobody else may hold it.                        *)
(***************************************************************************)
EXTENDS AgentGateway, TLAPS

\* Stage 5 has admitted the command or the read that the call asks for.
Admitted(c) ==
    \E m \in Admissions : /\ m.operation = CallOf[c].operation
                          /\ m.effect = EffectOf(CallOf[c].tool)
                          /\ m.version = CallOf[c].version

\* A human has signed the call under the operation, and at t the approval was
\* live and the operation reserved.
Approved(o, c, t) ==
    /\ reservation[o] # NoRow /\ reservation[o].created <= t
    /\ \E a \in approvals : /\ a.operation = o /\ a.call = c
                            /\ a.at <= t + Skew /\ a.until > t
                            /\ a.until - a.at <= ApprovalAge

\* A reservation is filed under the operation of its call.
RowInv ==
    \A o \in Operations : reservation[o] # NoRow =>
        /\ CallOf[reservation[o].call].operation = o
        /\ reservation[o].admitted => Admitted(reservation[o].call)
        /\ reservation[o].created <= now

\* A human is shown what is reserved.
ApprovalInv == \A a \in approvals : reservation[a.operation] # NoRow

\* Actions are the executed reservations.
ActionOK(o) ==
    LET row == reservation[o]
    IN  /\ row # NoRow /\ row.state = "EXECUTED"
        /\ Executable(row, action[o].call, action[o].at)
        /\ Approved(o, action[o].call, verifiedAt[o])
        /\ verifiedAt[o] <= action[o].at

ActionInv ==
    \A o \in Operations :
        /\ action[o] # NoRow => ActionOK(o)
        /\ reservation[o] # NoRow /\ reservation[o].state = "EXECUTED" => action[o] # NoRow

\* What a request has passed.
WorkOK(w) ==
    /\ w.pc \in {"admitted", "observed"} => Admitted(w.call)
    /\ w.pc = "observed" => w.stamp <= now
    /\ w.pc \in {"verified", "approved", "locked"} =>
         Approved(w.operation, w.call, w.verified)
    /\ w.pc = "verified" => w.verified <= now
    /\ w.pc \in {"approved", "locked"} => w.verified <= w.stamp
    /\ w.pc = "locked" =>
         /\ reservation[w.operation] # NoRow
         /\ reservation[w.operation].state = "PREPARED"
         /\ Executable(reservation[w.operation], w.call, w.stamp)
         /\ CaseStands(w.call)

WorkInv == \A h \in Handlers : WorkOK(handler[h])

\* One request at a time holds a reservation.
OneHolder ==
    \A g, h \in Handlers :
        handler[h].pc = "locked" /\ Holds(g, handler[h].operation) => g = h

AnswerOK(told) ==
    told # NoAnswer =>
        /\ action[told.operation] # NoRow
        /\ told.state = "ARCHIVED" => action[told.operation].state = "ARCHIVED"

AnswerInv == \A h \in Handlers : AnswerOK(answer[h])

StoreInv == RowInv /\ ApprovalInv /\ ActionInv
IInv == TypeOK /\ StoreInv /\ WorkInv /\ OneHolder /\ AnswerInv

-----------------------------------------------------------------------------
LEMMA CallFacts ==
    ASSUME NEW c \in Calls
    PROVE  /\ CallOf[c] \in Call
           /\ CallOf[c].operation \in Operations
           /\ CallOf[c].case \in Cases
           /\ CallOf[c].tool = "archive" => CallOf[c].target \in Calls
BY CallAssumption DEF Call

\* What a request carries has the types of its columns.
LEMMA WorkFacts ==
    ASSUME NEW w \in Work
    PROVE  /\ w = Idle <=> w.pc = "idle"
           /\ w.pc \in {"idle", "admitted", "observed", "verified", "approved", "locked"}
           /\ w.pc # "idle" => w.call \in Calls
           /\ w.pc \in {"observed", "approved", "locked"} => w.stamp \in Times
           /\ w.pc \in {"verified", "approved", "locked"} =>
                 w.operation \in Operations /\ w.verified \in Times
BY DEF Work, Idle

LEMMA RowFacts ==
    ASSUME TypeOK, NEW o \in Operations
    PROVE  /\ reservation[o] # NoRow <=> reservation[o] \in Reservation
           /\ action[o] # NoRow <=> action[o] \in Action
           /\ reservation[o] = NoRow => reservation[o].call \notin Calls
           /\ action[o] = NoRow => action[o].call \notin Calls
<1>1. NoRow \notin Reservation /\ NoRow \notin Action /\ NoRow.call \notin Calls
  BY CallAssumption DEF NoRow, Reservation, Action
<1> QED BY <1>1 DEF TypeOK

LEMMA NumberFacts ==
    /\ Times \subseteq Int /\ 0 \in Times
    /\ Versions \subseteq Int /\ 0 \in Versions
    /\ Hold \in Int /\ ApprovalAge \in Int
BY NumberAssumption DEF Times, Versions

-----------------------------------------------------------------------------
LEMMA InitHolds == Init => IInv
<1> SUFFICES ASSUME Init PROVE IInv
  OBVIOUS
<1> DEFINE first(o) == CHOOSE c \in Legacy : CallOf[c].operation = o
<1>1. ASSUME NEW o \in Operations, reservation[o] # NoRow
      PROVE  /\ reservation[o] \in Reservation
             /\ CallOf[reservation[o].call].operation = o
             /\ ~ reservation[o].admitted
             /\ reservation[o].created = 0
             /\ reservation[o].state = "PREPARED"
  <2>1. \E c \in Legacy : CallOf[c].operation = o
    BY <1>1 DEF Init
  <2>2. first(o) \in Legacy /\ CallOf[first(o)].operation = o
    BY <2>1
  <2>3. reservation[o] = [call |-> first(o), admitted |-> FALSE,
                          created |-> 0, state |-> "PREPARED"]
    BY <2>1 DEF Init
  <2>4. first(o) \in Calls
    BY <2>2, CallAssumption
  <2> HIDE DEF first
  <2> QED
    BY <2>2, <2>3, <2>4, NumberFacts DEF Reservation
<1>2. TypeOK
  <2>1. version \in [Cases -> Versions]
    <3>1. {0, 1} \subseteq Versions
      BY NumberAssumption DEF Versions
    <3> QED BY <3>1 DEF Init
  <2>2. reservation \in [Operations -> Reservation \cup {NoRow}]
    <3>1. \A o \in Operations : reservation[o] \in Reservation \cup {NoRow}
      BY <1>1
    <3>2. reservation = [o \in Operations |-> reservation[o]]
      BY DEF Init
    <3> QED BY <3>1, <3>2
  <2>3. /\ action \in [Operations -> Action \cup {NoRow}] /\ approvals \subseteq Approval
        /\ verifiedAt \in [Operations -> Times]
    BY NumberFacts DEF Init
  <2>4. handler \in [Handlers -> Work] /\ answer \in [Handlers -> Answer]
    BY DEF Init, Work, Answer
  <2>5. now \in Times
    BY NumberFacts DEF Init
  <2> QED BY <2>1, <2>2, <2>3, <2>4, <2>5 DEF TypeOK
<1>3. RowInv /\ ApprovalInv
  BY <1>1 DEF RowInv, ApprovalInv, Init
<1>4. ActionInv
  BY <1>1 DEF Init, ActionInv
<1>5. WorkInv /\ OneHolder /\ AnswerInv
  BY DEF Init, WorkInv, WorkOK, OneHolder, Holds, AnswerInv, AnswerOK, Idle
<1> QED BY <1>2, <1>3, <1>4, <1>5 DEF IInv, StoreInv

-----------------------------------------------------------------------------
\* A request moves on, or ends, and writes nothing.
LEMMA SameStore ==
    ASSUME IInv, NEW h \in Handlers, NEW w \in Work, NEW told \in Answer,
           WorkOK(w), AnswerOK(told),
           w.pc = "locked" => \A g \in Handlers : ~ Holds(g, w.operation),
           handler' = [handler EXCEPT ![h] = w],
           answer' = [answer EXCEPT ![h] = told],
           UNCHANGED <<now, version, store, approvals>>
    PROVE  IInv'
<1> USE DEF IInv
<1>1. /\ handler'[h] = w /\ \A g \in Handlers \ {h} : handler'[g] = handler[g]
      /\ answer'[h] = told /\ \A g \in Handlers \ {h} : answer'[g] = answer[g]
  BY DEF TypeOK
<1>2. TypeOK'
  BY DEF TypeOK, store
<1>3. StoreInv'
  BY DEF store, StoreInv, RowInv, ApprovalInv, ActionInv, ActionOK, Approved
<1>4. WorkInv'
  <2>1. \A x : WorkOK(x) => WorkOK(x)'
    BY DEF store, WorkOK, Approved, CaseStands
  <2> QED BY <1>1, <2>1 DEF WorkInv
<1>5. OneHolder'
  BY <1>1 DEF OneHolder, Holds
<1>6. AnswerInv'
  <2>1. \A x : AnswerOK(x) => AnswerOK(x)'
    BY DEF store, AnswerOK
  <2> QED BY <1>1, <2>1 DEF AnswerInv
<1> QED BY <1>2, <1>3, <1>4, <1>5, <1>6

LEMMA NothingToSay ==
    /\ Idle \in Work /\ WorkOK(Idle) /\ Idle.pc # "locked"
    /\ NoAnswer \in Answer /\ AnswerOK(NoAnswer)
BY DEF Idle, Work, WorkOK, NoAnswer, Answer, AnswerOK

LEMMA QuitKeeps ==
    ASSUME IInv, NEW h \in Handlers, Quit(h)
    PROVE  IInv'
BY SameStore, NothingToSay DEF Quit, Finish

\* A request moves on, keeping its last answer.
LEMMA MovesOn ==
    ASSUME IInv, NEW h \in Handlers, NEW w \in Work, WorkOK(w),
           w.pc = "locked" => \A g \in Handlers : ~ Holds(g, w.operation),
           handler' = [handler EXCEPT ![h] = w],
           UNCHANGED <<now, version, store, approvals, answer>>
    PROVE  IInv'
<1>1. answer[h] \in Answer /\ AnswerOK(answer[h]) /\ answer' = [answer EXCEPT ![h] = answer[h]]
  BY DEF IInv, TypeOK, AnswerInv
<1> QED BY <1>1, SameStore

\* A request ends with an answer.
LEMMA Answers ==
    ASSUME IInv, NEW h \in Handlers, NEW told \in Answer, AnswerOK(told), Finish(h, told),
           UNCHANGED <<now, version, store, approvals>>
    PROVE  IInv'
BY SameStore, NothingToSay DEF Finish

-----------------------------------------------------------------------------
LEMMA ReceiveKeeps ==
    ASSUME IInv, NEW h \in Handlers, NEW c \in Calls, Receive(h, c)
    PROVE  IInv'
<1>1. CASE Quit(h)
  BY <1>1, QuitKeeps
<1>2. CASE ~ Quit(h)
  <2> DEFINE w == [pc |-> "admitted", call |-> c]
  <2>1. /\ handler' = [handler EXCEPT ![h] = w]
        /\ UNCHANGED <<now, version, store, approvals, answer>>
        /\ \E a \in Admissions : Admits(a, CallOf[c], now)
    BY <1>2 DEF Receive
  <2>2. Admitted(c)
    BY <2>1 DEF Admits, Admitted
  <2>3. w \in Work /\ WorkOK(w) /\ w.pc # "locked"
    BY <2>2 DEF Work, WorkOK
  <2> QED BY <2>1, <2>3, MovesOn
<1> QED BY <1>1, <1>2

LEMMA ReadCaseKeeps ==
    ASSUME IInv, NEW h \in Handlers, ReadCase(h)
    PROVE  IInv'
<1> DEFINE c == handler[h].call
           w == [pc |-> "observed", call |-> c, stamp |-> now]
<1>1. c \in Calls /\ Admitted(c)
  <2>1. handler[h] \in Work /\ handler[h].pc = "admitted"
    BY DEF IInv, TypeOK, ReadCase
  <2> QED BY <2>1, WorkFacts DEF IInv, WorkInv, WorkOK
<1>2. CASE Quit(h)
  BY <1>2, QuitKeeps
<1>3. CASE ~ Quit(h) /\ CallOf[c].tool = "case_context"
  <2>1. Finish(h, NoAnswer) /\ UNCHANGED <<now, version, store, approvals>>
    BY <1>3 DEF ReadCase
  <2> QED BY <2>1, Answers, NothingToSay
<1>4. CASE ~ Quit(h) /\ CallOf[c].tool # "case_context"
  <2>1. /\ handler' = [handler EXCEPT ![h] = w]
        /\ UNCHANGED <<now, version, store, approvals, answer>>
    BY <1>4 DEF ReadCase
  <2>2. w \in Work /\ WorkOK(w) /\ w.pc # "locked"
    BY <1>1, NumberFacts DEF IInv, TypeOK, Work, WorkOK
  <2> QED BY <2>1, <2>2, MovesOn
<1> QED BY <1>2, <1>3, <1>4

\* A reservation is written where there was none; nobody holds it, and it is
\* not executed.
LEMMA PrepareCommandKeeps ==
    ASSUME IInv, NEW h \in Handlers, PrepareCommand(h)
    PROVE  IInv'
<1> USE DEF IInv
<1> DEFINE c == handler[h].call
           o == CallOf[c].operation
           new == [call |-> c, admitted |-> TRUE, created |-> handler[h].stamp,
                   state |-> "PREPARED"]
<1>1. /\ handler[h] \in Work /\ handler[h].pc = "observed"
      /\ c \in Calls /\ o \in Operations /\ Admitted(c) /\ handler[h].stamp \in Times
      /\ handler[h].stamp <= now
  <2>1. handler[h] \in Work /\ handler[h].pc = "observed"
    BY DEF TypeOK, PrepareCommand
  <2>2. c \in Calls /\ handler[h].stamp \in Times
    BY <2>1, WorkFacts
  <2>3. Admitted(c) /\ handler[h].stamp <= now
    BY <2>1 DEF WorkInv, WorkOK
  <2> QED BY <2>1, <2>2, <2>3, CallFacts
<1>2. CASE Quit(h)
  BY <1>2, QuitKeeps
<1>3. CASE ~ Quit(h)
  <2>1. /\ reservation[o] = NoRow
        /\ reservation' = [reservation EXCEPT ![o] = new]
        /\ Finish(h, NoAnswer)
        /\ UNCHANGED <<now, version, action, verifiedAt, approvals>>
    BY <1>3 DEF PrepareCommand
  <2>2. new \in Reservation /\ new # NoRow
    BY <1>1, RowFacts DEF Reservation, NoRow
  <2>3. reservation'[o] = new /\ \A p \in Operations \ {o} : reservation'[p] = reservation[p]
    BY <1>1, <2>1 DEF TypeOK
  <2>4. /\ handler'[h] = Idle /\ \A g \in Handlers \ {h} : handler'[g] = handler[g]
        /\ answer'[h] = NoAnswer /\ \A g \in Handlers \ {h} : answer'[g] = answer[g]
    BY <2>1 DEF TypeOK, Finish
  <2>5. TypeOK'
    BY <2>1, <2>2, NothingToSay DEF TypeOK, Finish
  <2>6. RowInv'
    BY <1>1, <2>1, <2>3 DEF StoreInv, RowInv
  <2>12. ApprovalInv'
    BY <1>1, <2>1, <2>2, <2>3 DEF TypeOK, Approval, StoreInv, ApprovalInv
  <2>7. action[o] = NoRow
    BY <1>1, <2>1 DEF StoreInv, ActionInv, ActionOK
  <2>8. ActionInv'
    <3>1. \A p \in Operations \ {o} : ActionOK(p) => ActionOK(p)'
      BY <2>1, <2>3 DEF ActionOK, Approved
    <3> QED BY <2>1, <2>3, <2>7, <3>1 DEF StoreInv, ActionInv
  <2>9. WorkInv'
    <3> SUFFICES ASSUME NEW g \in Handlers, g # h PROVE WorkOK(handler[g])'
      BY <2>4, NothingToSay DEF WorkInv, WorkOK, Idle
    <3>1. handler[g] \in Work /\ WorkOK(handler[g]) /\ handler'[g] = handler[g]
      BY <2>4 DEF TypeOK, WorkInv
    <3>2. handler[g].pc \in {"verified", "approved", "locked"} =>
             handler[g].operation \in Operations /\ handler[g].operation # o
      BY <2>1, <3>1, WorkFacts DEF WorkOK, Approved
    <3> QED BY <2>1, <2>3, <3>1, <3>2 DEF WorkOK, Approved, CaseStands
  <2>10. OneHolder'
    BY <2>4 DEF OneHolder, Holds, Idle
  <2>11. AnswerInv'
    BY <2>1, <2>4 DEF AnswerInv, AnswerOK
  <2> QED BY <2>5, <2>6, <2>12, <2>8, <2>9, <2>10, <2>11 DEF StoreInv
<1> QED BY <1>2, <1>3

-----------------------------------------------------------------------------
\* Who is shown a reservation has it.
LEMMA VerifyApprovalKeeps ==
    ASSUME IInv, NEW h \in Handlers, NEW a \in approvals, VerifyApproval(h, a)
    PROVE  IInv'
<1> DEFINE w == [pc |-> "verified", operation |-> a.operation, call |-> a.call, verified |-> now]
<1>1. CASE Quit(h)
  BY <1>1, QuitKeeps
<1>2. CASE ~ Quit(h)
  <2>1. /\ handler' = [handler EXCEPT ![h] = w]
        /\ UNCHANGED <<now, version, store, approvals, answer>>
        /\ a.at <= now + Skew /\ a.until > now /\ a.until - a.at <= ApprovalAge
    BY <1>2 DEF VerifyApproval
  <2>2. a \in Approval /\ a.operation \in Operations /\ now \in Times
    BY DEF IInv, TypeOK, Approval
  <2>3. reservation[a.operation] # NoRow /\ reservation[a.operation].created <= now
    BY <2>2 DEF IInv, StoreInv, RowInv, ApprovalInv
  <2>4. Approved(a.operation, a.call, now)
    BY <2>1, <2>3 DEF Approved
  <2>5. w \in Work /\ WorkOK(w) /\ w.pc # "locked"
    BY <2>2, <2>4, NumberFacts DEF Work, WorkOK, Approval
  <2> QED BY <2>1, <2>5, MovesOn
<1> QED BY <1>1, <1>2

\* The second reading of the clock is not before the first.
LEMMA ExecuteKeeps ==
    ASSUME IInv, NEW h \in Handlers, Execute(h)
    PROVE  IInv'
<1> DEFINE o == handler[h].operation
           c == handler[h].call
           t == handler[h].verified
           w == [pc |-> "approved", operation |-> o, call |-> c, verified |-> t, stamp |-> now]
<1>1. /\ handler' = [handler EXCEPT ![h] = w]
      /\ UNCHANGED <<now, version, store, approvals, answer>>
  BY DEF Execute
<1>2. handler[h] \in Work /\ handler[h].pc = "verified" /\ WorkOK(handler[h]) /\ now \in Times
  BY DEF IInv, TypeOK, WorkInv, Execute
<1>3. o \in Operations /\ c \in Calls /\ t \in Times
  BY <1>2, WorkFacts
<1>4. Approved(o, c, t) /\ t <= now
  BY <1>2 DEF WorkOK
<1>5. w \in Work /\ w.pc # "locked"
  BY <1>2, <1>3 DEF Work
<1>6. WorkOK(w)
  BY <1>4 DEF WorkOK
<1> QED BY <1>1, <1>5, <1>6, MovesOn

\* What is on record of an executed command may be told.
LEMMA RecordedFits ==
    ASSUME IInv, NEW o \in Operations, action[o] # NoRow
    PROVE  Recorded(o) \in Answer /\ AnswerOK(Recorded(o))
<1>1. action[o] \in Action
  BY RowFacts DEF IInv
<1> QED BY <1>1 DEF Recorded, Outcome, Answer, AnswerOK, Action

LEMMA LockReservationKeeps ==
    ASSUME IInv, NEW h \in Handlers, LockReservation(h)
    PROVE  IInv'
<1> DEFINE o == handler[h].operation
           c == handler[h].call
           row == reservation[o]
           w == [handler[h] EXCEPT !.pc = "locked"]
<1>1. handler[h] \in Work /\ handler[h].pc = "approved"
  BY DEF IInv, TypeOK, LockReservation
<1>2. /\ o \in Operations /\ c \in Calls
      /\ handler[h].stamp \in Times /\ handler[h].verified \in Times
  BY <1>1, WorkFacts
<1>3. Approved(o, c, handler[h].verified) /\ handler[h].verified <= handler[h].stamp
  BY <1>1 DEF IInv, WorkInv, WorkOK
<1>4. \A g \in Handlers : ~ Holds(g, o)
  BY DEF LockReservation
<1>5. CASE Quit(h)
  BY <1>5, QuitKeeps
<1>6. CASE /\ row # NoRow /\ row.state = "EXECUTED"
           /\ Reply(h, Recorded(o))
           /\ UNCHANGED <<now, version, store, approvals>>
  <2>1. action[o] # NoRow
    BY <1>2, <1>6 DEF IInv, StoreInv, ActionInv
  <2>2. Recorded(o) \in Answer /\ AnswerOK(Recorded(o))
    BY <1>2, <2>1, RecordedFits
  <2> QED BY <1>6, <2>2, Answers, NothingToSay DEF Reply
<1>7. CASE /\ row # NoRow /\ row.state = "PREPARED"
           /\ Executable(row, c, handler[h].stamp) /\ CaseStands(c)
           /\ handler' = [handler EXCEPT ![h].pc = "locked"]
           /\ UNCHANGED <<now, version, store, approvals, answer>>
  <2>1. w = [pc |-> "locked", operation |-> o, call |-> c,
             verified |-> handler[h].verified, stamp |-> handler[h].stamp]
    BY <1>1 DEF Work, Idle
  <2>2. w \in Work /\ w.operation = o
    BY <1>2, <2>1 DEF Work
  <2>3. WorkOK(w)
    BY <1>3, <1>7, <2>1 DEF WorkOK
  <2>4. handler' = [handler EXCEPT ![h] = w]
    BY <1>7
  <2> HIDE DEF w
  <2> QED BY <1>4, <1>7, <2>2, <2>3, <2>4, MovesOn
<1> QED BY <1>5, <1>6, <1>7 DEF LockReservation

\* The target of an archival is an executed action of another operation.
LEMMA TargetFacts ==
    ASSUME IInv, NEW h \in Handlers, handler[h].pc = "locked",
           CallOf[handler[h].call].tool = "archive", MayArchive(handler[h].call)
    PROVE  LET target == CallOf[handler[h].call].target
               p == CallOf[target].operation
           IN  /\ target \in Calls /\ p \in Operations /\ p # handler[h].operation
               /\ action[p] \in Action /\ action[p].call = target
<1> DEFINE c == handler[h].call
           target == CallOf[c].target
           p == CallOf[target].operation
<1>1. handler[h] \in Work
  BY DEF IInv, TypeOK
<1>2. c \in Calls /\ handler[h].operation \in Operations
  BY <1>1, WorkFacts
<1>3. target \in Calls /\ p \in Operations
  BY <1>2, CallFacts
<1>4. action[p].call = target
  BY DEF MayArchive
<1>5. action[p] # NoRow
  BY <1>3, <1>4, RowFacts DEF IInv
<1>6. action[p] \in Action
  BY <1>3, <1>5, RowFacts DEF IInv
<1>7. reservation[p].state = "EXECUTED"
  BY <1>3, <1>5 DEF IInv, StoreInv, ActionInv, ActionOK
<1>8. reservation[handler[h].operation].state = "PREPARED"
  BY DEF IInv, WorkInv, WorkOK
<1> QED BY <1>3, <1>4, <1>6, <1>7, <1>8

\* What a commit writes: one new action, and the archival of at most one.
LEMMA CommitWrites ==
    ASSUME IInv, NEW h \in Handlers, CommitExecution(h), ~ Quit(h)
    PROVE  LET o == handler[h].operation
               c == handler[h].call
               new == [call |-> c, state |-> "SOURCE_CONFIRMED", at |-> handler[h].stamp]
           IN  /\ o \in Operations /\ c \in Calls
               /\ new \in Action /\ action'[o] = new /\ action[o] = NoRow
               /\ action' \in [Operations -> Action \cup {NoRow}]
               /\ \A p \in Operations \ {o} :
                     \/ action'[p] = action[p]
                     \/ /\ CallOf[c].tool = "archive" /\ MayArchive(c)
                        /\ p = CallOf[CallOf[c].target].operation
                        /\ action[p] \in Action /\ action[p].call = CallOf[c].target
                        /\ action'[p] = [action[p] EXCEPT !.state = "ARCHIVED"]
<1> DEFINE o == handler[h].operation
           c == handler[h].call
           new == [call |-> c, state |-> "SOURCE_CONFIRMED", at |-> handler[h].stamp]
           t == CallOf[CallOf[c].target].operation
<1>1. handler[h] \in Work /\ handler[h].pc = "locked"
  BY DEF IInv, TypeOK, CommitExecution
<1>2. o \in Operations /\ c \in Calls /\ handler[h].stamp \in Times
  BY <1>1, WorkFacts
<1>3. action' = [Archived(c) EXCEPT ![o] = new]
  BY DEF CommitExecution
<1>4. new \in Action
  BY <1>2 DEF Action
<1>5. action[o] = NoRow
  BY <1>1, <1>2 DEF IInv, StoreInv, ActionInv, ActionOK, WorkInv, WorkOK
<1>6. action \in [Operations -> Action \cup {NoRow}]
  BY DEF IInv, TypeOK
<1>7. CASE CallOf[c].tool # "archive"
  <2>1. action' = [action EXCEPT ![o] = new]
    BY <1>3, <1>7 DEF Archived
  <2> QED BY <1>2, <1>4, <1>5, <1>6, <2>1
<1>8. CASE CallOf[c].tool = "archive"
  <2> DEFINE old == [action[t] EXCEPT !.state = "ARCHIVED"]
  <2>1. MayArchive(c)
    BY <1>8 DEF CommitExecution
  <2>2. t \in Operations /\ t # o /\ action[t] \in Action /\ action[t].call = CallOf[c].target
    BY <1>1, <1>8, <2>1, TargetFacts
  <2>3. old \in Action
    BY <2>2 DEF Action
  <2>4. action' = [[action EXCEPT ![t] = old] EXCEPT ![o] = new]
    BY <1>3, <1>8 DEF Archived
  <2> HIDE DEF old, new
  <2>5. /\ action'[o] = new /\ action'[t] = old
        /\ \A p \in Operations \ {o, t} : action'[p] = action[p]
    BY <1>2, <1>6, <2>2, <2>4
  <2>6. action' \in [Operations -> Action \cup {NoRow}]
    BY <1>4, <1>6, <2>3, <2>4
  <2> QED BY <1>2, <1>4, <1>5, <1>8, <2>1, <2>2, <2>5, <2>6 DEF old, new
<1> QED BY <1>7, <1>8

LEMMA CommitExecutionKeeps ==
    ASSUME IInv, NEW h \in Handlers, CommitExecution(h)
    PROVE  IInv'
<1> USE DEF IInv
<1> DEFINE o == handler[h].operation
           c == handler[h].call
           new == [call |-> c, state |-> "SOURCE_CONFIRMED", at |-> handler[h].stamp]
           row == reservation[o]
           done == [row EXCEPT !.state = "EXECUTED"]
<1>1. CASE Quit(h)
  BY <1>1, QuitKeeps
<1>2. CASE ~ Quit(h)
  <2>1. /\ o \in Operations /\ c \in Calls /\ new \in Action
        /\ action'[o] = new /\ action[o] = NoRow
        /\ action' \in [Operations -> Action \cup {NoRow}]
    BY <1>2, CommitWrites
  <2>2. \A p \in Operations \ {o} :
           \/ action'[p] = action[p]
           \/ /\ action[p] \in Action
              /\ action'[p] = [action[p] EXCEPT !.state = "ARCHIVED"]
    BY <1>2, CommitWrites
  <2>3. /\ reservation' = [reservation EXCEPT ![o].state = "EXECUTED"]
        /\ verifiedAt' = [verifiedAt EXCEPT ![o] = handler[h].verified]
        /\ Reply(h, Outcome(o, "SOURCE_CONFIRMED"))
        /\ UNCHANGED <<now, version, approvals>>
    BY <1>2 DEF CommitExecution
  <2>4. /\ handler[h] \in Work /\ handler[h].pc = "locked" /\ WorkOK(handler[h])
        /\ row # NoRow /\ row \in Reservation
        /\ Executable(row, c, handler[h].stamp)
        /\ Approved(o, c, handler[h].verified) /\ handler[h].verified <= handler[h].stamp
    BY <2>1, RowFacts DEF TypeOK, CommitExecution, WorkInv, WorkOK
  <2>17. /\ verifiedAt' \in [Operations -> Times]
         /\ verifiedAt'[o] = handler[h].verified
         /\ \A p \in Operations \ {o} : verifiedAt'[p] = verifiedAt[p]
    BY <2>1, <2>3, <2>4, WorkFacts DEF TypeOK
  <2>5. /\ done \in Reservation /\ done # NoRow /\ done.state = "EXECUTED"
        /\ done.call = row.call /\ done.admitted = row.admitted /\ done.created = row.created
    BY <2>1, <2>4, RowFacts DEF Reservation, NoRow
  <2> HIDE DEF done
  <2>6. reservation' = [reservation EXCEPT ![o] = done]
    BY <2>3 DEF done
  <2>7. reservation'[o] = done /\ \A p \in Operations \ {o} : reservation'[p] = reservation[p]
    BY <2>1, <2>6 DEF TypeOK
  <2>8. PICK told \in Answer :
           /\ told \in {NoAnswer, Outcome(o, "SOURCE_CONFIRMED")}
           /\ Finish(h, told)
    BY <2>1, <2>3, NothingToSay DEF Reply, Outcome, Answer
  <2>9. /\ handler'[h] = Idle /\ \A g \in Handlers \ {h} : handler'[g] = handler[g]
        /\ answer'[h] = told /\ \A g \in Handlers \ {h} : answer'[g] = answer[g]
    BY <2>8 DEF TypeOK, Finish
  <2>10. TypeOK'
    BY <2>1, <2>3, <2>17, <2>5, <2>6, <2>8, NothingToSay DEF TypeOK, Finish
  <2>11. RowInv'
    BY <2>3, <2>4, <2>5, <2>7 DEF StoreInv, RowInv
  <2>16. ApprovalInv'
    BY <2>3, <2>5, <2>7 DEF TypeOK, Approval, StoreInv, ApprovalInv
  <2>12. ActionInv'
    <3> SUFFICES ASSUME NEW p \in Operations
                 PROVE  /\ action'[p] # NoRow => ActionOK(p)'
                        /\ reservation'[p] # NoRow /\ reservation'[p].state = "EXECUTED"
                              => action'[p] # NoRow
      BY DEF ActionInv
    <3>1. CASE p = o
      <4>1. new # NoRow
        BY <2>1, RowFacts DEF NoRow, Action
      <4>2. Executable(done, c, handler[h].stamp)
        BY <2>4, <2>5 DEF Executable
      <4>3. action'[p].call = c /\ action'[p].at = handler[h].stamp
        BY <2>1, <3>1
      <4>4. Executable(reservation'[p], action'[p].call, action'[p].at)
        BY <2>7, <3>1, <4>2, <4>3
      <4>5. Approved(p, action[p].call, verifiedAt[p])' /\ verifiedAt'[p] <= action'[p].at
        BY <2>3, <2>4, <2>17, <2>5, <2>7, <3>1, <4>3 DEF Approved
      <4>6. ActionOK(p)'
        BY <2>5, <2>7, <3>1, <4>4, <4>5 DEF ActionOK, Executable
      <4> QED BY <2>1, <3>1, <4>1, <4>6
    <3>2. CASE p # o
      <4>1. /\ action'[p] # NoRow <=> action[p] # NoRow
            /\ action'[p].call = action[p].call
            /\ action[p] # NoRow => action'[p].at = action[p].at
        <5>1. CASE action'[p] = action[p]
          BY <5>1
        <5>2. CASE /\ action[p] \in Action
                   /\ action'[p] = [action[p] EXCEPT !.state = "ARCHIVED"]
          BY <2>1, <5>2, RowFacts DEF Action
        <5> QED BY <2>2, <3>2, <5>1, <5>2
      <4>2. reservation'[p] = reservation[p] /\ verifiedAt'[p] = verifiedAt[p]
        BY <2>17, <2>7, <3>2
      <4>3. action[p] # NoRow => ActionOK(p)'
        BY <2>3, <4>1, <4>2 DEF StoreInv, ActionInv, ActionOK, Approved
      <4> QED BY <4>1, <4>2, <4>3 DEF StoreInv, ActionInv
    <3> QED BY <3>1, <3>2
  <2>13. WorkInv'
    <3> SUFFICES ASSUME NEW g \in Handlers, g # h PROVE WorkOK(handler[g])'
      BY <2>9, NothingToSay DEF WorkInv, WorkOK, Idle
    <3>1. handler[g] \in Work /\ WorkOK(handler[g]) /\ handler'[g] = handler[g]
      BY <2>9 DEF TypeOK, WorkInv
    <3>2. handler[g].pc = "locked" =>
             handler[g].operation \in Operations /\ handler[g].operation # o
      BY <2>4, <3>1, WorkFacts DEF OneHolder, Holds
    <3>3. \A p, x, t : p \in Operations /\ Approved(p, x, t) => Approved(p, x, t)'
      BY <2>3, <2>5, <2>7 DEF Approved
    <3>4. handler[g].pc \in {"verified", "approved", "locked"} =>
             handler[g].operation \in Operations
      BY <3>1, WorkFacts
    <3> QED BY <2>3, <2>7, <3>1, <3>2, <3>3, <3>4 DEF WorkOK, CaseStands
  <2>14. OneHolder'
    BY <2>9 DEF OneHolder, Holds, Idle
  <2>15. AnswerInv'
    <3>1. ASSUME NEW p \in Operations, action[p] # NoRow
          PROVE  /\ action'[p] # NoRow
                 /\ action[p].state = "ARCHIVED" => action'[p].state = "ARCHIVED"
      <4>1. p # o
        BY <2>1, <3>1
      <4> QED BY <2>1, <2>2, <3>1, <4>1, RowFacts DEF NoRow, Action
    <3>2. ASSUME NEW g \in Handlers, g # h PROVE AnswerOK(answer[g])'
      <4>1. answer'[g] = answer[g] /\ answer[g] \in Answer /\ AnswerOK(answer[g])
        BY <2>9, <3>2 DEF TypeOK, AnswerInv
      <4>2. answer[g] # NoAnswer => answer[g].operation \in Operations
        BY <4>1 DEF Answer
      <4> QED BY <3>1, <4>1, <4>2 DEF AnswerOK
    <3>3. AnswerOK(told)'
      BY <2>1, <2>8, RowFacts DEF AnswerOK, Outcome, NoRow, Action
    <3> QED BY <2>9, <3>2, <3>3 DEF AnswerInv, AnswerOK
  <2> QED BY <2>10, <2>11, <2>16, <2>12, <2>13, <2>14, <2>15 DEF StoreInv
<1> QED BY <1>1, <1>2

LEMMA ReadEffectKeeps ==
    ASSUME IInv, NEW h \in Handlers, NEW o \in Operations, ReadEffect(h, o)
    PROVE  IInv'
BY RecordedFits, Answers DEF ReadEffect

-----------------------------------------------------------------------------
LEMMA ApproveKeeps ==
    ASSUME IInv, NEW c \in Calls, NEW at \in Times,
           NEW life \in {ApprovalAge, ApprovalAge + 1}, Approve(c, at, life)
    PROVE  IInv'
<1> USE DEF IInv
<1> DEFINE a == [operation |-> CallOf[c].operation, call |-> c, at |-> at, until |-> at + life]
<1>1. approvals' = approvals \cup {a}
      /\ UNCHANGED <<now, version, store, handler, answer>>
  BY DEF Approve
<1>2. a \in Approval
  BY CallFacts, NumberFacts DEF Approval
<1> HIDE DEF a
<1>3. TypeOK'
  BY <1>1, <1>2 DEF store, TypeOK
<1>4. \A o, x, t : Approved(o, x, t) => Approved(o, x, t)'
  BY <1>1 DEF store, Approved
<1>7. ApprovalInv'
  BY <1>1 DEF store, StoreInv, ApprovalInv, Approve, a
<1>5. StoreInv' /\ OneHolder' /\ AnswerInv'
  BY <1>1, <1>4, <1>7
     DEF store, StoreInv, RowInv, ActionInv, ActionOK, OneHolder, Holds, AnswerInv, AnswerOK
<1>6. WorkInv'
  BY <1>1, <1>4 DEF store, WorkInv, WorkOK, CaseStands
<1> QED BY <1>3, <1>5, <1>6

\* A case that an archival shares stays at its version.
LEMMA MoveCaseKeeps ==
    ASSUME IInv, NEW case \in Cases, MoveCase(case)
    PROVE  IInv'
<1> USE DEF IInv
<1>1. /\ version' = [version EXCEPT ![case] = @ + 1]
      /\ UNCHANGED <<now, store, approvals, handler, answer>>
  BY DEF MoveCase
<1>2. TypeOK'
  <2>1. version[case] + 1 \in Versions
    BY NumberAssumption DEF MoveCase, TypeOK, Versions
  <2> QED BY <1>1, <2>1 DEF store, TypeOK
<1>3. StoreInv' /\ OneHolder' /\ AnswerInv'
  BY <1>1 DEF store, StoreInv, RowInv, ApprovalInv, ActionInv, ActionOK, Approved, OneHolder,
              Holds, AnswerInv, AnswerOK
<1>4. WorkInv'
  <2> SUFFICES ASSUME NEW h \in Handlers PROVE WorkOK(handler[h])'
    BY <1>1 DEF store, WorkInv, WorkOK, CaseStands, Approved
  <2>1. WorkOK(handler[h]) /\ handler[h] \in Work
    BY DEF TypeOK, WorkInv
  <2>2. handler[h].pc = "locked" => CaseStands(handler[h].call)'
    <3> SUFFICES ASSUME handler[h].pc = "locked", CallOf[handler[h].call].tool = "archive"
                 PROVE  version'[CallOf[handler[h].call].case] = CallOf[handler[h].call].version
      BY <1>1 DEF CaseStands
    <3>1. CallOf[handler[h].call].case \in Cases
      BY <2>1, WorkFacts, CallFacts
    <3>2. CallOf[handler[h].call].case # case
      BY DEF MoveCase, Shares
    <3> QED BY <1>1, <2>1, <3>1, <3>2 DEF TypeOK, WorkOK, CaseStands
  <2> QED BY <1>1, <2>1, <2>2 DEF store, WorkOK, Approved
<1> QED BY <1>2, <1>3, <1>4

LEMMA TickKeeps ==
    ASSUME IInv, Tick
    PROVE  IInv'
<1> USE DEF IInv
<1>1. /\ now \in Times /\ now' \in Times /\ now <= now'
      /\ UNCHANGED <<version, store, approvals, handler, answer>>
  BY NumberAssumption DEF Tick, TypeOK, Times
<1>2. TypeOK'
  BY <1>1 DEF store, TypeOK
<1>3. \A t \in Times : t <= now => t <= now'
  BY <1>1, NumberFacts
<1>4. RowInv'
  <2>1. \A o \in Operations : reservation[o] # NoRow => reservation[o].created \in Times
    BY RowFacts DEF Reservation
  <2> QED BY <1>1, <1>3, <2>1 DEF store, StoreInv, RowInv
<1>5. ApprovalInv' /\ ActionInv' /\ OneHolder' /\ AnswerInv'
  BY <1>1 DEF store, StoreInv, ApprovalInv, ActionInv, ActionOK, Approved, OneHolder, Holds,
              AnswerInv, AnswerOK
<1>6. WorkInv'
  <2> SUFFICES ASSUME NEW h \in Handlers PROVE WorkOK(handler[h])'
    BY <1>1 DEF WorkInv
  <2>1. handler[h] \in Work /\ WorkOK(handler[h]) /\ handler'[h] = handler[h]
    BY <1>1 DEF TypeOK, WorkInv
  <2>2. /\ handler[h].pc = "observed" => handler[h].stamp \in Times
        /\ handler[h].pc = "verified" => handler[h].verified \in Times
    BY <2>1, WorkFacts
  <2> QED BY <1>1, <1>3, <2>1, <2>2 DEF store, WorkOK, Approved, CaseStands
<1> QED BY <1>2, <1>4, <1>5, <1>6 DEF StoreInv

LEMMA NextKeeps == IInv /\ [Next]_vars => IInv'
<1> SUFFICES ASSUME IInv, [Next]_vars PROVE IInv'
  OBVIOUS
<1>1. ASSUME NEW h \in Handlers, NEW c \in Calls, Receive(h, c) PROVE IInv'
  BY <1>1, ReceiveKeeps
<1>2. ASSUME NEW h \in Handlers, ReadCase(h) PROVE IInv'
  BY <1>2, ReadCaseKeeps
<1>3. ASSUME NEW h \in Handlers, ReadEvidence(h) PROVE IInv'
  BY <1>3, QuitKeeps DEF ReadEvidence
<1>4. ASSUME NEW h \in Handlers, PrepareCommand(h) PROVE IInv'
  BY <1>4, PrepareCommandKeeps
<1>5. ASSUME NEW h \in Handlers, NEW a \in approvals, VerifyApproval(h, a) PROVE IInv'
  BY <1>5, VerifyApprovalKeeps
<1>14. ASSUME NEW h \in Handlers, Execute(h) PROVE IInv'
  BY <1>14, ExecuteKeeps
<1>6. ASSUME NEW h \in Handlers, LockReservation(h) PROVE IInv'
  BY <1>6, LockReservationKeeps
<1>7. ASSUME NEW h \in Handlers, CommitExecution(h) PROVE IInv'
  BY <1>7, CommitExecutionKeeps
<1>8. ASSUME NEW h \in Handlers, NEW o \in Operations, ReadEffect(h, o) PROVE IInv'
  BY <1>8, ReadEffectKeeps
<1>9. ASSUME NEW h \in Handlers, Fail(h) PROVE IInv'
  BY <1>9, QuitKeeps DEF Fail
<1>10. ASSUME NEW c \in Calls, NEW at \in Times,
              NEW life \in {ApprovalAge, ApprovalAge + 1}, Approve(c, at, life)
       PROVE  IInv'
  BY <1>10, ApproveKeeps
<1>11. ASSUME NEW case \in Cases, MoveCase(case) PROVE IInv'
  BY <1>11, MoveCaseKeeps
<1>12. CASE Tick
  BY <1>12, TickKeeps
<1>13. CASE UNCHANGED vars
  BY <1>13 DEF vars, store, IInv, TypeOK, StoreInv, RowInv, ApprovalInv, ActionInv, ActionOK,
               Approved, WorkInv, WorkOK, CaseStands, OneHolder, Holds, AnswerInv, AnswerOK
<1> QED
  BY <1>1, <1>2, <1>3, <1>4, <1>5, <1>14, <1>6, <1>7, <1>8, <1>9, <1>10, <1>11, <1>12, <1>13 DEF Next

LEMMA InvariantHolds == Spec => []IInv
BY InitHolds, NextKeeps, PTL DEF Spec

-----------------------------------------------------------------------------
\* Reservations, actions, approvals, requests and answers are what their
\* tables and payloads can hold, whatever requests and commands overlap.
THEOREM TypeCorrect == Spec => []TypeOK
<1>1. IInv => TypeOK
  BY DEF IInv
<1> QED BY <1>1, InvariantHolds, PTL

\* executeInternalAction writes what was reserved under an admission of Stage 5,
\* live at the stamp, and what a human approved, live when it was verified after
\* the reservation and before the stamp, for any number of requests that
\* reserve, execute, retry and fail in any order.
THEOREM ExecutedAsApprovedCorrect == Spec => []ExecutedAsApproved
<1>1. IInv => ExecutedAsApproved
  <2> SUFFICES ASSUME IInv, NEW o \in Operations, action[o] # NoRow
               PROVE  /\ reservation[o].call = action[o].call
                      /\ reservation[o].state = "EXECUTED"
                      /\ \E m \in Admissions :
                            /\ m.operation = o /\ m.effect = "A1"
                            /\ m.version = CallOf[action[o].call].version
                      /\ reservation[o].created <= verifiedAt[o]
                      /\ verifiedAt[o] <= action[o].at
                      /\ action[o].at < reservation[o].created + Hold
                      /\ \E a \in approvals :
                            /\ a.operation = o /\ a.call = action[o].call
                            /\ a.at <= verifiedAt[o] + Skew
                            /\ a.until > verifiedAt[o]
                            /\ a.until - a.at <= ApprovalAge
    BY DEF ExecutedAsApproved
  <2>1. action[o] \in Action /\ reservation[o] \in Reservation /\ ActionOK(o)
    BY RowFacts DEF IInv, StoreInv, ActionInv, ActionOK
  <2>2. /\ CallOf[reservation[o].call].operation = o
        /\ Admitted(reservation[o].call)
        /\ reservation[o].call = action[o].call
        /\ EffectOf(CallOf[action[o].call].tool) = "A1"
    BY <2>1 DEF IInv, StoreInv, RowInv, ActionOK, Executable
  <2>3. \E m \in Admissions : /\ m.operation = o /\ m.effect = "A1"
                              /\ m.version = CallOf[action[o].call].version
    BY <2>2 DEF Admitted
  <2>4. action[o].at < reservation[o].created + Hold
    BY <2>1, NumberFacts DEF ActionOK, Executable, Action, Reservation
  <2> QED BY <2>1, <2>2, <2>3, <2>4 DEF ActionOK, Approved
<1> QED BY <1>1, InvariantHolds, PTL

\* What a caller was told of an executed command stays on record, through
\* retries, lost answers and archivals.
THEOREM AnswersAreDurableCorrect == Spec => []AnswersAreDurable
<1>1. IInv => AnswersAreDurable
  BY DEF IInv, AnswerInv, AnswerOK, AnswersAreDurable
<1> QED BY <1>1, InvariantHolds, PTL

\* An action changes once at most, by the archival that names it, made while
\* its case stood at the version that the archival was approved for.
THEOREM ArchivedAtNamedVersionCorrect == Spec => ArchivedAtNamedVersion
<1> DEFINE Same ==
      \A o \in Operations :
         action[o] # NoRow /\ action'[o] # action[o] =>
           /\ action'[o] = [action[o] EXCEPT !.state = "ARCHIVED"]
           /\ CallOf[action[o].call].tool # "note"
           /\ \E p \in Operations : Retires(o, p)
<1>1. ASSUME IInv, Next PROVE Same
  <2>1. CASE UNCHANGED action
    BY <2>1
  <2>2. CASE ~ UNCHANGED action
    <3>1. PICK h \in Handlers : CommitExecution(h) /\ ~ Quit(h)
      BY <1>1, <2>2
         DEF Next, Receive, ReadCase, ReadEvidence, PrepareCommand, VerifyApproval, Execute,
             LockReservation, CommitExecution, ReadEffect, Fail, Approve, MoveCase, Tick, Quit,
             store
    <3> DEFINE q == handler[h].operation
               c == handler[h].call
               new == [call |-> c, state |-> "SOURCE_CONFIRMED", at |-> handler[h].stamp]
    <3>2. /\ q \in Operations /\ c \in Calls /\ action[q] = NoRow
          /\ action'[q] \in Action /\ action'[q].call = c
      <4>1. /\ q \in Operations /\ c \in Calls /\ action[q] = NoRow
            /\ new \in Action /\ action'[q] = new
        BY <1>1, <3>1, CommitWrites, Zenon
      <4> QED BY <4>1
    <3>3. \A o \in Operations \ {q} :
             \/ action'[o] = action[o]
             \/ /\ CallOf[c].tool = "archive" /\ MayArchive(c)
                /\ o = CallOf[CallOf[c].target].operation
                /\ action[o] \in Action /\ action[o].call = CallOf[c].target
                /\ action'[o] = [action[o] EXCEPT !.state = "ARCHIVED"]
      BY <1>1, <3>1, CommitWrites, Zenon
    <3>4. CaseStands(c)
      BY <1>1, <3>1 DEF CommitExecution, IInv, WorkInv, WorkOK
    <3> SUFFICES ASSUME NEW o \in Operations, action[o] # NoRow, action'[o] # action[o]
                 PROVE  /\ action'[o] = [action[o] EXCEPT !.state = "ARCHIVED"]
                        /\ CallOf[action[o].call].tool # "note"
                        /\ Retires(o, q)
      BY <3>2
    <3>5. /\ CallOf[c].tool = "archive" /\ MayArchive(c)
          /\ action[o].call = CallOf[c].target
          /\ action'[o] = [action[o] EXCEPT !.state = "ARCHIVED"]
      BY <3>2, <3>3
    <3>6. action'[q] # NoRow
      <4>1. NoRow \notin Action
        BY CallAssumption DEF NoRow, Action
      <4> QED BY <3>2, <4>1
    <3>7. Retires(o, q)
      BY <3>2, <3>4, <3>5, <3>6 DEF Retires, MayArchive, CaseStands
    <3> QED BY <3>5, <3>7 DEF MayArchive
  <2> QED BY <2>1, <2>2
<1>2. ASSUME UNCHANGED vars PROVE Same
  BY <1>2 DEF vars, store
<1>3. IInv /\ [Next]_vars => [Same]_vars
  BY <1>1
<1> QED BY <1>3, InvariantHolds, PTL DEF Spec, ArchivedAtNamedVersion

=============================================================================
