-------------------------- MODULE QuoteToOrder_proofs --------------------------
(***************************************************************************)
(* What QuoteToOrder guarantees for any number of requests, quotes, orders *)
(* and economics versions, and for any amounts.                            *)
(*                                                                         *)
(* The argument: what a handler checked stays true until its commit,       *)
(* because its locks keep every other writer away from it (ChecksHold) and *)
(* because the one thing it read without a lock, the approval, never       *)
(* changes once it is there (ViewsHold).                                   *)
(*                                                                         *)
(* The last part is about ProposalReview, the other command of the same    *)
(* store, whose requests are handled in the same three steps.              *)
(***************************************************************************)
EXTENDS QuoteToOrder, ProposalReview, TLAPS

\* A handler knows its command, and has seen nothing before it read.
RequestsAreKnown ==
    \A h \in Handlers :
        /\ pc[h] # "idle" => request[h] \in Commands
        /\ pc[h] \in {"idle", "read"} => view[h] = NoQuote

\* Economics exist up to the version of their quote, priced by their threshold.
EconomicsFit ==
    \A q \in Quotes :
        /\ quote[q].exists => economics[q][quote[q].version].exists
        /\ \A v \in Versions : economics[q][v].exists =>
              /\ quote[q].exists
              /\ v <= quote[q].version
              /\ economics[q][v] = EconomicsOf(economics[q][v].lines, economics[q][v].threshold)

\* An order points to a quote that points back, at the version it was made of.
OrdersFit ==
    \A o \in Orders : order[o].exists =>
        LET q == order[o].quote IN
        /\ quote[q].exists
        /\ quote[q].order = o
        /\ quote[q].version = order[o].economics

QuotesFit ==
    \A q \in Quotes : quote[q].exists =>
        /\ quote[q].order # NoOrder <=> quote[q].status = "converted_to_order"
        /\ quote[q].order # NoOrder =>
              order[quote[q].order].exists /\ order[quote[q].order].quote = q

\* Locks exclude each other.
LocksExclude ==
    \A g, h \in Handlers :
        g # h /\ pc[g] = "commit" /\ pc[h] = "commit" =>
            /\ ~Intends(g) /\ ~Intends(h) => request[g].quote # request[h].quote
            /\ Converts(g) /\ Converts(h) => request[g].order # request[h].order

\* What was checked under the locks is true until the commit.
ChecksHold == \A h \in Handlers : pc[h] = "commit" => Admits(h)

\* An approval that was seen is still what it was.
ViewsHold ==
    \A h \in Handlers :
        view[h].exists =>
            /\ Decides(h) \/ Converts(h)
            /\ quote[request[h].quote].exists
            /\ view[h].approval # "none" =>
                  approval[request[h].quote][view[h].version] = view[h].approval

TypeInv == TypeOK /\ RequestsAreKnown

RowInv == EconomicsFit /\ OrdersFit /\ QuotesFit /\ OrderIsApproved

HandlerInv == LocksExclude /\ ChecksHold /\ ViewsHold

IInv == TypeInv /\ RowInv /\ HandlerInv

-------------------------------------------------------------------------------
(***************************************************************************)
(* The records of the tables, field by field.                              *)
(***************************************************************************)

LEMMA QuoteFields ==
    ASSUME TypeOK, NEW q \in Quotes, quote[q].exists
    PROVE  /\ quote[q] \in QuoteRow
           /\ quote[q].status \in Statuses
           /\ quote[q].version \in Versions
           /\ quote[q].lines \in Lines
           /\ quote[q].order \in Orders \cup {NoOrder}
<1>1. quote[q] \in QuoteRow \/ quote[q] = NoQuote
  BY DEF TypeOK
<1>2. quote[q] \in QuoteRow
  BY <1>1 DEF NoQuote
<1> QED
  BY <1>2 DEF QuoteRow

LEMMA OrderFields ==
    ASSUME TypeOK, NEW o \in Orders, order[o].exists
    PROVE  /\ order[o] \in OrderRow
           /\ order[o].quote \in Quotes
           /\ order[o].economics \in Versions
           /\ order[o].lines \in Lines
           /\ order[o].version \in 1 .. MaxOrderVersion
<1>1. order[o] \in OrderRow \/ order[o] = Unordered
  BY DEF TypeOK
<1>2. order[o] \in OrderRow
  BY <1>1 DEF Unordered
<1> QED
  BY <1>2 DEF OrderRow

LEMMA CommandFields ==
    ASSUME TypeInv, NEW h \in Handlers, pc[h] # "idle"
    PROVE  /\ request[h] \in Command
           /\ Creates(h) \/ Decides(h) \/ Converts(h) \/ Intends(h)
           /\ Creates(h) => request[h].quote \in Quotes /\ request[h].lines \in Lines
           /\ Decides(h) => /\ request[h].quote \in Quotes
                            /\ request[h].expects \in Versions
                            /\ request[h].decision \in Decisions
           /\ Converts(h) => /\ request[h].quote \in Quotes
                             /\ request[h].expects \in Versions
                             /\ request[h].order \in Orders
           /\ Intends(h) => /\ request[h].order \in Orders
                            /\ request[h].expects \in 1 .. MaxOrderVersion
                            /\ request[h].lines \in Lines
<1>1. request[h] \in Command
  BY CommandAssumption DEF TypeInv, RequestsAreKnown
<1> QED
  BY <1>1 DEF Command, QuoteCreate, QuoteApproval, OrderCreate, IntentRequest,
              Creates, Decides, Converts, Intends

LEMMA EconomicsType ==
    ASSUME NEW l \in Lines, NEW t \in Thresholds
    PROVE  /\ EconomicsOf(l, t) \in EconomicsRow
           /\ EconomicsOf(l, t).exists
           /\ EconomicsOf(l, t).lines = l
           /\ EconomicsOf(l, t).threshold = t
           /\ EconomicsOf(l, t) = EconomicsOf(EconomicsOf(l, t).lines, EconomicsOf(l, t).threshold)
           /\ StatusOf(EconomicsOf(l, t)) \in {"draft", "approval_required"}
<1>1. ApprovalRequired(l, t) \in BOOLEAN
  BY DEF ApprovalRequired
<1> QED
  BY <1>1 DEF EconomicsOf, EconomicsRow, StatusOf

-------------------------------------------------------------------------------
(***************************************************************************)
(* Every step is one of a handler that changes no row, the commit of a     *)
(* handler, or the UI's.                                                   *)
(***************************************************************************)

\* One handler moves, the others stay as they are.
OnlyMoves(h) ==
    /\ pc' = [pc EXCEPT ![h] = pc'[h]]
    /\ request' = [request EXCEPT ![h] = request'[h]]
    /\ view' = [view EXCEPT ![h] = view'[h]]

Finishes(h) == pc'[h] = "idle" /\ request'[h] = NoRequest /\ view'[h] = NoQuote

Quiet(h) ==
    /\ UNCHANGED rows
    /\ OnlyMoves(h)
    /\ \/ /\ pc[h] = "idle" /\ pc'[h] = "read"
          /\ request'[h] \in Commands /\ view'[h] = view[h]
       \/ /\ pc[h] = "read" /\ pc'[h] = "lock" /\ request'[h] = request[h]
          /\ view'[h] = IF Decides(h) \/ Converts(h) THEN Joined(request[h].quote) ELSE NoQuote
       \/ /\ pc[h] = "lock" /\ pc'[h] = "commit" /\ Granted(h) /\ Admits(h)
          /\ request'[h] = request[h] /\ view'[h] = view[h]
       \/ pc[h] # "idle" /\ Finishes(h)

Commits(h) ==
    /\ pc[h] = "commit"
    /\ OnlyMoves(h)
    /\ Finishes(h)
    /\ CreateQuote(h) \/ DecideQuote(h) \/ CreateOrder(h) \/ CreateIntent(h)

ByUI ==
    /\ UNCHANGED <<pc, request, view>>
    /\ \/ \E q \in Quotes : ReviseQuote(q) \/ EditLines(q) \/ SetStatus(q) \/ DecideInUI(q)
       \/ \E o \in Orders : AdvanceOrder(o)
       \/ ChangePolicy

LEMMA StepCases ==
    ASSUME TypeInv, Next
    PROVE  (\E h \in Handlers : Quiet(h) \/ Commits(h)) \/ ByUI
<1> DEFINE A == Commands \cup {NoRequest}
           B == View \cup {NoQuote}
<1>0. /\ pc \in [Handlers -> {"idle", "read", "lock", "commit"}]
      /\ request \in [Handlers -> A]
      /\ view \in [Handlers -> B]
  BY DEF TypeInv, TypeOK
<1> USE DEF Finish, Finishes, OnlyMoves
<1> HIDE DEF A, B
<1>1. ASSUME NEW h \in Handlers, Receive(h) \/ Read(h) \/ Decide(h) \/ Refuse(h) \/ Abort(h)
      PROVE  Quiet(h)
  <2>1. CASE Receive(h)
    BY <1>0, <2>1 DEF Receive, Quiet
  <2>2. CASE Read(h)
    BY <1>0, <2>2 DEF Read, Quiet
  <2>3. CASE Decide(h)
    BY <1>0, <2>3 DEF Decide, Quiet
  <2>4. CASE Refuse(h)
    BY <1>0, <2>4 DEF Refuse, Quiet
  <2>5. CASE Abort(h)
    BY <1>0, <2>5 DEF Abort, Quiet
  <2> QED
    BY <1>1, <2>1, <2>2, <2>3, <2>4, <2>5
<1>2. ASSUME NEW h \in Handlers,
             CreateQuote(h) \/ DecideQuote(h) \/ CreateOrder(h) \/ CreateIntent(h)
      PROVE  Commits(h)
  <2>1. pc[h] = "commit" /\ Finish(h)
    BY <1>2 DEF CreateQuote, DecideQuote, CreateOrder, CreateIntent
  <2>2. OnlyMoves(h) /\ Finishes(h)
    BY <1>0, <2>1
  <2> QED
    BY <1>2, <2>1, <2>2 DEF Commits
<1>3. ASSUME \/ \E q \in Quotes : ReviseQuote(q) \/ EditLines(q) \/ SetStatus(q) \/ DecideInUI(q)
             \/ \E o \in Orders : AdvanceOrder(o)
             \/ ChangePolicy
      PROVE  ByUI
  BY <1>3 DEF ByUI, ReviseQuote, EditLines, SetStatus, DecideInUI, AdvanceOrder, ChangePolicy
<1> QED
  BY <1>1, <1>2, <1>3 DEF Next

LEMMA JoinedType ==
    ASSUME TypeOK, NEW q \in Quotes
    PROVE  Joined(q) \in View \cup {NoQuote}
<1>1. CASE quote[q].exists
  <2>1. approval[q][quote[q].version] \in Decisions \cup {"none"}
    BY <1>1, QuoteFields DEF TypeOK
  <2> QED
    BY <1>1, <2>1, QuoteFields DEF Joined, View
<1>2. CASE ~quote[q].exists
  BY <1>2 DEF Joined
<1> QED
  BY <1>1, <1>2

\* What a handler that is about to commit has checked.
LEMMA Checked ==
    ASSUME TypeInv, ChecksHold, NEW h \in Handlers, pc[h] = "commit"
    PROVE  /\ Creates(h) => AdmitsQuote(request[h])
           /\ Decides(h) => AdmitsDecision(h, request[h])
           /\ Converts(h) => AdmitsOrder(h, request[h])
           /\ Intends(h) => AdmitsIntent(request[h])
BY DEF ChecksHold, Admits, Creates, Decides, Converts, Intends

-------------------------------------------------------------------------------
LEMMA TypeQuiet ==
    ASSUME TypeInv, NEW h \in Handlers, Quiet(h)
    PROVE  TypeInv'
<1>0. /\ pc \in [Handlers -> {"idle", "read", "lock", "commit"}]
      /\ request \in [Handlers -> Commands \cup {NoRequest}]
      /\ view \in [Handlers -> View \cup {NoQuote}]
  BY DEF TypeInv, TypeOK
<1>1. pc[h] # "idle" /\ (Decides(h) \/ Converts(h)) => request[h].quote \in Quotes
  BY CommandFields
<1>2. view'[h] \in View \cup {NoQuote}
  BY <1>0, <1>1, JoinedType DEF Quiet, Finishes, TypeInv
<1>3. pc'[h] \in {"idle", "read", "lock", "commit"} /\ request'[h] \in Commands \cup {NoRequest}
  BY <1>0 DEF Quiet, Finishes
<1>4. /\ pc' \in [Handlers -> {"idle", "read", "lock", "commit"}]
      /\ request' \in [Handlers -> Commands \cup {NoRequest}]
      /\ view' \in [Handlers -> View \cup {NoQuote}]
  BY <1>0, <1>2, <1>3 DEF Quiet, OnlyMoves
<1>5. TypeOK'
  BY <1>4 DEF TypeInv, TypeOK, Quiet, rows
<1>6. /\ pc'[h] # "idle" => request'[h] \in Commands
      /\ pc'[h] \in {"idle", "read"} => view'[h] = NoQuote
  BY DEF Quiet, Finishes, TypeInv, RequestsAreKnown
<1>7. ASSUME NEW g \in Handlers, g # h
      PROVE  pc'[g] = pc[g] /\ request'[g] = request[g] /\ view'[g] = view[g]
  BY <1>0, <1>7 DEF Quiet, OnlyMoves
<1>8. RequestsAreKnown'
  BY <1>6, <1>7 DEF RequestsAreKnown, TypeInv
<1> QED
  BY <1>5, <1>8 DEF TypeInv

\* The handlers, after a commit.
LEMMA TypeFinished ==
    ASSUME TypeInv, NEW h \in Handlers, Commits(h)
    PROVE  /\ pc' \in [Handlers -> {"idle", "read", "lock", "commit"}]
           /\ request' \in [Handlers -> Commands \cup {NoRequest}]
           /\ view' \in [Handlers -> View \cup {NoQuote}]
           /\ RequestsAreKnown'
           /\ \A g \in Handlers \ {h} :
                 pc'[g] = pc[g] /\ request'[g] = request[g] /\ view'[g] = view[g]
           /\ pc'[h] = "idle" /\ view'[h] = NoQuote
<1>0. /\ pc \in [Handlers -> {"idle", "read", "lock", "commit"}]
      /\ request \in [Handlers -> Commands \cup {NoRequest}]
      /\ view \in [Handlers -> View \cup {NoQuote}]
  BY DEF TypeInv, TypeOK
<1>1. /\ pc' \in [Handlers -> {"idle", "read", "lock", "commit"}]
      /\ request' \in [Handlers -> Commands \cup {NoRequest}]
      /\ view' \in [Handlers -> View \cup {NoQuote}]
  BY <1>0 DEF Commits, OnlyMoves, Finishes
<1>2. \A g \in Handlers \ {h} :
         pc'[g] = pc[g] /\ request'[g] = request[g] /\ view'[g] = view[g]
  BY <1>0 DEF Commits, OnlyMoves
<1>3. pc'[h] = "idle" /\ view'[h] = NoQuote
  BY DEF Commits, Finishes
<1>4. RequestsAreKnown'
  BY <1>2, <1>3 DEF RequestsAreKnown, TypeInv
<1> QED
  BY <1>1, <1>2, <1>3, <1>4

-------------------------------------------------------------------------------
(***************************************************************************)
(* What a step does to one quote.                                          *)
(***************************************************************************)

IsUntouched(q) ==
    quote'[q] = quote[q] /\ economics'[q] = economics[q] /\ approval'[q] = approval[q]

\* A quote that was not converted stays so.
StaysOpen(q) ==
    /\ quote'[q] \in QuoteRow
    /\ quote'[q].order = NoOrder
    /\ quote'[q].status # "converted_to_order"

\* Created, or revised.
IsPriced(q) ==
    /\ quote[q].exists => quote[q].order = NoOrder
    /\ StaysOpen(q)
    /\ quote'[q].version = IF quote[q].exists THEN quote[q].version + 1 ELSE 1
    /\ \E l \in Lines, t \in Thresholds :
          economics'[q] = [economics[q] EXCEPT ![quote'[q].version] = EconomicsOf(l, t)]
    /\ approval'[q] = approval[q]

IsWritten(q) ==
    /\ quote[q].exists /\ quote[q].order = NoOrder
    /\ StaysOpen(q)
    /\ quote'[q].version = quote[q].version
    /\ economics'[q] = economics[q]

\* New lines, or a new status.
IsEdited(q) == IsWritten(q) /\ approval'[q] = approval[q]

IsDecided(q) ==
    /\ IsWritten(q)
    /\ economics[q][quote[q].version].required
    /\ approval[q][quote[q].version] = "none"
    /\ \E d \in Decisions : approval'[q] = [approval[q] EXCEPT ![quote[q].version] = d]

IsConverted(q) ==
    /\ quote[q].exists /\ quote[q].order = NoOrder
    /\ quote[q].status = "customer_accepted"
    /\ economics[q][quote[q].version].required =>
          approval[q][quote[q].version] = "approved"
    /\ quote'[q] \in QuoteRow
    /\ quote'[q].version = quote[q].version
    /\ quote'[q].status = "converted_to_order"
    /\ quote'[q].order \in Orders
    /\ ~order[quote'[q].order].exists
    /\ order'[quote'[q].order] \in OrderRow
    /\ order'[quote'[q].order].quote = q
    /\ order'[quote'[q].order].economics = quote[q].version
    /\ economics'[q] = economics[q]
    /\ approval'[q] = approval[q]

QuoteStep(q) ==
    IsUntouched(q) \/ IsPriced(q) \/ IsEdited(q) \/ IsDecided(q) \/ IsConverted(q)

\* An order is created with its quote, and keeps what it was created from.
OrderStep(o) ==
    \/ order'[o] = order[o]
    \/ /\ order[o].exists
       /\ order'[o] \in OrderRow
       /\ order'[o].quote = order[o].quote
       /\ order'[o].economics = order[o].economics
    \/ /\ ~order[o].exists
       /\ order'[o] \in OrderRow
       /\ IsConverted(order'[o].quote)
       /\ quote'[order'[o].quote].order = o

RowsStep ==
    /\ quote' \in [Quotes -> QuoteRow \cup {NoQuote}]
    /\ economics' \in [Quotes -> [Versions -> EconomicsRow \cup {NoEconomics}]]
    /\ approval' \in [Quotes -> [Versions -> Decisions \cup {"none"}]]
    /\ order' \in [Orders -> OrderRow \cup {Unordered}]
    /\ intents' \subseteq Intent
    /\ threshold' \in Thresholds \cup {NoPolicy}
    /\ \A q \in Quotes : QuoteStep(q)
    /\ \A o \in Orders : OrderStep(o)

\* The quote a handler works on, when it commits or decides.
LEMMA CommittedQuote ==
    ASSUME IInv, NEW h \in Handlers, pc[h] = "commit", Decides(h) \/ Converts(h)
    PROVE  LET q == request[h].quote IN
           /\ q \in Quotes
           /\ quote[q].exists
           /\ view[h].exists
           /\ view[h].version = quote[q].version
           /\ request[h].expects = quote[q].version
           /\ economics[q][quote[q].version].exists
           /\ approval[q][quote[q].version] \in Decisions \cup {"none"}
<1>0. TypeInv /\ TypeOK /\ ChecksHold /\ ViewsHold /\ EconomicsFit
  BY DEF IInv, TypeInv, RowInv, HandlerInv
<1>1. request[h].quote \in Quotes
  BY <1>0, CommandFields
<1>2. StillJoined(h, request[h].quote) /\ request[h].expects = quote[request[h].quote].version
  BY <1>0, Checked DEF AdmitsDecision, AdmitsOrder, Exact
<1>3. view[h].exists /\ quote[request[h].quote].exists
  BY <1>0, <1>2 DEF StillJoined, ViewsHold
<1>4. economics[request[h].quote][quote[request[h].quote].version].exists
  BY <1>0, <1>1, <1>3 DEF EconomicsFit
<1>5. quote[request[h].quote].version \in Versions
  BY <1>0, <1>1, <1>3, QuoteFields
<1>6. approval[request[h].quote][quote[request[h].quote].version] \in Decisions \cup {"none"}
  BY <1>0, <1>1, <1>5 DEF TypeOK
<1> QED
  BY <1>1, <1>2, <1>3, <1>4, <1>6 DEF StillJoined

LEMMA QuietRows ==
    ASSUME TypeInv, UNCHANGED rows
    PROVE  RowsStep
BY DEF rows, RowsStep, QuoteStep, IsUntouched, OrderStep, TypeInv, TypeOK

LEMMA CreateQuoteRows ==
    ASSUME IInv, NEW h \in Handlers, CreateQuote(h)
    PROVE  RowsStep
<1>0. TypeInv /\ TypeOK /\ ChecksHold /\ EconomicsFit /\ pc[h] = "commit" /\ Creates(h)
  BY DEF IInv, TypeInv, RowInv, HandlerInv, CreateQuote
<1>c. 1 \in Versions /\ 1 \in 1 .. MaxOrderVersion
  BY BoundAssumption DEF Versions
<1> DEFINE q == request[h].quote
           e == EconomicsOf(request[h].lines, threshold)
           new == [exists |-> TRUE, status |-> StatusOf(e), version |-> 1,
                   lines |-> request[h].lines, order |-> NoOrder]
<1>1. q \in Quotes /\ request[h].lines \in Lines
  BY <1>0, CommandFields
<1>2. threshold \in Thresholds /\ ~quote[q].exists
  BY <1>0, Checked DEF AdmitsQuote, TypeOK
<1>3. /\ new \in QuoteRow /\ new.order = NoOrder /\ new.version = 1
      /\ new.status # "converted_to_order"
      /\ e \in EconomicsRow
  BY <1>1, <1>2, <1>c, EconomicsType DEF QuoteRow, Statuses
<1>4. /\ quote' = [quote EXCEPT ![q] = new]
      /\ economics' = [economics EXCEPT ![q][1] = e]
      /\ UNCHANGED <<approval, order, intents, threshold>>
  BY DEF CreateQuote
<1>5. \E l \in Lines, t \in Thresholds : e = EconomicsOf(l, t)
  BY <1>1, <1>2
<1> HIDE DEF q, e, new
<1>6. IsPriced(q)
  BY <1>0, <1>1, <1>2, <1>3, <1>4, <1>5 DEF IsPriced, StaysOpen, TypeOK
<1>7. \A p \in Quotes \ {q} : IsUntouched(p)
  BY <1>0, <1>4 DEF IsUntouched, TypeOK
<1>8. /\ quote' \in [Quotes -> QuoteRow \cup {NoQuote}]
      /\ economics' \in [Quotes -> [Versions -> EconomicsRow \cup {NoEconomics}]]
  BY <1>0, <1>1, <1>3, <1>4, <1>c DEF TypeOK
<1> QED
  BY <1>0, <1>4, <1>6, <1>7, <1>8 DEF RowsStep, QuoteStep, OrderStep, TypeOK

LEMMA DecideQuoteRows ==
    ASSUME IInv, NEW h \in Handlers, DecideQuote(h)
    PROVE  RowsStep
<1>0. TypeInv /\ TypeOK /\ ChecksHold /\ RowInv /\ pc[h] = "commit" /\ Decides(h)
  BY DEF IInv, TypeInv, HandlerInv, DecideQuote
<1> DEFINE q == request[h].quote
           v == quote[q].version
           d == request[h].decision
<1>1. /\ q \in Quotes /\ quote[q].exists /\ request[h].expects = v
      /\ v \in Versions /\ quote[q] \in QuoteRow
      /\ d \in Decisions
  BY <1>0, CommittedQuote, CommandFields, QuoteFields
<1>2. economics[q][v].required /\ approval[q][v] = "none"
  BY <1>0, Checked DEF AdmitsDecision, Undecided
<1>3. quote[q].order = NoOrder
  <2> SUFFICES ASSUME quote[q].order # NoOrder PROVE FALSE
    OBVIOUS
  <2> DEFINE o == quote[q].order
  <2>1. o \in Orders /\ order[o].exists /\ order[o].quote = q
    BY <1>0, <1>1, QuoteFields DEF RowInv, QuotesFit
  <2>2. order[o].economics = v
    BY <1>0, <2>1 DEF RowInv, OrdersFit
  <2>3. approval[q][v] = "approved"
    BY <1>0, <1>2, <2>1, <2>2 DEF RowInv, OrderIsApproved
  <2> QED
    BY <1>2, <2>3
<1>4. /\ quote' = [quote EXCEPT ![q].status = d]
      /\ approval' = [approval EXCEPT ![q][v] = d]
      /\ UNCHANGED <<economics, order, intents, threshold>>
  BY <1>1 DEF DecideQuote
<1> HIDE DEF q, v, d
<1>5. quote'[q] = [quote[q] EXCEPT !.status = d] /\ approval'[q] = [approval[q] EXCEPT ![v] = d]
  BY <1>0, <1>1, <1>4 DEF TypeOK
<1>6. /\ quote'[q] \in QuoteRow /\ quote'[q].order = quote[q].order
      /\ quote'[q].version = v /\ quote'[q].status = d
  BY <1>1, <1>5 DEF QuoteRow, Decisions, Statuses, v
<1>7. IsDecided(q)
  BY <1>1, <1>2, <1>3, <1>4, <1>5, <1>6 DEF IsDecided, IsWritten, StaysOpen, Decisions, v
<1>8. \A p \in Quotes \ {q} : IsUntouched(p)
  BY <1>0, <1>4 DEF IsUntouched, TypeOK
<1>9. /\ quote' \in [Quotes -> QuoteRow \cup {NoQuote}]
      /\ approval' \in [Quotes -> [Versions -> Decisions \cup {"none"}]]
  BY <1>0, <1>1, <1>4, <1>6 DEF TypeOK
<1> QED
  BY <1>0, <1>4, <1>7, <1>8, <1>9 DEF RowsStep, QuoteStep, OrderStep, TypeOK

LEMMA CreateOrderRows ==
    ASSUME IInv, NEW h \in Handlers, CreateOrder(h)
    PROVE  RowsStep
<1>0. TypeInv /\ TypeOK /\ ChecksHold /\ ViewsHold /\ pc[h] = "commit" /\ Converts(h)
  BY DEF IInv, TypeInv, HandlerInv, CreateOrder
<1>c. 1 \in 1 .. MaxOrderVersion
  BY BoundAssumption
<1> DEFINE q == request[h].quote
           v == quote[q].version
           o == request[h].order
           new == OrderOf(request[h], quote[q].lines)
           r == [quote[q] EXCEPT !.status = "converted_to_order", !.order = o]
<1>1. /\ q \in Quotes /\ quote[q].exists /\ request[h].expects = v
      /\ v \in Versions /\ quote[q] \in QuoteRow /\ quote[q].lines \in Lines
      /\ o \in Orders /\ o # NoOrder
  BY <1>0, CommittedQuote, CommandFields, QuoteFields, BoundAssumption
<1>2. /\ quote[q].order = NoOrder /\ quote[q].status = "customer_accepted"
      /\ ~order[o].exists
      /\ Approved(h, q)
  BY <1>0, Checked DEF AdmitsOrder, Exact
<1>3. economics[q][v].required => approval[q][v] = "approved"
  BY SMTT(30), <1>0, <1>2, CommittedQuote DEF Approved, ViewsHold
<1>4. new \in OrderRow /\ new.quote = q /\ new.economics = v
  BY <1>1, <1>c DEF OrderOf, OrderRow
<1>5. r \in QuoteRow /\ r.version = v /\ r.status = "converted_to_order" /\ r.order = o
  BY <1>1 DEF QuoteRow, Statuses
<1>6. /\ order' = [order EXCEPT ![o] = new]
      /\ quote' = [quote EXCEPT ![q].status = "converted_to_order", ![q].order = o]
      /\ UNCHANGED <<economics, approval, intents, threshold>>
  BY DEF CreateOrder
<1>7. quote' = [quote EXCEPT ![q] = r]
  BY <1>0, <1>1, <1>6 DEF TypeOK
<1> HIDE DEF q, v, o, new, r
<1>8. /\ quote'[q] = r /\ order'[o] = new
      /\ \A p \in Orders \ {o} : order'[p] = order[p]
      /\ \A p \in Quotes \ {q} : IsUntouched(p)
  BY <1>0, <1>1, <1>6, <1>7 DEF IsUntouched, TypeOK
<1>9. IsConverted(q)
  BY <1>1, <1>2, <1>3, <1>4, <1>5, <1>6, <1>8 DEF IsConverted, v
<1>10. OrderStep(o)
  BY <1>1, <1>2, <1>4, <1>5, <1>8, <1>9 DEF OrderStep
<1>11. /\ quote' \in [Quotes -> QuoteRow \cup {NoQuote}]
       /\ order' \in [Orders -> OrderRow \cup {Unordered}]
  <2>1. order' = [order EXCEPT ![o] = new]
    BY <1>6
  <2>2. quote \in [Quotes -> QuoteRow \cup {NoQuote}] /\ order \in [Orders -> OrderRow \cup {Unordered}]
    BY <1>0 DEF TypeOK
  <2> QED
    BY <1>4, <1>5, <1>7, <2>1, <2>2
<1> QED
  BY <1>0, <1>6, <1>8, <1>9, <1>10, <1>11 DEF RowsStep, QuoteStep, OrderStep, TypeOK

LEMMA CreateIntentRows ==
    ASSUME TypeInv, NEW h \in Handlers, CreateIntent(h)
    PROVE  RowsStep
<1>1. [order |-> request[h].order, version |-> request[h].expects, lines |-> request[h].lines]
        \in Intent
  BY CommandFields DEF CreateIntent, Intent
<1> QED
  BY <1>1 DEF CreateIntent, RowsStep, QuoteStep, IsUntouched, OrderStep, TypeInv, TypeOK

LEMMA UIRows ==
    ASSUME IInv, ByUI
    PROVE  RowsStep
<1>0. TypeInv /\ TypeOK /\ EconomicsFit /\ QuotesFit
  BY DEF IInv, TypeInv, RowInv
<1>1. ASSUME NEW q \in Quotes, ReviseQuote(q)
      PROVE  RowsStep
  <2>1. PICK l \in Lines :
          LET v == quote[q].version + 1
              e == EconomicsOf(l, threshold)
          IN
          /\ economics' = [economics EXCEPT ![q][v] = e]
          /\ quote' = [quote EXCEPT ![q].version = v, ![q].lines = l, ![q].status = StatusOf(e)]
    BY <1>1 DEF ReviseQuote
  <2> DEFINE v == quote[q].version + 1
             e == EconomicsOf(l, threshold)
             r == [quote[q] EXCEPT !.version = v, !.lines = l, !.status = StatusOf(e)]
  <2>2. /\ quote[q].exists /\ quote[q].order = NoOrder /\ threshold \in Thresholds
        /\ quote[q].version < MaxEconomics
        /\ UNCHANGED <<approval, order, intents, threshold>>
    BY <1>0, <1>1 DEF ReviseQuote, Open, TypeOK
  <2>3. quote[q] \in QuoteRow /\ v \in Versions
    BY <1>0, <2>2, QuoteFields, BoundAssumption DEF Versions
  <2>4. e \in EconomicsRow /\ StatusOf(e) \in {"draft", "approval_required"}
    BY <2>2, EconomicsType
  <2>5. /\ r \in QuoteRow /\ r.order = NoOrder /\ r.version = v
        /\ r.status # "converted_to_order"
    BY <2>2, <2>3, <2>4 DEF QuoteRow, Statuses
  <2>6. /\ quote' = [quote EXCEPT ![q] = r]
        /\ economics' = [economics EXCEPT ![q][v] = e]
    BY <1>0, <2>1 DEF TypeOK
  <2>7. \E k \in Lines, t \in Thresholds : e = EconomicsOf(k, t)
    BY <2>2
  <2>8. v = quote[q].version + 1
    OBVIOUS
  <2> HIDE DEF v, e, r
  <2>9. /\ quote'[q] = r /\ economics'[q] = [economics[q] EXCEPT ![v] = e]
        /\ \A p \in Quotes \ {q} : IsUntouched(p)
    BY <1>0, <2>2, <2>6 DEF IsUntouched, TypeOK
  <2>10. IsPriced(q)
    BY <2>2, <2>5, <2>7, <2>8, <2>9 DEF IsPriced, StaysOpen
  <2>11. /\ quote' \in [Quotes -> QuoteRow \cup {NoQuote}]
         /\ economics' \in [Quotes -> [Versions -> EconomicsRow \cup {NoEconomics}]]
    BY <1>0, <2>3, <2>4, <2>5, <2>6 DEF TypeOK
  <2> QED
    BY <1>0, <2>2, <2>9, <2>10, <2>11 DEF RowsStep, QuoteStep, OrderStep, TypeOK
<1>2. ASSUME NEW q \in Quotes, EditLines(q) \/ SetStatus(q)
      PROVE  RowsStep
  <2>1. /\ quote[q].exists /\ quote[q].order = NoOrder
        /\ UNCHANGED <<economics, approval, order, intents, threshold>>
    BY <1>2 DEF EditLines, SetStatus, Open
  <2>2. quote[q] \in QuoteRow /\ quote[q].status # "converted_to_order"
    BY <1>0, <2>1, QuoteFields DEF QuotesFit
  <2>3. \/ \E l \in Lines : quote' = [quote EXCEPT ![q].lines = l]
        \/ \E s \in Statuses \ {"converted_to_order"} : quote' = [quote EXCEPT ![q].status = s]
    BY <1>2 DEF EditLines, SetStatus, Statuses
  <2>4. /\ quote'[q] \in QuoteRow /\ quote'[q].order = NoOrder
        /\ quote'[q].version = quote[q].version
        /\ quote'[q].status # "converted_to_order"
        /\ quote' = [quote EXCEPT ![q] = quote'[q]]
    <3>1. ASSUME NEW l \in Lines, quote' = [quote EXCEPT ![q].lines = l]
          PROVE  /\ quote'[q] \in QuoteRow /\ quote'[q].order = NoOrder
                 /\ quote'[q].version = quote[q].version
                 /\ quote'[q].status # "converted_to_order"
                 /\ quote' = [quote EXCEPT ![q] = quote'[q]]
      BY <1>0, <2>1, <2>2, <3>1 DEF QuoteRow, TypeOK
    <3>2. ASSUME NEW s \in Statuses \ {"converted_to_order"},
                 quote' = [quote EXCEPT ![q].status = s]
          PROVE  /\ quote'[q] \in QuoteRow /\ quote'[q].order = NoOrder
                 /\ quote'[q].version = quote[q].version
                 /\ quote'[q].status # "converted_to_order"
                 /\ quote' = [quote EXCEPT ![q] = quote'[q]]
      BY <1>0, <2>1, <2>2, <3>2 DEF QuoteRow, TypeOK
    <3> QED
      BY <2>3, <3>1, <3>2
  <2>5. IsEdited(q) /\ \A p \in Quotes \ {q} : IsUntouched(p)
    BY <1>0, <2>1, <2>4 DEF IsEdited, IsWritten, StaysOpen, IsUntouched, TypeOK
  <2>6. quote' \in [Quotes -> QuoteRow \cup {NoQuote}]
    BY <1>0, <2>4 DEF TypeOK
  <2> QED
    BY <1>0, <2>1, <2>5, <2>6 DEF RowsStep, QuoteStep, OrderStep, TypeOK
<1>3. ASSUME NEW q \in Quotes, DecideInUI(q)
      PROVE  RowsStep
  <2> DEFINE v == quote[q].version
  <2>1. /\ quote[q].exists /\ quote[q].order = NoOrder
        /\ economics[q][v].required /\ approval[q][v] = "none"
        /\ UNCHANGED <<economics, order, intents, threshold>>
    BY <1>3 DEF DecideInUI, Open
  <2>2. PICK d \in Decisions :
          /\ approval' = [approval EXCEPT ![q][v] = d]
          /\ quote' = [quote EXCEPT ![q].status = d]
    BY <1>3 DEF DecideInUI
  <2>3. quote[q] \in QuoteRow /\ v \in Versions
    BY <1>0, <2>1, QuoteFields
  <2> HIDE DEF v
  <2>4. /\ quote'[q] = [quote[q] EXCEPT !.status = d]
        /\ approval'[q] = [approval[q] EXCEPT ![v] = d]
        /\ \A p \in Quotes \ {q} : IsUntouched(p)
    BY <1>0, <2>1, <2>2 DEF IsUntouched, TypeOK
  <2>5. /\ quote'[q] \in QuoteRow /\ quote'[q].order = NoOrder
        /\ quote'[q].version = quote[q].version /\ quote'[q].status = d
    BY <2>1, <2>3, <2>4 DEF QuoteRow, Decisions, Statuses
  <2>6. IsDecided(q)
    BY <2>1, <2>4, <2>5 DEF IsDecided, IsWritten, StaysOpen, Decisions, v
  <2>7. /\ quote' \in [Quotes -> QuoteRow \cup {NoQuote}]
        /\ approval' \in [Quotes -> [Versions -> Decisions \cup {"none"}]]
    BY <1>0, <2>2, <2>3, <2>5 DEF TypeOK
  <2> QED
    BY <1>0, <2>1, <2>4, <2>6, <2>7 DEF RowsStep, QuoteStep, OrderStep, TypeOK
<1>4. ASSUME NEW o \in Orders, AdvanceOrder(o)
      PROVE  RowsStep
  <2>0. PICK l \in Lines : order' = [order EXCEPT ![o].version = @ + 1, ![o].lines = l]
    BY <1>4 DEF AdvanceOrder
  <2>1. /\ order[o].exists /\ order[o].version < MaxOrderVersion
        /\ UNCHANGED <<quote, economics, approval, intents, threshold>>
    BY <1>4 DEF AdvanceOrder
  <2>2. order[o] \in OrderRow /\ order[o].version + 1 \in 1 .. MaxOrderVersion
    BY <1>0, <2>1, OrderFields, BoundAssumption
  <2>3. /\ order'[o] = [order[o] EXCEPT !.version = order[o].version + 1, !.lines = l]
        /\ \A p \in Orders \ {o} : order'[p] = order[p]
    BY <1>0, <2>0 DEF TypeOK
  <2>4. /\ order'[o] \in OrderRow /\ order'[o].quote = order[o].quote
        /\ order'[o].economics = order[o].economics
    BY <2>2, <2>3 DEF OrderRow
  <2>5. order' \in [Orders -> OrderRow \cup {Unordered}]
    <3>1. \A p \in Orders : order'[p] \in OrderRow \cup {Unordered}
      BY <1>0, <2>3, <2>4 DEF TypeOK
    <3>2. order' = [p \in Orders |-> order'[p]]
      BY <1>0, <2>0 DEF TypeOK
    <3> QED BY <3>1, <3>2
  <2>6. \A p \in Orders : OrderStep(p)
    BY <1>0, <2>1, <2>3, <2>4 DEF OrderStep, TypeOK
  <2> QED
    BY <1>0, <2>1, <2>5, <2>6 DEF RowsStep, QuoteStep, IsUntouched, TypeOK
<1>5. ASSUME ChangePolicy
      PROVE  RowsStep
  BY <1>0, <1>5 DEF ChangePolicy, RowsStep, QuoteStep, IsUntouched, OrderStep, TypeOK
<1> QED
  BY <1>1, <1>2, <1>3, <1>4, <1>5 DEF ByUI

LEMMA CommitRows ==
    ASSUME IInv, NEW h \in Handlers, Commits(h)
    PROVE  RowsStep
BY CreateQuoteRows, DecideQuoteRows, CreateOrderRows, CreateIntentRows DEF Commits, IInv

-------------------------------------------------------------------------------
(***************************************************************************)
(* The rows after a step.                                                  *)
(***************************************************************************)

LEMMA EconomicsFitStep ==
    ASSUME IInv, RowsStep
    PROVE  /\ EconomicsFit'
           /\ \A q \in Quotes, v \in Versions :
                 economics[q][v].exists => economics'[q][v] = economics[q][v]
<1>0. TypeOK /\ EconomicsFit
  BY DEF IInv, TypeInv, RowInv
<1> SUFFICES ASSUME NEW q \in Quotes
             PROVE  /\ quote'[q].exists => economics'[q][quote'[q].version].exists
                    /\ \A v \in Versions : economics'[q][v].exists =>
                          /\ quote'[q].exists
                          /\ v <= quote'[q].version
                          /\ economics'[q][v] = EconomicsOf(economics'[q][v].lines, economics'[q][v].threshold)
                    /\ \A v \in Versions :
                          economics[q][v].exists => economics'[q][v] = economics[q][v]
  BY DEF EconomicsFit
<1>1. CASE IsUntouched(q)
  BY <1>0, <1>1 DEF IsUntouched, EconomicsFit
<1>2. CASE IsPriced(q)
  <2> DEFINE w == quote'[q].version
  <2>1. PICK l \in Lines, t \in Thresholds :
          economics'[q] = [economics[q] EXCEPT ![w] = EconomicsOf(l, t)]
    BY <1>2 DEF IsPriced
  <2>2. /\ quote'[q].exists /\ w \in Versions
        /\ w = IF quote[q].exists THEN quote[q].version + 1 ELSE 1
    BY <1>2 DEF IsPriced, StaysOpen, QuoteRow
  <2>3. quote[q].exists => quote[q].version \in Versions
    BY <1>0, QuoteFields
  <2>4. economics'[q][w] = EconomicsOf(l, t)
        /\ \A v \in Versions \ {w} : economics'[q][v] = economics[q][v]
    BY <1>0, <2>1, <2>2 DEF TypeOK
  <2>5. /\ economics'[q][w].exists
        /\ economics'[q][w] = EconomicsOf(economics'[q][w].lines, economics'[q][w].threshold)
    BY <2>4, EconomicsType
  <2>6. \A v \in Versions : economics[q][v].exists => v < w
    BY <1>0, <2>2, <2>3 DEF EconomicsFit, Versions
  <2> HIDE DEF w
  <2>7. \A v \in Versions \ {w} : economics'[q][v].exists =>
            /\ v <= w
            /\ economics'[q][v] = EconomicsOf(economics'[q][v].lines, economics'[q][v].threshold)
    BY <1>0, <2>2, <2>4, <2>6 DEF EconomicsFit, Versions
  <2> QED
    BY <2>2, <2>4, <2>5, <2>6, <2>7 DEF w, Versions
<1>3. CASE IsWritten(q) \/ IsConverted(q)
  <2>1. /\ quote[q].exists /\ quote'[q].exists
        /\ quote'[q].version = quote[q].version /\ economics'[q] = economics[q]
    BY <1>3 DEF IsWritten, StaysOpen, IsConverted, QuoteRow
  <2> QED
    BY <1>0, <2>1 DEF EconomicsFit
<1> QED
  BY <1>1, <1>2, <1>3 DEF RowsStep, QuoteStep, IsEdited, IsDecided

LEMMA ApprovalsFinal ==
    ASSUME IInv, RowsStep, NEW q \in Quotes, NEW v \in Versions, approval[q][v] # "none"
    PROVE  approval'[q][v] = approval[q][v]
<1>1. approval \in [Quotes -> [Versions -> Decisions \cup {"none"}]]
  BY DEF IInv, TypeInv, TypeOK
<1>2. CASE IsDecided(q)
  BY <1>1, <1>2 DEF IsDecided
<1>3. CASE ~IsDecided(q)
  BY <1>3 DEF RowsStep, QuoteStep, IsUntouched, IsPriced, IsEdited, IsConverted
<1> QED
  BY <1>2, <1>3

LEMMA QuotesStay ==
    ASSUME RowsStep, NEW q \in Quotes, quote[q].exists
    PROVE  quote'[q].exists
BY DEF RowsStep, QuoteStep, IsUntouched, IsPriced, IsEdited, IsDecided, IsWritten,
       StaysOpen, IsConverted, QuoteRow

LEMMA OrdersFitStep ==
    ASSUME IInv, RowsStep
    PROVE  OrdersFit' /\ QuotesFit' /\ OrderIsApproved'
<1>0. TypeOK /\ EconomicsFit /\ OrdersFit /\ QuotesFit /\ OrderIsApproved
  BY DEF IInv, TypeInv, RowInv
\* A converted quote is not touched any more.
<1>1. ASSUME NEW q \in Quotes, quote[q].exists, quote[q].order # NoOrder
      PROVE  IsUntouched(q)
  BY <1>1 DEF RowsStep, QuoteStep, IsPriced, IsEdited, IsDecided, IsWritten, IsConverted
<1>2. ASSUME NEW o \in Orders, order[o].exists
      PROVE  /\ order'[o].exists
             /\ order'[o].quote = order[o].quote
             /\ order'[o].economics = order[o].economics
  BY <1>2 DEF RowsStep, OrderStep, OrderRow
<1>3. ASSUME NEW o \in Orders, ~order[o].exists, order'[o].exists
      PROVE  /\ order'[o] \in OrderRow
             /\ IsConverted(order'[o].quote)
             /\ quote'[order'[o].quote].order = o
  BY <1>3 DEF RowsStep, OrderStep
<1>4. ASSUME NEW o \in Orders, order'[o].exists
      PROVE  LET q == order'[o].quote
                 e == economics'[q][order'[o].economics]
             IN
             /\ quote'[q].exists
             /\ quote'[q].order = o
             /\ quote'[q].version = order'[o].economics
             /\ e.exists
             /\ e.required => approval'[q][order'[o].economics] = "approved"
  <2>1. CASE order[o].exists
    <3> DEFINE q == order[o].quote
    <3>1. /\ q \in Quotes /\ order[o].economics \in Versions /\ o # NoOrder
          /\ quote[q].exists /\ quote[q].order = o /\ quote[q].version = order[o].economics
      BY <1>0, <2>1, OrderFields, BoundAssumption DEF OrdersFit
    <3>2. IsUntouched(q)
      BY <1>1, <3>1
    <3> QED
      BY SMTT(30), <1>0, <1>2, <2>1, <3>1, <3>2 DEF IsUntouched, OrderIsApproved
  <2>2. CASE ~order[o].exists
    <3> DEFINE q == order'[o].quote
    <3>1. q \in Quotes /\ IsConverted(q) /\ quote'[q].order = o
      BY <1>3, <1>4, <2>2 DEF OrderRow
    <3>2. /\ order'[o].economics = quote[q].version
          /\ quote'[q].version = quote[q].version
          /\ quote'[q].exists /\ quote[q].exists
          /\ economics'[q] = economics[q] /\ approval'[q] = approval[q]
      BY <3>1 DEF IsConverted, QuoteRow
    <3> QED
      BY <1>0, <3>1, <3>2 DEF IsConverted, EconomicsFit
  <2> QED
    BY <2>1, <2>2
<1>5. OrdersFit' /\ OrderIsApproved'
  BY <1>4 DEF OrdersFit, OrderIsApproved
<1>6. ASSUME NEW q \in Quotes, quote'[q].exists
      PROVE  /\ quote'[q].order # NoOrder <=> quote'[q].status = "converted_to_order"
             /\ quote'[q].order # NoOrder =>
                   order'[quote'[q].order].exists /\ order'[quote'[q].order].quote = q
  <2>1. CASE IsUntouched(q)
    <3>1. quote'[q] = quote[q] /\ (quote[q].order # NoOrder => quote[q].order \in Orders)
      BY <1>0, <1>6, <2>1, QuoteFields DEF IsUntouched
    <3> QED
      BY <1>0, <1>2, <1>6, <3>1 DEF QuotesFit
  <2>2. CASE StaysOpen(q)
    BY <2>2 DEF StaysOpen
  <2>3. CASE IsConverted(q)
    BY <2>3, BoundAssumption DEF IsConverted, OrderRow
  <2> QED
    BY <2>1, <2>2, <2>3 DEF RowsStep, QuoteStep, IsPriced, IsEdited, IsDecided, IsWritten
<1> QED
  BY <1>5, <1>6 DEF QuotesFit

LEMMA TypeRows ==
    ASSUME IInv, RowsStep,
           pc' \in [Handlers -> {"idle", "read", "lock", "commit"}],
           request' \in [Handlers -> Commands \cup {NoRequest}],
           view' \in [Handlers -> View \cup {NoQuote}]
    PROVE  TypeOK'
<1>0. TypeOK
  BY DEF IInv, TypeInv
<1>1. ASSUME NEW q \in Quotes, NEW v \in Versions, approval'[q][v] # "none"
      PROVE  economics'[q][v].exists
  <2>1. CASE approval[q][v] # "none"
    BY <1>0, <2>1, EconomicsFitStep DEF TypeOK
  <2>2. CASE approval[q][v] = "none"
    <3>1. IsDecided(q)
      BY <1>1, <2>2 DEF RowsStep, QuoteStep, IsUntouched, IsPriced, IsEdited, IsConverted
    <3>2. quote[q].exists /\ v = quote[q].version
      BY <1>0, <1>1, <2>2, <3>1 DEF IsDecided, IsWritten, TypeOK
    <3> QED
      BY <3>2, EconomicsFitStep DEF IInv, RowInv, EconomicsFit
  <2> QED
    BY <2>1, <2>2
<1> QED
  BY <1>1 DEF RowsStep, TypeOK

-------------------------------------------------------------------------------
(***************************************************************************)
(* The handlers after a step.                                              *)
(***************************************************************************)

\* All that the checks of a handler read of its quote.
LooksTheSame(q) ==
    /\ quote'[q].exists = quote[q].exists
    /\ quote'[q].version = quote[q].version
    /\ quote'[q].status = quote[q].status
    /\ quote'[q].order = quote[q].order
    /\ economics'[q] = economics[q]
    /\ approval'[q] = approval[q]

\* What a handler locks does not change for it.
IsProtected(g) ==
    /\ request'[g] = request[g]
    /\ view'[g] = view[g]
    /\ ~Intends(g) => LooksTheSame(request[g].quote)
    /\ Creates(g) => threshold' # NoPolicy
    /\ Converts(g) => ~order'[request[g].order].exists
    /\ Intends(g) => order'[request[g].order] = order[request[g].order]

LEMMA ProtectedAdmits ==
    ASSUME NEW g \in Handlers, Admits(g), IsProtected(g)
    PROVE  Admits(g)'
<1> USE DEF IsProtected, LooksTheSame
<1>1. CASE Creates(g)
  BY <1>1 DEF Admits, Creates, Decides, Converts, Intends, AdmitsQuote
<1>2. CASE Decides(g)
  BY <1>2 DEF Admits, Creates, Decides, Converts, Intends, AdmitsDecision,
              StillJoined, Exact, Undecided
<1>3. CASE Converts(g)
  BY <1>3 DEF Admits, Creates, Decides, Converts, Intends, AdmitsOrder,
              StillJoined, Exact, Approved
<1>4. CASE Intends(g)
  BY <1>4 DEF Admits, Creates, Decides, Converts, Intends, AdmitsIntent
<1> QED
  BY <1>1, <1>2, <1>3, <1>4 DEF Admits

LEMMA CommitProtects ==
    ASSUME IInv, NEW h \in Handlers, Commits(h), NEW g \in Handlers, g # h, pc[g] = "commit"
    PROVE  IsProtected(g)
<1>0. TypeInv /\ TypeOK /\ LocksExclude /\ ChecksHold /\ pc[h] = "commit"
  BY DEF IInv, TypeInv, HandlerInv, Commits
<1>1. request'[g] = request[g] /\ view'[g] = view[g]
  BY <1>0, TypeFinished
<1>2. /\ Creates(g) => threshold # NoPolicy
      /\ Converts(g) => ~order[request[g].order].exists
      /\ Intends(g) => order[request[g].order].exists
  BY <1>0, Checked DEF AdmitsQuote, AdmitsOrder, AdmitsIntent
<1>3. threshold' = threshold
  BY DEF Commits, CreateQuote, DecideQuote, CreateOrder, CreateIntent
<1>4. ~Intends(g) => LooksTheSame(request[g].quote)
  <2> SUFFICES ASSUME ~Intends(g)
               PROVE  LooksTheSame(request[g].quote)
    OBVIOUS
  <2>1. CASE Intends(h)
    BY <2>1 DEF Commits, CreateQuote, DecideQuote, CreateOrder, CreateIntent, LooksTheSame,
                Creates, Decides, Converts, Intends
  <2>2. CASE ~Intends(h)
    <3> DEFINE p == request[g].quote
    <3>1. p # request[h].quote
      BY <1>0, <2>2 DEF LocksExclude
    <3>2. p \in Quotes
      BY <1>0, CommandFields
    <3>3. quote'[p] = quote[p] /\ economics'[p] = economics[p] /\ approval'[p] = approval[p]
      BY <1>0, <3>1, <3>2
      DEF TypeOK, Commits, CreateQuote, DecideQuote, CreateOrder, CreateIntent
    <3> QED
      BY <3>3 DEF LooksTheSame
  <2> QED
    BY <2>1, <2>2
<1>5. Converts(g) \/ Intends(g) => order'[request[g].order] = order[request[g].order]
  <2> SUFFICES ASSUME Converts(g) \/ Intends(g)
               PROVE  order'[request[g].order] = order[request[g].order]
    OBVIOUS
  <2>1. CASE CreateOrder(h)
    <3>1. Converts(h) /\ ~order[request[h].order].exists
      BY <1>0, <2>1, Checked DEF CreateOrder, AdmitsOrder
    <3>2. request[g].order # request[h].order
      BY <1>0, <1>2, <3>1 DEF LocksExclude
    <3>3. request[g].order \in Orders
      BY <1>0, CommandFields
    <3> QED
      BY <1>0, <2>1, <3>2, <3>3 DEF CreateOrder, TypeOK
  <2>2. CASE ~CreateOrder(h)
    BY <2>2 DEF Commits, CreateQuote, DecideQuote, CreateIntent
  <2> QED
    BY <2>1, <2>2
<1> QED
  BY <1>1, <1>2, <1>3, <1>4, <1>5 DEF IsProtected

LEMMA UIProtects ==
    ASSUME IInv, ByUI, NEW g \in Handlers, pc[g] = "commit"
    PROVE  IsProtected(g)
<1>0. TypeInv /\ TypeOK /\ ChecksHold
  BY DEF IInv, TypeInv, HandlerInv
<1>1. request'[g] = request[g] /\ view'[g] = view[g]
  BY DEF ByUI
<1>2. /\ Creates(g) => threshold # NoPolicy
      /\ Converts(g) => ~order[request[g].order].exists
      /\ Intends(g) => order[request[g].order].exists
  BY <1>0, Checked DEF AdmitsQuote, AdmitsOrder, AdmitsIntent
<1>3. /\ ~Intends(g) => request[g].quote \in Quotes
      /\ Converts(g) \/ Intends(g) => request[g].order \in Orders
  BY <1>0, CommandFields
<1>4. ASSUME NEW q \in Quotes, ReviseQuote(q) \/ SetStatus(q) \/ DecideInUI(q)
      PROVE  IsProtected(g)
  <2>1. ~Intends(g) => request[g].quote # q
    BY <1>4 DEF ReviseQuote, SetStatus, DecideInUI, Unlocked, LocksQuote
  <2>2. ASSUME NEW p \in Quotes, p # q
        PROVE  quote'[p] = quote[p] /\ economics'[p] = economics[p] /\ approval'[p] = approval[p]
    BY <1>0, <1>4, <2>2 DEF ReviseQuote, SetStatus, DecideInUI, TypeOK
  <2>3. order' = order /\ threshold' = threshold
    BY <1>4 DEF ReviseQuote, SetStatus, DecideInUI
  <2> QED
    BY <1>1, <1>2, <1>3, <2>1, <2>2, <2>3 DEF IsProtected, LooksTheSame
<1>5. ASSUME NEW q \in Quotes, EditLines(q)
      PROVE  IsProtected(g)
  <2>1. /\ quote[q] \in QuoteRow
        /\ UNCHANGED <<economics, approval, order, threshold>>
    BY <1>0, <1>5, QuoteFields DEF EditLines, Open
  <2>2. PICK l \in Lines : quote' = [quote EXCEPT ![q].lines = l]
    BY <1>5 DEF EditLines
  <2>3. quote'[q] = [quote[q] EXCEPT !.lines = l] /\ \A p \in Quotes \ {q} : quote'[p] = quote[p]
    BY <1>0, <2>2 DEF TypeOK
  <2>4. LooksTheSame(q)
    BY <2>1, <2>3 DEF LooksTheSame, QuoteRow
  <2>5. \A p \in Quotes : LooksTheSame(p)
    BY <2>1, <2>3, <2>4 DEF LooksTheSame
  <2> QED
    BY <1>1, <1>2, <1>3, <2>1, <2>5 DEF IsProtected
<1>6. ASSUME NEW o \in Orders, AdvanceOrder(o)
      PROVE  IsProtected(g)
  <2>1. /\ order[o].exists /\ ~SharesOrder(g, o)
        /\ \E l \in Lines : order' = [order EXCEPT ![o].version = @ + 1, ![o].lines = l]
        /\ UNCHANGED <<quote, economics, approval, threshold>>
    BY <1>6 DEF AdvanceOrder
  <2>2. Converts(g) \/ Intends(g) => request[g].order # o
    BY <1>2, <2>1 DEF SharesOrder
  <2>3. Converts(g) \/ Intends(g) => order'[request[g].order] = order[request[g].order]
    BY <1>0, <1>3, <2>1, <2>2 DEF TypeOK
  <2> QED
    BY <1>1, <1>2, <2>1, <2>3 DEF IsProtected, LooksTheSame
<1>7. ASSUME ChangePolicy
      PROVE  IsProtected(g)
  BY <1>1, <1>2, <1>7 DEF ChangePolicy, SharesPolicy, IsProtected, LooksTheSame
<1> QED
  BY <1>4, <1>5, <1>6, <1>7 DEF ByUI

\* The views after a step that changes rows: what was seen is still there.
LEMMA ViewStays ==
    ASSUME IInv, RowsStep, NEW g \in Handlers, pc[g] # "idle", view[g].exists,
           request'[g] = request[g], view'[g] = view[g]
    PROVE  /\ Decides(g)' \/ Converts(g)'
           /\ quote'[request'[g].quote].exists
           /\ view'[g].approval # "none" =>
                 approval'[request'[g].quote][view'[g].version] = view'[g].approval
<1>0. TypeInv /\ TypeOK /\ ViewsHold
  BY DEF IInv, TypeInv, HandlerInv
<1>1. /\ Decides(g) \/ Converts(g)
      /\ quote[request[g].quote].exists
      /\ view[g].approval # "none" =>
            approval[request[g].quote][view[g].version] = view[g].approval
  BY <1>0 DEF ViewsHold
<1>2. request[g].quote \in Quotes
  BY <1>0, <1>1, CommandFields
<1>3. view[g] \in View
  BY <1>0 DEF TypeOK, NoQuote
<1>4. view[g].version \in Versions
  BY <1>3 DEF View
<1> QED
  BY <1>1, <1>2, <1>4, ApprovalsFinal, QuotesStay DEF Decides, Converts

\* After a step that changes rows, every handler but one at most goes on.
LEMMA HandlersStay ==
    ASSUME IInv, RowsStep,
           \A g \in Handlers : pc'[g] # "idle" => pc'[g] = pc[g] /\ request'[g] = request[g],
           \A g \in Handlers : view'[g].exists => view'[g] = view[g] /\ pc'[g] # "idle",
           \A g \in Handlers : pc'[g] = "commit" => IsProtected(g)
    PROVE  HandlerInv'
<1>0. LocksExclude /\ ChecksHold
  BY DEF IInv, HandlerInv
<1>1. LocksExclude'
  BY <1>0 DEF LocksExclude, Intends, Converts
<1>2. ChecksHold'
  BY <1>0, ProtectedAdmits DEF ChecksHold
<1>3. ViewsHold'
  BY ViewStays DEF ViewsHold
<1> QED
  BY <1>1, <1>2, <1>3 DEF HandlerInv

LEMMA HandlersQuiet ==
    ASSUME IInv, NEW h \in Handlers, Quiet(h)
    PROVE  HandlerInv'
<1>0. /\ TypeInv /\ TypeOK /\ RequestsAreKnown
      /\ LocksExclude /\ ChecksHold /\ ViewsHold /\ UNCHANGED rows
  BY DEF IInv, TypeInv, HandlerInv, Quiet
<1>1. ASSUME NEW g \in Handlers, g # h
      PROVE  pc'[g] = pc[g] /\ request'[g] = request[g] /\ view'[g] = view[g]
  BY <1>0, <1>1 DEF Quiet, OnlyMoves, TypeOK
<1>2. pc'[h] = "commit" => /\ pc[h] = "lock" /\ Granted(h) /\ Admits(h)
                           /\ request'[h] = request[h] /\ view'[h] = view[h]
  BY DEF Quiet, Finishes
<1>3. LocksExclude'
  <2>1. ASSUME NEW g \in Handlers, g # h, pc[g] = "commit", pc'[h] = "commit"
        PROVE  /\ ~Intends(g) /\ ~Intends(h) => request[g].quote # request[h].quote
               /\ Converts(g) /\ Converts(h) => request[g].order # request[h].order
    BY <1>2, <2>1 DEF Granted, Others, LocksQuote, InsertsOrder
  <2> QED
    BY <1>0, <1>1, <1>2, <2>1 DEF LocksExclude, Intends, Converts
<1>4. ChecksHold'
  <2> SUFFICES ASSUME NEW g \in Handlers, pc'[g] = "commit"
               PROVE  Admits(g)'
    BY DEF ChecksHold
  <2>1. Admits(g) /\ request'[g] = request[g] /\ view'[g] = view[g]
    BY <1>0, <1>1, <1>2 DEF ChecksHold
  <2>2. UNCHANGED <<quote, economics, approval, order, threshold>>
    BY <1>0 DEF rows
  <2> QED
    BY <2>1, <2>2 DEF Admits, Creates, Decides, Converts, Intends, AdmitsQuote, AdmitsDecision,
        AdmitsOrder, AdmitsIntent, StillJoined, Exact, Undecided, Approved
<1>5. ViewsHold'
  <2> SUFFICES ASSUME NEW g \in Handlers, view'[g].exists
               PROVE  /\ Decides(g)' \/ Converts(g)'
                      /\ quote'[request'[g].quote].exists
                      /\ view'[g].approval # "none" =>
                            approval'[request'[g].quote][view'[g].version] = view'[g].approval
    BY DEF ViewsHold
  <2>1. quote' = quote /\ approval' = approval
    BY <1>0 DEF rows
  <2>2. CASE request'[g] = request[g] /\ view'[g] = view[g]
    BY <1>0, <2>1, <2>2 DEF ViewsHold, Decides, Converts
  <2>3. CASE /\ g = h /\ request'[h] = request[h]
             /\ view'[h] = IF Decides(h) \/ Converts(h) THEN Joined(request[h].quote) ELSE NoQuote
    BY SMTT(30), <2>1, <2>3 DEF Joined, NoQuote, Decides, Converts
  <2>4. CASE g = h /\ view'[h] = NoQuote
    BY <2>4 DEF NoQuote
  <2> QED
    BY <1>0, <1>1, <2>2, <2>3, <2>4 DEF Quiet, Finishes, RequestsAreKnown
<1> QED
  BY <1>3, <1>4, <1>5 DEF HandlerInv

LEMMA HandlersCommit ==
    ASSUME IInv, NEW h \in Handlers, Commits(h)
    PROVE  HandlerInv'
<1>0. TypeInv
  BY DEF IInv
<1>1. \A g \in Handlers \ {h} : pc'[g] = pc[g] /\ request'[g] = request[g] /\ view'[g] = view[g]
  BY <1>0, TypeFinished
<1>2. pc'[h] = "idle" /\ view'[h] = NoQuote
  BY <1>0, TypeFinished
<1>3. \A g \in Handlers : view[g].exists => pc[g] # "idle"
  BY <1>0 DEF TypeInv, RequestsAreKnown, NoQuote
<1>4. \A g \in Handlers : pc'[g] = "commit" => IsProtected(g)
  BY <1>1, <1>2, CommitProtects
<1> QED
  BY <1>1, <1>2, <1>3, <1>4, CommitRows, HandlersStay DEF NoQuote

LEMMA HandlersUI ==
    ASSUME IInv, ByUI
    PROVE  HandlerInv'
<1>1. UNCHANGED <<pc, request, view>>
  BY DEF ByUI
<1>2. \A g \in Handlers : view[g].exists => pc[g] # "idle"
  BY DEF IInv, TypeInv, RequestsAreKnown, NoQuote
<1>3. \A g \in Handlers : pc'[g] = "commit" => IsProtected(g)
  BY <1>1, UIProtects
<1> QED
  BY <1>1, <1>2, <1>3, UIRows, HandlersStay

-------------------------------------------------------------------------------
LEMMA InitInv == Init => IInv
<1> SUFFICES ASSUME Init
             PROVE  IInv
  OBVIOUS
<1> USE DEF Init, NoQuote, NoEconomics, Unordered
<1>1. TypeOK
  BY DEF TypeOK
<1>2. RequestsAreKnown
  BY DEF RequestsAreKnown
<1>3. RowInv
  BY DEF RowInv, EconomicsFit, OrdersFit, QuotesFit, OrderIsApproved
<1>4. HandlerInv
  BY DEF HandlerInv, LocksExclude, ChecksHold, ViewsHold
<1> QED
  BY <1>1, <1>2, <1>3, <1>4 DEF IInv, TypeInv

LEMMA StepInv ==
    ASSUME IInv, Next
    PROVE  IInv'
<1>0. TypeInv
  BY DEF IInv
<1>1. ASSUME NEW h \in Handlers, Quiet(h)
      PROVE  IInv'
  <2>1. TypeInv' /\ HandlerInv'
    BY <1>0, <1>1, TypeQuiet, HandlersQuiet
  <2>2. UNCHANGED <<quote, economics, approval, order>>
    BY <1>1 DEF Quiet, rows
  <2>3. RowInv'
    BY <2>2 DEF IInv, RowInv, EconomicsFit, OrdersFit, QuotesFit, OrderIsApproved
  <2> QED
    BY <2>1, <2>3 DEF IInv
<1>2. ASSUME NEW h \in Handlers, Commits(h)
      PROVE  IInv'
  <2>1. RowsStep
    BY <1>2, CommitRows
  <2>2. RowInv'
    BY <2>1, EconomicsFitStep, OrdersFitStep DEF RowInv
  <2>3. TypeInv'
    BY <1>0, <1>2, <2>1, TypeFinished, TypeRows DEF TypeInv
  <2> QED
    BY <1>2, <2>2, <2>3, HandlersCommit DEF IInv
<1>3. ASSUME ByUI
      PROVE  IInv'
  <2>1. RowsStep
    BY <1>3, UIRows
  <2>2. RowInv'
    BY <2>1, EconomicsFitStep, OrdersFitStep DEF RowInv
  <2>3. UNCHANGED <<pc, request, view>>
    BY <1>3 DEF ByUI
  <2>4. RequestsAreKnown'
    BY <1>0, <2>3 DEF TypeInv, RequestsAreKnown
  <2>5. TypeOK'
    BY <1>0, <2>1, <2>3, TypeRows DEF TypeInv, TypeOK
  <2> QED
    BY <1>3, <2>2, <2>4, <2>5, HandlersUI DEF IInv, TypeInv
<1> QED
  BY <1>0, <1>1, <1>2, <1>3, StepCases

LEMMA StutterInv ==
    ASSUME IInv, UNCHANGED vars
    PROVE  IInv'
<1>0. UNCHANGED <<quote, economics, approval, order, intents, threshold, pc, request, view>>
  BY DEF vars
<1>1. TypeInv'
  BY <1>0 DEF IInv, TypeInv, TypeOK, RequestsAreKnown
<1>2. RowInv'
  BY <1>0 DEF IInv, RowInv, EconomicsFit, OrdersFit, QuotesFit, OrderIsApproved
<1>3. LocksExclude' /\ ViewsHold'
  BY <1>0 DEF IInv, HandlerInv, LocksExclude, ViewsHold, Decides, Converts, Intends
<1>4. ChecksHold'
  <2>1. ASSUME NEW h \in Handlers PROVE Admits(h)' <=> Admits(h)
    BY ONLY <1>0 DEF Admits, Creates, Decides, Converts, Intends, AdmitsQuote, AdmitsDecision,
       AdmitsOrder, AdmitsIntent, StillJoined, Exact, Undecided, Approved
  <2> QED
    BY <1>0, <2>1 DEF IInv, HandlerInv, ChecksHold
<1> QED
  BY <1>1, <1>2, <1>3, <1>4 DEF IInv, HandlerInv

LEMMA InvCorrect == Spec => []IInv
<1>1. IInv /\ [Next]_vars => IInv'
  BY StepInv, StutterInv
<1> QED
  BY InitInv, <1>1, PTL DEF Spec

-------------------------------------------------------------------------------
(***************************************************************************)
(* Rounding.                                                               *)
(***************************************************************************)

LEMMA DivFact ==
    ASSUME NEW a \in Int, NEW b \in Int, b > 0
    PROVE  /\ a \div b \in Int
           /\ b * (a \div b) <= a
           /\ a < b * (a \div b) + b
OBVIOUS

LEMMA RoundedUp ==
    ASSUME NEW n \in Int, NEW d \in Int, d > 0
    PROVE  /\ Rounded(n, d) \in Int
           /\ (2 * d) * Rounded(n, d) <= 2 * n + d
<1> DEFINE b == 2 * d
           a == 2 * n + d
           c == d - 2 * n
<1>1. a \in Int /\ b \in Int /\ c \in Int /\ b > 0
  OBVIOUS
<1>2. Rounded(n, d) = IF n >= 0 THEN a \div b ELSE -(c \div b)
  BY DEF Rounded
<1>3. c = b - a
  OBVIOUS
<1> HIDE DEF a, b, c
<1>4. b * (-(c \div b)) = -(b * (c \div b)) /\ c \div b \in Int
  BY <1>1, DivFact
<1>5. Rounded(n, d) \in Int /\ b * Rounded(n, d) <= a
  BY <1>1, <1>2, <1>3, <1>4, DivFact
<1> QED
  BY <1>5 DEF a, b

LEMMA MarginOfRounded ==
    ASSUME NEW n \in Int, NEW d \in Int, d > 0, NEW t \in Int, 100 * Rounded(n, d) > t
    PROVE  /\ n * 100 >= (t - 50) * d
           /\ t % 100 = 0 => n * 100 > t * d
<1> DEFINE r == Rounded(n, d)
<1>1. r \in Int /\ (2 * d) * r <= 2 * n + d /\ 100 * r > t
  BY RoundedUp
<1> HIDE DEF r
<1>2. /\ d * r \in Int /\ 100 * n >= 100 * (d * r) - 50 * d
      /\ 100 * (d * r) = d * (100 * r)
  BY <1>1
<1>3. n * 100 >= (t - 50) * d
  <2>1. 100 * r \in Int /\ t + 1 \in Int /\ 100 * r >= t + 1
    BY <1>1
  <2>2. 100 * (d * r) >= d * (t + 1)
    BY <1>2, <2>1
  <2> QED
    BY <1>2, <2>2
<1>4. ASSUME t % 100 = 0
      PROVE  n * 100 > t * d
  <2>1. 100 * r \in Int /\ t + 100 \in Int /\ 100 * r >= t + 100
    BY <1>1, <1>4
  <2>2. 100 * (d * r) >= d * (t + 100)
    BY <1>2, <2>1
  <2> QED
    BY <1>2, <2>2
<1> QED
  BY <1>3, <1>4

-------------------------------------------------------------------------------
(***************************************************************************)
(* The theorems.                                                           *)
(***************************************************************************)

\* Every variable keeps its type, and only economics that exist are decided.
THEOREM TypeCorrect == Spec => []TypeOK
<1>1. IInv => TypeOK
  BY DEF IInv, TypeInv
<1> QED
  BY InvCorrect, <1>1, PTL

\* The economics an order was created from exist and were approved if they
\* had to be, whatever the UI and the other requests did meanwhile.
THEOREM OrderIsApprovedCorrect == Spec => []OrderIsApproved
<1>1. IInv => OrderIsApproved
  BY DEF IInv, RowInv
<1> QED
  BY InvCorrect, <1>1, PTL

\* A quote is converted once, into the order that names it.
THEOREM ConversionIsExactCorrect == Spec => []ConversionIsExact
<1>1. IInv => ConversionIsExact
  <2> SUFFICES ASSUME IInv
               PROVE  ConversionIsExact
    OBVIOUS
  <2>1. OrdersFit /\ QuotesFit /\ \A o \in Orders : o # NoOrder
    BY BoundAssumption DEF IInv, RowInv
  <2>2. ASSUME NEW q \in Quotes, NEW o \in Orders, quote[q].exists
        PROVE  quote[q].order = o <=> order[o].exists /\ order[o].quote = q
    BY <2>1, <2>2 DEF OrdersFit, QuotesFit
  <2> QED
    BY <2>1, <2>2 DEF ConversionIsExact, QuotesFit
<1> QED
  BY InvCorrect, <1>1, PTL

\* No step changes a decision, be it the API's or the UI's.
THEOREM DecisionIsFinalCorrect == Spec => DecisionIsFinal
<1> DEFINE Final == \A q \in Quotes, v \in Versions :
                       approval[q][v] # "none" => approval'[q][v] = approval[q][v]
<1>1. IInv /\ [Next]_vars => [Final]_vars
  <2>1. ASSUME IInv, Next
        PROVE  Final
    <3>1. CASE \E h \in Handlers : Quiet(h)
      BY <3>1 DEF Quiet, rows
    <3>2. CASE (\E h \in Handlers : Commits(h)) \/ ByUI
      <4>1. RowsStep
        BY <2>1, <3>2, CommitRows, UIRows
      <4> QED
        BY <2>1, <4>1, ApprovalsFinal
    <3> QED
      BY <2>1, <3>1, <3>2, StepCases DEF IInv
  <2> QED
    BY <2>1
<1> QED
  BY InvCorrect, <1>1, PTL DEF Spec, DecisionIsFinal

\* At the moment an order is created its quote is accepted, at its version.
THEOREM OrderedAsAcceptedCorrect == Spec => OrderedAsAccepted
<1> DEFINE Accepted == \A o \in Orders :
              ~order[o].exists /\ order'[o].exists =>
                  /\ quote[order'[o].quote].status = "customer_accepted"
                  /\ quote[order'[o].quote].version = order'[o].economics
<1>1. IInv /\ [Next]_vars => [Accepted]_vars
  <2>1. ASSUME IInv, Next
        PROVE  Accepted
    <3>1. CASE \E h \in Handlers : Quiet(h)
      BY <3>1 DEF Quiet, rows
    <3>2. CASE (\E h \in Handlers : Commits(h)) \/ ByUI
      <4>1. RowsStep
        BY <2>1, <3>2, CommitRows, UIRows
      <4>2. ASSUME NEW o \in Orders, ~order[o].exists, order'[o].exists
            PROVE  /\ quote[order'[o].quote].status = "customer_accepted"
                   /\ quote[order'[o].quote].version = order'[o].economics
        <5>1. IsConverted(order'[o].quote) /\ quote'[order'[o].quote].order = o
          BY <4>1, <4>2 DEF RowsStep, OrderStep
        <5> QED
          BY <5>1 DEF IsConverted
      <4> QED
        BY <4>2
    <3> QED
      BY <2>1, <3>1, <3>2, StepCases DEF IInv
  <2> QED
    BY <2>1
<1> QED
  BY InvCorrect, <1>1, PTL DEF Spec, OrderedAsAccepted

\* An intent is recorded for the order version and the lines it names.
THEOREM IntentIsExactCorrect == Spec => IntentIsExact
<1> DEFINE Exactly == \A i \in intents' \ intents :
              order[i.order].exists /\ order[i.order].version = i.version
                                    /\ order[i.order].lines = i.lines
<1>1. IInv /\ [Next]_vars => [Exactly]_vars
  <2>1. ASSUME IInv, Next
        PROVE  Exactly
    <3>1. CASE \E h \in Handlers : Commits(h) /\ CreateIntent(h)
      <4>1. PICK h \in Handlers : Commits(h) /\ CreateIntent(h)
        BY <3>1
      <4>2. /\ Intends(h)
            /\ intents' = intents \cup {[order |-> request[h].order, version |-> request[h].expects,
                                         lines |-> request[h].lines]}
        BY <4>1 DEF CreateIntent
      <4>3. AdmitsIntent(request[h])
        BY <2>1, <4>1, <4>2, Checked DEF IInv, HandlerInv, Commits
      <4> QED
        BY <4>2, <4>3 DEF AdmitsIntent
    <3>2. CASE ~\E h \in Handlers : Commits(h) /\ CreateIntent(h)
      <4>1. intents' = intents
        BY <2>1, <3>2, StepCases
        DEF IInv, Quiet, rows, Commits, CreateQuote, DecideQuote, CreateOrder, ByUI, ReviseQuote,
            EditLines, SetStatus, DecideInUI, AdvanceOrder, ChangePolicy
      <4> QED
        BY <4>1
    <3> QED
      BY <3>1, <3>2
  <2> QED
    BY <2>1
<1> QED
  BY InvCorrect, <1>1, PTL DEF Spec, IntentIsExact

\* What was priced without an approval earns more than its threshold, to the
\* precision of the rounding, for any amounts.
THEOREM AutomaticMarginCorrect == Spec => []AutomaticMargin
<1>1. IInv => AutomaticMargin
  <2> SUFFICES ASSUME IInv, NEW q \in Quotes, NEW v \in Versions,
                      economics[q][v].exists, ~economics[q][v].required,
                      subtotal[economics[q][v].lines] > 0
               PROVE  LET e == economics[q][v]
                          margin == (subtotal[e.lines] - cost[e.lines]) * 100000000
                      IN
                      /\ margin >= (e.threshold - 50) * subtotal[e.lines]
                      /\ e.threshold % 100 = 0 => margin > e.threshold * subtotal[e.lines]
    BY SMT DEF AutomaticMargin
  <2> DEFINE l == economics[q][v].lines
             t == economics[q][v].threshold
             n == (subtotal[l] - cost[l]) * 1000000
  <2>1. economics[q][v] \in EconomicsRow
    BY DEF IInv, TypeInv, TypeOK, NoEconomics
  <2>2. l \in Lines /\ t \in Int
    BY <2>1, MoneyAssumption DEF EconomicsRow
  <2>3. economics[q][v] = EconomicsOf(l, t)
    BY DEF IInv, RowInv, EconomicsFit
  <2>4. subtotal[l] \in Int /\ cost[l] \in Int /\ subtotal[l] > 0
    BY <2>2, MoneyAssumption, SMT
  <2>5. 100 * Rounded(n, subtotal[l]) > t
    <3>1. EconomicsOf(l, t).required = ApprovalRequired(l, t)
      BY SMT DEF EconomicsOf
    <3>2. ~ApprovalRequired(l, t)
      BY <2>3, <3>1, SMT
    <3>3. GrossMarginPercent(l) > t
      BY <3>2, SMT DEF ApprovalRequired
    <3>4. GrossMarginPercent(l) = 100 * Rounded(n, subtotal[l])
      BY <2>4, SMT DEF GrossMarginPercent
    <3> QED
      BY <3>3, <3>4, SMT
  <2>6. n \in Int /\ n * 100 = (subtotal[l] - cost[l]) * 100000000
    BY <2>4, SMT
  <2> HIDE DEF n
  <2>7. n * 100 >= (t - 50) * subtotal[l] /\ (t % 100 = 0 => n * 100 > t * subtotal[l])
    BY <2>2, <2>4, <2>5, <2>6, MarginOfRounded
  <2> QED
    BY <2>6, <2>7, SMT
<1> QED
  BY InvCorrect, <1>1, PTL

\* Decisions, conversions and intents act on the rows as they are at their commit.
THEOREM CommandsAreExactCorrect == Spec => CommandsAreExact
  BY DecisionIsFinalCorrect, OrderedAsAcceptedCorrect, IntentIsExactCorrect DEF CommandsAreExact

-------------------------------------------------------------------------------
(***************************************************************************)
(* Reviews, for any number of handlers, commands, documents, case versions *)
(* and policies.                                                           *)
(*                                                                         *)
(* The document a handler has found was there when it looked, and the      *)
(* version it saw beside it is one the case has had; whatever happens to   *)
(* the case during the wait for the lock, both stay so.  What an approval  *)
(* was checked against cannot change between check and commit, because     *)
(* Render and ChangeReviewPolicy wait for the shared locks.                *)
(***************************************************************************)

\* What a handler has read: a document that exists, and a version of the case
\* that was current when the document was the newest.
DocumentInv ==
    \A h \in Handlers :
        pc[h] \in {"lock", "commit"} =>
            /\ request[h] \in ReviewCommands
            /\ view[h].document <= latest
            /\ view[h].document < view[h].version
            /\ view[h].version <= caseVersion

\* Past its checks, a handler still holds what it was checked against.
ReviewChecked ==
    \A h \in Handlers :
        pc[h] = "commit" =>
            /\ NamesDocument(h)
            /\ Approves(h) => /\ request[h].document \in verified
                              /\ request[h].confirms = policy

\* A handler that does anything has a command.
ReviewWork == \A h \in Handlers : pc[h] # "idle" => request[h] \in ReviewCommands

ReviewInv == /\ ReviewTypeOK
        /\ latest < caseVersion
        /\ ReviewWork
        /\ DocumentInv
        /\ ReviewChecked
        /\ ReviewFollowsDocument

LEMMA ReviewFields ==
    ASSUME NEW c \in ReviewCommands
    PROVE  /\ c.expects \in CaseVersions /\ c.document \in Documents
           /\ c.decision \in ReviewDecisions /\ c.notes \in Notes /\ c.confirms \in Policies
BY ReviewAssumption DEF ReviewCommand

\* The row that a command leads to is a review.
LEMMA ReviewOfCommand ==
    ASSUME NEW c \in ReviewCommands
    PROVE  /\ ReviewOf(c) \in Review
           /\ ReviewOf(c).document = c.document
           /\ ReviewOf(c).expects = c.expects
           /\ ReviewOf(c).decision = c.decision
           /\ c.decision = "approved" => ReviewOf(c).policy = c.confirms
<1>1. CASE c.decision = "approved"
  BY <1>1, ReviewFields DEF ReviewOf, Review
<1>2. CASE c.decision # "approved"
  BY <1>2, ReviewFields DEF ReviewOf, Review
<1> QED BY <1>1, <1>2

LEMMA ReviewInitHolds == ReviewInit => ReviewInv
BY ReviewAssumption
   DEF ReviewInit, ReviewInv, ReviewTypeOK, ReviewWork, DocumentInv, ReviewChecked,
       ReviewFollowsDocument,
       CaseVersions, Documents, Policies, NoRequest, NoView, NoReviewPolicy

\* A step that ends the work of a handler and leaves the rows alone.
LEMMA FinishReviewKeeps ==
    ASSUME ReviewInv, NEW h \in Handlers, FinishReview(h), UNCHANGED reviewRows
    PROVE  ReviewInv'
<1> USE DEF ReviewInv
<1>1. /\ pc'[h] = "idle"
      /\ \A g \in Handlers \ {h} : pc'[g] = pc[g] /\ request'[g] = request[g] /\ view'[g] = view[g]
  BY DEF FinishReview, ReviewTypeOK
<1>2. ReviewTypeOK'
  BY DEF ReviewTypeOK, FinishReview, reviewRows, NoView
<1>3. (latest < caseVersion)' /\ ReviewWork' /\ DocumentInv' /\ ReviewChecked'
  BY <1>1 DEF reviewRows, ReviewWork, DocumentInv, ReviewChecked, NamesDocument, Approves
<1>4. ReviewFollowsDocument'
  BY DEF reviewRows, ReviewFollowsDocument
<1> QED BY <1>2, <1>3, <1>4

LEMMA ReceiveReviewKeeps == ASSUME ReviewInv, NEW h \in Handlers, ReceiveReview(h) PROVE ReviewInv'
<1> USE DEF ReviewInv
<1>1. /\ request'[h] \in ReviewCommands /\ pc'[h] = "read"
      /\ \A g \in Handlers \ {h} : pc'[g] = pc[g] /\ request'[g] = request[g] /\ view'[g] = view[g]
  BY DEF ReceiveReview, ReviewTypeOK
<1>2. ReviewTypeOK'
  BY DEF ReceiveReview, reviewRows, ReviewTypeOK
<1>3. (latest < caseVersion)' /\ ReviewWork' /\ DocumentInv' /\ ReviewChecked'
  BY <1>1 DEF ReceiveReview, reviewRows, ReviewWork, DocumentInv, ReviewChecked,
              NamesDocument, Approves
<1>4. ReviewFollowsDocument'
  BY DEF ReceiveReview, reviewRows, ReviewFollowsDocument
<1> QED BY <1>2, <1>3, <1>4

LEMMA ReadDocumentKeeps == ASSUME ReviewInv, NEW h \in Handlers, ReadDocument(h) PROVE ReviewInv'
<1> USE DEF ReviewInv
<1>1. /\ pc[h] = "read" /\ pc'[h] = "lock" /\ request' = request
      /\ view'[h] = [document |-> latest, version |-> caseVersion]
      /\ \A g \in Handlers \ {h} : pc'[g] = pc[g] /\ view'[g] = view[g]
  BY DEF ReadDocument, ReviewTypeOK
<1>2. ReviewTypeOK'
  BY DEF ReadDocument, reviewRows, ReviewTypeOK
<1>3. (latest < caseVersion)' /\ ReviewWork'
  BY <1>1 DEF ReadDocument, reviewRows, ReviewWork
<1>4. DocumentInv'
  BY <1>1, ReviewAssumption DEF ReadDocument, reviewRows, DocumentInv, ReviewWork,
                                ReviewTypeOK, Documents, CaseVersions
<1>5. ReviewChecked'
  BY <1>1 DEF ReadDocument, reviewRows, ReviewChecked, NamesDocument, Approves
<1>6. ReviewFollowsDocument'
  BY DEF ReadDocument, reviewRows, ReviewFollowsDocument
<1> QED BY <1>2, <1>3, <1>4, <1>5, <1>6

\* The checks become what the handler holds.
LEMMA DecideProposalKeeps ==
    ASSUME ReviewInv, NEW h \in Handlers, DecideProposal(h)
    PROVE  ReviewInv'
<1> USE DEF ReviewInv
<1>1. /\ pc[h] = "lock" /\ pc'[h] = "commit" /\ request' = request /\ view' = view
      /\ \A g \in Handlers \ {h} : pc'[g] = pc[g]
  BY DEF DecideProposal, ReviewTypeOK
<1>2. ReviewTypeOK'
  BY DEF DecideProposal, reviewRows, ReviewTypeOK
<1>3. (latest < caseVersion)' /\ ReviewWork' /\ DocumentInv' /\ ReviewFollowsDocument'
  BY <1>1 DEF DecideProposal, reviewRows, ReviewWork, DocumentInv, ReviewFollowsDocument
<1>4. ReviewChecked'
  BY <1>1 DEF DecideProposal, reviewRows, ReviewChecked, AdmitsReview, NamesDocument,
              MayApprove, Approves
<1> QED BY <1>2, <1>3, <1>4

\* The review that is recorded follows its document, because the snapshot did.
LEMMA CommitReviewKeeps == ASSUME ReviewInv, NEW h \in Handlers, CommitReview(h) PROVE ReviewInv'
<1> USE DEF ReviewInv
<1>1. /\ pc[h] = "commit" /\ pc'[h] = "idle"
      /\ \A g \in Handlers \ {h} : pc'[g] = pc[g] /\ request'[g] = request[g] /\ view'[g] = view[g]
      /\ reviews' = reviews \cup {ReviewOf(request[h])}
  BY DEF CommitReview, FinishReview, ReviewTypeOK
<1>2. request[h] \in ReviewCommands
  BY <1>1 DEF ReviewWork
<1>3. ReviewTypeOK'
  BY <1>1, <1>2, ReviewOfCommand DEF CommitReview, FinishReview, ReviewTypeOK, NoView
<1>4. (latest < caseVersion)' /\ ReviewWork' /\ DocumentInv' /\ ReviewChecked'
  BY <1>1 DEF CommitReview, ReviewWork, DocumentInv, ReviewChecked, NamesDocument, Approves
<1>5. ReviewFollowsDocument'
  BY <1>1, <1>2, ReviewOfCommand DEF CommitReview, ReviewFollowsDocument, DocumentInv,
                                     ReviewChecked, NamesDocument
<1> QED BY <1>3, <1>4, <1>5

\* The UI moves the case and its documents forward only.
LEMMA ForwardKeeps ==
    ASSUME ReviewInv, NewDocument \/ ChangeCase
    PROVE  ReviewInv'
<1> USE DEF ReviewInv
<1>1. /\ latest' \in Documents \cup {0} /\ latest <= latest' /\ caseVersion' = caseVersion + 1
      /\ latest' < caseVersion' /\ caseVersion' \in CaseVersions
      /\ UNCHANGED <<verified, policy, reviews, pc, request, view>>
  BY ReviewAssumption DEF NewDocument, ChangeCase, ReviewTypeOK, Documents, CaseVersions
<1>2. ReviewTypeOK'
  <2>1. 1 .. latest \subseteq 1 .. latest'
    BY <1>1, ReviewAssumption DEF ReviewTypeOK, Documents
  <2> QED BY <1>1, <2>1 DEF ReviewTypeOK
<1>3. DocumentInv'
  <2> SUFFICES ASSUME NEW h \in Handlers, pc[h] \in {"lock", "commit"}
               PROVE  view[h].document <= latest' /\ view[h].version <= caseVersion'
    BY <1>1 DEF DocumentInv
  <2>1. /\ view[h].document \in Int /\ view[h].version \in Int
        /\ view[h].document <= latest /\ view[h].version <= caseVersion
    BY ReviewAssumption DEF DocumentInv, ReviewTypeOK, Documents, CaseVersions
  <2> QED BY <1>1, <2>1, ReviewAssumption DEF ReviewTypeOK, Documents, CaseVersions
<1>4. ReviewWork' /\ ReviewChecked'
  BY <1>1 DEF ReviewWork, ReviewChecked, NamesDocument, Approves
<1>5. ReviewFollowsDocument'
  <2> SUFFICES ASSUME NEW v \in reviews
               PROVE  v.document <= latest' /\ v.expects <= caseVersion'
    BY <1>1 DEF ReviewFollowsDocument
  <2>1. /\ v.document \in Int /\ v.expects \in Int
        /\ v.document <= latest /\ v.expects <= caseVersion
    BY ReviewAssumption DEF ReviewFollowsDocument, ReviewTypeOK, Review, Documents, CaseVersions
  <2> QED BY <1>1, <2>1, ReviewAssumption DEF ReviewTypeOK, Documents, CaseVersions
<1> QED BY <1>1, <1>2, <1>3, <1>4, <1>5

\* A rendering that a handler shares is not made again.
LEMMA RenderKeeps == ASSUME ReviewInv, NEW d \in Documents, Render(d) PROVE ReviewInv'
<1> USE DEF ReviewInv
<1>1. UNCHANGED <<caseVersion, latest, policy, reviews, pc, request, view>>
  BY DEF Render
<1>2. ReviewTypeOK'
  BY <1>1, ReviewAssumption DEF Render, ReviewTypeOK, Documents
<1>3. (latest < caseVersion)' /\ ReviewWork' /\ DocumentInv' /\ ReviewFollowsDocument'
  BY <1>1 DEF ReviewWork, DocumentInv, ReviewFollowsDocument
<1>4. ReviewChecked'
  BY <1>1 DEF Render, SharesDocument, ReviewChecked, NamesDocument, Approves
<1> QED BY <1>1, <1>2, <1>3, <1>4

\* The policy an approval shares is not changed.
LEMMA ChangeReviewPolicyKeeps == ASSUME ReviewInv, ChangeReviewPolicy PROVE ReviewInv'
<1> USE DEF ReviewInv
<1>1. UNCHANGED <<caseVersion, latest, verified, reviews, pc, request, view>>
  BY DEF ChangeReviewPolicy
<1>2. ReviewTypeOK'
  BY <1>1 DEF ChangeReviewPolicy, ReviewTypeOK
<1>3. (latest < caseVersion)' /\ ReviewWork' /\ DocumentInv' /\ ReviewFollowsDocument'
  BY <1>1 DEF ReviewWork, DocumentInv, ReviewFollowsDocument
<1>4. ReviewChecked'
  BY <1>1 DEF ChangeReviewPolicy, SharesReviewPolicy, ReviewChecked, NamesDocument, Approves
<1> QED BY <1>1, <1>2, <1>3, <1>4

LEMMA ReviewStutterKeeps == ASSUME ReviewInv, UNCHANGED reviewVars PROVE ReviewInv'
BY DEF ReviewInv, reviewVars, ReviewTypeOK, ReviewWork, DocumentInv, ReviewChecked,
       ReviewFollowsDocument, NamesDocument, Approves

LEMMA ReviewStepHolds == ReviewInv /\ [ReviewNext]_reviewVars => ReviewInv'
<1> SUFFICES ASSUME ReviewInv, [ReviewNext]_reviewVars PROVE ReviewInv'
  OBVIOUS
<1>1. ASSUME NEW h \in Handlers, ReceiveReview(h) PROVE ReviewInv'
  BY <1>1, ReceiveReviewKeeps
<1>2. ASSUME NEW h \in Handlers, ReadDocument(h) PROVE ReviewInv'
  BY <1>2, ReadDocumentKeeps
<1>3. ASSUME NEW h \in Handlers, DecideProposal(h) PROVE ReviewInv'
  BY <1>3, DecideProposalKeeps
<1>4. ASSUME NEW h \in Handlers, RefuseReview(h) \/ Repeated(h) \/ AbortReview(h) PROVE ReviewInv'
  BY <1>4, FinishReviewKeeps DEF RefuseReview, Repeated, AbortReview
<1>5. ASSUME NEW h \in Handlers, CommitReview(h) PROVE ReviewInv'
  BY <1>5, CommitReviewKeeps
<1>6. CASE NewDocument \/ ChangeCase
  BY <1>6, ForwardKeeps
<1>7. CASE ChangeReviewPolicy
  BY <1>7, ChangeReviewPolicyKeeps
<1>8. ASSUME NEW d \in Documents, Render(d) PROVE ReviewInv'
  BY <1>8, RenderKeeps
<1>9. CASE UNCHANGED reviewVars
  BY <1>9, ReviewStutterKeeps
<1> QED BY <1>1, <1>2, <1>3, <1>4, <1>5, <1>6, <1>7, <1>8, <1>9 DEF ReviewNext

\* Every reachable state is well typed: a document is verified only once it
\* exists, and an approval alone names a policy (decideProposal).
THEOREM ReviewTypeCorrect == ReviewSpec => []ReviewTypeOK
<1>1. ReviewInv => ReviewTypeOK
  BY DEF ReviewInv
<1> QED BY <1>1, ReviewInitHolds, ReviewStepHolds, PTL DEF ReviewSpec

\* A review names a version of the case at which its document had been written,
\* although the case may move on before the review is inserted.
THEOREM ReviewFollowsDocumentCorrect == ReviewSpec => []ReviewFollowsDocument
<1>1. ReviewInv => ReviewFollowsDocument
  BY DEF ReviewInv
<1> QED BY <1>1, ReviewInitHolds, ReviewStepHolds, PTL DEF ReviewSpec

\* An approval is inserted while the rendering of its document is verified and
\* under the policy that it names ("for share" in decideProposal).
THEOREM ApprovalHoldsCorrect == ReviewSpec => ApprovalHolds
<1>1. ReviewInv /\ [ReviewNext]_reviewVars =>
        [\A v \in reviews' \ reviews :
            v.decision = "approved" =>
                /\ v.document \in verified
                /\ v.policy = policy]_reviewVars
  <2> SUFFICES ASSUME ReviewInv, [ReviewNext]_reviewVars, NEW v \in reviews' \ reviews,
                      v.decision = "approved"
               PROVE  v.document \in verified /\ v.policy = policy
    OBVIOUS
  <2>1. PICK h \in Handlers : CommitReview(h)
    BY DEF ReviewNext, reviewVars, reviewRows, ReceiveReview, ReadDocument,
           DecideProposal, RefuseReview, Repeated, AbortReview,
           NewDocument, ChangeCase, ChangeReviewPolicy, Render
  <2>2. pc[h] = "commit" /\ v = ReviewOf(request[h])
    BY <2>1 DEF CommitReview
  <2>3. request[h] \in ReviewCommands
    BY <2>2 DEF ReviewInv, ReviewWork
  <2>4. Approves(h) /\ v.document = request[h].document /\ v.policy = request[h].confirms
    BY <2>2, <2>3, ReviewOfCommand DEF Approves
  <2> QED BY <2>2, <2>4 DEF ReviewInv, ReviewChecked
<1> QED BY <1>1, ReviewInitHolds, ReviewStepHolds, PTL DEF ReviewSpec, ApprovalHolds
===============================================================================
