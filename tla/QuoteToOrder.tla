----------------------------- MODULE QuoteToOrder -----------------------------
(***************************************************************************)
(* Quotes, margin decisions, orders and fulfillment intents.               *)
(*                                                                         *)
(* Four commands, each one transaction of the command kernel: createQuote, *)
(* decideQuote, createOrder and createIntent.  CommandLedger shows what    *)
(* the kernel adds; here it is the transactions that meet, each of them in *)
(* three steps.  A handler takes the snapshot of its first statement, then *)
(* waits for its row lock, and decides on the row as it is now but on the  *)
(* joined economics and approval as they were in the snapshot (that is how *)
(* Postgres evaluates "for update of q" at READ COMMITTED); it commits in  *)
(* a third step.  The UI writes the same rows between these steps.         *)
(***************************************************************************)
EXTENDS Integers, FiniteSets, CommandHandlers

CONSTANTS
    Quotes, Orders,  \* external ids of quotes and orders
    Lines,           \* line lists a quote may have
    subtotal, cost,  \* subtotal[l], cost[l]: their sums, in cents
    Commands,        \* commands that may arrive
    Thresholds,      \* values of automaticApprovalThresholdPercent, in 0.000001
    NoPolicy,        \* the policy row is missing or not safely configured
    NoOrder,         \* the null of converted_order_id
    MaxEconomics,    \* bound: economics versions of a quote
    MaxOrderVersion  \* bound: versions the UI gives an order

ASSUME MoneyAssumption ==
    /\ subtotal \in [Lines -> Nat]
    /\ cost \in [Lines -> Nat]
    /\ Thresholds \subseteq Int
    /\ NoPolicy \notin Int

ASSUME BoundAssumption ==
    /\ NoOrder \notin Orders
    /\ MaxEconomics \in Nat \ {0}
    /\ MaxOrderVersion \in Nat \ {0}

VARIABLES
    quote,        \* quotes
    economics,    \* quote_economics_versions: version v of quote q
    approval,     \* quote_margin_approval_records, one per economics version
    order,        \* orders with their lines
    intents,      \* order_fulfillment_intents
    threshold     \* commercial_policy_configurations: quote_margin_approval

rows == <<quote, economics, approval, order, intents, threshold>>
vars == <<quote, economics, approval, order, intents, threshold, pc, request, view>>

Versions == 1 .. MaxEconomics

Statuses ==
    {"draft", "approval_required", "approved", "rejected", "customer_accepted",
     "converted_to_order"}

Decisions == {"approved", "rejected"}

NoQuote     == [exists |-> FALSE]
NoEconomics == [exists |-> FALSE]
Unordered   == [exists |-> FALSE]

QuoteRow ==
    [exists : {TRUE}, status : Statuses, version : Versions, lines : Lines,
     order : Orders \cup {NoOrder}]

EconomicsRow == [exists : {TRUE}, lines : Lines, threshold : Thresholds, required : BOOLEAN]

\* What a join of quote, economics and approval found.
View == [exists : {TRUE}, version : Versions, approval : Decisions \cup {"none"}]

OrderRow ==
    [exists : {TRUE}, quote : Quotes, economics : Versions, lines : Lines,
     version : 1 .. MaxOrderVersion]

Intent == [order : Orders, version : 1 .. MaxOrderVersion, lines : Lines]

(***************************************************************************)
(* Commands, as the parsers let them through.  The expected version of a   *)
(* quote is its economics version and its status.                          *)
(***************************************************************************)
QuoteCreate == [type : {"quote.create"}, quote : Quotes, lines : Lines]

QuoteApproval ==
    [type : {"quote.margin_approval.decide"}, quote : Quotes, expects : Versions,
     status : Statuses, decision : Decisions]

OrderCreate ==
    [type : {"order.create_from_accepted_quote"}, quote : Quotes, expects : Versions, order : Orders]

IntentRequest ==
    [type : {"fulfillment.intent.request"}, order : Orders,
     expects : 1 .. MaxOrderVersion, lines : Lines]

Command == QuoteCreate \cup QuoteApproval \cup OrderCreate \cup IntentRequest

ASSUME CommandAssumption == Commands \subseteq Command

Creates(h) == request[h].type = "quote.create"
Decides(h) == request[h].type = "quote.margin_approval.decide"
Converts(h) == request[h].type = "order.create_from_accepted_quote"
Intends(h) == request[h].type = "fulfillment.intent.request"

-------------------------------------------------------------------------------
(***************************************************************************)
(* Money.  Amounts are cents; a percentage is in units of 0.000001.        *)
(***************************************************************************)
\* The nearest integer, halves away from zero.
Rounded(num, den) ==
    IF num >= 0 THEN (2 * num + den) \div (2 * den) ELSE -((den - 2 * num) \div (2 * den))

\* toFixed(4): a multiple of 100 units.
GrossMarginPercent(l) ==
    IF subtotal[l] = 0 THEN 0
    ELSE 100 * Rounded((subtotal[l] - cost[l]) * 1000000, subtotal[l])

\* Mutant: the comparison is not strict.
RequiredBelow(l, t) == ~(GrossMarginPercent(l) >= t)

\* automaticApprovalComparison: "strictly_greater_than"
ApprovalRequired(l, t) == ~(GrossMarginPercent(l) > t)

\* The new economics row of a quote.
EconomicsOf(l, t) ==
    [exists |-> TRUE, lines |-> l, threshold |-> t, required |-> ApprovalRequired(l, t)]

StatusOf(e) == IF e.required THEN "approval_required" ELSE "draft"

-------------------------------------------------------------------------------
Init ==
    /\ quote = [q \in Quotes |-> NoQuote]
    /\ economics = [q \in Quotes |-> [v \in Versions |-> NoEconomics]]
    /\ approval = [q \in Quotes |-> [v \in Versions |-> "none"]]
    /\ order = [o \in Orders |-> Unordered]
    /\ intents = {}
    /\ threshold \in Thresholds
    /\ pc = [h \in Handlers |-> "idle"]
    /\ request = [h \in Handlers |-> NoRequest]
    /\ view = [h \in Handlers |-> NoQuote]

(***************************************************************************)
(* Locks, held from the decision to the commit.                            *)
(***************************************************************************)
\* Mutant: the quote is read without "for update".
LocksNoQuote(h, q) == FALSE

LocksQuote(h, q) == pc[h] = "commit" /\ ~Intends(h) /\ request[h].quote = q

\* The order that is being inserted, or read "for share".
InsertsOrder(h, o) == pc[h] = "commit" /\ Converts(h) /\ request[h].order = o

SharesOrder(h, o) == pc[h] = "commit" /\ Intends(h) /\ request[h].order = o

\* The policy row is read "for share" when a quote is created.
SharesPolicy(h) == pc[h] = "commit" /\ Creates(h)

Others(h) == Handlers \ {h}

Granted(h) ==
    \A g \in Others(h) :
        /\ ~Intends(h) => ~LocksQuote(g, request[h].quote)
        /\ Converts(h) \/ Intends(h) => ~InsertsOrder(g, request[h].order)

Finish(h) ==
    /\ pc' = [pc EXCEPT ![h] = "idle"]
    /\ request' = [request EXCEPT ![h] = NoRequest]
    /\ view' = [view EXCEPT ![h] = NoQuote]

-------------------------------------------------------------------------------
Receive(h) ==
    /\ pc[h] = "idle"
    /\ \E c \in Commands : request' = [request EXCEPT ![h] = c]
    /\ pc' = [pc EXCEPT ![h] = "read"]
    /\ UNCHANGED <<rows, view>>

\* What the joins find: the economics version of the quote, and its approval.
Joined(q) ==
    IF quote[q].exists
    THEN [exists |-> TRUE, version |-> quote[q].version,
          approval |-> approval[q][quote[q].version]]
    ELSE NoQuote

\* The first statement takes its snapshot, and waits for its row lock.
Read(h) ==
    /\ pc[h] = "read"
    /\ pc' = [pc EXCEPT ![h] = "lock"]
    /\ view' = [view EXCEPT ![h] =
          IF Decides(h) \/ Converts(h) THEN Joined(request[h].quote) ELSE NoQuote]
    /\ UNCHANGED <<rows, request>>

\* POLICY_NOT_CONFIGURED, QUOTE_EXISTS
AdmitsQuote(r) == threshold # NoPolicy /\ ~quote[r.quote].exists

\* The join is evaluated again on the row as it is now: QUOTE_NOT_FOUND when
\* its economics moved on since the snapshot.
StillJoined(h, q) == view[h].exists /\ quote[q].version = view[h].version

\* unique (tenant_id, quote_economics_version_id): APPROVAL_ALREADY_DECIDED
Undecided(h, q) == approval[q][quote[q].version] = "none"

\* VERSION_CONFLICT
Exact(q, v, s) == quote[q].version = v /\ quote[q].status = s

\* ..., APPROVAL_NOT_REQUIRED
AdmitsDecision(h, r) ==
    /\ StillJoined(h, r.quote)
    /\ Exact(r.quote, r.expects, r.status)
    /\ economics[r.quote][quote[r.quote].version].required
    /\ Undecided(h, r.quote)

\* Mutant: any approval of the quote will do.
ApprovedOnce(h, q) ==
    economics[q][quote[q].version].required =>
        \E v \in Versions : approval[q][v] = "approved"

\* QUOTE_APPROVAL_REQUIRED, by the approval of the snapshot.
Approved(h, q) ==
    economics[q][quote[q].version].required => view[h].approval = "approved"

\* ..., QUOTE_NOT_ACCEPTED, QUOTE_ALREADY_CONVERTED, ORDER_EXISTS
AdmitsOrder(h, r) ==
    /\ StillJoined(h, r.quote)
    /\ Exact(r.quote, r.expects, "customer_accepted")
    /\ quote[r.quote].order = NoOrder
    /\ Approved(h, r.quote)
    /\ ~order[r.order].exists

\* ORDER_NOT_FOUND, VERSION_CONFLICT, INTENT_LINE_CONFLICT
AdmitsIntent(r) ==
    /\ order[r.order].exists
    /\ order[r.order].version = r.expects
    /\ order[r.order].lines = r.lines

Admits(h) ==
    \/ Creates(h) /\ AdmitsQuote(request[h])
    \/ Decides(h) /\ AdmitsDecision(h, request[h])
    \/ Converts(h) /\ AdmitsOrder(h, request[h])
    \/ Intends(h) /\ AdmitsIntent(request[h])

Decide(h) ==
    /\ pc[h] = "lock"
    /\ Granted(h)
    /\ Admits(h)
    /\ pc' = [pc EXCEPT ![h] = "commit"]
    /\ UNCHANGED <<rows, request, view>>

Refuse(h) ==
    /\ pc[h] = "lock"
    /\ Granted(h)
    /\ ~Admits(h)
    /\ Finish(h)
    /\ UNCHANGED rows

\* The handler lacks the capability, or fails, or its process ends: rolled back.
Abort(h) ==
    /\ pc[h] # "idle"
    /\ Finish(h)
    /\ UNCHANGED rows

-------------------------------------------------------------------------------
CreateQuote(h) ==
    LET r == request[h]
        e == EconomicsOf(r.lines, threshold)
    IN
    /\ pc[h] = "commit" /\ Creates(h)
    /\ quote' = [quote EXCEPT ![r.quote] =
          [exists |-> TRUE, status |-> StatusOf(e), version |-> 1, lines |-> r.lines,
           order |-> NoOrder]]
    /\ economics' = [economics EXCEPT ![r.quote][1] = e]
    /\ Finish(h)
    /\ UNCHANGED <<approval, order, intents, threshold>>

DecideQuote(h) ==
    LET r == request[h] IN
    /\ pc[h] = "commit" /\ Decides(h)
    /\ approval' = [approval EXCEPT ![r.quote][r.expects] = r.decision]
    /\ quote' = [quote EXCEPT ![r.quote].status = r.decision]
    /\ Finish(h)
    /\ UNCHANGED <<economics, order, intents, threshold>>

OrderOf(r, l) ==
    [exists |-> TRUE, quote |-> r.quote, economics |-> r.expects, lines |-> l, version |-> 1]

\* Mutant: the quote is not marked as converted.
CreateOrderOnly(h) ==
    LET r == request[h] IN
    /\ pc[h] = "commit" /\ Converts(h)
    /\ order' = [order EXCEPT ![r.order] = OrderOf(r, quote[r.quote].lines)]
    /\ Finish(h)
    /\ UNCHANGED <<quote, economics, approval, intents, threshold>>

\* The lines are copied from quote_lines as they are at the commit.
CreateOrder(h) ==
    LET r == request[h] IN
    /\ pc[h] = "commit" /\ Converts(h)
    /\ order' = [order EXCEPT ![r.order] = OrderOf(r, quote[r.quote].lines)]
    /\ quote' = [quote EXCEPT ![r.quote].status = "converted_to_order",
                              ![r.quote].order = r.order]
    /\ Finish(h)
    /\ UNCHANGED <<economics, approval, intents, threshold>>

CreateIntent(h) ==
    LET r == request[h] IN
    /\ pc[h] = "commit" /\ Intends(h)
    /\ intents' = intents \cup {[order |-> r.order, version |-> r.expects, lines |-> r.lines]}
    /\ Finish(h)
    /\ UNCHANGED <<quote, economics, approval, order, threshold>>

-------------------------------------------------------------------------------
(***************************************************************************)
(* The UI, the active writer of the same tables.  It waits for the locks   *)
(* of the API, prices by the same policy, decides an economics version     *)
(* once, and leaves converted quotes alone.                                *)
(***************************************************************************)
Unlocked(q) == \A h \in Handlers : ~LocksQuote(h, q)

Open(q) == quote[q].exists /\ quote[q].order = NoOrder

ReviseQuote(q) ==
    /\ Open(q)
    /\ Unlocked(q)
    /\ threshold # NoPolicy
    /\ quote[q].version < MaxEconomics
    /\ \E l \in Lines :
        LET v == quote[q].version + 1
            e == EconomicsOf(l, threshold)
        IN
        /\ economics' = [economics EXCEPT ![q][v] = e]
        /\ quote' = [quote EXCEPT ![q].version = v, ![q].lines = l, ![q].status = StatusOf(e)]
    /\ UNCHANGED <<approval, order, intents, threshold, pc, request, view>>

\* The lines change without new economics: "for update of q" locks the quote,
\* not its lines.
EditLines(q) ==
    /\ Open(q)
    /\ \E l \in Lines : quote' = [quote EXCEPT ![q].lines = l]
    /\ UNCHANGED <<economics, approval, order, intents, threshold, pc, request, view>>

\* The quote is sent, accepted by the customer, or taken back.
SetStatus(q) ==
    /\ Open(q)
    /\ Unlocked(q)
    /\ \E s \in {"draft", "approval_required", "customer_accepted"} :
          quote' = [quote EXCEPT ![q].status = s]
    /\ UNCHANGED <<economics, approval, order, intents, threshold, pc, request, view>>

DecideInUI(q) ==
    /\ Open(q)
    /\ Unlocked(q)
    /\ economics[q][quote[q].version].required
    /\ approval[q][quote[q].version] = "none"
    /\ \E d \in Decisions :
        /\ approval' = [approval EXCEPT ![q][quote[q].version] = d]
        /\ quote' = [quote EXCEPT ![q].status = d]
    /\ UNCHANGED <<economics, order, intents, threshold, pc, request, view>>

\* An order is revised, with new lines or the same, and its version advances.
AdvanceOrder(o) ==
    /\ order[o].exists
    /\ order[o].version < MaxOrderVersion
    /\ \A h \in Handlers : ~SharesOrder(h, o)
    /\ \E l \in Lines : order' = [order EXCEPT ![o].version = @ + 1, ![o].lines = l]
    /\ UNCHANGED <<quote, economics, approval, intents, threshold, pc, request, view>>

ChangePolicy ==
    /\ \A h \in Handlers : ~SharesPolicy(h)
    /\ threshold' \in Thresholds \cup {NoPolicy}
    /\ UNCHANGED <<quote, economics, approval, order, intents, pc, request, view>>

-------------------------------------------------------------------------------
Next ==
    \/ \E h \in Handlers :
        \/ Receive(h) \/ Read(h) \/ Decide(h) \/ Refuse(h) \/ Abort(h)
        \/ CreateQuote(h) \/ DecideQuote(h) \/ CreateOrder(h) \/ CreateIntent(h)
    \/ \E q \in Quotes : ReviseQuote(q) \/ EditLines(q) \/ SetStatus(q) \/ DecideInUI(q)
    \/ \E o \in Orders : AdvanceOrder(o)
    \/ ChangePolicy

Spec == Init /\ [][Next]_vars

-------------------------------------------------------------------------------
(***************************************************************************)
(* Safety.                                                                 *)
(***************************************************************************)

\* Every variable keeps its type; only economics that exist are decided.
TypeOK ==
    /\ quote \in [Quotes -> QuoteRow \cup {NoQuote}]
    /\ economics \in [Quotes -> [Versions -> EconomicsRow \cup {NoEconomics}]]
    /\ approval \in [Quotes -> [Versions -> Decisions \cup {"none"}]]
    /\ \A q \in Quotes, v \in Versions :
          approval[q][v] # "none" => economics[q][v].exists
    /\ order \in [Orders -> OrderRow \cup {Unordered}]
    /\ intents \subseteq Intent
    /\ threshold \in Thresholds \cup {NoPolicy}
    /\ pc \in [Handlers -> {"idle", "read", "lock", "commit"}]
    /\ request \in [Handlers -> Commands \cup {NoRequest}]
    /\ view \in [Handlers -> View \cup {NoQuote}]

\* The economics an order was created from exist and were approved if they
\* had to be: no revision, late rejection or withdrawn acceptance slips in
\* between the checks and the commit.
OrderIsApproved ==
    \A o \in Orders : order[o].exists =>
        LET e == economics[order[o].quote][order[o].economics] IN
        /\ e.exists
        /\ e.required => approval[order[o].quote][order[o].economics] = "approved"

\* An order carries the lines its economics, and their approval, were about.
OrderMatchesEconomics ==
    \A o \in Orders : order[o].exists =>
        order[o].lines = economics[order[o].quote][order[o].economics].lines

\* One quote creates at most one order, and both rows say so.
ConversionIsExact ==
    /\ \A q \in Quotes, o \in Orders :
          quote[q].exists =>
              (quote[q].order = o <=> order[o].exists /\ order[o].quote = q)
    /\ \A q \in Quotes :
          quote[q].exists =>
              (quote[q].order # NoOrder <=> quote[q].status = "converted_to_order")

\* A quote that needs no approval earns more than the threshold that held for
\* it: exactly when the threshold has at most four decimals, and to half a
\* unit of the fourth decimal otherwise.
AutomaticMargin ==
    \A q \in Quotes, v \in Versions :
        LET e == economics[q][v]
            margin == (subtotal[e.lines] - cost[e.lines]) * 100000000
        IN
        e.exists /\ ~e.required /\ subtotal[e.lines] > 0 =>
            /\ margin >= (e.threshold - 50) * subtotal[e.lines]
            /\ e.threshold % 100 = 0 => margin > e.threshold * subtotal[e.lines]

\* The decision of an economics version is made once, by the API or the UI.
DecisionIsFinal ==
    [][\A q \in Quotes, v \in Versions :
          approval[q][v] # "none" => approval'[q][v] = approval[q][v]]_vars

\* An order is created from the economics the customer has accepted, at the
\* moment it is created.
OrderedAsAccepted ==
    [][\A o \in Orders :
          ~order[o].exists /\ order'[o].exists =>
              /\ quote[order'[o].quote].status = "customer_accepted"
              /\ quote[order'[o].quote].version = order'[o].economics]_vars

\* An intent is recorded for the order version and lines it names, although
\* the UI advances orders meanwhile.
IntentIsExact ==
    [][\A i \in intents' \ intents :
          order[i.order].exists /\ order[i.order].version = i.version
                                /\ order[i.order].lines = i.lines]_vars

\* Each command acts on the rows as they are when it commits, not as they were
\* when it read them.
CommandsAreExact == DecisionIsFinal /\ OrderedAsAccepted /\ IntentIsExact
===============================================================================
