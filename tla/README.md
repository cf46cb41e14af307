# Verification of Luzione-API

TLA+ models of the parts of Luzione-API where several actors change the same
rows, TLC runs on small instances of them, and TLAPS proofs for every instance.
Paths below are relative to `src/`; `PROJECT.json` maps every definition to the
lines it stands for.

The API is a set of Next.js routes over Postgres stores. Nearly all state is in
Postgres. What makes it hard is not any single handler but what happens between
the statements of two of them: a snapshot that is old when its row lock is
granted, a lease that ends while its holder is still working, an answer that is
lost after a commit, a retry of something that was already done, and a UI that
writes the same rows without going through the API.

## Inventory

| Component | State it keeps | Operations | Interacts with | Hard behaviour |
| --- | --- | --- | --- | --- |
| Outbox delivery and reconciliation (`src/lib/platform-guarantees/postgresWorkflowDeliveryStore.ts`, `src/modules/provider-runtime/`) | outbox rows, delivery attempts, reconciliation checkpoints, dead letters, kill switches | claim, dispatch start, acknowledge, fail, claim and complete reconciliations, operator reconciliation | receipts of the command ledger; provider adapters; worker processes | leases, crashes, lost answers, retries, budgets, sharing of rows by workers |
| Command ledger (`src/modules/platform-guarantees/commandKernel.ts`, `src/lib/platform-guarantees/postgresCommandStore.ts`) | receipts, events, outbox rows, idempotency conflicts | execute, replay, record conflict, readback | every command store below | concurrent retries, row and advisory locks, a pool of three connections, lost commit answers |
| Leads and Commercial Cases (`src/modules/lead-commercial-case/`) | leads, cases, case identities, briefs | lead create, case create and update, readbacks | command ledger; the UI writes leads and cases too | version checks across locks, one case per lead |
| Quotes and margin approval, proposals (`src/modules/proposal-quote-approval/`) | quotes, lines, economics versions, approval records, proposal reviews | quote create, margin decision, proposal review | policies; the UI revises and decides the same rows | approvals that meet a newer version, snapshots older than locks, rounding |
| Orders and fulfillment intents (`src/modules/order-fulfillment/`) | orders, order lines, intents | order create from an accepted quote, intent | quotes; the UI advances orders | conversion of a quote once, and of what was approved |
| Sultan Stage 5 (`src/modules/sultan-stage5/`) | readback, admission and outcome receipts, conflicts | readback, admission, outcome, supersession | the canonical tables it reads | stamps taken before locks and reads, evidence order, replays |
| Sultan agent gateway (`src/modules/sultan-agent-gateway/`) | command reservations, internal actions | invoke, prepare, execute, archive, read | Stage 5 admissions, cases, human approvals | expiry against replay, a case that moves between reads, one operation prepared twice |
| Inbox, timers, workflow instances (`postgresWorkflowDeliveryStore.ts`, `stateMachine.ts`) | inbox messages, timers, workflow rows, dead letters | accept, claim, complete, fail, fire, transition | producers, workers | deduplication, leases that lapse while their holder works, compare-and-set |
| Catalogue projection (`src/modules/catalog-projection/`) | runs, projected products, gaps | ingest, list | Shopify walks, mappings of P107 | two runs at once, order of stamps against order of commits, a listing in two reads |
| Agent intents, plans and tenant policy (`src/modules/sultan-agent/`, `autonomy/`, `tenant-policy/` and their routes) | none | evaluate | orders, readbacks, policies | three reads in three transactions and a clock after them; order of decisions |
| Request authentication (`src/lib/api/actor.ts`) | the keys of the issuer, in the memory of a process | verify, fetch | the identity provider | rotation against the cooldown, fetches that overtake one another |
| Provider adapters, rights charter and petitions, governance registries, read models, release evidence, security posture, runtime status, other routes and portal, scripts | none of their own | answer, read, classify, render | | |

What makes each correct, in short:

- **Outbox**: at most one unresolved call per message, never more attempts than the
  budget, no retry before the fate of the last call is known, confirmation only by
  the source, and every message comes to rest.
- **Ledger**: one key one effect, no lost update, an accepted command is never
  refused on retry, what a caller is told is durable, every request is answered.
- **Leads and cases**: one case per lead, created from the lead version named.
- **Quotes to orders**: an order exists only for economics that are approved or need
  no approval, a quote is converted once, decisions are final.
- **Proposal reviews**: an approval is of a document that exists and passed its
  checks, under the policy in force.
- **Stage 5**: one decision per operation, on current evidence; an outcome rests on
  evidence independent of its admission and not older than it.
- **Gateway**: what is executed is the reserved command, as approved and while the
  reservation lasts, once; an archival finds its case at the version it names.
- **Queues**: a message is accepted once, with one payload; a row has one running lease;
  outcomes are final.
- **Catalogue**: what is listed as on offer is one run, an open gap blocks quotes, and a listing
  names a run no older than its rows.
- **Intents and identity**: what is admitted reads only, rests on evidence that was so
  during the request, and comes from a caller whose key the issuer listed recently.

`PROJECT.json` lists all components, with a reason for each that is not modelled,
and the hazards, each at its line with the properties that would catch it.

## Modules

| Module | What it is |
| --- | --- |
| `OutboxDelivery` | store transactions and worker loop: one action per transaction or adapter step |
| `DeliveryPromise` | what delivery promises of each message: offered, in doubt, confirmed, given up |
| `OutboxRefinement` | the mapping from `OutboxDelivery` to `DeliveryPromise`; `KeepsPromise` |
| `CommandLedger` | command transactions statement by statement, with locks, pool and UI |
| `CommandHandlers` | the requests that `QuoteToOrder` and `ProposalReview` share: position, command, snapshot |
| `QuoteToOrder` | `createQuote`, `decideQuote`, `createOrder`, `createIntent` and the UI |
| `ProposalReview` | `decideProposal` and the UI that renders documents |
| `Stage5Policy` | who may be admitted to what, and how a claim is compared with an expectation |
| `Stage5Receipts` | the three receipt stores of Stage 5, over that policy |
| `AgentGateway` | tool calls, reservations, approvals, execution and archival |
| `WorkflowQueues` | inbox, timers and workflow instances; the mapping to `LeaseQueue`, `KeepsQueue` |
| `LeaseQueue` | what a queue under leases promises of each item: taken by one, lost, returned, finished once |
| `CatalogProjection` | syncs and listings of the catalogue |
| `ServiceIdentity` | from a credential to an actor, with the keys of the issuer |
| `AgentIntents` | the evaluation of intents and plans, on top of `ServiceIdentity` |
| `MC*` | instances for TLC |
| `*_proofs` | theorems and their proofs |

The modules meet where the code does: the receipts of `CommandLedger` are where
`OutboxDelivery` starts; its kernel runs the commands of `QuoteToOrder` and `ProposalReview`;
the readbacks of `Stage5Receipts` are evidence in `AgentIntents`; its admissions are a
parameter of `AgentGateway`; the policy of Stage 5 is `Stage5Policy`, the identity of a
caller `ServiceIdentity`. Each side keeps what it needs of the other as a
constant or an action of its environment, so that the modules stay small enough to check.

### OutboxDelivery

A row of `p110_outbox_messages` is `outbox[m]`; `attempt[m][n]` and
`checkpoint[m][n]` are the rows of attempt `n`; `request[m][n]` is what the provider
did with that call, which no code sees. A store method locks the rows it touches
for its whole transaction, so each is one action (`ClaimDueOutbox`, with the sweep
of expired leases it starts with; `RecordDispatchStarted`, and so on). Between two
transactions a worker is somewhere in its loop (`pc`), and may end there.
`ProviderWorkerRuntime` catches the exceptions of an adapter but not those of the
store: those end the process.

An adapter's acknowledgement is accepted with nothing but a reference (`contracts.ts:119`), so
`MayAnswer` lets it come for a request that the provider has merely queued, and may refuse
later; so may `AMBIGUOUS_AFTER_ACK`. An acknowledged attempt whose readback finds nothing is
retried or dead-lettered. Only the failure classes that deny an acknowledgement are taken to be
true of the provider: a request they report on has been refused.

Time is abstract. A lease is live, then overdue (the 45 s deadline of the request has
passed), then expired (60 s). A worker is fenced by its identity only, so the
properties on fencing hold under `UniqueWorkerIds` and say so.

### CommandLedger

A handler takes a connection, the advisory lock of its key, looks up the receipt,
locks and checks its owner rows, writes, commits, and reads back on a connection of
its own. A payload conflict is recorded on another connection after the rollback.
The pool is a count of connections; locks are given by the position of a handler
(`pc`). The UI writes leads and cases between any two steps and waits for row locks. A
connection or process may fail anywhere; the answer to a commit may be lost. The event
and outbox rows of a command commit with its receipt and are one with it here. The
version of a lead is its `updated_at`, the version of a case its column; both are
numbers. The UI creates no cases. A caller's last answer is kept when it told of something that
stands (`Tellings`), until the caller sends again.

### QuoteToOrder and ProposalReview

Both extend `CommandHandlers`; the specification of the second is `ReviewSpec`.
Each command is three steps: a statement that reads a snapshot and asks for row locks,
the checks once the locks are granted, and the commit. Postgres re-reads the locked
row when it was changed during the wait, but not the rows joined to it; `View` and
`StillJoined` model exactly this. Receipts and replays are those of `CommandLedger`.
The expected economics id and the quote version of a command are the pair of an
economics number and a status. Margins are in units of 0.000001 so that the
rounding of the code to four decimals is visible. The actions of the UI are external:
it takes the locks of the rows it writes, decides an economics version once, leaves
converted quotes alone, and changes the lines of an order only together with its version. A new proposal document moves the version of its case.

### Stage5Policy and Stage5Receipts

`Stage5Policy` holds the registry of agents and purposes, the reasons for which an
admission is denied, and `Compare`, the comparison of a claim with an expectation: numbers
and decimal texts do not compare (`economics.calculatedSubtotalCents` is a text, so an
expectation that is a number stays unresolved).

In `Stage5Receipts` a request is parsed at the door and leaves nothing if it is refused
there. It carries the time its client wrote and gets the `stamp` of the service; a
readback then waits for the lock of its key and reads its source there, while an
admission reads its evidence first and is stamped after. `RecordReadback`, `RecordAdmission` and
`RecordOutcome` commit; `ReadOutcome` reads an outcome back and verifies it. The rows are
append-only, so a receipt never changes. Which requests clients send is the constant
`Templates`; `Claims` gives a source its claims at each version. Hashes are compared
by what they are of. `told` remembers what clients were told of receipts and conflicts, and is
never cleared, so `AnswersAreDurable` speaks of every later state. One clock and one release are assumed for all instances of the API, and
a readback is not known to anyone within the millisecond that made it. `shown`, `readAt` and `told`
are bookkeeping that no row holds. The only registered purpose demands a simulation of
effect class A0, so `SEPARATE_REVIEW_REQUIRED` does not occur. Supersession is modelled; the
instance has too few keys for one that succeeds.

### AgentGateway

A call is admitted on an admission of Stage 5, then its case is read, then its command is
reserved under the lock of its operation; an execution verifies an approval, locks the
reservation, and commits the action. Each is a step, and a case moves between any two.
An execution reads the clock twice: `VerifyApproval` compares the approval with the first
reading (`service.ts:254`), `Execute` stamps the action with the second (`service.ts:230`), and
the approval may end in between. `verifiedAt` remembers the first, which no row holds.
`Admissions` is a constant: the registry of Stage 5 admits `analysis.read` only
(`sultan-stage5/policy.ts`, migration `20260902010100`), so the deployed gateway refuses every
tool and what is checked here is what would happen once a policy admits them.
Reservations from before admissions existed are in the initial state and are not executable.
"task" stands for tasks, drafts and proposal revisions, which differ in content only;
effects of class A2 are never executed.

### WorkflowQueues

Inbox messages and timers are `jobs` with a lease; `held` is what a worker believes it
holds. A claim first takes back rows whose lease lapsed. The store compares the owner's name
only, so a worker that claims its own lapsed row again makes its older call conclude it; two
workers never do. A message has no budget of attempts. A timer fires also when its
workflow has ended. A transition compares the version and the state table
(`stateMachine.ts`), and the kill switch turns moves into `RUNNING` away, read in the same step.
`told` remembers, for good, the payload of each message that a producer was told is accepted or
that a worker was given.
`COMPENSATING` cannot be reached by the commands there are.

`LeaseQueue` says what this amounts to for a producer or a scheduler, without a clock: an item is
given out only while nobody holds it and finished only by its holder, once. Under the mapping
(`StatusOf`, `HoldersOf`) a worker holds a row if a claim it was told of still runs and the row
is being worked on, whatever the columns of the table say of an owner.

### CatalogProjection

A sync is stamped when it is parsed, then takes the lock of its tenant; under it the mappings of P107
are read, the statement that retires rows finds the rows there are, and a last step
commits its run, its rows and its gaps: a sync that were not kept out between these would retire rows
of one state and add to another. `told` remembers the receipts that were handed out, for good. `Row` is identified by
all the digest covers, which is not the status of its product. A listing reads rows in one statement and
the latest run in another. Mappings are external rows. Filters, cursors and limits are any
subset of the rows shown.

### ServiceIdentity and AgentIntents

One process and one issuer. A fetch of keys is three steps: it starts, the issuer serves
what it lists at that moment, the answer arrives and replaces the cache, whichever is newer.
A workload token is checked for its lifetime before it waits for keys. Both kinds of refusal look
alike to a caller. Signatures are library code: a token is what it claims to be.

`AgentIntents` runs a request on: parsed, its reads in any order, the clock and the decision in
one step. The five sets of the constitution's registry are transcribed, the decision order
of the evaluators is `Status`, `StatusOfAutonomy`, `Autonomy` and `Allows`. No caller passes a
grant of authority to the evaluator, so beyond A0 it asks for approval at best. What the
agent says of its evidence is replaced by what was read, except that context of other
owners blocks it. `seen` is bookkeeping of the model: what held at some moment of a request.
An order is also edited by a writer that does not count its version; its hash catches that.

## Runs

Passing runs:

| Run | Instance | Shows |
| --- | --- | --- |
| `outbox_race` | one message with two attempts, two tries per checkpoint, two workers that may both crash | evidence, fencing, the promise, finality |
| `outbox_live` | one reliable worker beside one that may crash at any point | claims are released; every message comes to rest |
| `ledger_race` | three requests at a time out of four bodies, two connections | no lost update, one case per lead, durable answers and conflicts, no refused retry, and an answer for every request (no deadlock between pool, keys and rows) |
| `quote_race` | two requests out of nine, the UI, two economics versions, two orders | approvals, conversion, finality, margin at its rounding |
| `review_race` | two reviews out of five, two documents, two policies | an approval holds at its commit, of a document the case held |
| `stage5_race` | two requests at a time under two keys, readbacks, two admissions of one operation, an outcome, a source that changes | current and independent evidence, decisions before outcomes, durable answers |
| `gateway_race` | two requests out of six calls (a task or a note, an archival of either, a legacy reservation, a read), approvals in time and too long, a case that moves | what is executed was approved and is executed once; an archival meets the version it names |
| `catalog_race` | two syncs and a listing, two keys, mappings that come and go | what is on offer is one run; gaps block quotes; receipts stand; a listing covers its rows |
| `queue_race` | two workers on a message and a timer with leases that lapse twice, an instance moved three times | one running lease, one payload for good, final outcomes, the promise of a queue |
| `intents_race` | a request that is evaluated beside one that makes the process fetch keys; two keys, an order, a readback, two policies | recent identity, a new key is refused only for a moment, admission on evidence |

Runs that find a violation; each checks one sentence of a document or a comment, and
is a finding in `PROJECT.json`:

| Run | Property | In a sentence |
| --- | --- | --- |
| `outbox_stranded` | `ReconciliationConcludes` | the sweep releases a checkpoint whose last try is spent, and no claim takes it again |
| `quote_drift` | `OrderMatchesEconomics` | an order copies lines edited after the economics it was checked against |

### Bounds, and why they are enough

Two processes (three in `ledger_race`) make every pairwise interleaving; each hazard listed is between two
actors beside the environment (UI, provider, issuer, operator, clock), which is unbounded
in order. Counters are bounded where the code has a budget (attempts, tries) at one or
two, so that first, last and exhausted are all met. `MaxVersion`, `MaxEconomics`,
`MaxOrderVersion`, `MaxDocuments`, `MaxPolicy`, `MaxTime`, `MaxApprovals`, `MaxMappings`,
`MaxChanges` and `MaxConflicts` only stop the environment or the clock; they are large enough
that a row changes before, during and after a request. `MaxTold` bounds how many answers are
remembered, not how many are given: any one answer may be the one, so with one of them every
answer is followed to the end of every behaviour.

- `ledger_race`: there are fewer connections than requests, so a request waits for the pool while
  others hold connections and wait for their key or row, and a conflict or readback waits
  for a connection again after the first was given back. No request keeps one
  connection while it asks for another, which is why this cannot end in a deadlock.

- `quote_race`: `AroundTheMargin` puts a threshold between a margin and its rounding and
  another at the rounding.
- `outbox_*`: `OneClassEach` takes one failure class of each decision of `decideRetry`.
- `stage5_race`: the window is two ticks, so that evidence can be fresh, at its end and
  expired. Requests are written when they arrive (`Lags`), so `REQUEST_STALE` at the door is not
  reached here; the other refusals at the door are.
- `gateway_race`: a reservation holds for two ticks, admissions and approvals are good for
  one, so that each can lapse between any two steps and a reservation outlives what it was
  made on. The archival is admitted a tick after what it archives.
- `queue_race`: a lease lasts one tick of three, so that a row is claimed, lapses, is
  claimed again by the same or the other worker, and lapses again. Four versions let an
  instance start, wait and end.
- `catalog_race`: two stamps, so that the order of arrivals differs from that of the commits.
- `intents_race`: keys are kept three ticks, a forced fetch is put off two, a fetch may take
  one, and the clock goes to four: every expiry can be met on each side. `MaxChanges = 2`
  lets a key be published and another withdrawn, or one of them and an order or policy move.
  Handler `h1` carries what is evaluated on evidence, `h2` the plans of the UI and the tokens
  that make the process fetch; both fetch, so their fetches overtake each other.

`Handlers` is a symmetry set in `quote_race`, `stage5_race`, `gateway_race` and
`catalog_race`, and the workers are one in `queue_race`: they are interchangeable and no
liveness is checked there. `CHECK_DEADLOCK FALSE` in the quote runs and in `gateway_race` only:
when the bounded actions of UI, clock and approver are used up and every call is refused or
done, nothing is left to do.

### Fairness

`OutboxDelivery!Fairness`: workers that are not in `Crashable` keep taking steps
(adapter calls are bounded by a deadline, and a process that ended is restarted by its
supervisor), and leases, back-offs and next-check times pass. Nothing is assumed of
the provider, of operators, or of processes that may crash. `CommandLedger!Fairness`
is strong for each handler, since the queues of the pool and of Postgres locks serve
waiters in turn: a handler whose lock or connection is free again and again gets it.
No liveness is stated of the queues: the repository has their store and no worker that
consumes them, so there is nothing whose steps could be assumed.

## Proofs

60 theorems, in eight modules, hold for all values of the constants under the named
assumptions of the modules they extend (`BudgetAssumption`, `WorkerAssumption`,
`DeliveryAssumption`; `RequestAssumption`, `RowAssumption`; `MoneyAssumption`,
`CommandAssumption`; `JobAssumption`; `PolicyAssumption`, `TemplateAssumption`;
`CallAssumption`, `AdmissionAssumption`, `NumberAssumption`; `MappingAssumption`;
`CallerAssumption`, `TimingAssumption`, `EvidenceAssumption`; `ReviewAssumption`; the
`BoundAssumption`s). These only say that bounds are numbers, inputs have their form and null
values are no members; they do not restrict who does what. With them every safety property
that a passing run checks is a theorem.

**OutboxDelivery_proofs.** The invariant has three layers. `IInv` is `TypeInv` (types, with
attempts within the budget of each message), `StoreInv` (how the outbox row, its attempts
and its checkpoints agree: a pending checkpoint is about the current attempt, a started
attempt belongs to the current claim, an earlier attempt is decided) and `CallsAreRecorded`
(a provider call has a started attempt). None of the safety properties is inductive
alone: `ReconcileBeforeRetry` needs `NoOrphanedStart` at the sweep, which needs
`PendingIsCurrent` at a completion. Every action changes the rows of each
message in one of a few ways; `MessageStep` states them, one lemma shows that each
keeps the invariant of its message, and one lemma per action shows which it is. That calls
stay within the budget, that no start is orphaned and that a dead letter has its evidence is
proved for any number of messages (`CallsWithinBudgetCorrect`, `NoOrphanedStartCorrect`,
`DeadLetterEvidenceCorrect`), and so is that an attempt which was or may have been acknowledged has
a checkpoint that follows it up (`DoubtIsFollowedUpCorrect`); what `HistoryStands` asks of every step follows from
`SettledIsFinalCorrect` and `OutcomeIsWrittenOnceCorrect`.

`CallInv` adds what the provider was asked: one call at most is without an answer
(`OneCaller`), and an answer on its way, or evidence on record, is about a call that was made.
`OwnerInv` adds that a worker works on what it claimed: a batch or a job in its hands is, row by
row, either still its claim or concluded by someone else. It needs that no two workers have one
identifier (`UniqueWorkerIds`), so `ProviderInv` has it under that condition, and so have the
theorems that rest on it, as the properties state. `KeepsPromiseCorrect` is the refinement:
`Spec` implements the `DeliveryPromise` of every message under the mapping of
`OutboxRefinement`. Each `MessageStep` is an action of the promise or a stutter
(`MessageKeepsPromise`), and so is what the provider does, for all messages at once
(`PromiseStep`). A confirmation is one of the promise because of `ConfirmedIsApplied`, which rests on the
readback alone: an acknowledgement says nothing of what the provider did.

**CommandLedger_proofs.** The invariant says what a position of a handler means: it
holds its key (`KeysExclude`) and its rows (`RowsExclude`) against the others, and past
a check the checked fact still holds (`CheckedOwner` and its siblings) because the rows
are locked. No lost update and one case per lead follow from these at the commit;
`AnswersAreDurable` and `CheckedWhenCommitted` combine the theorems on answers, conflicts,
retries and exact leads. `EveryEffectHasReceipt` compares a version with a number of
receipts: a commit adds one key to the finite set of accepted keys of its row and one to
the version, and a key of another row changes neither.

**QuoteToOrder_proofs.** `IInv` is `TypeInv`, `RowInv` (economics, orders, quotes and
approvals of the committed rows fit together) and `HandlerInv` (locks exclude, checks
made under a lock still hold, and what a snapshot shows was committed once). `Next` is
reduced to three cases: quiet steps, commits of a handler and steps of the UI.
`AutomaticMargin` rests on three lemmas of arithmetic on rounded quotients, proved for
all amounts. `CommandsAreExact` combines final decisions, exact intents and orders of what
was accepted.

The second part of the module is about `ProposalReview`. A review sees a snapshot (`view`) and
holds shared locks on what it saw. `ReviewInv` says that a snapshot was true once, that documents
and their versions only grow, and that the policy under a shared lock is still the one in force;
at the commit `ApprovalHolds` follows. `ReviewFollowsDocument` needs only that documents are not
rewritten.

**WorkflowQueues_proofs.** The invariant ties what a worker was told at a claim to the row: a
claim whose lease still runs is the lease on record, or the row is concluded (`ClaimFits`).
`LeaseIsExclusive` alone is not inductive: a claim gives a row away because it looks free in
the table, and nothing in the property says that a worker who believes otherwise would show
there. `OutcomesAreFinal` follows from the rows alone. `AcceptedPayloadStands` is about all that
was ever told (`ToldInv`): no later delivery, claim, loss or conclusion of a message removes its
row or changes its payload.
`KeepsQueueCorrect` is the refinement of `LeaseQueue`. The store lets a worker conclude a row by
its name, perhaps with an older claim than the one on record; that it is a holder all the
same needs `HoldsInv`: while a worker has any claim on a row that it owns, it has the claim on record
too, for a crash forgets all of them and a refusal only claims on rows it does not own. One lemma
per action shows which step of the queue each row takes (`ClaimSteps`, `ConcludeSteps`, ...).
`TypeOK` of this module is a theorem (`TypeCorrect`) and not part of a run.

**Stage5Receipts_proofs.** `StoreInv` says what a receipt on record means: a readback read its
source after its stamp, an admission cites readbacks that were read before its decision and no
longer ago than the window, an outcome rests on an admission and a later readback, and each
operation has one admission at most. `HandlerInv` says the same of a request that is past its reads,
and `OneHolder` that the lock of a key excludes the others, so receipts are only added.
`ConcludedAfterDecision` needs `SightInv`: a readback that read a source later than a decision saw
it saw no older version. This is about running requests too, for a request that saw an old
version may commit after one that saw a newer; on committed receipts alone it is not inductive. `AnswersAreDurable` is about every answer ever
given (`ToldInv`): receipts and conflicts are never rewritten, and an outcome that verified keeps
verifying because the admission and the readback it is read back with stand too.

**AgentGateway_proofs.** Reserving, approving and executing are transactions apart, so a fact
that one checked has to last until the next. `RowInv` keeps for a reservation the
admission it was made under, `ActionInv` for an executed action its reservation and admission, and its
approval as it was when it was verified, between the reservation and the stamp, and `WorkInv` for a request what the position it has
reached means. `OneHolder` gives that a reservation is, under its lock, as it was found.
`ExecutedAsApproved` is not inductive without `WorkInv`: it speaks of actions only, and an
execution inserts what the request in the handler says.

**CatalogProjection_proofs.** A sync rewrites projection, run and gaps in one step, so
`ShownIsOneRun` and `OpenGapBlocksQuotes` are established anew by every sync; both hold on what
`FormInv` says of rows. `LockInv` says that one sync holds the lock, that the key it found unused still is,
and that the rows its retiring statement found are still all there are; without the last, a sync
might add to rows it never retired. It gives also that a run is written once
(`RunsAreWrittenOnce`), and with it that the receipts handed out stand (`AnswersAreDurable`).
`ListingCoversItsRows` spans two reads: `PageInv` says that the rows a listing has read are
covered by a run on record, which the second read then finds.

**AgentIntents_proofs.** About `ServiceIdentity` and what `AgentIntents` adds to it.
`AcceptedIdentityIsRecent` and `RefusedKeyIsNew` speak of the moment a request stops
waiting and of the issuer's keys, and nothing in the process says when the issuer was asked. What
ties them is `KeysSince(keys, t)`: each of these keys was listed and not withdrawn before `t`, and
every listed key that is missing was listed at `t` or later. A fetch that was served has it for
its start (`WaitOK`), so keys that arrive have it for their arrival less the time a fetch may take
(`CacheInv`), which no later `Publish`, `Withdraw` or `Tick` disturbs (`KeysSinceStays`). A fetch that
is overtaken may bring the older keys, and the invariant does not care: it is about the keys that
are there, not the latest that were seen. The bounds of both theorems are the sums of what can
pass in between. For `AdmittedOnEvidence`, `ViewInv` says that an order or policy that
was read and would pass is in `seen`, and that receipts that were found are on record unchanged,
since they are only added; `StatusAdmits` and `AutonomyAllows` say what the evaluators need in
order to admit anything, for any policy and any intent.

### Only model-checked

- Liveness and everything under fairness (`EveryMessageComesToRest`, `EveryRequestIsAnswered`),
  which is beyond the prover, like any `ENABLED`.
- The evaluators (`Status`, `Autonomy`, `Allows`, `Compare`) are case distinctions over the
  tables of the code. What `Status` and `Autonomy` need in order to admit a read is proved; their other
  answers are checked in use, over the requests of the runs. No model
  defines data by recursion, so nothing is left out for want of induction over data.

## Not modelled

- `heartbeatOutbox`: no worker calls it; a lease without a heartbeat is a run the models have.
- The Gmail adapter, RFQ drafting, signing of receipts and the tool manifest: formats of one
  call each. What an adapter may answer is a choice in `OutboxDelivery`.
- The rights charter, petitions, governance contracts and registries: constant tables and
  pure checks of their form.
- Read models, release evidence, SLO and recovery reports, security posture, runtime status:
  they read and write nothing that another component relies on.
- Other routes and the portal: parsing and rendering around the stores modelled here.
- Row level security and grants: the models assume a credential that may do what a store does.

## Observed while reading

These are differences between the code and its documents, and limits of the code, that no
run is about. The models contain the behaviour unless it is said otherwise; no property
rests on its absence.

Outbox:

- Kill switches are read by `claimDueOutbox` only: a claimed batch is still dispatched after
  a switch was thrown (`postgresWorkflowDeliveryStore.ts:212`), where `flowExplainer.ts:47`
  says that no new delivery may start.
- The Gmail adapter answers a readback that finds nothing with "Automatic resend remains
  prohibited." (`gmailRfqCanaryAdapter.ts:143`); `completeClaimedReconciliation` schedules a
  retry for `NOT_FOUND` as long as the budget of the message lasts
  (`postgresWorkflowDeliveryStore.ts:522`).

Ledger, proposals:

- A readback after a commit that fails on its connection hides the receipt of the command
  (`lead-commercial-case/store.ts:243`) where `API_PC_008_WORKING_CONTRACT.md:15` wants it
  named; a retry gets it. An identifier of a command that is used again under another key is
  refused by a unique constraint (migration `20260831022000`, line 37), as a database error.
- `decideProposal` locks the newest document of its snapshot (`proposal-quote-approval/store.ts:258`);
  that stops neither a newer document nor a new version of the case before the review is
  inserted as one of the exact current version.

Stage 5:

- A readback is stamped when its request arrives (`sultan-stage5/service.ts:37`), before its
  lock and its read, and supersession compares stamps. Of two overlapping readbacks the
  later stamp may carry the older version of the source (`postgresStore.ts:366`).
- `recordConflict` of Stage 5 (`postgresStore.ts:509`) inserts a row whose identity is a digest of
  the key and the received request. The second time the same changed request arrives, the
  primary key refuses the row: a database error instead of a 409, while
  `API_STAGE5_001_NEGATIVE_CONTROL_MATRIX.json:134` expects `EXACT_REPLAY_OR_409_WITH_IMMUTABLE_ORIGINAL`.
- An exact retry of a Stage 5 readback or outcome is refused as stale once its request time has
  left the window, although its receipt exists.
- An outcome is verified against the release that runs (`service.ts:60`): after a redeployment
  every earlier outcome is answered 503 `OUTCOME_RECEIPT_INTEGRITY_FAILED`, and readbacks of
  the release before deny admissions. The models run one release.

Gateway:

- `verifyStage5AdmissionForTool` wants an admission of the capability of the tool, and only
  `analysis.read` is ever admitted: the deployed tool and command path fails closed for every call.
- The clock is read again for the stamp of an execution (`service.ts:230`) after its approval was
  verified, and nobody compares the two: a stamp, and the commit after it, may be at or past the
  end of the approval. `ExecutedAsApproved` says so.
- The retry of a command that was executed is refused once its reservation has expired
  (`sultan-agent-gateway/postgresStore.ts:232`), before its replay is looked for.
- Only an archival compares the version of its case again when it is executed.
- The commercial evidence of a read is queried after the case snapshot was taken and may be
  newer, where the comment in `readEvidence` (`postgresStore.ts:168`) excludes this.
- A prepare whose commit answer is lost is answered with `businessStateMutated: false`
  although its reservation may exist.

Queues:

- A worker that claims its own lapsed row again lets its older call conclude it; there is no
  budget of attempts for messages; timers of workflows that have ended fire.
- `COMPENSATING` is left by several commands and entered by none; the recovery playbook
  suggests commands for `SUPERSEDED` that the state table forbids; `completed_at` stays when a
  cancelled workflow is reconciled back to work.
- Under a kill switch `RECONCILE_SOURCE` may still bring `RESUMING` to `RUNNING`.

Catalogue:

- The latest run of a listing is the one with the latest stamp, taken before the lock
  (`catalog-projection/store.ts:503`); it may be newer than the run whose rows are listed.
- A mapping without a state or a freshness passes as accepted (`catalog-projection/runtime.ts:342`);
  the models have only mappings that carry both.
- Of a variant's references the first with evidence decides: a newer rejected mapping by a
  later reference loses to an older accepted one.
- A run is `BACKFILLING` inside its own transaction only and `FAILED` never, so the refusal of
  such runs (`catalog-projection/store.ts:173`) is never taken.

Intents and identity:

- A tenant decision of `APPROVAL` for an `ASSISTED` run is answered `REQUIRE_APPROVAL` before
  autonomy is asked, so an effect that the constitution blocks may be answered so.
- A token that waits for a fetch is accepted up to the tolerance and the time of the fetch after
  it has expired (`AcceptedIdentityIsRecent` states this bound).

Database:

- The stores use `for update` and `for share`, which in Postgres need the privilege to
  update. The grants of `20260831090000` (lines 110-147) and `20260902010000` give
  `luzione_api_runtime` only select and insert on several of the tables so locked. The
  models assume a credential that may take the locks.

## Plan

Order: what delivers effects first, then what decides them, then what records them. Done:
the modules and runs above, and the theorems of the outbox with its refinement, the ledger,
quotes and orders, reviews, the queues with their refinement, Stage 5, the gateway, the
catalogue, intents and identity. Left:

1. Liveness of the queues, once the repository has a worker for them.
2. Several releases of the API in Stage 5, with the pins of each.
