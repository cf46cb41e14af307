--------------------------- MODULE CatalogProjection ---------------------------
(***************************************************************************)
(* The catalog that quotes are written from: a projection of Shopify.      *)
(*                                                                         *)
(* A sync sends the products it walked and the counts that Shopify         *)
(* reports.  One transaction, under the advisory lock of the tenant,       *)
(* replaces the projection by what the sync saw; no variant may be quoted  *)
(* unless the walk agrees with the counts.  The request is stamped before  *)
(* it waits for the lock, and the run is completed by that stamp.  A       *)
(* listing reads the rows in one statement and the latest run in another.  *)
(***************************************************************************)
EXTENDS Integers, Sequences, FiniteSets, FiniteSetsExt

CONSTANTS
    Handlers,    \* concurrent syncs
    Readers,     \* concurrent listings
    Keys,        \* idempotency keys of syncs
    Commands,    \* what syncs may send
    Refs,        \* references to products and variants
    Recordable,  \* mappings that P107 may record
    MaxMappings, \* bound: P107 mappings on record
    MaxTime,     \* bound: the clock
    MaxTold      \* bound: receipts that are remembered, whichever they are

Times  == 0 .. MaxTime
None   == "none"

\* Of a product and of a variant, by what it is looked up in P107.
Variant == [id : Refs \cup {None}, sku : Refs \cup {None}]
Product == [id : Refs, active : BOOLEAN, version : Nat, variants : Seq(Variant)]

\* "precise" says that Shopify reported both counts as exact.
Command == [products : Seq(Product), counted : [products : Nat, variants : Nat],
            precise : BOOLEAN]

ASSUME CommandAssumption == Commands \subseteq Command
ASSUME BoundAssumption == {MaxMappings, MaxTime, MaxTold} \subseteq Nat /\ None \notin Refs

\* P107 mappings; one that is superseded is not read.
MappingStates == {"accepted", "pending", "rejected", "superseded"}
Mapping == [refs : SUBSET Refs, state : MappingStates, current : BOOLEAN]

ASSUME MappingAssumption == Recordable \subseteq Mapping

VARIABLES
    now,         \* the clock
    mappings,    \* P107 mappings, oldest first
    runs,        \* p113_catalog_sync_runs by idempotency key
    projections, \* p113_catalog_search_projections
    gaps,        \* p113_catalog_reconciliation_items: cursor gaps by run
    pc,          \* where a sync is
    sync,        \* its key, its command, and the stamp it took on arrival
    evidence,    \* the mappings it read under the lock
    visible,     \* identifiers of the rows its retiring statement found
    page,        \* what a listing has read of the projections
    listed,      \* the listing that has just been answered
    told         \* receipts that clients were given, never forgotten (bookkeeping)

tables   == <<runs, projections, gaps>>
handlers == <<pc, sync, evidence, visible>>
vars     == <<now, mappings, tables, handlers, page, listed, told>>

NoRun     == [state |-> None]
NoSync    == [key |-> None]
NoMapping == [state |-> None]
NoPage    == [unread |-> None]
NoListing == [run |-> NoRun, rows |-> {}]

-------------------------------------------------------------------------------
(* buildP113Completion *)

\* Newest first, the first mapping that names a reference is its evidence.
EvidenceOf(ref, known) ==
    LET naming == {i \in DOMAIN known : /\ known[i].state # "superseded"
                                        /\ ref \in known[i].refs}
    IN  IF naming = {} THEN NoMapping ELSE known[Max(naming)]

\* A product without variants is listed as a variant without an identity.
Listed(product) ==
    IF product.variants = <<>> THEN << [id |-> None, sku |-> None] >> ELSE product.variants

\* Positions of a command's variants: product, then variant.
Positions(command) ==
    UNION {{<<i, j>> : j \in DOMAIN Listed(command.products[i])} :
               i \in DOMAIN command.products}

VariantAt(command, p) == Listed(command.products[p[1]])[p[2]]
IdentityAt(command, p) == <<command.products[p[1]].id, VariantAt(command, p).id>>

\* P113_DUPLICATE_SOURCE_ID
HasDuplicate(command) ==
    \E p, q \in Positions(command) :
        p # q /\ IdentityAt(command, p) = IdentityAt(command, q)

ExactMatch(command) ==
    /\ command.precise
    /\ Len(command.products) = command.counted.products
    /\ Cardinality(Positions(command)) = command.counted.variants

\* In hundredths of a percent.
Ratio(observed, expected) ==
    IF expected = 0 THEN (IF observed = 0 THEN 10000 ELSE 0)
    ELSE Min({10000, (20000 * observed + expected) \div (2 * expected)})

Coverage(command) ==
    IF ExactMatch(command) THEN 10000
    ELSE Min({9999, Ratio(Len(command.products), command.counted.products),
              Ratio(Cardinality(Positions(command)), command.counted.variants)})

\* The first of its references that has evidence gives the variant its mapping.
MappingAt(command, p, known) ==
    LET variant  == VariantAt(command, p)
        wanted   == <<command.products[p[1]].id, variant.id, variant.sku>>
        answered == SelectSeq(wanted, LAMBDA r : EvidenceOf(r, known) # NoMapping)
    IN  IF answered = <<>> THEN NoMapping ELSE EvidenceOf(Head(answered), known)

Unblocked(command, p, known) ==
    LET mapping == MappingAt(command, p, known)
    IN  /\ command.products[p[1]].active
        /\ VariantAt(command, p).id # None
        /\ mapping # NoMapping
        /\ mapping.state = "accepted" /\ mapping.current

\* The identifier of a row is a digest of all that is quoted here but the status
\* of the product.
Row(command, p, known, stamp) ==
    [id |-> [product |-> command.products[p[1]].id,
             version |-> command.products[p[1]].version,
             variant |-> VariantAt(command, p),
             mapping |-> MappingAt(command, p, known)],
     status     |-> IF command.products[p[1]].active THEN "ACTIVE" ELSE "ARCHIVED",
     selectable |-> ExactMatch(command) /\ Unblocked(command, p, known),
     syncedAt   |-> stamp]

Completion(command, known, stamp) ==
    {Row(command, p, known, stamp) : p \in Positions(command)}

Selectable(rows) == {row \in rows : row.selectable}
Shown(rows)      == {row \in rows : row.status # "STALE"}

-------------------------------------------------------------------------------
Init ==
    /\ now = 0
    /\ mappings = <<>>
    /\ runs = [k \in Keys |-> NoRun]
    /\ projections = {}
    /\ gaps = [k \in Keys |-> None]
    /\ pc = [h \in Handlers |-> "idle"]
    /\ sync = [h \in Handlers |-> NoSync]
    /\ evidence = [h \in Handlers |-> <<>>]
    /\ visible = [h \in Handlers |-> {}]
    /\ page = [r \in Readers |-> NoPage]
    /\ listed = NoListing
    /\ told = {}

\* The answer gives the client these receipts, or is lost.
Finish(h, receipts) ==
    /\ pc' = [pc EXCEPT ![h] = "idle"]
    /\ sync' = [sync EXCEPT ![h] = NoSync]
    /\ evidence' = [evidence EXCEPT ![h] = <<>>]
    /\ visible' = [visible EXCEPT ![h] = {}]
    /\ \/ UNCHANGED told
       \/ /\ Cardinality(told) < MaxTold
          /\ receipts # {}
          /\ told' = told \cup receipts

\* The run that a sync is told of, with what it had sent.
Receipt(h, run) == [key |-> sync[h].key, command |-> sync[h].command, run |-> run]

\* A sync is parsed and stamped; it then waits for a connection and for the lock.
Receive(h) ==
    /\ pc[h] = "idle"
    /\ \E k \in Keys, c \in Commands :
           sync' = [sync EXCEPT ![h] = [key |-> k, command |-> c, stamp |-> now]]
    /\ pc' = [pc EXCEPT ![h] = "received"]
    /\ listed' = NoListing
    /\ UNCHANGED <<now, mappings, tables, evidence, visible, page, told>>

\* Mutant: the lock is not taken.
NoLock(h) == pc[h] = "received"

\* pg_advisory_xact_lock of the tenant, held to the end of the transaction
Locks(h) ==
    /\ pc[h] = "received"
    /\ \A other \in Handlers : pc[other] \notin {"locked", "retired"}

\* Mutant: a sync whose run was not complete may be sent again under its key.
UnusedOrIncomplete(h) ==
    runs[sync[h].key] # NoRun => runs[sync[h].key].state # "CURRENT"

Unused(h) == runs[sync[h].key] = NoRun

SameCommand(h) == runs[sync[h].key].command = sync[h].command

\* The key has a run: it is answered from the row, to another command with a
\* conflict, and the lock is released.
Replay(h) ==
    /\ Locks(h)
    /\ ~ Unused(h)
    /\ Finish(h, IF SameCommand(h) THEN {Receipt(h, runs[sync[h].key])} ELSE {})
    /\ listed' = NoListing
    /\ UNCHANGED <<now, mappings, tables, page>>

\* readP107Mappings, once the run is inserted as BACKFILLING
ReadMappings(h) ==
    /\ Locks(h)
    /\ Unused(h)
    /\ pc' = [pc EXCEPT ![h] = "locked"]
    /\ evidence' = [evidence EXCEPT ![h] = mappings]
    /\ listed' = NoListing
    /\ UNCHANGED <<now, mappings, tables, sync, visible, page, told>>

\* The statement that retires rows takes those which are committed when it starts.
Retire(h) ==
    /\ pc[h] = "locked"
    /\ ~ HasDuplicate(sync[h].command)
    /\ pc' = [pc EXCEPT ![h] = "retired"]
    /\ visible' = [visible EXCEPT ![h] = {row.id : row \in projections}]
    /\ listed' = NoListing
    /\ UNCHANGED <<now, mappings, tables, sync, evidence, page, told>>

\* Rows that this sync does not see stay, and cannot be quoted.
Retired(rows, ids) ==
    {IF row.id \in ids THEN [row EXCEPT !.status = "STALE", !.selectable = FALSE] ELSE row :
         row \in rows}

\* Mutant: the conflict on the identifier is not handled.
InsertOnly(rows, new) == rows \cup new

Upsert(rows, new) ==
    {row \in rows : \A written \in new : written.id # row.id} \cup new

\* Mutant: a run resolves its own gap only.
ReconciledOwn(k, state) == [gaps EXCEPT ![k] = IF state = "CURRENT" THEN "resolved" ELSE "open"]

\* A run that agrees with Shopify closes every gap; one that does not opens its own.
Reconciled(k, state) ==
    IF state = "CURRENT"
    THEN [g \in Keys |-> IF gaps[g] = "open" THEN "resolved" ELSE gaps[g]]
    ELSE [gaps EXCEPT ![k] = "open"]

Run(command, rows, stamp) ==
    [state       |-> IF ExactMatch(command) THEN "CURRENT" ELSE "RECONCILIATION_REQUIRED",
     command     |-> command,
     completedAt |-> stamp,
     coverage    |-> Coverage(command),
     count       |-> Cardinality(rows),
     eligible    |-> Cardinality(Selectable(rows))]

\* The rest of ingestP113CatalogProjection, to its commit.
Complete(h) ==
    /\ pc[h] = "retired"
    /\ LET k    == sync[h].key
           rows == Completion(sync[h].command, evidence[h], sync[h].stamp)
           run  == Run(sync[h].command, rows, sync[h].stamp)
       IN  /\ runs' = [runs EXCEPT ![k] = run]
           /\ projections' = Upsert(Retired(projections, visible[h]), rows)
           /\ gaps' = Reconciled(k, run.state)
           /\ Finish(h, {Receipt(h, run)})
    /\ listed' = NoListing
    /\ UNCHANGED <<now, mappings, page>>

\* The transaction is rolled back: the walk has a duplicate (which is then all
\* that can happen to it), or the database fails.
Fail(h) ==
    /\ pc[h] # "idle"
    /\ Finish(h, {})
    /\ listed' = NoListing
    /\ UNCHANGED <<now, mappings, tables, page>>

\* Some page of the rows, as filters, cursor and limit have it.
ReadRows(r) ==
    /\ page[r] = NoPage
    /\ \E rows \in SUBSET Shown(projections) : page' = [page EXCEPT ![r] = [rows |-> rows]]
    /\ listed' = NoListing
    /\ UNCHANGED <<now, mappings, tables, handlers, told>>

\* Mutant: ascending order.
OldestRuns ==
    {k \in Keys : /\ runs[k] # NoRun
                  /\ \A other \in Keys : runs[other] # NoRun =>
                         runs[other].completedAt >= runs[k].completedAt}

\* order by completed_at desc limit 1
LatestRuns ==
    {k \in Keys : /\ runs[k] # NoRun
                  /\ \A other \in Keys : runs[other] # NoRun =>
                         runs[other].completedAt <= runs[k].completedAt}

ReadLatestRun(r) ==
    /\ page[r] # NoPage
    /\ page' = [page EXCEPT ![r] = NoPage]
    /\ \E run \in {runs[k] : k \in LatestRuns} \cup (IF LatestRuns = {} THEN {NoRun} ELSE {}) :
           listed' = [rows |-> page[r].rows, run |-> run]
    /\ UNCHANGED <<now, mappings, tables, handlers, told>>

\* P107 records a mapping, or decides on one.
RecordMapping ==
    /\ \/ /\ Len(mappings) < MaxMappings
          /\ \E m \in Recordable : mappings' = Append(mappings, m)
       \/ \E i \in DOMAIN mappings :
              /\ mappings[i].state # "superseded"
              /\ mappings' = [mappings EXCEPT ![i].state = "superseded"]
    /\ listed' = NoListing
    /\ UNCHANGED <<now, tables, handlers, page, told>>

Tick ==
    /\ now < MaxTime
    /\ now' = now + 1
    /\ listed' = NoListing
    /\ UNCHANGED <<mappings, tables, handlers, page, told>>

Next ==
    \/ \E h \in Handlers :
           Receive(h) \/ Replay(h) \/ ReadMappings(h) \/ Retire(h) \/ Complete(h) \/ Fail(h)
    \/ \E r \in Readers : ReadRows(r) \/ ReadLatestRun(r)
    \/ RecordMapping
    \/ Tick

Spec == Init /\ [][Next]_vars

-------------------------------------------------------------------------------
RunRow == [state : {"CURRENT", "RECONCILIATION_REQUIRED"}, command : Commands,
           completedAt : Times, coverage : 0 .. 10000, count : Nat, eligible : Nat]
SyncRow == [key : Keys, command : Commands, stamp : Times]
Telling == [key : Keys, command : Commands, run : RunRow]

\* Every table and every request has its form, and rows have distinct identifiers
\* (the columns of the p113 tables).
TypeOK ==
    /\ now \in Times
    /\ mappings \in Seq(Mapping)
    /\ runs \in [Keys -> RunRow \cup {NoRun}]
    /\ gaps \in [Keys -> {None, "open", "resolved"}]
    /\ \A row, other \in projections : row.id = other.id => row = other
    /\ \A row \in projections : /\ row.status \in {"ACTIVE", "ARCHIVED", "STALE"}
                                /\ row.selectable => row.status = "ACTIVE"
                                /\ row.syncedAt \in Times
    /\ pc \in [Handlers -> {"idle", "received", "locked", "retired"}]
    /\ sync \in [Handlers -> SyncRow \cup {NoSync}]
    /\ \A h \in Handlers : pc[h] # "idle" => sync[h] # NoSync
    /\ told \subseteq Telling

\* The rows on offer are those of one run, all of them, and that run's own counts
\* of rows and of eligible variants are theirs: syncs never mix, whatever order
\* they commit in, and a row of an earlier walk is never offered again
\* (ingestP113CatalogProjection: retire, then upsert).
ShownIsOneRun ==
    Shown(projections) = {} \/
    \E k \in Keys :
        /\ runs[k] # NoRun
        /\ \A row \in Shown(projections) : row.syncedAt = runs[k].completedAt
        /\ Cardinality(Shown(projections)) = runs[k].count
        /\ Cardinality(Selectable(projections)) = runs[k].eligible
        /\ Selectable(projections) # {} => runs[k].state = "CURRENT"

\* While a cursor gap is open nothing can be quoted, and when none is, every row
\* on offer comes from a walk that agreed with Shopify: the gap that an incomplete
\* run leaves survives until a complete one replaces its rows.
OpenGapBlocksQuotes ==
    LET offeredBy == {k \in Keys : /\ runs[k] # NoRun
                                   /\ \E row \in Shown(projections) : row.syncedAt = runs[k].completedAt}
    IN  IF \E k \in Keys : gaps[k] = "open"
        THEN Selectable(projections) = {}
        ELSE Shown(projections) # {} => \E k \in offeredBy : runs[k].state = "CURRENT"

\* Whoever was given a receipt, for the sync that ran or for a replay of its key,
\* had sent the command of the run, and that run stays on record as it was shown,
\* whatever syncs come later, under the same key or another
\* (ingestP113CatalogProjection: a key is used once).
AnswersAreDurable ==
    \A t \in told : runs[t.key] = t.run /\ t.run.command = t.command

\* The run a listing names is no older than the rows it lists: the rows are read
\* first, so the freshness and the source version cover all of them
\* (listP113CatalogProjections; the run may be newer than the one that wrote them).
ListingCoversItsRows ==
    listed.rows # {} =>
        /\ listed.run # NoRun
        /\ \A row \in listed.rows : row.syncedAt <= listed.run.completedAt
===============================================================================
