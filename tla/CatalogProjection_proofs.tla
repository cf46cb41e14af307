------------------------ MODULE CatalogProjection_proofs ------------------------
(***************************************************************************)
(* Proofs about CatalogProjection, for any syncs, listings, keys, commands *)
(* and mappings, and any bound on the clock.                               *)
(*                                                                         *)
(* A sync rewrites the projection, its run and the gaps in one step, so    *)
(* what they say of each other is established anew by every sync.  What    *)
(* reaches across steps is the lock, which one sync holds at a time, the   *)
(* key it found unused, and the rows a listing has read: the run that      *)
(* wrote them is never rewritten.                                          *)
(***************************************************************************)
EXTENDS CatalogProjection, FiniteSetTheorems, WellFoundedInduction, TLAPS

\* A row is a record of these four fields, every listing has a page or none, and
\* every sync a set of identifiers.
FormInv ==
    /\ \A row \in projections :
           row = [id |-> row.id, status |-> row.status,
                  selectable |-> row.selectable, syncedAt |-> row.syncedAt]
    /\ DOMAIN page = Readers
    /\ DOMAIN visible = Handlers

Holds(h) == pc[h] \in {"locked", "retired"}

\* One sync holds the lock of the tenant, its key is unused, and the rows that it
\* retires are all the rows there are when it commits.
LockInv ==
    \A h \in Handlers : Holds(h) =>
        /\ runs[sync[h].key] = NoRun
        /\ \A g \in Handlers : Holds(g) => g = h
        /\ pc[h] = "retired" => /\ ~ HasDuplicate(sync[h].command)
                                /\ visible[h] = {row.id : row \in projections}

\* A run at least as recent as the row.
Covered(row) == \E k \in Keys : runs[k] # NoRun /\ row.syncedAt <= runs[k].completedAt

\* Every row that a listing has read was written by a run that is still there.
PageInv ==
    \A r \in Readers : page[r] # NoPage =>
        \A row \in page[r].rows : row.syncedAt \in Times /\ Covered(row)

IInv ==
    /\ TypeOK
    /\ FormInv
    /\ LockInv
    /\ PageInv
    /\ ShownIsOneRun
    /\ OpenGapBlocksQuotes
    /\ AnswersAreDurable
    /\ ListingCoversItsRows

-------------------------------------------------------------------------------
(* What a sync computes *)

LEMMA MinOfTwo ==
    ASSUME NEW a \in Int, NEW b \in Int
    PROVE  Min({a, b}) \in {a, b} /\ Min({a, b}) <= a /\ Min({a, b}) <= b
<1> DEFINE S == {a, b}
<1>1. \E x \in S : \A y \in S : x =< y
  <2>1. CASE a <= b
    BY <2>1
  <2>2. CASE b <= a
    BY <2>2
  <2> QED
    BY <2>1, <2>2
<1>2. Min(S) \in S /\ \A y \in S : Min(S) =< y
  BY <1>1, Zenon DEF Min
<1> QED
  BY <1>2

LEMMA MinOfThree ==
    ASSUME NEW a \in Int, NEW b \in Int, NEW c \in Int
    PROVE  Min({a, b, c}) \in {a, b, c} /\ Min({a, b, c}) <= a
<1> DEFINE S == {a, b, c}
<1>1. \E x \in S : \A y \in S : x =< y
  <2>1. CASE a <= b /\ a <= c
    BY <2>1
  <2>2. CASE b <= a /\ b <= c
    BY <2>2
  <2>3. CASE c <= a /\ c <= b
    BY <2>3
  <2> QED
    BY <2>1, <2>2, <2>3
<1>2. Min(S) \in S /\ \A y \in S : Min(S) =< y
  BY <1>1, Zenon DEF Min
<1> QED
  BY <1>2

LEMMA QuotientType ==
    ASSUME NEW a \in Nat, NEW b \in Nat \ {0}
    PROVE  a \div b \in Nat
  OBVIOUS

\* Hundredths of a percent.
Shares == 0 .. 10000

LEMMA RatioType ==
    ASSUME NEW observed \in Nat, NEW expected \in Nat
    PROVE  Ratio(observed, expected) \in Shares
<1>1. CASE expected = 0
  BY <1>1 DEF Ratio, Shares
<1>2. CASE expected # 0
  <2> DEFINE q == (20000 * observed + expected) \div (2 * expected)
  <2>1. q \in Nat
    <3>1. 20000 * observed + expected \in Nat /\ 2 * expected \in Nat \ {0}
      BY <1>2
    <3> QED
      BY <3>1, QuotientType
  <2> HIDE DEF q
  <2> DEFINE m == Min({10000, q})
  <2>2. m \in {10000, q} /\ m <= 10000
    BY <2>1, MinOfTwo
  <2>3. Ratio(observed, expected) = m
    BY <1>2 DEF Ratio, q
  <2> HIDE DEF m
  <2>4. m \in Shares
    BY <2>1, <2>2 DEF Shares
  <2> QED
    BY <2>3, <2>4
<1> QED
  BY <1>1, <1>2

LEMMA PositionForm ==
    ASSUME NEW command \in Commands, NEW p \in Positions(command)
    PROVE  /\ p[1] \in DOMAIN command.products
           /\ p[2] \in DOMAIN Listed(command.products[p[1]])
           /\ p = <<p[1], p[2]>>
<1>1. PICK i \in DOMAIN command.products :
          p \in {<<i, j>> : j \in DOMAIN Listed(command.products[i])}
  BY DEF Positions
<1>2. PICK j \in DOMAIN Listed(command.products[i]) : p = <<i, j>>
  BY <1>1
<1> QED
  BY <1>1, <1>2

LEMMA PositionsFinite ==
    ASSUME NEW command \in Commands
    PROVE  IsFiniteSet(Positions(command))
<1> DEFINE Products == DOMAIN command.products
           Of(i) == {<<i, j>> : j \in DOMAIN Listed(command.products[i])}
           All == {Of(i) : i \in Products}
<1>1. command.products \in Seq(Product)
  BY CommandAssumption DEF Command
<1>2. Products = 1 .. Len(command.products) /\ Len(command.products) \in Nat
  BY <1>1
<1>3. IsFiniteSet(Products)
  BY <1>2, FS_Interval
<1>4. ASSUME NEW i \in Products
      PROVE  IsFiniteSet(Of(i))
  <2> DEFINE L == Listed(command.products[i])
             f == [j \in DOMAIN L |-> <<i, j>>]
  <2>1. L \in Seq(Variant)
    <3>1. command.products[i] \in Product
      BY <1>1
    <3>2. command.products[i].variants \in Seq(Variant)
      BY <3>1 DEF Product
    <3>3. [id |-> None, sku |-> None] \in Variant
      BY DEF Variant
    <3>4. << [id |-> None, sku |-> None] >> \in Seq(Variant)
      BY <3>3
    <3> QED
      BY <3>2, <3>4 DEF Listed
  <2>2. DOMAIN L = 1 .. Len(L) /\ Len(L) \in Nat
    BY <2>1
  <2>3. IsFiniteSet(DOMAIN L)
    BY <2>2, FS_Interval
  <2>4. f \in Surjection(DOMAIN L, Of(i))
    BY DEF Surjection
  <2> HIDE DEF f, L
  <2> QED
    BY <2>3, <2>4, FS_Surjection
<1>5. IsFiniteSet(All)
  <2> DEFINE g == [i \in Products |-> Of(i)]
  <2>1. g \in Surjection(Products, All)
    BY DEF Surjection
  <2> HIDE DEF g, All
  <2> QED
    BY <1>3, <2>1, FS_Surjection
<1>6. \A T \in All : IsFiniteSet(T)
  BY <1>4
<1>7. IsFiniteSet(UNION All)
  <2> HIDE DEF All
  <2> QED
    BY <1>5, <1>6, FS_UNION
<1> QED
  BY <1>7 DEF Positions

LEMMA CoverageType ==
    ASSUME NEW command \in Commands
    PROVE  Coverage(command) \in Shares
<1>1. CASE ExactMatch(command)
  BY <1>1 DEF Coverage, Shares
<1>2. CASE ~ ExactMatch(command)
  <2> DEFINE a == Ratio(Len(command.products), command.counted.products)
             b == Ratio(Cardinality(Positions(command)), command.counted.variants)
  <2>1. /\ Len(command.products) \in Nat
        /\ command.counted.products \in Nat /\ command.counted.variants \in Nat
    BY CommandAssumption DEF Command
  <2>2. Cardinality(Positions(command)) \in Nat
    BY PositionsFinite, FS_CardinalityType
  <2>3. a \in Shares
    BY <2>1, RatioType, Zenon
  <2>4. b \in Shares
    BY <2>1, <2>2, RatioType, Zenon
  <2> DEFINE m == Min({9999, a, b})
  <2>5. Coverage(command) = m
    BY <1>2 DEF Coverage
  <2> HIDE DEF a, b
  <2>6. m \in {9999, a, b} /\ m <= 9999
    BY <2>3, <2>4, MinOfThree DEF Shares
  <2> HIDE DEF m
  <2>7. m \in Shares
    BY <2>3, <2>4, <2>6 DEF Shares
  <2> QED
    BY <2>5, <2>7
<1> QED
  BY <1>1, <1>2

\* A walk lists an identity once, so its rows are told apart by their identifiers.
LEMMA DistinctIdentities ==
    ASSUME NEW command, ~ HasDuplicate(command),
           NEW known, NEW stamp,
           NEW p \in Positions(command), NEW q \in Positions(command),
           Row(command, p, known, stamp).id = Row(command, q, known, stamp).id
    PROVE  p = q
<1>1. /\ command.products[p[1]].id = command.products[q[1]].id
      /\ VariantAt(command, p) = VariantAt(command, q)
  BY DEF Row
<1>2. IdentityAt(command, p) = IdentityAt(command, q)
  BY <1>1 DEF IdentityAt
<1> QED
  BY <1>2 DEF HasDuplicate

LEMMA CompletionForm ==
    ASSUME NEW command \in Commands, NEW known, NEW stamp \in Times,
           NEW row \in Completion(command, known, stamp)
    PROVE  /\ row = [id |-> row.id, status |-> row.status,
                     selectable |-> row.selectable, syncedAt |-> row.syncedAt]
           /\ row.status \in {"ACTIVE", "ARCHIVED"}
           /\ row.selectable => row.status = "ACTIVE" /\ ExactMatch(command)
           /\ row.syncedAt = stamp
<1>1. PICK p \in Positions(command) : row = Row(command, p, known, stamp)
  BY DEF Completion
<1>2. row.selectable => ExactMatch(command) /\ command.products[p[1]].active
  BY <1>1 DEF Row, Unblocked
<1> QED
  BY <1>1, <1>2 DEF Row

LEMMA CompletionDistinct ==
    ASSUME NEW command, ~ HasDuplicate(command), NEW known, NEW stamp
    PROVE  \A row, other \in Completion(command, known, stamp) :
               row.id = other.id => row = other
<1> SUFFICES ASSUME NEW row \in Completion(command, known, stamp),
                    NEW other \in Completion(command, known, stamp),
                    row.id = other.id
             PROVE  row = other
  OBVIOUS
<1>1. PICK p \in Positions(command) : row = Row(command, p, known, stamp)
  BY DEF Completion
<1>2. PICK q \in Positions(command) : other = Row(command, q, known, stamp)
  BY DEF Completion
<1>3. p = q
  BY <1>1, <1>2, DistinctIdentities
<1> QED
  BY <1>1, <1>2, <1>3

LEMMA CompletionFinite ==
    ASSUME NEW command \in Commands, NEW known, NEW stamp
    PROVE  IsFiniteSet(Completion(command, known, stamp))
<1> DEFINE P == Positions(command)
           R == Completion(command, known, stamp)
           f == [p \in P |-> Row(command, p, known, stamp)]
<1>1. f \in Surjection(P, R)
  BY DEF Surjection, Completion
<1>2. IsFiniteSet(P)
  BY PositionsFinite
<1> HIDE DEF f, P, R
<1>3. IsFiniteSet(R)
  BY <1>1, <1>2, FS_Surjection
<1> QED
  BY <1>3 DEF R

LEMMA RunType ==
    ASSUME NEW command \in Commands, NEW known, NEW stamp \in Times
    PROVE  Run(command, Completion(command, known, stamp), stamp) \in RunRow
<1> DEFINE rows == Completion(command, known, stamp)
<1>1. IsFiniteSet(rows)
  BY CompletionFinite
<1> HIDE DEF rows
<1>2. Selectable(rows) \in SUBSET rows
  BY DEF Selectable
<1>3. IsFiniteSet(Selectable(rows))
  BY <1>1, <1>2, FS_Subset
<1>4. Cardinality(rows) \in Nat /\ Cardinality(Selectable(rows)) \in Nat
  BY <1>1, <1>3, FS_CardinalityType
<1>5. Coverage(command) \in Shares
  BY CoverageType
<1>6. Run(command, rows, stamp) \in RunRow
  BY <1>4, <1>5 DEF Run, RunRow, Shares
<1> QED
  BY <1>6 DEF rows

-------------------------------------------------------------------------------
(* What a sync leaves of the projection *)

\* Rows that are told apart by their identifiers, in the form of the table.
RowsOK(rows) ==
    /\ \A row, other \in rows : row.id = other.id => row = other
    /\ \A row \in rows :
           /\ row = [id |-> row.id, status |-> row.status,
                     selectable |-> row.selectable, syncedAt |-> row.syncedAt]
           /\ row.status \in {"ACTIVE", "ARCHIVED", "STALE"}
           /\ row.selectable => row.status = "ACTIVE"
           /\ row.syncedAt \in Times

\* The rows of earlier syncs that an upsert of new rows leaves.
Left(rows, new) == {row \in rows : \A written \in new : written.id # row.id}

\* All rows retired.
AllRetired(rows) == {[row EXCEPT !.status = "STALE", !.selectable = FALSE] : row \in rows}

\* The row as a later sync retires it.
Retires(old, row) ==
    /\ row = [old EXCEPT !.status = "STALE", !.selectable = FALSE]
    /\ old.id = row.id

LEMMA RetiredForm ==
    ASSUME NEW rows, RowsOK(rows), NEW row \in AllRetired(rows)
    PROVE  /\ row = [id |-> row.id, status |-> row.status,
                     selectable |-> row.selectable, syncedAt |-> row.syncedAt]
           /\ row.status = "STALE" /\ ~ row.selectable /\ row.syncedAt \in Times
           /\ \E old \in rows : Retires(old, row)
<1>1. PICK old \in rows : row = [old EXCEPT !.status = "STALE", !.selectable = FALSE]
  BY DEF AllRetired
<1>2. /\ old = [id |-> old.id, status |-> old.status,
                selectable |-> old.selectable, syncedAt |-> old.syncedAt]
      /\ old.syncedAt \in Times
  BY DEF RowsOK
<1>3. row = [id |-> old.id, status |-> "STALE", selectable |-> FALSE, syncedAt |-> old.syncedAt]
  BY <1>1, <1>2
<1>4. Retires(old, row)
  BY <1>1, <1>3 DEF Retires
<1> QED
  BY <1>2, <1>3, <1>4

\* A statement that finds every row retires every row.
LEMMA RetiresAll ==
    ASSUME NEW rows
    PROVE  Retired(rows, {row.id : row \in rows}) = AllRetired(rows)
  BY DEF Retired, AllRetired

LEMMA UpsertRows ==
    ASSUME NEW rows, RowsOK(rows), NEW new, RowsOK(new),
           \A row \in new : row.status # "STALE"
    PROVE  LET all == Upsert(AllRetired(rows), new)
           IN  /\ RowsOK(all)
               /\ Shown(all) = new
               /\ Selectable(all) = Selectable(new)
<1> DEFINE all == Upsert(AllRetired(rows), new)
           left == Left(AllRetired(rows), new)
<1>1. all = left \cup new
  BY DEF Upsert, Left
<1>2. \A row \in left : /\ row \in AllRetired(rows)
                        /\ \A written \in new : written.id # row.id
  BY DEF Left
<1> HIDE DEF all, left
<1>3. \A row \in left :
          /\ row = [id |-> row.id, status |-> row.status,
                    selectable |-> row.selectable, syncedAt |-> row.syncedAt]
          /\ row.status = "STALE" /\ ~ row.selectable /\ row.syncedAt \in Times
  BY <1>2, RetiredForm, Zenon
<1>4. ASSUME NEW row \in left, NEW other \in left, row.id = other.id
      PROVE  row = other
  <2>1. PICK old \in rows : Retires(old, row)
    BY <1>2, RetiredForm, Zenon
  <2>2. PICK past \in rows : Retires(past, other)
    BY <1>2, RetiredForm, Zenon
  <2>3. old = past
    BY <1>4, <2>1, <2>2 DEF RowsOK, Retires
  <2> QED
    BY <2>1, <2>2, <2>3 DEF Retires
<1>5. RowsOK(all)
  <2>1. ASSUME NEW row \in all, NEW other \in all, row.id = other.id
        PROVE  row = other
    <3>1. CASE row \in left /\ other \in left
      BY <1>4, <2>1, <3>1
    <3>2. CASE row \in new /\ other \in new
      BY <2>1, <3>2 DEF RowsOK
    <3> QED
      BY <1>1, <1>2, <2>1, <3>1, <3>2
  <2>2. ASSUME NEW row \in all
        PROVE  /\ row = [id |-> row.id, status |-> row.status,
                         selectable |-> row.selectable, syncedAt |-> row.syncedAt]
               /\ row.status \in {"ACTIVE", "ARCHIVED", "STALE"}
               /\ row.selectable => row.status = "ACTIVE"
               /\ row.syncedAt \in Times
    <3>1. CASE row \in left
      BY <1>3, <3>1
    <3>2. CASE row \in new
      BY <3>2 DEF RowsOK
    <3> QED
      BY <1>1, <3>1, <3>2
  <2> QED
    BY <2>1, <2>2 DEF RowsOK
<1>6. Shown(all) = new
  BY <1>1, <1>3 DEF Shown
<1>7. Selectable(all) = Selectable(new)
  BY <1>1, <1>3 DEF Selectable
<1> QED
  BY <1>5, <1>6, <1>7 DEF all

-------------------------------------------------------------------------------
(* Runs *)

LEMMA RunIsNotNoRun ==
    ASSUME NEW run \in RunRow
    PROVE  run # NoRun
  BY DEF RunRow, NoRun, None

LEMMA RunIsStamped ==
    ASSUME NEW run \in RunRow
    PROVE  run.completedAt \in Times
  BY DEF RunRow

LEMMA RunForm ==
    ASSUME TypeOK, NEW k \in Keys, runs[k] # NoRun
    PROVE  runs[k] \in RunRow /\ runs[k].completedAt \in Times
<1>1. runs[k] \in RunRow
  BY DEF TypeOK
<1>2. runs[k].completedAt \in Times
  BY <1>1, RunIsStamped
<1> QED
  BY <1>1, <1>2

\* Once there is a run there is a latest one, for the clock is bounded.
LEMMA LatestRunExists ==
    ASSUME TypeOK, NEW first \in Keys, runs[first] # NoRun
    PROVE  LatestRuns # {}
<1> DEFINE Existing == {k \in Keys : runs[k] # NoRun}
           Behind(k) == MaxTime - runs[k].completedAt
           T == {Behind(k) : k \in Existing}
<1>1. \A k \in Existing : k \in Keys /\ runs[k].completedAt \in 0 .. MaxTime
  BY RunForm, Zenon DEF Times
<1>2. T \subseteq Nat
  BY <1>1, BoundAssumption
<1>3. T # {}
  OBVIOUS
<1>4. \E x \in T : \A y \in T : ~ (<<y, x>> \in OpToRel(<, Nat))
  <2> HIDE DEF T
  <2> QED
    BY <1>2, <1>3, NatLessThanWellFounded, WFMin
<1>5. PICK k \in Existing : \A y \in T : ~ (<<y, Behind(k)>> \in OpToRel(<, Nat))
  BY <1>4
<1>6. ASSUME NEW other \in Existing
      PROVE  runs[other].completedAt <= runs[k].completedAt
  <2>1. Behind(other) \in T /\ Behind(other) \in Nat /\ Behind(k) \in Nat
    BY <1>2
  <2>2. ~ (Behind(other) < Behind(k))
    BY <1>5, <2>1 DEF OpToRel
  <2> QED
    BY <1>1, <2>2, BoundAssumption
<1>7. k \in LatestRuns
  BY <1>6 DEF LatestRuns
<1> QED
  BY <1>7

\* The run of a listing that has rows is a run as recent as its rows.
LEMMA LatestCovers ==
    ASSUME TypeOK, NEW row, row.syncedAt \in Times, Covered(row)
    PROVE  /\ LatestRuns # {}
           /\ \A k \in LatestRuns : /\ runs[k] # NoRun
                                    /\ row.syncedAt <= runs[k].completedAt
<1>1. PICK first \in Keys : runs[first] # NoRun /\ row.syncedAt <= runs[first].completedAt
  BY DEF Covered
<1>2. LatestRuns # {}
  BY <1>1, LatestRunExists
<1>3. ASSUME NEW k \in LatestRuns
      PROVE  runs[k] # NoRun /\ row.syncedAt <= runs[k].completedAt
  <2>1. k \in Keys /\ runs[k] # NoRun /\ runs[first].completedAt <= runs[k].completedAt
    BY <1>1 DEF LatestRuns
  <2>2. runs[k].completedAt \in 0 .. MaxTime /\ runs[first].completedAt \in 0 .. MaxTime
    BY <1>1, <2>1, RunForm DEF Times
  <2> QED
    BY <1>1, <2>1, <2>2, BoundAssumption DEF Times
<1> QED
  BY <1>2, <1>3

-------------------------------------------------------------------------------
(* The step of a sync *)

LEMMA ProjectionOK ==
    ASSUME TypeOK, FormInv
    PROVE  RowsOK(projections)
  BY Zenon DEF TypeOK, FormInv, RowsOK

LEMMA CompleteFacts ==
    ASSUME TypeOK, FormInv, LockInv, NEW h \in Handlers, Complete(h)
    PROVE  LET k    == sync[h].key
               c    == sync[h].command
               rows == Completion(c, evidence[h], sync[h].stamp)
               run  == Run(c, rows, sync[h].stamp)
           IN  /\ sync[h] \in SyncRow
               /\ runs[k] = NoRun /\ run \in RunRow
               /\ runs' = [runs EXCEPT ![k] = run]
               /\ gaps' = Reconciled(k, run.state)
               /\ RowsOK(projections')
               /\ Shown(projections') = rows
               /\ Selectable(projections') = Selectable(rows)
<1> DEFINE k    == sync[h].key
           c    == sync[h].command
           rows == Completion(c, evidence[h], sync[h].stamp)
           run  == Run(c, rows, sync[h].stamp)
<1>1. /\ sync[h] \in SyncRow /\ runs[k] = NoRun
      /\ ~ HasDuplicate(c)
      /\ visible[h] = {row.id : row \in projections}
  BY DEF Complete, TypeOK, LockInv, Holds
<1>2. c \in Commands /\ sync[h].stamp \in Times
  BY <1>1 DEF SyncRow
<1>3. Retired(projections, visible[h]) = AllRetired(projections)
  BY <1>1, RetiresAll
<1>4. /\ runs' = [runs EXCEPT ![k] = run]
      /\ gaps' = Reconciled(k, run.state)
      /\ projections' = Upsert(AllRetired(projections), rows)
  BY <1>3 DEF Complete
<1>5. run \in RunRow
  BY <1>2, RunType
<1>6. RowsOK(rows) /\ \A row \in rows : row.status # "STALE"
  <2>1. \A row, other \in rows : row.id = other.id => row = other
    BY <1>1, CompletionDistinct
  <2>2. \A row \in rows :
            /\ row = [id |-> row.id, status |-> row.status,
                      selectable |-> row.selectable, syncedAt |-> row.syncedAt]
            /\ row.status \in {"ACTIVE", "ARCHIVED"}
            /\ row.selectable => row.status = "ACTIVE"
            /\ row.syncedAt \in Times
    BY <1>2, CompletionForm
  <2> HIDE DEF rows
  <2> QED
    BY <2>1, <2>2 DEF RowsOK
<1>7. RowsOK(projections)
  BY ProjectionOK
<1> HIDE DEF rows, run
<1>8. /\ RowsOK(projections')
      /\ Shown(projections') = rows
      /\ Selectable(projections') = Selectable(rows)
  BY <1>4, <1>6, <1>7, UpsertRows
<1> QED
  BY <1>1, <1>4, <1>5, <1>8 DEF rows, run

\* Only a sync that completes writes the tables.
LEMMA OthersKeepTables ==
    ASSUME [Next]_vars, ~ \E h \in Handlers : Complete(h)
    PROVE  UNCHANGED tables
<1>1. CASE UNCHANGED vars
  BY <1>1 DEF vars, tables
<1>2. ASSUME NEW h \in Handlers,
             Receive(h) \/ Replay(h) \/ ReadMappings(h) \/ Retire(h) \/ Fail(h)
      PROVE  UNCHANGED tables
  BY <1>2 DEF Receive, Replay, ReadMappings, Retire, Fail, tables
<1>3. ASSUME NEW r \in Readers, ReadRows(r) \/ ReadLatestRun(r)
      PROVE  UNCHANGED tables
  BY <1>3 DEF ReadRows, ReadLatestRun, tables
<1>4. CASE RecordMapping \/ Tick
  BY <1>4 DEF RecordMapping, Tick, tables
<1> QED
  BY <1>1, <1>2, <1>3, <1>4 DEF Next

\* A run that exists is not rewritten.
LEMMA RunsStand ==
    ASSUME TypeOK, FormInv, LockInv, [Next]_vars, NEW k \in Keys, runs[k] # NoRun
    PROVE  runs'[k] = runs[k]
<1>1. CASE UNCHANGED tables
  BY <1>1 DEF tables
<1>2. ASSUME NEW h \in Handlers, Complete(h)
      PROVE  runs'[k] = runs[k]
  <2> DEFINE run == Run(sync[h].command,
                        Completion(sync[h].command, evidence[h], sync[h].stamp), sync[h].stamp)
  <2>1. runs[sync[h].key] = NoRun /\ runs' = [runs EXCEPT ![sync[h].key] = run]
    BY <1>2, CompleteFacts
  <2> HIDE DEF run
  <2> QED
    BY <2>1 DEF TypeOK
<1> QED
  BY <1>1, <1>2, OthersKeepTables

\* A receipt that is given shows a run of its key as it is then on record, and of
\* the command that was sent.
LEMMA ReceiptShows ==
    ASSUME TypeOK, FormInv, LockInv, [Next]_vars, NEW t \in told', t \notin told
    PROVE  t \in Telling /\ runs'[t.key] = t.run /\ t.run.command = t.command
<1>1. ASSUME NEW h \in Handlers, Replay(h)
      PROVE  t \in Telling /\ runs'[t.key] = t.run /\ t.run.command = t.command
  <2>1. UNCHANGED runs /\ pc[h] = "received" /\ runs[sync[h].key] # NoRun
    BY <1>1 DEF Replay, Locks, Unused, tables
  <2>2. SameCommand(h) /\ t = Receipt(h, runs[sync[h].key])
    BY <1>1 DEF Replay, Finish
  <2>3. sync[h] \in SyncRow
    BY <2>1 DEF TypeOK
  <2>4. runs[sync[h].key] \in RunRow
    BY <2>1, <2>3 DEF TypeOK, SyncRow
  <2>5. t \in Telling
    BY <2>2, <2>3, <2>4 DEF Telling, Receipt, SyncRow
  <2> QED
    BY <2>1, <2>2, <2>5 DEF SameCommand, Receipt
<1>2. ASSUME NEW h \in Handlers, Complete(h)
      PROVE  t \in Telling /\ runs'[t.key] = t.run /\ t.run.command = t.command
  <2> DEFINE k   == sync[h].key
             c   == sync[h].command
             run == Run(c, Completion(c, evidence[h], sync[h].stamp), sync[h].stamp)
  <2>1. sync[h] \in SyncRow /\ run \in RunRow /\ runs' = [runs EXCEPT ![k] = run]
    BY <1>2, CompleteFacts
  <2>2. t = Receipt(h, run)
    BY <1>2 DEF Complete, Finish
  <2>3. run.command = c
    BY DEF Run
  <2> HIDE DEF run
  <2>4. runs'[k] = run
    BY <2>1 DEF SyncRow, TypeOK
  <2>5. t \in Telling
    BY <2>1, <2>2 DEF Telling, Receipt, SyncRow
  <2> QED
    BY <2>2, <2>3, <2>4, <2>5 DEF Receipt
<1>3. ASSUME NEW h \in Handlers, Receive(h) \/ ReadMappings(h) \/ Retire(h) \/ Fail(h)
      PROVE  FALSE
  BY <1>3 DEF Receive, ReadMappings, Retire, Fail, Finish
<1>4. ~ \E r \in Readers : ReadRows(r) \/ ReadLatestRun(r)
  BY DEF ReadRows, ReadLatestRun
<1>5. ~ (RecordMapping \/ Tick \/ UNCHANGED vars)
  BY DEF RecordMapping, Tick, vars
<1> QED
  BY <1>1, <1>2, <1>3, <1>4, <1>5 DEF Next

-------------------------------------------------------------------------------
(* Typing *)

LEMMA TablesTyped ==
    ASSUME TypeOK, FormInv, LockInv, [Next]_vars
    PROVE  /\ runs' \in [Keys -> RunRow \cup {NoRun}]
           /\ gaps' \in [Keys -> {None, "open", "resolved"}]
           /\ RowsOK(projections')
<1>1. CASE UNCHANGED tables
  <2>1. RowsOK(projections)
    BY ProjectionOK
  <2> QED
    BY <1>1, <2>1 DEF tables, TypeOK
<1>2. ASSUME NEW h \in Handlers, Complete(h)
      PROVE  /\ runs' \in [Keys -> RunRow \cup {NoRun}]
             /\ gaps' \in [Keys -> {None, "open", "resolved"}]
             /\ RowsOK(projections')
  <2> DEFINE run == Run(sync[h].command,
                        Completion(sync[h].command, evidence[h], sync[h].stamp), sync[h].stamp)
  <2>1. /\ runs' = [runs EXCEPT ![sync[h].key] = run]
        /\ run \in RunRow
        /\ gaps' = Reconciled(sync[h].key, run.state)
        /\ RowsOK(projections')
    BY <1>2, CompleteFacts
  <2> HIDE DEF run
  <2>2. gaps' \in [Keys -> {None, "open", "resolved"}]
    BY <2>1 DEF Reconciled, TypeOK
  <2> QED
    BY <2>1, <2>2 DEF TypeOK
<1> QED
  BY <1>1, <1>2, OthersKeepTables

LEMMA FinishKeepsHandlersTyped ==
    ASSUME TypeOK, NEW h \in Handlers, NEW receipts, Finish(h, receipts)
    PROVE  /\ pc' \in [Handlers -> {"idle", "received", "locked", "retired"}]
           /\ sync' \in [Handlers -> SyncRow \cup {NoSync}]
           /\ \A g \in Handlers : pc'[g] # "idle" => sync'[g] # NoSync
<1>1. pc' = [pc EXCEPT ![h] = "idle"] /\ sync' = [sync EXCEPT ![h] = NoSync]
  BY DEF Finish
<1>2. pc' \in [Handlers -> {"idle", "received", "locked", "retired"}]
  BY <1>1 DEF TypeOK
<1>3. sync' \in [Handlers -> SyncRow \cup {NoSync}]
  BY <1>1 DEF TypeOK
<1>4. ASSUME NEW g \in Handlers, pc'[g] # "idle"
      PROVE  sync'[g] # NoSync
  BY <1>1, <1>4 DEF TypeOK
<1> QED
  BY <1>2, <1>3, <1>4

LEMMA HandlersTyped ==
    ASSUME TypeOK, [Next]_vars
    PROVE  /\ pc' \in [Handlers -> {"idle", "received", "locked", "retired"}]
           /\ sync' \in [Handlers -> SyncRow \cup {NoSync}]
           /\ \A g \in Handlers : pc'[g] # "idle" => sync'[g] # NoSync
<1> DEFINE Typed == /\ pc' \in [Handlers -> {"idle", "received", "locked", "retired"}]
                    /\ sync' \in [Handlers -> SyncRow \cup {NoSync}]
                    /\ \A g \in Handlers : pc'[g] # "idle" => sync'[g] # NoSync
<1> SUFFICES Typed
  OBVIOUS
<1>1. CASE UNCHANGED <<pc, sync>>
  BY <1>1 DEF TypeOK
<1>2. ASSUME NEW h \in Handlers, NEW receipts, Finish(h, receipts)
      PROVE  Typed
  BY <1>2, FinishKeepsHandlersTyped
<1>3. ASSUME NEW h \in Handlers, Receive(h)
      PROVE  Typed
  <2>1. PICK k \in Keys, c \in Commands :
            sync' = [sync EXCEPT ![h] = [key |-> k, command |-> c, stamp |-> now]]
    BY <1>3 DEF Receive
  <2> DEFINE s == [key |-> k, command |-> c, stamp |-> now]
  <2>2. s \in SyncRow /\ s # NoSync
    BY DEF SyncRow, NoSync, TypeOK
  <2>3. pc' = [pc EXCEPT ![h] = "received"]
    BY <1>3 DEF Receive
  <2>4. sync' = [sync EXCEPT ![h] = s]
    BY <2>1
  <2> HIDE DEF s
  <2>5. pc' \in [Handlers -> {"idle", "received", "locked", "retired"}]
    BY <2>3 DEF TypeOK
  <2>6. sync' \in [Handlers -> SyncRow \cup {NoSync}]
    BY <2>2, <2>4 DEF TypeOK
  <2>7. ASSUME NEW g \in Handlers, pc'[g] # "idle"
        PROVE  sync'[g] # NoSync
    BY <2>2, <2>3, <2>4, <2>7 DEF TypeOK
  <2> QED
    BY <2>5, <2>6, <2>7
<1>4. ASSUME NEW h \in Handlers, ReadMappings(h) \/ Retire(h)
      PROVE  Typed
  BY <1>4 DEF ReadMappings, Locks, Retire, TypeOK
<1> HIDE DEF Typed
<1>5. ASSUME NEW h \in Handlers, Replay(h) \/ Complete(h) \/ Fail(h)
      PROVE  Typed
  BY <1>2, <1>5 DEF Replay, Complete, Fail
<1>6. CASE Tick \/ RecordMapping \/ \E r \in Readers : ReadRows(r) \/ ReadLatestRun(r)
  BY <1>1, <1>6 DEF Tick, RecordMapping, ReadRows, ReadLatestRun, handlers
<1>7. CASE UNCHANGED vars
  BY <1>1, <1>7 DEF vars, handlers
<1>8. CASE Next
  BY <1>3, <1>4, <1>5, <1>6, <1>8, Zenon DEF Next
<1> QED
  BY <1>7, <1>8

LEMMA MappingsTyped ==
    ASSUME TypeOK, [Next]_vars
    PROVE  mappings' \in Seq(Mapping) /\ now' \in Times
<1>1. CASE UNCHANGED <<mappings, now>>
  BY <1>1 DEF TypeOK
<1>2. CASE RecordMapping
  <2>1. ASSUME NEW m \in Recordable, mappings' = Append(mappings, m)
        PROVE  mappings' \in Seq(Mapping)
    BY <2>1, MappingAssumption DEF TypeOK
  <2>2. ASSUME NEW i \in DOMAIN mappings,
               mappings' = [mappings EXCEPT ![i].state = "superseded"]
        PROVE  mappings' \in Seq(Mapping)
    <3> DEFINE m == [mappings[i] EXCEPT !.state = "superseded"]
    <3>1. mappings \in Seq(Mapping)
      BY DEF TypeOK
    <3>2. mappings[i] \in Mapping
      BY <3>1
    <3>3. m \in Mapping
      BY <3>2 DEF Mapping, MappingStates
    <3>4. mappings' = [mappings EXCEPT ![i] = m]
      BY <2>2
    <3> HIDE DEF m
    <3> QED
      BY <3>1, <3>3, <3>4
  <2>3. mappings' \in Seq(Mapping)
    BY <1>2, <2>1, <2>2 DEF RecordMapping
  <2> QED
    BY <1>2, <2>3 DEF RecordMapping, TypeOK
<1>3. CASE Tick
  BY <1>3, BoundAssumption DEF Tick, Times, TypeOK
<1>4. ASSUME NEW h \in Handlers,
             Receive(h) \/ Replay(h) \/ ReadMappings(h) \/ Retire(h) \/ Complete(h) \/ Fail(h)
      PROVE  UNCHANGED <<mappings, now>>
  BY <1>4 DEF Receive, Replay, ReadMappings, Retire, Complete, Fail
<1>5. ASSUME NEW r \in Readers, ReadRows(r) \/ ReadLatestRun(r)
      PROVE  UNCHANGED <<mappings, now>>
  BY <1>5 DEF ReadRows, ReadLatestRun
<1>6. CASE UNCHANGED vars
  BY <1>1, <1>6 DEF vars
<1> QED
  BY <1>1, <1>2, <1>3, <1>4, <1>5, <1>6 DEF Next

LEMMA PagesHaveTheirDomain ==
    ASSUME FormInv, [Next]_vars
    PROVE  DOMAIN page' = Readers
<1>1. CASE UNCHANGED page
  BY <1>1 DEF FormInv
<1>2. ASSUME NEW h \in Handlers,
             Receive(h) \/ Replay(h) \/ ReadMappings(h) \/ Retire(h) \/ Complete(h) \/ Fail(h)
      PROVE  UNCHANGED page
  BY <1>2 DEF Receive, Replay, ReadMappings, Retire, Complete, Fail
<1>3. ASSUME NEW r \in Readers, ReadRows(r) \/ ReadLatestRun(r)
      PROVE  DOMAIN page' = Readers
  BY <1>3 DEF ReadRows, ReadLatestRun, FormInv
<1>4. CASE RecordMapping \/ Tick \/ UNCHANGED vars
  BY <1>1, <1>4 DEF RecordMapping, Tick, vars
<1> QED
  BY <1>1, <1>2, <1>3, <1>4 DEF Next

LEMMA VisibleHasItsDomain ==
    ASSUME FormInv, [Next]_vars
    PROVE  DOMAIN visible' = Handlers
<1>1. CASE UNCHANGED visible
  BY <1>1 DEF FormInv
<1>2. ASSUME NEW h \in Handlers, NEW receipts, Finish(h, receipts)
      PROVE  DOMAIN visible' = Handlers
  BY <1>2 DEF Finish, FormInv
<1>3. ASSUME NEW h \in Handlers, Replay(h) \/ Complete(h) \/ Fail(h)
      PROVE  DOMAIN visible' = Handlers
  BY <1>2, <1>3 DEF Replay, Complete, Fail
<1>4. ASSUME NEW h \in Handlers, Receive(h) \/ ReadMappings(h) \/ Retire(h)
      PROVE  DOMAIN visible' = Handlers
  BY <1>4 DEF Receive, ReadMappings, Retire, FormInv
<1>5. ASSUME NEW r \in Readers, ReadRows(r) \/ ReadLatestRun(r)
      PROVE  UNCHANGED visible
  BY <1>5 DEF ReadRows, ReadLatestRun, handlers
<1>6. CASE RecordMapping \/ Tick \/ UNCHANGED vars
  BY <1>1, <1>6 DEF RecordMapping, Tick, vars, handlers
<1> QED
  BY <1>1, <1>3, <1>4, <1>5, <1>6 DEF Next

LEMMA TypeStep ==
    ASSUME TypeOK, FormInv, LockInv, [Next]_vars
    PROVE  TypeOK' /\ FormInv'
<1>1. mappings' \in Seq(Mapping) /\ now' \in Times
  BY MappingsTyped
<1>2. /\ pc' \in [Handlers -> {"idle", "received", "locked", "retired"}]
      /\ sync' \in [Handlers -> SyncRow \cup {NoSync}]
      /\ \A g \in Handlers : pc'[g] # "idle" => sync'[g] # NoSync
  BY HandlersTyped
<1>3. /\ runs' \in [Keys -> RunRow \cup {NoRun}]
      /\ gaps' \in [Keys -> {None, "open", "resolved"}]
      /\ RowsOK(projections')
  BY TablesTyped
<1>4. told' \subseteq Telling
  BY ReceiptShows DEF TypeOK
<1>5. TypeOK'
  BY <1>1, <1>2, <1>3, <1>4, Zenon DEF TypeOK, RowsOK
<1>6. DOMAIN page' = Readers /\ DOMAIN visible' = Handlers
  BY PagesHaveTheirDomain, VisibleHasItsDomain
<1>7. FormInv'
  BY <1>3, <1>6, Zenon DEF FormInv, RowsOK
<1> QED
  BY <1>5, <1>7

-------------------------------------------------------------------------------
(* The lock, and the rows that a listing has read *)

\* What a sync keeps from the moment it has the lock.
Held(h) ==
    /\ runs[sync[h].key] = NoRun
    /\ pc[h] = "retired" => /\ ~ HasDuplicate(sync[h].command)
                            /\ visible[h] = {row.id : row \in projections}

\* A step that leaves the tables and a sync that has the lock alone.
LEMMA HeldStands ==
    ASSUME NEW h \in Handlers, Held(h), UNCHANGED <<runs, projections>>,
           pc'[h] = pc[h], sync'[h] = sync[h], visible'[h] = visible[h]
    PROVE  Held(h)'
  BY DEF Held

\* The steps of a sync that does not have the lock leave the one that has alone.
LEMMA OthersKeepHolder ==
    ASSUME TypeOK, FormInv, NEW h \in Handlers, NEW g \in Handlers, g # h,
           \/ Receive(g) \/ Replay(g) \/ ReadMappings(g)
           \/ Retire(g) \/ Complete(g) \/ Fail(g)
    PROVE  pc'[h] = pc[h] /\ sync'[h] = sync[h] /\ visible'[h] = visible[h]
<1>1. ASSUME NEW receipts, Finish(g, receipts)
      PROVE  pc'[h] = pc[h] /\ sync'[h] = sync[h] /\ visible'[h] = visible[h]
  BY <1>1 DEF Finish, TypeOK, FormInv
<1>2. CASE Replay(g) \/ Complete(g) \/ Fail(g)
  BY <1>1, <1>2 DEF Replay, Complete, Fail
<1>3. CASE Receive(g) \/ ReadMappings(g) \/ Retire(g)
  BY <1>3 DEF Receive, ReadMappings, Retire, TypeOK, FormInv
<1> QED
  BY <1>2, <1>3

\* The lock is taken when nobody has it, for a key that has no run; the tables are
\* only written by the sync that has the lock, and by its last step.
LEMMA LockStep ==
    ASSUME TypeOK, FormInv, LockInv, [Next]_vars
    PROVE  LockInv'
<1> USE DEF Holds
<1>1. ASSUME NEW h \in Handlers, Holds(h)', ~ Holds(h)
      PROVE  Held(h)' /\ \A g \in Handlers : Holds(g)' => g = h
  <2>1. ASSUME NEW g \in Handlers, NEW receipts, Finish(g, receipts)
        PROVE  FALSE
    BY <1>1, <2>1 DEF Finish, TypeOK
  <2>2. ~ \E g \in Handlers : Receive(g) \/ Retire(g)
    BY <1>1 DEF Receive, Retire, TypeOK
  <2>3. ~ \E g \in Handlers : Replay(g) \/ Complete(g) \/ Fail(g)
    BY <2>1 DEF Replay, Complete, Fail
  <2>4. ~ (Tick \/ RecordMapping \/ \E r \in Readers : ReadRows(r) \/ ReadLatestRun(r))
    BY <1>1 DEF Tick, RecordMapping, ReadRows, ReadLatestRun, handlers
  <2>5. ~ UNCHANGED vars
    BY <1>1 DEF vars, handlers
  <2>6. PICK g \in Handlers : ReadMappings(g)
    BY <2>2, <2>3, <2>4, <2>5 DEF Next
  <2>7. pc' = [pc EXCEPT ![g] = "locked"] /\ UNCHANGED <<runs, sync>>
    BY <2>6 DEF ReadMappings, tables
  <2>8. g = h
    BY <1>1, <2>7 DEF TypeOK
  <2>9. runs[sync[h].key] = NoRun /\ \A other \in Handlers : ~ Holds(other)
    BY <2>6, <2>8 DEF ReadMappings, Locks, Unused
  <2> QED
    BY <2>7, <2>8, <2>9 DEF TypeOK, Held
<1>2. ASSUME NEW h \in Handlers, Holds(h)', Holds(h)
      PROVE  Held(h)'
  <2>1. Held(h) /\ \A g \in Handlers : Holds(g) => g = h
    BY <1>2 DEF LockInv, Held
  <2>2. ASSUME NEW g \in Handlers, Complete(g)
        PROVE  FALSE
    <3>1. g = h
      BY <2>1, <2>2 DEF Complete
    <3> QED
      BY <1>2, <2>2, <3>1 DEF Complete, Finish, TypeOK
  <2>3. UNCHANGED <<runs, projections>>
    BY <2>2, OthersKeepTables DEF tables
  <2>4. CASE UNCHANGED handlers
    BY <2>1, <2>3, <2>4, HeldStands DEF handlers
  <2>5. CASE Retire(h)
    <3>1. /\ visible' = [visible EXCEPT ![h] = {row.id : row \in projections}]
          /\ UNCHANGED sync /\ ~ HasDuplicate(sync[h].command)
      BY <2>5 DEF Retire
    <3>2. visible'[h] = {row.id : row \in projections}
      BY <3>1 DEF FormInv
    <3> QED
      BY <2>1, <2>3, <3>1, <3>2 DEF Held
  <2>6. ASSUME NEW receipts, Finish(h, receipts)
        PROVE  FALSE
    BY <1>2, <2>6 DEF Finish, TypeOK
  <2>7. ~ (Receive(h) \/ Replay(h) \/ ReadMappings(h) \/ Complete(h) \/ Fail(h))
    BY <1>2, <2>6 DEF Receive, Replay, Locks, ReadMappings, Complete, Fail
  <2>8. ASSUME NEW g \in Handlers, g # h,
               \/ Receive(g) \/ Replay(g) \/ ReadMappings(g)
               \/ Retire(g) \/ Complete(g) \/ Fail(g)
        PROVE  Held(h)'
    BY <2>1, <2>3, <2>8, OthersKeepHolder, HeldStands
  <2>9. CASE Tick \/ RecordMapping \/ UNCHANGED vars
             \/ \E r \in Readers : ReadRows(r) \/ ReadLatestRun(r)
    BY <2>4, <2>9 DEF Tick, RecordMapping, ReadRows, ReadLatestRun, handlers, vars
  <2> QED
    BY <2>5, <2>7, <2>8, <2>9 DEF Next
<1>3. ASSUME NEW h \in Handlers, Holds(h)', Holds(h),
             NEW g \in Handlers, Holds(g)'
      PROVE  g = h
  BY <1>1, <1>3 DEF LockInv
<1>4. \A h \in Handlers : Holds(h)' => Held(h)'
  BY <1>1, <1>2
<1>5. \A h, g \in Handlers : Holds(h)' /\ Holds(g)' => g = h
  BY <1>1, <1>3
<1> QED
  BY <1>4, <1>5 DEF LockInv, Held

LEMMA CoveredStands ==
    ASSUME TypeOK, FormInv, LockInv, [Next]_vars, NEW row, Covered(row)
    PROVE  \E k \in Keys : runs'[k] # NoRun /\ row.syncedAt <= runs'[k].completedAt
<1>1. PICK k \in Keys : runs[k] # NoRun /\ row.syncedAt <= runs[k].completedAt
  BY DEF Covered
<1>2. runs'[k] = runs[k]
  BY <1>1, RunsStand
<1> QED
  BY <1>1, <1>2

LEMMA ShownIsCovered ==
    ASSUME TypeOK, FormInv, ShownIsOneRun, NEW row \in Shown(projections)
    PROVE  row.syncedAt \in Times /\ Covered(row)
<1>1. PICK k \in Keys : runs[k] # NoRun /\ row.syncedAt = runs[k].completedAt
  BY DEF ShownIsOneRun
<1>2. runs[k].completedAt \in 0 .. MaxTime
  BY <1>1, RunForm DEF Times
<1> QED
  BY <1>1, <1>2, BoundAssumption DEF Covered, Times

LEMMA PageStep ==
    ASSUME TypeOK, FormInv, LockInv, PageInv, ShownIsOneRun, [Next]_vars
    PROVE  PageInv'
<1> SUFFICES ASSUME NEW r \in Readers, page'[r] # NoPage,
                    NEW row \in page'[r].rows
             PROVE  row.syncedAt \in Times /\ Covered(row)
  BY CoveredStands DEF PageInv, Covered
<1>1. CASE page'[r] = page[r]
  BY <1>1 DEF PageInv
<1>2. CASE page'[r] # page[r]
  <2>1. ~ \E h \in Handlers :
             Receive(h) \/ Replay(h) \/ ReadMappings(h) \/ Retire(h) \/ Complete(h) \/ Fail(h)
    BY <1>2 DEF Receive, Replay, ReadMappings, Retire, Complete, Fail
  <2>2. ~ (RecordMapping \/ Tick \/ UNCHANGED vars)
    BY <1>2 DEF RecordMapping, Tick, vars
  <2>3. PICK q \in Readers : ReadRows(q) \/ ReadLatestRun(q)
    BY <2>1, <2>2 DEF Next
  <2>4. CASE ReadLatestRun(q)
    BY <1>2, <2>4 DEF ReadLatestRun, FormInv
  <2>5. CASE ReadRows(q)
    <3>1. PICK rows \in SUBSET Shown(projections) : page' = [page EXCEPT ![q] = [rows |-> rows]]
      BY <2>5 DEF ReadRows
    <3>2. q = r /\ page'[r].rows = rows
      BY <1>2, <3>1 DEF FormInv
    <3>3. row \in Shown(projections)
      BY <3>1, <3>2
    <3> QED
      BY <3>3, ShownIsCovered
  <2> QED
    BY <2>3, <2>4, <2>5
<1> QED
  BY <1>1, <1>2

-------------------------------------------------------------------------------
(* What is on offer, and what clients are told *)

LEMMA OfferStep ==
    ASSUME TypeOK, FormInv, LockInv, ShownIsOneRun, OpenGapBlocksQuotes, [Next]_vars
    PROVE  ShownIsOneRun' /\ OpenGapBlocksQuotes'
<1>1. CASE UNCHANGED tables
  <2>1. UNCHANGED <<runs, projections, gaps>>
    BY <1>1 DEF tables
  <2>2. ShownIsOneRun'
    BY <2>1 DEF ShownIsOneRun
  <2>3. OpenGapBlocksQuotes'
    BY <2>1 DEF OpenGapBlocksQuotes
  <2> QED
    BY <2>2, <2>3
<1>2. ASSUME NEW h \in Handlers, Complete(h)
      PROVE  ShownIsOneRun' /\ OpenGapBlocksQuotes'
  <2> DEFINE k    == sync[h].key
             c    == sync[h].command
             rows == Completion(c, evidence[h], sync[h].stamp)
             run  == Run(c, rows, sync[h].stamp)
  <2>1. /\ sync[h] \in SyncRow
        /\ run \in RunRow
        /\ runs' = [runs EXCEPT ![k] = run]
        /\ gaps' = Reconciled(k, run.state)
        /\ Shown(projections') = rows
        /\ Selectable(projections') = Selectable(rows)
    BY <1>2, CompleteFacts
  <2>2. k \in Keys /\ c \in Commands /\ sync[h].stamp \in Times
    BY <2>1 DEF SyncRow
  <2>3. /\ run.state = IF ExactMatch(c) THEN "CURRENT" ELSE "RECONCILIATION_REQUIRED"
        /\ run.completedAt = sync[h].stamp
        /\ run.count = Cardinality(rows)
        /\ run.eligible = Cardinality(Selectable(rows))
    BY DEF Run
  <2>4. \A row \in rows : row.syncedAt = sync[h].stamp
    BY <2>2, CompletionForm
  <2>5. Selectable(rows) # {} => ExactMatch(c)
    <3>1. \A row \in rows : row.selectable => ExactMatch(c)
      BY <2>2, CompletionForm
    <3> QED
      BY <3>1 DEF Selectable
  <2> HIDE DEF rows, run
  <2>6. runs'[k] = run /\ run # NoRun
    BY <2>1, <2>2, RunIsNotNoRun DEF TypeOK
  <2>7. ShownIsOneRun'
    <3>1. /\ runs'[k] # NoRun
          /\ \A row \in Shown(projections') : row.syncedAt = runs'[k].completedAt
          /\ Cardinality(Shown(projections')) = runs'[k].count
          /\ Cardinality(Selectable(projections')) = runs'[k].eligible
          /\ Selectable(projections') # {} => runs'[k].state = "CURRENT"
      BY <2>1, <2>3, <2>4, <2>5, <2>6
    <3> QED
      BY <2>2, <3>1 DEF ShownIsOneRun
  <2>8. OpenGapBlocksQuotes'
    <3>1. CASE ExactMatch(c)
      <4>1. \A g \in Keys : gaps'[g] # "open"
        BY <2>1, <2>3, <3>1 DEF Reconciled
      <4>2. ASSUME NEW row \in Shown(projections')
            PROVE  /\ runs'[k] # NoRun /\ runs'[k].state = "CURRENT"
                   /\ row.syncedAt = runs'[k].completedAt
        BY <2>1, <2>3, <2>4, <2>6, <3>1
      <4> QED
        BY <2>2, <4>1, <4>2 DEF OpenGapBlocksQuotes
    <3>2. CASE ~ ExactMatch(c)
      <4>1. gaps'[k] = "open"
        BY <2>1, <2>2, <2>3, <3>2 DEF Reconciled, TypeOK
      <4>2. Selectable(projections') = {}
        BY <2>1, <2>5, <3>2
      <4> QED
        BY <2>2, <4>1, <4>2 DEF OpenGapBlocksQuotes
    <3> QED
      BY <3>1, <3>2
  <2> QED
    BY <2>7, <2>8
<1> QED
  BY <1>1, <1>2, OthersKeepTables

\* Runs are written once, so a receipt that showed a run shows it for ever.
LEMMA AnswerStep ==
    ASSUME TypeOK, FormInv, LockInv, AnswersAreDurable, [Next]_vars
    PROVE  AnswersAreDurable'
<1>1. ASSUME NEW t \in told' PROVE runs'[t.key] = t.run /\ t.run.command = t.command
  <2>1. CASE t \in told
    <3>1. t \in Telling /\ runs[t.key] = t.run /\ t.run.command = t.command
      BY <2>1 DEF TypeOK, AnswersAreDurable
    <3>2. t.key \in Keys /\ t.run \in RunRow
      BY <3>1 DEF Telling
    <3>3. runs[t.key] # NoRun
      BY <3>1, <3>2, RunIsNotNoRun
    <3>4. runs'[t.key] = runs[t.key]
      BY <3>2, <3>3, RunsStand
    <3> QED
      BY <3>1, <3>4
  <2>2. CASE t \notin told
    BY <2>2, ReceiptShows
  <2> QED
    BY <2>1, <2>2
<1> QED
  BY <1>1 DEF AnswersAreDurable

LEMMA ListingStep ==
    ASSUME TypeOK, PageInv, ListingCoversItsRows, [Next]_vars
    PROVE  ListingCoversItsRows'
<1>1. CASE UNCHANGED listed
  BY <1>1 DEF ListingCoversItsRows
<1>2. CASE listed'.rows = {}
  BY <1>2 DEF ListingCoversItsRows
<1>3. ASSUME NEW r \in Readers, ReadLatestRun(r)
      PROVE  ListingCoversItsRows'
  <2>1. /\ page[r] # NoPage
        /\ \E run \in {runs[k] : k \in LatestRuns} \cup (IF LatestRuns = {} THEN {NoRun} ELSE {}) :
               listed' = [rows |-> page[r].rows, run |-> run]
    BY <1>3 DEF ReadLatestRun
  <2>2. ASSUME NEW row \in page[r].rows
        PROVE  /\ listed'.run # NoRun
               /\ row.syncedAt <= listed'.run.completedAt
    <3>1. row.syncedAt \in Times /\ Covered(row)
      BY <2>1, <2>2 DEF PageInv
    <3>2. /\ LatestRuns # {}
          /\ \A k \in LatestRuns : runs[k] # NoRun /\ row.syncedAt <= runs[k].completedAt
      BY <3>1, LatestCovers
    <3>3. PICK k \in LatestRuns :
              listed' = [rows |-> page[r].rows, run |-> runs[k]]
      BY <2>1, <3>2
    <3> QED
      BY <3>2, <3>3
  <2>3. listed'.rows = page[r].rows
    BY <2>1
  <2> QED
    BY <2>2, <2>3 DEF ListingCoversItsRows
<1>4. ASSUME NEW h \in Handlers,
             Receive(h) \/ Replay(h) \/ ReadMappings(h) \/ Retire(h) \/ Complete(h) \/ Fail(h)
      PROVE  listed'.rows = {}
  BY <1>4 DEF Receive, Replay, ReadMappings, Retire, Complete, Fail, NoListing
<1>5. CASE RecordMapping \/ Tick \/ \E r \in Readers : ReadRows(r)
  BY <1>2, <1>5 DEF RecordMapping, Tick, ReadRows, NoListing
<1>6. CASE UNCHANGED vars
  BY <1>1, <1>6 DEF vars
<1> QED
  BY <1>2, <1>3, <1>4, <1>5, <1>6 DEF Next

-------------------------------------------------------------------------------
(* The invariant *)

LEMMA InitOK == ASSUME Init PROVE IInv
<1>1. TypeOK
  <2>1. mappings \in Seq(Mapping)
    BY DEF Init
  <2>2. now \in Times
    BY BoundAssumption DEF Init, Times
  <2> QED
    BY <2>1, <2>2 DEF Init, TypeOK
<1>2. FormInv /\ LockInv /\ PageInv
  BY DEF Init, FormInv, LockInv, Holds, PageInv
<1>3. ShownIsOneRun /\ OpenGapBlocksQuotes
  BY DEF Init, ShownIsOneRun, OpenGapBlocksQuotes, Shown, Selectable, None
<1>4. AnswersAreDurable /\ ListingCoversItsRows
  BY DEF Init, AnswersAreDurable, ListingCoversItsRows, NoListing
<1> QED
  BY <1>1, <1>2, <1>3, <1>4 DEF IInv

LEMMA IInvStep == ASSUME IInv, [Next]_vars PROVE IInv'
<1> USE DEF IInv
<1>1. TypeOK' /\ FormInv'
  BY TypeStep
<1>2. LockInv' /\ PageInv'
  BY LockStep, PageStep
<1>3. ShownIsOneRun' /\ OpenGapBlocksQuotes'
  BY OfferStep
<1>4. AnswersAreDurable' /\ ListingCoversItsRows'
  BY AnswerStep, ListingStep
<1> QED
  BY <1>1, <1>2, <1>3, <1>4

LEMMA Invariance == Spec => []IInv
<1>1. Init => IInv
  BY InitOK
<1>2. IInv /\ [Next]_vars => IInv'
  BY IInvStep
<1> QED
  BY <1>1, <1>2, PTL DEF Spec

-------------------------------------------------------------------------------
\* Every table and every sync keeps its form, coverage stays a share of the whole,
\* and no two rows of the projection have one identifier (the p113 tables).
THEOREM TypeCorrect == Spec => []TypeOK
<1>1. IInv => TypeOK
  BY DEF IInv
<1> QED
  BY <1>1, Invariance, PTL

\* The rows on offer are always those of one run, and its counts are theirs
\* (ingestP113CatalogProjection).
THEOREM ShownIsOneRunCorrect == Spec => []ShownIsOneRun
<1>1. IInv => ShownIsOneRun
  BY DEF IInv
<1> QED
  BY <1>1, Invariance, PTL

\* While a gap is open nothing is selectable, and with none open what is on offer
\* comes from a walk that agreed with Shopify (ingestP113CatalogProjection).
THEOREM OpenGapBlocksQuotesCorrect == Spec => []OpenGapBlocksQuotes
<1>1. IInv => OpenGapBlocksQuotes
  BY DEF IInv
<1> QED
  BY <1>1, Invariance, PTL

\* Every receipt that a client was given, at a sync or at a replay, shows the run
\* of its own command as it stands on record for ever after
\* (ingestP113CatalogProjection: the key is looked up under the lock).
THEOREM AnswersAreDurableCorrect == Spec => []AnswersAreDurable
<1>1. IInv => AnswersAreDurable
  BY DEF IInv
<1> QED
  BY <1>1, Invariance, PTL

\* The run that a listing names is no older than the rows it lists, whatever syncs
\* commit between its two reads (listP113CatalogProjections).
THEOREM ListingCoversItsRowsCorrect == Spec => []ListingCoversItsRows
<1>1. IInv => ListingCoversItsRows
  BY DEF IInv
<1> QED
  BY <1>1, Invariance, PTL

\* A run that is on record is never rewritten, whichever syncs use its key again
\* (ingestP113CatalogProjection: the key is looked up under the lock).
THEOREM RunsAreWrittenOnce ==
    Spec => [][\A k \in Keys : runs[k] # NoRun => runs'[k] = runs[k]]_vars
<1>1. IInv /\ [Next]_vars => [\A k \in Keys : runs[k] # NoRun => runs'[k] = runs[k]]_vars
  BY RunsStand DEF IInv
<1> QED
  BY <1>1, Invariance, PTL DEF Spec
===============================================================================
