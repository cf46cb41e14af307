------------------------ MODULE Stage5Receipts_proofs ------------------------
(***************************************************************************)
(* Proofs about Stage5Receipts, for any requests, subjects, claims and     *)
(* windows, and any number of handlers.                                    *)
(*                                                                         *)
(* Receipts are only added, for the lock of a key excludes the others.  A  *)
(* readback is known only after the moment it read its source, hence every *)
(* readback an admission cites was read before the decision, and none that *)
(* follows the decision was cited.  Versions that are seen of a source,    *)
(* by readbacks and by decisions, are ordered like the times they were     *)
(* seen at: that needs what running requests have seen, not only what is   *)
(* on record.                                                              *)
(***************************************************************************)
EXTENDS Stage5Receipts, TLAPS

\* A readback on record read its source after its stamp, and before now.
ReadbackOK(k) ==
    LET e == Receipt("READBACK", k)
    IN  e # NoReceipt =>
            /\ e.request.of.scope = "READBACK" /\ e.request.of.key = k
            /\ e.observedAt <= e.readAt /\ e.readAt < now

\* What an admission consumed was read before it was decided, and was fresh.
AdmissionOK(k) ==
    LET a == Receipt("ADMISSION", k)
    IN  a # NoReceipt =>
            /\ a.request.of.scope = "ADMISSION" /\ a.request.of.key = k
            /\ VerifiesAdmission(a)
            /\ \A j \in a.consumed :
                  LET e == Receipt("READBACK", j)
                  IN  /\ e # NoReceipt
                      /\ e.readAt < a.decidedAt
                      /\ a.status # "DENIED" => a.decidedAt < e.observedAt + Window

\* An outcome verifies with an admission that was granted.
OutcomeOK(k) ==
    LET o == Receipt("OUTCOME", k)
        readback == Receipt("READBACK", o.request.of.readback)
    IN  o # NoReceipt =>
            /\ o.request.of.scope = "OUTCOME" /\ o.request.of.key = k
            /\ readback # NoReceipt
            /\ \E a \in AdmissionsOf(o.request.of.operation) :
                  a.status # "DENIED" /\ VerifiesWith(o, a, readback)

OneAdmission ==
    \A a, b \in Recorded("ADMISSION") :
        a.request.of.operation = b.request.of.operation => a = b

StoreInv ==
    /\ \A k \in Keys : ReadbackOK(k) /\ AdmissionOK(k) /\ OutcomeOK(k)
    /\ OneAdmission

\* What a request knows: evidence that was read before its stamp, a key that is
\* free while it holds the lock.
HandlerOK(h) ==
    LET r == request[h]
    IN  /\ \A k \in found[h] :
              Receipt("READBACK", k) # NoReceipt /\ Receipt("READBACK", k).readAt < stamp[h]
        /\ pc[h] # "idle" => r \in Request /\ stamp[h] <= now
        /\ pc[h] = "grounded" => r.of.scope = "ADMISSION"
        /\ pc[h] \in {"received", "locked"} /\ r.of.scope = "ADMISSION" => view[h].at = stamp[h]
        /\ pc[h] = "locked" => Stored(r) = NoReceipt
        /\ pc[h] = "locked" /\ r.of.scope = "READBACK" => stamp[h] <= view[h].at

HandlerInv == \A h \in Handlers : HandlerOK(h)

\* One request at a time holds the lock of a key.
OneHolder ==
    \A g, h \in Handlers :
        /\ pc[g] = "locked" /\ pc[h] = "locked"
        /\ request[g].of.scope = request[h].of.scope
        /\ request[g].of.key = request[h].of.key
        => g = h

\* What readbacks have seen of their subjects, on record or in a running request.
Sights ==
    {[subject |-> e.request.of.subject, version |-> e.version, at |-> e.readAt] :
        e \in Recorded("READBACK")}
      \cup {[subject |-> request[h].of.subject, version |-> view[h].version, at |-> view[h].at] :
              h \in {g \in Handlers : pc[g] = "locked" /\ request[g].of.scope = "READBACK"}}

\* What the expected subjects of admissions were when they were decided.
Decisions ==
    {[subject |-> a.request.of.expects.subject, version |-> a.shown, at |-> a.decidedAt] :
        a \in {b \in Recorded("ADMISSION") : b.request.of.expects # NoExpectation}}
      \cup {[subject |-> request[h].of.expects.subject, version |-> view[h].version,
             at |-> view[h].at] :
              h \in {g \in Handlers : /\ pc[g] \in {"received", "locked"}
                                      /\ request[g].of.scope = "ADMISSION"
                                      /\ request[g].of.expects # NoExpectation}}

\* Who looked later, saw no less.
SightInv ==
    /\ \A x \in Sights \cup Decisions :
          x \in [subject : Subjects, version : Int, at : Int]
            /\ x.version <= source[x.subject] /\ x.at <= now
    /\ \A x \in Sights, d \in Decisions :
          x.subject = d.subject /\ x.at > d.at => x.version >= d.version

\* What was told is on record still.
ToldOK(t) ==
    /\ Stored(t.request) # NoReceipt
    /\ t.onRecord = "RECEIPT" => Stored(t.request).request = t.request
    /\ t.onRecord = "CONFLICT" =>
          Stored(t.request).request # t.request /\ t.request \in conflicts

ToldInv == \A t \in told : ToldOK(t)

IInv == TypeOK /\ StoreInv /\ HandlerInv /\ OneHolder /\ SightInv /\ ToldInv

-----------------------------------------------------------------------------
\* What templates hold, by their scope.
LEMMA TemplateFacts ==
    ASSUME NEW t \in Templates
    PROVE  /\ t.scope \in Scopes /\ t.key \in Keys
           /\ t.scope = "READBACK" => t.subject \in Subjects
           /\ t.scope = "ADMISSION" =>
                /\ t.evidence \in SUBSET Keys
                /\ t.expects # NoExpectation => t.expects.subject \in Subjects
           /\ t.scope = "OUTCOME" => t.readback \in Keys
<1>1. t \in ReadbackTemplate \cup AdmissionTemplate \cup OutcomeTemplate
  BY TemplateAssumption
<1>2. CASE t \in ReadbackTemplate
  BY <1>2 DEF ReadbackTemplate, Scopes
<1>3. CASE t \in AdmissionTemplate
  <2>1. t.scope = "ADMISSION" /\ t.key \in Keys /\ t.evidence \in SUBSET Keys
    BY <1>3 DEF AdmissionTemplate
  <2>2. t.expects \in Expectations
    BY <1>3 DEF AdmissionTemplate
  <2>3. t.expects # NoExpectation => t.expects.subject \in Subjects
    BY <2>2 DEF Expectations, Expectation, NoExpectation
  <2> QED BY <2>1, <2>3 DEF Scopes
<1>4. CASE t \in OutcomeTemplate
  BY <1>4 DEF OutcomeTemplate, Scopes
<1> QED BY <1>1, <1>2, <1>3, <1>4

LEMMA RequestFacts ==
    ASSUME NEW r \in Request
    PROVE  /\ r.at \in Int /\ r.of \in Templates
           /\ r.of.scope \in Scopes /\ r.of.key \in Keys
           /\ r # NoRequest
<1>1. r.at \in Int /\ r.of \in Templates
  BY DEF Request
<1>2. r.of.scope \in Scopes /\ r.of.key \in Keys
  BY <1>1, TemplateFacts
<1>3. r.of.scope # NoRequest.of.scope
  BY <1>2 DEF NoRequest, Scopes, None
<1> QED BY <1>1, <1>2, <1>3

LEMMA NumberFacts ==
    /\ MaxTime \in Nat /\ Times = 0 .. MaxTime /\ Times \subseteq Int /\ 0 \in Times
    /\ MaxVersion \in Nat /\ Versions = 0 .. MaxVersion /\ Versions \subseteq Int
    /\ 0 \in Versions /\ Window \in Int /\ Tolerance \in Int
BY BoundAssumption, PolicyAssumption DEF Times, Versions

\* Nothing on record is the empty place.
LEMMA EmptyIsNoReceipt ==
    NoReceipt \notin ReadbackReceipt \cup AdmissionReceipt \cup OutcomeReceipt
<1>1. NoReceipt.request \notin Request
  BY RequestFacts DEF NoReceipt
<1> QED BY <1>1 DEF ReadbackReceipt, AdmissionReceipt, OutcomeReceipt

LEMMA ReadbackFacts ==
    ASSUME TypeOK, NEW k \in Keys, Receipt("READBACK", k) # NoReceipt
    PROVE  /\ Receipt("READBACK", k) \in ReadbackReceipt
           /\ Receipt("READBACK", k) \in Recorded("READBACK")
           /\ Receipt("READBACK", k).request \in Request
           /\ Receipt("READBACK", k).observedAt \in Int
           /\ Receipt("READBACK", k).readAt \in Int
           /\ Receipt("READBACK", k).version \in Versions
<1>1. Receipt("READBACK", k) \in ReadbackReceipt
  BY DEF TypeOK, Receipt
<1>2. Receipt("READBACK", k) \in Recorded("READBACK")
  BY DEF Recorded
<1> QED BY <1>1, <1>2, NumberFacts DEF ReadbackReceipt

LEMMA AdmissionFacts ==
    ASSUME TypeOK, NEW a \in Recorded("ADMISSION")
    PROVE  /\ a \in AdmissionReceipt
           /\ a.request \in Request /\ a.decidedAt \in Int /\ a.shown \in Versions
           /\ a.consumed \in SUBSET Keys
           /\ \E k \in Keys : a = Receipt("ADMISSION", k) /\ a # NoReceipt
<1>1. PICK k \in Keys : a = Receipt("ADMISSION", k) /\ a # NoReceipt
  BY DEF Recorded
<1>2. a \in AdmissionReceipt
  BY <1>1 DEF TypeOK, Receipt
<1> QED BY <1>1, <1>2, NumberFacts DEF AdmissionReceipt

LEMMA OutcomeFacts ==
    ASSUME TypeOK, NEW k \in Keys, Receipt("OUTCOME", k) # NoReceipt
    PROVE  /\ Receipt("OUTCOME", k) \in OutcomeReceipt
           /\ Receipt("OUTCOME", k).request \in Request
<1>1. Receipt("OUTCOME", k) \in OutcomeReceipt
  BY DEF TypeOK, Receipt
<1> QED BY <1>1 DEF OutcomeReceipt

-----------------------------------------------------------------------------
LEMMA InitHolds == Init => IInv
<1> SUFFICES ASSUME Init PROVE IInv
  OBVIOUS
<1>1. \A s \in Scopes, k \in Keys : Receipt(s, k) = NoReceipt
  BY DEF Init, Receipt
<1>2. {"READBACK", "ADMISSION", "OUTCOME"} = Scopes
  BY DEF Scopes
<1>3. \A s \in Scopes : Recorded(s) = {}
  BY <1>1 DEF Recorded
<1>4. TypeOK
  <2>1. /\ receipts["READBACK"] \in [Keys -> ReadbackReceipt \cup {NoReceipt}]
        /\ receipts["ADMISSION"] \in [Keys -> AdmissionReceipt \cup {NoReceipt}]
        /\ receipts["OUTCOME"] \in [Keys -> OutcomeReceipt \cup {NoReceipt}]
        /\ DOMAIN receipts = Scopes
    BY <1>2 DEF Init
  <2>2. source \in [Subjects -> Versions] /\ now \in Times
    BY BoundAssumption, NumberFacts DEF Init
  <2>3. NoView \in View
    BY NumberFacts DEF NoView, View
  <2>4. /\ pc \in [Handlers -> Phases] /\ request \in [Handlers -> Request \cup {NoRequest}]
        /\ found \in [Handlers -> SUBSET Keys] /\ stamp \in [Handlers -> Times]
        /\ view \in [Handlers -> View]
    BY <2>3, NumberFacts DEF Init, Phases
  <2> QED BY <2>1, <2>2, <2>4 DEF Init, TypeOK
<1>5. StoreInv
  BY <1>1, <1>2, <1>3 DEF StoreInv, ReadbackOK, AdmissionOK, OutcomeOK, OneAdmission
<1>6. HandlerInv /\ OneHolder
  BY DEF Init, HandlerInv, HandlerOK, OneHolder
<1>7. SightInv
  <2>1. Sights = {} /\ Decisions = {}
    BY <1>2, <1>3 DEF Init, Sights, Decisions
  <2> QED BY <2>1 DEF SightInv
<1>8. ToldInv
  BY DEF Init, ToldInv
<1> QED BY <1>4, <1>5, <1>6, <1>7, <1>8 DEF IInv

-----------------------------------------------------------------------------
\* No receipt is taken away or changed.
Grows ==
    \A s \in Scopes, k \in Keys : Receipt(s, k) # NoReceipt => Receipt(s, k)' = Receipt(s, k)

\* The tables with one more receipt.
With(s, k, x) == [receipts EXCEPT ![s][k] = x]

LEMMA AppendFacts ==
    ASSUME TypeOK, NEW s \in Scopes, NEW k \in Keys, NEW x,
           Receipt(s, k) = NoReceipt, receipts' = With(s, k, x)
    PROVE  /\ DOMAIN receipts' = Scopes
           /\ receipts'[s] = [receipts[s] EXCEPT ![k] = x]
           /\ \A z \in Scopes \ {s} : receipts'[z] = receipts[z]
           /\ receipts'[s][k] = x
           /\ \A z \in Scopes, j \in Keys : z # s \/ j # k => receipts'[z][j] = receipts[z][j]
           /\ Grows
<1> DEFINE new == [receipts[s] EXCEPT ![k] = x]
<1>1. receipts' = [receipts EXCEPT ![s] = new]
  BY DEF With
<1>2. DOMAIN receipts[s] = Keys /\ DOMAIN receipts = Scopes
  BY DEF TypeOK, Scopes
<1>3. new[k] = x /\ \A j \in Keys \ {k} : new[j] = receipts[s][j]
  BY <1>2
<1> HIDE DEF new
<1>4. DOMAIN receipts' = Scopes /\ receipts'[s] = new
      /\ \A z \in Scopes \ {s} : receipts'[z] = receipts[z]
  BY <1>1, <1>2
<1>5. /\ receipts'[s][k] = x
      /\ \A z \in Scopes, j \in Keys : z # s \/ j # k => receipts'[z][j] = receipts[z][j]
  BY <1>3, <1>4
<1>6. Grows
  BY <1>5 DEF Grows, Receipt
<1> QED BY <1>4, <1>5, <1>6 DEF new

LEMMA ScopeNames == {"READBACK", "ADMISSION", "OUTCOME"} = Scopes
BY DEF Scopes

\* What was verified stays verified while receipts are only added.
LEMMA GrowthFacts ==
    ASSUME Grows
    PROVE  /\ \A s \in Scopes : Recorded(s) \subseteq Recorded(s)'
           /\ \A a : VerifiesAdmission(a) => VerifiesAdmission(a)'
           /\ \A o, a, e : VerifiesWith(o, a, e) => VerifiesWith(o, a, e)'
           /\ \A p : AdmissionsOf(p) \subseteq AdmissionsOf(p)'
<1>1. ASSUME NEW s \in Scopes PROVE Recorded(s) \subseteq Recorded(s)'
  BY DEF Grows, Recorded
<1>2. ASSUME NEW a, VerifiesAdmission(a) PROVE VerifiesAdmission(a)'
  <2>1. Recorded("READBACK") \subseteq Recorded("READBACK")'
    BY <1>1, ScopeNames
  <2> QED BY <1>2, <2>1 DEF VerifiesAdmission
<1>3. ASSUME NEW o, NEW a, NEW e, VerifiesWith(o, a, e) PROVE VerifiesWith(o, a, e)'
  BY <1>2, <1>3 DEF VerifiesWith
<1>4. ASSUME NEW p PROVE AdmissionsOf(p) \subseteq AdmissionsOf(p)'
  BY <1>1, ScopeNames DEF AdmissionsOf
<1> QED BY <1>1, <1>2, <1>3, <1>4

\* A receipt on record stays in order.
LEMMA OldStands ==
    ASSUME IInv, Grows, now <= now', now' \in Int, NEW k \in Keys
    PROVE  /\ Receipt("READBACK", k) # NoReceipt => ReadbackOK(k)'
           /\ Receipt("ADMISSION", k) # NoReceipt => AdmissionOK(k)'
           /\ Receipt("OUTCOME", k) # NoReceipt => OutcomeOK(k)'
<1> USE DEF IInv
<1>1. ASSUME NEW s \in Scopes, NEW j \in Keys, Receipt(s, j) # NoReceipt
      PROVE  Receipt(s, j)' = Receipt(s, j)
  BY <1>1 DEF Grows
<1>2. ASSUME Receipt("READBACK", k) # NoReceipt PROVE ReadbackOK(k)'
  <2>1. Receipt("READBACK", k)' = Receipt("READBACK", k)
    BY <1>1, <1>2, ScopeNames
  <2>2. Receipt("READBACK", k).readAt \in Int /\ now \in Int
    BY <1>2, ReadbackFacts, NumberFacts DEF TypeOK
  <2> QED BY <1>2, <2>1, <2>2 DEF StoreInv, ReadbackOK
<1>3. ASSUME Receipt("ADMISSION", k) # NoReceipt PROVE AdmissionOK(k)'
  <2> DEFINE a == Receipt("ADMISSION", k)
  <2>1. a' = a
    BY <1>1, <1>3, ScopeNames
  <2>2. AdmissionOK(k)
    BY DEF StoreInv
  <2>3. a \in Recorded("ADMISSION")
    BY <1>3 DEF Recorded
  <2>4. a.consumed \subseteq Keys
    BY <2>3, AdmissionFacts
  <2>5. \A j \in a.consumed : Receipt("READBACK", j)' = Receipt("READBACK", j)
    BY <1>1, <1>3, <2>2, <2>4, ScopeNames DEF AdmissionOK
  <2>6. VerifiesAdmission(a)'
    <3>1. PICK b : b = a
      OBVIOUS
    <3>2. VerifiesAdmission(b)'
      BY <1>3, <2>2, <3>1, GrowthFacts DEF AdmissionOK
    <3> QED BY <2>1, <3>1, <3>2 DEF VerifiesAdmission, Recorded, Receipt
  <2> QED BY <1>3, <2>1, <2>2, <2>5, <2>6 DEF AdmissionOK
<1>4. ASSUME Receipt("OUTCOME", k) # NoReceipt PROVE OutcomeOK(k)'
  <2>1. PICK o : o = Receipt("OUTCOME", k)
    OBVIOUS
  <2>2. Receipt("OUTCOME", k)' = o
    BY <1>1, <1>4, <2>1, ScopeNames
  <2>3. PICK e : e = Receipt("READBACK", o.request.of.readback)
    OBVIOUS
  <2>4. /\ o.request.of.scope = "OUTCOME" /\ o.request.of.key = k /\ e # NoReceipt
        /\ \E a \in AdmissionsOf(o.request.of.operation) :
              a.status # "DENIED" /\ VerifiesWith(o, a, e)
    BY <1>4, <2>1, <2>3 DEF StoreInv, OutcomeOK
  <2>5. o.request.of.readback \in Keys
    <3>1. o.request \in Request
      BY <1>4, <2>1, OutcomeFacts
    <3> QED BY <2>4, <3>1, RequestFacts, TemplateFacts
  <2>6. Receipt("READBACK", o.request.of.readback)' = e
    BY <1>1, <2>2, <2>3, <2>4, <2>5, ScopeNames
  <2>7. \E a \in AdmissionsOf(o.request.of.operation)' :
           a.status # "DENIED" /\ VerifiesWith(o, a, e)'
    BY <2>4, GrowthFacts
  <2> QED BY <1>4, <2>2, <2>4, <2>6, <2>7 DEF OutcomeOK
<1> QED BY <1>2, <1>3, <1>4

LEMMA StoreStays ==
    ASSUME IInv, UNCHANGED receipts, now <= now', now' \in Int
    PROVE  StoreInv' /\ Grows
<1>1. Grows
  BY DEF Grows, Receipt
<1>2. \A s, k : Receipt(s, k)' = Receipt(s, k)
  BY DEF Receipt
<1>3. \A k \in Keys : ReadbackOK(k)' /\ AdmissionOK(k)' /\ OutcomeOK(k)'
  <2> SUFFICES ASSUME NEW k \in Keys PROVE ReadbackOK(k)' /\ AdmissionOK(k)' /\ OutcomeOK(k)'
    OBVIOUS
  <2>1. Receipt("READBACK", k) = NoReceipt => ReadbackOK(k)'
    BY <1>2 DEF ReadbackOK
  <2>2. Receipt("ADMISSION", k) = NoReceipt => AdmissionOK(k)'
    BY <1>2 DEF AdmissionOK
  <2>3. Receipt("OUTCOME", k) = NoReceipt => OutcomeOK(k)'
    BY <1>2 DEF OutcomeOK
  <2> QED BY <1>1, <2>1, <2>2, <2>3, OldStands
<1>4. OneAdmission'
  BY <1>2 DEF IInv, StoreInv, OneAdmission, Recorded
<1> QED BY <1>1, <1>3, <1>4 DEF StoreInv

-----------------------------------------------------------------------------
\* A request that does not move keeps what it knows.
LEMMA HandlerStands ==
    ASSUME IInv, Grows, now <= now', now' \in Int, NEW g \in Handlers,
           pc'[g] = pc[g], request'[g] = request[g], found'[g] = found[g],
           stamp'[g] = stamp[g], view'[g] = view[g],
           pc[g] = "locked" => receipts'[request[g].of.scope][request[g].of.key] = NoReceipt
    PROVE  HandlerOK(g)'
<1> USE DEF IInv
<1>1. HandlerOK(g) /\ found[g] \subseteq Keys /\ stamp[g] \in Int /\ now \in Int
  BY NumberFacts DEF HandlerInv, TypeOK
<1>2. \A k \in found[g] : Receipt("READBACK", k)' = Receipt("READBACK", k)
  BY <1>1, ScopeNames DEF HandlerOK, Grows
<1>3. \A k \in found'[g] :
         Receipt("READBACK", k)' # NoReceipt /\ Receipt("READBACK", k)'.readAt < stamp'[g]
  BY <1>1, <1>2 DEF HandlerOK
<1>4. pc'[g] # "idle" => request'[g] \in Request /\ stamp'[g] <= now'
  BY <1>1 DEF HandlerOK
<1>5. pc'[g] = "locked" => Stored(request[g])' = NoReceipt
  BY DEF Stored, Receipt
<1> QED BY <1>1, <1>3, <1>4, <1>5 DEF HandlerOK, Stored, Receipt

\* A request ends.
LEMMA FinishKeeps ==
    ASSUME IInv, NEW h \in Handlers, NEW a, Finish(h, a),
           Grows, now <= now', now' \in Int,
           \A g \in Handlers \ {h} : pc[g] = "locked" =>
               receipts'[request[g].of.scope][request[g].of.key] = NoReceipt
    PROVE  /\ HandlerInv' /\ OneHolder'
           /\ pc' \in [Handlers -> Phases] /\ request' \in [Handlers -> Request \cup {NoRequest}]
           /\ found' \in [Handlers -> SUBSET Keys] /\ stamp' \in [Handlers -> Times]
           /\ view' \in [Handlers -> View]
           /\ pc'[h] = "idle"
           /\ \A g \in Handlers \ {h} :
                 pc'[g] = pc[g] /\ request'[g] = request[g] /\ view'[g] = view[g]
<1> USE DEF IInv
<1>1. /\ pc'[h] = "idle" /\ found'[h] = {}
      /\ \A g \in Handlers \ {h} :
            /\ pc'[g] = pc[g] /\ request'[g] = request[g] /\ found'[g] = found[g]
            /\ stamp'[g] = stamp[g] /\ view'[g] = view[g]
  BY DEF Finish, TypeOK
<1>2. NoView \in View /\ 0 \in Times
  BY NumberFacts DEF NoView, View
<1>3. /\ pc' \in [Handlers -> Phases] /\ request' \in [Handlers -> Request \cup {NoRequest}]
      /\ found' \in [Handlers -> SUBSET Keys] /\ stamp' \in [Handlers -> Times]
      /\ view' \in [Handlers -> View]
  BY <1>2 DEF Finish, TypeOK, Phases
<1>4. HandlerInv'
  <2>1. HandlerOK(h)'
    BY <1>1 DEF HandlerOK
  <2>2. \A g \in Handlers \ {h} : HandlerOK(g)'
    BY <1>1, HandlerStands
  <2> QED BY <2>1, <2>2 DEF HandlerInv
<1>5. OneHolder'
  BY <1>1 DEF OneHolder
<1> QED BY <1>1, <1>3, <1>4, <1>5

\* Later looks see the present version.
LEMMA SightStep ==
    ASSUME IInv, now <= now', now' \in Int,
           source' \in [Subjects -> Versions],
           \A s \in Subjects : source[s] <= source'[s],
           \A x \in Sights' : x \in Sights \/
               (/\ x \in [subject : Subjects, version : Int, at : Int]
                /\ x.at = now /\ x.version = source[x.subject]),
           \A x \in Decisions' : x \in Decisions \/
               (/\ x \in [subject : Subjects, version : Int, at : Int]
                /\ x.at = now /\ x.version = source[x.subject])
    PROVE  SightInv'
<1> USE DEF IInv
<1> HIDE DEF Sights, Decisions
<1>1. now \in Int /\ source \in [Subjects -> Int] /\ source' \in [Subjects -> Int]
  BY NumberFacts DEF TypeOK
<1>2. ASSUME NEW x \in Sights' \cup Decisions'
      PROVE  /\ x \in [subject : Subjects, version : Int, at : Int]
             /\ x.version <= source'[x.subject] /\ x.at <= now'
  <2>1. /\ x \in [subject : Subjects, version : Int, at : Int]
        /\ x.version <= source[x.subject] /\ x.at <= now
    BY <1>1, <1>2 DEF SightInv
  <2>2. x.subject \in Subjects /\ x.version \in Int /\ x.at \in Int
    BY <2>1
  <2>3. source[x.subject] <= source'[x.subject]
    BY <2>2
  <2> QED BY <1>1, <2>1, <2>2, <2>3
<1>3. ASSUME NEW x \in Sights', NEW d \in Decisions', x.subject = d.subject, x.at > d.at
      PROVE  x.version >= d.version
  <2>1. /\ x.subject \in Subjects /\ x.version \in Int /\ x.at \in Int
        /\ d.version \in Int /\ d.at \in Int
    BY <1>2
  <2>2. CASE x \in Sights /\ d \in Decisions
    BY <1>3, <2>2 DEF SightInv
  <2>3. CASE x \in Sights /\ d \notin Decisions
    <3>1. x.at <= now /\ d.at = now
      BY <2>3 DEF SightInv
    <3> QED BY <1>1, <1>3, <2>1, <3>1
  <2>4. CASE x \notin Sights /\ d \in Decisions
    <3>1. d.version <= source[d.subject] /\ x.version = source[x.subject]
      BY <2>4 DEF SightInv
    <3> QED BY <1>1, <1>3, <2>1, <3>1
  <2>5. CASE x \notin Sights /\ d \notin Decisions
    <3>1. x.at = now /\ d.at = now
      BY <2>5
    <3> QED BY <1>1, <1>3, <3>1
  <2> QED BY <2>2, <2>3, <2>4, <2>5
<1> QED BY <1>2, <1>3 DEF SightInv

\* While receipts and conflicts are only added, what was told stands.
LEMMA ToldStands ==
    ASSUME IInv, Grows, conflicts \subseteq conflicts', NEW t \in told
    PROVE  ToldOK(t)'
<1>1. /\ t.request \in Request /\ ToldOK(t)
  BY DEF IInv, TypeOK, Telling, ToldInv
<1>2. t.request.of.scope \in Scopes /\ t.request.of.key \in Keys
  BY <1>1, RequestFacts
<1>3. Stored(t.request)' = Stored(t.request)
  BY <1>1, <1>2 DEF ToldOK, Stored, Grows, Receipt
<1> QED BY <1>1, <1>3 DEF ToldOK

LEMMA SilenceKeeps ==
    ASSUME IInv, Grows, conflicts \subseteq conflicts', told' = told
    PROVE  ToldInv'
BY ToldStands DEF ToldInv

\* An answer adds at most what it says.
LEMMA TellFacts ==
    ASSUME TypeOK, NEW r \in Request, NEW a, Tell(r, a)
    PROVE  /\ told' \subseteq Telling
           /\ \A t \in told' : t \in told \/ \E x \in Says(a) : t = [request |-> r, onRecord |-> x]
<1>1. Says(a) \subseteq {"RECEIPT", "CONFLICT"}
  BY DEF Says
<1>2. CASE told' = told
  BY <1>2 DEF TypeOK
<1>3. ASSUME NEW x \in Says(a), told' = told \cup {[request |-> r, onRecord |-> x]}
      PROVE  /\ told' \subseteq Telling
             /\ \A t \in told' : t \in told \/ t = [request |-> r, onRecord |-> x]
  <2>1. [request |-> r, onRecord |-> x] \in Telling
    BY <1>1 DEF Telling
  <2> QED BY <1>3, <2>1 DEF TypeOK
<1> QED BY <1>2, <1>3 DEF Tell

\* What an answer says is on record when it is given, so what was told stands.
LEMMA ToldGrows ==
    ASSUME IInv, Grows, conflicts \subseteq conflicts', NEW r, NEW a,
           \A t \in told' : t \in told \/ \E x \in Says(a) : t = [request |-> r, onRecord |-> x],
           Says(a) # {} => Stored(r)' # NoReceipt,
           "RECEIPT" \in Says(a) => Stored(r)'.request = r,
           "CONFLICT" \in Says(a) => Stored(r)'.request # r /\ r \in conflicts'
    PROVE  ToldInv'
<1>1. ASSUME NEW t \in told', t \notin told PROVE ToldOK(t)'
  <2>1. PICK x \in Says(a) : t = [request |-> r, onRecord |-> x]
    BY <1>1
  <2>2. t.request = r /\ t.onRecord = x
    BY <2>1
  <2>3. Stored(t.request)' = Stored(r)'
    BY <2>2 DEF Stored, Receipt
  <2> QED BY <2>1, <2>2, <2>3 DEF ToldOK
<1> QED BY <1>1, ToldStands DEF ToldInv

\* A request ends and writes no receipt.
LEMMA Ends ==
    ASSUME IInv, NEW h \in Handlers, pc[h] # "idle", NEW a,
           Finish(h, a), UNCHANGED <<now, source, receipts>>, conflicts' \subseteq Request
    PROVE  /\ TypeOK' /\ StoreInv' /\ HandlerInv' /\ OneHolder' /\ SightInv'
           /\ request[h] \in Request /\ Grows
           /\ \A t \in told' :
                 t \in told \/ \E x \in Says(a) : t = [request |-> request[h], onRecord |-> x]
<1> USE DEF IInv
<1>1. now \in Int /\ now <= now' /\ request[h] \in Request
  BY NumberFacts DEF TypeOK, HandlerInv, HandlerOK
<1>2. StoreInv' /\ Grows
  BY <1>1, StoreStays
<1>3. \A g \in Handlers \ {h} : pc[g] = "locked" =>
         receipts'[request[g].of.scope][request[g].of.key] = NoReceipt
  BY <1>1 DEF HandlerInv, HandlerOK, Stored, Receipt
<1>4. /\ HandlerInv' /\ OneHolder'
      /\ pc' \in [Handlers -> Phases] /\ request' \in [Handlers -> Request \cup {NoRequest}]
      /\ found' \in [Handlers -> SUBSET Keys] /\ stamp' \in [Handlers -> Times]
      /\ view' \in [Handlers -> View]
      /\ pc'[h] = "idle"
      /\ \A g \in Handlers \ {h} :
            pc'[g] = pc[g] /\ request'[g] = request[g] /\ view'[g] = view[g]
  BY <1>1, <1>2, <1>3, FinishKeeps
<1>5. /\ told' \subseteq Telling
      /\ \A t \in told' :
            t \in told \/ \E x \in Says(a) : t = [request |-> request[h], onRecord |-> x]
  BY <1>1, TellFacts DEF Finish
<1>6. TypeOK'
  BY <1>1, <1>4, <1>5 DEF TypeOK
<1>7. Sights' \subseteq Sights /\ Decisions' \subseteq Decisions
  BY <1>1, <1>4 DEF Sights, Decisions, Recorded, Receipt
<1>8. SightInv'
  <2>1. source' \in [Subjects -> Versions] /\ \A s \in Subjects : source[s] <= source'[s]
    BY <1>1, NumberFacts DEF TypeOK
  <2> QED BY <1>1, <1>7, <2>1, SightStep
<1> QED BY <1>1, <1>2, <1>4, <1>5, <1>6, <1>8

LEMMA EndsSilently ==
    ASSUME IInv, NEW h \in Handlers, pc[h] # "idle", NEW a, Says(a) = {},
           Finish(h, a), UNCHANGED <<now, rows>>
    PROVE  IInv'
<1>1. conflicts' \subseteq Request /\ UNCHANGED <<now, source, receipts, conflicts>>
  BY DEF rows, IInv, TypeOK
<1>3. /\ TypeOK' /\ StoreInv' /\ HandlerInv' /\ OneHolder' /\ SightInv'
      /\ Grows
      /\ \A t \in told' :
            t \in told \/ \E x \in Says(a) : t = [request |-> request[h], onRecord |-> x]
  BY <1>1, Ends
<1> QED BY <1>1, <1>3, ToldGrows DEF IInv

-----------------------------------------------------------------------------
\* A retry is told of what it finds: its own request, verified if an outcome.
LEMMA ReplayKeeps ==
    ASSUME IInv, NEW h \in Handlers, Replay(h)
    PROVE  IInv'
<1>1. /\ pc[h] # "idle" /\ Finish(h, "REPLAYED")
      /\ Existing(h) # NoReceipt /\ SameRequest(h) /\ Persisted(Existing(h))
      /\ UNCHANGED <<now, source, receipts, conflicts>>
  BY DEF Replay, rows
<1>2. conflicts' \subseteq Request
  BY <1>1 DEF IInv, TypeOK
<1>3. /\ TypeOK' /\ StoreInv' /\ HandlerInv' /\ OneHolder' /\ SightInv'
      /\ request[h] \in Request /\ Grows
      /\ \A t \in told' :
            \/ t \in told
            \/ \E x \in Says("REPLAYED") : t = [request |-> request[h], onRecord |-> x]
  BY <1>1, <1>2, Ends
<1>4. ToldInv'
  <2>1. Says("REPLAYED") = {"RECEIPT"}
    BY DEF Says
  <2>2. PICK r : r = request[h]
    OBVIOUS
  <2>3. Stored(r)' = Stored(r) /\ Stored(r) = Existing(h) /\ Stored(r).request = r
    BY <1>1, <2>2 DEF Stored, Receipt, Existing, SameRequest
  <2> QED BY <1>1, <1>3, <2>1, <2>2, <2>3, ToldGrows
<1> QED BY <1>3, <1>4 DEF IInv

LEMMA KeyConflictKeeps ==
    ASSUME IInv, NEW h \in Handlers, KeyConflict(h)
    PROVE  IInv'
<1>1. /\ pc[h] # "idle" /\ Existing(h) # NoReceipt /\ ~ SameRequest(h)
      /\ UNCHANGED <<now, source, receipts>>
  BY DEF KeyConflict
<1>2. PICK a : /\ Finish(h, a) /\ a \in {"CONFLICT", "ERROR", "DUPLICATE"}
               /\ a = "CONFLICT" => conflicts' = conflicts \cup {request[h]}
  BY DEF KeyConflict
<1>3. conflicts' \subseteq Request
  <2>1. request[h] \in Request
    BY <1>1 DEF IInv, HandlerInv, HandlerOK
  <2> QED BY <2>1 DEF KeyConflict, IInv, TypeOK
<1>4. /\ TypeOK' /\ StoreInv' /\ HandlerInv' /\ OneHolder' /\ SightInv' /\ Grows
      /\ \A t \in told' :
            t \in told \/ \E x \in Says(a) : t = [request |-> request[h], onRecord |-> x]
  BY <1>1, <1>2, <1>3, Ends
<1>5. ToldInv'
  <2>1. /\ "RECEIPT" \notin Says(a)
        /\ "CONFLICT" \in Says(a) => a = "CONFLICT"
    BY <1>2 DEF Says
  <2>2. PICK r : r = request[h]
    OBVIOUS
  <2>3. Stored(r)' # NoReceipt /\ Stored(r)'.request # r
    BY <1>1, <2>2 DEF Stored, Receipt, Existing, SameRequest
  <2>4. conflicts \subseteq conflicts'
    BY DEF KeyConflict
  <2> QED BY <1>2, <1>4, <2>1, <2>2, <2>3, <2>4, ToldGrows
<1> QED BY <1>4, <1>5 DEF IInv

-----------------------------------------------------------------------------
\* What an insertion does, whatever the receipt.
LEMMA InsertFacts ==
    ASSUME IInv, NEW h \in Handlers, NEW s \in Scopes, NEW k \in Keys, NEW x,
           pc[h] = "locked", s = request[h].of.scope, k = request[h].of.key,
           x.request = request[h],
           s = "READBACK" => x \in ReadbackReceipt,
           s = "ADMISSION" => x \in AdmissionReceipt,
           s = "OUTCOME" => x \in OutcomeReceipt,
           Insert(h, x), now <= now', now' \in Times
    PROVE  /\ Grows /\ TypeOK' /\ HandlerInv' /\ OneHolder'
           /\ Receipt(s, k) = NoReceipt /\ Receipt(s, k)' = x /\ x # NoReceipt
           /\ \A z \in Scopes, j \in Keys : z # s \/ j # k => Receipt(z, j)' = Receipt(z, j)
           /\ Recorded(s)' = Recorded(s) \cup {x}
           /\ \A z \in Scopes \ {s} : Recorded(z)' = Recorded(z)
           /\ pc'[h] = "idle"
           /\ \A g \in Handlers \ {h} :
                 pc'[g] = pc[g] /\ request'[g] = request[g] /\ view'[g] = view[g]
           /\ UNCHANGED <<source, conflicts>>
           /\ \A t \in told' : t \in told \/ t = [request |-> request[h], onRecord |-> "RECEIPT"]
<1> USE DEF IInv
<1>1. now' \in Int
  BY NumberFacts
<1>2. Receipt(s, k) = NoReceipt
  BY DEF HandlerInv, HandlerOK, Stored
<1>3. receipts' = With(s, k, x) /\ UNCHANGED <<source, conflicts>>
  BY DEF Insert, With
<1>4. /\ DOMAIN receipts' = Scopes
      /\ receipts'[s] = [receipts[s] EXCEPT ![k] = x]
      /\ \A z \in Scopes \ {s} : receipts'[z] = receipts[z]
      /\ receipts'[s][k] = x
      /\ \A z \in Scopes, j \in Keys : z # s \/ j # k => receipts'[z][j] = receipts[z][j]
      /\ Grows
  BY <1>2, <1>3, AppendFacts
<1>5. x # NoReceipt
  BY ScopeNames, EmptyIsNoReceipt
<1>6. PICK a : a \in {"RECORDED", "ERROR"} /\ Finish(h, a)
  BY DEF Insert
<1>7. \A g \in Handlers \ {h} : pc[g] = "locked" =>
         receipts'[request[g].of.scope][request[g].of.key] = NoReceipt
  <2> SUFFICES ASSUME NEW g \in Handlers \ {h}, pc[g] = "locked"
               PROVE  receipts'[request[g].of.scope][request[g].of.key] = NoReceipt
    OBVIOUS
  <2>1. request[g] \in Request /\ Stored(request[g]) = NoReceipt
    BY DEF HandlerInv, HandlerOK
  <2>2. request[g].of.scope \in Scopes /\ request[g].of.key \in Keys
    BY <2>1, RequestFacts
  <2>3. request[g].of.scope # s \/ request[g].of.key # k
    BY DEF OneHolder
  <2> QED BY <1>4, <2>1, <2>2, <2>3 DEF Stored, Receipt
<1>8. /\ HandlerInv' /\ OneHolder'
      /\ pc' \in [Handlers -> Phases] /\ request' \in [Handlers -> Request \cup {NoRequest}]
      /\ found' \in [Handlers -> SUBSET Keys] /\ stamp' \in [Handlers -> Times]
      /\ view' \in [Handlers -> View]
      /\ pc'[h] = "idle"
      /\ \A g \in Handlers \ {h} :
            pc'[g] = pc[g] /\ request'[g] = request[g] /\ view'[g] = view[g]
  BY <1>1, <1>4, <1>6, <1>7, FinishKeeps
<1>9. request[h] \in Request
  BY DEF HandlerInv, HandlerOK
<1>10. /\ told' \subseteq Telling
       /\ \A t \in told' : t \in told \/ t = [request |-> request[h], onRecord |-> "RECEIPT"]
  <2>1. Says(a) \subseteq {"RECEIPT"}
    BY <1>6 DEF Says
  <2>2. /\ told' \subseteq Telling
        /\ \A t \in told' :
              t \in told \/ \E y \in Says(a) : t = [request |-> request[h], onRecord |-> y]
    BY <1>6, <1>9, TellFacts DEF Finish
  <2> QED BY <2>1, <2>2
<1>11. /\ receipts'["READBACK"] \in [Keys -> ReadbackReceipt \cup {NoReceipt}]
       /\ receipts'["ADMISSION"] \in [Keys -> AdmissionReceipt \cup {NoReceipt}]
       /\ receipts'["OUTCOME"] \in [Keys -> OutcomeReceipt \cup {NoReceipt}]
  <2>1. CASE s = "READBACK"
    BY <1>4, <2>1, ScopeNames DEF TypeOK
  <2>2. CASE s = "ADMISSION"
    BY <1>4, <2>2, ScopeNames DEF TypeOK
  <2>3. CASE s = "OUTCOME"
    BY <1>4, <2>3, ScopeNames DEF TypeOK
  <2> QED BY <2>1, <2>2, <2>3, ScopeNames
<1>12. TypeOK'
  BY <1>3, <1>4, <1>8, <1>10, <1>11 DEF TypeOK
<1>13. /\ Receipt(s, k)' = x
       /\ \A z \in Scopes, j \in Keys : z # s \/ j # k => Receipt(z, j)' = Receipt(z, j)
  BY <1>4 DEF Receipt
<1>14. Recorded(s)' = Recorded(s) \cup {x}
  <2>1. \A y \in Recorded(s)' : y \in Recorded(s) \cup {x}
    BY <1>13 DEF Recorded
  <2>2. \A y \in Recorded(s) : y \in Recorded(s)'
    BY <1>4, GrowthFacts
  <2>3. x \in Recorded(s)'
    BY <1>5, <1>13 DEF Recorded
  <2> QED BY <2>1, <2>2, <2>3
<1>15. \A z \in Scopes \ {s} : Recorded(z)' = Recorded(z)
  BY <1>13 DEF Recorded
<1> QED BY <1>2, <1>3, <1>4, <1>5, <1>8, <1>10, <1>12, <1>13, <1>14, <1>15

\* The answer to an insertion stands, for the receipt is there.
LEMMA InsertTells ==
    ASSUME IInv, Grows, UNCHANGED conflicts, NEW r \in Request, NEW x, x.request = r,
           Receipt(r.of.scope, r.of.key)' = x, x # NoReceipt,
           \A t \in told' : t \in told \/ t = [request |-> r, onRecord |-> "RECEIPT"]
    PROVE  ToldInv'
<1>1. Stored(r)' = x
  BY DEF Stored
<1>2. Says("RECORDED") = {"RECEIPT"}
  BY DEF Says
<1>3. \A t \in told' :
         t \in told \/ \E y \in Says("RECORDED") : t = [request |-> r, onRecord |-> y]
  BY <1>2
<1> QED BY <1>1, <1>2, <1>3, ToldGrows

\* The receipts beside the new one stay in order.
LEMMA OthersStand ==
    ASSUME IInv, Grows, now <= now', now' \in Int, NEW s \in Scopes, NEW k \in Keys,
           \A z \in Scopes, j \in Keys : z # s \/ j # k => Receipt(z, j)' = Receipt(z, j)
    PROVE  \A j \in Keys :
              /\ s # "READBACK" \/ j # k => ReadbackOK(j)'
              /\ s # "ADMISSION" \/ j # k => AdmissionOK(j)'
              /\ s # "OUTCOME" \/ j # k => OutcomeOK(j)'
<1> SUFFICES ASSUME NEW j \in Keys
             PROVE  /\ s # "READBACK" \/ j # k => ReadbackOK(j)'
                    /\ s # "ADMISSION" \/ j # k => AdmissionOK(j)'
                    /\ s # "OUTCOME" \/ j # k => OutcomeOK(j)'
  OBVIOUS
<1>1. ASSUME s # "READBACK" \/ j # k, Receipt("READBACK", j) = NoReceipt PROVE ReadbackOK(j)'
  <2>1. Receipt("READBACK", j)' = NoReceipt
    BY <1>1, ScopeNames
  <2> QED BY <2>1 DEF ReadbackOK
<1>2. ASSUME s # "ADMISSION" \/ j # k, Receipt("ADMISSION", j) = NoReceipt PROVE AdmissionOK(j)'
  <2>1. Receipt("ADMISSION", j)' = NoReceipt
    BY <1>2, ScopeNames
  <2> QED BY <2>1 DEF AdmissionOK
<1>3. ASSUME s # "OUTCOME" \/ j # k, Receipt("OUTCOME", j) = NoReceipt PROVE OutcomeOK(j)'
  <2>1. Receipt("OUTCOME", j)' = NoReceipt
    BY <1>3, ScopeNames
  <2> QED BY <2>1 DEF OutcomeOK
<1> QED BY <1>1, <1>2, <1>3, OldStands

\* What a locked request knows of itself.
LEMMA LockedFacts ==
    ASSUME IInv, NEW h \in Handlers, pc[h] = "locked"
    PROVE  /\ request[h] \in Request /\ request[h].of \in Templates
           /\ request[h].of.scope \in Scopes /\ request[h].of.key \in Keys
           /\ HandlerOK(h)
           /\ stamp[h] \in Times /\ view[h] \in View /\ now \in Times
<1>1. HandlerOK(h) /\ request[h] \in Request
  BY DEF IInv, HandlerInv, HandlerOK
<1> QED BY <1>1, RequestFacts DEF IInv, TypeOK

LEMMA RecordReadbackKeeps ==
    ASSUME IInv, NEW h \in Handlers, RecordReadback(h)
    PROVE  IInv'
<1> USE DEF IInv
<1>1. PICK s, k, x :
         /\ s = "READBACK" /\ s = request[h].of.scope /\ k = request[h].of.key
         /\ x = [request |-> request[h], observedAt |-> stamp[h],
                 version |-> view[h].version, readAt |-> view[h].at]
  BY DEF RecordReadback
<1>2. /\ pc[h] = "locked" /\ now < MaxTime /\ now' = now + 1 /\ Insert(h, x)
  BY <1>1 DEF RecordReadback
<1>3. /\ request[h] \in Request /\ request[h].of \in Templates
      /\ s \in Scopes /\ k \in Keys
      /\ stamp[h] \in Times /\ view[h] \in View /\ now \in Times
      /\ stamp[h] <= view[h].at
  BY <1>1, <1>2, LockedFacts DEF HandlerOK
<1>4. now \in Int /\ now' \in Times /\ now' \in Int /\ now <= now'
  BY <1>2, <1>3, NumberFacts
<1>5. x \in ReadbackReceipt /\ x.request = request[h] /\ s # "ADMISSION" /\ s # "OUTCOME"
  BY <1>1, <1>3 DEF ReadbackReceipt, View
<1>6. /\ Grows /\ TypeOK' /\ HandlerInv' /\ OneHolder'
      /\ Receipt(s, k)' = x /\ x # NoReceipt
      /\ \A z \in Scopes, j \in Keys : z # s \/ j # k => Receipt(z, j)' = Receipt(z, j)
      /\ Recorded(s)' = Recorded(s) \cup {x}
      /\ \A z \in Scopes \ {s} : Recorded(z)' = Recorded(z)
      /\ pc'[h] = "idle"
      /\ \A g \in Handlers \ {h} :
            pc'[g] = pc[g] /\ request'[g] = request[g] /\ view'[g] = view[g]
      /\ UNCHANGED <<source, conflicts>>
      /\ \A t \in told' : t \in told \/ t = [request |-> request[h], onRecord |-> "RECEIPT"]
  BY <1>1, <1>2, <1>3, <1>4, <1>5, InsertFacts
<1>7. PICK y : y = [subject |-> x.request.of.subject, version |-> x.version, at |-> x.readAt]
  OBVIOUS
<1>8. y \in Sights
  BY <1>1, <1>2, <1>7 DEF Sights
<1>9. ReadbackOK(k)'
  <2>1. x.readAt <= now
    BY <1>7, <1>8 DEF SightInv
  <2>2. x.readAt \in Int /\ x.observedAt <= x.readAt
    BY <1>1, <1>3, NumberFacts DEF View
  <2>3. x.readAt < now'
    BY <1>2, <1>4, <2>1, <2>2
  <2> QED BY <1>1, <1>6, <2>2, <2>3 DEF ReadbackOK
<1>10. StoreInv'
  <2>1. \A j \in Keys : ReadbackOK(j)' /\ AdmissionOK(j)' /\ OutcomeOK(j)'
    BY <1>3, <1>4, <1>5, <1>6, <1>9, OthersStand
  <2>2. OneAdmission'
    BY <1>5, <1>6, ScopeNames DEF StoreInv, OneAdmission
  <2> QED BY <2>1, <2>2 DEF StoreInv
<1>11. SightInv'
  <2>1. Sights' \subseteq Sights
    <3>1. Recorded("READBACK")' = Recorded("READBACK") \cup {x}
      BY <1>1, <1>6
    <3> QED BY <1>6, <1>7, <1>8, <3>1 DEF Sights
  <2>2. Decisions' \subseteq Decisions
    <3>1. Recorded("ADMISSION")' = Recorded("ADMISSION")
      BY <1>5, <1>6, ScopeNames
    <3> QED BY <1>6, <3>1 DEF Decisions
  <2>3. source' \in [Subjects -> Versions] /\ \A z \in Subjects : source[z] <= source'[z]
    BY <1>6, NumberFacts DEF TypeOK
  <2> QED BY <1>4, <2>1, <2>2, <2>3, SightStep
<1>12. ToldInv'
  <2>1. PICK r : r = request[h]
    OBVIOUS
  <2> QED BY <1>1, <1>3, <1>5, <1>6, <2>1, InsertTells
<1> QED BY <1>6, <1>10, <1>11, <1>12

\* What an admission consumes is evidence it has read.
LEMMA ConsumedFacts ==
    ASSUME IInv, NEW h \in Handlers, pc[h] = "locked", request[h].of.scope = "ADMISSION",
           NEW j \in Consumed(request[h].of, Evidence(h))
    PROVE  j \in found[h] /\ j \in request[h].of.evidence /\ Receipt("READBACK", j) \in Evidence(h)
<1>1. /\ j \in request[h].of.evidence
      /\ j \in {e.request.of.key : e \in {f \in Evidence(h) : Status(f) = "AVAILABLE"}}
  BY DEF Consumed
<1>2. PICK i \in found[h] : Receipt("READBACK", i).request.of.key = j
  BY <1>1 DEF Evidence
<1>3. i \in Keys /\ Receipt("READBACK", i) # NoReceipt
  BY DEF IInv, HandlerInv, HandlerOK, TypeOK
<1>4. i = j
  BY <1>2, <1>3 DEF IInv, StoreInv, ReadbackOK
<1> QED BY <1>1, <1>4 DEF Evidence

LEMMA RecordAdmissionKeeps ==
    ASSUME IInv, NEW h \in Handlers, RecordAdmission(h)
    PROVE  IInv'
<1> USE DEF IInv
<1>1. PICK s, k, x :
         /\ s = "ADMISSION" /\ s = request[h].of.scope /\ k = request[h].of.key
         /\ x = [request |-> request[h], decidedAt |-> stamp[h],
                 status |-> AdmissionStatus(request[h], Evidence(h), stamp[h]),
                 consumed |-> Consumed(request[h].of, Evidence(h)), shown |-> view[h].version]
  BY DEF RecordAdmission
<1>2. /\ pc[h] = "locked" /\ UNCHANGED now /\ Insert(h, x)
      /\ AdmissionsOf(request[h].of.operation) = {} /\ VerifiesAdmission(x)
  BY <1>1 DEF RecordAdmission, OperationUnused
<1>3. /\ request[h] \in Request /\ request[h].of \in Templates
      /\ s \in Scopes /\ k \in Keys
      /\ stamp[h] \in Times /\ view[h] \in View /\ now \in Times
      /\ view[h].at = stamp[h]
      /\ found[h] \subseteq Keys
      /\ \A j \in found[h] : Receipt("READBACK", j) # NoReceipt
                             /\ Receipt("READBACK", j).readAt < stamp[h]
  BY <1>1, <1>2, LockedFacts DEF HandlerOK, TypeOK
<1>4. now \in Int /\ now' \in Times /\ now' \in Int /\ now <= now'
  BY <1>2, <1>3, NumberFacts
<1>5. x \in AdmissionReceipt /\ x.request = request[h] /\ s # "READBACK" /\ s # "OUTCOME"
  <2>1. x.status \in {"ADMITTED_NO_EFFECT", "DENIED", "SEPARATE_REVIEW_REQUIRED"}
    BY <1>1 DEF AdmissionStatus
  <2>2. x.consumed \in SUBSET Keys
    BY <1>1, <1>2, <1>3, ConsumedFacts
  <2>3. x.shown \in Versions
    BY <1>1, <1>3 DEF View
  <2> QED BY <1>1, <1>3, <2>1, <2>2, <2>3 DEF AdmissionReceipt
<1>6. /\ Grows /\ TypeOK' /\ HandlerInv' /\ OneHolder'
      /\ Receipt(s, k)' = x /\ x # NoReceipt
      /\ \A z \in Scopes, j \in Keys : z # s \/ j # k => Receipt(z, j)' = Receipt(z, j)
      /\ Recorded(s)' = Recorded(s) \cup {x}
      /\ \A z \in Scopes \ {s} : Recorded(z)' = Recorded(z)
      /\ pc'[h] = "idle"
      /\ \A g \in Handlers \ {h} :
            pc'[g] = pc[g] /\ request'[g] = request[g] /\ view'[g] = view[g]
      /\ UNCHANGED <<source, conflicts>>
      /\ \A t \in told' : t \in told \/ t = [request |-> request[h], onRecord |-> "RECEIPT"]
  BY <1>1, <1>2, <1>3, <1>4, <1>5, InsertFacts
<1>7. AdmissionOK(k)'
  <2>1. VerifiesAdmission(x)'
    BY <1>2, <1>6, GrowthFacts
  <2>2. ASSUME NEW j \in x.consumed
        PROVE  /\ j \in Keys /\ Receipt("READBACK", j)' # NoReceipt
               /\ Receipt("READBACK", j)'.readAt < x.decidedAt
               /\ x.status # "DENIED" => x.decidedAt < Receipt("READBACK", j)'.observedAt + Window
    <3>1. /\ j \in found[h] /\ j \in Keys /\ Receipt("READBACK", j) \in Evidence(h)
      BY <1>1, <1>2, <1>3, ConsumedFacts
    <3>2. Receipt("READBACK", j)' = Receipt("READBACK", j)
      BY <1>5, <1>6, <3>1, ScopeNames
    <3>3. x.status # "DENIED" => Fresh(Receipt("READBACK", j), stamp[h])
      BY <1>1, <3>1 DEF AdmissionStatus, EvidenceHolds
    <3> QED BY <1>1, <1>3, <3>1, <3>2, <3>3 DEF Fresh
  <2> QED BY <1>1, <1>6, <2>1, <2>2 DEF AdmissionOK
<1>8. StoreInv'
  <2>1. \A j \in Keys : ReadbackOK(j)' /\ AdmissionOK(j)' /\ OutcomeOK(j)'
    BY <1>3, <1>4, <1>5, <1>6, <1>7, OthersStand
  <2>2. \A a \in Recorded("ADMISSION") : a.request.of.operation # x.request.of.operation
    BY <1>1, <1>2 DEF AdmissionsOf
  <2>3. OneAdmission'
    BY <1>1, <1>6, <2>2 DEF StoreInv, OneAdmission
  <2> QED BY <2>1, <2>3 DEF StoreInv
<1>9. SightInv'
  <2>1. Sights' \subseteq Sights
    <3>1. Recorded("READBACK")' = Recorded("READBACK")
      BY <1>5, <1>6, ScopeNames
    <3> QED BY <1>6, <3>1 DEF Sights
  <2>2. Decisions' \subseteq Decisions
    <3>1. Recorded("ADMISSION")' = Recorded("ADMISSION") \cup {x}
      BY <1>1, <1>6
    <3>2. PICK y : y = [subject |-> x.request.of.expects.subject, version |-> x.shown,
                        at |-> x.decidedAt]
      OBVIOUS
    <3>3. x.request.of.expects # NoExpectation => y \in Decisions
      BY <1>1, <1>2, <1>3, <3>2 DEF Decisions
    <3> QED BY <1>6, <3>1, <3>2, <3>3 DEF Decisions
  <2>3. source' \in [Subjects -> Versions] /\ \A z \in Subjects : source[z] <= source'[z]
    BY <1>6, NumberFacts DEF TypeOK
  <2> QED BY <1>4, <2>1, <2>2, <2>3, SightStep
<1>10. ToldInv'
  <2>1. PICK r : r = request[h]
    OBVIOUS
  <2> QED BY <1>1, <1>3, <1>5, <1>6, <2>1, InsertTells
<1> QED BY <1>6, <1>8, <1>9, <1>10

\* An outcome is written beside an admission that was granted and a readback
\* that follows it.
LEMMA RecordOutcomeKeeps ==
    ASSUME IInv, NEW h \in Handlers, RecordOutcome(h)
    PROVE  IInv'
<1> USE DEF IInv
<1>1. PICK r, e :
         /\ r = request[h] /\ e = Receipt("READBACK", r.of.readback)
         /\ pc[h] = "locked" /\ r.of.scope = "OUTCOME" /\ e # NoReceipt /\ UNCHANGED now
  BY DEF RecordOutcome
<1>2. PICK a \in Eligible(r.of) :
         /\ AdmitsOutcome(r, a, e)
         /\ Insert(h, [request |-> r, observedAt |-> e.observedAt,
                       classification |-> Classification(r.of, a.request.of.expects, e)])
  BY <1>1 DEF RecordOutcome
<1>3. PICK s, k, x :
         /\ s = "OUTCOME" /\ k = r.of.key
         /\ x = [request |-> r, observedAt |-> e.observedAt,
                 classification |-> Classification(r.of, a.request.of.expects, e)]
  OBVIOUS
<1>4. /\ r \in Request /\ r.of \in Templates /\ s \in Scopes /\ k \in Keys /\ now \in Times
      /\ r.of.readback \in Keys
  BY <1>1, <1>3, LockedFacts, TemplateFacts
<1>5. now \in Int /\ now' \in Times /\ now' \in Int /\ now <= now'
  BY <1>1, <1>4, NumberFacts
<1>6. x \in OutcomeReceipt /\ x.request = request[h] /\ s # "READBACK" /\ s # "ADMISSION"
  <2>1. x.classification \in {"CONFIRMED", "REFUTED", "UNRESOLVED", "SUPERSEDED"}
    BY <1>3 DEF Classification
  <2>2. e.observedAt \in Times
    BY <1>1, <1>4, ReadbackFacts DEF ReadbackReceipt
  <2> QED BY <1>1, <1>3, <1>4, <2>1, <2>2 DEF OutcomeReceipt
<1>7. Insert(h, x) /\ s = request[h].of.scope /\ k = request[h].of.key
  BY <1>1, <1>2, <1>3
<1>8. /\ Grows /\ TypeOK' /\ HandlerInv' /\ OneHolder'
      /\ Receipt(s, k)' = x /\ x # NoReceipt
      /\ \A z \in Scopes, j \in Keys : z # s \/ j # k => Receipt(z, j)' = Receipt(z, j)
      /\ Recorded(s)' = Recorded(s) \cup {x}
      /\ \A z \in Scopes \ {s} : Recorded(z)' = Recorded(z)
      /\ pc'[h] = "idle"
      /\ \A g \in Handlers \ {h} :
            pc'[g] = pc[g] /\ request'[g] = request[g] /\ view'[g] = view[g]
      /\ UNCHANGED <<source, conflicts>>
      /\ \A t \in told' : t \in told \/ t = [request |-> request[h], onRecord |-> "RECEIPT"]
  BY <1>1, <1>3, <1>4, <1>5, <1>6, <1>7, InsertFacts
<1>9. /\ a \in AdmissionsOf(r.of.operation)'
      /\ a.status # "DENIED" /\ VerifiesWith(x, a, e)'
  <2>1. a \in AdmissionsOf(r.of.operation) /\ a.status # "DENIED" /\ VerifiesAdmission(a)
    BY DEF Eligible
  <2>2. VerifiesWith(x, a, e)
    BY <1>2, <1>3, <2>1 DEF VerifiesWith, AdmitsOutcome, Follows
  <2> QED BY <1>8, <2>1, <2>2, GrowthFacts
<1>10. Receipt("READBACK", r.of.readback)' = e
  BY <1>1, <1>4, <1>6, <1>8, ScopeNames
<1>11. OutcomeOK(k)' /\ VerifiesOutcome(x)'
  <2>1. x.request = r
    BY <1>3
  <2>2. Receipt("OUTCOME", k)' = x
    BY <1>3, <1>8
  <2>3. VerifiesOutcome(x)'
    BY <1>1, <1>9, <1>10, <2>1 DEF VerifiesOutcome
  <2> QED BY <1>1, <1>3, <1>9, <1>10, <2>1, <2>2, <2>3 DEF OutcomeOK
<1>12. StoreInv'
  <2>1. \A j \in Keys : ReadbackOK(j)' /\ AdmissionOK(j)' /\ OutcomeOK(j)'
    BY <1>4, <1>5, <1>6, <1>8, <1>11, OthersStand
  <2>2. OneAdmission'
    BY <1>6, <1>8, ScopeNames DEF StoreInv, OneAdmission
  <2> QED BY <2>1, <2>2 DEF StoreInv
<1>13. SightInv'
  <2>1. Recorded("READBACK")' = Recorded("READBACK")
        /\ Recorded("ADMISSION")' = Recorded("ADMISSION")
    BY <1>6, <1>8, ScopeNames
  <2>2. Sights' \subseteq Sights
    BY <1>8, <2>1 DEF Sights
  <2>3. Decisions' \subseteq Decisions
    BY <1>8, <2>1 DEF Decisions
  <2>4. source' \in [Subjects -> Versions] /\ \A z \in Subjects : source[z] <= source'[z]
    BY <1>8, NumberFacts DEF TypeOK
  <2> QED BY <1>5, <2>2, <2>3, <2>4, SightStep
<1>14. ToldInv'
  BY <1>1, <1>3, <1>4, <1>8, <1>11, InsertTells
<1> QED BY <1>8, <1>12, <1>13, <1>14

-----------------------------------------------------------------------------
\* One request moves on and writes nothing.
LEMMA Moves ==
    ASSUME IInv, NEW h \in Handlers, UNCHANGED <<now, source, receipts, conflicts, told>>,
           pc' \in [Handlers -> Phases], request' \in [Handlers -> Request \cup {NoRequest}],
           found' \in [Handlers -> SUBSET Keys], stamp' \in [Handlers -> Times],
           view' \in [Handlers -> View],
           \A g \in Handlers \ {h} :
              /\ pc'[g] = pc[g] /\ request'[g] = request[g] /\ found'[g] = found[g]
              /\ stamp'[g] = stamp[g] /\ view'[g] = view[g],
           HandlerOK(h)',
           pc'[h] = "locked" => \A g \in Handlers \ {h} :
              pc[g] = "locked" => \/ request[g].of.scope # request'[h].of.scope
                                  \/ request[g].of.key # request'[h].of.key,
           \A x \in Sights' : x \in Sights \/
               (/\ x \in [subject : Subjects, version : Int, at : Int]
                /\ x.at = now /\ x.version = source[x.subject]),
           \A x \in Decisions' : x \in Decisions \/
               (/\ x \in [subject : Subjects, version : Int, at : Int]
                /\ x.at = now /\ x.version = source[x.subject])
    PROVE  IInv'
<1> USE DEF IInv
<1> HIDE DEF Sights, Decisions
<1>1. now \in Int /\ now' \in Int /\ now <= now'
  BY NumberFacts DEF TypeOK
<1>2. StoreInv' /\ Grows
  BY <1>1, StoreStays
<1>3. TypeOK'
  BY DEF TypeOK
<1>4. HandlerInv'
  <2>1. ASSUME NEW g \in Handlers, g # h PROVE HandlerOK(g)'
    <3>1. pc[g] = "locked" => receipts'[request[g].of.scope][request[g].of.key] = NoReceipt
      BY DEF HandlerInv, HandlerOK, Stored, Receipt
    <3> QED BY <1>1, <1>2, <2>1, <3>1, HandlerStands
  <2> QED BY <2>1 DEF HandlerInv
<1>5. OneHolder'
  BY DEF OneHolder
<1>6. SightInv'
  <2>1. source' \in [Subjects -> Versions] /\ \A s \in Subjects : source[s] <= source'[s]
    BY NumberFacts DEF TypeOK
  <2> QED BY <1>1, <2>1, SightStep
<1> QED BY <1>2, <1>3, <1>4, <1>5, <1>6, SilenceKeeps

LEMMA ReceiveKeeps ==
    ASSUME IInv, NEW h \in Handlers, Receive(h)
    PROVE  IInv'
<1> USE DEF IInv
<1>1. PICK t \in Templates, lag \in Lags :
        /\ request' = [request EXCEPT ![h] = [at |-> now - lag, of |-> t]]
        /\ pc' = [pc EXCEPT ![h] = IF t.scope = "ADMISSION" THEN "grounded" ELSE "received"]
        /\ found' = IF t.scope = "ADMISSION"
                    THEN [found EXCEPT ![h] = {k \in t.evidence : Receipt("READBACK", k) # NoReceipt}]
                    ELSE found
  BY DEF Receive
<1>2. /\ stamp' = [stamp EXCEPT ![h] = now]
      /\ UNCHANGED <<now, source, receipts, conflicts, view, told>> /\ pc[h] = "idle"
  BY DEF Receive, rows
<1>3. PICK r : r = [at |-> now - lag, of |-> t]
  OBVIOUS
<1>4. r \in Request /\ r.of = t
  BY <1>3, BoundAssumption, NumberFacts DEF TypeOK, Request
<1>5. PICK ks : ks = {k \in t.evidence : Receipt("READBACK", k) # NoReceipt}
  OBVIOUS
<1>6. t.scope = "ADMISSION" => ks \in SUBSET Keys
  BY <1>5, TemplateFacts
<1>7. /\ request' = [request EXCEPT ![h] = r]
      /\ found' = IF t.scope = "ADMISSION" THEN [found EXCEPT ![h] = ks] ELSE found
  BY <1>1, <1>3, <1>5
<1>8. /\ pc' \in [Handlers -> Phases] /\ request' \in [Handlers -> Request \cup {NoRequest}]
      /\ found' \in [Handlers -> SUBSET Keys] /\ stamp' \in [Handlers -> Times]
      /\ view' \in [Handlers -> View]
  BY <1>1, <1>2, <1>4, <1>6, <1>7 DEF TypeOK, Phases
<1>9. /\ request'[h] = r /\ stamp'[h] = now
      /\ pc'[h] = (IF t.scope = "ADMISSION" THEN "grounded" ELSE "received")
      /\ found'[h] = (IF t.scope = "ADMISSION" THEN ks ELSE found[h])
      /\ \A g \in Handlers \ {h} :
            /\ pc'[g] = pc[g] /\ request'[g] = request[g] /\ found'[g] = found[g]
            /\ stamp'[g] = stamp[g] /\ view'[g] = view[g]
  BY <1>1, <1>2, <1>7 DEF TypeOK
<1>10. HandlerOK(h)'
  <2>1. ASSUME NEW k \in found'[h]
        PROVE  Receipt("READBACK", k)' # NoReceipt /\ Receipt("READBACK", k)'.readAt < stamp'[h]
    <3>1. k \in Keys /\ Receipt("READBACK", k) # NoReceipt
      BY <1>5, <1>6, <1>9 DEF TypeOK, HandlerInv, HandlerOK
    <3>2. Receipt("READBACK", k)' = Receipt("READBACK", k)
      BY <1>2 DEF Receipt
    <3> QED BY <1>9, <3>1, <3>2 DEF StoreInv, ReadbackOK
  <2>2. stamp'[h] <= now'
    BY <1>2, <1>9, NumberFacts DEF TypeOK
  <2> QED BY <1>4, <1>9, <2>1, <2>2 DEF HandlerOK
<1>11. Sights' \subseteq Sights /\ Decisions' \subseteq Decisions
  <2>1. \A s : Recorded(s)' = Recorded(s)
    BY <1>2 DEF Recorded, Receipt
  <2>2. Sights' \subseteq Sights
    BY <1>9, <2>1 DEF Sights
  <2>3. Decisions' \subseteq Decisions
    BY <1>4, <1>9, <2>1 DEF Decisions
  <2> QED BY <2>2, <2>3
<1>12. pc'[h] # "locked"
  BY <1>9
<1> QED BY <1>2, <1>8, <1>9, <1>10, <1>11, <1>12, Moves

\* A request that holds no lock has nothing to check of its key.
LEMMA EvaluateKeeps ==
    ASSUME IInv, NEW h \in Handlers, Evaluate(h)
    PROVE  IInv'
<1> USE DEF IInv
<1>1. PICK v : v = [version |-> ExpectedNow(request[h].of), at |-> now]
  OBVIOUS
<1>2. /\ pc[h] = "grounded" /\ pc' = [pc EXCEPT ![h] = "received"]
      /\ stamp' = [stamp EXCEPT ![h] = now] /\ view' = [view EXCEPT ![h] = v]
      /\ UNCHANGED <<now, source, receipts, conflicts, request, found, told>>
  BY <1>1 DEF Evaluate, rows
<1>3. HandlerOK(h) /\ request[h] \in Request /\ request[h].of \in Templates
      /\ request[h].of.scope = "ADMISSION" /\ stamp[h] <= now
      /\ now \in Times /\ stamp[h] \in Times
  BY <1>2, RequestFacts DEF HandlerInv, HandlerOK, TypeOK
<1>4. /\ v \in View /\ v.at = now
      /\ request[h].of.expects # NoExpectation =>
            /\ request[h].of.expects.subject \in Subjects
            /\ v.version = source[request[h].of.expects.subject]
  BY <1>1, <1>3, TemplateFacts, NumberFacts DEF ExpectedNow, View, TypeOK
<1>5. /\ pc' \in [Handlers -> Phases] /\ request' \in [Handlers -> Request \cup {NoRequest}]
      /\ found' \in [Handlers -> SUBSET Keys] /\ stamp' \in [Handlers -> Times]
      /\ view' \in [Handlers -> View]
  BY <1>2, <1>4 DEF TypeOK, Phases
<1>6. /\ pc'[h] = "received" /\ request'[h] = request[h] /\ found'[h] = found[h]
      /\ stamp'[h] = now /\ view'[h] = v
      /\ \A g \in Handlers \ {h} :
            /\ pc'[g] = pc[g] /\ request'[g] = request[g] /\ found'[g] = found[g]
            /\ stamp'[g] = stamp[g] /\ view'[g] = view[g]
  BY <1>2 DEF TypeOK
<1>7. HandlerOK(h)'
  <2>1. ASSUME NEW k \in found'[h]
        PROVE  Receipt("READBACK", k)' # NoReceipt /\ Receipt("READBACK", k)'.readAt < stamp'[h]
    <3>1. k \in Keys /\ Receipt("READBACK", k) # NoReceipt
          /\ Receipt("READBACK", k).readAt < stamp[h]
      BY <1>3, <1>6 DEF HandlerOK, TypeOK
    <3>2. Receipt("READBACK", k)' = Receipt("READBACK", k)
      BY <1>2 DEF Receipt
    <3> QED BY <1>3, <1>6, <3>1, <3>2, ReadbackFacts, NumberFacts
  <2>2. stamp'[h] <= now'
    BY <1>2, <1>3, <1>6, NumberFacts
  <2> QED BY <1>3, <1>4, <1>6, <2>1, <2>2 DEF HandlerOK
<1>8. \A s : Recorded(s)' = Recorded(s)
  BY <1>2 DEF Recorded, Receipt
<1>9. Sights' \subseteq Sights
  BY <1>6, <1>8 DEF Sights
<1>10. PICK y : y = [subject |-> request[h].of.expects.subject, version |-> v.version, at |-> v.at]
  OBVIOUS
<1>11. Decisions' \subseteq Decisions \cup
          {z \in {y} : request[h].of.expects # NoExpectation}
  BY <1>6, <1>8, <1>10 DEF Decisions
<1>12. request[h].of.expects # NoExpectation =>
          /\ y \in [subject : Subjects, version : Int, at : Int]
          /\ y.at = now /\ y.version = source[y.subject]
  BY <1>4, <1>10, NumberFacts DEF View
<1>13. \A x \in Decisions' : x \in Decisions \/
               (/\ x \in [subject : Subjects, version : Int, at : Int]
                /\ x.at = now /\ x.version = source[x.subject])
  BY <1>11, <1>12
<1>14. pc'[h] # "locked"
  BY <1>6
<1> QED BY <1>2, <1>5, <1>6, <1>7, <1>9, <1>13, <1>14, Moves

\* The lock is taken on a free key; a readback looks at its source.
LEMMA EnterKeeps ==
    ASSUME IInv, NEW h \in Handlers, Enter(h)
    PROVE  IInv'
<1> USE DEF IInv
<1>1. PICK v : v = IF request[h].of.scope = "READBACK"
                   THEN [version |-> source[request[h].of.subject], at |-> now]
                   ELSE view[h]
  OBVIOUS
<1>2. /\ pc[h] = "received" /\ KeyFree(h) /\ Existing(h) = NoReceipt
      /\ pc' = [pc EXCEPT ![h] = "locked"]
      /\ UNCHANGED <<now, source, receipts, conflicts, request, found, stamp, told>>
  BY DEF Enter, rows
<1>3. view' = [view EXCEPT ![h] = v]
  BY <1>1 DEF Enter, TypeOK
<1>4. HandlerOK(h) /\ request[h] \in Request /\ request[h].of \in Templates /\ stamp[h] <= now
      /\ now \in Times /\ stamp[h] \in Times
  BY <1>2, RequestFacts DEF HandlerInv, HandlerOK, TypeOK
<1>5. /\ v \in View
      /\ request[h].of.scope = "READBACK" =>
            /\ request[h].of.subject \in Subjects
            /\ v.at = now /\ v.version = source[request[h].of.subject]
      /\ request[h].of.scope # "READBACK" => v = view[h]
  BY <1>1, <1>4, TemplateFacts DEF View, TypeOK
<1>6. /\ pc' \in [Handlers -> Phases] /\ request' \in [Handlers -> Request \cup {NoRequest}]
      /\ found' \in [Handlers -> SUBSET Keys] /\ stamp' \in [Handlers -> Times]
      /\ view' \in [Handlers -> View]
  BY <1>2, <1>3, <1>5 DEF TypeOK, Phases
<1>7. /\ pc'[h] = "locked" /\ request'[h] = request[h] /\ found'[h] = found[h]
      /\ stamp'[h] = stamp[h] /\ view'[h] = v
      /\ \A g \in Handlers \ {h} :
            /\ pc'[g] = pc[g] /\ request'[g] = request[g] /\ found'[g] = found[g]
            /\ stamp'[g] = stamp[g] /\ view'[g] = view[g]
  BY <1>2, <1>3 DEF TypeOK
<1>8. \A s : Recorded(s)' = Recorded(s)
  BY <1>2 DEF Recorded, Receipt
<1>9. HandlerOK(h)'
  <2>1. \A k : Receipt("READBACK", k)' = Receipt("READBACK", k)
    BY <1>2 DEF Receipt
  <2>2. Stored(request[h])' = NoReceipt
    BY <1>2 DEF Existing, Stored, Receipt
  <2>3. stamp'[h] <= now'
    BY <1>2, <1>4, <1>7
  <2>4. request'[h].of.scope = "READBACK" => stamp'[h] <= view'[h].at
    BY <1>4, <1>5, <1>7
  <2>5. request'[h].of.scope = "ADMISSION" => view'[h].at = stamp'[h]
    BY <1>2, <1>4, <1>5, <1>7 DEF HandlerOK
  <2> QED BY <1>4, <1>7, <2>1, <2>2, <2>3, <2>4, <2>5 DEF HandlerOK, Stored
<1>10. PICK y : y = [subject |-> request[h].of.subject, version |-> v.version, at |-> v.at]
  OBVIOUS
<1>11. Sights' \subseteq Sights \cup {z \in {y} : request[h].of.scope = "READBACK"}
  BY <1>7, <1>8, <1>10 DEF Sights
<1>12. request[h].of.scope = "READBACK" =>
          /\ y \in [subject : Subjects, version : Int, at : Int]
          /\ y.at = now /\ y.version = source[y.subject]
  BY <1>5, <1>10, NumberFacts DEF View
<1>13. \A x \in Sights' : x \in Sights \/
               (/\ x \in [subject : Subjects, version : Int, at : Int]
                /\ x.at = now /\ x.version = source[x.subject])
  BY <1>11, <1>12
<1>14. Decisions' \subseteq Decisions
  BY <1>2, <1>5, <1>7, <1>8 DEF Decisions
<1>15. \A g \in Handlers \ {h} :
          pc[g] = "locked" => \/ request[g].of.scope # request'[h].of.scope
                              \/ request[g].of.key # request'[h].of.key
  BY <1>2, <1>7 DEF KeyFree
<1> QED BY <1>2, <1>6, <1>7, <1>9, <1>13, <1>14, <1>15, Moves

\* The clock and the sources move on; no request does.
LEMMA SurroundingsKeep ==
    ASSUME IInv, UNCHANGED <<receipts, conflicts, handler, told>>,
           now' \in Times, now <= now', source' \in [Subjects -> Versions],
           \A s \in Subjects : source[s] <= source'[s]
    PROVE  IInv'
<1> USE DEF IInv
<1>1. UNCHANGED <<pc, request, found, stamp, view>> /\ now' \in Int
  BY NumberFacts DEF handler
<1>2. StoreInv' /\ Grows
  BY <1>1, StoreStays
<1>3. TypeOK'
  BY <1>1 DEF TypeOK
<1>4. HandlerInv'
  <2>1. ASSUME NEW g \in Handlers PROVE HandlerOK(g)'
    <3>1. pc[g] = "locked" => receipts'[request[g].of.scope][request[g].of.key] = NoReceipt
      BY DEF HandlerInv, HandlerOK, Stored, Receipt
    <3> QED BY <1>1, <1>2, <3>1, HandlerStands
  <2> QED BY <2>1 DEF HandlerInv
<1>5. OneHolder'
  BY <1>1 DEF OneHolder
<1>6. Sights' = Sights /\ Decisions' = Decisions
  BY <1>1 DEF Sights, Decisions, Recorded, Receipt
<1>7. SightInv'
  <2> HIDE DEF Sights, Decisions
  <2> QED BY <1>1, <1>6, SightStep
<1> QED BY <1>2, <1>3, <1>4, <1>5, <1>7, SilenceKeeps

LEMMA ChangeSourceKeeps ==
    ASSUME IInv, NEW s \in Subjects, ChangeSource(s)
    PROVE  IInv'
<1>1. source[s] \in Int /\ source[s] + 1 \in Versions
  BY NumberFacts DEF ChangeSource, IInv, TypeOK
<1>2. source' \in [Subjects -> Versions] /\ \A z \in Subjects : source[z] <= source'[z]
  BY <1>1, NumberFacts DEF ChangeSource, IInv, TypeOK
<1>3. now' \in Times /\ now <= now'
  BY NumberFacts DEF ChangeSource, IInv, TypeOK
<1> QED BY <1>2, <1>3, SurroundingsKeep DEF ChangeSource

LEMMA TickKeeps ==
    ASSUME IInv, Tick
    PROVE  IInv'
<1>1. now' \in Times /\ now <= now'
  BY NumberFacts DEF Tick, IInv, TypeOK
<1>2. source' \in [Subjects -> Versions] /\ \A z \in Subjects : source[z] <= source'[z]
  BY NumberFacts DEF Tick, rows, IInv, TypeOK
<1> QED BY <1>1, <1>2, SurroundingsKeep DEF Tick, rows

LEMMA TurnAwayKeeps ==
    ASSUME IInv, NEW h \in Handlers, TurnAway(h)
    PROVE  IInv'
<1>1. now' \in Times /\ now <= now'
  BY NumberFacts DEF TurnAway, IInv, TypeOK
<1>2. source' \in [Subjects -> Versions] /\ \A z \in Subjects : source[z] <= source'[z]
  BY NumberFacts DEF TurnAway, rows, IInv, TypeOK
<1> QED BY <1>1, <1>2, SurroundingsKeep DEF TurnAway, rows

-----------------------------------------------------------------------------
LEMMA NextKeeps == IInv /\ [Next]_vars => IInv'
<1> SUFFICES ASSUME IInv, [Next]_vars PROVE IInv'
  OBVIOUS
<1>1. ASSUME NEW h \in Handlers, Receive(h) PROVE IInv'
  BY <1>1, ReceiveKeeps
<1>2. ASSUME NEW h \in Handlers, TurnAway(h) PROVE IInv'
  BY <1>2, TurnAwayKeeps
<1>3. ASSUME NEW h \in Handlers, Evaluate(h) PROVE IInv'
  BY <1>3, EvaluateKeeps
<1>4. ASSUME NEW h \in Handlers, Enter(h) PROVE IInv'
  BY <1>4, EnterKeeps
<1>5. ASSUME NEW h \in Handlers, Replay(h) PROVE IInv'
  BY <1>5, ReplayKeeps
<1>6. ASSUME NEW h \in Handlers, KeyConflict(h) PROVE IInv'
  BY <1>6, KeyConflictKeeps
<1>7. ASSUME NEW h \in Handlers, RecordReadback(h) PROVE IInv'
  BY <1>7, RecordReadbackKeeps
<1>8. ASSUME NEW h \in Handlers, RecordAdmission(h) PROVE IInv'
  BY <1>8, RecordAdmissionKeeps
<1>9. ASSUME NEW h \in Handlers, RecordOutcome(h) PROVE IInv'
  BY <1>9, RecordOutcomeKeeps
<1>10. ASSUME NEW h \in Handlers, RefuseOutcome(h) PROVE IInv'
  BY <1>10, EndsSilently DEF RefuseOutcome, Says
<1>11. ASSUME NEW h \in Handlers, Duplicate(h) PROVE IInv'
  BY <1>11, EndsSilently DEF Duplicate, Says
<1>12. ASSUME NEW h \in Handlers, Fail(h) PROVE IInv'
  BY <1>12, EndsSilently DEF Fail, Says
<1>13. ASSUME NEW s \in Subjects, ChangeSource(s) PROVE IInv'
  BY <1>13, ChangeSourceKeeps
<1>14. CASE Tick
  BY <1>14, TickKeeps
<1>15. CASE UNCHANGED vars
  <2>1. UNCHANGED <<now, source, receipts, conflicts, pc, request, found, stamp, view, told>>
    BY <1>15 DEF vars
  <2>2. /\ TypeOK' /\ OneHolder'
        /\ now' \in Int /\ now <= now'
    BY <2>1, NumberFacts DEF IInv, TypeOK, OneHolder
  <2>3. StoreInv' /\ Grows
    BY <2>1, <2>2, StoreStays
  <2>4. HandlerInv'
    <3>1. \A h \in Handlers : HandlerOK(h) => HandlerOK(h)'
      BY <2>1 DEF HandlerOK, Stored, Receipt
    <3> QED BY <3>1 DEF IInv, HandlerInv
  <2>5. SightInv'
    <3>1. Sights' = Sights /\ Decisions' = Decisions
      BY <2>1 DEF Sights, Decisions, Recorded, Receipt
    <3> HIDE DEF Sights, Decisions
    <3> QED BY <2>1, <3>1 DEF IInv, SightInv
  <2>6. ToldInv'
    BY <2>1, <2>3, SilenceKeeps
  <2> QED BY <2>2, <2>3, <2>4, <2>5, <2>6 DEF IInv
<1> QED
  BY <1>1, <1>2, <1>3, <1>4, <1>5, <1>6, <1>7, <1>8, <1>9, <1>10, <1>11, <1>12, <1>13,
     <1>14, <1>15 DEF Next

LEMMA InvariantHolds == Spec => []IInv
BY InitHolds, NextKeeps, PTL DEF Spec

\* What is on record of an outcome, of its admission and of its readback.
LEMMA OutcomeOnRecord ==
    ASSUME IInv, NEW o \in Recorded("OUTCOME")
    PROVE  /\ AdmissionOf(o) \in Recorded("ADMISSION")
           /\ AdmissionOf(o).status # "DENIED"
           /\ VerifiesWith(o, AdmissionOf(o), ReadbackOf(o))
           /\ o.request.of.readback \in Keys
           /\ ReadbackOf(o) # NoReceipt
<1>1. PICK k \in Keys : o = Receipt("OUTCOME", k) /\ o # NoReceipt
  BY DEF Recorded
<1>2. /\ o.request.of.scope = "OUTCOME" /\ ReadbackOf(o) # NoReceipt
      /\ \E a \in AdmissionsOf(o.request.of.operation) :
            a.status # "DENIED" /\ VerifiesWith(o, a, ReadbackOf(o))
  BY <1>1 DEF IInv, StoreInv, OutcomeOK, ReadbackOf
<1>3. PICK a \in Recorded("ADMISSION") :
         /\ a.request.of.operation = o.request.of.operation
         /\ a.status # "DENIED" /\ VerifiesWith(o, a, ReadbackOf(o))
  BY <1>2 DEF AdmissionsOf
<1>4. /\ AdmissionOf(o) \in Recorded("ADMISSION")
      /\ AdmissionOf(o).request.of.operation = o.request.of.operation
  BY <1>3 DEF AdmissionOf
<1>5. AdmissionOf(o) = a
  BY <1>3, <1>4 DEF IInv, StoreInv, OneAdmission
<1>6. o.request.of.readback \in Keys
  <2>1. o.request \in Request
    BY <1>1, OutcomeFacts DEF IInv
  <2> QED BY <1>2, <2>1, RequestFacts, TemplateFacts
<1> QED BY <1>2, <1>3, <1>5, <1>6

\* Receipts, conflicts and requests are what their tables can hold, for any
\* requests that clients send.
THEOREM TypeCorrect == Spec => []TypeOK
<1>1. IInv => TypeOK
  BY DEF IInv
<1> QED BY <1>1, InvariantHolds, PTL

\* evaluateStage5Admission admits on sources that were read before the decision,
\* and less than a window before it, however requests overlap and wait.
THEOREM AdmittedOnCurrentEvidenceCorrect == Spec => []AdmittedOnCurrentEvidence
<1>1. IInv => AdmittedOnCurrentEvidence
  <2> SUFFICES ASSUME IInv, NEW a \in Recorded("ADMISSION"), a.status = "ADMITTED_NO_EFFECT",
                      NEW k \in a.consumed
               PROVE  /\ Receipt("READBACK", k).readAt <= a.decidedAt
                      /\ a.decidedAt < Receipt("READBACK", k).readAt + Window
    BY DEF AdmittedOnCurrentEvidence
  <2> DEFINE e == Receipt("READBACK", k)
  <2>1. k \in Keys /\ a.decidedAt \in Int
    BY AdmissionFacts DEF IInv
  <2>2. e # NoReceipt /\ e.readAt < a.decidedAt /\ a.decidedAt < e.observedAt + Window
    BY AdmissionFacts DEF IInv, StoreInv, AdmissionOK
  <2>3. e.observedAt <= e.readAt /\ e.observedAt \in Int /\ e.readAt \in Int
    BY <2>1, <2>2, ReadbackFacts DEF IInv, StoreInv, ReadbackOK
  <2> QED BY <2>1, <2>2, <2>3, NumberFacts
<1> QED BY <1>1, InvariantHolds, PTL

\* recordStage5Outcome rests on a readback the admission did not consume, for any
\* order of readbacks, admissions and outcomes.
THEOREM IndependentEvidenceCorrect == Spec => []IndependentEvidence
<1>1. IInv => IndependentEvidence
  <2> SUFFICES ASSUME IInv, NEW o \in Recorded("OUTCOME"),
                      o.request.of.readback \in AdmissionOf(o).request.of.evidence
               PROVE  FALSE
    BY DEF IndependentEvidence
  <2> DEFINE a == AdmissionOf(o)
             k == o.request.of.readback
             e == Receipt("READBACK", k)
  <2>1. /\ a \in Recorded("ADMISSION") /\ a.status # "DENIED"
        /\ VerifiesWith(o, a, e) /\ k \in Keys
    BY OutcomeOnRecord DEF ReadbackOf
  <2>2. a.decidedAt \in Int
    BY <2>1, AdmissionFacts DEF IInv
  <2>3. k \in a.consumed
    BY <2>1 DEF VerifiesWith, VerifiesAdmission
  <2>4. e # NoReceipt /\ e.readAt < a.decidedAt
    BY <2>1, <2>3, AdmissionFacts DEF IInv, StoreInv, AdmissionOK
  <2>5. e.observedAt <= e.readAt /\ e.observedAt \in Int /\ e.readAt \in Int
    BY <2>1, <2>4, ReadbackFacts DEF IInv, StoreInv, ReadbackOK
  <2>6. e.observedAt >= a.decidedAt
    BY <2>1 DEF VerifiesWith, Follows
  <2> QED BY <2>2, <2>4, <2>5, <2>6
<1> QED BY <1>1, InvariantHolds, PTL

\* Only an expectation about the subject of the readback is confirmed or refuted.
LEMMA ConcludesOnSubject ==
    ASSUME NEW t, NEW expects, NEW e,
           Classification(t, expects, e) \in {"CONFIRMED", "REFUTED"}
    PROVE  expects # NoExpectation /\ e.request.of.subject = expects.subject
BY DEF Classification

\* deriveOutcomeClassification concludes on the expected subject as it was at the
\* decision or later, for any changes of the sources in between.
THEOREM ConcludedAfterDecisionCorrect == Spec => []ConcludedAfterDecision
<1>1. IInv => ConcludedAfterDecision
  <2> SUFFICES ASSUME IInv, NEW o \in Recorded("OUTCOME"),
                      o.classification \in {"CONFIRMED", "REFUTED"}
               PROVE  /\ ReadbackOf(o).request.of.subject = AdmissionOf(o).request.of.expects.subject
                      /\ \/ ReadbackOf(o).version >= AdmissionOf(o).shown
                         \/ ReadbackOf(o).readAt = AdmissionOf(o).decidedAt
    BY DEF ConcludedAfterDecision
  <2> DEFINE a == AdmissionOf(o)
             e == ReadbackOf(o)
             x == [subject |-> e.request.of.subject, version |-> e.version, at |-> e.readAt]
             d == [subject |-> a.request.of.expects.subject, version |-> a.shown,
                   at |-> a.decidedAt]
  <2>1. /\ a \in Recorded("ADMISSION") /\ VerifiesWith(o, a, e)
        /\ o.request.of.readback \in Keys /\ e # NoReceipt
    BY OutcomeOnRecord
  <2>2. a.request.of.expects # NoExpectation /\ x.subject = d.subject
    BY <2>1, ConcludesOnSubject DEF VerifiesWith
  <2>3. /\ e \in Recorded("READBACK") /\ e.observedAt \in Int /\ e.readAt \in Int
        /\ e.observedAt <= e.readAt
    BY <2>1, ReadbackFacts DEF IInv, ReadbackOf, StoreInv, ReadbackOK
  <2>4. a.decidedAt \in Int /\ e.observedAt >= a.decidedAt
    BY <2>1, AdmissionFacts DEF IInv, VerifiesWith, Follows
  <2>5. x \in Sights
    BY <2>3 DEF Sights
  <2>6. d \in Decisions
    BY <2>1, <2>2 DEF Decisions
  <2>7. x.at > d.at => x.version >= d.version
    BY <2>2, <2>5, <2>6 DEF IInv, SightInv
  <2> QED BY <2>2, <2>3, <2>4, <2>7
<1> QED BY <1>1, InvariantHolds, PTL

\* Whatever a client was ever told of a receipt or of a conflict is on record for
\* ever, and an outcome it was told of verifies whenever it is read back.
THEOREM AnswersAreDurableCorrect == Spec => []AnswersAreDurable
<1>1. IInv => AnswersAreDurable
  <2> SUFFICES ASSUME IInv, NEW t \in told PROVE Stands(t)
    BY DEF AnswersAreDurable
  <2>1. /\ t.request \in Request /\ ToldOK(t)
    BY DEF IInv, TypeOK, Telling, ToldInv
  <2>2. ASSUME t.request.of.scope = "OUTCOME"
        PROVE  ReadOutcome(t.request.of.key) = "VERIFIED"
    <3> DEFINE k == t.request.of.key
               o == Receipt("OUTCOME", k)
    <3>1. k \in Keys /\ o # NoReceipt
      BY <2>1, <2>2, RequestFacts DEF ToldOK, Stored
    <3>2. VerifiesOutcome(o)
      BY <3>1 DEF IInv, StoreInv, OutcomeOK, VerifiesOutcome
    <3> QED BY <3>1, <3>2 DEF ReadOutcome
  <2> QED BY <2>1, <2>2 DEF Stands, ToldOK
<1> QED BY <1>1, InvariantHolds, PTL

=============================================================================
