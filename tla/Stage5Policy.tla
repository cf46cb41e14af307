------------------------------ MODULE Stage5Policy ------------------------------
(***************************************************************************)
(* What the Stage 5 boundary accepts: the requests Sultan OS and the UI    *)
(* send, what of them is refused at the door, the evaluation that admits   *)
(* or denies the participation of an agent, and the comparison of an       *)
(* expectation with the claim a readback shows.                            *)
(*                                                                         *)
(* Everything here is a function of the request, of the readbacks it cites *)
(* and of the clock; module Stage5Receipts keeps the receipts.             *)
(***************************************************************************)
EXTENDS Integers, FiniteSets

CONSTANTS
    Keys,        \* idempotency keys
    Operations,  \* operations of Sultan, one admission each
    Subjects,    \* business objects with a canonical source
    SubjectType, \* the type of each subject
    Schema,      \* whether the table of each subject is there, with its columns
    Peers,       \* releases of Sultan OS and the UI
    Pinned,      \* the release of the peers the API is pinned to
    Claims,      \* the claim a source shows at each of its versions
    Window,      \* maximumEvidenceAgeMs
    Tolerance    \* how far ahead the clock of a client may be

None == "none"

canonicalSubjectTypes ==
    {"ORDER", "SHIPMENT", "ACCOUNT", "OPPORTUNITY", "COMMITMENT", "LOGISTICS",
     "ECONOMIC_CALCULATION", "FEP_ALLOCATION"}

CanonicalReadbackStatus == {"AVAILABLE", "NOT_FOUND", "SCHEMA_MISMATCH", "SOURCE_UNAVAILABLE"}

SchemaStates == {"PRESENT", "MISSING_TABLE", "MISSING_COLUMNS"}

-------------------------------------------------------------------------------
\* Values of claims.  DECIMAL is a string that reads as a number, with its scale;
\* TEXT is any other string.
Kinds  == {"BOOLEAN", "NUMBER", "DECIMAL", "TEXT"}
Scalar == [kind : Kinds, digits : Int, scale : Nat]
Null   == [kind |-> None, digits |-> 0, scale |-> 0]

IsNumeric(v) == v.kind \in {"NUMBER", "DECIMAL"}
IsString(v)  == v.kind \in {"DECIMAL", "TEXT"}

\* The value as an integer at a larger scale.
AtScale(v, scale) == v.digits * 10 ^ (scale - v.scale)

\* compare; strings are equal as texts, whatever numbers they read as.
Compare(expected, observed, operator) ==
    LET scale  == IF expected.scale > observed.scale THEN expected.scale ELSE observed.scale
        e      == AtScale(expected, scale)
        o      == AtScale(observed, scale)
        holds(b) == IF b THEN "MATCHED" ELSE "CONTRADICTED"
        typed  == IF operator \in {"EQ", "NE"}
                  THEN expected.kind = observed.kind \/ (IsString(expected) /\ IsString(observed))
                  ELSE IsNumeric(expected) /\ IsNumeric(observed)
    IN  IF ~typed THEN "NOT_COMPARABLE"
        ELSE holds(CASE operator = "EQ"  -> expected = observed
                     [] operator = "NE"  -> expected # observed
                     [] operator = "GTE" -> o >= e
                     [] operator = "LTE" -> o <= e)

Expectation ==
    [subject : Subjects, operator : {"EQ", "GTE", "LTE", "NE"}, value : Scalar]

Expectations == Expectation \cup {[subject |-> None]}
NoExpectation == [subject |-> None]

-------------------------------------------------------------------------------
Workloads == {"service:luzione-ui", "service:sultan-os", "other"}

\* The case type each registered agent works on; "independent-critic" and the
\* like are not registered as primary agents.
stage5AgentRegistry ==
    [supervisor |-> "PORTFOLIO", revenue_steward |-> "COMMERCIAL",
     fulfillment_steward |-> "FULFILLMENT", partner_network_steward |-> "PARTNER_RELATIONSHIP",
     catalog_steward |-> "CATALOG_QUALITY", account_relationship_steward |-> "ACCOUNT_RELATIONSHIP",
     economic_integrity_steward |-> "ECONOMIC_REVIEW", fep_case_steward |-> "FEP_CASE"]

CaseTypes == {stage5AgentRegistry[a] : a \in DOMAIN stage5AgentRegistry} \cup {"CONTROL_REVIEW"}

stage5Phases == {"REASONING", "SIMULATION", "ACTION_PREPARATION", "EXECUTION", "OBSERVATION"}

\* What a client asks an admission for.
Participation ==
    [agent : DOMAIN stage5AgentRegistry \cup {"independent_critic"}, caseType : CaseTypes,
     purpose : {"agent-case-post-inference", "other"}, phase : stage5Phases,
     capability : {"analysis.read", "other"}, effect : {"A0", "A1", "A2", "A3"}]

\* The immutable receipt of the interaction: the readbacks it used a claim of, the
\* expectation hashed into it, whether its hash and its controls are those of an
\* untouched receipt, whether it was ready, and whether it belongs to the run,
\* context and participants of the assertion.
Interaction ==
    [used : SUBSET Keys, expects : Expectations, intact : BOOLEAN, ready : BOOLEAN,
     ofRun : BOOLEAN]

\* "forbidden" says that the request carries a field only the server may set.
ReadbackTemplate ==
    [scope : {"READBACK"}, key : Keys, workload : Workloads, forbidden : BOOLEAN,
     peers : Peers, subject : Subjects]

AdmissionTemplate ==
    [scope : {"ADMISSION"}, key : Keys, workload : Workloads, forbidden : BOOLEAN,
     peers : Peers, operation : Operations, participation : Participation,
     evidence : SUBSET Keys, expects : Expectations, interaction : Interaction]

\* An observation supersedes another one or none.
OutcomeTemplate ==
    [scope : {"OUTCOME"}, key : Keys, workload : Workloads, forbidden : BOOLEAN,
     operation : Operations, readback : Keys, supersedes : Keys \cup {None}]

ASSUME PolicyAssumption ==
    /\ None \notin Keys \cup Subjects
    /\ Window \in Nat \ {0} /\ Tolerance \in Nat
    /\ SubjectType \in [Subjects -> canonicalSubjectTypes]
    /\ Schema \in [Subjects -> SchemaStates]
    /\ Pinned \in Peers
    /\ \A v \in DOMAIN Claims : Claims[v] \in Scalar \cup {Null}

-------------------------------------------------------------------------------
\* At the door.

\* isExactStage5ConsumerWorkload
ConsumerMay(t) ==
    t.workload \in IF t.scope = "ADMISSION" THEN {"service:sultan-os"}
                   ELSE {"service:sultan-os", "service:luzione-ui"}

\* rejectAuthority
ClaimsNoAuthority(t) == ~t.forbidden

\* The threshold of an inequality is a number.
ParsesExpectation(e) ==
    e # NoExpectation => (e.operator \in {"GTE", "LTE"} => IsNumeric(e.value))

ParsesInteraction(i) == i.intact

\* verifyOutcomeExpectationBinding: what is expected now was expected then.
BindsExpectation(t) == t.interaction.expects = t.expects

ParsesAdmission(t) ==
    /\ t.evidence # {}
    /\ ParsesExpectation(t.expects)
    /\ ParsesInteraction(t.interaction)
    /\ BindsExpectation(t)

\* The release of its consumer a readback names is the one pinned.
NamesPinnedConsumer(t) == t.peers = Pinned

Acceptable(t) ==
    /\ ConsumerMay(t)
    /\ ClaimsNoAuthority(t)
    /\ t.scope = "ADMISSION" => ParsesAdmission(t)
    /\ t.scope = "READBACK" => NamesPinnedConsumer(t)

Timely(at, t) == at <= t + Tolerance /\ t - at <= Window

-------------------------------------------------------------------------------
\* What a readback finds of a subject whose source is at a version.
ReadbackStatus(s, version) ==
    CASE Schema[s] = "MISSING_TABLE"   -> "SOURCE_UNAVAILABLE"
      [] Schema[s] = "MISSING_COLUMNS" -> "SCHEMA_MISMATCH"
      [] OTHER -> IF version = 0 THEN "NOT_FOUND" ELSE "AVAILABLE"

\* Of a readback receipt: its status, and the claim it shows.
Status(e)  == ReadbackStatus(e.request.of.subject, e.version)
ClaimOf(e) == Claims[e.version]

\* Mutant: freshUntil may be the moment of the decision.
FreshToTheEnd(e, d) == Status(e) = "AVAILABLE" /\ d <= e.observedAt + Window

\* AVAILABLE, and freshUntil lies after the decision.
Fresh(e, d) == Status(e) = "AVAILABLE" /\ d < e.observedAt + Window

-------------------------------------------------------------------------------
\* evaluateStage5Admission, by the reasons it denies for.

AgentMay(p) ==
    /\ p.agent \in DOMAIN stage5AgentRegistry
    /\ p.caseType = stage5AgentRegistry[p.agent]
    /\ p.purpose = "agent-case-post-inference"
    /\ p.phase # "EXECUTION" /\ p.capability = "analysis.read"

IsNoEffectPhase(p) == p.phase \in {"REASONING", "SIMULATION", "OBSERVATION"}

\* POST_INFERENCE_PURPOSE_SCOPE_MISMATCH, PHASE_EFFECT_MISMATCH
StaysInScope(p) ==
    /\ p.purpose = "agent-case-post-inference" =>
            p.phase = "SIMULATION" /\ p.capability = "analysis.read" /\ p.effect = "A0"
    /\ IsNoEffectPhase(p) <=> p.effect = "A0"

LineageHolds(t) ==
    /\ t.peers = Pinned
    /\ t.interaction.ready /\ t.interaction.ofRun

\* The readbacks found are the ones cited, available and fresh, and the UI
\* assembled the grounding from one of them.
EvidenceHolds(t, found, d) ==
    /\ {e.request.of.key : e \in found} = t.evidence
    /\ \A e \in found : Fresh(e, d)
    /\ \E e \in found : e.request.of.workload = "service:luzione-ui"
                        /\ e.request.of.peers = Pinned

\* exactConsumedEvidence: what the interaction used is exactly what is cited, and
\* shows claims.  Nothing counts as consumed otherwise.
Consumed(t, found) ==
    LET showing == {e.request.of.key : e \in {f \in found : Status(f) = "AVAILABLE"}}
    IN  IF t.interaction.used = t.evidence /\ t.evidence \subseteq showing THEN t.evidence ELSE {}

outcomeSubjectAllowedForCase ==
    [PORTFOLIO |-> canonicalSubjectTypes,
     COMMERCIAL |-> {"ACCOUNT", "OPPORTUNITY", "COMMITMENT"},
     FULFILLMENT |-> {"ORDER", "SHIPMENT", "LOGISTICS", "COMMITMENT"},
     PARTNER_RELATIONSHIP |-> {"ACCOUNT", "COMMITMENT"},
     CATALOG_QUALITY |-> {"ORDER", "COMMITMENT"},
     ACCOUNT_RELATIONSHIP |-> {"ACCOUNT", "OPPORTUNITY", "COMMITMENT"},
     ECONOMIC_REVIEW |-> {"ECONOMIC_CALCULATION", "ORDER", "OPPORTUNITY", "COMMITMENT"},
     FEP_CASE |-> {"FEP_ALLOCATION", "ECONOMIC_CALCULATION", "COMMITMENT"},
     CONTROL_REVIEW |-> {"COMMITMENT"}]

\* An expectation is about a subject of the case, grounded and consumed.
ExpectationHolds(t, found) ==
    t.expects # NoExpectation =>
        /\ SubjectType[t.expects.subject] \in outcomeSubjectAllowedForCase[t.participation.caseType]
        /\ \E e \in found : e.request.of.subject = t.expects.subject
                            /\ e.request.of.key \in Consumed(t, found)

AdmissionStatus(r, found, d) ==
    LET t == r.of
        denied == \/ ~AgentMay(t.participation) \/ ~StaysInScope(t.participation)
                  \/ ~LineageHolds(t) \/ ~Timely(r.at, d)
                  \/ ~EvidenceHolds(t, found, d) \/ Consumed(t, found) = {}
                  \/ ~ExpectationHolds(t, found)
    IN  IF denied THEN "DENIED"
        ELSE IF IsNoEffectPhase(t.participation) THEN "ADMITTED_NO_EFFECT"
        ELSE "SEPARATE_REVIEW_REQUIRED"

-------------------------------------------------------------------------------
\* Mutant: the comparison itself is what is recorded.
ClassificationAsCompared(t, expects, readback) ==
    IF t.supersedes # None THEN "SUPERSEDED"
    ELSE Compare(expects.value, ClaimOf(readback), expects.operator)

\* deriveOutcomeClassification
Classification(t, expects, readback) ==
    IF t.supersedes # None THEN "SUPERSEDED"
    ELSE IF \/ expects = NoExpectation
            \/ readback.request.of.subject # expects.subject
            \/ Status(readback) # "AVAILABLE"
            \/ ClaimOf(readback) = Null
         THEN "UNRESOLVED"
    ELSE LET comparison == Compare(expects.value, ClaimOf(readback), expects.operator)
         IN  CASE comparison = "MATCHED"      -> "CONFIRMED"
               [] comparison = "CONTRADICTED" -> "REFUTED"
               [] OTHER                       -> "UNRESOLVED"
===============================================================================
