----------------------------- MODULE AgentIntents -----------------------------
(***************************************************************************)
(* What a caller may do, asked before it is done: the routes               *)
(* agent-intents/evaluate, governance/evaluate and autonomy/evaluate.      *)
(*                                                                         *)
(* The caller is authenticated and its body parsed.  For the intent of an  *)
(* agent, the order or the readback receipts that it cites and the         *)
(* tenant's policy in force are read, each in a transaction of its own,    *)
(* and only then the clock; what the agent says of its evidence is         *)
(* replaced by what was read.  A plan for the governance route needs the   *)
(* policy only, a plan for the autonomy route nothing.  Nothing is         *)
(* written: the answer is the only effect, and "seen" keeps, for the       *)
(* property that relates the two, what of a request was so at some moment  *)
(* of it.                                                                  *)
(***************************************************************************)
EXTENDS ServiceIdentity

CONSTANTS
    Receipts,     \* identifiers of canonical readback receipts
    FreshFor,     \* how long a readback is fresh
    MaxAge,       \* maximumEvidenceAgeMs
    Policies      \* rows of policy_definitions that may become ACTIVE

Classes == {"A0", "A1", "A2", "A3", "A4"}
Rank(c) == CASE c = "A0" -> 0 [] c = "A1" -> 1 [] c = "A2" -> 2 [] c = "A3" -> 3 [] c = "A4" -> 4
Secrecy(d) == CASE d = "PUBLIC" -> 0 [] d = "INTERNAL" -> 1
                [] d = "CONFIDENTIAL" -> 2 [] d = "RESTRICTED" -> 3

\* A tenant's policy: what it allows of a capability, to whom and for what, up to an
\* effect and a class of data.
Rule   == [capability : STRING, decision : {"ALLOW", "APPROVAL", "BLOCK"},
           actorTypes : SUBSET {"agent", "service", "user"}, purposes : SUBSET STRING,
           maxEffect : Classes]
Policy == [scope : {"tenant", "global"}, version : Nat, rules : SUBSET Rule,
           default : {"APPROVAL", "BLOCK"}, maxEffect : Classes,
           maxData : {"PUBLIC", "INTERNAL", "CONFIDENTIAL", "RESTRICTED"}]

ASSUME PolicyAssumption == Policies \subseteq Policy
ASSUME EvidenceAssumption ==
    /\ FreshFor \in Nat /\ MaxAge \in Nat
    /\ \A r \in Requests : LET c == r.intent.context
                          IN  c.kind = "READBACKS" => c.receipts \subseteq Receipts

\* The constitution's registry of capabilities, by effect class.
ReadOnly ==
    {"analysis.read", "portfolio.priority.evaluate", "fulfillment.readiness.evaluate",
     "partner.network.evaluate", "catalog.quality.evaluate", "account.health.evaluate",
     "economic.integrity.evaluate", "readback.verify", "process.performance.evaluate",
     "simulation.run", "self.describe", "request.refuse", "constitution.petition.draft",
     "rights.concern.raise"}

Bounded ==
    {"identity.candidate.create", "constitution.petition.record",
     "learning.candidate.create", "proposal.artifact.create", "lead.score", "lead.route",
     "opportunity.next_action.create", "proposal.revision.create", "task.internal.update",
     "support.response.draft", "fulfillment.exception.triage", "task.internal.create",
     "draft.internal.create", "fulfillment.plan.create", "partner.next_action.create",
     "catalog.correction.propose", "account.next_action.create",
     "economic.reconciliation.propose", "process.improvement.candidate.create"}

Approved ==
    {"record.internal.update", "crm.stage.advance", "task.internal.complete",
     "memory.promote"}

External ==
    {"outreach.sequence.enroll", "calendar.meeting.book", "proposal.send",
     "google.document.create", "email.send", "shopify.publish", "supplier.rfq.send"}

Prohibited ==
    {"payment.execute", "authority.grant", "constitution.modify", "identity.erase",
     "rights.waive", "guardian.appoint", "kill_switch.disable", "audit.delete",
     "budget.guardrail.raise"}

Constitution == [A0 |-> ReadOnly, A1 |-> Bounded, A2 |-> Approved, A3 |-> External,
                 A4 |-> Prohibited]

ProviderEffect(capability) == capability \in External \cup {"payment.execute"}

\* The agents that the Sultan workload may speak for.
Delegations ==
    {<<"revenue-steward", "COMMERCIAL", {"analysis.read"}>>,
     <<"fulfillment-steward", "FULFILLMENT", {"analysis.read", "fulfillment.readiness.evaluate"}>>,
     <<"partner-network-steward", "PARTNER_RELATIONSHIP",
       {"analysis.read", "partner.network.evaluate"}>>,
     <<"catalog-steward", "CATALOG_QUALITY", {"analysis.read", "catalog.quality.evaluate"}>>,
     <<"account-relationship-steward", "ACCOUNT_RELATIONSHIP",
       {"analysis.read", "account.health.evaluate"}>>,
     <<"economic-integrity-steward", "ECONOMIC_REVIEW",
       {"analysis.read", "economic.integrity.evaluate"}>>}

VARIABLES
    order,    \* the order that intents cite
    receipts, \* sultan_canonical_readback_receipts
    active,   \* the rows of Policies that are ACTIVE
    view,     \* for each request, what it has read
    seen,     \* for each request, what of it was so at some moment of it
    verdict   \* for each request, its answer

evidenceVars == <<order, receipts, active, view, seen, verdict>>
requestVars  == <<now, listed, cache, phase, request, fetch>>
vars == <<identityVars, evidenceVars>>

Unread    == [read |-> FALSE]
NoReceipt == [observed |-> None]
NoPolicy  == [version |-> None]
Blank     == [order |-> Unread, receipts |-> Unread, policy |-> Unread]
OrderRow  == [version : Nat, content : Nat]
Intent(h) == request[h].intent
Route(h)  == request[h].route

-------------------------------------------------------------------------------
\* The policy in force: the tenant's own before the global one, then the latest.
InForce(rows) ==
    IF rows = {} THEN NoPolicy
    ELSE CHOOSE p \in rows : \A q \in rows \ {p} :
            \/ p.scope = "tenant" /\ q.scope = "global"
            \/ p.scope = q.scope /\ p.version > q.version

Speaks(actor, i) ==
    \/ actor.type = "agent" /\ actor.id = i.agent
    \/ /\ actor.source = "vercel-oidc" /\ actor.id = "service:sultan-os"
       /\ i.domain = "LUZIONE"
       /\ \E d \in Delegations : i.agent = d[1] /\ i.caseType = d[2] /\ i.capability \in d[3]

\* A workload that names an agent it may not speak for is refused outright.
NotDelegated(actor, i) ==
    ~Speaks(actor, i) /\ actor.source = "vercel-oidc" /\ actor.id = "service:sultan-os"

ClassOf(capability) ==
    IF \E c \in Classes : capability \in Constitution[c]
    THEN CHOOSE c \in Classes : capability \in Constitution[c]
    ELSE None

Needed(i) ==
    {"evidenceComplete", "dependenciesReady"}
    \cup (IF ClassOf(i.capability) \in {"A1", "A2", "A3"}
          THEN {"simulationPassed", "budgetWithinLimit", "killSwitchReady", "idempotencyKey",
                "rollbackPlanned", "readbackPlanned"} ELSE {})
    \cup (IF ProviderEffect(i.capability) THEN {"providerReconciliationPlanned"} ELSE {})

\* No caller passes a grant of authority, so beyond A0 approval is required.
Autonomy(i) ==
    LET class == ClassOf(i.capability)
    IN  CASE class = None -> "SIMULATE_ONLY"
          [] class # None /\ (class # i.declared \/ class = "A4") -> "BLOCK"
          [] class = i.declared /\ class # "A4" ->
                IF ProviderEffect(i.capability) /\ i.data = "RESTRICTED" THEN "BLOCK"
                ELSE IF ~(Needed(i) \subseteq i.controls)
                THEN IF class \in {"A0", "A1"} THEN "SIMULATE_ONLY" ELSE "BLOCK"
                ELSE IF class = "A0" THEN "ALLOW" ELSE "REQUIRE_APPROVAL"

Rules(p, i) == {r \in p.rules : r.capability = i.capability}

TenantDecision(p, i) ==
    IF Rules(p, i) = {} THEN p.default ELSE (CHOOSE r \in Rules(p, i) : TRUE).decision

Allows(p, type, i) ==
    /\ Rank(i.declared) <= Rank(p.maxEffect)
    /\ Secrecy(i.data) <= Secrecy(p.maxData)
    /\ \E r \in Rules(p, i) :
          /\ r.decision = "ALLOW"
          /\ Rank(i.declared) <= Rank(r.maxEffect)
          /\ type \in r.actorTypes
          /\ r.purposes = {} \/ i.purpose \in r.purposes

-------------------------------------------------------------------------------
\* The evidence of an intent: an order at a version with a hash of its content,
\* a set of receipts, nothing but synthetic context, that and other context, or
\* context of another owner, or of this service but none it can read ("UNREADABLE").
Synthetic(i) == i.context.kind = "SYNTHETIC"

Current(v, r) ==
    /\ v.receipts.rows[r].observed <= now + Skew
    /\ now - v.receipts.rows[r].observed <= MaxAge
    /\ v.receipts.rows[r].until > now

Verified(v, i) ==
    \/ i.context.kind = "ORDER"
    \/ /\ i.context.kind = "READBACKS"
       /\ \A r \in i.context.receipts : v.receipts.rows[r] # NoReceipt /\ v.receipts.rows[r].pinned

\* Mutant: the content of an order is taken to be the one the agent hashed.
FreshByVersion(v, i) ==
    \/ i.context.kind = "SYNTHETIC" /\ i.context.claimed = "FRESH"
    \/ i.context.kind = "ORDER" /\ Verified(v, i) /\ v.order.version = i.context.version
    \/ i.context.kind = "READBACKS" /\ Verified(v, i) /\ \A r \in i.context.receipts : Current(v, r)

Fresh(v, i) ==
    \/ i.context.kind = "SYNTHETIC" /\ i.context.claimed = "FRESH"
    \/ /\ i.context.kind = "ORDER" /\ Verified(v, i)
       /\ v.order.version = i.context.version /\ v.order.content = i.context.content
    \/ /\ i.context.kind = "READBACKS" /\ Verified(v, i)
       /\ \A r \in i.context.receipts : Current(v, r)

Blocked(actor, i) ==
    \/ i.domain # "LUZIONE"
    \/ NotDelegated(actor, i)
    \/ i.capability \notin actor.capabilities
    \/ Synthetic(i) /\ i.runMode # "SIMULATION"
    \/ i.context.kind \in {"MIXED", "FOREIGN"}

StatusOfAutonomy(actor, i) ==
    IF ~Speaks(actor, i) THEN "SIMULATE_ONLY"
    ELSE CASE Autonomy(i) = "BLOCK" -> "BLOCKED"
           [] Autonomy(i) = "SIMULATE_ONLY" -> "SIMULATE_ONLY"
           [] Autonomy(i) = "REQUIRE_APPROVAL" ->
                 IF i.runMode = "ASSISTED" THEN "REQUIRE_APPROVAL" ELSE "SIMULATE_ONLY"
           [] Autonomy(i) = "ALLOW" ->
                 IF i.runMode = "SIMULATION" THEN "SIMULATE_ONLY" ELSE "ADMIT_READ_ONLY"

AdmissionStatus ==
    {"ABSTAIN_STALE_CONTEXT", "ADMIT_READ_ONLY", "BLOCKED", "REQUIRE_APPROVAL", "SIMULATE_ONLY"}

Status(actor, v, i) ==
    LET type == IF Speaks(actor, i) THEN "agent" ELSE actor.type
        unfit == ~Fresh(v, i) \/ (~Synthetic(i) /\ ~Verified(v, i))
    IN  IF unfit /\ i.runMode # "SIMULATION" THEN "ABSTAIN_STALE_CONTEXT"
        ELSE IF Blocked(actor, i) THEN "BLOCKED"
        ELSE IF ~Allows(v.policy.row, type, i)
        THEN IF TenantDecision(v.policy.row, i) # "APPROVAL" THEN "BLOCKED"
             ELSE IF i.runMode = "ASSISTED" THEN "REQUIRE_APPROVAL" ELSE "SIMULATE_ONLY"
        ELSE StatusOfAutonomy(actor, i)

-------------------------------------------------------------------------------
Init ==
    /\ IdentityInit
    /\ order = [version |-> 1, content |-> 1]
    /\ receipts = [r \in Receipts |-> NoReceipt]
    /\ active = Policies
    /\ view = [h \in Handlers |-> Blank]
    /\ seen = [h \in Handlers |-> {}]
    /\ verdict = [h \in Handlers |-> None]

\* What of a request holds at a moment: the order is as cited, the policy in force
\* allows it to the agent, or to the caller itself.  "seen" collects it.
Holds(h) ==
    LET i == Intent(h)
        type == IF Route(h) = "intent" THEN "agent" ELSE Actor(request[h]).type
    IN {x \in {"order", "policy"} :
        \/ /\ x = "order" /\ i.context.kind = "ORDER"
           /\ order = [version |-> i.context.version, content |-> i.context.content]
        \/ /\ x = "policy" /\ InForce(active) # NoPolicy
           /\ Allows(InForce(active), type, i)}
KeepWatch ==
    seen' = [h \in Handlers |-> IF phase[h] = "accepted" THEN seen[h] \cup Holds(h)'
                                                         ELSE seen[h]]

Read(h, part, what) ==
    /\ view[h][part] = Unread
    /\ view' = [view EXCEPT ![h][part] = what]
    /\ seen' = [seen EXCEPT ![h] = @ \cup Holds(h)]
    /\ UNCHANGED <<identityVars, order, receipts, active, verdict>>

\* What only the authenticated caller may establish.  An intent that asserts one of
\* these is refused and anything else it adds is ignored; a plan may add nothing.
ClientAuthority ==
    {"actor", "actorId", "actorType", "approval", "authority", "authorityGrant",
     "capabilities", "grant", "roles", "tenantId", "verifiedDeployment"}

AssertsNothing(i) == i.added \cap ClientAuthority = {}
AddsNothing(i)    == i.added = {}

Parsed(h) == IF Route(h) = "intent" THEN AssertsNothing(Intent(h)) ELSE AddsNothing(Intent(h))

Pending(h) == phase[h] = "accepted" /\ Parsed(h)

Conclude(h, answer) ==
    /\ Become(h, "answered")
    /\ verdict' = [verdict EXCEPT ![h] = answer]
    /\ view' = [view EXCEPT ![h] = Blank] /\ seen' = [seen EXCEPT ![h] = {}]
    /\ UNCHANGED <<now, listed, cache, request, fetch, changes, order, receipts, active>>

Reject(h) ==
    /\ phase[h] = "accepted" /\ ~Parsed(h)
    /\ Conclude(h, "REJECTED")

\* The order is read only for an intent that cites it, receipts likewise.
ReadOrder(h) ==
    /\ Pending(h) /\ Intent(h).context.kind = "ORDER"
    /\ Read(h, "order", [read |-> TRUE, version |-> order.version, content |-> order.content])

ReadReceipts(h) ==
    /\ Pending(h) /\ Intent(h).context.kind = "READBACKS"
    /\ Read(h, "receipts", [read |-> TRUE, rows |-> receipts])

ReadPolicy(h) ==
    /\ Pending(h) /\ Route(h) # "autonomy"
    /\ Read(h, "policy", [read |-> TRUE, row |-> InForce(active)])

\* A read fails, or no policy is in force: the evaluation fails closed.
FailClosed(h) ==
    /\ Pending(h) /\ Route(h) # "autonomy"
    /\ Conclude(h, "FAILED")

\* The policy is that of the tenant for the type of the caller itself, and the
\* constitution is asked only if it allows the plan.
Allowed(actor, p, i) == Allows(p, actor.type, i) /\ Autonomy(i) = "ALLOW"

\* Everything was read: the clock is read, the context verified and the request
\* evaluated in one step.
Evaluate(h) ==
    LET i     == Intent(h)
        actor == Actor(request[h])
    IN  /\ Pending(h)
        /\ i.context.kind = "ORDER" => view[h].order # Unread
        /\ i.context.kind = "READBACKS" => view[h].receipts # Unread
        /\ Route(h) # "autonomy" => view[h].policy # Unread /\ view[h].policy.row # NoPolicy
        /\ Conclude(h, CASE Route(h) = "intent"     -> Status(actor, view[h], i)
                         [] Route(h) = "autonomy"   -> Autonomy(i)
                         [] Route(h) = "governance" ->
                               IF Allowed(actor, view[h].policy.row, i) THEN "ALLOW" ELSE "DENY")

Answer(h) ==
    /\ phase[h] = "answered"
    /\ Become(h, "idle")
    /\ request' = [request EXCEPT ![h] = NoRequest]
    /\ verdict' = [verdict EXCEPT ![h] = None]
    /\ UNCHANGED <<now, listed, cache, fetch, changes, order, receipts, active, view, seen>>

\* The order is edited, by a writer that counts its version or by one that does not.
EditOrder ==
    /\ Change
    /\ \E v \in {order.version, order.version + 1} :
          order' = [version |-> v, content |-> order.content + 1]
    /\ UNCHANGED <<requestVars, receipts, active, view, verdict>>
    /\ KeepWatch

\* A readback is recorded for the UI's release that this deployment is pinned to,
\* or for another.
RecordReadback(r) ==
    /\ Change
    /\ receipts[r] = NoReceipt
    /\ \E pinned \in BOOLEAN :
          receipts' = [receipts EXCEPT
                          ![r] = [observed |-> now, until |-> now + FreshFor, pinned |-> pinned]]
    /\ UNCHANGED <<requestVars, order, active, view, seen, verdict>>

\* A policy becomes active or is retired.
ChangePolicy(p) ==
    /\ Change
    /\ active' = IF p \in active THEN active \ {p} ELSE active \cup {p}
    /\ UNCHANGED <<requestVars, order, receipts, view, verdict>>
    /\ KeepWatch

\* The process is replaced: its requests end unanswered and its keys are forgotten.
Restart ==
    /\ cache' = NoCache
    /\ phase' = [h \in Handlers |-> "idle"]
    /\ request' = [h \in Handlers |-> NoRequest]
    /\ fetch' = [h \in Handlers |-> NoFetch]
    /\ view' = [h \in Handlers |-> Blank]
    /\ seen' = [h \in Handlers |-> {}]
    /\ verdict' = [h \in Handlers |-> None]
    /\ UNCHANGED <<now, listed, changes, order, receipts, active>>

Step(h) == \/ IdentityStep(h) /\ UNCHANGED evidenceVars
           \/ ReadOrder(h) \/ ReadReceipts(h) \/ ReadPolicy(h)
           \/ Evaluate(h) \/ Reject(h) \/ FailClosed(h) \/ Answer(h)

World == \/ IdentityWorld /\ UNCHANGED evidenceVars
         \/ EditOrder \/ Restart
         \/ \E r \in Receipts : RecordReadback(r)
         \/ \E p \in Policies : ChangePolicy(p)

Next == World \/ \E h \in Handlers : Step(h)

Spec == Init /\ [][Next]_vars

-------------------------------------------------------------------------------
TypeOK ==
    /\ IdentityTypeOK
    /\ order \in OrderRow
    /\ receipts \in [Receipts -> {NoReceipt} \cup
                                 [observed : Times, until : Nat, pinned : BOOLEAN]]
    /\ active \subseteq Policies
    /\ verdict \in [Handlers -> AdmissionStatus \cup
                              {None, "FAILED", "REJECTED", "ALLOW", "DENY", "BLOCK"}]
    /\ \A h \in Handlers : /\ verdict[h] # None <=> phase[h] = "answered"
                           /\ view[h] # Blank => phase[h] = "accepted"

\* An intent is admitted, or a plan allowed, only if it reads, asserts no authority
\* and has its controls, and at some moment of the request the tenant's policy in
\* force allowed it (of a plan for the autonomy route no policy is asked).  For an
\* intent, its agent may speak, and either the order had the cited version and
\* content at some moment too, or at the answer the cited receipts are persisted, of
\* the pinned release, young enough and still fresh, although each is read on its
\* own while policies, orders and the clock move.
\* (POST of the routes, verifySultanAgentContext, evaluateSultanAgentIntent)
AdmittedOnEvidence ==
    [][\A h \in Handlers :
          verdict[h] = None /\ verdict'[h] \in {"ADMIT_READ_ONLY", "ALLOW"} =>
             LET i == Intent(h)
                 c == i.context
             IN  /\ i.capability \in ReadOnly /\ i.declared = "A0"
                 /\ {"evidenceComplete", "dependenciesReady"} \subseteq i.controls
                 /\ i.added \cap {"authority", "authorityGrant", "actorType", "tenantId"} = {}
                 /\ Route(h) = "autonomy" \/ "policy" \in seen[h]
                 /\ Route(h) = "intent" =>
                       /\ Speaks(Actor(request[h]), i)
                       /\ \/ c.kind = "ORDER" /\ "order" \in seen[h]
                          \/ /\ c.kind = "READBACKS"
                             /\ \A r \in c.receipts :
                                   /\ receipts[r] # NoReceipt /\ receipts[r].pinned
                                   /\ now - receipts[r].observed <= MaxAge
                                   /\ now < receipts[r].until]_vars
===============================================================================
