---- MODULE MCAgentIntents ----
\* A workload that speaks for two agents, an agent with a credential of its own and
\* the UI with plans; an order, a readback, and two policies that come and go.
EXTENDS AgentIntents, TLC

CONSTANTS h1, h2, k1, k2, s1

Workload(caller, key, expires) ==
    [kind |-> "workload", caller |-> caller, key |-> key, expires |-> expires,
     environment |-> "production"]

MCTokenActor == [id |-> "auditor", type |-> "agent", source |-> "service-token",
                 capabilities |-> {"sultan.agent.intent.evaluate", "analysis.read"}]

Plan(agent, case, context, mode, controls) ==
    [agent |-> agent, domain |-> "LUZIONE", caseType |-> case, capability |-> "analysis.read",
     declared |-> "A0", data |-> "INTERNAL", purpose |-> "review", runMode |-> mode,
     controls |-> controls, context |-> context, added |-> {}]

\* A plan of the UI, for the routes that need no agent.
UIPlan(capability, controls, added) ==
    [capability |-> capability, declared |-> "A0", data |-> "INTERNAL", purpose |-> "review",
     controls |-> controls, context |-> [kind |-> "NONE"], added |-> added]

Ready == {"evidenceComplete", "dependenciesReady"}
TheOrder == [kind |-> "ORDER", version |-> 1, content |-> 2]
TheReadback == [kind |-> "READBACKS", receipts |-> {s1}]

Ask(route, credential, intent) ==
    [route |-> route, credential |-> credential, headersAgree |-> TRUE, intent |-> intent]

Intended ==
    {Ask("intent", Workload("sultan", k1, 1), Plan("fulfillment-steward", "FULFILLMENT", TheOrder, "SHADOW", Ready)),
     Ask("intent", Workload("sultan", k2, Never),
         Plan("revenue-steward", "COMMERCIAL", TheReadback, "ASSISTED", Ready)),
     Ask("intent", [kind |-> "service-token"], Plan("auditor", "COMMERCIAL", TheReadback, "ASSISTED", {}))}

\* The UI may ask about plans but not about intents; a token of an unknown key makes
\* the process fetch keys.
Plans ==
    {Ask("governance", Workload("ui", k1, Never), UIPlan("analysis.read", Ready, {})),
     Ask("autonomy", Workload("ui", k2, Never), UIPlan("analysis.read", Ready, {})),
     Ask("governance", Workload("ui", k1, Never), UIPlan("task.internal.create", Ready, {"approved"})),
     Ask("intent", Workload("ui", k2, Never), UIPlan("analysis.read", Ready, {})),
     Ask("intent", [kind |-> "absent"], UIPlan("analysis.read", {}, {}))}

MCRequests == Intended \cup Plans
MCCallers == h1 :> Intended @@ h2 :> Plans

MCRule(decision) ==
    [capability |-> "analysis.read", decision |-> decision, actorTypes |-> {"agent", "service"},
     purposes |-> {}, maxEffect |-> "A0"]

MCPolicy(scope, version, rules) ==
    [scope |-> scope, version |-> version, default |-> "APPROVAL", maxEffect |-> "A3",
     maxData |-> "CONFIDENTIAL", rules |-> rules]

MCPolicies == {MCPolicy("global", 2, {}), MCPolicy("tenant", 1, {MCRule("ALLOW")})}
====
