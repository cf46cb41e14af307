--------------------------- MODULE ServiceIdentity ---------------------------
(***************************************************************************)
(* Who calls: how a process of the service turns the credential of a       *)
(* request into an actor.                                                  *)
(*                                                                         *)
(* A token of a Vercel workload names the key that signed it.  The process *)
(* keeps the keys that the issuer last served: for a while it asks nobody, *)
(* then it fetches them again; a token whose key it does not have makes it *)
(* fetch at once, unless it did so a moment ago.  Several requests fetch   *)
(* at the same time, and the last answer to arrive is the one that stays.  *)
(***************************************************************************)
EXTENDS Integers, FiniteSets

CONSTANTS
    Handlers,    \* requests at a time
    KeyIds,      \* keys of the issuer, by kid
    FirstKey,    \* the key that the issuer lists at first
    Requests,    \* what a caller sends: a route, a credential, header assertions and a body
    Callers,     \* for each handler, what may be sent to it
    CacheFor,    \* how long served keys are used: 5 minutes
    Cooldown,    \* how long after a fetch none is forced: 30 seconds
    Timeout,     \* how long a fetch may take: 4 seconds
    Skew,        \* tolerance for the clocks of others: 30 seconds
    Deployment,  \* VERCEL_ENV
    TokenActor,  \* the actor configured for the service token
    MaxTime,     \* bound: the clock
    MaxChanges   \* bound: how often others change something

None  == "none"
Times == 0 .. MaxTime
Never == MaxTime + 1

\* The capability that a route asks for.
Required == [intent     |-> "sultan.agent.intent.evaluate",
             governance |-> "governance.evaluate",
             autonomy   |-> "governance.evaluate"]

\* What the two callers may do in the routes that this project models.
VercelActor ==
    [ui     |-> [id |-> "service:luzione-ui", type |-> "service", source |-> "vercel-oidc",
                 capabilities |->
                     {"catalog.projection.read", "governance.constitution.read",
                      "governance.evaluate", "platform.guarantees.read", "security.rls.read",
                      "sultan.canonical.readback.read", "sultan.outcome.observe"}],
     sultan |-> [id |-> "service:sultan-os", type |-> "service", source |-> "vercel-oidc",
                 capabilities |->
                     {"analysis.read", "account.health.evaluate", "catalog.quality.evaluate",
                      "economic.integrity.evaluate", "fulfillment.readiness.evaluate",
                      "partner.network.evaluate", "sultan.agent.intent.evaluate",
                      "sultan.stage5.admission.request", "sultan.canonical.readback.read",
                      "sultan.outcome.observe", "sultan.tool.manifest.read",
                      "sultan.tool.invoke", "sultan.effect.read", "sultan.case.read",
                      "sultan.command.prepare", "sultan.command.execute",
                      "sultan.internal.command", "sultan.rfq.canary.send"}]]

Credentials ==
    {[kind |-> "absent"], [kind |-> "service-token"]}
        \cup [kind : {"workload"}, caller : DOMAIN VercelActor, key : KeyIds,
              expires : Times \cup {Never}, environment : {"production", "preview"}]

ASSUME RequestAssumption ==
    \A r \in Requests : /\ r.credential \in Credentials /\ r.headersAgree \in BOOLEAN
                        /\ r.route \in DOMAIN Required
ASSUME CallerAssumption == Callers \in [Handlers -> SUBSET Requests]
ASSUME TimingAssumption ==
    /\ CacheFor \in Nat \ {0} /\ Cooldown \in Nat \ {0}
    /\ Timeout \in Nat /\ Skew \in Nat /\ MaxTime \in Nat /\ MaxChanges \in Nat
ASSUME DeploymentAssumption == Deployment \in {"production", "preview", "development"}

VARIABLES
    now,     \* the clock
    listed,  \* for each key, since when and until when the issuer serves it
    cache,   \* jwksCache: the keys last served and when they arrived
    phase,   \* how far a request is
    request, \* what it was sent with
    fetch,   \* the fetch it waits for: since when, whether forced, the keys served
    changes  \* how often others changed something (a bound, not state of the program)

identityVars == <<now, listed, cache, phase, request, fetch, changes>>

NoCache   == [keys |-> {}, fetchedAt |-> Never]
NoFetch   == [since |-> None]
NoRequest == [credential |-> [kind |-> "absent"]]

-------------------------------------------------------------------------------
Listed == {k \in KeyIds : listed[k].from # Never /\ listed[k].to = Never}

Admits(environment) ==
    environment = IF Deployment = "preview" THEN "preview" ELSE "production"

Live(token) == token.expires >= now - Skew

\* The claims of a token are those of a registered caller; every other claim is
\* part of which caller it is.
Valid(token) == Admits(token.environment) /\ Live(token)

Cached == cache # NoCache /\ cache.fetchedAt + CacheFor > now

\* Mutant: keys that have not lapsed are never fetched again.
RecentWhileCached == Cached

Recent == cache # NoCache /\ cache.fetchedAt > now - Cooldown

\* The actor of a credential that was verified, if what the headers assert of
\* it is true and it may do what the route requires.
Actor(r) == IF r.credential.kind = "service-token" THEN TokenActor
            ELSE VercelActor[r.credential.caller]
Bound(r) == r.headersAgree /\ Required[r.route] \in Actor(r).capabilities

Become(h, p) == phase' = [phase EXCEPT ![h] = p]
Accept(h, r) == Become(h, IF Bound(r) THEN "accepted" ELSE "refused")
Wait(h, forced) ==
    /\ Become(h, "fetching")
    /\ fetch' = [fetch EXCEPT ![h] = [since |-> now, forced |-> forced, keys |-> {}]]

IdentityInit ==
    /\ now = 0
    /\ listed = [k \in KeyIds |-> [from |-> IF k = FirstKey THEN 0 ELSE Never, to |-> Never]]
    /\ cache = NoCache
    /\ phase = [h \in Handlers |-> "idle"]
    /\ request = [h \in Handlers |-> NoRequest]
    /\ fetch = [h \in Handlers |-> NoFetch]
    /\ changes = 0

\* A request arrives and runs until it is accepted, refused or waits for keys.
Receive(h) ==
    /\ phase[h] = "idle"
    /\ \E r \in Callers[h] :
          LET token == r.credential
          IN  /\ request' = [request EXCEPT ![h] = r]
              /\ \/ /\ token.kind = "absent"
                    /\ Become(h, "refused")
                    /\ UNCHANGED fetch
                 \/ /\ token.kind = "service-token"
                    /\ Accept(h, r)
                    /\ UNCHANGED fetch
                 \/ /\ token.kind = "workload"
                    /\ ~Valid(token)
                    /\ Become(h, "refused")
                    /\ UNCHANGED fetch
                 \/ /\ token.kind = "workload"
                    /\ Valid(token)
                    /\ IF Cached /\ token.key \in cache.keys
                       THEN Accept(h, r) /\ UNCHANGED fetch
                       ELSE IF Cached /\ Recent
                       THEN Become(h, "unknown_key") /\ UNCHANGED fetch
                       ELSE Wait(h, Cached)
    /\ UNCHANGED <<now, listed, cache, changes>>

\* The issuer answers a fetch with the keys it lists.
Serve(h) ==
    /\ phase[h] = "fetching"
    /\ Become(h, "served")
    /\ fetch' = [fetch EXCEPT ![h].keys = Listed]
    /\ UNCHANGED <<now, listed, cache, request, changes>>

\* Mutant: an answer without a usable key is kept like any other.
KeysArriveEvenNone(h) ==
    /\ phase[h] = "served"
    /\ now - fetch[h].since <= Timeout
    /\ cache' = [keys |-> fetch[h].keys, fetchedAt |-> now]
    /\ IF request[h].credential.key \in fetch[h].keys
       THEN Accept(h, request[h])
       ELSE Become(h, "unknown_key")
    /\ fetch' = [fetch EXCEPT ![h] = NoFetch]
    /\ UNCHANGED <<now, listed, request, changes>>

\* Keys arrive in time and replace those of the process, whichever are newer.
\* A request that did not force its fetch would now, within the cooldown of it.
KeysArrive(h) ==
    /\ phase[h] = "served"
    /\ now - fetch[h].since <= Timeout
    /\ fetch[h].keys # {}
    /\ cache' = [keys |-> fetch[h].keys, fetchedAt |-> now]
    /\ IF request[h].credential.key \in fetch[h].keys
       THEN Accept(h, request[h])
       ELSE Become(h, "unknown_key")
    /\ fetch' = [fetch EXCEPT ![h] = NoFetch]
    /\ UNCHANGED <<now, listed, request, changes>>

\* Mutant: when keys cannot be fetched, those of before are used.
FetchFallsBack(h) ==
    /\ phase[h] \in {"fetching", "served"}
    /\ IF request[h].credential.key \in cache.keys
       THEN Accept(h, request[h])
       ELSE Become(h, "refused")
    /\ fetch' = [fetch EXCEPT ![h] = NoFetch]
    /\ UNCHANGED <<now, listed, cache, request, changes>>

\* A fetch is answered with an error, with no usable key, or too late.
FetchFails(h) ==
    /\ phase[h] \in {"fetching", "served"}
    /\ Become(h, "refused")
    /\ fetch' = [fetch EXCEPT ![h] = NoFetch]
    /\ UNCHANGED <<now, listed, cache, request, changes>>

\* A refusal is answered; the two kinds look the same to the caller.
Refuse(h) ==
    /\ phase[h] \in {"refused", "unknown_key"}
    /\ Become(h, "idle")
    /\ request' = [request EXCEPT ![h] = NoRequest]
    /\ UNCHANGED <<now, listed, cache, fetch, changes>>

Change == changes < MaxChanges /\ changes' = changes + 1

\* The issuer lists a new key, or drops one.
Publish(k) ==
    /\ Change
    /\ listed[k].from = Never
    /\ listed' = [listed EXCEPT ![k].from = now]
    /\ UNCHANGED <<now, cache, phase, request, fetch>>

Withdraw(k) ==
    /\ Change
    /\ k \in Listed
    /\ listed' = [listed EXCEPT ![k].to = now]
    /\ UNCHANGED <<now, cache, phase, request, fetch>>

Tick ==
    /\ now < MaxTime
    /\ now' = now + 1
    /\ UNCHANGED <<listed, cache, phase, request, fetch, changes>>

IdentityStep(h) == Receive(h) \/ Serve(h) \/ KeysArrive(h) \/ FetchFails(h) \/ Refuse(h)

IdentityWorld == Tick \/ \E k \in KeyIds : Publish(k) \/ Withdraw(k)

-------------------------------------------------------------------------------
\* Every variable holds values of its kind, a request waits for keys exactly
\* while it is in a fetch, and the process holds keys only once it fetched some.
IdentityTypeOK ==
    /\ now \in Times /\ changes \in 0 .. MaxChanges
    /\ listed \in [KeyIds -> [from : Times \cup {Never}, to : Times \cup {Never}]]
    /\ cache \in {NoCache} \cup [keys : (SUBSET KeyIds) \ {{}}, fetchedAt : Times]
    /\ phase \in [Handlers -> {"idle", "fetching", "served", "accepted", "refused",
                               "unknown_key", "answered"}]
    /\ request \in [Handlers -> Requests \cup {NoRequest}]
    /\ fetch \in [Handlers -> {NoFetch} \cup
                              [since : Times, forced : BOOLEAN, keys : SUBSET KeyIds]]
    /\ \A h \in Handlers : (fetch[h] # NoFetch) <=> phase[h] \in {"fetching", "served"}

\* A workload is accepted only on a key that the issuer listed, at the latest, as
\* long ago as keys are kept and one fetch may take, and on a token that has not
\* been over for longer than the tolerance and the fetch that followed its check,
\* even while fetches overtake one another and keys are withdrawn.
\* (loadVercelJwks and resolveVercelWorkloadIdentity of actor.ts)
AcceptedIdentityIsRecent ==
    [][\A h \in Handlers :
          /\ phase[h] # "accepted" /\ phase'[h] = "accepted"
          /\ request'[h].credential.kind = "workload"
          => LET token == request'[h].credential
             IN  /\ listed[token.key].from <= now
                 /\ listed[token.key].to > now - CacheFor - Timeout
                 /\ token.expires >= now - Skew - Timeout]_identityVars

\* A token whose key is unknown to the process, though the issuer lists the key,
\* is refused only while that key is new: not longer than a forced fetch may be
\* put off and one fetch may take.  (loadVercelJwks of actor.ts)
RefusedKeyIsNew ==
    [][\A h \in Handlers :
          /\ phase[h] # "unknown_key" /\ phase'[h] = "unknown_key"
          /\ request'[h].credential.key \in Listed
          => listed[request'[h].credential.key].from > now - Cooldown - Timeout]_identityVars
===============================================================================
