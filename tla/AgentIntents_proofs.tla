------------------------- MODULE AgentIntents_proofs -------------------------
(***************************************************************************)
(* Proofs about ServiceIdentity and AgentIntents, for any requests, keys,  *)
(* receipts and policies, any times and any number of handlers.            *)
(*                                                                         *)
(* The keys in the process are as old as the fetch that brought them, and  *)
(* the issuer answered that fetch somewhere between its start and its      *)
(* arrival: that is all that is known, and it bounds both how long a key   *)
(* that was withdrawn is still used and how long a new one is unknown.     *)
(* What a request has read was so when it was read; "seen" has kept it.    *)
(***************************************************************************)
EXTENDS AgentIntents, TLAPS

InFetch == {"fetching", "served"}

\* Keys that a fetch brought which began at "since": each was listed and was
\* not withdrawn before, and a key that is missing was not listed before.
KeysSince(keys, since) ==
    /\ \A k \in keys : listed[k].from <= now /\ listed[k].to >= since
    /\ \A k \in Listed \ keys : listed[k].from >= since

ListedInv == \A k \in KeyIds : listed[k].from # Never => listed[k].from <= now

CacheInv ==
    cache # NoCache => cache.fetchedAt <= now /\ KeysSince(cache.keys, cache.fetchedAt - Timeout)

\* A request waits for keys with a token that was valid when it began to.
WaitOK(h) ==
    phase[h] \in InFetch =>
        /\ request[h].credential.kind = "workload"
        /\ request[h].credential \in Credentials
        /\ request[h].credential.expires >= fetch[h].since - Skew
        /\ fetch[h].since <= now
        /\ phase[h] = "served" => KeysSince(fetch[h].keys, fetch[h].since)

FetchInv == \A h \in Handlers : WaitOK(h)

SentInv == \A h \in Handlers : phase[h] # "idle" => request[h] \in Requests

IdentityInv == IdentityTypeOK /\ ListedInv /\ CacheInv /\ FetchInv /\ SentInv

\* The type of actor that the policy is asked about.
TypeOf(h) == IF Route(h) = "intent" THEN "agent" ELSE Actor(request[h]).type

\* What a request has read of the order and the policy it has seen; receipts
\* that it found are still the ones on record.
ViewOK(h) ==
    LET v == view[h]
        c == Intent(h).context
    IN  phase[h] = "accepted" =>
        /\ v.order # Unread /\ c.kind = "ORDER"
             /\ v.order.version = c.version /\ v.order.content = c.content => "order" \in seen[h]
        /\ v.policy # Unread /\ v.policy.row # NoPolicy
             /\ Allows(v.policy.row, TypeOf(h), Intent(h)) => "policy" \in seen[h]
        /\ v.receipts # Unread =>
             \A r \in Receipts : v.receipts.rows[r] # NoReceipt =>
                                     receipts[r] = v.receipts.rows[r]

ViewInv == \A h \in Handlers : ViewOK(h)

\* Every request has its three views, and what it has seen.
FormInv ==
    /\ DOMAIN view = Handlers /\ DOMAIN seen = Handlers
    /\ \A h \in Handlers :
          view[h] = [order |-> view[h].order, receipts |-> view[h].receipts,
                     policy |-> view[h].policy]

IInv == TypeOK /\ IdentityInv /\ FormInv /\ ViewInv

-------------------------------------------------------------------------------
(***************************************************************************)
(* The issuer and its keys.                                                *)
(***************************************************************************)
\* Who waits for keys is not one of those who have none to wait for.
LEMMA FetchesDiffer ==
    ASSUME NEW t, NEW f, NEW keys
    PROVE  [since |-> t, forced |-> f, keys |-> keys] # NoFetch
<1> DEFINE x == [since |-> t, forced |-> f, keys |-> keys]
<1>1. "keys" \in DOMAIN x /\ "keys" \notin DOMAIN NoFetch
  BY DEF NoFetch
<1> QED BY <1>1

\* A request is one of those that may be sent, with a credential of its kind.
LEMMA SentRequest ==
    ASSUME NEW h \in Handlers, NEW r \in Callers[h]
    PROVE  r \in Requests /\ r.credential \in Credentials
BY CallerAssumption, RequestAssumption

LEMMA WorkloadFields ==
    ASSUME NEW c \in Credentials, c.kind = "workload"
    PROVE  c.key \in KeyIds /\ c.expires \in Times \cup {Never}
BY DEF Credentials

\* Times are numbers, and Never lies after all of them.
LEMMA TimesAreNumbers ==
    /\ Never \in Int
    /\ \A t \in Times : t \in Int /\ 0 <= t /\ t < Never
BY TimingAssumption DEF Times, Never

\* The same keys are as old as before while only the clock and others move.
LEMMA KeysSinceStays ==
    ASSUME IdentityTypeOK, NEW keys \in SUBSET KeyIds, NEW since \in Int, since <= now,
           KeysSince(keys, since), IdentityWorld
    PROVE  KeysSince(keys, since)'
<1>1. CASE Tick
  <2>1. listed' = listed /\ now' = now + 1 /\ now \in Nat
    BY <1>1, TimesAreNumbers DEF Tick, IdentityTypeOK
  <2>2. \A k \in KeyIds : listed[k].from \in Nat
    BY TimesAreNumbers DEF IdentityTypeOK
  <2>3. Listed' = Listed
    BY <2>1 DEF Listed
  <2> QED BY <2>1, <2>2, <2>3 DEF KeysSince
<1>2. ASSUME NEW k \in KeyIds, Publish(k) PROVE KeysSince(keys, since)'
  BY <1>2, TimesAreNumbers DEF Publish, KeysSince, Listed, IdentityTypeOK
<1>3. ASSUME NEW k \in KeyIds, Withdraw(k) PROVE KeysSince(keys, since)'
  BY <1>3, TimesAreNumbers DEF Withdraw, KeysSince, Listed, IdentityTypeOK
<1> QED BY <1>1, <1>2, <1>3 DEF IdentityWorld

-------------------------------------------------------------------------------
(***************************************************************************)
(* The steps of authentication.                                            *)
(***************************************************************************)
OthersWait(h) ==
    \A g \in Handlers \ {h} :
        phase'[g] = phase[g] /\ request'[g] = request[g] /\ fetch'[g] = fetch[g]

\* A step of one request that leaves the keys alone keeps the invariant if it
\* keeps the part of that request.
LEMMA OneRequestSteps ==
    ASSUME IdentityInv, IdentityTypeOK', CacheInv', NEW h \in Handlers, OthersWait(h),
           now' = now, listed' = listed,
           WaitOK(h)', phase'[h] # "idle" => request'[h] \in Requests
    PROVE  IdentityInv'
<1>1. \A g \in Handlers \ {h} : WaitOK(g)'
  BY DEF IdentityInv, FetchInv, OthersWait, WaitOK, KeysSince, Listed
<1>2. SentInv'
  BY DEF IdentityInv, SentInv, OthersWait
<1>3. ListedInv'
  BY DEF IdentityInv, ListedInv
<1> QED BY <1>1, <1>2, <1>3 DEF IdentityInv, FetchInv

LEMMA CacheInvStays ==
    ASSUME CacheInv, now' = now, listed' = listed, cache' = cache
    PROVE  CacheInv'
BY DEF CacheInv, KeysSince, Listed

LEMMA ReceiveKeeps ==
    ASSUME IdentityInv, NEW h \in Handlers, Receive(h)
    PROVE  IdentityInv'
<1>1. PICK r \in Callers[h] :
        /\ request' = [request EXCEPT ![h] = r]
        /\ \/ /\ \/ phase' = [phase EXCEPT ![h] = "refused"]
                 \/ phase' = [phase EXCEPT ![h] = "accepted"]
                 \/ phase' = [phase EXCEPT ![h] = "unknown_key"]
              /\ fetch' = fetch
           \/ /\ r.credential.kind = "workload" /\ Valid(r.credential)
              /\ Wait(h, Cached)
  BY DEF Receive, Accept, Become
<1>2. /\ phase[h] = "idle"
      /\ now' = now /\ listed' = listed /\ cache' = cache /\ changes' = changes
  BY DEF Receive
<1>3. r \in Requests /\ r.credential \in Credentials
  BY SentRequest
<1>4. CacheInv'
  BY <1>2, CacheInvStays DEF IdentityInv
<1>5. CASE /\ \/ phase' = [phase EXCEPT ![h] = "refused"]
              \/ phase' = [phase EXCEPT ![h] = "accepted"]
              \/ phase' = [phase EXCEPT ![h] = "unknown_key"]
           /\ fetch' = fetch
  <2>1. IdentityTypeOK'
    BY <1>1, <1>2, <1>3, <1>5 DEF IdentityInv, IdentityTypeOK
  <2>2. OthersWait(h)
    BY <1>1, <1>5 DEF OthersWait, IdentityInv, IdentityTypeOK
  <2>3. WaitOK(h)' /\ request'[h] \in Requests
    BY <1>1, <1>3, <1>5 DEF WaitOK, InFetch, IdentityInv, IdentityTypeOK
  <2> QED BY <1>2, <1>4, <2>1, <2>2, <2>3, OneRequestSteps
<1>6. CASE r.credential.kind = "workload" /\ Valid(r.credential) /\ Wait(h, Cached)
  <2> DEFINE f == [since |-> now, forced |-> Cached, keys |-> {}]
  <2>1. /\ phase' = [phase EXCEPT ![h] = "fetching"]
        /\ fetch' = [fetch EXCEPT ![h] = f]
    BY <1>6 DEF Wait, Become
  <2>2. Cached \in BOOLEAN /\ f # NoFetch
    BY FetchesDiffer DEF Cached
  <2>3. f \in [since : Times, forced : BOOLEAN, keys : SUBSET KeyIds]
    BY <2>2 DEF IdentityInv, IdentityTypeOK
  <2> HIDE DEF f
  <2>4. IdentityTypeOK'
    BY <1>1, <1>2, <1>3, <2>1, <2>2, <2>3 DEF IdentityInv, IdentityTypeOK
  <2>5. OthersWait(h)
    BY <1>1, <2>1 DEF OthersWait, IdentityInv, IdentityTypeOK
  <2>6. phase'[h] = "fetching" /\ request'[h] = r /\ fetch'[h].since = now /\ now \in Int
    BY <1>1, <2>1, TimesAreNumbers DEF f, IdentityInv, IdentityTypeOK
  <2>7. WaitOK(h)' /\ request'[h] \in Requests
    BY <1>2, <1>3, <1>6, <2>6 DEF WaitOK, Valid, Live
  <2> QED BY <1>2, <1>4, <2>4, <2>5, <2>7, OneRequestSteps
<1> QED BY <1>1, <1>5, <1>6

LEMMA ServeKeeps ==
    ASSUME IdentityInv, NEW h \in Handlers, Serve(h)
    PROVE  IdentityInv'
<1>1. /\ phase[h] = "fetching" /\ phase' = [phase EXCEPT ![h] = "served"]
      /\ fetch' = [fetch EXCEPT ![h].keys = Listed]
      /\ now' = now /\ listed' = listed /\ cache' = cache /\ request' = request
      /\ changes' = changes
  BY DEF Serve, Become
<1>2. /\ fetch[h] \in [since : Times, forced : BOOLEAN, keys : SUBSET KeyIds]
      /\ Listed \subseteq KeyIds
  BY <1>1 DEF IdentityInv, IdentityTypeOK, Listed
<1> DEFINE f == [since |-> fetch[h].since, forced |-> fetch[h].forced, keys |-> Listed]
<1>3. fetch' = [fetch EXCEPT ![h] = f] /\ f # NoFetch
  <2>1. [fetch[h] EXCEPT !.keys = Listed] = f
    BY <1>2
  <2> QED BY <1>1, <2>1, FetchesDiffer
<1>4. f \in [since : Times, forced : BOOLEAN, keys : SUBSET KeyIds]
  BY <1>2
<1>5. f.since = fetch[h].since /\ f.keys = Listed
  OBVIOUS
<1> HIDE DEF f
<1>6. IdentityTypeOK'
  BY <1>1, <1>3, <1>4 DEF IdentityInv, IdentityTypeOK
<1>7. CacheInv'
  BY <1>1, CacheInvStays DEF IdentityInv
<1>8. OthersWait(h)
  BY <1>1, <1>3 DEF OthersWait, IdentityInv, IdentityTypeOK
<1>9. fetch'[h] = f /\ phase'[h] = "served"
  BY <1>1, <1>3 DEF IdentityInv, IdentityTypeOK
<1>10. KeysSince(fetch[h].keys, fetch[h].since)'
  <2> DEFINE since == fetch[h].since
  <2>1. since \in Times /\ since <= now
    BY <1>1, <1>2 DEF IdentityInv, FetchInv, WaitOK, InFetch
  <2>2. \A k \in Listed : k \in KeyIds /\ listed[k].to = Never /\ listed[k].from # Never
    BY DEF Listed
  <2>3. \A k \in Listed : listed[k].from <= now
    BY <2>2, TimesAreNumbers DEF IdentityInv, ListedInv, Listed
  <2>4. since \in Int /\ since <= Never
    BY <2>1, TimingAssumption DEF Times, Never
  <2>5. KeysSince(Listed, since)
    BY <2>2, <2>3, <2>4 DEF KeysSince
  <2>6. fetch'[h].keys = Listed /\ fetch'[h].since = since /\ Listed' = Listed
    BY <1>1, <1>5, <1>9 DEF Listed
  <2> QED BY <1>1, <2>5, <2>6 DEF KeysSince
<1>11. WaitOK(h)' /\ request'[h] \in Requests
  <2>1. WaitOK(h) /\ request[h] \in Requests
    BY <1>1 DEF IdentityInv, FetchInv, SentInv
  <2>2. request'[h] = request[h] /\ now' = now /\ phase[h] \in InFetch
    BY <1>1 DEF InFetch
  <2>3. fetch'[h].since = fetch[h].since
    BY <1>5, <1>9
  <2> QED BY <1>10, <2>1, <2>2, <2>3 DEF WaitOK
<1> QED BY <1>1, <1>6, <1>7, <1>8, <1>11, OneRequestSteps

\* The request stops waiting, whatever for.
LEMMA EndOfWait ==
    ASSUME IdentityInv, CacheInv', NEW h \in Handlers, NEW p,
           p \in {"idle", "accepted", "refused", "unknown_key"},
           phase[h] \notin {"idle", "accepted", "answered"},
           phase' = [phase EXCEPT ![h] = p],
           fetch' = [fetch EXCEPT ![h] = NoFetch],
           \/ request' = request
           \/ p = "idle" /\ request' = [request EXCEPT ![h] = NoRequest],
           cache' \in {NoCache} \cup [keys : (SUBSET KeyIds) \ {{}}, fetchedAt : Times],
           now' = now, listed' = listed, changes' = changes
    PROVE  IdentityInv'
<1>1. IdentityTypeOK'
  BY DEF IdentityInv, IdentityTypeOK
<1>2. OthersWait(h)
  BY DEF OthersWait, IdentityInv, IdentityTypeOK
<1>3. phase'[h] = p
  BY DEF IdentityInv, IdentityTypeOK
<1>4. WaitOK(h)'
  BY <1>3 DEF WaitOK, InFetch
<1>5. phase'[h] # "idle" => request'[h] \in Requests
  BY <1>3 DEF IdentityInv, SentInv
<1> QED BY <1>1, <1>2, <1>4, <1>5, OneRequestSteps

LEMMA KeysArriveKeeps ==
    ASSUME IdentityInv, NEW h \in Handlers, KeysArrive(h)
    PROVE  IdentityInv'
<1>1. /\ phase[h] = "served" /\ now - fetch[h].since <= Timeout /\ fetch[h].keys # {}
      /\ cache' = [keys |-> fetch[h].keys, fetchedAt |-> now]
      /\ fetch' = [fetch EXCEPT ![h] = NoFetch]
      /\ now' = now /\ listed' = listed /\ request' = request /\ changes' = changes
  BY DEF KeysArrive
<1>2. PICK p \in {"accepted", "refused", "unknown_key"} : phase' = [phase EXCEPT ![h] = p]
  BY DEF KeysArrive, Accept, Become
<1>3. /\ fetch[h].since \in Times /\ fetch[h].keys \in SUBSET KeyIds
      /\ KeysSince(fetch[h].keys, fetch[h].since)
  BY <1>1 DEF IdentityInv, IdentityTypeOK, FetchInv, WaitOK, InFetch
<1>4. cache' \in [keys : (SUBSET KeyIds) \ {{}}, fetchedAt : Times]
  BY <1>1, <1>3 DEF IdentityInv, IdentityTypeOK
<1>5. CacheInv'
  <2>1. \A k \in KeyIds : listed[k].from \in Int /\ listed[k].to \in Int
    BY TimesAreNumbers DEF IdentityInv, IdentityTypeOK
  <2>2. now \in Int /\ fetch[h].since \in Int /\ Timeout \in Int
    BY <1>3, TimesAreNumbers, TimingAssumption DEF IdentityInv, IdentityTypeOK
  <2>3. KeysSince(fetch[h].keys, now - Timeout)
    BY <1>1, <1>3, <2>1, <2>2 DEF KeysSince, Listed
  <2> QED BY <1>1, <2>2, <2>3 DEF CacheInv, KeysSince, Listed
<1> QED BY <1>1, <1>2, <1>4, <1>5, EndOfWait

LEMMA FetchFailsKeeps ==
    ASSUME IdentityInv, NEW h \in Handlers, FetchFails(h)
    PROVE  IdentityInv'
<1>1. CacheInv'
  BY CacheInvStays DEF FetchFails, IdentityInv
<1> QED BY <1>1, EndOfWait DEF FetchFails, Become, IdentityInv, IdentityTypeOK

LEMMA RefuseKeeps ==
    ASSUME IdentityInv, NEW h \in Handlers, Refuse(h)
    PROVE  IdentityInv'
<1>1. CacheInv'
  BY CacheInvStays DEF Refuse, IdentityInv
<1>2. fetch' = [fetch EXCEPT ![h] = NoFetch]
  BY DEF Refuse, IdentityInv, IdentityTypeOK
<1> QED BY <1>1, <1>2, EndOfWait DEF Refuse, Become, IdentityInv, IdentityTypeOK

\* The issuer and the clock.
LEMMA IdentityWorldKeeps ==
    ASSUME IdentityInv, IdentityWorld
    PROVE  IdentityInv'
<1>1. UNCHANGED <<cache, phase, request, fetch>>
  BY DEF IdentityWorld, Tick, Publish, Withdraw
<1>2. now' \in Int /\ now \in Int /\ now <= now'
  BY TimesAreNumbers DEF IdentityWorld, Tick, Publish, Withdraw, IdentityInv, IdentityTypeOK
<1>3. IdentityTypeOK'
  <2>1. CASE Tick
    BY <2>1, TimingAssumption DEF Tick, IdentityInv, IdentityTypeOK, Times
  <2>2. ASSUME NEW k \in KeyIds, Publish(k) PROVE IdentityTypeOK'
    BY <2>2, TimingAssumption DEF Publish, Change, IdentityInv, IdentityTypeOK
  <2>3. ASSUME NEW k \in KeyIds, Withdraw(k) PROVE IdentityTypeOK'
    BY <2>3, TimingAssumption DEF Withdraw, Change, IdentityInv, IdentityTypeOK
  <2> QED BY <2>1, <2>2, <2>3 DEF IdentityWorld
<1>4. ListedInv'
  <2>1. \A k \in KeyIds : listed[k].from \in Int
    BY TimesAreNumbers DEF IdentityInv, IdentityTypeOK
  <2>2. CASE Tick
    BY <1>2, <2>1, <2>2 DEF Tick, IdentityInv, ListedInv
  <2>3. ASSUME NEW k \in KeyIds, Publish(k) PROVE ListedInv'
    BY <1>2, <2>3 DEF Publish, IdentityInv, IdentityTypeOK, ListedInv
  <2>4. ASSUME NEW k \in KeyIds, Withdraw(k) PROVE ListedInv'
    BY <1>2, <2>4 DEF Withdraw, IdentityInv, IdentityTypeOK, ListedInv
  <2> QED BY <2>2, <2>3, <2>4 DEF IdentityWorld
<1>5. CacheInv'
  <2> SUFFICES ASSUME cache # NoCache
               PROVE  /\ cache.fetchedAt <= now'
                      /\ KeysSince(cache.keys, cache.fetchedAt - Timeout)'
    BY <1>1 DEF CacheInv
  <2>1. cache.fetchedAt \in Times /\ cache.keys \in SUBSET KeyIds
    BY DEF IdentityInv, IdentityTypeOK
  <2>2. cache.fetchedAt \in Int /\ Timeout \in Nat
    BY <2>1, TimesAreNumbers, TimingAssumption
  <2>3. cache.fetchedAt <= now /\ KeysSince(cache.keys, cache.fetchedAt - Timeout)
    BY DEF IdentityInv, CacheInv
  <2>4. KeysSince(cache.keys, cache.fetchedAt - Timeout)'
    <3> DEFINE since == cache.fetchedAt - Timeout
    <3>1. since \in Int /\ since <= now /\ since' = since
      BY <1>1, <1>2, <2>2, <2>3
    <3> QED BY <1>1, <2>1, <2>3, <3>1, KeysSinceStays DEF IdentityInv
  <2> QED BY <1>2, <2>2, <2>3, <2>4
<1>6. FetchInv'
  <2> SUFFICES ASSUME NEW h \in Handlers PROVE WaitOK(h)'
    BY DEF FetchInv
  <2>1. CASE phase[h] \in InFetch
    <3>1. fetch[h].since \in Times /\ fetch[h].keys \in SUBSET KeyIds
      BY <2>1 DEF InFetch, IdentityInv, IdentityTypeOK
    <3>2. fetch[h].since \in Int
      BY <3>1, TimesAreNumbers
    <3>3. WaitOK(h)
      BY DEF IdentityInv, FetchInv
    <3>4. phase[h] = "served" => KeysSince(fetch[h].keys, fetch[h].since)'
      BY <1>1, <2>1, <3>1, <3>2, <3>3, KeysSinceStays DEF WaitOK, IdentityInv
    <3> QED BY <1>1, <1>2, <2>1, <3>2, <3>3, <3>4 DEF WaitOK
  <2>2. CASE phase[h] \notin InFetch
    BY <1>1, <2>2 DEF WaitOK
  <2> QED BY <2>1, <2>2
<1>7. SentInv'
  BY <1>1 DEF IdentityInv, SentInv
<1> QED BY <1>3, <1>4, <1>5, <1>6, <1>7 DEF IdentityInv

LEMMA IdentityStepKeeps ==
    ASSUME IdentityInv, NEW h \in Handlers, IdentityStep(h)
    PROVE  IdentityInv'
BY ReceiveKeeps, ServeKeeps, KeysArriveKeeps, FetchFailsKeeps, RefuseKeeps DEF IdentityStep

LEMMA IdentityInitHolds == IdentityInit => IdentityInv
BY TimesAreNumbers, TimingAssumption
   DEF IdentityInit, IdentityInv, IdentityTypeOK, Times, ListedInv, CacheInv, FetchInv, WaitOK,
       InFetch, SentInv

\* Past authentication a request is concluded and answered, or forgotten with
\* its process; none of these touches a fetch that another waits for.
LEMMA LaterStepKeeps ==
    ASSUME IdentityInv, NEW h \in Handlers,
           \/ /\ phase[h] = "accepted" /\ phase' = [phase EXCEPT ![h] = "answered"]
              /\ request' = request
           \/ /\ phase[h] = "answered" /\ phase' = [phase EXCEPT ![h] = "idle"]
              /\ request' = [request EXCEPT ![h] = NoRequest],
           UNCHANGED <<now, listed, cache, fetch, changes>>
    PROVE  IdentityInv'
<1>1. CacheInv'
  BY CacheInvStays DEF IdentityInv
<1>2. fetch[h] = NoFetch /\ phase[h] \notin InFetch
  BY DEF InFetch, IdentityInv, IdentityTypeOK
<1>3. IdentityTypeOK'
  BY <1>2 DEF IdentityInv, IdentityTypeOK
<1>4. OthersWait(h)
  BY DEF OthersWait, IdentityInv, IdentityTypeOK
<1>5. WaitOK(h)'
  BY DEF WaitOK, InFetch, IdentityInv, IdentityTypeOK
<1>6. phase'[h] # "idle" => request'[h] \in Requests
  BY DEF IdentityInv, IdentityTypeOK, SentInv
<1> QED BY <1>1, <1>3, <1>4, <1>5, <1>6, OneRequestSteps

LEMMA ChangesKeep ==
    ASSUME IdentityInv, Change, UNCHANGED requestVars
    PROVE  IdentityInv'
<1>1. IdentityTypeOK'
  BY TimingAssumption DEF Change, requestVars, IdentityInv, IdentityTypeOK
<1>2. ListedInv' /\ CacheInv' /\ FetchInv' /\ SentInv'
  BY DEF requestVars, IdentityInv, ListedInv, CacheInv, FetchInv, WaitOK, SentInv, KeysSince,
         Listed
<1> QED BY <1>1, <1>2 DEF IdentityInv

LEMMA RestartKeeps ==
    ASSUME IdentityInv, Restart
    PROVE  IdentityInv'
<1>1. IdentityTypeOK' /\ ListedInv'
  BY DEF Restart, IdentityInv, IdentityTypeOK, ListedInv
<1>2. CacheInv' /\ FetchInv' /\ SentInv'
  BY DEF Restart, CacheInv, FetchInv, WaitOK, InFetch, SentInv
<1> QED BY <1>1, <1>2 DEF IdentityInv

LEMMA IdentityRests ==
    ASSUME IdentityInv, UNCHANGED identityVars
    PROVE  IdentityInv'
BY DEF identityVars, IdentityInv, IdentityTypeOK, ListedInv, CacheInv, FetchInv, WaitOK, SentInv,
       KeysSince, Listed

-------------------------------------------------------------------------------
(***************************************************************************)
(* The evaluators.                                                         *)
(***************************************************************************)
LEMMA AutonomyType ==
    ASSUME NEW i
    PROVE  Autonomy(i) \in {"ALLOW", "BLOCK", "REQUIRE_APPROVAL", "SIMULATE_ONLY"}
<1> DEFINE class == ClassOf(i.capability)
<1>1. CASE class = None
  BY <1>1 DEF Autonomy
<1>2. CASE class # None /\ (class # i.declared \/ class = "A4")
  BY <1>2 DEF Autonomy
<1>3. CASE class # None /\ class = i.declared /\ class # "A4"
  BY <1>3 DEF Autonomy
<1> QED BY <1>1, <1>2, <1>3

\* Autonomy allows reads alone, with their evidence and what they depend on.
LEMMA AutonomyAllows ==
    ASSUME NEW i, Autonomy(i) = "ALLOW"
    PROVE  /\ i.capability \in ReadOnly /\ i.declared = "A0"
           /\ {"evidenceComplete", "dependenciesReady"} \subseteq i.controls
<1> DEFINE class == ClassOf(i.capability)
<1>1. class # None /\ class = i.declared /\ class # "A4"
  BY DEF Autonomy, None
<1>2. Needed(i) \subseteq i.controls /\ class = "A0"
  BY <1>1 DEF Autonomy
<1>3. \E c \in Classes : i.capability \in Constitution[c]
  BY <1>1 DEF ClassOf
<1>4. i.capability \in Constitution["A0"]
  BY <1>2, <1>3 DEF ClassOf
<1> QED BY <1>1, <1>2, <1>4 DEF Constitution, Needed

LEMMA StatusOfAutonomyType ==
    ASSUME NEW actor, NEW i
    PROVE  StatusOfAutonomy(actor, i) \in AdmissionStatus
BY AutonomyType DEF StatusOfAutonomy, AdmissionStatus

LEMMA StatusType ==
    ASSUME NEW actor, NEW v, NEW i
    PROVE  Status(actor, v, i) \in AdmissionStatus
BY StatusOfAutonomyType DEF Status, AdmissionStatus

\* A read is admitted only if every evaluator agrees.
LEMMA StatusAdmits ==
    ASSUME NEW actor, NEW v, NEW i, Status(actor, v, i) = "ADMIT_READ_ONLY"
    PROVE  /\ Speaks(actor, i) /\ Autonomy(i) = "ALLOW"
           /\ Fresh(v, i) /\ ~Synthetic(i)
           /\ Allows(v.policy.row, "agent", i)
<1> DEFINE type == IF Speaks(actor, i) THEN "agent" ELSE actor.type
           unfit == ~Fresh(v, i) \/ (~Synthetic(i) /\ ~Verified(v, i))
<1>1. ~(unfit /\ i.runMode # "SIMULATION") /\ ~Blocked(actor, i)
  BY DEF Status
<1>2. Allows(v.policy.row, type, i) /\ StatusOfAutonomy(actor, i) = "ADMIT_READ_ONLY"
  BY DEF Status
<1>3. Speaks(actor, i) /\ Autonomy(i) = "ALLOW" /\ i.runMode # "SIMULATION"
  BY <1>2, AutonomyType DEF StatusOfAutonomy
<1> QED BY <1>1, <1>2, <1>3 DEF Blocked

-------------------------------------------------------------------------------
(***************************************************************************)
(* What a request has read and seen.                                       *)
(***************************************************************************)
LEMMA ReceiptsDiffer ==
    ASSUME NEW t, NEW u, NEW pinned
    PROVE  [observed |-> t, until |-> u, pinned |-> pinned] # NoReceipt
<1> DEFINE x == [observed |-> t, until |-> u, pinned |-> pinned]
<1>1. "pinned" \in DOMAIN x /\ "pinned" \notin DOMAIN NoReceipt
  BY DEF NoReceipt
<1> QED BY <1>1

ReceiptsStay == \A r \in Receipts : receipts[r] # NoReceipt => receipts'[r] = receipts[r]

LEMMA ViewStays ==
    ASSUME NEW g \in Handlers, ViewOK(g), ReceiptsStay,
           phase'[g] = "accepted" => phase[g] = "accepted",
           request'[g] = request[g], view'[g] = view[g], seen[g] \subseteq seen'[g]
    PROVE  ViewOK(g)'
BY DEF ViewOK, ReceiptsStay, TypeOf, Route, Intent

LEMMA NothingRead ==
    ASSUME NEW g \in Handlers, view'[g] = Blank
    PROVE  ViewOK(g)'
BY DEF ViewOK, Blank

\* A step of h that changes nothing of what others have read.
OthersRead(h) ==
    \A g \in Handlers \ {h} :
        /\ phase'[g] = phase[g] /\ request'[g] = request[g]
        /\ view'[g] = view[g] /\ seen'[g] = seen[g]

LEMMA OneReader ==
    ASSUME IInv, NEW h \in Handlers, OthersRead(h), receipts' = receipts, ViewOK(h)'
    PROVE  ViewInv'
<1>1. \A g \in Handlers \ {h} : ViewOK(g)'
  BY ViewStays DEF OthersRead, ReceiptsStay, IInv, ViewInv
<1> QED BY <1>1 DEF ViewInv

\* Each part of what was read can be read on its own.
LEMMA OrderPart ==
    ASSUME NEW a, NEW b, NEW c, NEW x
    PROVE  [[order |-> a, receipts |-> b, policy |-> c] EXCEPT !["order"] = x]
              = [order |-> x, receipts |-> b, policy |-> c]
OBVIOUS

LEMMA ReceiptsPart ==
    ASSUME NEW a, NEW b, NEW c, NEW x
    PROVE  [[order |-> a, receipts |-> b, policy |-> c] EXCEPT !["receipts"] = x]
              = [order |-> a, receipts |-> x, policy |-> c]
OBVIOUS

LEMMA PolicyPart ==
    ASSUME NEW a, NEW b, NEW c, NEW x
    PROVE  [[order |-> a, receipts |-> b, policy |-> c] EXCEPT !["policy"] = x]
              = [order |-> a, receipts |-> b, policy |-> x]
OBVIOUS

\* A view with one of its parts read.
WithOrder(v, x)    == [order |-> x, receipts |-> v.receipts, policy |-> v.policy]
WithReceipts(v, x) == [order |-> v.order, receipts |-> x, policy |-> v.policy]
WithPolicy(v, x)   == [order |-> v.order, receipts |-> v.receipts, policy |-> x]

LEMMA ViewParts ==
    ASSUME FormInv, NEW h \in Handlers
    PROVE  view[h] = [order |-> view[h].order, receipts |-> view[h].receipts,
                      policy |-> view[h].policy]
BY DEF FormInv

LEMMA OrderRead ==
    ASSUME FormInv, NEW h \in Handlers, NEW x
    PROVE  [view[h] EXCEPT !["order"] = x] = WithOrder(view[h], x)
<1> DEFINE r == [order |-> view[h].order, receipts |-> view[h].receipts, policy |-> view[h].policy]
<1>1. [r EXCEPT !["order"] = x] = WithOrder(view[h], x)
  BY OrderPart DEF WithOrder
<1>2. view[h] = r
  BY ViewParts
<1> HIDE DEF r
<1> QED BY <1>1, <1>2, Zenon

LEMMA ReceiptsRead ==
    ASSUME FormInv, NEW h \in Handlers, NEW x
    PROVE  [view[h] EXCEPT !["receipts"] = x] = WithReceipts(view[h], x)
<1> DEFINE r == [order |-> view[h].order, receipts |-> view[h].receipts, policy |-> view[h].policy]
<1>1. [r EXCEPT !["receipts"] = x] = WithReceipts(view[h], x)
  BY ReceiptsPart DEF WithReceipts
<1>2. view[h] = r
  BY ViewParts
<1> HIDE DEF r
<1> QED BY <1>1, <1>2, Zenon

LEMMA PolicyRead ==
    ASSUME FormInv, NEW h \in Handlers, NEW x
    PROVE  [view[h] EXCEPT !["policy"] = x] = WithPolicy(view[h], x)
<1> DEFINE r == [order |-> view[h].order, receipts |-> view[h].receipts, policy |-> view[h].policy]
<1>1. [r EXCEPT !["policy"] = x] = WithPolicy(view[h], x)
  BY PolicyPart DEF WithPolicy
<1>2. view[h] = r
  BY ViewParts
<1> HIDE DEF r
<1> QED BY <1>1, <1>2, Zenon

\* The three reads.
LEMMA ReadKeeps ==
    ASSUME IInv, NEW h \in Handlers, ReadOrder(h) \/ ReadReceipts(h) \/ ReadPolicy(h)
    PROVE  IInv'
<1>1. /\ phase[h] = "accepted" /\ UNCHANGED identityVars
      /\ order' = order /\ receipts' = receipts /\ active' = active /\ verdict' = verdict
      /\ seen' = [seen EXCEPT ![h] = @ \cup Holds(h)]
  BY DEF ReadOrder, ReadReceipts, ReadPolicy, Read, Pending
<1>2. IdentityInv'
  BY <1>1, IdentityRests DEF IInv
<1>3. /\ phase' = phase /\ request' = request
      /\ view[h] = [order |-> view[h].order, receipts |-> view[h].receipts,
                    policy |-> view[h].policy]
      /\ h \in DOMAIN view /\ h \in DOMAIN seen
  BY <1>1 DEF identityVars, IInv, FormInv
<1>4. seen'[h] = seen[h] \cup Holds(h) /\ DOMAIN seen' = Handlers
      /\ \A g \in Handlers \ {h} : seen'[g] = seen[g]
  BY <1>1, <1>3 DEF IInv, FormInv
<1>5. PICK v : view' = [view EXCEPT ![h] = v] /\
        \/ /\ v = [order |-> [read |-> TRUE, version |-> order.version, content |-> order.content],
                   receipts |-> view[h].receipts, policy |-> view[h].policy]
           /\ Intent(h).context.kind = "ORDER"
        \/ v = [order |-> view[h].order, receipts |-> [read |-> TRUE, rows |-> receipts],
                policy |-> view[h].policy]
        \/ v = [order |-> view[h].order, receipts |-> view[h].receipts,
                policy |-> [read |-> TRUE, row |-> InForce(active)]]
  <2>1. CASE ReadOrder(h)
    <3> DEFINE what == [read |-> TRUE, version |-> order.version, content |-> order.content]
               v == [order |-> what, receipts |-> view[h].receipts, policy |-> view[h].policy]
    <3> HIDE DEF what
    <3>1. [view[h] EXCEPT !["order"] = what] = WithOrder(view[h], what)
      BY OrderRead DEF IInv
    <3>2. view' = [view EXCEPT ![h] = [view[h] EXCEPT !["order"] = what]]
      BY <2>1 DEF ReadOrder, Read, what
    <3>3. view' = [view EXCEPT ![h] = v]
      BY <3>1, <3>2 DEF WithOrder
    <3> QED BY <2>1, <3>3 DEF ReadOrder, what
  <2>2. CASE ReadReceipts(h)
    <3> DEFINE what == [read |-> TRUE, rows |-> receipts]
               v == [order |-> view[h].order, receipts |-> what, policy |-> view[h].policy]
    <3> HIDE DEF what
    <3>1. [view[h] EXCEPT !["receipts"] = what] = WithReceipts(view[h], what)
      BY ReceiptsRead DEF IInv
    <3>2. view' = [view EXCEPT ![h] = [view[h] EXCEPT !["receipts"] = what]]
      BY <2>2 DEF ReadReceipts, Read, what
    <3>3. view' = [view EXCEPT ![h] = v]
      BY <3>1, <3>2 DEF WithReceipts
    <3> QED BY <2>2, <3>3 DEF ReadReceipts, what
  <2>3. CASE ReadPolicy(h)
    <3> DEFINE what == [read |-> TRUE, row |-> InForce(active)]
               v == [order |-> view[h].order, receipts |-> view[h].receipts, policy |-> what]
    <3> HIDE DEF what
    <3>1. [view[h] EXCEPT !["policy"] = what] = WithPolicy(view[h], what)
      BY PolicyRead DEF IInv
    <3>2. view' = [view EXCEPT ![h] = [view[h] EXCEPT !["policy"] = what]]
      BY <2>3 DEF ReadPolicy, Read, what
    <3>3. view' = [view EXCEPT ![h] = v]
      BY <3>1, <3>2 DEF WithPolicy
    <3> QED BY <2>3, <3>3 DEF ReadPolicy, what
  <2> QED BY <2>1, <2>2, <2>3
<1>6. view'[h] = v /\ DOMAIN view' = Handlers /\ \A g \in Handlers \ {h} : view'[g] = view[g]
  BY <1>3, <1>5 DEF IInv, FormInv
<1>7. FormInv'
  BY <1>4, <1>5, <1>6 DEF IInv, FormInv
<1>8. TypeOK'
  BY <1>1, <1>2, <1>3, <1>6 DEF IInv, TypeOK, IdentityInv
<1>9. ViewOK(h)'
  <2>1. ViewOK(h)
    BY DEF IInv, ViewInv
  <2>2. Intent(h)' = Intent(h) /\ TypeOf(h)' = TypeOf(h)
    BY <1>3 DEF Intent, TypeOf, Route
  <2>3. /\ Intent(h).context.kind = "ORDER" /\ order.version = Intent(h).context.version
          /\ order.content = Intent(h).context.content => "order" \in seen'[h]
    <3>1. order = [version |-> order.version, content |-> order.content]
      BY DEF IInv, TypeOK, OrderRow
    <3> QED BY <1>4, <3>1 DEF Holds
  <2>4. InForce(active) # NoPolicy /\ Allows(InForce(active), TypeOf(h), Intent(h))
           => "policy" \in seen'[h]
    <3> SUFFICES ASSUME InForce(active) # NoPolicy,
                        Allows(InForce(active), TypeOf(h), Intent(h))
                 PROVE  "policy" \in Holds(h)
      BY <1>4
    <3> QED BY DEF Holds, TypeOf
  <2>5. CASE v.order # view[h].order
    BY <1>1, <1>3, <1>4, <1>5, <1>6, <2>1, <2>2, <2>3, <2>5 DEF ViewOK
  <2>6. CASE v.receipts # view[h].receipts
    BY <1>1, <1>3, <1>4, <1>5, <1>6, <2>1, <2>2, <2>6 DEF ViewOK
  <2>7. CASE v.policy # view[h].policy
    BY <1>1, <1>3, <1>4, <1>5, <1>6, <2>1, <2>2, <2>4, <2>7 DEF ViewOK
  <2>8. CASE v = view[h]
    BY <1>1, <1>4, <1>6, <2>1, <2>8, <1>3, ViewStays DEF ReceiptsStay
  <2> QED BY <1>3, <1>5, <2>5, <2>6, <2>7, <2>8
<1>10. ViewInv'
  BY <1>1, <1>3, <1>4, <1>6, <1>9, OneReader DEF OthersRead
<1> QED BY <1>2, <1>7, <1>8, <1>10 DEF IInv

Verdicts == AdmissionStatus \cup {"FAILED", "REJECTED", "ALLOW", "DENY", "BLOCK"}

LEMMA ConcludeKeeps ==
    ASSUME IInv, NEW h \in Handlers, NEW a \in Verdicts, phase[h] = "accepted", Conclude(h, a)
    PROVE  IInv'
<1>1. /\ phase' = [phase EXCEPT ![h] = "answered"] /\ request' = request
      /\ verdict' = [verdict EXCEPT ![h] = a]
      /\ view' = [view EXCEPT ![h] = Blank] /\ seen' = [seen EXCEPT ![h] = {}]
      /\ order' = order /\ receipts' = receipts /\ active' = active
      /\ UNCHANGED <<now, listed, cache, fetch, changes>>
  BY DEF Conclude, Become
<1>2. IdentityInv'
  BY <1>1, LaterStepKeeps DEF IInv
<1>3. a # None
  BY DEF Verdicts, AdmissionStatus, None
<1>4. TypeOK'
  BY <1>1, <1>2, <1>3 DEF IInv, TypeOK, IdentityInv, IdentityTypeOK, FormInv, Verdicts
<1>5. FormInv'
  BY <1>1 DEF IInv, FormInv, Blank
<1>6. view'[h] = Blank
  BY <1>1 DEF IInv, FormInv
<1>7. OthersRead(h)
  BY <1>1 DEF OthersRead, IInv, TypeOK, IdentityTypeOK, FormInv
<1> QED BY <1>1, <1>2, <1>4, <1>5, <1>6, <1>7, NothingRead, OneReader DEF IInv

LEMMA RejectKeeps ==
    ASSUME IInv, NEW h \in Handlers, Reject(h) \/ FailClosed(h)
    PROVE  IInv'
BY ConcludeKeeps DEF Reject, FailClosed, Pending, Verdicts

LEMMA EvaluateKeeps ==
    ASSUME IInv, NEW h \in Handlers, Evaluate(h)
    PROVE  IInv'
<1> DEFINE i     == Intent(h)
           actor == Actor(request[h])
           a     == CASE Route(h) = "intent"     -> Status(actor, view[h], i)
                      [] Route(h) = "autonomy"   -> Autonomy(i)
                      [] Route(h) = "governance" ->
                            IF Allowed(actor, view[h].policy.row, i) THEN "ALLOW" ELSE "DENY"
<1>1. phase[h] = "accepted" /\ Conclude(h, a)
  BY DEF Evaluate, Pending
<1>2. Route(h) \in {"intent", "governance", "autonomy"}
  BY <1>1, RequestAssumption DEF Route, Required, IInv, IdentityInv, SentInv
<1>3. Status(actor, view[h], i) \in Verdicts
  BY StatusType DEF Verdicts
<1>4. Autonomy(i) \in Verdicts
  BY AutonomyType DEF Verdicts, AdmissionStatus
<1>5. a \in Verdicts
  <2>1. "ALLOW" \in Verdicts /\ "DENY" \in Verdicts
    BY DEF Verdicts
  <2> QED BY <1>2, <1>3, <1>4, <2>1
<1> HIDE DEF a
<1> QED BY <1>1, <1>5, ConcludeKeeps

LEMMA AnswerKeeps ==
    ASSUME IInv, NEW h \in Handlers, Answer(h)
    PROVE  IInv'
<1>1. /\ phase[h] = "answered" /\ phase' = [phase EXCEPT ![h] = "idle"]
      /\ request' = [request EXCEPT ![h] = NoRequest]
      /\ verdict' = [verdict EXCEPT ![h] = None]
      /\ UNCHANGED <<now, listed, cache, fetch, changes, order, receipts, active, view, seen>>
  BY DEF Answer, Become
<1>2. IdentityInv'
  BY <1>1, LaterStepKeeps DEF IInv
<1>3. view'[h] = Blank
  BY <1>1 DEF IInv, TypeOK
<1>4. TypeOK'
  BY <1>1, <1>2, <1>3 DEF IInv, TypeOK, IdentityInv, IdentityTypeOK, FormInv
<1>5. FormInv'
  BY <1>1 DEF IInv, FormInv
<1>6. OthersRead(h)
  BY <1>1 DEF OthersRead, IInv, TypeOK, IdentityTypeOK
<1> QED BY <1>1, <1>2, <1>3, <1>4, <1>5, <1>6, NothingRead, OneReader DEF IInv

\* A step of authentication comes before anything is read.
LEMMA AuthenticationKeeps ==
    ASSUME IInv, NEW h \in Handlers, IdentityStep(h), UNCHANGED evidenceVars
    PROVE  IInv'
<1>1. IdentityInv'
  BY IdentityStepKeeps DEF IInv
<1>2. PICK p \in {"idle", "fetching", "served", "accepted", "refused", "unknown_key"} :
        phase' = [phase EXCEPT ![h] = p]
  BY DEF IdentityStep, Receive, Serve, KeysArrive, FetchFails, Refuse, Accept, Wait, Become
<1>3. \E r : request' = [request EXCEPT ![h] = r]
  <2>1. request = [request EXCEPT ![h] = request[h]]
    BY DEF IInv, IdentityInv, IdentityTypeOK
  <2> QED BY <2>1 DEF IdentityStep, Receive, Serve, KeysArrive, FetchFails, Refuse
<1>4. phase[h] \notin {"accepted", "answered"}
  BY DEF IdentityStep, Receive, Serve, KeysArrive, FetchFails, Refuse
<1>5. UNCHANGED <<order, receipts, active, view, seen, verdict>>
  BY DEF evidenceVars
<1>6. view'[h] = Blank
  BY <1>4, <1>5 DEF IInv, TypeOK
<1>7. TypeOK'
  BY <1>1, <1>2, <1>4, <1>5, <1>6 DEF IInv, TypeOK, IdentityInv, IdentityTypeOK
<1>8. FormInv'
  BY <1>5 DEF IInv, FormInv
<1>9. OthersRead(h)
  BY <1>2, <1>3, <1>5 DEF OthersRead, IInv, IdentityInv, IdentityTypeOK
<1> QED BY <1>1, <1>5, <1>6, <1>7, <1>8, <1>9, NothingRead, OneReader DEF IInv

-------------------------------------------------------------------------------
(***************************************************************************)
(* What others do to the evidence.                                         *)
(***************************************************************************)
\* A step of none of the requests, which forgets nothing that they have seen.
LEMMA WorldKeeps ==
    ASSUME IInv, IdentityInv', TypeOK', ReceiptsStay, UNCHANGED <<phase, request, view>>,
           DOMAIN seen' = Handlers, \A g \in Handlers : seen[g] \subseteq seen'[g]
    PROVE  IInv'
<1>1. FormInv'
  BY DEF IInv, FormInv
<1>2. ASSUME NEW g \in Handlers PROVE ViewOK(g)'
  BY ViewStays DEF IInv, ViewInv
<1> QED BY <1>1, <1>2 DEF IInv, ViewInv

LEMMA WatchForgetsNothing ==
    ASSUME KeepWatch
    PROVE  DOMAIN seen' = Handlers /\ \A g \in Handlers : seen[g] \subseteq seen'[g]
BY DEF KeepWatch

LEMMA IssuerKeeps ==
    ASSUME IInv, IdentityWorld, UNCHANGED evidenceVars
    PROVE  IInv'
<1>1. IdentityInv'
  BY IdentityWorldKeeps DEF IInv
<1>2. UNCHANGED <<phase, request, order, receipts, active, view, seen, verdict>>
  BY DEF IdentityWorld, Tick, Publish, Withdraw, evidenceVars
<1>3. TypeOK'
  BY <1>1, <1>2 DEF IInv, TypeOK, IdentityInv
<1> QED BY <1>1, <1>2, <1>3, WorldKeeps DEF ReceiptsStay, IInv, FormInv

LEMMA EditKeeps ==
    ASSUME IInv, EditOrder
    PROVE  IInv'
<1>1. UNCHANGED <<now, listed, cache, phase, request, fetch, receipts, active, view, verdict>>
  BY DEF EditOrder, requestVars
<1>2. IdentityInv'
  BY ChangesKeep DEF EditOrder, IInv
<1>3. order' \in OrderRow
  BY DEF EditOrder, IInv, TypeOK, OrderRow
<1>4. TypeOK'
  BY <1>1, <1>2, <1>3 DEF IInv, TypeOK, IdentityInv
<1> QED BY <1>1, <1>2, <1>4, WorldKeeps, WatchForgetsNothing DEF EditOrder, ReceiptsStay

LEMMA ChangePolicyKeeps ==
    ASSUME IInv, NEW p \in Policies, ChangePolicy(p)
    PROVE  IInv'
<1>1. UNCHANGED <<now, listed, cache, phase, request, fetch, order, receipts, view, verdict>>
  BY DEF ChangePolicy, requestVars
<1>2. IdentityInv'
  BY ChangesKeep DEF ChangePolicy, IInv
<1>3. active' \subseteq Policies
  BY DEF ChangePolicy, IInv, TypeOK
<1>4. TypeOK'
  BY <1>1, <1>2, <1>3 DEF IInv, TypeOK, IdentityInv
<1> QED BY <1>1, <1>2, <1>4, WorldKeeps, WatchForgetsNothing DEF ChangePolicy, ReceiptsStay

LEMMA RecordKeeps ==
    ASSUME IInv, NEW r \in Receipts, RecordReadback(r)
    PROVE  IInv'
<1>1. UNCHANGED <<now, listed, cache, phase, request, fetch, order, active, view, seen, verdict>>
  BY DEF RecordReadback, requestVars
<1>2. IdentityInv'
  BY ChangesKeep DEF RecordReadback, IInv
<1>3. PICK pinned \in BOOLEAN :
        receipts' = [receipts EXCEPT
                        ![r] = [observed |-> now, until |-> now + FreshFor, pinned |-> pinned]]
  BY DEF RecordReadback
<1>4. [observed |-> now, until |-> now + FreshFor, pinned |-> pinned]
        \in [observed : Times, until : Nat, pinned : BOOLEAN]
  <2>1. now \in Times /\ now \in Int /\ 0 <= now
    BY TimesAreNumbers DEF IInv, IdentityInv, IdentityTypeOK
  <2> QED BY <2>1, EvidenceAssumption
<1>5. TypeOK'
  BY <1>1, <1>2, <1>3, <1>4 DEF IInv, TypeOK, IdentityInv
<1>6. ReceiptsStay
  BY <1>3 DEF ReceiptsStay, RecordReadback, IInv, TypeOK
<1> QED BY <1>1, <1>2, <1>5, <1>6, WorldKeeps DEF IInv, FormInv

LEMMA ReplaceKeeps ==
    ASSUME IInv, Restart
    PROVE  IInv'
<1>1. IdentityInv'
  BY RestartKeeps DEF IInv
<1>2. TypeOK'
  BY <1>1 DEF Restart, IInv, TypeOK, IdentityInv
<1>3. FormInv' /\ ViewInv'
  BY DEF Restart, FormInv, Blank, ViewInv, ViewOK
<1> QED BY <1>1, <1>2, <1>3 DEF IInv

LEMMA InitHolds == Init => IInv
<1> SUFFICES ASSUME Init PROVE IInv
  OBVIOUS
<1>1. IdentityInv
  BY IdentityInitHolds DEF Init
<1>2. TypeOK
  BY <1>1 DEF Init, IdentityInit, TypeOK, IdentityInv, OrderRow
<1>3. FormInv /\ ViewInv
  BY DEF Init, IdentityInit, FormInv, Blank, ViewInv, ViewOK
<1> QED BY <1>1, <1>2, <1>3 DEF IInv

LEMMA NextKeeps == IInv /\ [Next]_vars => IInv'
<1> SUFFICES ASSUME IInv, [Next]_vars PROVE IInv'
  OBVIOUS
<1>1. ASSUME NEW h \in Handlers, Step(h) PROVE IInv'
  BY <1>1, AuthenticationKeeps, ReadKeeps, EvaluateKeeps, RejectKeeps, AnswerKeeps DEF Step
<1>2. CASE World
  BY <1>2, IssuerKeeps, EditKeeps, ReplaceKeeps, RecordKeeps, ChangePolicyKeeps DEF World
<1>3. CASE UNCHANGED vars
  <2>1. UNCHANGED <<identityVars, phase, request, order, receipts, active, view, seen, verdict>>
    BY <1>3 DEF vars, identityVars, evidenceVars
  <2>2. IdentityInv'
    BY <2>1, IdentityRests DEF IInv
  <2>3. TypeOK'
    BY <2>1, <2>2 DEF IInv, TypeOK, IdentityInv
  <2> QED BY <2>1, <2>2, <2>3, WorldKeeps DEF ReceiptsStay, IInv, FormInv
<1> QED BY <1>1, <1>2, <1>3 DEF Next

LEMMA Invariance == Spec => []IInv
BY InitHolds, NextKeeps, PTL DEF Spec

-------------------------------------------------------------------------------
(***************************************************************************)
(* The theorems.                                                           *)
(***************************************************************************)
\* Every variable holds values of its kind, an answer is there exactly while a
\* request is answered, and only an accepted request has read anything.
\* (resolveLuzioneActor of actor.ts and the routes of AgentIntents)
THEOREM TypeCorrect == Spec => []TypeOK
<1>1. IInv => TypeOK
  BY DEF IInv
<1> QED BY <1>1, Invariance, PTL

\* A request becomes accepted, or one whose key is unknown, as it arrives or when
\* the keys that it waited for do.
LEMMA HowItEnters ==
    ASSUME IInv, [Next]_vars, NEW h \in Handlers, NEW p \in {"accepted", "unknown_key"},
           phase[h] # p, phase'[h] = p
    PROVE  Receive(h) \/ KeysArrive(h)
<1>1. ASSUME NEW g \in Handlers, Step(g) PROVE Receive(h) \/ KeysArrive(h)
  <2>1. /\ DOMAIN phase = Handlers
        /\ \A q : phase' = [phase EXCEPT ![g] = q] => g = h /\ q = p
    BY DEF IInv, IdentityInv, IdentityTypeOK
  <2>2. ~(phase' = phase)
    OBVIOUS
  <2>3. CASE IdentityStep(g)
    <3>1. PICK q : phase' = [phase EXCEPT ![g] = q]
      BY <2>3 DEF IdentityStep, Receive, Serve, KeysArrive, FetchFails, Refuse, Accept, Wait, Become
    <3>2. g = h
      BY <2>1, <3>1
    <3> QED BY <2>1, <2>3, <3>2 DEF IdentityStep, Serve, FetchFails, Refuse, Become
  <2>4. CASE ReadOrder(g) \/ ReadReceipts(g) \/ ReadPolicy(g)
    BY <2>2, <2>4 DEF ReadOrder, ReadReceipts, ReadPolicy, Read, identityVars
  <2>5. CASE Evaluate(g) \/ Reject(g) \/ FailClosed(g) \/ Answer(g)
    BY <2>1, <2>5 DEF Evaluate, Reject, FailClosed, Answer, Conclude, Become
  <2> QED BY <1>1, <2>3, <2>4, <2>5 DEF Step
<1>2. ~World /\ ~UNCHANGED vars
  BY DEF World, IdentityWorld, Tick, Publish, Withdraw, EditOrder, Restart, RecordReadback,
         ChangePolicy, requestVars, vars, identityVars
<1> QED BY <1>1, <1>2 DEF Next

\* What is known of the times of keys and fetches.
LEMMA KnownTimes ==
    ASSUME IInv
    PROVE  /\ now \in Int
           /\ \A k \in KeyIds : listed[k].from \in Int /\ listed[k].to \in Int
           /\ \A h \in Handlers : phase[h] \in InFetch => fetch[h].since \in Int
           /\ cache # NoCache => cache.fetchedAt \in Int /\ cache.keys \subseteq KeyIds
           /\ CacheFor \in Nat \ {0} /\ Cooldown \in Nat \ {0} /\ Timeout \in Nat /\ Skew \in Nat
<1>1. \A h \in Handlers : phase[h] \in InFetch => fetch[h].since \in Times
  BY DEF IInv, IdentityInv, IdentityTypeOK, InFetch
<1>2. cache # NoCache => cache.fetchedAt \in Times /\ cache.keys \subseteq KeyIds
  BY DEF IInv, IdentityInv, IdentityTypeOK
<1>3. now \in Times
  BY DEF IInv, IdentityInv, IdentityTypeOK
<1>4. \A k \in KeyIds : listed[k].from \in Times \cup {Never} /\ listed[k].to \in Times \cup {Never}
  BY DEF IInv, IdentityInv, IdentityTypeOK
<1> QED BY <1>1, <1>2, <1>3, <1>4, TimesAreNumbers, TimingAssumption

\* The moment a workload is accepted.
LEMMA AcceptedIsRecent ==
    ASSUME IInv, [Next]_vars, NEW h \in Handlers,
           phase[h] # "accepted", phase'[h] = "accepted",
           request'[h].credential.kind = "workload"
    PROVE  LET token == request'[h].credential
           IN  /\ listed[token.key].from <= now
               /\ listed[token.key].to > now - CacheFor - Timeout
               /\ token.expires >= now - Skew - Timeout
<1> DEFINE token == request'[h].credential
<1>1. CASE Receive(h)
  <2>1. PICK r \in Callers[h] :
          /\ request' = [request EXCEPT ![h] = r]
          /\ \/ phase' = [phase EXCEPT ![h] = "refused"]
             \/ phase' = [phase EXCEPT ![h] = "unknown_key"]
             \/ phase' = [phase EXCEPT ![h] = "fetching"]
             \/ r.credential.kind = "service-token"
             \/ Valid(r.credential) /\ Cached /\ r.credential.key \in cache.keys
    BY <1>1 DEF Receive, Wait, Become
  <2>2. request'[h] = r /\ \A q : phase' = [phase EXCEPT ![h] = q] => phase'[h] = q
    BY <2>1 DEF IInv, IdentityInv, IdentityTypeOK
  <2>3. Valid(token) /\ Cached /\ token.key \in cache.keys
    BY <2>1, <2>2
  <2>4. token \in Credentials
    BY <2>2, SentRequest
  <2>5. token.key \in KeyIds /\ token.expires \in Int
    BY <2>4, WorkloadFields, TimesAreNumbers
  <2>6. /\ cache # NoCache /\ cache.fetchedAt + CacheFor > now
        /\ listed[token.key].from <= now /\ listed[token.key].to >= cache.fetchedAt - Timeout
    BY <2>3 DEF Cached, IInv, IdentityInv, CacheInv, KeysSince
  <2>7. token.expires >= now - Skew
    BY <2>3 DEF Valid, Live
  <2> HIDE DEF token
  <2>8. listed[token.key].to > now - CacheFor - Timeout
    BY <2>5, <2>6, KnownTimes
  <2>9. token.expires >= now - Skew - Timeout
    BY <2>5, <2>7, KnownTimes
  <2> QED BY <2>6, <2>8, <2>9 DEF token
<1>2. CASE KeysArrive(h)
  <2>1. /\ phase[h] = "served" /\ now - fetch[h].since <= Timeout
        /\ token.key \in fetch[h].keys /\ token = request[h].credential
    BY <1>2 DEF KeysArrive, Become, IInv, IdentityInv, IdentityTypeOK
  <2>2. phase[h] \in InFetch /\ WaitOK(h)
    BY <2>1 DEF InFetch, IInv, IdentityInv, FetchInv
  <2>3. token \in Credentials /\ token.expires >= fetch[h].since - Skew
    BY <2>1, <2>2 DEF WaitOK
  <2>4. token.key \in KeyIds /\ token.expires \in Int
    BY <2>3, WorkloadFields, TimesAreNumbers
  <2>5. listed[token.key].from <= now /\ listed[token.key].to >= fetch[h].since
    BY <2>1, <2>2 DEF WaitOK, KeysSince
  <2> HIDE DEF token
  <2>6. listed[token.key].to > now - CacheFor - Timeout
    BY <2>1, <2>2, <2>4, <2>5, KnownTimes
  <2>7. token.expires >= now - Skew - Timeout
    BY <2>1, <2>2, <2>3, <2>4, KnownTimes
  <2> QED BY <2>5, <2>6, <2>7 DEF token
<1> QED BY <1>1, <1>2, HowItEnters

\* A workload is accepted only on a key that was listed, at the latest, as long ago
\* as keys are kept and a fetch may take, whatever overtakes what.
\* (loadVercelJwks and resolveVercelWorkloadIdentity of actor.ts)
THEOREM AcceptedIdentityIsRecentCorrect == Spec => AcceptedIdentityIsRecent
<1>1. ASSUME IInv, [Next]_vars
      PROVE  [\A h \in Handlers :
                 /\ phase[h] # "accepted" /\ phase'[h] = "accepted"
                 /\ request'[h].credential.kind = "workload"
                 => LET token == request'[h].credential
                    IN  /\ listed[token.key].from <= now
                        /\ listed[token.key].to > now - CacheFor - Timeout
                        /\ token.expires >= now - Skew - Timeout]_identityVars
  BY <1>1, AcceptedIsRecent
<1> QED BY <1>1, Invariance, PTL DEF Spec, AcceptedIdentityIsRecent

\* The moment a key is found to be unknown.
LEMMA UnknownIsNew ==
    ASSUME IInv, [Next]_vars, NEW h \in Handlers,
           phase[h] # "unknown_key", phase'[h] = "unknown_key",
           request'[h].credential.key \in Listed
    PROVE  listed[request'[h].credential.key].from > now - Cooldown - Timeout
<1> DEFINE key == request'[h].credential.key
<1>1. key \in KeyIds
  BY DEF Listed
<1>2. CASE Receive(h)
  <2>1. PICK r \in Callers[h] :
          /\ request' = [request EXCEPT ![h] = r]
          /\ \/ phase' = [phase EXCEPT ![h] = "refused"]
             \/ phase' = [phase EXCEPT ![h] = "accepted"]
             \/ phase' = [phase EXCEPT ![h] = "fetching"]
             \/ Cached /\ Recent /\ r.credential.key \notin cache.keys
    BY <1>2 DEF Receive, Accept, Wait, Become
  <2>2. request'[h] = r /\ \A q : phase' = [phase EXCEPT ![h] = q] => phase'[h] = q
    BY <2>1 DEF IInv, IdentityInv, IdentityTypeOK
  <2>3. Recent /\ key \notin cache.keys
    BY <2>1, <2>2
  <2>4. /\ cache # NoCache /\ cache.fetchedAt > now - Cooldown
        /\ listed[key].from >= cache.fetchedAt - Timeout
    BY <2>3 DEF Recent, IInv, IdentityInv, CacheInv, KeysSince
  <2> HIDE DEF key
  <2>5. listed[key].from > now - Cooldown - Timeout
    BY <1>1, <2>4, KnownTimes
  <2> QED BY <2>5 DEF key
<1>3. CASE KeysArrive(h)
  <2>1. /\ phase[h] = "served" /\ now - fetch[h].since <= Timeout
        /\ key \notin fetch[h].keys
    BY <1>3 DEF KeysArrive, Accept, Become, IInv, IdentityInv, IdentityTypeOK
  <2>2. phase[h] \in InFetch /\ WaitOK(h)
    BY <2>1 DEF InFetch, IInv, IdentityInv, FetchInv
  <2>3. listed[key].from >= fetch[h].since
    BY <2>1, <2>2 DEF WaitOK, KeysSince
  <2> HIDE DEF key
  <2>4. listed[key].from > now - Cooldown - Timeout
    BY <1>1, <2>1, <2>2, <2>3, KnownTimes
  <2> QED BY <2>4 DEF key
<1> QED BY <1>2, <1>3, HowItEnters

\* A listed key is unknown to the process only while it is new.
\* (loadVercelJwks of actor.ts)
THEOREM RefusedKeyIsNewCorrect == Spec => RefusedKeyIsNew
<1>1. ASSUME IInv, [Next]_vars
      PROVE  [\A h \in Handlers :
                 /\ phase[h] # "unknown_key" /\ phase'[h] = "unknown_key"
                 /\ request'[h].credential.key \in Listed
                 => listed[request'[h].credential.key].from > now - Cooldown - Timeout]_identityVars
  BY <1>1, UnknownIsNew
<1> QED BY <1>1, Invariance, PTL DEF Spec, RefusedKeyIsNew

\* The moment a request is admitted.
LEMMA AdmittedIsSeen ==
    ASSUME IInv, NEW h \in Handlers, Evaluate(h), verdict'[h] \in {"ADMIT_READ_ONLY", "ALLOW"}
    PROVE  LET i == Intent(h)
               c == i.context
           IN  /\ i.capability \in ReadOnly /\ i.declared = "A0"
               /\ {"evidenceComplete", "dependenciesReady"} \subseteq i.controls
               /\ i.added \cap {"authority", "authorityGrant", "actorType", "tenantId"} = {}
               /\ Route(h) = "autonomy" \/ "policy" \in seen[h]
               /\ Route(h) = "intent" =>
                     /\ Speaks(Actor(request[h]), i)
                     /\ \/ c.kind = "ORDER" /\ "order" \in seen[h]
                        \/ /\ c.kind = "READBACKS"
                           /\ \A r \in c.receipts :
                                 /\ receipts[r] # NoReceipt /\ receipts[r].pinned
                                 /\ now - receipts[r].observed <= MaxAge
                                 /\ now < receipts[r].until
<1> DEFINE i     == Intent(h)
           c     == i.context
           v     == view[h]
           actor == Actor(request[h])
           a     == CASE Route(h) = "intent"     -> Status(actor, v, i)
                      [] Route(h) = "autonomy"   -> Autonomy(i)
                      [] Route(h) = "governance" ->
                            IF Allowed(actor, v.policy.row, i) THEN "ALLOW" ELSE "DENY"
<1>1. /\ phase[h] = "accepted" /\ Parsed(h)
      /\ c.kind = "ORDER" => v.order # Unread
      /\ c.kind = "READBACKS" => v.receipts # Unread
      /\ Route(h) # "autonomy" => v.policy # Unread /\ v.policy.row # NoPolicy
      /\ verdict' = [verdict EXCEPT ![h] = a]
  BY DEF Evaluate, Conclude, Pending
<1>2. a \in {"ADMIT_READ_ONLY", "ALLOW"}
  <2> HIDE DEF a
  <2> QED BY <1>1 DEF IInv, TypeOK
<1>3. ViewOK(h) /\ request[h] \in Requests
  BY <1>1 DEF IInv, ViewInv, IdentityInv, SentInv
<1>4. i.added \cap {"authority", "authorityGrant", "actorType", "tenantId"} = {}
  BY <1>1 DEF Parsed, AssertsNothing, AddsNothing, ClientAuthority
<1>5. CASE Route(h) = "intent"
  <2>1. Status(actor, v, i) = "ADMIT_READ_ONLY"
    BY <1>2, <1>5, StatusType DEF AdmissionStatus
  <2>2. /\ Speaks(actor, i) /\ Autonomy(i) = "ALLOW" /\ Fresh(v, i) /\ ~Synthetic(i)
        /\ Allows(v.policy.row, "agent", i)
    BY <2>1, StatusAdmits
  <2>3. "policy" \in seen[h]
    BY <1>1, <1>3, <1>5, <2>2 DEF ViewOK, TypeOf
  <2>4. CASE c.kind = "ORDER"
    <3>1. v.order.version = c.version /\ v.order.content = c.content
      BY <2>2, <2>4 DEF Fresh
    <3>2. "order" \in seen[h]
      BY <1>1, <1>3, <2>4, <3>1 DEF ViewOK
    <3> QED BY <1>4, <1>5, <2>2, <2>3, <2>4, <3>2, AutonomyAllows
  <2>5. CASE c.kind = "READBACKS"
    <3>1. ASSUME NEW r \in c.receipts
          PROVE  /\ receipts[r] # NoReceipt /\ receipts[r].pinned
                 /\ now - receipts[r].observed <= MaxAge /\ now < receipts[r].until
      <4>1. r \in Receipts
        BY <1>3, <2>5, EvidenceAssumption DEF Intent
      <4>2. v.receipts.rows[r] # NoReceipt /\ v.receipts.rows[r].pinned /\ Current(v, r)
        BY <2>2, <2>5 DEF Fresh, Verified
      <4>3. receipts[r] = v.receipts.rows[r]
        BY <1>1, <1>3, <2>5, <4>1, <4>2 DEF ViewOK
      <4>4. receipts[r].until \in Int /\ now \in Int
        BY <4>1, <4>2, <4>3, KnownTimes DEF IInv, TypeOK
      <4> QED BY <4>2, <4>3, <4>4 DEF Current
    <3> QED BY <1>4, <1>5, <2>2, <2>3, <2>5, <3>1, AutonomyAllows
  <2> QED BY <2>2, <2>4, <2>5 DEF Fresh, Synthetic
<1>6. CASE Route(h) = "governance"
  <2>1. Allows(v.policy.row, actor.type, i) /\ Autonomy(i) = "ALLOW"
    BY <1>2, <1>6 DEF Allowed
  <2>2. "policy" \in seen[h]
    BY <1>1, <1>3, <1>6, <2>1 DEF ViewOK, TypeOf
  <2> QED BY <1>4, <1>6, <2>1, <2>2, AutonomyAllows
<1>7. CASE Route(h) = "autonomy"
  <2>1. Autonomy(i) = "ALLOW"
    BY <1>2, <1>7, AutonomyType
  <2> QED BY <1>4, <1>7, <2>1, AutonomyAllows
<1>8. Route(h) \in {"intent", "governance", "autonomy"}
  BY <1>3, RequestAssumption DEF Route, Required
<1> QED BY <1>5, <1>6, <1>7, <1>8

\* An intent is admitted, or a plan allowed, on evidence and a policy that were as
\* they are read at some moment of the request, and on receipts that are so still.
\* (POST of the routes, verifySultanAgentContext, evaluateSultanAgentIntent)
THEOREM AdmittedOnEvidenceCorrect == Spec => AdmittedOnEvidence
<1>1. ASSUME IInv, [Next]_vars, NEW h \in Handlers,
             verdict[h] = None, verdict'[h] \in {"ADMIT_READ_ONLY", "ALLOW"}
      PROVE  Evaluate(h)
  <2>1. verdict' # verdict /\ verdict'[h] \notin {None, "FAILED", "REJECTED"}
    BY <1>1 DEF None
  <2>2. \A g \in Handlers : \A a : verdict' = [verdict EXCEPT ![g] = a] =>
                                     g = h /\ a = verdict'[h]
    <3>1. /\ verdict = [g \in Handlers |-> verdict[g]]
          /\ verdict'[h] # verdict[h]
      BY <1>1, <2>1 DEF IInv, TypeOK
    <3> QED BY <3>1
  <2>3. ASSUME NEW g \in Handlers, Step(g) PROVE Evaluate(h)
    <3>1. CASE Evaluate(g) \/ Reject(g) \/ FailClosed(g) \/ Answer(g)
      BY <2>1, <2>2, <3>1 DEF Evaluate, Reject, FailClosed, Answer, Conclude
    <3>2. CASE IdentityStep(g) /\ UNCHANGED evidenceVars
      BY <2>1, <3>2 DEF evidenceVars
    <3>3. CASE ReadOrder(g) \/ ReadReceipts(g) \/ ReadPolicy(g)
      BY <2>1, <3>3 DEF ReadOrder, ReadReceipts, ReadPolicy, Read
    <3> QED BY <2>3, <3>1, <3>2, <3>3 DEF Step
  <2>4. ~World /\ ~UNCHANGED vars
    BY <1>1, <2>1 DEF World, EditOrder, Restart, RecordReadback, ChangePolicy, vars, evidenceVars
  <2> QED BY <1>1, <2>3, <2>4 DEF Next
<1>2. ASSUME IInv, [Next]_vars
      PROVE  [\A h \in Handlers :
                 verdict[h] = None /\ verdict'[h] \in {"ADMIT_READ_ONLY", "ALLOW"} =>
                    LET i == Intent(h)
                        c == i.context
                    IN  /\ i.capability \in ReadOnly /\ i.declared = "A0"
                        /\ {"evidenceComplete", "dependenciesReady"} \subseteq i.controls
                        /\ i.added \cap {"authority", "authorityGrant", "actorType", "tenantId"} = {}
                        /\ Route(h) = "autonomy" \/ "policy" \in seen[h]
                        /\ Route(h) = "intent" =>
                              /\ Speaks(Actor(request[h]), i)
                              /\ \/ c.kind = "ORDER" /\ "order" \in seen[h]
                                 \/ /\ c.kind = "READBACKS"
                                    /\ \A r \in c.receipts :
                                          /\ receipts[r] # NoReceipt /\ receipts[r].pinned
                                          /\ now - receipts[r].observed <= MaxAge
                                          /\ now < receipts[r].until]_vars
  BY <1>1, <1>2, AdmittedIsSeen
<1> QED BY <1>2, Invariance, PTL DEF Spec, AdmittedOnEvidence
===============================================================================
