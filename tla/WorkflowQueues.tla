---------------------------- MODULE WorkflowQueues ----------------------------
(***************************************************************************)
(* The inbox, the timers and the workflow instances of a tenant.           *)
(*                                                                         *)
(* A message from a producer and a timer that is due are worked on under a *)
(* lease, which a worker loses when it lapses: the next claim gives the    *)
(* row to whoever asks.  A lease names its worker and not the claim, so a  *)
(* worker that claims a row again has two calls at work on it.  Nothing    *)
(* but what a worker was told at its claims, "held", is kept by a worker;  *)
(* a crash loses it.  Instances move by commands that name their version.  *)
(***************************************************************************)
EXTENDS Integers, FiniteSets

CONSTANTS
    Workers,    \* validated identifiers of workers
    Messages,   \* messages, by producer and producer_message_id
    Payloads,   \* digests of payloads
    Timers,     \* timers
    Flows,      \* workflow instances
    FireAt,     \* when a timer is due
    Lease,      \* how long a lease lasts: 60 seconds
    Limit,      \* rows per claim
    MaxTime,    \* bound: the clock
    MaxVersion  \* bound: versions of an instance

Jobs  == Messages \cup Timers
Times == 0 .. MaxTime
None  == "none"

ASSUME JobAssumption == /\ Messages \cap Timers = {}
                        /\ FireAt \in [Timers -> Nat]
                        /\ None \notin Workers \cup Payloads
ASSUME BoundAssumption == /\ Lease \in Nat \ {0} /\ Limit \in Nat \ {0}
                          /\ MaxTime \in Nat /\ MaxVersion \in Nat \ {0}

WorkflowState ==
    {"PLANNED", "RUNNING", "WAITING_FOR_FACT", "WAITING_FOR_HUMAN", "WAITING_FOR_PROVIDER",
     "RESUMING", "COMPENSATING", "COMPLETED", "FAILED", "CANCELLED", "SUPERSEDED", "QUARANTINED"}

VARIABLES
    now,    \* the clock of the database
    jobs,   \* p110_inbox_messages and p111_workflow_timers
    dead,   \* messages with a row of p110_dead_letters
    flows,  \* p111_workflow_instances
    halted, \* an active kill switch of scope GLOBAL
    held,   \* for each worker, the claims it has not concluded
    told    \* whose payload producers were told is accepted, and workers were given,
            \* never forgotten (bookkeeping)

vars == <<now, jobs, dead, flows, halted, held, told>>

NoJob  == [state |-> None]
Free   == [owner |-> None, until |-> 0]

-------------------------------------------------------------------------------
\* The states that each command leads to and from.
Transition(command) ==
    CASE command = "START_FLOW"              -> {<<"PLANNED", "RUNNING">>}
      [] command = "PAUSE_FOR_FACT"          -> {<<"RUNNING", "WAITING_FOR_FACT">>}
      [] command = "PAUSE_FOR_HUMAN"         -> {<<"RUNNING", "WAITING_FOR_HUMAN">>}
      [] command = "ACKNOWLEDGE_PROVIDER"    -> {<<"RUNNING", "WAITING_FOR_PROVIDER">>}
      [] command = "RESUME_FLOW"             ->
            {"WAITING_FOR_FACT", "WAITING_FOR_HUMAN", "QUARANTINED"} \X {"RESUMING"}
      [] command = "CONFIRM_SOURCE_READBACK" ->
            {"RUNNING", "WAITING_FOR_PROVIDER", "COMPENSATING"} \X {"COMPLETED"}
      [] command = "RECONCILE_SOURCE"        ->
            ({"WAITING_FOR_PROVIDER", "FAILED", "CANCELLED", "QUARANTINED"} \X {"RESUMING"})
                \cup {<<"RESUMING", "RUNNING">>}
      [] command = "RETRY_SAFE_STEP"         -> {<<"RESUMING", "RUNNING">>, <<"FAILED", "RESUMING">>}
      [] command = "FAIL_CURRENT_STEP"       ->
            {"RUNNING", "WAITING_FOR_PROVIDER", "RESUMING", "COMPENSATING"} \X {"FAILED"}
      [] command = "QUARANTINE_FLOW"         -> {"COMPENSATING", "FAILED"} \X {"QUARANTINED"}
      [] command = "CANCEL_FUTURE_WORK"      ->
            {"PLANNED", "RUNNING", "WAITING_FOR_FACT", "WAITING_FOR_HUMAN",
             "WAITING_FOR_PROVIDER", "RESUMING"} \X {"CANCELLED"}
      [] command = "SUPERSEDE_FLOW"          ->
            (WorkflowState \ {"RESUMING", "COMPENSATING", "SUPERSEDED"}) \X {"SUPERSEDED"}

\* Commands that an active kill switch lets pass.
Containing == {"CANCEL_FUTURE_WORK", "QUARANTINE_FLOW", "RECONCILE_SOURCE", "SUPERSEDE_FLOW"}

Commands ==
    Containing \cup
    {"START_FLOW", "PAUSE_FOR_FACT", "PAUSE_FOR_HUMAN", "ACKNOWLEDGE_PROVIDER",
     "RESUME_FLOW", "CONFIRM_SOURCE_READBACK", "RETRY_SAFE_STEP", "FAIL_CURRENT_STEP"}

Ends == {"COMPLETED", "CANCELLED", "SUPERSEDED"}

-------------------------------------------------------------------------------
Waiting(j) == IF j \in Messages THEN "RECEIVED" ELSE "SCHEDULED"
Working(j) == IF j \in Messages THEN "PROCESSING" ELSE "CLAIMED"
Concluded(j) == IF j \in Messages THEN "PROCESSED" ELSE "FIRED"

Init ==
    /\ now = 0
    /\ jobs = [j \in Jobs |-> IF j \in Messages THEN NoJob
                              ELSE [state |-> "SCHEDULED", payload |-> None, lease |-> Free]]
    /\ dead = {}
    /\ flows = [f \in Flows |-> [state |-> "PLANNED", version |-> 1,
                                 started |-> FALSE, completed |-> FALSE]]
    /\ halted = FALSE
    /\ held = [w \in Workers |-> {}]
    /\ told = {}

\* Mutant: as long as a message waits, a later delivery replaces it.
AbsentOrWaits(m) == jobs[m] = NoJob \/ jobs[m].state = "RECEIVED"

Absent(m) == jobs[m] = NoJob

SamePayload(m, p) == jobs[m].payload = p

\* A producer delivers a message, perhaps again, perhaps with another payload,
\* under the advisory lock of the message.  With another payload it is refused
\* (INBOX_PAYLOAD_CONFLICT), and may ask again.
AcceptInbox(m, p) ==
    /\ \/ /\ Absent(m)
          /\ jobs' = [jobs EXCEPT ![m] = [state |-> "RECEIVED", payload |-> p, lease |-> Free]]
       \/ /\ ~ Absent(m) /\ SamePayload(m, p)
          /\ UNCHANGED jobs
    /\ told' = told \cup {[message |-> m, payload |-> p]}
    /\ UNCHANGED <<now, dead, flows, halted, held>>

\* Mutant: a lease lapses a moment too early.
LapsedEarly(j) == jobs[j].state = Working(j) /\ jobs[j].lease.until <= now + 1

Lapsed(j) == jobs[j].state = Working(j) /\ jobs[j].lease.until <= now

Due(j) == /\ jobs[j].state = Waiting(j) \/ Lapsed(j)
          /\ j \in Timers => FireAt[j] <= now

\* A claim first frees the lapsed rows of its kind; a locked row is skipped.
Claim(w, kind) ==
    /\ \E S \in SUBSET {j \in kind : Due(j)} :
        /\ Cardinality(S) <= Limit
        /\ jobs' = [j \in Jobs |->
                      IF j \in S
                      THEN [jobs[j] EXCEPT !.state = Working(j),
                                           !.lease = [owner |-> w, until |-> now + Lease]]
                      ELSE IF j \in kind /\ Lapsed(j)
                      THEN [jobs[j] EXCEPT !.state = Waiting(j), !.lease = Free]
                      ELSE jobs[j]]
        /\ held' = [held EXCEPT ![w] = @ \cup {[job |-> j, until |-> now + Lease] : j \in S}]
        /\ told' = told \cup {[message |-> m, payload |-> jobs[m].payload] : m \in S \cap Messages}
    /\ UNCHANGED <<now, dead, flows, halted>>

ClaimDueInbox(w)  == Claim(w, Messages)
ClaimDueTimers(w) == Claim(w, Timers)

\* Mutant: whoever has claimed the row concludes it.
OwnsByName(w, j) == jobs[j] # NoJob

\* Mutant: a lease that has lapsed counts until another worker claims the row.
OwnsAfterLapse(w, j) == jobs[j].state = Working(j) /\ jobs[j].lease.owner = w

\* LEASE_NOT_OWNED otherwise; it names the worker, not the claim.
Owns(w, j) ==
    /\ jobs[j].state = Working(j)
    /\ jobs[j].lease.owner = w /\ jobs[j].lease.until > now

Conclude(w, c, state) ==
    /\ c \in held[w]
    /\ Owns(w, c.job)
    /\ jobs' = [jobs EXCEPT ![c.job].state = state, ![c.job].lease = Free]
    /\ held' = [held EXCEPT ![w] = @ \ {c}]
    /\ UNCHANGED <<now, flows, halted, told>>

CompleteInbox(w, c) == c.job \in Messages /\ Conclude(w, c, "PROCESSED") /\ UNCHANGED dead

FireTimer(w, c) == c.job \in Timers /\ Conclude(w, c, "FIRED") /\ UNCHANGED dead

DeadLetterInbox(w, c) ==
    /\ c.job \in Messages
    /\ Conclude(w, c, "DEAD_LETTERED")
    /\ dead' = dead \cup {c.job}

\* A call that finds its lease gone is refused, and drops the claim.
Refused(w, c) ==
    /\ c \in held[w] /\ ~ Owns(w, c.job)
    /\ held' = [held EXCEPT ![w] = @ \ {c}]
    /\ UNCHANGED <<now, jobs, dead, flows, halted, told>>

Crash(w) ==
    /\ held[w] # {}
    /\ held' = [held EXCEPT ![w] = {}]
    /\ UNCHANGED <<now, jobs, dead, flows, halted, told>>

\* STALE_FLOW_VERSION unless the command names the version that is locked.
TransitionWorkflow(f, command, version) ==
    LET row == flows[f]
    IN  /\ version = row.version /\ version < MaxVersion
        /\ halted => command \in Containing
        /\ \E next \in {t[2] : t \in {t \in Transition(command) : t[1] = row.state}} :
              flows' = [flows EXCEPT ![f] =
                  [state     |-> next,
                   version   |-> version + 1,
                   started   |-> row.started \/ next = "RUNNING",
                   completed |-> row.completed \/ next \in Ends]]
        /\ UNCHANGED <<now, jobs, dead, halted, held, told>>

Halt ==
    /\ halted' = ~ halted
    /\ UNCHANGED <<now, jobs, dead, flows, held, told>>

Tick ==
    /\ now < MaxTime
    /\ now' = now + 1
    /\ UNCHANGED <<jobs, dead, flows, halted, held, told>>

Next ==
    \/ \E m \in Messages, p \in Payloads : AcceptInbox(m, p)
    \/ \E w \in Workers : ClaimDueInbox(w) \/ ClaimDueTimers(w) \/ Crash(w)
    \/ \E w \in Workers : \E c \in held[w] :
           CompleteInbox(w, c) \/ DeadLetterInbox(w, c) \/ FireTimer(w, c) \/ Refused(w, c)
    \/ \E f \in Flows, command \in Commands, v \in 1 .. MaxVersion : TransitionWorkflow(f, command, v)
    \/ Halt
    \/ Tick

Spec == Init /\ [][Next]_vars

-------------------------------------------------------------------------------
Leases == [owner : Workers \cup {None}, until : Nat]

JobStates == {"RECEIVED", "PROCESSING", "PROCESSED", "SCHEDULED", "CLAIMED", "FIRED", "DEAD_LETTERED"}

Row == [state : JobStates, payload : Payloads \cup {None}, lease : Leases]

Instance == [state : WorkflowState, version : 1 .. MaxVersion, started : BOOLEAN, completed : BOOLEAN]

\* Rows and claims have their forms, a row has an owner exactly while it is worked
\* on, and a workflow that has ended says when (the CHECKs of p110 and p111).
TypeOK ==
    /\ now \in Times /\ halted \in BOOLEAN
    /\ \A j \in Jobs :
        \/ jobs[j] = NoJob /\ j \in Messages
        \/ /\ jobs[j] \in Row
           /\ jobs[j].state \in {Waiting(j), Working(j), Concluded(j), "DEAD_LETTERED"}
           /\ jobs[j].lease.owner # None <=> jobs[j].state = Working(j)
    /\ \A w \in Workers : held[w] \subseteq [job : Jobs, until : Nat]
    /\ told \subseteq [message : Messages, payload : Payloads \cup {None}]
    /\ \A f \in Flows : /\ flows[f] \in Instance
                        /\ flows[f].state # "COMPENSATING"
                        /\ flows[f].state \in {"COMPLETED", "CANCELLED", "SUPERSEDED"} => flows[f].completed
                        /\ flows[f].state = "RUNNING" => flows[f].started

\* Two workers never hold leases on one row that both still run, whatever crashed,
\* lapsed or was claimed again; the one that runs is the owner on record.
LeaseIsExclusive ==
    \A w, v \in Workers : \A c \in held[w], d \in held[v] :
        /\ c.job = d.job /\ c.until > now /\ d.until > now => w = v
        /\ c.job = d.job /\ c.until > now /\ jobs[c.job].state = Working(c.job) =>
               jobs[c.job].lease.owner = w

\* A message is dead-lettered, with its row of evidence, or processed, or neither,
\* and a timer fires, once and for good; an instance that is superseded stays so,
\* and one that is completed can only be superseded.
OutcomesAreFinal ==
    [][/\ \A j \in Jobs :
            jobs[j].state \in {Concluded(j), "DEAD_LETTERED"} => jobs'[j] = jobs[j]
       /\ \A m \in Messages : m \in dead' <=> jobs'[m].state = "DEAD_LETTERED"
       /\ \A f \in Flows :
            /\ flows[f].state = "SUPERSEDED" => flows'[f] = flows[f]
            /\ flows[f].state = "COMPLETED" => flows'[f].state \in {"COMPLETED", "SUPERSEDED"}]_vars

\* Of a message there is one payload for good: whoever was ever told that it is
\* accepted sent the payload on record, and whoever was ever given it to work on
\* was given that one, however often it was delivered, claimed, lost or concluded
\* (acceptInbox: the advisory lock and INBOX_PAYLOAD_CONFLICT; claimDueInbox).
AcceptedPayloadStands ==
    \A t \in told : jobs[t.message] # NoJob /\ jobs[t.message].payload = t.payload

-------------------------------------------------------------------------------
\* Of a row the queue shows how far it is, and which workers hold a claim on it
\* that still runs while it is worked on.
StatusOf(j) ==
    CASE jobs[j] = NoJob -> "absent"
      [] jobs[j].state = Waiting(j) -> "waiting"
      [] jobs[j].state = Working(j) -> "taken"
      [] jobs[j].state = Concluded(j) -> "done"
      [] jobs[j].state = "DEAD_LETTERED" -> "dead"

HoldersOf(j) ==
    {w \in Workers : jobs[j].state = Working(j) /\ \E c \in held[w] : c.job = j /\ c.until > now}

Queue == INSTANCE LeaseQueue WITH
    Items   <- Jobs,
    Takers  <- Workers,
    status  <- [j \in Jobs |-> StatusOf(j)],
    holders <- [j \in Jobs |-> HoldersOf(j)]

\* Inbox and timers are queues under leases: a row is given out only when no claim
\* on it runs and concluded only by a worker whose claim runs, although the store
\* compares names and a worker may have claimed the row before.
\* (claimDueInbox, claimDueTimers, completeInbox, deadLetterInbox, fireTimer)
KeepsQueue == Queue!Spec
===============================================================================
