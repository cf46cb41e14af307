----------------------- MODULE WorkflowQueues_proofs -----------------------
(***************************************************************************)
(* Proofs about WorkflowQueues, for any number of workers, messages,       *)
(* timers and instances, any length of a lease and any times.              *)
(*                                                                         *)
(* The invariant ties what a worker was told to the row: a claim whose     *)
(* lease still runs is the lease on record, or the row is concluded.       *)
(* Hence no row whose lease runs is due, and a new claim meets no running  *)
(* one.  Tick only ends leases.                                            *)
(***************************************************************************)
EXTENDS WorkflowQueues, TLAPS

\* Every variable has its type.
TypeInv ==
    /\ now \in Times
    /\ halted \in BOOLEAN
    /\ jobs \in [Jobs -> Row \cup {NoJob}]
    /\ flows \in [Flows -> Instance]
    /\ held \in [Workers -> SUBSET [job : Jobs, until : Nat]]
    /\ told \subseteq [message : Messages, payload : Payloads \cup {None}]

\* The rows of inbox and timers: their states, and an owner exactly while one
\* works on them.
JobOK(j) ==
    \/ jobs[j] = NoJob /\ j \in Messages
    \/ /\ jobs[j] \in Row
       /\ jobs[j].state \in {Waiting(j), Working(j), Concluded(j), "DEAD_LETTERED"}
       /\ jobs[j].lease.owner # None <=> jobs[j].state = Working(j)

JobInv == \A j \in Jobs : JobOK(j)

FlowOK(f) ==
    /\ flows[f].state # "COMPENSATING"
    /\ flows[f].state \in Ends => flows[f].completed
    /\ flows[f].state = "RUNNING" => flows[f].started

FlowInv == \A f \in Flows : FlowOK(f)

\* Dead letters and dead-lettered messages go together.
DeadInv == \A m \in Messages : m \in dead <=> jobs[m].state = "DEAD_LETTERED"

\* A claim whose lease still runs is the lease on record, until the row is concluded.
ClaimFits(w, c) ==
    c.until > now =>
        /\ jobs[c.job] # NoJob
        /\ jobs[c.job].state # Waiting(c.job)
        /\ jobs[c.job].state = Working(c.job) => jobs[c.job].lease = [owner |-> w, until |-> c.until]

ClaimInv == \A w \in Workers : \A c \in held[w] : ClaimFits(w, c)

\* Claims on one row that both run belong to one worker.
OneHolder ==
    \A w, v \in Workers : \A c \in held[w], d \in held[v] :
        c.job = d.job /\ c.until > now /\ d.until > now => w = v

\* Producers and workers were told of the payload on record.
ToldInv ==
    \A t \in told : jobs[t.message] # NoJob /\ jobs[t.message].payload = t.payload

IInv == TypeInv /\ JobInv /\ FlowInv /\ DeadInv /\ ClaimInv /\ OneHolder /\ ToldInv

-----------------------------------------------------------------------------
LEMMA StatesDiffer ==
    ASSUME NEW j \in Jobs
    PROVE  /\ Waiting(j) \in JobStates /\ Working(j) \in JobStates /\ Concluded(j) \in JobStates
           /\ Waiting(j) # Working(j) /\ Waiting(j) # Concluded(j) /\ Working(j) # Concluded(j)
           /\ "DEAD_LETTERED" \notin {Waiting(j), Working(j), Concluded(j)}
           /\ NoJob.state \notin {Waiting(j), Working(j), Concluded(j), "DEAD_LETTERED"}
BY DEF Waiting, Working, Concluded, JobStates, NoJob, None

\* A row that is worked on is a row.
LEMMA StateMeansRow ==
    ASSUME JobInv, NEW j \in Jobs, jobs[j] # NoJob
    PROVE  jobs[j] \in Row
BY DEF JobInv, JobOK

\* As long as a row keeps its payload, what was told of it stands.
LEMMA ToldStands ==
    ASSUME IInv,
           \A m \in Messages : jobs[m] # NoJob =>
               jobs'[m] # NoJob /\ jobs'[m].payload = jobs[m].payload,
           \A t \in told' :
               \/ t \in told
               \/ jobs'[t.message] # NoJob /\ jobs'[t.message].payload = t.payload
    PROVE  ToldInv'
<1>1. ASSUME NEW t \in told
      PROVE  jobs'[t.message] # NoJob /\ jobs'[t.message].payload = t.payload
  <2>1. t.message \in Messages
    BY DEF IInv, TypeInv
  <2>2. jobs[t.message] # NoJob /\ jobs[t.message].payload = t.payload
    BY DEF IInv, ToldInv
  <2> QED BY <2>1, <2>2
<1> QED BY <1>1 DEF ToldInv

LEMMA ClockIsNat == ASSUME TypeInv PROVE now \in Nat /\ now + Lease \in Nat /\ now + Lease > now
BY BoundAssumption DEF TypeInv, Times

\* What the table of commands allows: nothing leads into COMPENSATING or out of
\* SUPERSEDED, and a completed instance is superseded at most.
LEMMA TransitionFacts ==
    ASSUME NEW command \in Commands, NEW t \in Transition(command)
    PROVE  /\ t[1] # "SUPERSEDED"
           /\ t[2] \in WorkflowState /\ t[2] # "COMPENSATING"
           /\ t[1] = "COMPLETED" => t[2] = "SUPERSEDED"
<1> USE DEF Transition, WorkflowState
<1>1. CASE command = "START_FLOW"              BY <1>1
<1>2. CASE command = "PAUSE_FOR_FACT"          BY <1>2
<1>3. CASE command = "PAUSE_FOR_HUMAN"         BY <1>3
<1>4. CASE command = "ACKNOWLEDGE_PROVIDER"    BY <1>4
<1>5. CASE command = "RESUME_FLOW"             BY <1>5
<1>6. CASE command = "CONFIRM_SOURCE_READBACK" BY <1>6
<1>7. CASE command = "RECONCILE_SOURCE"        BY <1>7
<1>8. CASE command = "RETRY_SAFE_STEP"         BY <1>8
<1>9. CASE command = "FAIL_CURRENT_STEP"       BY <1>9
<1>10. CASE command = "QUARANTINE_FLOW"        BY <1>10
<1>11. CASE command = "CANCEL_FUTURE_WORK"     BY <1>11
<1>12. CASE command = "SUPERSEDE_FLOW"         BY <1>12
<1> QED
  BY <1>1, <1>2, <1>3, <1>4, <1>5, <1>6, <1>7, <1>8, <1>9, <1>10, <1>11, <1>12
     DEF Commands, Containing

-----------------------------------------------------------------------------
\* A command leads its instance along a pair of its table.
LEMMA TransitionStep ==
    ASSUME NEW f \in Flows, NEW command \in Commands, NEW version \in 1 .. MaxVersion,
           TransitionWorkflow(f, command, version)
    PROVE  \E t \in Transition(command) :
              /\ t[1] = flows[f].state
              /\ flows' = [flows EXCEPT ![f] =
                    [state     |-> t[2],
                     version   |-> version + 1,
                     started   |-> flows[f].started \/ t[2] = "RUNNING",
                     completed |-> flows[f].completed \/ t[2] \in Ends]]
<1> DEFINE Pairs == {t \in Transition(command) : t[1] = flows[f].state}
           Result(next) == flows' = [flows EXCEPT ![f] =
                                       [state     |-> next,
                                        version   |-> version + 1,
                                        started   |-> flows[f].started \/ next = "RUNNING",
                                        completed |-> flows[f].completed \/ next \in Ends]]
<1>1. \E next \in {t[2] : t \in Pairs} : Result(next)
  BY Zenon DEF TransitionWorkflow
<1> HIDE DEF Result
<1>2. PICK t \in Pairs : Result(t[2])
  BY <1>1
<1>3. t \in Transition(command) /\ t[1] = flows[f].state
  BY <1>2
<1> QED BY <1>2, <1>3 DEF Result

LEMMA InitHolds == Init => IInv
<1> SUFFICES ASSUME Init PROVE IInv
  OBVIOUS
<1>1. Free \in Leases
  BY DEF Free, Leases
<1>2. TypeInv
  <2>1. jobs \in [Jobs -> Row \cup {NoJob}]
    BY <1>1 DEF Init, Row, JobStates
  <2>2. flows \in [Flows -> Instance]
    BY BoundAssumption DEF Init, Instance, WorkflowState
  <2>3. held \in [Workers -> SUBSET [job : Jobs, until : Nat]]
    BY DEF Init
  <2>4. told \subseteq [message : Messages, payload : Payloads \cup {None}]
    BY DEF Init
  <2>5. now \in Times
    <3>1. now = 0 /\ MaxTime \in Nat
      BY BoundAssumption DEF Init
    <3> QED BY <3>1 DEF Times
  <2>6. halted \in BOOLEAN
    BY DEF Init
  <2> QED BY <2>1, <2>2, <2>3, <2>4, <2>5, <2>6 DEF TypeInv
<1>3. JobInv
  BY <1>1 DEF Init, JobInv, JobOK, Jobs, Row, JobStates, Waiting, Working, Free, None
<1>4. FlowInv
  BY DEF Init, FlowInv, FlowOK, Ends
<1>5. DeadInv
  BY DEF Init, DeadInv, Jobs, NoJob, None
<1>6. ClaimInv /\ OneHolder
  BY DEF Init, ClaimInv, OneHolder
<1>7. ToldInv
  BY DEF Init, ToldInv
<1> QED BY <1>2, <1>3, <1>4, <1>5, <1>6, <1>7 DEF IInv

\* A delivery writes at most one new row, which nobody has claimed.
LEMMA AcceptKeeps ==
    ASSUME IInv, NEW m \in Messages, NEW p \in Payloads, AcceptInbox(m, p)
    PROVE  IInv'
<1> USE DEF IInv
<1> UNCHANGED <<now, dead, flows, halted, held>>
  BY DEF AcceptInbox
<1> DEFINE telling == [message |-> m, payload |-> p]
<1>0. /\ told' = told \cup {telling}
      /\ told' \subseteq [message : Messages, payload : Payloads \cup {None}]
      /\ telling.message = m /\ telling.payload = p
  BY DEF AcceptInbox, TypeInv
<1> HIDE DEF telling
<1>1. CASE UNCHANGED jobs
  <2>1. TypeInv' /\ JobInv' /\ FlowInv' /\ DeadInv' /\ ClaimInv' /\ OneHolder'
    BY <1>0, <1>1 DEF TypeInv, JobInv, JobOK, FlowInv, FlowOK, DeadInv, ClaimInv, ClaimFits, OneHolder
  <2>2. jobs[m] # NoJob
    <3> SUFFICES ASSUME jobs[m] = NoJob PROVE FALSE
      OBVIOUS
    <3>1. jobs'[m] = [state |-> "RECEIVED", payload |-> p, lease |-> Free]
      BY DEF AcceptInbox, Absent, TypeInv, Jobs
    <3> QED BY <1>1, <3>1 DEF NoJob, None
  <2>3. jobs[m].payload = p
    BY <2>2 DEF AcceptInbox, Absent, SamePayload
  <2>4. ToldInv'
    BY <1>0, <1>1, <2>2, <2>3, ToldStands
  <2> QED BY <2>1, <2>4
<1>2. CASE ~ UNCHANGED jobs
  <2> DEFINE new == [state |-> "RECEIVED", payload |-> p, lease |-> Free]
  <2>1. jobs[m] = NoJob /\ jobs' = [jobs EXCEPT ![m] = new]
    BY <1>2 DEF AcceptInbox, Absent
  <2>2. new \in Row /\ new # NoJob
    BY DEF Row, JobStates, Leases, Free, NoJob, None
  <2>3. jobs'[m] = new /\ \A j \in Jobs \ {m} : jobs'[j] = jobs[j]
    BY <2>1 DEF TypeInv, Jobs
  <2>4. TypeInv'
    BY <1>0, <2>1, <2>2 DEF TypeInv, Jobs
  <2>5. JobInv'
    BY <2>2, <2>3 DEF JobInv, JobOK, Waiting, Working, Free, None
  <2>6. FlowInv' /\ OneHolder'
    BY DEF FlowInv, FlowOK, OneHolder
  <2>7. DeadInv'
    BY <2>1, <2>3 DEF DeadInv, Jobs, NoJob, None
  <2>8. ClaimInv'
    <3> SUFFICES ASSUME NEW w \in Workers, NEW c \in held[w], c.until > now
                 PROVE  ClaimFits(w, c)'
      BY DEF ClaimInv, ClaimFits
    <3>1. c.job \in Jobs /\ jobs[c.job] # NoJob
      <4>1. c.job \in Jobs
        BY DEF TypeInv
      <4>2. ClaimFits(w, c)
        BY DEF ClaimInv
      <4> QED BY <4>1, <4>2 DEF ClaimFits
    <3>2. jobs'[c.job] = jobs[c.job]
      BY <2>1, <2>3, <3>1
    <3> QED BY <3>2 DEF ClaimInv, ClaimFits
  <2>9. ToldInv'
    <3>1. jobs'[m] # NoJob /\ jobs'[m].payload = p
      BY <2>2, <2>3
    <3>2. \A n \in Messages : jobs[n] # NoJob =>
              jobs'[n] # NoJob /\ jobs'[n].payload = jobs[n].payload
      BY <2>1, <2>3 DEF Jobs
    <3> QED BY <1>0, <3>1, <3>2, ToldStands
  <2> QED BY <2>4, <2>5, <2>6, <2>7, <2>8, <2>9
<1> QED BY <1>1, <1>2

\* A claim writes the rows of S, frees the others that have lapsed, and tells the worker.
Claims(w, kind, S) ==
    /\ S \subseteq {j \in kind : Due(j)}
    /\ jobs' = [j \in Jobs |->
                  IF j \in S
                  THEN [jobs[j] EXCEPT !.state = Working(j),
                                       !.lease = [owner |-> w, until |-> now + Lease]]
                  ELSE IF j \in kind /\ Lapsed(j)
                  THEN [jobs[j] EXCEPT !.state = Waiting(j), !.lease = Free]
                  ELSE jobs[j]]
    /\ held' = [held EXCEPT ![w] = @ \cup {[job |-> j, until |-> now + Lease] : j \in S}]

LEMMA ClaimStep ==
    ASSUME NEW w \in Workers, NEW kind, Claim(w, kind)
    PROVE  \E S : /\ Claims(w, kind, S)
                  /\ told' = told \cup {[message |-> m, payload |-> jobs[m].payload] :
                                            m \in S \cap Messages}
BY DEF Claim, Claims

LEMMA ClaimedRows ==
    ASSUME IInv, NEW w \in Workers, NEW kind, kind \in {Messages, Timers},
           NEW S, Claims(w, kind, S)
    PROVE  /\ S \subseteq Jobs
           /\ \A j \in S :
                 /\ jobs'[j] \in Row /\ jobs'[j] # NoJob /\ jobs'[j].state = Working(j)
                 /\ jobs'[j].lease = [owner |-> w, until |-> now + Lease]
           /\ \A j \in Jobs :
                 j \notin S /\ j \in kind /\ Lapsed(j) =>
                    /\ jobs'[j] \in Row
                    /\ jobs'[j].state = Waiting(j) /\ jobs'[j].lease = Free
           /\ \A j \in Jobs :
                 j \notin S /\ ~ (j \in kind /\ Lapsed(j)) => jobs'[j] = jobs[j]
<1> USE DEF IInv
<1> DEFINE lease == [owner |-> w, until |-> now + Lease]
<1>1. /\ S \subseteq {j \in kind : Due(j)}
      /\ jobs' = [j \in Jobs |->
                      IF j \in S
                      THEN [jobs[j] EXCEPT !.state = Working(j), !.lease = lease]
                      ELSE IF j \in kind /\ Lapsed(j)
                      THEN [jobs[j] EXCEPT !.state = Waiting(j), !.lease = Free]
                      ELSE jobs[j]]
  BY DEF Claims
<1>2. lease \in Leases /\ Free \in Leases
  BY ClockIsNat, JobAssumption DEF Leases, Free
<1>3. S \subseteq Jobs /\ kind \subseteq Jobs
  BY <1>1 DEF Jobs
<1>4. \A j \in Jobs : Due(j) \/ Lapsed(j) => jobs[j] \in Row /\ jobs[j] # NoJob
  BY StatesDiffer, StateMeansRow DEF Due, Lapsed
<1>5. ASSUME NEW j \in S
      PROVE  /\ jobs'[j] \in Row /\ jobs'[j] # NoJob
             /\ jobs'[j].state = Working(j) /\ jobs'[j].lease = lease
  <2>1. jobs[j] \in Row /\ j \in Jobs
    BY <1>1, <1>3, <1>4
  <2>2. jobs'[j] = [jobs[j] EXCEPT !.state = Working(j), !.lease = lease]
    BY <1>1, <2>1
  <2>3. Working(j) \in JobStates
    BY <2>1, StatesDiffer
  <2>4. jobs'[j] \in Row /\ jobs'[j].state = Working(j) /\ jobs'[j].lease = lease
    BY <1>2, <2>1, <2>2, <2>3 DEF Row
  <2> QED BY <2>1, <2>4, StatesDiffer
<1>6. ASSUME NEW j \in Jobs, j \notin S, j \in kind, Lapsed(j)
      PROVE  /\ jobs'[j] \in Row
             /\ jobs'[j].state = Waiting(j) /\ jobs'[j].lease = Free
  <2>1. jobs[j] \in Row
    BY <1>4, <1>6
  <2>2. jobs'[j] = [jobs[j] EXCEPT !.state = Waiting(j), !.lease = Free]
    BY <1>1, <1>6
  <2> QED BY <1>2, <2>1, <2>2, StatesDiffer DEF Row
<1>7. ASSUME NEW j \in Jobs, j \notin S, ~ (j \in kind /\ Lapsed(j))
      PROVE  jobs'[j] = jobs[j]
  BY <1>1, <1>7
<1> QED BY <1>3, <1>5, <1>6, <1>7

\* A claim leaves every row its payload.
LEMMA ClaimKeepsPayloads ==
    ASSUME IInv, NEW w \in Workers, NEW kind, kind \in {Messages, Timers},
           NEW S, Claims(w, kind, S), NEW j \in Jobs, jobs[j] # NoJob
    PROVE  jobs'[j] # NoJob /\ jobs'[j].payload = jobs[j].payload
<1> DEFINE taken == [jobs[j] EXCEPT !.state = Working(j),
                                    !.lease = [owner |-> w, until |-> now + Lease]]
           freed == [jobs[j] EXCEPT !.state = Waiting(j), !.lease = Free]
<1>1. jobs[j] \in Row
  BY StateMeansRow DEF IInv
<1>2. taken.payload = jobs[j].payload /\ freed.payload = jobs[j].payload
  BY <1>1 DEF Row
<1>3. taken.state = Working(j) /\ freed.state = Waiting(j)
  BY <1>1 DEF Row
<1>4. taken # NoJob /\ freed # NoJob
  BY <1>3, StatesDiffer
<1>5. jobs'[j] \in {taken, freed, jobs[j]}
  BY DEF Claims
<1> QED BY <1>2, <1>4, <1>5

\* A claim that runs is on no row that is claimed or freed, and the new ones are
\* those of the rows just claimed.
LEMMA ClaimsHeld ==
    ASSUME IInv, NEW w \in Workers, NEW kind, NEW S, Claims(w, kind, S)
    PROVE  /\ \A v \in Workers : \A c \in held[v] :
                 c.until > now => c.job \in Jobs /\ c.job \notin S /\ ~ Lapsed(c.job)
           /\ \A v \in Workers : \A c \in held'[v] :
                 c \notin held[v] => v = w /\ c.job \in S /\ c.until = now + Lease
           /\ \A v \in Workers : held[v] \subseteq held'[v]
           /\ \A j \in S : [job |-> j, until |-> now + Lease] \in held'[w]
<1> USE DEF IInv
<1> DEFINE new == {[job |-> j, until |-> now + Lease] : j \in S}
<1>1. /\ S \subseteq {j \in kind : Due(j)}
      /\ held'[w] = held[w] \cup new
      /\ \A v \in Workers \ {w} : held'[v] = held[v]
  BY DEF Claims, TypeInv
<1>2. ASSUME NEW v \in Workers, NEW c \in held[v], c.until > now
       PROVE  c.job \in Jobs /\ c.job \notin S /\ ~ Lapsed(c.job)
  <2>1. c.job \in Jobs /\ c.until \in Nat
    BY DEF TypeInv
  <2>2. ~ Lapsed(c.job)
    <3> SUFFICES ASSUME jobs[c.job].state = Working(c.job) PROVE ~ (jobs[c.job].lease.until <= now)
      BY DEF Lapsed
    <3>1. jobs[c.job].lease.until = c.until
      <4>1. ClaimFits(v, c)
        BY DEF ClaimInv
      <4> QED BY <1>2, <4>1 DEF ClaimFits
    <3> QED BY <1>2, <2>1, <3>1, ClockIsNat
  <2>3. ~ Due(c.job)
    BY <1>2, <2>1, <2>2 DEF ClaimInv, ClaimFits, Due
  <2> QED BY <1>1, <2>1, <2>2, <2>3
<1>3. ASSUME NEW v \in Workers, NEW c \in held'[v], c \notin held[v]
      PROVE  v = w /\ c.job \in S /\ c.until = now + Lease
  <2>1. v = w
    BY <1>1, <1>3
  <2>2. PICK j \in S : c = [job |-> j, until |-> now + Lease]
    BY <1>1, <1>3, <2>1
  <2> QED BY <2>1, <2>2
<1>4. \A v \in Workers : held[v] \subseteq held'[v]
  BY <1>1
<1>5. \A j \in S : [job |-> j, until |-> now + Lease] \in held'[w]
  BY <1>1
<1> QED BY <1>2, <1>3, <1>4, <1>5

\* A claim takes rows that wait or have lapsed, on none of which a claim runs.
LEMMA ClaimKeeps ==
    ASSUME IInv, NEW w \in Workers, NEW kind, kind \in {Messages, Timers}, Claim(w, kind)
    PROVE  IInv'
<1> DEFINE lease == [owner |-> w, until |-> now + Lease]
<1>1. PICK S : /\ Claims(w, kind, S)
               /\ told' = told \cup {[message |-> m, payload |-> jobs[m].payload] :
                                         m \in S \cap Messages}
  BY ClaimStep
<1>2. UNCHANGED <<now, dead, flows, halted>>
  BY DEF Claim
<1>3. lease.owner # None /\ Free.owner = None
  BY JobAssumption DEF Free
<1>4. S \subseteq Jobs /\ S \subseteq {j \in kind : Due(j)}
  <2>1. S \subseteq Jobs
    BY <1>1, ClaimedRows
  <2>2. S \subseteq {j \in kind : Due(j)}
    BY <1>1 DEF Claims
  <2> QED BY <2>1, <2>2
<1>5. \A j \in S : /\ jobs'[j] \in Row /\ jobs'[j] # NoJob
                   /\ jobs'[j].state = Working(j) /\ jobs'[j].lease = lease
  BY <1>1, ClaimedRows
<1>6. /\ \A j \in Jobs :
            j \notin S /\ j \in kind /\ Lapsed(j) =>
               /\ jobs'[j] \in Row
               /\ jobs'[j].state = Waiting(j) /\ jobs'[j].lease = Free
      /\ \A j \in Jobs :
            j \notin S /\ ~ (j \in kind /\ Lapsed(j)) => jobs'[j] = jobs[j]
  BY <1>1, ClaimedRows
<1>7. \A v \in Workers : \A c \in held[v] :
         c.until > now => c.job \in Jobs /\ c.job \notin S /\ ~ Lapsed(c.job)
  BY <1>1, ClaimsHeld
<1>8. \A v \in Workers : \A c \in held'[v] :
         c \notin held[v] => v = w /\ c.job \in S /\ c.until = now + Lease
  BY <1>1, ClaimsHeld
<1> USE DEF IInv
<1>9. TypeInv'
  <2>1. jobs' \in [Jobs -> Row \cup {NoJob}]
    <3>1. jobs' = [j \in Jobs |-> jobs'[j]]
      BY <1>1 DEF Claims
    <3>2. \A j \in Jobs : jobs'[j] \in Row \cup {NoJob}
      BY <1>5, <1>6 DEF TypeInv
    <3> QED BY <3>1, <3>2
  <2>2. held' \in [Workers -> SUBSET [job : Jobs, until : Nat]]
    <3> DEFINE new == {[job |-> j, until |-> now + Lease] : j \in S}
    <3>1. new \in SUBSET [job : Jobs, until : Nat]
      BY <1>4, ClockIsNat
    <3>2. held' = [held EXCEPT ![w] = @ \cup new]
      BY <1>1 DEF Claims
    <3> HIDE DEF new
    <3> QED BY <3>1, <3>2 DEF TypeInv
  <2>3. told' \subseteq [message : Messages, payload : Payloads \cup {None}]
    <3>1. ASSUME NEW m \in S \cap Messages PROVE jobs[m].payload \in Payloads \cup {None}
      <4>1. m \in Jobs /\ jobs[m] \in Row
        BY <1>4, StatesDiffer, StateMeansRow DEF Due, Lapsed
      <4> QED BY <4>1 DEF Row
    <3> QED BY <1>1, <3>1 DEF TypeInv
  <2> QED BY <1>2, <2>1, <2>2, <2>3 DEF TypeInv
<1>10. JobInv'
  <2> SUFFICES ASSUME NEW j \in Jobs PROVE JobOK(j)'
    BY DEF JobInv
  <2>1. CASE j \in S
    BY <1>3, <1>5, <2>1 DEF JobOK
  <2>2. CASE j \notin S /\ j \in kind /\ Lapsed(j)
    BY <1>3, <1>6, <2>2, StatesDiffer DEF JobOK
  <2>3. CASE j \notin S /\ ~ (j \in kind /\ Lapsed(j))
    BY <1>6, <2>3 DEF JobInv, JobOK
  <2> QED BY <2>1, <2>2, <2>3
<1>11. FlowInv' /\ ToldInv'
  <2>1. FlowInv'
    BY <1>2 DEF FlowInv, FlowOK
  <2>2. \A m \in Messages : jobs[m] # NoJob =>
            jobs'[m] # NoJob /\ jobs'[m].payload = jobs[m].payload
    BY <1>1, ClaimKeepsPayloads DEF Jobs
  <2>3. \A m \in S \cap Messages : jobs[m] # NoJob
    BY <1>4, StatesDiffer DEF Due, Lapsed
  <2>4. \A t \in told' :
            \/ t \in told
            \/ \E m \in S \cap Messages : t.message = m /\ t.payload = jobs[m].payload
    BY <1>1
  <2>5. ToldInv'
    BY <2>2, <2>3, <2>4, ToldStands
  <2> QED BY <2>1, <2>5
<1>12. DeadInv'
  <2> SUFFICES ASSUME NEW m \in Messages
               PROVE  jobs[m].state = "DEAD_LETTERED" <=> jobs'[m].state = "DEAD_LETTERED"
    BY <1>2 DEF DeadInv
  <2>1. m \in Jobs
    BY DEF Jobs
  <2>2. CASE m \in S
    BY <1>4, <1>5, <2>1, <2>2, StatesDiffer DEF Due, Lapsed
  <2>3. CASE m \notin S /\ m \in kind /\ Lapsed(m)
    BY <1>6, <2>1, <2>3, StatesDiffer DEF Lapsed
  <2>4. CASE m \notin S /\ ~ (m \in kind /\ Lapsed(m))
    BY <1>6, <2>1, <2>4
  <2> QED BY <2>2, <2>3, <2>4
<1>13. ClaimInv'
  <2> SUFFICES ASSUME NEW v \in Workers, NEW c \in held'[v], c.until > now
               PROVE  ClaimFits(v, c)'
    BY <1>2 DEF ClaimInv, ClaimFits
  <2>1. CASE c \in held[v]
    <3>1. jobs'[c.job] = jobs[c.job]
      BY <1>6, <1>7, <2>1
    <3> QED BY <1>2, <2>1, <3>1 DEF ClaimInv, ClaimFits
  <2>2. CASE c \notin held[v]
    <3>1. v = w /\ c.job \in S /\ c.until = now + Lease
      BY <1>8, <2>2
    <3>2. c.job \in Jobs
      BY <1>4, <3>1
    <3> QED BY <1>5, <3>1, <3>2, StatesDiffer DEF ClaimFits
  <2> QED BY <2>1, <2>2
<1>14. OneHolder'
  <2> SUFFICES ASSUME NEW u \in Workers, NEW v \in Workers, NEW c \in held'[u], NEW d \in held'[v],
                      c.job = d.job, c.until > now, d.until > now
               PROVE  u = v
    BY <1>2 DEF OneHolder
  <2>1. CASE c \in held[u] /\ d \in held[v]
    BY <2>1 DEF OneHolder
  <2>2. CASE c \notin held[u] /\ d \notin held[v]
    BY <1>8, <2>2
  <2>3. CASE c \in held[u] /\ d \notin held[v]
    BY <1>7, <1>8, <2>3
  <2>4. CASE c \notin held[u] /\ d \in held[v]
    BY <1>7, <1>8, <2>4
  <2> QED BY <2>1, <2>2, <2>3, <2>4
<1> QED BY <1>9, <1>10, <1>11, <1>12, <1>13, <1>14

\* The owner of a running lease concludes a row, at most with its dead letter.
LEMMA ConcludeKeeps ==
    ASSUME IInv, NEW w \in Workers, NEW c \in held[w], NEW state, Conclude(w, c, state),
           state \in {Concluded(c.job), "DEAD_LETTERED"},
           \/ state = Concluded(c.job) /\ dead' = dead
           \/ state = "DEAD_LETTERED" /\ dead' = dead \cup {c.job}
    PROVE  IInv'
<1> USE DEF IInv
<1>1. /\ UNCHANGED <<now, flows, halted, told>>
      /\ jobs' = [jobs EXCEPT ![c.job].state = state, ![c.job].lease = Free]
      /\ held' = [held EXCEPT ![w] = @ \ {c}]
  BY DEF Conclude
<1>2. c.job \in Jobs /\ jobs[c.job].state = Working(c.job) /\ jobs[c.job] # NoJob /\ jobs[c.job] \in Row
  <2>1. c.job \in Jobs
    BY DEF TypeInv
  <2>2. jobs[c.job].state = Working(c.job)
    BY DEF Conclude, Owns
  <2> QED BY <2>1, <2>2, StatesDiffer, StateMeansRow
<1>3. /\ jobs'[c.job] = [jobs[c.job] EXCEPT !.state = state, !.lease = Free]
      /\ \A j \in Jobs \ {c.job} : jobs'[j] = jobs[j]
  BY <1>1, <1>2 DEF TypeInv
<1>4. /\ jobs'[c.job] \in Row /\ jobs'[c.job].state = state /\ jobs'[c.job].lease = Free
      /\ jobs'[c.job].payload = jobs[c.job].payload
  <2>1. Free \in Leases /\ state \in JobStates
    BY <1>2, StatesDiffer DEF Leases, Free, JobStates
  <2> QED BY <1>2, <1>3, <2>1 DEF Row
<1>5. /\ state \notin {Waiting(c.job), Working(c.job)} /\ jobs'[c.job] # NoJob
      /\ Concluded(c.job) # "DEAD_LETTERED"
  BY <1>2, <1>4, StatesDiffer
<1>6. TypeInv'
  <2>1. jobs' \in [Jobs -> Row \cup {NoJob}]
    <3>1. \A j \in Jobs : jobs'[j] \in Row \cup {NoJob}
      BY <1>3, <1>4 DEF TypeInv
    <3>2. jobs' = [j \in Jobs |-> jobs'[j]]
      BY <1>1 DEF TypeInv
    <3> QED BY <3>1, <3>2
  <2> QED BY <1>1, <2>1 DEF TypeInv
<1>7. JobInv'
  <2> SUFFICES ASSUME NEW j \in Jobs PROVE JobOK(j)'
    BY DEF JobInv
  <2>1. CASE j = c.job
    BY <1>4, <1>5, <2>1 DEF JobOK, Free
  <2>2. CASE j # c.job
    BY <1>3, <2>2 DEF JobInv, JobOK
  <2> QED BY <2>1, <2>2
<1>8. FlowInv' /\ ToldInv'
  <2>1. FlowInv'
    BY <1>1 DEF FlowInv, FlowOK
  <2>2. \A m \in Messages : jobs[m] # NoJob =>
            jobs'[m] # NoJob /\ jobs'[m].payload = jobs[m].payload
    BY <1>3, <1>4, <1>5 DEF Jobs
  <2>3. ToldInv'
    BY <1>1, <2>2, ToldStands
  <2> QED BY <2>1, <2>3
<1>9. DeadInv'
  <2> SUFFICES ASSUME NEW m \in Messages
               PROVE  m \in dead' <=> jobs'[m].state = "DEAD_LETTERED"
    BY DEF DeadInv
  <2>1. m \in Jobs
    BY DEF Jobs
  <2>2. CASE m # c.job
    BY <1>3, <2>1, <2>2 DEF DeadInv
  <2>3. CASE m = c.job
    BY <1>2, <1>4, <1>5, <2>3, StatesDiffer DEF DeadInv
  <2> QED BY <2>2, <2>3
<1>10. \A v \in Workers : held'[v] \subseteq held[v]
  BY <1>1 DEF TypeInv
<1>11. ClaimInv'
  <2> SUFFICES ASSUME NEW v \in Workers, NEW d \in held[v], d.until > now
               PROVE  ClaimFits(v, d)'
    BY <1>1, <1>10 DEF ClaimInv, ClaimFits
  <2>1. d.job \in Jobs
    BY DEF TypeInv
  <2>2. CASE d.job = c.job
    <3>1. jobs'[d.job].state = state /\ jobs'[d.job] # NoJob
      BY <1>4, <1>5, <2>2
    <3>2. state # Waiting(d.job) /\ state # Working(d.job)
      BY <1>5, <2>2
    <3> QED BY <3>1, <3>2 DEF ClaimFits, Waiting, Working
  <2>3. CASE d.job # c.job
    <3>1. jobs'[d.job] = jobs[d.job] /\ ClaimFits(v, d)
      BY <1>3, <2>1, <2>3 DEF ClaimInv
    <3> QED BY <1>1, <3>1 DEF ClaimFits
  <2> QED BY <2>2, <2>3
<1>12. OneHolder'
  BY <1>1, <1>10 DEF OneHolder
<1> QED BY <1>6, <1>7, <1>8, <1>9, <1>11, <1>12

\* A worker that crashes or is refused only forgets claims.
LEMMA ForgetKeeps ==
    ASSUME IInv, UNCHANGED <<now, jobs, dead, flows, halted, told>>,
           held' \in [Workers -> SUBSET [job : Jobs, until : Nat]],
           \A v \in Workers : held'[v] \subseteq held[v]
    PROVE  IInv'
<1> USE DEF IInv
<1>1. TypeInv' /\ JobInv' /\ FlowInv' /\ DeadInv'
  BY DEF TypeInv, JobInv, JobOK, FlowInv, FlowOK, DeadInv
<1>2. ClaimInv' /\ OneHolder'
  BY DEF ClaimInv, ClaimFits, OneHolder
<1>3. ToldInv'
  BY DEF ToldInv
<1> QED BY <1>1, <1>2, <1>3

LEMMA TransitionKeeps ==
    ASSUME IInv, NEW f \in Flows, NEW command \in Commands, NEW version \in 1 .. MaxVersion,
           TransitionWorkflow(f, command, version)
    PROVE  IInv'
<1> USE DEF IInv
<1>1. /\ UNCHANGED <<now, jobs, dead, halted, held, told>>
      /\ version = flows[f].version /\ version < MaxVersion
  BY DEF TransitionWorkflow
<1>2. PICK t \in Transition(command) :
         flows' = [flows EXCEPT ![f] =
                     [state     |-> t[2],
                      version   |-> version + 1,
                      started   |-> flows[f].started \/ t[2] = "RUNNING",
                      completed |-> flows[f].completed \/ t[2] \in Ends]]
  BY TransitionStep
<1>3. t[2] \in WorkflowState /\ t[2] # "COMPENSATING"
  BY TransitionFacts
<1>4. version + 1 \in 1 .. MaxVersion
  BY <1>1, BoundAssumption
<1>5. TypeInv'
  BY <1>1, <1>2, <1>3, <1>4 DEF TypeInv, Instance
<1>6. JobInv' /\ DeadInv' /\ ClaimInv' /\ OneHolder'
  BY <1>1 DEF JobInv, JobOK, DeadInv, ClaimInv, ClaimFits, OneHolder
<1>7. FlowInv'
  BY <1>2, <1>3 DEF FlowInv, FlowOK, TypeInv
<1>8. ToldInv'
  BY <1>1 DEF ToldInv
<1> QED BY <1>5, <1>6, <1>7, <1>8

\* Time ends leases and starts none.
LEMMA TickKeeps == ASSUME IInv, Tick PROVE IInv'
<1> USE DEF IInv
<1>1. /\ now' = now + 1 /\ now < MaxTime /\ now \in Nat
      /\ UNCHANGED <<jobs, dead, flows, halted, held, told>>
  BY ClockIsNat DEF Tick
<1>2. TypeInv'
  BY <1>1, BoundAssumption DEF TypeInv, Times
<1>3. JobInv' /\ FlowInv' /\ DeadInv' /\ ToldInv'
  BY <1>1 DEF JobInv, JobOK, FlowInv, FlowOK, DeadInv, ToldInv
<1>4. \A w \in Workers : \A c \in held[w] : c.until > now' => c.until > now
  BY <1>1 DEF TypeInv
<1>5. ClaimInv' /\ OneHolder'
  BY <1>1, <1>4 DEF ClaimInv, ClaimFits, OneHolder
<1> QED BY <1>2, <1>3, <1>5

LEMMA StillKeeps ==
    ASSUME IInv, UNCHANGED <<now, jobs, dead, flows, held, told>>, halted' \in BOOLEAN
    PROVE  IInv'
<1> USE DEF IInv
<1>1. TypeInv' /\ JobInv' /\ FlowInv' /\ DeadInv' /\ ClaimInv' /\ OneHolder'
  BY DEF TypeInv, JobInv, JobOK, FlowInv, FlowOK, DeadInv, ClaimInv, ClaimFits, OneHolder
<1>2. ToldInv'
  BY DEF ToldInv
<1> QED BY <1>1, <1>2

-----------------------------------------------------------------------------
LEMMA StepHolds == IInv /\ [Next]_vars => IInv'
<1> SUFFICES ASSUME IInv, [Next]_vars PROVE IInv'
  OBVIOUS
<1>1. ASSUME NEW m \in Messages, NEW p \in Payloads, AcceptInbox(m, p) PROVE IInv'
  BY <1>1, AcceptKeeps
<1>2. ASSUME NEW w \in Workers, ClaimDueInbox(w) \/ ClaimDueTimers(w) PROVE IInv'
  BY <1>2, ClaimKeeps DEF ClaimDueInbox, ClaimDueTimers
<1>3. ASSUME NEW w \in Workers, Crash(w) PROVE IInv'
  BY <1>3, ForgetKeeps DEF Crash, IInv, TypeInv
<1>4. ASSUME NEW w \in Workers, NEW c \in held[w], CompleteInbox(w, c) \/ FireTimer(w, c)
      PROVE  IInv'
  <2>1. Conclude(w, c, Concluded(c.job)) /\ dead' = dead
    BY <1>4, JobAssumption DEF CompleteInbox, FireTimer, Concluded
  <2> QED BY <2>1, ConcludeKeeps
<1>5. ASSUME NEW w \in Workers, NEW c \in held[w], DeadLetterInbox(w, c) PROVE IInv'
  BY <1>5, ConcludeKeeps DEF DeadLetterInbox
<1>6. ASSUME NEW w \in Workers, NEW c \in held[w], Refused(w, c) PROVE IInv'
  BY <1>6, ForgetKeeps DEF Refused, IInv, TypeInv
<1>7. ASSUME NEW f \in Flows, NEW command \in Commands, NEW v \in 1 .. MaxVersion,
             TransitionWorkflow(f, command, v)
      PROVE  IInv'
  BY <1>7, TransitionKeeps
<1>8. CASE Halt
  BY <1>8, StillKeeps DEF Halt
<1>9. CASE Tick
  BY <1>9, TickKeeps
<1>10. CASE UNCHANGED vars
  BY <1>10, StillKeeps DEF vars, IInv, TypeInv
<1> QED
  BY <1>1, <1>2, <1>3, <1>4, <1>5, <1>6, <1>7, <1>8, <1>9, <1>10 DEF Next

\* Rows and claims have their forms in every reachable state: an owner exactly
\* while a row is worked on, and an end exactly written (p110, p111 CHECKs).
THEOREM TypeCorrect == Spec => []TypeOK
<1>1. IInv => TypeOK
  BY DEF IInv, TypeInv, JobInv, JobOK, FlowInv, FlowOK, TypeOK, Row, Instance, Ends, WorkflowState
<1> QED BY <1>1, InitHolds, StepHolds, PTL DEF Spec

\* No two workers ever hold running leases on one row, for any number of workers,
\* any lease and any limit of a claim.
THEOREM LeaseIsExclusiveCorrect == Spec => []LeaseIsExclusive
<1>1. IInv => LeaseIsExclusive
  <2> SUFFICES ASSUME IInv, NEW w \in Workers, NEW v \in Workers,
                      NEW c \in held[w], NEW d \in held[v], c.job = d.job, c.until > now
               PROVE  /\ d.until > now => w = v
                      /\ jobs[c.job].state = Working(c.job) => jobs[c.job].lease.owner = w
    BY DEF LeaseIsExclusive
  <2>1. d.until > now => w = v
    BY DEF IInv, OneHolder
  <2>2. ClaimFits(w, c)
    BY DEF IInv, ClaimInv
  <2> QED BY <2>1, <2>2 DEF ClaimFits
<1> QED BY <1>1, InitHolds, StepHolds, PTL DEF Spec

\* A message has one payload for good: the one of every producer that was told it
\* is accepted, and of every worker that it was given to, at any time before
\* (acceptInbox, claimDueInbox).
THEOREM AcceptedPayloadStandsCorrect == Spec => []AcceptedPayloadStands
<1>1. IInv => AcceptedPayloadStands
  BY DEF IInv, ToldInv, AcceptedPayloadStands
<1> QED BY <1>1, InitHolds, StepHolds, PTL DEF Spec

\* Outcomes of messages, timers and instances are final: no late worker, repeated
\* delivery or command changes them.
THEOREM OutcomesAreFinalCorrect == Spec => OutcomesAreFinal
<1>1. IInv /\ [Next]_vars =>
        [/\ \A j \in Jobs :
              jobs[j].state \in {Concluded(j), "DEAD_LETTERED"} => jobs'[j] = jobs[j]
         /\ \A m \in Messages : m \in dead' <=> jobs'[m].state = "DEAD_LETTERED"
         /\ \A f \in Flows :
              /\ flows[f].state = "SUPERSEDED" => flows'[f] = flows[f]
              /\ flows[f].state = "COMPLETED" => flows'[f].state \in {"COMPLETED", "SUPERSEDED"}]_vars
  <2> SUFFICES ASSUME IInv, [Next]_vars
      PROVE  /\ \A j \in Jobs :
                  jobs[j].state \in {Concluded(j), "DEAD_LETTERED"} => jobs'[j] = jobs[j]
             /\ \A m \in Messages : m \in dead' <=> jobs'[m].state = "DEAD_LETTERED"
             /\ \A f \in Flows :
                  /\ flows[f].state = "SUPERSEDED" => flows'[f] = flows[f]
                  /\ flows[f].state = "COMPLETED" => flows'[f].state \in {"COMPLETED", "SUPERSEDED"}
    OBVIOUS
  <2>1. \A m \in Messages : m \in dead' <=> jobs'[m].state = "DEAD_LETTERED"
    BY StepHolds DEF IInv, DeadInv
  <2>2. ASSUME NEW j \in Jobs, jobs[j].state \in {Concluded(j), "DEAD_LETTERED"}
        PROVE  jobs'[j] = jobs[j]
    <3>1. jobs[j] # NoJob /\ ~ Due(j) /\ ~ Lapsed(j) /\ \A w \in Workers : ~ Owns(w, j)
      BY <2>2, StatesDiffer DEF Due, Lapsed, Owns
    <3>2. ASSUME NEW m \in Messages, NEW p \in Payloads, AcceptInbox(m, p) PROVE jobs'[j] = jobs[j]
      BY <3>1, <3>2 DEF AcceptInbox, Absent, IInv, TypeInv
    <3>3. ASSUME NEW w \in Workers, NEW kind, Claim(w, kind) PROVE jobs'[j] = jobs[j]
      BY <3>1, <3>3 DEF Claim
    <3>4. ASSUME NEW w \in Workers, NEW c \in held[w], NEW state, Conclude(w, c, state)
          PROVE  jobs'[j] = jobs[j]
      BY <3>1, <3>4 DEF Conclude, IInv, TypeInv
    <3>5. CASE UNCHANGED jobs
      BY <3>5
    <3> QED
      BY <3>2, <3>3, <3>4, <3>5
         DEF Next, vars, ClaimDueInbox, ClaimDueTimers, Crash, CompleteInbox, DeadLetterInbox,
             FireTimer, Refused, TransitionWorkflow, Halt, Tick
  <2>3. ASSUME NEW f \in Flows
        PROVE  /\ flows[f].state = "SUPERSEDED" => flows'[f] = flows[f]
               /\ flows[f].state = "COMPLETED" => flows'[f].state \in {"COMPLETED", "SUPERSEDED"}
    <3>1. ASSUME NEW g \in Flows, NEW command \in Commands, NEW v \in 1 .. MaxVersion,
                 TransitionWorkflow(g, command, v)
          PROVE  /\ flows[f].state = "SUPERSEDED" => flows'[f] = flows[f]
                 /\ flows[f].state = "COMPLETED" => flows'[f].state \in {"COMPLETED", "SUPERSEDED"}
      <4>1. PICK t \in Transition(command) :
               /\ t[1] = flows[g].state
               /\ flows' = [flows EXCEPT ![g] =
                     [state     |-> t[2],
                      version   |-> v + 1,
                      started   |-> flows[g].started \/ t[2] = "RUNNING",
                      completed |-> flows[g].completed \/ t[2] \in Ends]]
        BY <3>1, TransitionStep
      <4>2. t[1] # "SUPERSEDED" /\ (t[1] = "COMPLETED" => t[2] = "SUPERSEDED")
        BY TransitionFacts
      <4>3. g = f => flows'[f].state = t[2]
        BY <4>1 DEF IInv, TypeInv
      <4>4. g # f => flows'[f] = flows[f]
        BY <4>1 DEF IInv, TypeInv
      <4> QED BY <4>1, <4>2, <4>3, <4>4
    <3>2. CASE UNCHANGED flows
      BY <3>2
    <3> QED
      BY <3>1, <3>2
         DEF Next, vars, AcceptInbox, Claim, ClaimDueInbox, ClaimDueTimers, Crash, Conclude,
             CompleteInbox, DeadLetterInbox, FireTimer, Refused, Halt, Tick
  <2> QED BY <2>1, <2>2, <2>3
<1> QED BY <1>1, InitHolds, StepHolds, PTL DEF Spec, OutcomesAreFinal

-----------------------------------------------------------------------------
(***************************************************************************)
(* The refinement of LeaseQueue.  The store compares names: a worker that  *)
(* claimed a row twice may conclude it with either claim.  It is a holder  *)
(* all the same, for what it has on the row includes the claim on record,  *)
(* unless it has forgotten them all.                                       *)
(***************************************************************************)
HoldsRecord(w, c) ==
    Owns(w, c.job) => [job |-> c.job, until |-> jobs[c.job].lease.until] \in held[w]

HoldsInv == \A w \in Workers : \A c \in held[w] : HoldsRecord(w, c)

QueueInv == IInv /\ HoldsInv

Holds(w, j) == \E c \in held[w] : c.job = j /\ c.until > now

\* How far a row is, by its state.
LEMMA StatusFacts ==
    ASSUME NEW j \in Jobs
    PROVE  /\ jobs[j] = NoJob => StatusOf(j) = "absent"
           /\ jobs[j].state = Waiting(j) => StatusOf(j) = "waiting"
           /\ jobs[j].state = Working(j) => StatusOf(j) = "taken"
           /\ jobs[j].state = Concluded(j) => StatusOf(j) = "done"
           /\ jobs[j].state = "DEAD_LETTERED" => StatusOf(j) = "dead"
BY StatesDiffer DEF StatusOf

LEMMA StatusFactsNext ==
    ASSUME NEW j \in Jobs
    PROVE  /\ jobs'[j] = NoJob => StatusOf(j)' = "absent"
           /\ jobs'[j].state = Waiting(j) => StatusOf(j)' = "waiting"
           /\ jobs'[j].state = Working(j) => StatusOf(j)' = "taken"
           /\ jobs'[j].state = Concluded(j) => StatusOf(j)' = "done"
           /\ jobs'[j].state = "DEAD_LETTERED" => StatusOf(j)' = "dead"
BY StatesDiffer DEF StatusOf, Waiting, Working, Concluded

\* Nobody holds a row that is not worked on, or whose lease has lapsed.
LEMMA NobodyHolds ==
    ASSUME IInv, NEW j \in Jobs, jobs[j].state # Working(j) \/ Lapsed(j)
    PROVE  HoldersOf(j) = {}
<1> SUFFICES ASSUME NEW w \in Workers, NEW c \in held[w], jobs[j].state = Working(j),
                    c.job = j, c.until > now
             PROVE  FALSE
  BY DEF HoldersOf
<1>1. ClaimFits(w, c) /\ c.until \in Nat /\ now \in Nat
  BY ClockIsNat DEF IInv, ClaimInv, TypeInv
<1>2. jobs[j].lease.until = c.until
  BY <1>1 DEF ClaimFits
<1> QED BY <1>1, <1>2 DEF Lapsed

\* Who may conclude a row by its name is the one that holds it.
LEMMA OwnerHolds ==
    ASSUME QueueInv, NEW w \in Workers, NEW c \in held[w], Owns(w, c.job)
    PROVE  HoldersOf(c.job) = {w}
<1>1. /\ jobs[c.job].state = Working(c.job) /\ jobs[c.job].lease.owner = w
      /\ jobs[c.job].lease.until > now
  BY DEF Owns
<1>2. w \in HoldersOf(c.job)
  <2> DEFINE d == [job |-> c.job, until |-> jobs[c.job].lease.until]
  <2>1. d \in held[w]
    BY DEF QueueInv, HoldsInv, HoldsRecord
  <2>2. d.job = c.job /\ d.until > now
    BY <1>1
  <2> HIDE DEF d
  <2> QED BY <1>1, <2>1, <2>2 DEF HoldersOf
<1>3. ASSUME NEW v \in HoldersOf(c.job) PROVE v = w
  <2>1. PICK d \in held[v] : d.job = c.job /\ d.until > now
    BY <1>3 DEF HoldersOf
  <2>2. v \in Workers
    BY <1>3 DEF HoldersOf
  <2>3. ClaimFits(v, d)
    BY <2>2 DEF QueueInv, IInv, ClaimInv
  <2> QED BY <1>1, <2>1, <2>3 DEF ClaimFits
<1> QED BY <1>2, <1>3

-----------------------------------------------------------------------------
\* What the steps of the queue are of a row.
LEMMA IsOffer ==
    ASSUME NEW j \in Jobs, StatusOf(j) = "absent", StatusOf(j)' = "waiting",
           HoldersOf(j) = {}, HoldersOf(j)' = {}
    PROVE  Queue!Step(j)
BY DEF Queue!Step, Queue!Offer, Queue!Moves

LEMMA IsTake ==
    ASSUME NEW j \in Jobs, NEW w \in Workers,
           StatusOf(j) \in {"waiting", "taken"}, StatusOf(j)' = "taken",
           HoldersOf(j) = {}, HoldersOf(j)' = {w}
    PROVE  Queue!Step(j)
BY DEF Queue!Step, Queue!Take, Queue!Moves

LEMMA IsReturn ==
    ASSUME NEW j \in Jobs, StatusOf(j) = "taken", StatusOf(j)' = "waiting",
           HoldersOf(j) = {}, HoldersOf(j)' = {}
    PROVE  Queue!Step(j)
BY DEF Queue!Step, Queue!Return, Queue!Moves

LEMMA IsFinish ==
    ASSUME NEW j \in Jobs, NEW w \in Workers,
           StatusOf(j) = "taken", StatusOf(j)' \in {"done", "dead"},
           HoldersOf(j) = {w}, HoldersOf(j)' = {}
    PROVE  Queue!Step(j)
BY DEF Queue!Step, Queue!Finish, Queue!Moves

\* A row that is left alone, while claims on it end or time goes on.
LEMMA IsLose ==
    ASSUME NEW j \in Jobs, jobs'[j] = jobs[j],
           \A w \in Workers : Holds(w, j)' => Holds(w, j)
    PROVE  Queue!Step(j)
<1>1. StatusOf(j)' = StatusOf(j)
  BY DEF StatusOf, Waiting, Working, Concluded
<1>2. HoldersOf(j)' \subseteq HoldersOf(j)
  BY DEF HoldersOf, Holds, Working
<1> QED BY <1>1, <1>2 DEF Queue!Step, Queue!Lose

LEMMA NobodyHoldsNext ==
    ASSUME NEW j \in Jobs, jobs'[j].state # Working(j)
    PROVE  HoldersOf(j)' = {}
BY DEF HoldersOf, Working

-----------------------------------------------------------------------------
\* A delivery offers a row or answers about one.
LEMMA AcceptSteps ==
    ASSUME QueueInv, NEW m \in Messages, NEW p \in Payloads, AcceptInbox(m, p)
    PROVE  HoldsInv' /\ \A j \in Jobs : Queue!Step(j)
<1>1. IInv /\ now' = now /\ held' = held /\ m \in Jobs
  BY DEF QueueInv, AcceptInbox, Jobs
<1>2. CASE jobs' = jobs
  <2>1. HoldsInv'
    BY <1>1, <1>2 DEF QueueInv, HoldsInv, HoldsRecord, Owns
  <2>2. \A j \in Jobs : Queue!Step(j)
    BY <1>1, <1>2, IsLose DEF Holds
  <2> QED BY <2>1, <2>2
<1>3. CASE jobs' # jobs
  <2>1. /\ jobs[m] = NoJob /\ jobs'[m].state = "RECEIVED"
        /\ \A j \in Jobs \ {m} : jobs'[j] = jobs[j]
    BY <1>1, <1>3 DEF AcceptInbox, Absent, IInv, TypeInv
  <2>2. jobs[m].state # Working(m) /\ jobs'[m].state = Waiting(m) /\ Waiting(m) # Working(m)
    BY <1>1, <2>1, StatesDiffer DEF Waiting
  <2>3. HoldsInv'
    <3> SUFFICES ASSUME NEW w \in Workers, NEW c \in held[w], Owns(w, c.job)'
                 PROVE  [job |-> c.job, until |-> jobs'[c.job].lease.until] \in held[w]
      BY <1>1 DEF HoldsInv, HoldsRecord
    <3>1. c.job \in Jobs \ {m}
      BY <1>1, <2>2 DEF Owns, Working, IInv, TypeInv
    <3>2. jobs'[c.job] = jobs[c.job] /\ Owns(w, c.job)
      BY <1>1, <2>1, <3>1 DEF Owns, Working
    <3> QED BY <3>2 DEF QueueInv, HoldsInv, HoldsRecord
  <2>4. Queue!Step(m)
    <3>1. StatusOf(m) = "absent" /\ StatusOf(m)' = "waiting"
      BY <1>1, <2>1, <2>2, StatusFacts, StatusFactsNext
    <3>2. HoldersOf(m) = {} /\ HoldersOf(m)' = {}
      BY <1>1, <2>2, NobodyHolds, NobodyHoldsNext
    <3> QED BY <1>1, <3>1, <3>2, IsOffer
  <2>5. \A j \in Jobs \ {m} : Queue!Step(j)
    BY <1>1, <2>1, IsLose DEF Holds
  <2> QED BY <2>3, <2>4, <2>5
<1> QED BY <1>2, <1>3

\* A claim takes rows that nobody holds and returns others, both perhaps from a
\* worker whose lease has lapsed.
LEMMA ClaimSteps ==
    ASSUME QueueInv, IInv', NEW w \in Workers, NEW kind, kind \in {Messages, Timers},
           Claim(w, kind)
    PROVE  HoldsInv' /\ \A j \in Jobs : Queue!Step(j)
<1>1. IInv /\ now' = now
  BY DEF QueueInv, Claim
<1>2. PICK S : Claims(w, kind, S)
  BY ClaimStep
<1>3. S \subseteq Jobs
  BY <1>1, <1>2, ClaimedRows
<1>4. \A j \in S : Due(j)
  BY <1>2 DEF Claims
<1>5. \A j \in S : /\ jobs'[j].state = Working(j)
                   /\ jobs'[j].lease = [owner |-> w, until |-> now + Lease]
  BY <1>1, <1>2, ClaimedRows
<1>6. \A j \in Jobs : j \notin S /\ j \in kind /\ Lapsed(j) => jobs'[j].state = Waiting(j)
  BY <1>1, <1>2, ClaimedRows
<1>7. \A j \in Jobs : j \notin S /\ ~ (j \in kind /\ Lapsed(j)) => jobs'[j] = jobs[j]
  BY <1>1, <1>2, ClaimedRows
<1>8. \A v \in Workers : \A c \in held[v] : c.until > now => c.job \notin S
  BY <1>1, <1>2, ClaimsHeld
<1>9. \A v \in Workers : \A c \in held'[v] : c \notin held[v] => v = w /\ c.job \in S
  BY <1>1, <1>2, ClaimsHeld
<1>10. /\ \A v \in Workers : held[v] \subseteq held'[v]
       /\ \A j \in S : [job |-> j, until |-> now + Lease] \in held'[w]
  BY <1>1, <1>2, ClaimsHeld
<1>11. HoldsInv'
  <2> SUFFICES ASSUME NEW v \in Workers, NEW c \in held'[v], Owns(v, c.job)'
               PROVE  [job |-> c.job, until |-> jobs'[c.job].lease.until] \in held'[v]
    BY DEF HoldsInv, HoldsRecord
  <2>1. c.job \in Jobs
    BY DEF IInv, TypeInv
  <2>2. /\ jobs'[c.job].state = Working(c.job) /\ jobs'[c.job].lease.owner = v
        /\ jobs'[c.job].lease.until > now
    BY <1>1 DEF Owns, Working
  <2>3. CASE c.job \in S
    <3>1. v = w /\ jobs'[c.job].lease.until = now + Lease
      BY <1>5, <2>2, <2>3
    <3> QED BY <1>10, <2>3, <3>1
  <2>4. CASE c.job \notin S
    <3>1. jobs'[c.job] = jobs[c.job]
      BY <1>6, <1>7, <2>1, <2>2, <2>4, StatesDiffer
    <3>2. c \in held[v] /\ Owns(v, c.job)
      BY <1>9, <2>2, <2>4, <3>1 DEF Owns
    <3>3. [job |-> c.job, until |-> jobs[c.job].lease.until] \in held[v]
      BY <3>2 DEF QueueInv, HoldsInv, HoldsRecord
    <3> QED BY <1>10, <3>1, <3>3
  <2> QED BY <2>3, <2>4
<1>12. ASSUME NEW j \in S PROVE Queue!Step(j)
  <2>1. j \in Jobs /\ Due(j)
    BY <1>3, <1>4
  <2>2. HoldersOf(j) = {}
    BY <1>1, <2>1, StatesDiffer, NobodyHolds DEF Due
  <2>3. StatusOf(j) \in {"waiting", "taken"} /\ StatusOf(j)' = "taken"
    BY <1>5, <2>1, StatusFacts, StatusFactsNext DEF Due, Lapsed
  <2>4. HoldersOf(j)' = {w}
    <3> DEFINE new == [job |-> j, until |-> now + Lease]
    <3>1. w \in HoldersOf(j)'
      <4>1. new \in held'[w] /\ new.job = j /\ new.until > now'
        BY <1>1, <1>10, ClockIsNat DEF IInv
      <4> HIDE DEF new
      <4> QED BY <1>5, <4>1 DEF HoldersOf, Working
    <3>2. ASSUME NEW v \in HoldersOf(j)' PROVE v = w
      <4>1. v \in Workers /\ \E c \in held'[v] : c.job = j /\ c.until > now
        BY <1>1, <3>2 DEF HoldersOf
      <4> QED BY <1>8, <1>9, <4>1
    <3> QED BY <3>1, <3>2
  <2> QED BY <2>1, <2>2, <2>3, <2>4, IsTake
<1>13. ASSUME NEW j \in Jobs, j \notin S, j \in kind, Lapsed(j) PROVE Queue!Step(j)
  <2>1. jobs'[j].state = Waiting(j) /\ jobs[j].state = Working(j)
    BY <1>6, <1>13 DEF Lapsed
  <2>2. StatusOf(j) = "taken" /\ StatusOf(j)' = "waiting"
    BY <2>1, StatusFacts, StatusFactsNext
  <2>3. HoldersOf(j) = {} /\ HoldersOf(j)' = {}
    BY <1>1, <1>13, <2>1, StatesDiffer, NobodyHolds, NobodyHoldsNext
  <2> QED BY <2>2, <2>3, IsReturn
<1>14. ASSUME NEW j \in Jobs, j \notin S, ~ (j \in kind /\ Lapsed(j)) PROVE Queue!Step(j)
  <2>1. \A v \in Workers : Holds(v, j)' => Holds(v, j)
    BY <1>1, <1>9, <1>14 DEF Holds
  <2> QED BY <1>7, <1>14, <2>1, IsLose
<1> QED BY <1>11, <1>12, <1>13, <1>14

\* Who concludes a row holds it, and is the only one.
LEMMA ConcludeSteps ==
    ASSUME QueueInv, NEW w \in Workers, NEW c \in held[w], NEW state, Conclude(w, c, state),
           state \in {Concluded(c.job), "DEAD_LETTERED"}
    PROVE  HoldsInv' /\ \A j \in Jobs : Queue!Step(j)
<1>1. IInv /\ now' = now /\ Owns(w, c.job) /\ c.job \in Jobs
  BY DEF QueueInv, IInv, TypeInv, Conclude
<1>2. /\ held'[w] = held[w] \ {c}
      /\ \A v \in Workers : held'[v] \subseteq held[v] /\ (v # w => held'[v] = held[v])
  BY DEF Conclude, QueueInv, IInv, TypeInv
<1>3. jobs[c.job].state = Working(c.job) /\ jobs[c.job] \in Row
  BY <1>1, StatesDiffer, StateMeansRow DEF Owns, IInv
<1>4. jobs'[c.job].state = state /\ \A j \in Jobs \ {c.job} : jobs'[j] = jobs[j]
  BY <1>1, <1>3 DEF Conclude, IInv, TypeInv, Row
<1>5. jobs'[c.job].state # Working(c.job)
  BY <1>1, <1>4, StatesDiffer
<1>6. HoldsInv'
  <2> SUFFICES ASSUME NEW v \in Workers, NEW d \in held'[v], Owns(v, d.job)'
               PROVE  [job |-> d.job, until |-> jobs'[d.job].lease.until] \in held'[v]
    BY DEF HoldsInv, HoldsRecord
  <2>1. d.job \in Jobs \ {c.job} /\ d \in held[v]
    BY <1>1, <1>2, <1>5 DEF Owns, Working, IInv, TypeInv
  <2>2. jobs'[d.job] = jobs[d.job] /\ Owns(v, d.job)
    BY <1>1, <1>4, <2>1 DEF Owns, Working
  <2>3. [job |-> d.job, until |-> jobs[d.job].lease.until] \in held[v]
    BY <2>1, <2>2 DEF QueueInv, HoldsInv, HoldsRecord
  <2> QED BY <1>2, <2>1, <2>2, <2>3
<1>7. Queue!Step(c.job)
  <2>1. StatusOf(c.job) = "taken" /\ StatusOf(c.job)' \in {"done", "dead"}
    BY <1>1, <1>3, <1>4, StatusFacts, StatusFactsNext
  <2>2. HoldersOf(c.job) = {w} /\ HoldersOf(c.job)' = {}
    BY <1>1, <1>5, OwnerHolds, NobodyHoldsNext
  <2> QED BY <1>1, <2>1, <2>2, IsFinish
<1>8. \A j \in Jobs \ {c.job} : Queue!Step(j)
  BY <1>1, <1>2, <1>4, IsLose DEF Holds
<1> QED BY <1>6, <1>7, <1>8

\* Who forgets a claim on record forgets the older ones on that row with it.
LEMMA ForgetSteps ==
    ASSUME QueueInv, NEW w \in Workers, Crash(w) \/ \E c \in held[w] : Refused(w, c)
    PROVE  HoldsInv' /\ \A j \in Jobs : Queue!Step(j)
<1>1. now' = now /\ jobs' = jobs
  BY DEF Crash, Refused
<1>2. \A v \in Workers : held'[v] \subseteq held[v] /\ (v # w => held'[v] = held[v])
  BY DEF Crash, Refused, QueueInv, IInv, TypeInv
<1>3. HoldsInv'
  <2> SUFFICES ASSUME NEW v \in Workers, NEW d \in held'[v], Owns(v, d.job)
               PROVE  [job |-> d.job, until |-> jobs[d.job].lease.until] \in held'[v]
    BY <1>1 DEF HoldsInv, HoldsRecord, Owns
  <2>1. [job |-> d.job, until |-> jobs[d.job].lease.until] \in held[v]
    BY <1>2 DEF QueueInv, HoldsInv, HoldsRecord
  <2>2. CASE v # w
    BY <1>2, <2>1, <2>2
  <2>3. CASE v = w /\ Crash(w)
    BY <2>3 DEF Crash, QueueInv, IInv, TypeInv
  <2>4. ASSUME v = w, NEW c \in held[w], Refused(w, c)
        PROVE  [job |-> d.job, until |-> jobs[d.job].lease.until] \in held'[v]
    <3>1. ~ Owns(w, c.job) /\ held'[w] = held[w] \ {c}
      BY <2>4 DEF Refused, QueueInv, IInv, TypeInv
    <3>2. d.job # c.job
      BY <2>4, <3>1
    <3> QED BY <2>1, <2>4, <3>1, <3>2
  <2> QED BY <2>2, <2>3, <2>4
<1>4. \A j \in Jobs : Queue!Step(j)
  BY <1>1, <1>2, IsLose DEF Holds
<1> QED BY <1>3, <1>4

\* Time ends holds.
LEMMA TickSteps ==
    ASSUME QueueInv, Tick
    PROVE  HoldsInv' /\ \A j \in Jobs : Queue!Step(j)
<1>1. IInv /\ now' = now + 1 /\ now \in Nat /\ jobs' = jobs /\ held' = held
  BY ClockIsNat DEF QueueInv, IInv, Tick
<1>2. ASSUME NEW w \in Workers, NEW c \in held[w], Owns(w, c.job)' PROVE Owns(w, c.job)
  <2>1. c.job \in Jobs /\ jobs[c.job].state = Working(c.job)
    BY <1>1, <1>2 DEF Owns, Working, IInv, TypeInv
  <2>2. jobs[c.job].lease.until \in Nat
    BY <1>1, <2>1, StatesDiffer, StateMeansRow DEF IInv, Row, Leases
  <2> QED BY <1>1, <1>2, <2>1, <2>2 DEF Owns
<1>3. HoldsInv'
  BY <1>1, <1>2 DEF QueueInv, HoldsInv, HoldsRecord
<1>4. ASSUME NEW j \in Jobs, NEW w \in Workers, Holds(w, j)' PROVE Holds(w, j)
  BY <1>1, <1>4 DEF Holds, IInv, TypeInv
<1>5. \A j \in Jobs : Queue!Step(j)
  BY <1>1, <1>4, IsLose
<1> QED BY <1>3, <1>5

LEMMA RestSteps ==
    ASSUME QueueInv, UNCHANGED <<now, jobs, held>>
    PROVE  HoldsInv' /\ \A j \in Jobs : Queue!Step(j)
<1>1. HoldsInv'
  BY DEF QueueInv, HoldsInv, HoldsRecord, Owns
<1>2. \A j \in Jobs : Queue!Step(j)
  BY IsLose DEF Holds
<1> QED BY <1>1, <1>2

LEMMA QueueStep == QueueInv /\ [Next]_vars => QueueInv' /\ \A j \in Jobs : Queue!Step(j)
<1> SUFFICES ASSUME QueueInv, [Next]_vars
             PROVE  HoldsInv' /\ \A j \in Jobs : Queue!Step(j)
  BY StepHolds DEF QueueInv
<1>1. IInv'
  BY StepHolds DEF QueueInv
<1>2. ASSUME NEW m \in Messages, NEW p \in Payloads, AcceptInbox(m, p)
      PROVE  HoldsInv' /\ \A j \in Jobs : Queue!Step(j)
  BY <1>2, AcceptSteps
<1>3. ASSUME NEW w \in Workers, ClaimDueInbox(w) \/ ClaimDueTimers(w)
      PROVE  HoldsInv' /\ \A j \in Jobs : Queue!Step(j)
  BY <1>1, <1>3, ClaimSteps DEF ClaimDueInbox, ClaimDueTimers
<1>4. ASSUME NEW w \in Workers, NEW c \in held[w],
             CompleteInbox(w, c) \/ FireTimer(w, c) \/ DeadLetterInbox(w, c)
      PROVE  HoldsInv' /\ \A j \in Jobs : Queue!Step(j)
  <2>1. Conclude(w, c, Concluded(c.job)) \/ Conclude(w, c, "DEAD_LETTERED")
    BY <1>4, JobAssumption DEF CompleteInbox, FireTimer, DeadLetterInbox, Concluded
  <2> QED BY <2>1, ConcludeSteps
<1>5. ASSUME NEW w \in Workers, Crash(w) \/ \E c \in held[w] : Refused(w, c)
      PROVE  HoldsInv' /\ \A j \in Jobs : Queue!Step(j)
  BY <1>5, ForgetSteps
<1>6. CASE Tick
  BY <1>6, TickSteps
<1>7. CASE UNCHANGED <<now, jobs, held>>
  BY <1>7, RestSteps
<1> QED
  BY <1>2, <1>3, <1>4, <1>5, <1>6, <1>7 DEF Next, vars, TransitionWorkflow, Halt

\* Inbox and timers keep what LeaseQueue says of every row, for any number of
\* workers and rows: nobody is given a row that another holds, nobody concludes a
\* row without holding it, and what is concluded stays so (claimDueInbox,
\* claimDueTimers, completeInbox, deadLetterInbox, fireTimer).
THEOREM KeepsQueueCorrect == Spec => KeepsQueue
<1>1. Init => QueueInv
  BY InitHolds DEF Init, QueueInv, HoldsInv
<1>2. Init => Queue!Init
  <2> SUFFICES ASSUME Init PROVE Queue!Init
    OBVIOUS
  <2>1. \A j \in Jobs : StatusOf(j) \in {"absent", "waiting"}
    <3>1. \A j \in Jobs : jobs[j] = NoJob \/ jobs[j].state = Waiting(j)
      BY DEF Init, Waiting
    <3> QED BY <3>1, StatusFacts
  <2>2. \A j \in Jobs : HoldersOf(j) = {}
    BY DEF Init, HoldersOf
  <2> QED BY <2>1, <2>2 DEF Queue!Init
<1>3. QueueInv /\ [Next]_vars => [\A i \in Jobs : Queue!Step(i)]_(Queue!vars)
  BY QueueStep
<1>4. Spec => []QueueInv
  <2>1. QueueInv /\ [Next]_vars => QueueInv'
    BY QueueStep
  <2> QED BY <1>1, <2>1, PTL DEF Spec
<1> QED BY <1>2, <1>3, <1>4, PTL DEF Spec, KeepsQueue, Queue!Spec
===============================================================================
