--------------------------- MODULE MCStage5Receipts ---------------------------
(***************************************************************************)
(* Instances of Stage5Receipts for TLC.                                    *)
(***************************************************************************)
EXTENDS Stage5Receipts, TLC

CONSTANTS k1, k2, s1, o1, p1, p2

TypeOf   == [s \in Subjects |-> "ORDER"]
Tables   == [s \in Subjects |-> "PRESENT"]

\* A number that changes to its decimal text.
Amount(v) == [kind |-> IF v = 1 THEN "NUMBER" ELSE "DECIMAL", digits |-> 10 * v, scale |-> v - 1]
Shown     == [v \in 1 .. MaxVersion |-> Amount(v)]

AtMostOne == [subject |-> s1, operator |-> "LTE", value |-> Amount(1)]

Reads(k, workload) ==
    [scope |-> "READBACK", key |-> k, workload |-> workload, forbidden |-> FALSE,
     peers |-> p1, subject |-> s1]

Analysis ==
    [agent |-> "fulfillment_steward", caseType |-> "FULFILLMENT",
     purpose |-> "agent-case-post-inference", phase |-> "SIMULATION",
     capability |-> "analysis.read", effect |-> "A0"]

Asks(k, reads, expected) ==
    [scope |-> "ADMISSION", key |-> k, workload |-> "service:sultan-os", forbidden |-> FALSE,
     peers |-> p1, operation |-> o1, participation |-> Analysis, evidence |-> reads,
     expects |-> expected,
     interaction |-> [used |-> reads, expects |-> expected, intact |-> TRUE,
                      ready |-> TRUE, ofRun |-> TRUE]]

Observes(k, r) ==
    [scope |-> "OUTCOME", key |-> k, workload |-> "service:luzione-ui", forbidden |-> FALSE,
     operation |-> o1, readback |-> r, supersedes |-> None]

UI == "service:luzione-ui"

\* Two admissions of one operation, on either readback; of these the second is
\* also what the outcome observes.  Two reads are refused at the door.
Exchange ==
    {Reads(k1, UI), Reads(k2, UI), Reads(k2, "other"), [Reads(k2, UI) EXCEPT !.peers = p2],
     Asks(k1, {k1}, AtMostOne), Asks(k2, {k2}, NoExpectation), Observes(k1, k2)}

HandlerSymmetry == Permutations(Handlers)
===============================================================================
