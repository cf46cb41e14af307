---------------------------- MODULE ProposalReview ----------------------------
(***************************************************************************)
(* Reviews of the proposal documents of one commercial case.               *)
(*                                                                         *)
(* decideProposal reads the newest document of the case, joined with the   *)
(* case, "for share of d": the snapshot chooses the document and supplies  *)
(* the version of the case, the lock keeps that document as it is until    *)
(* the commit.  An approval also reads its policy "for share".  The UI     *)
(* renders documents, writes new ones and changes the case meanwhile.      *)
(***************************************************************************)
EXTENDS Integers, FiniteSets, CommandHandlers

CONSTANTS
    ReviewCommands,  \* reviews that may be requested
    Notes,           \* reviewer notes and findings
    MaxDocuments,    \* bound: documents the UI writes
    MaxVersion,      \* bound: versions of the case
    MaxPolicy        \* bound: versions of the approval policy

Documents    == 1 .. MaxDocuments
CaseVersions == 1 .. MaxVersion
Policies     == 1 .. MaxPolicy

NoReviewPolicy == 0

ReviewDecisions == {"approved", "changes_requested", "rejected"}

\* "confirms" is the policy version whose typed confirmation the command holds
\* and one of whose roles its actor has.  The parser lets no approval with an
\* open blocker through.
ReviewCommand ==
    [expects : CaseVersions, document : Documents, decision : ReviewDecisions, notes : Notes,
     confirms : Policies]

ASSUME ReviewAssumption ==
    /\ MaxDocuments \in Nat \ {0}
    /\ MaxVersion \in Nat \ {0}
    /\ MaxPolicy \in Nat \ {0}
    /\ ReviewCommands \subseteq ReviewCommand

VARIABLES
    caseVersion,  \* commercial_cases.version
    latest,       \* the newest proposal document; 0 when there is none
    verified,     \* documents in google_generation_state readback_verified
    policy,       \* version of proposal_document_approval, or NoReviewPolicy
    reviews       \* commercial_case_proposal_review_versions

reviewRows == <<caseVersion, latest, verified, policy, reviews>>
reviewVars == <<caseVersion, latest, verified, policy, reviews, pc, request, view>>

\* An approval names its policy, the other decisions need none.
Review ==
    [document : Documents, decision : {"approved"}, notes : Notes, expects : CaseVersions,
     policy : Policies]
    \cup
    [document : Documents, decision : ReviewDecisions \ {"approved"}, notes : Notes,
     expects : CaseVersions, policy : {NoReviewPolicy}]

\* A view is the document and the case version of the first snapshot.
NoView == [document |-> 0, version |-> 0]

Approves(h) == request[h].decision = "approved"

-------------------------------------------------------------------------------
ReviewInit ==
    /\ caseVersion = 1
    /\ latest = 0
    /\ verified = {}
    /\ policy \in Policies
    /\ reviews = {}
    /\ pc = [h \in Handlers |-> "idle"]
    /\ request = [h \in Handlers |-> NoRequest]
    /\ view = [h \in Handlers |-> NoView]

SharesDocument(h, d) == pc[h] = "commit" /\ view[h].document = d

\* Mutant: the policy is read without "for share".
SharesNoPolicy(h) == FALSE

SharesReviewPolicy(h) == pc[h] = "commit" /\ Approves(h)

FinishReview(h) ==
    /\ pc' = [pc EXCEPT ![h] = "idle"]
    /\ request' = [request EXCEPT ![h] = NoRequest]
    /\ view' = [view EXCEPT ![h] = NoView]

ReceiveReview(h) ==
    /\ pc[h] = "idle"
    /\ \E c \in ReviewCommands : request' = [request EXCEPT ![h] = c]
    /\ pc' = [pc EXCEPT ![h] = "read"]
    /\ UNCHANGED <<reviewRows, view>>

\* The first statement takes its snapshot, and waits for the document.
ReadDocument(h) ==
    /\ pc[h] = "read"
    /\ pc' = [pc EXCEPT ![h] = "lock"]
    /\ view' = [view EXCEPT ![h] = [document |-> latest, version |-> caseVersion]]
    /\ UNCHANGED <<reviewRows, request>>

\* PROPOSAL_NOT_FOUND, VERSION_CONFLICT
NamesDocument(h) ==
    /\ view[h].document = request[h].document
    /\ view[h].version = request[h].expects

\* PROVIDER_READBACK_REQUIRED, POLICY_NOT_CONFIGURED, APPROVAL_AUTHORITY_DENIED,
\* TYPED_CONFIRMATION_REQUIRED
MayApprove(h) ==
    /\ view[h].document \in verified
    /\ policy # NoReviewPolicy
    /\ request[h].confirms = policy

AdmitsReview(h) == NamesDocument(h) /\ (Approves(h) => MayApprove(h))

DecideProposal(h) ==
    /\ pc[h] = "lock"
    /\ AdmitsReview(h)
    /\ pc' = [pc EXCEPT ![h] = "commit"]
    /\ UNCHANGED <<reviewRows, request, view>>

RefuseReview(h) ==
    /\ pc[h] = "lock"
    /\ ~AdmitsReview(h)
    /\ FinishReview(h)
    /\ UNCHANGED reviewRows

ReviewOf(r) ==
    [document |-> r.document, decision |-> r.decision, notes |-> r.notes,
     expects |-> r.expects,
     policy |-> IF r.decision = "approved" THEN r.confirms ELSE NoReviewPolicy]

\* What review_hash is a digest of.
SameHash(v, w) ==
    v.document = w.document /\ v.decision = w.decision /\ v.notes = w.notes

\* unique (tenant_id, case_id, review_hash)
Unused(v) == \A w \in reviews : ~SameHash(v, w)

CommitReview(h) ==
    /\ pc[h] = "commit"
    /\ Unused(ReviewOf(request[h]))
    /\ reviews' = reviews \cup {ReviewOf(request[h])}
    /\ FinishReview(h)
    /\ UNCHANGED <<caseVersion, latest, verified, policy>>

\* The unique index refuses the row: an error without a domain code.
Repeated(h) ==
    /\ pc[h] = "commit"
    /\ ~Unused(ReviewOf(request[h]))
    /\ FinishReview(h)
    /\ UNCHANGED reviewRows

\* The handler fails, or its process ends: rolled back.
AbortReview(h) ==
    /\ pc[h] # "idle"
    /\ FinishReview(h)
    /\ UNCHANGED reviewRows

-------------------------------------------------------------------------------
(***************************************************************************)
(* The UI.  A new document takes the case to its resulting version.        *)
(***************************************************************************)
NewDocument ==
    /\ latest < MaxDocuments
    /\ caseVersion < MaxVersion
    /\ latest' = latest + 1
    /\ caseVersion' = caseVersion + 1
    /\ UNCHANGED <<verified, policy, reviews, pc, request, view>>

ChangeCase ==
    /\ caseVersion < MaxVersion
    /\ caseVersion' = caseVersion + 1
    /\ UNCHANGED <<latest, verified, policy, reviews, pc, request, view>>

\* A rendering is read back, or made again.
Render(d) ==
    /\ d <= latest
    /\ \A h \in Handlers : ~SharesDocument(h, d)
    /\ verified' = IF d \in verified THEN verified \ {d} ELSE verified \cup {d}
    /\ UNCHANGED <<caseVersion, latest, policy, reviews, pc, request, view>>

ChangeReviewPolicy ==
    /\ \A h \in Handlers : ~SharesReviewPolicy(h)
    /\ policy' \in (Policies \cup {NoReviewPolicy}) \ {policy}
    /\ UNCHANGED <<caseVersion, latest, verified, reviews, pc, request, view>>

ReviewNext ==
    \/ \E h \in Handlers :
        \/ ReceiveReview(h) \/ ReadDocument(h) \/ DecideProposal(h) \/ RefuseReview(h)
        \/ CommitReview(h) \/ Repeated(h) \/ AbortReview(h)
    \/ NewDocument \/ ChangeCase \/ ChangeReviewPolicy
    \/ \E d \in Documents : Render(d)

ReviewSpec == ReviewInit /\ [][ReviewNext]_reviewVars

-------------------------------------------------------------------------------
\* Every variable keeps its type.
ReviewTypeOK ==
    /\ caseVersion \in CaseVersions
    /\ latest \in Documents \cup {0}
    /\ verified \subseteq 1 .. latest
    /\ policy \in Policies \cup {NoReviewPolicy}
    /\ reviews \subseteq Review
    /\ pc \in [Handlers -> {"idle", "read", "lock", "commit"}]
    /\ request \in [Handlers -> ReviewCommands \cup {NoRequest}]
    /\ view \in [Handlers -> [document : Documents \cup {0}, version : CaseVersions \cup {0}]]

\* An approval is recorded while the rendering of its document is verified and
\* under the policy it names: re-rendering and policy changes wait for it.
ApprovalHolds ==
    [][\A v \in reviews' \ reviews :
          v.decision = "approved" =>
              /\ v.document \in verified
              /\ v.policy = policy]_reviewVars

\* A review names a version its document was reviewed at: the UI has written
\* the document by then, which takes the case past version 1.
ReviewFollowsDocument ==
    \A v \in reviews : v.document <= latest /\ v.document < v.expects /\ v.expects <= caseVersion
===============================================================================
