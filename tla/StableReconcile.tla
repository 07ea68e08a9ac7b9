--------------------------- MODULE StableReconcile ---------------------------
(***************************************************************************)
(* One verifier run of the v2 gate: runV2Reconcile and                     *)
(* loadCompleteV2Snapshot of packages/action/src/v2/gate-runtime.mjs.      *)
(*                                                                         *)
(* The run is bound to one head and test-merge commit.  It reads the pull  *)
(* request, the decision carriers twice (an opening and a closing load)    *)
(* and the pull request again, while authors, reviewers and Codex go on    *)
(* changing the pull request.  A carrier load is not atomic: the review    *)
(* list, the comment list and the comment history are separate requests,   *)
(* and the history is requested only after the comment list has arrived.   *)
(*                                                                         *)
(* Simplifications.  The pull request has no review-request comments, so   *)
(* the only clean basis is a direct current-head receipt and nothing       *)
(* supersedes a finding or a deletion (EvidenceReducer has those rules).   *)
(* A review is here from its submission on.  Receipts and findings are all  *)
(* for the bound head.  The base alternates between two branches.          *)
(* Deletion events are always served fresh, so the deletions a run has     *)
(* observed (observedDeletedCommentEvents) need no memory here, and an     *)
(* edit's metadata always fits its comment, so the refusal of              *)
(* attachV2IssueCommentEditMetadata is left out: the code may refuse where *)
(* the model goes on.                                                      *)
(***************************************************************************)
EXTENDS Integers, FiniteSets

CONSTANTS
    Receipts,     \* identities of Codex clean receipts (issue comments)
    Findings,     \* identities of submitted Codex reviews with findings
    Comparisons,  \* floor(stabilityWindowMs / stabilityIntervalMs)
    MaxEpoch,     \* bound: base retargets in the life of the pull request
    MaxChurn      \* bound: changes and faults during the run

ASSUME ComparisonsAssumption == Comparisons \in Nat \ {0}
ASSUME BoundsAssumption == MaxEpoch \in Nat /\ MaxChurn \in Nat
ASSUME ReceiptsAssumption == IsFiniteSet(Receipts)

VARIABLES
    \* The pull request on GitHub.
    posted,       \* receipts ever posted, each with the epoch it was posted in
    deleted,      \* the posted receipts that were deleted since
    findings,     \* the submitted findings
    epoch,        \* number of base retargets so far
    timeline,     \* how many of them the GraphQL timeline serves
    atHead,       \* is the head (and test merge) the one the run is bound to
    prState,      \* "open", "draft" or "closed"
    churn,        \* changes and faults left
    \* The verifier run.
    boundEpoch,   \* epoch at launch: freezes the base ref of the scope
    eventEpoch,   \* the retarget whose edited event started the run, or 0
    pc,           \* where the run is
    attempt,      \* index of the current snapshot
    count,        \* pull_request.comments of the snapshot's first read
    todo,         \* carriers the current load has still to read
    flawed,       \* the current load holds an error, thrown when it ends
    opening,      \* evidence of the opening load
    closing,      \* evidence of the closing load
    epochLatch,   \* observedBaseEpoch: highest retarget count seen by the run
    observed,     \* observedIssueCommentEdits: every receipt seen by the run
    poisoned,     \* V2_OBSERVED_HISTORY_POISON
    previous,     \* previousClean, a set of at most one snapshot
    report,       \* the report's outcome, "none" until there is one
    published,    \* the snapshots the report rests on
    \* History: the state of the evidence when the opening load ended.
    boundary

pullRequest == <<posted, deleted, findings, epoch, timeline, atHead, prState>>
launch == <<boundEpoch, eventEpoch>>
latches == <<epochLatch, observed, poisoned>>
verdict == <<report, published>>
vars == <<pullRequest, churn, launch, pc, attempt, count, todo, flawed, opening, closing,
          latches, previous, verdict, boundary>>

-----------------------------------------------------------------------------

Carriers == {"reviews", "comments", "history"}
PcValues == {"start", "opening", "closing", "sleep", "done"}
Outcomes == {"none", "success", "failure", "pending", "unstable", "stale",
             "not_applicable", "unavailable"}
Posts == Receipts \X (0..MaxEpoch)

Evidence == [live : SUBSET Posts, deleted : SUBSET Posts,
             findings : SUBSET Findings, epoch : 0..MaxEpoch]
Facts == [live : SUBSET Posts, deleted : SUBSET Posts, findings : SUBSET Findings]
Snapshots == [evidence : Evidence, boundary : Facts, attempt : 0..Comparisons]

NoFacts == [live |-> {}, deleted |-> {}, findings |-> {}]
NoEvidence == [live |-> {}, deleted |-> {}, findings |-> {}, epoch |-> 0]

\* What GitHub holds now, all of it read in one instant.
Now == [live |-> posted \ deleted, deleted |-> deleted, findings |-> findings]

\* The part of gathered evidence that GitHub cannot serve late.
FactsOf(ev) == [live |-> ev.live, deleted |-> ev.deleted, findings |-> ev.findings]

BaseRef(e) == e % 2

-----------------------------------------------------------------------------
(* The decision of reduceV2Evidence for a pull request with no requests.   *)

AfterEpoch(ev) == {r \in ev.live : r[2] >= ev.epoch}

\* A second receipt later than a retarget is the unattributable terminal clean.
DirectClean(ev) ==
    /\ AfterEpoch(ev) # {}
    /\ ev.epoch > 0 => Cardinality(AfterEpoch(ev)) = 1

Decision(ev) ==
    IF ev.findings # {} THEN "failure"
    ELSE IF ev.deleted = {} /\ DirectClean(ev) THEN "success"
    ELSE "pending"

RetargetConfirmedByRefAlone(ev) ==
    eventEpoch > 0 => BaseRef(ev.epoch) = BaseRef(eventEpoch)

\* The edited event that started the run is confirmed by the timeline.
RetargetConfirmed(ev) ==
    eventEpoch > 0 =>
        /\ ev.epoch >= eventEpoch
        /\ BaseRef(ev.epoch) = BaseRef(eventEpoch)

-----------------------------------------------------------------------------

Init ==
    /\ epoch \in 0..MaxEpoch
    /\ timeline \in 0..epoch
    /\ posted \in {{}} \cup {{<<r, e>>} : r \in Receipts, e \in 0..epoch}
    /\ deleted = {}
    /\ findings = {}
    /\ atHead = TRUE
    /\ prState = "open"
    /\ churn = MaxChurn
    /\ boundEpoch = epoch
    /\ eventEpoch \in {0} \cup {e \in 1..epoch : BaseRef(e) = BaseRef(epoch)}
    /\ pc = "start"
    /\ attempt = 0
    /\ count = 0
    /\ todo = {}
    /\ flawed = FALSE
    /\ opening = NoEvidence
    /\ closing = NoEvidence
    /\ epochLatch = 0
    /\ observed = {}
    /\ poisoned = FALSE
    /\ previous = {}
    /\ report = "none"
    /\ published = {}
    /\ boundary = NoFacts

-----------------------------------------------------------------------------
(* GitHub.  None of these steps waits for the run.                         *)

\* The model looks no further than the report.
Churn == pc # "done" /\ churn > 0 /\ churn' = churn - 1

EnvUnchanged ==
    UNCHANGED <<launch, pc, attempt, count, todo, flawed, opening, closing, latches,
                previous, verdict, boundary>>

\* Codex posts a clean receipt for the bound head.
PostReceipt(r) ==
    /\ Churn
    /\ \A p \in posted : p[1] # r
    /\ posted' = posted \cup {<<r, epoch>>}
    /\ UNCHANGED <<deleted, findings, epoch, timeline, atHead, prState>>
    /\ EnvUnchanged

\* A maintainer deletes a receipt; the timeline keeps a deletion event.
DeleteReceipt(p) ==
    /\ Churn
    /\ p \in posted \ deleted
    /\ deleted' = deleted \cup {p}
    /\ UNCHANGED <<posted, findings, epoch, timeline, atHead, prState>>
    /\ EnvUnchanged

SubmitFinding(f) ==
    /\ Churn
    /\ f \notin findings
    /\ findings' = findings \cup {f}
    /\ UNCHANGED <<posted, deleted, epoch, timeline, atHead, prState>>
    /\ EnvUnchanged

Retarget ==
    /\ Churn
    /\ epoch < MaxEpoch
    /\ epoch' = epoch + 1
    /\ timeline' \in {timeline, epoch + 1}
    /\ UNCHANGED <<posted, deleted, findings, atHead, prState>>
    /\ EnvUnchanged

\* The timeline is eventually consistent: it catches up, or falls back.
ServeTimeline(e) ==
    /\ Churn
    /\ e # timeline
    /\ timeline' = e
    /\ UNCHANGED <<posted, deleted, findings, epoch, atHead, prState>>
    /\ EnvUnchanged

\* A push away from the bound head, or a force push back to it.
Push ==
    /\ Churn
    /\ atHead' = ~atHead
    /\ UNCHANGED <<posted, deleted, findings, epoch, timeline, prState>>
    /\ EnvUnchanged

SetState(s) ==
    /\ Churn
    /\ prState # s
    /\ prState' = s
    /\ UNCHANGED <<posted, deleted, findings, epoch, timeline, atHead>>
    /\ EnvUnchanged

Environment ==
    \/ \E r \in Receipts : PostReceipt(r)
    \/ \E p \in posted : DeleteReceipt(p)
    \/ \E f \in Findings : SubmitFinding(f)
    \/ Retarget
    \/ \E e \in 0..epoch : ServeTimeline(e)
    \/ Push
    \/ \E s \in {"open", "draft", "closed"} : SetState(s)

-----------------------------------------------------------------------------
(* How an attempt or the run ends.                                         *)

Finish(outcome, snapshots) ==
    /\ pc' = "done"
    /\ report' = outcome
    /\ published' = snapshots
    /\ UNCHANGED <<attempt, previous>>

AttemptsLeftOffByOne == attempt <= Comparisons

AttemptsLeft == attempt < Comparisons

\* The end of an attempt without a report: sleep, or give up.
GoRound ==
    IF AttemptsLeft
      THEN pc' = "sleep" /\ UNCHANGED <<attempt, verdict>>
      ELSE /\ pc' = "done"
           /\ report' = "unstable"
           /\ published' = {}
           /\ UNCHANGED attempt

RestartKeepingPrevious == UNCHANGED previous /\ GoRound

\* A wait_then_reconcile error: forget the previous clean and go round again.
Restart == previous' = {} /\ GoRound

\* assertV2ExpectedSnapshotScope and assertV2FixedSnapshotScope.
ScopeHolds ==
    /\ atHead
    /\ prState = "open"
    /\ BaseRef(epoch) = BaseRef(boundEpoch)

ScopeError ==
    \/ /\ ~atHead \/ prState = "closed"
       /\ Finish("stale", {})
    \/ /\ atHead /\ prState = "draft"
       /\ Finish("not_applicable", {})
    \/ /\ atHead /\ prState = "open" /\ BaseRef(epoch) # BaseRef(boundEpoch)
       /\ Restart

-----------------------------------------------------------------------------
(* loadCompleteV2Snapshot.                                                 *)

\* Repository and pull request are read and bound to the frozen scope.
ReadBefore ==
    /\ pc = "start"
    /\ IF ScopeHolds
         THEN /\ pc' = "opening"
              /\ count' = Cardinality(posted \ deleted)
              /\ todo' = Carriers
              /\ flawed' = FALSE
              /\ opening' = NoEvidence
              /\ UNCHANGED <<attempt, previous, verdict>>
         ELSE ScopeError /\ UNCHANGED <<count, todo, flawed, opening>>
    /\ UNCHANGED <<pullRequest, churn, launch, closing, latches, boundary>>

Loading == pc \in {"opening", "closing"}

\* What the current load has gathered so far, and how it gathers more.
Gathered == IF pc = "opening" THEN opening ELSE closing

Gather(ev) ==
    IF pc = "opening"
      THEN opening' = ev /\ UNCHANGED closing
      ELSE closing' = ev /\ UNCHANGED opening

ReadReviews ==
    /\ Loading /\ "reviews" \in todo
    /\ todo' = todo \ {"reviews"}
    /\ Gather([Gathered EXCEPT !.findings = findings])
    /\ UNCHANGED <<pullRequest, churn, launch, pc, attempt, count, flawed, latches,
                   previous, verdict, boundary>>

HistoryKeptUnchecked(listed) == TRUE

HistoryKept(listed) == observed \subseteq listed

\* The list must keep every receipt the run has seen, and its length must be
\* the comment count of the pull request read before it.
ReadComments ==
    /\ Loading /\ "comments" \in todo
    /\ todo' = todo \ {"comments"}
    /\ LET listed == posted \ deleted IN
         /\ poisoned' = (poisoned \/ ~HistoryKept(listed))
         /\ observed' = observed \cup listed
         /\ flawed' = (flawed \/ poisoned' \/ Cardinality(listed) # count)
         /\ Gather([Gathered EXCEPT !.live = listed])
    /\ UNCHANGED <<pullRequest, churn, launch, pc, attempt, count, epochLatch,
                   previous, verdict, boundary>>

\* The GraphQL timeline: deletions, and a base epoch that may lag.  A count
\* below one already seen is an error of this attempt only.
ReadHistory ==
    /\ Loading /\ "history" \in todo /\ "comments" \notin todo
    /\ todo' = todo \ {"history"}
    /\ flawed' = (flawed \/ timeline < epochLatch)
    /\ epochLatch' = IF timeline < epochLatch THEN epochLatch ELSE timeline
    /\ Gather([Gathered EXCEPT !.deleted = deleted, !.epoch = timeline])
    /\ UNCHANGED <<pullRequest, churn, launch, pc, attempt, count, observed, poisoned,
                   previous, verdict, boundary>>

Loaded == Loading /\ todo = {}

\* Errors of the reads are thrown only when all of them have settled.
LoadFails ==
    /\ Loaded /\ flawed
    /\ flawed' = FALSE
    /\ Restart
    /\ UNCHANGED <<pullRequest, churn, launch, count, todo, opening, closing, latches,
                   boundary>>

\* The opening load is complete: start the closing one.
StartClosing ==
    /\ pc = "opening" /\ Loaded /\ ~flawed
    /\ pc' = "closing"
    /\ todo' = Carriers
    /\ closing' = NoEvidence
    /\ boundary' = Now
    /\ UNCHANGED <<pullRequest, churn, launch, attempt, count, flawed, opening, latches,
                   previous, verdict>>

SelfConsistentByCount == count = Cardinality(posted \ deleted)

SelfConsistent ==
    /\ count = Cardinality(posted \ deleted)
    /\ opening = closing

ConfirmsNothing(snapshot) == snapshot \in previous

\* The previous attempt ended in a clean snapshot with the same fingerprint.
Confirms(snapshot) == \E p \in previous : p.evidence = snapshot.evidence

\* runV2Reconcile on a complete, self-consistent snapshot.
Judge(snapshot) ==
    LET outcome == Decision(snapshot.evidence) IN
    IF outcome # "success"
      THEN Finish(outcome, {snapshot})
    ELSE IF ~RetargetConfirmed(snapshot.evidence)
      THEN Finish("pending", {snapshot})
    ELSE IF Confirms(snapshot)
      THEN Finish("success", previous \cup {snapshot})
    ELSE previous' = {snapshot} /\ GoRound

\* The pull request is read again; from here to the report nothing awaits.
ReadAfter ==
    /\ pc = "closing" /\ Loaded /\ ~flawed
    /\ IF ~ScopeHolds THEN ScopeError
       ELSE IF SelfConsistent
         THEN Judge([evidence |-> closing, boundary |-> boundary, attempt |-> attempt])
       ELSE Restart
    /\ UNCHANGED <<pullRequest, churn, launch, count, todo, flawed, opening, closing,
                   latches, boundary>>

-----------------------------------------------------------------------------
(* Pacing, faults and the deadline.                                        *)

SleepWithoutCounting ==
    /\ pc = "sleep"
    /\ pc' = "start"
    /\ UNCHANGED <<pullRequest, churn, launch, attempt, count, todo, flawed,
                   opening, closing, latches, previous, verdict, boundary>>

Sleep ==
    /\ pc = "sleep"
    /\ pc' = "start"
    /\ attempt' = attempt + 1
    /\ UNCHANGED <<pullRequest, churn, launch, count, todo, flawed, opening, closing,
                   latches, previous, verdict, boundary>>

\* A page changed under pagination, an object changed between list and exact
\* refetch, a response was inconsistent: wait_then_reconcile.
InconsistentRead ==
    /\ pc \in {"start", "opening", "closing"}
    /\ Churn
    /\ Restart
    /\ UNCHANGED <<pullRequest, launch, count, todo, flawed, opening, closing, latches,
                   boundary>>

\* Three attempts at a read failed, or a limit was hit: the error leaves the
\* loop and the run reports unhealthy.
UnavailableRead ==
    /\ pc \in {"start", "opening", "closing"}
    /\ Churn
    /\ Finish("unavailable", {})
    /\ UNCHANGED <<pullRequest, launch, count, todo, flawed, opening, closing, latches,
                   boundary>>

\* The monotonic deadline passes; the next check of it ends the run.
DeadlineExpires ==
    /\ pc # "done"
    /\ Churn
    /\ Finish("unstable", {})
    /\ UNCHANGED <<pullRequest, launch, count, todo, flawed, opening, closing, latches,
                   boundary>>

Load ==
    \/ ReadBefore \/ ReadReviews \/ ReadComments \/ ReadHistory
    \/ LoadFails \/ StartClosing \/ ReadAfter

Verifier == Load \/ Sleep \/ InconsistentRead \/ UnavailableRead \/ DeadlineExpires

Done == pc = "done" /\ UNCHANGED vars

Next == Environment \/ Verifier \/ Done

\* The run is scheduled by its runner and every awaited read answers or fails.
Spec == Init /\ [][Next]_vars /\ WF_vars(Verifier)

-----------------------------------------------------------------------------

\* Every variable holds a value of its type.
TypeOK ==
    /\ posted \in SUBSET Posts /\ deleted \in SUBSET Posts
    /\ findings \in SUBSET Findings
    /\ epoch \in 0..MaxEpoch /\ timeline \in 0..epoch /\ boundEpoch \in 0..MaxEpoch
    /\ eventEpoch \in 0..MaxEpoch /\ epochLatch \in 0..MaxEpoch
    /\ atHead \in BOOLEAN /\ prState \in {"open", "draft", "closed"}
    /\ churn \in 0..MaxChurn
    /\ pc \in PcValues /\ attempt \in 0..Comparisons
    /\ count \in Nat
    /\ todo \in SUBSET Carriers /\ flawed \in BOOLEAN
    /\ opening \in Evidence /\ closing \in Evidence
    /\ observed \in SUBSET Posts /\ poisoned \in BOOLEAN
    /\ previous \in SUBSET Snapshots /\ published \in SUBSET Snapshots
    /\ report \in Outcomes
    /\ boundary \in Facts

\* The six requests of a snapshot (two loads of three carriers) amount to one
\* atomic read: what the run remembers or publishes is what GitHub held, all
\* at once, in the instant between the two loads.
SnapshotIsReal ==
    \A s \in previous \cup published : FactsOf(s.evidence) = s.boundary

\* Success rests on two snapshots with no failed attempt between them, and
\* GitHub held the same clean facts at both of their instants.
SuccessHeldTwice ==
    report = "success" =>
        \E p, q \in published :
            /\ q.attempt = p.attempt + 1
            /\ p.boundary = q.boundary
            /\ q.boundary.findings = {} /\ q.boundary.deleted = {}
            /\ q.boundary.live # {}

\* The check turns green only while the pull request is open at the bound
\* head and base, on a receipt no older than the retarget that started the
\* run, whatever epoch the timeline served.
SuccessIsCurrent ==
    [][report # "success" /\ report' = "success" =>
         /\ atHead /\ prState = "open" /\ BaseRef(epoch) = BaseRef(boundEpoch)
         /\ \A s \in published' : \E r \in s.evidence.live : r[2] >= eventEpoch]_vars

\* A run that has seen a receipt never reports on evidence that lacks it: a
\* withdrawn receipt is waited out, not ruled on.
NothingSeenIsForgotten ==
    \A s \in published : observed \subseteq s.evidence.live

FindingFacts == {f \in Facts : f.findings # {}}
CleanFacts == {f \in Facts : f.findings = {} /\ f.deleted = {} /\ f.live # {}}

\* The report as the abstract verdict.
Verdict ==
    CASE report \in {"none", "success", "failure"} -> report
      [] OTHER -> "open"

Atomic == INSTANCE AtomicGate WITH
    facts <- Now,
    glance <- boundary,
    agreed <- {p.boundary : p \in previous},
    verdict <- Verdict

\* The run, with its interleaved reads, restarts and faults, does what a run
\* that reads everything in one instant does.
ImplementsAtomicGate == Atomic!Spec

\* Every run ends with a report.
Terminates == <>(pc = "done")

\* When nothing changes and nothing fails from the start, a clean pull request
\* gets its success: the window is long enough for the two snapshots.
QuietCleanSucceeds ==
    /\ pc = "start" /\ attempt = 0 /\ churn = 0 /\ ScopeHolds /\ timeline = epoch
    /\ Decision([live |-> posted \ deleted, deleted |-> deleted,
                 findings |-> findings, epoch |-> epoch]) = "success"
    ~> report = "success"
=============================================================================
