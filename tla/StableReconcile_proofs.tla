----------------------- MODULE StableReconcile_proofs -----------------------
(***************************************************************************)
(* Proofs about StableReconcile for every set of receipts and findings and *)
(* every bound: type correctness, the atomic-snapshot theorem, what a      *)
(* success rests on, and that the run implements AtomicGate.               *)
(***************************************************************************)
EXTENDS StableReconcile, FiniteSetTheorems, TLAPS

USE DEF pullRequest, launch, latches, verdict

-----------------------------------------------------------------------------
(* Type correctness.                                                       *)

\* The part of TypeOK that an attempt's end touches.
ProgressOK ==
    /\ pc \in PcValues /\ attempt \in 0..Comparisons
    /\ previous \in SUBSET Snapshots /\ published \in SUBSET Snapshots
    /\ report \in Outcomes

LEMMA PostsFinite == ASSUME NEW S \in SUBSET Posts PROVE Cardinality(S) \in Nat
<1>1. IsFiniteSet(0..MaxEpoch)
  BY FS_Interval, BoundsAssumption
<1>2. IsFiniteSet(Posts)
  BY <1>1, FS_Product, ReceiptsAssumption DEF Posts
<1>3. QED
  BY <1>2, FS_Subset, FS_CardinalityType

LEMMA RestartKeepsType == TypeOK /\ Restart => ProgressOK'
BY DEF TypeOK, Restart, GoRound, AttemptsLeft, ProgressOK, PcValues, Outcomes

LEMMA ScopeErrorKeepsType == TypeOK /\ ScopeError => ProgressOK'
BY RestartKeepsType
   DEF ScopeError, Finish, TypeOK, ProgressOK, PcValues, Outcomes

\* The evidence of the current load, and what gathering more of it keeps.
LEMMA GatherKeepsType ==
    ASSUME TypeOK, NEW ev \in Evidence, Gather(ev)
    PROVE  opening' \in Evidence /\ closing' \in Evidence
BY DEF TypeOK, Gather

LEMMA GatheredIsEvidence == TypeOK => Gathered \in Evidence
BY DEF TypeOK, Gathered

LEMMA NoEvidenceIsEvidence == NoEvidence \in Evidence /\ NoFacts \in Facts
BY BoundsAssumption DEF NoEvidence, NoFacts, Evidence, Facts

\* Every variable holds a value of its type from the start.
LEMMA InitType == Init => TypeOK
<1> SUFFICES ASSUME Init PROVE TypeOK
  OBVIOUS
<1>1. posted \in SUBSET Posts
  BY BoundsAssumption DEF Init, Posts
<1>2. attempt \in 0..Comparisons /\ churn \in 0..MaxChurn
  BY BoundsAssumption, ComparisonsAssumption DEF Init
<1>3. eventEpoch \in 0..MaxEpoch /\ epochLatch \in 0..MaxEpoch
  BY BoundsAssumption DEF Init
<1>4. /\ deleted = {} /\ findings = {} /\ atHead = TRUE /\ prState = "open"
      /\ epoch \in 0..MaxEpoch /\ timeline \in 0..epoch /\ boundEpoch = epoch
      /\ pc = "start" /\ report = "none" /\ count = 0 /\ todo = {} /\ flawed = FALSE
      /\ opening = NoEvidence /\ closing = NoEvidence /\ boundary = NoFacts
      /\ observed = {} /\ poisoned = FALSE /\ previous = {} /\ published = {}
  BY DEF Init
<1>5. QED
  BY <1>1, <1>2, <1>3, <1>4, NoEvidenceIsEvidence
     DEF TypeOK, PcValues, Outcomes, Carriers

LEMMA EnvironmentKeepsType == TypeOK /\ Environment => TypeOK'
<1> SUFFICES ASSUME TypeOK, Environment PROVE TypeOK'
  OBVIOUS
<1>1. churn' \in 0..MaxChurn
  BY BoundsAssumption
     DEF TypeOK, Environment, Churn, PostReceipt, DeleteReceipt, SubmitFinding,
         Retarget, ServeTimeline, Push, SetState
<1>2. CASE \E r \in Receipts : PostReceipt(r)
  BY <1>1, <1>2, BoundsAssumption DEF TypeOK, PostReceipt, EnvUnchanged, Posts
<1>3. CASE \E p \in posted : DeleteReceipt(p)
  BY <1>1, <1>3 DEF TypeOK, DeleteReceipt, EnvUnchanged
<1>4. CASE \E f \in Findings : SubmitFinding(f)
  BY <1>1, <1>4 DEF TypeOK, SubmitFinding, EnvUnchanged
<1>5. CASE Retarget
  BY <1>1, <1>5, BoundsAssumption DEF TypeOK, Retarget, EnvUnchanged
<1>6. CASE \E e \in 0..epoch : ServeTimeline(e)
  BY <1>1, <1>6 DEF TypeOK, ServeTimeline, EnvUnchanged
<1>7. CASE Push
  BY <1>1, <1>7 DEF TypeOK, Push, EnvUnchanged
<1>8. CASE \E s \in {"open", "draft", "closed"} : SetState(s)
  BY <1>1, <1>8 DEF TypeOK, SetState, EnvUnchanged
<1>9. QED
  BY <1>2, <1>3, <1>4, <1>5, <1>6, <1>7, <1>8 DEF Environment

LEMMA ReadBeforeKeepsType == TypeOK /\ ReadBefore => TypeOK'
<1> SUFFICES ASSUME TypeOK, ReadBefore PROVE TypeOK'
  OBVIOUS
<1>1. ProgressOK'
  BY ScopeErrorKeepsType DEF ReadBefore, TypeOK, ProgressOK, PcValues
<1>2. count' \in Nat
  BY PostsFinite DEF ReadBefore, TypeOK
<1>3. opening' \in Evidence /\ todo' \in SUBSET Carriers /\ flawed' \in BOOLEAN
  BY NoEvidenceIsEvidence DEF ReadBefore, TypeOK
<1>4. QED
  BY <1>1, <1>2, <1>3 DEF ReadBefore, TypeOK, ProgressOK

LEMMA ReadReviewsKeepsType == TypeOK /\ ReadReviews => TypeOK'
<1> SUFFICES ASSUME TypeOK, ReadReviews PROVE TypeOK'
  OBVIOUS
<1>1. [Gathered EXCEPT !.findings = findings] \in Evidence
  BY GatheredIsEvidence DEF TypeOK, Evidence
<1>2. opening' \in Evidence /\ closing' \in Evidence
  BY <1>1, GatherKeepsType DEF ReadReviews
<1>3. QED
  BY <1>2 DEF ReadReviews, TypeOK

LEMMA ReadCommentsKeepsType == TypeOK /\ ReadComments => TypeOK'
<1> SUFFICES ASSUME TypeOK, ReadComments PROVE TypeOK'
  OBVIOUS
<1>1. posted \ deleted \in SUBSET Posts
  BY DEF TypeOK
<1>2. [Gathered EXCEPT !.live = posted \ deleted] \in Evidence
  BY <1>1, GatheredIsEvidence DEF Evidence
<1>3. opening' \in Evidence /\ closing' \in Evidence
  BY <1>2, GatherKeepsType DEF ReadComments
<1>4. poisoned' \in BOOLEAN /\ observed' \in SUBSET Posts /\ flawed' \in BOOLEAN
  BY <1>1 DEF ReadComments, TypeOK
<1>5. QED
  BY <1>3, <1>4 DEF ReadComments, TypeOK

LEMMA ReadHistoryKeepsType == TypeOK /\ ReadHistory => TypeOK'
<1> SUFFICES ASSUME TypeOK, ReadHistory PROVE TypeOK'
  OBVIOUS
<1>1. timeline \in 0..MaxEpoch
  BY BoundsAssumption DEF TypeOK
<1>2. [Gathered EXCEPT !.deleted = deleted, !.epoch = timeline] \in Evidence
  BY <1>1, GatheredIsEvidence DEF Evidence, TypeOK
<1>3. opening' \in Evidence /\ closing' \in Evidence
  BY <1>2, GatherKeepsType DEF ReadHistory
<1>4. epochLatch' \in 0..MaxEpoch /\ flawed' \in BOOLEAN
  BY <1>1 DEF ReadHistory, TypeOK
<1>5. QED
  BY <1>3, <1>4 DEF ReadHistory, TypeOK

LEMMA LoadFailsKeepsType == TypeOK /\ LoadFails => TypeOK'
<1> SUFFICES ASSUME TypeOK, LoadFails PROVE TypeOK'
  OBVIOUS
<1>1. ProgressOK'
  BY RestartKeepsType DEF LoadFails
<1>2. QED
  BY <1>1 DEF LoadFails, TypeOK, ProgressOK

LEMMA StartClosingKeepsType == TypeOK /\ StartClosing => TypeOK'
<1> SUFFICES ASSUME TypeOK, StartClosing PROVE TypeOK'
  OBVIOUS
<1>1. Now \in Facts
  BY DEF TypeOK, Now, Facts
<1>2. QED
  BY <1>1, NoEvidenceIsEvidence DEF StartClosing, TypeOK, PcValues

LEMMA ReadAfterKeepsType == TypeOK /\ ReadAfter => TypeOK'
<1> SUFFICES ASSUME TypeOK, ReadAfter PROVE TypeOK'
  OBVIOUS
<1> DEFINE snapshot == [evidence |-> closing, boundary |-> boundary, attempt |-> attempt]
<1>1. snapshot \in Snapshots
  BY DEF TypeOK, Snapshots
<1>2. CASE Judge(snapshot)
  <2> HIDE DEF snapshot
  <2>1. ProgressOK'
    BY <1>1, <1>2
       DEF Judge, Finish, GoRound, AttemptsLeft, Decision, TypeOK, ProgressOK,
           PcValues, Outcomes
  <2>2. QED
    BY <2>1 DEF ReadAfter, TypeOK, ProgressOK
<1>3. CASE ScopeError \/ Restart
  <2>1. ProgressOK'
    BY <1>3, ScopeErrorKeepsType, RestartKeepsType
  <2>2. QED
    BY <2>1 DEF ReadAfter, TypeOK, ProgressOK
<1>4. QED
  BY <1>2, <1>3 DEF ReadAfter

\* A sleep is entered only with attempts left, which is what keeps the count
\* of attempts within its bound.
SleepOK == pc = "sleep" => attempt < Comparisons

LEMMA RestartKeepsSleep == Restart => SleepOK'
BY DEF Restart, GoRound, AttemptsLeft, SleepOK

LEMMA ScopeErrorKeepsSleep == ScopeError => SleepOK'
BY RestartKeepsSleep DEF ScopeError, Finish, SleepOK

LEMMA LoadKeepsSleep == Load => SleepOK'
<1> SUFFICES ASSUME Load PROVE SleepOK'
  OBVIOUS
<1>1. CASE ReadBefore
  BY <1>1, ScopeErrorKeepsSleep DEF ReadBefore, SleepOK
<1>2. CASE ReadReviews
  BY <1>2 DEF ReadReviews, Loading, SleepOK
<1>3. CASE ReadComments \/ ReadHistory
  BY <1>3 DEF ReadComments, ReadHistory, Loading, SleepOK
<1>4. CASE LoadFails
  BY <1>4, RestartKeepsSleep DEF LoadFails
<1>5. CASE StartClosing
  BY <1>5 DEF StartClosing, SleepOK
<1>6. CASE ReadAfter
  BY <1>6, ScopeErrorKeepsSleep, RestartKeepsSleep
     DEF ReadAfter, Judge, Finish, GoRound, AttemptsLeft, SleepOK
<1>7. QED
  BY <1>1, <1>2, <1>3, <1>4, <1>5, <1>6 DEF Load

LEMMA NextKeepsType == TypeOK /\ SleepOK /\ [Next]_vars => TypeOK' /\ SleepOK'
<1> SUFFICES ASSUME TypeOK, SleepOK, [Next]_vars PROVE TypeOK' /\ SleepOK'
  OBVIOUS
<1>1. CASE Environment
  <2>1. UNCHANGED <<pc, attempt>>
    BY <1>1 DEF Environment, PostReceipt, DeleteReceipt, SubmitFinding, Retarget,
                ServeTimeline, Push, SetState, EnvUnchanged
  <2>2. QED
    BY <1>1, <2>1, EnvironmentKeepsType DEF SleepOK
<1>2. CASE Load
  BY <1>2, LoadKeepsSleep, ReadBeforeKeepsType, ReadReviewsKeepsType,
     ReadCommentsKeepsType, ReadHistoryKeepsType, LoadFailsKeepsType, StartClosingKeepsType,
     ReadAfterKeepsType DEF Load
<1>3. CASE Sleep
  BY <1>3, ComparisonsAssumption DEF Sleep, TypeOK, SleepOK, PcValues
<1>4. CASE InconsistentRead
  <2>1. churn' \in 0..MaxChurn
    BY <1>4, BoundsAssumption DEF InconsistentRead, Churn, TypeOK
  <2>2. ProgressOK' /\ SleepOK'
    BY <1>4, RestartKeepsType, RestartKeepsSleep DEF InconsistentRead
  <2>3. QED
    BY <1>4, <2>1, <2>2 DEF InconsistentRead, TypeOK, ProgressOK
<1>5. CASE UnavailableRead \/ DeadlineExpires
  <2>1. churn' \in 0..MaxChurn
    BY <1>5, BoundsAssumption DEF UnavailableRead, DeadlineExpires, Churn, TypeOK
  <2>2. QED
    BY <1>5, <2>1
       DEF UnavailableRead, DeadlineExpires, Finish, TypeOK, SleepOK, PcValues, Outcomes
<1>6. CASE UNCHANGED vars
  BY <1>6 DEF vars, TypeOK, SleepOK
<1>7. QED
  BY <1>1, <1>2, <1>3, <1>4, <1>5, <1>6 DEF Next, Verifier, Done

\* Every variable keeps to its type, and the attempts to their bound.
THEOREM TypeCorrect == Spec => []TypeOK
<1>1. Init => SleepOK
  BY DEF Init, SleepOK
<1>2. QED
  BY <1>1, InitType, NextKeepsType, PTL DEF Spec

-----------------------------------------------------------------------------
(* The atomic-snapshot theorem.  Everything a load gathers only grows on    *)
(* GitHub: receipts posted, receipts deleted, findings.  So what the opening *)
(* load gathered is at most what GitHub held when it ended, and what the    *)
(* closing load gathers is at least that: equal loads pin it down.          *)

\* The opening load lies below GitHub's present state.
OpeningBelow ==
    pc = "opening" =>
        /\ opening.live \subseteq posted
        /\ opening.deleted \subseteq deleted
        /\ opening.findings \subseteq findings

\* The instant between the loads lies above the opening load and below now.
BoundaryBetween ==
    pc = "closing" =>
        /\ boundary.live \subseteq posted
        /\ boundary.live \cap boundary.deleted = {}
        /\ boundary.deleted \subseteq deleted
        /\ boundary.findings \subseteq findings
        /\ opening.live \ boundary.deleted \subseteq boundary.live
        /\ opening.deleted \subseteq boundary.deleted
        /\ opening.findings \subseteq boundary.findings

\* What the closing load has gathered lies above that instant.  A receipt may
\* have gone since, but then the history, read after the list, shows it.
ClosingAbove ==
    pc = "closing" =>
        /\ "history" \notin todo => "comments" \notin todo
        /\ "comments" \notin todo =>
              /\ boundary.live \ closing.live \subseteq deleted
              /\ closing.live \cap boundary.deleted = {}
        /\ "history" \notin todo =>
              /\ boundary.deleted \subseteq closing.deleted
              /\ boundary.live \ closing.live \subseteq closing.deleted
        /\ "reviews" \notin todo => boundary.findings \subseteq closing.findings

LoadInv == OpeningBelow /\ BoundaryBetween /\ ClosingAbove

LEMMA EnvironmentKeepsLoads == TypeOK /\ LoadInv /\ Environment => LoadInv'
<1> SUFFICES ASSUME TypeOK, LoadInv, Environment PROVE LoadInv'
  OBVIOUS
<1>1. /\ posted \subseteq posted' /\ deleted \subseteq deleted'
      /\ findings \subseteq findings'
      /\ UNCHANGED <<pc, todo, opening, closing, boundary>>
  BY DEF Environment, PostReceipt, DeleteReceipt, SubmitFinding, Retarget,
         ServeTimeline, Push,
         SetState, EnvUnchanged
<1>2. QED
  BY <1>1 DEF LoadInv, OpeningBelow, BoundaryBetween, ClosingAbove

LEMMA ReadReviewsKeepsLoads == TypeOK /\ LoadInv /\ ReadReviews => LoadInv'
<1> SUFFICES ASSUME TypeOK, LoadInv, ReadReviews PROVE LoadInv'
  OBVIOUS
<1>1. CASE pc = "opening"
  <2>1. /\ opening' = [opening EXCEPT !.findings = findings]
        /\ UNCHANGED <<posted, deleted, findings, pc>>
    BY <1>1 DEF ReadReviews, Gather, Gathered
  <2>2. QED
    BY <1>1, <2>1
       DEF LoadInv, OpeningBelow, BoundaryBetween, ClosingAbove, TypeOK, Evidence
<1>2. CASE pc = "closing"
  <2>1. /\ closing' = [closing EXCEPT !.findings = findings]
        /\ todo' = todo \ {"reviews"}
        /\ UNCHANGED <<posted, deleted, findings, pc, opening, boundary>>
    BY <1>2 DEF ReadReviews, Gather, Gathered
  <2>2. QED
    BY <1>2, <2>1
       DEF LoadInv, OpeningBelow, BoundaryBetween, ClosingAbove, TypeOK, Evidence
<1>3. QED
  BY <1>1, <1>2 DEF ReadReviews, Loading

\* A step that ends the attempt leaves nothing to keep.
LEMMA AttemptEndKeepsLoads ==
    ASSUME pc' \in {"start", "sleep", "done"} PROVE LoadInv'
BY DEF LoadInv, OpeningBelow, BoundaryBetween, ClosingAbove

LEMMA RestartEndsAttempt == Restart => pc' \in {"sleep", "done"}
BY DEF Restart, GoRound

LEMMA ScopeErrorEndsAttempt == ScopeError => pc' \in {"sleep", "done"}
BY RestartEndsAttempt DEF ScopeError, Finish

LEMMA ReadCommentsKeepsLoads == TypeOK /\ LoadInv /\ ReadComments => LoadInv'
<1> SUFFICES ASSUME TypeOK, LoadInv, ReadComments PROVE LoadInv'
  OBVIOUS
<1>1. /\ Gather([Gathered EXCEPT !.live = posted \ deleted])
      /\ todo' = todo \ {"comments"}
      /\ UNCHANGED <<posted, deleted, findings, pc, boundary>>
  BY DEF ReadComments
<1>2. CASE pc = "opening"
  <2>1. opening' = [opening EXCEPT !.live = posted \ deleted]
    BY <1>1, <1>2 DEF Gather, Gathered
  <2>2. QED
    BY <1>1, <1>2, <2>1
       DEF LoadInv, OpeningBelow, BoundaryBetween, ClosingAbove, TypeOK, Evidence
<1>3. CASE pc = "closing"
  <2>1. closing' = [closing EXCEPT !.live = posted \ deleted] /\ opening' = opening
    BY <1>1, <1>3 DEF Gather, Gathered
  <2>2. "history" \in todo
    BY <1>3 DEF ReadComments, LoadInv, ClosingAbove
  <2>3. QED
    BY <1>1, <1>3, <2>1, <2>2
       DEF LoadInv, OpeningBelow, BoundaryBetween, ClosingAbove, TypeOK, Evidence
<1>4. QED
  BY <1>2, <1>3 DEF ReadComments, Loading

LEMMA ReadHistoryKeepsLoads == TypeOK /\ LoadInv /\ ReadHistory => LoadInv'
<1> SUFFICES ASSUME TypeOK, LoadInv, ReadHistory PROVE LoadInv'
  OBVIOUS
<1>1. /\ Gather([Gathered EXCEPT !.deleted = deleted, !.epoch = timeline])
      /\ todo' = todo \ {"history"}
      /\ "comments" \notin todo
      /\ UNCHANGED <<posted, deleted, findings, pc, boundary>>
  BY DEF ReadHistory
<1>2. CASE pc = "opening"
  <2>1. opening' = [opening EXCEPT !.deleted = deleted, !.epoch = timeline]
    BY <1>1, <1>2 DEF Gather, Gathered
  <2>2. QED
    BY <1>1, <1>2, <2>1
       DEF LoadInv, OpeningBelow, BoundaryBetween, ClosingAbove, TypeOK, Evidence
<1>3. CASE pc = "closing"
  <2>1. /\ closing' = [closing EXCEPT !.deleted = deleted, !.epoch = timeline]
        /\ opening' = opening
    BY <1>1, <1>3 DEF Gather, Gathered
  <2>2. closing'.live = closing.live /\ closing'.deleted = deleted
        /\ closing'.findings = closing.findings
    BY <2>1 DEF TypeOK, Evidence
  <2>3. QED
    BY <1>1, <1>3, <2>1, <2>2
       DEF LoadInv, OpeningBelow, BoundaryBetween, ClosingAbove
<1>4. QED
  BY <1>2, <1>3 DEF ReadHistory, Loading

LEMMA StartClosingKeepsLoads == TypeOK /\ LoadInv /\ StartClosing => LoadInv'
<1> SUFFICES ASSUME TypeOK, LoadInv, StartClosing PROVE LoadInv'
  OBVIOUS
<1>1. /\ boundary'.live = posted \ deleted /\ boundary'.deleted = deleted
      /\ boundary'.findings = findings
  BY DEF StartClosing, Now
<1>2. QED
  BY <1>1
     DEF StartClosing, LoadInv, OpeningBelow, BoundaryBetween, ClosingAbove, Carriers

LEMMA NextKeepsLoads == TypeOK /\ LoadInv /\ [Next]_vars => LoadInv'
<1> SUFFICES ASSUME TypeOK, LoadInv, [Next]_vars PROVE LoadInv'
  OBVIOUS
<1>1. CASE Environment
  BY <1>1, EnvironmentKeepsLoads
<1>2. CASE ReadBefore
  <2>1. CASE ScopeHolds
    BY <1>2, <2>1, NoEvidenceIsEvidence
       DEF ReadBefore, LoadInv, OpeningBelow, BoundaryBetween, ClosingAbove, NoEvidence
  <2>2. CASE ~ScopeHolds
    BY <1>2, <2>2, ScopeErrorEndsAttempt, AttemptEndKeepsLoads DEF ReadBefore
  <2>3. QED
    BY <2>1, <2>2
<1>3. CASE ReadReviews \/ ReadComments \/ ReadHistory
  BY <1>3, ReadReviewsKeepsLoads, ReadCommentsKeepsLoads, ReadHistoryKeepsLoads
<1>4. CASE StartClosing
  BY <1>4, StartClosingKeepsLoads
<1>5. CASE LoadFails \/ ReadAfter
  <2>1. pc' \in {"sleep", "done"}
    BY <1>5, ScopeErrorEndsAttempt, RestartEndsAttempt
       DEF LoadFails, ReadAfter, Judge, Finish, GoRound
  <2>2. QED
    BY <2>1, AttemptEndKeepsLoads
<1>6. CASE Sleep \/ InconsistentRead \/ UnavailableRead \/ DeadlineExpires
  <2>1. pc' \in {"start", "sleep", "done"}
    BY <1>6, RestartEndsAttempt
       DEF Sleep, InconsistentRead, UnavailableRead, DeadlineExpires, Finish
  <2>2. QED
    BY <2>1, AttemptEndKeepsLoads
<1>7. CASE UNCHANGED vars
  BY <1>7 DEF vars, LoadInv, OpeningBelow, BoundaryBetween, ClosingAbove
<1>8. QED
  BY <1>1, <1>2, <1>3, <1>4, <1>5, <1>6, <1>7 DEF Next, Verifier, Load, Done

\* The heart of it: a self-consistent snapshot is the state GitHub was in at
\* the instant between its loads.
LEMMA SelfConsistentIsAtomic ==
    ASSUME TypeOK, LoadInv, pc = "closing", todo = {}, SelfConsistent
    PROVE  FactsOf(closing) = boundary
<1>1. opening = closing
  BY DEF SelfConsistent
<1>2. closing.deleted = boundary.deleted
  BY <1>1 DEF LoadInv, BoundaryBetween, ClosingAbove
<1>3. closing.findings = boundary.findings
  BY <1>1 DEF LoadInv, BoundaryBetween, ClosingAbove
<1>4. boundary.live \subseteq closing.live
  BY <1>2 DEF LoadInv, BoundaryBetween, ClosingAbove
<1>5. closing.live \subseteq boundary.live
  BY <1>1 DEF LoadInv, BoundaryBetween, ClosingAbove
<1>6. boundary = [live |-> boundary.live, deleted |-> boundary.deleted,
                  findings |-> boundary.findings]
  BY DEF TypeOK, Facts
<1>7. QED
  BY <1>2, <1>3, <1>4, <1>5, <1>6 DEF FactsOf

-----------------------------------------------------------------------------
(* The ledger: what the run remembers and what it publishes.               *)

ReportEndsRun == report = "none" <=> pc # "done"

\* What is remembered may pass, and is exactly one attempt old.
PreviousIsClean ==
    \A p \in previous : Decision(p.evidence) = "success" /\ RetargetConfirmed(p.evidence)

PreviousIsAdjacent ==
    \A p \in previous :
        /\ pc \in {"start", "opening", "closing"} => p.attempt + 1 = attempt
        /\ pc = "sleep" => p.attempt = attempt

LedgerInv ==
    /\ ReportEndsRun /\ PreviousIsClean /\ PreviousIsAdjacent
    /\ SnapshotIsReal /\ SuccessHeldTwice

ledger == <<pc, attempt, previous, verdict>>

\* A decision of success says what SuccessHeldTwice wants of the facts.
LEMMA SuccessFacts ==
    ASSUME NEW ev \in Evidence, Decision(ev) = "success"
    PROVE  ev.findings = {} /\ ev.deleted = {} /\ AfterEpoch(ev) # {}
BY DEF Decision, DirectClean

LEMMA UnchangedKeepsLedger ==
    ASSUME LedgerInv, UNCHANGED <<ledger, launch>> PROVE LedgerInv'
BY DEF ledger, LedgerInv, ReportEndsRun, PreviousIsClean, PreviousIsAdjacent,
       SnapshotIsReal, SuccessHeldTwice, RetargetConfirmed

LEMMA RestartKeepsLedger ==
    ASSUME LedgerInv, pc # "done", Restart PROVE LedgerInv'
BY DEF Restart, GoRound, LedgerInv, ReportEndsRun, PreviousIsClean,
       PreviousIsAdjacent, SnapshotIsReal, SuccessHeldTwice

\* A report that rests on no success keeps what was remembered.
LEMMA FinishKeepsLedger ==
    ASSUME LedgerInv, UNCHANGED launch, NEW outcome \in Outcomes \ {"none", "success"},
           NEW S, \A s \in S : FactsOf(s.evidence) = s.boundary, Finish(outcome, S)
    PROVE  LedgerInv'
BY DEF Finish, LedgerInv, ReportEndsRun, PreviousIsClean, PreviousIsAdjacent,
       SnapshotIsReal, SuccessHeldTwice, RetargetConfirmed

LEMMA ScopeErrorKeepsLedger ==
    ASSUME LedgerInv, UNCHANGED launch, pc # "done", ScopeError PROVE LedgerInv'
BY FinishKeepsLedger, RestartKeepsLedger DEF ScopeError, Outcomes

\* A run of loading steps between two ends of attempts moves nothing of the
\* ledger but pc.
LEMMA LoadingKeepsLedger ==
    ASSUME LedgerInv, UNCHANGED <<attempt, previous, verdict, launch>>,
           pc \in {"start", "opening", "closing"}, pc' \in {"start", "opening", "closing"}
    PROVE  LedgerInv'
BY DEF LedgerInv, ReportEndsRun, PreviousIsClean, PreviousIsAdjacent,
       SnapshotIsReal, SuccessHeldTwice, RetargetConfirmed

LEMMA JudgeKeepsLedger ==
    ASSUME TypeOK, LedgerInv, UNCHANGED launch, pc = "closing",
           NEW snapshot \in Snapshots, snapshot.attempt = attempt,
           FactsOf(snapshot.evidence) = snapshot.boundary,
           Judge(snapshot)
    PROVE  LedgerInv'
<1> DEFINE outcome == Decision(snapshot.evidence)
<1>1. snapshot.evidence \in Evidence
  BY DEF Snapshots
<1>2. outcome \in {"success", "failure", "pending"}
  BY DEF Decision
<1>3. CASE outcome # "success" \/ ~RetargetConfirmed(snapshot.evidence)
  <2>1. Finish(outcome, {snapshot}) \/ Finish("pending", {snapshot})
    BY <1>3 DEF Judge
  <2>2. CASE Finish("pending", {snapshot})
    BY <2>2, FinishKeepsLedger DEF Outcomes
  <2>3. CASE Finish(outcome, {snapshot}) /\ outcome # "success"
    <3>1. outcome \in Outcomes \ {"none", "success"}
      BY <1>2, <2>3 DEF Outcomes
    <3> HIDE DEF outcome
    <3>2. QED
      BY <2>3, <3>1, FinishKeepsLedger
  <2>4. QED
    BY <1>3, <2>2, <2>3 DEF Judge
<1>4. CASE /\ outcome = "success" /\ RetargetConfirmed(snapshot.evidence)
           /\ Confirms(snapshot)
  <2>1. Finish("success", previous \cup {snapshot})
    BY <1>4 DEF Judge
  <2>2. PICK p \in previous : p.evidence = snapshot.evidence
    BY <1>4 DEF Confirms
  <2>3. snapshot.attempt = p.attempt + 1
    BY DEF LedgerInv, PreviousIsAdjacent
  <2>4. p.boundary = snapshot.boundary
    BY <2>2 DEF LedgerInv, SnapshotIsReal
  <2>5. /\ snapshot.evidence.findings = {} /\ snapshot.evidence.deleted = {}
        /\ snapshot.evidence.live # {}
    BY <1>1, <1>4, SuccessFacts DEF AfterEpoch
  <2>6. /\ snapshot.boundary.findings = {} /\ snapshot.boundary.deleted = {}
        /\ snapshot.boundary.live # {}
    BY <2>5 DEF FactsOf
  <2>7. published' = previous \cup {snapshot} /\ report' = "success"
        /\ pc' = "done" /\ previous' = previous
    BY <2>1 DEF Finish
  <2>8. SuccessHeldTwice'
    BY <2>3, <2>4, <2>6, <2>7 DEF SuccessHeldTwice
  <2>9. SnapshotIsReal'
    BY <2>7 DEF LedgerInv, SnapshotIsReal
  <2>10. QED
    BY <2>7, <2>8, <2>9
       DEF LedgerInv, ReportEndsRun, PreviousIsClean, PreviousIsAdjacent,
           RetargetConfirmed
<1>5. CASE /\ outcome = "success" /\ RetargetConfirmed(snapshot.evidence)
           /\ ~Confirms(snapshot)
  <2>1. previous' = {snapshot} /\ GoRound
    BY <1>5 DEF Judge
  <2>2. SnapshotIsReal' /\ PreviousIsClean'
    BY <1>5, <2>1
       DEF LedgerInv, SnapshotIsReal, PreviousIsClean, GoRound, RetargetConfirmed
  <2>3. ReportEndsRun' /\ PreviousIsAdjacent' /\ SuccessHeldTwice'
    BY <2>1
       DEF LedgerInv, ReportEndsRun, PreviousIsAdjacent, SuccessHeldTwice, GoRound
  <2>4. QED
    BY <2>2, <2>3 DEF LedgerInv
<1>6. QED
  BY <1>3, <1>4, <1>5

\* What ReadAfter judges is a snapshot, and by the atomic-snapshot lemma a
\* real one.
LEMMA JudgedIsReal ==
    ASSUME TypeOK, LoadInv, pc = "closing", todo = {}, SelfConsistent,
           NEW snapshot,
           snapshot = [evidence |-> closing, boundary |-> boundary, attempt |-> attempt]
    PROVE  /\ snapshot \in Snapshots /\ snapshot.attempt = attempt
           /\ snapshot.boundary = boundary
           /\ FactsOf(snapshot.evidence) = snapshot.boundary
<1>1. snapshot \in Snapshots
  BY DEF TypeOK, Snapshots
<1>2. QED
  BY <1>1, SelfConsistentIsAtomic

LEMMA NextKeepsLedger ==
    ASSUME TypeOK, LoadInv, LedgerInv, [Next]_vars PROVE LedgerInv'
<1>1. CASE Environment \/ UNCHANGED vars
  <2>1. UNCHANGED <<ledger, launch>>
    BY <1>1
       DEF Environment, PostReceipt, DeleteReceipt, SubmitFinding, Retarget,
         ServeTimeline, Push,
           SetState, EnvUnchanged, vars, ledger
  <2>2. QED
    BY <2>1, UnchangedKeepsLedger
<1>2. CASE ReadBefore
  <2>1. CASE ScopeHolds
    BY <1>2, <2>1, LoadingKeepsLedger DEF ReadBefore
  <2>2. CASE ~ScopeHolds
    BY <1>2, <2>2, ScopeErrorKeepsLedger DEF ReadBefore
  <2>3. QED
    BY <2>1, <2>2
<1>3. CASE ReadReviews \/ ReadComments \/ ReadHistory \/ StartClosing
  BY <1>3, LoadingKeepsLedger
     DEF ReadReviews, ReadComments, ReadHistory, StartClosing, Loaded, Loading
<1>4. CASE LoadFails
  BY <1>4, RestartKeepsLedger DEF LoadFails, Loaded, Loading
<1>6. CASE ReadAfter
  <2>1. pc = "closing" /\ todo = {} /\ UNCHANGED launch
    BY <1>6 DEF ReadAfter, Loaded
  <2>2. CASE ScopeError \/ Restart
    BY <2>1, <2>2, ScopeErrorKeepsLedger, RestartKeepsLedger
  <2>3. CASE ~(ScopeError \/ Restart)
    <3> DEFINE snapshot == [evidence |-> closing, boundary |-> boundary,
                            attempt |-> attempt]
    <3>1. SelfConsistent /\ Judge(snapshot)
      BY <1>6, <2>3 DEF ReadAfter
    <3> HIDE DEF snapshot
    <3>2. /\ snapshot \in Snapshots /\ snapshot.attempt = attempt
          /\ FactsOf(snapshot.evidence) = snapshot.boundary
      BY <2>1, <3>1, JudgedIsReal DEF snapshot
    <3>3. QED
      BY <2>1, <3>1, <3>2, JudgeKeepsLedger
  <2>4. QED
    BY <2>2, <2>3
<1>7. CASE Sleep
  BY <1>7
     DEF Sleep, LedgerInv, ReportEndsRun, PreviousIsClean, PreviousIsAdjacent,
         SnapshotIsReal, SuccessHeldTwice, RetargetConfirmed
<1>8. CASE InconsistentRead
  BY <1>8, RestartKeepsLedger DEF InconsistentRead
<1>9. CASE UnavailableRead \/ DeadlineExpires
  BY <1>9, FinishKeepsLedger DEF UnavailableRead, DeadlineExpires, Outcomes
<1>10. QED
  BY <1>1, <1>2, <1>3, <1>4, <1>6, <1>7, <1>8, <1>9
     DEF Next, Verifier, Load, Done

\* The inductive invariant of the run.
IInv == TypeOK /\ SleepOK /\ LoadInv /\ LedgerInv

LEMMA InitInv == Init => IInv
<1> SUFFICES ASSUME Init PROVE IInv
  OBVIOUS
<1>1. TypeOK
  BY InitType
<1>2. SleepOK /\ LoadInv
  BY DEF Init, SleepOK, LoadInv, OpeningBelow, BoundaryBetween, ClosingAbove
<1>3. LedgerInv
  BY DEF Init, LedgerInv, ReportEndsRun, PreviousIsClean, PreviousIsAdjacent,
         SnapshotIsReal, SuccessHeldTwice
<1>4. QED
  BY <1>1, <1>2, <1>3 DEF IInv

LEMMA NextKeepsInv == IInv /\ [Next]_vars => IInv'
BY NextKeepsType, NextKeepsLoads, NextKeepsLedger DEF IInv

LEMMA SpecInv == Spec => []IInv
BY InitInv, NextKeepsInv, PTL DEF Spec

\* Every snapshot the run remembers or publishes is the evidence GitHub held
\* in one instant, for any number of requests, receipts and changes.
THEOREM SnapshotsAreReal == Spec => []SnapshotIsReal
<1>1. IInv => SnapshotIsReal
  BY DEF IInv, LedgerInv
<1>2. QED
  BY <1>1, SpecInv, PTL

\* Success always rests on two adjacent attempts that saw the same clean facts.
THEOREM SuccessesHeldTwice == Spec => []SuccessHeldTwice
<1>1. IInv => SuccessHeldTwice
  BY DEF IInv, LedgerInv
<1>2. QED
  BY <1>1, SpecInv, PTL

-----------------------------------------------------------------------------
(* What a run has seen.                                                    *)

\* The closing list, once read, holds every receipt the run has seen; nothing
\* is published before the end, and at most one snapshot is remembered.
SeenInv ==
    /\ pc = "closing" /\ "comments" \notin todo /\ ~flawed => observed \subseteq closing.live
    /\ pc # "done" => published = {}
    /\ \A p, q \in previous : p = q
    /\ NothingSeenIsForgotten

LEMMA RestartKeepsSeen ==
    ASSUME SeenInv, pc # "done", Restart PROVE SeenInv'
BY DEF SeenInv, NothingSeenIsForgotten, Restart, GoRound

LEMMA FinishKeepsSeen ==
    ASSUME SeenInv, NEW outcome, Finish(outcome, {}) PROVE SeenInv'
BY DEF SeenInv, NothingSeenIsForgotten, Finish

LEMMA JudgeKeepsSeen ==
    ASSUME SeenInv, UNCHANGED observed, pc = "closing", NEW snapshot,
           observed \subseteq snapshot.evidence.live, Judge(snapshot)
    PROVE  SeenInv'
<1>1. CASE Finish(Decision(snapshot.evidence), {snapshot}) \/ Finish("pending", {snapshot})
  BY <1>1 DEF SeenInv, NothingSeenIsForgotten, Finish
<1>2. CASE Confirms(snapshot) /\ Finish("success", previous \cup {snapshot})
  BY <1>2 DEF SeenInv, NothingSeenIsForgotten, Finish, Confirms
<1>3. CASE previous' = {snapshot} /\ GoRound
  BY <1>3 DEF SeenInv, NothingSeenIsForgotten, GoRound
<1>4. QED
  BY <1>1, <1>2, <1>3 DEF Judge

LEMMA NextKeepsSeen ==
    ASSUME TypeOK, SeenInv, [Next]_vars PROVE SeenInv'
<1>1. CASE Environment \/ UNCHANGED vars
  BY <1>1 DEF Environment, PostReceipt, DeleteReceipt, SubmitFinding, Retarget,
         ServeTimeline, Push,
              SetState, EnvUnchanged, vars, SeenInv, NothingSeenIsForgotten
<1>2. CASE ReadBefore
  BY <1>2, RestartKeepsSeen, FinishKeepsSeen
     DEF ReadBefore, ScopeError, SeenInv, NothingSeenIsForgotten
<1>3. CASE ReadReviews
  <2>1. closing'.live = closing.live
    BY <1>3 DEF ReadReviews, Gather, Gathered, Loading, TypeOK, Evidence
  <2>2. QED
    BY <1>3, <2>1 DEF ReadReviews, Loading, SeenInv, NothingSeenIsForgotten
<1>4. CASE ReadComments
  <2>1. pc \in {"opening", "closing"} /\ UNCHANGED <<pc, previous, published>>
    BY <1>4 DEF ReadComments, Loading
  <2>2. ~flawed' => observed \subseteq posted \ deleted
    BY <1>4 DEF ReadComments, HistoryKept
  <2>3. pc = "closing" => closing'.live = posted \ deleted
    BY <1>4 DEF ReadComments, Gather, Gathered, TypeOK, Evidence
  <2>4. observed' = observed \cup (posted \ deleted)
    BY <1>4 DEF ReadComments
  <2>5. QED
    BY <2>1, <2>2, <2>3, <2>4 DEF SeenInv, NothingSeenIsForgotten
<1>5. CASE ReadHistory
  <2>1. pc \in {"opening", "closing"} /\ UNCHANGED observed
    BY <1>5 DEF ReadHistory, Loading
  <2>2. closing'.live = closing.live
    BY <1>5, <2>1 DEF ReadHistory, Gather, Gathered, TypeOK, Evidence
  <2>3. ~flawed' => ~flawed
    BY <1>5 DEF ReadHistory
  <2>4. QED
    BY <1>5, <2>1, <2>2, <2>3 DEF ReadHistory, SeenInv, NothingSeenIsForgotten
<1>10. CASE LoadFails
  BY <1>10, RestartKeepsSeen DEF LoadFails, Loaded, Loading
<1>6. CASE StartClosing
  BY <1>6 DEF StartClosing, Carriers, SeenInv, NothingSeenIsForgotten
<1>7. CASE ReadAfter
  <2>1. pc = "closing" /\ todo = {} /\ ~flawed /\ UNCHANGED observed
    BY <1>7 DEF ReadAfter, Loaded
  <2>2. CASE ScopeError \/ Restart
    BY <2>1, <2>2, RestartKeepsSeen, FinishKeepsSeen DEF ScopeError
  <2>3. CASE ~(ScopeError \/ Restart)
    <3> DEFINE snapshot == [evidence |-> closing, boundary |-> boundary,
                            attempt |-> attempt]
    <3>1. Judge(snapshot)
      BY <1>7, <2>3 DEF ReadAfter
    <3>2. observed \subseteq snapshot.evidence.live
      BY <2>1 DEF SeenInv
    <3> HIDE DEF snapshot
    <3>3. QED
      BY <2>1, <3>1, <3>2, JudgeKeepsSeen
  <2>4. QED
    BY <2>2, <2>3
<1>8. CASE Sleep
  BY <1>8 DEF Sleep, SeenInv, NothingSeenIsForgotten
<1>9. CASE InconsistentRead \/ UnavailableRead \/ DeadlineExpires
  BY <1>9, RestartKeepsSeen, FinishKeepsSeen
     DEF InconsistentRead, UnavailableRead, DeadlineExpires
<1>11. QED
  BY <1>1, <1>2, <1>3, <1>4, <1>5, <1>6, <1>7, <1>8, <1>9, <1>10
     DEF Next, Verifier, Load, Done

\* A run never reports on evidence that lacks a receipt it has seen.
THEOREM NothingSeenForgotten == Spec => []NothingSeenIsForgotten
<1>1. Init => SeenInv
  BY DEF Init, SeenInv, NothingSeenIsForgotten
<1>2. TypeOK /\ SeenInv /\ [Next]_vars => SeenInv'
  BY NextKeepsSeen
<1>3. SeenInv => NothingSeenIsForgotten
  BY DEF SeenInv
<1>4. QED
  BY <1>1, <1>2, <1>3, TypeCorrect, PTL DEF Spec

-----------------------------------------------------------------------------
(* The instant of success.                                                 *)

CurrentSuccess ==
    report # "success" /\ report' = "success" =>
        /\ atHead /\ prState = "open" /\ BaseRef(epoch) = BaseRef(boundEpoch)
        /\ \A s \in published' : \E r \in s.evidence.live : r[2] >= eventEpoch

\* Clean evidence that confirms the retarget holds a receipt posted after it.
LEMMA ReceiptAfterRetarget ==
    ASSUME TypeOK, NEW ev \in Evidence,
           Decision(ev) = "success", RetargetConfirmed(ev)
    PROVE  \E r \in ev.live : r[2] >= eventEpoch
<1>1. PICK r \in ev.live : r[2] >= ev.epoch
  BY SuccessFacts DEF AfterEpoch
<1>2. r[2] \in Int /\ ev.epoch \in 0..MaxEpoch
  BY DEF Evidence, Posts
<1>3. eventEpoch \in 0..MaxEpoch
  BY DEF TypeOK
<1>4. eventEpoch <= ev.epoch
  BY <1>2, <1>3, BoundsAssumption DEF RetargetConfirmed
<1>5. r[2] >= eventEpoch
  BY <1>1, <1>2, <1>3, <1>4, BoundsAssumption
<1>6. QED
  BY <1>5

LEMMA RestartIsNoSuccess == Restart /\ report # "success" => report' # "success"
BY DEF Restart, GoRound

LEMMA ScopeErrorIsNoSuccess == ScopeError /\ report # "success" => report' # "success"
BY RestartIsNoSuccess DEF ScopeError, Finish

LEMMA OnlyReadAfterSucceeds ==
    [Next]_vars /\ report # "success" /\ report' = "success" => ReadAfter
BY RestartIsNoSuccess, ScopeErrorIsNoSuccess
   DEF Next, Environment, PostReceipt, DeleteReceipt, SubmitFinding, Retarget,
         ServeTimeline, Push,
       SetState, EnvUnchanged, Verifier, Load, Done, vars, ReadBefore, ReadReviews,
       ReadComments, ReadHistory, LoadFails, StartClosing, Sleep, InconsistentRead,
       UnavailableRead, DeadlineExpires, Finish

LEMMA SuccessStep == IInv /\ [Next]_vars => CurrentSuccess
<1> SUFFICES ASSUME IInv, [Next]_vars, report # "success", report' = "success"
             PROVE  /\ ScopeHolds
                    /\ \A s \in published' : \E r \in s.evidence.live : r[2] >= eventEpoch
  BY DEF CurrentSuccess, ScopeHolds
<1> DEFINE snapshot == [evidence |-> closing, boundary |-> boundary, attempt |-> attempt]
<1>1. ReadAfter
  BY OnlyReadAfterSucceeds
<1>2. ScopeHolds /\ SelfConsistent /\ Judge(snapshot)
  BY <1>1, RestartIsNoSuccess, ScopeErrorIsNoSuccess DEF ReadAfter
<1>3. snapshot \in Snapshots
  BY <1>1, <1>2, JudgedIsReal DEF ReadAfter, Loaded, IInv
<1> HIDE DEF snapshot
<1>4. /\ Decision(snapshot.evidence) = "success"
      /\ RetargetConfirmed(snapshot.evidence)
      /\ published' = previous \cup {snapshot}
  BY <1>2 DEF Judge, Finish, GoRound
<1>5. \A s \in published' : /\ s.evidence \in Evidence
                            /\ Decision(s.evidence) = "success"
                            /\ RetargetConfirmed(s.evidence)
  BY <1>3, <1>4 DEF IInv, LedgerInv, PreviousIsClean, TypeOK, Snapshots
<1>6. QED
  BY <1>2, <1>5, ReceiptAfterRetarget DEF IInv

\* The check turns green only at the bound head and base, on a receipt posted
\* after the retarget that started the run.
THEOREM SuccessesAreCurrent == Spec => SuccessIsCurrent
<1>1. IInv /\ [Next]_vars => [CurrentSuccess]_vars
  BY SuccessStep
<1>2. Spec => [][CurrentSuccess]_vars
  BY <1>1, SpecInv, PTL DEF Spec
<1>3. QED
  BY <1>2, PTL DEF SuccessIsCurrent, CurrentSuccess

-----------------------------------------------------------------------------
(* The run implements AtomicGate.                                          *)

USE DEF Atomic!vars

LEMMA InitImplements == Init => Atomic!Init
<1> SUFFICES ASSUME Init PROVE Atomic!Init
  OBVIOUS
<1>1. Now \in Facts /\ boundary \in Facts
  BY InitType DEF Now, Facts, TypeOK
<1>2. {p.boundary : p \in previous} = {} /\ Verdict = "none"
  BY DEF Init, Verdict
<1>3. QED
  BY <1>1, <1>2 DEF Atomic!Init

\* What Verdict makes of a report that is neither success nor failure.
LEMMA VerdictValues ==
    /\ report \in {"none", "success", "failure"} => Verdict = report
    /\ report \in Outcomes \ {"none", "success", "failure"} => Verdict = "open"
BY DEF Verdict, Outcomes

LEMMA RestartImplements ==
    ASSUME IInv, IInv', pc # "done", UNCHANGED <<pullRequest, boundary>>, Restart
    PROVE  Atomic!Forget
<1>1. Verdict = "none"
  BY VerdictValues DEF IInv, LedgerInv, ReportEndsRun
<1>2. report' = "none" \/ report' = "unstable"
  BY DEF Restart, GoRound, IInv, LedgerInv, ReportEndsRun
<1>3. Verdict' \in {"none", "open"}
  BY <1>2 DEF Verdict
<1>4. Now' = Now
  BY DEF Now
<1>5. {p.boundary : p \in previous}' = {}
  BY DEF Restart
<1>6. QED
  BY <1>1, <1>3, <1>4, <1>5 DEF Atomic!Forget

LEMMA FinishImplements ==
    ASSUME IInv, pc # "done", UNCHANGED <<pullRequest, boundary>>,
           NEW outcome \in Outcomes \ {"none", "success", "failure"}, NEW S,
           Finish(outcome, S)
    PROVE  Atomic!GiveNoVerdict
<1>1. Verdict = "none"
  BY VerdictValues DEF IInv, LedgerInv, ReportEndsRun
<1>2. Verdict' = "open"
  BY DEF Verdict, Finish, Outcomes
<1>3. Now' = Now /\ {p.boundary : p \in previous}' = {p.boundary : p \in previous}
  BY DEF Now, Finish
<1>4. QED
  BY <1>1, <1>2, <1>3 DEF Atomic!GiveNoVerdict

LEMMA ScopeErrorImplements ==
    ASSUME IInv, IInv', pc # "done", UNCHANGED <<pullRequest, boundary>>, ScopeError
    PROVE  Atomic!Next
BY RestartImplements, FinishImplements DEF ScopeError, Outcomes, Atomic!Next

LEMMA JudgeImplements ==
    ASSUME IInv, pc = "closing", UNCHANGED <<pullRequest, boundary>>,
           NEW snapshot \in Snapshots, snapshot.boundary = boundary,
           FactsOf(snapshot.evidence) = snapshot.boundary, Judge(snapshot)
    PROVE  Atomic!Next
<1> DEFINE outcome == Decision(snapshot.evidence)
<1>1. Verdict = "none" /\ report = "none"
  BY VerdictValues DEF IInv, LedgerInv, ReportEndsRun
<1>2. Now' = Now /\ boundary' = boundary
  BY DEF Now
<1>3. boundary \in Facts
  BY DEF IInv, TypeOK
<1>4. snapshot.evidence \in Evidence
  BY DEF Snapshots
<1>5. outcome \in {"success", "failure", "pending"}
  BY DEF Decision
<1>6. outcome = "success" => boundary \in CleanFacts
  BY <1>3, <1>4, SuccessFacts DEF CleanFacts, FactsOf, AfterEpoch
<1>7. CASE Finish("pending", {snapshot})
  BY <1>7, FinishImplements DEF Outcomes, Atomic!Next
<1>8. CASE outcome = "failure" /\ Finish("failure", {snapshot})
  <2>1. boundary.findings # {}
    BY <1>8 DEF Decision, FactsOf
  <2>2. Verdict' = "failure"
    BY <1>8 DEF Finish, Verdict
  <2>3. {p.boundary : p \in previous}' = {p.boundary : p \in previous}
    BY <1>8 DEF Finish
  <2>4. QED
    BY <1>1, <1>2, <1>3, <2>1, <2>2, <2>3 DEF Atomic!Fail, Atomic!Next, FindingFacts
<1>9. CASE outcome = "success" /\ Confirms(snapshot)
           /\ Finish("success", previous \cup {snapshot})
  <2>1. PICK p \in previous : p.evidence = snapshot.evidence
    BY <1>9 DEF Confirms
  <2>2. p.boundary = boundary
    BY <2>1 DEF IInv, LedgerInv, SnapshotIsReal
  <2>3. boundary \in {q.boundary : q \in previous}
    BY <2>2
  <2>4. Verdict' = "success"
    BY <1>9 DEF Finish, Verdict
  <2>5. {q.boundary : q \in previous}' = {q.boundary : q \in previous}
    BY <1>9 DEF Finish
  <2>6. QED
    BY <1>1, <1>2, <1>6, <1>9, <2>3, <2>4, <2>5 DEF Atomic!Pass, Atomic!Next
<1>10. CASE outcome = "success" /\ previous' = {snapshot} /\ GoRound
  <2>1. report' = "none" \/ report' = "unstable"
    BY <1>1, <1>10 DEF GoRound
  <2>2. Verdict' \in {"none", "open"}
    BY <2>1 DEF Verdict
  <2>3. {q.boundary : q \in previous}' = {boundary}
    BY <1>10
  <2>4. QED
    BY <1>1, <1>2, <1>6, <1>10, <2>2, <2>3 DEF Atomic!Agree, Atomic!Next
<1>11. QED
  <2>1. CASE outcome # "success"
    <3>1. Finish(outcome, {snapshot})
      BY <2>1 DEF Judge
    <3>2. QED
      BY <1>5, <1>7, <1>8, <2>1, <3>1
  <2>2. CASE outcome = "success"
    BY <1>7, <1>9, <1>10, <2>2 DEF Judge
  <2>3. QED
    BY <2>1, <2>2

\* A step of the load that ends no attempt is a stutter.
LEMMA LoadingImplements ==
    ASSUME UNCHANGED <<pullRequest, boundary, previous, verdict>>
    PROVE  UNCHANGED Atomic!vars
BY DEF Now, Verdict

LEMMA StepImplements ==
    ASSUME IInv, IInv', [Next]_vars PROVE [Atomic!Next]_(Atomic!vars)
<1>1. CASE Environment
  <2>1. UNCHANGED <<boundary, previous, verdict>>
    BY <1>1 DEF Environment, PostReceipt, DeleteReceipt, SubmitFinding, Retarget,
                ServeTimeline, Push, SetState, EnvUnchanged
  <2>2. Now' \in Facts
    BY DEF IInv, TypeOK, Now, Facts
  <2>3. Verdict' = Verdict
    BY <2>1 DEF Verdict
  <2>4. QED
    BY <2>1, <2>2, <2>3 DEF Atomic!Change, Atomic!Next
<1>2. CASE ReadBefore
  <2>1. CASE ScopeHolds
    BY <1>2, <2>1, LoadingImplements DEF ReadBefore
  <2>2. CASE ~ScopeHolds
    BY <1>2, <2>2, ScopeErrorImplements DEF ReadBefore
  <2>3. QED
    BY <2>1, <2>2
<1>3. CASE ReadReviews \/ ReadComments \/ ReadHistory \/ Sleep \/ UNCHANGED vars
  BY <1>3, LoadingImplements DEF ReadReviews, ReadComments, ReadHistory, Sleep, vars
<1>4. CASE LoadFails
  BY <1>4, RestartImplements DEF LoadFails, Loaded, Loading, Atomic!Next
<1>6. CASE StartClosing
  <2>1. /\ boundary' = Now /\ Now' = Now
        /\ UNCHANGED <<previous, verdict>>
    BY <1>6 DEF StartClosing, Now
  <2>2. Verdict = "none" /\ Verdict' = Verdict
    BY <1>6, <2>1, VerdictValues
       DEF StartClosing, Verdict, IInv, LedgerInv, ReportEndsRun
  <2>3. QED
    BY <2>1, <2>2 DEF Atomic!Glance, Atomic!Next
<1>7. CASE ReadAfter
  <2>1. /\ pc = "closing" /\ pc # "done" /\ todo = {}
        /\ UNCHANGED <<pullRequest, boundary>>
    BY <1>7 DEF ReadAfter, Loaded
  <2>2. CASE ScopeError \/ Restart
    BY <2>1, <2>2, ScopeErrorImplements, RestartImplements DEF Atomic!Next
  <2>3. CASE ~(ScopeError \/ Restart)
    <3> DEFINE snapshot == [evidence |-> closing, boundary |-> boundary,
                            attempt |-> attempt]
    <3>1. SelfConsistent /\ Judge(snapshot)
      BY <1>7, <2>3 DEF ReadAfter
    <3> HIDE DEF snapshot
    <3>2. /\ snapshot \in Snapshots /\ snapshot.boundary = boundary
          /\ FactsOf(snapshot.evidence) = snapshot.boundary
      BY <2>1, <3>1, JudgedIsReal DEF snapshot, IInv
    <3>3. QED
      BY <2>1, <3>1, <3>2, JudgeImplements
  <2>4. QED
    BY <2>2, <2>3
<1>8. CASE InconsistentRead
  BY <1>8, RestartImplements DEF InconsistentRead, Atomic!Next
<1>9. CASE UnavailableRead \/ DeadlineExpires
  BY <1>9, FinishImplements DEF UnavailableRead, DeadlineExpires, Outcomes, Atomic!Next
<1>10. QED
  BY <1>1, <1>2, <1>3, <1>4, <1>6, <1>7, <1>8, <1>9
     DEF Next, Verifier, Load, Done

\* A run with its interleaved reads, faults and restarts implements one that
\* reads everything in one instant.
THEOREM RunIsAtomic == Spec => ImplementsAtomicGate
<1>1. IInv /\ IInv' /\ [Next]_vars => [Atomic!Next]_(Atomic!vars)
  BY StepImplements
<1>2. QED
  BY InitImplements, <1>1, SpecInv, PTL DEF Spec, ImplementsAtomicGate, Atomic!Spec
=============================================================================
