---------------------------- MODULE EvidenceReducer ----------------------------
(***************************************************************************)
(* The verdict on one complete snapshot: reduceV2Evidence of               *)
(* packages/action/src/v2/gate-runtime.mjs and the selection of requests,  *)
(* boundaries and reactions that feeds it.                                 *)
(*                                                                         *)
(* A state is the evidence of one head of a pull request, as it grows: at  *)
(* any second people post, edit and delete comments, Codex answers, the    *)
(* base is retargeted and verifier runs are created.  The program is the   *)
(* operator Outcome, evaluated on every such evidence.                     *)
(*                                                                         *)
(* Simplifications.  Carriers of other heads, which decide nothing here,   *)
(* and carriers no parser accepts are left out, and with them the hashless *)
(* recovery.  request-author-permission is "any", as both workflows set    *)
(* it, and all bare requests have one author.  Times are seconds, 0 is     *)
(* "never"; a larger id is a later object.                                 *)
(***************************************************************************)
EXTENDS Integers, FiniteSets

CONSTANTS
    MaxTime,      \* bound: seconds in the life of the pull request
    MaxEvents,    \* bound: events in it
    Happenings    \* bound: the kinds of events that happen

ASSUME BoundsAssumption == MaxTime \in Nat \ {0} /\ MaxEvents \in Nat \ {0}

VARIABLES
    ev,           \* the evidence GitHub serves
    clock,        \* the present second
    \* History.
    triggers,     \* what ever started a Codex run, with its second
    open,         \* those Codex has not finished with
    repeated      \* has Codex finished twice with one of them

vars == <<ev, clock, triggers, open, repeated>>

-----------------------------------------------------------------------------

Times == 1..MaxTime
Ids == 1..MaxEvents

\* What Codex says of the head: top-level comments and submitted reviews, a
\* review without findings of its own being clean.  "answers" is not visible
\* to the program: the request the run was started by, or 0 for an automatic one.
Artifacts == [id : Ids, source : {"comment", "review"},
              kind : {"clean", "finding", "failure"},
              at : Times, rev : Times, edited : BOOLEAN, answers : {0} \cup Ids]

\* A workflow's marker is bound to the base tip of its time; a bare request is
\* not.  An edit keeps the request or turns the comment into something else.
Requests == [id : Ids, kind : {"marker", "bare"}, at : Times, rev : Times,
             edited : {"no", "kept", "away"}, tip : 0..MaxEvents]

Reactions == [id : Ids, on : Ids, content : {"+1", "eyes"}, at : Times]
Deletions == [id : Ids, at : Times]

Evidence == [artifacts : SUBSET Artifacts, requests : SUBSET Requests,
             reactions : SUBSET Reactions, deletions : SUBSET Deletions,
             epoch : {0} \cup Times, tip : 0..MaxEvents, run : Times,
             draft : BOOLEAN, count : 0..MaxEvents]

MaxOf(S) == CHOOSE x \in S : \A y \in S : y <= x

\* The element of a set that comes last: the newest, then the largest id.
Latest(S) == CHOOSE x \in S : \A y \in S : y.at < x.at \/ (y.at = x.at /\ y.id <= x.id)

Comments(e) == {a \in e.artifacts : a.source = "comment"}
Findings(e) == {a \in e.artifacts : a.kind = "finding"}
Failures(e) == {a \in e.artifacts : a.kind = "failure"}

-----------------------------------------------------------------------------
(* The direct clean basis.                                                 *)

\* isV2TopLevelTerminalCleanReceiptForDefaultAnyDuplicateCohort.
TopLevelCleans(e) == {a \in Comments(e) : a.kind = "clean" /\ ~a.edited}

DirectCleans(e, epoch) == {a \in TopLevelCleans(e) : a.at > epoch}

DirectlySuperseded(e, failure) ==
    ~failure.edited /\ \E c \in DirectCleans(e, e.epoch) : c.at > failure.rev

DirectBasisWithoutFailures(e) ==
    DirectCleans(e, e.epoch) # {} /\ e.artifacts = DirectCleans(e, e.epoch) /\ e.deletions = {}

\* Requests are not even read when a direct clean stands and nothing needs a
\* newer generation.
DirectBasis(e) ==
    /\ DirectCleans(e, e.epoch) # {}
    /\ Findings(e) = {} /\ e.deletions = {}
    /\ \A f \in Failures(e) : DirectlySuperseded(e, f)

-----------------------------------------------------------------------------
(* Requests, boundaries and their confirmation.                            *)

\* collectAuthorizedV2Requests: the requests, and the edited remains of some.
Authorized(e) == {r \in e.requests : r.edited = "no"}

RequestErrorTimes(e) ==
    IF DirectBasis(e) THEN {}
    ELSE {r.rev : r \in {q \in e.requests :
                           q.edited = "away" \/ (q.edited = "kept" /\ q.kind = "marker")}}

\* Every comment that may have started a Codex run, deleted ones last.
Boundary(r) == [id |-> r.id, rev |-> r.rev, bound |-> r.edited = "no" /\ r.kind = "marker"]
DeletedBoundary(d) == [id |-> MaxEvents + d.id, rev |-> d.at, bound |-> FALSE]

Physical(e) == {Boundary(r) : r \in e.requests} \cup {DeletedBoundary(d) : d \in e.deletions}

Before(p, q) == p.rev < q.rev \/ (p.rev = q.rev /\ p.id < q.id)

ReactionsOn(e, r) == {x \in e.reactions : x.on = r.id}

ReceiptsAfter(e, r) ==
    {a \in e.artifacts : a.kind = "clean" /\ ~a.edited /\ a.at > r.rev}

\* isV2UnambiguousTerminalCleanReceiptForDefaultAnyRequest.
Unambiguous(e, r, receipt) ==
    e.epoch = 0 /\ {p.id : p \in {q \in Physical(e) : q.rev <= receipt.at}} = {r.id}

\* Carriers that prove or disturb a cohort: in a window, the receipt excepted.
Undisturbed(e, receipt, from, to) ==
    /\ ~e.draft
    /\ \A a \in e.artifacts \ {receipt} : a.rev < from \/ a.at > to

\* selectV2DefaultAnyDuplicateCohortClosure: two bare requests, nothing of
\* Codex on them or between, one clean after both, then at most a marker.
Cohort(e, first, second, receipt) ==
    LET prior == {p \in Physical(e) : p.rev < receipt.at}
        later == Physical(e) \ prior IN
    /\ e.epoch = 0
    /\ {p.id : p \in prior} = {first.id, second.id} /\ first.rev < second.rev
    /\ \A r \in {first, second} :
          /\ r.kind = "bare" /\ r.edited = "no"
          /\ \A x \in ReactionsOn(e, r) : x.at < r.rev
    /\ \A a \in Comments(e) : a.at < first.rev => a.kind # "failure" /\ ~a.edited
    /\ Cardinality(later) <= 1
    /\ \A p \in later : p.rev > receipt.at /\
          \E r \in Authorized(e) : r.id = p.id /\ r.kind = "marker" /\ r.tip = e.tip
    /\ Undisturbed(e, receipt, first.rev,
                   MaxOf({receipt.at} \cup {p.rev : p \in later}))

Cohorts(e) ==
    {pair \in e.requests \X e.requests :
        \E receipt \in TopLevelCleans(e) : Cohort(e, pair[1], pair[2], receipt)}

\* selectV2CurrentHeadCleanRecovery: the last request, when it is later than
\* the verifier run and every retarget and no history before it is lost.
RecoveryRequests(e) ==
    {r \in Authorized(e) :
        /\ r.rev > MaxOf({e.run, e.epoch})
        /\ \A p \in Physical(e) : p.id # r.id => p.rev < r.rev
        /\ e.deletions = {}
        /\ \A q \in e.requests : q.edited = "no"
        /\ \A a \in Comments(e) : ~a.edited
        /\ r.kind = "marker" => r.tip = e.tip
        /\ Findings(e) # {} =>
              /\ e.epoch = 0
              /\ r.kind = "marker" => \A x \in ReactionsOn(e, r) : x.content # "+1" \/ x.at <= r.rev}

\* Of the cleans in its latest second the recovery takes the first.
RecoveryCleans(e) ==
    {c \in TopLevelCleans(e) :
        /\ \A d \in TopLevelCleans(e) : d.at < c.at \/ (d.at = c.at /\ d.id >= c.id)
        /\ \A f \in Failures(e) : f.rev < c.at}

Recoveries(e) ==
    IF DirectBasis(e) THEN {}
    ELSE {w \in RecoveryRequests(e) \X RecoveryCleans(e) : w[2].at > w[1].rev}

Attested(e, request, clean) ==
    \E w \in Recoveries(e) : w[1].id = request.id /\ w[2].id = clean.id

\* confirmV2DefaultAnyRequestCandidates: a bare request counts only once an
\* official signal shows that Codex took it.
Confirmed(e, r) ==
    \/ r.kind = "marker"
    \/ \E x \in ReactionsOn(e, r) : x.at > r.rev
    \/ \E c \in ReceiptsAfter(e, r) : Unambiguous(e, r, c)
    \/ \E pair \in Cohorts(e) : pair[2] = r
    \/ \E w \in Recoveries(e) : w[1] = r

\* isV2PostRunOrdinaryPhysicalBoundary.
PostRun(e, r) ==
    e.epoch = 0 /\ r.rev > e.run /\ \E p \in Physical(e) : p.id # r.id /\ p.rev < r.rev

KeptBoundary(e, r) ==
    /\ \A pair \in Cohorts(e) : pair[1] # r
    /\ \/ r.edited # "no" \/ Confirmed(e, r)
       \/ ReceiptsAfter(e, r) # {} \/ PostRun(e, r)

\* selectV2ReactionInventoryRequests, then projectV2HeadRecoveryReactions.
Inventoried(e, r) == r.edited = "no" \/ r.rev < e.epoch

ServedReactions(e) ==
    {x \in e.reactions : \E r \in e.requests :
        /\ r.id = x.on /\ Inventoried(e, r)
        /\ \A w \in Recoveries(e) : w[1] = r}

-----------------------------------------------------------------------------
(* The inputs of the reducer, nothing of requests under the direct basis.  *)

\* selectV2PhysicalRequestBoundaries.
Generations(e) ==
    IF DirectBasis(e) THEN {}
    ELSE {p \in Physical(e) :
            /\ p.rev >= e.epoch
            /\ \A r \in e.requests : r.id = p.id => KeptBoundary(e, r)}

GenerationRequestsOfAnyBase(e) ==
    IF DirectBasis(e) THEN {}
    ELSE {r \in Authorized(e) :
            /\ Confirmed(e, r) /\ r.rev > e.epoch
            /\ r.kind = "bare" => e.epoch = 0 \/ \E w \in Recoveries(e) : w[1] = r}

\* selectCurrentV2RequestGenerations.
GenerationRequests(e) ==
    {r \in GenerationRequestsOfAnyBase(e) : r.kind = "marker" => r.tip = e.tip}

\* selectLatestV2RequestEpoch.
Selected(e) ==
    {r \in GenerationRequests(e) :
        \A q \in GenerationRequests(e) : q.rev < r.rev \/ (q.rev = r.rev /\ q.id <= r.id)}

Seen(e) == IF DirectBasis(e) THEN {} ELSE ServedReactions(e)
Eyes(e) == {x \in Seen(e) : x.content = "eyes"}
PlusOnes(e, r) == {x \in Seen(e) : x.content = "+1" /\ x.on = r.id}

\* buildV2ReactionCleanArtifacts on the selected marker.
NewestPlusOne(e, r) == Latest({x \in PlusOnes(e, r) : x.at > r.rev})
HasPlusOne(e, r) == r.kind = "marker" /\ \E x \in PlusOnes(e, r) : x.at > r.rev

Vetoed(e, r) ==
    /\ HasPlusOne(e, r)
    /\ \E x \in Eyes(e) : x.on = r.id /\ x.at > r.rev /\ x.at >= NewestPlusOne(e, r).at

ReactionCleans(e) ==
    {[id |-> NewestPlusOne(e, r).id, source |-> "reaction", kind |-> "clean",
      at |-> NewestPlusOne(e, r).at, on |-> r.id] :
        r \in {q \in Selected(e) : HasPlusOne(e, q) /\ ~Vetoed(e, q)}}

EarlyPlusOne(e) ==
    \E r \in Selected(e) : r.kind = "marker" /\ \E x \in PlusOnes(e, r) : x.at <= r.rev

\* Clean and finding carriers that speak for the head.
Terminals(e) ==
    {[id |-> a.id, source |-> a.source, kind |-> a.kind, at |-> a.at, on |-> 0] :
        a \in {b \in e.artifacts : b.kind # "failure" /\ ~b.edited}}

\* currentArtifacts: a clean no later than the selected request is gone.
Current(e) ==
    {a \in Terminals(e) \cup ReactionCleans(e) :
        a.kind = "clean" => \A r \in Selected(e) : a.at > r.rev}

-----------------------------------------------------------------------------
(* Lineage: which request a clean may be counted for.                      *)

\* mergeV2ProviderActivities: every carrier but reactions, as an interval.
Activities(e) ==
    {[id |-> a.id, from |-> a.at, to |-> a.rev] : a \in e.artifacts}
    \cup {[id |-> MaxEvents + d.id, from |-> d.at, to |-> d.at] : d \in e.deletions}

\* A draft review has no known interval and is always there.
ActivityIn(e, from, to, ignored) ==
    \/ e.draft
    \/ \E a \in Activities(e) :
          /\ a.to >= from /\ a.from <= to
          /\ ~(a.id = ignored /\ a.to = from)

EyesIn(e, from, to) == \E x \in Eyes(e) : x.at >= from /\ x.at <= to

\* A terminal between a first request and its successor, or a +1 on the request.
ProviderClosure(e, p, q) ==
    /\ e.epoch = 0
    /\ \A b \in Generations(e) : ~Before(b, p)
    /\ \E r \in e.requests : r.id = p.id /\ Inventoried(e, r)
    /\ \E t \in Terminals(e) :
          /\ t.at > p.rev /\ t.at < q.rev
          /\ ~EyesIn(e, t.at, q.rev) /\ ~ActivityIn(e, t.at, q.rev, t.id)

ReactionClosure(e, p, q) ==
    /\ p.bound
    /\ \E x \in PlusOnes(e, p) :
          /\ x.at > p.rev /\ x.at < q.rev
          /\ ~EyesIn(e, x.at, q.rev) /\ ~ActivityIn(e, x.at, q.rev, 0)

Consecutive(e, p, q) ==
    Before(p, q) /\ \A b \in Generations(e) : ~(Before(p, b) /\ Before(b, q))

\* buildV2GenerationLineage.
Closed(e, p, q) == ProviderClosure(e, p, q) \/ ReactionClosure(e, p, q)

GapsClosed(e) ==
    \A p, q \in Generations(e) : Consecutive(e, p, q) => Closed(e, p, q)

\* isV2CurrentHeadCleanRecoveryWitness.
RecoveryWitness(e, clean, g) ==
    /\ clean.source = "comment" /\ Attested(e, g, clean)
    /\ \A b \in Generations(e) : b.id = g.id \/ Before(b, Boundary(g))

FirstOrReaction(e, clean, g) ==
    clean.source = "reaction" \/ \A b \in Generations(e) : ~Before(b, Boundary(g))

\* v2CleanLineageError finds nothing against counting the clean for request g.
Attributable(e, clean, g) ==
    /\ \E b \in Generations(e) : b.id = g.id
    /\ clean.source # "reaction" => clean.at > g.rev
    /\ \/ RecoveryWitness(e, clean, g)
       \/ /\ \A b \in Generations(e) : ~Before(Boundary(g), b)
          /\ GapsClosed(e)
          /\ FirstOrReaction(e, clean, g)

\* hasV2UnsettledOfficialEyesOnOtherRequests.
UnsettledEyes(e, g, time) ==
    \E x \in Eyes(e) :
        /\ x.on # g.id /\ x.at >= e.epoch /\ x.at < time
        /\ \A y \in Seen(e) : ~(y.content = "+1" /\ y.on = x.on /\ y.at > x.at /\ y.at < time)

\* isV2QualifyingCleanForGeneration.
Qualifies(e, clean, g) ==
    /\ clean.at > g.rev
    /\ clean.source = "reaction" => clean.on = g.id /\ g.kind = "marker"
    /\ Attributable(e, clean, g)
    /\ ~EyesIn(e, clean.at, MaxTime)
    /\ ~UnsettledEyes(e, g, clean.at)
    /\ ~ActivityIn(e, clean.at, MaxTime, IF clean.source = "reaction" THEN 0 ELSE clean.id)

-----------------------------------------------------------------------------
(* reduceV2Evidence.                                                       *)

PreRunClean(e) ==
    \E a \in Terminals(e) : a.kind = "clean" /\ a.source = "comment" /\ a.at <= e.run

RecoveryClean(e, c) ==
    c.source = "comment" /\ \E r \in Selected(e) : Attested(e, r, c)

PositiveCleans(e) ==
    {c \in Current(e) :
        /\ c.kind = "clean"
        /\ c.source = "comment" => c.at > e.run
        /\ \/ c.source = "reaction" \/ RecoveryClean(e, c) \/ ~PreRunClean(e)
           \/ \E r \in Selected(e) : r.rev > e.run
        /\ e.epoch = 0 \/ RecoveryClean(e, c) \/ c.source = "reaction"}

SupersedableByOlderRequest(e, time, allowRecovery) ==
    \E g \in GenerationRequests(e), c \in PositiveCleans(e) : Qualifies(e, c, g)

SupersededASecondLater(e, time, allowRecovery) ==
    \E g \in GenerationRequests(e), c \in PositiveCleans(e) :
        /\ g.rev > time + 1
        /\ (c.source = "comment" /\ \E w \in Recoveries(e) : w[2].id = c.id)
              => allowRecovery /\ Attested(e, g, c)
        /\ Qualifies(e, c, g)

\* findV2SupersedingGenerationClean: a request later than the evidence, and a
\* clean that counts for it; the recovery's clean counts only where allowed.
Superseded(e, time, allowRecovery) ==
    \E g \in GenerationRequests(e), c \in PositiveCleans(e) :
        /\ g.rev > time
        /\ (c.source = "comment" /\ \E w \in Recoveries(e) : w[2].id = c.id)
              => allowRecovery /\ Attested(e, g, c)
        /\ Qualifies(e, c, g)

\* findCrossChannelTimestampConflicts.
ConflictTimes(e) ==
    {a.at : a \in {b \in Current(e) : \E c \in Current(e) : c.at = b.at /\ c.source # b.source}}

ScopedErrorTimesOfPresent(e) ==
    RequestErrorTimes(e) \cup ConflictTimes(e)
    \cup {a.rev : a \in {b \in Comments(e) : b.edited /\ b.kind # "failure"}}

\* Evidence that says nothing but may have hidden something.
ScopedErrorTimes(e) == ScopedErrorTimesOfPresent(e) \cup {d.at : d \in e.deletions}

Unresolved(e) == {f \in Current(e) : f.kind = "finding" /\ ~Superseded(e, f.at, FALSE)}

Preferred(c, d) ==
    c.source = "reaction" \/ c.at > d.at \/ (c.at = d.at /\ c.source = d.source /\ c.id > d.id)

\* The first clean, in order of preference, that counts for the selected request.
GoodCleans(e) == {c \in PositiveCleans(e) : \A g \in Selected(e) : Qualifies(e, c, g)}
BusyCleans(e) ==
    {c \in PositiveCleans(e) \ GoodCleans(e) : \A g \in Selected(e) : Attributable(e, c, g)}

CleanSelected(e) == DirectCleans(e, e.epoch) # {} \/ GoodCleans(e) # {}

BlockedByLiveness(e) ==
    IF PositiveCleans(e) = {} THEN \E r \in Selected(e) : Vetoed(e, r)
    ELSE /\ DirectCleans(e, e.epoch) = {}
         /\ \E c \in BusyCleans(e) : \A d \in GoodCleans(e) : ~Preferred(d, c)

Blocked(e) ==
    \/ EarlyPlusOne(e)
    \/ \E f \in Failures(e) :
          f.edited \/ ~((\E c \in DirectCleans(e, e.epoch) : c.at > f.rev) \/ Superseded(e, f.rev, TRUE))
    \/ \E time \in ScopedErrorTimes(e) : ~Superseded(e, time, FALSE)
    \/ ~CleanSelected(e) /\ \E c \in PositiveCleans(e) : c \notin BusyCleans(e)

\* A clean after the retarget that is not the newest direct one.
Unattributable(e) ==
    /\ e.epoch > 0
    /\ \E c \in Current(e) :
          /\ c.kind = "clean" /\ c.source # "reaction" /\ c.at > e.epoch
          /\ ~RecoveryClean(e, c)
          /\ DirectCleans(e, e.epoch) # {} => c.id # Latest(DirectCleans(e, e.epoch)).id

PreEpochClean(e) ==
    /\ e.epoch > 0 /\ DirectCleans(e, 0) # {}
    /\ Latest(DirectCleans(e, 0)).at <= e.epoch

Succeeds(e) ==
    /\ ~Blocked(e) /\ ~e.draft
    /\ ~Unattributable(e) /\ ~PreEpochClean(e) /\ ~BlockedByLiveness(e)
    /\ CleanSelected(e)
    /\ DirectCleans(e, e.epoch) # {} \/ Selected(e) # {}

Outcome(e) ==
    IF Unresolved(e) # {} THEN "failure"
    ELSE IF Succeeds(e) THEN "success"
    ELSE "pending"

-----------------------------------------------------------------------------
(* What happens to a pull request.                                         *)

Init ==
    /\ clock = 1
    /\ ev = [artifacts |-> {}, requests |-> {}, reactions |-> {}, deletions |-> {},
             epoch |-> 0, tip |-> 0, run |-> 1, draft |-> FALSE, count |-> 0]
    /\ triggers = {[id |-> 0, at |-> 0]}
    /\ open = {0}
    /\ repeated = FALSE

NewId == ev.count + 1

\* An event of the present second.
Event(e) == ev.count < MaxEvents /\ ev' = [e EXCEPT !.count = NewId] /\ UNCHANGED clock

HistoryUnchanged == UNCHANGED <<triggers, open, repeated>>

Tick ==
    /\ clock < MaxTime
    /\ clock' = clock + 1
    /\ UNCHANGED ev /\ HistoryUnchanged

NewRequest(e, kind, time) ==
    [e EXCEPT !.requests = @ \cup
        {[id |-> e.count + 1, kind |-> kind, at |-> time, rev |-> time,
          edited |-> "no", tip |-> e.tip]}]

Request(kind) ==
    /\ Event(NewRequest(ev, kind, clock))
    /\ triggers' = triggers \cup {[id |-> NewId, at |-> clock]}
    /\ open' = open \cup {NewId}
    /\ UNCHANGED repeated

Finish(trigger) ==
    /\ open' = open \ {trigger}
    /\ repeated' = (repeated \/ trigger \notin open)
    /\ UNCHANGED triggers

NewArtifact(e, source, kind, time, trigger) ==
    [e EXCEPT !.artifacts = @ \cup
        {[id |-> e.count + 1, source |-> source, kind |-> kind, at |-> time, rev |-> time,
          edited |-> FALSE, answers |-> trigger]}]

\* A terminal of Codex; service failures are comments.
Answer(source, kind, trigger) ==
    /\ source = "review" => kind # "failure"
    /\ Event(NewArtifact(ev, source, kind, clock, trigger))
    /\ Finish(trigger)

NewReaction(e, r, content, time) ==
    [e EXCEPT !.reactions = @ \cup
        {[id |-> e.count + 1, on |-> r, content |-> content, at |-> time]}]

React(r, content) ==
    /\ Event(NewReaction(ev, r.id, content, clock))
    /\ IF content = "+1" THEN Finish(r.id) ELSE HistoryUnchanged

\* Codex drafts a review, and submits or discards it.
Draft == Event([ev EXCEPT !.draft = ~@]) /\ HistoryUnchanged

EditAnswer(a) ==
    /\ a.source = "comment"
    /\ Event([ev EXCEPT !.artifacts = (@ \ {a}) \cup {[a EXCEPT !.rev = clock, !.edited = TRUE]}])
    /\ HistoryUnchanged

EditRequest(r, how) ==
    /\ Event([ev EXCEPT !.requests = (@ \ {r}) \cup {[r EXCEPT !.rev = clock, !.edited = how]}])
    /\ HistoryUnchanged

Deleted(e) == [e EXCEPT !.deletions = @ \cup {[id |-> NewId, at |-> clock]}]

DeleteAnswer(a) ==
    /\ a.source = "comment"
    /\ Event(Deleted([ev EXCEPT !.artifacts = @ \ {a}]))
    /\ HistoryUnchanged

DeleteRequest(r) ==
    /\ Event(Deleted([ev EXCEPT !.requests = @ \ {r},
                                !.reactions = {x \in @ : x.on # r.id}]))
    /\ HistoryUnchanged

Retarget ==
    /\ Event([ev EXCEPT !.epoch = clock, !.tip = @ + 1])
    /\ HistoryUnchanged

AdvanceBase ==
    /\ Event([ev EXCEPT !.tip = @ + 1])
    /\ HistoryUnchanged

\* A pull_request event creates a new verifier run.
NewRun ==
    /\ ev.run # clock
    /\ Event([ev EXCEPT !.run = clock])
    /\ HistoryUnchanged

Withdraw ==
    \/ \E a \in ev.artifacts : EditAnswer(a) \/ DeleteAnswer(a)
    \/ \E r \in ev.requests :
          DeleteRequest(r) \/ \E how \in {"kept", "away"} : EditRequest(r, how)

Next ==
    \/ Tick
    \/ \E kind \in {"marker", "bare"} \cap Happenings : Request(kind)
    \/ \E source \in {"comment", "review"} \cap Happenings,
          kind \in {"clean", "finding", "failure"} \cap Happenings,
          t \in triggers : Answer(source, kind, t.id)
    \/ \E r \in ev.requests, content \in {"+1", "eyes"} \cap Happenings : React(r, content)
    \/ "draft" \in Happenings /\ Draft
    \/ "run" \in Happenings /\ NewRun
    \/ "base" \in Happenings /\ (Retarget \/ AdvanceBase)
    \/ "withdraw" \in Happenings /\ Withdraw

Spec == Init /\ [][Next]_vars

-----------------------------------------------------------------------------

\* A finding on the head is passed over only for a clean answer to a request
\* made after it: a late answer to an earlier request, or to the push, never
\* clears a finding, in whatever order Codex answers (once each).
ClearedByLaterRequest ==
    /\ ~repeated
    /\ \E f \in Findings(ev) :
          ~\E t \in triggers :
              /\ t.at > f.at
              /\ \/ \E c \in ev.artifacts : c.kind = "clean" /\ c.answers = t.id
                 \/ \E x \in ev.reactions : x.content = "+1" /\ x.on = t.id
    => Outcome(ev) # "success"

\* Nobody turns the gate green by taking something back: a step that edits or
\* deletes a comment leads to success only from success.
WithdrawalNeverHelps ==
    [][Withdraw /\ Outcome(ev') = "success" => Outcome(ev) = "success"]_vars

\* After a retarget only an answer of a later second is good enough, and a +1
\* only on a marker for the present base tip.
SuccessAfterRetarget ==
    Outcome(ev) = "success" /\ ev.epoch > 0 =>
        \/ \E c \in TopLevelCleans(ev) : c.at > ev.epoch
        \/ \E x \in ev.reactions, r \in Authorized(ev) :
              /\ x.content = "+1" /\ x.on = r.id /\ x.at > r.at
              /\ r.kind = "marker" /\ r.tip = ev.tip /\ r.at > ev.epoch

\* Evidence with nothing to repair: no findings, no comment taken back, no two
\* kinds of answers in one second.
Unspoilt(e) ==
    /\ Findings(e) = {} /\ e.deletions = {} /\ ~e.draft
    /\ \A a \in e.artifacts : ~a.edited
    /\ \A a, b \in e.artifacts : a.at = b.at => a.source = b.source

\* A fresh top-level clean for the head is enough, whatever requests,
\* reactions, service failures and runs came before it.
FreshCleanSuffices ==
    Unspoilt(ev) /\ ev.epoch = 0 =>
        Outcome(NewArtifact(ev, "comment", "clean", clock + 1, 0)) = "success"

\* The way out of a finding: with no request so far and nothing taken back, a
\* marker and a +1 on it turn failure into success.
AnsweredMarkerClears ==
    /\ Findings(ev) # {} /\ ev.requests = {} /\ ev.deletions = {} /\ ~ev.draft
    /\ ev.epoch = 0 /\ \A a \in ev.artifacts : ~a.edited
    => \A requested \in {NewRequest(ev, "marker", clock + 1)} :
       \A answered \in {NewReaction(requested, NewId, "+1", clock + 2)} :
          Outcome(answered) = "success"

\* The documents say the same of a pull request that was retargeted: the clean
\* has to be later than the latest retarget and needs no request.
FreshCleanSufficesAfterRetarget ==
    Unspoilt(ev) =>
        Outcome(NewArtifact(ev, "comment", "clean", clock + 1, 0)) = "success"

=============================================================================
