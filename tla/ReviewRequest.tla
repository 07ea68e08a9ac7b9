---------------------------- MODULE ReviewRequest ----------------------------
(***************************************************************************)
(* Begin-review: ensureV2ControllerReviewRequest of                        *)
(* packages/action/src/v2/gate-runtime.mjs adopts or posts the one         *)
(* canonical review-request comment (a marker) of a workflow run.          *)
(*                                                                         *)
(* Posting a comment has no idempotency key, and its answer may be lost    *)
(* while it takes effect, soon or under a later invocation.  Base          *)
(* retargets open a new epoch; a marker counts only when it is posted in a *)
(* later second than the last of them.  Retargets may go to a branch and   *)
(* back, and the GraphQL timeline that tells of them may lag.  A workflow  *)
(* run may be invoked again (rerun); invocations run one at a time.        *)
(*                                                                         *)
(* Comments other than markers are left out; a marker edited by somebody   *)
(* counts as withdrawn, as one that is deleted does.  Reads of the REST    *)
(* lists and of the pull request see GitHub as it is.                      *)
(***************************************************************************)
EXTENDS Integers, Sequences, FiniteSets

CONSTANTS
    RunIds,       \* workflow runs (GITHUB_RUN_ID) of controllers
    Heads,        \* heads of the pull request
    Bases,        \* its base branches
    MaxClock,     \* bound: seconds
    Invocations,  \* bound: begin-review invocations
    MaxChurn      \* bound: outside events and faults

ASSUME BoundsAssumption ==
    MaxClock \in Nat /\ Invocations \in Nat \ {0} /\ MaxChurn \in Nat

VARIABLES
    \* GitHub.
    clock,      \* created_at has a resolution of one second
    scope,      \* the pull request's present [head, base]
    epochs,     \* the seconds of its base retargets
    timeline,   \* how many of them the GraphQL timeline serves
    markers,    \* markers ever posted
    withdrawn,  \* ids of those deleted or edited since
    inflight,   \* marker POSTs sent and not yet handled
    churn,      \* outside events and faults left
    \* The current invocation.
    invocation, \* which one this is, 1..Invocations
    run,        \* its workflow run
    trigger,    \* "manual" or "auto", of each workflow run
    pc,
    bound,      \* initialPr: the scope at the start
    count,      \* initialPr.comments
    listed,     \* the markers of the last comment list
    baseEpoch,  \* the epoch of the first read: an index into epochs
    created,    \* the id the POST's answer named, or 0
    visible,    \* markers found by the reread after a failure
    flawed,     \* visibilityError
    report,
    accepted,   \* the id of the marker the report names, or 0
    \* History.
    unknown     \* runs with an invocation that said it does not know
                \* what became of its POST, and ended before GitHub handled it

gitHub == <<clock, scope, epochs, timeline, markers, withdrawn>>
input == <<invocation, run, trigger, bound, count>>
progress == <<listed, baseEpoch, created, visible, flawed>>
outcome == <<report, accepted, unknown>>
vars == <<gitHub, inflight, churn, input, pc, progress, outcome>>

-----------------------------------------------------------------------------

Scopes == [head : Heads, base : Bases]
Bodies == [by : 1..Invocations, run : RunIds, scope : Scopes]
Markers == [id : Nat, by : 1..Invocations, run : RunIds, scope : Scopes, at : 0..MaxClock]

Accepted == {"created", "adopted", "adopted-after-unknown"}
Reports == Accepted \cup {"none", "refused", "denied", "headchanged", "retry_begin", "crashed"}
Steps == {"list", "epoch0", "adoptPr", "adoptEpoch", "prePr", "preEpoch", "post",
          "answer", "refetch", "postPr", "finalEpoch", "reread", "rereadEpoch",
          "rereadPr", "adoptUnknown"}
MayHaveCommitted == {"answer", "refetch", "postPr", "finalEpoch", "reread",
                     "rereadEpoch", "rereadPr", "adoptUnknown"}

Live == {m \in markers : m.id \notin withdrawn}

\* isV2ReviewRequestAfterBaseEpoch.
Newer(m, epoch) == epoch = 0 \/ m.at > epochs[epoch]
Ambiguous(m, epoch) == epoch > 0 /\ m.at = epochs[epoch]

MatchesThisInvocation(m) == m.scope = bound /\ m.by = invocation

\* matchesV2BeginReviewRequestScope.
Matches(m) == m.scope = bound /\ (trigger[run] = "auto" \/ m.run = run)

Oldest(ms) == CHOOSE i \in {m.id : m \in ms} : \A m \in ms : i <= m.id

\* Which head and base come first makes no difference.
Init ==
    /\ clock = 0
    /\ scope = CHOOSE s \in Scopes : TRUE
    /\ epochs \in {<<>>, <<0>>}
    /\ timeline = Len(epochs)
    /\ markers = {}
    /\ withdrawn = {}
    /\ inflight = {}
    /\ churn = MaxChurn
    /\ invocation = 1
    /\ run \in RunIds
    /\ trigger \in [RunIds -> {"manual", "auto"}]
    /\ pc = "list"
    /\ bound = scope
    /\ count = 0
    /\ listed = {}
    /\ baseEpoch = 0
    /\ created = 0
    /\ visible = {}
    /\ flawed = FALSE
    /\ report = "none"
    /\ accepted = 0
    /\ unknown = {}

-----------------------------------------------------------------------------
(* GitHub and its users.                                                   *)

Churn == churn > 0 /\ churn' = churn - 1

InvocationUnchanged == UNCHANGED <<input, pc, progress, outcome>>

Tick ==
    /\ clock < MaxClock
    /\ clock' = clock + 1
    /\ UNCHANGED <<scope, epochs, timeline, markers, withdrawn, inflight, churn>>
    /\ InvocationUnchanged

Push(head) ==
    /\ Churn
    /\ head # scope.head
    /\ scope' = [scope EXCEPT !.head = head]
    /\ UNCHANGED <<clock, epochs, timeline, markers, withdrawn, inflight>>
    /\ InvocationUnchanged

\* The timeline shows a retarget at once, or only after a while.
Retarget(base) ==
    /\ Churn
    /\ base # scope.base
    /\ scope' = [scope EXCEPT !.base = base]
    /\ epochs' = Append(epochs, clock)
    /\ timeline' \in {timeline, Len(epochs')}
    /\ UNCHANGED <<clock, markers, withdrawn, inflight>>
    /\ InvocationUnchanged

CatchUp ==
    /\ timeline < Len(epochs)
    /\ timeline' = Len(epochs)
    /\ UNCHANGED <<clock, scope, epochs, markers, withdrawn, inflight, churn>>
    /\ InvocationUnchanged

Withdraw(m) ==
    /\ Churn
    /\ m \in Live
    /\ withdrawn' = withdrawn \cup {m.id}
    /\ UNCHANGED <<clock, scope, epochs, timeline, markers, inflight>>
    /\ InvocationUnchanged

NewId == Cardinality(markers) + 1

\* GitHub creates the comment; the poster may or may not learn its id.
HandlePost(body) ==
    /\ body \in inflight
    /\ inflight' = inflight \ {body}
    /\ markers' = markers \cup
         {[id |-> NewId, by |-> body.by, run |-> body.run, scope |-> body.scope, at |-> clock]}
    /\ created' = IF pc = "answer" /\ body.by = invocation THEN NewId ELSE created
    /\ UNCHANGED <<clock, scope, epochs, timeline, withdrawn, churn, input, pc,
                   listed, baseEpoch, visible, flawed, outcome>>

LosePost(body) ==
    /\ Churn
    /\ inflight' = inflight \ {body}
    /\ UNCHANGED gitHub
    /\ InvocationUnchanged

Environment ==
    \/ Tick
    \/ \E h \in Heads : Push(h)
    \/ \E b \in Bases : Retarget(b)
    \/ CatchUp
    \/ \E m \in markers : Withdraw(m)
    \/ \E body \in inflight : LosePost(body)

Handle == \E body \in inflight : HandlePost(body)

-----------------------------------------------------------------------------
(* The invocation.                                                         *)

WorldUnchanged == UNCHANGED <<gitHub, inflight, churn, input>>

Goto(label) == pc' = label /\ UNCHANGED outcome

\* The reports after which the caller cannot know what the POST did.
Undecided == {"retry_begin", "headchanged", "crashed", "adopted-after-unknown"}

Report(verdict, id) ==
    /\ pc' = "done"
    /\ report' = verdict
    /\ accepted' = id
    /\ unknown' = IF verdict \in Undecided /\ \E body \in inflight : body.by = invocation
                    THEN unknown \cup {run} ELSE unknown

Refuse == Report("refused", 0)

\* loadV2LatestBaseEpoch.
ServedEpoch == timeline

AnyEpoch == TRUE

EpochRequired == ServedEpoch = baseEpoch /\ baseEpoch > 0

\* assertV2BaseEpochUnchanged; the latch on a timeline that goes back is part
\* of it, since only the first epoch read is ever accepted.
EpochUnchanged == ServedEpoch = baseEpoch

\* The list must agree with the comment count of the pull request.
List ==
    /\ pc = "list"
    /\ IF Cardinality(Live) = count
         THEN Goto("epoch0") /\ listed' = Live
         ELSE Refuse /\ UNCHANGED listed
    /\ UNCHANGED <<baseEpoch, created, visible, flawed>>
    /\ WorldUnchanged

ReadEpoch ==
    /\ pc = "epoch0"
    /\ baseEpoch' = ServedEpoch
    /\ LET matching == {m \in listed : Matches(m)} IN
         IF \E m \in matching : Newer(m, timeline) THEN Goto("adoptPr")
         ELSE IF \E m \in matching : Ambiguous(m, timeline) THEN Refuse
         ELSE Goto("prePr")
    /\ UNCHANGED <<listed, created, visible, flawed>>
    /\ WorldUnchanged

\* assertV2BeginReviewScope before anything may have been posted.
ScopeError ==
    IF scope.head # bound.head THEN Report("headchanged", 0) ELSE Refuse

AdoptPr ==
    /\ pc = "adoptPr"
    /\ IF scope = bound THEN Goto("adoptEpoch") ELSE ScopeError
    /\ UNCHANGED progress
    /\ WorldUnchanged

AdoptEpoch ==
    /\ pc = "adoptEpoch"
    /\ IF EpochUnchanged
         THEN Report("adopted", Oldest({m \in listed : Matches(m) /\ Newer(m, baseEpoch)}))
         ELSE Refuse
    /\ UNCHANGED progress
    /\ WorldUnchanged

\* sameV2InventoryCounts is part of the pre-POST reread.
PrePr ==
    /\ pc = "prePr"
    /\ IF scope # bound THEN ScopeError
       ELSE IF Cardinality(Live) # count THEN Refuse
       ELSE Goto("preEpoch")
    /\ UNCHANGED progress
    /\ WorldUnchanged

PreEpoch ==
    /\ pc = "preEpoch"
    /\ IF EpochUnchanged THEN Goto("post") ELSE Refuse
    /\ UNCHANGED progress
    /\ WorldUnchanged

Post ==
    /\ pc = "post"
    /\ inflight' = inflight \cup {[by |-> invocation, run |-> run, scope |-> bound]}
    /\ Goto("answer")
    /\ UNCHANGED <<gitHub, churn, input, progress>>

Answered ==
    /\ pc = "answer"
    /\ created # 0
    /\ Goto("refetch")
    /\ UNCHANGED progress
    /\ WorldUnchanged

\* 401 or 403: GitHub did not take the comment.
Denied ==
    /\ pc = "answer"
    /\ Churn
    /\ \E body \in inflight : body.by = invocation /\ inflight' = inflight \ {body}
    /\ Report("denied", 0)
    /\ UNCHANGED <<gitHub, input, progress>>

\* The POST was lost: the request times out.
NoAnswer ==
    /\ pc = "answer"
    /\ created = 0 /\ \A body \in inflight : body.by # invocation
    /\ Goto("reread")
    /\ UNCHANGED progress
    /\ WorldUnchanged

\* Any other error; whatever the answer was, it is not known.
AnswerLost ==
    /\ pc = "answer"
    /\ Churn
    /\ Goto("reread")
    /\ created' = 0
    /\ UNCHANGED <<gitHub, inflight, input, listed, baseEpoch, visible, flawed>>

Own == {m \in Live : m.id = created}

\* The created comment is refetched, then the comment history.
Refetch ==
    /\ pc = "refetch"
    /\ IF /\ Own # {} /\ EpochUnchanged
          /\ \A m \in Own : Newer(m, timeline)
         THEN Goto("postPr") ELSE Goto("reread")
    /\ UNCHANGED progress
    /\ WorldUnchanged

PostPr ==
    /\ pc = "postPr"
    /\ IF scope = bound THEN Goto("finalEpoch") ELSE Goto("reread")
    /\ UNCHANGED progress
    /\ WorldUnchanged

FinalEpoch ==
    /\ pc = "finalEpoch"
    /\ IF EpochUnchanged
         THEN Report("created", created) ELSE Goto("reread")
    /\ UNCHANGED progress
    /\ WorldUnchanged

\* The catch: list again; only the created comment counts when its id is known.
Reread ==
    /\ pc = "reread"
    /\ visible' = {m \in Live : Matches(m) /\ (created # 0 => m.id = created)}
    /\ Goto("rereadEpoch")
    /\ UNCHANGED <<listed, baseEpoch, created, flawed>>
    /\ WorldUnchanged

\* The history of that list, then an exact refetch of what is visible.
RereadEpoch ==
    /\ pc = "rereadEpoch"
    /\ LET newer == {m \in visible : Newer(m, timeline)} IN
         /\ visible' = newer
         /\ flawed' = (timeline < baseEpoch \/ ~(newer \subseteq Live))
    /\ Goto("rereadPr")
    /\ UNCHANGED <<listed, baseEpoch, created>>
    /\ WorldUnchanged

\* What may have been committed is retry_begin, but for a changed head.
LateError(verdict) == IF verdict = "headchanged" THEN "headchanged" ELSE "retry_begin"

RereadPr ==
    /\ pc = "rereadPr"
    /\ IF scope = bound THEN Goto("adoptUnknown")
       ELSE IF scope.head # bound.head THEN Report(LateError("headchanged"), 0)
       ELSE Report(LateError("refused"), 0)
    /\ UNCHANGED progress
    /\ WorldUnchanged

AdoptUnknown ==
    /\ pc = "adoptUnknown"
    /\ IF EpochUnchanged /\ ~flawed /\ visible # {}
         THEN Report("adopted-after-unknown", Oldest(visible))
         ELSE Report("retry_begin", 0)
    /\ UNCHANGED progress
    /\ WorldUnchanged

\* A read fails for good, a limit or the deadline is hit.
Fault ==
    /\ pc \in Steps \ {"answer"}
    /\ Churn
    /\ IF pc \in {"refetch", "postPr", "finalEpoch"} THEN Goto("reread") /\ UNCHANGED flawed
       ELSE IF pc \in {"reread", "rereadEpoch"} THEN Goto("rereadPr") /\ flawed' = TRUE
       ELSE IF pc \in MayHaveCommitted
         THEN Report(LateError("refused"), 0) /\ UNCHANGED flawed
       ELSE Refuse /\ UNCHANGED flawed
    /\ UNCHANGED <<gitHub, inflight, input, listed, baseEpoch, created, visible>>

Run ==
    \/ List \/ ReadEpoch \/ AdoptPr \/ AdoptEpoch \/ PrePr \/ PreEpoch
    \/ Post \/ Answered \/ NoAnswer \/ Refetch \/ PostPr \/ FinalEpoch
    \/ Reread \/ RereadEpoch \/ RereadPr \/ AdoptUnknown

Crash ==
    /\ pc # "done"
    /\ Churn
    /\ Report("crashed", 0)
    /\ UNCHANGED <<gitHub, inflight, input, progress>>

\* The next invocation: a rerun of a workflow run, which has the event of the
\* run, or another run.
Invoke(r) ==
    /\ pc = "done"
    /\ invocation < Invocations
    /\ invocation' = invocation + 1
    /\ run' = r
    /\ pc' = "list"
    /\ bound' = scope
    /\ count' = Cardinality(Live)
    /\ listed' = {} /\ baseEpoch' = 0 /\ created' = 0
    /\ visible' = {} /\ flawed' = FALSE
    /\ report' = "none" /\ accepted' = 0
    /\ UNCHANGED <<gitHub, inflight, churn, trigger, unknown>>

Done == pc = "done" /\ invocation = Invocations /\ UNCHANGED vars

Next ==
    \/ Environment \/ Handle
    \/ Run \/ Denied \/ AnswerLost \/ Fault \/ Crash
    \/ \E r \in RunIds : Invoke(r)
    \/ Done

\* Every awaited request is answered or fails, and GitHub handles what it gets.
Spec == Init /\ [][Next]_vars /\ WF_vars(Run) /\ WF_vars(Handle)

-----------------------------------------------------------------------------

\* A marker is accepted only in a step that sees a timeline with no retarget
\* at or after the marker's second, and for the scope the run is bound to.
AcceptedAfterRetarget ==
    [][report \notin Accepted /\ report' \in Accepted =>
         \E m \in markers :
            /\ m.id = accepted'
            /\ m.scope = bound
            /\ Newer(m, timeline)]_vars

\* One workflow run asks twice for the same scope in the same epoch only if one
\* of its invocations ended before GitHub handled its POST, and reported that
\* what the POST did is not known.
DuplicatesOnlyAfterUnknown ==
    \A m, n \in Live :
        /\ m # n /\ m.run = n.run /\ m.scope = n.scope
        /\ \A e \in 1..Len(epochs) : m.at > epochs[e] /\ n.at > epochs[e]
        => m.run \in unknown

\* Left alone, an invocation gets its marker.
QuietRequestAccepted ==
    /\ pc = "list" /\ churn = 0 /\ inflight = {} /\ scope = bound
    /\ count = Cardinality(Live)
    /\ timeline = Len(epochs) /\ \A e \in 1..Len(epochs) : epochs[e] < clock
    /\ \A m \in Live : \A e \in 1..Len(epochs) : m.at # epochs[e]
    ~> report \in Accepted
=============================================================================
