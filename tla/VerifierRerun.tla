---------------------------- MODULE VerifierRerun ----------------------------
(***************************************************************************)
(* Reconcile and begin-review end with one full rerun of the verifier:     *)
(* rerunCurrentV2Verifier of packages/action/src/v2/gate-runtime.mjs.      *)
(*                                                                         *)
(* A controller finds the newest verifier run of the pull request's scope, *)
(* sees that nothing is active, POSTs a rerun, and polls until the new     *)
(* attempt is observably queued or running.  The POST has no idempotency   *)
(* key: its answer may be lost, and a request whose answer was lost may    *)
(* still take effect, even under a later controller.  Meanwhile people     *)
(* rerun verifiers, the pull request moves, and GitHub Actions starts,     *)
(* completes and cancels attempts (one concurrency group per pull request, *)
(* cancel-in-progress).  Controllers of one pull request run one at a time.*)
(*                                                                         *)
(* A scope stands for the pull request's head, base and test merge         *)
(* together.  All verifier runs listed are for the head.                   *)
(***************************************************************************)
EXTENDS Integers, Sequences

CONSTANTS
    Scopes,       \* states of head, base and test merge
    MaxPolls,     \* polls that fit in the poll window
    MaxRuns,      \* bound: verifier runs of the head
    Controllers,  \* bound: controllers of the pull request
    MaxChurn      \* bound: outside events and faults

ASSUME BoundsAssumption ==
    /\ MaxPolls \in Nat \ {0} /\ MaxRuns \in Nat \ {0}
    /\ Controllers \in Nat \ {0} /\ MaxChurn \in Nat

VARIABLES
    \* GitHub.
    scope,      \* the scope of the pull request
    runs,       \* the verifier runs, in order of run_number
    inflight,   \* rerun requests sent and not yet handled: <<controller, run>>
    answer,     \* the answer to the current controller's POST
    churn,      \* outside events and faults left
    \* The current controller.
    controller, \* which controller this is, 1..Controllers
    pc,
    bound,      \* config.snapshotScope
    target,     \* the run it reruns
    baseline,   \* the inventory of runs it has confirmed
    polls,
    report,
    \* History.
    origin,     \* attempts of all runs when the controller started
    effects     \* attempts each controller's POSTs have created

outside == <<scope, runs, inflight, answer>>
own == <<bound, target, baseline, polls>>
vars == <<outside, churn, controller, pc, own, report, origin, effects>>

-----------------------------------------------------------------------------

\* "requested": the attempt exists, its job is not listed yet; "settling": its
\* job or CheckRun is completed, the run is not.
Phases == {"requested", "queued", "running", "settling", "completed"}
Runs == [scope : Scopes, attempt : Nat \ {0}, phase : Phases]

Reports == {"none", "observed", "pending", "stale", "missing", "denied",
            "unavailable", "crashed"}
BeforePost == {"pr1", "list1", "list2", "pr2", "list3", "post"}
AfterPost == {"response", "poll", "job", "check", "pr3", "list4"}

\* isActiveV2ActionsStatus.
Active(run) == run.phase # "completed"

Attempts(inventory) == [i \in 1..Len(inventory) |-> inventory[i].attempt]

\* selectCurrentV2VerifierRun: the newest run of a scope, 0 if there is none.
Current(inventory, s) ==
    LET matching == {i \in 1..Len(inventory) : inventory[i].scope = s} IN
    IF matching = {} THEN 0 ELSE CHOOSE i \in matching : \A j \in matching : j <= i

\* A new attempt of a run, or a new run, cancels what its group has in progress.
Cancelled(inventory) ==
    [i \in 1..Len(inventory) |-> [inventory[i] EXCEPT !.phase = "completed"]]

Rerun(r) ==
    runs' = [Cancelled(runs) EXCEPT ![r].attempt = @ + 1, ![r].phase = "requested"]

Init ==
    /\ scope \in Scopes
    /\ \E s \in Scopes, phase \in {"running", "completed"} :
          runs = <<[scope |-> s, attempt |-> 1, phase |-> phase]>>
    /\ inflight = {}
    /\ answer = "none"
    /\ churn = MaxChurn
    /\ controller = 1
    /\ pc = "pr1"
    /\ bound = scope
    /\ target = 0
    /\ baseline = <<>>
    /\ polls = 0
    /\ report = "none"
    /\ origin = Attempts(runs)
    /\ effects = [c \in 1..Controllers |-> 0]

-----------------------------------------------------------------------------
(* GitHub and its users.                                                   *)

Churn == churn > 0 /\ churn' = churn - 1

ControllerUnchanged == UNCHANGED <<controller, pc, own, report, origin>>

\* A push, a retarget, a new base commit, a close, or the way back.
MoveScope(s) ==
    /\ Churn
    /\ s # scope
    /\ scope' = s
    /\ UNCHANGED <<runs, inflight, answer, effects>>
    /\ ControllerUnchanged

\* A pull_request event starts a verifier run for the present scope.
NewRun ==
    /\ Churn
    /\ Len(runs) < MaxRuns
    /\ runs' = Append(Cancelled(runs), [scope |-> scope, attempt |-> 1, phase |-> "requested"])
    /\ UNCHANGED <<scope, inflight, answer, effects>>
    /\ ControllerUnchanged

\* Somebody reruns a completed run from the Actions page.
HumanRerun(r) ==
    /\ Churn
    /\ ~Active(runs[r])
    /\ Rerun(r)
    /\ UNCHANGED <<scope, inflight, answer, effects>>
    /\ ControllerUnchanged

Progress(r) ==
    /\ Active(runs[r])
    /\ \E phase \in CASE runs[r].phase = "requested" -> {"queued"}
                      [] runs[r].phase = "queued" -> {"running"}
                      [] runs[r].phase = "running" -> {"settling"}
                      [] OTHER -> {"completed"} :
          runs' = [runs EXCEPT ![r].phase = phase]
    /\ UNCHANGED <<scope, inflight, answer, churn, effects>>
    /\ ControllerUnchanged

\* GitHub handles a rerun request: only a completed run can be rerun.
HandlePost(m) ==
    /\ inflight' = inflight \ {m}
    /\ \/ /\ ~Active(runs[m[2]])
          /\ Rerun(m[2])
          /\ effects' = [effects EXCEPT ![m[1]] = @ + 1]
          /\ answer' = IF pc = "response" /\ m[1] = controller THEN "created" ELSE answer
       \/ /\ Active(runs[m[2]])
          /\ answer' \in IF pc = "response" /\ m[1] = controller
                           THEN {"denied", "rejected"} ELSE {answer}
          /\ UNCHANGED <<runs, effects>>
    /\ UNCHANGED <<scope, churn>>
    /\ ControllerUnchanged

LosePost(m) ==
    /\ Churn
    /\ inflight' = inflight \ {m}
    /\ UNCHANGED <<scope, runs, answer, effects>>
    /\ ControllerUnchanged

GitHub ==
    \/ \E s \in Scopes : MoveScope(s)
    \/ NewRun
    \/ \E r \in 1..Len(runs) : HumanRerun(r) \/ Progress(r)
    \/ \E m \in inflight : HandlePost(m) \/ LosePost(m)

-----------------------------------------------------------------------------
(* The controller.                                                         *)

GitHubUnchanged == UNCHANGED <<outside, churn, controller, origin, effects>>

Goto(label) == pc' = label /\ UNCHANGED report

Report(outcome) == pc' = "done" /\ report' = outcome

AfterSubmissionVerbatim(outcome) == outcome

\* failClosedAfterV2VerifierRerunSubmission: every error is wait_then_reconcile.
AfterSubmission(outcome) == "pending"

ReadScope(label, next) ==
    /\ pc = label
    /\ IF scope = bound THEN Goto(next)
       ELSE Report(IF label = "pr3" THEN AfterSubmission("stale") ELSE "stale")
    /\ UNCHANGED own
    /\ GitHubUnchanged

ReadScopes == ReadScope("pr1", "list1") \/ ReadScope("pr2", "list3") \/ ReadScope("pr3", "list4")

\* The first inventory: pick the run; nothing may be active.
FirstList ==
    /\ pc = "list1"
    /\ IF Current(runs, bound) = 0
         THEN Report("missing") /\ UNCHANGED <<target, baseline>>
       ELSE IF \E r \in 1..Len(runs) : Active(runs[r])
         THEN Report("pending") /\ UNCHANGED <<target, baseline>>
       ELSE /\ Goto("list2")
            /\ target' = Current(runs, bound)
            /\ baseline' = runs
    /\ UNCHANGED <<bound, polls>>
    /\ GitHubUnchanged

\* The second and third inventories must equal the first.
ConfirmList(label, next) ==
    /\ pc = label
    /\ IF runs = baseline THEN Goto(next) ELSE Report("pending")
    /\ UNCHANGED own
    /\ GitHubUnchanged

ConfirmLists == ConfirmList("list2", "pr2") \/ ConfirmList("list3", "post")

Post ==
    /\ pc = "post"
    /\ inflight' = inflight \cup {<<controller, target>>}
    /\ Goto("response")
    /\ UNCHANGED <<scope, runs, answer, churn, controller, own, origin, effects>>

\* 201; 401 or 403; another definite 4xx.
ReceiveAnswer ==
    /\ pc = "response"
    /\ answer # "none"
    /\ \/ answer = "created" /\ Goto("poll")
       \/ answer = "denied" /\ Report("denied")
       \/ answer = "rejected" /\ Report("pending")
    /\ UNCHANGED own
    /\ GitHubUnchanged

LoseAnswerAndRetry ==
    /\ pc = "response"
    /\ Goto("post")
    /\ UNCHANGED own
    /\ GitHubUnchanged

\* No answer, a 5xx, 408 or 429: the POST is not repeated, only watched for.
LoseAnswer ==
    /\ pc = "response"
    /\ Goto("poll")
    /\ UNCHANGED own
    /\ GitHubUnchanged

Wanted == baseline[target].attempt + 1

SleepOrGiveUp ==
    IF polls < MaxPolls
      THEN polls' = polls + 1 /\ Goto("poll")
      ELSE Report("pending") /\ UNCHANGED polls

\* loadExactV2VerifierRun.
PollRun ==
    /\ pc = "poll"
    /\ IF runs[target].attempt > Wanted THEN Report("pending") /\ UNCHANGED polls
       ELSE IF runs[target].attempt < Wanted THEN SleepOrGiveUp
       ELSE /\ IF Active(runs[target]) THEN Goto("job") ELSE Report("pending")
            /\ UNCHANGED polls
    /\ UNCHANGED <<bound, target, baseline>>
    /\ GitHubUnchanged

\* The job of the wanted attempt: over once a later attempt has replaced it.
JobListed == runs[target].attempt > Wanted \/ runs[target].phase # "requested"
JobActive == runs[target].attempt = Wanted /\ runs[target].phase \in {"queued", "running"}

\* loadUniqueV2VerifierJob, then loadV2VerifierCheckRun whatever the job's status.
ReadJob ==
    /\ pc = "job"
    /\ IF ~JobListed THEN SleepOrGiveUp
       ELSE IF JobActive THEN Goto("check") /\ UNCHANGED polls
       ELSE Report("pending") /\ UNCHANGED polls
    /\ UNCHANGED <<bound, target, baseline>>
    /\ GitHubUnchanged

ReadCheck ==
    /\ pc = "check"
    /\ IF JobActive THEN Goto("pr3") ELSE Report("pending")
    /\ UNCHANGED own
    /\ GitHubUnchanged

CorroboratedByRunAlone ==
    runs[target].attempt = Wanted /\ Active(runs[target])

\* assertV2PostRerunInventory.
Corroborated ==
    /\ Current(runs, bound) = target
    /\ runs[target].attempt = Wanted
    /\ Active(runs[target])
    /\ Len(runs) = Len(baseline)
    /\ \A r \in 1..Len(runs) : r # target => runs[r] = baseline[r]

FinalList ==
    /\ pc = "list4"
    /\ IF Corroborated THEN Report("observed") ELSE Report(AfterSubmission("pending"))
    /\ UNCHANGED own
    /\ GitHubUnchanged

\* A read fails for good, an answer has the wrong shape, the deadline passes.
Fault ==
    /\ pc \in (BeforePost \cup AfterPost) \ {"response"}
    /\ Churn
    /\ Report(IF pc \in AfterPost THEN AfterSubmission("unavailable") ELSE "unavailable")
    /\ UNCHANGED <<outside, controller, own, origin, effects>>

Run ==
    \/ ReadScopes \/ FirstList \/ ConfirmLists
    \/ Post \/ ReceiveAnswer \/ LoseAnswer
    \/ PollRun \/ ReadJob \/ ReadCheck \/ FinalList

\* The controller's job is cancelled or its runner is lost.
Crash ==
    /\ pc # "done"
    /\ Churn
    /\ Report("crashed")
    /\ UNCHANGED <<outside, controller, own, origin, effects>>

\* The next controller of the pull request's concurrency group.
NextController ==
    /\ pc = "done"
    /\ controller < Controllers
    /\ controller' = controller + 1
    /\ pc' = "pr1"
    /\ bound' = scope
    /\ target' = 0
    /\ baseline' = <<>>
    /\ polls' = 0
    /\ report' = "none"
    /\ answer' = "none"
    /\ origin' = Attempts(runs)
    /\ UNCHANGED <<scope, runs, inflight, churn, effects>>

Done == pc = "done" /\ controller = Controllers /\ UNCHANGED vars

Next == GitHub \/ Run \/ Fault \/ Crash \/ NextController \/ Done

\* Every awaited request answers, fails or times out; sleeps end.
Spec == Init /\ [][Next]_vars /\ WF_vars(Run)

-----------------------------------------------------------------------------

\* No interleaving of lost answers, late requests, people and crashes makes one
\* controller rerun the verifier twice: an ambiguous POST is never repeated.
RerunAtMostOnce == \A c \in 1..Controllers : effects[c] <= 1

\* Observed is reported only in a state where the attempt is active, it is the
\* only active one, its run is the newest of the controller's scope, and no
\* other run appeared or moved since the baseline: the rerun cancelled nothing.
ObservedAlone ==
    [][report # "observed" /\ report' = "observed" =>
         /\ {r \in 1..Len(runs) : Active(runs[r])} = {target}
         /\ target = Current(runs, bound)
         /\ Len(runs) = Len(baseline)
         /\ \A r \in 1..Len(runs) :
               runs[r].attempt = baseline[r].attempt + (IF r = target THEN 1 ELSE 0)]_vars

\* A report that calls for a new attempt at once, or that blames something
\* else, is given only when the controller's own POST had and will have no
\* effect.
OwnEffect ==
    effects[controller] > 0 \/ \E m \in inflight : m[1] = controller

SubmittedFailsClosed ==
    report \in {"stale", "missing", "denied", "unavailable"} => ~OwnEffect

=============================================================================
