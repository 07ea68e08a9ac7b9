------------------------------ MODULE LegacyGate -------------------------------
(***************************************************************************)
(* How gate v1 asks Codex for a review and waits for it                    *)
(* (packages/action/src/gate.mjs and core.mjs): controlled marker comments *)
(* ask, a sticky state comment remembers what was asked, and a commit      *)
(* status tells the result.  Every run reads them, decides, and writes them *)
(* one request at a time, so a request that fails, or a run that is killed *)
(* between two, leaves them disagreeing for the next run to repair.        *)
(*                                                                         *)
(* Runs of one repository are serial: the workflow that calls v1 has one   *)
(* concurrency group (src/bootstrap.mjs:180).  What Codex says about a     *)
(* head is one word here; how it is read is LegacySnapshot.                *)
(*                                                                         *)
(* Simplifications.  The pull request is never a draft, from a fork or of  *)
(* Dependabot.  State comments of versions older than this one, and a      *)
(* history longer than 20, are left out, and marker comments are not       *)
(* deleted.  A marker and its place among the comments are one number.     *)
(***************************************************************************)
EXTENDS Integers, Sequences, FiniteSets

CONSTANTS
    Heads,            \* commits the pull request can be at
    AckTimeout,       \* marker-ack-timeout-seconds
    AckMax,           \* marker-ack-timeout-max-seconds
    ResultTimeout,    \* marker-timeout-seconds
    MaxWait,          \* max-wait-seconds
    Quiet,            \* bound: the time after which Codex and people leave it alone
    Sound,            \* bound: the time after which nothing fails
    MaxTime,          \* bound: the last moment
    MaxAnswers,       \* bound: changes of what Codex says
    MaxPushes,        \* bound: pushes
    MaxMishaps        \* bound: runs with failed requests, killed runs, deleted comments

ASSUME TimesAssumption ==
    /\ AckTimeout \in 1..AckMax /\ AckMax <= ResultTimeout
    /\ MaxWait \in Nat /\ Quiet <= Sound /\ Sound + MaxWait < MaxTime

VARIABLES
    head,      \* the head of the pull request
    now,       \* the clock
    verdict,   \* what Codex says of each head
    eyes,      \* when its eyes reaction was made, 0 if there is none
    reviewed,  \* when it submitted its last review, 0 if it did not
    markers,   \* the marker comments
    states,    \* the state comments
    status,    \* the commit status of each head
    run,       \* the run
    used       \* how much of the bounds is used up

gateVars == <<head, now, verdict, eyes, reviewed, markers, states, status, run, used>>

-----------------------------------------------------------------------------
(* The state comment.                                                      *)

Words == {"pending", "progress", "clean", "finding", "invalid"}
NoMarker == [id |-> 0, phase |-> "none"]
\* updateStateForStatus.  The time matters for a failure only.
Told(h, word) == [head |-> h, state |-> word, at |-> IF word = "failure" THEN now ELSE 0]

\* createInitialAuditState.
Fresh(h) == [active |-> NoMarker, history |-> <<>>, last |-> Told(h, "pending")]

\* closeActiveMarker.
Closed(st, outcome) ==
    IF st.active = NoMarker THEN st
    ELSE [st EXCEPT !.active = NoMarker,
                    !.history = Append(@, [id |-> st.active.id, outcome |-> outcome])]

\* stateFromRecoveredMarkerComment.
Recovered(h, m) == [Fresh(h) EXCEPT !.history = <<[id |-> m, outcome |-> "state_lost"]>>]

Knows(st, m) == m = st.active.id \/ \E i \in DOMAIN st.history : st.history[i].id = m

\* latestMarkerForCurrentHead: its place in the history, 0 when there is none.
Latest(st, h) ==
    LET of == {i \in DOMAIN st.history : markers[st.history[i].id].head = h}
    IN  IF of = {} THEN 0 ELSE CHOOSE i \in of : \A j \in of : j <= i
LatestOutcome(st, h) == IF Latest(st, h) = 0 THEN "none" ELSE st.history[Latest(st, h)].outcome

Obsolete(st, h) == st.active # NoMarker /\ markers[st.active.id].head # h

\* findLatestTrustedStateComment and findLatestTrustedMarkerComment: 0 when there is none.
LastState ==
    LET kept == {i \in DOMAIN states : ~states[i].deleted}
    IN  IF kept = {} THEN 0 ELSE CHOOSE i \in kept : \A j \in kept : j <= i
LastMarker == Len(markers)
\* hasTrustedGateStateOrMarker: the schedule looks at no other pull request.
Tracked == LastState # 0 \/ LastMarker # 0

-----------------------------------------------------------------------------
(* Deadlines.                                                              *)

\* markerAckTimeoutSecondsForHistory: doubled for every miss since something else.
AckAfter[n \in 0..20] == IF n = 0 THEN AckTimeout
                         ELSE IF 2 * AckAfter[n - 1] > AckMax THEN AckMax ELSE 2 * AckAfter[n - 1]
Misses(st, h) ==
    LET missed(i) == /\ st.history[i].outcome = "missed_ack"
                     /\ markers[st.history[i].id].head = h
    IN  Cardinality({i \in DOMAIN st.history : \A j \in i..Len(st.history) : missed(j)})

NewCycleAfterMiss(st, h) == LatestOutcome(st, h) \in {"none", "passed", "state_lost", "missed_ack"}

\* waitCycleForState: how long a head is waited for is decided once, and goes along
\* with every marker, unless the wait was answered or the state was lost.
NewCycle(st, h) == LatestOutcome(st, h) \in {"none", "passed", "state_lost"}

CycleDeadline(st, h) ==
    IF NewCycle(st, h) THEN now + MaxWait
    ELSE markers[st.history[Latest(st, h)].id].deadline

TimedOutByMarker(st, h) == st.active # NoMarker /\ now >= markers[st.active.id].deadline

\* timeOutCurrentHeadWaitCycleIfNeeded: with or without an active marker.
TimedOut(st, h) ==
    IF st.active # NoMarker THEN now >= markers[st.active.id].deadline
    ELSE ~NewCycle(st, h) /\ now >= CycleDeadline(st, h)

\* recordHistoryOnlyWaitCycleTimeout, and its counterpart with an active marker.
GivenUp(st, h) ==
    LET gone == IF st.active # NoMarker THEN Closed(st, "timed_out")
                ELSE [st EXCEPT !.history =
                         Append(@, [st.history[Latest(st, h)] EXCEPT !.outcome = "timed_out"])]
    IN  [gone EXCEPT !.last = Told(h, "failure")]

-----------------------------------------------------------------------------
(* The run: what it has read, what it would write, and what is left to do. *)

Idle(t) ==
    [todo |-> <<>>, at |-> t, by |-> "none", sha |-> head, word |-> "pending", eyes |-> 0,
     reviewed |-> 0, st |-> Fresh(head), sc |-> 0, needs |-> FALSE, changed |-> FALSE,
     may |-> FALSE, allow |-> FALSE, mute |-> FALSE, blocked |-> FALSE, bad |-> FALSE,
     kept |-> Fresh(head), keptSc |-> 0]

Busy == run.todo # <<>>
At(step) == Busy /\ Head(run.todo) = step
Rest == Tail(run.todo)

\* Nothing left of the run matters when it is over.
Goes(r) == run' = IF r.todo = <<>> THEN Idle(r.at) ELSE r

\* prepareFindingReviewOrchestration swallows what goes wrong in it, and the caller
\* goes on to record the findings with the state from before.
PreparesFindings(r) == \E i \in 2..Len(r.todo) : r.todo[i] = "failure"
Failing == <<"failure", "saveBest">>
Thrown(r) ==
    IF PreparesFindings(r) THEN [r EXCEPT !.st = r.kept, !.todo = Failing]
    ELSE [r EXCEPT !.todo = <<"error">>]
\* It goes back to the comment from before as well.  That is the one the run has
\* until it has saved, and after that only a status is left to fail in there.
StatusFailed(r) == IF PreparesFindings(r) THEN [Thrown(r) EXCEPT !.sc = r.keptSc] ELSE Thrown(r)

-----------------------------------------------------------------------------
(* Reading.                                                                *)

\* reconcileStateWithMarkerComment: the last marker is unknown to a state that has
\* another active one.
Conflict == LastState # 0 /\ LastMarker # 0
            /\ states[LastState].st.active # NoMarker /\ ~Knows(states[LastState].st, LastMarker)

\* ensureState.
Loaded(h) ==
    IF LastState = 0
    THEN IF LastMarker = 0 THEN Fresh(h) ELSE Recovered(h, LastMarker)
    ELSE LET st == states[LastState].st
         IN  IF LastMarker = 0 \/ Knows(st, LastMarker) THEN st
             ELSE [st EXCEPT !.active = [id |-> LastMarker, phase |-> "waiting_ack"]]

\* migrateLegacyFailureState: a failure was recorded without the marker that led to it.
FailureCandidate == LastState # 0 /\ states[LastState].st.active = NoMarker
                    /\ states[LastState].st.history = <<>>
                    /\ states[LastState].st.last.state = "failure"
MarkerLost(st, h) ==
    /\ FailureCandidate /\ st.last.head = h
    /\ st.active = NoMarker \/ markers[st.active.id].head # h
       \/ markers[st.active.id].created <= st.last.at
Unlinked(st, h) ==
    IF MarkerLost(st, h) /\ st.active # NoMarker /\ markers[st.active.id].head = h
    THEN Closed(st, "state_lost") ELSE st

\* recoverOrchestrationPersistenceFence.
Fenced(h) == LastMarker # 0 /\ markers[LastMarker].head = h /\ markers[LastMarker].fence
Unfenced(st, h) ==
    LET lost == IF st.active # NoMarker THEN Closed(st, "state_lost")
                ELSE [st EXCEPT !.history = Append(@, [id |-> LastMarker, outcome |-> "state_lost"])]
    IN  [lost EXCEPT !.last = Told(h, "pending")]

MissingMarkerOutcomes == {"none", "missed_ack", "stalled"}

\* stateNeedsFreshMarkerAfterRecovery, -MissingMarker and -LiveEvidenceLoss.
NeedsMarker(st, h) ==
    /\ st.active = NoMarker
    /\ \/ st.history # <<>> /\ st.history[Len(st.history)].outcome = "state_lost"
       \/ st.last.head = h /\ st.last.state = "pending"
          /\ LatestOutcome(st, h) \in MissingMarkerOutcomes
       \/ st.last.head = h /\ st.last.state = "success"

Changed(st, h) == st.last.head # h \/ Obsolete(st, h)
AllowsMarker(r) == r.by = "open"

\* What processPullRequest has decided before its first marker step.
Admitted(r, save) ==
    LET changed == Changed(r.st, r.sha)
        needs == r.needs \/ NeedsMarker(r.st, r.sha)
        active == r.st.active # NoMarker
    IN  [r EXCEPT
            !.needs = needs, !.changed = changed,
            !.mute = /\ r.word = "progress" /\ ~changed /\ ~active
                     /\ LatestOutcome(r.st, r.sha) = "none",
            !.may = AllowsMarker(r) \/ needs \/ changed,
            !.todo = (IF save THEN <<"saveBest">> ELSE <<>>)
                     \o (IF changed /\ active THEN <<"obsolete">> ELSE <<>>)
                     \o (IF changed THEN <<"wait">> ELSE <<>>)
                     \o <<"fresh", "timeout", "wait", "saveBest", "enter">>]

\* No verdict of Codex on the head yet.
PendingSeen(r, save) ==
    LET st == Unlinked(r.st, r.sha)
        needs == r.needs \/ MarkerLost(r.st, r.sha)
        next == [r EXCEPT !.st = st, !.needs = needs]
    IN  IF Fenced(r.sha)
        THEN [next EXCEPT !.st = Unfenced(st, r.sha), !.needs = TRUE,
                          !.todo = <<"critical", "pending", "admit">>]
        ELSE Admitted(next, save \/ st # r.st)

\* Findings: a head that has changed gets its marker first.
FindingsSeen(r) ==
    LET st == IF Obsolete(r.st, r.sha) THEN Closed(r.st, "obsolete_head") ELSE r.st
        changed == Changed(r.st, r.sha)
        fresh == st.active = NoMarker /\ (changed \/ r.needs)
    IN  IF r.blocked THEN [r EXCEPT !.todo = <<"failure">>]
        ELSE IF fresh
        THEN [r EXCEPT !.st = st, !.kept = st, !.keptSc = r.sc, !.allow = TRUE,
                       !.todo = <<"advance">> \o Failing]
        ELSE [r EXCEPT !.st = st, !.todo = Failing]

\* loadAuditState and the branches on what the snapshot says.
Seen(r) ==
    LET found == [r EXCEPT !.word = verdict[r.sha], !.eyes = eyes, !.reviewed = reviewed,
                           !.st = IF Conflict THEN Fresh(r.sha) ELSE Loaded(r.sha),
                           !.sc = IF Conflict THEN 0 ELSE LastState,
                           !.needs = Conflict \/ LastState = 0, !.blocked = Conflict]
        save == LastState = 0 \/ Loaded(r.sha) # states[LastState].st
    IN  IF r.by = "scan" /\ ~Tracked /\ found.word # "finding" THEN [r EXCEPT !.todo = <<>>]
        ELSE IF Conflict /\ found.word \notin {"finding", "clean"} THEN [r EXCEPT !.todo = <<"error">>]
        ELSE CASE found.word = "finding" -> FindingsSeen(found)
               [] found.word = "invalid" -> [found EXCEPT !.todo = <<"error">>]
               [] found.word = "clean" -> [found EXCEPT !.todo = <<"final">>]
               [] OTHER -> PendingSeen(found, save)

-----------------------------------------------------------------------------
(* advanceEventDrivenMarker and the wait for it.                           *)

\* timeOutCurrentHeadWaitCycleIfNeeded, once it is needed.
GivesUp(r) ==
    LET after == IF PreparesFindings(r) THEN Failing ELSE <<>>
    IN  IF r.st.active = NoMarker /\ LatestOutcome(r.st, r.sha) = "timed_out"
        THEN [r EXCEPT !.todo = <<"timedout">> \o after]
        ELSE [r EXCEPT !.st = GivenUp(r.st, r.sha), !.todo = <<"critical", "timedout">> \o after]

\* hasNewEyesTransition and hasNewReviewTransition.
Acknowledged(r) ==
    LET m == markers[r.st.active.id]
    IN  /\ r.st.active.phase = "waiting_ack"
        /\ \/ r.eyes # 0 /\ r.eyes >= m.created /\ r.eyes # m.eyes
           \/ r.reviewed > m.created

OverdueWithoutBackoff(st) ==
    LET m == markers[st.active.id]
    IN  CASE st.active.phase = "waiting_ack" /\ now >= m.created + AckTimeout -> "missed_ack"
          [] st.active.phase = "waiting_result" /\ now >= m.created + ResultTimeout -> "stalled"
          [] OTHER -> "none"

\* markerTimeoutOutcome, after max_wait.
Overdue(st) ==
    LET m == markers[st.active.id]
    IN  CASE st.active.phase = "waiting_ack" /\ now >= m.created + m.ack -> "missed_ack"
          [] st.active.phase = "waiting_result" /\ now >= m.created + ResultTimeout -> "stalled"
          [] OTHER -> "none"

\* The clean verdicts it also looks for were decided before it was called.
Advanced(r, rest) ==
    LET closed(outcome, todo) == [r EXCEPT !.st = Closed(r.st, outcome), !.allow = ~r.mute,
                                           !.todo = todo \o <<"advance">> \o rest]
    IN  IF r.st.active = NoMarker
        THEN IF TimedOut(r.st, r.sha) THEN GivesUp(r)
             ELSE [r EXCEPT !.todo = (IF r.allow /\ ~r.mute THEN <<"marker">> ELSE <<>>) \o rest]
        ELSE IF Obsolete(r.st, r.sha) THEN closed("obsolete_head", <<"save", "pending">>)
        ELSE IF TimedOut(r.st, r.sha) THEN GivesUp(r)
        ELSE IF Acknowledged(r)
        THEN [r EXCEPT !.st.active.phase = "waiting_result", !.todo = <<"save">> \o rest]
        ELSE IF Overdue(r.st) # "none" THEN closed(Overdue(r.st), <<"save">>)
        ELSE [r EXCEPT !.todo = rest]

-----------------------------------------------------------------------------
(* The world.                                                              *)

world == <<head, verdict, eyes, reviewed>>
kept == <<markers, states, status>>

GateInit ==
    /\ head \in Heads /\ now = 1 /\ eyes = 0 /\ reviewed = 0
    /\ verdict = [h \in Heads |-> "pending"]
    /\ markers = <<>> /\ states = <<>> /\ status = [h \in Heads |-> "none"]
    /\ run = Idle(0) /\ used = [answers |-> 0, pushes |-> 0, faults |-> 0]

Uses(what, bound) == used[what] < bound /\ used' = [used EXCEPT ![what] = @ + 1]

\* Time passes.  Once everybody else has gone quiet there is one run in every unit of
\* it, which is over in it.
Tick ==
    /\ now < MaxTime /\ now' = now + 1
    /\ now >= Quiet => ~Busy /\ run.at = now
    /\ UNCHANGED <<world, kept, run, used>>

\* External: Codex posts what it says, withdraws it, or people resolve it.
Answers ==
    /\ now <= Quiet /\ Uses("answers", MaxAnswers)
    /\ \E w \in Words \ {verdict[head]}, r \in {reviewed, now} :
        verdict' = [verdict EXCEPT ![head] = w] /\ reviewed' = r
    /\ UNCHANGED <<head, now, eyes, kept, run>>

\* External: Codex reacts with eyes, or takes the reaction back.
Reacts ==
    /\ now <= Quiet /\ eyes' \in {0, now} \ {eyes} /\ Uses("answers", MaxAnswers)
    /\ UNCHANGED <<head, now, verdict, reviewed, kept, run>>

\* External: a push, forced perhaps.
Push ==
    /\ now <= Quiet /\ head' \in Heads \ {head} /\ Uses("pushes", MaxPushes)
    /\ UNCHANGED <<now, verdict, eyes, reviewed, kept, run>>

Fault == now <= Sound /\ Uses("faults", MaxMishaps)
\* A request fails: from then on any request of the run may.
MayFail == IF run.bad THEN now <= Sound /\ UNCHANGED used ELSE Fault
GoesBadly(r) == Goes([r EXCEPT !.bad = TRUE])
NothingFails == UNCHANGED used

\* External: the state comment is deleted.
DeleteState ==
    /\ LastState # 0 /\ Fault
    /\ states' = [states EXCEPT ![LastState].deleted = TRUE]
    /\ UNCHANGED <<now, world, markers, status, run>>

\* External: the run is killed.
Crash ==
    /\ Busy /\ Fault /\ Goes([run EXCEPT !.todo = <<>>])
    /\ UNCHANGED <<now, world, kept>>

-----------------------------------------------------------------------------
(* The run, step by step.                                                  *)

\* readTrigger: a pull request event or a dispatch may ask for a review, the schedule
\* and an event of Codex may not.  loadPullRequest tells the head.
Trigger ==
    /\ ~Busy
    /\ \E by \in {"open", "scan", "event"} :
        /\ by = "scan" => Tracked
        /\ by # "scan" => now <= Quiet
        /\ now >= Quiet => run.at # now
        /\ run' = [Idle(now) EXCEPT !.by = by, !.sha = head, !.todo = <<"load">>]
    /\ UNCHANGED <<now, world, kept, used>>

\* A run that fails before it may write a status leaves none.  The schedule's may
\* write one from the start: pending when GitHub does not answer for now.
LoadErrors == {<<>>, <<"error">>} \cup (IF run.by = "scan" THEN {<<"pending">>} ELSE {})
Load ==
    /\ At("load")
    /\ \/ NothingFails /\ Goes(Seen(run))
       \/ MayFail /\ \E end \in LoadErrors : GoesBadly([run EXCEPT !.todo = end])
    /\ UNCHANGED <<now, world, kept>>

\* passGateFromCurrentEvidence up to the status: the head and the evidence again.
Final ==
    /\ At("final")
    /\ LET blocked == run.blocked \/ Conflict
           passed == [Closed(run.st, IF Obsolete(run.st, run.sha) THEN "obsolete_head" ELSE "passed")
                        EXCEPT !.last = Told(run.sha, "success")]
       IN  \/ /\ NothingFails
              /\ Goes(IF head # run.sha THEN Thrown(run)
                      ELSE CASE verdict[head] = "finding" ->
                                  [run EXCEPT !.todo = IF blocked THEN <<"failure">> ELSE Failing]
                             [] verdict[head] = "clean" ->
                                  [run EXCEPT !.st = passed,
                                       !.todo = <<"success">> \o IF blocked THEN <<>> ELSE <<"saveBest">>]
                             [] OTHER -> Thrown(run))
           \/ MayFail /\ \E end \in {"pending", "error"} : GoesBadly([run EXCEPT !.todo = <<end>>])
    /\ UNCHANGED <<now, world, kept>>

\* The steps that ask nothing of GitHub.
Decides(step, next) == At(step) /\ Goes(next) /\ UNCHANGED <<now, world, kept, used>>

Admit == Decides("admit", Admitted(run, FALSE))
CloseObsolete ==
    Decides("obsolete", [run EXCEPT !.st = Closed(run.st, "obsolete_head"), !.todo = <<"save">> \o Rest])
\* shouldCreateFreshHeadMarker.
MarkFresh ==
    Decides("fresh",
        IF run.may /\ ~run.mute /\ run.st.active = NoMarker /\ (run.changed \/ run.needs)
        THEN Advanced([run EXCEPT !.allow = TRUE, !.changed = FALSE, !.needs = FALSE], Rest)
        ELSE [run EXCEPT !.todo = Rest])
WatchDeadline ==
    Decides("timeout", IF TimedOut(run.st, run.sha) THEN GivesUp(run) ELSE [run EXCEPT !.todo = Rest])
\* shouldSkipScheduledScanWithoutMarker.
Enter ==
    LET recovered == /\ run.st.active = NoMarker /\ run.st.history # <<>>
                     /\ run.st.history[Len(run.st.history)].outcome = "state_lost"
        skips == run.by = "scan" /\ run.st.active = NoMarker /\ ~run.changed /\ ~run.needs
    IN  Decides("enter",
            IF skips THEN [run EXCEPT !.todo = <<>>]
            ELSE Advanced([run EXCEPT !.allow = (run.may /\ ~run.mute) \/ recovered], Rest))
Advance == Decides("advance", Advanced(run, Rest))

\* createGateMarker, which is not repeated: an answer that is lost leaves a marker
\* nobody knows of.
PostMarker ==
    /\ At("marker")
    /\ LET marker == [head |-> run.sha, created |-> now, ack |-> AckAfter[Misses(run.st, run.sha)],
                      deadline |-> CycleDeadline(run.st, run.sha), eyes |-> run.eyes,
                      fence |-> FALSE]
           active == [id |-> Len(markers) + 1, phase |-> "waiting_ack"]
       IN  \/ /\ NothingFails /\ markers' = Append(markers, marker)
              /\ Goes([run EXCEPT !.st.active = active, !.todo = <<"save", "pending">> \o Rest])
           \/ MayFail /\ markers' \in {markers, Append(markers, marker)} /\ GoesBadly(Thrown(run))
    /\ UNCHANGED <<now, world, states, status>>

SaveFailedUnnoticed(step) ==
    IF step \in {"save", "saveBest"} THEN [run EXCEPT !.todo = Rest]
    ELSE [run EXCEPT !.todo = (IF run.sc # 0 /\ step = "critical" THEN <<"replace">> ELSE <<"fence">>) \o Rest]

\* What is left to do when saveState fails: it depends on who called it.
SaveFailed(step) ==
    CASE step = "save" -> Thrown(run)
      [] step = "saveBest" -> [run EXCEPT !.todo = Rest]
      [] step = "critical" /\ run.sc # 0 -> [run EXCEPT !.todo = <<"replace">> \o Rest]
      [] OTHER -> [run EXCEPT !.todo = <<"fence">> \o Rest]

\* saveState and saveOrchestrationCriticalState: a PATCH of the comment the run has
\* read, or the POST of a new one.
Save ==
    /\ \E step \in {"save", "saveBest", "critical", "replace"} :
        /\ At(step)
        /\ LET new == run.sc = 0 \/ step = "replace"
               comment == [st |-> run.st, deleted |-> FALSE]
               written == IF new THEN Append(states, comment) ELSE [states EXCEPT ![run.sc] = comment]
               sc == IF new THEN Len(states) + 1 ELSE run.sc
               gone == IF new THEN FALSE ELSE states[run.sc].deleted
           IN  \/ /\ ~gone
                  /\ NothingFails /\ states' = written
                  /\ Goes([run EXCEPT !.sc = sc, !.todo = Rest])
               \/ /\ gone
                  /\ NothingFails /\ UNCHANGED states /\ Goes(SaveFailed(step))
               \/ /\ MayFail /\ states' \in {states} \cup IF gone THEN {} ELSE {written}
                  /\ GoesBadly(SaveFailed(step))
    /\ UNCHANGED <<now, world, markers, status>>

\* publishOrchestrationFence: the marker itself remembers that the state was lost.
PublishFence ==
    /\ At("fence")
    /\ LET latest == Latest(run.st, run.sha)
           id == IF run.st.active # NoMarker /\ ~Obsolete(run.st, run.sha) THEN run.st.active.id
                 ELSE IF latest # 0 THEN run.st.history[latest].id ELSE 0
           fenced == IF id = 0 THEN markers ELSE [markers EXCEPT ![id].fence = TRUE]
       IN  \/ NothingFails /\ markers' = fenced /\ Goes(Thrown(run))
           \/ MayFail /\ markers' \in {markers, fenced} /\ GoesBadly(Thrown(run))
    /\ UNCHANGED <<now, world, states, status>>

\* setCommitStatus: repeated by the client, save for success.
SetStatus ==
    /\ \E step \in {"pending", "wait", "failure", "timedout", "success", "error"} :
        /\ At(step)
        /\ LET word == IF step = "wait" THEN "pending" ELSE step
               set == [status EXCEPT ![run.sha] = word]
               closed == [Closed(run.st, "failed_findings") EXCEPT !.last = Told(run.sha, "failure")]
               st == CASE step = "wait" -> [run.st EXCEPT !.last = Told(run.sha, "pending")]
                       [] step = "failure" /\ Rest # <<>> -> closed
                       [] OTHER -> run.st
           IN  \/ NothingFails /\ status' = set /\ Goes([run EXCEPT !.st = st, !.todo = Rest])
               \/ /\ MayFail /\ status' \in {status, set}
                  /\ GoesBadly(IF step = "error" THEN [run EXCEPT !.todo = <<>>] ELSE StatusFailed(run))
    /\ UNCHANGED <<now, world, markers, states>>

RunSteps ==
    \/ Load \/ Final \/ Admit \/ CloseObsolete \/ MarkFresh \/ WatchDeadline \/ Enter \/ Advance
    \/ PostMarker \/ Save \/ PublishFence \/ SetStatus

GateNext ==
    \/ Tick \/ Answers \/ Reacts \/ Push \/ DeleteState \/ Crash
    \/ Trigger \/ RunSteps

GateSpec == GateInit /\ [][GateNext]_gateVars

-----------------------------------------------------------------------------
(* Properties.                                                             *)

MarkersOf(h) == {i \in DOMAIN markers : markers[i].head = h}

\* How long a head is waited for is decided once: through missed and stalled markers,
\* pushes away and back, and failures, it is decided anew only after an answer, and
\* after each write or comment that was lost at most once.
WaitIsNotRenewed ==
    \A h \in Heads :
        Cardinality({markers[i].deadline : i \in MarkersOf(h)}) <= 1 + used.answers + used.faults

\* Codex is asked again about a head only when the last request is overdue: earlier
\* only if an answer, a push or a lost write came between, one request for each.
AsksAgainWhenOverdue ==
    \A h \in Heads :
        LET early == {j \in MarkersOf(h) :
                         \E i \in MarkersOf(h) :
                             /\ i < j /\ ~\E k \in MarkersOf(h) : i < k /\ k < j
                             /\ markers[j].created < markers[i].created + markers[i].ack}
        IN  Cardinality(early) <= used.answers + used.pushes + used.faults

\* A marker is posted only when no other one of its head is tracked: whatever fails
\* or is killed, the newest state comment never holds a request of a head while a
\* later one of that head is unknown to it.  An older comment may, which it replaced
\* and which counts again when the newest one is deleted.
OneRequestPerHead ==
    LastState = Len(states) /\ Conflict =>
        markers[LastMarker].head # markers[states[LastState].st.active.id].head

\* A head does not stay pending for ever: whatever failed before, once Codex and
\* people are quiet, nothing fails any more and MaxWait is over it is decided or
\* given up, unless Codex says it is still at it, or nothing was ever written that
\* tells the schedule of it.
PendingEnds ==
    now > Sound + MaxWait /\ ~Busy /\ run.at = now /\ Tracked /\ verdict[head] # "progress"
        => status[head] # "pending"

=============================================================================
