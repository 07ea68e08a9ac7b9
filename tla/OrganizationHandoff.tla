-------------------------- MODULE OrganizationHandoff --------------------------
(***************************************************************************)
(* The handoff of an organization from the legacy gate to v2:              *)
(* scripts/organization-review-gate-handoff.mjs.                           *)
(*                                                                         *)
(* An operator runs one command at a time: stage creates the v2 ruleset    *)
(* disabled, quiesce-scheduler stops the one workflow that starts legacy   *)
(* writers, activate turns the v2 ruleset on, restore-scheduler undoes the *)
(* quiescence, apply-repository-cleanup takes the legacy check out of      *)
(* every repository surface, and verify takes it out of the organization.  *)
(* A command reads everything in two equal rounds of separate requests,    *)
(* applies only the plan its preview printed, and reads again before each  *)
(* write.  GitHub has no conditional write: administrators may change any  *)
(* ruleset, a write may take effect although its answer is lost, at once   *)
(* or later, and the command may be killed.                                *)
(*                                                                         *)
(* Simplifications.  The canaries, workflow files and other evidence that  *)
(* the commands only compare are left out, and so are the modes that only  *)
(* print.  What administrators break they repair between commands.  A      *)
(* repository replaced under its name looks like the old one to all but    *)
(* the reads of its identity.  The rules in force are read of all          *)
(* repositories in one request.                                            *)
(***************************************************************************)
EXTENDS Naturals

CONSTANTS
    Surfaces,     \* repository rulesets and classic protections to clean up
    MaxChurn      \* bound: changes by others, lost answers and crashes

ASSUME SurfacesAssumption ==
    Surfaces \cap {"legacy", "v2", "scheduler", "runs", "control", "rules", "create", "disable", "enable",
                   "activate", "cutover", "none"} = {}
ASSUME ChurnAssumption == MaxChurn \in Nat

VARIABLES
    \* GitHub.
    live,         \* the state of each ruleset, surface and the scheduler
    running,      \* is a scheduler run in progress
    late,         \* writes whose answer was lost and that may yet take effect
    churn,        \* changes by others, lost answers and crashes left
    \* The operator.
    bound,        \* does the manifest name the v2 ruleset
    approved,     \* the plan the last preview printed
    \* The command.
    mode, apply,
    pc,
    snap,         \* what the first round found
    todo,         \* what the present round has still to read
    again,        \* what a later round found
    batch,        \* the surfaces it has still to clean up
    pending,      \* the write it is at
    report,
    \* History.
    changed,      \* where the command was when others last changed a part
    complete,     \* was the handoff complete when the last first round had ended
    landed,       \* has a late write taken effect during the command
    drifted       \* have others ever changed anything

gitHub == <<live, running, late>>
operator == <<bound, approved>>
command == <<mode, apply>>
round == <<snap, todo, again>>
work == <<batch, pending>>
history == <<changed, complete, landed, drifted>>
vars == <<gitHub, churn, operator, command, pc, round, work, report, history>>

-----------------------------------------------------------------------------

Parts == Surfaces \cup {"legacy", "v2", "scheduler"}
Writes == Surfaces \cup {"create", "disable", "enable", "activate", "cutover"}
Modes == {"stage", "recover", "quiesce", "restore", "activate", "cleanup", "verify"}
FirstRounds == {"first", "back1"}
Rounds == FirstRounds \cup {"second", "revalidate", "back2"}
Cleaning == {"identity1", "surface1", "surface2", "identity2", "checkIdentity", "checkSurface"}
\* Each part is what the manifest names before and after, or neither.
LegacyStates == {"before", "after", "drifted"}
V2States == {"absent", "disabled", "active", "drifted"}
SurfaceStates == {"before", "after", "drifted", "foreign"}

PartStates(p) ==
    CASE p = "legacy" -> LegacyStates
      [] p = "v2" -> V2States
      [] p = "scheduler" -> {"active", "disabled"}
      [] OTHER -> SurfaceStates

\* Activation proves the drain of the scheduler before it reads anything else,
\* "runs" and "control" being the rest of that proof.
PartsRead ==
    CASE mode \in {"stage", "recover"} -> {"legacy", "v2"}
      [] mode \in {"quiesce", "restore"} -> {"scheduler"}
      [] mode = "activate" -> Parts \cup {"rules", "runs", "control"}
      [] OTHER -> Parts \cup {"rules"}

Earlier(p) ==
    IF mode # "activate" \/ p = "scheduler" THEN {}
    ELSE IF p = "runs" THEN {"scheduler"}
    ELSE IF p = "control" THEN {"runs"}
    ELSE {"control"}

\* The sources of the status rules in force on the default branches.
InForce ==
    {p \in Surfaces \cup {"legacy"} : live[p] = "before"} \cup {p \in {"v2"} : live[p] = "active"}

Drained == ~running

Found(p) ==
    CASE p = "control" -> live["scheduler"]
      [] p = "runs" -> Drained
      [] p = "rules" -> InForce
      [] OTHER -> live[p]

\* What the loaders do not throw at.
AuthorizedV2 ==
    IF bound \/ pc \in {"back1", "back2"} THEN {"disabled", "active"}
    ELSE IF mode = "recover" THEN {"absent", "disabled", "active"}
    ELSE {"absent"}

AuthorizedScheduler ==
    CASE mode = "activate" -> {"disabled"}
      [] mode = "restore" -> {"active", "disabled"}
      [] OTHER -> {"active"}

Authorized(p) ==
    CASE p \in {"runs", "rules"} -> {Found(p)}
      [] p = "v2" -> AuthorizedV2
      [] p \in {"scheduler", "control"} -> AuthorizedScheduler
      [] OTHER -> {"before", "after"}

\* Do the rules in force agree with the rulesets and surfaces read beside
\* them: the closure of the legacy check and the coverage by each gate.
LegacyClosed(s) == \A p \in Surfaces : s[p] = "after" => p \notin s["rules"]
GatesCover(s) ==
    /\ s["legacy"] = "before" <=> "legacy" \in s["rules"]
    /\ s["v2"] = "active" => "v2" \in s["rules"]
Covered(s) == "rules" \in DOMAIN s => LegacyClosed(s) /\ GatesCover(s)

All(s, value) == \A p \in Surfaces : s[p] = value

PreconditionWithoutCoverage(s) ==
    CASE mode = "stage" -> s["legacy"] = "before"
      [] mode = "recover" -> s["legacy"] = "before" /\ s["v2"] = "disabled"
      [] mode \in {"activate", "cleanup"} -> s["legacy"] = "before"
      [] mode = "verify" -> s["v2"] = "active"
      [] OTHER -> TRUE

\* assertState, assertCoveragePhase and assertCleanupStates of each mode.
Precondition(s) ==
    CASE mode = "stage" -> s["legacy"] = "before"
      [] mode = "recover" -> s["legacy"] = "before" /\ s["v2"] = "disabled"
      [] mode = "activate" -> s["legacy"] = "before" /\ All(s, "before")
      [] mode = "cleanup" -> s["legacy"] = "before" /\ s["v2"] = "active"
      [] mode = "verify" -> s["v2"] = "active" /\ All(s, "after")
      [] OTHER -> TRUE

\* The same of the readback.
Postcondition(s) ==
    CASE mode = "stage" -> s["legacy"] = "before" /\ s["v2"] = "disabled"
      [] mode = "activate" -> s["legacy"] = "before" /\ s["v2"] = "active" /\ All(s, "before")
      [] mode = "cleanup" -> s["legacy"] = "before" /\ s["v2"] = "active" /\ All(s, "after")
      [] OTHER -> s["legacy"] = "after" /\ s["v2"] = "active" /\ All(s, "after")

\* The writes a plan of mode m names for a snapshot.
Planned(m, s) ==
    CASE m = "stage" -> {w \in {"create"} : s["v2"] = "absent"}
      [] m = "quiesce" -> {"disable"}
      [] m = "restore" -> {w \in {"enable"} : s["scheduler"] = "disabled"}
      [] m = "activate" -> {w \in {"activate"} : s["v2"] = "disabled"}
      [] m = "cleanup" -> {p \in Surfaces : s[p] = "before"}
      [] m = "verify" -> {w \in {"cutover"} : s["legacy"] = "before"}
      [] OTHER -> {}

Plan == [mode |-> mode, bound |-> bound, snap |-> snap]
NoSnap == [p \in {} |-> "none"]
NoPlan == [mode |-> "none", bound |-> FALSE, snap |-> NoSnap]

Init ==
    /\ live = [p \in Parts |-> CASE p = "v2" -> "absent" [] p = "scheduler" -> "active"
                                 [] OTHER -> "before"]
    /\ running \in BOOLEAN
    /\ late = {} /\ churn = MaxChurn
    /\ bound = FALSE /\ approved = NoPlan
    /\ mode = "stage" /\ apply = FALSE
    /\ pc = "idle"
    /\ snap = NoSnap /\ todo = {} /\ again = NoSnap
    /\ batch = {} /\ pending = "none"
    /\ report = "none"
    /\ changed = [p \in Parts |-> "idle"]
    /\ complete = FALSE
    /\ landed = FALSE /\ drifted = FALSE

-----------------------------------------------------------------------------
(* GitHub and its administrators.                                          *)

Churn == churn > 0 /\ churn' = churn - 1

\* What a write does when GitHub handles it.
Effect(w) ==
    CASE w = "create" -> [live EXCEPT !["v2"] = IF @ = "absent" THEN "disabled" ELSE "drifted"]
      [] w = "disable" -> [live EXCEPT !["scheduler"] = "disabled"]
      [] w = "enable" -> [live EXCEPT !["scheduler"] = "active"]
      [] w = "activate" -> [live EXCEPT !["v2"] = IF @ = "absent" THEN @ ELSE "active"]
      [] w = "cutover" -> [live EXCEPT !["legacy"] = "after"]
      [] OTHER -> [live EXCEPT ![w] = "after"]

\* From the last full round to the answer.
Late == {"revalidate", "finalLegacy", "finalScheduler", "write", "answer", "answered"} \cup Cleaning

OthersChange(l) ==
    /\ live' = l
    /\ changed' = [p \in Parts |-> IF l[p] # live[p] /\ pc \in Late THEN pc ELSE changed[p]]
    /\ UNCHANGED <<running, operator, command, pc, round, work, report, complete>>

DriftStates(p) ==
    CASE p = "legacy" -> {"drifted"}
      [] p = "v2" -> {"absent", "disabled", "drifted"}
      [] p = "scheduler" -> {"active", "disabled"}
      [] OTHER -> {"drifted", "foreign"}

\* An administrator changes a ruleset, the scheduler or a repository.
Drift(p) ==
    /\ Churn
    /\ \E value \in DriftStates(p) \ {live[p]} : OthersChange([live EXCEPT ![p] = value])
    /\ drifted' = TRUE
    /\ UNCHANGED <<late, landed>>

\* An administrator puts a part back, between commands.
Repair(p) ==
    /\ pc = "idle" /\ live[p] \in {"drifted", "foreign"}
    /\ Churn
    /\ \E value \in PartStates(p) \ {"drifted", "foreign"} :
          OthersChange([live EXCEPT ![p] = value])
    /\ UNCHANGED <<late, landed, drifted>>

LateEffect(w) ==
    /\ w \in late
    /\ OthersChange(Effect(w))
    /\ late' = late \ {w}
    /\ landed' = TRUE
    /\ UNCHANGED <<churn, drifted>>

LateLoss(w) ==
    /\ w \in late
    /\ late' = late \ {w}
    /\ UNCHANGED <<live, running, churn, operator, command, pc, round, work, report, history>>

\* The scheduler starts a run while it is active; a run ends.
SchedulerRuns ==
    /\ running \/ live["scheduler"] = "active"
    /\ running' = ~running
    /\ UNCHANGED <<live, late, churn, operator, command, pc, round, work, report, history>>

Others ==
    \/ \E p \in Parts : Drift(p) \/ Repair(p)
    \/ \E w \in Writes : LateEffect(w) \/ LateLoss(w)
    \/ SchedulerRuns

-----------------------------------------------------------------------------
(* A command up to its plan.                                               *)

Quiet == UNCHANGED <<gitHub, churn, operator, command, history>>

Goto(step) == pc' = step /\ UNCHANGED <<round, work, report>>

StartRound(step) ==
    /\ pc' = step
    /\ todo' = PartsRead /\ again' = NoSnap
    /\ snap' = IF step \in FirstRounds THEN NoSnap ELSE snap

End(outcome) ==
    /\ pc' = "idle"
    /\ report' = outcome
    /\ snap' = NoSnap /\ todo' = {} /\ again' = NoSnap
    /\ batch' = {} /\ pending' = "none"

\* A command ends with an error, but a stage that has posted goes on to look
\* for the ruleset it may have created.
Fail ==
    IF mode = "stage" /\ pc \in {"answer", "answered", "back1", "back2"}
      THEN /\ mode' = "recover" /\ apply' = FALSE
           /\ pc' = "first"
           /\ todo' = {"legacy", "v2"} /\ again' = NoSnap /\ snap' = NoSnap
           /\ batch' = {} /\ pending' = "none"
           /\ UNCHANGED report
      ELSE End("error") /\ UNCHANGED command

\* The operator previews a mode, or applies what the last preview printed, and
\* does not create a ruleset again while the first may yet appear.
Invoke(m, a) ==
    /\ pc = "idle"
    /\ a => approved.mode = m /\ m # "recover"
    /\ m \in {"activate", "cleanup", "verify"} => bound
    /\ m \in {"recover"} => ~bound
    /\ m = "stage" => "create" \notin late
    /\ mode' = m /\ apply' = a
    /\ approved' = IF a THEN approved ELSE NoPlan
    /\ pc' = "preflight"
    /\ report' = "none"
    /\ changed' = [p \in Parts |-> "idle"]
    /\ landed' = FALSE
    /\ UNCHANGED <<gitHub, churn, bound, round, work, complete, drifted>>

\* activate refuses a scheduler that is not stopped before anything else.
Preflight ==
    /\ pc = "preflight"
    /\ IF mode = "activate" /\ live["scheduler"] # "disabled"
         THEN End("error")
         ELSE StartRound("first") /\ UNCHANGED <<work, report>>
    /\ Quiet

DiffersInCoverage == \E p \in Surfaces \cap DOMAIN snap : again[p] # snap[p]

\* Has a later round found something else than the first.
Differs == again # snap

\* What the requests of a round have found, and one more.
With(s, p) == [q \in DOMAIN s \cup {p} |-> IF q = p THEN Found(p) ELSE s[q]]

\* One request of a round.  The drain waits for the last scheduler run.
Read(p) ==
    /\ pc \in Rounds
    /\ p \in todo /\ Earlier(p) \cap todo = {}
    /\ p = "runs" => Drained
    /\ IF Found(p) \in Authorized(p)
         THEN /\ todo' = todo \ {p}
              /\ IF pc \in FirstRounds
                   THEN snap' = With(snap, p) /\ UNCHANGED again
                   ELSE again' = With(again, p) /\ UNCHANGED snap
              /\ UNCHANGED <<command, pc, work, report>>
         ELSE Fail
    /\ UNCHANGED <<gitHub, churn, operator, history>>

Latest == IF pc \in FirstRounds THEN snap ELSE again
RoundEnds == pc \in Rounds /\ todo = {} /\ Covered(Latest)

\* A round whose own reads contradict each other is an error, never retried.
EndUncovered ==
    /\ pc \in Rounds /\ todo = {} /\ ~Covered(Latest)
    /\ End("error")
    /\ Quiet

Complete == live["legacy"] = "after" /\ live["v2"] = "active" /\ All(live, "after")

\* The sleep between the two rounds.
EndFirst ==
    /\ RoundEnds /\ pc \in FirstRounds
    /\ StartRound(IF pc = "first" THEN "second" ELSE "back2")
    /\ complete' = Complete
    /\ UNCHANGED <<gitHub, churn, operator, command, work, report, changed, landed, drifted>>

\* Two rounds that differ are done again.
EndUnstable ==
    /\ RoundEnds /\ pc \in {"second", "back2"} /\ Differs
    /\ StartRound(IF pc = "second" THEN "first" ELSE "back1")
    /\ Quiet /\ UNCHANGED <<work, report>>

\* assertExpectedPlan: the plan is the one that was previewed.
Agreed == approved = Plan

Proceeds == Precondition(snap) /\ (apply => Agreed)
Finding ==
    CASE mode = "recover" -> "recovered"
      [] Planned(mode, snap) # {} -> "preview"
      [] mode = "verify" /\ Planned(mode, snap) = {} -> "final-verified"
      [] OTHER -> "verified"

EndSecond ==
    /\ RoundEnds /\ pc = "second" /\ ~Differs
    /\ \/ /\ ~Proceeds
          /\ End("error")
          /\ UNCHANGED operator
       \/ /\ Proceeds
          /\ ~apply \/ Planned(mode, snap) = {}
          /\ End(Finding)
          /\ approved' = IF apply \/ mode = "recover" THEN approved ELSE Plan
          /\ bound' = (bound \/ mode = "recover")
       \/ /\ Proceeds
          /\ apply /\ Planned(mode, snap) # {}
          /\ StartRound("revalidate")
          /\ UNCHANGED <<operator, work, report>>
    /\ UNCHANGED <<gitHub, churn, command, history>>

-----------------------------------------------------------------------------
(* The writes.                                                             *)

RevalidateNothing ==
    /\ RoundEnds /\ pc = "revalidate"
    /\ IF mode = "cleanup"
         THEN pc' = "identity1" /\ batch' = Planned(mode, snap) /\ UNCHANGED pending
         ELSE /\ pc' = IF mode = "verify" THEN "finalLegacy" ELSE "write"
              /\ pending' \in Planned(mode, snap) /\ UNCHANGED batch
    /\ Quiet /\ UNCHANGED <<round, report>>

\* revalidateUnchangedBeforeMutation.
Revalidate ==
    /\ RoundEnds /\ pc = "revalidate"
    /\ IF Differs THEN End("error")
       ELSE IF mode = "cleanup"
         THEN pc' = "identity1" /\ batch' = Planned(mode, snap) /\ UNCHANGED <<pending, round, report>>
         ELSE /\ pc' = IF mode = "verify" THEN "finalLegacy" ELSE "write"
              /\ pending' \in Planned(mode, snap) /\ UNCHANGED <<batch, round, report>>
    /\ Quiet

\* The reads next to the cutover.
FinalLegacy ==
    /\ pc = "finalLegacy"
    /\ IF live["legacy"] = snap["legacy"] THEN Goto("finalScheduler") ELSE End("error")
    /\ Quiet

FinalScheduler ==
    /\ pc = "finalScheduler"
    /\ IF live["scheduler"] = "active" THEN Goto("write") ELSE End("error")
    /\ Quiet

\* executeRepositoryCleanupRecord: identity and surface, then the surface
\* again and the identity again, next to the write.
LooksLike(s) == IF live[s] = "foreign" THEN "before" ELSE live[s]

NextSurface ==
    /\ pc' = "identity1" /\ pending' = "none" /\ batch' = batch \ {pending}
    /\ UNCHANGED <<round, report>>

ReadIdentity(s) ==
    /\ pc = "identity1" /\ s \in batch
    /\ IF live[s] = "foreign" THEN End("error")
       ELSE pc' = "surface1" /\ pending' = s /\ UNCHANGED <<round, batch, report>>
    /\ Quiet

ReadSurface ==
    /\ pc \in {"surface1", "surface2"}
    /\ CASE LooksLike(pending) = "drifted" -> End("error")
         [] LooksLike(pending) = "after" -> NextSurface
         [] OTHER -> Goto(IF pc = "surface1" THEN "surface2" ELSE "identity2")
    /\ Quiet

RereadIdentity ==
    /\ pc = "identity2"
    /\ IF live[pending] = "foreign" THEN End("error") ELSE Goto("write")
    /\ Quiet

EndCleaning ==
    /\ pc = "identity1" /\ batch = {}
    /\ StartRound("back1")
    /\ Quiet /\ UNCHANGED <<work, report>>

Send == pc = "write" /\ Goto("answer") /\ Quiet

\* GitHub handles the write while the command waits.
Handle ==
    /\ pc = "answer"
    /\ live' = Effect(pending)
    /\ Goto("answered")
    /\ UNCHANGED <<running, late, churn, operator, command, history>>

\* What follows an answer, and what follows a lost one for a write that is
\* reconciled rather than given up.
AfterAnswer ==
    CASE pending \in Surfaces -> Goto("checkIdentity")
      [] pending \in {"disable", "enable"} -> Goto("reread")
      [] OTHER -> StartRound("back1") /\ UNCHANGED <<work, report>>

Answered == pc = "answered" /\ AfterAnswer /\ Quiet

AnswerLost ==
    /\ pc \in {"answer", "answered"}
    /\ Churn
    /\ late' = IF pc = "answer" THEN late \cup {pending} ELSE late
    /\ CASE pending \in Surfaces -> Goto("checkIdentity") /\ UNCHANGED command
         [] pending \in {"disable", "enable"} -> Goto("recheck") /\ UNCHANGED command
         [] OTHER -> Fail
    /\ UNCHANGED <<live, running, operator, history>>

\* The surface is read back, or reconciled after an error.
CheckIdentity ==
    /\ pc = "checkIdentity"
    /\ IF live[pending] = "foreign" THEN End("error") ELSE Goto("checkSurface")
    /\ Quiet

CheckSurface ==
    /\ pc = "checkSurface"
    /\ IF LooksLike(pending) = "after" THEN NextSurface ELSE End("error")
    /\ Quiet

\* The scheduler is read back, and once more when that fails.
Reread ==
    /\ pc \in {"reread", "recheck"}
    /\ IF live["scheduler"] = (IF pending = "disable" THEN "disabled" ELSE "active")
         THEN IF pending = "disable" THEN Goto("drain") ELSE End("applied")
         ELSE IF pc = "reread" THEN Goto("recheck") ELSE End("error")
    /\ Quiet

Drain ==
    /\ pc = "drain"
    /\ IF live["scheduler"] # "disabled" THEN End("error") ELSE Drained /\ Goto("control")
    /\ Quiet

Control ==
    /\ pc = "control"
    /\ End(IF live["scheduler"] = "disabled" THEN "applied" ELSE "error")
    /\ Quiet

\* The stable readback.
EndBack ==
    /\ RoundEnds /\ pc = "back2" /\ ~Differs
    /\ IF Postcondition(snap)
         THEN End("applied") /\ bound' = TRUE /\ UNCHANGED <<approved, command>>
         ELSE Fail /\ UNCHANGED operator
    /\ UNCHANGED <<gitHub, churn, history>>

\* A read fails for good, or a deadline passes.
Fault ==
    /\ pc \notin {"idle", "write", "answer", "answered"}
    /\ Churn
    /\ IF pc = "reread" THEN Goto("recheck") /\ UNCHANGED command ELSE Fail
    /\ UNCHANGED <<gitHub, operator, history>>

\* The command is killed.
Crash ==
    /\ pc # "idle"
    /\ Churn
    /\ late' = IF pc = "answer" THEN late \cup {pending} ELSE late
    /\ End("none")
    /\ UNCHANGED <<live, running, operator, command, history>>

Command ==
    \/ \E m \in Modes, a \in BOOLEAN : Invoke(m, a)
    \/ Preflight \/ EndUncovered \/ EndFirst \/ EndUnstable \/ EndSecond
    \/ \E p \in PartsRead : Read(p)
    \/ Revalidate \/ FinalLegacy \/ FinalScheduler
    \/ \E s \in Surfaces : ReadIdentity(s)
    \/ ReadSurface \/ RereadIdentity \/ EndCleaning
    \/ Send \/ Handle \/ Answered \/ AnswerLost
    \/ CheckIdentity \/ CheckSurface \/ Reread \/ Drain \/ Control \/ EndBack
    \/ Fault \/ Crash

Next == Others \/ Command

Spec == Init /\ [][Next]_vars

-----------------------------------------------------------------------------

\* However commands are ordered, repeated, killed or overtaken by their own
\* late writes, as long as nobody else changes anything no repository and not
\* the organization is without a gate: the legacy check goes only where v2 is
\* active, and last of all from the organization.
NeverUnenforced ==
    ~drifted =>
        /\ \A s \in Surfaces : live[s] = "after" => live["v2"] = "active"
        /\ live["legacy"] = "after" => live["v2"] = "active" /\ All(live, "after")

\* The state each write is meant for.
Intended(w, p) ==
    CASE p = "legacy" -> live[p] = "before" \/ w \in {"disable", "enable"}
      [] p = "v2" -> CASE w = "create" -> live[p] = "absent"
                       [] w = "activate" -> live[p] = "disabled"
                       [] w \in {"disable", "enable"} -> TRUE
                       [] OTHER -> live[p] = "active"
      [] p = "scheduler" -> CASE w = "activate" -> live[p] = "disabled" /\ ~running
                              [] w = "enable" -> live[p] = "disabled"
                              [] w = "create" -> TRUE
                              [] OTHER -> live[p] = "active"
      [] OTHER -> CASE w = "activate" -> live[p] = "before"
                    [] w = "cutover" -> live[p] = "after"
                    [] w = p -> live[p] = "before"
                    [] w \in Surfaces \ {p} -> live[p] \in {"before", "after"}
                    [] OTHER -> TRUE

\* The time between the last read of a part and the write.
Gap(w, p) ==
    CASE w = "cutover" /\ p = "legacy" -> {"finalScheduler", "write", "answer"}
      [] w = "cutover" /\ p = "scheduler" -> {"write", "answer"}
      [] w = p -> IF live[p] = "foreign" THEN {"write", "answer"}
                  ELSE {"identity2", "write", "answer"}
      [] OTHER -> {"revalidate", "finalLegacy", "finalScheduler", "write", "answer", "answered"}
                  \cup Cleaning

\* A write that takes effect while its command waits for it finds everything
\* as the plan says, unless somebody changed it in the unavoidable gap after
\* the last read: whatever changed before stops the write.
WritesFindWhatWasPlanned ==
    [][pc = "answer" /\ pc' = "answered" =>
         \A p \in Parts : Intended(pending, p) \/ changed[p] \in Gap(pending, p)]_vars

\* The final receipt describes one instant of GitHub in which the handoff was
\* complete, not a mixture, unless a late write changed something meanwhile.
FinalReceiptIsReal ==
    report = "final-verified" /\ ~landed => complete

=============================================================================
