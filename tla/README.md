# Verification of the Codex review gate

Codex Review Gate is a GitHub Action (v2 in `packages/action/src/v2`, v1 frozen
beside it) that turns the answers of an external reviewer, Codex, into a
required check of a pull request, together with the tools that install it in a
repository, hand a whole organisation over to it and release it. This directory
holds TLA+ models of the parts whose correctness is a matter of order, failure
and time, TLC runs of small instances of them, and proofs for all instances.

Nothing here models Codex or GitHub beyond what the code relies on: both appear
as the environment, which may do at any moment what they are allowed to do.

## The system

| component | state it keeps | operations | talks to |
| --- | --- | --- | --- |
| verifier run (`gate-runtime.mjs` `runV2Verifier`, `runV2Reconcile`) | previous clean snapshot, attempt counter, deadline, latches of everything seen (base epochs, comments, edits, reviews) | load a snapshot (two loads of three carriers between two reads of the pull request), compare, sleep, restart, publish | GitHub REST and GraphQL; the exit code is the required check |
| verdict (`reduceV2Evidence` and the selectors) | none, a function of a snapshot | select direct cleans, requests, boundaries, lineage, recoveries; decide success, failure or pending | called by the verifier run |
| begin-review (`ensureV2ControllerReviewRequest`) | the marker it posted or adopted | list, adopt, POST, reread after a lost answer | GitHub comments; controller workflow |
| verifier rerun (`rerunCurrentV2Verifier`) | baseline of runs, polls | two inventories, POST rerun, poll run, job and CheckRun, final inventory | GitHub Actions; controller workflow |
| pending-review latch (`exactRefetchV2MissingPendingReviews`) | fingerprints of drafts of reviews | admit submission and discard of a draft | inside the snapshot load |
| request budget and client (`V2SnapshotBudget`, `V2GitHubClient`) | deadline, counts of requests and bytes | request, retry, paginate | every read |
| completion report, sticky comment | none | derive guidance; write one comment, best effort | after the verdict |
| v1 gate, snapshot (`packages/action/src/gate.mjs` `loadSnapshot`, `passGateFromCurrentEvidence`; `core.mjs`) | none | read four channels side by side, reduce, read everything again before success | GitHub; the commit status |
| v1 gate, orchestration (`gate.mjs` `advanceEventDrivenMarker`, `prepareFindingReviewOrchestration`, ...) | a sticky state comment, marker comments with a fence, the commit status | ask Codex, wait, ask again, give up, repair what an earlier run left | GitHub; one run at a time |
| organisation handoff (`scripts/organization-review-gate-handoff.mjs`) | a manifest of receipts; the organisation's rulesets and repository policies | stage, recover, quiesce and restore the scheduler, activate, clean up, verify | GitHub rulesets, workflows |
| bootstrap, in a worktree (`scripts/bootstrap-codex-review-gate.mjs --prepare-worktree`) | files of a consumer repository, quarantine directory | install, upgrade, remove, restore | file system |
| bootstrap, of a repository (`--repo`, with the planners in `src/bootstrap.mjs`) | rulesets, the owner's approvals | stage, activate, derive the cleanup plan, clean up, verify, prove | GitHub |
| release publication (`scripts/release-action-subtree.sh`), provenance (`generate-action-release-provenance.mjs`) | target master, tag, Release with its assets, alias; nothing between runs | admit, publish step by step, adopt what an earlier run left, be superseded | git remote, GitHub Releases |
| workflow scanners (`src/workflow-gate-signals.mjs`, `src/workflow-yaml.mjs`) | none | find status writers in workflow files | bootstrap |
| legacy inventory scripts | none | list and canonicalise legacy gates | handoff |

What makes them correct, and what makes that hard:

* **Verifier run.** It may only be green when the pull request, at its present
  head and base, is clean, and it decides that from a dozen requests made while
  everything changes. Hard: mixtures of two instants, a retarget between two
  reads, lists that lag, the restart of the loop, the deadline.
* **Verdict.** Codex's answers do not name the request they answer. A finding
  may be passed over only when somebody asked again after it and that request
  was answered clean. Hard: late and repeated answers, equal seconds, edits and
  deletions, retargets.
* **Begin-review and rerun.** Two POSTs without an idempotency key. Hard: lost
  answers, requests that take effect late, crashes, competing people.
* **Gate v1.** Four channels read side by side are four instants; what it asked
  and until when it waits is spread over comments and a status, written one
  request at a time and repaired by the next run. Hard: mixtures, a request that
  failed between two writes, waiting for ever.
* **Organisation handoff, bootstrap, release.** Long sequences of writes to
  systems others write to as well, restarted after any failure. Hard: partial
  failure, drift between the read and the write, writes that take effect although
  they were given up, no conditional write.

## The modules

| module | models | run |
| --- | --- | --- |
| `StableReconcile` | one verifier run and its snapshots | `stable_reconcile` |
| `AtomicGate` | what such a run promises: a run that reads in one instant | refined by `StableReconcile` |
| `StableReconcile_proofs`, `EvidenceReducer_proofs`, `ReviewRequest_proofs`, `VerifierRerun_proofs`, `OrganizationHandoff_proofs`, `ReleasePublisher_proofs` | theorems about the module they are named after | (TLAPS) |
| `GateV1_proofs` | theorems about `LegacySnapshot` and `LegacyGate` | (TLAPS) |
| `Bootstrap_proofs` | theorems about `ConsumerRuleset` and `ConsumerFiles` | (TLAPS) |
| `EvidenceReducer` | the verdict on a snapshot | `evidence_reducer`, `evidence_retarget` |
| `ReviewRequest` | begin-review | `review_request` |
| `VerifierRerun` | the rerun | `verifier_rerun` |
| `OrganizationHandoff`, `MCOrganizationHandoff` | an operator taking an organisation from the legacy gate to v2 | `organization_handoff` |
| `ConsumerFiles` | the bootstrap in one worktree: install, remove, restore | `consumer_files`, `consumer_no_change` |
| `ConsumerRuleset` | the bootstrap of one repository's rulesets | `consumer_ruleset` |
| `LegacySnapshot`, `MCLegacySnapshot` | how gate v1 decides from live evidence | `legacy_snapshot` |
| `LegacyGate`, `MCLegacyGate` | how gate v1 asks for a review and waits for it | `legacy_gate` |
| `ReleasePublisher` | the publication of releases | `release_publisher` |

`StableReconcile` is composed with `AtomicGate` by refinement. The others meet
only through GitHub, which each models as far as it relies on it.

Each module is one component with its environment; the configurations of the
same name give the constants their values, and the `MC` modules add the symmetry
or the set of inputs of an instance. Names follow the source where TLA+ allows
it, and a comment names the function where they do not.

### StableReconcile

The state is the pull request (receipts with the base epoch they were posted in,
deletions, findings, the base epoch and how much of it the timeline serves, the
head, open/draft/closed), the run (`pc`, `attempt`, the evidence of the opening
and the closing load, `previous`), and its latches (`epochLatch`, `observed`,
`poisoned`). One action is one request: `ReadBefore`, `ReadReviews`,
`ReadComments`, `ReadHistory`, `StartClosing`, `ReadAfter`; `Judge`, `Restart`
and `Finish` are what the code does before its next `await`. Between any two
actions the environment may post, delete, retarget, push, close and lag, and any
read may fail, be inconsistent, or pass the deadline.

`SnapshotIsReal` is the central property: the six requests of a snapshot amount
to one atomic read. `SuccessHeldTwice` adds that a success rests on two adjacent
ones; `NothingSeenIsForgotten` that no verdict rests on a list that lost
something; `SuccessIsCurrent` that the green step itself happens at the bound
head and base, after the retarget that started the run; `ImplementsAtomicGate`
that all this is a refinement of `AtomicGate`. `Terminates` and
`QuietCleanSucceeds` are liveness.

### EvidenceReducer

The verdict is the operator `Outcome`, built from one operator per selector of
the source. The state is only the evidence and how it came about: requests,
answers (with a hidden field, the request each answers), reactions, edits,
deletions, retargets, new runs, in any order and second. The properties relate
`Outcome` to that history, which the program cannot see:
`ClearedByLaterRequest` (assuming Codex finishes once with each request: two
cleans for one request defeat any lineage that is not read from reactions),
`WithdrawalNeverHelps`, `SuccessAfterRetarget`; and, so that the gate cannot be
safe by never opening, `FreshCleanSuffices` and `AnsweredMarkerClears`. All five
are proved.

### ReviewRequest and VerifierRerun

Both model every read, the POST, the lost answer (the request stays in flight
and may take effect at any time, under a later invocation too), crashes and the
next invocation in the concurrency group. `ReviewRequest` adds seconds, base
epochs and the lag of the timeline.

`DuplicatesOnlyAfterUnknown` says that a workflow run asks twice only after it
reported that it does not know what became of a POST. An automatic run takes
up the marker of any workflow run, a manual one only its own, and a workflow
run that is run again has the trigger it had: so `trigger` is a function of the run that
never changes. A model in which the next invocation of a run may have another
trigger violates the property with three invocations, one more than the
configuration has; the attempt to prove it is what showed this.

### OrganizationHandoff

GitHub is `live`: the state of each repository surface that carries the legacy
check, of the organisation's legacy and v2 rulesets, and of the scheduler whose
runs start legacy writers. The operator gives one command at a time
(`Invoke`: stage, recover, quiesce, restore, activate, cleanup, verify; first as
a preview, whose plan he approves in `approved`, then with apply). A command
reads every part by a request of its own in two rounds (`Read`, `EndFirst`,
`End`), which have to agree; it applies only the approved plan, reads again in
full (`Revalidate`) and once more next to each write, and reads back. A write
whose answer is lost may have taken effect, may do so later, or never
(`LateEffect`, `LateLoss`); the command may be killed anywhere; administrators
change any part at any time (`Drift`) and repair it between commands (`Repair`).

Beside the rulesets a command reads the rules in force on the default branches
(`rules`), and they have to agree with what the rulesets and surfaces say
(`Covered`).

`NeverUnenforced` is what the handoff is for: the legacy check leaves no place
before v2 is enforced, as long as nobody else changes a part.
`WritesFindWhatWasPlanned` relates each write to the plan that was reviewed and
to the state it meets: a change by others, the scheduler enabled again or a run
of it still in progress included, is overwritten only when it falls
between the last read before a write and the write, which GitHub's interface
leaves open and for which
`templates/organization-review-gate-handoff/README.md:267-288` prescribes a
freeze. `FinalReceiptIsReal`: the final receipt certifies a handoff that was
complete at one instant, and not a mixture of two.

### ConsumerFiles

The helper is a fixed order of file-system calls that depends on what it has
read, so the state is the worktree (`files`, by name, a number standing for
device and inode, and contents in three classes) and `prog`, the calls still to
be made. The operators `Installation`, `Removal`, `Restoration`, `Readbacks`,
`Preparation` spell out the functions of the source as such sequences; one
action per kind of call executes the head (`See`, `ListTarget`, `Comparison`,
`WriteTemp`, `Install`, `Admit`, `Rename`, `Link`, `Unlink`, `Rmdir`, ...). `Throw` is the
catch blocks: `note` says what the thrown error says of the worktree. Between any
two calls others edit a file in place, replace or delete it, or change the origin;
a call fails; the helper is killed, and invoked again in either mode.

`DestroysOnlyWhatItSaw`: a rename or an unlink never destroys anything but what
the plan gave up, unless somebody changed it between the last call and this one,
the window the source admits to (comment at
`scripts/bootstrap-codex-review-gate.mjs:6790-6808`). `InOrder` is the order of
the targets across failures, kills and repetitions, `AppliedIsReal` that success
is about the worktree as it is and not as it was read. `ErrorsAreTrue` has three
parts. `Accounted`: an error names every change that was made, in its list of
completed targets (`Counted`, the `installedLabels` of `prepareConsumerWorktree`)
or in its note. The removal in the source repository keeps no such list
(`:5913-5963`), so `Counted` is empty there, and an error of its readbacks says
nothing of the removal; the property then asks that the bridge is gone as planned.
`Placed`: where the error says the bridge is, it is. `Swept`: no error leaves a file
in quarantine that it does not name. `Init`, `Next` and
`Spec` are `FilesInit`, `FilesNext` and `FilesSpec` here, so that one module can be about
this one and `ConsumerRuleset`.

### ConsumerRuleset

GitHub is `sets` (the rulesets by id), the tip of the default branch, classic
protection and the canary; the owner's papers are the inventory and the plan he
approved. A command is a fixed order of reads and at most one write, which
depends on what was read: `todo` holds the steps ahead and `mem` what it
remembers, and `Step` executes the head, as in `ConsumerFiles`. The write may
take effect although its answer is lost. The code reads again right before its
PUT but says itself (`:664-668`, `:3506-3515`) that there is no conditional
write, so the properties are about everything but that gap, which `gap` records:
`WriteWasChecked` that a reported write met the tip and the legacy inventory the
owner approved, and activation the ruleset that was staged and a canary of that
tip; `WritesKeepTheGate` that no write leaves a repository with no gate at all.
`AttestedWasReal` is about the closure that verification and proof read in four
requests. Reading twice does not notice a part that changed and changed back;
`again` leaves that out, and only that. A derivation, a verification or a cleanup reads its closure in two
rounds (`FirstRound`, `SecondRound`), of which the second must equal the first; a
proof starts over instead (`ProveAgain`).

### LegacySnapshot

The evidence is a log; a channel read at a moment serves what the entries up to
there made. `Settle` is a whole attempt of `loadSnapshot`: it chooses the
moments of the five reads between the start of the attempt and now, one of them
may fail, and `Attempted`, `Whole`, `Certificate` are what the code makes of
them. `FailureWasTrue` and `StandingFindingBlocks` are the two sides of a partial or mixed
reading. `SuccessWasTrue` holds except when a thread is opened or reopened *and*
another one resolved during the run: threads and comments are then two instants
with a finding in each, and the second whole reading, which has to agree with
the first, only narrows the window. v1 accepts that, and v2 compares adjacent
snapshots instead (`SnapshotIsReal`). `NewestWordDecides` is the reduction itself,
against a definition of one line.

`Forgiven`, by which the properties say what blocks a head, follows the code in
one point that is easily overlooked: of two cleans in one second none is the newest, and
neither forgives a finding. Without this, `FailureWasTrue` holds for the three
entries of the run and fails for four; the attempt to prove it showed that. The
constants are what Codex posts, of which the assumptions only say that they are
shapes of an answer.

### LegacyGate

A run carries `todo`, the writes its decision leads to, as the code does them:
`Load` chooses by the state comment and the markers, `CloseObsolete`,
`MarkFresh`, `WatchDeadline`, `Enter` and `Advance` decide, `PostMarker`,
`Save`, `PublishFence` and `SetStatus` write. A fault is one run, some of whose
requests fail; writes that failed may have taken effect. What Codex says of a
head is one word here, how it is read is `LegacySnapshot`. `PendingEnds` is a
bounded response: after `Quiet` `Tick` lets the schedule run once per unit of
time, and after `Sound + MaxWait` no tracked head is pending. It excludes heads
of which Codex shows progress (waited for on purpose), and those of which
nothing was ever written: the schedule looks only at pull requests that have a
marker or a state comment. A crash in `prepareFindingReviewOrchestration`
between the marker and the state comment leaves a marker of one head that the
state of another head does not know, for good; `OneRequestPerHead` therefore
speaks of one head. It also speaks of the newest state comment only: when the
save of a state fails, `saveOrchestrationCriticalState` posts a second comment
in its place (`gate.mjs:1512-1554`), and the one it replaced, which may still
hold a request of the head, counts again if somebody deletes the newer one. Said of
any comment that counts, the property fails with four mishaps, which the run's bound does
not reach: the attempt to prove it found that, and as stated it is proved. In
`LegacyGate` `Init`, `Next` and `Spec` are `GateInit`, `GateNext` and `GateSpec`, so that
one module can be about it and `LegacySnapshot`. The branch of `advanceEventDrivenMarker` that would pass the gate
itself is not reached, and comment POSTs are never repeated by the client.

### ReleasePublisher

`target` is what is public: master, tags, Releases with their assets, the alias;
`listed` is the part of it the list of Releases shows. `run` is a run of
`--publish`, whose actions are its reads and writes in order: admission
(`Dispatch`), the audit of history and inventory (`Clone`, `List`, `Audit`), where
to begin (`Start`, `Select`), then for each of master, tag, Draft, starter assets, assets,
publication and alias a last look, the write, and the reading of what it made. Nothing is kept between
runs, so every run finds out how far the earlier ones came: `Adopt`, `Existing`
and `Provenance` take it up. `CreatedOnce` is about the POST that cannot be
repeated safely, `NoneLeftBehind` about the order of releases: a release is built only on
complete ones. `TakesUpWhereLeft` is recovery stated as safety: a run that
nothing disturbs refuses only for one of the reasons in `Excused`, each of which
the script and its documents name (a lost or hidden Draft needs the operator's
`existing_draft_release_id`, an edit by people is never adopted, another release
has to be finished first). A version stands for its commit; the mark "latest",
the policies of the target and unrelated commits on source master, which trip
the fence of a run and need a new one, are left out.

## Runs

All bounds are constants of the modules, so a configuration is where to change
them. "Churn" counts what others do while the code runs.

| run | bounds | shows |
| --- | --- | --- |
| `stable_reconcile` | 2 receipts, 1 finding, 2 comparisons, 2 retargets, 2 changes or faults | every property of the module, refinement and liveness. Two changes suffice for every mixture of two instants (one to make the mixture, one to hide it); two comparisons allow success, one restart, and exhaustion; two retargets allow a branch and back |
| `evidence_reducer` | 4 events in 3 seconds, of 13 kinds: markers and bare requests, cleans, findings and failures as comments and reviews, reactions, drafts, runs, base changes, edits and deletions | safety of the verdict, and that it is not stuck. Before, at and after a boundary need three seconds; four events hold a finding, a request and two answers |
| `evidence_retarget` | 3 events: retarget and cleans | the divergence below |
| `verifier_rerun` | 2 scopes, 1 poll, 2 runs, 2 controllers, 3 changes or faults | one controller's late POST under the next controller |
| `review_request` | 2 heads, 2 bases, 2 runs, 2 seconds, 2 invocations, 3 changes or faults | duplicates, adoption, retarget and back |
| `organization_handoff` | 2 surfaces (interchangeable), 2 mishaps (changes by others, lost answers, failed reads, kills) | all properties of the module, over every sequence of commands. Two surfaces allow a cleanup that stops half-way; two mishaps a lost answer and a kill, a late write and a change by others, a change and its repair |
| `consumer_files` | 2 mishaps (changes by others, failed calls, kills), 4 file numbers, CODEOWNERS and the verifier out of date or nothing (source) | all properties of the module. Two mishaps suffice for a removal that fails and meets another file while it is restored; at most four bridges are linked or open at a time |
| `consumer_no_change` | 1 mishap, nothing out of date | the defect below |
| `consumer_ruleset` | 2 commands, 2 changes by others; a dozen starting points, both profiles | a command after one whose answer was lost or that was killed, with a change in the middle and one in the gap |
| `legacy_snapshot` | 3 entries in the log, 1 thread, seconds equal or not, 1 failed request; three common shapes of answers and seven rare ones, once each | all properties of the module. Three entries hold a finding, its clean, and one that comes between two reads |
| `legacy_gate` | 2 heads (interchangeable), waits of 1, 2 and 3, 8 moments; 1 answer, 1 push, 1 fault | all properties of the module; a request that was overdue, doubled and given up, with each single write lost |
| `release_publisher` | 2 versions, 3 runs, 1 lost answer, 1 edit of a Draft; kills anywhere | all properties of the module. Three runs: one killed, one that takes up, one for the next release |

Deadlock is checked in the runs of processes that stutter explicitly when they
are done or can be invoked again. Evidence stops growing, clocks stop and the
number of commands and runs is used up when the bounds are reached, so
`evidence_reducer`, `evidence_retarget`, `legacy_snapshot`, `legacy_gate`,
`consumer_ruleset` and `release_publisher` do not check deadlock.

### Divergences

`evidence_retarget` is expected to be violated. After a base retarget, when
Codex posts two clean comments for the head, `hasUnattributableEpochTerminalClean`
is set by the older of them, and the gate stays pending
(`request_clean_generation`) although the newer one is the direct clean basis.
`packages/action/DESIGN.md:909-915` asks only for a clean later than the
retarget and says that no later request is needed. The way out that the message
names, a +1 on the latest request, does not help either: requests and reactions
are not read while a direct clean stands. Without a retarget the same two
comments are a success (`FreshCleanSuffices`).

`consumer_no_change` is expected to be violated: a defect. The helper reads the
workflows and CODEOWNERS, and only then takes its inventory of the worktree; when
nothing has to change it compares a second inventory with the first
(`scripts/bootstrap-codex-review-gate.mjs:6429-6443`), not with what it read. An
edit between the read of a file and the first inventory is in both, so the
helper reports that the file "already matches the canonical v2 bytes" and ends in
success, although it does not. The path with changes does not have the hole: it
reads everything back against the contents it means to leave (`AppliedIsReal`).

Two more things are visible in `ConsumerFiles` but have no run of their own. When a
readback of the source repository's removal fails (`:5951-5963`, for
example because another file was edited meanwhile), the message is that of the
readback alone and does not say that this run removed the bridge, where
`prepareConsumerWorktree` would list it (`:6632-6637`). No document promises the
list for the source repository, so this is not a finding, but it is an exception
of `ErrorsAreTrue`, which fails without it. The other is a divergence from a document. `docs/install/human.md:1306-1308` promises a no-clobber restoration after a
local safety failure in quarantine; the code restores only when the authorization
callback is what fails (`:6930-6965`). After any other failure there the bridge
stays in quarantine, and the error and `test/bootstrap.test.mjs:5847` say so.

## Fairness

`StableReconcile`, `ReviewRequest` and `VerifierRerun` assume weak fairness of
the process only: a job that was started runs, every awaited request is answered,
fails or times out (the client has a timeout on every request and a deadline on
the whole), and sleeps end. `ReviewRequest` also assumes that GitHub handles or
loses each POST it got. The other modules state no fairness: a person or a
schedule decides whether they go on. Where something must come to an end there,
it is said without fairness: `PendingEnds` of `LegacyGate` as a bound in time, whose only
assumption is that the schedule fires once per unit of time after `Quiet` (a
conjunct of `Tick`), and `TakesUpWhereLeft` of `ReleasePublisher` as what an
undisturbed run may not refuse. Nothing is
assumed of people, Codex, the timeline's
catching up, or of faults not happening: `QuietCleanSucceeds` and
`QuietRequestAccepted` start from states whose budget of changes is used up.

## Proofs

A theorem is about every value of the constants, where a run is about one. Each
component has an inductive invariant, in most `Inv` with the theorem
`InvHolds`, `Spec => []Inv`, which TLC checked on the component's run before it was
proved, and one theorem for each property that follows. The assumptions are those the modules
name: bounds are natural numbers (some at least 1), sets of
values that are counted are finite, shapes are shapes.

| module | proved | carried by |
| --- | --- | --- |
| `StableReconcile` | `TypeOK`, `SnapshotIsReal`, `SuccessHeldTwice`, `NothingSeenIsForgotten`, `SuccessIsCurrent`, the refinement of `AtomicGate`'s safety | what the opening load read is a lower bound of everything there now |
| `EvidenceReducer` | `SuccessAfterRetarget`, `FreshCleanSuffices`, `AnsweredMarkerClears`, `ClearedByLaterRequest`, `WithdrawalNeverHelps` | the evidence is of the past, and Codex answers no trigger twice |
| `ReviewRequest` | `DuplicatesOnlyAfterUnknown`, `AcceptedAfterRetarget` | a POST that outlives its invocation has been reported as unknown |
| `VerifierRerun` | `RerunAtMostOnce`, `SubmittedFailsClosed`, `ObservedAlone` | a controller has one request, on its way or in effect |
| `OrganizationHandoff` | `NeverUnenforced`, `FinalReceiptIsReal`, `WritesFindWhatWasPlanned` | left to the commands, every part only moves forward |
| `ConsumerRuleset` | `WriteWasChecked`, `AttestedWasReal`, `WritesKeepTheGate` | what was read is so until its next read, or it changed and the next read finds the change |
| `ConsumerFiles` | `InOrder`, `AppliedIsReal`, `ErrorsAreTrue`, `DestroysOnlyWhatItSaw` | the calls still ahead lead, stage by stage, from what holds now to the end |
| `LegacySnapshot` | `FailureWasTrue`, `StandingFindingBlocks`, `SuccessWasTrue`, `NewestWordDecides` | what a channel serves only grows, and a later entry is never strictly earlier |
| `LegacyGate` | `OneRequestPerHead` | while a run may ask, the newest state comment holds nothing of its head that the run does not |
| `LegacyGate` | `WaitIsNotRenewed` | what a run does not know of answered or lost requests, an answer or a mishap not yet spent pays for |
| `ReleasePublisher` | `CreatedOnce`, `NoneLeftBehind`, `TakesUpWhereLeft` | the target only moves forward, every write is sound whenever it comes, and whatever is left has the shape of something a run left |

**StableReconcile.** `SnapshotIsReal` is not inductive. Its strengthening says, for every point of
the two loads, how far what was gathered can differ from `boundary`, the facts at
the instant the opening load ended: what the opening load has read is a lower
bound of everything there now (receipts, findings, deletions and epochs only
grow), so when the closing load reads the same, nothing can have changed from the
last read of the opening load to the first of the closing one. The argument needs
that the history is requested after the comment list and that both loads are
compared in full: weakening either is a mutant that TLC refutes.

**EvidenceReducer.** `Inv` is about the evidence and not about the verdict:
nothing is later than the clock, what was never edited bears its own second
(`OfThePast`), ids are given once (`Identified`), what started Codex is the push
or a request at its second (`Triggered`), and an answer was to one of those
(`Answered`). What is left is a fact about `Outcome` on any such evidence: for
`ClearedByLaterRequest`, for example, each of the ways in which a finding may be
passed over (direct clean, lineage, reaction) yields a request after the finding,
answered by a clean that no earlier trigger can account for.
`WithdrawalNeverHelps` is about a step: whoever edits or deletes leaves a scoped error at
the present second, later than anything a success could rest on; only a direct
clean is indifferent to it, and that one was there before.

**ReviewRequest, VerifierRerun.** Both are about a POST without an idempotency
key, so both invariants count: an invocation has one request, under way or with
an effect, and none before it posts. In `ReviewRequest`, `Outlived` says that a
request still under way when its invocation is over is one it reported as
unknown, and `EarlierUnknown` follows it through the list the next invocation
reads, up to its own POST. In `VerifierRerun` it suffices that the baseline held nothing
active (`Chosen`) and that a denial means no effect (`AnswerIsTrue`).

**OrganizationHandoff.** As long as no administrator interferes, every part only
moves forward, what the first round found is still so but for the command's own
write (`FoundIsStillSo`), and a late write comes when its time has come
(`LateIsHarmless`): the create while v2 is absent, a surface's cleanup once v2 is
active, the cutover when no surface is left. `FinalReceiptIsReal` needs an
invariant of its own (`StillIncomplete`): a part that was missing after the
first round is missing until the receipt, unless others changed it, so the second
round finds it missing. `WritesFindWhatWasPlanned` is an action property: of
every part that may not have changed, what it was at the last read is what the
write meets.

**ConsumerRuleset.** A command is the steps ahead of it, so the invariant is about
those: `StepsInOrder` says what follows what in a program (after a write another look
and another inventory, before a PUT the target and, four steps earlier, the
canary), and `Has` and `Due` which step comes before which. `Since`,
`SinceApproval` and `Stands` say that a part differs from what was read of it only
if others changed it; nothing changes twice unless `again`, so the part differs
for the rest of the command (`Lost`) and the read still ahead refuses. Hence the
reads *after* a write prove something about the moment *of* the write
(`WorkAfter`), and the second round of a closure something about the end of the
first (`ReadingClosures`). `WritesKeepTheGate` rests on what is written: a ruleset
named for v2 never requires the legacy status (`V2IsNotLegacy`), a PUT of
staging or activation leaves an active ruleset active and matching (`PlanIsSafe`),
and the target of a cleanup is not the gate it was shown (`Stronghold`). The invariant was
checked by TLC with four undisturbed commands, and with two commands and up to two
changes.

**ConsumerFiles.** What the helper has still to do is a sequence of calls, put
together from functions, so the invariant cannot list the sequences. It says
instead that some phase holds now (`Holds`: a stage of the work, the target it
is on, and the targets seen, settled or read back so far) and that the calls ahead
are a path from it to the end (`Path`, with `Leads` for one call). Two kinds of
lemmas then never meet: those that the sequences the source builds are paths
(`RemovalPath`, `PlanPath`, `RestorationPath`, ...), which know nothing of files,
and those that a call takes what holds in a phase to what holds in the next
(`...Keeps`), which know nothing of what comes later. A removal whose last look at
the quarantined file is left out, or a change before its turn, is not a path.
What others change is in `moved`, `recent` or `late` at once, so `Holds` survives
it in every phase (`DisturbedKeeps`), and a failure in quarantine leads to the
stage `restoring`. `ErrorsAreTrue` is proved in a second layer (`FilesTold`), with
`FilesInv` known: the note names the quarantine from the rename until the file in
it is gone (`Swept`), and an error can be met only where the targets written are
the completed ones, or the note tells of the one on hand, or the source
repository's bridge is gone. TLC checked the invariant, paths included, with one mishap.

**LegacySnapshot.** Of two whole readings the earlier one saw no more than there
was when the later one began, and the later no less (`FirstWasClean`);
`TimesGrow` turns "the newest of what was read" into "the newest of every part of
it". A newest clean is chosen with `CHOOSE`, and that it exists is proved by
well-founded induction.

**LegacyGate.** A run decides to ask from what it has read, writes the marker, and
only then the state that knows it; any of it may fail, and the next run begins
from what is there. `GateInv` follows a run's state through its steps. What it
holds, it holds of the latest marker, and it holds nothing when it posts the next
one (`RunHolds`). While steps that may lead to a marker are ahead of it (`Asks`),
the newest state comment holds no request of its head that the run does not hold,
or is not about to save that it holds no more; and what the run holds is in its
comment, or about to be (`NothingElseHeld`). This survives failures because a
failed save ends the asking, except where nothing was to be saved (`saveBest`) or
the state goes into a new comment (`replace`): `SaveFailedIs`. `Orderly` says of
the steps ahead that a marker is only ever the next one and that none comes after findings
are recorded, which is what makes `Thrown` an end of the asking. TLC checked
`GateInv` with one and with three mishaps.

`WaitIsNotRenewed` counts the deadlines of a head against the answers and mishaps so
far, and `WaitInv` is a balance of the two. `Affords(h, k)` says that the head could be given `k`
more deadlines. A request of a run sets a new one only if nothing of the head is
awaited and its last request was answered or lost (`Renews`). So one more must be
affordable while a run is in that position, a second one if something has gone wrong in the
run (`Spoiled`), because it may leave behind a state that does not know what was posted, and one
when no run works but the newest comments would bring the next one there
(`Forgotten`). Answers and mishaps add to the credit at the step that makes the need.
The converse is the hard part: where nothing went wrong the run knows the newest
marker of all (`Informed`), so that the state it saves brings nobody into that position who
was not there. A deadline is copied from the last marker of the head
otherwise, and `Latest` finds it whatever heads came between. TLC checked `WaitInv`
on the whole of the run's states.

**ReleasePublisher.** Every write, sent or given up, stays `Sound`: what
justified it when it was decided justifies it whenever it takes effect, because
master and the alias move to descendants only, a tag is set once, and a complete
release stays. "Descendant" is a recursive function of the versions
(`History`), which is shown to exist (`HistoryIs`), to be reflexive and to be
transitive.

`TakesUpWhereLeft` speaks of a run that refuses, so its proof is that every test
succeeds unless a named excuse holds. Three more invariants carry it, which TLC checked on
the run first. `Left`: whatever runs and late writes did, every Release has a shape in
which the publisher leaves one (assets in their order, an upload that broke off last,
complete once published), every tag is on the history of master, the alias is
stable, and a write that is still late fits the Release it is for. `Kept`: what a run
holds as uploaded is in its Draft. `Calm`: in a run that nothing disturbs, what it has
read changes by its own writes only, and these are done when the next step comes. From
these and `NoExcuse` one lemma for each part of the run (`...GoesOn`) shows that it does
not refuse.

Induction over data is only partly out of reach: the library's induction
theorems that take an operator cannot be cited, but `NatLessThanWellFounded` and
`WFMin` are first-order, and a proof by the least counterexample, or a recursive
function shown to exist by an explicit witness, goes through. The proofs above
use both.

Model-checked only: liveness and everything under fairness (`Terminates`,
`QuietCleanSucceeds`, `QuietRequestAccepted`); of `LegacyGate`,
`PendingEnds`, which is liveness said as a bound in time, and `AsksAgainWhenOverdue`. The
latter counts pairs of neighbouring markers, not deadlines, and needs pushes in the
balance: `WaitInv` does not imply it, and a balance of its own has not been worked out.

## Not modelled, and the plan

Simplifications of each module stand in its header. Of components that have a
module, left out are: several pull requests of one scheduled run of v1 (independent
of each other), the migration of a `passed` state that earlier versions wrote, the
arithmetic of its work budget; the parsing of workflows and CODEOWNERS in the
bootstrap (a tip has the canonical ones or not) and the audit of a final closure
receipt; the read-only mode of the publisher, its local test backend, signing keys
and repository policies, and the plan and the candidate of a release.

What is planned, in this order:

1. Proofs: `AsksAgainWhenOverdue` of `LegacyGate`.
2. `ObservedReviews`: the latch of drafts of reviews across loads
   (`exactRefetchV2MissingPendingReviews`).
3. `SnapshotBudget` and the client's retries; the completion report; the composition of
   begin-review, rerun and verifier run into one gate.

Left out for good: text (the parsers of comments and workflow files, markdown,
wording), cryptographic digests (a digest is its argument), the formats of provenance files and
the legacy inventory scripts, which are straight-line validation of data.
