---------------------------- MODULE ConsumerRuleset ----------------------------
(***************************************************************************)
(* One repository moves from the legacy gate to v2:                        *)
(* scripts/bootstrap-codex-review-gate.mjs --repo, with its planners in    *)
(* src/bootstrap.mjs.                                                      *)
(*                                                                         *)
(* An owner runs one command at a time.  stage creates the v2 ruleset      *)
(* disabled, or repairs it; activate turns it on, given a canary pull      *)
(* request that passed; derive prints the plan of what is to be left when  *)
(* the legacy requirement is gone; the owner follows the plan by hand, or, *)
(* in the source repository, has cleanup do it; verify and prove read that *)
(* it is so.  GitHub has no conditional write and no snapshot of several   *)
(* surfaces: administrators may change any of them between two reads, a    *)
(* write may take effect although its answer is lost, and a command may be *)
(* killed.                                                                 *)
(*                                                                         *)
(* Simplifications.  One read of the code (a listing with its details, the *)
(* snapshot of the control plane, the legacy inventory, a ruleset) is one  *)
(* step.  A default-branch tip stands for the workflows, CODEOWNERS and    *)
(* owner at it, classic protection for whether it requires the legacy      *)
(* status, and the canary for the tip it last passed on.  A digest is the  *)
(* value it is made of.                                                    *)
(***************************************************************************)
EXTENDS Naturals, Sequences, FiniteSets

CONSTANTS
    MaxRuns,      \* bound: commands
    MaxChurn      \* bound: changes by others while a command runs

ASSUME RunsAssumption == MaxRuns \in Nat
ASSUME ChurnAssumption == MaxChurn \in Nat

VARIABLES
    profile,      \* "full", or "status-only" in the source repository
    unmanaged,    \* does CODEOWNERS own more than the control plane
    \* GitHub.
    sets,         \* the rulesets, by id; Gone once deleted
    head,         \* the tip of the default branch
    classic,      \* does classic protection require the legacy status
    canary,       \* the tip on which the canary passed, 0 if on none
    \* The owner's papers.
    approved,     \* the approved legacy inventory
    plan,         \* the approved plan
    \* The command.
    cmd, apply,
    todo,         \* the steps ahead
    mem,          \* what it has read
    outcome,
    runs, churn,  \* commands begun, changes by others
    \* History of the command.
    touched,      \* parts others have changed
    again,        \* have they changed one twice
    gap,          \* parts they changed between its last look and its write
    instants,     \* the states the repository was in
    put           \* the repository just before the write

gitHub == <<sets, head, classic, canary>>
owner == <<profile, unmanaged, approved, plan>>
history == <<touched, again, gap, instants, put>>
vars == <<gitHub, owner, cmd, apply, todo, mem, outcome, runs, churn,
          history>>

-----------------------------------------------------------------------------
(* Rulesets: who requires what.                                            *)

Gone == [name |-> "none"]
Legacy == [name |-> "old", active |-> TRUE, ref |-> "default", bypass |-> FALSE,
           checks |-> {"v1"}, rules |-> {"strict"}]

\* The rules of a complete gate of each profile.
GateRules == IF profile = "full" THEN {"strict", "pr", "nff"} ELSE {"strict"}

\* A new v2 ruleset.
Staged == [name |-> "v2", active |-> FALSE, ref |-> "default", bypass |-> FALSE,
           checks |-> {"v2"}, rules |-> GateRules]

Live(s) == {i \in DOMAIN s : s[i] # Gone}
Covers(r) == r.ref = "default"
RequiresLegacy(r) == "v1" \in r.checks

\* The gate policy: the full profile may come with more, status-only may not.
HasGatePolicy(r) == ~r.bypass /\ "v2" \in r.checks /\ GateRules \subseteq r.rules
HasStatusOnlyPolicy(r) == ~r.bypass /\ r.checks = {"v2"} /\ r.rules = {"strict"}
Matches(r) ==
    Covers(r) /\ IF profile = "full" THEN HasGatePolicy(r) ELSE HasStatusOnlyPolicy(r)

Named(s) == {i \in Live(s) : s[i].name = "v2"}
Effective(s) == {i \in Live(s) : s[i].active /\ Matches(s[i])}
LegacyIds(s) == {i \in Live(s) : s[i].active /\ Covers(s[i]) /\ RequiresLegacy(s[i])}

\* What the legacy inventory lists.
Inventory(s, c) == [rulesets |-> {<<i, s[i]>> : i \in LegacyIds(s)}, classic |-> c]

\* What a complete reading of the repository finds.
State == [head |-> head, classic |-> classic, sets |-> sets]

\* Tip 3 lacks the canonical workflows and CODEOWNERS.
Tips == 1..3
Canonical(h) == h # 3

\* Turning the gate on would ask owners of other files for their approval.
Expands ==
    unmanaged /\ ~\E i \in Live(sets) :
        sets[i].active /\ ~sets[i].bypass /\ Covers(sets[i]) /\ "pr" \in sets[i].rules

(* The planners.                                                           *)
EnsureStatusContext(r, keepLegacy) ==
    [r EXCEPT !.checks = (IF keepLegacy THEN @ ELSE @ \ {"v1"}) \cup {"v2"},
              !.rules = @ \cup {"strict"}]
EnsurePullRequestPolicy(r) == [r EXCEPT !.rules = @ \cup {"pr"}]
EnsureNonFastForwardPolicy(r) == [r EXCEPT !.rules = @ \cup {"nff"}]
EnsureCoverage(r) == [r EXCEPT !.ref = "default"]

\* A complete gate that is on is kept as it is.
PreservesActive(r) == r.active /\ Matches(r)

UpdateRefused(r) ==
    IF profile = "full"
    THEN \/ r.active /\ ~PreservesActive(r)
         \/ r.ref = "barred"
    ELSE ~(Covers(r) /\ HasStatusOnlyPolicy(r))

\* The ruleset an update writes.
Planned(r, activating) ==
    IF profile = "full"
    THEN LET complete == EnsureNonFastForwardPolicy(EnsureStatusContext(
                 EnsurePullRequestPolicy(EnsureCoverage(r)), PreservesActive(r)))
         IN [complete EXCEPT !.active = activating \/ PreservesActive(r),
                             !.bypass = FALSE]
    ELSE [r EXCEPT !.active = activating \/ @]

\* A ruleset without its legacy check, Gone if nothing else is left.
Cleaned(r) ==
    LET checks == r.checks \ {"v1"}
        rules == IF checks = {} THEN r.rules \ {"strict"} ELSE r.rules
    IN IF rules = {} THEN Gone ELSE [r EXCEPT !.checks = checks, !.rules = rules]

\* The only state the cleanup of a closure may leave.
PostCleanup(c) ==
    [c EXCEPT !.classic = FALSE,
              !.sets = [i \in DOMAIN c.sets |->
                  IF i \in LegacyIds(c.sets) THEN Cleaned(c.sets[i]) ELSE c.sets[i]]]

NoPlan == [pre |-> 0]
CleanupIds == {i \in DOMAIN plan.pre.sets : plan.pre.sets[i] # plan.post.sets[i]}

\* A plan the cleanup command may carry out: one ruleset, kept, is to change.
InScope ==
    /\ Inventory(plan.pre.sets, plan.pre.classic) = approved
    /\ plan.pre.classic = plan.post.classic
    /\ \E i \in CleanupIds :
           /\ CleanupIds = {i}
           /\ plan.post.sets[i] # Gone
           /\ plan.post.sets[i].name # "v2"
           /\ plan.post.sets[i].checks = {}

-----------------------------------------------------------------------------
(* The commands, as the steps ahead of them.                               *)

Round(c, end) == <<"look", "list", "legacy">> \o
                 (IF c = "prove" THEN <<"history">> ELSE <<>>) \o <<end>>
Twice(c) == Round(c, "first") \o Round(c, "second")

Steps(c, applying) ==
    CASE c \in {"stage", "activate"} -> <<"look", "digest", "choose">>
      [] c = "derive" -> Twice(c) \o <<"emit">>
      [] c = "cleanup" ->
             Twice(c) \o <<"compare">> \o
             (IF applying
              THEN Twice(c) \o <<"compare", "gate", "reread", "put", "readback">> \o
                   Twice(c) \o <<"verified">>
              ELSE <<"dryrun">>)
      [] c = "verify" -> Twice(c) \o <<"verified">>
      [] c = "prove" -> Twice(c) \o <<"proved">>

CreateSteps ==
    IF apply
    THEN <<"look", "digest", "names", "post", "readback", "look", "digest",
           "readback", "bound", "done">>
    ELSE <<"dryrun">>

IfActivating(steps) == IF cmd = "activate" THEN steps ELSE <<>>

UpdateStepsUnchecked ==
    IfActivating(<<"canary">>) \o
    (IF apply
     THEN <<"look">> \o IfActivating(<<"owners", "canary">>) \o
          <<"digest", "reread", "digest">> \o
          IfActivating(<<"canary", "look", "digest">>) \o
          <<"reread", "put", "readback", "done">>
     ELSE <<"dryrun">>)

\* Activation reads everything once more at each boundary, and after the write.
UpdateSteps ==
    IfActivating(<<"canary">>) \o
    (IF apply
     THEN <<"look">> \o IfActivating(<<"owners", "canary">>) \o
          <<"digest", "reread", "digest">> \o
          IfActivating(<<"canary", "look", "digest">>) \o
          <<"reread", "put", "readback", "look", "digest", "readback", "done">>
     ELSE <<"dryrun">>)

NoClosure == [head |-> 0]
Empty == [snap |-> <<>>, loaded |-> <<>>, first |-> NoClosure, pair |-> NoClosure,
          target |-> 0, gate |-> 0, full |-> Gone, payload |-> Gone, wrote |-> FALSE]
NoPut == [head |-> 0]

\* The parts of GitHub that change on their own.
Ruleset(i) == <<"ruleset", i>>
Part(name) == <<name, 0>>

Forget ==
    touched' = {} /\ again' = FALSE /\ gap' = {} /\ instants' = {} /\ put' = NoPut

\* A step that went well, the last one, and an error, which ends the command.
Advance(m) ==
    /\ todo' = Tail(todo) /\ mem' = m
    /\ UNCHANGED <<outcome, history>>
Succeed(o) ==
    /\ todo' = <<>> /\ outcome' = o
    /\ UNCHANGED <<mem, history>>
Abort ==
    /\ todo' = <<>> /\ outcome' = "error" /\ mem' = Empty /\ Forget

\* A read of surfaces that must find a condition.
At(step) == todo # <<>> /\ Head(todo) = step
Reading == UNCHANGED <<gitHub, owner, cmd, apply, runs, churn>>
Require(ok, m) == Reading /\ IF ok THEN Advance(m) ELSE Abort

-----------------------------------------------------------------------------
(* The reads.                                                              *)

\* A later snapshot must equal the first.
Stable(snap) == mem.snap \in {<<>>, snap}

\* The snapshot of the control plane.
Look ==
    /\ At("look")
    /\ LET snap == <<head, classic>>
       IN Require(Canonical(head) /\ Stable(snap), [mem EXCEPT !.snap = snap])

\* The legacy inventory must still be the approved one.
Digest ==
    /\ At("digest")
    /\ Require(Inventory(sets, classic) = approved, mem)

\* The canary passed on the tip of the snapshot.
Canary ==
    /\ At("canary")
    /\ Require(canary = mem.snap[1], mem)

Owners ==
    /\ At("owners")
    /\ Require(~Expands, mem)

\* The target is what the command planned on.
Reread ==
    /\ At("reread")
    /\ Require(sets[mem.target] = mem.full, mem)

GateUnread == At("gate") /\ Require(TRUE, mem)

\* Cleanup reads the v2 ruleset before its target.
Gate ==
    /\ At("gate")
    /\ Require(sets[mem.gate] = mem.pair.sets[mem.gate], mem)

\* No ruleset of the name appeared before the creation ...
Names ==
    /\ At("names")
    /\ Require(Named(sets) = {}, mem)

\* ... and the created one is the only one after it.
Bound ==
    /\ At("bound")
    /\ Require(Named(sets) = {mem.target}, mem)

Readback ==
    /\ At("readback")
    /\ Require(sets[mem.target] = mem.payload, mem)

-----------------------------------------------------------------------------
(* Staging and activation.                                                 *)

\* The ruleset to work on: refused if its name or what is on is ambiguous.
Choosable ==
    /\ ~(cmd = "activate" /\ Expands)
    /\ Cardinality(Named(sets)) <= 1
    /\ \A i \in Named(sets) : sets[i].active => Matches(sets[i])
    /\ cmd = "activate" => Named(sets) # {} \/ Effective(sets) # {}

AlreadyEffective ==
    /\ At("choose") /\ Choosable
    /\ Named(sets) = {} /\ Effective(sets) # {}
    /\ Reading /\ Succeed("unchanged")

Choose ==
    /\ At("choose")
    /\ ~(Choosable /\ Named(sets) = {} /\ Effective(sets) # {})
    /\ Reading
    /\ IF Choosable
       THEN /\ todo' = IF Named(sets) = {} THEN CreateSteps ELSE <<"plan">>
            /\ mem' = IF Named(sets) = {}
                      THEN [mem EXCEPT !.payload = Staged]
                      ELSE [mem EXCEPT !.target = CHOOSE i \in Named(sets) : TRUE]
            /\ UNCHANGED <<outcome, history>>
       ELSE Abort

\* What the update may do: activation only turns an exact stage on.
Plannable(r, payload) ==
    /\ r # Gone
    /\ ~UpdateRefused(r)
    /\ IF cmd = "activate"
       THEN /\ ~r.active /\ Matches(r) /\ ~RequiresLegacy(r)
            /\ payload = [r EXCEPT !.active = TRUE]
       ELSE payload # r => ~payload.active

AlreadyDone(r) ==
    /\ r # Gone
    /\ IF cmd = "activate"
       THEN r.active /\ Matches(r)
       ELSE ~UpdateRefused(r) /\ Planned(r, FALSE) = r

NoChange ==
    /\ At("plan") /\ AlreadyDone(sets[mem.target])
    /\ Reading /\ Succeed("unchanged")

Plan ==
    /\ At("plan") /\ ~AlreadyDone(sets[mem.target])
    /\ Reading
    /\ LET r == sets[mem.target]
       IN IF r # Gone /\ Plannable(r, Planned(r, cmd = "activate"))
          THEN /\ todo' = UpdateSteps
               /\ mem' = [mem EXCEPT !.full = r, !.payload = Planned(r, cmd = "activate")]
               /\ UNCHANGED <<outcome, history>>
          ELSE Abort

\* The writes: the answer may be lost.
Remember ==
    put' = [head |-> head, sets |-> sets, classic |-> classic, canary |-> canary,
            approved |-> approved, gap |-> gap]

Write(written, target) ==
    /\ sets' = written
    /\ UNCHANGED <<head, classic, canary, owner, cmd, apply, runs, churn>>
    /\ \/ /\ todo' = Tail(todo)
          /\ mem' = [mem EXCEPT !.wrote = TRUE, !.target = target]
          /\ instants' = instants \cup {State'}
          /\ Remember
          /\ UNCHANGED <<outcome, touched, again, gap>>
       \/ Abort

Post ==
    /\ At("post")
    /\ Write(Append(sets, mem.payload), Len(sets) + 1)

Put ==
    /\ At("put") /\ sets[mem.target] # Gone
    /\ Write([sets EXCEPT ![mem.target] = mem.payload], mem.target)

-----------------------------------------------------------------------------
(* Closures: complete readings of the repository.                          *)

\* The legacy requirement must be gone, before the write it must be as approved.
Clear == cmd \in {"verify", "prove"} \/ mem.wrote

\* All rulesets: v2 is on and complete.
List ==
    /\ At("list")
    /\ LET named == Named(sets)
       IN Require(/\ Cardinality(named) = 1
                  /\ \A i \in named : /\ sets[i].active /\ Matches(sets[i])
                                      /\ Clear => ~RequiresLegacy(sets[i]),
                  [mem EXCEPT !.loaded = sets, !.gate = CHOOSE i \in named : TRUE])

\* The legacy inventory agrees with what was read before it.
LegacyInventory ==
    /\ At("legacy")
    /\ Require(/\ classic = mem.snap[2]
               /\ \A i \in LegacyIds(sets) :
                      i \in DOMAIN mem.loaded /\ sets[i] = mem.loaded[i]
               /\ IF Clear THEN LegacyIds(sets) = {} /\ ~classic
                  ELSE Inventory(sets, classic) = approved,
               mem)

\* The evidence of the canary, and the rulesets the source repository keeps.
CanaryEvidence ==
    /\ At("history")
    /\ Require(/\ canary # 0
               /\ mem.loaded[1] # Gone /\ mem.loaded[1].active,
               mem)

Closure == [head |-> mem.snap[1], classic |-> mem.snap[2], sets |-> mem.loaded]

FirstWillDo(c) == TRUE

\* The second of two readings must equal the first.
Same(c) == mem.first = c

FirstRound ==
    /\ At("first")
    /\ Require(TRUE, [mem EXCEPT !.snap = <<>>, !.loaded = <<>>, !.first = Closure])

SecondRound ==
    /\ At("second")
    /\ Require(Same(Closure),
               [mem EXCEPT !.snap = <<>>, !.loaded = <<>>, !.first = NoClosure,
                           !.pair = Closure])

\* A proof that is not stable starts again, as long as its time lasts.
ProveAgain ==
    /\ At("second") /\ cmd = "prove" /\ ~Same(Closure)
    /\ Reading
    /\ todo' = Steps(cmd, FALSE) /\ mem' = Empty
    /\ UNCHANGED <<outcome, history>>

\* The owner approves the plan a derivation printed.
Emit ==
    /\ At("emit")
    /\ plan' = [pre |-> mem.pair, post |-> PostCleanup(mem.pair)]
    /\ Succeed("derived")
    /\ UNCHANGED <<gitHub, profile, unmanaged, approved, cmd, apply, runs, churn>>

\* The plan must be what a fresh derivation gives.
Compare ==
    /\ At("compare")
    /\ LET id == CHOOSE i \in CleanupIds : TRUE
       IN Require(plan = [pre |-> mem.pair, post |-> PostCleanup(mem.pair)],
                  [mem EXCEPT !.target = id, !.full = plan.pre.sets[id],
                              !.payload = plan.post.sets[id]])

Verified ==
    /\ At("verified") /\ Reading
    /\ IF mem.pair = plan.post THEN Succeed("verified") ELSE Abort

Proved == At("proved") /\ Reading /\ Succeed("proved")
Done == At("done") /\ Reading /\ Succeed("done")
DryRun == At("dryrun") /\ Reading /\ Succeed("dryrun")

\* A read or a write fails, or the command is killed.
Fail ==
    /\ todo # <<>>
    /\ Reading /\ Abort

Step ==
    \/ Look \/ Digest \/ Canary \/ Owners \/ Reread \/ Gate \/ Names \/ Bound \/ Readback
    \/ AlreadyEffective \/ Choose \/ NoChange \/ Plan \/ Post \/ Put
    \/ List \/ LegacyInventory \/ CanaryEvidence
    \/ FirstRound \/ SecondRound \/ ProveAgain
    \/ Emit \/ Compare \/ Verified \/ Proved \/ Done \/ DryRun

-----------------------------------------------------------------------------
(* The owner and the administrators.                                       *)

Start(c, applying) ==
    /\ todo = <<>> /\ runs < MaxRuns
    /\ c \in {"cleanup", "prove"} => profile = "status-only"
    /\ c \in {"cleanup", "verify"} => plan # NoPlan
    /\ c = "cleanup" => InScope
    /\ applying => c \in {"stage", "activate", "cleanup"}
    /\ cmd' = c /\ apply' = applying
    /\ todo' = Steps(c, applying)
    /\ mem' = Empty /\ outcome' = "running"
    /\ runs' = runs + 1
    /\ touched' = {} /\ again' = FALSE /\ gap' = {}
    /\ instants' = {State} /\ put' = NoPut
    /\ UNCHANGED <<gitHub, owner, churn>>

Command ==
    \E c \in {"stage", "activate", "derive", "cleanup", "verify", "prove"},
       applying \in BOOLEAN : Start(c, applying)

Between ==
    /\ todo = <<>> /\ runs < MaxRuns
    /\ outcome' = "none" /\ mem' = Empty /\ Forget
    /\ UNCHANGED <<profile, unmanaged, head, cmd, apply, todo, runs, churn>>

ApproveInventory ==
    /\ Between
    /\ approved # Inventory(sets, classic)
    /\ approved' = Inventory(sets, classic)
    /\ UNCHANGED <<sets, classic, canary, plan>>

PassCanary ==
    /\ Between
    /\ canary # head /\ canary' = head
    /\ UNCHANGED <<sets, classic, approved, plan>>

FollowPlan ==
    /\ Between
    /\ plan # NoPlan /\ plan.pre.sets = sets /\ plan.pre.classic = classic
    /\ sets' = plan.post.sets /\ classic' = plan.post.classic
    /\ UNCHANGED <<canary, approved, plan>>

Edits(r) == {[r EXCEPT !.active = ~@], [r EXCEPT !.checks = @ \ {"v1"}],
             [r EXCEPT !.ref = "barred"], Gone}

\* The code looks last at the target, before it at the v2 ruleset that is to
\* replace it, and before that at the canary.
AfterLastLook(part) ==
    \E k \in DOMAIN todo :
        /\ todo[k] = "put"
        /\ k <= CASE part = Ruleset(mem.target) -> 1
                  [] part = Ruleset(mem.gate) -> 2
                  [] part = Part("canary") -> 4
                  [] OTHER -> 0

\* Others change one part.
Disturb(part) ==
    /\ todo # <<>> /\ churn < MaxChurn
    /\ churn' = churn + 1
    /\ touched' = touched \cup {part} /\ again' = (again \/ part \in touched)
    /\ gap' = IF AfterLastLook(part) THEN gap \cup {part} ELSE gap
    /\ instants' = instants \cup {State'}
    /\ UNCHANGED <<owner, cmd, apply, todo, mem, outcome, runs, put>>

EditRuleset ==
    \E i \in Live(sets) : \E r \in Edits(sets[i]) \ {sets[i]} :
        /\ sets' = [sets EXCEPT ![i] = r]
        /\ UNCHANGED <<head, classic, canary>>
        /\ Disturb(Ruleset(i))

AddRuleset ==
    /\ sets' = Append(sets, Staged)
    /\ UNCHANGED <<head, classic, canary>>
    /\ Disturb(Ruleset(Len(sets) + 1))

MoveHead ==
    /\ head' \in Tips \ {head}
    /\ UNCHANGED <<sets, classic, canary>>
    /\ Disturb(Part("head"))

ChangeClassic ==
    /\ classic' = ~classic
    /\ UNCHANGED <<sets, head, canary>>
    /\ Disturb(Part("classic"))

SpoilCanary ==
    /\ canary # 0 /\ canary' = 0
    /\ UNCHANGED <<sets, head, classic>>
    /\ Disturb(Part("canary"))

\* Where a command may find the repository: not begun, staged, on, on under
\* another name, half staged.
Drafts == {<<>>, <<Staged>>, <<[Staged EXCEPT !.active = TRUE]>>,
           <<[Staged EXCEPT !.active = TRUE, !.name = "gate"]>>,
           <<[Staged EXCEPT !.checks = {"v1"}, !.ref = "elsewhere", !.bypass = TRUE]>>}

\* One complication at a time: CODEOWNERS with other owners, classic protection
\* that requires the legacy status, a legacy ruleset with nothing else in it.
Complications == {"none", "unmanaged", "classic", "dedicated"}

Init ==
    /\ profile \in {"full", "status-only"}
    /\ \E v2 \in Drafts, with \in Complications :
           /\ sets = <<IF with = "dedicated" THEN Legacy
                      ELSE [Legacy EXCEPT !.rules = @ \cup {"deletion"}]>> \o v2
           /\ unmanaged = (with = "unmanaged")
           /\ classic = (with = "classic")
    /\ head = 1 /\ canary = 1
    /\ approved = Inventory(sets, classic) /\ plan = NoPlan
    /\ cmd = "stage" /\ apply = FALSE /\ todo = <<>> /\ mem = Empty
    /\ outcome = "none" /\ runs = 0 /\ churn = 0
    /\ touched = {} /\ again = FALSE /\ gap = {} /\ instants = {} /\ put = NoPut

Next ==
    \/ Command \/ Step \/ Fail
    \/ ApproveInventory \/ PassCanary \/ FollowPlan
    \/ EditRuleset \/ AddRuleset \/ MoveHead \/ ChangeClassic \/ SpoilCanary

Spec == Init /\ [][Next]_vars

-----------------------------------------------------------------------------
(* Properties.                                                             *)

\* Something on the default branch requires a review.
Gated(s, c) == c \/ Effective(s) # {} \/ LegacyIds(s) # {}

\* No write of a command, whether its answer arrives or not, leaves a
\* repository without a gate that had one, unless others changed a ruleset it
\* is about since its last look (the code documents that gap: there is no
\* conditional write).
WritesKeepTheGate ==
    [][(todo # <<>> /\ todo' # todo /\ Gated(sets, classic)
        /\ ~\E i \in {mem.target, mem.gate} : Ruleset(i) \in gap)
       => Gated(sets', classic')]_vars

\* A reported write was made on what the command had checked.  As long as no
\* part changed twice, the tip and the legacy inventory at the very moment of
\* the write were the ones of the first snapshot and of the owner's approval;
\* an activation turned on exactly what was staged, with a canary that had
\* passed on that tip, except for a change in the last gap.
WriteWasChecked ==
    outcome = "done" /\ ~again =>
        /\ <<put.head, put.classic>> = mem.snap
        /\ Inventory(put.sets, put.classic) = put.approved
        /\ cmd = "activate" =>
               /\ \/ put.sets[mem.target] = [mem.payload EXCEPT !.active = FALSE]
                  \/ Ruleset(mem.target) \in put.gap
               /\ put.canary = put.head \/ Part("canary") \in put.gap

\* What a derivation, a verification or a proof attests was once true at one
\* instant of the command, although it is read piece by piece, as long as no
\* part changed twice.
AttestedWasReal ==
    outcome \in {"derived", "verified", "proved"} /\ ~again => mem.pair \in instants

=============================================================================
