---------------------------- MODULE ReleasePublisher ---------------------------
(***************************************************************************)
(* The publication of a release of the action:                             *)
(* scripts/release-action-subtree.sh --publish, run by                     *)
(* .github/workflows/sync-action-subtree.yml.                              *)
(*                                                                         *)
(* A run brings master of the target repository, the immutable tag, the    *)
(* GitHub Release with its three assets, and the floating major tag, one   *)
(* after the other, to where a release intent wants them.  Nothing is kept *)
(* between runs: each begins by reading how far an earlier one came.  Runs *)
(* are serial (one concurrency group, which cancels nothing), but any may  *)
(* be killed between two requests, the answer of a write may be lost, a    *)
(* write given up may still take effect during a later run, a new Draft    *)
(* may be missing from the list of Releases, and people may edit a Draft.  *)
(*                                                                         *)
(* Simplifications.  A version stands for its release intent, and for the  *)
(* commit made of it: two runs that make it make the same tree.  All       *)
(* versions have one major number.  Two equal reads in a row are one read. *)
(* The policies of the target (rulesets, immutable Releases, signer) never *)
(* change, and which Release is the latest is not modelled.                *)
(***************************************************************************)
EXTENDS Naturals, FiniteSets

CONSTANTS
    LastVersion,   \* bound: release intents
    MaxRuns,       \* bound: runs
    MaxLost,       \* bound: writes with a lost answer
    MaxChurn       \* bound: edits of a Draft by people

ASSUME BoundsAssumption ==
    LastVersion \in Nat \ {0} /\ MaxRuns \in Nat /\ MaxLost \in Nat /\ MaxChurn \in Nat

Versions == 1..LastVersion
Base == 0          \* the history the target had before
Runs == 1..MaxRuns

VARIABLES
    intents,   \* the release manifest of each version
    source,    \* the newest intent on master of the source repository
    target,    \* the target repository
    listed,    \* the Releases that the list of Releases shows
    late,      \* writes given up that may still take effect
    posts,     \* how often a Draft of a version was asked for
    run,       \* the run
    used       \* how much of the bounds is used up

vars == <<intents, source, target, listed, late, posts, run, used>>

-----------------------------------------------------------------------------
(* The target repository.                                                  *)

\* An asset: who uploaded it, and the run whose provenance it holds (2) or signs (3).
Names == 1..3
NoAsset == [state |-> "none", by |-> 0, of |-> 0]
\* A Release is known by the run that made it.  alien: something the publisher
\* would not have done was done to it.
NoRelease ==
    [version |-> Base, phase |-> "none", assets |-> [k \in Names |-> NoAsset], alien |-> FALSE]

Refs == [master |-> target.master, tag |-> target.tag, alias |-> target.alias]

\* The history a master with this commit has.
History[v \in 0..LastVersion] ==
    IF v = Base THEN {Base} ELSE {v} \cup History[intents[v].parent]
Contains(m, v) == v \in History[m]
Stable(v) == ~intents[v].prerelease

Uploaded(r) == {k \in Names : r.assets[k].state = "uploaded"}
Starters(r) == {k \in Names : r.assets[k].state = "starter"}
\* valid_release_asset_prefix.
Prefix(r) == \E n \in 0..3 : Uploaded(r) = 1..n
\* verifyPublishedAssets, and the signature.
Signed(r) == 3 \in Uploaded(r) => r.assets[3].of = r.assets[2].of
Whole(r) == Uploaded(r) = Names /\ Signed(r) /\ ~r.alien
\* validate_completed_release_state: by its tag, which shows published Releases only.
Complete(v) ==
    \E i \in Runs : LET r == target.releases[i]
                    IN  r.version = v /\ r.phase = "published" /\ Whole(r)

-----------------------------------------------------------------------------
(* Writes.                                                                 *)

\* What a write does.  git refuses a push that is not from what the remote has; a
\* Release takes one asset of each name, and none once it is published.
Applied(w) ==
    LET r == target.releases[w.id]
        with(new) == [target EXCEPT !.releases[w.id] = new]
    IN  CASE w.op = "master" /\ target.master = intents[w.version].parent ->
                [target EXCEPT !.master = w.version]
          [] w.op = "tag" /\ target.tag[w.version] = 0 ->
                [target EXCEPT !.tag[w.version] = w.id]
          [] w.op = "create" ->
                with([NoRelease EXCEPT !.version = w.version, !.phase = "draft"])
          [] w.op = "delete" /\ r.assets[w.asset] = w.content ->
                with([r EXCEPT !.assets[w.asset] = NoAsset])
          [] w.op = "upload" /\ r.phase = "draft" /\ r.assets[w.asset] = NoAsset ->
                with([r EXCEPT !.assets[w.asset] = w.content])
          [] w.op = "publish" /\ r.phase = "draft" ->
                with([r EXCEPT !.phase = "published"])
          [] w.op = "alias" /\ target.alias = w.content ->
                [target EXCEPT !.alias = [version |-> w.version, by |-> w.id]]
          [] OTHER -> target

\* An upload that breaks off leaves an empty starter.
Half(w) ==
    IF w.op = "upload" THEN {Applied([w EXCEPT !.content.state = "starter"])} ELSE {}

-----------------------------------------------------------------------------
(* The run.                                                                *)

Idle == [pc |-> "idle"]
Active == run.pc \notin {"idle", "over"}
At(pc) == run.pc = pc
To(pc) == [run EXCEPT !.pc = pc]
\* Only what the properties ask about is left of a run that is over.
Over(outcome) ==
    [pc |-> "over", outcome |-> outcome, version |-> run.version, selector |-> run.selector,
     admission |-> run.admission, calm |-> run.calm]
Refused == Over("refused")

this == run.version
parent == intents[this].parent
tagSeen == run.refs.tag[this] # 0

\* A step that reads: the run goes on, or it ends.
Read(pc, ok, next) ==
    /\ At(pc) /\ run' = (IF ok THEN next ELSE Refused)
    /\ UNCHANGED <<intents, source, target, listed, late, posts, used>>

Request(op, id, asset, content) ==
    [op |-> op, version |-> this, id |-> id, asset |-> asset, content |-> content]

\* A step that writes.  When no answer comes, it was done, half done or not, or is
\* still to be done.
Write(pc, w, answered, unanswered) ==
    /\ At(pc)
    /\ \/ /\ Applied(w) # target /\ target' = Applied(w)
          /\ run' = answered /\ UNCHANGED <<late, used>>
       \/ /\ Applied(w) = target
          /\ run' = unanswered /\ UNCHANGED <<target, late, used>>
       \/ /\ used.lost < MaxLost /\ used' = [used EXCEPT !.lost = @ + 1]
          /\ run' = [unanswered EXCEPT !.calm = FALSE]
          /\ \/ target' \in {target, Applied(w)} \cup Half(w) /\ UNCHANGED late
             \/ late' = late \cup {w} /\ UNCHANGED target
    /\ UNCHANGED <<intents, source, listed>>

\* verify_final_policy_fence.
Fence == source = run.live
\* require_publication_mutation.
May(class) ==
    /\ \/ run.admission = "eligible"
       \/ run.stale /\ class \in {"tag", "release", "alias"}
    /\ Fence

-----------------------------------------------------------------------------
(* Reading how far earlier runs came.                                      *)

Inventory == [i \in Runs |-> IF i \in listed THEN target.releases[i] ELSE NoRelease]
Of(inventory, w) == {i \in Runs : inventory[i].version = w}

\* What may be written: a later intent, or a change of the publisher's own controls,
\* has come since the approval or not.
Admissions(w) == {IF w = source THEN "eligible" ELSE "superseded", "drifted"}

\* The workflow dispatches an intent that is on source master, perhaps with the id
\* of a Draft that the operator found.
Dispatch ==
    /\ ~Active /\ used.runs < MaxRuns
    /\ \E w \in 1..source, selector \in {0} \cup {i \in Runs : target.releases[i] # NoRelease} :
       \E admission \in Admissions(w) :
        run' = [pc |-> "clone", n |-> used.runs + 1, version |-> w, selector |-> selector,
                admission |-> admission, live |-> source, refs |-> Refs, print |-> Refs,
                inventory |-> [i \in Runs |-> NoRelease], id |-> 0, boundary |-> NoRelease,
                provenance |-> 0, stale |-> FALSE, fresh |-> FALSE, superseded |-> FALSE,
                calm |-> TRUE]
    /\ used' = [used EXCEPT !.runs = @ + 1]
    /\ UNCHANGED <<intents, source, target, listed, late, posts>>

Clone == Read("clone", TRUE, [run EXCEPT !.pc = "list", !.refs = Refs])

\* audit_release_inventory.
InventoryOk(refs, inventory) ==
    \A w \in Versions :
        Of(inventory, w) # {} => Cardinality(Of(inventory, w)) = 1 /\ refs.tag[w] # 0
List ==
    Read("list", InventoryOk(run.refs, Inventory),
         [run EXCEPT !.pc = "audit", !.inventory = Inventory, !.print = Refs])

\* audit_release_history: older and later releases are complete.
HistoryOkButOlder(refs) ==
    \A w \in Versions \ {this} :
        refs.tag[w] # 0 => Contains(refs.master, w) /\ (w < this \/ Complete(w))
HistoryOk(refs) ==
    \A w \in Versions \ {this} : refs.tag[w] # 0 => Contains(refs.master, w) /\ Complete(w)
Later(refs) == {w \in Versions : w > this /\ refs.tag[w] # 0}
Highest(versions) == {w \in versions : \A x \in versions : x <= w}
HighestStable(refs) == Highest({w \in Later(refs) : Stable(w)})
AliasAtHighest ==
    Stable(this) => \A w \in HighestStable(run.refs) : run.refs.alias.version = w
Audit == Read("audit", HistoryOk(run.refs) /\ AliasAtHighest, To("start"))

Begun == tagSeen \/ run.refs.master = this
\* The previous release is where the intent expects it.
FollowsOn ==
    /\ run.refs.master = parent
    /\ parent # Base => /\ run.refs.tag[parent] # 0
                        /\ Stable(parent) => run.refs.alias.version = parent
InPlace ==
    IF tagSeen
    THEN Contains(run.refs.master, this) /\ (run.refs.master = this \/ Later(run.refs) # {})
    ELSE Begun \/ FollowsOn
\* A later release took its place before it was begun.
Overtaken == ~Begun /\ run.refs.master # parent

Start ==
    /\ At("start") /\ ~Overtaken
    /\ Read("start", InPlace,
            [run EXCEPT !.pc = "select", !.stale = Begun /\ run.admission = "superseded"])

Overtake ==
    /\ At("start") /\ Overtaken
    /\ LET later == {w \in Later(run.refs) :
                        Contains(run.refs.master, w) /\ (Stable(this) => Stable(w))}
           reached(w) == Stable(w) => Contains(run.refs.alias.version, w)
       IN  \/ later = {} /\ run' = Refused
           \/ \E w \in later : run' = IF reached(w) /\ Fence THEN Over("superseded") ELSE Refused
    /\ UNCHANGED <<intents, source, target, listed, late, posts, used>>

\* How the floating alias is to move.
AliasMode ==
    LET at == run.refs.alias.version
    IN  IF ~Stable(this) THEN "none"
        ELSE IF at = this THEN "current"
        ELSE IF Contains(at, this) THEN "passed"
        ELSE IF Contains(this, at) THEN "forward" ELSE "aside"

\* The Release of an earlier run, from the list or, at the operator's word, by its id.
SelectedId ==
    IF run.selector # 0 THEN run.selector
    ELSE IF Of(run.inventory, this) = {} THEN 0 ELSE CHOOSE i \in Of(run.inventory, this) : TRUE
Selected ==
    CASE run.selector # 0 -> target.releases[run.selector]
      [] SelectedId = 0 -> NoRelease
      [] OTHER -> run.inventory[SelectedId]
SelectorOk ==
    run.selector # 0 =>
        /\ Selected.version = this /\ Selected.phase = "draft"
        /\ Of(run.inventory, this) \subseteq {run.selector}
SelectedOk ==
    Selected.version # Base =>
        /\ tagSeen /\ ~Selected.alien
        /\ Prefix(Selected) /\ Cardinality(Starters(Selected)) <= 1 /\ Signed(Selected)
        /\ Selected.phase = "published" => Uploaded(Selected) = Names

\* Provenance uploaded by an earlier run is kept.
ProvenanceAnew(r) == run.n
Provenance(r) == IF 2 \in Uploaded(r) THEN r.assets[2].of ELSE run.n

Select ==
    LET complete == Selected.phase = "published"
        ok == /\ SelectorOk /\ SelectedOk
              /\ CASE AliasMode = "passed" -> complete /\ Complete(run.refs.alias.version)
                   [] AliasMode = "current" -> complete
                   [] OTHER -> AliasMode # "aside"
        nothing == ~complete /\ run.admission # "eligible" /\ ~run.stale
    IN  Read("select", ok,
             [run EXCEPT !.pc = "again", !.id = SelectedId, !.boundary = Selected,
                         !.provenance = Provenance(Selected),
                         !.superseded = AliasMode = "passed" \/ nothing])

InventoryUnchanged == Inventory = run.inventory

\* Everything once more before the first write.
Again ==
    Read("again",
         /\ Fence /\ Refs = run.print
         /\ InventoryUnchanged /\ InventoryOk(Refs, Inventory) /\ HistoryOk(Refs)
         /\ Highest(Later(Refs)) = Highest(Later(run.refs))
         /\ HighestStable(Refs) = HighestStable(run.refs)
         /\ Refs.master = run.refs.master /\ Refs.tag[this] = run.refs.tag[this]
         /\ Stable(this) => Refs.alias = run.refs.alias,
         IF run.superseded THEN Over("superseded") ELSE To("master"))

-----------------------------------------------------------------------------
(* The refs.                                                               *)

CheckMaster ==
    LET needed == ~Contains(run.refs.master, this)
    IN  Read("master", needed => May("master"), To(IF needed THEN "push master" ELSE "tag"))
PushMaster ==
    /\ Write("push master", Request("master", run.n, 0, 0), To("tag"), Refused)
    /\ UNCHANGED posts

CheckTag ==
    Read("tag", tagSeen \/ (target.master = this /\ May("tag")),
         To(IF tagSeen THEN "release" ELSE "push tag"))
PushTag ==
    /\ Write("push tag", Request("tag", run.n, 0, 0), To("tagged"), Refused)
    /\ UNCHANGED posts
\* Only the run that made the tag may make the Draft.
Tagged ==
    Read("tagged", target.tag[this] = run.n, [run EXCEPT !.pc = "release", !.fresh = TRUE])

-----------------------------------------------------------------------------
(* The Release.                                                            *)

\* capture_release_boundary, and advance_release_boundary from what is expected.
Is(boundary) == target.releases[run.id] = boundary

Adopt ==
    LET r == target.releases[run.id]
    IN  /\ At("release") /\ run.id # 0
        /\ Read("release",
                /\ r.phase = run.boundary.phase /\ r.version = this /\ ~r.alien
                /\ Starters(run.boundary) = {} => Starters(r) = {}
                /\ run.selector # 0 => r = run.boundary,
                [run EXCEPT !.pc = "starter", !.boundary = r])

MayCreateIfAbsent == TRUE
MayCreate == run.fresh
Absent ==
    /\ At("release") /\ run.id = 0
    /\ Read("release", Of(Inventory, this) = {} /\ MayCreate /\ May("release"), To("create"))

\* The answer, when there is one, is the receipt.
Create ==
    /\ Write("create", Request("create", run.n, 0, 0),
             [run EXCEPT !.pc = "starter", !.id = run.n,
                         !.boundary = [NoRelease EXCEPT !.version = this, !.phase = "draft"]],
             To("created"))
    /\ posts' = [posts EXCEPT ![this] = @ + 1]
Created ==
    LET found == Of(Inventory, this)
        id == CHOOSE i \in found : TRUE
        r == target.releases[id]
    IN  Read("created",
             /\ Cardinality(found) = 1
             /\ r.phase = "draft" /\ ~r.alien /\ \A k \in Names : r.assets[k] = NoAsset,
             [run EXCEPT !.pc = "starter", !.id = id, !.boundary = r])

\* An upload that broke off is cleared away, when it is the next asset.
CheckStarter ==
    Read("starter",
         /\ Cardinality(Starters(run.boundary)) <= 1
         /\ \A k \in Starters(run.boundary) :
                Uploaded(run.boundary) = 1..(k - 1) /\ May("release") /\ Is(run.boundary),
         To(IF Starters(run.boundary) # {} THEN "delete" ELSE "existing"))
Starter == CHOOSE k \in Names : k \in Starters(run.boundary)
Without == [run.boundary EXCEPT !.assets[Starter] = NoAsset]
DeleteStarter ==
    /\ Write("delete", Request("delete", run.id, Starter, run.boundary.assets[Starter]),
             To("deleted"), To("deleted"))
    /\ UNCHANGED posts
Deleted == Read("deleted", Is(Without), [run EXCEPT !.pc = "existing", !.boundary = Without])

\* What is there is compared byte by byte with what is to be there.
Existing ==
    Read("existing",
         /\ \A k \in Uploaded(run.boundary) \ {1} : run.boundary.assets[k].of = run.provenance
         /\ run.boundary.phase = "draft" \/ Uploaded(run.boundary) = Names
         /\ Is(run.boundary),
         To("upload"))

Missing == Names \ Uploaded(run.boundary)
Next3 == CHOOSE k \in Missing : \A j \in Missing : k <= j
Asset == [state |-> "uploaded", by |-> run.n, of |-> IF Next3 = 1 THEN 0 ELSE run.provenance]
With == [run.boundary EXCEPT !.assets[Next3] = Asset]
CheckUpload ==
    Read("upload", Missing # {} => Is(run.boundary) /\ May("release"),
         To(IF Missing # {} THEN "post" ELSE "publish"))
Upload ==
    /\ Write("post", Request("upload", run.id, Next3, Asset), To("uploaded"), Refused)
    /\ UNCHANGED posts
UploadedOne == Read("uploaded", Is(With), [run EXCEPT !.pc = "upload", !.boundary = With])

\* GitHub has no conditional PATCH: a change after this look is published.
CheckPublish ==
    LET draft == run.boundary.phase = "draft"
    IN  Read("publish", (draft => May("release")) /\ Is(run.boundary),
             To(IF draft THEN "patch" ELSE "verify"))
Publish ==
    /\ Write("patch", Request("publish", run.id, 0, 0), To("published"), Refused)
    /\ UNCHANGED posts
Out == [run.boundary EXCEPT !.phase = "published"]
Published == Read("published", Is(Out), [run EXCEPT !.pc = "verify", !.boundary = Out])

\* Downloaded and compared once more, now that it cannot change.
Verify ==
    Read("verify", Is(run.boundary) /\ Whole(run.boundary),
         To(CASE AliasMode = "none" -> "finish" [] AliasMode = "forward" -> "alias"
              [] OTHER -> "aliased"))

-----------------------------------------------------------------------------
(* The floating alias.                                                     *)

CheckAlias ==
    Read("alias", target.alias = run.refs.alias /\ May("alias") /\ Is(run.boundary), To("move"))
MoveAlias ==
    /\ Write("move", Request("alias", run.n, 0, run.refs.alias), To("aliased"), Refused)
    /\ UNCHANGED posts
Aliased ==
    LET planned ==
            IF AliasMode = "forward" THEN [version |-> this, by |-> run.n] ELSE run.refs.alias
    IN  Read("aliased", target.alias = planned /\ Is(run.boundary), To("finish"))
Finish == Read("finish", Fence, Over("complete"))

-----------------------------------------------------------------------------
(* Everybody else.                                                         *)

\* What others do disturbs the run, or comes after it.
Meanwhile == run' = IF Active THEN [run EXCEPT !.calm = FALSE] ELSE Idle

\* External: a later release intent lands on source master.
Intend ==
    /\ source < LastVersion /\ source' = source + 1
    /\ Meanwhile /\ UNCHANGED <<intents, target, listed, late, posts, used>>

\* External: the list of Releases catches up.
Surface ==
    /\ \E i \in Runs \ listed : target.releases[i] # NoRelease /\ listed' = listed \cup {i}
    /\ Meanwhile /\ UNCHANGED <<intents, source, target, late, posts, used>>

\* External: a write that was given up takes effect, or never will.
Land ==
    /\ \E w \in late : late' = late \ {w} /\ target' \in {target, Applied(w)}
    /\ Meanwhile /\ UNCHANGED <<intents, source, listed, posts, used>>

\* External: somebody edits a Draft, repairs it, or deletes it.
Edit ==
    /\ used.churn < MaxChurn /\ used' = [used EXCEPT !.churn = @ + 1]
    /\ \E i \in Runs :
        /\ target.releases[i].phase = "draft"
        /\ \/ target' = [target EXCEPT !.releases[i].alien = ~@] /\ UNCHANGED listed
           \/ target' = [target EXCEPT !.releases[i] = NoRelease] /\ listed' = listed \ {i}
    /\ Meanwhile /\ UNCHANGED <<intents, source, late, posts>>

\* External: the run is killed, or cannot read something.
Kill ==
    /\ Active /\ run' = Idle
    /\ UNCHANGED <<intents, source, target, listed, late, posts, used>>

-----------------------------------------------------------------------------

Init ==
    /\ intents \in {f \in [Versions -> [parent : 0..LastVersion, prerelease : BOOLEAN]] :
                       \A w \in Versions : f[w].parent < w}
    /\ source = 1
    /\ target = [master |-> Base, tag |-> [w \in Versions |-> 0],
                 alias |-> [version |-> Base, by |-> 0],
                 releases |-> [i \in Runs |-> NoRelease]]
    /\ listed = {} /\ late = {} /\ posts = [w \in Versions |-> 0] /\ run = Idle
    /\ used = [runs |-> 0, lost |-> 0, churn |-> 0]

Reading == Dispatch \/ Clone \/ List \/ Audit \/ Start \/ Overtake \/ Select \/ Again
Pushing == CheckMaster \/ PushMaster \/ CheckTag \/ PushTag \/ Tagged
Releasing ==
    \/ Adopt \/ Absent \/ Create \/ Created \/ CheckStarter \/ DeleteStarter \/ Deleted
    \/ Existing \/ CheckUpload \/ Upload \/ UploadedOne \/ CheckPublish \/ Publish \/ Published
    \/ Verify
Aliasing == CheckAlias \/ MoveAlias \/ Aliased \/ Finish
Others == Intend \/ Surface \/ Land \/ Edit \/ Kill

Next == Reading \/ Pushing \/ Releasing \/ Aliasing \/ Others

Spec == Init /\ [][Next]_vars

-----------------------------------------------------------------------------
(* Properties.                                                             *)

\* However runs are killed, answers lost and lists late, at most one Draft is ever
\* asked for, so that at most one Release claims the tag of a version.
CreatedOnce ==
    \A w \in Versions : posts[w] <= 1 /\ Cardinality(Of(target.releases, w)) <= 1

\* Target master never runs ahead of an unfinished release: all but its newest are
\* complete with the alias at them or past them, and the alias names a complete one
\* of its history.
NoneLeftBehind ==
    /\ \A w \in History[target.master] \ {Base, target.master} :
        Complete(w) /\ (Stable(w) => Contains(target.alias.version, w))
    /\ target.alias.version # Base =>
        Complete(target.alias.version) /\ Contains(target.master, target.alias.version)

\* Why a run that nothing disturbed may still refuse to go on: what it needs is hidden
\* or gone, somebody else changed it, the operator named the wrong one or changed the
\* publisher's controls, or another release is in the way.
Excused ==
    LET w == run.version
        mine == Of(target.releases, w)
        before == intents[w].parent
        tagged(x) == target.tag[x] # 0
    IN  \/ run.admission = "drifted"
        \/ tagged(w) /\ \A i \in mine : i \notin listed /\ i # run.selector
        \/ /\ run.selector # 0
           /\ run.selector \notin mine \/ target.releases[run.selector].phase # "draft"
        \/ \E i \in Runs : target.releases[i].alien
        \/ \E x \in Versions \ {w} : (tagged(x) \/ target.master = x) /\ ~Complete(x)
        \/ ~Contains(target.master, w) /\ target.master # before
        \/ /\ target.master = before /\ before # Base
           /\ tagged(before) => Stable(before) /\ target.alias.version # before
        \/ \E x \in Versions : x > w /\ tagged(x) /\ Stable(x) /\ ~Contains(target.alias.version, x)

\* Whatever earlier runs left behind, a run that nothing disturbs takes it up and
\* finishes it, unless it is excused.
TakesUpWhereLeft ==
    run.pc = "over" /\ run.outcome = "refused" /\ run.calm => Excused

=============================================================================
