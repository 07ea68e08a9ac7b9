------------------------- MODULE ReleasePublisher_proofs ------------------------
(***************************************************************************)
(* Proofs about the publication of a release.                              *)
(*                                                                         *)
(* The history of a commit is a recursive function: it is shown to exist   *)
(* (HistoryIs), to be reflexive and to be transitive.  The target only     *)
(* ever moves forward (Forward): master and the alias to a descendant, a   *)
(* tag from nothing, and a complete release stays.  Every write of a run,  *)
(* sent or given up, is Sound: what justified it when it was decided still *)
(* does, because the target has only moved forward since.                  *)
(*                                                                         *)
(* That a run takes up where an earlier one left rests on three more parts *)
(* of the invariant.  Left: whatever was broken off, Releases are shaped   *)
(* as the publisher leaves them, and a write given up fits.  Kept: the run *)
(* holds what is uploaded to its Draft.  Calm: under a run that nothing    *)
(* disturbs only its own writes, each done at once, change what it has     *)
(* read.  Without an excuse every test of such a run then succeeds.        *)
(***************************************************************************)
EXTENDS ReleasePublisher, FiniteSetTheorems, WellFoundedInduction, TLAPS

-----------------------------------------------------------------------------
(* Types.                                                                  *)

Intents ==
    {f \in [Versions -> [parent : 0..LastVersion, prerelease : BOOLEAN]] :
        \A w \in Versions : f[w].parent < w}
Assets == [state : {"none", "starter", "uploaded"}, by : 0..MaxRuns, of : 0..MaxRuns]
Releases ==
    [version : 0..LastVersion, phase : {"none", "draft", "published"},
     assets : [Names -> Assets], alien : BOOLEAN]
Aliases == [version : 0..LastVersion, by : 0..MaxRuns]
ManyRefs == [master : 0..LastVersion, tag : [Versions -> 0..MaxRuns], alias : Aliases]
Targets ==
    [master : 0..LastVersion, tag : [Versions -> 0..MaxRuns], alias : Aliases,
     releases : [Runs -> Releases]]
Operations == {"master", "tag", "create", "delete", "upload", "publish", "alias"}
IsWrite(w) ==
    /\ w = [op |-> w.op, version |-> w.version, id |-> w.id, asset |-> w.asset,
            content |-> w.content]
    /\ w.op \in Operations /\ w.version \in Versions /\ w.id \in Runs

\* The steps of a run, by how far it has come.
UpToAudit == {"clone", "list", "audit"}
UpToMaster == {"select", "again", "master"}
WithTag == {"push tag", "tagged", "release"}
WithRelease ==
    {"starter", "delete", "deleted", "existing", "upload", "post", "uploaded", "publish",
     "patch", "published", "verify", "alias", "move", "aliased", "finish"}
UpToCreate ==
    UpToAudit \cup {"start"} \cup UpToMaster \cup {"push master", "tag"} \cup WithTag
    \cup {"create"}
Steps == UpToCreate \cup {"created"} \cup WithRelease
AfterStart == Steps \ (UpToAudit \cup {"start"})
AfterTag == WithTag \cup {"create", "created"} \cup WithRelease

ActiveRuns ==
    [pc : Steps, n : Runs, version : Versions, selector : 0..MaxRuns,
     admission : {"eligible", "superseded", "drifted"}, live : Versions,
     refs : ManyRefs, print : ManyRefs, inventory : [Runs -> Releases], id : 0..MaxRuns,
     boundary : Releases, provenance : 0..MaxRuns, stale : BOOLEAN, fresh : BOOLEAN,
     superseded : BOOLEAN, calm : BOOLEAN]
EndedRuns ==
    [pc : {"over"}, outcome : {"refused", "superseded", "complete"}, version : Versions,
     selector : 0..MaxRuns, admission : {"eligible", "superseded", "drifted"}, calm : BOOLEAN]

TypeInv ==
    /\ intents \in Intents
    /\ source \in Versions
    /\ target \in Targets
    /\ listed \in SUBSET Runs
    /\ \A w \in late : IsWrite(w)
    /\ posts \in [Versions -> Nat]
    /\ run \in {Idle} \cup EndedRuns \cup ActiveRuns
    /\ used \in [runs : 0..MaxRuns, lost : 0..MaxLost, churn : 0..MaxChurn]

-----------------------------------------------------------------------------
(* The invariant.                                                          *)

\* A version whose parent has been left as the next intent wants it.
Justified(v) ==
    intents[v].parent # Base =>
        /\ Complete(intents[v].parent)
        /\ Stable(intents[v].parent) => Contains(target.alias.version, intents[v].parent)

\* A write that keeps the target as it has to be, whenever it takes effect.
Sound(w) ==
    /\ IsWrite(w)
    /\ w.op \in {"tag", "create"} => w.id <= used.runs
    /\ w.op = "master" => Justified(w.version)
    /\ w.op = "create" =>
          target.tag[w.version] = w.id /\ target.releases[w.id] = NoRelease
    /\ w.op = "delete" => w.asset \in Names /\ w.content \in Assets /\ w.content.state = "starter"
    /\ w.op = "upload" => w.asset \in Names /\ w.content \in Assets
    /\ w.op = "alias" =>
          /\ w.content \in Aliases /\ Contains(w.version, w.content.version)
          /\ Complete(w.version) /\ Contains(target.master, w.version)

LateSound == \A w \in late : Sound(w)
\* A Draft is asked for once, and only by the run that made the tag.
OneCreate ==
    \A w, x \in late : w.op = "create" /\ x.op = "create" /\ w.id = x.id => w = x
TaggedBefore == \A v \in Versions : target.tag[v] <= used.runs
MadeByTagger == \A i \in Runs :
    LET r == target.releases[i]
    IN  /\ r.version = Base <=> r = NoRelease
        /\ r.version # Base => target.tag[r.version] = i /\ r.phase # "none"
PostedOnce == \A v \in Versions : posts[v] = 0 \/ (posts[v] = 1 /\ target.tag[v] # 0)

\* What the run has not done yet.
NotYetCreated ==
    Active /\ run.pc \in UpToCreate =>
        /\ target.releases[run.n] = NoRelease
        /\ \A w \in late : w.op = "create" => w.id # run.n
        /\ target.tag[this] = run.n => posts[this] = 0
OwnTag ==
    Active =>
        /\ run.n = used.runs
        /\ run.fresh => target.tag[this] = run.n
        /\ run.pc = "create" => run.fresh

\* What the run has read is behind the target, and what it has made sure of holds.
ReadBefore ==
    Active => /\ Contains(target.master, run.refs.master)
              /\ Contains(target.alias.version, run.refs.alias.version)
Audited ==
    Active /\ run.pc \notin UpToAudit =>
        \A w \in Versions \ {this} : run.refs.tag[w] # 0 => Complete(w)
Started == Active /\ run.pc \in AfterStart => InPlace
Pushing1 == run.pc = "push master" => ~Contains(run.refs.master, this)
OnMaster == Active /\ run.pc \in AfterTag => Contains(target.master, this)
Boundary ==
    Active /\ run.pc \in WithRelease =>
        /\ run.id \in Runs
        /\ run.boundary.version = this /\ run.boundary.phase # "none"
        /\ run.pc = "verify" => run.boundary.phase = "published"
        /\ run.pc \in {"delete", "deleted"} => Starters(run.boundary) # {}
        /\ run.pc \in {"post", "uploaded"} => Missing # {}
Verified == run.pc \in {"alias", "move"} => Complete(this) /\ AliasMode = "forward"

WritesInv == LateSound /\ OneCreate
TargetInv == TaggedBefore /\ MadeByTagger /\ PostedOnce /\ NoneLeftBehind
RunInv ==
    /\ NotYetCreated /\ OwnTag
    /\ ReadBefore /\ Audited /\ Started /\ Pushing1 /\ OnMaster /\ Boundary /\ Verified
Inv == TypeInv /\ WritesInv /\ TargetInv /\ RunInv

-----------------------------------------------------------------------------
(* The history of a commit.                                                *)

LEMMA Numbers == Base \notin Versions /\ \A v \in 0..LastVersion : v # Base <=> v \in Versions
BY BoundsAssumption DEF Base, Versions

LEMMA Ranges ==
    /\ \A v \in Versions : v \in 0..LastVersion
    /\ \A n \in Runs : n \in 0..MaxRuns /\ n # 0
BY BoundsAssumption DEF Versions, Runs

\* A commit and the parents of what is in the set.
Ancestors(v) ==
    {u \in 0..LastVersion :
        \A S \in SUBSET (0..LastVersion) :
            v \in S /\ (\A w \in S \ {Base} : intents[w].parent \in S) => u \in S}

LEMMA AncestorsStep ==
    ASSUME intents \in Intents, NEW v \in 0..LastVersion
    PROVE  /\ v # Base => Ancestors(v) = {v} \cup Ancestors(intents[v].parent)
           /\ v = Base => Ancestors(v) = {Base}
<1> USE BoundsAssumption DEF Base, Versions, Intents
<1>1. CASE v = Base
  <2>1. {Base} \in SUBSET (0..LastVersion)
    OBVIOUS
  <2>2. Ancestors(v) \subseteq {Base}
    BY <1>1, <2>1 DEF Ancestors
  <2>3. QED
    BY <1>1, <2>2 DEF Ancestors
<1>2. CASE v # Base
  <2> DEFINE p == intents[v].parent
  <2>1. p \in 0..LastVersion
    BY <1>2
  <2>2. v \in Ancestors(v)
    BY DEF Ancestors
  <2>3. ASSUME NEW u \in Ancestors(p) PROVE u \in Ancestors(v)
    BY <1>2, <2>1, <2>3 DEF Ancestors
  <2>4. ASSUME NEW u \in Ancestors(v), u # v PROVE u \in Ancestors(p)
    <3> SUFFICES ASSUME NEW S \in SUBSET (0..LastVersion), p \in S,
                        \A w \in S \ {Base} : intents[w].parent \in S
                 PROVE  u \in S
      BY <2>4 DEF Ancestors
    <3> DEFINE T == S \cup {v}
    <3>1. T \in SUBSET (0..LastVersion) /\ v \in T /\ \A w \in T \ {Base} : intents[w].parent \in T
      OBVIOUS
    <3>2. u \in T
      BY <2>4, <3>1 DEF Ancestors
    <3>3. QED
      BY <2>4, <3>2
  <2> HIDE DEF p
  <2>5. Ancestors(v) = {v} \cup Ancestors(p)
    BY <2>2, <2>3, <2>4
  <2>6. QED
    BY <1>2, <2>5 DEF p
<1>3. QED
  BY <1>1, <1>2

\* The recursive function exists.
LEMMA HistoryIs ==
    ASSUME intents \in Intents
    PROVE  History = [v \in 0..LastVersion |->
                         IF v = Base THEN {Base} ELSE {v} \cup History[intents[v].parent]]
<1> DEFINE G == [v \in 0..LastVersion |-> Ancestors(v)]
<1>1. \A v \in 0..LastVersion : v # Base => intents[v].parent \in 0..LastVersion
  BY Numbers DEF Intents
<1>2. \A v \in 0..LastVersion :
         Ancestors(v) = IF v = Base THEN {Base} ELSE {v} \cup G[intents[v].parent]
  BY <1>1, AncestorsStep
<1> HIDE DEF G
<1>3. G = [v \in 0..LastVersion |-> IF v = Base THEN {Base} ELSE {v} \cup G[intents[v].parent]]
  BY <1>2 DEF G
<1>4. QED
  BY <1>3 DEF History

LEMMA HistoryStep ==
    ASSUME intents \in Intents
    PROVE  /\ History[Base] = {Base}
           /\ \A v \in Versions :
                 /\ History[v] = {v} \cup History[intents[v].parent]
                 /\ intents[v].parent \in 0..LastVersion /\ intents[v].parent < v
BY HistoryIs, Numbers, BoundsAssumption DEF Intents, Base, Versions

LEMMA ParentDiffers ==
    ASSUME intents \in Intents, NEW v \in Versions
    PROVE  intents[v].parent \in 0..LastVersion /\ intents[v].parent # v
<1>1. intents[v].parent \in 0..LastVersion /\ intents[v].parent < v
  BY HistoryStep
<1>2. LastVersion \in Nat /\ v \in Nat
  BY BoundsAssumption DEF Versions
<1>3. QED
  BY <1>1, <1>2

\* A set of versions that is not empty has a least one.
LEMMA LeastVersion ==
    ASSUME NEW T \in SUBSET (0..LastVersion), T # {}
    PROVE  \E v \in T : \A u \in T : v <= u
<1> DEFINE R == {ss \in Nat \X Nat : ss[1] < ss[2]}
<1>1. IsWellFoundedOn(R, Nat)
  BY NatLessThanWellFounded DEF OpToRel
<1>2. T \subseteq Nat
  BY BoundsAssumption
<1>3. \E v \in T : \A u \in T : <<u, v>> \notin R
  BY <1>1, <1>2, WFMin
<1>4. PICK v \in T : \A u \in T : <<u, v>> \notin R
  BY <1>3
<1>5. ASSUME NEW u \in T PROVE v <= u
  <2>1. u \in Nat /\ v \in Nat /\ ~(u < v)
    BY <1>2, <1>4
  <2>2. QED
    BY <2>1
<1>6. QED
  BY <1>5

\* A history is a set of versions, and holds the history of what it holds.
LEMMA HistoryFacts ==
    ASSUME intents \in Intents
    PROVE  \A v \in 0..LastVersion :
               /\ v \in History[v]
               /\ History[v] \subseteq 0..LastVersion
               /\ \A u \in History[v] : History[u] \subseteq History[v]
<1> DEFINE Good(v) == /\ v \in History[v]
                      /\ History[v] \subseteq 0..LastVersion
                      /\ \A u \in History[v] : History[u] \subseteq History[v]
           Bad == {v \in 0..LastVersion : ~Good(v)}
<1>1. ASSUME Bad # {} PROVE FALSE
  <2>1. PICK v \in Bad : \A u \in Bad : v <= u
    BY <1>1, LeastVersion
  <2>2. CASE v = Base
    BY <2>2, HistoryStep DEF Base
  <2>3. CASE v # Base
    <3>1. v \in Versions
      BY <2>3, Numbers
    <3> DEFINE p == intents[v].parent
    <3>2. p \in 0..LastVersion /\ p < v /\ History[v] = {v} \cup History[p]
      BY <3>1, HistoryStep
    <3>3. Good(p)
      BY <2>1, <3>2, BoundsAssumption
    <3>4. Good(v)
      BY <3>1, <3>2, <3>3 DEF Versions
    <3>5. QED
      BY <3>4
  <2>4. QED
    BY <2>2, <2>3
<1>2. QED
  BY <1>1

\* What is contained, as an order.
LEMMA ContainsFacts ==
    ASSUME intents \in Intents
    PROVE  /\ \A v \in 0..LastVersion : Contains(v, v)
           /\ \A v \in 0..LastVersion : \A u, w : Contains(v, u) /\ Contains(u, w) => Contains(v, w)
           /\ \A v \in 0..LastVersion : \A u : Contains(v, u) => u \in 0..LastVersion
           /\ \A v \in Versions :
                 /\ Contains(v, intents[v].parent)
                 /\ \A u : Contains(v, u) => u = v \/ Contains(intents[v].parent, u)
<1>1. \A v \in Versions : History[v] = {v} \cup History[intents[v].parent]
                          /\ intents[v].parent \in History[intents[v].parent]
  BY HistoryFacts, HistoryStep
<1>2. QED
  BY <1>1, HistoryFacts, HistoryStep DEF Contains

LEMMA SameHistory ==
    ASSUME UNCHANGED intents
    PROVE  History' = History
BY DEF History

-----------------------------------------------------------------------------
(* What writes and edits do.                                               *)

\* What a Release may become by a write: it keeps its version, and a complete one
\* is not touched.
Grows(r, new) ==
    /\ new \in Releases
    /\ r.version # Base => new.version = r.version /\ new.phase # "none"
    /\ r = NoRelease => new = NoRelease
    /\ r.phase = "published" /\ Whole(r) => new = r

\* The effects of a write that is Sound.
MovesMaster(w) ==
    /\ w.op = "master" /\ target.master = intents[w.version].parent
    /\ target' = [target EXCEPT !.master = w.version]
MakesTag(w) ==
    /\ w.op = "tag" /\ target.tag[w.version] = 0
    /\ target' = [target EXCEPT !.tag[w.version] = w.id]
MakesDraft(w) ==
    /\ w.op = "create"
    /\ target' = [target EXCEPT !.releases[w.id] =
                     [NoRelease EXCEPT !.version = w.version, !.phase = "draft"]]
ChangesRelease(w) ==
    /\ w.op \in {"delete", "upload", "publish"}
    /\ \E new \in Releases :
          /\ Grows(target.releases[w.id], new)
          /\ target' = [target EXCEPT !.releases[w.id] = new]
MovesAlias(w) ==
    /\ w.op = "alias" /\ target.alias = w.content
    /\ target' = [target EXCEPT !.alias = [version |-> w.version, by |-> w.id]]
Takes(w) == MovesMaster(w) \/ MakesTag(w) \/ MakesDraft(w) \/ ChangesRelease(w) \/ MovesAlias(w)

LEMMA NoAssetTyped == NoAsset \in Assets /\ NoRelease \in Releases
BY BoundsAssumption DEF NoAsset, Assets, NoRelease, Releases, Base

LEMMA AppliedIs ==
    ASSUME target \in Targets, MadeByTagger, NEW w, Sound(w), target' = Applied(w)
    PROVE  target' = target \/ Takes(w)
<1> DEFINE r == target.releases[w.id]
           with(new) == [target EXCEPT !.releases[w.id] = new]
<1>0. IsWrite(w) /\ r \in Releases /\ w.id \in Runs
  BY DEF Sound, IsWrite, Targets
<1>1. CASE w.op \in {"master", "tag", "create", "alias"}
  BY <1>1 DEF Applied, Takes, MovesMaster, MakesTag, MakesDraft, MovesAlias
<1>2. CASE w.op = "delete"
  <2> DEFINE new == [r EXCEPT !.assets[w.asset] = NoAsset]
  <2>1. w.asset \in Names /\ w.content.state = "starter"
    BY <1>2 DEF Sound
  <2>2. CASE r.assets[w.asset] = w.content
    <3>1. target' = with(new)
      BY <1>2, <2>2 DEF Applied
    <3>2. new \in Releases /\ new.version = r.version /\ new.phase = r.phase
      BY <1>0, <2>1, NoAssetTyped DEF Releases
    <3>3. r # NoRelease /\ ~Whole(r)
      <4>1. r.assets[w.asset].state = "starter"
        BY <2>1, <2>2
      <4>2. ~Whole(r)
        BY <2>1, <4>1 DEF Whole, Uploaded
      <4>3. NoRelease.assets[w.asset].state = "none"
        BY <2>1 DEF NoRelease, NoAsset
      <4>4. QED
        BY <4>1, <4>2, <4>3
    <3>4. r.phase # "none"
      BY <1>0, <3>3 DEF MadeByTagger
    <3>5. Grows(r, new)
      BY <3>2, <3>3, <3>4 DEF Grows
    <3>6. QED
      BY <1>2, <3>1, <3>2, <3>5 DEF Takes, ChangesRelease
  <2>3. CASE r.assets[w.asset] # w.content
    BY <1>2, <2>3 DEF Applied
  <2>4. QED
    BY <2>2, <2>3
<1>3. CASE w.op = "upload"
  <2> DEFINE new == [r EXCEPT !.assets[w.asset] = w.content]
  <2>1. w.asset \in Names /\ w.content \in Assets
    BY <1>3 DEF Sound
  <2>2. CASE r.phase = "draft" /\ r.assets[w.asset] = NoAsset
    <3>1. target' = with(new)
      BY <1>3, <2>2 DEF Applied
    <3>2. new \in Releases /\ new.version = r.version /\ new.phase = "draft"
      BY <1>0, <2>1, <2>2 DEF Releases
    <3>3. Grows(r, new)
      BY <2>2, <3>2 DEF Grows, NoRelease
    <3>4. QED
      BY <1>3, <3>1, <3>2, <3>3 DEF Takes, ChangesRelease
  <2>3. CASE ~(r.phase = "draft" /\ r.assets[w.asset] = NoAsset)
    BY <1>3, <2>3 DEF Applied
  <2>4. QED
    BY <2>2, <2>3
<1>4. CASE w.op = "publish"
  <2> DEFINE new == [r EXCEPT !.phase = "published"]
  <2>1. CASE r.phase = "draft"
    <3>1. target' = with(new)
      BY <1>4, <2>1 DEF Applied
    <3>2. new \in Releases /\ new.version = r.version /\ new.phase = "published"
      BY <1>0, <2>1 DEF Releases
    <3>3. Grows(r, new)
      BY <2>1, <3>2 DEF Grows, NoRelease
    <3>4. QED
      BY <1>4, <3>1, <3>2, <3>3 DEF Takes, ChangesRelease
  <2>2. CASE r.phase # "draft"
    BY <1>4, <2>2 DEF Applied
  <2>3. QED
    BY <2>1, <2>2
<1>5. QED
  BY <1>0, <1>1, <1>2, <1>3, <1>4 DEF IsWrite, Operations

\* A person edits, repairs or deletes a Draft.
EditsDraft ==
    \E i \in Runs :
        /\ target.releases[i].phase = "draft"
        /\ \/ target' = [target EXCEPT !.releases[i].alien = ~@]
           \/ target' = [target EXCEPT !.releases[i] = NoRelease]

\* The target moves forward only, and a complete release stays complete.
Forward ==
    /\ target' \in Targets
    /\ Contains(target'.master, target.master)
    /\ Contains(target'.alias.version, target.alias.version)
    /\ \A v \in Versions : target.tag[v] # 0 => target'.tag[v] = target.tag[v]
    /\ \A v \in Versions : Complete(v) => Complete(v)'

LEMMA CompleteStays ==
    ASSUME target \in Targets, target' \in Targets,
           \A i \in Runs : LET r == target.releases[i]
                           IN  r.phase = "published" /\ Whole(r) => target'.releases[i] = r,
           NEW v \in Versions, Complete(v)
    PROVE  Complete(v)'
<1>1. PICK i \in Runs : LET r == target.releases[i]
                        IN  r.version = v /\ r.phase = "published" /\ Whole(r)
  BY DEF Complete
<1>2. target'.releases[i] = target.releases[i]
  BY <1>1
<1>3. Whole(target.releases[i])' <=> Whole(target'.releases[i])
  BY DEF Whole, Uploaded, Signed
<1>4. QED
  BY <1>1, <1>2, <1>3 DEF Complete

LEMMA EditsForward ==
    ASSUME TypeInv, EditsDraft, UNCHANGED intents
    PROVE  /\ Forward
           /\ target'.master = target.master /\ target'.alias = target.alias
           /\ target'.tag = target.tag
           /\ \A i \in Runs : /\ target'.releases[i] # target.releases[i] =>
                                    target.releases[i].phase = "draft"
                              /\ \/ target'.releases[i] = NoRelease
                                 \/ /\ target'.releases[i].version = target.releases[i].version
                                    /\ target'.releases[i].phase = target.releases[i].phase
<1>1. PICK i \in Runs :
        /\ target.releases[i].phase = "draft"
        /\ \/ target' = [target EXCEPT !.releases[i].alien = ~@]
           \/ target' = [target EXCEPT !.releases[i] = NoRelease]
  BY DEF EditsDraft
<1>2. PICK new \in Releases :
        /\ target' = [target EXCEPT !.releases[i] = new]
        /\ new = NoRelease \/ (new.version = target.releases[i].version /\ new.phase = "draft")
  <2>1. CASE target' = [target EXCEPT !.releases[i].alien = ~@]
    <3> DEFINE new == [target.releases[i] EXCEPT !.alien = ~@]
    <3>1. new \in Releases /\ new.version = target.releases[i].version /\ new.phase = "draft"
      BY <1>1 DEF TypeInv, Targets, Releases
    <3>2. QED
      BY <2>1, <3>1
  <2>2. CASE target' = [target EXCEPT !.releases[i] = NoRelease]
    BY <2>2, NoAssetTyped
  <2>3. QED
    BY <1>1, <2>1, <2>2
<1>3. target' \in Targets
  BY <1>2 DEF TypeInv, Targets
<1>4. \A j \in Runs : target'.releases[j] = IF j = i THEN new ELSE target.releases[j]
  BY <1>2 DEF TypeInv, Targets
<1>5. target'.master = target.master /\ target'.alias = target.alias /\ target'.tag = target.tag
  BY <1>2 DEF TypeInv, Targets
<1>6. \A v \in Versions : Complete(v) => Complete(v)'
  BY <1>1, <1>3, <1>4, CompleteStays DEF TypeInv
<1>7. Forward
  BY <1>3, <1>5, <1>6, ContainsFacts DEF Forward, TypeInv, Targets, Aliases
<1>8. QED
  BY <1>1, <1>2, <1>4, <1>5, <1>7

LEMMA TakesForward ==
    ASSUME TypeInv, TargetInv, NEW w, Sound(w), Takes(w), UNCHANGED intents
    PROVE  Forward
<1> USE DEF TypeInv, Targets
<1>0. w.version \in Versions /\ w.id \in Runs
  BY DEF Sound, IsWrite
<1>1. CASE MovesMaster(w)
  <2>1. target' \in Targets
    BY <1>0, <1>1, Ranges DEF MovesMaster
  <2>2. \A v \in Versions : Complete(v) => Complete(v)'
    BY <1>1, <2>1, CompleteStays DEF MovesMaster
  <2>3. QED
    BY <1>0, <1>1, <2>1, <2>2, ContainsFacts DEF MovesMaster, Forward, Aliases
<1>2. CASE MakesTag(w)
  <2>1. target' \in Targets
    BY <1>0, <1>2, Ranges DEF MakesTag
  <2>2. \A v \in Versions : Complete(v) => Complete(v)'
    BY <1>2, <2>1, CompleteStays DEF MakesTag
  <2>3. QED
    BY <1>0, <1>2, <2>1, <2>2, ContainsFacts DEF MakesTag, Forward, Aliases
<1>3. CASE MakesDraft(w)
  <2> DEFINE new == [NoRelease EXCEPT !.version = w.version, !.phase = "draft"]
  <2>1. new \in Releases
    BY <1>0, NoAssetTyped, Ranges DEF Releases
  <2>2. target' \in Targets
    BY <1>0, <1>3, <2>1 DEF MakesDraft
  <2>3. target.releases[w.id] = NoRelease
    BY <1>3 DEF MakesDraft, Sound
  <2>4. NoRelease.phase # "published"
    BY DEF NoRelease
  <2>5. \A v \in Versions : Complete(v) => Complete(v)'
    BY <1>0, <1>3, <2>2, <2>3, <2>4, CompleteStays DEF MakesDraft
  <2>6. QED
    BY <1>0, <1>3, <2>2, <2>5, ContainsFacts DEF MakesDraft, Forward, Aliases
<1>4. CASE ChangesRelease(w)
  <2>1. PICK new \in Releases : /\ Grows(target.releases[w.id], new)
                                /\ target' = [target EXCEPT !.releases[w.id] = new]
    BY <1>4 DEF ChangesRelease
  <2>2. target' \in Targets
    BY <1>0, <2>1
  <2>3. \A v \in Versions : Complete(v) => Complete(v)'
    BY <1>0, <2>1, <2>2, CompleteStays DEF Grows
  <2>4. QED
    BY <1>0, <2>1, <2>2, <2>3, ContainsFacts DEF Forward, Aliases
<1>5. CASE MovesAlias(w)
  <2>1. target' \in Targets
    BY <1>0, <1>5, Ranges DEF MovesAlias, Aliases
  <2>2. \A v \in Versions : Complete(v) => Complete(v)'
    BY <1>5, <2>1, CompleteStays DEF MovesAlias
  <2>3. Contains(w.version, target.alias.version)
    BY <1>5 DEF MovesAlias, Sound
  <2>4. QED
    BY <1>0, <1>5, <2>1, <2>2, <2>3, ContainsFacts DEF MovesAlias, Forward, Aliases
<1>6. QED
  BY <1>1, <1>2, <1>3, <1>4, <1>5 DEF Takes

\* While master and the alias stay, and when a write that is Sound moves them.
LEMMA StaysBehind ==
    ASSUME TypeInv, NoneLeftBehind, Forward, UNCHANGED intents,
           target'.master = target.master, target'.alias = target.alias
    PROVE  NoneLeftBehind'
<1>1. History' = History
  BY SameHistory
<1>2. \A w \in History[target.master] \ {Base, target.master} : w \in Versions
  BY HistoryFacts, Numbers DEF TypeInv, Targets
<1>3. target.alias.version # Base => target.alias.version \in Versions
  BY Numbers DEF TypeInv, Targets, Aliases
<1>4. QED
  BY <1>1, <1>2, <1>3 DEF NoneLeftBehind, Forward, Contains, Stable

LEMMA MasterMoves ==
    ASSUME TypeInv, NoneLeftBehind, Forward, UNCHANGED intents,
           NEW w, Sound(w), MovesMaster(w)
    PROVE  NoneLeftBehind'
<1> DEFINE p == intents[w.version].parent
<1>1. History' = History
  BY SameHistory
<1>2. w.version \in Versions /\ Justified(w.version)
  BY DEF Sound, IsWrite, MovesMaster
<1>3. /\ target.master = p /\ target'.master = w.version /\ target'.alias = target.alias
  BY DEF MovesMaster, TypeInv, Targets
<1>4. p \in 0..LastVersion
  BY <1>2, HistoryStep DEF TypeInv
<1>5. ASSUME NEW x \in History[w.version] \ {Base, w.version}
      PROVE  /\ x \in Versions /\ Complete(x)
             /\ Stable(x) => Contains(target.alias.version, x)
  <2>1. x \in History[p]
    BY <1>2, HistoryStep DEF TypeInv
  <2>2. x \in Versions
    BY <1>4, <2>1, HistoryFacts, Numbers DEF TypeInv
  <2>3. CASE x = p
    BY <1>2, <2>2, <2>3, Numbers DEF Justified
  <2>4. CASE x # p
    BY <1>3, <2>1, <2>2, <2>4, Numbers DEF NoneLeftBehind
  <2>5. QED
    BY <2>2, <2>3, <2>4
<1>6. target.alias.version # Base =>
        /\ target.alias.version \in Versions /\ Complete(target.alias.version)
        /\ Contains(w.version, target.alias.version)
  <2>1. ASSUME target.alias.version # Base
        PROVE  /\ target.alias.version \in Versions /\ Complete(target.alias.version)
               /\ Contains(p, target.alias.version)
    BY <1>3, <2>1, Numbers DEF NoneLeftBehind, TypeInv, Targets, Aliases
  <2>2. Contains(w.version, p) /\ w.version \in 0..LastVersion
    BY <1>2, ContainsFacts, Numbers, BoundsAssumption DEF TypeInv, Versions
  <2>3. QED
    BY <2>1, <2>2, ContainsFacts DEF TypeInv
<1>7. QED
  BY <1>1, <1>3, <1>5, <1>6 DEF NoneLeftBehind, Forward, Contains, Stable

LEMMA AliasMoves ==
    ASSUME TypeInv, NoneLeftBehind, Forward, UNCHANGED intents,
           NEW w, Sound(w), MovesAlias(w)
    PROVE  NoneLeftBehind'
<1>1. History' = History
  BY SameHistory
<1>2. target'.master = target.master /\ target'.alias.version = w.version
  BY DEF MovesAlias, TypeInv, Targets, Aliases
<1>3. /\ w.version \in Versions /\ Complete(w.version) /\ Contains(target.master, w.version)
      /\ Contains(w.version, target.alias.version)
  BY DEF Sound, MovesAlias, IsWrite
<1>4. ASSUME NEW x \in History[target.master] \ {Base, target.master}
      PROVE  /\ x \in Versions /\ Complete(x)
             /\ Stable(x) => Contains(w.version, x)
  <2>1. x \in Versions
    BY HistoryFacts, Numbers DEF TypeInv, Targets
  <2>2. Complete(x) /\ (Stable(x) => Contains(target.alias.version, x))
    BY DEF NoneLeftBehind
  <2>3. Contains(target.alias.version, x) => Contains(w.version, x)
    BY <1>3, ContainsFacts, Numbers, BoundsAssumption DEF TypeInv, Versions
  <2>4. QED
    BY <2>1, <2>2, <2>3
<1>5. QED
  BY <1>1, <1>2, <1>3, <1>4 DEF NoneLeftBehind, Forward, Contains, Stable

-----------------------------------------------------------------------------
(* The steps of a run.                                                     *)

RunSteps ==
    \/ Clone \/ List \/ Audit \/ Start \/ Select \/ Again
    \/ CheckMaster \/ PushMaster \/ CheckTag \/ PushTag \/ Tagged
    \/ Adopt \/ Absent \/ Create \/ Created \/ CheckStarter \/ DeleteStarter \/ Deleted
    \/ Existing \/ CheckUpload \/ Upload \/ UploadedOne \/ CheckPublish \/ Publish \/ Published
    \/ Verify \/ CheckAlias \/ MoveAlias \/ Aliased \/ Finish

\* Where the steps lead.
Path ==
    {<<"clone", "list">>, <<"list", "audit">>, <<"audit", "start">>, <<"start", "select">>,
     <<"select", "again">>, <<"again", "master">>, <<"master", "push master">>,
     <<"master", "tag">>, <<"push master", "tag">>, <<"tag", "push tag">>, <<"tag", "release">>,
     <<"push tag", "tagged">>, <<"tagged", "release">>, <<"release", "starter">>,
     <<"release", "create">>, <<"create", "starter">>, <<"create", "created">>,
     <<"created", "starter">>, <<"starter", "delete">>, <<"starter", "existing">>,
     <<"delete", "deleted">>, <<"deleted", "existing">>, <<"existing", "upload">>,
     <<"upload", "post">>, <<"upload", "publish">>, <<"post", "uploaded">>,
     <<"uploaded", "upload">>, <<"publish", "patch">>, <<"publish", "verify">>,
     <<"patch", "published">>, <<"published", "verify">>, <<"verify", "finish">>,
     <<"verify", "alias">>, <<"verify", "aliased">>, <<"alias", "move">>, <<"move", "aliased">>,
     <<"aliased", "finish">>}

\* What a step leaves alone.
Keeps(r) ==
    /\ r \in ActiveRuns
    /\ r.n = run.n /\ r.version = run.version /\ r.selector = run.selector
    /\ run.pc # "clone" => r.refs = run.refs
    /\ run.pc # "tagged" => r.fresh = run.fresh
    /\ run.pc \notin {"select", "create", "created"} => r.id = run.id
    /\ run.pc \notin {"select", "release", "create", "created", "deleted", "uploaded", "published"}
          => r.boundary = run.boundary

Goes(r) == Keeps(r) /\ <<run.pc, r.pc>> \in Path

LEMMA ActiveIs ==
    ASSUME TypeInv
    PROVE  Active <=> run \in ActiveRuns
<1>1. "idle" \notin Steps /\ "over" \notin Steps
  BY DEF Steps, UpToCreate, UpToAudit, UpToMaster, WithTag, WithRelease
<1>2. run \in ActiveRuns => run.pc \in Steps
  BY DEF ActiveRuns
<1>3. run = Idle => run.pc = "idle"
  BY DEF Idle
<1>4. run \in EndedRuns => run.pc = "over"
  BY DEF EndedRuns
<1>5. QED
  BY <1>1, <1>2, <1>3, <1>4 DEF TypeInv, Active

LEMMA Ends ==
    ASSUME run \in ActiveRuns, NEW outcome \in {"refused", "superseded", "complete"}
    PROVE  Over(outcome) \in EndedRuns
BY DEF Over, ActiveRuns, EndedRuns

LEMMA GoTo ==
    ASSUME run \in ActiveRuns, NEW pc, <<run.pc, pc>> \in Path
    PROVE  Goes(To(pc)) /\ Goes([To(pc) EXCEPT !.calm = FALSE])
<1>1. pc \in Steps
  BY DEF Path, Steps, UpToCreate, UpToAudit, UpToMaster, WithTag, WithRelease
<1>2. QED
  BY <1>1 DEF Goes, Keeps, To, ActiveRuns

LEMMA ReadIs ==
    ASSUME TypeInv, NEW pc \in Steps, NEW ok, NEW next, Read(pc, ok, next)
    PROVE  /\ run \in ActiveRuns /\ run.pc = pc
           /\ (ok /\ run' = next) \/ run' \in EndedRuns
<1>1. run.pc = pc /\ pc \notin {"idle", "over"}
  BY DEF Read, At, Steps, UpToCreate, UpToAudit, UpToMaster, WithTag, WithRelease
<1>2. run \in ActiveRuns
  BY <1>1 DEF TypeInv, Idle, EndedRuns
<1>3. run' = IF ok THEN next ELSE Over("refused")
  BY DEF Read, Refused
<1>4. QED
  BY <1>1, <1>2, <1>3, Ends

LEMMA WriteIs ==
    ASSUME TypeInv, NEW pc \in Steps, NEW w, NEW answered, NEW unanswered,
           Write(pc, w, answered, unanswered)
    PROVE  /\ run \in ActiveRuns /\ run.pc = pc
           /\ run' \in {answered, unanswered, [unanswered EXCEPT !.calm = FALSE]}
<1>1. run.pc = pc /\ pc \notin {"idle", "over"}
  BY DEF Write, At, Steps, UpToCreate, UpToAudit, UpToMaster, WithTag, WithRelease
<1>2. run \in ActiveRuns
  BY <1>1 DEF TypeInv, Idle, EndedRuns
<1>3. QED
  BY <1>1, <1>2 DEF Write

LEMMA RefusedEnds ==
    ASSUME run \in ActiveRuns
    PROVE  Refused \in EndedRuns /\ [Refused EXCEPT !.calm = FALSE] \in EndedRuns
BY Ends DEF Refused, EndedRuns

LEMMA RefsTyped == ASSUME TypeInv PROVE Refs \in ManyRefs /\ Inventory \in [Runs -> Releases]
BY NoAssetTyped DEF TypeInv, Targets, Refs, ManyRefs, Inventory

LEMMA SelectedTyped ==
    ASSUME TypeInv, run \in ActiveRuns
    PROVE  /\ SelectedId \in 0..MaxRuns /\ Selected \in Releases
           /\ Provenance(Selected) \in 0..MaxRuns
<1>1. SelectedId \in 0..MaxRuns /\ (SelectedId # 0 => SelectedId \in Runs)
  <2>1. CASE run.selector # 0
    BY <2>1, BoundsAssumption DEF SelectedId, ActiveRuns, Runs
  <2>2. CASE run.selector = 0 /\ Of(run.inventory, this) = {}
    BY <2>2, BoundsAssumption DEF SelectedId
  <2>3. CASE run.selector = 0 /\ Of(run.inventory, this) # {}
    BY <2>3, Ranges DEF SelectedId, Of
  <2>4. QED
    BY <2>1, <2>2, <2>3
<1>2. run.selector # 0 => run.selector \in Runs
  BY BoundsAssumption DEF ActiveRuns, Runs
<1>3. Selected \in Releases
  BY <1>1, <1>2, NoAssetTyped DEF Selected, TypeInv, Targets, ActiveRuns
<1>4. Provenance(Selected) \in 0..MaxRuns
  BY <1>3, Ranges DEF Provenance, Releases, Assets, Uploaded, ActiveRuns, Names
<1>5. QED
  BY <1>1, <1>3, <1>4

LEMMA WithAsset ==
    ASSUME run \in ActiveRuns, NEW k \in Names, NEW a \in Assets
    PROVE  /\ [run.boundary EXCEPT !.assets[k] = a] \in Releases
           /\ [run.boundary EXCEPT !.assets[k] = a].version = run.boundary.version
           /\ [run.boundary EXCEPT !.assets[k] = a].phase = run.boundary.phase
BY DEF ActiveRuns, Releases

\* The first name that is missing is one.
LEMMA NextIsMissing ==
    ASSUME Missing # {}
    PROVE  Next3 \in Missing
<1>1. \E k \in Missing : \A j \in Missing : k <= j
  BY DEF Missing, Names
<1>2. QED
  BY <1>1 DEF Next3

LEMMA AssetTyped == ASSUME run \in ActiveRuns PROVE Asset \in Assets
BY Ranges, BoundsAssumption DEF Asset, Assets, ActiveRuns

\* Each step of a run goes on along the path, or the run is over.
LEMMA StepGoes ==
    ASSUME Inv, RunSteps
    PROVE  run \in ActiveRuns /\ (run' \in EndedRuns \/ Goes(run'))
<1> USE DEF Inv
<1>p. {"clone", "list", "audit", "start", "select", "again", "master", "push master", "tag",
       "push tag", "tagged", "release", "create", "created", "starter", "delete", "deleted",
       "existing", "upload", "post", "uploaded", "publish", "patch", "published", "verify",
       "alias", "move", "aliased", "finish"} \subseteq Steps
  BY DEF Steps, UpToCreate, UpToAudit, UpToMaster, WithTag, WithRelease
<1>q. {<<"audit", "start">>, <<"again", "master">>, <<"master", "push master">>,
       <<"master", "tag">>, <<"tag", "push tag">>, <<"tag", "release">>,
       <<"release", "create">>, <<"starter", "delete">>, <<"starter", "existing">>,
       <<"existing", "upload">>, <<"upload", "post">>, <<"upload", "publish">>,
       <<"publish", "patch">>, <<"publish", "verify">>, <<"alias", "move">>,
       <<"aliased", "finish">>} \subseteq Path
  BY DEF Path
<1>1. CASE Clone
  <2>1. run \in ActiveRuns /\ run.pc = "clone"
        /\ (run' = [run EXCEPT !.pc = "list", !.refs = Refs] \/ run' \in EndedRuns)
    BY <1>1, <1>p, ReadIs DEF Clone
  <2>2. QED
    BY <2>1, <1>p, RefsTyped DEF Goes, Keeps, Path, ActiveRuns
<1>2. CASE List
  <2>1. run \in ActiveRuns /\ run.pc = "list"
        /\ (run' = [run EXCEPT !.pc = "audit", !.inventory = Inventory, !.print = Refs]
            \/ run' \in EndedRuns)
    BY <1>2, <1>p, ReadIs DEF List
  <2>2. QED
    BY <2>1, <1>p, RefsTyped DEF Goes, Keeps, Path, ActiveRuns
<1>3. CASE Start
  <2>1. run \in ActiveRuns /\ run.pc = "start"
        /\ (run' = [run EXCEPT !.pc = "select",
                               !.stale = Begun /\ run.admission = "superseded"]
            \/ run' \in EndedRuns)
    BY <1>3, <1>p, ReadIs DEF Start
  <2>2. QED
    BY <2>1, <1>p DEF Goes, Keeps, Path, ActiveRuns
<1>4. CASE Select
  <2> DEFINE gone == \/ AliasMode = "passed"
                     \/ /\ Selected.phase # "published" /\ run.admission # "eligible"
                        /\ ~run.stale
  <2>1. run \in ActiveRuns /\ run.pc = "select"
        /\ (run' = [run EXCEPT !.pc = "again", !.id = SelectedId, !.boundary = Selected,
                               !.provenance = Provenance(Selected), !.superseded = gone]
            \/ run' \in EndedRuns)
    BY <1>4, <1>p, ReadIs DEF Select
  <2>2. gone \in BOOLEAN
    OBVIOUS
  <2> HIDE DEF gone
  <2>3. QED
    BY <2>1, <2>2, <1>p, SelectedTyped DEF Goes, Keeps, Path, ActiveRuns
<1>5. CASE Audit \/ CheckMaster \/ CheckTag \/ Absent \/ CheckStarter \/ Existing
           \/ CheckUpload \/ CheckPublish \/ CheckAlias \/ Aliased
  <2> DEFINE Onward == /\ run \in ActiveRuns
                       /\ run' \in EndedRuns \/ \E pc : run' = To(pc) /\ <<run.pc, pc>> \in Path
  <2>1. Audit => Onward
    BY <1>p, <1>q, ReadIs DEF Audit
  <2>2. CheckMaster => Onward
    BY <1>p, <1>q, ReadIs DEF CheckMaster
  <2>3. CheckTag => Onward
    BY <1>p, <1>q, ReadIs DEF CheckTag
  <2>4. Absent => Onward
    BY <1>p, <1>q, ReadIs DEF Absent
  <2>5. CheckStarter => Onward
    BY <1>p, <1>q, ReadIs DEF CheckStarter
  <2>6. Existing => Onward
    BY <1>p, <1>q, ReadIs DEF Existing
  <2>7. CheckUpload => Onward
    BY <1>p, <1>q, ReadIs DEF CheckUpload
  <2>8. CheckPublish => Onward
    BY <1>p, <1>q, ReadIs DEF CheckPublish
  <2>9. CheckAlias => Onward
    BY <1>p, <1>q, ReadIs DEF CheckAlias
  <2>10. Aliased => Onward
    BY <1>p, <1>q, ReadIs DEF Aliased
  <2>11. Onward
    BY <1>5, <2>1, <2>2, <2>3, <2>4, <2>5, <2>6, <2>7, <2>8, <2>9, <2>10
  <2>12. QED
    BY <2>11, GoTo
<1>6. CASE Again
  <2>1. run \in ActiveRuns /\ run.pc = "again"
        /\ (run' = (IF run.superseded THEN Over("superseded") ELSE To("master"))
            \/ run' \in EndedRuns)
    BY <1>6, <1>p, ReadIs DEF Again
  <2>2. Goes(To("master"))
    BY <2>1, <1>q, GoTo
  <2>3. QED
    BY <2>1, <2>2, Ends
<1>7. CASE PushMaster \/ PushTag \/ Upload \/ Publish \/ MoveAlias
  <2>1. PICK pc \in {"tag", "tagged", "uploaded", "published", "aliased"} :
          /\ run \in ActiveRuns /\ <<run.pc, pc>> \in Path
          /\ run' \in {To(pc), Refused, [Refused EXCEPT !.calm = FALSE]}
    BY <1>7, <1>p, WriteIs DEF PushMaster, PushTag, Upload, Publish, MoveAlias, Path
  <2>2. QED
    BY <2>1, GoTo, RefusedEnds
<1>8. CASE DeleteStarter
  <2>1. /\ run \in ActiveRuns /\ <<run.pc, "deleted">> \in Path
        /\ run' \in {To("deleted"), [To("deleted") EXCEPT !.calm = FALSE]}
    BY <1>8, <1>p, WriteIs DEF DeleteStarter, Path
  <2>2. QED
    BY <2>1, GoTo
<1>9. CASE Tagged
  <2>1. run \in ActiveRuns /\ run.pc = "tagged"
        /\ (run' = [run EXCEPT !.pc = "release", !.fresh = TRUE] \/ run' \in EndedRuns)
    BY <1>9, <1>p, ReadIs DEF Tagged
  <2>2. QED
    BY <2>1, <1>p DEF Goes, Keeps, Path, ActiveRuns
<1>10. CASE Adopt
  <2>1. run \in ActiveRuns /\ run.pc = "release" /\ run.id # 0
        /\ (run' = [run EXCEPT !.pc = "starter", !.boundary = target.releases[run.id]]
            \/ run' \in EndedRuns)
    BY <1>10, <1>p, ReadIs DEF Adopt
  <2>2. run.id \in Runs
    BY <2>1, BoundsAssumption DEF ActiveRuns, Runs
  <2>3. target.releases[run.id] \in Releases
    BY <2>2 DEF TypeInv, Targets
  <2>4. QED
    BY <2>1, <2>3, <1>p DEF Goes, Keeps, Path, ActiveRuns
<1>11. CASE Create
  <2> DEFINE new == [NoRelease EXCEPT !.version = this, !.phase = "draft"]
  <2>1. run \in ActiveRuns /\ run.pc = "create"
        /\ run' \in {[run EXCEPT !.pc = "starter", !.id = run.n, !.boundary = new],
                     To("created"), [To("created") EXCEPT !.calm = FALSE]}
    BY <1>11, <1>p, WriteIs DEF Create
  <2>2. this \in 0..LastVersion /\ run.n \in 0..MaxRuns
    BY <2>1, Ranges DEF ActiveRuns, this
  <2>a. new \in Releases
    BY <2>2, NoAssetTyped DEF Releases
  <2> HIDE DEF new
  <2>3. [run EXCEPT !.pc = "starter", !.id = run.n, !.boundary = new] \in ActiveRuns
    BY <2>1, <2>2, <2>a, <1>p DEF ActiveRuns
  <2>4. Goes([run EXCEPT !.pc = "starter", !.id = run.n, !.boundary = new])
    BY <2>1, <2>3 DEF Goes, Keeps, Path, ActiveRuns
  <2>5. Goes(To("created")) /\ Goes([To("created") EXCEPT !.calm = FALSE])
    BY <2>1, GoTo DEF Path
  <2>6. QED
    BY <2>1, <2>4, <2>5
<1>12. CASE Created
  <2> DEFINE found == Of(Inventory, this)
             id == CHOOSE i \in found : TRUE
  <2>1. run \in ActiveRuns /\ run.pc = "created"
        /\ (\/ /\ Cardinality(found) = 1
               /\ run' = [run EXCEPT !.pc = "starter", !.id = id,
                                     !.boundary = target.releases[id]]
            \/ run' \in EndedRuns)
    BY <1>12, <1>p, ReadIs DEF Created
  <2>2. ASSUME Cardinality(found) = 1
        PROVE  id \in Runs /\ id \in 0..MaxRuns /\ target.releases[id] \in Releases
    <3>1. found # {}
      BY <2>2, FS_EmptySet
    <3>2. id \in Runs
      BY <3>1 DEF Of
    <3>3. QED
      BY <3>2, Ranges DEF TypeInv, Targets
  <2> HIDE DEF id, found
  <2>3. QED
    BY <2>1, <2>2, <1>p DEF Goes, Keeps, Path, ActiveRuns
<1>13. CASE Deleted
  <2>1. run \in ActiveRuns /\ run.pc = "deleted"
        /\ (run' = [run EXCEPT !.pc = "existing", !.boundary = Without] \/ run' \in EndedRuns)
    BY <1>13, <1>p, ReadIs DEF Deleted
  <2>2. Without \in Releases
    <3>1. Starters(run.boundary) # {}
      BY <2>1, ActiveIs DEF RunInv, Boundary, WithRelease
    <3>2. Starter \in Names
      BY <3>1 DEF Starter, Starters
    <3>3. QED
      BY <2>1, <3>2, WithAsset, NoAssetTyped DEF Without
  <2>3. QED
    BY <2>1, <2>2, <1>p DEF Goes, Keeps, Path, ActiveRuns
<1>14. CASE UploadedOne
  <2>1. run \in ActiveRuns /\ run.pc = "uploaded"
        /\ (run' = [run EXCEPT !.pc = "upload", !.boundary = With] \/ run' \in EndedRuns)
    BY <1>14, <1>p, ReadIs DEF UploadedOne
  <2>2. With \in Releases
    <3>1. Missing # {}
      BY <2>1, ActiveIs DEF RunInv, Boundary, WithRelease
    <3>2. Next3 \in Names
      BY <3>1, NextIsMissing DEF Missing
    <3>3. QED
      BY <2>1, <3>2, WithAsset, AssetTyped DEF With
  <2>3. QED
    BY <2>1, <2>2, <1>p DEF Goes, Keeps, Path, ActiveRuns
<1>15. CASE Published
  <2>1. run \in ActiveRuns /\ run.pc = "published"
        /\ (run' = [run EXCEPT !.pc = "verify", !.boundary = Out] \/ run' \in EndedRuns)
    BY <1>15, <1>p, ReadIs DEF Published
  <2>2. Out \in Releases
    BY <2>1 DEF Out, ActiveRuns, Releases
  <2>3. QED
    BY <2>1, <2>2, <1>p DEF Goes, Keeps, Path, ActiveRuns
<1>16. CASE Verify
  <2>1. run \in ActiveRuns /\ (run' \in EndedRuns
            \/ \E pc \in {"finish", "alias", "aliased"} :
                  run' = To(pc) /\ <<run.pc, pc>> \in Path)
    BY <1>16, <1>p, ReadIs DEF Verify, Path
  <2>2. QED
    BY <2>1, GoTo
<1>17. CASE Finish
  <2>1. run \in ActiveRuns /\ run' \in {Over("complete")} \cup EndedRuns
    BY <1>17, <1>p, ReadIs DEF Finish
  <2>2. QED
    BY <2>1, Ends
<1>18. QED
  BY <1>1, <1>2, <1>3, <1>4, <1>5, <1>6, <1>7, <1>8, <1>9, <1>10, <1>11, <1>12, <1>13, <1>14,
     <1>15, <1>16, <1>17 DEF RunSteps

-----------------------------------------------------------------------------
(* What a run asks for.                                                    *)

\* The write the run is at.
Requested(w) ==
    /\ run \in ActiveRuns
    /\ \/ run.pc = "push master" /\ w = Request("master", run.n, 0, 0)
       \/ run.pc = "push tag" /\ w = Request("tag", run.n, 0, 0)
       \/ run.pc = "create" /\ w = Request("create", run.n, 0, 0)
       \/ /\ run.pc = "delete"
          /\ w = Request("delete", run.id, Starter, run.boundary.assets[Starter])
       \/ run.pc = "post" /\ w = Request("upload", run.id, Next3, Asset)
       \/ run.pc = "patch" /\ w = Request("publish", run.id, 0, 0)
       \/ run.pc = "move" /\ w = Request("alias", run.n, 0, run.refs.alias)

LEMMA AliasForward ==
    ASSUME AliasMode = "forward"
    PROVE  Stable(this) /\ Contains(this, run.refs.alias.version)
BY DEF AliasMode

\* The parent of what the run pushes is as it has to be.
LEMMA ParentDone ==
    ASSUME Inv, run \in ActiveRuns, run.pc = "push master"
    PROVE  Justified(this)
<1> USE DEF Inv, RunInv
<1>1. Active /\ run.pc \in AfterStart /\ run.pc \notin UpToAudit
  BY ActiveIs DEF AfterStart, Steps, UpToCreate, UpToAudit
<1>2. InPlace /\ ~Contains(run.refs.master, this)
  BY <1>1 DEF Started, Pushing1
<1>3. FollowsOn
  <2>1. this \in Versions
    BY DEF ActiveRuns, this
  <2>2. Contains(this, this)
    BY <2>1, ContainsFacts, Ranges DEF TypeInv
  <2>3. QED
    BY <1>2, <2>2 DEF InPlace, Begun
<1>4. SUFFICES ASSUME parent # Base
               PROVE  /\ Complete(parent)
                      /\ Stable(parent) => Contains(target.alias.version, parent)
  BY DEF Justified, parent
<1>5. parent \in Versions \ {this}
  <2>1. this \in Versions
    BY DEF ActiveRuns, this
  <2>2. parent \in 0..LastVersion /\ parent # this
    BY <2>1, ParentDiffers DEF TypeInv, parent
  <2>3. QED
    BY <1>4, <2>2, Numbers
<1>6. run.refs.tag[parent] # 0 /\ (Stable(parent) => run.refs.alias.version = parent)
  BY <1>3, <1>4 DEF FollowsOn
<1>7. Complete(parent)
  BY <1>1, <1>5, <1>6 DEF Audited
<1>8. QED
  BY <1>1, <1>6, <1>7 DEF ReadBefore

LEMMA RequestIs ==
    ASSUME this \in Versions, NEW op \in Operations, NEW id, NEW asset, NEW content,
           NEW w, w = Request(op, id, asset, content)
    PROVE  /\ w.op = op /\ w.version = this /\ w.id = id /\ w.asset = asset
           /\ w.content = content
           /\ id \in Runs => IsWrite(w)
BY DEF Request, IsWrite

LEMMA RequestSound ==
    ASSUME Inv, NEW w, Requested(w)
    PROVE  Sound(w)
<1> USE DEF Inv, RunInv
<1>1. /\ run \in ActiveRuns /\ Active /\ this \in Versions /\ run.n \in Runs
      /\ run.n = used.runs
  BY ActiveIs DEF Requested, ActiveRuns, OwnTag, this
<1>2. run.n <= used.runs
  BY <1>1, Ranges
<1>op. /\ "master" \in Operations /\ "tag" \in Operations /\ "create" \in Operations
       /\ "delete" \in Operations /\ "upload" \in Operations /\ "publish" \in Operations
       /\ "alias" \in Operations
  BY DEF Operations
<1>3. CASE run.pc = "push master"
  <2>1. w = Request("master", run.n, 0, 0)
    BY <1>3 DEF Requested
  <2>2. /\ w.op = "master" /\ w.version = this /\ IsWrite(w)
    BY <1>1, <1>op, <2>1, RequestIs
  <2>3. Justified(this)
    BY <1>1, <1>3, ParentDone
  <2>4. QED
    BY <2>2, <2>3 DEF Sound
<1>4. CASE run.pc = "push tag"
  <2>1. w = Request("tag", run.n, 0, 0)
    BY <1>4 DEF Requested
  <2>2. QED
    BY <1>1, <1>2, <1>op, <2>1, RequestIs DEF Sound
<1>5. CASE run.pc = "create"
  <2>1. target.tag[this] = run.n /\ target.releases[run.n] = NoRelease
    BY <1>1, <1>5 DEF OwnTag, NotYetCreated, UpToCreate
  <2>2. w = Request("create", run.n, 0, 0)
    BY <1>5 DEF Requested
  <2>3. QED
    BY <1>1, <1>2, <1>op, <2>1, <2>2, RequestIs DEF Sound
<1>6. CASE run.pc = "move"
  <2>1. Complete(this) /\ Contains(this, run.refs.alias.version)
    BY <1>6, AliasForward DEF Verified
  <2>2. Contains(target.master, this)
    BY <1>1, <1>6 DEF OnMaster, AfterTag, WithRelease
  <2>3. run.refs.alias \in Aliases
    BY <1>1 DEF ActiveRuns, ManyRefs
  <2>4. w = Request("alias", run.n, 0, run.refs.alias)
    BY <1>6 DEF Requested
  <2>5. QED
    BY <1>1, <1>op, <2>1, <2>2, <2>3, <2>4, RequestIs DEF Sound
<1>7. CASE run.pc \in {"delete", "post", "patch"}
  <2>1. /\ run.id \in Runs
        /\ run.pc = "delete" => Starters(run.boundary) # {}
        /\ run.pc = "post" => Missing # {}
    BY <1>1, <1>7 DEF Boundary, WithRelease
  <2>3. CASE run.pc = "delete"
    <3>1. Starter \in Starters(run.boundary)
      BY <2>1, <2>3 DEF Starter, Starters
    <3>2. /\ Starter \in Names /\ run.boundary.assets[Starter].state = "starter"
          /\ run.boundary.assets[Starter] \in Assets
      BY <1>1, <3>1 DEF Starters, ActiveRuns, Releases
    <3>3. w = Request("delete", run.id, Starter, run.boundary.assets[Starter])
      BY <2>3 DEF Requested
    <3>4. QED
      BY <1>1, <1>op, <2>1, <3>2, <3>3, RequestIs DEF Sound
  <2>4. CASE run.pc = "post"
    <3>1. Next3 \in Names /\ Asset \in Assets
      BY <1>1, <2>1, <2>4, NextIsMissing, AssetTyped DEF Missing
    <3>2. w = Request("upload", run.id, Next3, Asset)
      BY <2>4 DEF Requested
    <3>3. QED
      BY <1>1, <1>op, <2>1, <3>1, <3>2, RequestIs DEF Sound
  <2>5. CASE run.pc = "patch"
    <3>1. w = Request("publish", run.id, 0, 0)
      BY <2>5 DEF Requested
    <3>2. QED
      BY <1>1, <1>op, <2>1, <3>1, RequestIs DEF Sound
  <2>6. QED
    BY <1>7, <2>3, <2>4, <2>5
<1>8. QED
  BY <1>3, <1>4, <1>5, <1>6, <1>7 DEF Requested

-----------------------------------------------------------------------------
(* What a step does to the target and to the writes that are late.         *)

WriteSteps ==
    PushMaster \/ PushTag \/ Create \/ DeleteStarter \/ Upload \/ Publish \/ MoveAlias

Rests == target' = target /\ late' \subseteq late
GivesUp(w) == WriteSteps /\ Requested(w) /\ target' = target /\ late' = late \cup {w}
Lands(w) == w \in late /\ late' = late \ {w} /\ Takes(w)
Does(w) ==
    WriteSteps /\ Sound(w) /\ (w.op = "create" => Requested(w)) /\ Takes(w) /\ late' = late
WorldStep ==
    \/ Rests
    \/ \E w : GivesUp(w) \/ Lands(w) \/ Does(w)
    \/ EditsDraft /\ late' = late

LEMMA WriteDoes ==
    ASSUME Inv, WriteSteps, NEW pc, NEW w, Requested(w), NEW answered, NEW unanswered,
           Write(pc, w, answered, unanswered)
    PROVE  WorldStep /\ intents' = intents
<1>1. Sound(w) /\ target \in Targets /\ MadeByTagger
  BY RequestSound DEF Inv, TypeInv, TargetInv
<1>2. /\ \/ target' \in {target, Applied(w)} \cup Half(w) /\ late' = late
         \/ late' = late \cup {w} /\ target' = target
      /\ intents' = intents
  BY DEF Write
<1>3. CASE late' = late \cup {w} /\ target' = target
  BY <1>2, <1>3 DEF WorldStep, GivesUp
<1>4. CASE target' = target /\ late' = late
  BY <1>2, <1>4 DEF WorldStep, Rests
<1>5. CASE target' = Applied(w) /\ late' = late
  <2>1. target' = target \/ Takes(w)
    BY <1>1, <1>5, AppliedIs
  <2>2. QED
    BY <1>1, <1>2, <1>4, <1>5, <2>1 DEF WorldStep, Does
<1>6. CASE target' \in Half(w) /\ late' = late
  <2> DEFINE x == [w EXCEPT !.content.state = "starter"]
  <2>1. w.op = "upload" /\ target' = Applied(x)
    BY <1>6 DEF Half
  <2>2. Sound(x) /\ x.op = "upload"
    <3>1. w.asset \in Names /\ w.content \in Assets /\ IsWrite(w)
      BY <1>1, <2>1 DEF Sound
    <3> DEFINE a == [w.content EXCEPT !.state = "starter"]
    <3>2. a \in Assets
      BY <3>1 DEF Assets
    <3> HIDE DEF a
    <3>3. x = [op |-> w.op, version |-> w.version, id |-> w.id, asset |-> w.asset, content |-> a]
      BY <3>1 DEF IsWrite, a
    <3> HIDE DEF x
    <3>4. x.op = "upload" /\ x.asset \in Names /\ x.content \in Assets /\ IsWrite(x)
      BY <2>1, <3>1, <3>2, <3>3 DEF IsWrite
    <3>5. QED
      BY <3>4 DEF Sound
  <2> HIDE DEF x
  <2>3. target' = target \/ Takes(x)
    BY <1>1, <2>1, <2>2, AppliedIs
  <2>4. QED
    BY <1>2, <1>4, <1>6, <2>2, <2>3 DEF WorldStep, Does
<1>7. QED
  BY <1>2, <1>3, <1>4, <1>5, <1>6

LEMMA WriteStepsDo ==
    ASSUME Inv, WriteSteps
    PROVE  WorldStep /\ intents' = intents
<1>1. \A pc \in Steps : \A w, answered, unanswered :
         Write(pc, w, answered, unanswered) => run \in ActiveRuns /\ run.pc = pc
  BY WriteIs DEF Inv
<1>2. {"push master", "push tag", "create", "delete", "post", "patch", "move"} \subseteq Steps
  BY DEF Steps, UpToCreate, UpToMaster, WithTag, WithRelease
<1>3. CASE PushMaster
  BY <1>1, <1>2, <1>3, WriteDoes DEF PushMaster, Requested
<1>4. CASE PushTag
  BY <1>1, <1>2, <1>4, WriteDoes DEF PushTag, Requested
<1>5. CASE Create
  BY <1>1, <1>2, <1>5, WriteDoes DEF Create, Requested
<1>6. CASE DeleteStarter
  BY <1>1, <1>2, <1>6, WriteDoes DEF DeleteStarter, Requested
<1>7. CASE Upload
  BY <1>1, <1>2, <1>7, WriteDoes DEF Upload, Requested
<1>8. CASE Publish
  BY <1>1, <1>2, <1>8, WriteDoes DEF Publish, Requested
<1>9. CASE MoveAlias
  BY <1>1, <1>2, <1>9, WriteDoes DEF MoveAlias, Requested
<1>10. QED
  BY <1>3, <1>4, <1>5, <1>6, <1>7, <1>8, <1>9 DEF WriteSteps

\* The reads touch nothing, and only the making of a Draft is counted.
LEMMA ReadsRest ==
    ASSUME RunSteps \/ Dispatch \/ Overtake, ~WriteSteps
    PROVE  UNCHANGED <<intents, source, target, listed, late, posts>>
BY DEF RunSteps, WriteSteps, Dispatch, Overtake, Clone, List, Audit, Start, Select, Again,
       CheckMaster, CheckTag, Tagged, Adopt, Absent, Created, CheckStarter, Deleted, Existing,
       CheckUpload, UploadedOne, CheckPublish, Published, Verify, CheckAlias, Aliased, Finish,
       Read

LEMMA NextCases ==
    ASSUME [Next]_vars
    PROVE  RunSteps \/ Dispatch \/ Overtake \/ Others \/ UNCHANGED vars
BY DEF Next, Reading, Pushing, Releasing, Aliasing, RunSteps

LEMMA WorldSteps ==
    ASSUME Inv, [Next]_vars
    PROVE  WorldStep /\ intents' = intents
<1>1. CASE WriteSteps
  BY <1>1, WriteStepsDo
<1>2. CASE (RunSteps \/ Dispatch \/ Overtake) /\ ~WriteSteps
  BY <1>2, ReadsRest DEF WorldStep, Rests
<1>3. CASE Intend \/ Surface \/ Kill \/ UNCHANGED vars
  BY <1>3 DEF Intend, Surface, Kill, vars, WorldStep, Rests
<1>4. CASE Edit
  BY <1>4 DEF Edit, WorldStep, EditsDraft
<1>5. CASE Land
  <2>1. PICK w \in late : late' = late \ {w} /\ target' \in {target, Applied(w)}
    BY <1>5 DEF Land
  <2>2. Sound(w)
    BY DEF Inv, WritesInv, LateSound
  <2>3. target' = target \/ Takes(w)
    BY <2>1, <2>2, AppliedIs DEF Inv, TypeInv, TargetInv
  <2>4. QED
    BY <1>5, <2>1, <2>3 DEF Land, WorldStep, Rests, Lands
<1>6. QED
  BY <1>1, <1>2, <1>3, <1>4, <1>5, NextCases DEF Others

\* The bounds that have been used only grow.
LEMMA UsedGrows ==
    ASSUME Inv, [Next]_vars
    PROVE  /\ used' \in [runs : 0..MaxRuns, lost : 0..MaxLost, churn : 0..MaxChurn]
           /\ used.runs <= used'.runs
           /\ ~Dispatch => used'.runs = used.runs
<1> USE DEF Inv, TypeInv
<1>1. CASE Dispatch
  <2>1. used.runs < MaxRuns /\ used' = [used EXCEPT !.runs = @ + 1]
    BY <1>1 DEF Dispatch
  <2>2. used.runs + 1 \in 0..MaxRuns /\ used.runs <= used.runs + 1
    BY <2>1, BoundsAssumption
  <2>3. QED
    BY <1>1, <2>1, <2>2
<1>2. CASE Edit
  BY <1>2, BoundsAssumption DEF Edit
<1>3. CASE WriteSteps
  <2>1. UNCHANGED used \/ (used.lost < MaxLost /\ used' = [used EXCEPT !.lost = @ + 1])
    BY <1>3 DEF WriteSteps, PushMaster, PushTag, Create, DeleteStarter, Upload, Publish,
       MoveAlias, Write
  <2>2. QED
    BY <2>1, BoundsAssumption
<1>4. CASE UNCHANGED used
  BY <1>4, BoundsAssumption
<1>5. (RunSteps \/ Overtake) /\ ~WriteSteps => UNCHANGED used
  BY DEF RunSteps, WriteSteps, Overtake, Clone, List, Audit, Start, Select, Again,
     CheckMaster, CheckTag, Tagged, Adopt, Absent, Created, CheckStarter, Deleted, Existing,
     CheckUpload, UploadedOne, CheckPublish, Published, Verify, CheckAlias, Aliased, Finish,
     Read
<1>6. Intend \/ Surface \/ Land \/ Kill \/ UNCHANGED vars => UNCHANGED used
  BY DEF Intend, Surface, Land, Kill, vars
<1>7. QED
  BY <1>1, <1>2, <1>3, <1>4, <1>5, <1>6, NextCases DEF Others

LEMMA StepForward ==
    ASSUME Inv, [Next]_vars
    PROVE  Forward /\ intents' = intents
<1> USE DEF Inv
<1>1. WorldStep /\ intents' = intents
  BY WorldSteps
<1>2. CASE target' = target
  <2>1. target \in Targets
    BY DEF TypeInv
  <2>2. \A v \in Versions : Complete(v) => Complete(v)'
    BY <1>2, <2>1, CompleteStays
  <2>3. QED
    BY <1>1, <1>2, <2>1, <2>2, ContainsFacts DEF Forward, TypeInv, Targets, Aliases
<1>3. ASSUME NEW w, Sound(w), Takes(w) PROVE Forward
  BY <1>1, <1>3, TakesForward
<1>4. CASE EditsDraft
  BY <1>1, <1>4, EditsForward
<1>5. QED
  BY <1>1, <1>2, <1>3, <1>4 DEF WorldStep, Rests, GivesUp, Lands, Does, WritesInv, LateSound

\* Each version of the target keeps the run that made its tag.
LEMMA TaggedKept ==
    ASSUME Inv, [Next]_vars
    PROVE  TaggedBefore'
<1> USE DEF Inv
<1>1. used.runs <= used'.runs /\ used.runs \in Nat /\ used'.runs \in Nat
  BY UsedGrows, BoundsAssumption DEF TypeInv
<1>2. ASSUME NEW v \in Versions
      PROVE  target'.tag[v] = target.tag[v] \/ target'.tag[v] \in 0..used.runs
  <2>1. ASSUME NEW w, Sound(w), Takes(w)
        PROVE  target'.tag[v] = target.tag[v] \/ target'.tag[v] \in 0..used.runs
    <3>1. CASE MakesTag(w)
      <4>1. w.id \in 0..used.runs
        BY <1>1, <2>1, <3>1, Ranges, BoundsAssumption DEF MakesTag, Sound, IsWrite, Runs
      <4>2. target'.tag = [target.tag EXCEPT ![w.version] = w.id]
        BY <3>1 DEF MakesTag, TypeInv, Targets
      <4>3. QED
        BY <4>1, <4>2 DEF TypeInv, Targets
    <3>2. CASE ~MakesTag(w)
      BY <2>1, <3>2 DEF Takes, MovesMaster, MakesDraft, ChangesRelease, MovesAlias, TypeInv, Targets
    <3>3. QED
      BY <3>1, <3>2
  <2>2. EditsDraft => target'.tag = target.tag
    BY WorldSteps, EditsForward
  <2>3. QED
    BY <2>1, <2>2, WorldSteps DEF WorldStep, Rests, GivesUp, Lands, Does, WritesInv, LateSound
<1>3. ASSUME NEW v \in Versions
      PROVE  target'.tag[v] <= used'.runs
  <2>1. target.tag[v] <= used.runs /\ target.tag[v] \in 0..MaxRuns
    BY DEF TargetInv, TaggedBefore, TypeInv, Targets
  <2>2. target.tag[v] \in Nat
    BY <2>1, BoundsAssumption
  <2>3. QED
    BY <1>1, <1>2, <2>1, <2>2
<1>4. QED
  BY <1>3 DEF TaggedBefore

\* A Release is of the version whose tag its run made.
LEMMA MadeKept ==
    ASSUME Inv, [Next]_vars
    PROVE  MadeByTagger'
<1> USE DEF Inv
<1>f. Forward /\ WorldStep /\ intents' = intents /\ target \in Targets /\ target' \in Targets
  BY StepForward, WorldSteps DEF Forward, TypeInv
<1> DEFINE Made(r, i, t) == /\ r.version = Base <=> r = NoRelease
                            /\ r.version # Base => t.tag[r.version] = i /\ r.phase # "none"
<1>1. SUFFICES ASSUME NEW i \in Runs PROVE Made(target'.releases[i], i, target')
  BY DEF MadeByTagger
<1>2. Made(target.releases[i], i, target) /\ target.releases[i] \in Releases
  BY <1>f DEF TargetInv, MadeByTagger, Targets
<1>3. target.releases[i].version # Base => target.releases[i].version \in Versions
  BY <1>2, Numbers DEF Releases
<1>4. i # 0 /\ NoRelease.version = Base
  BY Ranges DEF NoRelease
<1>5. CASE target'.releases[i] = target.releases[i]
  BY <1>f, <1>2, <1>3, <1>4, <1>5 DEF Forward
<1>6. ASSUME NEW w, Sound(w), Takes(w), target'.releases[i] # target.releases[i]
      PROVE  Made(target'.releases[i], i, target')
  <2>1. w.id \in Runs /\ w.version \in Versions
    BY <1>6 DEF Sound, IsWrite
  <2>2. CASE MakesDraft(w)
    <3>1. w.id = i /\ target'.tag = target.tag
      BY <1>f, <1>6, <2>2 DEF MakesDraft, Targets
    <3>2. /\ target'.releases[i].version = w.version /\ target'.releases[i].phase = "draft"
      BY <1>f, <2>1, <2>2, <3>1 DEF MakesDraft, Targets, NoRelease
    <3>3. target.tag[w.version] = i
      BY <1>6, <2>2, <3>1 DEF Sound, MakesDraft
    <3>4. QED
      BY <2>1, <3>1, <3>2, <3>3, <1>4, Numbers
  <2>3. CASE ChangesRelease(w)
    <3>1. PICK new \in Releases : /\ Grows(target.releases[w.id], new)
                                  /\ target' = [target EXCEPT !.releases[w.id] = new]
      BY <2>3 DEF ChangesRelease
    <3>2. w.id = i /\ target'.tag = target.tag /\ target'.releases[i] = new
      BY <1>f, <1>6, <2>1, <3>1 DEF Targets
    <3>3. target.releases[i] # NoRelease
      BY <1>6, <3>1, <3>2 DEF Grows
    <3>4. QED
      BY <1>2, <1>4, <3>1, <3>2, <3>3 DEF Grows
  <2>4. CASE MovesMaster(w) \/ MakesTag(w) \/ MovesAlias(w)
    BY <1>f, <1>6, <2>4 DEF MovesMaster, MakesTag, MovesAlias, Targets
  <2>5. QED
    BY <1>6, <2>2, <2>3, <2>4 DEF Takes
<1>7. CASE EditsDraft
  <2>1. /\ target'.tag = target.tag
        /\ \/ target'.releases[i] = NoRelease
           \/ /\ target'.releases[i].version = target.releases[i].version
              /\ target'.releases[i].phase = target.releases[i].phase
        /\ target'.releases[i] # target.releases[i] => target.releases[i].phase = "draft"
    BY <1>7, <1>f, EditsForward
  <2>2. NoRelease.phase = "none"
    BY DEF NoRelease
  <2>3. QED
    BY <1>2, <1>4, <2>1, <2>2
<1>8. QED
  BY <1>f, <1>5, <1>6, <1>7 DEF WorldStep, Rests, GivesUp, Lands, Does, WritesInv, LateSound

\* Nothing is left behind.
LEMMA BehindKept ==
    ASSUME Inv, [Next]_vars
    PROVE  NoneLeftBehind'
<1> USE DEF Inv
<1>1. /\ Forward /\ WorldStep /\ intents' = intents
      /\ TypeInv /\ NoneLeftBehind /\ target \in Targets
  BY StepForward, WorldSteps DEF TargetInv, TypeInv
<1>2. CASE target'.master = target.master /\ target'.alias = target.alias
  BY <1>1, <1>2, StaysBehind
<1>3. ASSUME NEW w, Sound(w), Takes(w) PROVE NoneLeftBehind'
  <2>1. CASE MovesMaster(w)
    BY <1>1, <1>3, <2>1, MasterMoves
  <2>2. CASE MovesAlias(w)
    BY <1>1, <1>3, <2>2, AliasMoves
  <2>3. CASE MakesTag(w) \/ MakesDraft(w) \/ ChangesRelease(w)
    BY <1>1, <1>2, <2>3 DEF MakesTag, MakesDraft, ChangesRelease, Targets
  <2>4. QED
    BY <1>3, <2>1, <2>2, <2>3 DEF Takes
<1>4. CASE EditsDraft
  BY <1>1, <1>2, <1>4, EditsForward
<1>5. QED
  BY <1>1, <1>2, <1>3, <1>4 DEF WorldStep, Rests, GivesUp, Lands, Does, WritesInv, LateSound

-----------------------------------------------------------------------------
(* Writes that are late, and Drafts asked for.                             *)

\* A Release that is not there stays away until its Draft is asked for.
LEMMA AbsentStays ==
    ASSUME Inv, [Next]_vars, NEW i \in Runs, target.releases[i] = NoRelease,
           \A w : Lands(w) \/ Does(w) => w.op # "create" \/ w.id # i
    PROVE  target'.releases[i] = NoRelease
<1> USE DEF Inv
<1>1. WorldStep /\ intents' = intents /\ target \in Targets
  BY WorldSteps DEF TypeInv
<1>2. ASSUME NEW w, Lands(w) \/ Does(w) PROVE target'.releases[i] = NoRelease
  <2>1. Takes(w) /\ Sound(w) /\ (w.op # "create" \/ w.id # i)
    BY <1>2 DEF Lands, Does, WritesInv, LateSound
  <2>2. CASE ChangesRelease(w)
    <3>1. PICK new \in Releases : /\ Grows(target.releases[w.id], new)
                                  /\ target' = [target EXCEPT !.releases[w.id] = new]
      BY <2>2 DEF ChangesRelease
    <3>2. w.id = i => new = NoRelease
      BY <3>1 DEF Grows
    <3>3. QED
      BY <1>1, <3>1, <3>2 DEF Targets
  <2>3. CASE ~ChangesRelease(w)
    BY <1>1, <2>1, <2>3 DEF Takes, MovesMaster, MakesTag, MakesDraft, MovesAlias, Targets
  <2>4. QED
    BY <2>2, <2>3
<1>3. CASE EditsDraft
  <2>1. target.releases[i].phase # "draft"
    BY DEF NoRelease
  <2>2. QED
    BY <1>1, <1>3, <2>1, EditsForward
<1>4. QED
  BY <1>1, <1>2, <1>3 DEF WorldStep, Rests, GivesUp

LEMMA SoundStays ==
    ASSUME Inv, [Next]_vars, NEW w, Sound(w),
           w.op = "create" => target'.releases[w.id] = NoRelease
    PROVE  Sound(w)'
<1> USE DEF Inv
<1>1. Forward /\ intents' = intents /\ History' = History
  BY StepForward, SameHistory
<1>2. used.runs <= used'.runs /\ used.runs \in Nat /\ used'.runs \in Nat
  BY UsedGrows, BoundsAssumption DEF TypeInv
<1>3. IsWrite(w) /\ w.version \in Versions /\ w.id \in Runs /\ w.id \in Nat
  BY BoundsAssumption DEF Sound, IsWrite, Runs
<1>4. w.op = "master" => Justified(w.version)'
  <2>1. SUFFICES ASSUME Justified(w.version), intents[w.version].parent # Base
                 PROVE  Justified(w.version)'
    BY <1>1 DEF Sound, Justified
  <2> DEFINE p == intents[w.version].parent
  <2>2. p \in Versions
    BY <1>3, <2>1, ParentDiffers, Numbers DEF TypeInv
  <2>3. Complete(p)' /\ (Stable(p) => Contains(target.alias.version, p))
    BY <1>1, <2>1, <2>2 DEF Justified, Forward
  <2>4. target'.alias.version \in 0..LastVersion
    BY <1>1 DEF Forward, Targets, Aliases
  <2>5. Stable(p) => Contains(target'.alias.version, p)
    BY <1>1, <2>3, <2>4, ContainsFacts DEF Forward, TypeInv
  <2>6. QED
    BY <1>1, <2>3, <2>5 DEF Justified, Stable, Contains
<1>5. w.op = "create" => target'.tag[w.version] = w.id
  <2>1. w.id # 0
    BY <1>3, Ranges
  <2>2. QED
    BY <1>1, <1>3, <2>1 DEF Forward, Sound
<1>6. w.op = "alias" => Complete(w.version)' /\ Contains(target'.master, w.version)
  <2>1. target'.master \in 0..LastVersion
    BY <1>1 DEF Forward, Targets
  <2>2. QED
    BY <1>1, <1>3, <2>1, ContainsFacts DEF Forward, Sound, TypeInv
<1>7. w.op \in {"tag", "create"} => w.id <= used'.runs
  BY <1>2, <1>3 DEF Sound
<1>8. QED
  BY <1>1, <1>3, <1>4, <1>5, <1>6, <1>7 DEF Sound, Contains

\* Asking for a Draft is the first time.
LEMMA RequestedCreate ==
    ASSUME Inv, NEW w, Requested(w), w.op = "create"
    PROVE  /\ run.pc = "create" /\ w.id = run.n
           /\ \A x \in late : x.op = "create" => x.id # run.n
           /\ target.tag[this] = run.n /\ posts[this] = 0
<1> USE DEF Inv, RunInv
<1>1. run \in ActiveRuns /\ Active /\ this \in Versions
  BY ActiveIs DEF Requested, ActiveRuns, this
<1>2. \A op, id, asset, content :
         LET x == Request(op, id, asset, content) IN x.op = op /\ x.id = id
  BY DEF Request
<1>a. /\ w # Request("master", run.n, 0, 0) /\ w # Request("tag", run.n, 0, 0)
      /\ w # Request("delete", run.id, Starter, run.boundary.assets[Starter])
      /\ w # Request("upload", run.id, Next3, Asset)
      /\ w # Request("publish", run.id, 0, 0)
      /\ w # Request("alias", run.n, 0, run.refs.alias)
  BY <1>2
<1>3. run.pc = "create" /\ w = Request("create", run.n, 0, 0)
  BY <1>a DEF Requested
<1>4. w.id = run.n
  BY <1>2, <1>3
<1>5. QED
  BY <1>1, <1>3, <1>4 DEF NotYetCreated, OwnTag, UpToCreate

LEMMA LateCreates ==
    ASSUME Inv, [Next]_vars
    PROVE  /\ OneCreate'
           /\ \A x \in late' : x.op = "create" => target'.releases[x.id] = NoRelease
<1> USE DEF Inv
<1>1. ASSUME NEW x \in late', x.op = "create"
      PROVE  target'.releases[x.id] = NoRelease
  <2>1. Sound(x)
    BY <1>1, WorldSteps, RequestSound, EditsForward
       DEF WorldStep, Rests, GivesUp, Lands, Does, WritesInv, LateSound
  <2>2. x.id \in Runs /\ target.releases[x.id] = NoRelease
    BY <1>1, <2>1 DEF Sound, IsWrite
  <2>3. CASE target' = target
    BY <2>2, <2>3
  <2>4. ASSUME target' # target, NEW w, Lands(w) \/ Does(w), w.op = "create"
        PROVE  w.id # x.id
    <3>1. CASE Lands(w)
      BY <1>1, <2>4, <3>1 DEF Lands, WritesInv, OneCreate
    <3>2. CASE Does(w)
      <4>1. Requested(w) /\ x \in late
        BY <1>1, <2>4, <3>2 DEF Does
      <4>2. QED
        BY <1>1, <2>4, <4>1, RequestedCreate
    <3>3. QED
      BY <2>4, <3>1, <3>2
  <2>5. QED
    BY <2>2, <2>3, <2>4, AbsentStays
<1>2. OneCreate'
  <2>1. CASE late' \subseteq late
    BY <2>1 DEF WritesInv, OneCreate
  <2>2. ASSUME NEW w, GivesUp(w) PROVE OneCreate'
    <3>1. w.op = "create" => \A x \in late : x.op = "create" => x.id # w.id
      BY <2>2, RequestedCreate DEF GivesUp
    <3>2. QED
      BY <2>2, <3>1 DEF GivesUp, WritesInv, OneCreate
  <2>3. QED
    BY <2>1, <2>2, WorldSteps DEF WorldStep, Rests, Lands, Does
<1>3. QED
  BY <1>1, <1>2

LEMMA WritesKept ==
    ASSUME Inv, [Next]_vars
    PROVE  WritesInv' /\ (\A w \in late : IsWrite(w))'
<1> USE DEF Inv
<1>1. ASSUME NEW x \in late' PROVE Sound(x)'
  <2>1. Sound(x)
    BY WorldSteps, RequestSound
       DEF WorldStep, Rests, GivesUp, Lands, Does, WritesInv, LateSound
  <2>2. QED
    BY <2>1, LateCreates, SoundStays
<1>2. \A x \in late' : IsWrite(x)
  BY <1>1 DEF Sound, IsWrite
<1>3. QED
  BY <1>1, <1>2, LateCreates DEF WritesInv, LateSound, IsWrite

LEMMA PostsChange ==
    ASSUME Inv, [Next]_vars
    PROVE  \/ posts' = posts
           \/ /\ Create /\ posts' = [posts EXCEPT ![this] = @ + 1]
              /\ this \in Versions /\ posts[this] = 0 /\ target.tag[this] = run.n
              /\ run.n \in Runs
<1>1. CASE Create
  <2>1. "create" \in Steps /\ "create" \in Operations
    BY DEF Steps, UpToCreate, Operations
  <2>2. run \in ActiveRuns /\ run.pc = "create"
    BY <1>1, <2>1, WriteIs DEF Create, Inv
  <2>3. this \in Versions /\ run.n \in Runs
    BY <2>2 DEF ActiveRuns, this
  <2>4. Requested(Request("create", run.n, 0, 0))
    BY <2>2 DEF Requested
  <2>5. Request("create", run.n, 0, 0).op = "create"
    BY DEF Request
  <2>6. posts[this] = 0 /\ target.tag[this] = run.n
    BY <2>4, <2>5, RequestedCreate
  <2>7. QED
    BY <1>1, <2>3, <2>6 DEF Create
<1>2. CASE WriteSteps /\ ~Create
  BY <1>2 DEF WriteSteps, PushMaster, PushTag, DeleteStarter, Upload, Publish, MoveAlias
<1>3. CASE (RunSteps \/ Dispatch \/ Overtake) /\ ~WriteSteps
  BY <1>3, ReadsRest
<1>4. CASE Others \/ UNCHANGED vars
  BY <1>4 DEF Others, Intend, Surface, Land, Edit, Kill, vars
<1>5. QED
  BY <1>1, <1>2, <1>3, <1>4, NextCases

LEMMA PostedKept ==
    ASSUME Inv, [Next]_vars
    PROVE  PostedOnce' /\ posts' \in [Versions -> Nat]
<1>1. Forward /\ posts \in [Versions -> Nat] /\ PostedOnce
  BY StepForward DEF Inv, TypeInv, TargetInv
<1>2. CASE posts' = posts
  BY <1>1, <1>2 DEF PostedOnce, Forward
<1>3. CASE /\ posts' = [posts EXCEPT ![this] = @ + 1]
           /\ this \in Versions /\ posts[this] = 0 /\ target.tag[this] = run.n /\ run.n \in Runs
  <2>1. target'.tag[this] # 0
    BY <1>1, <1>3, Ranges DEF Forward
  <2>2. posts' = [posts EXCEPT ![this] = 1]
    BY <1>1, <1>3
  <2>3. QED
    BY <1>1, <1>3, <2>1, <2>2 DEF PostedOnce, Forward
<1>4. QED
  BY <1>2, <1>3, PostsChange

-----------------------------------------------------------------------------
(* The run.                                                                *)

Stands(r) ==
    /\ r \in ActiveRuns /\ r.pc = run.pc
    /\ r.n = run.n /\ r.version = run.version /\ r.refs = run.refs /\ r.fresh = run.fresh
    /\ r.id = run.id /\ r.boundary = run.boundary

\* The run begins, goes on, stands, or is over.
LEMMA RunCases ==
    ASSUME Inv, [Next]_vars
    PROVE  \/ Dispatch
           \/ RunSteps /\ Goes(run')
           \/ ~RunSteps /\ run \in ActiveRuns /\ Stands(run')
           \/ run' \in {Idle} \cup EndedRuns
<1> USE DEF Inv
<1>1. CASE RunSteps
  BY <1>1, StepGoes
<1>2. CASE Overtake
  <2>1. run.pc = "start" /\ run' \in {Refused, Over("superseded")}
    BY <1>2 DEF Overtake, At
  <2>2. run \in ActiveRuns
    BY <2>1, ActiveIs DEF Active
  <2>3. QED
    BY <2>1, <2>2, RefusedEnds, Ends
<1>3. CASE Kill
  BY <1>3 DEF Kill
<1>4. ASSUME ~RunSteps, run' = run \/ run' = (IF Active THEN [run EXCEPT !.calm = FALSE] ELSE Idle)
      PROVE  (run \in ActiveRuns /\ Stands(run')) \/ run' \in {Idle} \cup EndedRuns
  <2>1. CASE run \in ActiveRuns
    <3>1. Stands(run)
      BY <2>1 DEF Stands
    <3>2. Stands([run EXCEPT !.calm = FALSE])
      BY <2>1 DEF Stands, ActiveRuns
    <3>3. QED
      BY <1>4, <2>1, <3>1, <3>2, ActiveIs
  <2>2. CASE run \notin ActiveRuns
    BY <1>4, <2>2, ActiveIs DEF TypeInv
  <2>3. QED
    BY <2>1, <2>2
<1>5. CASE ~RunSteps /\ (Intend \/ Surface \/ Land \/ Edit \/ UNCHANGED vars)
  <2>1. run' = run \/ run' = (IF Active THEN [run EXCEPT !.calm = FALSE] ELSE Idle)
    BY <1>5 DEF Intend, Surface, Land, Edit, Meanwhile, vars
  <2>2. QED
    BY <1>4, <1>5, <2>1
<1>6. QED
  BY <1>1, <1>2, <1>3, <1>5, NextCases DEF Others

\* A run begins with what there is.
LEMMA Begins ==
    ASSUME Inv, Dispatch
    PROVE  /\ run' \in ActiveRuns /\ run'.pc = "clone" /\ run'.n = used.runs + 1
           /\ run'.refs = Refs /\ run'.fresh = FALSE /\ run'.n = used'.runs
           /\ UNCHANGED <<target, late, posts>>
<1> USE DEF Inv
<1>0. PICK w \in 1..source :
        \E selector \in {0} \cup {i \in Runs : target.releases[i] # NoRelease} :
        \E admission \in Admissions(w) :
        run' = [pc |-> "clone", n |-> used.runs + 1, version |-> w, selector |-> selector,
                admission |-> admission, live |-> source, refs |-> Refs, print |-> Refs,
                inventory |-> [i \in Runs |-> NoRelease], id |-> 0, boundary |-> NoRelease,
                provenance |-> 0, stale |-> FALSE, fresh |-> FALSE, superseded |-> FALSE,
                calm |-> TRUE]
  BY DEF Dispatch
<1>1. PICK selector \in {0} \cup {i \in Runs : target.releases[i] # NoRelease},
           admission \in Admissions(w) :
        run' = [pc |-> "clone", n |-> used.runs + 1, version |-> w, selector |-> selector,
                admission |-> admission, live |-> source, refs |-> Refs, print |-> Refs,
                inventory |-> [i \in Runs |-> NoRelease], id |-> 0, boundary |-> NoRelease,
                provenance |-> 0, stale |-> FALSE, fresh |-> FALSE, superseded |-> FALSE,
                calm |-> TRUE]
  BY <1>0
<1>2. /\ used.runs < MaxRuns /\ used' = [used EXCEPT !.runs = @ + 1]
      /\ UNCHANGED <<target, late, posts>>
  BY DEF Dispatch
<1>3. used.runs + 1 \in Runs /\ used'.runs = used.runs + 1
  BY <1>2, BoundsAssumption DEF TypeInv, Runs
<1>4. w \in Versions /\ source \in Versions
  BY BoundsAssumption DEF TypeInv, Versions
<1>5. selector \in 0..MaxRuns /\ 0 \in 0..MaxRuns
  BY Ranges, BoundsAssumption
<1>6. admission \in {"eligible", "superseded", "drifted"}
  BY DEF Admissions
<1>7. "clone" \in Steps
  BY DEF Steps, UpToCreate, UpToAudit
<1>8. run' \in ActiveRuns
  BY <1>1, <1>3, <1>4, <1>5, <1>6, <1>7, RefsTyped, NoAssetTyped DEF ActiveRuns
<1>9. QED
  BY <1>1, <1>2, <1>3, <1>8

LEMMA TypeKept ==
    ASSUME Inv, [Next]_vars
    PROVE  TypeInv'
<1> USE DEF Inv
<1>1. intents' \in Intents /\ target' \in Targets
  BY StepForward DEF Forward, TypeInv
<1>2. run' \in {Idle} \cup EndedRuns \cup ActiveRuns
  BY RunCases, Begins DEF Goes, Keeps, Stands
<1>3. source' \in Versions /\ listed' \in SUBSET Runs
  <2>1. CASE Intend
    <3>1. source' = source + 1 /\ source < LastVersion /\ listed' = listed
      BY <2>1 DEF Intend
    <3>2. QED
      BY <3>1, BoundsAssumption DEF TypeInv, Versions
  <2>2. CASE WriteSteps
    BY <2>2 DEF WriteSteps, PushMaster, PushTag, Create, DeleteStarter, Upload, Publish,
       MoveAlias, Write, TypeInv
  <2>3. CASE (RunSteps \/ Dispatch \/ Overtake) /\ ~WriteSteps
    BY <2>3, ReadsRest DEF TypeInv
  <2>4. CASE Surface \/ Land \/ Edit \/ Kill \/ UNCHANGED vars
    BY <2>4 DEF Surface, Land, Edit, Kill, vars, TypeInv
  <2>5. QED
    BY <2>1, <2>2, <2>3, <2>4, NextCases DEF Others
<1>4. QED
  BY <1>1, <1>2, <1>3, WritesKept, PostedKept, UsedGrows DEF TypeInv

LEMMA ActiveNext ==
    ASSUME Inv, [Next]_vars, Active' \/ run'.pc \notin {"idle", "over"}
    PROVE  /\ run' \in ActiveRuns /\ Active'
           /\ Dispatch \/ (RunSteps /\ Goes(run')) \/ (~RunSteps /\ ~Dispatch /\ Stands(run'))
           /\ ~Dispatch => run \in ActiveRuns /\ Active
<1>1. run'.pc \notin {"idle", "over"}
  BY DEF Active
<1>2. run' \notin {Idle} \cup EndedRuns
  BY <1>1 DEF Idle, EndedRuns
<1>3. Dispatch \/ (RunSteps /\ Goes(run')) \/ (~RunSteps /\ ~Dispatch /\ run \in ActiveRuns /\ Stands(run'))
  BY <1>2, RunCases
<1>4. run' \in ActiveRuns
  BY <1>3, Begins DEF Goes, Keeps, Stands
<1>5. RunSteps => run \in ActiveRuns
  BY StepGoes
<1>6. QED
  BY <1>1, <1>3, <1>4, <1>5, ActiveIs DEF Active, Inv

\* The steps are told by where the run is.
LEMMA StepAt ==
    ASSUME Inv, RunSteps
    PROVE  /\ run.pc = "audit" => Audit
           /\ run.pc = "start" => Start
           /\ run.pc = "master" => CheckMaster
           /\ run.pc = "tag" => CheckTag
           /\ run.pc = "tagged" => Tagged
           /\ run.pc = "release" => Adopt \/ Absent
           /\ run.pc = "create" => Create
           /\ run.pc = "created" => Created
           /\ run.pc = "starter" => CheckStarter
           /\ run.pc = "deleted" => Deleted
           /\ run.pc = "upload" => CheckUpload
           /\ run.pc = "uploaded" => UploadedOne
           /\ run.pc = "publish" => CheckPublish
           /\ run.pc = "published" => Published
           /\ run.pc = "verify" => Verify
BY DEF RunSteps, Clone, List, Audit, Start, Select, Again, CheckMaster, PushMaster, CheckTag,
       PushTag, Tagged, Adopt, Absent, Create, Created, CheckStarter, DeleteStarter, Deleted,
       Existing, CheckUpload, Upload, UploadedOne, CheckPublish, Publish, Published, Verify,
       CheckAlias, MoveAlias, Aliased, Finish, Read, Write, At

LEMMA OwnTagKept ==
    ASSUME Inv, [Next]_vars
    PROVE  OwnTag'
<1> USE DEF Inv, RunInv
<1> SUFFICES ASSUME Active'
             PROVE  /\ run'.n = used'.runs
                    /\ run'.fresh => target'.tag[run'.version] = run'.n
                    /\ run'.pc = "create" => run'.fresh
  BY DEF OwnTag, this
<1>1. CASE Dispatch
  BY <1>1, Begins
<1>2. CASE ~Dispatch
  <2>1. /\ run \in ActiveRuns /\ Active /\ run'.n = run.n /\ run'.version = run.version
        /\ (RunSteps /\ Goes(run')) \/ (~RunSteps /\ Stands(run'))
    BY <1>2, ActiveNext DEF Goes, Keeps, Stands
  <2>2. run'.n = used'.runs
    BY <1>2, <2>1, UsedGrows DEF OwnTag
  <2>3. target.tag[run.version] = run.n => target'.tag[run.version] = run.n
    BY <2>1, StepForward, Ranges DEF Forward, ActiveRuns
  <2>4. run'.fresh => run.fresh \/ target.tag[run.version] = run.n
    <3>1. CASE RunSteps /\ run.pc = "tagged"
      <4>1. Tagged
        BY <3>1, StepAt
      <4>2. target.tag[this] = run.n \/ run' = Refused
        BY <4>1 DEF Tagged, Read
      <4>3. run' # Refused
        BY <2>1, <3>1, RefusedEnds DEF Goes, Keeps, ActiveRuns, EndedRuns, Steps, UpToCreate,
           UpToAudit, UpToMaster, WithTag, WithRelease
      <4>4. QED
        BY <4>2, <4>3 DEF this
    <3>2. CASE ~(RunSteps /\ run.pc = "tagged")
      BY <2>1, <3>2 DEF Goes, Keeps, Stands
    <3>3. QED
      BY <3>1, <3>2
  <2>5. run'.pc = "create" => run'.fresh
    <3>1. CASE RunSteps /\ run'.pc = "create"
      <4>1. run.pc = "release" /\ run'.fresh = run.fresh
        BY <2>1, <3>1 DEF Goes, Keeps, Path
      <4>2. CASE Absent
        BY <3>1, <4>1, <4>2 DEF Absent, Read, MayCreate, Refused, Over
      <4>3. CASE Adopt
        BY <2>1, <3>1, <4>3 DEF Adopt, Read, ActiveRuns, Refused, Over
      <4>4. QED
        BY <3>1, <4>1, <4>2, <4>3, StepAt
    <3>2. CASE ~RunSteps
      BY <2>1, <3>2 DEF Stands, OwnTag
    <3>3. QED
      BY <3>1, <3>2
  <2>6. QED
    BY <2>1, <2>2, <2>3, <2>4, <2>5 DEF OwnTag, this
<1>3. QED
  BY <1>1, <1>2

LEMMA NotYetKept ==
    ASSUME Inv, [Next]_vars
    PROVE  NotYetCreated'
<1> USE DEF Inv, RunInv
<1> SUFFICES ASSUME Active', run'.pc \in UpToCreate
             PROVE  /\ target'.releases[run'.n] = NoRelease
                    /\ \A w \in late' : w.op = "create" => w.id # run'.n
                    /\ target'.tag[run'.version] = run'.n => posts'[run'.version] = 0
  BY DEF NotYetCreated, this
<1>1. CASE Dispatch
  <2>1. run'.n = used.runs + 1 /\ run' \in ActiveRuns /\ UNCHANGED <<target, late, posts>>
    BY <1>1, Begins
  <2>2. run'.n \in Runs /\ run'.version \in Versions
    BY <2>1 DEF ActiveRuns
  <2>3. used.runs \in Nat /\ ~ (run'.n <= used.runs)
    BY <2>1, BoundsAssumption DEF TypeInv
  <2>4. target.releases[run'.n] = NoRelease
    <3>1. target.releases[run'.n].version # Base => target.releases[run'.n].version \in Versions
      BY <2>2, Numbers DEF TypeInv, Targets, Releases
    <3>2. QED
      BY <2>2, <2>3, <3>1 DEF TargetInv, MadeByTagger, TaggedBefore
  <2>5. \A w \in late : w.op = "create" => w.id # run'.n
    BY <2>3 DEF WritesInv, LateSound, Sound
  <2>6. target.tag[run'.version] # run'.n
    BY <2>2, <2>3 DEF TargetInv, TaggedBefore
  <2>7. QED
    BY <2>1, <2>4, <2>5, <2>6
<1>2. CASE ~Dispatch
  <2>1. /\ run \in ActiveRuns /\ Active /\ run'.n = run.n /\ run'.version = run.version
        /\ run.n \in Runs /\ run.version \in Versions
        /\ (RunSteps /\ Goes(run')) \/ (~RunSteps /\ Stands(run'))
    BY <1>2, ActiveNext DEF Goes, Keeps, Stands, ActiveRuns
  <2>2. run.pc \in UpToCreate /\ (RunSteps => run.pc # "create")
    BY <2>1 DEF Goes, Path, Stands, UpToCreate, UpToAudit, UpToMaster, WithTag
  <2>3. /\ target.releases[run.n] = NoRelease
        /\ \A w \in late : w.op = "create" => w.id # run.n
        /\ target.tag[run.version] = run.n => posts[run.version] = 0
    BY <2>1, <2>2 DEF NotYetCreated, this
  <2>4. ASSUME NEW w, GivesUp(w) \/ Lands(w) \/ Does(w), w.op = "create" PROVE w.id # run.n
    <3>1. WriteSteps => RunSteps
      BY DEF WriteSteps, RunSteps
    <3>2. Requested(w) => run.pc = "create"
      BY <2>4, RequestedCreate
    <3>3. Lands(w)
      BY <2>2, <2>4, <3>1, <3>2 DEF GivesUp, Does
    <3>4. QED
      BY <2>3, <2>4, <3>3 DEF Lands
  <2>5. target'.releases[run.n] = NoRelease
    BY <2>1, <2>3, <2>4, AbsentStays
  <2>6. \A w \in late' : w.op = "create" => w.id # run.n
    BY <2>3, <2>4, WorldSteps DEF WorldStep, Rests, GivesUp, Lands, Does
  <2>7. ASSUME target'.tag[run.version] = run.n PROVE posts'[run.version] = 0
    <3>1. posts[run.version] = 0
      BY <2>1, <2>3, <2>7, StepForward DEF Forward, TargetInv, PostedOnce
    <3>2. ~Create
      <4>1. Create => RunSteps /\ run.pc = "create"
        BY DEF Create, RunSteps, Write, At
      <4>2. QED
        BY <2>2, <4>1
    <3>3. QED
      BY <3>1, <3>2, PostsChange
  <2>8. QED
    BY <2>1, <2>5, <2>6, <2>7
<1>3. QED
  BY <1>1, <1>2

LEMMA ReadBeforeKept ==
    ASSUME Inv, [Next]_vars
    PROVE  ReadBefore'
<1> USE DEF Inv, RunInv
<1>0. Forward /\ intents' = intents /\ History' = History
  BY StepForward, SameHistory
<1>1. target'.master \in 0..LastVersion /\ target'.alias.version \in 0..LastVersion
  BY <1>0 DEF Forward, Targets, Aliases
<1> SUFFICES ASSUME Active'
             PROVE  /\ Contains(target'.master, run'.refs.master)
                    /\ Contains(target'.alias.version, run'.refs.alias.version)
  BY <1>0 DEF ReadBefore, Contains
<1>2. CASE run'.refs = Refs
  BY <1>0, <1>2 DEF Refs, Forward
<1>3. CASE run'.refs # Refs
  <2>1. ~Dispatch
    BY <1>3, Begins
  <2>2. /\ Active
        /\ (RunSteps /\ Goes(run')) \/ (~RunSteps /\ Stands(run'))
    BY <2>1, ActiveNext
  <2>3. run'.refs = run.refs
    <3>1. CASE RunSteps /\ run.pc = "clone"
      <4>1. Clone
        BY <3>1 DEF RunSteps, Clone, List, Audit, Start, Select, Again, CheckMaster, PushMaster,
           CheckTag, PushTag, Tagged, Adopt, Absent, Create, Created, CheckStarter,
           DeleteStarter, Deleted, Existing, CheckUpload, Upload, UploadedOne, CheckPublish,
           Publish, Published, Verify, CheckAlias, MoveAlias, Aliased, Finish, Read, Write, At
      <4>2. run' = [run EXCEPT !.pc = "list", !.refs = Refs]
        BY <4>1 DEF Clone, Read
      <4>3. run \in ActiveRuns
        BY <2>1, ActiveNext
      <4>4. QED
        BY <1>3, <4>2, <4>3 DEF ActiveRuns
    <3>2. CASE ~(RunSteps /\ run.pc = "clone")
      BY <2>2, <3>2 DEF Goes, Keeps, Stands
    <3>3. QED
      BY <3>1, <3>2
  <2>4. QED
    BY <1>0, <1>1, <2>2, <2>3, ContainsFacts DEF ReadBefore, Forward, TypeInv
<1>4. QED
  BY <1>2, <1>3

\* A step that goes on passed its check.
LEMMA Checked ==
    ASSUME Inv, [Next]_vars, Active', RunSteps, Goes(run')
    PROVE  /\ Audit => HistoryOk(run.refs)
           /\ Start => InPlace
           /\ CheckMaster /\ run'.pc = "push master" => ~Contains(run.refs.master, this)
           /\ CheckTag => tagSeen \/ target.master = this
           /\ CheckStarter /\ run'.pc = "delete" => Starters(run.boundary) # {}
           /\ CheckUpload /\ run'.pc = "post" => Missing # {}
           /\ CheckPublish /\ run'.pc = "verify" => run.boundary.phase # "draft"
           /\ Verify => Is(run.boundary) /\ Whole(run.boundary)
           /\ Verify /\ run'.pc = "alias" => AliasMode = "forward"
<1>1. run \in ActiveRuns /\ run' # Refused
  <2>1. run \in ActiveRuns /\ run' \in ActiveRuns
    BY StepGoes DEF Goes, Keeps
  <2>2. Refused.pc = "over" /\ "over" \notin Steps
    BY DEF Refused, Over, Steps, UpToCreate, UpToAudit, UpToMaster, WithTag, WithRelease
  <2>3. QED
    BY <2>1, <2>2 DEF ActiveRuns
<1>2. \A pc : To(pc).pc = pc
  BY <1>1 DEF To, ActiveRuns
<1>3. Audit => HistoryOk(run.refs)
  BY <1>1 DEF Audit, Read
<1>4. Start => InPlace
  BY <1>1 DEF Start, Read
<1>5. CheckMaster /\ run'.pc = "push master" => ~Contains(run.refs.master, this)
  <2>1. CheckMaster /\ Contains(run.refs.master, this) => run' = To("tag")
    BY <1>1 DEF CheckMaster, Read
  <2>2. To("tag").pc = "tag"
    BY <1>2
  <2>3. QED
    BY <2>1, <2>2
<1>6. CheckTag => tagSeen \/ target.master = this
  BY <1>1 DEF CheckTag, Read
<1>7. CheckStarter /\ run'.pc = "delete" => Starters(run.boundary) # {}
  BY <1>1, <1>2 DEF CheckStarter, Read
<1>8. CheckUpload /\ run'.pc = "post" => Missing # {}
  BY <1>1, <1>2 DEF CheckUpload, Read
<1>9. CheckPublish /\ run'.pc = "verify" => run.boundary.phase # "draft"
  BY <1>1, <1>2 DEF CheckPublish, Read
<1>10. Verify => Is(run.boundary) /\ Whole(run.boundary)
  BY <1>1 DEF Verify, Read
<1>11. Verify /\ run'.pc = "alias" => AliasMode = "forward"
  BY <1>1, <1>2 DEF Verify, Read
<1>12. QED
  BY <1>3, <1>4, <1>5, <1>6, <1>7, <1>8, <1>9, <1>10, <1>11

\* What the run knows of its refs does not change once it has read them.
LEMMA SameRefs ==
    ASSUME Inv, [Next]_vars, Active', run'.pc \notin UpToAudit
    PROVE  /\ run \in ActiveRuns /\ Active /\ Active' /\ this \in Versions
           /\ run'.refs = run.refs /\ run'.version = run.version
           /\ (RunSteps /\ Goes(run')) \/ (~RunSteps /\ Stands(run'))
           /\ run.pc \in UpToAudit => RunSteps /\ run.pc = "audit"
           /\ Forward /\ intents' = intents /\ History' = History
<1>1. ~Dispatch
  BY Begins DEF UpToAudit
<1>2. /\ run \in ActiveRuns /\ Active /\ Active'
      /\ (RunSteps /\ Goes(run')) \/ (~RunSteps /\ Stands(run'))
  BY <1>1, ActiveNext
<1>3. this \in Versions
  BY <1>2 DEF ActiveRuns, this
<1>4. run.pc # "clone"
  BY <1>2 DEF Goes, Path, Stands, UpToAudit
<1>5. run.pc \in UpToAudit => RunSteps /\ run.pc = "audit"
  BY <1>2 DEF Goes, Path, Stands, UpToAudit
<1>6. QED
  BY <1>2, <1>3, <1>4, <1>5, StepForward, SameHistory DEF Goes, Keeps, Stands

LEMMA AuditedKept ==
    ASSUME Inv, [Next]_vars
    PROVE  Audited'
<1> USE DEF Inv, RunInv
<1> SUFFICES ASSUME Active', run'.pc \notin UpToAudit,
                    NEW w \in Versions \ {run'.version}, run'.refs.tag[w] # 0
             PROVE  Complete(w)'
  BY DEF Audited, this
<1>1. Complete(w)
  <2>1. CASE run.pc \in UpToAudit
    <3>1. Audit /\ HistoryOk(run.refs)
      BY <2>1, SameRefs, StepAt, Checked
    <3>2. QED
      BY <3>1, SameRefs DEF HistoryOk, this
  <2>2. CASE run.pc \notin UpToAudit
    BY <2>2, SameRefs DEF Audited, this
  <2>3. QED
    BY <2>1, <2>2
<1>2. QED
  BY <1>1, SameRefs DEF Forward

LEMMA StartedKept ==
    ASSUME Inv, [Next]_vars
    PROVE  Started'
<1> USE DEF Inv, RunInv
<1> SUFFICES ASSUME Active', run'.pc \in AfterStart
             PROVE  InPlace'
  BY DEF Started
<1>1. run'.pc \notin UpToAudit
  BY DEF AfterStart
<1>2. InPlace
  <2>1. CASE run.pc \in AfterStart
    BY <1>1, <2>1, SameRefs DEF Started
  <2>2. CASE run.pc \notin AfterStart
    <3>1. RunSteps /\ Goes(run') /\ run.pc \in Steps
      BY <1>1, <2>2, SameRefs DEF Stands, ActiveRuns
    <3>2. run.pc \in UpToAudit \cup {"start"}
      BY <2>2, <3>1 DEF AfterStart
    <3>3. run.pc = "start"
      BY <1>1, <3>1, <3>2 DEF Goes, Path, UpToAudit, AfterStart
    <3>4. QED
      BY <1>1, <3>1, <3>3, SameRefs, StepAt, Checked
  <2>3. QED
    BY <2>1, <2>2
<1>3. run'.refs = run.refs /\ run'.version = run.version /\ intents' = intents
      /\ History' = History
  BY <1>1, SameRefs
<1>4. QED
  BY <1>2, <1>3 DEF InPlace, Begun, FollowsOn, Later, tagSeen, this, parent, Contains, Stable

LEMMA Pushing1Kept ==
    ASSUME Inv, [Next]_vars
    PROVE  Pushing1'
<1> USE DEF Inv, RunInv
<1> SUFFICES ASSUME run'.pc = "push master"
             PROVE  ~Contains(run.refs.master, this)'
  BY DEF Pushing1
<1>1. Active' /\ run'.pc \notin UpToAudit
  BY DEF Active, UpToAudit
<1>2. ~Contains(run.refs.master, this)
  <2>1. CASE RunSteps
    BY <1>1, <2>1, SameRefs, StepAt, Checked DEF Goes, Path
  <2>2. CASE ~RunSteps
    BY <1>1, <2>2, SameRefs DEF Stands, Pushing1
  <2>3. QED
    BY <2>1, <2>2
<1>3. QED
  BY <1>1, <1>2, SameRefs DEF Contains, this

LEMMA OnMasterKept ==
    ASSUME Inv, [Next]_vars
    PROVE  OnMaster'
<1> USE DEF Inv, RunInv
<1> SUFFICES ASSUME Active', run'.pc \in AfterTag
             PROVE  Contains(target.master, this)'
  BY DEF OnMaster
<1>1. run'.pc \notin UpToAudit
  BY DEF AfterTag, UpToAudit, WithTag, WithRelease
<1>2. target.master \in 0..LastVersion /\ target'.master \in 0..LastVersion
  BY <1>1, SameRefs DEF TypeInv, Targets, Forward
<1>3. Contains(target.master, this)
  <2>1. CASE run.pc \in AfterTag
    BY <1>1, <2>1, SameRefs DEF OnMaster
  <2>2. CASE run.pc \notin AfterTag
    <3>1. RunSteps /\ Goes(run') /\ run.pc = "tag"
      BY <1>1, <2>2, SameRefs DEF Goes, Path, Stands, AfterTag, WithTag, WithRelease
    <3>2. tagSeen \/ target.master = this
      BY <3>1, StepAt, Checked
    <3>3. Active /\ run.pc \in AfterStart
      BY <1>1, <3>1, SameRefs DEF AfterStart, Steps, UpToCreate, UpToAudit
    <3>4. tagSeen => Contains(run.refs.master, this)
      BY <3>3 DEF Started, InPlace
    <3>5. QED
      BY <1>2, <3>2, <3>3, <3>4, ContainsFacts DEF ReadBefore, TypeInv
  <2>3. QED
    BY <2>1, <2>2
<1>4. Contains(target'.master, this)
  BY <1>1, <1>2, <1>3, SameRefs, ContainsFacts DEF Forward, TypeInv
<1>5. QED
  BY <1>1, <1>4, SameRefs DEF Contains, this

LEMMA VerifiedKept ==
    ASSUME Inv, [Next]_vars
    PROVE  Verified'
<1> USE DEF Inv, RunInv
<1> SUFFICES ASSUME run'.pc \in {"alias", "move"}
             PROVE  Complete(this)' /\ AliasMode' = "forward"
  BY DEF Verified
<1>1. Active' /\ run'.pc \notin UpToAudit
  BY DEF Active, UpToAudit
<1>2. Complete(this) /\ AliasMode = "forward"
  <2>1. CASE run.pc \in {"alias", "move"}
    BY <2>1 DEF Verified
  <2>2. CASE run.pc \notin {"alias", "move"}
    <3>1. RunSteps /\ Goes(run') /\ run.pc = "verify" /\ run'.pc = "alias"
      BY <1>1, <2>2, SameRefs DEF Goes, Path, Stands
    <3>2. Is(run.boundary) /\ Whole(run.boundary) /\ AliasMode = "forward"
      BY <1>1, <3>1, StepAt, Checked
    <3>3. /\ run.id \in Runs /\ run.boundary.version = this
          /\ run.boundary.phase = "published"
      BY <1>1, <3>1, SameRefs DEF Boundary, WithRelease
    <3>4. QED
      BY <3>2, <3>3 DEF Is, Complete
  <2>3. QED
    BY <2>1, <2>2
<1>3. Complete(run.version)'
  BY <1>1, <1>2, SameRefs DEF Forward, this
<1>4. AliasMode' = AliasMode
  BY <1>1, SameRefs DEF AliasMode, Stable, Contains, this
<1>5. Complete(this)'
  BY <1>1, <1>2, SameRefs DEF Forward, Complete, this
<1>6. QED
  BY <1>2, <1>4, <1>5

LEMMA BoundaryKept ==
    ASSUME Inv, [Next]_vars
    PROVE  Boundary'
<1> USE DEF Inv, RunInv
<1> SUFFICES ASSUME Active', run'.pc \in WithRelease
             PROVE  /\ run'.id \in Runs
                    /\ run'.boundary.version = this /\ run'.boundary.phase # "none"
                    /\ run'.pc = "verify" => run'.boundary.phase = "published"
                    /\ run'.pc \in {"delete", "deleted"} => Starters(run'.boundary) # {}
                    /\ run'.pc \in {"post", "uploaded"} => Names \ Uploaded(run'.boundary) # {}
  <2>1. run'.pc \in WithRelease => run'.pc \notin UpToAudit
    BY DEF WithRelease, UpToAudit
  <2>2. QED
    BY <2>1, SameRefs DEF Boundary, this, Missing, Starters, Uploaded
<1>1. /\ run'.pc \notin UpToAudit /\ run'.pc \notin {"over", "create", "created"}
      /\ "release" \notin WithRelease /\ "create" \notin WithRelease
      /\ "created" \notin WithRelease
  BY DEF WithRelease, UpToAudit
<1>2. /\ run \in ActiveRuns /\ run' \in ActiveRuns /\ Active /\ this \in Versions
      /\ (RunSteps /\ Goes(run')) \/ (~RunSteps /\ Stands(run'))
  BY <1>1, SameRefs DEF Goes, Keeps, Stands
<1>3. run' # Refused /\ \A pc : To(pc).pc = pc
  BY <1>1, <1>2 DEF Refused, Over, To, ActiveRuns
<1>4. MadeByTagger /\ this # Base /\ target \in Targets
  BY <1>2, Numbers DEF TargetInv, TypeInv
<1>5. run.pc \in WithRelease =>
        /\ run.id \in Runs
        /\ run.boundary.version = this /\ run.boundary.phase # "none"
        /\ run.pc = "verify" => run.boundary.phase = "published"
        /\ run.pc \in {"delete", "deleted"} => Starters(run.boundary) # {}
        /\ run.pc \in {"post", "uploaded"} => Missing # {}
  BY <1>2 DEF Boundary
<1>6. CASE ~RunSteps
  BY <1>2, <1>5, <1>6 DEF Stands, Missing
<1>7. CASE RunSteps /\ run.pc = "release"
  <2>1. Adopt
    <3>1. Absent => run' = To("create")
      BY <1>3 DEF Absent, Read
    <3>2. QED
      BY <1>1, <1>3, <1>7, <3>1, StepAt
  <2>2. /\ run.id # 0 /\ target.releases[run.id].version = this
        /\ run' = [run EXCEPT !.pc = "starter", !.boundary = target.releases[run.id]]
    BY <1>3, <2>1 DEF Adopt, Read
  <2>3. run.id \in Runs
    BY <1>2, <2>2, BoundsAssumption DEF ActiveRuns, Runs
  <2>4. target.releases[run.id].phase # "none"
    BY <1>4, <2>2, <2>3 DEF MadeByTagger
  <2>5. run'.id = run.id /\ run'.boundary = target.releases[run.id] /\ run'.pc = "starter"
    BY <1>2, <2>2 DEF ActiveRuns
  <2>6. QED
    BY <2>2, <2>3, <2>4, <2>5
<1>8. CASE RunSteps /\ run.pc = "create"
  <2> DEFINE new == [NoRelease EXCEPT !.version = this, !.phase = "draft"]
  <2>1. Create
    BY <1>8, StepAt
  <2>2. run' = [run EXCEPT !.pc = "starter", !.id = run.n, !.boundary = new]
    <3>1. To("created").pc = "created" /\ [To("created") EXCEPT !.calm = FALSE].pc = "created"
      BY <1>2 DEF To, ActiveRuns
    <3>2. run' \in {[run EXCEPT !.pc = "starter", !.id = run.n, !.boundary = new],
                    To("created"), [To("created") EXCEPT !.calm = FALSE]}
      BY <2>1 DEF Create, Write
    <3>3. QED
      BY <1>1, <3>1, <3>2
  <2>3. new.version = this /\ new.phase = "draft"
    BY DEF NoRelease
  <2> HIDE DEF new
  <2>4. run'.id = run.n /\ run'.boundary = new /\ run'.pc = "starter" /\ run.n \in Runs
    BY <1>2, <2>2 DEF ActiveRuns
  <2>5. QED
    BY <2>3, <2>4
<1>9. CASE RunSteps /\ run.pc = "created"
  <2> DEFINE found == Of(Inventory, this)
             id == CHOOSE i \in found : TRUE
  <2>1. Created
    BY <1>9, StepAt
  <2>2. /\ Cardinality(found) = 1 /\ target.releases[id].phase = "draft"
        /\ run' = [run EXCEPT !.pc = "starter", !.id = id, !.boundary = target.releases[id]]
    BY <1>3, <2>1 DEF Created, Read
  <2>3. id \in found
    <3>1. found # {}
      BY <2>2, FS_EmptySet
    <3>2. QED
      BY <3>1
  <2>4. id \in Runs /\ target.releases[id].version = this
    BY <1>4, <2>3 DEF Of, Inventory, NoRelease
  <2> HIDE DEF id, found
  <2>5. run'.id = id /\ run'.boundary = target.releases[id] /\ run'.pc = "starter"
    BY <1>2, <2>2 DEF ActiveRuns
  <2>6. QED
    BY <2>2, <2>4, <2>5
<1>10. CASE RunSteps /\ run.pc \in WithRelease
  <2>1. Goes(run') /\ run'.id = run.id /\ run.pc \notin {"select", "create", "created", "release"}
    BY <1>2, <1>10 DEF Goes, Keeps, WithRelease
  <2>2. CASE run.pc = "deleted"
    <3>1. run' = [run EXCEPT !.pc = "existing", !.boundary = Without]
      BY <1>3, <1>10, <2>2, StepAt DEF Deleted, Read
    <3>2. Starter \in Names
      BY <1>5, <1>10, <2>2 DEF Starter, Starters
    <3>3. run'.boundary = Without /\ run'.pc = "existing"
      BY <1>2, <3>1 DEF ActiveRuns
    <3>4. Without.version = run.boundary.version /\ Without.phase = run.boundary.phase
      BY <1>2, <3>2, WithAsset, NoAssetTyped DEF Without
    <3>5. QED
      BY <1>5, <1>10, <2>1, <3>3, <3>4
  <2>3. CASE run.pc = "uploaded"
    <3>1. run' = [run EXCEPT !.pc = "upload", !.boundary = With]
      BY <1>3, <1>10, <2>3, StepAt DEF UploadedOne, Read
    <3>2. Next3 \in Names
      BY <1>5, <1>10, <2>3, NextIsMissing DEF Missing
    <3>3. run'.boundary = With /\ run'.pc = "upload"
      BY <1>2, <3>1 DEF ActiveRuns
    <3>4. With.version = run.boundary.version /\ With.phase = run.boundary.phase
      BY <1>2, <3>2, WithAsset, AssetTyped DEF With
    <3>5. QED
      BY <1>5, <1>10, <2>1, <3>3, <3>4
  <2>4. CASE run.pc = "published"
    <3>1. run' = [run EXCEPT !.pc = "verify", !.boundary = Out]
      BY <1>3, <1>10, <2>4, StepAt DEF Published, Read
    <3>2. run'.boundary = Out /\ run'.pc = "verify"
      BY <1>2, <3>1 DEF ActiveRuns
    <3>3. Out.version = run.boundary.version /\ Out.phase = "published"
      BY <1>2 DEF Out, ActiveRuns, Releases
    <3>4. QED
      BY <1>5, <1>10, <2>1, <3>2, <3>3
  <2>5. CASE run.pc \notin {"deleted", "uploaded", "published"}
    <3>1. run'.boundary = run.boundary
      BY <2>1, <2>5 DEF Goes, Keeps
    <3>2. run.boundary.phase \in {"none", "draft", "published"}
      BY <1>2 DEF ActiveRuns, Releases
    <3>3. ASSUME run'.pc = "verify" PROVE run.boundary.phase = "published"
      <4>1. run.pc = "publish"
        BY <2>1, <2>5, <3>3 DEF Goes, Path
      <4>2. run.boundary.phase # "draft"
        BY <1>10, <2>1, <3>3, <4>1, StepAt, Checked
      <4>3. QED
        BY <1>5, <1>10, <3>2, <4>2
    <3>4. ASSUME run'.pc \in {"delete", "deleted"} PROVE Starters(run.boundary) # {}
      <4>1. run.pc = "delete" \/ (run.pc = "starter" /\ run'.pc = "delete")
        BY <2>1, <3>4 DEF Goes, Path
      <4>2. QED
        BY <1>5, <1>10, <2>1, <4>1, StepAt, Checked
    <3>5. ASSUME run'.pc \in {"post", "uploaded"} PROVE Missing # {}
      <4>1. run.pc = "post" \/ (run.pc = "upload" /\ run'.pc = "post")
        BY <2>1, <3>5 DEF Goes, Path
      <4>2. QED
        BY <1>5, <1>10, <2>1, <4>1, StepAt, Checked
    <3>6. QED
      BY <1>5, <1>10, <2>1, <3>1, <3>3, <3>4, <3>5 DEF Missing
  <2>6. QED
    BY <2>2, <2>3, <2>4, <2>5
<1>11. run.pc \in WithRelease \cup {"release", "create", "created"}
  <2>1. CASE RunSteps
    BY <1>2, <2>1 DEF Goes, Path, WithRelease
  <2>2. CASE ~RunSteps
    BY <1>2, <2>2 DEF Stands
  <2>3. QED
    BY <2>1, <2>2
<1>12. QED
  BY <1>6, <1>7, <1>8, <1>9, <1>10, <1>11

-----------------------------------------------------------------------------
(* The theorems.                                                           *)

LEMMA InvInit == Init => Inv
<1> SUFFICES ASSUME Init PROVE Inv
  OBVIOUS
<1>1. source \in Versions /\ 0 \in 0..LastVersion /\ 0 \in 0..MaxRuns /\ 0 \in 0..MaxLost
      /\ 0 \in 0..MaxChurn
  <2>1. LastVersion \in Nat /\ LastVersion # 0 /\ MaxRuns \in Nat /\ MaxLost \in Nat
        /\ MaxChurn \in Nat
    BY BoundsAssumption
  <2>2. QED
    BY <2>1 DEF Init, Versions
<1>2. target = [master |-> Base, tag |-> [w \in Versions |-> 0],
                alias |-> [version |-> Base, by |-> 0],
                releases |-> [i \in Runs |-> NoRelease]]
  BY DEF Init
<1>3. target \in Targets
  BY <1>1, <1>2, NoAssetTyped DEF Targets, Aliases, Base
<1>4. intents \in Intents
  BY DEF Init, Intents
<1>5. TypeInv
  BY <1>1, <1>3, <1>4 DEF TypeInv, Init
<1>6. ~Active /\ run.pc = "idle"
  BY DEF Init, Idle, Active
<1>7. RunInv
  BY <1>6 DEF RunInv, NotYetCreated, OwnTag, ReadBefore, Audited, Started, Pushing1, OnMaster,
     Boundary, Verified
<1>8. WritesInv
  BY DEF Init, WritesInv, LateSound, OneCreate
<1>9. NoneLeftBehind
  <2>1. target.master = Base /\ target.alias.version = Base /\ History[Base] = {Base}
    BY <1>2, <1>4, HistoryStep
  <2>2. QED
    BY <2>1 DEF NoneLeftBehind
<1>10. TaggedBefore
  BY <1>2 DEF TaggedBefore, Init
<1>11. MadeByTagger
  BY <1>2 DEF MadeByTagger, NoRelease
<1>12. PostedOnce
  BY DEF PostedOnce, Init
<1>13. QED
  BY <1>5, <1>7, <1>8, <1>9, <1>10, <1>11, <1>12 DEF Inv, TargetInv

LEMMA InvNext == Inv /\ [Next]_vars => Inv'
<1> SUFFICES ASSUME Inv, [Next]_vars PROVE Inv'
  OBVIOUS
<1>1. TypeInv' /\ WritesInv'
  BY TypeKept, WritesKept
<1>2. TargetInv'
  BY TaggedKept, MadeKept, PostedKept, BehindKept DEF TargetInv
<1>3. RunInv'
  BY NotYetKept, OwnTagKept, ReadBeforeKept, AuditedKept, StartedKept, Pushing1Kept,
     OnMasterKept, BoundaryKept, VerifiedKept DEF RunInv
<1>4. QED
  BY <1>1, <1>2, <1>3 DEF Inv

\* The invariant: the types, what the writes under way rest on, what the target shows
\* of earlier runs, and what the run has made sure of.
THEOREM InvHolds == Spec => []Inv
<1>1. QED
  BY InvInit, InvNext, PTL DEF Spec

\* Created once: a version has one Draft asked for at most, by the run that made its
\* tag, so that one Release at most claims the tag.
THEOREM CreatedOnceHolds == Spec => []CreatedOnce
<1>1. Inv => CreatedOnce
  <2> SUFFICES ASSUME Inv, NEW w \in Versions
               PROVE  posts[w] <= 1 /\ Cardinality(Of(target.releases, w)) <= 1
    BY DEF CreatedOnce
  <2>1. posts[w] <= 1
    BY DEF Inv, TargetInv, PostedOnce
  <2>2. Of(target.releases, w) \subseteq {target.tag[w]}
    BY Numbers DEF Inv, TargetInv, MadeByTagger, Of
  <2>3. Cardinality(Of(target.releases, w)) <= 1
    <3> DEFINE one == {target.tag[w]}
               S == Of(target.releases, w)
    <3>1. IsFiniteSet(one) /\ Cardinality(one) = 1
      BY FS_Singleton
    <3> HIDE DEF one, S
    <3>2. S \subseteq one
      BY <2>2 DEF one, S
    <3>3. Cardinality(S) <= Cardinality(one)
      BY <3>1, <3>2, FS_Subset
    <3>4. QED
      BY <3>1, <3>3 DEF S
  <2>4. QED
    BY <2>1, <2>3
<1>2. QED
  BY <1>1, InvHolds, PTL

\* None left behind: target master only moves on from a version that is complete and
\* that the alias names or has passed, and the alias only to a complete version.
THEOREM NoneLeftBehindHolds == Spec => []NoneLeftBehind
<1>1. Inv => NoneLeftBehind
  BY DEF Inv, TargetInv
<1>2. QED
  BY <1>1, InvHolds, PTL

-----------------------------------------------------------------------------
(* Taking up where an earlier run left: the Releases.                      *)

\* Assets come in their order, an upload that broke off comes last, and the signature
\* signs the provenance beside it.
Shaped(r) ==
    /\ \A k \in Names : r.assets[k].state # "none" =>
          \A j \in Names : j < k => r.assets[j].state = "uploaded"
    /\ \A k \in Names : r.assets[k].state = "none" => r.assets[k] = NoAsset
    /\ Signed(r)
    /\ r.phase = "published" => Uploaded(r) = Names
AllShaped == \A i \in Runs : Shaped(target.releases[i])

\* Nobody asks any more for the Draft of this run.
Settled(i) ==
    /\ i <= used.runs
    /\ \A w \in late : w.op = "create" => w.id # i
    /\ Active /\ run.pc \in UpToCreate => run.n # i

\* A write that leaves the Release shaped, and the refs as they have to be.
FitsRelease(w, r) ==
    /\ w.op = "upload" => w.content.state # "none"
    /\ w.op = "upload" /\ r.phase = "draft" =>
          /\ \A j \in Names : j < w.asset => j \in Uploaded(r)
          /\ w.asset = 3 => w.content.of = r.assets[2].of
    /\ w.op = "publish" /\ r.phase = "draft" => Uploaded(r) = Names
Fits(w) ==
    /\ w.op = "tag" => Contains(target.master, w.version)
    /\ w.op = "alias" => Stable(w.version)
    /\ w.op \in {"upload", "publish"} => Settled(w.id)
    /\ FitsRelease(w, target.releases[w.id])
LateFits == \A w \in late : Fits(w)

TaggedOnMaster == \A v \in Versions : target.tag[v] # 0 => Contains(target.master, v)
AliasStable == target.alias.version # Base => Stable(target.alias.version)

\* What the run holds of its Release is still there, as long as it is a Draft.
Held ==
    Active /\ run.pc \in WithRelease =>
        /\ Settled(run.id) /\ Shaped(run.boundary)
        /\ target.releases[run.id].phase = "draft" =>
              \A k \in Uploaded(run.boundary) :
                  target.releases[run.id].assets[k] = run.boundary.assets[k]
Clearing == {"starter", "delete", "deleted"}
Filled == {"publish", "patch", "published", "verify", "alias", "move", "aliased", "finish"}
Prepared ==
    Active /\ run.pc \in WithRelease =>
        /\ run.pc \notin Clearing => Starters(run.boundary) = {}
        /\ run.pc \notin Clearing \cup {"existing"} =>
              \A k \in Uploaded(run.boundary) \ {1} : run.boundary.assets[k].of = run.provenance
        /\ run.pc \in Filled => Uploaded(run.boundary) = Names
        /\ run.pc = "patch" => run.boundary.phase = "draft"

\* What it may do, and what it has seen of its tag.
Entitled ==
    Active /\ run.pc \in AfterStart =>
        /\ run.stale <=> (Begun /\ run.admission = "superseded")
        /\ run.pc # "select" /\ run.admission = "superseded" => run.stale \/ run.superseded
        /\ run.pc \notin {"select", "again"} => ~run.superseded
        /\ run.pc = "push tag" => ~tagSeen
        /\ run.pc \in {"release", "create"} => run.fresh \/ tagSeen

Left == AllShaped /\ LateFits /\ TaggedOnMaster /\ AliasStable
Kept == Held /\ Prepared /\ Entitled

\* What a write makes of the Release it names.
Makes(w, r, new) ==
    \/ new = r
    \/ /\ w.op = "create" /\ r = NoRelease
       /\ new = [NoRelease EXCEPT !.version = w.version, !.phase = "draft"]
    \/ /\ w.op = "delete" /\ w.asset \in Names /\ r.assets[w.asset].state = "starter"
       /\ new = [r EXCEPT !.assets[w.asset] = NoAsset]
    \/ /\ w.op = "upload" /\ w.asset \in Names /\ w.content \in Assets
       /\ r.phase = "draft" /\ r.assets[w.asset] = NoAsset
       /\ new = [r EXCEPT !.assets[w.asset] = w.content]
    \/ w.op = "publish" /\ r.phase = "draft" /\ new = [r EXCEPT !.phase = "published"]

LEMMA ReleaseBecomes ==
    ASSUME target \in Targets, NEW w, Sound(w), target' = Applied(w), NEW i \in Runs
    PROVE  IF i = w.id THEN Makes(w, target.releases[i], target'.releases[i])
           ELSE target'.releases[i] = target.releases[i]
<1> DEFINE r == target.releases[w.id]
           with(new) == [target EXCEPT !.releases[w.id] = new]
<1>0. IsWrite(w) /\ w.id \in Runs /\ r \in Releases
  BY DEF Sound, IsWrite, Targets
<1>1. ASSUME NEW new, target' = with(new), Makes(w, r, new)
      PROVE  IF i = w.id THEN Makes(w, target.releases[i], target'.releases[i])
             ELSE target'.releases[i] = target.releases[i]
  <2>1. target'.releases[i] = IF i = w.id THEN new ELSE target.releases[i]
    BY <1>0, <1>1 DEF Targets
  <2>2. QED
    BY <1>1, <2>1
<1>2. CASE target' = target \/ w.op \in {"master", "tag", "alias"}
  <2>1. target'.releases = target.releases
    BY <1>2 DEF Applied, Targets
  <2>2. QED
    BY <2>1 DEF Makes
<1>3. CASE target' # target /\ w.op = "create"
  <2>1. target' = with([NoRelease EXCEPT !.version = w.version, !.phase = "draft"])
    BY <1>3 DEF Applied
  <2>2. r = NoRelease
    BY <1>3 DEF Sound
  <2>3. QED
    BY <1>1, <1>3, <2>1, <2>2 DEF Makes
<1>4. CASE target' # target /\ w.op = "delete"
  <2>1. target' = with([r EXCEPT !.assets[w.asset] = NoAsset]) /\ r.assets[w.asset] = w.content
    BY <1>4 DEF Applied
  <2>2. w.asset \in Names /\ w.content.state = "starter"
    BY <1>4 DEF Sound
  <2>3. QED
    BY <1>1, <1>4, <2>1, <2>2 DEF Makes
<1>5. CASE target' # target /\ w.op = "upload"
  <2>1. /\ target' = with([r EXCEPT !.assets[w.asset] = w.content])
        /\ r.phase = "draft" /\ r.assets[w.asset] = NoAsset
    BY <1>5 DEF Applied
  <2>2. w.asset \in Names /\ w.content \in Assets
    BY <1>5 DEF Sound
  <2>3. QED
    BY <1>1, <1>5, <2>1, <2>2 DEF Makes
<1>6. CASE target' # target /\ w.op = "publish"
  <2>1. target' = with([r EXCEPT !.phase = "published"]) /\ r.phase = "draft"
    BY <1>6 DEF Applied
  <2>2. QED
    BY <1>1, <1>6, <2>1 DEF Makes
<1>7. QED
  BY <1>0, <1>2, <1>3, <1>4, <1>5, <1>6 DEF IsWrite, Operations

LEMMA NewShaped ==
    ASSUME NEW r, r.assets = [k \in Names |-> NoAsset], r.phase # "published"
    PROVE  Shaped(r) /\ Uploaded(r) = {} /\ Starters(r) = {}
BY DEF Shaped, Signed, Uploaded, Starters, NoAsset, Names

LEMMA MakesShaped ==
    ASSUME NEW w, NEW r \in Releases, NEW new, Makes(w, r, new), Shaped(r), FitsRelease(w, r)
    PROVE  Shaped(new)
<1>n. NoAsset.state = "none" /\ Names = {1, 2, 3}
  BY DEF NoAsset, Names
<1>1. CASE new = r
  BY <1>1
<1>2. CASE /\ w.op = "create" /\ r = NoRelease
           /\ new = [NoRelease EXCEPT !.version = w.version, !.phase = "draft"]
  <2>1. new.assets = [k \in Names |-> NoAsset] /\ new.phase = "draft"
    BY <1>2 DEF NoRelease
  <2>2. QED
    BY <2>1, NewShaped
<1>3. CASE /\ w.op = "delete" /\ w.asset \in Names /\ r.assets[w.asset].state = "starter"
           /\ new = [r EXCEPT !.assets[w.asset] = NoAsset]
  <2>1. /\ new.phase = r.phase
        /\ \A k \in Names : new.assets[k] = IF k = w.asset THEN NoAsset ELSE r.assets[k]
    BY <1>3 DEF Releases
  <2>2. Uploaded(new) = Uploaded(r)
    BY <1>3, <1>n, <2>1 DEF Uploaded
  <2>3. \A k \in Names : new.assets[k].state # "none" =>
           \A j \in Names : j < k => new.assets[j].state = "uploaded"
    BY <1>3, <1>n, <2>1 DEF Shaped
  <2>4. Signed(new)
    BY <1>3, <1>n, <2>1, <2>2 DEF Shaped, Signed, Uploaded
  <2>5. QED
    BY <1>n, <2>1, <2>2, <2>3, <2>4 DEF Shaped
<1>4. CASE /\ w.op = "upload" /\ w.asset \in Names /\ w.content \in Assets
           /\ r.phase = "draft" /\ r.assets[w.asset] = NoAsset
           /\ new = [r EXCEPT !.assets[w.asset] = w.content]
  <2>1. /\ new.phase = "draft"
        /\ \A k \in Names : new.assets[k] = IF k = w.asset THEN w.content ELSE r.assets[k]
    BY <1>4 DEF Releases
  <2>2. /\ w.content.state # "none"
        /\ \A j \in Names : j < w.asset => r.assets[j].state = "uploaded"
        /\ w.asset = 3 => w.content.of = r.assets[2].of
    BY <1>4 DEF FitsRelease, Uploaded
  <2>3. \A k \in Names : k > w.asset => r.assets[k].state = "none"
    <3>1. ASSUME NEW k \in Names, k > w.asset, r.assets[k].state # "none" PROVE FALSE
      <4>1. r.assets[w.asset].state = "uploaded"
        BY <1>4, <1>n, <3>1 DEF Shaped
      <4>2. QED
        BY <1>4, <1>n, <4>1
    <3>2. QED
      BY <3>1
  <2>4. \A k \in Names : new.assets[k].state # "none" =>
           \A j \in Names : j < k => new.assets[j].state = "uploaded"
    <3>1. ASSUME NEW k \in Names, new.assets[k].state # "none", NEW j \in Names, j < k
          PROVE  new.assets[j].state = "uploaded"
      <4>1. k = w.asset \/ (k # w.asset /\ r.assets[k].state # "none")
        BY <2>1, <3>1
      <4>2. ~(k > w.asset)
        BY <1>4, <1>n, <2>3, <4>1
      <4>3. j # w.asset /\ j < w.asset
        BY <1>4, <1>n, <3>1, <4>2
      <4>4. QED
        BY <2>1, <2>2, <4>3
    <3>2. QED
      BY <3>1
  <2>5. Signed(new)
    BY <1>4, <1>n, <2>1, <2>2, <2>3 DEF Shaped, Signed, Uploaded
  <2>6. QED
    BY <1>4, <1>n, <2>1, <2>2, <2>4, <2>5 DEF Shaped
<1>5. CASE w.op = "publish" /\ r.phase = "draft" /\ new = [r EXCEPT !.phase = "published"]
  <2>1. new.assets = r.assets
    BY <1>5 DEF Releases
  <2>2. Uploaded(r) = Names
    BY <1>5 DEF FitsRelease
  <2>3. QED
    BY <2>1, <2>2 DEF Shaped, Signed, Uploaded
<1>6. QED
  BY <1>1, <1>2, <1>3, <1>4, <1>5 DEF Makes

\* What is uploaded to a Draft stays there.
LEMMA MakesKeeps ==
    ASSUME NEW w, NEW r \in Releases, NEW new, Makes(w, r, new), w.op = "create" => new = r,
           new.phase = "draft"
    PROVE  r.phase = "draft" /\ \A k \in Uploaded(r) : new.assets[k] = r.assets[k]
<1>1. CASE new = r
  BY <1>1
<1>2. CASE /\ w.op = "delete" /\ w.asset \in Names /\ r.assets[w.asset].state = "starter"
           /\ new = [r EXCEPT !.assets[w.asset] = NoAsset]
  BY <1>2 DEF Releases, Uploaded
<1>3. CASE /\ w.op = "upload" /\ w.asset \in Names /\ w.content \in Assets
           /\ r.phase = "draft" /\ r.assets[w.asset] = NoAsset
           /\ new = [r EXCEPT !.assets[w.asset] = w.content]
  BY <1>3 DEF Releases, Uploaded, NoAsset
<1>4. CASE w.op = "publish" /\ new = [r EXCEPT !.phase = "published"]
  BY <1>4 DEF Releases
<1>5. QED
  BY <1>1, <1>2, <1>3, <1>4 DEF Makes

\* Where there is a Release, its Draft has been asked for.
LEMMA SettledIfThere ==
    ASSUME Inv, NEW i \in Runs, target.releases[i] # NoRelease
    PROVE  Settled(i)
<1> USE DEF Inv
<1>1. target \in Targets /\ target.releases[i] \in Releases
  BY DEF TypeInv, Targets
<1>2. target.releases[i].version # Base /\ target.tag[target.releases[i].version] = i
  BY DEF TargetInv, MadeByTagger
<1>3. target.releases[i].version \in Versions
  BY <1>1, <1>2, Numbers DEF Releases
<1>4. i <= used.runs
  BY <1>2, <1>3 DEF TargetInv, TaggedBefore
<1>5. \A w \in late : w.op = "create" => w.id # i
  BY DEF WritesInv, LateSound, Sound
<1>6. Active /\ run.pc \in UpToCreate => run.n # i
  BY DEF RunInv, NotYetCreated
<1>7. QED
  BY <1>4, <1>5, <1>6 DEF Settled

LEMMA SettledStays ==
    ASSUME Inv, [Next]_vars, NEW i \in Runs, Settled(i)
    PROVE  Settled(i)'
<1> USE DEF Inv
<1>1. /\ used.runs <= used'.runs /\ used.runs \in Nat /\ used'.runs \in Nat /\ i \in Nat
      /\ i <= used.runs
  BY UsedGrows, BoundsAssumption DEF TypeInv, Runs, Settled
<1>2. i <= used'.runs
  BY <1>1
<1>3. ASSUME NEW w \in late', w.op = "create" PROVE w.id # i
  <2>1. CASE w \in late
    BY <1>3, <2>1 DEF Settled
  <2>2. CASE w \notin late
    <3>1. Requested(w)
      BY <1>3, <2>2, WorldSteps DEF WorldStep, Rests, GivesUp, Lands, Does
    <3>2. run.pc = "create" /\ w.id = run.n /\ Active
      BY <1>3, <3>1, RequestedCreate, ActiveIs DEF Requested
    <3>3. QED
      BY <3>2 DEF Settled, UpToCreate
  <2>3. QED
    BY <2>1, <2>2
<1>4. ASSUME Active', run'.pc \in UpToCreate PROVE run'.n # i
  <2>1. CASE Dispatch
    <3>1. run'.n = used.runs + 1
      BY <2>1, Begins
    <3>2. QED
      BY <1>1, <3>1
  <2>2. CASE ~Dispatch
    <3>1. /\ Active /\ run'.n = run.n
          /\ run.pc = run'.pc \/ <<run.pc, run'.pc>> \in Path
      BY <1>4, <2>2, ActiveNext DEF Goes, Keeps, Stands
    <3>2. run.pc \in UpToCreate
      BY <1>4, <3>1 DEF Path, UpToCreate, UpToAudit, UpToMaster, WithTag
    <3>3. QED
      BY <3>1, <3>2 DEF Settled
  <2>3. QED
    BY <2>1, <2>2
<1>5. QED
  BY <1>2, <1>3, <1>4 DEF Settled

\* The next asset is the first that is missing.
LEMMA NextIsFirst ==
    ASSUME Missing # {}
    PROVE  Next3 \in Names /\ Next3 \notin Uploaded(run.boundary)
           /\ \A j \in Names : j < Next3 => j \in Uploaded(run.boundary)
<1>1. \E k \in Missing : \A j \in Missing : k <= j
  BY DEF Missing, Names
<1>2. Next3 \in Missing /\ \A j \in Missing : Next3 <= j
  BY <1>1 DEF Next3
<1>3. ASSUME NEW j \in Names, j < Next3 PROVE j \in Uploaded(run.boundary)
  <2>1. j \notin Missing
    BY <1>2, <1>3 DEF Missing, Names
  <2>2. QED
    BY <1>3, <2>1 DEF Missing
<1>4. QED
  BY <1>2, <1>3 DEF Missing

\* What a run asks for fits.
LEMMA RequestFits ==
    ASSUME Inv, Kept, NEW w, Requested(w)
    PROVE  Fits(w)
<1> USE DEF Inv, RunInv, Kept
<1>1. run \in ActiveRuns /\ Active /\ this \in Versions
  BY ActiveIs DEF Requested, ActiveRuns, this
<1>op. /\ "master" \in Operations /\ "tag" \in Operations /\ "create" \in Operations
       /\ "delete" \in Operations /\ "upload" \in Operations /\ "publish" \in Operations
       /\ "alias" \in Operations
  BY DEF Operations
<1>2. CASE run.pc = "push tag"
  <2>0. w = Request("tag", run.n, 0, 0)
    BY <1>2 DEF Requested
  <2>1. w.op = "tag" /\ w.version = this
    BY <1>1, <1>op, <2>0, RequestIs
  <2>2. QED
    BY <1>1, <1>2, <2>1 DEF Fits, FitsRelease, OnMaster, AfterTag, WithTag
<1>3. CASE run.pc = "move"
  <2>1. w.op = "alias" /\ w.version = this
    BY <1>1, <1>3, <1>op, RequestIs DEF Requested
  <2>2. Stable(this)
    BY <1>3, AliasForward DEF Verified
  <2>3. QED
    BY <2>1, <2>2 DEF Fits, FitsRelease
<1>4. CASE run.pc \in {"push master", "create", "delete"}
  <2>0. \/ w = Request("master", run.n, 0, 0)
        \/ w = Request("create", run.n, 0, 0)
        \/ w = Request("delete", run.id, Starter, run.boundary.assets[Starter])
    BY <1>4 DEF Requested
  <2>1. w.op \in {"master", "create", "delete"}
    BY <2>0 DEF Request
  <2>2. QED
    BY <2>1 DEF Fits, FitsRelease
<1>5. CASE run.pc \in {"post", "patch"}
  <2> DEFINE r == target.releases[run.id]
  <2>1. /\ Settled(run.id)
        /\ r.phase = "draft" =>
              \A k \in Uploaded(run.boundary) : r.assets[k] = run.boundary.assets[k]
    BY <1>1, <1>5 DEF Held, WithRelease
  <2>2. /\ run.pc = "post" => Missing # {}
        /\ \A k \in Uploaded(run.boundary) \ {1} : run.boundary.assets[k].of = run.provenance
        /\ run.pc = "patch" => Uploaded(run.boundary) = Names
    BY <1>1, <1>5 DEF Boundary, Prepared, WithRelease, Clearing, Filled
  <2>3. ASSUME r.phase = "draft", NEW k \in Uploaded(run.boundary) PROVE k \in Uploaded(r)
    BY <2>1, <2>3 DEF Uploaded
  <2>4. CASE run.pc = "post"
    <3>1. /\ w.op = "upload" /\ w.id = run.id /\ w.asset = Next3 /\ w.content = Asset
      BY <1>1, <1>op, <2>4, RequestIs DEF Requested
    <3>2. \A j \in Names : j < Next3 => j \in Uploaded(run.boundary)
      BY <2>2, <2>4, NextIsFirst
    <3>3. Asset.state = "uploaded" /\ (Next3 = 3 => Asset.of = run.provenance)
      BY DEF Asset
    <3>4. ASSUME r.phase = "draft", Next3 = 3 PROVE Asset.of = r.assets[2].of
      <4>1. 2 \in Uploaded(run.boundary)
        BY <3>2, <3>4 DEF Names
      <4>2. QED
        BY <2>1, <2>2, <3>3, <3>4, <4>1
    <3>5. QED
      BY <2>1, <2>3, <3>1, <3>2, <3>3, <3>4 DEF Fits, FitsRelease
  <2>5. CASE run.pc = "patch"
    <3>1. w.op = "publish" /\ w.id = run.id
      BY <1>1, <1>op, <2>5, RequestIs DEF Requested
    <3>2. r.phase = "draft" => Uploaded(r) = Names
      BY <2>2, <2>3, <2>5 DEF Uploaded
    <3>3. QED
      BY <2>1, <3>1, <3>2 DEF Fits, FitsRelease
  <2>6. QED
    BY <1>5, <2>4, <2>5
<1>6. QED
  BY <1>2, <1>3, <1>4, <1>5 DEF Requested

\* A step leaves the target alone, edits a Draft, or does a write that fits.
Acts ==
    \/ target' = target
    \/ EditsDraft
    \/ \E w : /\ Sound(w) /\ Fits(w) /\ target' = Applied(w)
              /\ w.op = "create" => w \in late \/ Requested(w)

LEMMA WriteActs ==
    ASSUME Inv, Kept, NEW pc, NEW w, Requested(w), NEW answered, NEW unanswered,
           Write(pc, w, answered, unanswered)
    PROVE  Acts
<1>1. Sound(w) /\ Fits(w)
  BY RequestSound, RequestFits
<1>2. target' \in {target, Applied(w)} \cup Half(w)
  BY DEF Write
<1>3. CASE target' \in Half(w)
  <2> DEFINE x == [w EXCEPT !.content.state = "starter"]
  <2>1. w.op = "upload" /\ target' = Applied(x)
    BY <1>3 DEF Half
  <2>2. w.asset \in Names /\ w.content \in Assets /\ IsWrite(w)
    BY <1>1, <2>1 DEF Sound
  <2> DEFINE a == [w.content EXCEPT !.state = "starter"]
  <2>3. a \in Assets /\ a.state = "starter" /\ a.of = w.content.of
    BY <2>2 DEF Assets
  <2> HIDE DEF a
  <2>4. x = [op |-> w.op, version |-> w.version, id |-> w.id, asset |-> w.asset, content |-> a]
    BY <2>2 DEF IsWrite, a
  <2> HIDE DEF x
  <2>5. /\ x.op = "upload" /\ x.asset = w.asset /\ x.content = a /\ x.id = w.id
        /\ IsWrite(x)
    BY <2>1, <2>2, <2>4 DEF IsWrite
  <2>6. Sound(x)
    BY <2>2, <2>3, <2>5 DEF Sound
  <2>7. Fits(x)
    BY <1>1, <2>1, <2>3, <2>5 DEF Fits, FitsRelease
  <2>8. QED
    BY <2>1, <2>5, <2>6, <2>7 DEF Acts
<1>4. QED
  BY <1>1, <1>2, <1>3 DEF Acts

LEMMA StepActs ==
    ASSUME Inv, Left, Kept, [Next]_vars
    PROVE  Acts
<1>1. CASE WriteSteps
  <2>1. \A pc \in Steps : \A w, answered, unanswered :
           Write(pc, w, answered, unanswered) => run \in ActiveRuns /\ run.pc = pc
    BY WriteIs DEF Inv
  <2>2. {"push master", "push tag", "create", "delete", "post", "patch", "move"} \subseteq Steps
    BY DEF Steps, UpToCreate, UpToMaster, WithTag, WithRelease
  <2>3. PushMaster => Acts
    BY <2>1, <2>2, WriteActs DEF PushMaster, Requested
  <2>4. PushTag => Acts
    BY <2>1, <2>2, WriteActs DEF PushTag, Requested
  <2>5. Create => Acts
    BY <2>1, <2>2, WriteActs DEF Create, Requested
  <2>6. DeleteStarter => Acts
    BY <2>1, <2>2, WriteActs DEF DeleteStarter, Requested
  <2>7. Upload => Acts
    BY <2>1, <2>2, WriteActs DEF Upload, Requested
  <2>8. Publish => Acts
    BY <2>1, <2>2, WriteActs DEF Publish, Requested
  <2>9. MoveAlias => Acts
    BY <2>1, <2>2, WriteActs DEF MoveAlias, Requested
  <2>10. QED
    BY <1>1, <2>3, <2>4, <2>5, <2>6, <2>7, <2>8, <2>9 DEF WriteSteps
<1>2. CASE (RunSteps \/ Dispatch \/ Overtake) /\ ~WriteSteps
  BY <1>2, ReadsRest DEF Acts
<1>3. CASE Intend \/ Surface \/ Kill \/ UNCHANGED vars
  BY <1>3 DEF Intend, Surface, Kill, vars, Acts
<1>4. CASE Edit
  BY <1>4 DEF Edit, Acts, EditsDraft
<1>5. CASE Land
  <2>1. PICK w \in late : target' \in {target, Applied(w)}
    BY <1>5 DEF Land
  <2>2. Sound(w) /\ Fits(w)
    BY DEF Inv, WritesInv, LateSound, Left, LateFits
  <2>3. QED
    BY <2>1, <2>2 DEF Acts
<1>6. QED
  BY <1>1, <1>2, <1>3, <1>4, <1>5, NextCases DEF Others

\* An edit of a Draft.
LEMMA EditIs ==
    ASSUME target \in Targets, EditsDraft, NEW i \in Runs
    PROVE  \/ target'.releases[i] = target.releases[i]
           \/ target.releases[i].phase = "draft" /\ target'.releases[i] = NoRelease
           \/ /\ target.releases[i].phase = "draft"
              /\ target'.releases[i] = [target.releases[i] EXCEPT !.alien = ~@]
<1>1. PICK j \in Runs :
        /\ target.releases[j].phase = "draft"
        /\ \/ target' = [target EXCEPT !.releases[j].alien = ~@]
           \/ target' = [target EXCEPT !.releases[j] = NoRelease]
  BY DEF EditsDraft
<1>2. QED
  BY <1>1 DEF Targets

\* The Draft of a run that is settled keeps what was uploaded to it.
LEMMA DraftStays ==
    ASSUME Inv, Left, Kept, [Next]_vars, NEW i \in Runs, Settled(i),
           target'.releases[i].phase = "draft"
    PROVE  /\ target.releases[i].phase = "draft"
           /\ \A k \in Uploaded(target.releases[i]) :
                 target'.releases[i].assets[k] = target.releases[i].assets[k]
<1>1. target \in Targets /\ target.releases[i] \in Releases /\ Acts
  BY StepActs DEF Inv, TypeInv, Targets
<1>2. CASE EditsDraft
  <2>1. NoRelease.phase # "draft"
    BY DEF NoRelease
  <2>2. CASE target'.releases[i] = [target.releases[i] EXCEPT !.alien = ~@]
    BY <1>1, <2>2 DEF Releases
  <2>3. QED
    BY <1>1, <1>2, <2>1, <2>2, EditIs
<1>3. ASSUME NEW w, Sound(w), target' = Applied(w), w.op = "create" => w \in late \/ Requested(w)
      PROVE  /\ target.releases[i].phase = "draft"
             /\ \A k \in Uploaded(target.releases[i]) :
                   target'.releases[i].assets[k] = target.releases[i].assets[k]
  <2>1. CASE i # w.id
    BY <1>1, <1>3, <2>1, ReleaseBecomes
  <2>2. CASE i = w.id
    <3>1. w.op # "create"
      <4>1. ASSUME Requested(w), w.op = "create" PROVE FALSE
        <5>1. run.pc = "create" /\ w.id = run.n /\ Active
          BY <4>1, RequestedCreate, ActiveIs DEF Requested, Inv
        <5>2. QED
          BY <2>2, <5>1 DEF Settled, UpToCreate
      <4>2. QED
        BY <1>3, <2>2, <4>1 DEF Settled
    <3>2. Makes(w, target.releases[i], target'.releases[i])
      BY <1>1, <1>3, <2>2, ReleaseBecomes
    <3>3. QED
      BY <1>1, <3>1, <3>2, MakesKeeps
  <2>3. QED
    BY <2>1, <2>2
<1>4. CASE target' = target
  BY <1>4
<1>5. QED
  BY <1>1, <1>2, <1>3, <1>4 DEF Acts

LEMMA FitsStays ==
    ASSUME Inv, Left, Kept, [Next]_vars, NEW w, Sound(w), Fits(w)
    PROVE  Fits(w)'
<1>1. w.version \in Versions /\ w.id \in Runs
  BY DEF Sound, IsWrite
<1>2. Forward /\ intents' = intents /\ History' = History /\ intents \in Intents
  BY StepForward, SameHistory DEF Inv, TypeInv
<1>3. w.op = "tag" => Contains(target'.master, w.version)
  <2>1. target'.master \in 0..LastVersion
    BY <1>2 DEF Forward, Targets
  <2>2. QED
    BY <1>1, <1>2, <2>1, ContainsFacts DEF Forward, Fits
<1>4. w.op \in {"upload", "publish"} => Settled(w.id) /\ Settled(w.id)'
  BY <1>1, SettledStays DEF Fits
<1> DEFINE r == target.releases[w.id]
           new == target'.releases[w.id]
<1>5. ASSUME w.op \in {"upload", "publish"}, new.phase = "draft"
      PROVE  r.phase = "draft" /\ \A k \in Uploaded(r) : new.assets[k] = r.assets[k]
  BY <1>1, <1>4, <1>5, DraftStays
<1>6. ASSUME w.op \in {"upload", "publish"}, new.phase = "draft", NEW k \in Uploaded(r)
      PROVE  k \in Uploaded(new)
  BY <1>5, <1>6 DEF Uploaded
<1>7. CASE w.op = "upload"
  <2>1. w.asset \in Names /\ w.content.state # "none"
    BY <1>7 DEF Sound, Fits, FitsRelease
  <2>2. ASSUME new.phase = "draft"
        PROVE  /\ \A j \in Names : j < w.asset => j \in Uploaded(new)
               /\ w.asset = 3 => w.content.of = new.assets[2].of
    <3>1. /\ \A j \in Names : j < w.asset => j \in Uploaded(r)
          /\ w.asset = 3 => w.content.of = r.assets[2].of
      BY <1>5, <1>7, <2>2 DEF Fits, FitsRelease
    <3>2. w.asset = 3 => 2 \in Uploaded(r)
      BY <3>1 DEF Names
    <3>3. QED
      BY <1>5, <1>6, <1>7, <2>2, <3>1, <3>2
  <2>3. QED
    BY <1>4, <1>7, <2>1, <2>2 DEF Fits, FitsRelease, Uploaded
<1>8. CASE w.op = "publish"
  <2>1. ASSUME new.phase = "draft" PROVE Uploaded(new) = Names
    <3>1. Uploaded(r) = Names
      BY <1>5, <1>8, <2>1 DEF Fits, FitsRelease
    <3>2. QED
      BY <1>6, <1>8, <2>1, <3>1 DEF Uploaded
  <2>2. QED
    BY <1>4, <1>8, <2>1 DEF Fits, FitsRelease, Uploaded
<1>9. CASE w.op \notin {"upload", "publish"}
  BY <1>2, <1>3, <1>9 DEF Fits, FitsRelease, Contains, Stable
<1>10. QED
  BY <1>7, <1>8, <1>9

-----------------------------------------------------------------------------
(* Taking up where an earlier run left: the steps of a run that goes on.   *)

LEMMA ReadOn ==
    ASSUME run \in ActiveRuns, run' \in ActiveRuns, NEW pc, NEW ok, NEW next, Read(pc, ok, next)
    PROVE  /\ ok /\ run' = next
           /\ UNCHANGED <<intents, source, target, listed, late, posts, used>>
<1>1. run' # Refused
  BY RefusedEnds DEF ActiveRuns, EndedRuns, Steps, UpToCreate, UpToAudit, UpToMaster, WithTag,
     WithRelease
<1>2. QED
  BY <1>1 DEF Read

LEMMA WriteOn ==
    ASSUME run \in ActiveRuns, run' \in ActiveRuns, NEW pc, NEW w, NEW answered,
           Write(pc, w, answered, Refused)
    PROVE  /\ Applied(w) # target /\ target' = Applied(w) /\ run' = answered
           /\ UNCHANGED <<intents, source, listed, late, used>>
<1>1. run' # Refused /\ run' # [Refused EXCEPT !.calm = FALSE]
  BY RefusedEnds DEF ActiveRuns, EndedRuns, Steps, UpToCreate, UpToAudit, UpToMaster, WithTag,
     WithRelease
<1>2. QED
  BY <1>1 DEF Write

\* The writes a run waits for.
Pushed == /\ run.pc = "push master" /\ run' = To("tag")
          /\ target' = Applied(Request("master", run.n, 0, 0))
Named == /\ run.pc = "push tag" /\ run' = To("tagged")
         /\ target' = Applied(Request("tag", run.n, 0, 0))
Drafted(new) ==
    /\ run.pc = "create" /\ run' = [run EXCEPT !.pc = "starter", !.id = run.n, !.boundary = new]
    /\ target' = Applied(Request("create", run.n, 0, 0))
Posted == /\ run.pc = "post" /\ run' = To("uploaded")
          /\ target' = Applied(Request("upload", run.id, Next3, Asset))
Issued == /\ run.pc = "patch" /\ run' = To("published")
          /\ target' = Applied(Request("publish", run.id, 0, 0))
Moved == /\ run.pc = "move" /\ run' = To("aliased")
         /\ target' = Applied(Request("alias", run.n, 0, run.refs.alias))
Cleared ==
    /\ run.pc = "delete" /\ run' = To("deleted")
    /\ target' = Applied(Request("delete", run.id, Starter, run.boundary.assets[Starter]))
NewDraft == [NoRelease EXCEPT !.version = this, !.phase = "draft"]

\* The writes of a run that goes on were done, but for a Draft or a deletion whose
\* answer was lost, or that changed nothing.
LEMMA WritesOn ==
    ASSUME Inv, WriteSteps, run' \in ActiveRuns
    PROVE  /\ run \in ActiveRuns /\ UNCHANGED <<intents, source, listed>>
           /\ \/ (Pushed \/ Named \/ Posted \/ Issued \/ Moved) /\ target' # target
              \/ Drafted(NewDraft) \/ Cleared
              \/ /\ run.pc = "create"
                 /\ \/ run' = To("created") /\ target' = target
                       /\ Applied(Request("create", run.n, 0, 0)) = target
                    \/ run' = [To("created") EXCEPT !.calm = FALSE]
              \/ /\ run.pc = "delete"
                 /\ \/ run' = To("deleted") /\ target' = target
                       /\ Applied(Request("delete", run.id, Starter,
                                          run.boundary.assets[Starter])) = target
                    \/ run' = [To("deleted") EXCEPT !.calm = FALSE]
           /\ run' # [To("created") EXCEPT !.calm = FALSE] /\ run' # [To("deleted") EXCEPT !.calm = FALSE]
                => late' = late /\ used' = used
<1>1. run \in ActiveRuns
  <2>1. RunSteps
    BY DEF RunSteps, WriteSteps
  <2>2. QED
    BY <2>1, StepGoes
<1>2. CASE PushMaster
  BY <1>1, <1>2, WriteOn DEF PushMaster, Pushed, Write, At
<1>3. CASE PushTag
  BY <1>1, <1>3, WriteOn DEF PushTag, Named, Write, At
<1>4. CASE Upload
  BY <1>1, <1>4, WriteOn DEF Upload, Posted, Write, At
<1>5. CASE Publish
  BY <1>1, <1>5, WriteOn DEF Publish, Issued, Write, At
<1>6. CASE MoveAlias
  BY <1>1, <1>6, WriteOn DEF MoveAlias, Moved, Write, At
<1>7. CASE Create
  <2>1. Write("create", Request("create", run.n, 0, 0),
              [run EXCEPT !.pc = "starter", !.id = run.n, !.boundary = NewDraft], To("created"))
    BY <1>7 DEF Create, NewDraft
  <2>2. QED
    BY <1>1, <2>1 DEF Write, At, Drafted
<1>8. CASE DeleteStarter
  BY <1>1, <1>8 DEF DeleteStarter, Write, At, Cleared
<1>9. QED
  BY <1>1, <1>2, <1>3, <1>4, <1>5, <1>6, <1>7, <1>8 DEF WriteSteps

LEMMA ReadsOn ==
    ASSUME Inv, RunSteps, ~WriteSteps, run' \in ActiveRuns
    PROVE  /\ run \in ActiveRuns
           /\ UNCHANGED <<intents, source, target, listed, late, posts, used>>
           /\ run.pc = "clone" => run' = [run EXCEPT !.pc = "list", !.refs = Refs]
           /\ run.pc = "list" =>
                 run' = [run EXCEPT !.pc = "audit", !.inventory = Inventory, !.print = Refs]
           /\ run.pc = "start" =>
                 run' = [run EXCEPT !.pc = "select",
                                    !.stale = Begun /\ run.admission = "superseded"]
           /\ run.pc = "select" =>
                 /\ SelectorOk /\ SelectedOk
                 /\ run' = [run EXCEPT !.pc = "again", !.id = SelectedId, !.boundary = Selected,
                                       !.provenance = Provenance(Selected),
                                       !.superseded =
                                           \/ AliasMode = "passed"
                                           \/ /\ Selected.phase # "published"
                                              /\ run.admission # "eligible" /\ ~run.stale]
           /\ run.pc = "again" => ~run.superseded /\ run' = To("master")
           /\ run.pc = "tagged" =>
                 target.tag[this] = run.n /\ run' = [run EXCEPT !.pc = "release", !.fresh = TRUE]
           /\ run.pc = "release" =>
                 \/ run.id = 0 /\ Of(Inventory, this) = {} /\ run' = To("create")
                 \/ /\ run.id # 0 /\ target.releases[run.id].version = this
                    /\ ~target.releases[run.id].alien
                    /\ run' = [run EXCEPT !.pc = "starter",
                                          !.boundary = target.releases[run.id]]
           /\ run.pc = "created" =>
                 \E i \in Of(Inventory, this) :
                    run' = [run EXCEPT !.pc = "starter", !.id = i,
                                       !.boundary = target.releases[i]]
           /\ run.pc = "deleted" =>
                 Is(Without) /\ run' = [run EXCEPT !.pc = "existing", !.boundary = Without]
           /\ run.pc = "uploaded" =>
                 Is(With) /\ run' = [run EXCEPT !.pc = "upload", !.boundary = With]
           /\ run.pc = "published" =>
                 Is(Out) /\ run' = [run EXCEPT !.pc = "verify", !.boundary = Out]
           /\ run.pc = "existing" =>
                 \A k \in Uploaded(run.boundary) \ {1} :
                    run.boundary.assets[k].of = run.provenance
           /\ run.pc = "starter" /\ run'.pc = "existing" => Starters(run.boundary) = {}
           /\ run.pc = "upload" /\ run'.pc = "publish" => Missing = {}
           /\ run.pc = "publish" /\ run'.pc = "patch" => run.boundary.phase = "draft"
           /\ run.pc = "tag" =>
                 run' = To(IF tagSeen THEN "release" ELSE "push tag")
           /\ run.pc = "master" =>
                 run' = To(IF ~Contains(run.refs.master, this) THEN "push master" ELSE "tag")
           /\ run.pc = "verify" =>
                 run' = To(CASE AliasMode = "none" -> "finish" [] AliasMode = "forward" -> "alias"
                             [] OTHER -> "aliased")
           /\ run.pc \in {"audit", "starter", "existing", "upload", "publish", "alias", "aliased"}
                 => run' = To(run'.pc)
<1>1. run \in ActiveRuns /\ UNCHANGED <<intents, source, target, listed, late, posts>>
  BY StepGoes, ReadsRest
<1>t. \A pc : To(pc).pc = pc
  BY <1>1 DEF To, ActiveRuns
<1>p. ~(run.pc \in {"push master", "push tag", "create", "delete", "post", "patch", "move"})
  <2>1. \A pc, ok, next : Read(pc, ok, next) => run.pc = pc
    BY DEF Read, At
  <2>2. QED
    BY <2>1 DEF RunSteps, WriteSteps, Clone, List, Audit, Start, Select, Again, CheckMaster,
       CheckTag, Tagged, Adopt, Absent, Created, CheckStarter, Deleted, Existing, CheckUpload,
       UploadedOne, CheckPublish, Published, Verify, CheckAlias, Aliased, Finish
<1>e. Refused \in EndedRuns /\ run' \notin EndedRuns
  BY <1>1, RefusedEnds DEF ActiveRuns, EndedRuns, Steps, UpToCreate, UpToAudit, UpToMaster,
     WithTag, WithRelease
<1>2. CASE Clone \/ List
  BY <1>1, <1>2, ReadOn DEF Clone, List, Read, At
<1>3. CASE Audit \/ Start
  BY <1>1, <1>3, <1>t, ReadOn DEF Audit, Start, Read, At
<1>4. CASE Select
  <2>1. run.pc = "select" /\ UNCHANGED used
    BY <1>4 DEF Select, Read, At
  <2>2. SelectorOk /\ SelectedOk
    BY <1>1, <1>4, ReadOn DEF Select
  <2>3. run' = [run EXCEPT !.pc = "again", !.id = SelectedId, !.boundary = Selected,
                           !.provenance = Provenance(Selected),
                           !.superseded =
                               \/ AliasMode = "passed"
                               \/ /\ Selected.phase # "published"
                                  /\ run.admission # "eligible" /\ ~run.stale]
    BY <1>1, <1>4, ReadOn DEF Select
  <2>4. QED
    BY <1>1, <2>1, <2>2, <2>3
<1>5. CASE Again
  <2>1. run.pc = "again" /\ UNCHANGED used
    BY <1>5 DEF Again, Read, At
  <2> DEFINE next == IF run.superseded THEN Over("superseded") ELSE To("master")
  <2>a. \E ok : run' = IF ok THEN next ELSE Refused
    BY <1>5 DEF Again, Read
  <2>2. run' = next
    BY <1>e, <2>a
  <2>3. Over("superseded") \in EndedRuns
    BY <1>1, Ends
  <2>4. QED
    BY <1>1, <1>e, <2>1, <2>2, <2>3
<1>6. CASE CheckMaster \/ CheckTag \/ Tagged
  BY <1>1, <1>6, ReadOn DEF CheckMaster, CheckTag, Tagged, Read, At
<1>7. CASE Adopt \/ Absent
  BY <1>1, <1>7, ReadOn DEF Adopt, Absent, Read, At
<1>8. CASE Created
  <2> DEFINE found == Of(Inventory, this)
             id == CHOOSE i \in found : TRUE
  <2>1. run.pc = "created" /\ UNCHANGED used
    BY <1>8 DEF Created, Read, At
  <2>2. /\ Cardinality(found) = 1
        /\ run' = [run EXCEPT !.pc = "starter", !.id = id, !.boundary = target.releases[id]]
    BY <1>1, <1>8, ReadOn DEF Created
  <2>3. found # {}
    BY <2>2, FS_EmptySet
  <2>4. id \in found
    BY <2>3
  <2>5. QED
    BY <1>1, <2>1, <2>2, <2>4
<1>9. CASE CheckStarter \/ Deleted \/ Existing
  BY <1>1, <1>9, <1>t, ReadOn DEF CheckStarter, Deleted, Existing, Read, At
<1>10. CASE CheckUpload \/ UploadedOne \/ CheckPublish \/ Published
  BY <1>1, <1>10, <1>t, ReadOn DEF CheckUpload, UploadedOne, CheckPublish, Published, Read, At
<1>11. CASE Verify \/ CheckAlias \/ Aliased \/ Finish
  <2>1. Finish => run' = Over("complete")
    BY <1>1, ReadOn DEF Finish
  <2>2. Over("complete") \in EndedRuns
    BY <1>1, Ends
  <2>3. QED
    BY <1>1, <1>11, <1>e, <1>t, <2>1, <2>2, ReadOn DEF Verify, CheckAlias, Aliased, Read, At
<1>12. QED
  BY <1>2, <1>3, <1>4, <1>5, <1>6, <1>7, <1>8, <1>9, <1>10, <1>11 DEF RunSteps, WriteSteps

\* What else a step leaves alone.
Frames(r) ==
    /\ r.admission = run.admission /\ r.live = run.live
    /\ run.pc # "list" => r.inventory = run.inventory /\ r.print = run.print
    /\ run.pc # "start" => r.stale = run.stale
    /\ run.pc # "select" => r.provenance = run.provenance /\ r.superseded = run.superseded
    /\ r.calm => run.calm

LEMMA FramesOn ==
    ASSUME Inv, [Next]_vars, Active', ~Dispatch
    PROVE  /\ Frames(run')
           /\ ~RunSteps /\ run'.calm => UNCHANGED vars
<1>1. /\ run \in ActiveRuns /\ Active /\ run' \in ActiveRuns
      /\ (RunSteps /\ Goes(run')) \/ (~RunSteps /\ Stands(run'))
  BY ActiveNext
<1>2. \A pc : Frames(To(pc)) /\ Frames([To(pc) EXCEPT !.calm = FALSE])
  BY <1>1 DEF Frames, To, ActiveRuns
<1>3. CASE RunSteps /\ WriteSteps
  <2>1. Frames([run EXCEPT !.pc = "starter", !.id = run.n, !.boundary = NewDraft])
    BY <1>1 DEF Frames, ActiveRuns
  <2>2. QED
    BY <1>1, <1>2, <1>3, <2>1, WritesOn DEF Pushed, Named, Posted, Issued, Moved, Drafted, Cleared
<1>4. CASE RunSteps /\ ~WriteSteps
  <2>1. run.pc \in {"clone", "list", "start", "select"} => Frames(run')
    <3>1. run.pc = "clone" => Frames(run')
      <4>1. run.pc = "clone" => run' = [run EXCEPT !.pc = "list", !.refs = Refs]
        BY <1>1, <1>4, ReadsOn
      <4>2. QED
        BY <1>1, <4>1 DEF Frames, ActiveRuns
    <3>2. run.pc = "list" => Frames(run')
      <4>1. run.pc = "list" =>
               run' = [run EXCEPT !.pc = "audit", !.inventory = Inventory, !.print = Refs]
        BY <1>1, <1>4, ReadsOn
      <4>2. QED
        BY <1>1, <4>1 DEF Frames, ActiveRuns
    <3>3. run.pc = "start" => Frames(run')
      <4>1. run.pc = "start" =>
               run' = [run EXCEPT !.pc = "select",
                                  !.stale = Begun /\ run.admission = "superseded"]
        BY <1>1, <1>4, ReadsOn
      <4>2. QED
        BY <1>1, <4>1 DEF Frames, ActiveRuns
    <3>4. run.pc = "select" => Frames(run')
      <4> DEFINE gone == \/ AliasMode = "passed"
                         \/ /\ Selected.phase # "published" /\ run.admission # "eligible"
                            /\ ~run.stale
      <4>1. run.pc = "select" =>
               run' = [run EXCEPT !.pc = "again", !.id = SelectedId, !.boundary = Selected,
                                  !.provenance = Provenance(Selected), !.superseded = gone]
        BY <1>1, <1>4, ReadsOn
      <4> HIDE DEF gone
      <4>2. QED
        BY <1>1, <4>1 DEF Frames, ActiveRuns
    <3>5. QED
      BY <3>1, <3>2, <3>3, <3>4
  <2>2. run.pc \in {"again", "master", "tag", "verify"} => Frames(run')
    <3>1. run.pc \in {"again", "master", "tag", "verify"} => \E pc : run' = To(pc)
      BY <1>1, <1>4, ReadsOn
    <3>2. QED
      BY <1>2, <3>1
  <2>3. run.pc \in {"audit", "starter", "existing", "upload", "publish", "alias", "aliased"}
        => Frames(run')
    <3>1. run.pc \in {"audit", "starter", "existing", "upload", "publish", "alias", "aliased"}
          => run' = To(run'.pc)
      BY <1>1, <1>4, ReadsOn
    <3>2. QED
      BY <1>2, <3>1
  <2>4. run.pc \in {"tagged", "release", "created"} => Frames(run')
    <3>1. run.pc = "tagged" => Frames(run')
      <4>1. run.pc = "tagged" => run' = [run EXCEPT !.pc = "release", !.fresh = TRUE]
        BY <1>1, <1>4, ReadsOn
      <4>2. QED
        BY <1>1, <4>1 DEF Frames, ActiveRuns
    <3>2. run.pc = "release" => Frames(run')
      <4>1. run.pc = "release" =>
               \/ run' = To("create")
               \/ run' = [run EXCEPT !.pc = "starter", !.boundary = target.releases[run.id]]
        BY <1>1, <1>4, ReadsOn
      <4>2. run.pc = "release" =>
               Frames([run EXCEPT !.pc = "starter", !.boundary = target.releases[run.id]])
        BY <1>1 DEF Frames, ActiveRuns
      <4>3. QED
        BY <1>2, <4>1, <4>2
    <3>3. ASSUME run.pc = "created" PROVE Frames(run')
      <4>1. PICK i \in Of(Inventory, this) :
               run' = [run EXCEPT !.pc = "starter", !.id = i, !.boundary = target.releases[i]]
        BY <1>1, <1>4, <3>3, ReadsOn
      <4>2. QED
        BY <1>1, <3>3, <4>1 DEF Frames, ActiveRuns
    <3>4. QED
      BY <3>1, <3>2, <3>3
  <2>5. run.pc \in {"deleted", "uploaded", "published"} => Frames(run')
    <3>1. run.pc \in {"deleted", "uploaded", "published"} =>
             \/ run' = [run EXCEPT !.pc = "existing", !.boundary = Without]
             \/ run' = [run EXCEPT !.pc = "upload", !.boundary = With]
             \/ run' = [run EXCEPT !.pc = "verify", !.boundary = Out]
      BY <1>1, <1>4, ReadsOn
    <3>2. QED
      BY <1>1, <3>1 DEF Frames, ActiveRuns
  <2>6. run.pc \in {"clone", "list", "start", "select", "again", "master", "tag", "verify",
           "audit", "starter", "existing", "upload", "publish", "alias", "aliased", "tagged",
           "release", "created", "deleted", "uploaded", "published"}
        \/ run.pc \in {"push master", "push tag", "create", "delete", "post", "patch", "move"}
    BY <1>1, <1>4 DEF Goes, Path
  <2>7. ~(run.pc \in {"push master", "push tag", "create", "delete", "post", "patch", "move"})
    <3>1. \A pc, ok, next : Read(pc, ok, next) => run.pc = pc
      BY DEF Read, At
    <3>2. QED
      BY <1>4, <3>1 DEF RunSteps, WriteSteps, Clone, List, Audit, Start, Select, Again,
         CheckMaster, CheckTag, Tagged, Adopt, Absent, Created, CheckStarter, Deleted, Existing,
         CheckUpload, UploadedOne, CheckPublish, Published, Verify, CheckAlias, Aliased, Finish
  <2>8. QED
    BY <1>4, <2>1, <2>2, <2>3, <2>4, <2>5, <2>6, <2>7
<1>5. CASE ~RunSteps
  <2>1. ~Overtake /\ ~Kill
    <3>1. Overtake => run' \in {Refused, Over("superseded")}
      BY DEF Overtake
    <3>2. Refused.pc = "over" /\ Over("superseded").pc = "over" /\ Idle.pc = "idle"
      BY DEF Refused, Over, Idle
    <3>3. QED
      BY <3>1, <3>2 DEF Kill, Active
  <2>2. CASE UNCHANGED vars
    BY <1>5, <2>2 DEF vars, Frames
  <2>3. CASE Intend \/ Surface \/ Land \/ Edit
    <3>1. run' = [run EXCEPT !.calm = FALSE]
      BY <1>1, <2>3 DEF Intend, Surface, Land, Edit, Meanwhile
    <3>2. Frames(run') /\ run'.calm = FALSE
      BY <1>1, <3>1 DEF Frames, ActiveRuns
    <3>3. QED
      BY <1>5, <3>2
  <2>4. QED
    BY <1>5, <2>1, <2>2, <2>3, NextCases DEF Others
<1>6. QED
  BY <1>3, <1>4, <1>5

-----------------------------------------------------------------------------
(* Taking up where an earlier run left: what the run expects to find.      *)

\* Without the upload that broke off.
LEMMA WithoutIs ==
    ASSUME run \in ActiveRuns, Shaped(run.boundary), Starters(run.boundary) # {}
    PROVE  /\ Starter \in Names /\ run.boundary.assets[Starter].state = "starter"
           /\ Starters(Without) = {} /\ Uploaded(Without) = Uploaded(run.boundary)
           /\ \A k \in Uploaded(run.boundary) : Without.assets[k] = run.boundary.assets[k]
           /\ Without.phase = run.boundary.phase /\ Without.alien = run.boundary.alien
<1>1. Starter \in Names /\ run.boundary.assets[Starter].state = "starter"
  BY DEF Starter, Starters
<1>2. /\ \A k \in Names : Without.assets[k] = IF k = Starter THEN NoAsset
                                              ELSE run.boundary.assets[k]
      /\ Without.phase = run.boundary.phase /\ Without.alien = run.boundary.alien
  BY <1>1 DEF Without, ActiveRuns, Releases
<1>n. NoAsset.state = "none" /\ Names = {1, 2, 3}
  BY DEF NoAsset, Names
<1>3. \A k \in Starters(run.boundary) : k = Starter
  <2>1. ASSUME NEW k \in Names, run.boundary.assets[k].state = "starter", k # Starter
        PROVE  FALSE
    <3>1. k < Starter \/ Starter < k
      BY <1>1, <1>n, <2>1
    <3>2. QED
      BY <1>1, <2>1, <3>1 DEF Shaped
  <2>2. QED
    BY <2>1 DEF Starters
<1>4. QED
  BY <1>1, <1>2, <1>3, <1>n DEF Starters, Uploaded

\* With the next asset.
LEMMA WithIs ==
    ASSUME run \in ActiveRuns, Missing # {}
    PROVE  /\ Starters(With) \subseteq Starters(run.boundary)
           /\ Uploaded(With) = Uploaded(run.boundary) \cup {Next3}
           /\ \A k \in Uploaded(run.boundary) : With.assets[k] = run.boundary.assets[k]
           /\ With.assets[Next3] = Asset
           /\ With.phase = run.boundary.phase /\ With.alien = run.boundary.alien
<1>1. Next3 \in Names /\ Next3 \notin Uploaded(run.boundary) /\ Asset.state = "uploaded"
  BY NextIsFirst DEF Asset
<1>2. /\ \A k \in Names : With.assets[k] = IF k = Next3 THEN Asset ELSE run.boundary.assets[k]
      /\ With.phase = run.boundary.phase /\ With.alien = run.boundary.alien
  BY <1>1 DEF With, ActiveRuns, Releases
<1>3. QED
  BY <1>1, <1>2 DEF Starters, Uploaded

LEMMA OutIs ==
    ASSUME run \in ActiveRuns
    PROVE  /\ Out.assets = run.boundary.assets /\ Out.alien = run.boundary.alien
           /\ Out.phase = "published"
           /\ Starters(Out) = Starters(run.boundary) /\ Uploaded(Out) = Uploaded(run.boundary)
BY DEF Out, ActiveRuns, Releases, Starters, Uploaded

LEMMA NewDraftIs ==
    /\ Starters(NewDraft) = {} /\ Uploaded(NewDraft) = {} /\ Shaped(NewDraft)
    /\ NewDraft.version = this /\ NewDraft.phase = "draft" /\ NewDraft.alien = FALSE
    /\ NewDraft # NoRelease
<1>1. /\ NewDraft.assets = [k \in Names |-> NoAsset] /\ NewDraft.phase = "draft"
      /\ NewDraft.version = this /\ NewDraft.alien = FALSE /\ NoRelease.phase = "none"
  BY DEF NewDraft, NoRelease
<1>2. QED
  BY <1>1, NewShaped

\* A run holds on to its Release, or has just seen it as it is.
LEMMA BoundaryNext ==
    ASSUME Inv, [Next]_vars, Active', run'.pc \in WithRelease
    PROVE  /\ run \in ActiveRuns /\ run' \in ActiveRuns /\ Active /\ run'.id \in Runs
           /\ \/ /\ run.pc \in WithRelease /\ run'.id = run.id /\ run'.boundary = run.boundary
              \/ /\ target' = target /\ target.releases[run'.id] # NoRelease
                 /\ run'.boundary = target.releases[run'.id]
              \/ /\ run.pc = "create" /\ run'.id = run.n /\ run'.pc = "starter"
                 /\ run'.boundary = NewDraft /\ target'.releases[run.n] = NewDraft
                 /\ late' = late /\ used' = used
<1> USE DEF Inv
<1>1. run'.pc \notin UpToAudit /\ run'.pc \notin {"create", "created", "release"}
  BY DEF WithRelease, UpToAudit
<1>2. /\ run \in ActiveRuns /\ run' \in ActiveRuns /\ Active /\ ~Dispatch
      /\ (RunSteps /\ Goes(run')) \/ (~RunSteps /\ Stands(run'))
  BY <1>1, SameRefs, Begins DEF Goes, Keeps, Stands, UpToAudit
<1>3. Boundary' /\ MadeByTagger /\ target \in Targets
  BY BoundaryKept DEF TypeInv, TargetInv
<1>4. run'.id \in Runs /\ run'.boundary.phase # "none"
  BY <1>3 DEF Boundary
<1>5. run'.boundary # NoRelease
  BY <1>4 DEF NoRelease
<1>6. CASE ~RunSteps
  BY <1>2, <1>4, <1>6 DEF Stands
<1>7. CASE RunSteps /\ run.pc \in {"release", "created", "deleted", "uploaded", "published"}
  <2>1. ~WriteSteps
    BY <1>7 DEF WriteSteps, PushMaster, PushTag, Create, DeleteStarter, Upload, Publish,
       MoveAlias, Write, At
  <2>2. target' = target
    BY <1>2, <1>7, <2>1, ReadsOn
  <2>3. CASE run.pc = "release"
    <3>1. To("create").pc = "create"
      BY <1>2 DEF To, ActiveRuns
    <3>2. run' = [run EXCEPT !.pc = "starter", !.boundary = target.releases[run.id]]
      BY <1>1, <1>2, <1>7, <2>1, <2>3, <3>1, ReadsOn
    <3>3. run'.id = run.id /\ run'.boundary = target.releases[run.id]
      BY <1>2, <3>2 DEF ActiveRuns
    <3>4. QED
      BY <1>2, <1>4, <1>5, <2>2, <3>3
  <2>4. CASE run.pc = "created"
    <3>1. PICK i \in Of(Inventory, this) :
             run' = [run EXCEPT !.pc = "starter", !.id = i, !.boundary = target.releases[i]]
      BY <1>2, <1>7, <2>1, <2>4, ReadsOn
    <3>2. run'.id = i /\ run'.boundary = target.releases[i]
      BY <1>2, <3>1 DEF ActiveRuns
    <3>3. QED
      BY <1>2, <1>4, <1>5, <2>2, <3>2
  <2>5. CASE run.pc \in {"deleted", "uploaded", "published"}
    <3>1. PICK b : \E pc : Is(b) /\ run' = [run EXCEPT !.pc = pc, !.boundary = b]
      BY <1>2, <1>7, <2>1, <2>5, ReadsOn
    <3>2. run'.id = run.id /\ run'.boundary = target.releases[run.id]
      BY <1>2, <3>1 DEF ActiveRuns, Is
    <3>3. QED
      BY <1>2, <1>4, <1>5, <2>2, <3>2
  <2>6. QED
    BY <1>7, <2>3, <2>4, <2>5
<1>8. CASE RunSteps /\ run.pc = "create"
  <2>1. WriteSteps
    BY <1>8, StepAt DEF WriteSteps
  <2>2. Drafted(NewDraft) /\ late' = late /\ used' = used
    <3>1. To("created").pc = "created" /\ [To("created") EXCEPT !.calm = FALSE].pc = "created"
      BY <1>2 DEF To, ActiveRuns
    <3>2. run' # To("created") /\ run' # [To("created") EXCEPT !.calm = FALSE]
      BY <1>1, <3>1
    <3>3. To("deleted").pc = "deleted" /\ [To("deleted") EXCEPT !.calm = FALSE].pc = "deleted"
      BY <1>2 DEF To, ActiveRuns
    <3>4. run'.pc # "deleted"
      BY <1>2, <1>8 DEF Goes, Path
    <3>5. QED
      BY <1>2, <1>8, <2>1, <3>2, <3>3, <3>4, WritesOn
         DEF Pushed, Named, Posted, Issued, Moved, Cleared
  <2>3. run'.id = run.n /\ run'.boundary = NewDraft /\ run'.pc = "starter"
    BY <1>2, <2>2 DEF Drafted, ActiveRuns
  <2>4. target'.releases[run.n] = NewDraft
    <3> DEFINE w == Request("create", run.n, 0, 0)
    <3>1. target' = [target EXCEPT !.releases[w.id] = [NoRelease EXCEPT !.version = w.version,
                                                                        !.phase = "draft"]]
      BY <2>2 DEF Drafted, Applied, Request
    <3>2. w.id = run.n /\ w.version = this /\ run.n \in Runs
      BY <1>2 DEF Request, ActiveRuns
    <3> HIDE DEF w
    <3>3. QED
      BY <1>3, <3>1, <3>2 DEF Targets, NewDraft
  <2>5. QED
    BY <1>2, <1>4, <1>8, <2>2, <2>3, <2>4
<1>9. CASE /\ RunSteps
           /\ run.pc \notin {"release", "create", "created", "deleted", "uploaded", "published"}
  <2>1. run.pc \in WithRelease
    BY <1>2, <1>9 DEF Goes, Path, WithRelease
  <2>2. QED
    BY <1>2, <1>4, <1>9, <2>1 DEF Goes, Keeps, WithRelease
<1>10. QED
  BY <1>6, <1>7, <1>8, <1>9

-----------------------------------------------------------------------------
(* Taking up where an earlier run left: the invariant of what is left.     *)

LEMMA LeftNext ==
    ASSUME Inv, Left, Kept, [Next]_vars
    PROVE  Left'
<1> USE DEF Inv
<1>1. /\ target \in Targets /\ Acts /\ Forward /\ intents' = intents /\ History' = History
      /\ intents \in Intents /\ target' \in Targets
  BY StepActs, StepForward, SameHistory DEF TypeInv, Forward
<1>2. ASSUME NEW i \in Runs PROVE Shaped(target'.releases[i])
  <2>1. target.releases[i] \in Releases /\ Shaped(target.releases[i])
    BY <1>1 DEF Left, AllShaped, Targets
  <2>2. CASE EditsDraft
    <3>1. Shaped(NoRelease)
      <4>1. NoRelease.assets = [k \in Names |-> NoAsset] /\ NoRelease.phase = "none"
        BY DEF NoRelease
      <4>2. QED
        BY <4>1, NewShaped
    <3>2. ASSUME target'.releases[i] = [target.releases[i] EXCEPT !.alien = ~@]
          PROVE  Shaped(target'.releases[i])
      <4>1. /\ target'.releases[i].assets = target.releases[i].assets
            /\ target'.releases[i].phase = target.releases[i].phase
        BY <2>1, <3>2 DEF Releases
      <4>2. QED
        BY <2>1, <4>1 DEF Shaped, Signed, Uploaded
    <3>3. QED
      BY <1>1, <2>1, <2>2, <3>1, <3>2, EditIs
  <2>3. ASSUME NEW w, Sound(w), Fits(w), target' = Applied(w)
        PROVE  Shaped(target'.releases[i])
    <3>1. CASE i = w.id
      BY <1>1, <2>1, <2>3, <3>1, ReleaseBecomes, MakesShaped DEF Fits
    <3>2. CASE i # w.id
      BY <1>1, <2>1, <2>3, <3>2, ReleaseBecomes
    <3>3. QED
      BY <3>1, <3>2
  <2>4. QED
    BY <1>1, <2>1, <2>2, <2>3 DEF Acts
<1>3. ASSUME NEW w \in late' PROVE Fits(w)'
  <2>1. Sound(w) /\ Fits(w)
    BY WorldSteps, RequestSound, RequestFits
       DEF WorldStep, Rests, GivesUp, Lands, Does, WritesInv, LateSound, Left, LateFits
  <2>2. QED
    BY <2>1, FitsStays
<1>4. /\ target'.tag = target.tag \/ \E w : /\ Sound(w) /\ Fits(w) /\ w.op = "tag"
                                            /\ target'.tag = [target.tag EXCEPT ![w.version] = w.id]
      /\ target'.alias = target.alias \/ \E w : /\ Sound(w) /\ Fits(w) /\ w.op = "alias"
                                                /\ target'.alias.version = w.version
  <2>1. CASE EditsDraft
    BY <1>1, <2>1, EditsForward
  <2>2. ASSUME NEW w, Sound(w), Fits(w), target' = Applied(w), target' # target
        PROVE  /\ target'.tag = target.tag
                    \/ (w.op = "tag" /\ target'.tag = [target.tag EXCEPT ![w.version] = w.id])
               /\ target'.alias = target.alias
                    \/ (w.op = "alias" /\ target'.alias.version = w.version)
    <3>1. target' = target \/ Takes(w)
      BY <2>2, AppliedIs DEF TargetInv, TypeInv
    <3>2. QED
      BY <1>1, <2>2, <3>1
         DEF Takes, MovesMaster, MakesTag, MakesDraft, ChangesRelease, MovesAlias, Targets
  <2>3. QED
    BY <1>1, <2>1, <2>2 DEF Acts
<1>5. ASSUME NEW v \in Versions, target'.tag[v] # 0 PROVE Contains(target'.master, v)
  <2>1. Contains(target.master, v)
    <3>1. ASSUME NEW w, Sound(w), Fits(w), w.op = "tag",
                 target'.tag = [target.tag EXCEPT ![w.version] = w.id]
          PROVE  Contains(target.master, v)
      <4>1. CASE v = w.version
        BY <3>1, <4>1 DEF Fits
      <4>2. CASE v # w.version
        BY <1>1, <1>5, <3>1, <4>2 DEF Left, TaggedOnMaster, Targets
      <4>3. QED
        BY <4>1, <4>2
    <3>2. CASE target'.tag = target.tag
      BY <1>5, <3>2 DEF Left, TaggedOnMaster
    <3>3. QED
      BY <1>4, <3>1, <3>2
  <2>2. target'.master \in 0..LastVersion
    BY <1>1 DEF Targets
  <2>3. QED
    BY <1>1, <2>1, <2>2, ContainsFacts DEF Forward
<1>6. target'.alias.version # Base => Stable(target'.alias.version)
  BY <1>4 DEF Left, AliasStable, Fits
<1>7. QED
  BY <1>1, <1>2, <1>3, <1>5, <1>6
     DEF Left, AllShaped, LateFits, TaggedOnMaster, AliasStable, Contains, Stable, Shaped,
         Signed, Uploaded

LEMMA HeldNext ==
    ASSUME Inv, Left, Kept, [Next]_vars
    PROVE  Held'
<1> USE DEF Inv
<1> SUFFICES ASSUME Active', run'.pc \in WithRelease
             PROVE  /\ Settled(run.id)' /\ Shaped(run'.boundary)
                    /\ target'.releases[run'.id].phase = "draft" =>
                          \A k \in Uploaded(run'.boundary) :
                             target'.releases[run'.id].assets[k] = run'.boundary.assets[k]
  BY DEF Held, Settled, Shaped, Uploaded, Signed
<1>1. /\ run \in ActiveRuns /\ run' \in ActiveRuns /\ Active /\ run'.id \in Runs
      /\ \/ /\ run.pc \in WithRelease /\ run'.id = run.id /\ run'.boundary = run.boundary
         \/ /\ target' = target /\ target.releases[run'.id] # NoRelease
            /\ run'.boundary = target.releases[run'.id]
         \/ /\ run.pc = "create" /\ run'.id = run.n /\ run'.pc = "starter"
            /\ run'.boundary = NewDraft /\ target'.releases[run.n] = NewDraft
            /\ late' = late /\ used' = used
  BY BoundaryNext
<1>2. CASE run.pc \in WithRelease /\ run'.id = run.id /\ run'.boundary = run.boundary
  <2>1. /\ Settled(run.id) /\ Shaped(run.boundary)
        /\ target.releases[run.id].phase = "draft" =>
              \A k \in Uploaded(run.boundary) :
                 target.releases[run.id].assets[k] = run.boundary.assets[k]
    BY <1>1, <1>2 DEF Kept, Held
  <2>2. Settled(run.id)'
    <3>1. PICK i \in Runs : i = run.id
      BY <1>1, <1>2
    <3>2. Settled(i)'
      BY <2>1, <3>1, SettledStays
    <3>3. QED
      BY <1>2, <3>1, <3>2 DEF Settled
  <2>3. ASSUME target'.releases[run.id].phase = "draft", NEW k \in Uploaded(run.boundary)
        PROVE  target'.releases[run.id].assets[k] = run.boundary.assets[k]
    <3>1. /\ target.releases[run.id].phase = "draft"
          /\ \A j \in Uploaded(target.releases[run.id]) :
                target'.releases[run.id].assets[j] = target.releases[run.id].assets[j]
      BY <1>1, <1>2, <2>1, <2>3, DraftStays
    <3>2. k \in Uploaded(target.releases[run.id])
      BY <2>1, <2>3, <3>1 DEF Uploaded
    <3>3. QED
      BY <2>1, <2>3, <3>1, <3>2
  <2>4. QED
    BY <1>2, <2>1, <2>2, <2>3 DEF Settled
<1>3. CASE /\ target' = target /\ target.releases[run'.id] # NoRelease
           /\ run'.boundary = target.releases[run'.id]
  <2>1. Settled(run'.id)
    BY <1>1, <1>3, SettledIfThere
  <2>2. PICK i \in Runs : i = run'.id
    BY <1>1
  <2>3. Settled(i)'
    BY <2>1, <2>2, SettledStays
  <2>4. Shaped(run'.boundary)
    BY <1>1, <1>3 DEF Left, AllShaped
  <2>5. QED
    BY <1>3, <2>2, <2>3, <2>4 DEF Settled
<1>4. CASE /\ run.pc = "create" /\ run'.id = run.n /\ run'.pc = "starter"
           /\ run'.boundary = NewDraft /\ target'.releases[run.n] = NewDraft
           /\ late' = late /\ used' = used
  <2>1. run.n <= used.runs /\ \A w \in late : w.op = "create" => w.id # run.n
    BY <1>1, <1>4, BoundsAssumption
       DEF RunInv, OwnTag, NotYetCreated, UpToCreate, ActiveRuns, Runs
  <2>2. "starter" \notin UpToCreate
    BY DEF UpToCreate, UpToAudit, UpToMaster, WithTag
  <2>3. Shaped(NewDraft) /\ Uploaded(NewDraft) = {}
    BY NewDraftIs
  <2>4. QED
    BY <1>4, <2>1, <2>2, <2>3 DEF Settled
<1>5. QED
  BY <1>1, <1>2, <1>3, <1>4

Writing == {"push master", "push tag", "create", "delete", "post", "patch", "move"}

LEMMA WritingAt ==
    ASSUME RunSteps
    PROVE  WriteSteps <=> run.pc \in Writing
<1>1. \A pc, ok, next : Read(pc, ok, next) => run.pc = pc
  BY DEF Read, At
<1>2. \A pc, w, a, u : Write(pc, w, a, u) => run.pc = pc
  BY DEF Write, At
<1>3. WriteSteps => run.pc \in Writing
  BY <1>2 DEF WriteSteps, PushMaster, PushTag, Create, DeleteStarter, Upload, Publish, MoveAlias,
     Writing
<1>4. RunSteps /\ ~WriteSteps => run.pc \notin Writing
  BY <1>1 DEF RunSteps, WriteSteps, Clone, List, Audit, Start, Select, Again, CheckMaster,
     CheckTag, Tagged, Adopt, Absent, Created, CheckStarter, Deleted, Existing, CheckUpload,
     UploadedOne, CheckPublish, Published, Verify, CheckAlias, Aliased, Finish, Writing
<1>5. QED
  BY <1>3, <1>4

LEMMA PreparedNext ==
    ASSUME Inv, Kept, [Next]_vars
    PROVE  Prepared'
<1> USE DEF Inv
<1> DEFINE Ready(pc, b, p) ==
        /\ pc \notin Clearing => Starters(b) = {}
        /\ pc \notin Clearing \cup {"existing"} =>
              \A k \in Uploaded(b) \ {1} : b.assets[k].of = p
        /\ pc \in Filled => Uploaded(b) = Names
        /\ pc = "patch" => b.phase = "draft"
<1> SUFFICES ASSUME Active', run'.pc \in WithRelease
             PROVE  Ready(run'.pc, run'.boundary, run'.provenance)
  BY DEF Prepared, Starters, Uploaded
<1>1. run'.pc \notin UpToAudit /\ run'.pc \notin {"create", "created", "release"}
  BY DEF WithRelease, UpToAudit
<1>2. /\ run \in ActiveRuns /\ run' \in ActiveRuns /\ Active /\ ~Dispatch
      /\ (RunSteps /\ Goes(run')) \/ (~RunSteps /\ Stands(run'))
  BY <1>1, SameRefs, Begins DEF Goes, Keeps, Stands, UpToAudit
<1>3. run.pc # "select" => run'.provenance = run.provenance
  BY <1>2, FramesOn DEF Frames
<1>4. run.pc \in WithRelease =>
        /\ Ready(run.pc, run.boundary, run.provenance) /\ Shaped(run.boundary)
        /\ run.pc = "deleted" => Starters(run.boundary) # {}
        /\ run.pc = "uploaded" => Missing # {}
  BY <1>2 DEF Kept, Prepared, Held, RunInv, Boundary
<1>5. CASE ~RunSteps
  BY <1>2, <1>3, <1>4, <1>5 DEF Stands, WithRelease
<1>6. CASE RunSteps /\ run.pc \in {"release", "create", "created", "delete"}
  <2>1. run'.pc \in {"starter", "deleted"}
    BY <1>1, <1>2, <1>6 DEF Goes, Path
  <2>2. QED
    BY <2>1 DEF Clearing, Filled
<1>7. CASE /\ RunSteps
           /\ run.pc \in {"starter", "existing", "upload", "post", "publish", "patch", "verify",
                          "alias", "move", "aliased"}
  <2>1. run'.boundary = run.boundary /\ run'.provenance = run.provenance
    BY <1>2, <1>3, <1>7 DEF Goes, Keeps
  <2>2. Ready(run.pc, run.boundary, run.provenance)
    BY <1>4, <1>7 DEF WithRelease
  <2>3. CASE run.pc = "starter"
    <3>1. run'.pc = "delete" \/ (run'.pc = "existing" /\ Starters(run.boundary) = {})
      BY <1>2, <1>7, <2>3, WritingAt, ReadsOn DEF Goes, Path, Writing
    <3>2. QED
      BY <2>1, <3>1 DEF Clearing, Filled
  <2>4. CASE run.pc = "existing"
    <3>1. /\ run'.pc = "upload"
          /\ \A k \in Uploaded(run.boundary) \ {1} :
                run.boundary.assets[k].of = run.provenance
      BY <1>2, <1>7, <2>4, WritingAt, ReadsOn DEF Goes, Path, Writing
    <3>2. QED
      BY <2>1, <2>2, <2>4, <3>1 DEF Clearing, Filled
  <2>5. CASE run.pc = "upload"
    <3>1. run'.pc = "post" \/ (run'.pc = "publish" /\ Missing = {})
      BY <1>2, <1>7, <2>5, WritingAt, ReadsOn DEF Goes, Path, Writing
    <3>2. Missing = {} => Uploaded(run.boundary) = Names
      BY DEF Missing, Uploaded
    <3>3. QED
      BY <2>1, <2>2, <2>5, <3>1, <3>2 DEF Clearing, Filled
  <2>6. CASE run.pc = "post"
    <3>1. run'.pc = "uploaded"
      BY <1>2, <1>7, <2>6 DEF Goes, Path
    <3>2. QED
      BY <2>1, <2>2, <2>6, <3>1 DEF Clearing, Filled
  <2>7. CASE run.pc = "publish"
    <3>1. run'.pc = "verify" \/ (run'.pc = "patch" /\ run.boundary.phase = "draft")
      BY <1>2, <1>7, <2>7, WritingAt, ReadsOn DEF Goes, Path, Writing
    <3>2. QED
      BY <2>1, <2>2, <2>7, <3>1 DEF Clearing, Filled
  <2>8. CASE run.pc \in {"patch", "verify", "alias", "move", "aliased"}
    <3>1. run'.pc \in {"published", "finish", "alias", "aliased", "move"}
      BY <1>2, <1>7, <2>8 DEF Goes, Path
    <3>2. QED
      BY <2>1, <2>2, <2>8, <3>1 DEF Clearing, Filled
  <2>9. QED
    BY <1>7, <2>3, <2>4, <2>5, <2>6, <2>7, <2>8
<1>8. CASE RunSteps /\ run.pc = "deleted"
  <2>1. run' = [run EXCEPT !.pc = "existing", !.boundary = Without]
    BY <1>2, <1>8, WritingAt, ReadsOn DEF Writing
  <2>2. run'.pc = "existing" /\ run'.boundary = Without
    BY <1>2, <2>1 DEF ActiveRuns
  <2>3. Starters(Without) = {}
    BY <1>2, <1>4, <1>8, WithoutIs DEF WithRelease
  <2>4. QED
    BY <2>2, <2>3 DEF Filled
<1>9. CASE RunSteps /\ run.pc = "uploaded"
  <2>1. run' = [run EXCEPT !.pc = "upload", !.boundary = With]
    BY <1>2, <1>9, WritingAt, ReadsOn DEF Writing
  <2>2. run'.pc = "upload" /\ run'.boundary = With /\ run'.provenance = run.provenance
    BY <1>2, <2>1 DEF ActiveRuns
  <2>3. /\ Starters(run.boundary) = {} /\ Missing # {}
        /\ \A k \in Uploaded(run.boundary) \ {1} : run.boundary.assets[k].of = run.provenance
    BY <1>4, <1>9 DEF WithRelease, Clearing
  <2>4. /\ Starters(With) = {}
        /\ \A k \in Uploaded(With) \ {1} : With.assets[k].of = run.provenance
    <3>1. Next3 # 1 => Asset.of = run.provenance
      BY DEF Asset
    <3>2. QED
      BY <1>2, <2>3, <3>1, WithIs
  <2>5. QED
    BY <2>2, <2>4 DEF Filled
<1>10. CASE RunSteps /\ run.pc = "published"
  <2>1. run' = [run EXCEPT !.pc = "verify", !.boundary = Out]
    BY <1>2, <1>10, WritingAt, ReadsOn DEF Writing
  <2>2. run'.pc = "verify" /\ run'.boundary = Out /\ run'.provenance = run.provenance
    BY <1>2, <2>1 DEF ActiveRuns
  <2>3. /\ Starters(run.boundary) = {} /\ Uploaded(run.boundary) = Names
        /\ \A k \in Uploaded(run.boundary) \ {1} : run.boundary.assets[k].of = run.provenance
    BY <1>4, <1>10 DEF WithRelease, Clearing, Filled
  <2>4. QED
    BY <1>2, <2>2, <2>3, OutIs
<1>11. RunSteps => run.pc \in {"release", "create", "created", "delete", "starter", "existing",
           "upload", "post", "publish", "patch", "verify", "alias", "move", "aliased",
           "deleted", "uploaded", "published"}
  BY <1>2 DEF Goes, Path, WithRelease
<1>12. QED
  BY <1>5, <1>6, <1>7, <1>8, <1>9, <1>10, <1>11

LEMMA EntitledNext ==
    ASSUME Inv, Kept, [Next]_vars
    PROVE  Entitled'
<1> USE DEF Inv
<1> SUFFICES ASSUME Active', run'.pc \in AfterStart
             PROVE  /\ run'.stale <=> (Begun /\ run.admission = "superseded")
                    /\ run'.pc # "select" /\ run.admission = "superseded" =>
                          run'.stale \/ run'.superseded
                    /\ run'.pc \notin {"select", "again"} => ~run'.superseded
                    /\ run'.pc = "push tag" => ~tagSeen
                    /\ run'.pc \in {"release", "create"} => run'.fresh \/ tagSeen
  <2>1. ASSUME Active', run'.pc \in AfterStart
        PROVE  /\ run'.refs = run.refs /\ run'.version = run.version
               /\ run'.admission = run.admission
    <3>1. run'.pc \notin UpToAudit
      BY <2>1 DEF AfterStart, UpToAudit
    <3>2. run'.refs = run.refs /\ run'.version = run.version /\ ~Dispatch
      BY <2>1, <3>1, SameRefs, Begins DEF UpToAudit
    <3>3. QED
      BY <2>1, <3>2, FramesOn DEF Frames
  <2>2. QED
    BY <2>1 DEF Entitled, Begun, tagSeen, this
<1>1. run'.pc \notin UpToAudit /\ run'.pc # "start"
  BY DEF AfterStart, UpToAudit
<1>2. /\ run \in ActiveRuns /\ run' \in ActiveRuns /\ Active /\ ~Dispatch
      /\ (RunSteps /\ Goes(run')) \/ (~RunSteps /\ Stands(run'))
  BY <1>1, SameRefs, Begins DEF Goes, Keeps, Stands, UpToAudit
<1>3. Frames(run') /\ (run.pc # "tagged" => run'.fresh = run.fresh)
  BY <1>2, FramesOn DEF Goes, Keeps, Stands
<1>4. run.pc \in AfterStart =>
        /\ run.stale <=> (Begun /\ run.admission = "superseded")
        /\ run.pc # "select" /\ run.admission = "superseded" => run.stale \/ run.superseded
        /\ run.pc \notin {"select", "again"} => ~run.superseded
        /\ run.pc = "push tag" => ~tagSeen
        /\ run.pc \in {"release", "create"} => run.fresh \/ tagSeen
  BY <1>2 DEF Kept, Entitled
<1>5. CASE ~RunSteps
  BY <1>2, <1>3, <1>4, <1>5 DEF Stands, Frames, AfterStart, UpToAudit
<1>6. CASE RunSteps /\ run.pc = "start"
  <2>1. run' = [run EXCEPT !.pc = "select",
                           !.stale = Begun /\ run.admission = "superseded"]
    BY <1>2, <1>6, WritingAt, ReadsOn DEF Writing
  <2>2. run'.pc = "select" /\ run'.stale = (Begun /\ run.admission = "superseded")
    BY <1>2, <2>1 DEF ActiveRuns
  <2>3. QED
    BY <2>2
<1>7. CASE RunSteps /\ run.pc = "select"
  <2> DEFINE gone == \/ AliasMode = "passed"
                     \/ /\ Selected.phase # "published" /\ run.admission # "eligible"
                        /\ ~run.stale
  <2>1. /\ SelectorOk /\ SelectedOk
        /\ run' = [run EXCEPT !.pc = "again", !.id = SelectedId, !.boundary = Selected,
                              !.provenance = Provenance(Selected), !.superseded = gone]
    BY <1>2, <1>7, WritingAt, ReadsOn DEF Writing
  <2>2. ASSUME run.admission = "superseded", ~gone, ~run.stale PROVE FALSE
    <3>1. Selected.phase = "published"
      BY <2>2
    <3>2. NoRelease.phase = "none"
      BY DEF NoRelease
    <3>3. Selected.version # Base
      <4>1. CASE run.selector # 0
        BY <2>1, <3>1, <4>1 DEF SelectorOk
      <4>2. CASE run.selector = 0
        <5>1. SelectedId # 0 /\ Selected = run.inventory[SelectedId]
          BY <3>1, <3>2, <4>2 DEF Selected
        <5>2. SelectedId \in Of(run.inventory, this)
          BY <4>2, <5>1 DEF SelectedId
        <5>3. this \in Versions
          BY <1>2 DEF ActiveRuns, this
        <5>4. QED
          BY <5>1, <5>2, <5>3, Numbers DEF Of
      <4>3. QED
        BY <4>1, <4>2
    <3>4. tagSeen
      BY <2>1, <3>3 DEF SelectedOk
    <3>5. QED
      BY <1>4, <1>7, <2>2, <3>4 DEF Begun, AfterStart, Steps, UpToCreate, UpToMaster, UpToAudit
  <2>3. gone \in BOOLEAN
    OBVIOUS
  <2> HIDE DEF gone
  <2>4. run'.pc = "again" /\ run'.superseded = gone /\ run'.stale = run.stale
    BY <1>2, <2>1 DEF ActiveRuns
  <2>5. run.stale <=> (Begun /\ run.admission = "superseded")
    BY <1>4, <1>7 DEF AfterStart, Steps, UpToCreate, UpToMaster, UpToAudit
  <2>6. QED
    BY <2>2, <2>4, <2>5
<1>8. CASE RunSteps /\ run.pc \notin {"start", "select"}
  <2>1. run.pc \in AfterStart
    BY <1>1, <1>2, <1>8 DEF Goes, Path, UpToAudit, AfterStart, ActiveRuns
  <2>2. run'.stale = run.stale /\ run'.superseded = run.superseded /\ run'.pc # "select"
    BY <1>2, <1>3, <1>8, <2>1 DEF Frames, Goes, Path, AfterStart, UpToAudit
  <2>3. run'.pc \notin {"select", "again"} => ~run'.superseded
    <3>1. CASE run.pc = "again"
      BY <1>2, <1>8, <2>2, <3>1, WritingAt, ReadsOn DEF Writing
    <3>2. CASE run.pc # "again"
      BY <1>4, <1>8, <2>1, <2>2, <3>2
    <3>3. QED
      BY <3>1, <3>2
  <2>4. run'.pc = "push tag" => ~tagSeen
    <3>1. CASE run'.pc = "push tag"
      <4>1. run.pc = "tag"
        BY <1>2, <1>8, <3>1 DEF Goes, Path
      <4>2. run' = To(IF tagSeen THEN "release" ELSE "push tag")
        BY <1>2, <1>8, <4>1, WritingAt, ReadsOn DEF Writing
      <4>3. To("release").pc = "release"
        BY <1>2 DEF To, ActiveRuns
      <4>4. QED
        BY <3>1, <4>2, <4>3
    <3>2. QED
      BY <3>1
  <2>5. run'.pc \in {"release", "create"} => run'.fresh \/ tagSeen
    <3>1. CASE run'.pc = "release" /\ run.pc = "tag"
      <4>1. run' = To(IF tagSeen THEN "release" ELSE "push tag")
        BY <1>2, <1>8, <3>1, WritingAt, ReadsOn DEF Writing
      <4>2. To("push tag").pc = "push tag"
        BY <1>2 DEF To, ActiveRuns
      <4>3. QED
        BY <3>1, <4>1, <4>2
    <3>2. CASE run.pc = "tagged"
      <4>1. run' = [run EXCEPT !.pc = "release", !.fresh = TRUE]
        BY <1>2, <1>8, <3>2, WritingAt, ReadsOn DEF Writing
      <4>2. run'.fresh
        BY <1>2, <4>1 DEF ActiveRuns
      <4>3. QED
        BY <4>2
    <3>3. CASE run'.pc = "create"
      <4>1. run.pc = "release"
        BY <1>2, <1>8, <3>3 DEF Goes, Path
      <4>2. QED
        BY <1>3, <1>4, <2>1, <4>1
    <3>4. run'.pc = "release" => run.pc \in {"tag", "tagged"}
      BY <1>2, <1>8 DEF Goes, Path
    <3>5. QED
      BY <3>1, <3>2, <3>3, <3>4
  <2>6. QED
    BY <1>4, <1>8, <2>1, <2>2, <2>3, <2>4, <2>5
<1>9. QED
  BY <1>5, <1>6, <1>7, <1>8

-----------------------------------------------------------------------------
(* Taking up where an earlier run left: a run that nothing disturbs.       *)

Quiet == Active /\ run.calm
BeforePush == UpToAudit \cup {"start"} \cup UpToMaster \cup {"push master"}
Looking == {"audit", "start", "select", "again"}
Chosen == {"again", "master", "push master", "tag", "push tag", "tagged", "release", "create"}

\* What it has read is still so.
QuietReads ==
    Quiet =>
        /\ source = run.live
        /\ run.pc \in BeforePush => run.refs = Refs
        /\ run.pc \in UpToCreate \ {"clone", "list"} => run.inventory = Inventory
        /\ run.pc \in Looking => run.print = Refs

\* What it has written is there.
QuietRefs ==
    Quiet =>
        /\ run.pc # "created"
        /\ run.pc \in {"tag", "push tag"} =>
              target.tag = run.refs.tag /\ (tagSeen \/ target.master = this)
        /\ run.pc = "tagged" => target.tag[this] = run.n
        /\ run.pc \in {"release", "create"} => target.tag[this] # 0
        /\ run.pc \notin {"aliased", "finish"} => target.alias = run.refs.alias
        /\ run.pc = "aliased" =>
              target.alias = IF AliasMode = "forward" THEN [version |-> this, by |-> run.n]
                             ELSE run.refs.alias

\* The Release it has chosen.
Provided == 2 \in Uploaded(run.boundary) => run.boundary.assets[2].of = run.provenance
QuietChoice ==
    Quiet /\ run.pc \in Chosen =>
        /\ run.id = 0 => run.selector = 0 /\ Of(run.inventory, this) = {}
        /\ run.id # 0 => /\ run.id \in Runs /\ run.boundary = target.releases[run.id]
                         /\ run.boundary.version = this /\ ~run.boundary.alien /\ Provided
Expected ==
    CASE run.pc = "deleted" -> Without [] run.pc = "uploaded" -> With
      [] run.pc = "published" -> Out [] OTHER -> run.boundary
QuietHeld ==
    Quiet /\ run.pc \in WithRelease =>
        target.releases[run.id] = Expected /\ ~run.boundary.alien /\ Provided
Calm == QuietReads /\ QuietRefs /\ QuietChoice /\ QuietHeld

\* What the writes of a run do when they are done at once.
LEMMA DoneAtOnce ==
    ASSUME target \in Targets, run \in ActiveRuns
    PROVE  /\ Pushed => target' = target \/ target' = [target EXCEPT !.master = this]
           /\ Named => target' = target \/ target' = [target EXCEPT !.tag[this] = run.n]
           /\ Drafted(NewDraft) => target' = [target EXCEPT !.releases[run.n] = NewDraft]
           /\ Posted => target' = target \/ target' = [target EXCEPT !.releases[run.id] =
                 [target.releases[run.id] EXCEPT !.assets[Next3] = Asset]]
           /\ Issued => target' = target \/ target' = [target EXCEPT !.releases[run.id] =
                 [target.releases[run.id] EXCEPT !.phase = "published"]]
           /\ Moved =>
                 target' = target \/ target' = [target EXCEPT !.alias =
                                                   [version |-> this, by |-> run.n]]
           /\ Cleared => target' = target \/ target' = [target EXCEPT !.releases[run.id] =
                 [target.releases[run.id] EXCEPT !.assets[Starter] = NoAsset]]
           /\ Cleared /\ target.releases[run.id].assets[Starter] = run.boundary.assets[Starter] =>
                 target' = [target EXCEPT !.releases[run.id] =
                               [target.releases[run.id] EXCEPT !.assets[Starter] = NoAsset]]
<1>1. \A op \in Operations : \A id, asset, content, w : w = Request(op, id, asset, content) =>
         /\ w.op = op /\ w.id = id /\ w.asset = asset /\ w.content = content
         /\ w.version = this
  BY DEF Request
<1>op. /\ "master" \in Operations /\ "tag" \in Operations /\ "create" \in Operations
       /\ "delete" \in Operations /\ "upload" \in Operations /\ "publish" \in Operations
       /\ "alias" \in Operations
  BY DEF Operations
<1>2. ASSUME Pushed
      PROVE  target' = target \/ target' = [target EXCEPT !.master = this]
  <2> DEFINE w == Request("master", run.n, 0, 0)
  <2>1. /\ w.op = "master" /\ w.id = run.n /\ w.asset = 0
        /\ w.content = 0 /\ w.version = this
    BY <1>1, <1>op
  <2>2. target' = Applied(w)
    BY <1>2 DEF Pushed
  <2> HIDE DEF w
  <2>3. QED
    BY <2>1, <2>2 DEF Applied
<1>3. ASSUME Named
      PROVE  target' = target \/ target' = [target EXCEPT !.tag[this] = run.n]
  <2> DEFINE w == Request("tag", run.n, 0, 0)
  <2>1. /\ w.op = "tag" /\ w.id = run.n /\ w.asset = 0
        /\ w.content = 0 /\ w.version = this
    BY <1>1, <1>op
  <2>2. target' = Applied(w)
    BY <1>3 DEF Named
  <2> HIDE DEF w
  <2>3. QED
    BY <2>1, <2>2 DEF Applied
<1>4. ASSUME Drafted(NewDraft)
      PROVE  target' = [target EXCEPT !.releases[run.n] = NewDraft]
  <2> DEFINE w == Request("create", run.n, 0, 0)
  <2>1. /\ w.op = "create" /\ w.id = run.n /\ w.asset = 0
        /\ w.content = 0 /\ w.version = this
    BY <1>1, <1>op
  <2>2. target' = Applied(w)
    BY <1>4 DEF Drafted
  <2> HIDE DEF w
  <2>3. QED
    BY <2>1, <2>2 DEF Applied, NewDraft
<1>5. ASSUME Posted
      PROVE  \/ target' = target
             \/ target' = [target EXCEPT !.releases[run.id] =
                              [target.releases[run.id] EXCEPT !.assets[Next3] = Asset]]
  <2> DEFINE w == Request("upload", run.id, Next3, Asset)
  <2>1. /\ w.op = "upload" /\ w.id = run.id /\ w.asset = Next3
        /\ w.content = Asset /\ w.version = this
    BY <1>1, <1>op
  <2>2. target' = Applied(w)
    BY <1>5 DEF Posted
  <2> HIDE DEF w
  <2>3. QED
    BY <2>1, <2>2 DEF Applied
<1>6. ASSUME Issued
      PROVE  \/ target' = target
             \/ target' = [target EXCEPT !.releases[run.id] =
                              [target.releases[run.id] EXCEPT !.phase = "published"]]
  <2> DEFINE w == Request("publish", run.id, 0, 0)
  <2>1. /\ w.op = "publish" /\ w.id = run.id /\ w.asset = 0
        /\ w.content = 0 /\ w.version = this
    BY <1>1, <1>op
  <2>2. target' = Applied(w)
    BY <1>6 DEF Issued
  <2> HIDE DEF w
  <2>3. QED
    BY <2>1, <2>2 DEF Applied
<1>7. ASSUME Moved
      PROVE  \/ target' = target
             \/ target' = [target EXCEPT !.alias = [version |-> this, by |-> run.n]]
  <2> DEFINE w == Request("alias", run.n, 0, run.refs.alias)
  <2>1. /\ w.op = "alias" /\ w.id = run.n /\ w.asset = 0
        /\ w.content = run.refs.alias /\ w.version = this
    BY <1>1, <1>op
  <2>2. target' = Applied(w)
    BY <1>7 DEF Moved
  <2> HIDE DEF w
  <2>3. QED
    BY <2>1, <2>2 DEF Applied
<1>8. ASSUME Cleared
      PROVE  \/ target' = [target EXCEPT !.releases[run.id] =
                              [target.releases[run.id] EXCEPT !.assets[Starter] = NoAsset]]
             \/ /\ target' = target
                /\ target.releases[run.id].assets[Starter] # run.boundary.assets[Starter]
  <2> DEFINE w == Request("delete", run.id, Starter, run.boundary.assets[Starter])
  <2>1. /\ w.op = "delete" /\ w.id = run.id /\ w.asset = Starter
        /\ w.content = run.boundary.assets[Starter] /\ w.version = this
    BY <1>1, <1>op
  <2>2. target' = Applied(w)
    BY <1>8 DEF Cleared
  <2> HIDE DEF w
  <2>3. QED
    BY <2>1, <2>2 DEF Applied
<1>9. QED
  BY <1>2, <1>3, <1>4, <1>5, <1>6, <1>7, <1>8

Waited == Pushed \/ Named \/ Posted \/ Issued \/ Moved

\* A run that nothing has disturbed begins, stands, reads, or does a write at once.
LEMMA QuietSteps ==
    ASSUME Inv, [Next]_vars, Quiet'
    PROVE  /\ run' \in ActiveRuns /\ intents' = intents /\ History' = History
           /\ Dispatch \/ (Quiet /\ run \in ActiveRuns /\ run'.version = this /\ Frames(run'))
           /\ \/ Dispatch
              \/ UNCHANGED vars
              \/ /\ RunSteps /\ Goes(run') /\ run.pc \notin Writing /\ ~WriteSteps
                 /\ UNCHANGED <<source, target, listed>>
              \/ /\ RunSteps /\ Goes(run') /\ run.pc \in Writing /\ UNCHANGED <<source, listed>>
                 /\ (Waited /\ target' # target) \/ Drafted(NewDraft) \/ Cleared
<1> USE DEF Inv
<1>1. /\ run' \in ActiveRuns /\ Active'
      /\ Dispatch \/ (RunSteps /\ Goes(run')) \/ (~RunSteps /\ ~Dispatch /\ Stands(run'))
      /\ ~Dispatch => run \in ActiveRuns /\ Active
  BY ActiveNext DEF Quiet
<1>2. intents' = intents /\ History' = History
  BY StepForward, SameHistory
<1>3. ASSUME ~Dispatch
      PROVE  /\ Quiet /\ Frames(run')
             /\ ~RunSteps => UNCHANGED vars
             /\ run'.version = this
  BY <1>1, <1>3, FramesOn DEF Quiet, Frames, Goes, Keeps, Stands, this
<1>4. CASE RunSteps /\ ~Dispatch /\ run.pc \notin Writing
  BY <1>1, <1>2, <1>3, <1>4, WritingAt, ReadsOn
<1>5. CASE RunSteps /\ ~Dispatch /\ run.pc \in Writing
  <2>1. /\ WriteSteps /\ run \in ActiveRuns /\ run'.calm
        /\ Active
    BY <1>1, <1>5, WritingAt DEF Quiet
  <2>2. [To("created") EXCEPT !.calm = FALSE].calm = FALSE
        /\ [To("deleted") EXCEPT !.calm = FALSE].calm = FALSE
    BY <2>1 DEF To, ActiveRuns
  <2>3. ASSUME run.pc = "create", Applied(Request("create", run.n, 0, 0)) = target PROVE FALSE
    <3>1. target.releases[run.n] = NoRelease /\ run.n \in Runs
      BY <2>1, <2>3 DEF RunInv, NotYetCreated, UpToCreate, ActiveRuns
    <3> DEFINE w == Request("create", run.n, 0, 0)
    <3>2. w.op = "create" /\ w.id = run.n /\ w.version = this
      BY DEF Request
    <3> HIDE DEF w
    <3>3. Applied(w) = [target EXCEPT !.releases[run.n] = NewDraft]
      BY <3>2 DEF Applied, NewDraft
    <3>4. Applied(w) = target
      BY <2>3 DEF w
    <3>5. NewDraft = NoRelease
      BY <3>1, <3>3, <3>4 DEF TypeInv, Targets
    <3>6. QED
      BY <3>5, NewDraftIs
  <2>4. ASSUME /\ run.pc = "delete" /\ run' = To("deleted") /\ target' = target
               /\ Applied(Request("delete", run.id, Starter, run.boundary.assets[Starter]))
                    = target
        PROVE  Cleared
    BY <2>4 DEF Cleared
  <2>5. /\ UNCHANGED <<source, listed>>
        /\ (Waited /\ target' # target) \/ Drafted(NewDraft) \/ Cleared
    <3>1. run' # [To("created") EXCEPT !.calm = FALSE] /\ run' # [To("deleted") EXCEPT !.calm = FALSE]
      BY <2>1, <2>2
    <3>2. /\ UNCHANGED <<source, listed>>
          /\ \/ Waited /\ target' # target
             \/ Drafted(NewDraft) \/ Cleared
             \/ run.pc = "create" /\ Applied(Request("create", run.n, 0, 0)) = target
             \/ /\ run.pc = "delete" /\ run' = To("deleted") /\ target' = target
                /\ Applied(Request("delete", run.id, Starter, run.boundary.assets[Starter]))
                     = target
      BY <1>1, <2>1, <3>1, WritesOn DEF Waited
    <3>3. QED
      BY <2>3, <2>4, <3>2
  <2>6. QED
    BY <1>1, <1>2, <1>3, <1>5, <2>1, <2>5
<1>6. CASE Dispatch \/ ~RunSteps
  BY <1>1, <1>2, <1>3, <1>6
<1>7. QED
  BY <1>4, <1>5, <1>6

\* While the refs are pushed, the Releases stay.
LEMMA PushedStay ==
    ASSUME target \in Targets, run \in ActiveRuns, Pushed \/ Named
    PROVE  /\ target'.releases = target.releases /\ target'.alias = target.alias
           /\ run.pc \in {"push master", "push tag"}
<1>1. target' \in {target, [target EXCEPT !.master = this], [target EXCEPT !.tag[this] = run.n]}
  BY DoneAtOnce
<1>2. QED
  BY <1>1 DEF Targets, Pushed, Named

LEMMA NoLater ==
    ASSUME intents \in Intents
    PROVE  \A v \in 0..LastVersion : \A u : Contains(v, u) => u <= v
<1> DEFINE Bad == {v \in 0..LastVersion : \E u \in History[v] : ~(u <= v)}
<1>1. ASSUME Bad # {} PROVE FALSE
  <2>1. PICK v \in Bad : \A u \in Bad : v <= u
    BY <1>1, LeastVersion
  <2>2. PICK u \in History[v] : ~(u <= v)
    BY <2>1
  <2>3. v # Base
    BY <2>2, HistoryStep DEF Base
  <2>4. v \in Versions /\ v \in Nat
    BY <2>1, <2>3, Numbers, BoundsAssumption
  <2> DEFINE p == intents[v].parent
  <2>5. p \in 0..LastVersion /\ p < v /\ History[v] = {v} \cup History[p]
    BY <2>4, HistoryStep
  <2>6. p \in Nat
    BY <2>5, BoundsAssumption
  <2>7. p \notin Bad
    <3>1. ~(v <= p)
      BY <2>4, <2>5, <2>6
    <3>2. QED
      BY <2>1, <3>1
  <2>8. u = v \/ u \in History[p]
    BY <2>2, <2>5
  <2>9. u \in 0..LastVersion
    BY <2>1, <2>2, HistoryFacts
  <2>10. u \in Nat
    BY <2>9, BoundsAssumption
  <2>11. u <= v
    <3>1. u = v \/ u <= p
      BY <2>5, <2>7, <2>8
    <3> HIDE DEF p, Bad
    <3>2. QED
      BY <2>4, <2>5, <2>6, <2>10, <3>1
  <2>12. QED
    BY <2>2, <2>11
<1>2. QED
  BY <1>1 DEF Contains

LEMMA QuietReadsNext ==
    ASSUME Inv, Calm, [Next]_vars
    PROVE  QuietReads'
<1> USE DEF Inv
<1> SUFFICES ASSUME Quiet'
             PROVE  /\ source' = run'.live
                    /\ run'.pc \in BeforePush => run'.refs = Refs'
                    /\ run'.pc \in UpToCreate \ {"clone", "list"} =>
                          run'.inventory = Inventory'
                    /\ run'.pc \in Looking => run'.print = Refs'
  BY DEF QuietReads
<1>0. target \in Targets
  BY DEF TypeInv
<1>1. CASE Dispatch
  <2>1. run'.pc = "clone" /\ run'.refs = Refs /\ target' = target
    BY <1>1, Begins
  <2>2. source' = run'.live
    <3>1. PICK w \in 1..source :
            \E selector \in {0} \cup {i \in Runs : target.releases[i] # NoRelease} :
            \E admission \in Admissions(w) :
            run' = [pc |-> "clone", n |-> used.runs + 1, version |-> w, selector |-> selector,
                    admission |-> admission, live |-> source, refs |-> Refs, print |-> Refs,
                    inventory |-> [i \in Runs |-> NoRelease], id |-> 0, boundary |-> NoRelease,
                    provenance |-> 0, stale |-> FALSE, fresh |-> FALSE, superseded |-> FALSE,
                    calm |-> TRUE]
      BY <1>1 DEF Dispatch
    <3>2. run'.live = source
      BY <3>1
    <3>3. QED
      BY <1>1, <3>2 DEF Dispatch
  <2>3. QED
    BY <2>1, <2>2 DEF Refs, Looking
<1>2. CASE ~Dispatch
  <2>1. /\ Quiet /\ run \in ActiveRuns /\ Frames(run')
        /\ \/ UNCHANGED vars
           \/ /\ RunSteps /\ Goes(run') /\ run.pc \notin Writing /\ ~WriteSteps
              /\ UNCHANGED <<source, target, listed>>
           \/ /\ RunSteps /\ Goes(run') /\ run.pc \in Writing /\ UNCHANGED <<source, listed>>
              /\ (Waited /\ target' # target) \/ Drafted(NewDraft) \/ Cleared
    BY <1>2, QuietSteps
  <2>2. /\ source = run.live
        /\ run.pc \in BeforePush => run.refs = Refs
        /\ run.pc \in UpToCreate \ {"clone", "list"} => run.inventory = Inventory
        /\ run.pc \in Looking => run.print = Refs
    BY <2>1 DEF Calm, QuietReads
  <2>3. CASE UNCHANGED vars
    BY <2>2, <2>3 DEF vars, Refs, Inventory
  <2>4. CASE /\ RunSteps /\ Goes(run') /\ run.pc \notin Writing /\ ~WriteSteps
             /\ UNCHANGED <<source, target, listed>>
    <3>1. Refs' = Refs /\ Inventory' = Inventory
      BY <2>4 DEF Refs, Inventory
    <3>2. run'.live = run.live
      BY <2>1 DEF Frames
    <3>3. CASE run.pc = "clone"
      <4>1. run' = [run EXCEPT !.pc = "list", !.refs = Refs]
        BY <2>1, <2>4, <3>3, ReadsOn, QuietSteps
      <4>2. run'.pc = "list" /\ run'.refs = Refs
        BY <2>1, <4>1 DEF ActiveRuns
      <4>3. QED
        BY <2>2, <2>4, <3>1, <3>2, <4>2 DEF Looking
    <3>4. CASE run.pc = "list"
      <4>1. run' = [run EXCEPT !.pc = "audit", !.inventory = Inventory, !.print = Refs]
        BY <2>1, <2>4, <3>4, ReadsOn, QuietSteps
      <4>2. run'.inventory = Inventory /\ run'.print = Refs /\ run'.refs = run.refs
        BY <2>1, <4>1 DEF ActiveRuns
      <4>3. QED
        BY <2>2, <2>4, <3>1, <3>2, <3>4, <4>2 DEF BeforePush, UpToAudit
    <3>5. CASE run.pc \notin {"clone", "list"}
      <4>1. /\ run'.refs = run.refs /\ run'.inventory = run.inventory /\ run'.print = run.print
        BY <2>1, <2>4, <3>5 DEF Goes, Keeps, Frames
      <4>2. run'.pc \in BeforePush => run.pc \in BeforePush
        BY <2>4 DEF Goes, Path, BeforePush, UpToAudit, UpToMaster
      <4>3. run'.pc \in Looking => run.pc \in Looking
        BY <2>4, <3>5 DEF Goes, Path, Looking
      <4>4. run'.pc \in UpToCreate => run.pc \in UpToCreate
        BY <2>4 DEF Goes, Path, UpToCreate, UpToAudit, UpToMaster, WithTag
      <4>5. QED
        BY <2>2, <2>4, <3>1, <3>2, <3>5, <4>1, <4>2, <4>3, <4>4
    <3>6. QED
      BY <3>3, <3>4, <3>5
  <2>5. CASE /\ RunSteps /\ Goes(run') /\ run.pc \in Writing /\ UNCHANGED <<source, listed>>
             /\ (Waited /\ target' # target) \/ Drafted(NewDraft) \/ Cleared
    <3>1. run'.live = run.live /\ run'.inventory = run.inventory
      BY <2>1, <2>5 DEF Frames, Writing
    <3>2. run'.pc \notin BeforePush /\ run'.pc \notin Looking
      BY <2>5 DEF Goes, Path, BeforePush, UpToAudit, UpToMaster, Looking, Writing
    <3>3. ASSUME run'.pc \in UpToCreate PROVE run.inventory = Inventory'
      <4>1. run.pc \in {"push master", "push tag"}
        BY <2>5, <3>3 DEF Goes, Path, UpToCreate, UpToAudit, UpToMaster, WithTag, Writing
      <4>2. Pushed \/ Named
        BY <2>5, <4>1 DEF Waited, Pushed, Named, Posted, Issued, Moved, Drafted, Cleared
      <4>3. target'.releases = target.releases
        BY <1>0, <2>1, <4>2, PushedStay
      <4>4. run.inventory = Inventory
        BY <2>2, <4>1 DEF UpToCreate, WithTag
      <4>5. QED
        BY <2>5, <4>3, <4>4 DEF Inventory
    <3>4. QED
      BY <2>2, <2>5, <3>1, <3>2, <3>3
  <2>6. QED
    BY <2>1, <2>3, <2>4, <2>5
<1>3. QED
  BY <1>1, <1>2

LEMMA QuietRefsNext ==
    ASSUME Inv, Kept, Calm, [Next]_vars
    PROVE  QuietRefs'
<1> USE DEF Inv
<1> DEFINE planned == IF AliasMode = "forward" THEN [version |-> this, by |-> run.n]
                      ELSE run.refs.alias
<1> SUFFICES ASSUME Quiet'
             PROVE  /\ run'.pc # "created"
                    /\ run'.pc \in {"tag", "push tag"} =>
                          /\ target'.tag = run'.refs.tag
                          /\ run'.refs.tag[run'.version] # 0 \/ target'.master = run'.version
                    /\ run'.pc = "tagged" => target'.tag[run'.version] = run'.n
                    /\ run'.pc \in {"release", "create"} => target'.tag[run'.version] # 0
                    /\ run'.pc \notin {"aliased", "finish"} => target'.alias = run'.refs.alias
                    /\ run'.pc = "aliased" => target'.alias = planned'
  BY DEF QuietRefs, tagSeen, this
<1>0. target \in Targets
  BY DEF TypeInv
<1>1. CASE Dispatch
  <2>1. run'.pc = "clone" /\ run'.refs = Refs /\ target' = target
    BY <1>1, Begins
  <2>2. QED
    BY <2>1 DEF Refs
<1>2. CASE ~Dispatch
  <2>1. /\ Quiet /\ run \in ActiveRuns /\ run' \in ActiveRuns /\ run'.version = this
        /\ Active /\ intents' = intents /\ History' = History
        /\ \/ UNCHANGED vars
           \/ /\ RunSteps /\ Goes(run') /\ run.pc \notin Writing /\ ~WriteSteps
              /\ UNCHANGED <<source, target, listed>>
           \/ /\ RunSteps /\ Goes(run') /\ run.pc \in Writing /\ UNCHANGED <<source, listed>>
              /\ (Waited /\ target' # target) \/ Drafted(NewDraft) \/ Cleared
    BY <1>2, QuietSteps DEF Quiet
  <2>2. /\ run.pc # "created"
        /\ run.pc \in {"tag", "push tag"} =>
              target.tag = run.refs.tag /\ (tagSeen \/ target.master = this)
        /\ run.pc = "tagged" => target.tag[this] = run.n
        /\ run.pc \in {"release", "create"} => target.tag[this] # 0
        /\ run.pc \notin {"aliased", "finish"} => target.alias = run.refs.alias
        /\ run.pc = "aliased" => target.alias = planned
    BY <2>1 DEF Calm, QuietRefs
  <2>3. CASE UNCHANGED vars
    <3>1. planned' = planned
      BY <2>1, <2>3 DEF vars, AliasMode, Stable, Contains, this
    <3>2. QED
      BY <2>1, <2>2, <2>3, <3>1 DEF vars, tagSeen, this
  <2>4. ASSUME Goes(run'), run.pc # "clone"
        PROVE  run'.refs = run.refs /\ run'.n = run.n /\ planned' = planned
    <3>1. run'.refs = run.refs /\ run'.n = run.n /\ run'.version = run.version
      BY <2>4 DEF Goes, Keeps
    <3>2. QED
      BY <2>1, <3>1 DEF AliasMode, Stable, Contains, this
  <2>n. run.n # 0 /\ this \in Versions
    BY <2>1, Ranges DEF ActiveRuns, this
  <2>5. CASE /\ RunSteps /\ Goes(run') /\ run.pc \notin Writing /\ ~WriteSteps
             /\ UNCHANGED <<source, target, listed>>
    <3>1. CASE run.pc = "clone"
      <4>1. run' = [run EXCEPT !.pc = "list", !.refs = Refs]
        BY <2>1, <2>5, <3>1, ReadsOn
      <4>2. run'.pc = "list" /\ run'.refs = Refs
        BY <2>1, <4>1 DEF ActiveRuns
      <4>3. QED
        BY <2>5, <4>2 DEF Refs
    <3>2. CASE run.pc = "master"
      <4>1. run' = To(IF ~Contains(run.refs.master, this) THEN "push master" ELSE "tag")
        BY <2>1, <2>5, <3>2, ReadsOn
      <4>2. run'.pc = IF ~Contains(run.refs.master, this) THEN "push master" ELSE "tag"
        BY <2>1, <4>1 DEF To, ActiveRuns
      <4>3. run.refs = Refs
        BY <2>1, <3>2 DEF Calm, QuietReads, BeforePush, UpToMaster
      <4>4. ASSUME Contains(run.refs.master, this), ~tagSeen PROVE target.master = this
        <5>1. InPlace
          BY <2>1, <3>2 DEF RunInv, Started, AfterStart, Steps, UpToCreate, UpToMaster, UpToAudit
        <5>2. Begun \/ FollowsOn
          BY <4>4, <5>1 DEF InPlace
        <5>3. ~FollowsOn
          <6>1. parent \in 0..LastVersion /\ parent < this
            BY <2>n, HistoryStep DEF TypeInv, parent
          <6>2. this \in Nat /\ parent \in Nat
            BY <2>n, <6>1, BoundsAssumption DEF Versions
          <6>3. ~(this <= parent)
            BY <6>1, <6>2
          <6>4. ~Contains(parent, this)
            BY <6>1, <6>3, NoLater DEF TypeInv
          <6>5. QED
            BY <4>4, <6>4 DEF FollowsOn
        <5>4. QED
          BY <4>3, <4>4, <5>2, <5>3 DEF Begun, Refs
      <4>5. run'.pc \in {"push master", "tag"} /\ target' = target
        BY <2>5, <4>2
      <4>6. run'.refs = run.refs /\ run'.version = this
        BY <2>1, <2>4, <2>5, <3>2
      <4>7. target.alias = run.refs.alias /\ target.tag = run.refs.tag
        BY <4>3 DEF Refs
      <4>8. run'.pc = "tag" => run.refs.tag[this] # 0 \/ target.master = this
        BY <4>2, <4>4 DEF tagSeen
      <4>9. QED
        BY <4>5, <4>6, <4>7, <4>8
    <3>3. CASE run.pc = "tag"
      <4>1. run' = To(IF tagSeen THEN "release" ELSE "push tag")
        BY <2>1, <2>5, <3>3, ReadsOn
      <4>2. run'.pc = IF tagSeen THEN "release" ELSE "push tag"
        BY <2>1, <4>1 DEF To, ActiveRuns
      <4>3. QED
        BY <2>1, <2>2, <2>4, <2>5, <3>3, <4>2 DEF tagSeen
    <3>4. CASE run.pc = "tagged"
      <4>1. run'.pc = "release"
        BY <2>5, <3>4 DEF Goes, Path
      <4>2. QED
        BY <2>1, <2>2, <2>4, <2>5, <2>n, <3>4, <4>1
    <3>5. CASE run.pc = "release"
      <4>1. run'.pc \in {"create", "starter"}
        BY <2>5, <3>5 DEF Goes, Path
      <4>2. QED
        BY <2>1, <2>2, <2>4, <2>5, <3>5, <4>1
    <3>6. CASE run.pc = "verify"
      <4>1. run' = To(CASE AliasMode = "none" -> "finish" [] AliasMode = "forward" -> "alias"
                        [] OTHER -> "aliased")
        BY <2>1, <2>5, <3>6, ReadsOn
      <4>2. run'.pc = CASE AliasMode = "none" -> "finish" [] AliasMode = "forward" -> "alias"
                        [] OTHER -> "aliased"
        BY <2>1, <4>1 DEF To, ActiveRuns
      <4>3. run'.pc = "aliased" => AliasMode # "forward"
        BY <4>2
      <4>4. run'.pc \in {"finish", "alias", "aliased"}
        BY <2>5, <3>6 DEF Goes, Path
      <4>5. QED
        BY <2>1, <2>2, <2>4, <2>5, <3>6, <4>3, <4>4
    <3>7. CASE run.pc \in {"list", "audit", "start", "select", "again", "starter", "deleted",
                           "existing", "upload", "uploaded", "publish", "published", "alias",
                           "aliased"}
      <4>1. /\ run'.pc \notin {"created", "tag", "push tag", "tagged", "release", "create",
                              "aliased"}
            /\ run'.pc = "finish" \/ run.pc \notin {"aliased", "finish"}
        BY <2>5, <3>7 DEF Goes, Path
      <4>2. QED
        BY <2>1, <2>2, <2>4, <2>5, <3>7, <4>1
    <3>8. run.pc \in {"clone", "master", "tag", "tagged", "release", "verify", "list", "audit",
                      "start", "select", "again", "starter", "deleted", "existing", "upload",
                      "uploaded", "publish", "published", "alias", "aliased"}
      BY <2>2, <2>5 DEF Goes, Path, Writing
    <3>9. QED
      BY <3>1, <3>2, <3>3, <3>4, <3>5, <3>6, <3>7, <3>8
  <2>6. CASE /\ RunSteps /\ Goes(run') /\ run.pc \in Writing /\ UNCHANGED <<source, listed>>
             /\ (Waited /\ target' # target) \/ Drafted(NewDraft) \/ Cleared
    <3>0. run'.refs = run.refs /\ run'.n = run.n /\ planned' = planned
      BY <2>4, <2>6 DEF Writing
    <3>1. CASE Pushed /\ target' # target
      <4>1. run.pc = "push master" /\ run'.pc = "tag"
        BY <2>1, <3>1 DEF Pushed, To, ActiveRuns
      <4>2. target' = [target EXCEPT !.master = this]
        BY <1>0, <2>1, <3>1, DoneAtOnce
      <4>3. target'.tag = target.tag /\ target'.alias = target.alias /\ target'.master = this
        BY <1>0, <4>2 DEF Targets
      <4>4. run.refs = Refs
        BY <2>1, <4>1 DEF Calm, QuietReads, BeforePush
      <4>5. target'.tag = run.refs.tag
        BY <4>3, <4>4 DEF Refs
      <4>6. QED
        BY <2>1, <2>2, <3>0, <4>1, <4>3, <4>5
    <3>2. CASE Named /\ target' # target
      <4>1. run.pc = "push tag" /\ run'.pc = "tagged"
        BY <2>1, <3>2 DEF Named, To, ActiveRuns
      <4>2. target' = [target EXCEPT !.tag[this] = run.n]
        BY <1>0, <2>1, <3>2, DoneAtOnce
      <4>3. target'.tag[this] = run.n /\ target'.alias = target.alias
        BY <1>0, <2>n, <4>2 DEF Targets
      <4>4. QED
        BY <2>1, <2>2, <3>0, <4>1, <4>3
    <3>3. CASE Moved /\ target' # target
      <4>1. run.pc = "move" /\ run'.pc = "aliased"
        BY <2>1, <3>3 DEF Moved, To, ActiveRuns
      <4>2. target' = [target EXCEPT !.alias = [version |-> this, by |-> run.n]]
        BY <1>0, <2>1, <3>3, DoneAtOnce
      <4>3. target'.alias = [version |-> this, by |-> run.n]
        BY <1>0, <4>2 DEF Targets
      <4>4. AliasMode = "forward"
        BY <4>1 DEF RunInv, Verified
      <4>5. QED
        BY <3>0, <4>1, <4>3, <4>4
    <3>4. CASE Drafted(NewDraft) \/ Posted \/ Issued \/ Cleared
      <4>1. run'.pc \in {"starter", "uploaded", "published", "deleted"}
        <5>1. \A pc : To(pc).pc = pc
          BY <2>1 DEF To, ActiveRuns
        <5>2. [run EXCEPT !.pc = "starter", !.id = run.n, !.boundary = NewDraft].pc = "starter"
          BY <2>1 DEF ActiveRuns
        <5>3. QED
          BY <3>4, <5>1, <5>2 DEF Drafted, Posted, Issued, Cleared
      <4>2. target'.alias = target.alias
        <5>1. CASE Drafted(NewDraft)
          <6>1. target' = [target EXCEPT !.releases[run.n] = NewDraft]
            BY <1>0, <2>1, <5>1, DoneAtOnce
          <6>2. QED
            BY <1>0, <6>1 DEF Targets
        <5>2. CASE Posted
          <6>1. target' = target \/ target' = [target EXCEPT !.releases[run.id] =
                   [target.releases[run.id] EXCEPT !.assets[Next3] = Asset]]
            BY <1>0, <2>1, <5>2, DoneAtOnce
          <6>2. QED
            BY <1>0, <6>1 DEF Targets
        <5>3. CASE Issued
          <6>1. target' = target \/ target' = [target EXCEPT !.releases[run.id] =
                   [target.releases[run.id] EXCEPT !.phase = "published"]]
            BY <1>0, <2>1, <5>3, DoneAtOnce
          <6>2. QED
            BY <1>0, <6>1 DEF Targets
        <5>4. CASE Cleared
          <6>1. target' = target \/ target' = [target EXCEPT !.releases[run.id] =
                   [target.releases[run.id] EXCEPT !.assets[Starter] = NoAsset]]
            BY <1>0, <2>1, <5>4, DoneAtOnce
          <6>2. QED
            BY <1>0, <6>1 DEF Targets
        <5>5. QED
          BY <3>4, <5>1, <5>2, <5>3, <5>4
      <4>3. run.pc \notin {"aliased", "finish"}
        BY <2>6 DEF Writing
      <4>4. QED
        BY <2>2, <3>0, <4>1, <4>2, <4>3
    <3>5. QED
      BY <2>6, <3>1, <3>2, <3>3, <3>4 DEF Waited
  <2>7. QED
    BY <2>1, <2>3, <2>5, <2>6
<1>3. QED
  BY <1>1, <1>2

\* What select selects.
LEMMA SelectedIs ==
    ASSUME Inv, Quiet, run \in ActiveRuns, run.pc = "select", run.inventory = Inventory
    PROVE  /\ SelectedId \in 0..MaxRuns /\ Selected \in Releases
           /\ SelectedId = 0 =>
                 /\ run.selector = 0 /\ Of(run.inventory, this) = {} /\ Selected = NoRelease
           /\ SelectedId # 0 =>
                 /\ SelectedId \in Runs /\ Selected = target.releases[SelectedId]
                 /\ run.selector # 0 \/ (SelectedId \in Of(run.inventory, this)
                                         /\ SelectedId \in listed /\ Selected.version = this)
                 /\ run.selector # 0 => SelectedId = run.selector
<1> USE DEF Inv
<1>1. /\ run.selector \in 0..MaxRuns /\ this \in Versions /\ this # Base
      /\ \A i \in Runs : target.releases[i] \in Releases
  BY Numbers DEF ActiveRuns, this, TypeInv, Targets
<1>2. NoRelease \in Releases /\ NoRelease.version = Base
  BY BoundsAssumption DEF NoRelease, NoAsset, Releases, Assets, Base
<1>n. 0 \notin Runs /\ \A i \in 0..MaxRuns : i # 0 => i \in Runs
  BY BoundsAssumption DEF Runs
<1>3. CASE run.selector # 0
  <2>1. SelectedId = run.selector /\ Selected = target.releases[run.selector]
    BY <1>3 DEF SelectedId, Selected
  <2>2. QED
    BY <1>1, <1>3, <1>n, <2>1
<1>4. CASE run.selector = 0 /\ Of(run.inventory, this) = {}
  <2>1. SelectedId = 0 /\ Selected = NoRelease
    BY <1>4 DEF SelectedId, Selected
  <2>2. QED
    BY <1>2, <1>4, <2>1, BoundsAssumption
<1>5. CASE run.selector = 0 /\ Of(run.inventory, this) # {}
  <2>1. SelectedId \in Of(run.inventory, this)
    BY <1>5 DEF SelectedId
  <2>2. SelectedId \in Runs /\ run.inventory[SelectedId].version = this
    BY <2>1 DEF Of
  <2>3. Selected = run.inventory[SelectedId]
    BY <1>5, <1>n, <2>2 DEF Selected
  <2>4. SelectedId \in listed /\ run.inventory[SelectedId] = target.releases[SelectedId]
    BY <1>1, <1>2, <2>2 DEF Inventory
  <2>5. QED
    BY <1>1, <1>n, <1>5, <2>1, <2>2, <2>3, <2>4, Ranges
<1>6. QED
  BY <1>3, <1>4, <1>5

LEMMA QuietChoiceNext ==
    ASSUME Inv, Calm, [Next]_vars
    PROVE  QuietChoice'
<1> USE DEF Inv
<1> SUFFICES ASSUME Quiet', run'.pc \in Chosen
             PROVE  /\ run'.id = 0 => run'.selector = 0 /\ Of(run'.inventory, run'.version) = {}
                    /\ run'.id # 0 =>
                          /\ run'.id \in Runs /\ run'.boundary = target'.releases[run'.id]
                          /\ run'.boundary.version = run'.version /\ ~run'.boundary.alien
                          /\ Provided'
  <2>1. Of(run.inventory, this)' = Of(run'.inventory, run'.version)
    BY DEF Of, this
  <2>2. QED
    BY <2>1 DEF QuietChoice, this, Runs
<1>0. target \in Targets
  BY DEF TypeInv
<1>1. /\ Quiet /\ run \in ActiveRuns /\ run' \in ActiveRuns /\ run'.version = this /\ Frames(run')
      /\ \/ UNCHANGED vars
         \/ /\ RunSteps /\ Goes(run') /\ run.pc \notin Writing /\ ~WriteSteps
            /\ UNCHANGED <<source, target, listed>>
         \/ /\ RunSteps /\ Goes(run') /\ run.pc \in Writing /\ UNCHANGED <<source, listed>>
            /\ (Waited /\ target' # target) \/ Drafted(NewDraft) \/ Cleared
  <2>1. Dispatch => run'.pc = "clone"
    BY Begins
  <2>2. ~Dispatch
    BY <2>1 DEF Chosen
  <2>3. QED
    BY <2>2, QuietSteps
<1>2. CASE run.pc \notin Chosen
  <2>1. ~UNCHANGED vars
    BY <1>2 DEF vars
  <2>2. /\ run.pc = "select" /\ run'.pc = "again" /\ RunSteps /\ ~WriteSteps
        /\ UNCHANGED <<source, target, listed>>
    BY <1>1, <1>2, <2>1 DEF Goes, Path, Chosen, Writing
  <2>3. /\ SelectorOk /\ SelectedOk
        /\ run' = [run EXCEPT !.pc = "again", !.id = SelectedId, !.boundary = Selected,
                              !.provenance = Provenance(Selected),
                              !.superseded =
                                  \/ AliasMode = "passed"
                                  \/ /\ Selected.phase # "published"
                                     /\ run.admission # "eligible" /\ ~run.stale]
    BY <1>1, <2>2, ReadsOn
  <2>4. /\ run'.id = SelectedId /\ run'.boundary = Selected
        /\ run'.provenance = Provenance(Selected)
        /\ run'.selector = run.selector /\ run'.inventory = run.inventory
    BY <1>1, <2>3 DEF ActiveRuns
  <2>5. run.inventory = Inventory
    BY <1>1, <2>2 DEF Calm, QuietReads, UpToCreate, UpToMaster
  <2>6. /\ SelectedId = 0 => run.selector = 0 /\ Of(run.inventory, this) = {}
        /\ SelectedId # 0 =>
              /\ SelectedId \in Runs /\ Selected = target.releases[SelectedId]
              /\ run.selector # 0 \/ Selected.version = this
    BY <1>1, <2>2, <2>5, SelectedIs
  <2>7. ASSUME SelectedId # 0 PROVE Selected.version = this /\ ~Selected.alien
    <3>1. Selected.version = this
      BY <2>3, <2>6, <2>7 DEF SelectorOk
    <3>2. this # Base
      BY <1>1, Numbers DEF ActiveRuns, this
    <3>3. QED
      BY <2>3, <3>1, <3>2 DEF SelectedOk
  <2>8. Provided'
    <3>1. 2 \in Uploaded(Selected) => Selected.assets[2].of = Provenance(Selected)
      BY DEF Provenance
    <3>2. Uploaded(run.boundary)' = Uploaded(run'.boundary)
      BY DEF Uploaded
    <3>3. QED
      BY <2>4, <3>1, <3>2 DEF Provided
  <2>9. QED
    BY <1>1, <2>2, <2>4, <2>6, <2>7, <2>8
<1>3. CASE run.pc \in Chosen
  <2>1. /\ run.id = 0 => run.selector = 0 /\ Of(run.inventory, this) = {}
        /\ run.id # 0 => /\ run.id \in Runs /\ run.boundary = target.releases[run.id]
                         /\ run.boundary.version = this /\ ~run.boundary.alien /\ Provided
    BY <1>1, <1>3 DEF Calm, QuietChoice
  <2>2. /\ run'.id = run.id /\ run'.boundary = run.boundary /\ run'.provenance = run.provenance
        /\ run'.selector = run.selector /\ run'.inventory = run.inventory
        /\ target'.releases = target.releases
    <3>1. CASE UNCHANGED vars
      BY <3>1 DEF vars
    <3>2. CASE /\ RunSteps /\ Goes(run') /\ run.pc \notin Writing /\ ~WriteSteps
               /\ UNCHANGED <<source, target, listed>>
      <4>1. run.pc \in {"again", "master", "tag", "tagged", "release"}
        BY <1>3, <3>2 DEF Chosen, Writing
      <4>2. run.pc = "release" =>
               \/ run' = To("create")
               \/ run' = [run EXCEPT !.pc = "starter", !.boundary = target.releases[run.id]]
        BY <1>1, <3>2, ReadsOn
      <4>3. run' # [run EXCEPT !.pc = "starter", !.boundary = target.releases[run.id]]
        <5>1. [run EXCEPT !.pc = "starter", !.boundary = target.releases[run.id]].pc = "starter"
          BY <1>1 DEF ActiveRuns
        <5>2. QED
          BY <5>1 DEF Chosen
      <4>4. run.pc = "tagged" => run' = [run EXCEPT !.pc = "release", !.fresh = TRUE]
        BY <1>1, <3>2, ReadsOn
      <4>5. run.pc \in {"again", "master", "tag"} =>
               run' \in {To("master"), To("push master"), To("tag"), To("push tag"), To("release")}
        BY <1>1, <3>2, ReadsOn
      <4>6. \/ run' = [run EXCEPT !.pc = "release", !.fresh = TRUE]
            \/ run' \in {To("master"), To("push master"), To("tag"), To("push tag"), To("release"),
                        To("create")}
        BY <4>1, <4>2, <4>3, <4>4, <4>5
      <4>7. QED
        BY <1>1, <3>2, <4>6 DEF To, ActiveRuns
    <3>3. CASE /\ RunSteps /\ Goes(run') /\ run.pc \in Writing
               /\ (Waited /\ target' # target) \/ Drafted(NewDraft) \/ Cleared
      <4>1. Pushed \/ Named
        <5>1. run.pc \notin {"post", "patch", "move", "delete"}
          BY <1>3 DEF Chosen
        <5>2. run.pc = "create" => run'.pc \notin Chosen
          BY <3>3 DEF Goes, Path, Chosen
        <5>3. QED
          BY <3>3, <5>1, <5>2 DEF Waited, Posted, Issued, Moved, Cleared, Drafted
      <4>2. target'.releases = target.releases
        BY <1>0, <1>1, <4>1, PushedStay
      <4>3. run' = To("tag") \/ run' = To("tagged")
        BY <4>1 DEF Pushed, Named
      <4>4. QED
        BY <1>1, <4>2, <4>3 DEF To, ActiveRuns
    <3>4. QED
      BY <1>1, <3>1, <3>2, <3>3
  <2>3. Provided' <=> Provided
    BY <2>2 DEF Provided, Uploaded
  <2>4. QED
    BY <1>1, <2>1, <2>2, <2>3
<1>4. QED
  BY <1>2, <1>3

\* What a run that only goes on still holds.
LEMMA StillHolds ==
    ASSUME run \in ActiveRuns, NEW pc, run' = To(pc)
    PROVE  /\ run'.id = run.id /\ run'.boundary = run.boundary /\ run'.provenance = run.provenance
           /\ run'.pc = pc /\ Without' = Without /\ With' = With /\ Out' = Out
           /\ Provided' <=> Provided
<1>1. /\ run'.id = run.id /\ run'.boundary = run.boundary /\ run'.provenance = run.provenance
      /\ run'.pc = pc /\ run'.n = run.n
  BY DEF To, ActiveRuns
<1>2. Without' = Without
  BY <1>1 DEF Without, Starter, Starters
<1>3. Next3' = Next3
  BY <1>1 DEF Next3, Missing, Uploaded
<1>4. With' = With
  BY <1>1, <1>3 DEF With, Asset
<1>5. Out' = Out /\ (Provided' <=> Provided)
  BY <1>1 DEF Out, Provided, Uploaded
<1>6. QED
  BY <1>1, <1>2, <1>4, <1>5

LEMMA QuietHeldNext ==
    ASSUME Inv, Kept, Calm, [Next]_vars
    PROVE  QuietHeld'
<1> USE DEF Inv
<1> SUFFICES ASSUME Quiet', run'.pc \in WithRelease
             PROVE  target'.releases[run'.id] = Expected' /\ ~run'.boundary.alien /\ Provided'
  BY DEF QuietHeld
<1>0. target \in Targets
  BY DEF TypeInv
<1>1. /\ Quiet /\ run \in ActiveRuns /\ Active /\ run' \in ActiveRuns /\ run'.version = this
      /\ Frames(run')
      /\ \/ UNCHANGED vars
         \/ /\ RunSteps /\ Goes(run') /\ run.pc \notin Writing /\ ~WriteSteps
            /\ UNCHANGED <<source, target, listed>>
         \/ /\ RunSteps /\ Goes(run') /\ run.pc \in Writing /\ UNCHANGED <<source, listed>>
            /\ (Waited /\ target' # target) \/ Drafted(NewDraft) \/ Cleared
  <2>1. Dispatch => run'.pc = "clone"
    BY Begins
  <2>2. ~Dispatch
    BY <2>1 DEF WithRelease
  <2>3. QED
    BY <2>2, QuietSteps DEF Quiet
<1>e. /\ run'.pc \notin {"deleted", "uploaded", "published"} => Expected' = run'.boundary
      /\ run'.pc = "deleted" => Expected' = Without'
      /\ run'.pc = "uploaded" => Expected' = With'
      /\ run'.pc = "published" => Expected' = Out'
      /\ run.pc \notin {"deleted", "uploaded", "published"} => Expected = run.boundary
  BY DEF Expected
<1>2. CASE UNCHANGED vars
  <2>1. QuietHeld' = QuietHeld
    BY <1>2 DEF vars, QuietHeld, Expected, Without, Starter, Starters, With, Next3, Missing,
       Uploaded, Asset, Out, Provided, Quiet, Active
  <2>2. QED
    BY <2>1 DEF Calm, QuietHeld
<1>3. CASE run.pc \notin WithRelease /\ ~UNCHANGED vars
  <2>1. run.pc \in {"release", "create", "created"}
    BY <1>1, <1>3 DEF Goes, Path, WithRelease
  <2>2. run.pc # "created"
    BY <1>1 DEF Calm, QuietRefs
  <2>3. CASE run.pc = "release"
    <3>1. /\ target' = target /\ RunSteps /\ ~WriteSteps
          /\ run'.pc = "starter"
      BY <1>1, <1>3, <2>3 DEF Writing, Goes, Path, WithRelease
    <3>2. To("create").pc = "create"
      BY <1>1 DEF To, ActiveRuns
    <3>3. /\ run.id # 0
          /\ run' = [run EXCEPT !.pc = "starter", !.boundary = target.releases[run.id]]
      BY <1>1, <2>3, <3>1, <3>2, ReadsOn
    <3>4. run.boundary = target.releases[run.id] /\ ~run.boundary.alien /\ Provided
      BY <1>1, <2>3, <3>3 DEF Calm, QuietChoice, Chosen
    <3>5. /\ run'.id = run.id /\ run'.boundary = run.boundary
          /\ run'.provenance = run.provenance
      BY <1>1, <3>3, <3>4 DEF ActiveRuns
    <3>6. Provided'
      BY <3>4, <3>5 DEF Provided, Uploaded
    <3>7. QED
      BY <1>e, <3>1, <3>4, <3>5, <3>6
  <2>4. CASE run.pc = "create"
    <3>1. Drafted(NewDraft)
      BY <1>1, <1>3, <2>4 DEF Writing, Waited, Pushed, Named, Posted, Issued, Moved, Cleared
    <3>2. target' = [target EXCEPT !.releases[run.n] = NewDraft]
      BY <1>0, <1>1, <3>1, DoneAtOnce
    <3>3. run.n \in Runs
      BY <1>1 DEF ActiveRuns
    <3>4. target'.releases[run.n] = NewDraft
      BY <1>0, <3>2, <3>3 DEF Targets
    <3>5. run'.id = run.n /\ run'.boundary = NewDraft /\ run'.pc = "starter"
      BY <1>1, <3>1 DEF Drafted, ActiveRuns
    <3>6. Uploaded(run.boundary)' = Uploaded(NewDraft)
      BY <3>5 DEF Uploaded
    <3>7. Provided'
      BY <3>6, NewDraftIs DEF Provided
    <3>8. QED
      BY <1>e, <3>4, <3>5, <3>7, NewDraftIs
  <2>5. QED
    BY <2>1, <2>2, <2>3, <2>4
<1>4. CASE run.pc \in WithRelease /\ ~UNCHANGED vars
  <2>1. /\ target.releases[run.id] = Expected /\ ~run.boundary.alien /\ Provided
        /\ run.id \in Runs /\ Boundary /\ Held /\ Prepared
    BY <1>1, <1>4 DEF Calm, QuietHeld, RunInv, Boundary, Kept
  <2>2. CASE /\ RunSteps /\ Goes(run') /\ run.pc \notin Writing /\ ~WriteSteps
             /\ UNCHANGED <<source, target, listed>>
    <3>1. CASE run.pc = "deleted"
      <4>1. Is(Without) /\ run' = [run EXCEPT !.pc = "existing", !.boundary = Without]
        BY <1>1, <2>2, <3>1, ReadsOn
      <4>2. Starters(run.boundary) # {} /\ Shaped(run.boundary)
        BY <1>1, <2>1, <3>1 DEF Boundary, Held, WithRelease
      <4>3. /\ run'.pc = "existing" /\ run'.boundary = Without /\ run'.id = run.id
            /\ run'.provenance = run.provenance
        BY <1>1, <4>1 DEF ActiveRuns
      <4>4. Uploaded(run.boundary)' = Uploaded(Without)
        BY <4>3 DEF Uploaded
      <4>5. Provided'
        BY <1>1, <2>1, <4>2, <4>3, <4>4, WithoutIs DEF Provided
      <4>6. QED
        BY <1>1, <1>e, <2>1, <2>2, <4>1, <4>2, <4>3, <4>5, WithoutIs DEF Is
    <3>2. CASE run.pc = "uploaded"
      <4>1. Is(With) /\ run' = [run EXCEPT !.pc = "upload", !.boundary = With]
        BY <1>1, <2>2, <3>2, ReadsOn
      <4>2. Missing # {}
        BY <1>1, <2>1, <3>2 DEF Boundary, WithRelease
      <4>3. /\ run'.pc = "upload" /\ run'.boundary = With /\ run'.id = run.id
            /\ run'.provenance = run.provenance
        BY <1>1, <4>1 DEF ActiveRuns
      <4>4. Uploaded(run.boundary)' = Uploaded(With)
        BY <4>3 DEF Uploaded
      <4>5. 2 \in Uploaded(With) => With.assets[2].of = run.provenance
        <5>1. CASE 2 \in Uploaded(run.boundary)
          BY <1>1, <2>1, <4>2, <5>1, WithIs DEF Provided
        <5>2. CASE Next3 = 2
          BY <1>1, <4>2, <5>2, WithIs DEF Asset
        <5>3. QED
          BY <1>1, <4>2, <5>1, <5>2, WithIs
      <4>6. Provided'
        BY <4>3, <4>4, <4>5 DEF Provided
      <4>7. QED
        BY <1>1, <1>e, <2>1, <2>2, <4>1, <4>2, <4>3, <4>6, WithIs DEF Is
    <3>3. CASE run.pc = "published"
      <4>1. Is(Out) /\ run' = [run EXCEPT !.pc = "verify", !.boundary = Out]
        BY <1>1, <2>2, <3>3, ReadsOn
      <4>2. /\ run'.pc = "verify" /\ run'.boundary = Out /\ run'.id = run.id
            /\ run'.provenance = run.provenance
        BY <1>1, <4>1 DEF ActiveRuns
      <4>3. Uploaded(run.boundary)' = Uploaded(Out)
        BY <4>2 DEF Uploaded
      <4>4. Provided'
        BY <1>1, <2>1, <4>2, <4>3, OutIs DEF Provided
      <4>5. QED
        BY <1>1, <1>e, <2>1, <2>2, <4>1, <4>2, <4>4, OutIs DEF Is
    <3>4. CASE run.pc \in {"starter", "existing", "upload", "publish", "alias", "aliased",
                           "verify"}
      <4>1. run' = To(run'.pc)
        <5>1. CASE run.pc # "verify"
          BY <1>1, <2>2, <3>4, <5>1, ReadsOn
        <5>2. CASE run.pc = "verify"
          <6>1. run' \in {To("finish"), To("alias"), To("aliased")}
            BY <1>1, <2>2, <5>2, ReadsOn
          <6>2. QED
            BY <1>1, <6>1 DEF To, ActiveRuns
        <5>3. QED
          BY <5>1, <5>2
      <4>2. run'.pc \notin {"deleted", "uploaded", "published"}
        BY <2>2, <3>4 DEF Goes, Path
      <4>3. QED
        BY <1>1, <1>e, <2>1, <2>2, <3>4, <4>1, <4>2, StillHolds
    <3>5. run.pc # "finish"
      BY <2>2 DEF Goes, Path
    <3>6. QED
      BY <1>4, <2>2, <3>1, <3>2, <3>3, <3>4, <3>5 DEF WithRelease, Writing
  <2>3. CASE /\ RunSteps /\ Goes(run') /\ run.pc \in Writing /\ UNCHANGED <<source, listed>>
             /\ (Waited /\ target' # target) \/ Drafted(NewDraft) \/ Cleared
    <3>0. run.pc \in {"delete", "post", "patch", "move"} /\ target.releases[run.id] = run.boundary
      BY <1>4, <1>e, <2>1, <2>3 DEF WithRelease, Writing
    <3>1. CASE run.pc = "delete"
      <4>1. Cleared
        BY <2>3, <3>1 DEF Waited, Pushed, Named, Posted, Issued, Moved, Drafted
      <4>2. target' = [target EXCEPT !.releases[run.id] =
                          [target.releases[run.id] EXCEPT !.assets[Starter] = NoAsset]]
        BY <1>0, <1>1, <3>0, <4>1, DoneAtOnce
      <4>3. target'.releases[run.id] = Without
        BY <1>0, <2>1, <3>0, <4>2 DEF Targets, Without
      <4>4. QED
        BY <1>1, <1>e, <2>1, <4>1, <4>3, StillHolds DEF Cleared
    <3>2. CASE run.pc = "post"
      <4>1. Posted /\ target' # target
        BY <2>3, <3>2 DEF Waited, Pushed, Named, Issued, Moved, Drafted, Cleared
      <4>2. target' = [target EXCEPT !.releases[run.id] =
                          [target.releases[run.id] EXCEPT !.assets[Next3] = Asset]]
        BY <1>0, <1>1, <4>1, DoneAtOnce
      <4>3. target'.releases[run.id] = With
        BY <1>0, <2>1, <3>0, <4>2 DEF Targets, With
      <4>4. QED
        BY <1>1, <1>e, <2>1, <4>1, <4>3, StillHolds DEF Posted
    <3>3. CASE run.pc = "patch"
      <4>1. Issued /\ target' # target
        BY <2>3, <3>3 DEF Waited, Pushed, Named, Posted, Moved, Drafted, Cleared
      <4>2. target' = [target EXCEPT !.releases[run.id] =
                          [target.releases[run.id] EXCEPT !.phase = "published"]]
        BY <1>0, <1>1, <4>1, DoneAtOnce
      <4>3. target'.releases[run.id] = Out
        BY <1>0, <2>1, <3>0, <4>2 DEF Targets, Out
      <4>4. QED
        BY <1>1, <1>e, <2>1, <4>1, <4>3, StillHolds DEF Issued
    <3>4. CASE run.pc = "move"
      <4>1. Moved
        BY <2>3, <3>4 DEF Waited, Pushed, Named, Posted, Issued, Drafted, Cleared
      <4>2. target' = target
            \/ target' = [target EXCEPT !.alias = [version |-> this, by |-> run.n]]
        BY <1>0, <1>1, <4>1, DoneAtOnce
      <4>3. target'.releases = target.releases
        BY <1>0, <4>2 DEF Targets
      <4>4. QED
        BY <1>1, <1>e, <2>1, <3>0, <4>1, <4>3, StillHolds DEF Moved
    <3>5. QED
      BY <3>0, <3>1, <3>2, <3>3, <3>4
  <2>4. QED
    BY <1>1, <1>4, <2>2, <2>3
<1>5. QED
  BY <1>2, <1>3, <1>4

LEMMA CalmNext ==
    ASSUME Inv, Kept, Calm, [Next]_vars
    PROVE  Calm'
BY QuietReadsNext, QuietRefsNext, QuietChoiceNext, QuietHeldNext DEF Calm

-----------------------------------------------------------------------------
(* Taking up where an earlier run left: without an excuse, a run goes on.  *)

NoExcuse ==
    /\ run.admission # "drifted"
    /\ target.tag[this] # 0 =>
          \E i \in Of(target.releases, this) : i \in listed \/ i = run.selector
    /\ run.selector # 0 => /\ run.selector \in Of(target.releases, this)
                           /\ target.releases[run.selector].phase = "draft"
    /\ \A i \in Runs : ~target.releases[i].alien
    /\ \A x \in Versions \ {this} : target.tag[x] # 0 \/ target.master = x => Complete(x)
    /\ ~Contains(target.master, this) => target.master = parent
    /\ target.master = parent /\ parent # Base =>
          target.tag[parent] # 0 /\ (Stable(parent) => target.alias.version = parent)
    /\ \A x \in Versions :
          x > this /\ target.tag[x] # 0 /\ Stable(x) => Contains(target.alias.version, x)

LEMMA NoExcuseIs == NoExcuse <=> ~Excused
<1> DEFINE mine == Of(target.releases, this)
           e1 == run.admission = "drifted"
           e2 == target.tag[this] # 0 /\ \A i \in mine : i \notin listed /\ i # run.selector
           e3 == /\ run.selector # 0
                 /\ run.selector \notin mine \/ target.releases[run.selector].phase # "draft"
           e4 == \E i \in Runs : target.releases[i].alien
           e5 == \E x \in Versions \ {this} :
                    (target.tag[x] # 0 \/ target.master = x) /\ ~Complete(x)
           e6 == ~Contains(target.master, this) /\ target.master # parent
           e7 == /\ target.master = parent /\ parent # Base
                 /\ target.tag[parent] # 0 => Stable(parent) /\ target.alias.version # parent
           e8 == \E x \in Versions : x > this /\ target.tag[x] # 0 /\ Stable(x)
                                     /\ ~Contains(target.alias.version, x)
<1>1. Excused <=> e1 \/ e2 \/ e3 \/ e4 \/ e5 \/ e6 \/ e7 \/ e8
  BY DEF Excused, this, parent
<1>2. NoExcuse <=> ~e1 /\ ~e2 /\ ~e3 /\ ~e4 /\ ~e5 /\ ~e6 /\ ~e7 /\ ~e8
  BY DEF NoExcuse
<1>3. QED
  BY <1>1, <1>2

LEMMA BaseFirst ==
    ASSUME intents \in Intents, NEW v \in 0..LastVersion
    PROVE  Contains(v, Base)
<1> DEFINE Bad == {w \in 0..LastVersion : Base \notin History[w]}
<1>1. ASSUME Bad # {} PROVE FALSE
  <2>1. PICK w \in Bad : \A u \in Bad : w <= u
    BY <1>1, LeastVersion
  <2>2. w # Base
    BY <2>1, HistoryStep
  <2>3. w \in Versions /\ w \in Nat
    BY <2>1, <2>2, Numbers, BoundsAssumption
  <2> DEFINE p == intents[w].parent
  <2>4. p \in 0..LastVersion /\ p < w /\ History[w] = {w} \cup History[p]
    BY <2>3, HistoryStep
  <2>5. p \in Bad
    BY <2>1, <2>4
  <2>6. p \in Nat
    BY <2>4, BoundsAssumption
  <2>7. w <= p
    BY <2>1, <2>5
  <2> HIDE DEF p, Bad
  <2>8. QED
    BY <2>3, <2>4, <2>6, <2>7
<1>2. QED
  BY <1>1 DEF Contains

\* Two commits of one history: one is in the history of the other.
LEMMA OneLine ==
    ASSUME intents \in Intents
    PROVE  \A m \in 0..LastVersion : \A u, v :
               Contains(m, u) /\ Contains(m, v) => Contains(u, v) \/ Contains(v, u)
<1> DEFINE Bad == {m \in 0..LastVersion :
                      \E u, v \in History[m] : u \notin History[v] /\ v \notin History[u]}
<1>1. ASSUME Bad # {} PROVE FALSE
  <2>1. PICK m \in Bad : \A x \in Bad : m <= x
    BY <1>1, LeastVersion
  <2>2. PICK u, v \in History[m] : u \notin History[v] /\ v \notin History[u]
    BY <2>1
  <2>3. u # m /\ v # m
    BY <2>2
  <2>4. m # Base
    BY <2>2, <2>3, HistoryStep
  <2>5. m \in Versions /\ m \in Nat
    BY <2>1, <2>4, Numbers, BoundsAssumption
  <2> DEFINE p == intents[m].parent
  <2>6. p \in 0..LastVersion /\ p < m /\ History[m] = {m} \cup History[p]
    BY <2>5, HistoryStep
  <2>7. u \in History[p] /\ v \in History[p]
    BY <2>2, <2>3, <2>6
  <2>8. p \in Bad
    BY <2>2, <2>6, <2>7
  <2>9. p \in Nat
    BY <2>6, BoundsAssumption
  <2>10. m <= p
    BY <2>1, <2>8
  <2> HIDE DEF p, Bad
  <2>11. QED
    BY <2>5, <2>6, <2>9, <2>10
<1>2. QED
  BY <1>1 DEF Contains

\* What the shape of a Release says of its assets.
LEMMA ShapedFacts ==
    ASSUME NEW r \in Releases, Shaped(r)
    PROVE  /\ Prefix(r) /\ Cardinality(Starters(r)) <= 1 /\ Signed(r)
           /\ \A k \in Starters(r) : Uploaded(r) = 1..(k - 1)
           /\ r.phase = "published" => Uploaded(r) = Names
           /\ 3 \in Uploaded(r) => 2 \in Uploaded(r)
<1>n. Names = {1, 2, 3} /\ 1..0 = {} /\ 1..1 = {1} /\ 1..2 = {1, 2} /\ 1..3 = {1, 2, 3}
  BY DEF Names
<1> DEFINE up(k) == r.assets[k].state = "uploaded"
<1>1. \A k \in Names : r.assets[k].state # "none" => \A j \in Names : j < k => up(j)
  BY DEF Shaped
<1>2. /\ r.assets[2].state # "none" => up(1)
      /\ r.assets[3].state # "none" => up(1) /\ up(2)
  BY <1>1, <1>n
<1>3. /\ up(1) <=> 1 \in Uploaded(r)
      /\ up(2) <=> 2 \in Uploaded(r)
      /\ up(3) <=> 3 \in Uploaded(r)
      /\ Uploaded(r) \subseteq {1, 2, 3}
  BY <1>n DEF Uploaded
<1>4. Prefix(r)
  <2>1. Uploaded(r) \in {1..0, 1..1, 1..2, 1..3}
    BY <1>2, <1>3, <1>n
  <2>2. 0 \in 0..3 /\ 1 \in 0..3 /\ 2 \in 0..3 /\ 3 \in 0..3
    OBVIOUS
  <2>3. QED
    BY <2>1, <2>2 DEF Prefix
<1>5. \A k \in Starters(r) : Starters(r) = {k} /\ Uploaded(r) = 1..(k - 1)
  <2>1. Starters(r) \subseteq {1, 2, 3} /\ \A k \in Starters(r) : r.assets[k].state = "starter"
    BY <1>n DEF Starters
  <2>2. 1 \in Starters(r) => Starters(r) = {1} /\ Uploaded(r) = 1..0
    BY <1>2, <1>3, <1>n, <2>1
  <2>3. 2 \in Starters(r) => Starters(r) = {2} /\ Uploaded(r) = 1..1
    BY <1>2, <1>3, <1>n, <2>1
  <2>4. 3 \in Starters(r) => Starters(r) = {3} /\ Uploaded(r) = 1..2
    BY <1>2, <1>3, <1>n, <2>1
  <2>5. 1 - 1 = 0 /\ 2 - 1 = 1 /\ 3 - 1 = 2
    OBVIOUS
  <2>6. QED
    BY <2>1, <2>2, <2>3, <2>4, <2>5
<1>6. Cardinality(Starters(r)) <= 1
  <2>1. CASE Starters(r) = {}
    BY <2>1, FS_EmptySet
  <2>2. ASSUME NEW k \in Starters(r) PROVE Cardinality(Starters(r)) <= 1
    <3>1. Starters(r) = {k}
      BY <1>5
    <3>2. Cardinality(Starters(r)) = 1
      BY <3>1, FS_Singleton
    <3>3. QED
      BY <3>2
  <2>3. QED
    BY <2>1, <2>2
<1>7. QED
  BY <1>2, <1>3, <1>4, <1>5, <1>6 DEF Shaped

\* The Release of a version is the one of the run that made its tag.
LEMMA OfIs ==
    ASSUME Inv, NEW v \in Versions
    PROVE  /\ \A i \in Of(target.releases, v) : i = target.tag[v] /\ i \in Runs
           /\ \A i \in Of(Inventory, v) : i \in Of(target.releases, v) /\ i \in listed
           /\ \A i \in Of(target.releases, v) : i \in listed => i \in Of(Inventory, v)
           /\ Complete(v) =>
                 /\ target.tag[v] # 0 /\ target.tag[v] \in Of(target.releases, v)
                 /\ target.releases[target.tag[v]].phase = "published"
<1> USE DEF Inv
<1>1. v # Base /\ NoRelease.version = Base
  BY Numbers DEF NoRelease
<1>2. \A i \in Of(target.releases, v) : i = target.tag[v] /\ i \in Runs
  BY <1>1 DEF Of, TargetInv, MadeByTagger
<1>3. \A i \in Runs : Inventory[i] = IF i \in listed THEN target.releases[i] ELSE NoRelease
  BY DEF Inventory
<1>4. /\ \A i \in Of(Inventory, v) : i \in Of(target.releases, v) /\ i \in listed
      /\ \A i \in Of(target.releases, v) : i \in listed => i \in Of(Inventory, v)
  BY <1>1, <1>3 DEF Of
<1>5. ASSUME Complete(v)
      PROVE  /\ target.tag[v] # 0 /\ target.tag[v] \in Of(target.releases, v)
             /\ target.releases[target.tag[v]].phase = "published"
  <2>1. PICK i \in Runs : target.releases[i].version = v /\ target.releases[i].phase = "published"
    BY <1>5 DEF Complete
  <2>2. i \in Of(target.releases, v) /\ i # 0
    BY <2>1, Ranges DEF Of
  <2>3. QED
    BY <1>2, <2>1, <2>2
<1>6. QED
  BY <1>2, <1>4, <1>5

LEMMA InventoryFine ==
    ASSUME Inv
    PROVE  InventoryOk(Refs, Inventory)
<1> SUFFICES ASSUME NEW w \in Versions, Of(Inventory, w) # {}
             PROVE  Cardinality(Of(Inventory, w)) = 1 /\ Refs.tag[w] # 0
  BY DEF InventoryOk
<1>1. PICK i \in Of(Inventory, w) : TRUE
  OBVIOUS
<1>2. i = target.tag[w] /\ i \in Runs /\ Of(Inventory, w) = {i}
  BY <1>1, OfIs
<1>3. QED
  BY <1>2, FS_Singleton, Ranges DEF Refs

LEMMA HistoryFine ==
    ASSUME Inv, Left, NoExcuse
    PROVE  HistoryOk(Refs)
<1> SUFFICES ASSUME NEW w \in Versions \ {this}, Refs.tag[w] # 0
             PROVE  Contains(Refs.master, w) /\ Complete(w)
  BY DEF HistoryOk
<1>1. Refs.tag[w] = target.tag[w] /\ Refs.master = target.master
  BY DEF Refs
<1>2. QED
  BY <1>1 DEF Left, TaggedOnMaster, NoExcuse

\* What the refs and the Releases are like for a run without an excuse.
LEMMA AliasFine ==
    ASSUME Inv, Left, NoExcuse, run \in ActiveRuns, run.refs = Refs
    PROVE  AliasAtHighest
<1> USE DEF Inv
<1> DEFINE a == target.alias.version
<1> SUFFICES ASSUME NEW w \in HighestStable(Refs)
             PROVE  a = w
  BY DEF AliasAtHighest, Refs
<1>1. /\ w \in Versions /\ w > this /\ target.tag[w] # 0 /\ Stable(w)
      /\ \A x \in Versions : x > this /\ target.tag[x] # 0 /\ Stable(x) => x <= w
  BY DEF HighestStable, Highest, Later, Refs
<1>2. Contains(a, w)
  BY <1>1 DEF NoExcuse
<1>3. a \in 0..LastVersion /\ intents \in Intents
  BY DEF TypeInv, Targets, Aliases
<1>4. w <= a
  BY <1>2, <1>3, NoLater
<1>5. SUFFICES ASSUME a # w PROVE FALSE
  OBVIOUS
<1>6. a # Base
  BY <1>1, <1>2, <1>3, <1>5, HistoryStep DEF Contains
<1>7. a \in Versions /\ Complete(a) /\ Stable(a)
  BY <1>3, <1>6, Numbers DEF TargetInv, NoneLeftBehind, Left, AliasStable
<1>8. target.tag[a] # 0
  BY <1>7, OfIs
<1> HIDE DEF a
<1>9. w \in Nat /\ a \in Nat /\ this \in Nat
  BY <1>1, <1>3, BoundsAssumption DEF Versions, ActiveRuns, this
<1>10. a > this
  BY <1>1, <1>4, <1>9
<1>11. a <= w
  BY <1>1, <1>7, <1>8, <1>10
<1>12. QED
  BY <1>4, <1>5, <1>9, <1>11

LEMMA StartFine ==
    ASSUME Inv, Left, NoExcuse, run \in ActiveRuns, run.refs = Refs
    PROVE  ~Overtaken /\ InPlace
<1> USE DEF Inv
<1> DEFINE m == target.master
<1>1. /\ run.refs.master = m /\ run.refs.tag = target.tag /\ run.refs.alias = target.alias
      /\ m \in 0..LastVersion /\ intents \in Intents /\ this \in Versions
  BY DEF Refs, TypeInv, Targets, ActiveRuns, this
<1>2. ~Overtaken
  <2>1. SUFFICES ASSUME Overtaken PROVE FALSE
    OBVIOUS
  <2>2. target.tag[this] = 0 /\ m # this /\ m # parent
    BY <1>1, <2>1 DEF Overtaken, Begun, tagSeen
  <2>3. this \in History[m]
    BY <2>2 DEF NoExcuse, Contains
  <2>4. this # Base
    BY <1>1, Numbers
  <2>5. Complete(this)
    BY <2>2, <2>3, <2>4 DEF TargetInv, NoneLeftBehind
  <2>6. QED
    BY <1>1, <2>2, <2>5, OfIs
<1>3. CASE tagSeen
  <2>1. Contains(m, this)
    BY <1>1, <1>3 DEF Left, TaggedOnMaster, tagSeen
  <2>2. ASSUME m # this PROVE m \in Later(run.refs)
    <3>1. m # Base
      BY <1>1, <2>1, <2>2, HistoryStep DEF Contains
    <3>2. m \in Versions
      BY <1>1, <3>1, Numbers
    <3>3. Complete(m)
      BY <2>2, <3>2 DEF NoExcuse
    <3>4. target.tag[m] # 0
      BY <3>2, <3>3, OfIs
    <3>5. this <= m
      BY <1>1, <2>1, NoLater
    <3>6. m \in Nat /\ this \in Nat
      BY <1>1, BoundsAssumption DEF Versions
    <3> HIDE DEF m
    <3>7. m > this
      BY <2>2, <3>5, <3>6
    <3>8. QED
      BY <1>1, <3>2, <3>4, <3>7 DEF Later
  <2>3. QED
    BY <1>1, <1>2, <1>3, <2>1, <2>2 DEF InPlace
<1>4. CASE ~tagSeen
  <2>1. Begun \/ m = parent
    BY <1>1, <1>2 DEF Overtaken
  <2>2. m = parent => FollowsOn
    BY <1>1 DEF FollowsOn, NoExcuse
  <2>3. QED
    BY <1>2, <1>4, <2>1, <2>2 DEF InPlace
<1>5. QED
  BY <1>3, <1>4

LEMMA NotAside ==
    ASSUME Inv, NoExcuse, run \in ActiveRuns, run.refs = Refs
    PROVE  Stable(this) => Contains(target.alias.version, this)
                           \/ Contains(this, target.alias.version)
<1> USE DEF Inv
<1> DEFINE m == target.master
           a == target.alias.version
<1>1. /\ run.refs.master = m /\ run.refs.tag = target.tag /\ run.refs.alias = target.alias
      /\ m \in 0..LastVersion /\ intents \in Intents /\ this \in Versions
      /\ a \in 0..LastVersion
  BY DEF Refs, TypeInv, Targets, Aliases, ActiveRuns, this
<1>2. CASE a = Base
  BY <1>1, <1>2, BaseFirst, Ranges
<1>3. CASE a # Base
  <2>1. Contains(m, a)
    BY <1>3 DEF TargetInv, NoneLeftBehind
  <2>2. CASE Contains(m, this)
    BY <1>1, <2>1, <2>2, OneLine
  <2>3. CASE ~Contains(m, this)
    <3>1. Contains(this, this) /\ this \in 0..LastVersion
      BY <1>1, ContainsFacts, Ranges
    <3>2. m = parent
      BY <2>3 DEF NoExcuse
    <3>3. Contains(this, parent)
      BY <1>1, ContainsFacts DEF parent
    <3>4. Contains(this, a)
      BY <1>1, <2>1, <3>1, <3>2, <3>3, ContainsFacts
    <3>5. QED
      BY <3>4
  <2>4. QED
    BY <2>2, <2>3
<1>4. QED
  BY <1>2, <1>3

LEMMA SelectFine ==
    ASSUME Inv, Left, NoExcuse, Quiet, run \in ActiveRuns, run.pc = "select", run.refs = Refs,
           run.inventory = Inventory
    PROVE  /\ SelectorOk /\ SelectedOk /\ AliasMode # "aside"
           /\ AliasMode = "passed" => Complete(run.refs.alias.version)
           /\ AliasMode \in {"passed", "current"} => Selected.phase = "published"
<1> USE DEF Inv
<1> DEFINE m == target.master
           a == target.alias.version
<1>1. /\ run.refs.master = m /\ run.refs.tag = target.tag /\ run.refs.alias = target.alias
      /\ m \in 0..LastVersion /\ a \in 0..LastVersion /\ intents \in Intents
      /\ this \in Versions /\ this # Base /\ this \in 0..LastVersion
  BY Numbers, Ranges DEF Refs, TypeInv, Targets, Aliases, ActiveRuns, this
<1>2. /\ SelectedId \in 0..MaxRuns /\ Selected \in Releases
      /\ SelectedId = 0 =>
            /\ run.selector = 0 /\ Of(Inventory, this) = {} /\ Selected = NoRelease
      /\ SelectedId # 0 =>
            /\ SelectedId \in Runs /\ Selected = target.releases[SelectedId]
            /\ run.selector # 0 \/ Selected.version = this
            /\ run.selector # 0 => SelectedId = run.selector
  BY <1>1, SelectedIs
<1>3. SelectedId # 0 => Selected.version = this /\ SelectedId = target.tag[this]
  <2>1. SelectedId # 0 => Selected.version = this
    BY <1>2 DEF NoExcuse, Of
  <2>2. SelectedId # 0 => SelectedId \in Of(target.releases, this)
    BY <1>2, <2>1 DEF Of
  <2>3. QED
    BY <1>1, <2>1, <2>2, OfIs
<1>4. SelectorOk
  <2>1. SUFFICES ASSUME run.selector # 0
                 PROVE  /\ Selected.version = this /\ Selected.phase = "draft"
                        /\ Of(run.inventory, this) \subseteq {run.selector}
    BY DEF SelectorOk
  <2>2. SelectedId = run.selector /\ Selected = target.releases[run.selector]
    BY <1>2, <2>1
  <2>3. run.selector = target.tag[this]
    BY <1>3, <2>1, <2>2
  <2>4. \A i \in Of(Inventory, this) : i = target.tag[this]
    BY <1>1, OfIs
  <2>5. QED
    BY <1>3, <2>1, <2>2, <2>3, <2>4 DEF NoExcuse
<1>5. SelectedOk
  <2>1. SUFFICES ASSUME Selected.version # Base
                 PROVE  /\ tagSeen /\ ~Selected.alien
                        /\ Prefix(Selected) /\ Cardinality(Starters(Selected)) <= 1
                        /\ Signed(Selected)
                        /\ Selected.phase = "published" => Uploaded(Selected) = Names
    BY DEF SelectedOk
  <2>2. SelectedId # 0
    BY <1>2, <2>1 DEF NoRelease
  <2>3. tagSeen
    BY <1>1, <1>3, <2>2 DEF tagSeen
  <2>4. ~Selected.alien
    BY <1>2, <2>2 DEF NoExcuse
  <2>5. Shaped(Selected)
    BY <1>2, <2>2 DEF Left, AllShaped
  <2>6. QED
    BY <1>2, <2>3, <2>4, <2>5, ShapedFacts
<1>6. AliasMode # "aside"
  BY <1>1, NotAside DEF AliasMode
<1>7. AliasMode = "passed" => a # this /\ Contains(a, this)
  BY <1>1 DEF AliasMode
<1>8. AliasMode = "current" => a = this
  BY <1>1 DEF AliasMode
<1>9. Contains(a, this) => a # Base /\ Complete(a) /\ Contains(m, a)
  <2>1. Contains(a, this) => a # Base
    BY <1>1, HistoryStep DEF Contains
  <2>2. QED
    BY <2>1 DEF TargetInv, NoneLeftBehind
<1>10. ASSUME AliasMode \in {"passed", "current"} PROVE Complete(this)
  <2>1. CASE a = this
    BY <1>1, <2>1, <1>9, ContainsFacts
  <2>2. CASE a # this /\ Contains(a, this)
    <3>1. Contains(m, this)
      BY <1>1, <1>9, <2>2, ContainsFacts
    <3>2. m # this
      <4>1. ASSUME m = this PROVE FALSE
        <5>1. a <= this /\ this <= a
          BY <1>1, <1>9, <2>2, <4>1, NoLater
        <5>2. a \in Nat /\ this \in Nat
          BY <1>1, BoundsAssumption
        <5> HIDE DEF a
        <5>3. QED
          BY <2>2, <5>1, <5>2
      <4>2. QED
        BY <4>1
    <3>3. QED
      BY <1>1, <3>1, <3>2 DEF Contains, TargetInv, NoneLeftBehind
  <2>3. QED
    BY <1>7, <1>8, <1>10, <2>1, <2>2
<1>11. ASSUME Complete(this) PROVE Selected.phase = "published"
  <2>1. /\ target.tag[this] # 0
        /\ target.releases[target.tag[this]].phase = "published"
    BY <1>1, <1>11, OfIs
  <2>2. PICK i \in Of(target.releases, this) : i \in listed \/ i = run.selector
    BY <2>1 DEF NoExcuse
  <2>3. i = target.tag[this] /\ i \in Runs /\ i # 0
    BY <1>1, <2>1, <2>2, OfIs
  <2>4. run.selector = 0
    <3>1. ASSUME run.selector # 0 PROVE FALSE
      <4>1. run.selector \in Of(target.releases, this)
            /\ target.releases[run.selector].phase = "draft"
        BY <3>1 DEF NoExcuse
      <4>2. run.selector = target.tag[this]
        BY <1>1, <4>1, OfIs
      <4>3. QED
        BY <2>1, <4>1, <4>2
    <3>2. QED
      BY <3>1
  <2>5. i \in Of(Inventory, this)
    BY <1>1, <2>2, <2>3, <2>4, OfIs
  <2>6. SelectedId # 0
    BY <1>2, <2>5
  <2>7. QED
    BY <1>2, <1>3, <2>1, <2>6
<1>12. QED
  BY <1>1, <1>4, <1>5, <1>6, <1>7, <1>9, <1>10, <1>11

\* What may be written still may.
LEMMA MayOn ==
    ASSUME Kept, Calm, NoExcuse, Quiet, run \in ActiveRuns,
           run.pc \in AfterStart \ {"select", "again"}
    PROVE  /\ Fence
           /\ run.admission = "eligible" \/ run.stale
           /\ May("tag") /\ May("release") /\ May("alias")
<1>1. run.admission \in {"eligible", "superseded"}
  BY DEF NoExcuse, ActiveRuns
<1>2. Fence
  BY DEF Calm, QuietReads, Fence
<1>3. run.admission = "superseded" => run.stale
  BY DEF Kept, Entitled, Quiet
<1>4. QED
  BY <1>1, <1>2, <1>3 DEF May

LEMMA MasterFine ==
    ASSUME Inv, Kept, Calm, NoExcuse, Quiet, run \in ActiveRuns,
           run.pc \in {"master", "push master"}, ~Contains(run.refs.master, this)
    PROVE  May("master") /\ target.master = parent /\ parent # this
<1> USE DEF Inv
<1>1. run.pc \in AfterStart \ {"select", "again"} /\ run.pc \in BeforePush /\ this \in Versions
  BY DEF AfterStart, Steps, UpToCreate, UpToAudit, UpToMaster, BeforePush, ActiveRuns, this
<1>2. InPlace /\ run.refs = Refs
  BY <1>1 DEF RunInv, Started, Quiet, Calm, QuietReads
<1>3. Contains(this, this)
  BY <1>1, ContainsFacts, Ranges DEF TypeInv
<1>4. ~Begun
  BY <1>2, <1>3 DEF InPlace, Begun
<1>5. ~run.stale
  BY <1>1, <1>4 DEF Kept, Entitled, Quiet
<1>6. run.admission = "eligible" /\ Fence
  BY <1>1, <1>5, MayOn
<1>7. FollowsOn
  BY <1>2, <1>4 DEF InPlace, Begun
<1>8. target.master = parent
  <2>1. run.refs = Refs
    BY <1>2
  <2>a. Refs.master = target.master
    BY DEF Refs
  <2>2. run.refs.master = target.master
    BY <2>1, <2>a
  <2>3. QED
    BY <1>7, <2>2 DEF FollowsOn
<1>9. parent # this
  BY <1>1, ParentDiffers DEF TypeInv, parent
<1>10. QED
  BY <1>6, <1>8, <1>9 DEF May

\* A run that nothing disturbed is refused.
Refuses == run'.pc = "over" /\ run'.outcome = "refused" /\ run'.calm

LEMMA ReadGoesOn ==
    ASSUME NEW pc, NEW ok, NEW next, Read(pc, ok, next), ok,
           next.pc # "over" \/ next.outcome # "refused"
    PROVE  ~Refuses
BY DEF Read, Refuses

LEMMA WriteGoesOn ==
    ASSUME NEW pc, NEW w, NEW answered, Write(pc, w, answered, Refused), Applied(w) # target,
           answered.pc # "over"
    PROVE  ~Refuses
<1>1. [Refused EXCEPT !.calm = FALSE].calm = FALSE
  BY DEF Refused, Over
<1>2. run' = answered \/ run' = [Refused EXCEPT !.calm = FALSE]
  BY DEF Write
<1>3. QED
  BY <1>1, <1>2 DEF Refuses

\* The writes of a run that nothing disturbed are not done yet.
LEMMA WritesFine ==
    ASSUME Inv, Kept, Calm, NoExcuse, Quiet, run \in ActiveRuns
    PROVE  /\ At("push master") => Applied(Request("master", run.n, 0, 0)) # target
           /\ At("push tag") => Applied(Request("tag", run.n, 0, 0)) # target
           /\ At("post") => Applied(Request("upload", run.id, Next3, Asset)) # target
           /\ At("patch") => Applied(Request("publish", run.id, 0, 0)) # target
           /\ At("move") => Applied(Request("alias", run.n, 0, run.refs.alias)) # target
<1> USE DEF Inv
<1>0. target \in Targets /\ this \in Versions /\ run.n \in Runs /\ Active
  BY ActiveIs DEF TypeInv, ActiveRuns, this
<1>1. ASSUME At("push master") PROVE Applied(Request("master", run.n, 0, 0)) # target
  <2> DEFINE w == Request("master", run.n, 0, 0)
  <2>1. w.op = "master" /\ w.version = this
    BY DEF Request
  <2>2. target.master = parent /\ parent # this
    BY <1>1, MasterFine DEF At, RunInv, Pushing1
  <2> HIDE DEF w
  <2>3. Applied(w) = [target EXCEPT !.master = this]
    BY <2>1, <2>2 DEF Applied, parent
  <2>4. Applied(w).master = this
    BY <1>0, <2>3 DEF Targets
  <2>5. Applied(w) # target
    BY <2>2, <2>4
  <2>6. QED
    BY <2>5 DEF w
<1>2. ASSUME At("push tag") PROVE Applied(Request("tag", run.n, 0, 0)) # target
  <2> DEFINE w == Request("tag", run.n, 0, 0)
  <2>1. w.op = "tag" /\ w.version = this /\ w.id = run.n
    BY DEF Request
  <2>2. target.tag[this] = 0
    <3>1. ~tagSeen
      BY <1>0, <1>2 DEF At, Kept, Entitled, AfterStart, Steps, UpToCreate, UpToAudit, UpToMaster,
         WithTag
    <3>2. target.tag = run.refs.tag
      BY <1>2 DEF At, Calm, QuietRefs
    <3>3. QED
      BY <3>1, <3>2 DEF tagSeen
  <2> HIDE DEF w
  <2>3. Applied(w) = [target EXCEPT !.tag[this] = run.n]
    BY <2>1, <2>2 DEF Applied
  <2>4. Applied(w).tag[this] = run.n /\ run.n # 0
    BY <1>0, <2>3, Ranges DEF Targets
  <2>5. Applied(w) # target
    BY <2>2, <2>4
  <2>6. QED
    BY <2>5 DEF w
<1>3. ASSUME run.pc \in {"post", "patch"}
      PROVE  /\ run.id \in Runs /\ target.releases[run.id] = run.boundary
             /\ run.boundary \in Releases /\ run.boundary.phase # "none"
             /\ Shaped(run.boundary) /\ Starters(run.boundary) = {}
             /\ run.pc = "post" => Missing # {}
             /\ run.pc = "patch" => run.boundary.phase = "draft"
  BY <1>0, <1>3 DEF Calm, QuietHeld, Quiet, Expected, WithRelease, RunInv, Boundary, Kept, Held,
     Prepared, Clearing, ActiveRuns
<1>4. ASSUME At("post") PROVE Applied(Request("upload", run.id, Next3, Asset)) # target
  <2> DEFINE w == Request("upload", run.id, Next3, Asset)
             r == run.boundary
  <2>1. /\ w.op = "upload" /\ w.id = run.id /\ w.asset = Next3 /\ w.content = Asset
        /\ w.version = this
    BY DEF Request
  <2>2. /\ run.id \in Runs /\ target.releases[run.id] = r /\ r \in Releases
        /\ r.phase # "none" /\ Shaped(r) /\ Starters(r) = {} /\ Missing # {}
    BY <1>3, <1>4 DEF At
  <2>3. Next3 \in Names /\ Next3 \notin Uploaded(r)
    BY <2>2, NextIsFirst
  <2>4. r.assets[Next3].state \in {"none", "starter", "uploaded"}
    BY <2>2, <2>3 DEF Releases, Assets
  <2>5. r.assets[Next3] = NoAsset
    BY <2>2, <2>3, <2>4 DEF Uploaded, Starters, Shaped
  <2>6. r.phase = "draft"
    <3>1. r.phase # "published"
      BY <2>2 DEF Shaped, Missing
    <3>2. QED
      BY <2>2, <3>1 DEF Releases
  <2> HIDE DEF w, r
  <2>7. Applied(w) = [target EXCEPT !.releases[run.id] = [r EXCEPT !.assets[Next3] = Asset]]
    BY <2>1, <2>2, <2>5, <2>6 DEF Applied
  <2>8. Applied(w).releases[run.id] = [r EXCEPT !.assets[Next3] = Asset]
    BY <1>0, <2>2, <2>7 DEF Targets
  <2>9. [r EXCEPT !.assets[Next3] = Asset].assets[Next3] = Asset
    BY <2>2, <2>3 DEF Releases
  <2>10. Asset # NoAsset
    BY DEF Asset, NoAsset
  <2>11. Applied(w) # target
    BY <2>2, <2>5, <2>8, <2>9, <2>10
  <2>12. QED
    BY <2>11 DEF w
<1>5. ASSUME At("patch") PROVE Applied(Request("publish", run.id, 0, 0)) # target
  <2> DEFINE w == Request("publish", run.id, 0, 0)
             r == run.boundary
  <2>1. w.op = "publish" /\ w.id = run.id /\ w.version = this
    BY DEF Request
  <2>2. /\ run.id \in Runs /\ target.releases[run.id] = r /\ r \in Releases
        /\ r.phase = "draft"
    BY <1>3, <1>5 DEF At
  <2> HIDE DEF w, r
  <2>3. Applied(w) = [target EXCEPT !.releases[run.id] = [r EXCEPT !.phase = "published"]]
    BY <2>1, <2>2 DEF Applied
  <2>4. Applied(w).releases[run.id] = [r EXCEPT !.phase = "published"]
    BY <1>0, <2>2, <2>3 DEF Targets
  <2>5. [r EXCEPT !.phase = "published"].phase = "published"
    BY <2>2 DEF Releases
  <2>6. Applied(w) # target
    BY <2>2, <2>4, <2>5
  <2>7. QED
    BY <2>6 DEF w
<1>6. ASSUME At("move") PROVE Applied(Request("alias", run.n, 0, run.refs.alias)) # target
  <2> DEFINE w == Request("alias", run.n, 0, run.refs.alias)
  <2>1. /\ w.op = "alias" /\ w.version = this /\ w.id = run.n /\ w.content = run.refs.alias
    BY DEF Request
  <2>2. target.alias = run.refs.alias
    BY <1>6 DEF At, Calm, QuietRefs
  <2>3. run.refs.alias.version # this
    BY <1>6 DEF At, RunInv, Verified, AliasMode
  <2> HIDE DEF w
  <2>4. Applied(w) = [target EXCEPT !.alias = [version |-> this, by |-> run.n]]
    BY <2>1, <2>2 DEF Applied
  <2>5. Applied(w).alias = [version |-> this, by |-> run.n]
    BY <1>0, <2>4 DEF Targets
  <2>6. Applied(w).alias.version = this
    BY <2>5
  <2>7. Applied(w) # target
    BY <2>2, <2>3, <2>6
  <2>8. QED
    BY <2>7 DEF w
<1>7. QED
  BY <1>1, <1>2, <1>4, <1>5, <1>6

LEMMA ReadingGoesOn ==
    ASSUME Inv, Left, Kept, Calm, NoExcuse, Quiet, run \in ActiveRuns,
           Clone \/ List \/ Audit \/ Start \/ Overtake \/ Select \/ Again
    PROVE  ~Refuses
<1> USE DEF Inv
<1>t. \A pc : To(pc).pc = pc
  BY DEF To, ActiveRuns
<1>r. /\ run.pc \in BeforePush => run.refs = Refs
      /\ run.pc \in UpToCreate \ {"clone", "list"} => run.inventory = Inventory
      /\ run.pc \in Looking => run.print = Refs
      /\ Fence
  BY DEF Calm, QuietReads, Fence
<1>1. CASE Clone
  <2>1. [run EXCEPT !.pc = "list", !.refs = Refs].pc = "list"
    BY DEF ActiveRuns
  <2>2. QED
    BY <1>1, <2>1, ReadGoesOn DEF Clone
<1>2. CASE List
  <2>1. At("list")
    BY <1>2 DEF List, Read
  <2>2. run.refs = Refs
    BY <1>r, <2>1 DEF At, BeforePush, UpToAudit
  <2>3. InventoryOk(run.refs, Inventory)
    BY <2>2, InventoryFine
  <2>4. [run EXCEPT !.pc = "audit", !.inventory = Inventory, !.print = Refs].pc = "audit"
    BY DEF ActiveRuns
  <2>5. QED
    BY <1>2, <2>3, <2>4, ReadGoesOn DEF List
<1>3. CASE Audit
  <2>1. At("audit")
    BY <1>3 DEF Audit, Read
  <2>2. run.refs = Refs
    BY <1>r, <2>1 DEF At, BeforePush, UpToAudit
  <2>3. HistoryOk(run.refs) /\ AliasAtHighest
    BY <2>2, HistoryFine, AliasFine
  <2>4. QED
    BY <1>3, <1>t, <2>3, ReadGoesOn DEF Audit
<1>4. CASE Start \/ Overtake
  <2>1. At("start")
    BY <1>4 DEF Start, Overtake
  <2>2. run.refs = Refs
    BY <1>r, <2>1 DEF At, BeforePush
  <2>3. ~Overtaken /\ InPlace
    BY <2>2, StartFine
  <2>4. Start
    BY <1>4, <2>3 DEF Overtake
  <2>5. [run EXCEPT !.pc = "select",
                    !.stale = Begun /\ run.admission = "superseded"].pc = "select"
    BY DEF ActiveRuns
  <2>6. QED
    BY <2>3, <2>4, <2>5, ReadGoesOn DEF Start
<1>5. CASE Select
  <2> DEFINE complete == Selected.phase = "published"
             nothing == ~complete /\ run.admission # "eligible" /\ ~run.stale
             next == [run EXCEPT !.pc = "again", !.id = SelectedId, !.boundary = Selected,
                                 !.provenance = Provenance(Selected),
                                 !.superseded = AliasMode = "passed" \/ nothing]
             ok == /\ SelectorOk /\ SelectedOk
                   /\ CASE AliasMode = "passed" -> complete /\ Complete(run.refs.alias.version)
                        [] AliasMode = "current" -> complete
                        [] OTHER -> AliasMode # "aside"
  <2>1. run.pc = "select"
    BY <1>5 DEF Select, Read, At
  <2>2. run.refs = Refs /\ run.inventory = Inventory
    BY <1>r, <2>1 DEF BeforePush, UpToMaster, UpToCreate
  <2>3. /\ SelectorOk /\ SelectedOk /\ AliasMode # "aside"
        /\ AliasMode = "passed" => Complete(run.refs.alias.version)
        /\ AliasMode \in {"passed", "current"} => Selected.phase = "published"
    BY <2>1, <2>2, SelectFine
  <2>4. ok
    BY <2>3
  <2>5. next.pc = "again"
    BY DEF ActiveRuns
  <2>6. Read("select", ok, next)
    BY <1>5 DEF Select
  <2> HIDE DEF ok, next
  <2>7. QED
    BY <2>4, <2>5, <2>6, ReadGoesOn
<1>6. CASE Again
  <2> DEFINE next == IF run.superseded THEN Over("superseded") ELSE To("master")
             ok == /\ Fence /\ Refs = run.print
                   /\ InventoryUnchanged /\ InventoryOk(Refs, Inventory) /\ HistoryOk(Refs)
                   /\ Highest(Later(Refs)) = Highest(Later(run.refs))
                   /\ HighestStable(Refs) = HighestStable(run.refs)
                   /\ Refs.master = run.refs.master /\ Refs.tag[this] = run.refs.tag[this]
                   /\ Stable(this) => Refs.alias = run.refs.alias
  <2>1. run.pc = "again"
    BY <1>6 DEF Again, Read, At
  <2>2. run.refs = Refs /\ run.inventory = Inventory /\ run.print = Refs
    BY <1>r, <2>1 DEF BeforePush, UpToMaster, UpToCreate, Looking
  <2>3. ok
    BY <1>r, <2>2, InventoryFine, HistoryFine DEF InventoryUnchanged
  <2>4. next.pc # "over" \/ next.outcome # "refused"
    BY <1>t DEF Over
  <2>5. Read("again", ok, next)
    BY <1>6 DEF Again
  <2> HIDE DEF ok, next
  <2>6. QED
    BY <2>3, <2>4, <2>5, ReadGoesOn
<1>7. QED
  BY <1>1, <1>2, <1>3, <1>4, <1>5, <1>6

LEMMA PushingGoesOn ==
    ASSUME Inv, Left, Kept, Calm, NoExcuse, Quiet, run \in ActiveRuns,
           CheckMaster \/ PushMaster \/ CheckTag \/ PushTag \/ Tagged
    PROVE  ~Refuses
<1> USE DEF Inv
<1>t. \A pc : To(pc).pc = pc
  BY DEF To, ActiveRuns
<1>1. CASE CheckMaster
  <2> DEFINE needed == ~Contains(run.refs.master, this)
  <2>1. run.pc = "master"
    BY <1>1 DEF CheckMaster, Read, At
  <2>2. needed => May("master")
    BY <2>1, MasterFine
  <2>3. Read("master", needed => May("master"), To(IF needed THEN "push master" ELSE "tag"))
    BY <1>1 DEF CheckMaster
  <2>4. To(IF needed THEN "push master" ELSE "tag").pc # "over"
    <3>1. To(IF needed THEN "push master" ELSE "tag") \in {To("push master"), To("tag")}
      OBVIOUS
    <3>2. To("push master").pc = "push master" /\ To("tag").pc = "tag"
      BY <1>t
    <3>3. QED
      BY <3>1, <3>2
  <2> HIDE DEF needed
  <2>5. QED
    BY <2>2, <2>3, <2>4, ReadGoesOn
<1>2. CASE PushMaster
  <2>1. Write("push master", Request("master", run.n, 0, 0), To("tag"), Refused)
    BY <1>2 DEF PushMaster
  <2>2. Applied(Request("master", run.n, 0, 0)) # target
    BY <2>1, WritesFine DEF Write
  <2>3. QED
    BY <1>t, <2>1, <2>2, WriteGoesOn
<1>3. CASE CheckTag
  <2>1. run.pc = "tag"
    BY <1>3 DEF CheckTag, Read, At
  <2>2. tagSeen \/ target.master = this
    BY <2>1 DEF Calm, QuietRefs
  <2>3. May("tag")
    BY <2>1, MayOn DEF AfterStart, Steps, UpToCreate, UpToAudit
  <2>4. To(IF tagSeen THEN "release" ELSE "push tag").pc # "over"
    <3>1. To(IF tagSeen THEN "release" ELSE "push tag") \in {To("release"), To("push tag")}
      OBVIOUS
    <3>2. To("release").pc = "release" /\ To("push tag").pc = "push tag"
      BY <1>t
    <3>3. QED
      BY <3>1, <3>2
  <2>5. QED
    BY <1>3, <2>2, <2>3, <2>4, ReadGoesOn DEF CheckTag
<1>4. CASE PushTag
  <2>1. Write("push tag", Request("tag", run.n, 0, 0), To("tagged"), Refused)
    BY <1>4 DEF PushTag
  <2>2. Applied(Request("tag", run.n, 0, 0)) # target
    BY <2>1, WritesFine DEF Write
  <2>3. QED
    BY <1>t, <2>1, <2>2, WriteGoesOn
<1>5. CASE Tagged
  <2>1. run.pc = "tagged"
    BY <1>5 DEF Tagged, Read, At
  <2>2. target.tag[this] = run.n
    BY <2>1 DEF Calm, QuietRefs
  <2>3. [run EXCEPT !.pc = "release", !.fresh = TRUE].pc = "release"
    BY DEF ActiveRuns
  <2>4. QED
    BY <1>5, <2>2, <2>3, ReadGoesOn DEF Tagged
<1>6. QED
  BY <1>1, <1>2, <1>3, <1>4, <1>5

LEMMA ReleasingGoesOn ==
    ASSUME Inv, Kept, Calm, NoExcuse, Quiet, run \in ActiveRuns, Releasing
    PROVE  ~Refuses
<1> USE DEF Inv
<1>t. \A pc : To(pc).pc = pc
  BY DEF To, ActiveRuns
<1>h. ASSUME run.pc \in WithRelease
      PROVE  /\ target.releases[run.id] = Expected /\ Provided /\ ~run.boundary.alien
             /\ run.boundary \in Releases /\ Shaped(run.boundary)
             /\ run.boundary.phase # "none" /\ May("release")
  <2>1. run.pc \in AfterStart \ {"select", "again"}
    BY <1>h DEF AfterStart, Steps, WithRelease, UpToAudit
  <2>2. May("release")
    BY <2>1, MayOn
  <2>3. QED
    BY <1>h, <2>2 DEF Calm, QuietHeld, Kept, Held, Quiet, RunInv, Boundary, ActiveRuns
<1>e. /\ run.pc \in WithRelease \ {"deleted", "uploaded", "published"} => Is(run.boundary)
      /\ run.pc = "deleted" => Is(Without)
      /\ run.pc = "uploaded" => Is(With)
      /\ run.pc = "published" => Is(Out)
  BY <1>h DEF Is, Expected, WithRelease
<1>1. CASE Adopt
  <2> DEFINE r == target.releases[run.id]
  <2>1. run.pc = "release" /\ run.id # 0
    BY <1>1 DEF Adopt, At
  <2>2. run.boundary = r /\ r.version = this /\ ~r.alien
    BY <2>1 DEF Calm, QuietChoice, Chosen
  <2>3. [run EXCEPT !.pc = "starter", !.boundary = r].pc = "starter"
    BY DEF ActiveRuns
  <2>4. QED
    BY <1>1, <2>2, <2>3, ReadGoesOn DEF Adopt
<1>2. CASE Absent
  <2>1. run.pc = "release" /\ run.id = 0 /\ this \in Versions
    BY <1>2 DEF Absent, At, ActiveRuns, this
  <2>2. run.selector = 0 /\ Of(run.inventory, this) = {}
    BY <2>1 DEF Calm, QuietChoice, Chosen
  <2>3. run.inventory = Inventory
    BY <2>1 DEF Calm, QuietReads, UpToCreate, WithTag
  <2>4. Of(Inventory, this) = {}
    BY <2>2, <2>3
  <2>5. target.tag[this] # 0
    BY <2>1 DEF Calm, QuietRefs
  <2>6. PICK i \in Of(target.releases, this) : i \in listed \/ i = run.selector
    BY <2>5 DEF NoExcuse
  <2>7. i \in Runs /\ i # 0
    BY <2>1, <2>6, OfIs, Ranges
  <2>8. i \in Of(Inventory, this)
    BY <2>1, <2>2, <2>6, <2>7, OfIs
  <2>9. QED
    BY <2>4, <2>8
<1>3. CASE Create
  <2>1. [run EXCEPT !.pc = "starter", !.id = run.n,
                    !.boundary = [NoRelease EXCEPT !.version = this, !.phase = "draft"]].pc
          = "starter"
    BY DEF ActiveRuns
  <2>2. [To("created") EXCEPT !.calm = FALSE].pc = "created"
    BY DEF To, ActiveRuns
  <2>3. run' \in {[run EXCEPT !.pc = "starter", !.id = run.n,
                             !.boundary = [NoRelease EXCEPT !.version = this, !.phase = "draft"]],
                  To("created"), [To("created") EXCEPT !.calm = FALSE]}
    BY <1>3 DEF Create, Write
  <2>4. QED
    BY <1>t, <2>1, <2>2, <2>3 DEF Refuses
<1>4. CASE Created
  BY <1>4 DEF Created, Read, At, Calm, QuietRefs
<1>5. CASE CheckStarter
  <2>1. run.pc = "starter"
    BY <1>5 DEF CheckStarter, Read, At
  <2>2. Is(run.boundary) /\ May("release") /\ run.boundary \in Releases /\ Shaped(run.boundary)
    BY <1>e, <1>h, <2>1 DEF WithRelease
  <2>3. /\ Cardinality(Starters(run.boundary)) <= 1
        /\ \A k \in Starters(run.boundary) :
              Uploaded(run.boundary) = 1..(k - 1) /\ May("release") /\ Is(run.boundary)
    BY <2>2, ShapedFacts
  <2>4. To(IF Starters(run.boundary) # {} THEN "delete" ELSE "existing").pc # "over"
    <3>1. To(IF Starters(run.boundary) # {} THEN "delete" ELSE "existing")
            \in {To("delete"), To("existing")}
      OBVIOUS
    <3>2. QED
      BY <1>t, <3>1
  <2>5. QED
    BY <1>5, <2>3, <2>4, ReadGoesOn DEF CheckStarter
<1>6. CASE DeleteStarter
  <2>1. [To("deleted") EXCEPT !.calm = FALSE].pc = "deleted"
    BY DEF To, ActiveRuns
  <2>2. run' \in {To("deleted"), [To("deleted") EXCEPT !.calm = FALSE]}
    BY <1>6 DEF DeleteStarter, Write
  <2>3. QED
    BY <1>t, <2>1, <2>2 DEF Refuses
<1>7. CASE Deleted
  <2>1. Is(Without)
    BY <1>7, <1>e DEF Deleted, Read, At
  <2>2. [run EXCEPT !.pc = "existing", !.boundary = Without].pc = "existing"
    BY DEF ActiveRuns
  <2>3. QED
    BY <1>7, <2>1, <2>2, ReadGoesOn DEF Deleted
<1>8. CASE Existing
  <2> DEFINE r == run.boundary
  <2>1. run.pc = "existing"
    BY <1>8 DEF Existing, Read, At
  <2>2. Is(r) /\ Provided /\ r \in Releases /\ Shaped(r) /\ r.phase # "none"
    BY <1>e, <1>h, <2>1 DEF WithRelease
  <2>3. \A k \in Uploaded(r) \ {1} : r.assets[k].of = run.provenance
    <3>1. 2 \in Uploaded(r) => r.assets[2].of = run.provenance
      BY <2>2 DEF Provided
    <3>2. 3 \in Uploaded(r) => 2 \in Uploaded(r) /\ r.assets[3].of = r.assets[2].of
      BY <2>2, ShapedFacts DEF Signed
    <3>3. Uploaded(r) \subseteq {1, 2, 3}
      BY DEF Uploaded, Names
    <3>4. QED
      BY <3>1, <3>2, <3>3
  <2>4. r.phase = "draft" \/ Uploaded(r) = Names
    BY <2>2 DEF Releases, Shaped
  <2> HIDE DEF r
  <2>5. QED
    BY <1>8, <1>t, <2>2, <2>3, <2>4, ReadGoesOn DEF Existing, r
<1>9. CASE CheckUpload
  <2>1. run.pc = "upload"
    BY <1>9 DEF CheckUpload, Read, At
  <2>2. Is(run.boundary) /\ May("release")
    BY <1>e, <1>h, <2>1 DEF WithRelease
  <2>3. To(IF Missing # {} THEN "post" ELSE "publish").pc # "over"
    <3>1. To(IF Missing # {} THEN "post" ELSE "publish") \in {To("post"), To("publish")}
      OBVIOUS
    <3>2. QED
      BY <1>t, <3>1
  <2>4. QED
    BY <1>9, <2>2, <2>3, ReadGoesOn DEF CheckUpload
<1>10. CASE Upload
  <2>1. Write("post", Request("upload", run.id, Next3, Asset), To("uploaded"), Refused)
    BY <1>10 DEF Upload
  <2>2. Applied(Request("upload", run.id, Next3, Asset)) # target
    BY <2>1, WritesFine DEF Write
  <2>3. QED
    BY <1>t, <2>1, <2>2, WriteGoesOn
<1>11. CASE UploadedOne
  <2>1. Is(With)
    BY <1>11, <1>e DEF UploadedOne, Read, At
  <2>2. [run EXCEPT !.pc = "upload", !.boundary = With].pc = "upload"
    BY DEF ActiveRuns
  <2>3. QED
    BY <1>11, <2>1, <2>2, ReadGoesOn DEF UploadedOne
<1>12. CASE CheckPublish
  <2> DEFINE draft == run.boundary.phase = "draft"
  <2>1. run.pc = "publish"
    BY <1>12 DEF CheckPublish, Read, At
  <2>2. Is(run.boundary) /\ May("release")
    BY <1>e, <1>h, <2>1 DEF WithRelease
  <2>3. To(IF draft THEN "patch" ELSE "verify").pc # "over"
    <3>1. To(IF draft THEN "patch" ELSE "verify") \in {To("patch"), To("verify")}
      OBVIOUS
    <3>2. QED
      BY <1>t, <3>1
  <2>4. Read("publish", (draft => May("release")) /\ Is(run.boundary),
             To(IF draft THEN "patch" ELSE "verify"))
    BY <1>12 DEF CheckPublish
  <2> HIDE DEF draft
  <2>5. QED
    BY <2>2, <2>3, <2>4, ReadGoesOn
<1>13. CASE Publish
  <2>1. Write("patch", Request("publish", run.id, 0, 0), To("published"), Refused)
    BY <1>13 DEF Publish
  <2>2. Applied(Request("publish", run.id, 0, 0)) # target
    BY <2>1, WritesFine DEF Write
  <2>3. QED
    BY <1>t, <2>1, <2>2, WriteGoesOn
<1>14. CASE Published
  <2>1. Is(Out)
    BY <1>14, <1>e DEF Published, Read, At
  <2>2. [run EXCEPT !.pc = "verify", !.boundary = Out].pc = "verify"
    BY DEF ActiveRuns
  <2>3. QED
    BY <1>14, <2>1, <2>2, ReadGoesOn DEF Published
<1>15. CASE Verify
  <2> DEFINE next == CASE AliasMode = "none" -> "finish" [] AliasMode = "forward" -> "alias"
                       [] OTHER -> "aliased"
  <2>1. run.pc = "verify"
    BY <1>15 DEF Verify, Read, At
  <2>2. Is(run.boundary) /\ Shaped(run.boundary) /\ ~run.boundary.alien
    BY <1>e, <1>h, <2>1 DEF WithRelease
  <2>3. Uploaded(run.boundary) = Names
    BY <2>1 DEF Kept, Prepared, Quiet, WithRelease, Filled
  <2>4. Whole(run.boundary)
    BY <2>2, <2>3 DEF Whole, Shaped
  <2>5. Read("verify", Is(run.boundary) /\ Whole(run.boundary), To(next))
    BY <1>15 DEF Verify
  <2>6. next \in {"finish", "alias", "aliased"}
    OBVIOUS
  <2> HIDE DEF next
  <2>7. QED
    BY <1>t, <2>2, <2>4, <2>5, <2>6, ReadGoesOn
<1>16. QED
  BY <1>1, <1>2, <1>3, <1>4, <1>5, <1>6, <1>7, <1>8, <1>9, <1>10, <1>11, <1>12, <1>13, <1>14,
     <1>15 DEF Releasing

LEMMA AliasingGoesOn ==
    ASSUME Inv, Kept, Calm, NoExcuse, Quiet, run \in ActiveRuns, Aliasing
    PROVE  ~Refuses
<1> USE DEF Inv
<1>t. \A pc : To(pc).pc = pc
  BY DEF To, ActiveRuns
<1>h. ASSUME run.pc \in {"alias", "move", "aliased", "finish"}
      PROVE  Is(run.boundary) /\ May("alias") /\ Fence
  <2>1. run.pc \in WithRelease /\ run.pc \in AfterStart \ {"select", "again"}
    BY <1>h DEF AfterStart, Steps, WithRelease, UpToAudit
  <2>2. QED
    BY <1>h, <2>1, MayOn DEF Calm, QuietHeld, Expected, Is
<1>1. CASE CheckAlias
  <2>1. run.pc = "alias"
    BY <1>1 DEF CheckAlias, Read, At
  <2>2. target.alias = run.refs.alias
    BY <2>1 DEF Calm, QuietRefs
  <2>3. QED
    BY <1>1, <1>h, <1>t, <2>1, <2>2, ReadGoesOn DEF CheckAlias
<1>2. CASE MoveAlias
  <2>1. Write("move", Request("alias", run.n, 0, run.refs.alias), To("aliased"), Refused)
    BY <1>2 DEF MoveAlias
  <2>2. Applied(Request("alias", run.n, 0, run.refs.alias)) # target
    BY <2>1, WritesFine DEF Write
  <2>3. QED
    BY <1>t, <2>1, <2>2, WriteGoesOn
<1>3. CASE Aliased
  <2> DEFINE planned == IF AliasMode = "forward" THEN [version |-> this, by |-> run.n]
                        ELSE run.refs.alias
  <2>1. run.pc = "aliased"
    BY <1>3 DEF Aliased, Read, At
  <2>2. target.alias = planned
    BY <2>1 DEF Calm, QuietRefs
  <2>3. Read("aliased", target.alias = planned /\ Is(run.boundary), To("finish"))
    BY <1>3 DEF Aliased
  <2> HIDE DEF planned
  <2>4. QED
    BY <1>h, <1>t, <2>1, <2>2, <2>3, ReadGoesOn
<1>4. CASE Finish
  <2>1. run.pc = "finish"
    BY <1>4 DEF Finish, Read, At
  <2>2. Over("complete").outcome = "complete"
    BY DEF Over
  <2>3. QED
    BY <1>4, <1>h, <2>1, <2>2, ReadGoesOn DEF Finish
<1>5. QED
  BY <1>1, <1>2, <1>3, <1>4 DEF Aliasing

\* How a run is refused.
LEMMA ReadRefuses ==
    ASSUME NEW pc, NEW ok, NEW next, Read(pc, ok, next), Refuses,
           next.pc # "over" \/ next.outcome # "refused"
    PROVE  run' = Refused /\ UNCHANGED <<intents, target, listed>>
BY DEF Read, Refuses

LEMMA WriteRefuses ==
    ASSUME NEW pc, NEW w, NEW answered, Write(pc, w, answered, Refused), Refuses,
           answered.pc # "over"
    PROVE  run' = Refused /\ UNCHANGED <<intents, target, listed>>
<1>1. [Refused EXCEPT !.calm = FALSE].calm = FALSE
  BY DEF Refused, Over
<1>2. run' # answered /\ run' # [Refused EXCEPT !.calm = FALSE]
  BY <1>1 DEF Refuses
<1>3. QED
  BY <1>2 DEF Write

LEMMA RefusalRests ==
    ASSUME Inv, run \in ActiveRuns, Refuses, RunSteps \/ Overtake
    PROVE  run' = Refused /\ UNCHANGED <<intents, target, listed>>
<1> DEFINE Rest == run' = Refused /\ UNCHANGED <<intents, target, listed>>
<1>t. \A pc : To(pc).pc = pc
  BY DEF To, ActiveRuns
<1>o. Over("superseded").outcome = "superseded" /\ Over("complete").outcome = "complete"
  BY DEF Over
<1>x. Over("superseded").outcome # "refused" /\ Over("complete").outcome # "refused"
  BY <1>o
<1>b. \A b : /\ [run EXCEPT !.pc = "starter", !.boundary = b].pc # "over"
             /\ [run EXCEPT !.pc = "existing", !.boundary = b].pc # "over"
             /\ [run EXCEPT !.pc = "upload", !.boundary = b].pc # "over"
             /\ [run EXCEPT !.pc = "verify", !.boundary = b].pc # "over"
  BY DEF ActiveRuns
<1>i. \A i, b : [run EXCEPT !.pc = "starter", !.id = i, !.boundary = b].pc = "starter"
  BY DEF ActiveRuns
<1>1. CASE Clone \/ List
  <2>1. /\ [run EXCEPT !.pc = "list", !.refs = Refs].pc # "over"
        /\ [run EXCEPT !.pc = "audit", !.inventory = Inventory, !.print = Refs].pc # "over"
    BY DEF ActiveRuns
  <2>2. QED
    BY <1>1, <2>1, ReadRefuses DEF Clone, List
<1>2. CASE Audit
  BY <1>2, <1>t, ReadRefuses DEF Audit
<1>3. CASE Start
  <2>1. [run EXCEPT !.pc = "select",
                    !.stale = Begun /\ run.admission = "superseded"].pc # "over"
    BY DEF ActiveRuns
  <2>2. QED
    BY <1>3, <2>1, ReadRefuses DEF Start
<1>4. CASE Overtake
  <2>1. run' # Over("superseded")
    BY <1>x DEF Refuses
  <2>2. run' = Refused
    <3> DEFINE later == {w \in Later(run.refs) :
                            Contains(run.refs.master, w) /\ (Stable(this) => Stable(w))}
               reached(w) == Stable(w) => Contains(run.refs.alias.version, w)
    <3>1. \/ run' = Refused
          \/ \E w \in later : run' = IF reached(w) /\ Fence THEN Over("superseded") ELSE Refused
      BY <1>4 DEF Overtake
    <3> HIDE DEF later, reached
    <3>2. QED
      BY <2>1, <3>1
  <2>3. QED
    BY <1>4, <2>2 DEF Overtake
<1>5. CASE Select
  <2> DEFINE complete == Selected.phase = "published"
             nothing == ~complete /\ run.admission # "eligible" /\ ~run.stale
             next == [run EXCEPT !.pc = "again", !.id = SelectedId, !.boundary = Selected,
                                 !.provenance = Provenance(Selected),
                                 !.superseded = AliasMode = "passed" \/ nothing]
             ok == /\ SelectorOk /\ SelectedOk
                   /\ CASE AliasMode = "passed" -> complete /\ Complete(run.refs.alias.version)
                        [] AliasMode = "current" -> complete
                        [] OTHER -> AliasMode # "aside"
  <2>1. next.pc = "again"
    BY DEF ActiveRuns
  <2>2. Read("select", ok, next)
    BY <1>5 DEF Select
  <2> HIDE DEF ok, next
  <2>3. QED
    BY <2>1, <2>2, ReadRefuses
<1>6. CASE Again
  <2> DEFINE next == IF run.superseded THEN Over("superseded") ELSE To("master")
  <2>1. next.pc # "over" \/ next.outcome # "refused"
    BY <1>t, <1>x
  <2>2. PICK ok : Read("again", ok, next)
    BY <1>6 DEF Again
  <2> HIDE DEF next
  <2>3. QED
    BY <2>1, <2>2, ReadRefuses
<1>7. CASE CheckMaster \/ CheckTag
  <2>1. To("push master").pc # "over" /\ To("push tag").pc # "over"
        /\ To("tag").pc # "over" /\ To("release").pc # "over"
    <3>1. To("push master").pc = "push master" /\ To("push tag").pc = "push tag"
          /\ To("tag").pc = "tag" /\ To("release").pc = "release"
      BY <1>t
    <3>2. QED
      BY <3>1
  <2>2. run' \in {To("push master"), To("push tag"), To("tag"), To("release"), Refused}
        /\ UNCHANGED <<intents, target, listed>>
    BY <1>7 DEF CheckMaster, CheckTag, Read
  <2>3. QED
    BY <2>1, <2>2 DEF Refuses
<1>8. CASE PushMaster \/ PushTag \/ Upload \/ Publish \/ MoveAlias
  <2>1. CASE PushMaster
    <3>1. Write("push master", Request("master", run.n, 0, 0), To("tag"), Refused)
      BY <2>1 DEF PushMaster
    <3>2. To("tag").pc # "over"
      BY <1>t
    <3>3. QED
      BY <3>1, <3>2, WriteRefuses
  <2>2. CASE PushTag
    <3>1. Write("push tag", Request("tag", run.n, 0, 0), To("tagged"), Refused)
      BY <2>2 DEF PushTag
    <3>2. To("tagged").pc # "over"
      BY <1>t
    <3>3. QED
      BY <3>1, <3>2, WriteRefuses
  <2>3. CASE Upload
    <3>1. Write("post", Request("upload", run.id, Next3, Asset), To("uploaded"), Refused)
      BY <2>3 DEF Upload
    <3>2. To("uploaded").pc # "over"
      BY <1>t
    <3>3. QED
      BY <3>1, <3>2, WriteRefuses
  <2>4. CASE Publish
    <3>1. Write("patch", Request("publish", run.id, 0, 0), To("published"), Refused)
      BY <2>4 DEF Publish
    <3>2. To("published").pc # "over"
      BY <1>t
    <3>3. QED
      BY <3>1, <3>2, WriteRefuses
  <2>5. CASE MoveAlias
    <3>1. Write("move", Request("alias", run.n, 0, run.refs.alias), To("aliased"), Refused)
      BY <2>5 DEF MoveAlias
    <3>2. To("aliased").pc # "over"
      BY <1>t
    <3>3. QED
      BY <3>1, <3>2, WriteRefuses
  <2>6. QED
    BY <1>8, <2>1, <2>2, <2>3, <2>4, <2>5
<1>9. CASE Tagged \/ Adopt \/ Absent
  <2>1. [run EXCEPT !.pc = "release", !.fresh = TRUE].pc # "over"
    BY DEF ActiveRuns
  <2>2. QED
    BY <1>9, <1>b, <1>t, <2>1, ReadRefuses DEF Tagged, Adopt, Absent
<1>10. CASE Create
  <2>1. [To("created") EXCEPT !.calm = FALSE].pc = "created"
    BY DEF To, ActiveRuns
  <2> DEFINE b == [NoRelease EXCEPT !.version = this, !.phase = "draft"]
             next == [run EXCEPT !.pc = "starter", !.id = run.n, !.boundary = b]
  <2>2. run' \in {next, To("created"), [To("created") EXCEPT !.calm = FALSE]}
    BY <1>10 DEF Create, Write
  <2> HIDE DEF b
  <2>3. next.pc = "starter"
    BY <1>i
  <2> HIDE DEF next
  <2>4. QED
    BY <1>t, <2>1, <2>2, <2>3 DEF Refuses
<1>11. CASE Created
  <2> DEFINE found == Of(Inventory, this)
             id == CHOOSE i \in found : TRUE
             r == target.releases[id]
             next == [run EXCEPT !.pc = "starter", !.id = id, !.boundary = r]
  <2>1. next.pc = "starter"
    BY <1>i
  <2>2. PICK ok : Read("created", ok, next)
    BY <1>11 DEF Created
  <2> HIDE DEF next
  <2>3. QED
    BY <2>1, <2>2, ReadRefuses
<1>12. CASE DeleteStarter
  <2>1. [To("deleted") EXCEPT !.calm = FALSE].pc = "deleted"
    BY DEF To, ActiveRuns
  <2>2. run' \in {To("deleted"), [To("deleted") EXCEPT !.calm = FALSE]}
    BY <1>12 DEF DeleteStarter, Write
  <2>3. QED
    BY <1>t, <2>1, <2>2 DEF Refuses
<1>13. CASE Deleted \/ Existing \/ UploadedOne \/ Published \/ CheckAlias \/ Aliased
  BY <1>13, <1>b, <1>t, ReadRefuses DEF Deleted, Existing, UploadedOne, Published, CheckAlias,
     Aliased
<1>14. CASE CheckStarter \/ CheckUpload \/ CheckPublish \/ Verify
  <2>1. run' \in {To("delete"), To("existing"), To("post"), To("publish"), To("patch"),
                  To("verify"), To("finish"), To("alias"), To("aliased"), Refused}
        /\ UNCHANGED <<intents, target, listed>>
    BY <1>14 DEF CheckStarter, CheckUpload, CheckPublish, Verify, Read
  <2>2. QED
    BY <1>t, <2>1 DEF Refuses
<1>15. CASE Finish
  BY <1>15, <1>x, ReadRefuses DEF Finish
<1>16. QED
  BY <1>1, <1>2, <1>3, <1>4, <1>5, <1>6, <1>7, <1>8, <1>9, <1>10, <1>11, <1>12, <1>13, <1>14,
     <1>15 DEF RunSteps

\* A run that nothing disturbed is refused by a step of its own.
LEMMA RefusedHow ==
    ASSUME Inv, [Next]_vars, Refuses, ~UNCHANGED vars
    PROVE  run \in ActiveRuns /\ (RunSteps \/ Overtake)
<1> USE DEF Inv
<1>1. run' \notin ActiveRuns /\ run' # Idle
  <2>1. "over" \notin Steps
    BY DEF Steps, UpToCreate, UpToAudit, UpToMaster, WithTag, WithRelease
  <2>2. QED
    BY <2>1 DEF Refuses, ActiveRuns, Idle
<1>2. ~Others
  <2>1. Meanwhile => Active /\ run' = [run EXCEPT !.calm = FALSE]
    BY <1>1 DEF Meanwhile
  <2>2. ~Meanwhile
    <3>1. Active => run \in ActiveRuns
      BY ActiveIs
    <3>2. run \in ActiveRuns => [run EXCEPT !.calm = FALSE].calm = FALSE
      BY DEF ActiveRuns
    <3>3. QED
      BY <2>1, <3>1, <3>2 DEF Refuses
  <2>3. QED
    BY <1>1, <2>2 DEF Others, Intend, Surface, Land, Edit, Kill
<1>3. ~Dispatch
  BY <1>1, Begins
<1>4. RunSteps \/ Overtake
  BY <1>2, <1>3, NextCases
<1>5. RunSteps => run \in ActiveRuns
  BY StepGoes
<1>6. Overtake => run \in ActiveRuns
  BY ActiveIs DEF Overtake, At, Active
<1>7. QED
  BY <1>4, <1>5, <1>6

LEMMA TakesUpNext ==
    ASSUME Inv, Left, Kept, Calm, TakesUpWhereLeft, [Next]_vars
    PROVE  TakesUpWhereLeft'
<1> SUFFICES ASSUME Refuses
             PROVE  Excused'
  BY DEF TakesUpWhereLeft, Refuses
<1>1. CASE UNCHANGED vars
  <2>1. Excused
    BY <1>1 DEF vars, Refuses, TakesUpWhereLeft
  <2>2. Excused' <=> Excused
    BY <1>1 DEF vars, Excused, Of, Complete, Whole, Uploaded, Signed, Contains, Stable, History
  <2>3. QED
    BY <2>1, <2>2
<1>2. CASE ~UNCHANGED vars
  <2>1. run \in ActiveRuns /\ (RunSteps \/ Overtake)
    BY <1>2, RefusedHow
  <2>2. run' = Refused /\ UNCHANGED <<intents, target, listed>>
    BY <2>1, RefusalRests
  <2>3. /\ run'.version = run.version /\ run'.admission = run.admission
        /\ run'.selector = run.selector /\ run'.calm = run.calm
    BY <2>2 DEF Refused, Over
  <2>4. Quiet
    BY <2>1, <2>3, ActiveIs DEF Quiet, Refuses, Inv
  <2>5. ~NoExcuse
    BY <2>1, <2>4, ReadingGoesOn, PushingGoesOn, ReleasingGoesOn, AliasingGoesOn
       DEF RunSteps, Releasing, Aliasing
  <2>6. Excused
    BY <2>5, NoExcuseIs
  <2>7. History' = History
    BY <2>2, SameHistory
  <2>8. Excused' <=> Excused
    BY <2>2, <2>3, <2>7 DEF Excused, Of, Complete, Whole, Uploaded, Signed, Contains, Stable
  <2>9. QED
    BY <2>6, <2>8
<1>3. QED
  BY <1>1, <1>2

\* What a run that takes up an earlier one rests on: what is left is as the publisher
\* leaves it, the run holds what it has read, and nothing it has not done itself changes
\* under a run that nothing disturbs.
TakingUp == Left /\ Kept /\ Calm /\ TakesUpWhereLeft

LEMMA TakingUpInit == Init => TakingUp
<1> SUFFICES ASSUME Init PROVE TakingUp
  OBVIOUS
<1>1. /\ run.pc = "idle" /\ ~Active /\ late = {}
      /\ target.tag = [w \in Versions |-> 0] /\ target.alias.version = Base
      /\ target.releases = [i \in Runs |-> NoRelease]
  BY DEF Init, Idle, Active
<1>2. AllShaped
  <2>1. NoRelease.assets = [k \in Names |-> NoAsset] /\ NoRelease.phase = "none"
    BY DEF NoRelease
  <2>2. Shaped(NoRelease)
    BY <2>1, NewShaped
  <2>3. QED
    BY <1>1, <2>2 DEF AllShaped
<1>3. LateFits /\ TaggedOnMaster /\ AliasStable
  BY <1>1 DEF LateFits, TaggedOnMaster, AliasStable
<1>4. Kept
  BY <1>1 DEF Kept, Held, Prepared, Entitled
<1>5. Calm
  BY <1>1 DEF Calm, QuietReads, QuietRefs, QuietChoice, QuietHeld, Quiet
<1>6. TakesUpWhereLeft
  BY <1>1 DEF TakesUpWhereLeft
<1>7. QED
  BY <1>2, <1>3, <1>4, <1>5, <1>6 DEF TakingUp, Left

LEMMA TakingUpNext ==
    ASSUME Inv, TakingUp, [Next]_vars
    PROVE  TakingUp'
BY LeftNext, HeldNext, PreparedNext, EntitledNext, CalmNext, TakesUpNext DEF TakingUp, Kept

\* Takes up where left: a run that nothing disturbs does not refuse what an earlier run
\* left behind, wherever that one broke off, unless one of the excuses holds.
THEOREM TakesUpWhereLeftHolds == Spec => []TakesUpWhereLeft
<1>1. Init => Inv /\ TakingUp
  BY InvInit, TakingUpInit
<1>2. (Inv /\ TakingUp) /\ [Next]_vars => (Inv /\ TakingUp)'
  BY InvNext, TakingUpNext
<1>3. Inv /\ TakingUp => TakesUpWhereLeft
  BY DEF TakingUp
<1>4. QED
  BY <1>1, <1>2, <1>3, PTL DEF Spec
=============================================================================
