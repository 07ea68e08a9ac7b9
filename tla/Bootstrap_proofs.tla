--------------------------- MODULE Bootstrap_proofs ----------------------------
(***************************************************************************)
(* Proofs about the bootstrap of one repository's rulesets and of its      *)
(* worktree, for any number of commands and of changes by others.          *)
(*                                                                         *)
(* The rulesets: a command is the steps ahead of it, so the invariant      *)
(* speaks of those: what has been read is still so until the next read of  *)
(* it that is due, unless somebody changed it; and since nothing that      *)
(* changed changes back (the properties leave that out), the next read     *)
(* finds the change.                                                       *)
(*                                                                         *)
(* The worktree: the helper is the calls ahead of it, too, which are a     *)
(* path from the phase that holds now to the end of its work.              *)
(***************************************************************************)
EXTENDS ConsumerRuleset, ConsumerFiles, SequenceTheorems, FiniteSetTheorems, TLAPS

-----------------------------------------------------------------------------
(* What is ahead in a program.                                             *)

Has(s, xs) == \E k \in 1..Len(s) : s[k] \in xs

\* A step of xs comes before any of ys.
Due(s, ys, xs) == \E k \in 1..Len(s) : s[k] \in xs /\ \A j \in 1..k - 1 : s[j] \notin ys

Writes == {"post", "put"}
Rounds == {"legacy", "history", "first", "second"}
Closings == {"emit", "compare", "verified", "proved"}

\* Staging and activation, and the commands that read closures, have steps of their own.
Working == cmd \in {"stage", "activate"}
OfWork == {"look", "digest", "choose", "names", "post", "readback", "bound", "done", "dryrun",
           "plan", "canary", "owners", "reread", "put"}
OfClosures == {"look", "list", "gate", "reread", "put", "readback", "dryrun",
               "legacy", "history", "first", "second", "emit", "compare", "verified", "proved"}
Kinds == OfWork \cup OfClosures

\* A write is followed by another look and another digest; before it comes the target,
\* and at some distance the canary.
WorkInOrder(c, s) ==
    \A k \in 1..Len(s) :
        /\ s[k] \in OfWork
        /\ s[k] \in {"choose", "plan", "done", "dryrun"} => k = Len(s)
        /\ s[k] \in Writes =>
              /\ s[Len(s)] = "done"
              /\ \E j \in k + 1..Len(s) : s[j] = "look"
              /\ \E j \in k + 1..Len(s) : s[j] = "digest"
        /\ s[k] = "put" /\ k > 1 => s[k - 1] = "reread"
        /\ s[k] = "put" /\ k > 4 /\ c = "activate" => s[k - 4] = "canary"

\* Which step follows which in a closure.
Neighbours(a, b) ==
    /\ a = "look" <=> b = "list"
    /\ a = "list" <=> b = "legacy"
    /\ a = "legacy" => b \in {"history", "first", "second"}
    /\ a = "history" => b \in {"first", "second"}
    /\ b = "history" => a = "legacy"
    /\ b \in {"first", "second"} => a \in {"legacy", "history"}
    /\ a = "first" => b = "look"

ClosuresInOrder(s) ==
    \A k \in 1..Len(s) :
        /\ s[k] \in OfClosures
        /\ k < Len(s) => Neighbours(s[k], s[k + 1])
        /\ s[k] = "put" /\ k > 1 => s[k - 1] = "reread"
        /\ s[k] = "put" /\ k > 2 => s[k - 2] = "gate"
        /\ s[k] = "second" =>
              \A i \in k + 1..Len(s) :
                  /\ s[i] = "second" => \E j \in k + 1..i - 1 : s[j] = "first"
                  /\ s[i] = "put" => \E j \in k + 1..i - 1 : s[j] = "compare"

StepsInOrder == IF Working THEN WorkInOrder(cmd, todo) ELSE ClosuresInOrder(todo)

-----------------------------------------------------------------------------
(* The inductive invariant.                                                *)

Rulesets == [name : {"old", "v2", "gate"}, active : BOOLEAN,
             ref : {"default", "barred", "elsewhere"}, bypass : BOOLEAN,
             checks : SUBSET {"v1", "v2"}, rules : SUBSET {"strict", "pr", "nff", "deletion"}]
RulesetLists == Seq(Rulesets \cup {Gone})
Snaps == Tips \X BOOLEAN
Closures == [head : Tips, classic : BOOLEAN, sets : RulesetLists]
Commands == {"stage", "activate", "derive", "cleanup", "verify", "prove"}

Memories == [snap : Snaps \cup {<<>>}, loaded : RulesetLists,
             first : Closures \cup {NoClosure}, pair : Closures \cup {NoClosure},
             target : Nat, gate : Nat, full : Rulesets \cup {Gone},
             payload : Rulesets \cup {Gone}, wrote : BOOLEAN]

TypeInv ==
    /\ profile \in {"full", "status-only"} /\ unmanaged \in BOOLEAN
    /\ sets \in RulesetLists /\ head \in Tips /\ classic \in BOOLEAN /\ canary \in Nat
    /\ approved \in [rulesets : SUBSET (Nat \X Rulesets), classic : BOOLEAN]
    /\ plan = NoPlan \/ plan \in [pre : Closures, post : Closures]
    /\ cmd \in Commands /\ todo \in Seq(Kinds)
    /\ mem \in Memories
    /\ again \in BOOLEAN

\* Matches, of a profile.
MatchesOf(p, r) ==
    /\ Covers(r) /\ ~r.bypass
    /\ IF p = "full" THEN "v2" \in r.checks /\ {"strict", "pr", "nff"} \subseteq r.rules
       ELSE r.checks = {"v2"} /\ r.rules = {"strict"}

\* A ruleset of the name v2 never requires the legacy status of the default branch.
V2IsNotLegacy(r) == r # Gone /\ r.name = "v2" => ~(Covers(r) /\ RequiresLegacy(r))

\* What the programs and the papers are.
Papers ==
    /\ \A i \in DOMAIN sets : V2IsNotLegacy(sets[i])
    /\ plan # NoPlan => plan.post = PostCleanup(plan.pre)
    /\ todo # <<>> => StepsInOrder /\ State \in instants
    /\ todo # <<>> /\ cmd = "cleanup" => plan # NoPlan /\ InScope

\* Only a change by others makes a part differ from what was read of it.
Since(snap) ==
    /\ head # snap[1] => Part("head") \in touched
    /\ classic # snap[2] => Part("classic") \in touched

\* A part that differs because it was changed does so for the rest of the command.
Lost(h, c) ==
    \/ head # h /\ Part("head") \in touched
    \/ classic # c /\ Part("classic") \in touched

Listed(s, i) == IF i \in LegacyIds(s) THEN {<<i, s[i]>>} ELSE {}
ApprovedOf(i) == {p \in approved.rulesets : p[1] = i}

\* The inventory is the approved one but for the parts that were changed.
SinceApproval ==
    /\ classic # approved.classic => Part("classic") \in touched
    /\ \A i \in Nat : Listed(sets, i) # ApprovedOf(i) => Ruleset(i) \in touched

\* What the command works on.
OnTarget ==
    /\ mem.target \in DOMAIN sets
    /\ sets[mem.target] = Gone \/ sets[mem.target].name = "v2"

PlanIsSafe ==
    /\ mem.full \in Rulesets /\ mem.payload \in Rulesets
    /\ mem.full.name = "v2" /\ mem.payload.name = "v2"
    /\ V2IsNotLegacy(mem.payload)
    /\ mem.full.active => mem.payload.active /\ MatchesOf(profile, mem.payload)
    /\ cmd = "activate" => ~mem.full.active /\ mem.payload = [mem.full EXCEPT !.active = TRUE]

\* Before the write.
WorkBefore ==
    Working /\ todo # <<>> =>
        /\ mem.snap # <<>> \/ todo = <<"look", "digest", "choose">>
        /\ Has(todo, {"plan", "put"}) => OnTarget
        /\ Has(todo, {"put"}) => PlanIsSafe
        /\ Has(todo, {"post"}) => mem.payload = Staged /\ cmd = "stage"
        /\ Has(todo, {"choose", "plan"}) => put = NoPut
        /\ Due(todo, Writes, {"done"}) => put # NoPut
        /\ cmd = "activate" /\ (\E k \in 1..Len(todo) : k <= 4 /\ todo[k] = "put") =>
              canary = mem.snap[1] \/ Part("canary") \in gap
        /\ ~again /\ Due(todo, {"look"}, Writes) => Since(mem.snap)
        /\ ~again /\ Due(todo, {"digest"}, Writes) => SinceApproval

\* After the write.
WorkAfter ==
    Working /\ put # NoPut =>
        /\ put.approved = approved /\ put.sets \in RulesetLists
        /\ mem.snap # <<>>
        /\ cmd = "activate" =>
              /\ \/ put.sets[mem.target] = [mem.payload EXCEPT !.active = FALSE]
                 \/ Ruleset(mem.target) \in put.gap
              /\ put.canary = mem.snap[1] \/ Part("canary") \in put.gap
        /\ ~again =>
              /\ \/ <<put.head, put.classic>> = mem.snap
                 \/ Has(todo, {"look"}) /\ Lost(mem.snap[1], mem.snap[2])
              /\ \/ put.classic = approved.classic
                 \/ Has(todo, {"digest"}) /\ classic # approved.classic
                    /\ Part("classic") \in touched
              /\ \A i \in Nat :
                    \/ Listed(put.sets, i) = ApprovedOf(i)
                    \/ Has(todo, {"digest"}) /\ Listed(sets, i) # ApprovedOf(i)
                       /\ Ruleset(i) \in touched

TargetUnderWatch ==
    todo # <<>> /\ Head(todo) = "put" =>
        sets[mem.target] = mem.full \/ Ruleset(mem.target) \in gap

\* A closure was true at one instant, or one of its parts is lost.
Stands(c) == c \in instants \/ Lost(c.head, c.classic)

Remembered ==
    ~Working /\ todo # <<>> =>
        /\ Head(todo) \in {"list"} \cup Rounds => mem.snap \in Snaps
        /\ Due(todo, {"second"}, Closings) => mem.pair \in Closures

ReadingClosures ==
    ~Working /\ todo # <<>> /\ ~again =>
        /\ Head(todo) = "list" => Since(mem.snap)
        /\ Head(todo) \in Rounds => Stands(Closure)
        /\ Due(todo, {"first"}, {"second"}) =>
              /\ mem.first # NoClosure /\ Stands(mem.first)
              /\ Head(todo) # "look" =>
                    \/ mem.first \in instants
                    \/ mem.snap[1] # mem.first.head \/ mem.snap[2] # mem.first.classic
        /\ Due(todo, {"second"}, Closings) => mem.pair \in instants

\* The gate that is to replace what a cleanup takes away.
Stronghold(s) ==
    /\ mem.gate \in Named(s) /\ s[mem.gate].active /\ MatchesOf(profile, s[mem.gate])
    /\ Len(s) <= Len(sets)

Cleaning ==
    ~Working /\ todo # <<>> =>
        /\ Head(todo) \in Rounds => Stronghold(mem.loaded)
        /\ Due(todo, {"list"}, {"put"}) /\ Head(todo) \notin Rounds =>
              mem.pair \in Closures /\ Stronghold(mem.pair.sets)
        /\ Due(todo, {"compare"}, {"put"}) =>
              /\ CleanupIds = {mem.target} /\ mem.pair = plan.pre
              /\ mem.full = plan.pre.sets[mem.target] /\ mem.payload = plan.post.sets[mem.target]
        /\ (\E k \in 1..Len(todo) : k <= 2 /\ todo[k] = "put") =>
              sets[mem.gate] = mem.pair.sets[mem.gate] \/ Ruleset(mem.gate) \in gap
        /\ Has(todo, {"compare", "put"}) => cmd = "cleanup"

Reported ==
    /\ outcome = "done" => todo = <<>> /\ Working /\ put # NoPut
    /\ outcome \in {"derived", "verified", "proved"} =>
          todo = <<>> /\ (~again => mem.pair \in instants)

Inv ==
    /\ TypeInv /\ Papers /\ WorkBefore /\ WorkAfter /\ TargetUnderWatch
    /\ Remembered /\ ReadingClosures /\ Cleaning /\ Reported

-----------------------------------------------------------------------------
(* What stays true of the steps ahead when the first one is done.          *)

LEMMA TailIs ==
    ASSUME NEW S, NEW s \in Seq(S), s # <<>>
    PROVE  /\ Tail(s) \in Seq(S) /\ Len(s) \in Nat /\ Len(s) >= 1
           /\ Len(Tail(s)) = Len(s) - 1 /\ Head(s) = s[1] /\ Head(s) \in S
           /\ \A k \in 1..Len(s) - 1 : Tail(s)[k] = s[k + 1]
OBVIOUS

LEMMA HasTail ==
    ASSUME NEW S, NEW s \in Seq(S), s # <<>>, NEW xs
    PROVE  /\ Has(Tail(s), xs) => Has(s, xs)
           /\ Has(s, xs) => Has(Tail(s), xs) \/ Head(s) \in xs
<1>1. ASSUME Has(Tail(s), xs) PROVE Has(s, xs)
  <2>1. PICK k \in 1..Len(Tail(s)) : Tail(s)[k] \in xs
    BY <1>1 DEF Has
  <2>2. k + 1 \in 1..Len(s) /\ s[k + 1] \in xs
    BY <2>1, TailIs
  <2>3. QED
    BY <2>2 DEF Has
<1>2. ASSUME Has(s, xs), Head(s) \notin xs PROVE Has(Tail(s), xs)
  <2>1. PICK k \in 1..Len(s) : s[k] \in xs
    BY <1>2 DEF Has
  <2>2. k # 1
    BY <1>2, <2>1, TailIs
  <2>3. k - 1 \in 1..Len(Tail(s)) /\ Tail(s)[k - 1] = s[k]
    BY <2>1, <2>2, TailIs
  <2>4. QED
    BY <2>1, <2>3 DEF Has
<1>3. QED
  BY <1>1, <1>2

LEMMA DueTail ==
    ASSUME NEW S, NEW s \in Seq(S), s # <<>>, NEW ys, NEW xs,
           Due(Tail(s), ys, xs), Head(s) \notin ys
    PROVE  Due(s, ys, xs)
<1>1. PICK k \in 1..Len(Tail(s)) :
         Tail(s)[k] \in xs /\ \A j \in 1..k - 1 : Tail(s)[j] \notin ys
  BY DEF Due
<1>2. k + 1 \in 1..Len(s) /\ s[k + 1] \in xs
  BY <1>1, TailIs
<1>3. \A j \in 1..k : s[j] \notin ys
  <2> SUFFICES ASSUME NEW j \in 1..k PROVE s[j] \notin ys
    OBVIOUS
  <2>1. CASE j = 1
    BY <2>1, TailIs
  <2>2. CASE j # 1
    <3>1. j - 1 \in 1..k - 1 /\ j - 1 \in 1..Len(s) - 1 /\ (j - 1) + 1 = j
      BY <1>1, <2>2, TailIs
    <3>2. QED
      BY <1>1, <3>1, TailIs
  <2>3. QED
    BY <2>1, <2>2
<1>4. (k + 1) - 1 = k
  BY <1>1
<1>5. QED
  BY <1>2, <1>3, <1>4 DEF Due

LEMMA DueHead ==
    ASSUME NEW S, NEW s \in Seq(S), s # <<>>, NEW ys, NEW xs, Head(s) \in xs
    PROVE  Due(s, ys, xs)
<1>1. 1 \in 1..Len(s) /\ s[1] \in xs /\ \A j \in 1..1 - 1 : s[j] \notin ys
  BY TailIs
<1>2. QED
  BY <1>1 DEF Due

LEMMA WorkTail ==
    ASSUME NEW c, NEW s \in Seq(Kinds), s # <<>>, WorkInOrder(c, s)
    PROVE  WorkInOrder(c, Tail(s))
<1> DEFINE t == Tail(s)
<1>1. /\ t \in Seq(Kinds) /\ Len(s) \in Nat /\ Len(s) >= 1 /\ Len(t) = Len(s) - 1
      /\ \A k \in 1..Len(t) : t[k] = s[k + 1]
  BY TailIs
<1> HIDE DEF t
<1> SUFFICES ASSUME NEW k \in 1..Len(t)
             PROVE  /\ t[k] \in OfWork
                    /\ t[k] \in {"choose", "plan", "done", "dryrun"} => k = Len(t)
                    /\ t[k] \in Writes =>
                          /\ t[Len(t)] = "done"
                          /\ \E j \in k + 1..Len(t) : t[j] = "look"
                          /\ \E j \in k + 1..Len(t) : t[j] = "digest"
                    /\ t[k] = "put" /\ k > 1 => t[k - 1] = "reread"
                    /\ t[k] = "put" /\ k > 4 /\ c = "activate" => t[k - 4] = "canary"
  BY DEF t, WorkInOrder
<1>2. k + 1 \in 1..Len(s) /\ t[k] = s[k + 1] /\ k + 1 > 1
  BY <1>1
<1>3. /\ s[k + 1] \in OfWork
      /\ s[k + 1] \in {"choose", "plan", "done", "dryrun"} => k + 1 = Len(s)
      /\ s[k + 1] \in Writes =>
            /\ s[Len(s)] = "done"
            /\ \E j \in (k + 1) + 1..Len(s) : s[j] = "look"
            /\ \E j \in (k + 1) + 1..Len(s) : s[j] = "digest"
      /\ s[k + 1] = "put" /\ k + 1 > 1 => s[(k + 1) - 1] = "reread"
      /\ s[k + 1] = "put" /\ k + 1 > 4 /\ c = "activate" => s[(k + 1) - 4] = "canary"
  BY <1>2 DEF WorkInOrder
<1>4. t[k] \in OfWork /\ (t[k] \in {"choose", "plan", "done", "dryrun"} => k = Len(t))
  <2>1. k + 1 = Len(s) => k = Len(t)
    BY <1>1
  <2>2. QED
    BY <1>2, <1>3, <2>1
<1>5. \A x : (\E j \in (k + 1) + 1..Len(s) : s[j] = x) => \E j \in k + 1..Len(t) : t[j] = x
  <2> SUFFICES ASSUME NEW x, NEW j \in (k + 1) + 1..Len(s), s[j] = x
               PROVE  \E i \in k + 1..Len(t) : t[i] = x
    OBVIOUS
  <2>1. j - 1 \in k + 1..Len(t) /\ j - 1 \in 1..Len(t) /\ (j - 1) + 1 = j
    BY <1>1
  <2>2. QED
    BY <1>1, <2>1
<1>6. t[k] \in Writes =>
          /\ t[Len(t)] = "done"
          /\ \E j \in k + 1..Len(t) : t[j] = "look"
          /\ \E j \in k + 1..Len(t) : t[j] = "digest"
  <2>1. Len(t) \in 1..Len(t) /\ Len(t) + 1 = Len(s)
    BY <1>1
  <2>2. t[Len(t)] = s[Len(s)]
    BY <1>1, <2>1
  <2>3. QED
    BY <1>2, <1>3, <1>5, <2>2
<1>7. t[k] = "put" /\ k > 1 => t[k - 1] = "reread"
  <2> SUFFICES ASSUME t[k] = "put", k > 1 PROVE t[k - 1] = "reread"
    OBVIOUS
  <2>1. k - 1 \in 1..Len(t) /\ (k - 1) + 1 = (k + 1) - 1
    BY <1>1
  <2>2. QED
    BY <1>1, <1>2, <1>3, <2>1
<1>8. t[k] = "put" /\ k > 4 /\ c = "activate" => t[k - 4] = "canary"
  <2> SUFFICES ASSUME t[k] = "put", k > 4, c = "activate" PROVE t[k - 4] = "canary"
    OBVIOUS
  <2>1. k - 4 \in 1..Len(t) /\ (k - 4) + 1 = (k + 1) - 4 /\ k + 1 > 4
    BY <1>1
  <2>2. t[k - 4] = s[(k + 1) - 4]
    BY <1>1, <2>1
  <2>3. QED
    BY <1>2, <1>3, <2>1, <2>2
<1>9. QED
  BY <1>4, <1>6, <1>7, <1>8

LEMMA ClosuresTail ==
    ASSUME NEW s \in Seq(Kinds), s # <<>>, ClosuresInOrder(s)
    PROVE  ClosuresInOrder(Tail(s))
<1> DEFINE t == Tail(s)
<1>1. /\ t \in Seq(Kinds) /\ Len(s) \in Nat /\ Len(s) >= 1 /\ Len(t) = Len(s) - 1
      /\ \A k \in 1..Len(t) : t[k] = s[k + 1]
  BY TailIs
<1> HIDE DEF t
<1> SUFFICES ASSUME NEW k \in 1..Len(t)
             PROVE  /\ t[k] \in OfClosures
                    /\ k < Len(t) => Neighbours(t[k], t[k + 1])
                    /\ t[k] = "put" /\ k > 1 => t[k - 1] = "reread"
                    /\ t[k] = "put" /\ k > 2 => t[k - 2] = "gate"
                    /\ t[k] = "second" =>
                          \A i \in k + 1..Len(t) :
                              /\ t[i] = "second" => \E j \in k + 1..i - 1 : t[j] = "first"
                              /\ t[i] = "put" => \E j \in k + 1..i - 1 : t[j] = "compare"
  BY DEF t, ClosuresInOrder
<1>2. k + 1 \in 1..Len(s) /\ t[k] = s[k + 1] /\ k + 1 > 1
  BY <1>1
<1>3. /\ s[k + 1] \in OfClosures
      /\ k + 1 < Len(s) => Neighbours(s[k + 1], s[(k + 1) + 1])
      /\ s[k + 1] = "put" /\ k + 1 > 1 => s[(k + 1) - 1] = "reread"
      /\ s[k + 1] = "put" /\ k + 1 > 2 => s[(k + 1) - 2] = "gate"
      /\ s[k + 1] = "second" =>
            \A i \in (k + 1) + 1..Len(s) :
                /\ s[i] = "second" => \E j \in (k + 1) + 1..i - 1 : s[j] = "first"
                /\ s[i] = "put" => \E j \in (k + 1) + 1..i - 1 : s[j] = "compare"
  BY <1>2 DEF ClosuresInOrder
<1>4. k < Len(t) => Neighbours(t[k], t[k + 1])
  <2> SUFFICES ASSUME k < Len(t) PROVE Neighbours(t[k], t[k + 1])
    OBVIOUS
  <2>1. k + 1 \in 1..Len(t) /\ k + 1 < Len(s)
    BY <1>1
  <2>2. QED
    BY <1>1, <1>2, <1>3, <2>1
<1>5. t[k] = "put" /\ k > 1 => t[k - 1] = "reread"
  <2> SUFFICES ASSUME t[k] = "put", k > 1 PROVE t[k - 1] = "reread"
    OBVIOUS
  <2>1. k - 1 \in 1..Len(t) /\ (k - 1) + 1 = (k + 1) - 1
    BY <1>1
  <2>2. QED
    BY <1>1, <1>2, <1>3, <2>1
<1>6. t[k] = "put" /\ k > 2 => t[k - 2] = "gate"
  <2> SUFFICES ASSUME t[k] = "put", k > 2 PROVE t[k - 2] = "gate"
    OBVIOUS
  <2>1. k - 2 \in 1..Len(t) /\ (k - 2) + 1 = (k + 1) - 2 /\ k + 1 > 2
    BY <1>1
  <2>2. t[k - 2] = s[(k + 1) - 2]
    BY <1>1, <2>1
  <2>3. QED
    BY <1>2, <1>3, <2>1, <2>2
<1>7. ASSUME t[k] = "second", NEW i \in k + 1..Len(t),
             NEW x, \/ t[i] = "second" /\ x = "first"
                    \/ t[i] = "put" /\ x = "compare"
      PROVE  \E j \in k + 1..i - 1 : t[j] = x
  <2>1. i \in 1..Len(t) /\ i + 1 \in (k + 1) + 1..Len(s) /\ (i + 1) - 1 = i
    BY <1>1
  <2>2. s[i + 1] = t[i]
    BY <1>1, <2>1
  <2>3. PICK j \in (k + 1) + 1..i : s[j] = x
    BY <1>2, <1>3, <1>7, <2>1, <2>2
  <2>4. j - 1 \in k + 1..i - 1 /\ j - 1 \in 1..Len(t) /\ (j - 1) + 1 = j
    BY <1>1, <2>1
  <2>5. QED
    BY <1>1, <2>3, <2>4
<1>8. ASSUME t[k] = "second", NEW i \in k + 1..Len(t)
      PROVE  /\ t[i] = "second" => \E j \in k + 1..i - 1 : t[j] = "first"
             /\ t[i] = "put" => \E j \in k + 1..i - 1 : t[j] = "compare"
  BY <1>7, <1>8
<1>9. t[k] \in OfClosures
  BY <1>2, <1>3
<1>10. QED
  BY <1>4, <1>5, <1>6, <1>8, <1>9

-----------------------------------------------------------------------------
(* The programs, spelled out.                                              *)

LEMMA Flat ==
    ASSUME NEW S, NEW s \in Seq(S), NEW t \in Seq(S), NEW r \in Seq(S),
           Len(r) = Len(s) + Len(t),
           \A k \in 1..Len(s) : r[k] = s[k], \A k \in 1..Len(t) : r[Len(s) + k] = t[k]
    PROVE  s \o t = r
<1>1. /\ s \o t \in Seq(S) /\ Len(s \o t) = Len(s) + Len(t)
      /\ \A k \in 1..Len(s) + Len(t) :
            (s \o t)[k] = IF k <= Len(s) THEN s[k] ELSE t[k - Len(s)]
  BY ConcatProperties
<1>2. \A k \in 1..Len(s) + Len(t) :
         k <= Len(s) \/ (k - Len(s) \in 1..Len(t) /\ Len(s) + (k - Len(s)) = k)
  OBVIOUS
<1>3. \A k \in 1..Len(r) : (s \o t)[k] = r[k]
  BY <1>1, <1>2
<1> HIDE <1>1, <1>2
<1>4. QED
  BY <1>1, <1>3, SeqEqual

LEMMA EmptyIs == ASSUME NEW S, NEW s \in Seq(S) PROVE s \o <<>> = s /\ <<>> \o s = s
OBVIOUS

LEMMA RoundOfThree1 ==
    <<"look", "list", "legacy">> \o
    <<"first">> =
    <<"look", "list", "legacy", "first">>
<1> DEFINE s == <<"look", "list", "legacy">>
           t == <<"first">>
           r == <<"look", "list", "legacy", "first">>
<1>1. s \in Seq(Kinds) /\ t \in Seq(Kinds) /\ r \in Seq(Kinds)
  BY DEF Kinds, OfWork, OfClosures
<1>2. /\ Len(r) = Len(s) + Len(t)
      /\ \A k \in 1..Len(s) : r[k] = s[k]
      /\ \A k \in 1..Len(t) : r[Len(s) + k] = t[k]
  OBVIOUS
<1> HIDE DEF s, t, r
<1>3. s \o t = r
  BY <1>1, <1>2, Flat
<1>4. QED
  BY <1>3 DEF s, t, r

LEMMA RoundOfThree2 ==
    <<"look", "list", "legacy">> \o
    <<"second">> =
    <<"look", "list", "legacy", "second">>
<1> DEFINE s == <<"look", "list", "legacy">>
           t == <<"second">>
           r == <<"look", "list", "legacy", "second">>
<1>1. s \in Seq(Kinds) /\ t \in Seq(Kinds) /\ r \in Seq(Kinds)
  BY DEF Kinds, OfWork, OfClosures
<1>2. /\ Len(r) = Len(s) + Len(t)
      /\ \A k \in 1..Len(s) : r[k] = s[k]
      /\ \A k \in 1..Len(t) : r[Len(s) + k] = t[k]
  OBVIOUS
<1> HIDE DEF s, t, r
<1>3. s \o t = r
  BY <1>1, <1>2, Flat
<1>4. QED
  BY <1>3 DEF s, t, r

LEMMA RoundOfFour ==
    <<"look", "list", "legacy">> \o
    <<"history">> =
    <<"look", "list", "legacy", "history">>
<1> DEFINE s == <<"look", "list", "legacy">>
           t == <<"history">>
           r == <<"look", "list", "legacy", "history">>
<1>1. s \in Seq(Kinds) /\ t \in Seq(Kinds) /\ r \in Seq(Kinds)
  BY DEF Kinds, OfWork, OfClosures
<1>2. /\ Len(r) = Len(s) + Len(t)
      /\ \A k \in 1..Len(s) : r[k] = s[k]
      /\ \A k \in 1..Len(t) : r[Len(s) + k] = t[k]
  OBVIOUS
<1> HIDE DEF s, t, r
<1>3. s \o t = r
  BY <1>1, <1>2, Flat
<1>4. QED
  BY <1>3 DEF s, t, r

LEMMA RoundOfFour1 ==
    <<"look", "list", "legacy", "history">> \o
    <<"first">> =
    <<"look", "list", "legacy", "history", "first">>
<1> DEFINE s == <<"look", "list", "legacy", "history">>
           t == <<"first">>
           r == <<"look", "list", "legacy", "history", "first">>
<1>1. s \in Seq(Kinds) /\ t \in Seq(Kinds) /\ r \in Seq(Kinds)
  BY DEF Kinds, OfWork, OfClosures
<1>2. /\ Len(r) = Len(s) + Len(t)
      /\ \A k \in 1..Len(s) : r[k] = s[k]
      /\ \A k \in 1..Len(t) : r[Len(s) + k] = t[k]
  OBVIOUS
<1> HIDE DEF s, t, r
<1>3. s \o t = r
  BY <1>1, <1>2, Flat
<1>4. QED
  BY <1>3 DEF s, t, r

LEMMA RoundOfFour2 ==
    <<"look", "list", "legacy", "history">> \o
    <<"second">> =
    <<"look", "list", "legacy", "history", "second">>
<1> DEFINE s == <<"look", "list", "legacy", "history">>
           t == <<"second">>
           r == <<"look", "list", "legacy", "history", "second">>
<1>1. s \in Seq(Kinds) /\ t \in Seq(Kinds) /\ r \in Seq(Kinds)
  BY DEF Kinds, OfWork, OfClosures
<1>2. /\ Len(r) = Len(s) + Len(t)
      /\ \A k \in 1..Len(s) : r[k] = s[k]
      /\ \A k \in 1..Len(t) : r[Len(s) + k] = t[k]
  OBVIOUS
<1> HIDE DEF s, t, r
<1>3. s \o t = r
  BY <1>1, <1>2, Flat
<1>4. QED
  BY <1>3 DEF s, t, r

LEMMA TwiceThree ==
    <<"look", "list", "legacy", "first">> \o
    <<"look", "list", "legacy", "second">> =
    <<"look", "list", "legacy", "first", "look", "list", "legacy", "second">>
<1> DEFINE s == <<"look", "list", "legacy", "first">>
           t == <<"look", "list", "legacy", "second">>
           r == <<"look", "list", "legacy", "first", "look", "list", "legacy",
                  "second">>
<1>1. s \in Seq(Kinds) /\ t \in Seq(Kinds) /\ r \in Seq(Kinds)
  BY DEF Kinds, OfWork, OfClosures
<1>2. /\ Len(r) = Len(s) + Len(t)
      /\ \A k \in 1..Len(s) : r[k] = s[k]
      /\ \A k \in 1..Len(t) : r[Len(s) + k] = t[k]
  OBVIOUS
<1> HIDE DEF s, t, r
<1>3. s \o t = r
  BY <1>1, <1>2, Flat
<1>4. QED
  BY <1>3 DEF s, t, r

LEMMA TwiceFour ==
    <<"look", "list", "legacy", "history", "first">> \o
    <<"look", "list", "legacy", "history", "second">> =
    <<"look", "list", "legacy", "history", "first", "look", "list", "legacy",
      "history", "second">>
<1> DEFINE s == <<"look", "list", "legacy", "history", "first">>
           t == <<"look", "list", "legacy", "history", "second">>
           r == <<"look", "list", "legacy", "history", "first", "look", "list",
                  "legacy", "history", "second">>
<1>1. s \in Seq(Kinds) /\ t \in Seq(Kinds) /\ r \in Seq(Kinds)
  BY DEF Kinds, OfWork, OfClosures
<1>2. /\ Len(r) = Len(s) + Len(t)
      /\ \A k \in 1..Len(s) : r[k] = s[k]
      /\ \A k \in 1..Len(t) : r[Len(s) + k] = t[k]
  OBVIOUS
<1> HIDE DEF s, t, r
<1>3. s \o t = r
  BY <1>1, <1>2, Flat
<1>4. QED
  BY <1>3 DEF s, t, r

LEMMA TwiceIs ==
    /\ \A c : c # "prove" => Twice(c) = <<"look", "list", "legacy", "first", "look", "list", "legacy", "second">>
    /\ Twice("prove") = <<"look", "list", "legacy", "history", "first", "look",
                          "list", "legacy", "history", "second">>
<1>1. ASSUME NEW c, c # "prove"
      PROVE  Twice(c) = <<"look", "list", "legacy", "first", "look", "list", "legacy", "second">>
  <2>1. <<"look", "list", "legacy">> \o <<>> = <<"look", "list", "legacy">>
    <3>1. <<"look", "list", "legacy">> \in Seq(Kinds)
      BY DEF Kinds, OfWork, OfClosures
    <3>2. QED
      BY <3>1, EmptyIs
  <2>2. Round(c, "first") = <<"look", "list", "legacy", "first">>
    BY <1>1, <2>1, RoundOfThree1 DEF Round
  <2>3. Round(c, "second") = <<"look", "list", "legacy", "second">>
    BY <1>1, <2>1, RoundOfThree2 DEF Round
  <2>4. QED
    BY <2>2, <2>3, TwiceThree DEF Twice
<1>2. Twice("prove") = <<"look", "list", "legacy", "history", "first", "look",
                         "list", "legacy", "history", "second">>
  <2>1. Round("prove", "first") = <<"look", "list", "legacy", "history", "first">>
    BY RoundOfFour, RoundOfFour1 DEF Round
  <2>2. Round("prove", "second") = <<"look", "list", "legacy", "history", "second">>
    BY RoundOfFour, RoundOfFour2 DEF Round
  <2>3. QED
    BY <2>1, <2>2, TwiceFour DEF Twice
<1>3. QED
  BY <1>1, <1>2

LEMMA Derivation ==
    <<"look", "list", "legacy", "first", "look", "list", "legacy", "second">> \o
    <<"emit">> =
    <<"look", "list", "legacy", "first", "look", "list", "legacy", "second",
      "emit">>
<1> DEFINE s == <<"look", "list", "legacy", "first", "look", "list", "legacy",
                  "second">>
           t == <<"emit">>
           r == <<"look", "list", "legacy", "first", "look", "list", "legacy",
                  "second", "emit">>
<1>1. s \in Seq(Kinds) /\ t \in Seq(Kinds) /\ r \in Seq(Kinds)
  BY DEF Kinds, OfWork, OfClosures
<1>2. /\ Len(r) = Len(s) + Len(t)
      /\ \A k \in 1..Len(s) : r[k] = s[k]
      /\ \A k \in 1..Len(t) : r[Len(s) + k] = t[k]
  OBVIOUS
<1> HIDE DEF s, t, r
<1>3. s \o t = r
  BY <1>1, <1>2, Flat
<1>4. QED
  BY <1>3 DEF s, t, r

LEMMA CleanupStart ==
    <<"look", "list", "legacy", "first", "look", "list", "legacy", "second">> \o
    <<"compare">> =
    <<"look", "list", "legacy", "first", "look", "list", "legacy", "second",
      "compare">>
<1> DEFINE s == <<"look", "list", "legacy", "first", "look", "list", "legacy",
                  "second">>
           t == <<"compare">>
           r == <<"look", "list", "legacy", "first", "look", "list", "legacy",
                  "second", "compare">>
<1>1. s \in Seq(Kinds) /\ t \in Seq(Kinds) /\ r \in Seq(Kinds)
  BY DEF Kinds, OfWork, OfClosures
<1>2. /\ Len(r) = Len(s) + Len(t)
      /\ \A k \in 1..Len(s) : r[k] = s[k]
      /\ \A k \in 1..Len(t) : r[Len(s) + k] = t[k]
  OBVIOUS
<1> HIDE DEF s, t, r
<1>3. s \o t = r
  BY <1>1, <1>2, Flat
<1>4. QED
  BY <1>3 DEF s, t, r

LEMMA DryCleanup ==
    <<"look", "list", "legacy", "first", "look", "list", "legacy", "second",
      "compare">> \o
    <<"dryrun">> =
    <<"look", "list", "legacy", "first", "look", "list", "legacy", "second",
      "compare", "dryrun">>
<1> DEFINE s == <<"look", "list", "legacy", "first", "look", "list", "legacy",
                  "second", "compare">>
           t == <<"dryrun">>
           r == <<"look", "list", "legacy", "first", "look", "list", "legacy",
                  "second", "compare", "dryrun">>
<1>1. s \in Seq(Kinds) /\ t \in Seq(Kinds) /\ r \in Seq(Kinds)
  BY DEF Kinds, OfWork, OfClosures
<1>2. /\ Len(r) = Len(s) + Len(t)
      /\ \A k \in 1..Len(s) : r[k] = s[k]
      /\ \A k \in 1..Len(t) : r[Len(s) + k] = t[k]
  OBVIOUS
<1> HIDE DEF s, t, r
<1>3. s \o t = r
  BY <1>1, <1>2, Flat
<1>4. QED
  BY <1>3 DEF s, t, r

LEMMA CleanupMiddle ==
    <<"look", "list", "legacy", "first", "look", "list", "legacy", "second">> \o
    <<"compare", "gate", "reread", "put", "readback">> =
    <<"look", "list", "legacy", "first", "look", "list", "legacy", "second",
      "compare", "gate", "reread", "put", "readback">>
<1> DEFINE s == <<"look", "list", "legacy", "first", "look", "list", "legacy",
                  "second">>
           t == <<"compare", "gate", "reread", "put", "readback">>
           r == <<"look", "list", "legacy", "first", "look", "list", "legacy",
                  "second", "compare", "gate", "reread", "put", "readback">>
<1>1. s \in Seq(Kinds) /\ t \in Seq(Kinds) /\ r \in Seq(Kinds)
  BY DEF Kinds, OfWork, OfClosures
<1>2. /\ Len(r) = Len(s) + Len(t)
      /\ \A k \in 1..Len(s) : r[k] = s[k]
      /\ \A k \in 1..Len(t) : r[Len(s) + k] = t[k]
  OBVIOUS
<1> HIDE DEF s, t, r
<1>3. s \o t = r
  BY <1>1, <1>2, Flat
<1>4. QED
  BY <1>3 DEF s, t, r

LEMMA CleanupTwice ==
    <<"look", "list", "legacy", "first", "look", "list", "legacy", "second",
      "compare", "gate", "reread", "put", "readback">> \o
    <<"look", "list", "legacy", "first", "look", "list", "legacy", "second">> =
    <<"look", "list", "legacy", "first", "look", "list", "legacy", "second",
      "compare", "gate", "reread", "put", "readback", "look", "list", "legacy",
      "first", "look", "list", "legacy", "second">>
<1> DEFINE s == <<"look", "list", "legacy", "first", "look", "list", "legacy",
                  "second", "compare", "gate", "reread", "put", "readback">>
           t == <<"look", "list", "legacy", "first", "look", "list", "legacy",
                  "second">>
           r == <<"look", "list", "legacy", "first", "look", "list", "legacy",
                  "second", "compare", "gate", "reread", "put", "readback", "look",
                  "list", "legacy", "first", "look", "list", "legacy", "second">>
<1>1. s \in Seq(Kinds) /\ t \in Seq(Kinds) /\ r \in Seq(Kinds)
  BY DEF Kinds, OfWork, OfClosures
<1>2. /\ Len(r) = Len(s) + Len(t)
      /\ \A k \in 1..Len(s) : r[k] = s[k]
      /\ \A k \in 1..Len(t) : r[Len(s) + k] = t[k]
  OBVIOUS
<1> HIDE DEF s, t, r
<1>3. s \o t = r
  BY <1>1, <1>2, Flat
<1>4. QED
  BY <1>3 DEF s, t, r

LEMMA CleanupEnd ==
    <<"look", "list", "legacy", "first", "look", "list", "legacy", "second",
      "compare", "gate", "reread", "put", "readback", "look", "list", "legacy",
      "first", "look", "list", "legacy", "second">> \o
    <<"verified">> =
    <<"look", "list", "legacy", "first", "look", "list", "legacy", "second",
      "compare", "gate", "reread", "put", "readback", "look", "list", "legacy",
      "first", "look", "list", "legacy", "second", "verified">>
<1> DEFINE s == <<"look", "list", "legacy", "first", "look", "list", "legacy",
                  "second", "compare", "gate", "reread", "put", "readback", "look",
                  "list", "legacy", "first", "look", "list", "legacy", "second">>
           t == <<"verified">>
           r == <<"look", "list", "legacy", "first", "look", "list", "legacy",
                  "second", "compare", "gate", "reread", "put", "readback", "look",
                  "list", "legacy", "first", "look", "list", "legacy", "second",
                  "verified">>
<1>1. s \in Seq(Kinds) /\ t \in Seq(Kinds) /\ r \in Seq(Kinds)
  BY DEF Kinds, OfWork, OfClosures
<1>2. /\ Len(r) = Len(s) + Len(t)
      /\ \A k \in 1..Len(s) : r[k] = s[k]
      /\ \A k \in 1..Len(t) : r[Len(s) + k] = t[k]
  OBVIOUS
<1> HIDE DEF s, t, r
<1>3. s \o t = r
  BY <1>1, <1>2, Flat
<1>4. QED
  BY <1>3 DEF s, t, r

LEMMA Cleanup ==
    <<"look", "list", "legacy", "first", "look", "list", "legacy", "second",
      "compare">> \o
    <<"look", "list", "legacy", "first", "look", "list", "legacy", "second",
      "compare", "gate", "reread", "put", "readback", "look", "list", "legacy",
      "first", "look", "list", "legacy", "second", "verified">> =
    <<"look", "list", "legacy", "first", "look", "list", "legacy", "second",
      "compare", "look", "list", "legacy", "first", "look", "list", "legacy",
      "second", "compare", "gate", "reread", "put", "readback", "look", "list",
      "legacy", "first", "look", "list", "legacy", "second", "verified">>
<1> DEFINE s == <<"look", "list", "legacy", "first", "look", "list", "legacy",
                  "second", "compare">>
           t == <<"look", "list", "legacy", "first", "look", "list", "legacy",
                  "second", "compare", "gate", "reread", "put", "readback", "look",
                  "list", "legacy", "first", "look", "list", "legacy", "second",
                  "verified">>
           r == <<"look", "list", "legacy", "first", "look", "list", "legacy",
                  "second", "compare", "look", "list", "legacy", "first", "look",
                  "list", "legacy", "second", "compare", "gate", "reread", "put",
                  "readback", "look", "list", "legacy", "first", "look", "list",
                  "legacy", "second", "verified">>
<1>1. s \in Seq(Kinds) /\ t \in Seq(Kinds) /\ r \in Seq(Kinds)
  BY DEF Kinds, OfWork, OfClosures
<1>2. /\ Len(r) = Len(s) + Len(t)
      /\ \A k \in 1..Len(s) : r[k] = s[k]
      /\ \A k \in 1..Len(t) : r[Len(s) + k] = t[k]
  OBVIOUS
<1> HIDE DEF s, t, r
<1>3. s \o t = r
  BY <1>1, <1>2, Flat
<1>4. QED
  BY <1>3 DEF s, t, r

LEMMA Verification ==
    <<"look", "list", "legacy", "first", "look", "list", "legacy", "second">> \o
    <<"verified">> =
    <<"look", "list", "legacy", "first", "look", "list", "legacy", "second",
      "verified">>
<1> DEFINE s == <<"look", "list", "legacy", "first", "look", "list", "legacy",
                  "second">>
           t == <<"verified">>
           r == <<"look", "list", "legacy", "first", "look", "list", "legacy",
                  "second", "verified">>
<1>1. s \in Seq(Kinds) /\ t \in Seq(Kinds) /\ r \in Seq(Kinds)
  BY DEF Kinds, OfWork, OfClosures
<1>2. /\ Len(r) = Len(s) + Len(t)
      /\ \A k \in 1..Len(s) : r[k] = s[k]
      /\ \A k \in 1..Len(t) : r[Len(s) + k] = t[k]
  OBVIOUS
<1> HIDE DEF s, t, r
<1>3. s \o t = r
  BY <1>1, <1>2, Flat
<1>4. QED
  BY <1>3 DEF s, t, r

LEMMA Proof ==
    <<"look", "list", "legacy", "history", "first", "look", "list", "legacy",
      "history", "second">> \o
    <<"proved">> =
    <<"look", "list", "legacy", "history", "first", "look", "list", "legacy",
      "history", "second", "proved">>
<1> DEFINE s == <<"look", "list", "legacy", "history", "first", "look", "list",
                  "legacy", "history", "second">>
           t == <<"proved">>
           r == <<"look", "list", "legacy", "history", "first", "look", "list",
                  "legacy", "history", "second", "proved">>
<1>1. s \in Seq(Kinds) /\ t \in Seq(Kinds) /\ r \in Seq(Kinds)
  BY DEF Kinds, OfWork, OfClosures
<1>2. /\ Len(r) = Len(s) + Len(t)
      /\ \A k \in 1..Len(s) : r[k] = s[k]
      /\ \A k \in 1..Len(t) : r[Len(s) + k] = t[k]
  OBVIOUS
<1> HIDE DEF s, t, r
<1>3. s \o t = r
  BY <1>1, <1>2, Flat
<1>4. QED
  BY <1>3 DEF s, t, r

\* A command that reads closures begins with a round of its own, and its write comes after
\* two of them.
ClosureProgram(s) ==
    /\ s \in Seq(Kinds) /\ s # <<>> /\ Head(s) = "look" /\ ClosuresInOrder(s)
    /\ ~Due(s, {"first"}, {"second"}) /\ ~Due(s, {"second"}, Closings)
    /\ ~Due(s, {"list"}, {"put"}) /\ ~Due(s, {"compare"}, {"put"})
    /\ \A k \in 1..Len(s) : k <= 2 => s[k] # "put"

LEMMA DerivationIs ==
    ClosureProgram(<<"look", "list", "legacy", "first", "look", "list", "legacy",
                     "second", "emit">>)
<1> DEFINE s == <<"look", "list", "legacy", "first", "look", "list", "legacy",
                  "second", "emit">>
<1>1. s \in Seq(Kinds) /\ s # <<>> /\ Head(s) = "look"
  BY DEF Kinds, OfWork, OfClosures
<1>2. ClosuresInOrder(s)
  <2>1. \A k \in 1..9 :
           s[k] \in OfClosures /\ (k < 9 => Neighbours(s[k], s[k + 1]))
    BY DEF OfClosures, Neighbours
  <2>2. \A k \in 1..9 :
           /\ s[k] = "put" /\ k > 1 => s[k - 1] = "reread"
           /\ s[k] = "put" /\ k > 2 => s[k - 2] = "gate"
    OBVIOUS
  <2>3. \A k \in 1..9 : s[k] = "second" =>
           \A i \in k + 1..9 :
               /\ s[i] = "second" => \E j \in k + 1..i - 1 : s[j] = "first"
               /\ s[i] = "put" => \E j \in k + 1..i - 1 : s[j] = "compare"
    OBVIOUS
  <2>4. Len(s) = 9
    OBVIOUS
  <2> HIDE DEF s
  <2>5. \A k \in 1..Len(s) :
           s[k] \in OfClosures /\ (k < Len(s) => Neighbours(s[k], s[k + 1]))
    BY <2>1, <2>4
  <2>6. \A k \in 1..Len(s) :
           /\ s[k] = "put" /\ k > 1 => s[k - 1] = "reread"
           /\ s[k] = "put" /\ k > 2 => s[k - 2] = "gate"
    BY <2>2, <2>4
  <2>7. \A k \in 1..Len(s) : s[k] = "second" =>
           \A i \in k + 1..Len(s) :
               /\ s[i] = "second" => \E j \in k + 1..i - 1 : s[j] = "first"
               /\ s[i] = "put" => \E j \in k + 1..i - 1 : s[j] = "compare"
    BY <2>3, <2>4
  <2> HIDE <2>1, <2>2, <2>3, <2>4
  <2>8. QED
    BY <2>5, <2>6, <2>7 DEF ClosuresInOrder
<1>3. ~Due(s, {"first"}, {"second"}) /\ ~Due(s, {"second"}, Closings)
  BY DEF Due, Closings
<1>4. ~Due(s, {"list"}, {"put"}) /\ ~Due(s, {"compare"}, {"put"})
  BY DEF Due
<1>5. \A k \in 1..Len(s) : k <= 2 => s[k] # "put"
  OBVIOUS
<1> HIDE DEF s
<1>6. ClosureProgram(s)
  BY <1>1, <1>2, <1>3, <1>4, <1>5 DEF ClosureProgram
<1>7. QED
  BY <1>6 DEF s

LEMMA VerificationIs ==
    ClosureProgram(<<"look", "list", "legacy", "first", "look", "list", "legacy",
                     "second", "verified">>)
<1> DEFINE s == <<"look", "list", "legacy", "first", "look", "list", "legacy",
                  "second", "verified">>
<1>1. s \in Seq(Kinds) /\ s # <<>> /\ Head(s) = "look"
  BY DEF Kinds, OfWork, OfClosures
<1>2. ClosuresInOrder(s)
  <2>1. \A k \in 1..9 :
           s[k] \in OfClosures /\ (k < 9 => Neighbours(s[k], s[k + 1]))
    BY DEF OfClosures, Neighbours
  <2>2. \A k \in 1..9 :
           /\ s[k] = "put" /\ k > 1 => s[k - 1] = "reread"
           /\ s[k] = "put" /\ k > 2 => s[k - 2] = "gate"
    OBVIOUS
  <2>3. \A k \in 1..9 : s[k] = "second" =>
           \A i \in k + 1..9 :
               /\ s[i] = "second" => \E j \in k + 1..i - 1 : s[j] = "first"
               /\ s[i] = "put" => \E j \in k + 1..i - 1 : s[j] = "compare"
    OBVIOUS
  <2>4. Len(s) = 9
    OBVIOUS
  <2> HIDE DEF s
  <2>5. \A k \in 1..Len(s) :
           s[k] \in OfClosures /\ (k < Len(s) => Neighbours(s[k], s[k + 1]))
    BY <2>1, <2>4
  <2>6. \A k \in 1..Len(s) :
           /\ s[k] = "put" /\ k > 1 => s[k - 1] = "reread"
           /\ s[k] = "put" /\ k > 2 => s[k - 2] = "gate"
    BY <2>2, <2>4
  <2>7. \A k \in 1..Len(s) : s[k] = "second" =>
           \A i \in k + 1..Len(s) :
               /\ s[i] = "second" => \E j \in k + 1..i - 1 : s[j] = "first"
               /\ s[i] = "put" => \E j \in k + 1..i - 1 : s[j] = "compare"
    BY <2>3, <2>4
  <2> HIDE <2>1, <2>2, <2>3, <2>4
  <2>8. QED
    BY <2>5, <2>6, <2>7 DEF ClosuresInOrder
<1>3. ~Due(s, {"first"}, {"second"}) /\ ~Due(s, {"second"}, Closings)
  BY DEF Due, Closings
<1>4. ~Due(s, {"list"}, {"put"}) /\ ~Due(s, {"compare"}, {"put"})
  BY DEF Due
<1>5. \A k \in 1..Len(s) : k <= 2 => s[k] # "put"
  OBVIOUS
<1> HIDE DEF s
<1>6. ClosureProgram(s)
  BY <1>1, <1>2, <1>3, <1>4, <1>5 DEF ClosureProgram
<1>7. QED
  BY <1>6 DEF s

LEMMA ProofIs ==
    ClosureProgram(<<"look", "list", "legacy", "history", "first", "look", "list",
                     "legacy", "history", "second", "proved">>)
<1> DEFINE s == <<"look", "list", "legacy", "history", "first", "look", "list",
                  "legacy", "history", "second", "proved">>
<1>1. s \in Seq(Kinds) /\ s # <<>> /\ Head(s) = "look"
  BY DEF Kinds, OfWork, OfClosures
<1>2. ClosuresInOrder(s)
  <2>1. \A k \in 1..11 :
           s[k] \in OfClosures /\ (k < 11 => Neighbours(s[k], s[k + 1]))
    BY DEF OfClosures, Neighbours
  <2>2. \A k \in 1..11 :
           /\ s[k] = "put" /\ k > 1 => s[k - 1] = "reread"
           /\ s[k] = "put" /\ k > 2 => s[k - 2] = "gate"
    OBVIOUS
  <2>3. \A k \in 1..11 : s[k] = "second" =>
           \A i \in k + 1..11 :
               /\ s[i] = "second" => \E j \in k + 1..i - 1 : s[j] = "first"
               /\ s[i] = "put" => \E j \in k + 1..i - 1 : s[j] = "compare"
    OBVIOUS
  <2>4. Len(s) = 11
    OBVIOUS
  <2> HIDE DEF s
  <2>5. \A k \in 1..Len(s) :
           s[k] \in OfClosures /\ (k < Len(s) => Neighbours(s[k], s[k + 1]))
    BY <2>1, <2>4
  <2>6. \A k \in 1..Len(s) :
           /\ s[k] = "put" /\ k > 1 => s[k - 1] = "reread"
           /\ s[k] = "put" /\ k > 2 => s[k - 2] = "gate"
    BY <2>2, <2>4
  <2>7. \A k \in 1..Len(s) : s[k] = "second" =>
           \A i \in k + 1..Len(s) :
               /\ s[i] = "second" => \E j \in k + 1..i - 1 : s[j] = "first"
               /\ s[i] = "put" => \E j \in k + 1..i - 1 : s[j] = "compare"
    BY <2>3, <2>4
  <2> HIDE <2>1, <2>2, <2>3, <2>4
  <2>8. QED
    BY <2>5, <2>6, <2>7 DEF ClosuresInOrder
<1>3. ~Due(s, {"first"}, {"second"}) /\ ~Due(s, {"second"}, Closings)
  BY DEF Due, Closings
<1>4. ~Due(s, {"list"}, {"put"}) /\ ~Due(s, {"compare"}, {"put"})
  BY DEF Due
<1>5. \A k \in 1..Len(s) : k <= 2 => s[k] # "put"
  OBVIOUS
<1> HIDE DEF s
<1>6. ClosureProgram(s)
  BY <1>1, <1>2, <1>3, <1>4, <1>5 DEF ClosureProgram
<1>7. QED
  BY <1>6 DEF s

LEMMA DryCleanupIs ==
    ClosureProgram(<<"look", "list", "legacy", "first", "look", "list", "legacy",
                     "second", "compare", "dryrun">>)
<1> DEFINE s == <<"look", "list", "legacy", "first", "look", "list", "legacy",
                  "second", "compare", "dryrun">>
<1>1. s \in Seq(Kinds) /\ s # <<>> /\ Head(s) = "look"
  BY DEF Kinds, OfWork, OfClosures
<1>2. ClosuresInOrder(s)
  <2>1. \A k \in 1..10 :
           s[k] \in OfClosures /\ (k < 10 => Neighbours(s[k], s[k + 1]))
    BY DEF OfClosures, Neighbours
  <2>2. \A k \in 1..10 :
           /\ s[k] = "put" /\ k > 1 => s[k - 1] = "reread"
           /\ s[k] = "put" /\ k > 2 => s[k - 2] = "gate"
    OBVIOUS
  <2>3. \A k \in 1..10 : s[k] = "second" =>
           \A i \in k + 1..10 :
               /\ s[i] = "second" => \E j \in k + 1..i - 1 : s[j] = "first"
               /\ s[i] = "put" => \E j \in k + 1..i - 1 : s[j] = "compare"
    OBVIOUS
  <2>4. Len(s) = 10
    OBVIOUS
  <2> HIDE DEF s
  <2>5. \A k \in 1..Len(s) :
           s[k] \in OfClosures /\ (k < Len(s) => Neighbours(s[k], s[k + 1]))
    BY <2>1, <2>4
  <2>6. \A k \in 1..Len(s) :
           /\ s[k] = "put" /\ k > 1 => s[k - 1] = "reread"
           /\ s[k] = "put" /\ k > 2 => s[k - 2] = "gate"
    BY <2>2, <2>4
  <2>7. \A k \in 1..Len(s) : s[k] = "second" =>
           \A i \in k + 1..Len(s) :
               /\ s[i] = "second" => \E j \in k + 1..i - 1 : s[j] = "first"
               /\ s[i] = "put" => \E j \in k + 1..i - 1 : s[j] = "compare"
    BY <2>3, <2>4
  <2> HIDE <2>1, <2>2, <2>3, <2>4
  <2>8. QED
    BY <2>5, <2>6, <2>7 DEF ClosuresInOrder
<1>3. ~Due(s, {"first"}, {"second"}) /\ ~Due(s, {"second"}, Closings)
  BY DEF Due, Closings
<1>4. ~Due(s, {"list"}, {"put"}) /\ ~Due(s, {"compare"}, {"put"})
  BY DEF Due
<1>5. \A k \in 1..Len(s) : k <= 2 => s[k] # "put"
  OBVIOUS
<1> HIDE DEF s
<1>6. ClosureProgram(s)
  BY <1>1, <1>2, <1>3, <1>4, <1>5 DEF ClosureProgram
<1>7. QED
  BY <1>6 DEF s

LEMMA CleanupIs ==
    ClosureProgram(<<"look", "list", "legacy", "first", "look", "list", "legacy",
                     "second", "compare", "look", "list", "legacy", "first",
                     "look", "list", "legacy", "second", "compare", "gate",
                     "reread", "put", "readback", "look", "list", "legacy",
                     "first", "look", "list", "legacy", "second", "verified">>)
<1> DEFINE s == <<"look", "list", "legacy", "first", "look", "list", "legacy",
                  "second", "compare", "look", "list", "legacy", "first", "look",
                  "list", "legacy", "second", "compare", "gate", "reread", "put",
                  "readback", "look", "list", "legacy", "first", "look", "list",
                  "legacy", "second", "verified">>
<1>1. s \in Seq(Kinds) /\ s # <<>> /\ Head(s) = "look"
  BY DEF Kinds, OfWork, OfClosures
<1>2. ClosuresInOrder(s)
  <2>1. \A k \in 1..31 :
           s[k] \in OfClosures /\ (k < 31 => Neighbours(s[k], s[k + 1]))
    BY DEF OfClosures, Neighbours
  <2>2. \A k \in 1..31 :
           /\ s[k] = "put" /\ k > 1 => s[k - 1] = "reread"
           /\ s[k] = "put" /\ k > 2 => s[k - 2] = "gate"
    OBVIOUS
  <2>3. \A k \in 1..31 : s[k] = "second" =>
           \A i \in k + 1..31 :
               /\ s[i] = "second" => \E j \in k + 1..i - 1 : s[j] = "first"
               /\ s[i] = "put" => \E j \in k + 1..i - 1 : s[j] = "compare"
    OBVIOUS
  <2>4. Len(s) = 31
    OBVIOUS
  <2> HIDE DEF s
  <2>5. \A k \in 1..Len(s) :
           s[k] \in OfClosures /\ (k < Len(s) => Neighbours(s[k], s[k + 1]))
    BY <2>1, <2>4
  <2>6. \A k \in 1..Len(s) :
           /\ s[k] = "put" /\ k > 1 => s[k - 1] = "reread"
           /\ s[k] = "put" /\ k > 2 => s[k - 2] = "gate"
    BY <2>2, <2>4
  <2>7. \A k \in 1..Len(s) : s[k] = "second" =>
           \A i \in k + 1..Len(s) :
               /\ s[i] = "second" => \E j \in k + 1..i - 1 : s[j] = "first"
               /\ s[i] = "put" => \E j \in k + 1..i - 1 : s[j] = "compare"
    BY <2>3, <2>4
  <2> HIDE <2>1, <2>2, <2>3, <2>4
  <2>8. QED
    BY <2>5, <2>6, <2>7 DEF ClosuresInOrder
<1>3. ~Due(s, {"first"}, {"second"}) /\ ~Due(s, {"second"}, Closings)
  BY DEF Due, Closings
<1>4. ~Due(s, {"list"}, {"put"}) /\ ~Due(s, {"compare"}, {"put"})
  BY DEF Due
<1>5. \A k \in 1..Len(s) : k <= 2 => s[k] # "put"
  OBVIOUS
<1> HIDE DEF s
<1>6. ClosureProgram(s)
  BY <1>1, <1>2, <1>3, <1>4, <1>5 DEF ClosureProgram
<1>7. QED
  BY <1>6 DEF s

\* A program of staging or activation in which every read is due before a write.
WorkProgram(c, s) ==
    /\ s \in Seq(Kinds) /\ s # <<>> /\ WorkInOrder(c, s)
    /\ ~Due(s, Writes, {"done"})
    /\ ~Due(s, {"look"}, Writes) /\ ~Due(s, {"digest"}, Writes)
    /\ \A k \in 1..Len(s) : k <= 4 => s[k] # "put"

LEMMA ChoosingIs ==
    ASSUME NEW c PROVE WorkProgram(c, <<"look", "digest", "choose">>)
<1> DEFINE s == <<"look", "digest", "choose">>
<1>1. s \in Seq(Kinds) /\ s # <<>> /\ Len(s) = 3
  BY DEF Kinds, OfWork, OfClosures
<1>2. WorkInOrder(c, s)
  <2>1. \A k \in 1..3 :
           /\ s[k] \in OfWork
           /\ s[k] \in {"choose", "plan", "done", "dryrun"} => k = 3
    BY DEF OfWork
  <2>2. \A k \in 1..3 : s[k] \in Writes =>
           /\ s[3] = "done"
           /\ \E j \in k + 1..3 : s[j] = "look"
           /\ \E j \in k + 1..3 : s[j] = "digest"
    BY DEF Writes
  <2>3. \A k \in 1..3 :
           /\ s[k] = "put" /\ k > 1 => s[k - 1] = "reread"
           /\ s[k] = "put" /\ k > 4 /\ c = "activate" => s[k - 4] = "canary"
    OBVIOUS
  <2> HIDE DEF s
  <2>4. QED
    BY <1>1, <2>1, <2>2, <2>3 DEF WorkInOrder
<1>3. ~Due(s, Writes, {"done"})
  BY DEF Due, Writes
<1>4. ~Due(s, {"look"}, Writes) /\ ~Due(s, {"digest"}, Writes)
  BY DEF Due, Writes
<1>5. \A k \in 1..Len(s) : k <= 4 => s[k] # "put"
  OBVIOUS
<1> HIDE DEF s
<1>6. WorkProgram(c, s)
  BY <1>1, <1>2, <1>3, <1>4, <1>5 DEF WorkProgram
<1>7. QED
  BY <1>6 DEF s

LEMMA PlanningIs ==
    ASSUME NEW c PROVE WorkProgram(c, <<"plan">>)
<1> DEFINE s == <<"plan">>
<1>1. s \in Seq(Kinds) /\ s # <<>> /\ Len(s) = 1
  BY DEF Kinds, OfWork, OfClosures
<1>2. WorkInOrder(c, s)
  <2>1. \A k \in 1..1 :
           /\ s[k] \in OfWork
           /\ s[k] \in {"choose", "plan", "done", "dryrun"} => k = 1
    BY DEF OfWork
  <2>2. \A k \in 1..1 : s[k] \in Writes =>
           /\ s[1] = "done"
           /\ \E j \in k + 1..1 : s[j] = "look"
           /\ \E j \in k + 1..1 : s[j] = "digest"
    BY DEF Writes
  <2>3. \A k \in 1..1 :
           /\ s[k] = "put" /\ k > 1 => s[k - 1] = "reread"
           /\ s[k] = "put" /\ k > 4 /\ c = "activate" => s[k - 4] = "canary"
    OBVIOUS
  <2> HIDE DEF s
  <2>4. QED
    BY <1>1, <2>1, <2>2, <2>3 DEF WorkInOrder
<1>3. ~Due(s, Writes, {"done"})
  BY DEF Due, Writes
<1>4. ~Due(s, {"look"}, Writes) /\ ~Due(s, {"digest"}, Writes)
  BY DEF Due, Writes
<1>5. \A k \in 1..Len(s) : k <= 4 => s[k] # "put"
  OBVIOUS
<1> HIDE DEF s
<1>6. WorkProgram(c, s)
  BY <1>1, <1>2, <1>3, <1>4, <1>5 DEF WorkProgram
<1>7. QED
  BY <1>6 DEF s

LEMMA DryRunIs ==
    ASSUME NEW c PROVE WorkProgram(c, <<"dryrun">>)
<1> DEFINE s == <<"dryrun">>
<1>1. s \in Seq(Kinds) /\ s # <<>> /\ Len(s) = 1
  BY DEF Kinds, OfWork, OfClosures
<1>2. WorkInOrder(c, s)
  <2>1. \A k \in 1..1 :
           /\ s[k] \in OfWork
           /\ s[k] \in {"choose", "plan", "done", "dryrun"} => k = 1
    BY DEF OfWork
  <2>2. \A k \in 1..1 : s[k] \in Writes =>
           /\ s[1] = "done"
           /\ \E j \in k + 1..1 : s[j] = "look"
           /\ \E j \in k + 1..1 : s[j] = "digest"
    BY DEF Writes
  <2>3. \A k \in 1..1 :
           /\ s[k] = "put" /\ k > 1 => s[k - 1] = "reread"
           /\ s[k] = "put" /\ k > 4 /\ c = "activate" => s[k - 4] = "canary"
    OBVIOUS
  <2> HIDE DEF s
  <2>4. QED
    BY <1>1, <2>1, <2>2, <2>3 DEF WorkInOrder
<1>3. ~Due(s, Writes, {"done"})
  BY DEF Due, Writes
<1>4. ~Due(s, {"look"}, Writes) /\ ~Due(s, {"digest"}, Writes)
  BY DEF Due, Writes
<1>5. \A k \in 1..Len(s) : k <= 4 => s[k] # "put"
  OBVIOUS
<1> HIDE DEF s
<1>6. WorkProgram(c, s)
  BY <1>1, <1>2, <1>3, <1>4, <1>5 DEF WorkProgram
<1>7. QED
  BY <1>6 DEF s

LEMMA DryActivationIs ==
    ASSUME NEW c PROVE WorkProgram(c, <<"canary", "dryrun">>)
<1> DEFINE s == <<"canary", "dryrun">>
<1>1. s \in Seq(Kinds) /\ s # <<>> /\ Len(s) = 2
  BY DEF Kinds, OfWork, OfClosures
<1>2. WorkInOrder(c, s)
  <2>1. \A k \in 1..2 :
           /\ s[k] \in OfWork
           /\ s[k] \in {"choose", "plan", "done", "dryrun"} => k = 2
    BY DEF OfWork
  <2>2. \A k \in 1..2 : s[k] \in Writes =>
           /\ s[2] = "done"
           /\ \E j \in k + 1..2 : s[j] = "look"
           /\ \E j \in k + 1..2 : s[j] = "digest"
    BY DEF Writes
  <2>3. \A k \in 1..2 :
           /\ s[k] = "put" /\ k > 1 => s[k - 1] = "reread"
           /\ s[k] = "put" /\ k > 4 /\ c = "activate" => s[k - 4] = "canary"
    OBVIOUS
  <2> HIDE DEF s
  <2>4. QED
    BY <1>1, <2>1, <2>2, <2>3 DEF WorkInOrder
<1>3. ~Due(s, Writes, {"done"})
  BY DEF Due, Writes
<1>4. ~Due(s, {"look"}, Writes) /\ ~Due(s, {"digest"}, Writes)
  BY DEF Due, Writes
<1>5. \A k \in 1..Len(s) : k <= 4 => s[k] # "put"
  OBVIOUS
<1> HIDE DEF s
<1>6. WorkProgram(c, s)
  BY <1>1, <1>2, <1>3, <1>4, <1>5 DEF WorkProgram
<1>7. QED
  BY <1>6 DEF s

LEMMA CreationIs ==
    ASSUME NEW c PROVE WorkProgram(c, <<"look", "digest", "names", "post", "readback", "look",
                     "digest", "readback", "bound", "done">>)
<1> DEFINE s == <<"look", "digest", "names", "post", "readback", "look", "digest",
                  "readback", "bound", "done">>
<1>1. s \in Seq(Kinds) /\ s # <<>> /\ Len(s) = 10
  BY DEF Kinds, OfWork, OfClosures
<1>2. WorkInOrder(c, s)
  <2>1. \A k \in 1..10 :
           /\ s[k] \in OfWork
           /\ s[k] \in {"choose", "plan", "done", "dryrun"} => k = 10
    BY DEF OfWork
  <2>2. \A k \in 1..10 : s[k] \in Writes =>
           /\ s[10] = "done"
           /\ \E j \in k + 1..10 : s[j] = "look"
           /\ \E j \in k + 1..10 : s[j] = "digest"
    BY DEF Writes
  <2>3. \A k \in 1..10 :
           /\ s[k] = "put" /\ k > 1 => s[k - 1] = "reread"
           /\ s[k] = "put" /\ k > 4 /\ c = "activate" => s[k - 4] = "canary"
    OBVIOUS
  <2> HIDE DEF s
  <2>4. QED
    BY <1>1, <2>1, <2>2, <2>3 DEF WorkInOrder
<1>3. ~Due(s, Writes, {"done"})
  BY DEF Due, Writes
<1>4. ~Due(s, {"look"}, Writes) /\ ~Due(s, {"digest"}, Writes)
  BY DEF Due, Writes
<1>5. \A k \in 1..Len(s) : k <= 4 => s[k] # "put"
  OBVIOUS
<1> HIDE DEF s
<1>6. WorkProgram(c, s)
  BY <1>1, <1>2, <1>3, <1>4, <1>5 DEF WorkProgram
<1>7. QED
  BY <1>6 DEF s

LEMMA StagingIs ==
    WorkProgram("stage", <<"look", "digest", "reread", "digest", "reread", "put",
                     "readback", "look", "digest", "readback", "done">>)
<1> DEFINE s == <<"look", "digest", "reread", "digest", "reread", "put",
                  "readback", "look", "digest", "readback", "done">>
<1>1. s \in Seq(Kinds) /\ s # <<>> /\ Len(s) = 11
  BY DEF Kinds, OfWork, OfClosures
<1>2. WorkInOrder("stage", s)
  <2>1. \A k \in 1..11 :
           /\ s[k] \in OfWork
           /\ s[k] \in {"choose", "plan", "done", "dryrun"} => k = 11
    BY DEF OfWork
  <2>2. \A k \in 1..11 : s[k] \in Writes =>
           /\ s[11] = "done"
           /\ \E j \in k + 1..11 : s[j] = "look"
           /\ \E j \in k + 1..11 : s[j] = "digest"
    BY DEF Writes
  <2>3. \A k \in 1..11 :
           /\ s[k] = "put" /\ k > 1 => s[k - 1] = "reread"
           /\ s[k] = "put" /\ k > 4 /\ "stage" = "activate" => s[k - 4] = "canary"
    OBVIOUS
  <2> HIDE DEF s
  <2>4. QED
    BY <1>1, <2>1, <2>2, <2>3 DEF WorkInOrder
<1>3. ~Due(s, Writes, {"done"})
  BY DEF Due, Writes
<1>4. ~Due(s, {"look"}, Writes) /\ ~Due(s, {"digest"}, Writes)
  BY DEF Due, Writes
<1>5. \A k \in 1..Len(s) : k <= 4 => s[k] # "put"
  OBVIOUS
<1> HIDE DEF s
<1>6. WorkProgram("stage", s)
  BY <1>1, <1>2, <1>3, <1>4, <1>5 DEF WorkProgram
<1>7. QED
  BY <1>6 DEF s

LEMMA ActivationIs ==
    WorkProgram("activate", <<"canary", "look", "owners", "canary", "digest", "reread",
                     "digest", "canary", "look", "digest", "reread", "put",
                     "readback", "look", "digest", "readback", "done">>)
<1> DEFINE s == <<"canary", "look", "owners", "canary", "digest", "reread",
                  "digest", "canary", "look", "digest", "reread", "put",
                  "readback", "look", "digest", "readback", "done">>
<1>1. s \in Seq(Kinds) /\ s # <<>> /\ Len(s) = 17
  BY DEF Kinds, OfWork, OfClosures
<1>2. WorkInOrder("activate", s)
  <2>1. \A k \in 1..17 :
           /\ s[k] \in OfWork
           /\ s[k] \in {"choose", "plan", "done", "dryrun"} => k = 17
    BY DEF OfWork
  <2>2. \A k \in 1..17 : s[k] \in Writes =>
           /\ s[17] = "done"
           /\ \E j \in k + 1..17 : s[j] = "look"
           /\ \E j \in k + 1..17 : s[j] = "digest"
    BY DEF Writes
  <2>3. \A k \in 1..17 :
           /\ s[k] = "put" /\ k > 1 => s[k - 1] = "reread"
           /\ s[k] = "put" /\ k > 4 /\ "activate" = "activate" => s[k - 4] = "canary"
    OBVIOUS
  <2> HIDE DEF s
  <2>4. QED
    BY <1>1, <2>1, <2>2, <2>3 DEF WorkInOrder
<1>3. ~Due(s, Writes, {"done"})
  BY DEF Due, Writes
<1>4. ~Due(s, {"look"}, Writes) /\ ~Due(s, {"digest"}, Writes)
  BY DEF Due, Writes
<1>5. \A k \in 1..Len(s) : k <= 4 => s[k] # "put"
  OBVIOUS
<1> HIDE DEF s
<1>6. WorkProgram("activate", s)
  BY <1>1, <1>2, <1>3, <1>4, <1>5 DEF WorkProgram
<1>7. QED
  BY <1>6 DEF s

LEMMA StagingStart ==
    <<"look">> \o
    <<"digest", "reread", "digest">> =
    <<"look", "digest", "reread", "digest">>
<1> DEFINE s == <<"look">>
           t == <<"digest", "reread", "digest">>
           r == <<"look", "digest", "reread", "digest">>
<1>1. s \in Seq(Kinds) /\ t \in Seq(Kinds) /\ r \in Seq(Kinds)
  BY DEF Kinds, OfWork, OfClosures
<1>2. /\ Len(r) = Len(s) + Len(t)
      /\ \A k \in 1..Len(s) : r[k] = s[k]
      /\ \A k \in 1..Len(t) : r[Len(s) + k] = t[k]
  OBVIOUS
<1> HIDE DEF s, t, r
<1>3. s \o t = r
  BY <1>1, <1>2, Flat
<1>4. QED
  BY <1>3 DEF s, t, r

LEMMA StagingEnd ==
    <<"look", "digest", "reread", "digest">> \o
    <<"reread", "put", "readback", "look", "digest", "readback", "done">> =
    <<"look", "digest", "reread", "digest", "reread", "put", "readback", "look",
      "digest", "readback", "done">>
<1> DEFINE s == <<"look", "digest", "reread", "digest">>
           t == <<"reread", "put", "readback", "look", "digest", "readback",
                  "done">>
           r == <<"look", "digest", "reread", "digest", "reread", "put",
                  "readback", "look", "digest", "readback", "done">>
<1>1. s \in Seq(Kinds) /\ t \in Seq(Kinds) /\ r \in Seq(Kinds)
  BY DEF Kinds, OfWork, OfClosures
<1>2. /\ Len(r) = Len(s) + Len(t)
      /\ \A k \in 1..Len(s) : r[k] = s[k]
      /\ \A k \in 1..Len(t) : r[Len(s) + k] = t[k]
  OBVIOUS
<1> HIDE DEF s, t, r
<1>3. s \o t = r
  BY <1>1, <1>2, Flat
<1>4. QED
  BY <1>3 DEF s, t, r

LEMMA ActivationStart ==
    <<"look">> \o
    <<"owners", "canary">> =
    <<"look", "owners", "canary">>
<1> DEFINE s == <<"look">>
           t == <<"owners", "canary">>
           r == <<"look", "owners", "canary">>
<1>1. s \in Seq(Kinds) /\ t \in Seq(Kinds) /\ r \in Seq(Kinds)
  BY DEF Kinds, OfWork, OfClosures
<1>2. /\ Len(r) = Len(s) + Len(t)
      /\ \A k \in 1..Len(s) : r[k] = s[k]
      /\ \A k \in 1..Len(t) : r[Len(s) + k] = t[k]
  OBVIOUS
<1> HIDE DEF s, t, r
<1>3. s \o t = r
  BY <1>1, <1>2, Flat
<1>4. QED
  BY <1>3 DEF s, t, r

LEMMA ActivationMiddle ==
    <<"look", "owners", "canary">> \o
    <<"digest", "reread", "digest">> =
    <<"look", "owners", "canary", "digest", "reread", "digest">>
<1> DEFINE s == <<"look", "owners", "canary">>
           t == <<"digest", "reread", "digest">>
           r == <<"look", "owners", "canary", "digest", "reread", "digest">>
<1>1. s \in Seq(Kinds) /\ t \in Seq(Kinds) /\ r \in Seq(Kinds)
  BY DEF Kinds, OfWork, OfClosures
<1>2. /\ Len(r) = Len(s) + Len(t)
      /\ \A k \in 1..Len(s) : r[k] = s[k]
      /\ \A k \in 1..Len(t) : r[Len(s) + k] = t[k]
  OBVIOUS
<1> HIDE DEF s, t, r
<1>3. s \o t = r
  BY <1>1, <1>2, Flat
<1>4. QED
  BY <1>3 DEF s, t, r

LEMMA ActivationLate ==
    <<"look", "owners", "canary", "digest", "reread", "digest">> \o
    <<"canary", "look", "digest">> =
    <<"look", "owners", "canary", "digest", "reread", "digest", "canary", "look",
      "digest">>
<1> DEFINE s == <<"look", "owners", "canary", "digest", "reread", "digest">>
           t == <<"canary", "look", "digest">>
           r == <<"look", "owners", "canary", "digest", "reread", "digest",
                  "canary", "look", "digest">>
<1>1. s \in Seq(Kinds) /\ t \in Seq(Kinds) /\ r \in Seq(Kinds)
  BY DEF Kinds, OfWork, OfClosures
<1>2. /\ Len(r) = Len(s) + Len(t)
      /\ \A k \in 1..Len(s) : r[k] = s[k]
      /\ \A k \in 1..Len(t) : r[Len(s) + k] = t[k]
  OBVIOUS
<1> HIDE DEF s, t, r
<1>3. s \o t = r
  BY <1>1, <1>2, Flat
<1>4. QED
  BY <1>3 DEF s, t, r

LEMMA ActivationEnd ==
    <<"look", "owners", "canary", "digest", "reread", "digest", "canary", "look",
      "digest">> \o
    <<"reread", "put", "readback", "look", "digest", "readback", "done">> =
    <<"look", "owners", "canary", "digest", "reread", "digest", "canary", "look",
      "digest", "reread", "put", "readback", "look", "digest", "readback", "done">>
<1> DEFINE s == <<"look", "owners", "canary", "digest", "reread", "digest",
                  "canary", "look", "digest">>
           t == <<"reread", "put", "readback", "look", "digest", "readback",
                  "done">>
           r == <<"look", "owners", "canary", "digest", "reread", "digest",
                  "canary", "look", "digest", "reread", "put", "readback", "look",
                  "digest", "readback", "done">>
<1>1. s \in Seq(Kinds) /\ t \in Seq(Kinds) /\ r \in Seq(Kinds)
  BY DEF Kinds, OfWork, OfClosures
<1>2. /\ Len(r) = Len(s) + Len(t)
      /\ \A k \in 1..Len(s) : r[k] = s[k]
      /\ \A k \in 1..Len(t) : r[Len(s) + k] = t[k]
  OBVIOUS
<1> HIDE DEF s, t, r
<1>3. s \o t = r
  BY <1>1, <1>2, Flat
<1>4. QED
  BY <1>3 DEF s, t, r

LEMMA Activation ==
    <<"canary">> \o
    <<"look", "owners", "canary", "digest", "reread", "digest", "canary", "look",
      "digest", "reread", "put", "readback", "look", "digest", "readback", "done">> =
    <<"canary", "look", "owners", "canary", "digest", "reread", "digest", "canary",
      "look", "digest", "reread", "put", "readback", "look", "digest", "readback",
      "done">>
<1> DEFINE s == <<"canary">>
           t == <<"look", "owners", "canary", "digest", "reread", "digest",
                  "canary", "look", "digest", "reread", "put", "readback", "look",
                  "digest", "readback", "done">>
           r == <<"canary", "look", "owners", "canary", "digest", "reread",
                  "digest", "canary", "look", "digest", "reread", "put",
                  "readback", "look", "digest", "readback", "done">>
<1>1. s \in Seq(Kinds) /\ t \in Seq(Kinds) /\ r \in Seq(Kinds)
  BY DEF Kinds, OfWork, OfClosures
<1>2. /\ Len(r) = Len(s) + Len(t)
      /\ \A k \in 1..Len(s) : r[k] = s[k]
      /\ \A k \in 1..Len(t) : r[Len(s) + k] = t[k]
  OBVIOUS
<1> HIDE DEF s, t, r
<1>3. s \o t = r
  BY <1>1, <1>2, Flat
<1>4. QED
  BY <1>3 DEF s, t, r

LEMMA DryActivation ==
    <<"canary">> \o
    <<"dryrun">> =
    <<"canary", "dryrun">>
<1> DEFINE s == <<"canary">>
           t == <<"dryrun">>
           r == <<"canary", "dryrun">>
<1>1. s \in Seq(Kinds) /\ t \in Seq(Kinds) /\ r \in Seq(Kinds)
  BY DEF Kinds, OfWork, OfClosures
<1>2. /\ Len(r) = Len(s) + Len(t)
      /\ \A k \in 1..Len(s) : r[k] = s[k]
      /\ \A k \in 1..Len(t) : r[Len(s) + k] = t[k]
  OBVIOUS
<1> HIDE DEF s, t, r
<1>3. s \o t = r
  BY <1>1, <1>2, Flat
<1>4. QED
  BY <1>3 DEF s, t, r

LEMMA StartWorks ==
    ASSUME NEW c \in {"stage", "activate"}, NEW applying
    PROVE  /\ Steps(c, applying) = <<"look", "digest", "choose">>
           /\ WorkProgram(c, Steps(c, applying))
           /\ ~Has(Steps(c, applying), {"plan", "put", "post"})
<1>1. Steps(c, applying) = <<"look", "digest", "choose">>
  BY DEF Steps
<1>2. ~Has(<<"look", "digest", "choose">>, {"plan", "put", "post"})
  BY DEF Has
<1>3. QED
  BY <1>1, <1>2, ChoosingIs

LEMMA PlanWorks ==
    ASSUME NEW c PROVE WorkProgram(c, <<"plan">>) /\ ~Has(<<"plan">>, {"choose", "put", "post"})
BY PlanningIs DEF Has

LEMMA CreateWorks ==
    ASSUME NEW c
    PROVE  WorkProgram(c, CreateSteps) /\ ~Has(CreateSteps, {"choose", "plan", "put"})
<1>1. CASE apply
  <2>1. CreateSteps = <<"look", "digest", "names", "post", "readback", "look",
                        "digest", "readback", "bound", "done">>
    BY <1>1 DEF CreateSteps
  <2>2. ~Has(<<"look", "digest", "names", "post", "readback", "look", "digest",
               "readback", "bound", "done">>, {"choose", "plan", "put"})
    BY DEF Has
  <2>3. QED
    BY <2>1, <2>2, CreationIs
<1>2. CASE ~apply
  <2>1. CreateSteps = <<"dryrun">>
    BY <1>2 DEF CreateSteps
  <2>2. ~Has(<<"dryrun">>, {"choose", "plan", "put"})
    BY DEF Has
  <2>3. QED
    BY <2>1, <2>2, DryRunIs
<1>3. QED
  BY <1>1, <1>2

LEMMA UpdateWorks ==
    ASSUME Working
    PROVE  WorkProgram(cmd, UpdateSteps) /\ ~Has(UpdateSteps, {"choose", "plan", "post"})
<1>1. CASE cmd = "activate" /\ apply
  <2>1. UpdateSteps = <<"canary", "look", "owners", "canary", "digest", "reread",
                        "digest", "canary", "look", "digest", "reread", "put",
                        "readback", "look", "digest", "readback", "done">>
    BY <1>1, ActivationStart, ActivationMiddle, ActivationLate, ActivationEnd, Activation
    DEF UpdateSteps, IfActivating
  <2>2. ~Has(<<"canary", "look", "owners", "canary", "digest", "reread", "digest",
               "canary", "look", "digest", "reread", "put", "readback", "look",
               "digest", "readback", "done">>, {"choose", "plan", "post"})
    BY DEF Has
  <2>3. QED
    BY <1>1, <2>1, <2>2, ActivationIs
<1>2. CASE cmd = "activate" /\ ~apply
  <2>1. UpdateSteps = <<"canary", "dryrun">>
    BY <1>2, DryActivation DEF UpdateSteps, IfActivating
  <2>2. ~Has(<<"canary", "dryrun">>, {"choose", "plan", "post"})
    BY DEF Has
  <2>3. QED
    BY <1>2, <2>1, <2>2, DryActivationIs
<1>3. CASE cmd = "stage" /\ apply
  <2>1. UpdateSteps = <<"look", "digest", "reread", "digest", "reread", "put",
                        "readback", "look", "digest", "readback", "done">>
    <3>1. <<"look">> \o <<>> = <<"look">>
      <4>1. <<"look">> \in Seq(Kinds)
        BY DEF Kinds, OfWork
      <4>2. QED
        BY <4>1, EmptyIs
    <3>2. <<"look", "digest", "reread", "digest">> \o <<>> = <<"look", "digest", "reread", "digest">>
      <4>1. <<"look", "digest", "reread", "digest">> \in Seq(Kinds)
        BY DEF Kinds, OfWork
      <4>2. QED
        BY <4>1, EmptyIs
    <3>3. <<"look", "digest", "reread", "digest", "reread", "put", "readback",
            "look", "digest", "readback", "done">> \in Seq(Kinds)
      BY DEF Kinds, OfWork
    <3>4. UpdateSteps = <<>> \o <<"look", "digest", "reread", "digest", "reread", "put",
                        "readback", "look", "digest", "readback", "done">>
      BY <1>3, <3>1, <3>2, StagingStart, StagingEnd DEF UpdateSteps, IfActivating
    <3>5. QED
      BY <3>3, <3>4, EmptyIs
  <2>2. ~Has(<<"look", "digest", "reread", "digest", "reread", "put", "readback",
               "look", "digest", "readback", "done">>, {"choose", "plan", "post"})
    BY DEF Has
  <2>3. QED
    BY <1>3, <2>1, <2>2, StagingIs
<1>4. CASE cmd = "stage" /\ ~apply
  <2>1. UpdateSteps = <<"dryrun">>
    <3>1. <<"dryrun">> \in Seq(Kinds)
      BY DEF Kinds, OfWork
    <3>2. QED
      BY <1>4, <3>1, EmptyIs DEF UpdateSteps, IfActivating
  <2>2. ~Has(<<"dryrun">>, {"choose", "plan", "post"})
    BY DEF Has
  <2>3. QED
    BY <2>1, <2>2, DryRunIs
<1>5. QED
  BY <1>1, <1>2, <1>3, <1>4 DEF Working

LEMMA StartReads ==
    ASSUME NEW c \in {"derive", "cleanup", "verify", "prove"}, NEW applying \in BOOLEAN
    PROVE  /\ ClosureProgram(Steps(c, applying))
           /\ Has(Steps(c, applying), {"compare", "put"}) => c = "cleanup"
<1>1. CASE c = "derive"
  <2>1. Steps(c, applying) = <<"look", "list", "legacy", "first", "look", "list",
                               "legacy", "second", "emit">>
    BY <1>1, TwiceIs, Derivation DEF Steps
  <2>2. ~Has(<<"look", "list", "legacy", "first", "look", "list", "legacy",
               "second", "emit">>, {"compare", "put"})
    BY DEF Has
  <2>3. QED
    BY <2>1, <2>2, DerivationIs
<1>2. CASE c = "verify"
  <2>1. Steps(c, applying) = <<"look", "list", "legacy", "first", "look", "list",
                               "legacy", "second", "verified">>
    BY <1>2, TwiceIs, Verification DEF Steps
  <2>2. ~Has(<<"look", "list", "legacy", "first", "look", "list", "legacy",
               "second", "verified">>, {"compare", "put"})
    BY DEF Has
  <2>3. QED
    BY <2>1, <2>2, VerificationIs
<1>3. CASE c = "prove"
  <2>1. Steps(c, applying) = <<"look", "list", "legacy", "history", "first",
                               "look", "list", "legacy", "history", "second",
                               "proved">>
    BY <1>3, TwiceIs, Proof DEF Steps
  <2>2. ~Has(<<"look", "list", "legacy", "history", "first", "look", "list",
               "legacy", "history", "second", "proved">>, {"compare", "put"})
    BY DEF Has
  <2>3. QED
    BY <2>1, <2>2, ProofIs
<1>4. CASE c = "cleanup" /\ applying
  <2>1. Steps(c, applying) =
            <<"look", "list", "legacy", "first", "look", "list", "legacy",
              "second", "compare", "look", "list", "legacy", "first", "look",
              "list", "legacy", "second", "compare", "gate", "reread", "put",
              "readback", "look", "list", "legacy", "first", "look", "list",
              "legacy", "second", "verified">>
    BY <1>4, TwiceIs, CleanupStart, CleanupMiddle, CleanupTwice, CleanupEnd, Cleanup DEF Steps
  <2>2. QED
    BY <1>4, <2>1, CleanupIs
<1>5. CASE c = "cleanup" /\ ~applying
  <2>1. Steps(c, applying) = <<"look", "list", "legacy", "first", "look", "list",
                               "legacy", "second", "compare", "dryrun">>
    BY <1>5, TwiceIs, CleanupStart, DryCleanup DEF Steps
  <2>2. QED
    BY <1>5, <2>1, DryCleanupIs
<1>6. QED
  BY <1>1, <1>2, <1>3, <1>4, <1>5

-----------------------------------------------------------------------------
(* Rulesets.                                                               *)

LEMMA FunctionIsSequence ==
    ASSUME NEW S, NEW n \in Nat, NEW f \in [1..n -> S]
    PROVE  f \in Seq(S) /\ Len(f) = n
<1>1. f \in Seq(S)
  BY SeqDef
<1>2. QED
  BY <1>1, LenProperties

LEMMA GoneIsNone == Gone \notin Rulesets /\ Gone.name = "none"
BY DEF Gone, Rulesets

LEMMA StagedIs ==
    /\ Staged \in Rulesets /\ Staged.name = "v2" /\ ~Staged.active /\ V2IsNotLegacy(Staged)
    /\ Staged # Gone
<1>1. GateRules \in SUBSET {"strict", "pr", "nff", "deletion"}
  BY DEF GateRules
<1>2. Staged \in Rulesets /\ Staged.name = "v2" /\ ~Staged.active /\ Staged.checks = {"v2"}
  BY <1>1 DEF Staged, Rulesets
<1>3. QED
  BY <1>2, GoneIsNone DEF V2IsNotLegacy, RequiresLegacy

LEMMA EditsAre ==
    ASSUME NEW r \in Rulesets, NEW e \in Edits(r)
    PROVE  /\ e \in Rulesets \cup {Gone}
           /\ e = Gone \/ e.name = r.name
           /\ V2IsNotLegacy(r) => V2IsNotLegacy(e)
<1>1. CASE e = [r EXCEPT !.active = ~@]
  BY <1>1, GoneIsNone DEF Rulesets, V2IsNotLegacy, Covers, RequiresLegacy
<1>2. CASE e = [r EXCEPT !.checks = @ \ {"v1"}]
  BY <1>2, GoneIsNone DEF Rulesets, V2IsNotLegacy, Covers, RequiresLegacy
<1>3. CASE e = [r EXCEPT !.ref = "barred"]
  BY <1>3, GoneIsNone DEF Rulesets, V2IsNotLegacy, Covers, RequiresLegacy
<1>4. CASE e = Gone
  BY <1>4 DEF V2IsNotLegacy
<1>5. QED
  BY <1>1, <1>2, <1>3, <1>4 DEF Edits

LEMMA CleanedIs ==
    ASSUME NEW r \in Rulesets
    PROVE  /\ Cleaned(r) \in Rulesets \cup {Gone}
           /\ Cleaned(r) # Gone => Cleaned(r).name = r.name /\ ~RequiresLegacy(Cleaned(r))
<1> DEFINE checks == r.checks \ {"v1"}
           rules == IF checks = {} THEN r.rules \ {"strict"} ELSE r.rules
<1>1. checks \in SUBSET {"v1", "v2"} /\ rules \in SUBSET {"strict", "pr", "nff", "deletion"}
      /\ "v1" \notin checks
  BY DEF Rulesets
<1>2. Cleaned(r) = IF rules = {} THEN Gone ELSE [r EXCEPT !.checks = checks, !.rules = rules]
  BY DEF Cleaned
<1> HIDE DEF checks, rules
<1>3. [r EXCEPT !.checks = checks, !.rules = rules] \in Rulesets
  BY <1>1 DEF Rulesets
<1>4. /\ [r EXCEPT !.checks = checks, !.rules = rules].name = r.name
      /\ [r EXCEPT !.checks = checks, !.rules = rules].checks = checks
  BY DEF Rulesets
<1>5. QED
  BY <1>1, <1>2, <1>3, <1>4 DEF RequiresLegacy

LEMMA PostCleanupIs ==
    ASSUME NEW c \in Closures
    PROVE  /\ PostCleanup(c) \in Closures
           /\ DOMAIN PostCleanup(c).sets = DOMAIN c.sets
           /\ \A i \in DOMAIN c.sets :
                 PostCleanup(c).sets[i] =
                     IF i \in LegacyIds(c.sets) THEN Cleaned(c.sets[i]) ELSE c.sets[i]
<1> DEFINE f == [i \in DOMAIN c.sets |->
                     IF i \in LegacyIds(c.sets) THEN Cleaned(c.sets[i]) ELSE c.sets[i]]
<1>1. /\ c.sets \in Seq(Rulesets \cup {Gone}) /\ c.head \in Tips /\ c.classic \in BOOLEAN
      /\ c = [head |-> c.head, classic |-> c.classic, sets |-> c.sets]
  BY DEF Closures, RulesetLists
<1>2. Len(c.sets) \in Nat /\ DOMAIN c.sets = 1..Len(c.sets)
      /\ \A i \in DOMAIN c.sets : c.sets[i] \in Rulesets \cup {Gone}
  BY <1>1
<1>3. \A i \in DOMAIN c.sets : i \in LegacyIds(c.sets) => c.sets[i] \in Rulesets
  BY <1>2 DEF LegacyIds, Live
<1>4. f \in [1..Len(c.sets) -> Rulesets \cup {Gone}]
  BY <1>2, <1>3, CleanedIs
<1> HIDE DEF f
<1>5. f \in Seq(Rulesets \cup {Gone})
  BY <1>2, <1>4, FunctionIsSequence
<1>6. PostCleanup(c) = [head |-> c.head, classic |-> FALSE, sets |-> f]
  <2>1. PostCleanup(c) = [c EXCEPT !.classic = FALSE, !.sets = f]
    BY DEF PostCleanup, f
  <2>2. QED
    BY <1>1, <2>1
<1>7. PostCleanup(c) \in Closures /\ PostCleanup(c).sets = f
  BY <1>1, <1>5, <1>6 DEF Closures, RulesetLists
<1>8. QED
  BY <1>7 DEF f

LEMMA PlannedIs ==
    ASSUME NEW r \in Rulesets, NEW activating \in BOOLEAN,
           profile \in {"full", "status-only"},
           r.name = "v2", V2IsNotLegacy(r), ~UpdateRefused(r)
    PROVE  /\ Planned(r, activating) \in Rulesets /\ Planned(r, activating).name = "v2"
           /\ V2IsNotLegacy(Planned(r, activating))
           /\ r.active => Planned(r, activating).active /\ Matches(Planned(r, activating))
<1> DEFINE p == Planned(r, activating)
<1>1. r # Gone
  BY GoneIsNone
<1>2. CASE profile = "full"
  <2> DEFINE checks == (IF PreservesActive(r) THEN r.checks ELSE r.checks \ {"v1"}) \cup {"v2"}
             rules == r.rules \cup {"strict", "pr", "nff"}
  <2> DEFINE covered == EnsureCoverage(r)
             asked == EnsurePullRequestPolicy(covered)
             checked == EnsureStatusContext(asked, PreservesActive(r))
             complete == EnsureNonFastForwardPolicy(checked)
  <2>1. covered = [r EXCEPT !.ref = "default"]
    BY DEF EnsureCoverage
  <2>2. asked = [r EXCEPT !.ref = "default", !.rules = r.rules \cup {"pr"}]
    BY <2>1 DEF EnsurePullRequestPolicy, Rulesets
  <2>3. checked = [r EXCEPT !.ref = "default", !.checks = checks,
                            !.rules = (r.rules \cup {"pr"}) \cup {"strict"}]
    <3>1. asked.checks = r.checks /\ asked.rules = r.rules \cup {"pr"}
      BY <2>2 DEF Rulesets
    <3>2. checked = [asked EXCEPT !.checks = checks, !.rules = asked.rules \cup {"strict"}]
      BY <3>1 DEF EnsureStatusContext
    <3> HIDE DEF asked, checks, checked
    <3>3. QED
      BY <2>2, <3>1, <3>2 DEF Rulesets
  <2>4. complete = [r EXCEPT !.ref = "default", !.checks = checks, !.rules = rules]
    <3>1. ((r.rules \cup {"pr"}) \cup {"strict"}) \cup {"nff"} = rules
      OBVIOUS
    <3> HIDE DEF checks, rules, checked
    <3>2. checked.rules = (r.rules \cup {"pr"}) \cup {"strict"}
      BY <2>3 DEF Rulesets
    <3>3. complete = [checked EXCEPT !.rules = rules]
      BY <3>1, <3>2 DEF EnsureNonFastForwardPolicy
    <3> HIDE DEF complete
    <3>4. QED
      BY <2>3, <3>3 DEF Rulesets
  <2>5. p = [r EXCEPT !.ref = "default", !.checks = checks, !.rules = rules,
                      !.active = activating \/ PreservesActive(r), !.bypass = FALSE]
    <3>1. p = [complete EXCEPT !.active = activating \/ PreservesActive(r), !.bypass = FALSE]
      BY <1>2 DEF Planned
    <3> HIDE DEF p, complete, checks, rules
    <3>2. QED
      BY <2>4, <3>1 DEF Rulesets
  <2>6. /\ r.checks \in SUBSET {"v1", "v2"}
        /\ r.rules \in SUBSET {"strict", "pr", "nff", "deletion"}
        /\ checks \in SUBSET {"v1", "v2"}
        /\ rules \in SUBSET {"strict", "pr", "nff", "deletion"}
        /\ "v2" \in checks
    BY DEF Rulesets
  <2>7. PreservesActive(r) \in BOOLEAN
    BY DEF PreservesActive, Matches, Rulesets, Covers, HasGatePolicy, HasStatusOnlyPolicy
  <2>8. PreservesActive(r) => "v1" \notin r.checks
    BY <1>1 DEF PreservesActive, Matches, V2IsNotLegacy, RequiresLegacy
  <2>9. "v1" \notin checks
    BY <2>8
  <2>10. GateRules \subseteq rules
    BY <1>2 DEF GateRules
  <2> HIDE DEF checks, rules
  <2>11. /\ p \in Rulesets /\ p.name = "v2" /\ p.ref = "default" /\ ~p.bypass
        /\ p.checks = checks /\ p.rules = rules
        /\ p.active = (activating \/ PreservesActive(r))
    BY <2>5, <2>6, <2>7 DEF Rulesets
  <2> HIDE DEF p
  <2>12. r.active => PreservesActive(r)
    BY <1>2 DEF UpdateRefused
  <2>13. V2IsNotLegacy(p)
    BY <2>9, <2>11 DEF V2IsNotLegacy, RequiresLegacy
  <2>14. Matches(p)
    BY <1>2, <2>6, <2>10, <2>11 DEF Matches, Covers, HasGatePolicy
  <2>15. QED
    BY <2>11, <2>12, <2>13, <2>14 DEF p
<1>3. CASE profile = "status-only"
  <2>1. p = [r EXCEPT !.active = activating \/ r.active]
    BY <1>3 DEF Planned
  <2>2. Covers(r) /\ HasStatusOnlyPolicy(r)
    BY <1>3 DEF UpdateRefused
  <2>3. /\ p \in Rulesets /\ p.name = "v2" /\ p.ref = r.ref /\ p.bypass = r.bypass
        /\ p.checks = r.checks /\ p.rules = r.rules
        /\ p.active = (activating \/ r.active)
    BY <2>1 DEF Rulesets
  <2> HIDE DEF p
  <2>4. V2IsNotLegacy(p)
    BY <2>2, <2>3 DEF V2IsNotLegacy, RequiresLegacy, HasStatusOnlyPolicy
  <2>5. Matches(p)
    BY <1>3, <2>2, <2>3 DEF Matches, Covers, HasStatusOnlyPolicy
  <2>6. QED
    BY <2>3, <2>4, <2>5 DEF p
<1>4. QED
  BY <1>2, <1>3

LEMMA MatchesIs == \A r : Matches(r) <=> MatchesOf(profile, r)
BY DEF Matches, MatchesOf, HasGatePolicy, HasStatusOnlyPolicy, GateRules

-----------------------------------------------------------------------------
(* Types.                                                                  *)

LEMMA EmptyTyped == Empty \in Memories /\ Empty.snap = <<>>
<1>1. <<>> \in RulesetLists
  BY DEF RulesetLists
<1>2. QED
  BY <1>1 DEF Empty, Memories

LEMMA SnapIs ==
    /\ \A h, c : <<h, c>> # <<>> /\ <<h, c>>[1] = h /\ <<h, c>>[2] = c
    /\ \A s \in Snaps : s # <<>> /\ s[1] \in Tips /\ s[2] \in BOOLEAN /\ s = <<s[1], s[2]>>
    /\ head \in Tips /\ classic \in BOOLEAN => <<head, classic>> \in Snaps
BY DEF Snaps

LEMMA Typed ==
    ASSUME TypeInv
    PROVE  /\ sets \in Seq(Rulesets \cup {Gone}) /\ Len(sets) \in Nat
           /\ DOMAIN sets = 1..Len(sets)
           /\ \A i \in 1..Len(sets) : sets[i] \in Rulesets \cup {Gone}
           /\ State \in Closures
<1>1. sets \in Seq(Rulesets \cup {Gone})
  BY DEF TypeInv, RulesetLists
<1>2. State \in Closures
  BY DEF TypeInv, State, Closures
<1>3. QED
  BY <1>1, <1>2

LEMMA MemTyped ==
    ASSUME TypeInv
    PROVE  /\ mem = [snap |-> mem.snap, loaded |-> mem.loaded, first |-> mem.first,
                     pair |-> mem.pair, target |-> mem.target, gate |-> mem.gate,
                     full |-> mem.full, payload |-> mem.payload, wrote |-> mem.wrote]
           /\ mem.snap \in Snaps \cup {<<>>} /\ mem.loaded \in RulesetLists
           /\ mem.first \in Closures \cup {NoClosure} /\ mem.pair \in Closures \cup {NoClosure}
           /\ mem.target \in Nat /\ mem.gate \in Nat /\ mem.full \in Rulesets \cup {Gone}
           /\ mem.payload \in Rulesets \cup {Gone} /\ mem.wrote \in BOOLEAN
BY DEF TypeInv, Memories

LEMMA NoClosureIsNone == NoClosure \notin Closures
BY DEF NoClosure, Closures, Tips

-----------------------------------------------------------------------------
(* The end of a command.                                                   *)

Idle ==
    /\ todo' = <<>> /\ put' = NoPut /\ outcome' \in {"error", "none"}

LEMMA IdleKeeps ==
    ASSUME TypeInv', \A i \in DOMAIN sets' : V2IsNotLegacy(sets'[i]),
           plan' # NoPlan => plan'.post = PostCleanup(plan'.pre), Idle
    PROVE  Inv'
<1>1. Papers'
  BY DEF Papers, Idle
<1>2. WorkBefore' /\ WorkAfter' /\ TargetUnderWatch' /\ Remembered'
  BY DEF WorkBefore, WorkAfter, TargetUnderWatch, Remembered, Idle
<1>3. ReadingClosures' /\ Cleaning' /\ Reported'
  BY DEF ReadingClosures, Cleaning, Reported, Idle
<1>4. QED
  BY <1>1, <1>2, <1>3 DEF Inv

LEMMA AbortKeeps ==
    ASSUME Inv, Abort, UNCHANGED <<owner, cmd>>, sets' \in RulesetLists,
           \A i \in DOMAIN sets' : V2IsNotLegacy(sets'[i]),
           head' \in Tips, classic' \in BOOLEAN, canary' \in Nat
    PROVE  Inv'
<1>1. TypeInv'
  <2>1. <<>> \in Seq(Kinds)
    OBVIOUS
  <2>2. QED
    BY <2>1, EmptyTyped DEF Inv, TypeInv, Abort, Forget, owner
<1>2. plan' # NoPlan => plan'.post = PostCleanup(plan'.pre)
  BY DEF Inv, Papers, owner
<1>3. QED
  BY <1>1, <1>2, IdleKeeps DEF Abort, Forget, Idle

LEMMA ReadAborts ==
    ASSUME Inv, Abort, Reading
    PROVE  Inv'
<1>1. /\ UNCHANGED <<owner, cmd>> /\ sets' = sets /\ head' = head /\ classic' = classic
      /\ canary' = canary
  BY DEF Reading, gitHub
<1>2. /\ sets' \in RulesetLists /\ head' \in Tips /\ classic' \in BOOLEAN /\ canary' \in Nat
  BY <1>1 DEF Inv, TypeInv
<1>3. \A i \in DOMAIN sets' : V2IsNotLegacy(sets'[i])
  BY <1>1 DEF Inv, Papers
<1>4. QED
  BY <1>1, <1>2, <1>3, AbortKeeps

\* The last step of a command that stages or activates.
LEMMA WorkEnds ==
    ASSUME Inv, Working, todo # <<>>, Head(todo) \in {"choose", "plan", "done", "dryrun"},
           Reading, NEW o \in {"unchanged", "done", "dryrun"}, Succeed(o),
           o = "done" => put # NoPut
    PROVE  Inv'
<1>1. /\ todo \in Seq(Kinds) /\ WorkInOrder(cmd, todo)
  BY DEF Inv, TypeInv, Papers, StepsInOrder
<1>2. Len(todo) = 1 /\ todo[1] \notin {"look", "digest"}
  <2>1. Len(todo) \in Nat /\ Len(todo) >= 1 /\ Head(todo) = todo[1]
    BY <1>1, TailIs
  <2>2. 1 \in 1..Len(todo)
    BY <2>1
  <2>3. todo[1] \in {"choose", "plan", "done", "dryrun"} => 1 = Len(todo)
    BY <1>1, <2>2 DEF WorkInOrder
  <2>4. QED
    BY <2>1, <2>3
<1>3. ~Has(todo, {"look"}) /\ ~Has(todo, {"digest"})
  BY <1>2 DEF Has
<1>4. /\ todo' = <<>> /\ outcome' = o /\ mem' = mem /\ cmd' = cmd /\ put' = put
      /\ approved' = approved /\ again' = again /\ plan' = plan /\ sets' = sets /\ head' = head
      /\ classic' = classic /\ canary' = canary /\ profile' = profile /\ unmanaged' = unmanaged
  BY DEF Reading, Succeed, gitHub, owner, history
<1>5. TypeInv'
  <2>1. <<>> \in Seq(Kinds)
    OBVIOUS
  <2>2. QED
    BY <1>4, <2>1 DEF Inv, TypeInv
<1>6. Papers'
  BY <1>4 DEF Inv, Papers
<1>7. WorkBefore' /\ TargetUnderWatch' /\ Remembered' /\ ReadingClosures' /\ Cleaning'
  BY <1>4 DEF WorkBefore, TargetUnderWatch, Remembered, ReadingClosures, Cleaning
<1>8. WorkAfter'
  BY <1>3, <1>4 DEF Inv, WorkAfter, Working, ApprovedOf
<1>9. Reported'
  BY <1>4 DEF Reported, Working
<1>10. QED
  BY <1>5, <1>6, <1>7, <1>8, <1>9 DEF Inv

-----------------------------------------------------------------------------
(* A read that goes well.                                                  *)

Advancing ==
    /\ todo # <<>> /\ todo' = Tail(todo) /\ mem' \in Memories
    /\ Reading /\ UNCHANGED <<outcome, history>>

LEMMA Ahead ==
    ASSUME Inv, todo # <<>>
    PROVE  /\ todo \in Seq(Kinds) /\ Len(todo) \in Nat /\ Len(todo) >= 1 /\ 1 \in 1..Len(todo)
           /\ Head(todo) = todo[1] /\ Tail(todo) \in Seq(Kinds)
           /\ Len(Tail(todo)) = Len(todo) - 1
           /\ \A k \in 1..Len(todo) - 1 : Tail(todo)[k] = todo[k + 1]
           /\ Working => WorkInOrder(cmd, todo)
           /\ ~Working => ClosuresInOrder(todo)
<1>1. todo \in Seq(Kinds)
  BY DEF Inv, TypeInv
<1>2. /\ Working => WorkInOrder(cmd, todo)
      /\ ~Working => ClosuresInOrder(todo)
  BY DEF Inv, Papers, StepsInOrder
<1>3. QED
  BY <1>1, <1>2, TailIs

LEMMA AdvanceFrame ==
    ASSUME Advancing
    PROVE  /\ sets' = sets /\ head' = head /\ classic' = classic /\ canary' = canary
           /\ profile' = profile /\ unmanaged' = unmanaged /\ approved' = approved
           /\ plan' = plan /\ cmd' = cmd /\ todo' = Tail(todo) /\ outcome' = outcome
           /\ touched' = touched /\ again' = again /\ gap' = gap /\ instants' = instants
           /\ put' = put /\ State' = State /\ (Working' <=> Working)
BY DEF Advancing, Reading, gitHub, owner, history, State, Working

LEMMA AdvanceTypes ==
    ASSUME Inv, Advancing
    PROVE  TypeInv' /\ Papers' /\ Reported'
<1>1. todo # <<>> /\ Tail(todo) \in Seq(Kinds)
  BY Ahead DEF Advancing
<1>2. mem' \in Memories
  BY DEF Advancing
<1>3. TypeInv'
  BY <1>1, <1>2, AdvanceFrame DEF Inv, TypeInv
<1>4. Papers'
  <2>1. \A i \in DOMAIN sets' : V2IsNotLegacy(sets'[i])
    BY AdvanceFrame DEF Inv, Papers
  <2>2. plan' # NoPlan => plan'.post = PostCleanup(plan'.pre)
    BY AdvanceFrame DEF Inv, Papers
  <2>3. (State \in instants)'
    BY <1>1, AdvanceFrame DEF Inv, Papers
  <2>4. StepsInOrder'
    BY <1>1, Ahead, AdvanceFrame, WorkTail, ClosuresTail DEF StepsInOrder
  <2>5. cmd' = "cleanup" => (plan # NoPlan /\ InScope)'
    BY <1>1, AdvanceFrame DEF Inv, Papers, InScope, CleanupIds
  <2>6. QED
    BY <2>1, <2>2, <2>3, <2>4, <2>5 DEF Papers
<1>5. Reported'
  BY <1>1, AdvanceFrame DEF Inv, Reported
<1>6. QED
  BY <1>3, <1>4, <1>5

LEMMA AdvanceTarget ==
    ASSUME Inv, Advancing,
           Head(todo) = "reread" => mem' = mem /\ sets[mem.target] = mem.full
    PROVE  TargetUnderWatch'
<1> SUFFICES ASSUME todo' # <<>>, Head(todo') = "put"
             PROVE  (sets[mem.target] = mem.full)'
  BY DEF TargetUnderWatch
<1>1. todo # <<>> /\ todo' = Tail(todo)
  BY DEF Advancing
<1>2. Len(todo) >= 2 /\ todo[2] = "put" /\ 2 \in 1..Len(todo)
  <2>1. Len(todo') >= 1 /\ todo'[1] = "put"
    BY <1>1, Ahead, TailIs
  <2>2. QED
    BY <1>1, <2>1, Ahead
<1>3. todo[1] = "reread"
  <2>1. CASE Working
    <3>1. todo[2] = "put" /\ 2 > 1 => todo[2 - 1] = "reread"
      BY <1>1, <1>2, <2>1, Ahead DEF WorkInOrder
    <3>2. QED
      BY <1>2, <3>1
  <2>2. CASE ~Working
    <3>1. todo[2] = "put" /\ 2 > 1 => todo[2 - 1] = "reread"
      BY <1>1, <1>2, <2>2, Ahead DEF ClosuresInOrder
    <3>2. QED
      BY <1>2, <3>1
  <2>3. QED
    BY <2>1, <2>2
<1>4. Head(todo) = "reread"
  BY <1>1, <1>3, Ahead
<1>5. QED
  BY <1>4, AdvanceFrame

LEMMA AdvanceIdle ==
    ASSUME Inv, Advancing
    PROVE  /\ Working => Remembered' /\ ReadingClosures' /\ Cleaning'
           /\ ~Working => WorkBefore' /\ WorkAfter'
BY AdvanceFrame DEF Remembered, ReadingClosures, Cleaning, WorkBefore, WorkAfter

-----------------------------------------------------------------------------
(* Staging and activation: the reads.                                      *)

\* A read remembers nothing but the first snapshot.
WorkRead ==
    /\ Working /\ Advancing /\ Head(todo) \notin Writes
    /\ mem'.target = mem.target /\ mem'.full = mem.full /\ mem'.payload = mem.payload
    /\ IF Head(todo) = "look"
       THEN mem'.snap = <<head, classic>> /\ mem.snap \in {<<>>, mem'.snap}
       ELSE mem'.snap = mem.snap
    /\ Head(todo) = "digest" => Inventory(sets, classic) = approved
    /\ Head(todo) = "canary" => canary = mem.snap[1]

LEMMA InventoryIs ==
    ASSUME TypeInv, Inventory(sets, classic) = approved
    PROVE  /\ classic = approved.classic
           /\ \A i \in Nat : Listed(sets, i) = ApprovedOf(i)
<1>1. classic = approved.classic /\ approved.rulesets = {<<i, sets[i]>> : i \in LegacyIds(sets)}
  BY DEF Inventory
<1>2. ASSUME NEW i \in Nat PROVE Listed(sets, i) = ApprovedOf(i)
  <2>1. \A p : p \in ApprovedOf(i) <=> \E j \in LegacyIds(sets) : p = <<j, sets[j]>> /\ j = i
    BY <1>1 DEF ApprovedOf
  <2>2. \A p : p \in Listed(sets, i) <=> i \in LegacyIds(sets) /\ p = <<i, sets[i]>>
    BY DEF Listed
  <2>3. \A p : p \in ApprovedOf(i) <=> p \in Listed(sets, i)
    BY <2>1, <2>2
  <2>4. QED
    BY <2>3
<1>3. QED
  BY <1>1, <1>2

LEMMA WorkReadBefore ==
    ASSUME Inv, WorkRead
    PROVE  WorkBefore'
<1> USE DEF WorkRead
<1>1. /\ todo # <<>> /\ todo' = Tail(todo) /\ todo \in Seq(Kinds) /\ Advancing /\ Working
      /\ WorkInOrder(cmd, todo)
  BY Ahead DEF Advancing
<1>2. Head(todo) \notin Writes
  OBVIOUS
<1>3. \A xs : Has(todo', xs) => Has(todo, xs)
  BY <1>1, HasTail
<1>4. \A xs, ys : Due(todo', ys, xs) /\ Head(todo) \notin ys => Due(todo, ys, xs)
  BY <1>1, DueTail
<1> SUFFICES ASSUME todo' # <<>>
             PROVE  /\ (mem.snap # <<>>)' \/ todo' = <<"look", "digest", "choose">>
                    /\ Has(todo', {"plan", "put"}) => OnTarget'
                    /\ Has(todo', {"put"}) => PlanIsSafe'
                    /\ Has(todo', {"post"}) => (mem.payload = Staged /\ cmd = "stage")'
                    /\ Has(todo', {"choose", "plan"}) => (put = NoPut)'
                    /\ Due(todo', Writes, {"done"}) => (put # NoPut)'
                    /\ cmd' = "activate" /\ (\E k \in 1..Len(todo') : k <= 4 /\ todo'[k] = "put")
                          => (canary = mem.snap[1] \/ Part("canary") \in gap)'
                    /\ ~again' /\ Due(todo', {"look"}, Writes) => Since(mem.snap)'
                    /\ ~again' /\ Due(todo', {"digest"}, Writes) => SinceApproval'
  BY DEF WorkBefore
<1>5. WorkBefore /\ TypeInv /\ TypeInv'
  BY <1>1, AdvanceTypes DEF Inv
<1>6. Head(todo) # "look" => mem.snap # <<>> /\ mem'.snap = mem.snap
  <2>1. Head(<<"look", "digest", "choose">>) = "look"
    OBVIOUS
  <2>2. QED
    BY <1>1, <1>5, <2>1 DEF WorkBefore
<1>7. mem'.snap # <<>>
  BY <1>6, SnapIs
<1>8. Has(todo', {"plan", "put"}) => OnTarget'
  BY <1>1, <1>3, <1>5, AdvanceFrame DEF WorkBefore, OnTarget
<1>9. Has(todo', {"put"}) => PlanIsSafe'
  BY <1>1, <1>3, <1>5, AdvanceFrame DEF WorkBefore, PlanIsSafe
<1>10. Has(todo', {"post"}) => (mem.payload = Staged /\ cmd = "stage")'
  BY <1>1, <1>3, <1>5, AdvanceFrame DEF WorkBefore, Staged, GateRules
<1>11. Has(todo', {"choose", "plan"}) => (put = NoPut)'
  BY <1>1, <1>3, <1>5, AdvanceFrame DEF WorkBefore
<1>12. Due(todo', Writes, {"done"}) => (put # NoPut)'
  BY <1>1, <1>2, <1>4, <1>5, AdvanceFrame DEF WorkBefore
<1>13. ASSUME cmd' = "activate", NEW k \in 1..Len(todo'), k <= 4, todo'[k] = "put"
       PROVE  (canary = mem.snap[1] \/ Part("canary") \in gap)'
  <2>1. k + 1 \in 1..Len(todo) /\ todo[k + 1] = "put"
    BY <1>1, <1>13, Ahead
  <2>2. CASE k + 1 <= 4
    <3>1. canary = mem.snap[1] \/ Part("canary") \in gap
      BY <1>1, <1>5, <1>13, <2>1, <2>2, AdvanceFrame DEF WorkBefore
    <3>2. CASE Head(todo) = "look"
      <4>1. todo # <<"look", "digest", "choose">>
        BY <2>1
      <4>2. mem.snap # <<>>
        BY <1>1, <1>5, <4>1 DEF WorkBefore
      <4>3. mem'.snap = mem.snap
        BY <3>2, <4>2
      <4>4. QED
        BY <3>1, <4>3, AdvanceFrame
    <3>3. CASE Head(todo) # "look"
      BY <1>1, <1>6, <3>1, <3>3, AdvanceFrame
    <3>4. QED
      BY <3>2, <3>3
  <2>3. CASE k = 4
    <3>1. k + 1 > 4 /\ (k + 1) - 4 = 1
      BY <2>3
    <3>2. todo[1] = "canary"
      BY <1>1, <1>13, <2>1, <3>1, AdvanceFrame DEF WorkInOrder
    <3>3. Head(todo) = "canary"
      BY <1>1, <3>2, Ahead
    <3>4. QED
      BY <1>1, <1>6, <3>3, AdvanceFrame
  <2>4. QED
    BY <1>13, <2>2, <2>3
<1>14. ASSUME ~again', Due(todo', {"look"}, Writes) PROVE Since(mem.snap)'
  <2>1. CASE Head(todo) = "look"
    BY <1>1, <2>1, SnapIs, AdvanceFrame DEF Since
  <2>2. CASE Head(todo) # "look"
    <3>1. Since(mem.snap)
      BY <1>1, <1>4, <1>5, <1>14, <2>2, AdvanceFrame DEF WorkBefore
    <3>2. QED
      BY <1>1, <1>6, <2>2, <3>1, AdvanceFrame DEF Since
  <2>3. QED
    BY <2>1, <2>2
<1>15. ASSUME ~again', Due(todo', {"digest"}, Writes) PROVE SinceApproval'
  <2>1. SinceApproval
    <3>1. CASE Head(todo) = "digest"
      BY <1>5, <3>1, InventoryIs DEF SinceApproval
    <3>2. CASE Head(todo) # "digest"
      BY <1>1, <1>4, <1>5, <1>15, <3>2, AdvanceFrame DEF WorkBefore
    <3>3. QED
      BY <3>1, <3>2
  <2>2. QED
    BY <1>1, <2>1, AdvanceFrame DEF SinceApproval, ApprovedOf
<1>16. QED
  BY <1>7, <1>8, <1>9, <1>10, <1>11, <1>12, <1>13, <1>14, <1>15

LEMMA WorkReadAfter ==
    ASSUME Inv, WorkRead
    PROVE  WorkAfter'
<1> USE DEF WorkRead
<1>1. /\ todo # <<>> /\ todo' = Tail(todo) /\ todo \in Seq(Kinds) /\ Advancing /\ Working
  BY Ahead DEF Advancing
<1>2. \A xs : Has(todo, xs) => Has(todo', xs) \/ Head(todo) \in xs
  BY <1>1, HasTail
<1> SUFFICES ASSUME put # NoPut
             PROVE  /\ (put.approved = approved /\ put.sets \in RulesetLists)'
                    /\ (mem.snap # <<>>)'
                    /\ (cmd = "activate" =>
                           /\ \/ put.sets[mem.target] = [mem.payload EXCEPT !.active = FALSE]
                              \/ Ruleset(mem.target) \in put.gap
                           /\ put.canary = mem.snap[1] \/ Part("canary") \in put.gap)'
                    /\ (~again =>
                           \/ <<put.head, put.classic>> = mem.snap
                           \/ Has(todo, {"look"}) /\ Lost(mem.snap[1], mem.snap[2]))'
                    /\ (~again =>
                           \/ put.classic = approved.classic
                           \/ Has(todo, {"digest"}) /\ classic # approved.classic
                              /\ Part("classic") \in touched)'
                    /\ (~again =>
                           \A i \in Nat :
                               \/ Listed(put.sets, i) = ApprovedOf(i)
                               \/ Has(todo, {"digest"}) /\ Listed(sets, i) # ApprovedOf(i)
                                  /\ Ruleset(i) \in touched)'
  BY <1>1, AdvanceFrame DEF WorkAfter
<1>3. WorkAfter /\ TypeInv
  BY DEF Inv
<1>4. mem.snap # <<>> /\ mem'.snap = mem.snap
  BY <1>1, <1>3 DEF WorkAfter
<1>5. (put.approved = approved /\ put.sets \in RulesetLists)'
  BY <1>1, <1>3, AdvanceFrame DEF WorkAfter
<1>6. (cmd = "activate" =>
          /\ \/ put.sets[mem.target] = [mem.payload EXCEPT !.active = FALSE]
             \/ Ruleset(mem.target) \in put.gap
          /\ put.canary = mem.snap[1] \/ Part("canary") \in put.gap)'
  BY <1>1, <1>3, <1>4, AdvanceFrame DEF WorkAfter
<1>7. ASSUME ~again'
      PROVE  (\/ <<put.head, put.classic>> = mem.snap
              \/ Has(todo, {"look"}) /\ Lost(mem.snap[1], mem.snap[2]))'
  <2>1. \/ <<put.head, put.classic>> = mem.snap
        \/ Has(todo, {"look"}) /\ Lost(mem.snap[1], mem.snap[2])
    BY <1>1, <1>3, <1>7, AdvanceFrame DEF WorkAfter
  <2>2. Head(todo) = "look" => ~Lost(mem.snap[1], mem.snap[2])
    BY <1>1, <1>4, SnapIs DEF Lost
  <2>3. QED
    BY <1>1, <1>2, <1>4, <2>1, <2>2, AdvanceFrame DEF Lost
<1>8. Head(todo) = "digest" =>
          classic = approved.classic /\ \A i \in Nat : Listed(sets, i) = ApprovedOf(i)
  BY <1>1, <1>3, InventoryIs
<1>9. ASSUME ~again'
      PROVE  (\/ put.classic = approved.classic
              \/ Has(todo, {"digest"}) /\ classic # approved.classic
                 /\ Part("classic") \in touched)'
  <2>1. \/ put.classic = approved.classic
        \/ Has(todo, {"digest"}) /\ classic # approved.classic /\ Part("classic") \in touched
    BY <1>1, <1>3, <1>9, AdvanceFrame DEF WorkAfter
  <2>2. QED
    BY <1>1, <1>2, <1>8, <2>1, AdvanceFrame
<1>10. ASSUME ~again', NEW i \in Nat
       PROVE  (\/ Listed(put.sets, i) = ApprovedOf(i)
               \/ Has(todo, {"digest"}) /\ Listed(sets, i) # ApprovedOf(i)
                  /\ Ruleset(i) \in touched)'
  <2>1. \/ Listed(put.sets, i) = ApprovedOf(i)
        \/ Has(todo, {"digest"}) /\ Listed(sets, i) # ApprovedOf(i) /\ Ruleset(i) \in touched
    BY <1>1, <1>3, <1>10, AdvanceFrame DEF WorkAfter
  <2>2. QED
    BY <1>1, <1>2, <1>8, <2>1, AdvanceFrame DEF ApprovedOf
<1>11. QED
  BY <1>4, <1>5, <1>6, <1>7, <1>9, <1>10

LEMMA WorkReadKeeps ==
    ASSUME Inv, WorkRead,
           Head(todo) = "reread" => mem' = mem /\ sets[mem.target] = mem.full
    PROVE  Inv'
<1>1. Advancing /\ Working
  BY DEF WorkRead
<1>2. QED
  BY <1>1, AdvanceTypes, AdvanceTarget, AdvanceIdle, WorkReadBefore, WorkReadAfter DEF Inv

-----------------------------------------------------------------------------
(* Closures: the reads.                                                    *)

\* What a read of a closure finds, and what it remembers of it.
ClosureRead ==
    /\ ~Working /\ Advancing /\ Head(todo) \notin {"put", "first", "second"}
    /\ mem'.first = mem.first /\ mem'.pair = mem.pair
    /\ IF Head(todo) = "look"
       THEN mem'.snap = <<head, classic>> /\ mem.snap \in {<<>>, mem'.snap}
       ELSE mem'.snap = mem.snap
    /\ IF Head(todo) = "list"
       THEN /\ mem'.loaded = sets /\ mem'.gate \in Named(sets)
            /\ sets[mem'.gate].active /\ MatchesOf(profile, sets[mem'.gate])
       ELSE mem'.loaded = mem.loaded /\ mem'.gate = mem.gate
    /\ IF Head(todo) = "compare"
       THEN /\ CleanupIds = {mem'.target} /\ mem.pair = plan.pre
            /\ mem'.full = plan.pre.sets[mem'.target]
            /\ mem'.payload = plan.post.sets[mem'.target]
       ELSE /\ mem'.target = mem.target /\ mem'.full = mem.full
            /\ mem'.payload = mem.payload
    /\ Head(todo) = "gate" => sets[mem.gate] = mem.pair.sets[mem.gate]

\* What comes before what.
LEMMA ClosuresAhead ==
    ASSUME Inv, todo # <<>>, ~Working, Tail(todo) # <<>>
    PROVE  /\ Neighbours(Head(todo), Head(Tail(todo)))
           /\ Len(todo) >= 2 /\ Head(Tail(todo)) = todo[2]
<1>1. Len(todo) >= 2 /\ Head(Tail(todo)) = todo[2]
  BY Ahead, TailIs
<1>2. Neighbours(todo[1], todo[1 + 1])
  BY <1>1, Ahead DEF ClosuresInOrder
<1>3. QED
  BY <1>1, <1>2, Ahead

LEMMA ClosureReadRemembers ==
    ASSUME Inv, ClosureRead
    PROVE  Remembered'
<1> USE DEF ClosureRead
<1>1. /\ todo # <<>> /\ todo' = Tail(todo) /\ todo \in Seq(Kinds) /\ Advancing /\ ~Working
  BY Ahead DEF Advancing
<1>2. Remembered /\ TypeInv
  BY DEF Inv
<1>3. ASSUME todo' # <<>>, Head(todo') \in {"list"} \cup Rounds PROVE mem'.snap \in Snaps
  <2>1. Neighbours(Head(todo), Head(todo'))
    BY <1>1, <1>3, ClosuresAhead
  <2>2. Head(todo) \in {"look", "list", "legacy", "history"}
    BY <1>3, <2>1 DEF Neighbours, Rounds
  <2>3. CASE Head(todo) = "look"
    BY <1>2, <2>3, SnapIs DEF TypeInv
  <2>4. CASE Head(todo) # "look"
    BY <1>1, <1>2, <2>2, <2>4 DEF Remembered, Rounds
  <2>5. QED
    BY <2>3, <2>4
<1>4. ASSUME Due(todo', {"second"}, Closings) PROVE mem'.pair \in Closures
  <2>1. Due(todo, {"second"}, Closings)
    BY <1>1, <1>4, DueTail
  <2>2. QED
    BY <1>1, <1>2, <2>1 DEF Remembered
<1>5. QED
  BY <1>1, <1>3, <1>4 DEF Remembered

LEMMA ClosureReadStands ==
    ASSUME Inv, ClosureRead
    PROVE  ReadingClosures'
<1> USE DEF ClosureRead
<1>1. /\ todo # <<>> /\ todo' = Tail(todo) /\ todo \in Seq(Kinds) /\ Advancing /\ ~Working
  BY Ahead DEF Advancing
<1> SUFFICES ASSUME todo' # <<>>, ~again'
             PROVE  /\ Head(todo') = "list" => Since(mem.snap)'
                    /\ Head(todo') \in Rounds => Stands(Closure)'
                    /\ Due(todo', {"first"}, {"second"}) =>
                          /\ (mem.first # NoClosure /\ Stands(mem.first))'
                          /\ Head(todo') # "look" =>
                                (\/ mem.first \in instants
                                 \/ mem.snap[1] # mem.first.head
                                 \/ mem.snap[2] # mem.first.classic)'
                    /\ Due(todo', {"second"}, Closings) => (mem.pair \in instants)'
  BY DEF ReadingClosures
<1>2. ReadingClosures /\ Remembered /\ TypeInv /\ ~again /\ State \in instants
  BY <1>1, AdvanceFrame DEF Inv, Papers
<1>3. Neighbours(Head(todo), Head(todo'))
  BY <1>1, ClosuresAhead
<1>4. ASSUME Head(todo') = "list" PROVE Since(mem.snap)'
  <2>1. Head(todo) = "look"
    BY <1>3, <1>4 DEF Neighbours
  <2>2. QED
    BY <1>1, <2>1, SnapIs, AdvanceFrame DEF Since
<1>5. ASSUME Head(todo') \in Rounds PROVE Stands(Closure)'
  <2>1. Head(todo) \in {"list", "legacy", "history"}
    BY <1>3, <1>5 DEF Neighbours, Rounds
  <2>2. CASE Head(todo) = "list"
    <3>1. mem.snap \in Snaps /\ Since(mem.snap) /\ mem'.snap = mem.snap /\ mem'.loaded = sets
      BY <1>1, <1>2, <2>2 DEF ReadingClosures, Remembered
    <3>2. Closure' = [head |-> mem.snap[1], classic |-> mem.snap[2], sets |-> sets]
      BY <3>1 DEF Closure
    <3>3. CASE head = mem.snap[1] /\ classic = mem.snap[2]
      BY <1>1, <1>2, <3>2, <3>3, AdvanceFrame DEF Stands, State
    <3>4. CASE ~(head = mem.snap[1] /\ classic = mem.snap[2])
      BY <1>1, <3>1, <3>2, <3>4, AdvanceFrame DEF Stands, Since, Lost
    <3>5. QED
      BY <3>3, <3>4
  <2>3. CASE Head(todo) \in {"legacy", "history"}
    <3>1. Stands(Closure)
      BY <1>1, <1>2, <2>3 DEF ReadingClosures, Rounds
    <3>2. Closure' = Closure
      BY <2>3 DEF Closure
    <3>3. QED
      BY <1>1, <3>1, <3>2, AdvanceFrame DEF Stands, Lost
  <2>4. QED
    BY <2>1, <2>2, <2>3
<1>6. ASSUME Due(todo', {"first"}, {"second"})
      PROVE  /\ (mem.first # NoClosure /\ Stands(mem.first))'
             /\ Head(todo') # "look" =>
                   (\/ mem.first \in instants
                    \/ mem.snap[1] # mem.first.head \/ mem.snap[2] # mem.first.classic)'
  <2>1. Due(todo, {"first"}, {"second"})
    BY <1>1, <1>6, DueTail
  <2>2. mem.first # NoClosure /\ Stands(mem.first)
    BY <1>1, <1>2, <2>1 DEF ReadingClosures
  <2>3. (mem.first # NoClosure /\ Stands(mem.first))'
    BY <1>1, <2>2, AdvanceFrame DEF Stands, Lost
  <2>4. (\/ mem.first \in instants
         \/ mem.snap[1] # mem.first.head \/ mem.snap[2] # mem.first.classic)'
    <3>1. CASE Head(todo) = "look"
      BY <1>1, <2>2, <3>1, SnapIs, AdvanceFrame DEF Stands, Lost
    <3>2. CASE Head(todo) # "look"
      <4>1. \/ mem.first \in instants
            \/ mem.snap[1] # mem.first.head \/ mem.snap[2] # mem.first.classic
        BY <1>1, <1>2, <2>1, <3>2 DEF ReadingClosures
      <4>2. QED
        BY <1>1, <3>2, <4>1, AdvanceFrame
    <3>3. QED
      BY <3>1, <3>2
  <2>5. QED
    BY <2>3, <2>4
<1>7. ASSUME Due(todo', {"second"}, Closings) PROVE (mem.pair \in instants)'
  <2>1. Due(todo, {"second"}, Closings)
    BY <1>1, <1>7, DueTail
  <2>2. QED
    BY <1>1, <1>2, <2>1, AdvanceFrame DEF ReadingClosures
<1>8. QED
  BY <1>4, <1>5, <1>6, <1>7

\* After a look comes a list, so the write is not due before one.
LEMMA ListComesFirst ==
    ASSUME Inv, todo # <<>>, ~Working, Head(todo) \in {"look", "first"}
    PROVE  ~Due(Tail(todo), {"list"}, {"put"})
<1> SUFFICES ASSUME Due(Tail(todo), {"list"}, {"put"}) PROVE FALSE
  OBVIOUS
<1>1. PICK k \in 1..Len(Tail(todo)) :
         Tail(todo)[k] \in {"put"} /\ \A j \in 1..k - 1 : Tail(todo)[j] \notin {"list"}
  BY DEF Due
<1>2. k + 1 \in 1..Len(todo) /\ todo[k + 1] = "put" /\ 2 \in 1..Len(todo) /\ Len(todo) >= 2
      /\ \A j \in 1..k - 1 : todo[j + 1] # "list"
  BY <1>1, Ahead
<1>3. Neighbours(todo[1], todo[2])
  <2>1. Neighbours(todo[1], todo[1 + 1])
    BY <1>2, Ahead DEF ClosuresInOrder
  <2>2. QED
    BY <2>1
<1>4. CASE Head(todo) = "look"
  <2>1. todo[2] = "list"
    BY <1>3, <1>4, Ahead DEF Neighbours
  <2>2. k # 1
    BY <1>2, <2>1
  <2>3. 1 \in 1..k - 1
    BY <1>1, <2>2, Ahead
  <2>4. todo[1 + 1] # "list"
    BY <1>2, <2>3
  <2>5. QED
    BY <2>1, <2>4
<1>5. CASE Head(todo) = "first"
  <2>1. todo[2] = "look"
    BY <1>3, <1>5, Ahead DEF Neighbours
  <2>2. k # 1
    BY <1>2, <2>1
  <2>3. k >= 2 /\ 3 \in 1..Len(todo) /\ 2 < Len(todo)
    BY <1>1, <1>2, <2>2, Ahead
  <2>4. Neighbours(todo[2], todo[2 + 1])
    BY <1>2, <2>3, Ahead DEF ClosuresInOrder
  <2>5. todo[3] = "list"
    BY <2>1, <2>4 DEF Neighbours
  <2>6. k # 2
    BY <1>2, <2>5
  <2>7. 2 \in 1..k - 1
    BY <1>1, <2>3, <2>6, Ahead
  <2>8. todo[2 + 1] # "list"
    BY <1>2, <2>7
  <2>9. QED
    BY <2>5, <2>8
<1>6. QED
  BY <1>4, <1>5

\* The write comes right after the look at the gate.
LEMMA GateComesBefore ==
    ASSUME Inv, todo # <<>>, ~Working, NEW k \in 1..Len(Tail(todo)), k <= 2,
           Tail(todo)[k] = "put"
    PROVE  Head(todo) = "gate" \/ (k + 1 \in 1..Len(todo) /\ k + 1 <= 2 /\ todo[k + 1] = "put")
<1>1. k + 1 \in 1..Len(todo) /\ todo[k + 1] = "put" /\ k + 1 > 1
  BY Ahead
<1>2. CASE k = 2
  <2>1. k + 1 > 2 /\ (k + 1) - 2 = 1
    BY <1>2
  <2>2. todo[1] = "gate"
    BY <1>1, <2>1, Ahead DEF ClosuresInOrder
  <2>3. QED
    BY <2>2, Ahead
<1>3. CASE k # 2
  BY <1>1, <1>3
<1>4. QED
  BY <1>2, <1>3

LEMMA ClosureReadCleans ==
    ASSUME Inv, ClosureRead
    PROVE  Cleaning'
<1> USE DEF ClosureRead
<1>1. /\ todo # <<>> /\ todo' = Tail(todo) /\ todo \in Seq(Kinds) /\ Advancing /\ ~Working
  BY Ahead DEF Advancing
<1> SUFFICES ASSUME todo' # <<>>
             PROVE  /\ Head(todo') \in Rounds => Stronghold(mem.loaded)'
                    /\ Due(todo', {"list"}, {"put"}) /\ Head(todo') \notin Rounds =>
                          (mem.pair \in Closures /\ Stronghold(mem.pair.sets))'
                    /\ Due(todo', {"compare"}, {"put"}) =>
                          (/\ CleanupIds = {mem.target} /\ mem.pair = plan.pre
                           /\ mem.full = plan.pre.sets[mem.target]
                           /\ mem.payload = plan.post.sets[mem.target])'
                    /\ (\E k \in 1..Len(todo') : k <= 2 /\ todo'[k] = "put") =>
                          (sets[mem.gate] = mem.pair.sets[mem.gate]
                           \/ Ruleset(mem.gate) \in gap)'
                    /\ Has(todo', {"compare", "put"}) => cmd' = "cleanup"
  BY DEF Cleaning
<1>2. Cleaning /\ TypeInv /\ Len(sets) \in Nat
  BY Typed DEF Inv
<1>3. Neighbours(Head(todo), Head(todo'))
  BY <1>1, ClosuresAhead
<1>4. ASSUME Head(todo') \in Rounds PROVE Stronghold(mem.loaded)'
  <2>1. Head(todo) \in {"list", "legacy", "history"}
    BY <1>3, <1>4 DEF Neighbours, Rounds
  <2>2. CASE Head(todo) = "list"
    BY <1>1, <1>2, <2>2, AdvanceFrame DEF Stronghold, Named, Live
  <2>3. CASE Head(todo) # "list"
    <3>1. Stronghold(mem.loaded)
      BY <1>1, <1>2, <2>1, <2>3 DEF Cleaning, Rounds
    <3>2. QED
      BY <1>1, <2>3, <3>1, AdvanceFrame DEF Stronghold, Named, Live
  <2>4. QED
    BY <2>2, <2>3
<1>5. ASSUME Due(todo', {"list"}, {"put"}), Head(todo') \notin Rounds
      PROVE  (mem.pair \in Closures /\ Stronghold(mem.pair.sets))'
  <2>1. Head(todo) \notin {"look", "list", "legacy", "history"}
    <3>1. Head(todo) # "look"
      BY <1>1, <1>5, ListComesFirst
    <3>2. QED
      BY <1>3, <1>5, <3>1 DEF Neighbours, Rounds
  <2>2. Due(todo, {"list"}, {"put"})
    BY <1>1, <1>5, <2>1, DueTail
  <2>3. Head(todo) \notin Rounds
    BY <2>1 DEF Rounds
  <2>4. mem.pair \in Closures /\ Stronghold(mem.pair.sets)
    BY <1>1, <1>2, <2>2, <2>3 DEF Cleaning
  <2>5. QED
    BY <1>1, <2>1, <2>4, AdvanceFrame DEF Stronghold, Named, Live
<1>6. ASSUME Due(todo', {"compare"}, {"put"})
      PROVE  (/\ CleanupIds = {mem.target} /\ mem.pair = plan.pre
              /\ mem.full = plan.pre.sets[mem.target]
              /\ mem.payload = plan.post.sets[mem.target])'
  <2>1. /\ CleanupIds = {mem'.target} /\ mem.pair = plan.pre
        /\ mem'.full = plan.pre.sets[mem'.target]
        /\ mem'.payload = plan.post.sets[mem'.target]
    <3>1. CASE Head(todo) = "compare"
      BY <3>1
    <3>2. CASE Head(todo) # "compare"
      <4>1. Due(todo, {"compare"}, {"put"})
        BY <1>1, <1>6, <3>2, DueTail
      <4>2. QED
        BY <1>1, <1>2, <3>2, <4>1 DEF Cleaning
    <3>3. QED
      BY <3>1, <3>2
  <2>2. CleanupIds' = CleanupIds
    BY <1>1, AdvanceFrame DEF CleanupIds
  <2>3. QED
    BY <1>1, <2>1, <2>2, AdvanceFrame
<1>7. ASSUME NEW k \in 1..Len(todo'), k <= 2, todo'[k] = "put"
      PROVE  (sets[mem.gate] = mem.pair.sets[mem.gate] \/ Ruleset(mem.gate) \in gap)'
  <2>1. Head(todo) = "gate" \/ (k + 1 \in 1..Len(todo) /\ k + 1 <= 2 /\ todo[k + 1] = "put")
    BY <1>1, <1>7, GateComesBefore
  <2>2. Head(todo) # "list"
    <3>1. Head(todo) = "list" => todo[2] = "legacy"
      BY <1>1, <1>3, ClosuresAhead DEF Neighbours
    <3>2. Head(todo) = "list" => k = 1
      BY <1>1, <2>1, <1>7, Ahead
    <3>3. k = 1 => todo'[1] = Head(todo')
      BY <1>1, <1>7, Ahead, TailIs
    <3>4. QED
      BY <1>3, <1>7, <3>2, <3>3 DEF Neighbours
  <2>3. sets[mem.gate] = mem.pair.sets[mem.gate] \/ Ruleset(mem.gate) \in gap
    BY <1>1, <1>2, <2>1 DEF Cleaning
  <2>4. QED
    BY <1>1, <2>2, <2>3, AdvanceFrame
<1>8. Has(todo', {"compare", "put"}) => cmd' = "cleanup"
  BY <1>1, <1>2, HasTail, AdvanceFrame DEF Cleaning
<1>9. QED
  BY <1>4, <1>5, <1>6, <1>7, <1>8

LEMMA ClosureReadKeeps ==
    ASSUME Inv, ClosureRead,
           Head(todo) = "reread" => mem' = mem /\ sets[mem.target] = mem.full
    PROVE  Inv'
<1>1. Advancing /\ ~Working
  BY DEF ClosureRead
<1>2. QED
  BY <1>1, AdvanceTypes, AdvanceTarget, AdvanceIdle, ClosureReadRemembers, ClosureReadStands,
     ClosureReadCleans DEF Inv

-----------------------------------------------------------------------------
(* Closures: the ends of the rounds.                                       *)

FirstEnds ==
    /\ ~Working /\ Advancing /\ Head(todo) = "first"
    /\ mem' = [mem EXCEPT !.snap = <<>>, !.loaded = <<>>, !.first = Closure]

LEMMA ClosureIs ==
    ASSUME TypeInv, mem.snap \in Snaps
    PROVE  Closure \in Closures /\ Closure.sets = mem.loaded
           /\ Closure.head = mem.snap[1] /\ Closure.classic = mem.snap[2]
BY SnapIs, MemTyped DEF Closure, Closures

LEMMA FirstRemembers ==
    ASSUME Inv, todo # <<>>, ~Working, Head(todo) \in {"first", "second"}
    PROVE  [mem EXCEPT !.snap = <<>>, !.loaded = <<>>, !.first = Closure] \in Memories
           /\ [mem EXCEPT !.snap = <<>>, !.loaded = <<>>, !.first = NoClosure,
                          !.pair = Closure] \in Memories
           /\ mem.snap \in Snaps
<1>1. TypeInv /\ Remembered
  BY DEF Inv
<1>2. mem.snap \in Snaps
  BY <1>1 DEF Remembered, Rounds
<1>3. Closure \in Closures
  BY <1>1, <1>2, ClosureIs
<1>4. <<>> \in RulesetLists
  BY DEF RulesetLists
<1>5. QED
  BY <1>1, <1>2, <1>3, <1>4 DEF TypeInv, Memories

LEMMA FirstEndsKeeps ==
    ASSUME Inv, FirstEnds
    PROVE  Inv'
<1> USE DEF FirstEnds
<1>1. /\ todo # <<>> /\ todo' = Tail(todo) /\ todo \in Seq(Kinds) /\ Advancing /\ ~Working
  BY Ahead DEF Advancing
<1>2. TypeInv /\ Remembered /\ ReadingClosures /\ Cleaning
  BY DEF Inv
<1>3. mem.snap \in Snaps
  BY <1>1, FirstRemembers
<1>4. /\ mem'.snap = <<>> /\ mem'.first = Closure /\ mem'.pair = mem.pair
      /\ mem'.target = mem.target /\ mem'.gate = mem.gate /\ mem'.full = mem.full
      /\ mem'.payload = mem.payload
  BY <1>2, MemTyped
<1>5. todo' # <<>> => Head(todo') = "look"
  BY <1>1, ClosuresAhead DEF Neighbours
<1>6. Closure \in Closures /\ Closure # NoClosure
  BY <1>2, <1>3, ClosureIs, NoClosureIsNone
<1>7. \A xs : Has(todo', xs) => Has(todo, xs)
  BY <1>1, HasTail
<1>8. \A xs, ys : Due(todo', ys, xs) /\ "first" \notin ys => Due(todo, ys, xs)
  BY <1>1, DueTail
<1>9. Remembered'
  <2>1. Head(todo') = "look" => Head(todo') \notin {"list"} \cup Rounds
    BY DEF Rounds
  <2>2. Due(todo', {"second"}, Closings) => mem'.pair \in Closures
    BY <1>1, <1>2, <1>4, <1>8 DEF Remembered
  <2>3. QED
    BY <1>5, <2>1, <2>2 DEF Remembered
<1>10. ReadingClosures'
  <2> SUFFICES ASSUME todo' # <<>>, ~again'
               PROVE  /\ (mem.first # NoClosure /\ Stands(mem.first))'
                      /\ Due(todo', {"second"}, Closings) => (mem.pair \in instants)'
    BY <1>5 DEF ReadingClosures, Rounds
  <2>1. Stands(Closure)
    BY <1>1, <1>2, AdvanceFrame DEF ReadingClosures, Rounds
  <2>2. (mem.first # NoClosure /\ Stands(mem.first))'
    BY <1>1, <1>4, <1>6, <2>1, AdvanceFrame DEF Stands, Lost
  <2>3. Due(todo', {"second"}, Closings) => (mem.pair \in instants)'
    BY <1>1, <1>2, <1>4, <1>8, AdvanceFrame DEF ReadingClosures
  <2>4. QED
    BY <2>2, <2>3
<1>11. Cleaning'
  <2> SUFFICES ASSUME todo' # <<>>
               PROVE  /\ ~Due(todo', {"list"}, {"put"})
                      /\ Due(todo', {"compare"}, {"put"}) =>
                            (/\ CleanupIds = {mem.target} /\ mem.pair = plan.pre
                             /\ mem.full = plan.pre.sets[mem.target]
                             /\ mem.payload = plan.post.sets[mem.target])'
                      /\ \A k \in 1..Len(todo') : k <= 2 /\ todo'[k] = "put" =>
                            (sets[mem.gate] = mem.pair.sets[mem.gate]
                             \/ Ruleset(mem.gate) \in gap)'
                      /\ Has(todo', {"compare", "put"}) => cmd' = "cleanup"
    BY <1>5 DEF Cleaning, Rounds
  <2>1. ~Due(todo', {"list"}, {"put"})
    BY <1>1, ListComesFirst
  <2>2. ASSUME Due(todo', {"compare"}, {"put"})
        PROVE  (/\ CleanupIds = {mem.target} /\ mem.pair = plan.pre
                /\ mem.full = plan.pre.sets[mem.target]
                /\ mem.payload = plan.post.sets[mem.target])'
    BY <1>1, <1>2, <1>4, <1>8, <2>2, AdvanceFrame DEF Cleaning, CleanupIds
  <2>3. ASSUME NEW k \in 1..Len(todo'), k <= 2, todo'[k] = "put"
        PROVE  (sets[mem.gate] = mem.pair.sets[mem.gate] \/ Ruleset(mem.gate) \in gap)'
    <3>1. k + 1 \in 1..Len(todo) /\ k + 1 <= 2 /\ todo[k + 1] = "put"
      BY <1>1, <2>3, GateComesBefore
    <3>2. sets[mem.gate] = mem.pair.sets[mem.gate] \/ Ruleset(mem.gate) \in gap
      BY <1>1, <1>2, <3>1 DEF Cleaning
    <3>3. QED
      BY <1>1, <1>4, <3>2, AdvanceFrame
  <2>4. Has(todo', {"compare", "put"}) => cmd' = "cleanup"
    BY <1>1, <1>2, <1>7, AdvanceFrame DEF Cleaning
  <2>5. QED
    BY <2>1, <2>2, <2>3, <2>4
<1>12. QED
  BY <1>1, <1>9, <1>10, <1>11, AdvanceTypes, AdvanceTarget, AdvanceIdle DEF Inv

SecondEnds ==
    /\ ~Working /\ Advancing /\ Head(todo) = "second" /\ Same(Closure)
    /\ mem' = [mem EXCEPT !.snap = <<>>, !.loaded = <<>>, !.first = NoClosure,
                          !.pair = Closure]

\* After a second round, a first one comes before another, and a comparison before the write.
LEMMA NoSecondIsDue ==
    ASSUME Inv, todo # <<>>, ~Working, Head(todo) = "second",
           NEW x, NEW y, \/ x = "second" /\ y = "first"
                         \/ x = "put" /\ y = "compare"
    PROVE  ~Due(Tail(todo), {y}, {x})
<1> SUFFICES ASSUME Due(Tail(todo), {y}, {x}) PROVE FALSE
  OBVIOUS
<1>1. PICK k \in 1..Len(Tail(todo)) :
         Tail(todo)[k] \in {x} /\ \A j \in 1..k - 1 : Tail(todo)[j] \notin {y}
  BY DEF Due
<1>2. k + 1 \in 1..Len(todo) /\ k + 1 \in 1 + 1..Len(todo) /\ todo[k + 1] = x
  BY <1>1, Ahead
<1>3. todo[1] = "second"
  BY Ahead
<1>4. \E j \in 1 + 1..(k + 1) - 1 : todo[j] = y
  BY <1>2, <1>3, Ahead DEF ClosuresInOrder
<1>5. PICK j \in 1 + 1..(k + 1) - 1 : todo[j] = y
  BY <1>4
<1>6. j - 1 \in 1..k - 1 /\ j - 1 \in 1..Len(todo) - 1 /\ (j - 1) + 1 = j
  BY <1>2, <1>5, Ahead
<1>7. Tail(todo)[j - 1] = y
  BY <1>5, <1>6, Ahead
<1>8. QED
  BY <1>1, <1>6, <1>7

LEMMA SecondEndsKeeps ==
    ASSUME Inv, SecondEnds
    PROVE  Inv'
<1> USE DEF SecondEnds
<1>1. /\ todo # <<>> /\ todo' = Tail(todo) /\ todo \in Seq(Kinds) /\ Advancing /\ ~Working
  BY Ahead DEF Advancing
<1>2. TypeInv /\ Remembered /\ ReadingClosures /\ Cleaning
  BY DEF Inv
<1>3. mem.snap \in Snaps
  BY <1>1, FirstRemembers
<1>4. /\ mem'.snap = <<>> /\ mem'.pair = Closure
      /\ mem'.target = mem.target /\ mem'.gate = mem.gate /\ mem'.full = mem.full
      /\ mem'.payload = mem.payload
  BY <1>2, MemTyped
<1>5. todo' # <<>> => Head(todo') \notin {"list"} \cup Rounds
  BY <1>1, ClosuresAhead DEF Neighbours, Rounds
<1>6. /\ Closure \in Closures /\ Closure.sets = mem.loaded
      /\ Closure.head = mem.snap[1] /\ Closure.classic = mem.snap[2] /\ mem.first = Closure
  BY <1>2, <1>3, ClosureIs DEF Same
<1>7. \A xs : Has(todo', xs) => Has(todo, xs)
  BY <1>1, HasTail
<1>8. \A xs, ys : Due(todo', ys, xs) /\ "second" \notin ys => Due(todo, ys, xs)
  BY <1>1, DueTail
<1>9. Remembered'
  BY <1>4, <1>5, <1>6 DEF Remembered
<1>10. ReadingClosures'
  <2> SUFFICES ASSUME todo' # <<>>, ~again'
               PROVE  /\ ~Due(todo', {"first"}, {"second"})
                      /\ (mem.pair \in instants)'
    BY <1>5 DEF ReadingClosures
  <2>1. ~Due(todo', {"first"}, {"second"})
    BY <1>1, NoSecondIsDue
  <2>2. Due(todo, {"first"}, {"second"})
    BY <1>1, DueHead
  <2>3. Closure \in instants
    BY <1>1, <1>2, <1>6, <2>2, AdvanceFrame DEF ReadingClosures
  <2>4. QED
    BY <1>1, <1>4, <2>1, <2>3, AdvanceFrame
<1>11. Cleaning'
  <2> SUFFICES ASSUME todo' # <<>>
               PROVE  /\ (mem.pair \in Closures /\ Stronghold(mem.pair.sets))'
                      /\ ~Due(todo', {"compare"}, {"put"})
                      /\ \A k \in 1..Len(todo') : k <= 2 => todo'[k] # "put"
                      /\ Has(todo', {"compare", "put"}) => cmd' = "cleanup"
    BY <1>5 DEF Cleaning
  <2>1. Stronghold(mem.loaded)
    BY <1>1, <1>2 DEF Cleaning, Rounds
  <2>2. (mem.pair \in Closures /\ Stronghold(mem.pair.sets))'
    BY <1>1, <1>4, <1>6, <2>1, AdvanceFrame DEF Stronghold, Named, Live
  <2>3. ~Due(todo', {"compare"}, {"put"})
    BY <1>1, NoSecondIsDue
  <2>4. ASSUME NEW k \in 1..Len(todo'), k <= 2, todo'[k] = "put"
        PROVE  FALSE
    <3>1. k + 1 \in 1..Len(todo) /\ k + 1 <= 2 /\ todo[k + 1] = "put"
      BY <1>1, <2>4, GateComesBefore
    <3>2. k + 1 \in 1 + 1..Len(todo) /\ todo[1] = "second"
      BY <1>1, <3>1, Ahead
    <3>3. \E j \in 1 + 1..(k + 1) - 1 : todo[j] = "compare"
      BY <1>1, <3>1, <3>2, Ahead DEF ClosuresInOrder
    <3>4. QED
      BY <3>1, <3>3
  <2>5. Has(todo', {"compare", "put"}) => cmd' = "cleanup"
    BY <1>1, <1>2, <1>7, AdvanceFrame DEF Cleaning
  <2>6. QED
    BY <2>2, <2>3, <2>4, <2>5
<1>12. QED
  BY <1>1, <1>9, <1>10, <1>11, AdvanceTypes, AdvanceTarget, AdvanceIdle DEF Inv

-----------------------------------------------------------------------------
(* The beginning of a program.                                             *)

LEMMA HeadTells ==
    ASSUME Inv, todo # <<>>
    PROVE  (Working => Head(todo) \in OfWork) /\ (~Working => Head(todo) \in OfClosures)
<1>1. 1 \in 1..Len(todo) /\ Head(todo) = todo[1]
  BY Ahead
<1>2. Working => todo[1] \in OfWork
  BY <1>1, Ahead DEF WorkInOrder
<1>3. ~Working => todo[1] \in OfClosures
  BY <1>1, Ahead DEF ClosuresInOrder
<1>4. QED
  BY <1>1, <1>2, <1>3

LEMMA ReadingBegins ==
    ASSUME Working' = FALSE, ClosureProgram(todo'), Has(todo', {"compare", "put"}) => cmd' = "cleanup"
    PROVE  (/\ WorkBefore /\ WorkAfter /\ TargetUnderWatch
            /\ Remembered /\ ReadingClosures /\ Cleaning)'
<1>1. /\ Head(todo') = "look"
      /\ ~Due(todo', {"first"}, {"second"}) /\ ~Due(todo', {"second"}, Closings)
      /\ ~Due(todo', {"list"}, {"put"}) /\ ~Due(todo', {"compare"}, {"put"})
      /\ \A k \in 1..Len(todo') : k <= 2 => todo'[k] # "put"
  BY DEF ClosureProgram
<1>2. Head(todo') \notin {"list", "put"} \cup Rounds
  BY <1>1 DEF Rounds
<1>3. WorkBefore' /\ WorkAfter' /\ TargetUnderWatch'
  BY <1>2 DEF WorkBefore, WorkAfter, TargetUnderWatch
<1>4. Remembered' /\ ReadingClosures'
  BY <1>1, <1>2 DEF Remembered, ReadingClosures
<1>5. Cleaning'
  BY <1>1, <1>2 DEF Cleaning
<1>6. QED
  BY <1>3, <1>4, <1>5

LEMMA WorkBegins ==
    ASSUME Working', put' = NoPut, WorkProgram(cmd', todo'),
           mem'.snap # <<>> \/ todo' = <<"look", "digest", "choose">>,
           Has(todo', {"plan", "put"}) => OnTarget',
           Has(todo', {"put"}) => PlanIsSafe',
           Has(todo', {"post"}) => (mem.payload = Staged /\ cmd = "stage")'
    PROVE  (/\ WorkBefore /\ WorkAfter /\ TargetUnderWatch
            /\ Remembered /\ ReadingClosures /\ Cleaning)'
<1>1. /\ todo' \in Seq(Kinds) /\ todo' # <<>>
      /\ ~Due(todo', Writes, {"done"})
      /\ ~Due(todo', {"look"}, Writes) /\ ~Due(todo', {"digest"}, Writes)
      /\ \A k \in 1..Len(todo') : k <= 4 => todo'[k] # "put"
  BY DEF WorkProgram
<1>2. Head(todo') # "put"
  BY <1>1, TailIs
<1>3. WorkBefore'
  BY <1>1 DEF WorkBefore
<1>4. WorkAfter' /\ TargetUnderWatch' /\ Remembered' /\ ReadingClosures' /\ Cleaning'
  BY <1>2 DEF WorkAfter, TargetUnderWatch, Remembered, ReadingClosures, Cleaning
<1>5. QED
  BY <1>3, <1>4

\* A command goes on with another program.
LEMMA ProgramTypes ==
    ASSUME Inv, todo # <<>>, Reading, UNCHANGED <<outcome, history>>,
           todo' \in Seq(Kinds), StepsInOrder', mem' \in Memories
    PROVE  TypeInv' /\ Papers' /\ Reported'
<1>1. /\ sets' = sets /\ head' = head /\ classic' = classic /\ canary' = canary
      /\ profile' = profile /\ unmanaged' = unmanaged /\ approved' = approved
      /\ plan' = plan /\ cmd' = cmd /\ outcome' = outcome /\ again' = again
      /\ instants' = instants /\ put' = put /\ State' = State
  BY DEF Reading, gitHub, owner, history, State
<1>2. TypeInv'
  BY <1>1 DEF Inv, TypeInv
<1>3. Papers'
  <2>1. \A i \in DOMAIN sets' : V2IsNotLegacy(sets'[i])
    BY <1>1 DEF Inv, Papers
  <2>2. plan' # NoPlan => plan'.post = PostCleanup(plan'.pre)
    BY <1>1 DEF Inv, Papers
  <2>3. (State \in instants)'
    BY <1>1 DEF Inv, Papers
  <2>4. cmd' = "cleanup" => (plan # NoPlan /\ InScope)'
    BY <1>1 DEF Inv, Papers, InScope, CleanupIds
  <2>5. QED
    BY <2>1, <2>2, <2>3, <2>4 DEF Papers
<1>4. Reported'
  BY <1>1 DEF Inv, Reported
<1>5. QED
  BY <1>2, <1>3, <1>4

-----------------------------------------------------------------------------
(* Closures: the ends of the commands.                                     *)

LEMMA ProveAgainKeeps ==
    ASSUME Inv, ProveAgain
    PROVE  Inv'
<1>1. /\ todo # <<>> /\ Reading /\ UNCHANGED <<outcome, history>> /\ mem' = Empty
      /\ cmd = "prove" /\ cmd' = cmd /\ todo' = Steps("prove", FALSE)
  BY DEF ProveAgain, At, Reading
<1>2. ClosureProgram(todo') /\ (Has(todo', {"compare", "put"}) => cmd' = "cleanup")
  <2>1. /\ ClosureProgram(Steps("prove", FALSE))
        /\ Has(Steps("prove", FALSE), {"compare", "put"}) => "prove" = "cleanup"
    BY StartReads
  <2>2. QED
    BY <1>1, <2>1
<1>3. Working' = FALSE
  BY <1>1 DEF Working
<1>4. todo' \in Seq(Kinds) /\ StepsInOrder'
  BY <1>2, <1>3 DEF ClosureProgram, StepsInOrder
<1>5. TypeInv' /\ Papers' /\ Reported'
  BY <1>1, <1>4, EmptyTyped, ProgramTypes
<1>6. QED
  BY <1>2, <1>3, <1>5, ReadingBegins DEF Inv

LEMMA ClosuresEnd ==
    ASSUME Inv, ~Working, todo # <<>>,
           UNCHANGED <<gitHub, profile, unmanaged, approved, cmd, apply, runs, churn>>,
           \/ plan' = plan
           \/ plan' \in [pre : Closures, post : Closures] /\ plan'.post = PostCleanup(plan'.pre),
           NEW o \in {"derived", "verified", "proved", "dryrun"}, Succeed(o),
           o # "dryrun" => Head(todo) \in Closings
    PROVE  Inv'
<1>1. /\ sets' = sets /\ head' = head /\ classic' = classic /\ canary' = canary
      /\ profile' = profile /\ unmanaged' = unmanaged /\ approved' = approved
      /\ cmd' = cmd /\ todo' = <<>> /\ outcome' = o /\ mem' = mem /\ again' = again
      /\ instants' = instants /\ Working' = Working
  BY DEF gitHub, Succeed, history, Working
<1>2. TypeInv'
  <2>1. <<>> \in Seq(Kinds)
    OBVIOUS
  <2>2. QED
    BY <1>1, <2>1 DEF Inv, TypeInv
<1>3. Papers'
  BY <1>1 DEF Inv, Papers
<1>4. /\ WorkBefore' /\ WorkAfter' /\ TargetUnderWatch' /\ Remembered' /\ ReadingClosures'
      /\ Cleaning'
  BY <1>1 DEF WorkBefore, WorkAfter, TargetUnderWatch, Remembered, ReadingClosures, Cleaning
<1>5. Reported'
  <2>1. o # "dryrun" /\ ~again => mem.pair \in instants
    <3>1. todo \in Seq(Kinds)
      BY DEF Inv, TypeInv
    <3>2. Head(todo) \in Closings => Due(todo, {"second"}, Closings)
      BY <3>1, DueHead
    <3>3. QED
      BY <3>2 DEF Inv, ReadingClosures
  <2>2. QED
    BY <1>1, <2>1 DEF Reported
<1>6. QED
  BY <1>2, <1>3, <1>4, <1>5 DEF Inv

LEMMA NotOfWork ==
    ASSUME Inv, todo # <<>>,
           Head(todo) \in {"list", "gate", "legacy", "history", "first", "second"} \cup Closings
    PROVE  ~Working
BY HeadTells DEF OfWork, Closings

LEMMA NotOfClosures ==
    ASSUME Inv, todo # <<>>,
           Head(todo) \in {"choose", "plan", "digest", "names", "post", "bound", "done",
                           "canary", "owners"}
    PROVE  Working
BY HeadTells DEF OfClosures

LEMMA EmitKeeps ==
    ASSUME Inv, Emit
    PROVE  Inv'
<1>1. /\ todo # <<>> /\ Head(todo) = "emit" /\ Succeed("derived")
      /\ UNCHANGED <<gitHub, profile, unmanaged, approved, cmd, apply, runs, churn>>
      /\ plan' = [pre |-> mem.pair, post |-> PostCleanup(mem.pair)]
  BY DEF Emit, At
<1>2. Head(todo) \in Closings /\ ~Working
  BY <1>1, NotOfWork DEF Closings
<1>3. mem.pair \in Closures
  <2>1. todo \in Seq(Kinds)
    BY DEF Inv, TypeInv
  <2>2. Due(todo, {"second"}, Closings)
    BY <1>1, <1>2, <2>1, DueHead
  <2>3. QED
    BY <1>1, <1>2, <2>2 DEF Inv, Remembered
<1>4. plan' \in [pre : Closures, post : Closures] /\ plan'.post = PostCleanup(plan'.pre)
  BY <1>1, <1>3, PostCleanupIs
<1>5. QED
  BY <1>1, <1>2, <1>4, ClosuresEnd

LEMMA AttestKeeps ==
    ASSUME Inv, Verified \/ Proved
    PROVE  Inv'
<1>1. /\ todo # <<>> /\ Head(todo) \in {"verified", "proved"} /\ Reading
      /\ Abort \/ Succeed("verified") \/ Succeed("proved")
  BY DEF Verified, Proved, At
<1>2. Head(todo) \in Closings /\ ~Working
  BY <1>1, NotOfWork DEF Closings
<1>3. /\ UNCHANGED <<gitHub, profile, unmanaged, approved, cmd, apply, runs, churn>>
      /\ plan' = plan
  BY <1>1 DEF Reading, owner
<1>4. QED
  BY <1>1, <1>2, <1>3, ReadAborts, ClosuresEnd

LEMMA DryRunKeeps ==
    ASSUME Inv, DryRun
    PROVE  Inv'
<1>1. todo # <<>> /\ Head(todo) = "dryrun" /\ Reading /\ Succeed("dryrun")
  BY DEF DryRun, At
<1>2. /\ UNCHANGED <<gitHub, profile, unmanaged, approved, cmd, apply, runs, churn>>
      /\ plan' = plan
  BY <1>1 DEF Reading, owner
<1>3. CASE Working
  BY <1>1, <1>3, WorkEnds
<1>4. CASE ~Working
  BY <1>1, <1>2, <1>4, ClosuresEnd
<1>5. QED
  BY <1>3, <1>4

LEMMA DoneKeeps ==
    ASSUME Inv, Done
    PROVE  Inv'
<1>1. todo # <<>> /\ Head(todo) = "done" /\ Reading /\ Succeed("done")
  BY DEF Done, At
<1>2. Working
  BY <1>1, NotOfClosures
<1>3. put # NoPut
  <2>1. todo \in Seq(Kinds)
    BY DEF Inv, TypeInv
  <2>2. Due(todo, Writes, {"done"})
    BY <1>1, <2>1, DueHead
  <2>3. QED
    BY <1>1, <1>2, <2>2 DEF Inv, WorkBefore
<1>4. QED
  BY <1>1, <1>2, <1>3, WorkEnds

-----------------------------------------------------------------------------
(* Staging and activation: what to do.                                     *)

LEMMA UnchangedKeeps ==
    ASSUME Inv, AlreadyEffective \/ NoChange
    PROVE  Inv'
<1>1. todo # <<>> /\ Head(todo) \in {"choose", "plan"} /\ Reading /\ Succeed("unchanged")
  BY DEF AlreadyEffective, NoChange, At
<1>2. Working
  BY <1>1, NotOfClosures
<1>3. QED
  BY <1>1, <1>2, WorkEnds

\* A command that chooses or plans has looked, and has written nothing.
LEMMA ChoiceIs ==
    ASSUME Inv, todo # <<>>, Head(todo) \in {"choose", "plan"}
    PROVE  /\ Working /\ put = NoPut /\ mem.snap # <<>>
           /\ Head(todo) = "plan" => OnTarget
<1>1. Working /\ WorkBefore
  BY NotOfClosures DEF Inv
<1>2. 1 \in 1..Len(todo) /\ todo[1] = Head(todo)
  BY Ahead
<1>3. Has(todo, {"choose", "plan"}) /\ (Head(todo) = "plan" => Has(todo, {"plan", "put"}))
  BY <1>2 DEF Has
<1>4. Head(<<"look", "digest", "choose">>) = "look"
  OBVIOUS
<1>5. QED
  BY <1>1, <1>3, <1>4 DEF WorkBefore

LEMMA ChooseKeeps ==
    ASSUME Inv, Choose
    PROVE  Inv'
<1>1. todo # <<>> /\ Head(todo) = "choose" /\ Reading
      /\ ~(Choosable /\ Named(sets) = {} /\ Effective(sets) # {})
  BY DEF Choose, At
<1>2. CASE ~Choosable
  BY <1>1, <1>2, ReadAborts DEF Choose
<1>3. CASE Choosable
  <2>1. Working /\ put = NoPut /\ mem.snap # <<>> /\ TypeInv
    BY <1>1, ChoiceIs DEF Inv
  <2>2. /\ UNCHANGED <<outcome, history>> /\ cmd' = cmd /\ put' = put /\ profile' = profile
        /\ sets' = sets /\ Working'
    BY <1>1, <1>3, <2>1 DEF Choose, Reading, gitHub, owner, history, Working
  <2>3. CASE Named(sets) = {}
    <3>1. todo' = CreateSteps /\ mem' = [mem EXCEPT !.payload = Staged]
      BY <1>3, <2>3 DEF Choose
    <3>2. /\ mem' \in Memories /\ mem'.payload = Staged /\ mem'.snap = mem.snap
      BY <2>1, <3>1, MemTyped, StagedIs DEF Memories, TypeInv
    <3>3. cmd = "stage"
      BY <1>1, <1>3, <2>1, <2>3 DEF Choosable, Working
    <3>4. WorkProgram(cmd', todo') /\ ~Has(todo', {"choose", "plan", "put"})
      BY <2>2, <3>1, CreateWorks
    <3>5. ~Has(todo', {"plan", "put"}) /\ ~Has(todo', {"put"})
      BY <3>4 DEF Has
    <3>6. Staged' = Staged
      BY <2>2 DEF Staged, GateRules
    <3>7. todo' \in Seq(Kinds) /\ StepsInOrder'
      BY <2>2, <3>4 DEF WorkProgram, StepsInOrder
    <3>8. TypeInv' /\ Papers' /\ Reported'
      BY <1>1, <2>2, <3>2, <3>7, ProgramTypes
    <3>9. QED
      BY <2>1, <2>2, <3>2, <3>3, <3>4, <3>5, <3>6, <3>8, WorkBegins DEF Inv
  <2>4. CASE Named(sets) # {}
    <3> DEFINE id == CHOOSE i \in Named(sets) : TRUE
    <3>1. todo' = <<"plan">> /\ mem' = [mem EXCEPT !.target = id]
      BY <1>3, <2>4 DEF Choose
    <3>2. id \in Named(sets)
      BY <2>4
    <3> HIDE DEF id
    <3>3. id \in DOMAIN sets /\ sets[id].name = "v2" /\ id \in Nat
      BY <2>1, <3>2, Typed DEF Named, Live
    <3>4. mem' \in Memories /\ mem'.target = id /\ mem'.snap = mem.snap
      BY <2>1, <3>1, <3>3, MemTyped DEF Memories, TypeInv
    <3>5. WorkProgram(cmd', todo') /\ ~Has(todo', {"choose", "put", "post"})
      BY <3>1, PlanWorks
    <3>6. ~Has(todo', {"post"}) /\ ~Has(todo', {"put"})
      BY <3>5 DEF Has
    <3>7. OnTarget'
      BY <2>2, <3>3, <3>4 DEF OnTarget
    <3>8. todo' \in Seq(Kinds) /\ StepsInOrder'
      BY <2>2, <3>5 DEF WorkProgram, StepsInOrder
    <3>9. TypeInv' /\ Papers' /\ Reported'
      BY <1>1, <2>2, <3>4, <3>8, ProgramTypes
    <3>10. QED
      BY <2>1, <2>2, <3>4, <3>5, <3>6, <3>7, <3>9, WorkBegins DEF Inv
  <2>5. QED
    BY <2>3, <2>4
<1>4. QED
  BY <1>2, <1>3

LEMMA PlanKeeps ==
    ASSUME Inv, Plan
    PROVE  Inv'
<1> DEFINE r == sets[mem.target]
           p == Planned(r, cmd = "activate")
<1>1. todo # <<>> /\ Head(todo) = "plan" /\ Reading
  BY DEF Plan, At
<1>2. CASE ~(r # Gone /\ Plannable(r, p))
  BY <1>1, <1>2, ReadAborts DEF Plan
<1>3. CASE r # Gone /\ Plannable(r, p)
  <2>1. /\ Working /\ put = NoPut /\ mem.snap # <<>> /\ TypeInv /\ OnTarget
        /\ \A i \in DOMAIN sets : V2IsNotLegacy(sets[i])
    BY <1>1, ChoiceIs DEF Inv, Papers
  <2>2. /\ UNCHANGED <<outcome, history>> /\ cmd' = cmd /\ put' = put /\ profile' = profile
        /\ sets' = sets /\ Working'
    BY <1>1, <1>3, <2>1 DEF Plan, Reading, gitHub, owner, history, Working
  <2>3. /\ todo' = UpdateSteps /\ mem' = [mem EXCEPT !.full = r, !.payload = p]
    BY <1>3 DEF Plan
  <2>4. r \in Rulesets /\ r.name = "v2" /\ V2IsNotLegacy(r)
    BY <1>3, <2>1, Typed DEF OnTarget
  <2>5. ~UpdateRefused(r) /\ (cmd = "activate" => ~r.active /\ p = [r EXCEPT !.active = TRUE])
    BY <1>3 DEF Plannable
  <2> DEFINE a == (cmd = "activate")
  <2>6. a \in BOOLEAN /\ p = Planned(r, a)
    OBVIOUS
  <2>7. profile \in {"full", "status-only"}
    BY <2>1 DEF TypeInv
  <2> HIDE DEF r, p, a
  <2>8. /\ p \in Rulesets /\ p.name = "v2" /\ V2IsNotLegacy(p)
        /\ r.active => p.active /\ MatchesOf(profile, p)
    BY <2>4, <2>5, <2>6, <2>7, PlannedIs, MatchesIs
  <2>9. /\ mem' \in Memories /\ mem'.full = r /\ mem'.payload = p /\ mem'.snap = mem.snap
        /\ mem'.target = mem.target
    BY <2>1, <2>3, <2>4, <2>8, MemTyped DEF Memories, TypeInv
  <2>10. WorkProgram(cmd', todo') /\ ~Has(todo', {"choose", "plan", "post"})
    BY <2>1, <2>2, <2>3, UpdateWorks
  <2>11. ~Has(todo', {"post"})
    BY <2>10 DEF Has
  <2>12. OnTarget'
    BY <2>1, <2>2, <2>9 DEF OnTarget
  <2>13. PlanIsSafe'
    BY <2>2, <2>4, <2>5, <2>8, <2>9 DEF PlanIsSafe
  <2>14. todo' \in Seq(Kinds) /\ StepsInOrder'
    BY <2>2, <2>10 DEF WorkProgram, StepsInOrder
  <2>15. TypeInv' /\ Papers' /\ Reported'
    BY <1>1, <2>2, <2>9, <2>14, ProgramTypes
  <2>16. QED
    BY <2>1, <2>2, <2>9, <2>10, <2>11, <2>12, <2>13, <2>15, WorkBegins DEF Inv
<1>4. QED
  BY <1>2, <1>3

-----------------------------------------------------------------------------
(* The reads, one by one.                                                  *)

LEMMA RequireIs ==
    ASSUME Inv, todo # <<>>, NEW ok \in BOOLEAN, NEW m, Require(ok, m), ok => m \in Memories
    PROVE  \/ Inv'
           \/ ok /\ Advancing /\ mem' = m
<1>1. Reading
  BY DEF Require
<1>2. CASE ~ok
  BY <1>1, <1>2, ReadAborts DEF Require
<1>3. CASE ok
  BY <1>1, <1>3 DEF Require, Advance, Advancing
<1>4. QED
  BY <1>2, <1>3

LEMMA LookKeeps ==
    ASSUME Inv, Look
    PROVE  Inv'
<1> DEFINE snap == <<head, classic>>
           m == [mem EXCEPT !.snap = snap]
           ok == Canonical(head) /\ Stable(snap)
<1>1. todo # <<>> /\ Head(todo) = "look" /\ Require(ok, m)
  BY DEF Look, At
<1>2. ok \in BOOLEAN
  BY DEF Canonical, Stable
<1>3. TypeInv /\ snap \in Snaps
  BY SnapIs DEF Inv, TypeInv
<1>4. ok => mem.snap \in {<<>>, snap}
  BY DEF Stable
<1> HIDE DEF snap, ok
<1>5. /\ m \in Memories /\ m.snap = snap /\ m.loaded = mem.loaded /\ m.first = mem.first
      /\ m.pair = mem.pair /\ m.target = mem.target /\ m.gate = mem.gate
      /\ m.full = mem.full /\ m.payload = mem.payload
  BY <1>3, MemTyped DEF Memories, TypeInv
<1> HIDE DEF m
<1>6. CASE ok /\ Advancing /\ mem' = m
  <2>1. CASE Working
    <3>1. WorkRead
      BY <1>1, <1>4, <1>5, <1>6, <2>1 DEF WorkRead, Writes, snap
    <3>2. QED
      BY <1>1, <3>1, WorkReadKeeps
  <2>2. CASE ~Working
    <3>1. ClosureRead
      BY <1>1, <1>4, <1>5, <1>6, <2>2 DEF ClosureRead, snap
    <3>2. QED
      BY <1>1, <3>1, ClosureReadKeeps
  <2>3. QED
    BY <2>1, <2>2
<1>7. QED
  BY <1>1, <1>2, <1>5, <1>6, RequireIs

\* A read that remembers nothing.
LEMMA GlanceKeeps ==
    ASSUME Inv, Advancing, mem' = mem,
           Head(todo) \in {"digest", "canary", "owners", "reread", "gate", "names", "bound",
                           "readback", "legacy", "history"},
           Head(todo) = "digest" => Inventory(sets, classic) = approved,
           Head(todo) = "canary" => canary = mem.snap[1],
           Head(todo) = "reread" => sets[mem.target] = mem.full,
           Head(todo) = "gate" => sets[mem.gate] = mem.pair.sets[mem.gate]
    PROVE  Inv'
<1>1. CASE Working
  <2>1. WorkRead
    BY <1>1 DEF WorkRead, Writes
  <2>2. QED
    BY <2>1, WorkReadKeeps
<1>2. CASE ~Working
  <2>1. ClosureRead
    BY <1>2 DEF ClosureRead
  <2>2. QED
    BY <2>1, ClosureReadKeeps
<1>3. QED
  BY <1>1, <1>2

LEMMA GlancesKeep ==
    ASSUME Inv,
           \/ Digest \/ Canary \/ Owners \/ Reread \/ Gate \/ Names \/ Bound \/ Readback
           \/ LegacyInventory \/ CanaryEvidence
    PROVE  Inv'
<1>1. mem \in Memories
  BY DEF Inv, TypeInv
<1>2. ASSUME NEW step \in {"digest", "canary", "owners", "reread", "gate", "names", "bound",
                           "readback", "legacy", "history"},
             At(step), NEW ok \in BOOLEAN, Require(ok, mem),
             ok /\ step = "digest" => Inventory(sets, classic) = approved,
             ok /\ step = "canary" => canary = mem.snap[1],
             ok /\ step = "reread" => sets[mem.target] = mem.full,
             ok /\ step = "gate" => sets[mem.gate] = mem.pair.sets[mem.gate]
      PROVE  Inv'
  <2>1. todo # <<>> /\ Head(todo) = step
    BY <1>2 DEF At
  <2>2. CASE ok /\ Advancing /\ mem' = mem
    BY <1>2, <2>1, <2>2, GlanceKeeps
  <2>3. QED
    BY <1>1, <1>2, <2>1, <2>2, RequireIs
<1>3. CASE Digest
  BY <1>2, <1>3 DEF Digest
<1>4. CASE Canary
  BY <1>2, <1>4 DEF Canary
<1>5. CASE Owners
  BY <1>2, <1>5 DEF Owners, Expands
<1>6. CASE Reread
  BY <1>2, <1>6 DEF Reread
<1>7. CASE Gate
  BY <1>2, <1>7 DEF Gate
<1>8. CASE Names
  BY <1>2, <1>8 DEF Names
<1>9. CASE Bound
  BY <1>2, <1>9 DEF Bound
<1>10. CASE Readback
  BY <1>2, <1>10 DEF Readback
<1>11. CASE LegacyInventory
  <2> DEFINE ok == /\ classic = mem.snap[2]
                   /\ \A i \in LegacyIds(sets) :
                          i \in DOMAIN mem.loaded /\ sets[i] = mem.loaded[i]
                   /\ IF Clear THEN LegacyIds(sets) = {} /\ ~classic
                      ELSE Inventory(sets, classic) = approved
  <2>1. At("legacy") /\ Require(ok, mem)
    BY <1>11 DEF LegacyInventory
  <2>2. ok \in BOOLEAN
    OBVIOUS
  <2> HIDE DEF ok
  <2>3. QED
    BY <1>2, <2>1, <2>2
<1>12. CASE CanaryEvidence
  <2> DEFINE ok == canary # 0 /\ mem.loaded[1] # Gone /\ mem.loaded[1].active
  <2>1. At("history") /\ Require(ok, mem)
    BY <1>12 DEF CanaryEvidence
  <2>2. QED
    BY <1>2, <2>1
<1>13. QED
  BY <1>3, <1>4, <1>5, <1>6, <1>7, <1>8, <1>9, <1>10, <1>11, <1>12

LEMMA ListKeeps ==
    ASSUME Inv, List
    PROVE  Inv'
<1> DEFINE named == Named(sets)
           id == CHOOSE i \in named : TRUE
           m == [mem EXCEPT !.loaded = sets, !.gate = id]
           ok == /\ Cardinality(named) = 1
                 /\ \A i \in named : /\ sets[i].active /\ Matches(sets[i])
                                     /\ Clear => ~RequiresLegacy(sets[i])
<1>1. todo # <<>> /\ Head(todo) = "list" /\ Require(ok, m)
  BY DEF List, At
<1>2. ok \in BOOLEAN
  OBVIOUS
<1>3. TypeInv /\ ~Working
  BY <1>1, NotOfWork DEF Inv
<1>4. ASSUME ok
      PROVE  id \in Named(sets) /\ sets[id].active /\ MatchesOf(profile, sets[id])
  <2>1. named # {}
    BY <1>4, FS_EmptySet
  <2>2. id \in named
    BY <2>1
  <2>3. QED
    BY <1>4, <2>2, MatchesIs
<1>5. ok => id \in Nat
  BY <1>3, <1>4, Typed DEF Named, Live
<1> HIDE DEF id, ok
<1>6. ok => m \in Memories
  BY <1>3, <1>5, MemTyped DEF Memories, TypeInv
<1>7. /\ m.snap = mem.snap /\ m.loaded = sets /\ m.first = mem.first
      /\ m.pair = mem.pair /\ m.target = mem.target /\ m.gate = id
      /\ m.full = mem.full /\ m.payload = mem.payload
  BY <1>3, MemTyped
<1> HIDE DEF m
<1>8. CASE ok /\ Advancing /\ mem' = m
  <2>1. ClosureRead
    BY <1>1, <1>3, <1>4, <1>7, <1>8 DEF ClosureRead
  <2>2. QED
    BY <1>1, <2>1, ClosureReadKeeps
<1>9. QED
  BY <1>1, <1>2, <1>6, <1>8, RequireIs

LEMMA CompareKeeps ==
    ASSUME Inv, Compare
    PROVE  Inv'
<1> DEFINE id == CHOOSE i \in CleanupIds : TRUE
           m == [mem EXCEPT !.target = id, !.full = plan.pre.sets[id],
                            !.payload = plan.post.sets[id]]
           ok == plan = [pre |-> mem.pair, post |-> PostCleanup(mem.pair)]
<1>1. todo # <<>> /\ Head(todo) = "compare" /\ Require(ok, m)
  BY DEF Compare, At
<1>2. TypeInv /\ ~Working
  BY <1>1, NotOfWork DEF Inv, Closings
<1>3. mem.pair \in Closures
  <2>1. todo \in Seq(Kinds) /\ Head(todo) \in Closings
    BY <1>1, <1>2 DEF TypeInv, Closings
  <2>2. Due(todo, {"second"}, Closings)
    BY <1>1, <2>1, DueHead
  <2>3. QED
    BY <1>1, <1>2, <2>2 DEF Inv, Remembered
<1>4. InScope
  <2>1. Has(todo, {"compare", "put"})
    BY <1>1, Ahead DEF Has
  <2>2. QED
    BY <1>1, <1>2, <2>1 DEF Inv, Cleaning, Papers
<1>5. CleanupIds = {id} /\ id \in DOMAIN plan.pre.sets
  <2>1. PICK i \in CleanupIds : CleanupIds = {i}
    BY <1>4 DEF InScope
  <2>2. id \in CleanupIds
    BY <2>1
  <2> HIDE DEF id
  <2>3. QED
    BY <2>1, <2>2 DEF CleanupIds
<1> HIDE DEF id
<1>6. ASSUME ok
      PROVE  /\ mem.pair = plan.pre /\ id \in Nat
             /\ plan.pre.sets[id] \in Rulesets \cup {Gone}
             /\ plan.post.sets[id] \in Rulesets \cup {Gone}
  <2>1. mem.pair = plan.pre /\ plan.post = PostCleanup(mem.pair)
    BY <1>6
  <2>2. plan.post \in Closures /\ DOMAIN plan.post.sets = DOMAIN plan.pre.sets
    BY <1>3, <2>1, PostCleanupIs
  <2>3. \A c \in Closures : \A i \in DOMAIN c.sets :
           i \in Nat /\ c.sets[i] \in Rulesets \cup {Gone}
    BY DEF Closures, RulesetLists
  <2>4. QED
    BY <1>3, <1>5, <2>1, <2>2, <2>3
<1>7. ok \in BOOLEAN
  OBVIOUS
<1> HIDE DEF ok
<1>8. ok => m \in Memories
  BY <1>2, <1>6, MemTyped DEF Memories, TypeInv
<1>9. /\ m.snap = mem.snap /\ m.loaded = mem.loaded /\ m.first = mem.first
      /\ m.pair = mem.pair /\ m.target = id /\ m.gate = mem.gate
      /\ m.full = plan.pre.sets[id] /\ m.payload = plan.post.sets[id]
  BY <1>2, MemTyped
<1> HIDE DEF m
<1>10. CASE ok /\ Advancing /\ mem' = m
  <2>1. ClosureRead
    BY <1>1, <1>2, <1>5, <1>6, <1>9, <1>10 DEF ClosureRead
  <2>2. QED
    BY <1>1, <2>1, ClosureReadKeeps
<1>11. QED
  BY <1>1, <1>7, <1>8, <1>10, RequireIs

LEMMA RoundKeeps ==
    ASSUME Inv, FirstRound \/ SecondRound
    PROVE  Inv'
<1>1. CASE FirstRound
  <2> DEFINE m == [mem EXCEPT !.snap = <<>>, !.loaded = <<>>, !.first = Closure]
  <2>1. todo # <<>> /\ Head(todo) = "first" /\ Require(TRUE, m)
    BY <1>1 DEF FirstRound, At
  <2>2. ~Working
    BY <2>1, NotOfWork
  <2>3. m \in Memories
    BY <2>1, <2>2, FirstRemembers
  <2> HIDE DEF m
  <2>4. CASE Advancing /\ mem' = m
    <3>1. FirstEnds
      BY <2>1, <2>2, <2>4 DEF FirstEnds, m
    <3>2. QED
      BY <3>1, FirstEndsKeeps
  <2>5. QED
    BY <2>1, <2>3, <2>4, RequireIs
<1>2. CASE SecondRound
  <2> DEFINE m == [mem EXCEPT !.snap = <<>>, !.loaded = <<>>, !.first = NoClosure,
                              !.pair = Closure]
             ok == Same(Closure)
  <2>1. todo # <<>> /\ Head(todo) = "second" /\ Require(ok, m)
    BY <1>2 DEF SecondRound, At
  <2>2. ~Working
    BY <2>1, NotOfWork
  <2>3. m \in Memories /\ ok \in BOOLEAN
    BY <2>1, <2>2, FirstRemembers DEF Same
  <2> HIDE DEF m, ok
  <2>4. CASE ok /\ Advancing /\ mem' = m
    <3>1. SecondEnds
      BY <2>1, <2>2, <2>4 DEF SecondEnds, m, ok
    <3>2. QED
      BY <3>1, SecondEndsKeeps
  <2>5. QED
    BY <2>1, <2>3, <2>4, RequireIs
<1>3. QED
  BY <1>1, <1>2

LEMMA FailKeeps ==
    ASSUME Inv, Fail
    PROVE  Inv'
BY ReadAborts DEF Fail

-----------------------------------------------------------------------------
(* The writes.                                                             *)

\* A write whose answer arrives.
Written(written, target) ==
    /\ sets' = written /\ todo' = Tail(todo)
    /\ UNCHANGED <<head, classic, canary, owner, cmd, apply, runs, churn>>
    /\ mem' = [mem EXCEPT !.wrote = TRUE, !.target = target]
    /\ instants' = instants \cup {State'}
    /\ Remember
    /\ UNCHANGED <<outcome, touched, again, gap>>

LEMMA WrittenFrame ==
    ASSUME TypeInv, NEW written, NEW target \in Nat, Written(written, target)
    PROVE  /\ sets' = written /\ head' = head /\ classic' = classic /\ canary' = canary
           /\ profile' = profile /\ unmanaged' = unmanaged /\ approved' = approved
           /\ plan' = plan /\ cmd' = cmd /\ todo' = Tail(todo) /\ outcome' = outcome
           /\ touched' = touched /\ again' = again /\ gap' = gap
           /\ instants \subseteq instants' /\ State' \in instants' /\ (Working' <=> Working)
           /\ put'.head = head /\ put'.sets = sets /\ put'.classic = classic
           /\ put'.canary = canary /\ put'.approved = approved /\ put'.gap = gap
           /\ put' # NoPut
           /\ mem' \in Memories /\ mem'.target = target /\ mem'.snap = mem.snap
           /\ mem'.loaded = mem.loaded /\ mem'.first = mem.first /\ mem'.pair = mem.pair
           /\ mem'.gate = mem.gate /\ mem'.full = mem.full /\ mem'.payload = mem.payload
<1>1. /\ sets' = written /\ head' = head /\ classic' = classic /\ canary' = canary
      /\ profile' = profile /\ unmanaged' = unmanaged /\ approved' = approved
      /\ plan' = plan /\ cmd' = cmd /\ todo' = Tail(todo) /\ outcome' = outcome
      /\ touched' = touched /\ again' = again /\ gap' = gap
      /\ instants \subseteq instants' /\ State' \in instants' /\ (Working' <=> Working)
  BY DEF Written, owner, Working
<1>2. put' = [head |-> head, sets |-> sets, classic |-> classic, canary |-> canary,
              approved |-> approved, gap |-> gap]
  BY DEF Written, Remember
<1>3. head # 0
  BY DEF TypeInv, Tips
<1>4. put' # NoPut
  BY <1>2, <1>3 DEF NoPut
<1>5. mem' = [mem EXCEPT !.wrote = TRUE, !.target = target]
  BY DEF Written
<1>6. /\ mem' \in Memories /\ mem'.target = target /\ mem'.snap = mem.snap
      /\ mem'.loaded = mem.loaded /\ mem'.first = mem.first /\ mem'.pair = mem.pair
      /\ mem'.gate = mem.gate /\ mem'.full = mem.full /\ mem'.payload = mem.payload
  BY <1>5, MemTyped DEF Memories, TypeInv
<1>7. QED
  BY <1>1, <1>2, <1>4, <1>6

LEMMA WriteIs ==
    ASSUME Inv, todo # <<>>, NEW written \in RulesetLists, NEW target, Write(written, target),
           \A i \in DOMAIN written : V2IsNotLegacy(written[i])
    PROVE  Inv' \/ Written(written, target)
<1>1. CASE Abort
  <2>1. /\ UNCHANGED <<owner, cmd>> /\ sets' = written /\ head' = head /\ classic' = classic
        /\ canary' = canary
    BY DEF Write
  <2>2. head' \in Tips /\ classic' \in BOOLEAN /\ canary' \in Nat
    BY <2>1 DEF Inv, TypeInv
  <2>3. QED
    BY <1>1, <2>1, <2>2, AbortKeeps
<1>2. CASE ~Abort
  BY <1>2 DEF Write, Written
<1>3. QED
  BY <1>1, <1>2

LEMMA WrittenTypes ==
    ASSUME Inv, todo # <<>>, Head(todo) \in Writes, NEW written \in RulesetLists,
           NEW target \in Nat, Written(written, target),
           \A i \in DOMAIN written : V2IsNotLegacy(written[i])
    PROVE  TypeInv' /\ Papers' /\ Reported' /\ TargetUnderWatch'
<1>1. TypeInv /\ Tail(todo) \in Seq(Kinds)
  BY Ahead DEF Inv
<1>2. TypeInv'
  BY <1>1, WrittenFrame DEF TypeInv
<1>3. Papers'
  <2>1. \A i \in DOMAIN sets' : V2IsNotLegacy(sets'[i])
    BY <1>1, WrittenFrame
  <2>2. plan' # NoPlan => plan'.post = PostCleanup(plan'.pre)
    BY <1>1, WrittenFrame DEF Inv, Papers
  <2>3. StepsInOrder'
    BY <1>1, Ahead, WrittenFrame, WorkTail, ClosuresTail DEF StepsInOrder
  <2>4. cmd' = "cleanup" => (plan # NoPlan /\ InScope)'
    BY <1>1, WrittenFrame DEF Inv, Papers, InScope, CleanupIds
  <2>5. (State \in instants)'
    BY <1>1, WrittenFrame
  <2>6. QED
    BY <2>1, <2>2, <2>3, <2>4, <2>5 DEF Papers
<1>4. Reported'
  BY <1>1, WrittenFrame DEF Inv, Reported
<1>5. TargetUnderWatch'
  <2> SUFFICES ASSUME todo' # <<>>, Head(todo') = "put" PROVE FALSE
    BY DEF TargetUnderWatch
  <2>1. todo' = Tail(todo)
    BY <1>1, WrittenFrame
  <2>2. Len(todo) >= 2 /\ todo[2] = "put" /\ 2 \in 1..Len(todo)
    <3>1. Len(todo') >= 1 /\ todo'[1] = "put"
      BY <1>1, <2>1, TailIs
    <3>2. QED
      BY <2>1, <3>1, Ahead
  <2>3. todo[2] = "put" /\ 2 > 1 => todo[2 - 1] = "reread"
    <3>1. CASE Working
      BY <2>2, <3>1, Ahead DEF WorkInOrder
    <3>2. CASE ~Working
      BY <2>2, <3>2, Ahead DEF ClosuresInOrder
    <3>3. QED
      BY <3>1, <3>2
  <2>4. todo[1] = "reread"
    BY <2>2, <2>3
  <2>5. QED
    BY <2>4, Ahead DEF Writes
<1>6. QED
  BY <1>2, <1>3, <1>4, <1>5

\* Staging and activation write what the inventory does not list.
LEMMA WorkWrittenBefore ==
    ASSUME Inv, Working, todo # <<>>, Head(todo) \in Writes, NEW written \in RulesetLists,
           NEW target \in Nat, Written(written, target),
           target \in DOMAIN written, written[target].name = "v2",
           \A i \in Nat : Listed(written, i) = Listed(sets, i),
           cmd = "activate" => Head(todo) = "put"
    PROVE  WorkBefore'
<1>1. TypeInv /\ WorkBefore /\ todo \in Seq(Kinds) /\ WorkInOrder(cmd, todo)
      /\ 1 \in 1..Len(todo) /\ todo[1] = Head(todo) /\ Len(todo) \in Nat
  BY Ahead DEF Inv
<1>2. \A xs : Has(todo', xs) => Has(todo, xs)
  BY <1>1, WrittenFrame, HasTail
<1> SUFFICES ASSUME todo' # <<>>
             PROVE  /\ (mem.snap # <<>>)'
                    /\ OnTarget'
                    /\ Has(todo', {"put"}) => PlanIsSafe'
                    /\ Has(todo', {"post"}) => (mem.payload = Staged /\ cmd = "stage")'
                    /\ ~Has(todo', {"choose", "plan"})
                    /\ (put # NoPut)'
                    /\ cmd' = "activate" => (canary = mem.snap[1] \/ Part("canary") \in gap)'
                    /\ ~again' => Since(mem.snap)'
                    /\ ~again' => SinceApproval'
  BY DEF WorkBefore
<1>3. mem.snap # <<>>
  <2>1. Head(<<"look", "digest", "choose">>) = "look"
    OBVIOUS
  <2>2. QED
    BY <1>1, <2>1 DEF WorkBefore, Writes
<1>4. (mem.snap # <<>>)' /\ (put # NoPut)' /\ OnTarget'
  BY <1>1, <1>3, WrittenFrame DEF OnTarget
<1>5. Has(todo', {"put"}) => PlanIsSafe'
  BY <1>1, <1>2, WrittenFrame DEF WorkBefore, PlanIsSafe
<1>6. Has(todo', {"post"}) => (mem.payload = Staged /\ cmd = "stage")'
  BY <1>1, <1>2, WrittenFrame DEF WorkBefore, Staged, GateRules
<1>7. ~Has(todo', {"choose", "plan"})
  <2> SUFFICES ASSUME Has(todo', {"choose", "plan"}) PROVE FALSE
    OBVIOUS
  <2>1. PICK k \in 1..Len(todo) : todo[k] \in {"choose", "plan"}
    BY <1>2 DEF Has
  <2>2. k = Len(todo)
    BY <1>1, <2>1 DEF WorkInOrder
  <2>3. todo[Len(todo)] = "done"
    BY <1>1 DEF WorkInOrder
  <2>4. QED
    BY <2>1, <2>2, <2>3
<1>8. cmd' = "activate" => (canary = mem.snap[1] \/ Part("canary") \in gap)'
  <2>1. cmd = "activate" => 1 <= 4 /\ todo[1] = "put"
    BY <1>1
  <2>2. cmd = "activate" => canary = mem.snap[1] \/ Part("canary") \in gap
    BY <1>1, <2>1 DEF WorkBefore
  <2>3. QED
    BY <1>1, <2>2, WrittenFrame
<1>9. Due(todo, {"look"}, Writes) /\ Due(todo, {"digest"}, Writes)
  BY <1>1, DueHead
<1>10. ~again' => Since(mem.snap)'
  <2>1. ~again => Since(mem.snap)
    BY <1>1, <1>9 DEF WorkBefore
  <2>2. QED
    BY <1>1, <2>1, WrittenFrame DEF Since
<1>11. ~again' => SinceApproval'
  <2>1. ~again => SinceApproval
    BY <1>1, <1>9 DEF WorkBefore
  <2>2. QED
    BY <1>1, <2>1, WrittenFrame DEF SinceApproval, ApprovedOf
<1>12. QED
  BY <1>4, <1>5, <1>6, <1>7, <1>8, <1>10, <1>11

LEMMA WorkWrittenAfter ==
    ASSUME Inv, Working, todo # <<>>, Head(todo) \in Writes, NEW written \in RulesetLists,
           NEW target \in Nat, Written(written, target),
           \A i \in Nat : Listed(written, i) = Listed(sets, i),
           cmd = "activate" => Head(todo) = "put" /\ target = mem.target
    PROVE  WorkAfter'
<1>1. TypeInv /\ WorkBefore /\ TargetUnderWatch /\ todo \in Seq(Kinds) /\ WorkInOrder(cmd, todo)
      /\ 1 \in 1..Len(todo) /\ todo[1] = Head(todo) /\ Len(todo) \in Nat
  BY Ahead DEF Inv
<1>2. mem.snap # <<>> /\ mem.snap \in Snaps
  <2>1. Head(<<"look", "digest", "choose">>) = "look"
    OBVIOUS
  <2>2. QED
    BY <1>1, <2>1, MemTyped DEF WorkBefore, Writes
<1>3. Has(todo', {"look"}) /\ Has(todo', {"digest"})
  <2>1. /\ \E j \in 1 + 1..Len(todo) : todo[j] = "look"
        /\ \E j \in 1 + 1..Len(todo) : todo[j] = "digest"
    BY <1>1 DEF WorkInOrder
  <2>2. ASSUME NEW x, NEW j \in 1 + 1..Len(todo), todo[j] = x
        PROVE  Has(Tail(todo), {x})
    <3>1. j - 1 \in 1..Len(Tail(todo)) /\ j - 1 \in 1..Len(todo) - 1 /\ (j - 1) + 1 = j
      BY <1>1, <2>2, Ahead
    <3>2. Tail(todo)[j - 1] = x
      BY <2>2, <3>1, Ahead
    <3>3. QED
      BY <3>1, <3>2 DEF Has
  <2>3. Has(Tail(todo), {"look"}) /\ Has(Tail(todo), {"digest"})
    BY <2>1, <2>2
  <2>4. QED
    BY <1>1, <2>3, WrittenFrame
<1>4. Due(todo, {"look"}, Writes) /\ Due(todo, {"digest"}, Writes)
  BY <1>1, DueHead
<1> SUFFICES /\ (put.approved = approved /\ put.sets \in RulesetLists)'
             /\ (mem.snap # <<>>)'
             /\ (cmd = "activate" =>
                    /\ \/ put.sets[mem.target] = [mem.payload EXCEPT !.active = FALSE]
                       \/ Ruleset(mem.target) \in put.gap
                    /\ put.canary = mem.snap[1] \/ Part("canary") \in put.gap)'
             /\ (~again =>
                    \/ <<put.head, put.classic>> = mem.snap
                    \/ Has(todo, {"look"}) /\ Lost(mem.snap[1], mem.snap[2]))'
             /\ (~again =>
                    \/ put.classic = approved.classic
                    \/ Has(todo, {"digest"}) /\ classic # approved.classic
                       /\ Part("classic") \in touched)'
             /\ (~again =>
                    \A i \in Nat :
                        \/ Listed(put.sets, i) = ApprovedOf(i)
                        \/ Has(todo, {"digest"}) /\ Listed(sets, i) # ApprovedOf(i)
                           /\ Ruleset(i) \in touched)'
  BY DEF WorkAfter
<1>5. (put.approved = approved /\ put.sets \in RulesetLists)' /\ (mem.snap # <<>>)'
  BY <1>1, <1>2, WrittenFrame DEF TypeInv
<1>6. ASSUME cmd' = "activate"
      PROVE  (/\ \/ put.sets[mem.target] = [mem.payload EXCEPT !.active = FALSE]
                 \/ Ruleset(mem.target) \in put.gap
              /\ put.canary = mem.snap[1] \/ Part("canary") \in put.gap)'
  <2>1. cmd = "activate" /\ Head(todo) = "put" /\ target = mem.target /\ 1 <= 4
    BY <1>1, <1>6, WrittenFrame
  <2>2. Has(todo, {"put"}) /\ \E k \in 1..Len(todo) : k <= 4 /\ todo[k] = "put"
    BY <1>1, <2>1 DEF Has
  <2>3. PlanIsSafe /\ (canary = mem.snap[1] \/ Part("canary") \in gap)
    BY <1>1, <2>1, <2>2 DEF WorkBefore
  <2>4. mem.full = [mem.payload EXCEPT !.active = FALSE]
    <3>1. /\ mem.full \in Rulesets /\ ~mem.full.active
          /\ mem.payload = [mem.full EXCEPT !.active = TRUE]
      BY <2>1, <2>3 DEF PlanIsSafe
    <3>2. QED
      BY <3>1 DEF Rulesets
  <2>5. sets[mem.target] = mem.full \/ Ruleset(mem.target) \in gap
    BY <1>1, <2>1 DEF TargetUnderWatch
  <2>6. /\ put'.sets = sets /\ put'.canary = canary /\ put'.gap = gap
        /\ mem'.target = mem.target /\ mem'.payload = mem.payload /\ mem'.snap = mem.snap
    BY <1>1, <2>1, WrittenFrame
  <2>7. (\/ put.sets[mem.target] = [mem.payload EXCEPT !.active = FALSE]
         \/ Ruleset(mem.target) \in put.gap)'
    <3>1. put'.sets[mem'.target] = sets[mem.target]
      BY <2>6
    <3>2. [mem'.payload EXCEPT !.active = FALSE] = mem.full
      BY <2>4, <2>6
    <3>3. Ruleset(mem'.target) = Ruleset(mem.target)
      BY <2>6
    <3>4. QED
      BY <2>5, <2>6, <3>1, <3>2, <3>3
  <2>8. (put.canary = mem.snap[1] \/ Part("canary") \in put.gap)'
    BY <2>3, <2>6
  <2>9. QED
    BY <2>7, <2>8
<1>7. ASSUME ~again'
      PROVE  (\/ <<put.head, put.classic>> = mem.snap
              \/ Has(todo, {"look"}) /\ Lost(mem.snap[1], mem.snap[2]))'
  <2>1. Since(mem.snap)
    BY <1>1, <1>4, <1>7, WrittenFrame DEF WorkBefore
  <2>2. <<head, classic>> = mem.snap \/ Lost(mem.snap[1], mem.snap[2])
    BY <1>2, <2>1, SnapIs DEF Since, Lost
  <2>3. Lost(mem.snap[1], mem.snap[2]) => Lost(mem.snap[1], mem.snap[2])'
    BY <1>1, WrittenFrame DEF Lost
  <2>4. QED
    BY <1>1, <1>3, <2>2, <2>3, WrittenFrame
<1>8. ASSUME ~again'
      PROVE  /\ (\/ put.classic = approved.classic
                 \/ Has(todo, {"digest"}) /\ classic # approved.classic
                    /\ Part("classic") \in touched)'
             /\ \A i \in Nat :
                   (\/ Listed(put.sets, i) = ApprovedOf(i)
                    \/ Has(todo, {"digest"}) /\ Listed(sets, i) # ApprovedOf(i)
                       /\ Ruleset(i) \in touched)'
  <2>1. SinceApproval
    BY <1>1, <1>4, <1>8, WrittenFrame DEF WorkBefore
  <2>2. QED
    BY <1>1, <1>3, <2>1, WrittenFrame DEF SinceApproval, ApprovedOf
<1>9. QED
  BY <1>5, <1>6, <1>7, <1>8

LEMMA WorkWrittenKeeps ==
    ASSUME Inv, Working, todo # <<>>, Head(todo) \in Writes, NEW written \in RulesetLists,
           NEW target \in Nat, Write(written, target),
           target \in DOMAIN written, written[target].name = "v2",
           \A i \in DOMAIN written : V2IsNotLegacy(written[i]),
           \A i \in Nat : Listed(written, i) = Listed(sets, i),
           cmd = "activate" => Head(todo) = "put" /\ target = mem.target
    PROVE  Inv'
<1>1. CASE Written(written, target)
  <2>1. TypeInv' /\ Papers' /\ Reported' /\ TargetUnderWatch'
    BY <1>1, WrittenTypes
  <2>2. WorkBefore' /\ WorkAfter'
    BY <1>1, WorkWrittenBefore, WorkWrittenAfter
  <2>3. Remembered' /\ ReadingClosures' /\ Cleaning'
    BY <1>1, WrittenFrame DEF Inv, Remembered, ReadingClosures, Cleaning
  <2>4. QED
    BY <2>1, <2>2, <2>3 DEF Inv
<1>2. QED
  BY <1>1, WriteIs

LEMMA Replaced ==
    ASSUME NEW s \in RulesetLists, NEW t \in DOMAIN s, NEW r \in Rulesets \cup {Gone}
    PROVE  /\ [s EXCEPT ![t] = r] \in RulesetLists
           /\ DOMAIN [s EXCEPT ![t] = r] = DOMAIN s /\ Len([s EXCEPT ![t] = r]) = Len(s)
           /\ [s EXCEPT ![t] = r][t] = r /\ t \in Nat
           /\ \A i \in DOMAIN s : i # t => [s EXCEPT ![t] = r][i] = s[i]
BY DEF RulesetLists

LEMMA Appended ==
    ASSUME NEW s \in RulesetLists, NEW r \in Rulesets
    PROVE  /\ Append(s, r) \in RulesetLists /\ DOMAIN s = 1..Len(s) /\ Len(s) \in Nat
           /\ DOMAIN Append(s, r) = 1..Len(s) + 1 /\ Len(Append(s, r)) = Len(s) + 1
           /\ Append(s, r)[Len(s) + 1] = r
           /\ \A i \in DOMAIN s : Append(s, r)[i] = s[i]
BY DEF RulesetLists

\* The inventory does not list a ruleset of the name v2.
LEMMA NotListed ==
    ASSUME NEW s, NEW i, i \in DOMAIN s => s[i] = Gone \/ (s[i].name = "v2" /\ V2IsNotLegacy(s[i]))
    PROVE  i \notin LegacyIds(s) /\ Listed(s, i) = {}
<1>1. i \notin LegacyIds(s)
  BY DEF LegacyIds, Live, V2IsNotLegacy
<1>2. QED
  BY <1>1 DEF Listed

LEMMA SameListed ==
    ASSUME NEW s, NEW t, NEW i, i \in DOMAIN s <=> i \in DOMAIN t,
           i \in DOMAIN s => s[i] = t[i]
    PROVE  /\ Listed(s, i) = Listed(t, i)
           /\ i \in LegacyIds(s) <=> i \in LegacyIds(t)
           /\ i \in Effective(s) <=> i \in Effective(t)
BY DEF Listed, LegacyIds, Effective, Live

LEMMA PostKeeps ==
    ASSUME Inv, Post
    PROVE  Inv'
<1> DEFINE written == Append(sets, mem.payload)
           target == Len(sets) + 1
<1>1. todo # <<>> /\ Head(todo) = "post" /\ Write(written, target)
  BY DEF Post, At
<1>2. TypeInv /\ Working /\ WorkBefore /\ 1 \in 1..Len(todo) /\ todo[1] = "post"
      /\ \A i \in DOMAIN sets : V2IsNotLegacy(sets[i])
  BY <1>1, NotOfClosures, Ahead DEF Inv, Papers
<1>3. mem.payload = Staged /\ cmd = "stage"
  <2>1. Has(todo, {"post"})
    BY <1>2 DEF Has
  <2>2. QED
    BY <1>1, <1>2, <2>1 DEF WorkBefore
<1>4. /\ written \in RulesetLists /\ DOMAIN sets = 1..Len(sets) /\ Len(sets) \in Nat
      /\ DOMAIN written = 1..Len(sets) + 1 /\ written[target] = Staged
      /\ \A i \in DOMAIN sets : written[i] = sets[i]
  BY <1>2, <1>3, Appended, StagedIs DEF TypeInv
<1> HIDE DEF written
<1>5. target \in Nat /\ target \in DOMAIN written /\ target \notin DOMAIN sets
  BY <1>4
<1>6. ASSUME NEW i \in DOMAIN written PROVE i = target \/ i \in DOMAIN sets
  BY <1>4, <1>6
<1> HIDE DEF target
<1>7. written[target].name = "v2" /\ \A i \in DOMAIN written : V2IsNotLegacy(written[i])
  BY <1>2, <1>4, <1>6, StagedIs
<1>8. ASSUME NEW i \in Nat PROVE Listed(written, i) = Listed(sets, i)
  <2>1. CASE i = target
    BY <1>4, <1>5, <1>7, <2>1, NotListed
  <2>2. CASE i # target
    <3>1. i \in DOMAIN written <=> i \in DOMAIN sets
      BY <1>4, <1>6, <2>2
    <3>2. i \in DOMAIN written => written[i] = sets[i]
      BY <1>4, <3>1
    <3>3. QED
      BY <3>1, <3>2, SameListed
  <2>3. QED
    BY <2>1, <2>2
<1>9. QED
  BY <1>1, <1>2, <1>3, <1>4, <1>5, <1>7, <1>8, WorkWrittenKeeps DEF Writes

\* What staging and activation put in place.
LEMMA WorkPutIs ==
    ASSUME Inv, todo # <<>>, Working, Head(todo) = "put"
    PROVE  OnTarget /\ PlanIsSafe
<1>1. 1 \in 1..Len(todo) /\ todo[1] = "put" /\ WorkBefore
  BY Ahead DEF Inv
<1>2. Has(todo, {"plan", "put"}) /\ Has(todo, {"put"})
  BY <1>1 DEF Has
<1>3. QED
  BY <1>1, <1>2 DEF WorkBefore

\* What a cleanup puts in place.
LEMMA CleanupPutIs ==
    ASSUME Inv, ~Working, NEW k \in 1..Len(todo), k <= 2, todo[k] = "put"
    PROVE  /\ mem.target \in DOMAIN sets /\ mem.payload \in Rulesets
           /\ mem.payload.name # "v2" /\ mem.gate # mem.target
           /\ mem.gate \in DOMAIN sets /\ mem.pair \in Closures /\ Stronghold(mem.pair.sets)
           /\ sets[mem.gate] = mem.pair.sets[mem.gate] \/ Ruleset(mem.gate) \in gap
<1>1. todo \in Seq(Kinds) /\ todo # <<>>
  BY DEF Inv, TypeInv
<1>2. /\ TypeInv /\ Cleaning /\ 1 \in 1..Len(todo) /\ Head(todo) = todo[1]
      /\ cmd = "cleanup" => plan # NoPlan /\ InScope
      /\ plan # NoPlan => plan.post = PostCleanup(plan.pre)
  BY <1>1, Ahead DEF Inv, Papers
<1>3. k = 1 \/ todo[1] = "reread"
  <2>1. todo[k] = "put" /\ k > 1 => todo[k - 1] = "reread"
    BY <1>1, Ahead DEF ClosuresInOrder
  <2>2. k = 1 \/ (k > 1 /\ k - 1 = 1)
    OBVIOUS
  <2>3. QED
    BY <2>1, <2>2
<1>4. todo[1] \in {"put", "reread"} /\ Has(todo, {"compare", "put"})
  BY <1>3 DEF Has
<1>5. Due(todo, {"list"}, {"put"}) /\ Due(todo, {"compare"}, {"put"})
  <2>1. \A j \in 1..k - 1 : j = 1 /\ todo[j] = "reread"
    BY <1>3
  <2>2. QED
    BY <2>1 DEF Due
<1>6. Head(todo) \notin Rounds
  BY <1>2, <1>4 DEF Rounds
<1>7. /\ mem.pair \in Closures /\ Stronghold(mem.pair.sets)
      /\ CleanupIds = {mem.target} /\ mem.pair = plan.pre
      /\ mem.full = plan.pre.sets[mem.target] /\ mem.payload = plan.post.sets[mem.target]
      /\ sets[mem.gate] = mem.pair.sets[mem.gate] \/ Ruleset(mem.gate) \in gap
      /\ cmd = "cleanup"
  BY <1>1, <1>2, <1>4, <1>5, <1>6 DEF Cleaning
<1>8. InScope /\ plan.post = PostCleanup(mem.pair)
  BY <1>2, <1>7
<1>9. mem.payload # Gone /\ mem.payload.name # "v2"
  BY <1>7, <1>8 DEF InScope
<1>10. mem.payload \in Rulesets
  BY <1>2, <1>9, MemTyped
<1>11. mem.target \in DOMAIN mem.pair.sets
  BY <1>7 DEF CleanupIds
<1>12. /\ mem.pair.sets \in Seq(Rulesets \cup {Gone})
       /\ DOMAIN mem.pair.sets = 1..Len(mem.pair.sets) /\ Len(mem.pair.sets) \in Nat
       /\ \A i \in DOMAIN mem.pair.sets : mem.pair.sets[i] \in Rulesets \cup {Gone}
  <2>1. mem.pair.sets \in Seq(Rulesets \cup {Gone})
    BY <1>7 DEF Closures, RulesetLists
  <2>2. QED
    BY <2>1
<1>13. mem.pair.sets[mem.target].name = mem.payload.name
  <2>1. mem.payload = IF mem.target \in LegacyIds(mem.pair.sets)
                      THEN Cleaned(mem.pair.sets[mem.target]) ELSE mem.pair.sets[mem.target]
    BY <1>7, <1>8, <1>11, PostCleanupIs
  <2>2. mem.target \in LegacyIds(mem.pair.sets) => mem.pair.sets[mem.target] \in Rulesets
    BY <1>11, <1>12 DEF LegacyIds, Live
  <2>3. QED
    BY <1>9, <2>1, <2>2, CleanedIs
<1>14. mem.gate \in Named(mem.pair.sets) /\ Len(mem.pair.sets) <= Len(sets)
  BY <1>7 DEF Stronghold
<1>15. mem.gate \in DOMAIN mem.pair.sets /\ mem.gate # mem.target
  BY <1>9, <1>13, <1>14 DEF Named, Live
<1>16. DOMAIN sets = 1..Len(sets) /\ Len(sets) \in Nat
  BY <1>2, Typed
<1>17. mem.target \in DOMAIN sets /\ mem.gate \in DOMAIN sets
  BY <1>11, <1>12, <1>14, <1>15, <1>16
<1>18. QED
  BY <1>7, <1>9, <1>10, <1>15, <1>17

LEMMA CleanupWrites ==
    ASSUME Inv, todo # <<>>, ~Working, Head(todo) = "put"
    PROVE  /\ mem.target \in DOMAIN sets /\ mem.payload \in Rulesets
           /\ mem.payload.name # "v2" /\ mem.gate # mem.target
           /\ mem.gate \in DOMAIN sets /\ mem.pair \in Closures /\ Stronghold(mem.pair.sets)
           /\ sets[mem.gate] = mem.pair.sets[mem.gate] \/ Ruleset(mem.gate) \in gap
<1>1. 1 \in 1..Len(todo) /\ 1 <= 2 /\ todo[1] = "put"
  BY Ahead
<1>2. QED
  BY <1>1, CleanupPutIs

LEMMA WorkPutKeeps ==
    ASSUME Inv, Put, Working
    PROVE  Inv'
<1> DEFINE written == [sets EXCEPT ![mem.target] = mem.payload]
<1>1. todo # <<>> /\ Head(todo) = "put" /\ Write(written, mem.target)
  BY DEF Put, At
<1>2. TypeInv /\ OnTarget /\ PlanIsSafe /\ \A i \in DOMAIN sets : V2IsNotLegacy(sets[i])
  BY <1>1, WorkPutIs DEF Inv, Papers
<1>3. mem.target \in DOMAIN sets /\ mem.payload \in Rulesets /\ sets \in RulesetLists
  BY <1>2 DEF OnTarget, PlanIsSafe, TypeInv
<1>4. /\ written \in RulesetLists /\ DOMAIN written = DOMAIN sets /\ mem.target \in Nat
      /\ written[mem.target] = mem.payload
      /\ \A i \in DOMAIN sets : i # mem.target => written[i] = sets[i]
  BY <1>3, Replaced
<1> HIDE DEF written
<1>5. written[mem.target].name = "v2" /\ V2IsNotLegacy(written[mem.target])
  BY <1>2, <1>4 DEF PlanIsSafe
<1>6. \A i \in DOMAIN written : V2IsNotLegacy(written[i])
  BY <1>2, <1>4, <1>5
<1>7. ASSUME NEW i \in Nat PROVE Listed(written, i) = Listed(sets, i)
  <2>1. CASE i = mem.target
    <3>1. Listed(written, i) = {}
      BY <1>5, <2>1, NotListed
    <3>2. sets[i] = Gone \/ (sets[i].name = "v2" /\ V2IsNotLegacy(sets[i]))
      BY <1>2, <1>3, <2>1 DEF OnTarget
    <3>3. Listed(sets, i) = {}
      BY <3>2, NotListed
    <3>4. QED
      BY <3>1, <3>3
  <2>2. CASE i # mem.target
    BY <1>4, <2>2, SameListed
  <2>3. QED
    BY <2>1, <2>2
<1>8. QED
  BY <1>1, <1>3, <1>4, <1>5, <1>6, <1>7, WorkWrittenKeeps DEF Writes

LEMMA CleanupPutKeeps ==
    ASSUME Inv, Put, ~Working
    PROVE  Inv'
<1> DEFINE written == [sets EXCEPT ![mem.target] = mem.payload]
<1>1. todo # <<>> /\ Head(todo) = "put" /\ Write(written, mem.target)
  BY DEF Put, At
<1>2. TypeInv /\ \A i \in DOMAIN sets : V2IsNotLegacy(sets[i])
  BY DEF Inv, Papers
<1>3. mem.target \in DOMAIN sets /\ mem.payload \in Rulesets /\ sets \in RulesetLists
      /\ mem.payload.name # "v2"
  BY <1>1, <1>2, CleanupWrites DEF TypeInv
<1>4. /\ written \in RulesetLists /\ DOMAIN written = DOMAIN sets /\ mem.target \in Nat
      /\ Len(written) = Len(sets) /\ written[mem.target] = mem.payload
      /\ \A i \in DOMAIN sets : i # mem.target => written[i] = sets[i]
  BY <1>3, Replaced
<1> HIDE DEF written
<1>5. \A i \in DOMAIN written : V2IsNotLegacy(written[i])
  <2>1. V2IsNotLegacy(written[mem.target])
    BY <1>3, <1>4 DEF V2IsNotLegacy
  <2>2. QED
    BY <1>2, <1>4, <2>1
<1>6. CASE Written(written, mem.target)
  <2>1. TypeInv' /\ Papers' /\ Reported' /\ TargetUnderWatch'
    BY <1>1, <1>4, <1>5, <1>6, WrittenTypes DEF Writes
  <2>2. /\ todo' = Tail(todo) /\ ~Working' /\ cmd' = cmd /\ sets' = written
        /\ head' = head /\ classic' = classic /\ touched' = touched /\ again' = again
        /\ gap' = gap /\ instants \subseteq instants' /\ plan' = plan /\ profile' = profile
        /\ mem'.target = mem.target /\ mem'.snap = mem.snap /\ mem'.first = mem.first
        /\ mem'.pair = mem.pair /\ mem'.gate = mem.gate /\ mem'.full = mem.full
        /\ mem'.payload = mem.payload
    BY <1>2, <1>4, <1>6, WrittenFrame
  <2>3. /\ todo \in Seq(Kinds) /\ Remembered /\ ReadingClosures /\ Cleaning
        /\ todo[1] = "put"
    BY <1>1, Ahead DEF Inv
  <2>4. \A xs : Has(todo', xs) => Has(todo, xs)
    BY <1>1, <2>2, <2>3, HasTail
  <2>5. \A xs, ys : Due(todo', ys, xs) /\ "put" \notin ys => Due(todo, ys, xs)
    BY <1>1, <2>2, <2>3, DueTail
  <2>6. todo' # <<>> => Head(todo') \notin {"list"} \cup Rounds
    BY <1>1, <2>2, ClosuresAhead DEF Neighbours, Rounds
  <2>7. Remembered'
    <3>1. Due(todo', {"second"}, Closings) => mem'.pair \in Closures
      BY <1>1, <2>2, <2>3, <2>5 DEF Remembered
    <3>2. QED
      BY <2>6, <3>1 DEF Remembered
  <2>8. ReadingClosures'
    <3> SUFFICES ASSUME todo' # <<>>, ~again'
                 PROVE  /\ Due(todo', {"first"}, {"second"}) =>
                              /\ (mem.first # NoClosure /\ Stands(mem.first))'
                              /\ (\/ mem.first \in instants
                                  \/ mem.snap[1] # mem.first.head
                                  \/ mem.snap[2] # mem.first.classic)'
                        /\ Due(todo', {"second"}, Closings) => (mem.pair \in instants)'
      BY <2>6 DEF ReadingClosures
    <3>1. ASSUME Due(todo', {"first"}, {"second"})
          PROVE  /\ (mem.first # NoClosure /\ Stands(mem.first))'
                 /\ (\/ mem.first \in instants
                     \/ mem.snap[1] # mem.first.head
                     \/ mem.snap[2] # mem.first.classic)'
      <4>1. Due(todo, {"first"}, {"second"})
        BY <2>5, <3>1
      <4>2. /\ mem.first # NoClosure /\ Stands(mem.first)
            /\ \/ mem.first \in instants
               \/ mem.snap[1] # mem.first.head
               \/ mem.snap[2] # mem.first.classic
        BY <1>1, <2>2, <2>3, <4>1 DEF ReadingClosures
      <4>3. Stands(mem.first)'
        BY <2>2, <4>2 DEF Stands, Lost
      <4>4. QED
        BY <2>2, <4>2, <4>3
    <3>2. Due(todo', {"second"}, Closings) => (mem.pair \in instants)'
      BY <1>1, <2>2, <2>3, <2>5 DEF ReadingClosures
    <3>3. QED
      BY <3>1, <3>2
  <2>9. Cleaning'
    <3> SUFFICES ASSUME todo' # <<>>
                 PROVE  /\ (mem.pair \in Closures /\ Stronghold(mem.pair.sets))'
                        /\ Due(todo', {"compare"}, {"put"}) =>
                              (/\ CleanupIds = {mem.target} /\ mem.pair = plan.pre
                               /\ mem.full = plan.pre.sets[mem.target]
                               /\ mem.payload = plan.post.sets[mem.target])'
                        /\ \A k \in 1..Len(todo') : k <= 2 => todo'[k] # "put"
                        /\ Has(todo', {"compare", "put"}) => cmd' = "cleanup"
      BY <2>6 DEF Cleaning
    <3>1. (mem.pair \in Closures /\ Stronghold(mem.pair.sets))'
      BY <1>1, <1>4, <2>2, CleanupWrites DEF Stronghold, Named, Live
    <3>2. ASSUME Due(todo', {"compare"}, {"put"})
          PROVE  (/\ CleanupIds = {mem.target} /\ mem.pair = plan.pre
                  /\ mem.full = plan.pre.sets[mem.target]
                  /\ mem.payload = plan.post.sets[mem.target])'
      <4>1. Due(todo, {"compare"}, {"put"})
        BY <2>5, <3>2
      <4>2. /\ CleanupIds = {mem.target} /\ mem.pair = plan.pre
            /\ mem.full = plan.pre.sets[mem.target] /\ mem.payload = plan.post.sets[mem.target]
        BY <1>1, <2>3, <4>1 DEF Cleaning
      <4>3. CleanupIds' = CleanupIds
        BY <2>2 DEF CleanupIds
      <4>4. QED
        BY <2>2, <4>2, <4>3
    <3>3. ASSUME NEW k \in 1..Len(todo'), k <= 2, todo'[k] = "put"
          PROVE  FALSE
      <4>1. k + 1 \in 1..Len(todo) /\ k + 1 <= 2 /\ todo[k + 1] = "put"
        BY <1>1, <2>2, <3>3, GateComesBefore
      <4>2. todo[k + 1] = "put" /\ k + 1 > 1 => todo[(k + 1) - 1] = "reread"
        BY <1>1, <4>1, Ahead DEF ClosuresInOrder
      <4>3. k = 1
        BY <4>1
      <4>4. QED
        BY <2>3, <4>1, <4>2, <4>3
    <3>4. Has(todo', {"compare", "put"}) => cmd' = "cleanup"
      BY <1>1, <2>2, <2>3, <2>4 DEF Cleaning
    <3>5. QED
      BY <3>1, <3>2, <3>3, <3>4
  <2>10. WorkBefore' /\ WorkAfter'
    BY <2>2 DEF WorkBefore, WorkAfter
  <2>11. QED
    BY <2>1, <2>7, <2>8, <2>9, <2>10 DEF Inv
<1>7. QED
  BY <1>1, <1>4, <1>5, <1>6, WriteIs

LEMMA PutKeeps ==
    ASSUME Inv, Put
    PROVE  Inv'
BY WorkPutKeeps, CleanupPutKeeps

-----------------------------------------------------------------------------
(* Others change one part.                                                 *)

\* One part changes, and no other.
Changes(part) ==
    /\ Disturb(part)
    /\ sets' \in RulesetLists /\ Len(sets) <= Len(sets')
    /\ head' \in Tips /\ classic' \in BOOLEAN /\ canary' \in Nat
    /\ \A i \in DOMAIN sets' : V2IsNotLegacy(sets'[i])
    /\ head' # head => part = Part("head")
    /\ classic' # classic => part = Part("classic")
    /\ canary' # canary => part = Part("canary")
    /\ \A i \in DOMAIN sets :
           /\ sets'[i] # sets[i] => part = Ruleset(i)
           /\ sets[i] = Gone \/ sets[i].name = "v2" => sets'[i] = Gone \/ sets'[i].name = "v2"
    /\ \A i \in Nat : Listed(sets', i) # Listed(sets, i) => part = Ruleset(i)

LEMMA ChangeFrame ==
    ASSUME NEW part, Changes(part)
    PROVE  /\ todo # <<>> /\ todo' = todo /\ mem' = mem /\ outcome' = outcome /\ put' = put
           /\ profile' = profile /\ unmanaged' = unmanaged /\ approved' = approved
           /\ plan' = plan /\ cmd' = cmd /\ apply' = apply /\ (Working' <=> Working)
           /\ touched' = touched \cup {part} /\ again' = (again \/ part \in touched)
           /\ gap \subseteq gap' /\ (AfterLastLook(part) => part \in gap')
           /\ instants \subseteq instants' /\ State' \in instants'
BY DEF Changes, Disturb, owner, Working

LEMMA ChangeTypes ==
    ASSUME Inv, NEW part, Changes(part)
    PROVE  TypeInv' /\ Papers' /\ Reported'
<1>1. TypeInv'
  <2>1. again' \in BOOLEAN
    BY ChangeFrame DEF Inv, TypeInv
  <2>2. QED
    BY <2>1, ChangeFrame DEF Inv, TypeInv, Changes
<1>2. Papers'
  <2>1. \A i \in DOMAIN sets' : V2IsNotLegacy(sets'[i])
    BY DEF Changes
  <2>2. plan' # NoPlan => plan'.post = PostCleanup(plan'.pre)
    BY ChangeFrame DEF Inv, Papers
  <2>3. (StepsInOrder /\ State \in instants)'
    BY ChangeFrame DEF Inv, Papers, StepsInOrder
  <2>4. cmd' = "cleanup" => (plan # NoPlan /\ InScope)'
    BY ChangeFrame DEF Inv, Papers, InScope, CleanupIds
  <2>5. QED
    BY <2>1, <2>2, <2>3, <2>4 DEF Papers
<1>3. Reported'
  BY ChangeFrame DEF Inv, Reported
<1>4. QED
  BY <1>1, <1>2, <1>3

\* What was read stays so but for the part, and what was lost stays lost.
LEMMA ChangeSince ==
    ASSUME Inv, NEW part, Changes(part), ~again'
    PROVE  /\ ~again
           /\ \A s : Since(s) => Since(s)'
           /\ \A h, c : Lost(h, c) => Lost(h, c)'
           /\ \A c : Stands(c) => Stands(c)'
           /\ SinceApproval => SinceApproval'
<1>1. ~again /\ part \notin touched /\ touched' = touched \cup {part}
      /\ instants \subseteq instants'
  BY ChangeFrame
<1>2. /\ head' # head => part = Part("head")
      /\ classic' # classic => part = Part("classic")
      /\ \A i \in Nat : Listed(sets', i) # Listed(sets, i) => part = Ruleset(i)
  BY DEF Changes
<1>3. \A s : Since(s) => Since(s)'
  BY <1>1, <1>2 DEF Since
<1>4. \A h, c : Lost(h, c) => Lost(h, c)'
  BY <1>1, <1>2 DEF Lost
<1>5. \A c : Stands(c) => Stands(c)'
  BY <1>1, <1>4 DEF Stands
<1>6. SinceApproval => SinceApproval'
  <2> SUFFICES ASSUME SinceApproval PROVE SinceApproval'
    OBVIOUS
  <2>1. approved' = approved
    BY ChangeFrame
  <2>2. (classic # approved.classic => Part("classic") \in touched)'
    BY <1>1, <1>2, <2>1 DEF SinceApproval
  <2>3. ASSUME NEW i \in Nat
        PROVE  (Listed(sets, i) # ApprovedOf(i) => Ruleset(i) \in touched)'
    <3>1. ApprovedOf(i)' = ApprovedOf(i)
      BY <2>1 DEF ApprovedOf
    <3>2. QED
      BY <1>1, <1>2, <3>1 DEF SinceApproval
  <2>4. QED
    BY <2>2, <2>3 DEF SinceApproval
<1>7. QED
  BY <1>1, <1>3, <1>4, <1>5, <1>6

LEMMA PartsDiffer ==
    \A i : /\ Part("canary") # Ruleset(i) /\ Part("head") # Ruleset(i)
           /\ Part("classic") # Ruleset(i)
BY DEF Part, Ruleset

LEMMA ChangeTarget ==
    ASSUME Inv, NEW part, Changes(part)
    PROVE  TargetUnderWatch'
<1> SUFFICES ASSUME Head(todo) = "put"
             PROVE  (sets[mem.target] = mem.full \/ Ruleset(mem.target) \in gap)'
  BY ChangeFrame DEF TargetUnderWatch
<1>1. todo # <<>> /\ mem' = mem /\ gap \subseteq gap' /\ (AfterLastLook(part) => part \in gap')
  BY ChangeFrame
<1>2. sets[mem.target] = mem.full \/ Ruleset(mem.target) \in gap
  BY <1>1 DEF Inv, TargetUnderWatch
<1>3. mem.target \in DOMAIN sets
  BY <1>1, WorkPutIs, CleanupWrites DEF OnTarget
<1>4. CASE sets'[mem.target] = sets[mem.target]
  BY <1>1, <1>2, <1>4
<1>5. CASE sets'[mem.target] # sets[mem.target]
  <2>1. part = Ruleset(mem.target)
    BY <1>3, <1>5 DEF Changes
  <2>2. 1 \in DOMAIN todo /\ todo[1] = "put"
    BY <1>1, Ahead
  <2>3. AfterLastLook(part)
    BY <2>1, <2>2 DEF AfterLastLook
  <2>4. QED
    BY <1>1, <2>1, <2>3
<1>6. QED
  BY <1>4, <1>5

LEMMA ChangeBefore ==
    ASSUME Inv, NEW part, Changes(part)
    PROVE  WorkBefore'
<1>1. /\ todo # <<>> /\ todo' = todo /\ mem' = mem /\ put' = put /\ profile' = profile
      /\ cmd' = cmd /\ gap \subseteq gap' /\ (AfterLastLook(part) => part \in gap')
  BY ChangeFrame
<1> SUFFICES ASSUME Working
             PROVE  /\ mem.snap # <<>> \/ todo = <<"look", "digest", "choose">>
                    /\ Has(todo, {"plan", "put"}) => OnTarget'
                    /\ Has(todo, {"put"}) => PlanIsSafe'
                    /\ Has(todo, {"post"}) => (mem.payload = Staged /\ cmd = "stage")'
                    /\ Has(todo, {"choose", "plan"}) => put = NoPut
                    /\ Due(todo, Writes, {"done"}) => put # NoPut
                    /\ cmd = "activate" /\ (\E k \in 1..Len(todo) : k <= 4 /\ todo[k] = "put")
                          => (canary = mem.snap[1] \/ Part("canary") \in gap)'
                    /\ ~again' /\ Due(todo, {"look"}, Writes) => Since(mem.snap)'
                    /\ ~again' /\ Due(todo, {"digest"}, Writes) => SinceApproval'
  BY <1>1, ChangeFrame DEF WorkBefore
<1>2. WorkBefore /\ TypeInv
  BY DEF Inv
<1>3. /\ mem.snap # <<>> \/ todo = <<"look", "digest", "choose">>
      /\ Has(todo, {"choose", "plan"}) => put = NoPut
      /\ Due(todo, Writes, {"done"}) => put # NoPut
  BY <1>1, <1>2 DEF WorkBefore
<1>4. Has(todo, {"plan", "put"}) => OnTarget'
  <2> SUFFICES ASSUME OnTarget PROVE OnTarget'
    BY <1>1, <1>2 DEF WorkBefore
  <2>1. mem.target \in DOMAIN sets /\ (sets[mem.target] = Gone \/ sets[mem.target].name = "v2")
    BY DEF OnTarget
  <2>2. sets'[mem.target] = Gone \/ sets'[mem.target].name = "v2"
    BY <2>1 DEF Changes
  <2>3. mem.target \in DOMAIN sets'
    <3>1. /\ sets' \in Seq(Rulesets \cup {Gone}) /\ sets \in Seq(Rulesets \cup {Gone})
          /\ Len(sets) <= Len(sets')
      BY <1>2 DEF Changes, RulesetLists, TypeInv
    <3>2. /\ DOMAIN sets' = 1..Len(sets') /\ DOMAIN sets = 1..Len(sets)
          /\ Len(sets) \in Nat /\ Len(sets') \in Nat
      BY <3>1
    <3>3. QED
      BY <2>1, <3>1, <3>2
  <2>4. QED
    BY <1>1, <2>2, <2>3 DEF OnTarget
<1>5. Has(todo, {"put"}) => PlanIsSafe'
  BY <1>1, <1>2 DEF WorkBefore, PlanIsSafe
<1>6. Has(todo, {"post"}) => (mem.payload = Staged /\ cmd = "stage")'
  BY <1>1, <1>2 DEF WorkBefore, Staged, GateRules
<1>7. ASSUME cmd = "activate", NEW k \in 1..Len(todo), k <= 4, todo[k] = "put"
      PROVE  (canary = mem.snap[1] \/ Part("canary") \in gap)'
  <2>1. canary = mem.snap[1] \/ Part("canary") \in gap
    BY <1>1, <1>2, <1>7 DEF WorkBefore
  <2>2. CASE canary' = canary
    BY <1>1, <2>1, <2>2
  <2>3. CASE canary' # canary
    <3>1. part = Part("canary")
      BY <2>3 DEF Changes
    <3>2. k \in DOMAIN todo
      BY <1>1, Ahead
    <3>3. AfterLastLook(part)
      BY <1>7, <3>1, <3>2, PartsDiffer DEF AfterLastLook
    <3>4. QED
      BY <1>1, <3>1, <3>3
  <2>4. QED
    BY <2>2, <2>3
<1>8. ASSUME ~again' PROVE Due(todo, {"look"}, Writes) => Since(mem.snap)'
  <2>1. Due(todo, {"look"}, Writes) => Since(mem.snap)
    BY <1>1, <1>2, <1>8, ChangeSince DEF WorkBefore
  <2> DEFINE snap == mem.snap
  <2>2. snap' = snap
    BY <1>1
  <2>3. Since(snap) => (head' # snap[1] => Part("head") \in touched')
                       /\ (classic' # snap[2] => Part("classic") \in touched')
    BY <1>8, ChangeFrame DEF Changes, Since
  <2>4. QED
    BY <2>1, <2>2, <2>3 DEF Since
<1>9. ASSUME ~again' PROVE Due(todo, {"digest"}, Writes) => SinceApproval'
  BY <1>1, <1>2, <1>9, ChangeSince DEF WorkBefore
<1>10. QED
  BY <1>3, <1>4, <1>5, <1>6, <1>7, <1>8, <1>9

LEMMA ChangeAfter ==
    ASSUME Inv, NEW part, Changes(part)
    PROVE  WorkAfter'
<1>1. /\ todo' = todo /\ mem' = mem /\ put' = put /\ approved' = approved /\ cmd' = cmd
      /\ (Working' <=> Working)
  BY ChangeFrame
<1> SUFFICES ASSUME Working, put # NoPut
             PROVE  /\ put.approved = approved /\ put.sets \in RulesetLists
                    /\ mem.snap # <<>>
                    /\ cmd = "activate" =>
                          /\ \/ put.sets[mem.target] = [mem.payload EXCEPT !.active = FALSE]
                             \/ Ruleset(mem.target) \in put.gap
                          /\ put.canary = mem.snap[1] \/ Part("canary") \in put.gap
                    /\ ~again' =>
                          /\ \/ <<put.head, put.classic>> = mem.snap
                             \/ Has(todo, {"look"}) /\ Lost(mem.snap[1], mem.snap[2])'
                          /\ (\/ put.classic = approved.classic
                              \/ Has(todo, {"digest"}) /\ classic # approved.classic
                                 /\ Part("classic") \in touched)'
                          /\ \A i \in Nat :
                                (\/ Listed(put.sets, i) = ApprovedOf(i)
                                 \/ Has(todo, {"digest"}) /\ Listed(sets, i) # ApprovedOf(i)
                                    /\ Ruleset(i) \in touched)'
  BY <1>1 DEF WorkAfter
<1>2. WorkAfter
  BY DEF Inv
<1>3. /\ put.approved = approved /\ put.sets \in RulesetLists
      /\ mem.snap # <<>>
      /\ cmd = "activate" =>
            /\ \/ put.sets[mem.target] = [mem.payload EXCEPT !.active = FALSE]
               \/ Ruleset(mem.target) \in put.gap
            /\ put.canary = mem.snap[1] \/ Part("canary") \in put.gap
  BY <1>2 DEF WorkAfter
<1> SUFFICES ASSUME ~again'
             PROVE  /\ \/ <<put.head, put.classic>> = mem.snap
                       \/ Has(todo, {"look"}) /\ Lost(mem.snap[1], mem.snap[2])'
                    /\ (\/ put.classic = approved.classic
                        \/ Has(todo, {"digest"}) /\ classic # approved.classic
                           /\ Part("classic") \in touched)'
                    /\ \A i \in Nat :
                          (\/ Listed(put.sets, i) = ApprovedOf(i)
                           \/ Has(todo, {"digest"}) /\ Listed(sets, i) # ApprovedOf(i)
                              /\ Ruleset(i) \in touched)'
  BY <1>3
<1>4. ~again /\ part \notin touched /\ touched' = touched \cup {part}
  BY ChangeFrame
<1>5. \/ <<put.head, put.classic>> = mem.snap
      \/ Has(todo, {"look"}) /\ Lost(mem.snap[1], mem.snap[2])'
  <2>1. \/ <<put.head, put.classic>> = mem.snap
        \/ Has(todo, {"look"}) /\ Lost(mem.snap[1], mem.snap[2])
    BY <1>2, <1>4 DEF WorkAfter
  <2> DEFINE h == mem.snap[1]
             c == mem.snap[2]
  <2>2. h' = h /\ c' = c
    BY <1>1
  <2>3. Lost(h, c) => \/ head' # h /\ Part("head") \in touched'
                      \/ classic' # c /\ Part("classic") \in touched'
    BY <1>4 DEF Changes, Lost
  <2>4. Lost(h, c) => Lost(h, c)'
    BY <2>2, <2>3 DEF Lost
  <2>5. QED
    BY <2>1, <2>4
<1>6. (\/ put.classic = approved.classic
       \/ Has(todo, {"digest"}) /\ classic # approved.classic /\ Part("classic") \in touched)'
  <2>1. \/ put.classic = approved.classic
        \/ Has(todo, {"digest"}) /\ classic # approved.classic /\ Part("classic") \in touched
    BY <1>2, <1>4 DEF WorkAfter
  <2>2. Part("classic") \in touched => classic' = classic /\ Part("classic") \in touched'
    BY <1>4 DEF Changes
  <2>3. QED
    BY <1>1, <2>1, <2>2
<1>7. ASSUME NEW i \in Nat
      PROVE  (\/ Listed(put.sets, i) = ApprovedOf(i)
              \/ Has(todo, {"digest"}) /\ Listed(sets, i) # ApprovedOf(i)
                 /\ Ruleset(i) \in touched)'
  <2>1. \/ Listed(put.sets, i) = ApprovedOf(i)
        \/ Has(todo, {"digest"}) /\ Listed(sets, i) # ApprovedOf(i) /\ Ruleset(i) \in touched
    BY <1>2, <1>4 DEF WorkAfter
  <2>2. ApprovedOf(i)' = ApprovedOf(i) /\ Listed(put.sets, i)' = Listed(put.sets, i)
    BY <1>1 DEF ApprovedOf, Listed, LegacyIds, Live
  <2>3. Ruleset(i) \in touched => Listed(sets', i) = Listed(sets, i) /\ Ruleset(i) \in touched'
    BY <1>4 DEF Changes
  <2>4. Listed(sets, i)' = Listed(sets', i)
    BY DEF Listed
  <2>5. QED
    BY <1>1, <2>1, <2>2, <2>3, <2>4
<1>8. QED
  BY <1>5, <1>6, <1>7

LEMMA ChangeReading ==
    ASSUME Inv, NEW part, Changes(part)
    PROVE  Remembered' /\ ReadingClosures'
<1>1. /\ todo # <<>> /\ todo' = todo /\ mem' = mem /\ (Working' <=> Working)
      /\ instants \subseteq instants'
  BY ChangeFrame
<1>2. Remembered'
  BY <1>1 DEF Inv, Remembered
<1>3. ReadingClosures'
  <2> SUFFICES ASSUME ~Working, ~again'
               PROVE  /\ Head(todo) = "list" => Since(mem.snap)'
                      /\ Head(todo) \in Rounds => Stands(Closure)'
                      /\ Due(todo, {"first"}, {"second"}) =>
                            /\ mem.first # NoClosure /\ Stands(mem.first)'
                            /\ Head(todo) # "look" =>
                                  (\/ mem.first \in instants
                                   \/ mem.snap[1] # mem.first.head
                                   \/ mem.snap[2] # mem.first.classic)'
                      /\ Due(todo, {"second"}, Closings) => (mem.pair \in instants)'
    BY <1>1 DEF ReadingClosures
  <2>1. ~again /\ ReadingClosures
    BY ChangeFrame DEF Inv
  <2>2. Closure' = Closure
    BY <1>1 DEF Closure
  <2>3. \A s : Since(s) => /\ head' # s[1] => Part("head") \in touched'
                           /\ classic' # s[2] => Part("classic") \in touched'
    BY ChangeFrame DEF Changes, Since
  <2>4. \A c : Stands(c) => \/ c \in instants'
                            \/ head' # c.head /\ Part("head") \in touched'
                            \/ classic' # c.classic /\ Part("classic") \in touched'
    BY <1>1, ChangeFrame DEF Changes, Stands, Lost
  <2>5. Head(todo) = "list" => Since(mem.snap)'
    BY <1>1, <2>1, <2>3 DEF ReadingClosures, Since
  <2>6. Head(todo) \in Rounds => Stands(Closure)'
    BY <1>1, <2>1, <2>2, <2>4 DEF ReadingClosures, Stands, Lost
  <2>7. ASSUME Due(todo, {"first"}, {"second"})
        PROVE  /\ mem.first # NoClosure /\ Stands(mem.first)'
               /\ Head(todo) # "look" =>
                     (\/ mem.first \in instants
                      \/ mem.snap[1] # mem.first.head
                      \/ mem.snap[2] # mem.first.classic)'
    <3>1. /\ mem.first # NoClosure /\ Stands(mem.first)
          /\ Head(todo) # "look" =>
                (\/ mem.first \in instants
                 \/ mem.snap[1] # mem.first.head
                 \/ mem.snap[2] # mem.first.classic)
      BY <1>1, <2>1, <2>7 DEF ReadingClosures
    <3>2. Stands(mem.first)'
      BY <1>1, <2>4, <3>1 DEF Stands, Lost
    <3>3. QED
      BY <1>1, <3>1, <3>2
  <2>8. Due(todo, {"second"}, Closings) => (mem.pair \in instants)'
    BY <1>1, <2>1 DEF ReadingClosures
  <2>9. QED
    BY <2>5, <2>6, <2>7, <2>8
<1>4. QED
  BY <1>2, <1>3

LEMMA ChangeCleaning ==
    ASSUME Inv, NEW part, Changes(part)
    PROVE  Cleaning'
<1>1. /\ todo # <<>> /\ todo' = todo /\ mem' = mem /\ (Working' <=> Working) /\ plan' = plan
      /\ cmd' = cmd /\ profile' = profile
      /\ gap \subseteq gap' /\ (AfterLastLook(part) => part \in gap')
  BY ChangeFrame
<1> SUFFICES ASSUME ~Working
             PROVE  /\ Head(todo) \in Rounds => Stronghold(mem.loaded)'
                    /\ Due(todo, {"list"}, {"put"}) /\ Head(todo) \notin Rounds =>
                          mem.pair \in Closures /\ Stronghold(mem.pair.sets)'
                    /\ Due(todo, {"compare"}, {"put"}) =>
                          (/\ CleanupIds = {mem.target} /\ mem.pair = plan.pre
                           /\ mem.full = plan.pre.sets[mem.target]
                           /\ mem.payload = plan.post.sets[mem.target])'
                    /\ \A k \in 1..Len(todo) : k <= 2 /\ todo[k] = "put" =>
                          (sets[mem.gate] = mem.pair.sets[mem.gate]
                           \/ Ruleset(mem.gate) \in gap)'
                    /\ Has(todo, {"compare", "put"}) => cmd = "cleanup"
  BY <1>1 DEF Cleaning
<1>2. Cleaning /\ TypeInv
  BY DEF Inv
<1>3. \A s : Stronghold(s) =>
         /\ mem.gate \in Named(s) /\ s[mem.gate].active /\ MatchesOf(profile, s[mem.gate])
         /\ Len(s) <= Len(sets) /\ Len(sets) <= Len(sets')
  BY DEF Stronghold, Changes
<1>4. Len(sets) \in Nat /\ Len(sets') \in Nat
  <2>1. sets' \in Seq(Rulesets \cup {Gone})
    BY DEF Changes, RulesetLists
  <2>2. QED
    BY <1>2, <2>1, Typed
<1>5. Head(todo) \in Rounds => Stronghold(mem.loaded)'
  <2> SUFFICES ASSUME Head(todo) \in Rounds PROVE Stronghold(mem.loaded)'
    OBVIOUS
  <2>1. Stronghold(mem.loaded)
    BY <1>1, <1>2 DEF Cleaning
  <2>2. mem.loaded \in Seq(Rulesets \cup {Gone})
    BY <1>2, MemTyped DEF RulesetLists
  <2>3. Len(mem.loaded) \in Nat
    BY <2>2
  <2>4. Len(mem.loaded) <= Len(sets')
    BY <1>3, <1>4, <2>1, <2>3
  <2>5. QED
    BY <1>1, <2>1, <2>4 DEF Stronghold, Named, Live
<1>6. Due(todo, {"list"}, {"put"}) /\ Head(todo) \notin Rounds =>
          mem.pair \in Closures /\ Stronghold(mem.pair.sets)'
  <2> SUFFICES ASSUME Due(todo, {"list"}, {"put"}), Head(todo) \notin Rounds
               PROVE  mem.pair \in Closures /\ Stronghold(mem.pair.sets)'
    OBVIOUS
  <2>1. mem.pair \in Closures /\ Stronghold(mem.pair.sets)
    BY <1>1, <1>2 DEF Cleaning
  <2>2. mem.pair.sets \in Seq(Rulesets \cup {Gone})
    BY <2>1 DEF Closures, RulesetLists
  <2>3. Len(mem.pair.sets) \in Nat
    BY <2>2
  <2>4. Len(mem.pair.sets) <= Len(sets')
    BY <1>3, <1>4, <2>1, <2>3
  <2>5. QED
    BY <1>1, <2>1, <2>4 DEF Stronghold, Named, Live
<1>7. Due(todo, {"compare"}, {"put"}) =>
          (/\ CleanupIds = {mem.target} /\ mem.pair = plan.pre
           /\ mem.full = plan.pre.sets[mem.target]
           /\ mem.payload = plan.post.sets[mem.target])'
  BY <1>1, <1>2 DEF Cleaning, CleanupIds
<1>8. ASSUME NEW k \in 1..Len(todo), k <= 2, todo[k] = "put"
      PROVE  (sets[mem.gate] = mem.pair.sets[mem.gate] \/ Ruleset(mem.gate) \in gap)'
  <2>1. /\ mem.gate \in DOMAIN sets /\ mem.gate # mem.target
        /\ sets[mem.gate] = mem.pair.sets[mem.gate] \/ Ruleset(mem.gate) \in gap
    BY <1>8, CleanupPutIs
  <2>2. CASE sets'[mem.gate] = sets[mem.gate]
    BY <1>1, <2>1, <2>2
  <2>3. CASE sets'[mem.gate] # sets[mem.gate]
    <3>1. part = Ruleset(mem.gate)
      BY <2>1, <2>3 DEF Changes
    <3>2. Ruleset(mem.gate) # Ruleset(mem.target) /\ k \in DOMAIN todo
      BY <1>1, <2>1, Ahead DEF Ruleset
    <3>3. AfterLastLook(part)
      BY <1>8, <3>1, <3>2, PartsDiffer DEF AfterLastLook
    <3>4. QED
      BY <1>1, <3>1, <3>3
  <2>4. QED
    BY <2>2, <2>3
<1>9. Has(todo, {"compare", "put"}) => cmd = "cleanup"
  BY <1>1, <1>2 DEF Cleaning
<1>10. QED
  BY <1>5, <1>6, <1>7, <1>8, <1>9

LEMMA ChangeKeeps ==
    ASSUME Inv, NEW part, Changes(part)
    PROVE  Inv'
BY ChangeTypes, ChangeTarget, ChangeBefore, ChangeAfter, ChangeReading, ChangeCleaning DEF Inv

LEMMA EditKeeps ==
    ASSUME Inv, EditRuleset
    PROVE  Inv'
<1>1. TypeInv /\ \A i \in DOMAIN sets : V2IsNotLegacy(sets[i])
  BY DEF Inv, Papers
<1>2. PICK t \in Live(sets) : \E r \in Edits(sets[t]) \ {sets[t]} :
         /\ sets' = [sets EXCEPT ![t] = r]
         /\ UNCHANGED <<head, classic, canary>>
         /\ Disturb(Ruleset(t))
  BY DEF EditRuleset
<1>3. PICK r \in Edits(sets[t]) \ {sets[t]} :
         /\ sets' = [sets EXCEPT ![t] = r]
         /\ UNCHANGED <<head, classic, canary>>
         /\ Disturb(Ruleset(t))
  BY <1>2
<1>4. t \in DOMAIN sets /\ sets[t] \in Rulesets /\ sets \in RulesetLists
  BY <1>1, Typed DEF Live, TypeInv
<1>5. /\ r \in Rulesets \cup {Gone} /\ (r = Gone \/ r.name = sets[t].name) /\ V2IsNotLegacy(r)
  BY <1>1, <1>4, EditsAre
<1>6. /\ sets' \in RulesetLists /\ DOMAIN sets' = DOMAIN sets /\ Len(sets') = Len(sets)
      /\ sets'[t] = r /\ \A i \in DOMAIN sets : i # t => sets'[i] = sets[i]
  BY <1>3, <1>4, <1>5, Replaced
<1>7. \A i \in DOMAIN sets' : V2IsNotLegacy(sets'[i])
  BY <1>1, <1>5, <1>6
<1>8. ASSUME NEW i \in DOMAIN sets
      PROVE  /\ sets'[i] # sets[i] => Ruleset(t) = Ruleset(i)
             /\ sets[i] = Gone \/ sets[i].name = "v2" => sets'[i] = Gone \/ sets'[i].name = "v2"
  BY <1>4, <1>5, <1>6, GoneIsNone
<1>9. ASSUME NEW i \in Nat PROVE Listed(sets', i) # Listed(sets, i) => Ruleset(t) = Ruleset(i)
  <2>1. CASE i = t
    BY <2>1
  <2>2. CASE i # t
    BY <1>6, <2>2, SameListed
  <2>3. QED
    BY <2>1, <2>2
<1>10. Len(sets) \in Nat /\ Len(sets) <= Len(sets')
  BY <1>1, <1>6, Typed
<1>11. head' = head /\ classic' = classic /\ canary' = canary /\ Disturb(Ruleset(t))
       /\ head \in Tips /\ classic \in BOOLEAN /\ canary \in Nat
  BY <1>1, <1>3 DEF TypeInv
<1>12. Changes(Ruleset(t))
  BY <1>6, <1>7, <1>8, <1>9, <1>10, <1>11 DEF Changes
<1>13. QED
  BY <1>12, ChangeKeeps

LEMMA AddKeeps ==
    ASSUME Inv, AddRuleset
    PROVE  Inv'
<1> DEFINE t == Len(sets) + 1
<1>1. /\ TypeInv /\ sets \in RulesetLists /\ \A i \in DOMAIN sets : V2IsNotLegacy(sets[i])
  BY DEF Inv, Papers, TypeInv
<1>2. sets' = Append(sets, Staged) /\ Disturb(Ruleset(t))
      /\ head' = head /\ classic' = classic /\ canary' = canary
      /\ head \in Tips /\ classic \in BOOLEAN /\ canary \in Nat
  BY <1>1 DEF AddRuleset, TypeInv
<1>3. /\ sets' \in RulesetLists /\ DOMAIN sets = 1..Len(sets) /\ Len(sets) \in Nat
      /\ DOMAIN sets' = 1..Len(sets) + 1 /\ Len(sets') = Len(sets) + 1 /\ sets'[t] = Staged
      /\ \A i \in DOMAIN sets : sets'[i] = sets[i]
  BY <1>1, <1>2, Appended, StagedIs
<1>4. t \in Nat /\ t \notin DOMAIN sets /\ t \in DOMAIN sets' /\ Len(sets) <= Len(sets')
      /\ (\A i \in DOMAIN sets' : i = t \/ i \in DOMAIN sets)
      /\ \A i \in DOMAIN sets : i \in DOMAIN sets'
  BY <1>3
<1> HIDE DEF t
<1>5. \A i \in DOMAIN sets' : V2IsNotLegacy(sets'[i])
  BY <1>1, <1>3, <1>4, StagedIs
<1>6. ASSUME NEW i \in Nat PROVE Listed(sets', i) # Listed(sets, i) => Ruleset(t) = Ruleset(i)
  <2>1. CASE i = t
    BY <2>1
  <2>2. CASE i # t
    <3>1. i \in DOMAIN sets' <=> i \in DOMAIN sets
      BY <1>4, <2>2
    <3>2. i \in DOMAIN sets' => sets'[i] = sets[i]
      BY <1>3, <3>1
    <3>3. Listed(sets', i) = Listed(sets, i)
      BY <3>1, <3>2, SameListed
    <3>4. QED
      BY <3>3
  <2>3. QED
    BY <2>1, <2>2
<1>7. \A i \in DOMAIN sets :
         /\ sets'[i] # sets[i] => Ruleset(t) = Ruleset(i)
         /\ sets[i] = Gone \/ sets[i].name = "v2" => sets'[i] = Gone \/ sets'[i].name = "v2"
  BY <1>3
<1>8. Changes(Ruleset(t))
  BY <1>2, <1>3, <1>4, <1>5, <1>6, <1>7 DEF Changes
<1>9. QED
  BY <1>8, ChangeKeeps

LEMMA OthersKeep ==
    ASSUME Inv, MoveHead \/ ChangeClassic \/ SpoilCanary
    PROVE  Inv'
<1>1. /\ TypeInv /\ sets \in RulesetLists /\ Len(sets) \in Nat
      /\ head \in Tips /\ classic \in BOOLEAN /\ canary \in Nat
      /\ \A i \in DOMAIN sets : V2IsNotLegacy(sets[i])
  BY Typed DEF Inv, Papers, TypeInv
<1>2. ASSUME NEW part, Disturb(part), sets' = sets,
             head' \in Tips, classic' \in BOOLEAN, canary' \in Nat,
             head' # head => part = Part("head"),
             classic' # classic => part = Part("classic"),
             canary' # canary => part = Part("canary")
      PROVE  Inv'
  <2>1. /\ sets' \in RulesetLists /\ Len(sets) <= Len(sets')
        /\ \A i \in DOMAIN sets' : V2IsNotLegacy(sets'[i])
        /\ \A i \in DOMAIN sets :
              /\ sets'[i] # sets[i] => part = Ruleset(i)
              /\ sets[i] = Gone \/ sets[i].name = "v2" => sets'[i] = Gone \/ sets'[i].name = "v2"
    BY <1>1, <1>2
  <2>2. \A i \in Nat : Listed(sets', i) # Listed(sets, i) => part = Ruleset(i)
    BY <1>2
  <2>3. Changes(part)
    BY <1>2, <2>1, <2>2 DEF Changes
  <2>4. QED
    BY <2>3, ChangeKeeps
<1>3. CASE MoveHead
  BY <1>1, <1>2, <1>3 DEF MoveHead
<1>4. CASE ChangeClassic
  BY <1>1, <1>2, <1>4 DEF ChangeClassic
<1>5. CASE SpoilCanary
  BY <1>1, <1>2, <1>5 DEF SpoilCanary
<1>6. QED
  BY <1>3, <1>4, <1>5

-----------------------------------------------------------------------------
(* The owner.                                                              *)

LEMMA StartKeeps ==
    ASSUME Inv, NEW c \in Commands, NEW applying \in BOOLEAN, Start(c, applying)
    PROVE  Inv'
<1>1. /\ sets' = sets /\ head' = head /\ classic' = classic /\ canary' = canary
      /\ profile' = profile /\ unmanaged' = unmanaged /\ approved' = approved /\ plan' = plan
      /\ cmd' = c /\ todo' = Steps(c, applying) /\ mem' = Empty /\ outcome' = "running"
      /\ again' = FALSE /\ put' = NoPut /\ instants' = {State} /\ State' = State
      /\ c = "cleanup" => plan # NoPlan /\ InScope
  BY DEF Start, gitHub, owner, State
<1>2. CASE c \in {"stage", "activate"}
  <2>1. /\ Steps(c, applying) = <<"look", "digest", "choose">>
        /\ WorkProgram(c, Steps(c, applying))
        /\ ~Has(Steps(c, applying), {"plan", "put", "post"})
    BY <1>2, StartWorks
  <2>2. Working' /\ todo' = <<"look", "digest", "choose">> /\ WorkProgram(cmd', todo')
    BY <1>1, <1>2, <2>1 DEF Working
  <2>3. ~Has(todo', {"plan", "put"}) /\ ~Has(todo', {"put"}) /\ ~Has(todo', {"post"})
    BY <1>1, <2>1 DEF Has
  <2>4. todo' \in Seq(Kinds) /\ StepsInOrder'
    BY <2>2 DEF WorkProgram, StepsInOrder
  <2>5. TypeInv'
    BY <1>1, <2>4, EmptyTyped DEF Inv, TypeInv
  <2>6. Papers' /\ Reported'
    BY <1>1, <1>2, <2>4 DEF Inv, Papers, Reported
  <2>7. QED
    BY <1>1, <2>2, <2>3, <2>5, <2>6, WorkBegins DEF Inv
<1>3. CASE c \notin {"stage", "activate"}
  <2>1. /\ ClosureProgram(Steps(c, applying))
        /\ Has(Steps(c, applying), {"compare", "put"}) => c = "cleanup"
    BY <1>3, StartReads DEF Commands
  <2>2. /\ Working' = FALSE /\ ClosureProgram(todo')
        /\ Has(todo', {"compare", "put"}) => cmd' = "cleanup"
    BY <1>1, <1>3, <2>1 DEF Working
  <2>3. todo' \in Seq(Kinds) /\ StepsInOrder'
    BY <2>2 DEF ClosureProgram, StepsInOrder
  <2>4. TypeInv'
    BY <1>1, <2>3, EmptyTyped DEF Inv, TypeInv
  <2>5. cmd' = "cleanup" => (plan # NoPlan /\ InScope)'
    BY <1>1 DEF InScope, CleanupIds
  <2>6. Papers' /\ Reported'
    BY <1>1, <2>3, <2>5 DEF Inv, Papers, Reported
  <2>7. QED
    BY <1>1, <2>2, <2>4, <2>6, ReadingBegins DEF Inv
<1>4. QED
  BY <1>2, <1>3

LEMMA BetweenKeeps ==
    ASSUME Inv, ApproveInventory \/ PassCanary \/ FollowPlan
    PROVE  Inv'
<1>1. TypeInv /\ Papers
  BY DEF Inv
<1>2. /\ todo' = <<>> /\ todo' \in Seq(Kinds) /\ mem' = Empty /\ again' = FALSE /\ Idle
      /\ profile' = profile /\ unmanaged' = unmanaged /\ head' = head /\ cmd' = cmd
  <2>1. Between
    BY DEF ApproveInventory, PassCanary, FollowPlan
  <2>2. QED
    BY <1>1, <2>1 DEF Between, Forget, Idle, TypeInv
<1>3. ASSUME sets' \in RulesetLists, classic' \in BOOLEAN, canary' \in Nat,
             approved' \in [rulesets : SUBSET (Nat \X Rulesets), classic : BOOLEAN],
             plan' = plan, \A i \in DOMAIN sets' : V2IsNotLegacy(sets'[i])
      PROVE  Inv'
  <2>1. TypeInv'
    BY <1>1, <1>2, <1>3, EmptyTyped DEF TypeInv
  <2>2. plan' # NoPlan => plan'.post = PostCleanup(plan'.pre)
    BY <1>1, <1>3 DEF Papers
  <2>3. QED
    BY <1>2, <1>3, <2>1, <2>2, IdleKeeps
<1>4. CASE ApproveInventory
  <2>1. /\ sets' = sets /\ classic' = classic /\ canary' = canary /\ plan' = plan
        /\ approved' = Inventory(sets, classic)
    BY <1>4 DEF ApproveInventory
  <2>2. \A i \in LegacyIds(sets) : <<i, sets[i]>> \in Nat \X Rulesets
    BY <1>1, Typed DEF LegacyIds, Live
  <2>3. {<<i, sets[i]>> : i \in LegacyIds(sets)} \in SUBSET (Nat \X Rulesets)
    BY <2>2
  <2>4. approved' \in [rulesets : SUBSET (Nat \X Rulesets), classic : BOOLEAN]
    BY <1>1, <2>1, <2>3 DEF Inventory, TypeInv
  <2>5. QED
    BY <1>1, <1>3, <2>1, <2>4 DEF TypeInv, Papers
<1>5. CASE PassCanary
  <2>1. /\ sets' = sets /\ classic' = classic /\ canary' = head /\ plan' = plan
        /\ approved' = approved
    BY <1>1, <1>2, <1>5 DEF PassCanary, Between, TypeInv
  <2>2. head \in Nat
    BY <1>1 DEF TypeInv, Tips
  <2>3. QED
    BY <1>1, <1>3, <2>1, <2>2 DEF TypeInv, Papers
<1>6. CASE FollowPlan
  <2>1. /\ sets' = plan.post.sets /\ classic' = plan.post.classic /\ canary' = canary
        /\ plan' = plan /\ approved' = approved /\ plan # NoPlan /\ plan.pre.sets = sets
    BY <1>6 DEF FollowPlan
  <2>2. /\ plan.pre \in Closures /\ plan.post \in Closures
        /\ plan.post = PostCleanup(plan.pre)
    BY <1>1, <2>1 DEF TypeInv, Papers
  <2>3. sets' \in RulesetLists /\ classic' \in BOOLEAN
    BY <2>1, <2>2 DEF Closures
  <2>4. ASSUME NEW i \in DOMAIN sets' PROVE V2IsNotLegacy(sets'[i])
    <3>1. /\ i \in DOMAIN sets
          /\ sets'[i] = IF i \in LegacyIds(sets) THEN Cleaned(sets[i]) ELSE sets[i]
      BY <2>1, <2>2, PostCleanupIs
    <3>2. i \in LegacyIds(sets) => sets[i] \in Rulesets
      BY <1>1, <3>1, Typed DEF LegacyIds, Live
    <3>3. CASE i \in LegacyIds(sets)
      <4>1. Cleaned(sets[i]) # Gone => ~RequiresLegacy(Cleaned(sets[i]))
        BY <3>2, <3>3, CleanedIs
      <4>2. QED
        BY <3>1, <3>3, <4>1 DEF V2IsNotLegacy
    <3>4. CASE i \notin LegacyIds(sets)
      BY <1>1, <3>1, <3>4 DEF Papers
    <3>5. QED
      BY <3>3, <3>4
  <2>5. QED
    BY <1>1, <1>3, <2>1, <2>3, <2>4 DEF TypeInv
<1>7. QED
  BY <1>4, <1>5, <1>6

-----------------------------------------------------------------------------
(* The invariant.                                                          *)

LEMMA DraftsAre ==
    ASSUME NEW v2 \in Drafts
    PROVE  v2 = <<>> \/ \E d \in Rulesets : v2 = <<d>> /\ V2IsNotLegacy(d)
<1> DEFINE active == [Staged EXCEPT !.active = TRUE]
           other == [Staged EXCEPT !.active = TRUE, !.name = "gate"]
           half == [Staged EXCEPT !.checks = {"v1"}, !.ref = "elsewhere", !.bypass = TRUE]
<1>1. Staged \in Rulesets /\ V2IsNotLegacy(Staged) /\ Staged.checks = {"v2"}
  BY StagedIs DEF Staged
<1>2. active \in Rulesets /\ V2IsNotLegacy(active)
  BY <1>1, GoneIsNone DEF Rulesets, V2IsNotLegacy, RequiresLegacy
<1>3. other \in Rulesets /\ V2IsNotLegacy(other)
  BY <1>1, GoneIsNone DEF Rulesets, V2IsNotLegacy, RequiresLegacy
<1>4. half \in Rulesets /\ V2IsNotLegacy(half)
  BY <1>1, GoneIsNone DEF Rulesets, V2IsNotLegacy, Covers
<1>5. v2 \in {<<>>, <<Staged>>, <<active>>, <<other>>, <<half>>}
  BY DEF Drafts
<1> HIDE DEF active, other, half
<1>6. QED
  BY <1>1, <1>2, <1>3, <1>4, <1>5

LEMMA FirstRulesets ==
    ASSUME NEW old \in Rulesets, V2IsNotLegacy(old), NEW v2 \in Drafts
    PROVE  /\ <<old>> \o v2 \in RulesetLists
           /\ \A i \in DOMAIN (<<old>> \o v2) : V2IsNotLegacy((<<old>> \o v2)[i])
<1>1. <<old>> \in Seq(Rulesets)
  OBVIOUS
<1>2. CASE v2 = <<>>
  <2>1. <<old>> \o v2 = <<old>>
    BY <1>1, <1>2, EmptyIs
  <2> DEFINE r == <<old>>
  <2>2. r \in RulesetLists /\ \A i \in DOMAIN r : V2IsNotLegacy(r[i])
    BY DEF RulesetLists
  <2>3. <<old>> \o v2 = r
    BY <2>1
  <2> HIDE DEF r
  <2>4. QED
    BY <2>2, <2>3
<1>3. CASE v2 # <<>>
  <2>1. PICK d \in Rulesets : v2 = <<d>> /\ V2IsNotLegacy(d)
    BY <1>3, DraftsAre
  <2> DEFINE s == <<old>>
             t == <<d>>
             r == <<old, d>>
  <2>2. /\ s \in Seq(Rulesets) /\ t \in Seq(Rulesets) /\ r \in Seq(Rulesets)
        /\ Len(r) = Len(s) + Len(t)
        /\ \A k \in 1..Len(s) : r[k] = s[k]
        /\ \A k \in 1..Len(t) : r[Len(s) + k] = t[k]
    OBVIOUS
  <2>3. r \in RulesetLists /\ \A i \in DOMAIN r : V2IsNotLegacy(r[i])
    BY <2>1 DEF RulesetLists
  <2> HIDE DEF s, t, r
  <2>4. s \o t = r
    BY <2>2, Flat
  <2>5. <<old>> \o v2 = r
    BY <2>1, <2>4 DEF s, t
  <2>6. QED
    BY <2>3, <2>5
<1>4. QED
  BY <1>2, <1>3

LEMMA InitInv == Init => Inv
<1> SUFFICES ASSUME Init PROVE Inv
  OBVIOUS
<1>1. PICK v2 \in Drafts, with \in Complications :
         /\ sets = <<IF with = "dedicated" THEN Legacy
                     ELSE [Legacy EXCEPT !.rules = @ \cup {"deletion"}]>> \o v2
         /\ unmanaged = (with = "unmanaged")
         /\ classic = (with = "classic")
  BY DEF Init
<1> DEFINE old == IF with = "dedicated" THEN Legacy
                  ELSE [Legacy EXCEPT !.rules = @ \cup {"deletion"}]
<1>2. old \in Rulesets /\ V2IsNotLegacy(old)
  BY DEF Legacy, Rulesets, V2IsNotLegacy
<1> HIDE DEF old
<1>3. sets \in RulesetLists /\ \A i \in DOMAIN sets : V2IsNotLegacy(sets[i])
  BY <1>1, <1>2, FirstRulesets DEF old
<1>4. sets \in Seq(Rulesets \cup {Gone})
  BY <1>3 DEF RulesetLists
<1>5. unmanaged \in BOOLEAN /\ classic \in BOOLEAN
  BY <1>1
<1>6. approved \in [rulesets : SUBSET (Nat \X Rulesets), classic : BOOLEAN]
  <2>1. \A i \in LegacyIds(sets) : <<i, sets[i]>> \in Nat \X Rulesets
    BY <1>4 DEF LegacyIds, Live
  <2>2. {<<i, sets[i]>> : i \in LegacyIds(sets)} \in SUBSET (Nat \X Rulesets)
    BY <2>1
  <2>3. approved = Inventory(sets, classic)
    BY DEF Init
  <2>4. QED
    BY <1>5, <2>2, <2>3 DEF Inventory
<1>7. /\ todo = <<>> /\ put = NoPut /\ outcome = "none" /\ plan = NoPlan /\ mem = Empty
      /\ cmd = "stage" /\ again = FALSE /\ head = 1 /\ canary = 1
      /\ profile \in {"full", "status-only"}
  BY DEF Init
<1>8. TypeInv
  <2>1. todo \in Seq(Kinds)
    BY <1>7
  <2>2. head \in Tips /\ canary \in Nat /\ cmd \in Commands
    BY <1>7 DEF Tips, Commands
  <2>3. QED
    BY <1>3, <1>5, <1>6, <1>7, <2>1, <2>2, EmptyTyped DEF TypeInv
<1>9. Papers
  BY <1>3, <1>7 DEF Papers
<1>10. WorkBefore /\ WorkAfter /\ TargetUnderWatch /\ Remembered /\ ReadingClosures /\ Cleaning
       /\ Reported
  BY <1>7 DEF WorkBefore, WorkAfter, TargetUnderWatch, Remembered, ReadingClosures, Cleaning,
     Reported
<1>11. QED
  BY <1>8, <1>9, <1>10 DEF Inv

LEMMA StepKeeps == Inv /\ Step => Inv'
<1> SUFFICES ASSUME Inv, Step PROVE Inv'
  OBVIOUS
<1>1. CASE Look
  BY <1>1, LookKeeps
<1>2. CASE \/ Digest \/ Canary \/ Owners \/ Reread \/ Gate \/ Names \/ Bound \/ Readback
           \/ LegacyInventory \/ CanaryEvidence
  BY <1>2, GlancesKeep
<1>3. CASE AlreadyEffective \/ NoChange
  BY <1>3, UnchangedKeeps
<1>4. CASE Choose
  BY <1>4, ChooseKeeps
<1>5. CASE Plan
  BY <1>5, PlanKeeps
<1>6. CASE Post
  BY <1>6, PostKeeps
<1>7. CASE Put
  BY <1>7, PutKeeps
<1>8. CASE List
  BY <1>8, ListKeeps
<1>9. CASE FirstRound \/ SecondRound
  BY <1>9, RoundKeeps
<1>10. CASE ProveAgain
  BY <1>10, ProveAgainKeeps
<1>11. CASE Emit
  BY <1>11, EmitKeeps
<1>12. CASE Compare
  BY <1>12, CompareKeeps
<1>13. CASE Verified \/ Proved
  BY <1>13, AttestKeeps
<1>14. CASE Done
  BY <1>14, DoneKeeps
<1>15. CASE DryRun
  BY <1>15, DryRunKeeps
<1>16. QED
  BY <1>1, <1>2, <1>3, <1>4, <1>5, <1>6, <1>7, <1>8, <1>9, <1>10, <1>11, <1>12, <1>13, <1>14,
     <1>15 DEF Step

LEMMA StutterKeeps == Inv /\ UNCHANGED vars => Inv'
<1> SUFFICES ASSUME Inv, UNCHANGED vars PROVE Inv'
  OBVIOUS
<1>1. /\ sets' = sets /\ head' = head /\ classic' = classic /\ canary' = canary
      /\ profile' = profile /\ unmanaged' = unmanaged /\ approved' = approved /\ plan' = plan
      /\ cmd' = cmd /\ apply' = apply /\ todo' = todo /\ mem' = mem /\ outcome' = outcome
      /\ touched' = touched /\ again' = again /\ gap' = gap /\ instants' = instants /\ put' = put
  BY DEF vars, gitHub, owner, history
<1>2. TypeInv' /\ Papers' /\ Reported'
  BY <1>1 DEF Inv, TypeInv, Papers, Reported, StepsInOrder, Working, State, InScope, CleanupIds
<1>3. TargetUnderWatch' /\ Remembered'
  BY <1>1 DEF Inv, TargetUnderWatch, Remembered, Working
<1>4. WorkBefore'
  BY <1>1 DEF Inv, WorkBefore, Working, OnTarget, PlanIsSafe, Staged, GateRules, Since,
     SinceApproval, ApprovedOf
<1>5. WorkAfter'
  BY <1>1 DEF Inv, WorkAfter, Working, Lost, ApprovedOf
<1>6. ReadingClosures'
  BY <1>1 DEF Inv, ReadingClosures, Working, Since, Stands, Lost, Closure
<1>7. Cleaning'
  BY <1>1 DEF Inv, Cleaning, Working, Stronghold, CleanupIds, Named, Live
<1>8. QED
  BY <1>2, <1>3, <1>4, <1>5, <1>6, <1>7 DEF Inv

\* The whole invariant: what a command has read is still so, was changed since, or is lost
\* for the rest of the command.
THEOREM InvHolds == Spec => []Inv
<1>1. Inv /\ [Next]_vars => Inv'
  <2> SUFFICES ASSUME Inv, [Next]_vars PROVE Inv'
    OBVIOUS
  <2>1. CASE Command
    <3>1. PICK c \in {"stage", "activate", "derive", "cleanup", "verify", "prove"},
               applying \in BOOLEAN : Start(c, applying)
      BY <2>1 DEF Command
    <3>2. c \in Commands
      BY DEF Commands
    <3>3. QED
      BY <3>1, <3>2, StartKeeps
  <2>2. CASE Step
    BY <2>2, StepKeeps
  <2>3. CASE Fail
    BY <2>3, FailKeeps
  <2>4. CASE ApproveInventory \/ PassCanary \/ FollowPlan
    BY <2>4, BetweenKeeps
  <2>5. CASE EditRuleset
    BY <2>5, EditKeeps
  <2>6. CASE AddRuleset
    BY <2>6, AddKeeps
  <2>7. CASE MoveHead \/ ChangeClassic \/ SpoilCanary
    BY <2>7, OthersKeep
  <2>8. CASE UNCHANGED vars
    BY <2>8, StutterKeeps
  <2>9. QED
    BY <2>1, <2>2, <2>3, <2>4, <2>5, <2>6, <2>7, <2>8 DEF Next
<1>2. QED
  BY <1>1, InitInv, PTL DEF Spec

-----------------------------------------------------------------------------
(* The properties.                                                         *)

\* What makes the inventory of a state the approved one.
LEMMA ApprovedIs ==
    ASSUME approved \in [rulesets : SUBSET (Nat \X Rulesets), classic : BOOLEAN],
           NEW s \in RulesetLists, NEW c, c = approved.classic,
           \A i \in Nat : Listed(s, i) = ApprovedOf(i)
    PROVE  Inventory(s, c) = approved
<1> DEFINE found == {<<i, s[i]>> : i \in LegacyIds(s)}
<1>1. LegacyIds(s) \subseteq Nat
  <2>1. s \in Seq(Rulesets \cup {Gone})
    BY DEF RulesetLists
  <2>2. QED
    BY <2>1 DEF LegacyIds, Live
<1>2. ASSUME NEW i \in LegacyIds(s) PROVE <<i, s[i]>> \in approved.rulesets
  <2>1. i \in Nat /\ <<i, s[i]>> \in Listed(s, i)
    BY <1>1 DEF Listed
  <2>2. <<i, s[i]>> \in ApprovedOf(i)
    BY <2>1
  <2>3. QED
    BY <2>2 DEF ApprovedOf
<1>3. ASSUME NEW p \in approved.rulesets PROVE p \in found
  <2>1. p \in Nat \X Rulesets
    OBVIOUS
  <2>2. p[1] \in Nat /\ p \in ApprovedOf(p[1])
    BY <2>1 DEF ApprovedOf
  <2>3. p \in Listed(s, p[1])
    BY <2>2
  <2>4. p[1] \in LegacyIds(s) /\ p = <<p[1], s[p[1]]>>
    BY <2>3 DEF Listed
  <2>5. QED
    BY <2>4
<1>4. found = approved.rulesets
  BY <1>2, <1>3
<1> HIDE DEF found
<1>5. approved = [rulesets |-> approved.rulesets, classic |-> approved.classic]
  OBVIOUS
<1>6. Inventory(s, c) = [rulesets |-> found, classic |-> c]
  BY DEF Inventory, found
<1>7. QED
  BY <1>4, <1>5, <1>6

\* A reported write was made on what the command had checked: the tip of its first snapshot,
\* the approved inventory, the exact stage and a canary that had passed, but for a change in
\* the last gap, and as long as no part changed twice.
THEOREM WriteWasCheckedHolds == Spec => []WriteWasChecked
<1>1. Inv => WriteWasChecked
  <2> SUFFICES ASSUME Inv, outcome = "done", ~again
               PROVE  /\ <<put.head, put.classic>> = mem.snap
                      /\ Inventory(put.sets, put.classic) = put.approved
                      /\ cmd = "activate" =>
                             /\ \/ put.sets[mem.target] = [mem.payload EXCEPT !.active = FALSE]
                                \/ Ruleset(mem.target) \in put.gap
                             /\ put.canary = put.head \/ Part("canary") \in put.gap
    BY DEF WriteWasChecked
  <2>1. todo = <<>> /\ Working /\ put # NoPut /\ WorkAfter /\ TypeInv
    BY DEF Inv, Reported
  <2>2. ~Has(todo, {"look"}) /\ ~Has(todo, {"digest"})
    BY <2>1 DEF Has
  <2>3. /\ put.approved = approved /\ put.sets \in RulesetLists
        /\ cmd = "activate" =>
              /\ \/ put.sets[mem.target] = [mem.payload EXCEPT !.active = FALSE]
                 \/ Ruleset(mem.target) \in put.gap
              /\ put.canary = mem.snap[1] \/ Part("canary") \in put.gap
    BY <2>1 DEF WorkAfter
  <2>4. <<put.head, put.classic>> = mem.snap /\ put.classic = approved.classic
    BY <2>1, <2>2 DEF WorkAfter
  <2>5. \A i \in Nat : Listed(put.sets, i) = ApprovedOf(i)
    BY <2>1, <2>2 DEF WorkAfter
  <2>6. Inventory(put.sets, put.classic) = put.approved
    BY <2>1, <2>3, <2>4, <2>5, ApprovedIs DEF TypeInv
  <2>7. put.head = mem.snap[1]
    BY <2>4, SnapIs
  <2>8. QED
    BY <2>3, <2>4, <2>6, <2>7
<1>2. QED
  BY <1>1, InvHolds, PTL

\* What a derivation, a verification or a proof attests was true at one instant of the
\* command, as long as no part changed twice.
THEOREM AttestedWasRealHolds == Spec => []AttestedWasReal
<1>1. Inv => AttestedWasReal
  BY DEF Inv, Reported, AttestedWasReal
<1>2. QED
  BY <1>1, InvHolds, PTL

\* A creation takes no gate away.
LEMMA PostKeepsGate ==
    ASSUME Inv, Post, Gated(sets, classic)
    PROVE  Gated(sets', classic')
<1> DEFINE written == Append(sets, mem.payload)
<1>1. todo # <<>> /\ Head(todo) = "post" /\ sets' = written /\ classic' = classic
  BY DEF Post, At, Write
<1>2. TypeInv /\ Working /\ WorkBefore /\ 1 \in 1..Len(todo) /\ todo[1] = "post"
  BY <1>1, NotOfClosures, Ahead DEF Inv
<1>3. mem.payload = Staged
  <2>1. Has(todo, {"post"})
    BY <1>2 DEF Has
  <2>2. QED
    BY <1>1, <1>2, <2>1 DEF WorkBefore
<1>4. /\ DOMAIN sets = 1..Len(sets) /\ Len(sets) \in Nat
      /\ DOMAIN written = 1..Len(sets) + 1
      /\ \A i \in DOMAIN sets : written[i] = sets[i]
  BY <1>2, <1>3, Appended, StagedIs DEF TypeInv
<1> HIDE DEF written
<1>5. ASSUME NEW i \in DOMAIN sets
      PROVE  /\ i \in LegacyIds(sets) => i \in LegacyIds(written)
             /\ i \in Effective(sets) => i \in Effective(written)
  <2>1. i \in DOMAIN written /\ sets[i] = written[i]
    BY <1>4
  <2>2. QED
    BY <2>1, SameListed
<1>6. \A i : i \in LegacyIds(sets) \cup Effective(sets) => i \in DOMAIN sets
  BY DEF LegacyIds, Effective, Live
<1>7. QED
  BY <1>1, <1>5, <1>6 DEF Gated

\* Nor does putting back what was read, made complete.
LEMMA WorkPutKeepsGate ==
    ASSUME Inv, Put, Working, Gated(sets, classic), Ruleset(mem.target) \notin gap
    PROVE  Gated(sets', classic')
<1> DEFINE written == [sets EXCEPT ![mem.target] = mem.payload]
<1>1. todo # <<>> /\ Head(todo) = "put" /\ sets' = written /\ classic' = classic
      /\ sets[mem.target] # Gone
  BY DEF Put, At, Write
<1>2. /\ TypeInv /\ OnTarget /\ PlanIsSafe /\ sets[mem.target] = mem.full
      /\ \A i \in DOMAIN sets : V2IsNotLegacy(sets[i])
  BY <1>1, WorkPutIs DEF Inv, Papers, TargetUnderWatch
<1>3. mem.target \in DOMAIN sets /\ mem.payload \in Rulesets /\ sets \in RulesetLists
  BY <1>2 DEF OnTarget, PlanIsSafe, TypeInv
<1>4. /\ DOMAIN written = DOMAIN sets /\ written[mem.target] = mem.payload
      /\ \A i \in DOMAIN sets : i # mem.target => written[i] = sets[i]
  BY <1>3, Replaced
<1> HIDE DEF written
<1>5. ASSUME NEW i \in DOMAIN sets
      PROVE  /\ i \in LegacyIds(sets) => i \in LegacyIds(written)
             /\ i \in Effective(sets) => i \in Effective(written)
  <2>1. CASE i # mem.target
    BY <1>4, <2>1, SameListed
  <2>2. CASE i = mem.target
    <3>1. i \notin LegacyIds(sets)
      BY <1>2, <1>3, <2>2, NotListed DEF OnTarget
    <3>2. ASSUME i \in Effective(sets) PROVE i \in Effective(written)
      <4>1. mem.full.active
        BY <1>2, <2>2, <3>2 DEF Effective
      <4>2. mem.payload.active /\ Matches(mem.payload) /\ mem.payload # Gone
        BY <1>2, <1>3, <4>1, MatchesIs, GoneIsNone DEF PlanIsSafe
      <4>3. QED
        BY <1>3, <1>4, <2>2, <4>2 DEF Effective, Live
    <3>3. QED
      BY <3>1, <3>2
  <2>3. QED
    BY <2>1, <2>2
<1>6. \A i : i \in LegacyIds(sets) \cup Effective(sets) => i \in DOMAIN sets
  BY DEF LegacyIds, Effective, Live
<1>7. QED
  BY <1>1, <1>5, <1>6 DEF Gated

\* A cleanup leaves the gate it has read, which is not what it writes.
LEMMA CleanupKeepsGate ==
    ASSUME Inv, Put, ~Working, Ruleset(mem.gate) \notin gap
    PROVE  Gated(sets', classic')
<1> DEFINE written == [sets EXCEPT ![mem.target] = mem.payload]
<1>1. todo # <<>> /\ Head(todo) = "put" /\ sets' = written
  BY DEF Put, At, Write
<1>2. /\ mem.target \in DOMAIN sets /\ mem.payload \in Rulesets /\ mem.gate # mem.target
      /\ mem.gate \in DOMAIN sets /\ Stronghold(mem.pair.sets)
      /\ sets[mem.gate] = mem.pair.sets[mem.gate] /\ sets \in RulesetLists
  BY <1>1, CleanupWrites DEF Inv, TypeInv
<1>3. DOMAIN written = DOMAIN sets /\ written[mem.gate] = sets[mem.gate]
  BY <1>2, Replaced
<1> HIDE DEF written
<1>4. sets[mem.gate] # Gone /\ sets[mem.gate].active /\ Matches(sets[mem.gate])
  BY <1>2, MatchesIs DEF Stronghold, Named, Live
<1>5. mem.gate \in Effective(written)
  BY <1>2, <1>3, <1>4 DEF Effective, Live
<1>6. QED
  BY <1>1, <1>5 DEF Gated

\* No write of a command leaves a repository without a gate that had one, unless others
\* changed a ruleset it is about since its last look.
THEOREM WritesKeepTheGateHolds == Spec => WritesKeepTheGate
<1>1. Inv /\ [Next]_vars =>
          ((todo # <<>> /\ todo' # todo /\ Gated(sets, classic)
            /\ ~\E i \in {mem.target, mem.gate} : Ruleset(i) \in gap)
           => Gated(sets', classic'))
  <2> SUFFICES ASSUME Inv, [Next]_vars, todo # <<>>, todo' # todo, Gated(sets, classic),
                      Ruleset(mem.target) \notin gap, Ruleset(mem.gate) \notin gap
               PROVE  Gated(sets', classic')
    OBVIOUS
  <2>1. CASE Post
    BY <2>1, PostKeepsGate
  <2>2. CASE Put
    BY <2>2, WorkPutKeepsGate, CleanupKeepsGate
  <2>3. ASSUME sets' = sets, classic' = classic PROVE Gated(sets', classic')
    BY <2>3
  <2>4. CASE Fail
    BY <2>3, <2>4 DEF Fail, Reading, gitHub
  <2>5. CASE Step /\ ~Post /\ ~Put
    <3>1. CASE Emit
      BY <2>3, <3>1 DEF Emit, gitHub
    <3>2. CASE ~Emit
      <4>1. Reading
        BY <2>5, <3>2 DEF Step, Look, Digest, Canary, Owners, Reread, Gate, Names, Bound,
           Readback, AlreadyEffective, Choose, NoChange, Plan, List, LegacyInventory,
           CanaryEvidence, FirstRound, SecondRound, ProveAgain, Compare, Verified, Proved,
           Done, DryRun, Require
      <4>2. QED
        BY <2>3, <4>1 DEF Reading, gitHub
    <3>3. QED
      BY <3>1, <3>2
  <2>6. ~Command
    BY DEF Command, Start
  <2>7. ~ApproveInventory /\ ~PassCanary /\ ~FollowPlan
    BY DEF ApproveInventory, PassCanary, FollowPlan, Between
  <2>8. ~EditRuleset /\ ~AddRuleset /\ ~MoveHead /\ ~ChangeClassic /\ ~SpoilCanary
    BY DEF EditRuleset, AddRuleset, MoveHead, ChangeClassic, SpoilCanary, Disturb
  <2>9. ~UNCHANGED vars
    BY DEF vars
  <2>10. QED
    BY <2>1, <2>2, <2>4, <2>5, <2>6, <2>7, <2>8, <2>9 DEF Next
<1>2. QED
  BY <1>1, InvHolds, PTL DEF Spec, WritesKeepTheGate

-----------------------------------------------------------------------------
(* The worktree: the stages of the helper.                                 *)

\* The sequence of calls is walked through in stages: at says where the helper is,
\* on which target it is at work, and ok which targets it has seen, settled or read
\* back so far.
Stages ==
    {"starting", "seeing", "ready", "written", "compared", "installed", "admitted", "prepared",
     "away", "quarantined", "checked", "unlinked", "emptied", "reading", "restoring", "linked",
     "twice", "single", "back", "proved", "over"}
Modes == {"bridge", "remove", "source"}
Phases == [at : Stages, mode : Modes, on : Targets, ok : SUBSET Targets]
In(m, at, on, ok) == [at |-> at, mode |-> m, on |-> on, ok |-> ok]
Over(m) == In(m, "over", "bridge", {})

Doings ==
    {"start", "see", "list", "authorize", "diff", "plan", "unchanged", "compare", "write",
     "install", "completed", "admit", "check", "mkdir", "rename", "verified", "unlink", "rmdir",
     "link", "restored", "final", "end"}
Objects ==
    Targets \cup {"all", "origin", "any", "clean", "removed", "quarantined", "quarantine",
                  "applied", "no change"}
Calls == [do : Doings, on : Objects]

ManagedIn(m) == IF m = "source" THEN {"bridge"} ELSE Targets
FinalIn(m, t) == IF t = "bridge" /\ m # "bridge" THEN "nothing" ELSE "canonical"

\* The targets that have to be settled before this one changes.
Fits(m, t, ok) ==
    /\ t # "codeowners" /\ m # "source" => "codeowners" \in ok
    /\ t \in {"verifier", "controller"} /\ m = "bridge" => "bridge" \in ok
    /\ t = "bridge" /\ m = "remove" => Targets \ {"bridge"} \subseteq ok

\* The calls that leave the helper where it is, and those that move it on.
Staying ==
    ({"seeing"} \X {"list", "authorize", "diff"})
    \cup ({"ready"} \X {"unchanged", "compare", "authorize", "diff"})
    \cup ({"written"} \X {"unchanged", "authorize", "diff"})
    \cup ({"admitted"} \X {"check", "unchanged", "authorize", "diff"})
    \cup ({"prepared"} \X {"check", "authorize", "diff"})
    \cup ({"quarantined", "reading"} \X {"authorize", "diff"})
    \cup ({"away", "restoring"} \X {"check"})
Moving ==
    {<<"admitted", "mkdir", "quarantine", "prepared">>,
     <<"prepared", "rename", "quarantine", "away">>,
     <<"away", "verified", "quarantine", "quarantined">>,
     <<"quarantined", "check", "quarantine", "checked">>,
     <<"checked", "authorize", "origin", "quarantined">>,
     <<"checked", "unlink", "quarantine", "unlinked">>,
     <<"unlinked", "rmdir", "quarantine", "emptied">>,
     <<"restoring", "link", "bridge", "linked">>,
     <<"linked", "check", "bridge", "linked">>,
     <<"linked", "check", "quarantine", "twice">>,
     <<"twice", "unlink", "quarantine", "single">>,
     <<"single", "check", "bridge", "single">>,
     <<"single", "rmdir", "quarantine", "back">>,
     <<"back", "check", "bridge", "proved">>}

\* One call: from phase a to phase b.
Ends(a, c) ==
    \/ a.at = "starting" /\ c.do = "start"
    \/ a.at = "seeing" /\ c.do = "plan" /\ a.ok = ManagedIn(a.mode)
    \/ a.at = "ready" /\ c.do = "end" /\ c.on = "no change"
    \/ a.at = "reading" /\ c.do = "end" /\ c.on = "applied" /\ a.ok = ManagedIn(a.mode)
    \/ a.at = "proved" /\ c.do = "restored"
Leads(a, c, b) ==
    \/ <<a.at, c.do>> \in Staying /\ b = a
    \/ <<a.at, c.do, c.on, b.at>> \in Moving /\ b = In(a.mode, b.at, "bridge", a.ok)
    \/ /\ a.at = "seeing" /\ c.do = "see" /\ c.on \in ManagedIn(a.mode)
       /\ b = In(a.mode, "seeing", "bridge", a.ok \cup {c.on})
    \/ /\ a.at = "ready" /\ c.do = "write" /\ c.on \in ManagedIn(a.mode)
       /\ FinalIn(a.mode, c.on) = "canonical" /\ Fits(a.mode, c.on, a.ok)
       /\ b = In(a.mode, "written", c.on, a.ok)
    \/ a.at = "written" /\ c.do = "compare" /\ c.on = a.on /\ b = In(a.mode, "compared", a.on, a.ok)
    \/ a.at = "compared" /\ c.do = "install" /\ c.on = a.on /\ b = In(a.mode, "installed", a.on, a.ok)
    \/ /\ a.at = "ready" /\ c.do = "admit" /\ c.on = "bridge"
       /\ a.mode # "bridge" /\ "bridge" \notin a.ok /\ Fits(a.mode, "bridge", a.ok)
       /\ b = In(a.mode, "admitted", "bridge", a.ok)
    \/ /\ a.at \in {"installed", "emptied"} /\ c.do = "completed" /\ c.on = a.on
       /\ b = In(a.mode, "ready", "bridge", a.ok \cup {a.on})
    \/ /\ a.at = "ready" /\ c.do = "final" /\ c.on \in Targets
       /\ b = In(a.mode, "reading", "bridge", {c.on})
    \/ /\ a.at = "reading" /\ c.do = "final" /\ c.on \in Targets
       /\ b = In(a.mode, "reading", "bridge", a.ok \cup {c.on})
    \/ Ends(a, c) /\ b = Over(a.mode)

\* The calls s lead from phase a to phase b.
Path(s, a, b) ==
    /\ s \in Seq(Calls)
    /\ \E q \in [1..(Len(s) + 1) -> Phases] :
          /\ q[1] = a /\ q[Len(s) + 1] = b
          /\ \A i \in 1..Len(s) : Leads(q[i], s[i], q[i + 1])

-----------------------------------------------------------------------------
(* The worktree: the inductive invariant.                                  *)

Removing ==
    {"admitted", "prepared", "away", "quarantined", "checked", "unlinked", "emptied"}
Changing == {"ready", "written", "compared", "installed"} \cup Removing
Restoring == {"linked", "twice", "single", "back", "proved"}

NoteIn(at) ==
    CASE at \in {"written", "compared"} -> "temp"
      [] at = "installed" -> "renamed"
      [] at = "prepared" -> "directory"
      [] at = "away" -> "unverified"
      [] at \in {"quarantined", "checked"} -> "quarantined"
      [] at \in {"unlinked", "emptied"} -> "unlinked"
      [] at \in Restoring \cup {"restoring"} -> "not restored"
      [] OTHER -> "none"

\* What it has written and not yet counted as done.
Owed(a) ==
    CASE a.at = "installed" -> {a.on}
      [] a.at \in {"away", "quarantined", "checked", "unlinked", "emptied", "restoring"} -> {"bridge"}
      [] OTHER -> {}

\* The file was the admitted bridge when it was last looked at.
Admitted(n) == files[n] = [id |-> admitted, content |-> "canonical"] \/ n \in recent

\* While the helper reads.
Saw(a) ==
    /\ a.at \in {"starting", "seeing"} => wrote = {}
    /\ a.at = "starting" => a.ok = {}
    /\ a.at = "seeing" =>
          /\ \A t \in a.ok : Content(t) = seen[t] \/ t \in moved
          /\ mode # "bridge" /\ "bridge" \in a.ok => seen["bridge"] \in {"nothing", "canonical"}

\* While it changes the targets: those that are settled are as planned.
Settled(a) ==
    a.at \in Changing =>
        /\ done \subseteq a.ok
        /\ \A t \in Managed : t \in a.ok => t \in wrote \/ seen[t] = Final(t)
        /\ \A t \in Managed : t \notin a.ok => seen[t] # Final(t)
        /\ \A t \in Targets : t \in wrote => Content(t) = Final(t) \/ t \in moved
        /\ \A t \in Managed : seen[t] = Final(t) => Content(t) = Final(t) \/ t \in moved
        /\ mode # "bridge" => seen["bridge"] \in {"nothing", "canonical"}

Installs(a) ==
    /\ a.at \in {"written", "compared"} =>
          /\ Content("temp") = "canonical" /\ a.on \in Managed
          /\ Final(a.on) = "canonical" /\ Fits(mode, a.on, a.ok)
    /\ a.at = "compared" => Content(a.on) = seen[a.on] \/ a.on \in recent

Removes(a) ==
    /\ a.at \in Removing =>
          /\ mode # "bridge" /\ "bridge" \notin a.ok /\ a.on = "bridge"
          /\ Fits(mode, "bridge", a.ok)
    /\ a.at \in Restoring \cup {"restoring"} =>
          mode # "bridge" /\ seen["bridge"] = "canonical" /\ "bridge" \notin done
    /\ a.at \in {"away", "quarantined", "checked"} =>
          files["quarantine"] # Nothing \/ "quarantine" \in moved
    /\ a.at \in {"checked", "twice"} => Admitted("quarantine")
    /\ a.at \in {"single", "back", "proved"} => files["quarantine"] = Nothing
    /\ a.at = "proved" => Admitted("bridge")

ReadBack(a) ==
    a.at = "reading" =>
        /\ \A t \in a.ok : Content(t) = Final(t) \/ t \in late
        /\ \A t \in Targets : t \in wrote => Content(t) = Final(t) \/ t \in moved

Holds(a) ==
    /\ a.mode = mode /\ note = NoteIn(a.at) /\ wrote = done \cup Owed(a)
    /\ Saw(a) /\ Settled(a) /\ Installs(a) /\ Removes(a) /\ ReadBack(a)

Shaped ==
    /\ files = [n \in FileNames |-> files[n]]
    /\ \A n \in FileNames : files[n] = [id |-> files[n].id, content |-> files[n].content]
    /\ seen = [t \in Targets |-> seen[t]]

Underway ==
    prog # <<>> =>
        /\ report = "none" /\ mode \in Modes /\ (source <=> mode = "source")
        /\ \E a \in Phases : Path(prog, a, Over(mode)) /\ Holds(a)

FilesInv == Shaped /\ Underway /\ InOrder /\ AppliedIsReal

\* Nothing is written but what the mode manages; and what the errors say.
Own == wrote \subseteq Managed
FilesTold == Own /\ Swept /\ ErrorsAreTrue

-----------------------------------------------------------------------------
(* The worktree: what calls lead to.                                       *)

\* No call leads nowhere.
LEMMA PathEmpty ==
    ASSUME NEW a \in Phases
    PROVE  Path(<<>>, a, a)
<1> DEFINE q == [i \in 1..1 |-> a]
<1>1. /\ q \in [1..(Len(<<>>) + 1) -> Phases] /\ q[1] = a /\ q[Len(<<>>) + 1] = a
      /\ <<>> \in Seq(Calls) /\ Len(<<>>) = 0
  OBVIOUS
<1>2. \A i \in 1..Len(<<>>) : Leads(q[i], (<<>>)[i], q[i + 1])
  BY <1>1
<1> HIDE DEF q
<1>3. QED
  BY <1>1, <1>2 DEF Path

\* One call leads from its first phase to its second.
LEMMA PathCall ==
    ASSUME NEW a \in Phases, NEW b \in Phases, NEW do \in Doings, NEW on \in Objects,
           Leads(a, [do |-> do, on |-> on], b)
    PROVE  Path(Call(do, on), a, b)
<1> DEFINE s == Call(do, on)
           q == [i \in 1..2 |-> IF i = 1 THEN a ELSE b]
<1>1. s \in Seq(Calls) /\ Len(s) = 1 /\ s[1] = [do |-> do, on |-> on]
  BY DEF Call, Calls
<1>2. q \in [1..2 -> Phases] /\ q[1] = a /\ q[2] = b
  OBVIOUS
<1> HIDE DEF s, q
<1>3. \A i \in 1..Len(s) : Leads(q[i], s[i], q[i + 1])
  BY <1>1, <1>2
<1>4. QED
  BY <1>1, <1>2, <1>3 DEF Path, s

\* What leads from a to b, and then what leads from b to c.
LEMMA PathJoin ==
    ASSUME NEW s, NEW t, NEW a, NEW b, NEW c, Path(s, a, b), Path(t, b, c)
    PROVE  Path(s \o t, a, c)
<1>1. PICK q \in [1..(Len(s) + 1) -> Phases] :
          /\ q[1] = a /\ q[Len(s) + 1] = b
          /\ \A i \in 1..Len(s) : Leads(q[i], s[i], q[i + 1])
  BY DEF Path
<1>2. PICK r \in [1..(Len(t) + 1) -> Phases] :
          /\ r[1] = b /\ r[Len(t) + 1] = c
          /\ \A i \in 1..Len(t) : Leads(r[i], t[i], r[i + 1])
  BY DEF Path
<1> DEFINE u == s \o t
           p == [i \in 1..(Len(s) + Len(t) + 1) |-> IF i <= Len(s) THEN q[i] ELSE r[i - Len(s)]]
<1>3. s \in Seq(Calls) /\ t \in Seq(Calls) /\ Len(s) \in Nat /\ Len(t) \in Nat
  BY DEF Path
<1>4. /\ u \in Seq(Calls) /\ Len(u) = Len(s) + Len(t)
      /\ \A i \in 1..Len(s) : u[i] = s[i]
      /\ \A i \in 1..Len(t) : u[i + Len(s)] = t[i]
  BY <1>3
<1>5. /\ \A i \in 1..Len(s) : p[i] = q[i]
      /\ \A i \in 1..(Len(t) + 1) : p[i + Len(s)] = r[i]
  BY <1>3
<1>6. \A i \in 1..(Len(s) + Len(t) + 1) :
          i \in 1..Len(s) \/ \E j \in 1..(Len(t) + 1) : i = j + Len(s)
  <2>1. TAKE i \in 1..(Len(s) + Len(t) + 1)
  <2>2. CASE i <= Len(s)
    BY <1>3, <2>2
  <2>3. CASE i > Len(s)
    <3>1. i - Len(s) \in 1..(Len(t) + 1) /\ i = (i - Len(s)) + Len(s)
      BY <1>3, <2>3
    <3>2. QED
      BY <3>1
  <2>4. QED
    BY <1>3, <2>2, <2>3
<1>7. p \in [1..(Len(u) + 1) -> Phases]
  <2>1. ASSUME NEW i \in 1..(Len(s) + Len(t) + 1)
        PROVE  p[i] \in Phases
    <3> HIDE DEF p, u
    <3>1. CASE i \in 1..Len(s)
      <4>1. i \in 1..(Len(s) + 1)
        BY <1>3, <3>1
      <4>2. QED
        BY <1>5, <3>1, <4>1
    <3>2. CASE \E j \in 1..(Len(t) + 1) : i = j + Len(s)
      BY <1>3, <1>5, <3>2
    <3>3. QED
      BY <1>6, <3>1, <3>2
  <2>2. QED
    BY <1>4, <2>1
<1>8. p[1] = a /\ p[Len(u) + 1] = c
  <2>1. CASE Len(s) = 0
    BY <1>1, <1>2, <1>3, <1>4, <2>1
  <2>2. CASE Len(s) # 0
    BY <1>1, <1>2, <1>3, <1>4, <2>2
  <2>3. QED
    BY <2>1, <2>2
<1> HIDE DEF u, p
<1>9. ASSUME NEW i \in 1..Len(u)
      PROVE  Leads(p[i], u[i], p[i + 1])
  <2>1. CASE i \in 1..Len(s)
    <3>1. p[i] = q[i] /\ u[i] = s[i] /\ Leads(q[i], s[i], q[i + 1])
      BY <1>1, <1>4, <1>5, <2>1
    <3>2. p[i + 1] = q[i + 1]
      <4>1. CASE i + 1 \in 1..Len(s)
        BY <1>5, <4>1
      <4>2. CASE i = Len(s)
        <5>1. p[1 + Len(s)] = r[1]
          BY <1>3, <1>5
        <5>2. QED
          BY <1>1, <1>2, <1>3, <4>2, <5>1
      <4>3. QED
        BY <1>3, <2>1, <4>1, <4>2
    <3>3. QED
      BY <3>1, <3>2
  <2>2. ASSUME NEW j \in 1..(Len(t) + 1), i = j + Len(s)
        PROVE  Leads(p[i], u[i], p[i + 1])
    <3>1. j \in 1..Len(t) /\ j + 1 \in 1..(Len(t) + 1) /\ i + 1 = (j + 1) + Len(s)
      BY <1>3, <1>4, <2>2
    <3>2. p[i] = r[j] /\ u[i] = t[j] /\ p[i + 1] = r[j + 1]
      BY <1>4, <1>5, <2>2, <3>1
    <3>3. QED
      BY <1>2, <3>1, <3>2
  <2>3. i \in 1..(Len(s) + Len(t) + 1)
    BY <1>3, <1>4
  <2>4. QED
    BY <1>6, <2>1, <2>2, <2>3
<1>10. QED
  BY <1>4, <1>7, <1>8, <1>9 DEF Path, u

\* The first of the calls, and the others.
LEMMA PathTail ==
    ASSUME NEW s, NEW a, NEW z, Path(s, a, z), s # <<>>
    PROVE  /\ Head(s) \in Calls /\ a \in Phases /\ z \in Phases
           /\ \E b \in Phases : Leads(a, Head(s), b) /\ Path(Tail(s), b, z)
<1>1. PICK q \in [1..(Len(s) + 1) -> Phases] :
          /\ q[1] = a /\ q[Len(s) + 1] = z
          /\ \A i \in 1..Len(s) : Leads(q[i], s[i], q[i + 1])
  BY DEF Path
<1>2. s \in Seq(Calls)
  BY DEF Path
<1> DEFINE t == Tail(s)
           r == [i \in 1..Len(s) |-> q[i + 1]]
<1>3. /\ Len(s) \in Nat /\ Len(s) > 0 /\ Head(s) = s[1] /\ Head(s) \in Calls
      /\ t \in Seq(Calls) /\ Len(t) = Len(s) - 1 /\ Len(t) \in Nat
      /\ \A i \in 1..Len(t) : t[i] = s[i + 1]
  BY <1>2
<1>4. 1 \in 1..Len(s) /\ Len(s) \in 1..Len(s) /\ Len(t) + 1 = Len(s)
  BY <1>3
<1>5. /\ r \in [1..Len(s) -> Phases] /\ r[1] = q[2] /\ r[Len(s)] = z
      /\ \A i \in 1..Len(s) : r[i] = q[i + 1]
  BY <1>1, <1>3, <1>4
<1> HIDE DEF t, r
<1>6. \A i \in 1..Len(t) : Leads(r[i], t[i], r[i + 1])
  <2>1. TAKE i \in 1..Len(t)
  <2>2. i \in 1..Len(s) /\ i + 1 \in 1..Len(s)
    BY <1>3
  <2>3. r[i] = q[i + 1] /\ r[i + 1] = q[(i + 1) + 1] /\ t[i] = s[i + 1]
    BY <1>3, <1>5, <2>2
  <2>4. QED
    BY <1>1, <2>2, <2>3
<1>7. Path(t, r[1], z)
  BY <1>3, <1>4, <1>5, <1>6 DEF Path
<1>8. /\ Leads(a, Head(s), r[1]) /\ r[1] \in Phases /\ a \in Phases /\ z \in Phases
  <2>1. 1 \in 1..(Len(s) + 1) /\ Len(s) + 1 \in 1..(Len(s) + 1)
    BY <1>3
  <2>2. QED
    BY <1>1, <1>3, <1>4, <1>5, <2>1
<1>9. QED
  BY <1>3, <1>7, <1>8 DEF t

\* A phase, and its parts.
LEMMA InIs ==
    ASSUME NEW m \in Modes, NEW at \in Stages, NEW on \in Targets, NEW ok \in SUBSET Targets
    PROVE  /\ In(m, at, on, ok) \in Phases
           /\ In(m, at, on, ok).mode = m /\ In(m, at, on, ok).at = at
           /\ In(m, at, on, ok).on = on /\ In(m, at, on, ok).ok = ok
           /\ Over(m) \in Phases
  BY DEF In, Over, Phases, Stages, Targets

\* A call more, that leaves the helper where it is.
LEMMA PathStay ==
    ASSUME NEW a \in Phases, NEW do \in Doings, NEW on \in Objects, <<a.at, do>> \in Staying
    PROVE  Path(Call(do, on), a, a)
<1>1. Leads(a, [do |-> do, on |-> on], a)
  BY DEF Leads
<1>2. QED
  BY <1>1, PathCall

\* A call more, that moves it on.
LEMMA PathMove ==
    ASSUME NEW s, NEW a, NEW m \in Modes, NEW ok \in SUBSET Targets,
           NEW at, NEW do, NEW on, NEW to, <<at, do, on, to>> \in Moving,
           Path(s, a, In(m, at, "bridge", ok))
    PROVE  Path(s \o Call(do, on), a, In(m, to, "bridge", ok))
<1> DEFINE x == In(m, at, "bridge", ok)
           y == In(m, to, "bridge", ok)
<1>1. at \in Stages /\ to \in Stages /\ do \in Doings /\ on \in Objects /\ "bridge" \in Targets
  BY DEF Moving, Stages, Doings, Objects, Targets
<1>2. /\ x \in Phases /\ y \in Phases /\ x.at = at /\ x.mode = m /\ x.ok = ok /\ y.at = to
  BY <1>1, InIs
<1>3. Leads(x, [do |-> do, on |-> on], y)
  <2> HIDE DEF x
  <2>1. QED
    BY <1>2 DEF Leads, y
<1> HIDE DEF x, y
<1>4. Path(Call(do, on), x, y)
  BY <1>1, <1>2, <1>3, PathCall
<1>5. QED
  BY <1>4, PathJoin DEF x, y

\* A call more, after which the helper is still where it was.
LEMMA PathStays ==
    ASSUME NEW s, NEW a, NEW b \in Phases, NEW do \in Doings, NEW on \in Objects,
           <<b.at, do>> \in Staying, Path(s, a, b)
    PROVE  Path(s \o Call(do, on), a, b)
  BY PathStay, PathJoin

\* A call for each target that leaves the helper where it is.
LEMMA EachStays ==
    ASSUME NEW a \in Phases, NEW do \in Doings, <<a.at, do>> \in Staying
    PROVE  Path(Each(do), a, a)
<1>1. \A t \in Targets : t \in Objects
  BY DEF Objects
<1>2. \A t \in Targets : Path(Call(do, t), a, a)
  BY <1>1, PathStay
<1>3. /\ Path(Call(do, "bridge"), a, a) /\ Path(Call(do, "verifier"), a, a)
      /\ Path(Call(do, "controller"), a, a) /\ Path(Call(do, "codeowners"), a, a)
  BY <1>2 DEF Targets
<1>4. Path(Call(do, "verifier") \o Call(do, "controller"), a, a)
  BY <1>3, PathJoin
<1>5. Path(Call(do, "verifier") \o Call(do, "controller") \o Call(do, "bridge"), a, a)
  BY <1>3, <1>4, PathJoin
<1>6. Path(Call(do, "verifier") \o Call(do, "controller") \o Call(do, "bridge")
           \o Call(do, "codeowners"), a, a)
  BY <1>3, <1>5, PathJoin
<1>7. QED
  BY <1>3, <1>6 DEF Each

\* The authorization callbacks leave the helper where it is.
LEMMA AuthorizationStays ==
    ASSUME NEW a \in Phases, NEW diff \in Objects,
           <<a.at, "authorize">> \in Staying, <<a.at, "diff">> \in Staying
    PROVE  Path(Authorization(diff), a, a)
<1>1. "origin" \in Objects /\ "authorize" \in Doings /\ "diff" \in Doings
  BY DEF Objects, Doings
<1>2. Path(Call("authorize", "origin"), a, a) /\ Path(Call("diff", diff), a, a)
  BY <1>1, PathStay
<1>3. Path(Call("authorize", "origin") \o Call("diff", diff), a, a) /\ Path(<<>>, a, a)
  BY <1>2, PathJoin, PathEmpty
<1>4. QED
  BY <1>2, <1>3 DEF Authorization

\* So do the callbacks before a change.
LEMMA BoundaryStays ==
    ASSUME NEW a \in Phases, NEW first, NEW diff \in Objects,
           a.at \in {"written", "admitted"}
    PROVE  Path(Boundary(first, diff), a, a)
<1>1. \A do \in {"unchanged", "authorize", "diff"} : <<a.at, do>> \in Staying /\ do \in Doings
  BY DEF Staying, Doings
<1>2. Path(Authorization(diff), a, a) /\ Path(Each("unchanged"), a, a) /\ Path(<<>>, a, a)
  BY <1>1, AuthorizationStays, EachStays, PathEmpty
<1>3. QED
  BY <1>2, PathJoin DEF Boundary

\* The helper's mode is that of its worktree.
ModeFits == mode \in Modes /\ (source <=> mode = "source")

LEMMA InMode ==
    ASSUME ModeFits
    PROVE  Managed = ManagedIn(mode) /\ \A t \in Targets : Final(t) = FinalIn(mode, t)
  BY DEF ModeFits, Managed, ManagedIn, Final, FinalIn

LEMMA PathOn ==
    ASSUME NEW s, NEW a, NEW b \in Phases, NEW c \in Phases, NEW do \in Doings, NEW on \in Objects,
           Path(s, a, b), Leads(b, [do |-> do, on |-> on], c)
    PROVE  Path(s \o Call(do, on), a, c)
  BY PathCall, PathJoin

\* A target is installed.
LEMMA InstallationPath ==
    ASSUME ModeFits, NEW t \in Managed, Final(t) = "canonical", NEW ok \in SUBSET Targets,
           Fits(mode, t, ok), NEW first
    PROVE  Path(Installation(t, first), In(mode, "ready", "bridge", ok),
                In(mode, "ready", "bridge", ok \cup {t}))
<1> DEFINE a == In(mode, "ready", "bridge", ok)
           b == In(mode, "written", t, ok)
           c == In(mode, "compared", t, ok)
           d == In(mode, "installed", t, ok)
           e == In(mode, "ready", "bridge", ok \cup {t})
<1>1. /\ t \in Targets /\ t \in ManagedIn(mode) /\ FinalIn(mode, t) = "canonical" /\ mode \in Modes
      /\ ok \cup {t} \in SUBSET Targets /\ "bridge" \in Targets /\ t \in Objects /\ "clean" \in Objects
  BY InMode DEF ModeFits, ManagedIn, Targets, Objects
<1>2. /\ "compare" \in Doings /\ "write" \in Doings /\ "install" \in Doings /\ "completed" \in Doings
      /\ <<"ready", "compare">> \in Staying
  BY DEF Doings, Staying
<1>3. "ready" \in Stages /\ "written" \in Stages /\ "compared" \in Stages /\ "installed" \in Stages
  BY DEF Stages
<1>4. a \in Phases /\ a.at = "ready" /\ a.mode = mode /\ a.ok = ok
  BY <1>1, <1>3, InIs
<1>5. b \in Phases /\ b.at = "written" /\ b.mode = mode /\ b.ok = ok /\ b.on = t
  BY <1>1, <1>3, InIs
<1>6. c \in Phases /\ c.at = "compared" /\ c.mode = mode /\ c.ok = ok /\ c.on = t
  BY <1>1, <1>3, InIs
<1>7. d \in Phases /\ d.at = "installed" /\ d.mode = mode /\ d.ok = ok /\ d.on = t
  BY <1>1, <1>3, InIs
<1>8. e \in Phases
  BY <1>1, <1>3, InIs
<1> HIDE DEF a, b, c, d, e
<1>9. Leads(a, [do |-> "write", on |-> t], b)
  BY <1>1, <1>4 DEF Leads, b
<1>10. Leads(b, [do |-> "compare", on |-> t], c)
  BY <1>5 DEF Leads, c
<1>11. Leads(c, [do |-> "install", on |-> t], d)
  BY <1>6 DEF Leads, d
<1>12. Leads(d, [do |-> "completed", on |-> t], e)
  BY <1>7 DEF Leads, e
<1>13. Path(Call("compare", t), a, a)
  BY <1>1, <1>2, <1>4, PathStay
<1>14. Path(Call("compare", t) \o Call("write", t), a, b)
  BY <1>1, <1>2, <1>4, <1>5, <1>9, <1>13, PathOn
<1>15. Path(Boundary(first, "clean"), b, b)
  BY <1>1, <1>5, BoundaryStays
<1>16. Path(Call("compare", t) \o Call("write", t) \o Boundary(first, "clean"), a, b)
  BY <1>14, <1>15, PathJoin
<1>17. Path(Call("compare", t) \o Call("write", t) \o Boundary(first, "clean")
            \o Call("compare", t), a, c)
  BY <1>1, <1>2, <1>5, <1>6, <1>10, <1>16, PathOn
<1>18. Path(Call("compare", t) \o Call("write", t) \o Boundary(first, "clean")
            \o Call("compare", t) \o Call("install", t), a, d)
  BY <1>1, <1>2, <1>6, <1>7, <1>11, <1>17, PathOn
<1>19. Path(Call("compare", t) \o Call("write", t) \o Boundary(first, "clean")
            \o Call("compare", t) \o Call("install", t) \o Call("completed", t), a, e)
  BY <1>1, <1>2, <1>7, <1>8, <1>12, <1>18, PathOn
<1>20. QED
  BY <1>19 DEF Installation, a, e

\* The callbacks on the quarantined bridge leave the helper before its last look at it.
LEMMA AuthorizationOfUnlink ==
    ASSUME ModeFits, mode # "bridge", NEW ok \in SUBSET Targets
    PROVE  Path(Authorization("quarantined"), In(mode, "checked", "bridge", ok),
                In(mode, "quarantined", "bridge", ok))
<1> DEFINE x == In(mode, "checked", "bridge", ok)
           y == In(mode, "quarantined", "bridge", ok)
<1>1. /\ mode \in Modes /\ "bridge" \in Targets /\ "checked" \in Stages /\ "quarantined" \in Stages
      /\ "authorize" \in Doings /\ "origin" \in Objects /\ "diff" \in Doings /\ "quarantined" \in Objects
  BY DEF ModeFits, Targets, Stages, Doings, Objects
<1>2. /\ x \in Phases /\ x.at = "checked" /\ x.mode = mode /\ x.ok = ok
      /\ y \in Phases /\ y.at = "quarantined"
  BY <1>1, InIs
<1> HIDE DEF x, y
<1>3. Leads(x, [do |-> "authorize", on |-> "origin"], y)
  BY <1>2 DEF Leads, y, Moving
<1>4. Path(Call("authorize", "origin"), x, y)
  BY <1>1, <1>2, <1>3, PathCall
<1>5. Path(Call("authorize", "origin") \o Call("diff", "quarantined"), x, y)
  <2>1. <<"quarantined", "diff">> \in Staying
    BY DEF Staying
  <2>2. QED
    BY <1>1, <1>2, <1>4, <2>1, PathStays
<1>6. QED
  BY <1>4, <1>5 DEF Authorization, ModeFits, Modes, x, y


\* The bridge is removed.
LEMMA RemovalPath ==
    ASSUME ModeFits, mode # "bridge", NEW ok \in SUBSET Targets, "bridge" \notin ok,
           Fits(mode, "bridge", ok), NEW first
    PROVE  Path(Removal(first), In(mode, "ready", "bridge", ok),
                In(mode, "ready", "bridge", ok \cup {"bridge"}))
<1> DEFINE P(at) == In(mode, at, "bridge", ok)
           a == P("ready")
           e == In(mode, "ready", "bridge", ok \cup {"bridge"})
           s1 == Call("admit", "bridge") \o Call("check", "bridge") \o Boundary(first, "clean")
           s2 == s1 \o Call("check", "bridge") \o Call("mkdir", "quarantine") \o Call("check", "bridge")
                 \o Authorization("clean") \o Call("check", "bridge")
                 \o Authorization("clean") \o Call("check", "bridge")
           s3 == s2 \o Call("rename", "quarantine") \o Call("check", "quarantine")
                 \o Call("verified", "quarantine") \o Call("check", "quarantine")
                 \o Authorization("quarantined") \o Call("check", "quarantine")
<1>1. /\ mode \in Modes /\ "bridge" \in Targets /\ "bridge" \in Objects /\ "clean" \in Objects
      /\ "quarantine" \in Objects /\ "admit" \in Doings /\ "check" \in Doings /\ "completed" \in Doings
      /\ ok \cup {"bridge"} \in SUBSET Targets
  BY DEF ModeFits, Targets, Objects, Doings
<1>2. \A at \in Stages : /\ P(at) \in Phases /\ P(at).at = at /\ P(at).mode = mode
                         /\ P(at).ok = ok /\ P(at).on = "bridge"
  BY <1>1, InIs
<1>3. /\ "ready" \in Stages /\ "admitted" \in Stages /\ "prepared" \in Stages /\ "away" \in Stages
      /\ "quarantined" \in Stages /\ "emptied" \in Stages
  BY DEF Stages
<1>4. e \in Phases
  BY <1>1, <1>3, InIs
<1>5. /\ <<"admitted", "check">> \in Staying /\ <<"prepared", "check">> \in Staying
      /\ <<"prepared", "authorize">> \in Staying /\ <<"prepared", "diff">> \in Staying
      /\ <<"away", "check">> \in Staying
  BY DEF Staying
<1>6. /\ <<"admitted", "mkdir", "quarantine", "prepared">> \in Moving
      /\ <<"prepared", "rename", "quarantine", "away">> \in Moving
      /\ <<"away", "verified", "quarantine", "quarantined">> \in Moving
      /\ <<"quarantined", "check", "quarantine", "checked">> \in Moving
      /\ <<"checked", "unlink", "quarantine", "unlinked">> \in Moving
      /\ <<"unlinked", "rmdir", "quarantine", "emptied">> \in Moving
  BY DEF Moving
<1>7. Path(s1, a, P("admitted"))
  <2>1. Leads(a, [do |-> "admit", on |-> "bridge"], P("admitted"))
    <3>1. a.at = "ready" /\ a.mode = mode /\ a.ok = ok
      BY <1>2, <1>3
    <3> HIDE DEF a
    <3>2. QED
      BY <3>1 DEF Leads
  <2>2. /\ a \in Phases /\ P("admitted") \in Phases /\ P("admitted").at = "admitted"
    BY <1>2, <1>3
  <2> DEFINE p == P("admitted")
  <2> HIDE DEF a, p, P
  <2>3. Path(Call("admit", "bridge"), a, p)
    BY <1>1, <2>1, <2>2, PathCall DEF p
  <2>4. Path(Call("admit", "bridge") \o Call("check", "bridge"), a, p)
    BY <1>1, <1>5, <2>2, <2>3, PathStays DEF p
  <2>5. Path(Boundary(first, "clean"), p, p)
    BY <1>1, <2>2, BoundaryStays DEF p
  <2>6. QED
    BY <2>4, <2>5, PathJoin DEF p

<1>8. Path(s2, a, P("prepared"))
  <2>1. P("admitted") \in Phases /\ P("prepared") \in Phases
    BY <1>2, <1>3
  <2>2. P("admitted").at = "admitted" /\ P("prepared").at = "prepared"
    BY <1>2, <1>3
  <2>3. Path(Authorization("clean"), P("prepared"), P("prepared"))
    BY <1>1, <1>5, <2>1, <2>2, AuthorizationStays
  <2> HIDE DEF s1, a
  <2>4. Path(s1 \o Call("check", "bridge"), a, P("admitted"))
    BY <1>1, <1>5, <2>1, <2>2, <1>7, PathStays
  <2>5. Path(s1 \o Call("check", "bridge") \o Call("mkdir", "quarantine"), a, P("prepared"))
    BY <1>1, <1>6, <2>4, PathMove
  <2>6. Path(s1 \o Call("check", "bridge") \o Call("mkdir", "quarantine") \o
             Call("check", "bridge"), a, P("prepared"))
    BY <1>1, <1>5, <2>1, <2>2, <2>5, PathStays
  <2>7. Path(s1 \o Call("check", "bridge") \o Call("mkdir", "quarantine") \o
             Call("check", "bridge") \o Authorization("clean"), a, P("prepared"))
    BY <2>3, <2>6, PathJoin
  <2>8. Path(s1 \o Call("check", "bridge") \o Call("mkdir", "quarantine") \o
             Call("check", "bridge") \o Authorization("clean") \o Call("check",
             "bridge"), a, P("prepared"))
    BY <1>1, <1>5, <2>1, <2>2, <2>7, PathStays
  <2>9. Path(s1 \o Call("check", "bridge") \o Call("mkdir", "quarantine") \o
             Call("check", "bridge") \o Authorization("clean") \o Call("check",
             "bridge") \o Authorization("clean"), a, P("prepared"))
    BY <2>3, <2>8, PathJoin
  <2>10. Path(s1 \o Call("check", "bridge") \o Call("mkdir", "quarantine") \o
             Call("check", "bridge") \o Authorization("clean") \o Call("check",
             "bridge") \o Authorization("clean") \o Call("check", "bridge"), a, P("prepared"))
    BY <1>1, <1>5, <2>1, <2>2, <2>9, PathStays
  <2>11. QED
    BY <2>10
<1>9. Path(s3, a, P("checked"))
  <2>1. P("away") \in Phases /\ P("away").at = "away"
    BY <1>2, <1>3
  <2>2. Path(Authorization("quarantined"), P("checked"), P("quarantined"))
    BY AuthorizationOfUnlink
  <2> HIDE DEF s2, a
  <2>3. Path(s2 \o Call("rename", "quarantine"), a, P("away"))
    BY <1>1, <1>6, <1>8, PathMove
  <2>4. Path(s2 \o Call("rename", "quarantine") \o Call("check", "quarantine"), a, P("away"))
    BY <1>1, <1>5, <2>1, <2>3, PathStays
  <2>5. Path(s2 \o Call("rename", "quarantine") \o Call("check", "quarantine") \o
             Call("verified", "quarantine"), a, P("quarantined"))
    BY <1>1, <1>6, <2>4, PathMove
  <2>6. Path(s2 \o Call("rename", "quarantine") \o Call("check", "quarantine") \o
             Call("verified", "quarantine") \o Call("check", "quarantine"), a, P("checked"))
    BY <1>1, <1>6, <2>5, PathMove
  <2>7. Path(s2 \o Call("rename", "quarantine") \o Call("check", "quarantine") \o
             Call("verified", "quarantine") \o Call("check", "quarantine") \o
             Authorization("quarantined"), a, P("quarantined"))
    BY <2>2, <2>6, PathJoin
  <2>8. Path(s2 \o Call("rename", "quarantine") \o Call("check", "quarantine") \o
             Call("verified", "quarantine") \o Call("check", "quarantine") \o
             Authorization("quarantined") \o Call("check", "quarantine"), a, P("checked"))
    BY <1>1, <1>6, <2>7, PathMove
  <2>9. QED
    BY <2>8
<1>10. Path(s3 \o Call("unlink", "quarantine") \o Call("rmdir", "quarantine"), a, P("emptied"))
  <2> HIDE DEF s3, a
  <2>1. Path(s3 \o Call("unlink", "quarantine"), a, P("unlinked"))
    BY <1>1, <1>6, <1>9, PathMove
  <2>2. QED
    BY <1>1, <1>6, <2>1, PathMove
<1>11. Leads(P("emptied"), [do |-> "completed", on |-> "bridge"], e)
  <2> DEFINE p == P("emptied")
  <2>1. p.at = "emptied" /\ p.mode = mode /\ p.ok = ok /\ p.on = "bridge"
    BY <1>2, <1>3
  <2> HIDE DEF p
  <2>2. Leads(p, [do |-> "completed", on |-> "bridge"], e)
    BY <2>1 DEF Leads
  <2>3. QED
    BY <2>2 DEF p
<1>12. Path(s3 \o Call("unlink", "quarantine") \o Call("rmdir", "quarantine")
            \o Call("completed", "bridge"), a, e)
  <2>1. P("emptied") \in Phases
    BY <1>2, <1>3
  <2> HIDE DEF s3, a, e, P
  <2>2. QED
    BY <1>1, <1>4, <1>10, <1>11, <2>1, PathOn
<1>13. QED
  BY <1>12 DEF Removal

\* A target is looked at while the helper reads.
LEMMA PathSee ==
    ASSUME NEW s, NEW a, ModeFits, NEW t \in Managed, NEW ok \in SUBSET Targets,
           Path(s, a, In(mode, "seeing", "bridge", ok))
    PROVE  Path(s \o Call("see", t), a, In(mode, "seeing", "bridge", ok \cup {t}))
<1> DEFINE x == In(mode, "seeing", "bridge", ok)
           y == In(mode, "seeing", "bridge", ok \cup {t})
<1>1. /\ mode \in Modes /\ t \in Targets /\ t \in ManagedIn(mode) /\ "bridge" \in Targets
      /\ t \in Objects /\ "see" \in Doings /\ "seeing" \in Stages /\ ok \cup {t} \in SUBSET Targets
  BY InMode DEF ModeFits, ManagedIn, Targets, Objects, Doings, Stages
<1>2. x \in Phases /\ x.at = "seeing" /\ x.mode = mode /\ x.ok = ok /\ y \in Phases
  BY <1>1, InIs
<1> HIDE DEF x
<1>3. Leads(x, [do |-> "see", on |-> t], y)
  BY <1>1, <1>2 DEF Leads
<1> HIDE DEF y
<1>4. QED
  BY <1>1, <1>2, <1>3, PathOn DEF x, y

\* A target is read back.
LEMMA PathFinal ==
    ASSUME NEW s, NEW a, NEW m \in Modes, NEW t \in Targets, NEW ok \in SUBSET Targets,
           Path(s, a, In(m, "reading", "bridge", ok))
    PROVE  Path(s \o Call("final", t), a, In(m, "reading", "bridge", ok \cup {t}))
<1> DEFINE x == In(m, "reading", "bridge", ok)
           y == In(m, "reading", "bridge", ok \cup {t})
<1>1. /\ "bridge" \in Targets /\ t \in Objects /\ "final" \in Doings /\ "reading" \in Stages
      /\ ok \cup {t} \in SUBSET Targets
  BY DEF Targets, Objects, Doings, Stages
<1>2. x \in Phases /\ x.at = "reading" /\ x.mode = m /\ x.ok = ok /\ y \in Phases
  BY <1>1, InIs
<1> HIDE DEF x
<1>3. Leads(x, [do |-> "final", on |-> t], y)
  BY <1>2 DEF Leads
<1> HIDE DEF y
<1>4. QED
  BY <1>1, <1>2, <1>3, PathOn DEF x, y

LEMMA PathFirstFinal ==
    ASSUME NEW m \in Modes, NEW t \in Targets, NEW ok \in SUBSET Targets
    PROVE  Path(Call("final", t), In(m, "ready", "bridge", ok), In(m, "reading", "bridge", {t}))
<1> DEFINE x == In(m, "ready", "bridge", ok)
           y == In(m, "reading", "bridge", {t})
<1>1. /\ "bridge" \in Targets /\ t \in Objects /\ "final" \in Doings /\ "reading" \in Stages
      /\ "ready" \in Stages /\ {t} \in SUBSET Targets
  BY DEF Targets, Objects, Doings, Stages
<1>2. x \in Phases /\ x.at = "ready" /\ x.mode = m /\ x.ok = ok /\ y \in Phases
  BY <1>1, InIs
<1> HIDE DEF x
<1>3. Leads(x, [do |-> "final", on |-> t], y)
  BY <1>2 DEF Leads
<1> HIDE DEF y
<1>4. QED
  BY <1>1, <1>2, <1>3, PathCall DEF x, y

\* At the end every target is read back.
LEMMA ReadbacksPath ==
    ASSUME ModeFits, NEW ok \in SUBSET Targets
    PROVE  Path(Readbacks, In(mode, "ready", "bridge", ok),
                In(mode, "reading", "bridge", ManagedIn(mode)))
<1> DEFINE a == In(mode, "ready", "bridge", ok)
           R(done1) == In(mode, "reading", "bridge", done1)
           each == Each("final")
<1>1. /\ mode \in Modes /\ "bridge" \in Targets /\ "verifier" \in Targets /\ "controller" \in Targets
      /\ "codeowners" \in Targets /\ "reading" \in Stages
      /\ "removed" \in Objects /\ "diff" \in Doings
      /\ <<"reading", "authorize">> \in Staying /\ <<"reading", "diff">> \in Staying
  BY DEF ModeFits, Targets, Stages, Objects, Doings, Staying
<1>2. \A s \in SUBSET Targets : R(s) \in Phases /\ R(s).at = "reading"
  BY <1>1, InIs
<1>3. CASE source
  <2>1. each = Call("final", "bridge") /\ ManagedIn(mode) = {"bridge"} /\ {"bridge"} \in SUBSET Targets
    BY <1>1, <1>3 DEF Each, ManagedIn, ModeFits
  <2>2. Path(Call("final", "bridge"), a, R({"bridge"}))
    BY <1>1, PathFirstFinal
  <2>3. R({"bridge"}) \in Phases /\ R({"bridge"}).at = "reading"
    BY <1>2, <2>1
  <2> HIDE DEF R, a
  <2>4. Path(Call("final", "bridge") \o Call("diff", "removed"), a, R({"bridge"}))
    BY <1>1, <2>2, <2>3, PathStays
  <2>5. QED
    BY <1>3, <2>1, <2>4 DEF Readbacks, R, a
<1>4. CASE ~source
  <2> DEFINE v == Call("final", "verifier")
             c == Call("final", "controller")
             b == Call("final", "bridge")
             o == Call("final", "codeowners")
  <2>1. each = v \o c \o b \o o /\ ManagedIn(mode) = Targets
    BY <1>4 DEF Each, ManagedIn, ModeFits
  <2>2. /\ {"verifier"} \in SUBSET Targets /\ {"verifier", "controller"} \in SUBSET Targets
        /\ {"verifier", "controller", "bridge"} \in SUBSET Targets /\ {} \in SUBSET Targets
        /\ {"verifier"} \cup {"controller"} = {"verifier", "controller"}
        /\ {"verifier", "controller"} \cup {"bridge"} = {"verifier", "controller", "bridge"}
        /\ {"verifier", "controller", "bridge"} \cup {"codeowners"} = Targets
        /\ Targets \in SUBSET Targets /\ \A t \in Targets : Targets \cup {t} = Targets
    BY DEF Targets
  <2>3. Path(v, a, R({"verifier"}))
    BY <1>1, PathFirstFinal
  <2>4. Path(v \o c, a, R({"verifier", "controller"}))
    BY <1>1, <2>2, <2>3, PathFinal
  <2>5. Path(v \o c \o b, a, R({"verifier", "controller", "bridge"}))
    BY <1>1, <2>2, <2>4, PathFinal
  <2>6. Path(v \o c \o b \o o, a, R(Targets))
    BY <1>1, <2>2, <2>5, PathFinal
  <2>7. Path(each, R(Targets), R(Targets))
    <3>1. R(Targets) \in Phases
      BY <1>2, <2>2
    <3>2. ASSUME NEW t \in Targets
          PROVE  Path(<<>> \o Call("final", t), R(Targets), R(Targets))
      <4>1. Path(<<>>, R(Targets), R(Targets))
        BY <3>1, PathEmpty
      <4>2. Path(<<>> \o Call("final", t), R(Targets), R(Targets \cup {t}))
        BY <1>1, <2>2, <4>1, PathFinal
      <4>3. QED
        BY <2>2, <4>2
    <3>3. \A t \in Targets : <<>> \o Call("final", t) = Call("final", t)
      BY DEF Call
    <3>4. Path(v, R(Targets), R(Targets)) /\ Path(c, R(Targets), R(Targets))
          /\ Path(b, R(Targets), R(Targets)) /\ Path(o, R(Targets), R(Targets))
      BY <1>1, <3>2, <3>3
    <3>5. Path(v \o c, R(Targets), R(Targets))
      BY <3>4, PathJoin
    <3>6. Path(v \o c \o b, R(Targets), R(Targets))
      BY <3>4, <3>5, PathJoin
    <3>7. Path(v \o c \o b \o o, R(Targets), R(Targets))
      BY <3>4, <3>6, PathJoin
    <3>8. QED
      BY <2>1, <3>7
  <2>8. Path(Authorization("removed"), R(Targets), R(Targets))
    BY <1>1, <1>2, <2>2, AuthorizationStays
  <2>9. Path(each, a, R(Targets))
    BY <2>1, <2>6
  <2> HIDE DEF each, a, R
  <2>10. Path(each \o each, a, R(Targets))
    BY <2>7, <2>9, PathJoin
  <2>11. Path(each \o each \o each, a, R(Targets))
    BY <2>7, <2>10, PathJoin
  <2>12. Path(each \o each \o each \o Authorization("removed"), a, R(Targets))
    BY <2>8, <2>11, PathJoin
  <2>13. QED
    BY <1>4, <2>1, <2>12 DEF Readbacks, each, a, R
<1>5. QED
  BY <1>3, <1>4

\* The bridge is put back.
LEMMA RestorationPath ==
    ASSUME ModeFits, NEW ok \in SUBSET Targets
    PROVE  Path(Restoration, In(mode, "restoring", "bridge", ok), Over(mode))
<1> DEFINE P(at) == In(mode, at, "bridge", ok)
           a == P("restoring")
           s1 == Call("check", "quarantine") \o Call("link", "bridge") \o Call("check", "bridge")
                 \o Call("check", "quarantine") \o Call("unlink", "quarantine")
           s2 == s1 \o Call("check", "bridge") \o Call("rmdir", "quarantine") \o Call("check", "bridge")
<1>1. /\ mode \in Modes /\ "bridge" \in Targets /\ "quarantine" \in Objects /\ "bridge" \in Objects
      /\ "check" \in Doings /\ "restored" \in Doings
  BY DEF ModeFits, Targets, Objects, Doings
<1>2. \A at \in Stages : /\ P(at) \in Phases /\ P(at).at = at /\ P(at).mode = mode
  BY <1>1, InIs
<1>3. "restoring" \in Stages /\ "proved" \in Stages /\ Over(mode) \in Phases
  BY <1>1, InIs DEF Stages
<1>4. <<"restoring", "check">> \in Staying
  BY DEF Staying
<1>5. /\ <<"restoring", "link", "bridge", "linked">> \in Moving
      /\ <<"linked", "check", "bridge", "linked">> \in Moving
      /\ <<"linked", "check", "quarantine", "twice">> \in Moving
      /\ <<"twice", "unlink", "quarantine", "single">> \in Moving
      /\ <<"single", "check", "bridge", "single">> \in Moving
      /\ <<"single", "rmdir", "quarantine", "back">> \in Moving
      /\ <<"back", "check", "bridge", "proved">> \in Moving
  BY DEF Moving
<1>6. Path(Call("check", "quarantine"), a, P("restoring"))
  BY <1>1, <1>2, <1>3, <1>4, PathStay
<1>7. Path(Call("check", "quarantine") \o Call("link", "bridge"), a, P("linked"))
  <2> HIDE DEF a
  <2>1. QED
    BY <1>1, <1>5, <1>6, PathMove
<1>8. Path(Call("check", "quarantine") \o Call("link", "bridge") \o Call("check", "bridge"),
           a, P("linked"))
  <2> HIDE DEF a
  <2>1. QED
    BY <1>1, <1>5, <1>7, PathMove
<1>9. Path(Call("check", "quarantine") \o Call("link", "bridge") \o Call("check", "bridge")
            \o Call("check", "quarantine"), a, P("twice"))
  <2> HIDE DEF a
  <2>1. QED
    BY <1>1, <1>5, <1>8, PathMove
<1>10. Path(s1, a, P("single"))
  <2> HIDE DEF a
  <2>1. QED
    BY <1>1, <1>5, <1>9, PathMove
<1>11. Path(s1 \o Call("check", "bridge"), a, P("single"))
  <2> HIDE DEF a, s1
  <2>1. QED
    BY <1>1, <1>5, <1>10, PathMove
<1>12. Path(s1 \o Call("check", "bridge") \o Call("rmdir", "quarantine"), a, P("back"))
  <2> HIDE DEF a, s1
  <2>1. QED
    BY <1>1, <1>5, <1>11, PathMove
<1>13. Path(s2, a, P("proved"))
  <2> HIDE DEF a, s1
  <2>1. QED
    BY <1>1, <1>5, <1>12, PathMove
<1>14. Leads(P("proved"), [do |-> "restored", on |-> "bridge"], Over(mode))
  <2> DEFINE p == P("proved")
  <2>1. p.at = "proved" /\ p.mode = mode
    BY <1>2, <1>3
  <2> HIDE DEF p
  <2>2. Leads(p, [do |-> "restored", on |-> "bridge"], Over(mode))
    BY <2>1 DEF Leads, Ends
  <2>3. QED
    BY <2>2 DEF p
<1>15. P("proved") \in Phases
  BY <1>2, <1>3
<1>16. Path(s2 \o Call("restored", "bridge"), a, Over(mode))
  <2> HIDE DEF a, s2, P
  <2>1. QED
    BY <1>1, <1>3, <1>13, <1>14, <1>15, PathOn
<1>17. QED
  BY <1>16 DEF Restoration

\* What the helper reads before it plans.
LEMMA PreparationPath ==
    ASSUME ModeFits
    PROVE  Path(Preparation, In(mode, "seeing", "bridge", {}), Over(mode))
<1> DEFINE R(s) == In(mode, "seeing", "bridge", s)
           a == R({})
           auth == Authorization("any")
           planned == Call("plan", "all")
<1>1. /\ mode \in Modes /\ "bridge" \in Targets /\ "verifier" \in Targets /\ "controller" \in Targets
      /\ "codeowners" \in Targets /\ "seeing" \in Stages
      /\ "any" \in Objects /\ "all" \in Objects /\ "plan" \in Doings /\ "list" \in Doings
      /\ <<"seeing", "authorize">> \in Staying /\ <<"seeing", "diff">> \in Staying
      /\ <<"seeing", "list">> \in Staying /\ {} \in SUBSET Targets
      /\ ManagedIn(mode) \in SUBSET Targets
  BY DEF ModeFits, Targets, Stages, Objects, Doings, Staying, ManagedIn
<1>2. \A s \in SUBSET Targets : R(s) \in Phases /\ R(s).at = "seeing" /\ R(s).mode = mode /\ R(s).ok = s
  BY <1>1, InIs
<1>3. Over(mode) \in Phases
  BY <1>1, InIs
<1>4. \A s \in SUBSET Targets : Path(auth, R(s), R(s)) /\ Path(Each("list"), R(s), R(s))
  <2>1. TAKE s \in SUBSET Targets
  <2> DEFINE x == R(s)
  <2>2. x \in Phases /\ x.at = "seeing"
    BY <1>2
  <2> HIDE DEF x
  <2>3. Path(auth, x, x) /\ Path(Each("list"), x, x)
    BY <1>1, <2>2, AuthorizationStays, EachStays
  <2>4. QED
    BY <2>3 DEF x
<1>5. Path(planned, R(ManagedIn(mode)), Over(mode))
  <2> DEFINE x == R(ManagedIn(mode))
  <2>1. x \in Phases /\ x.at = "seeing" /\ x.mode = mode /\ x.ok = ManagedIn(mode)
    BY <1>1, <1>2
  <2> HIDE DEF x
  <2>2. Leads(x, [do |-> "plan", on |-> "all"], Over(mode))
    BY <2>1 DEF Leads, Ends
  <2>3. Path(planned, x, Over(mode))
    BY <1>1, <1>3, <2>1, <2>2, PathCall
  <2>4. QED
    BY <2>3 DEF x
<1>6. Path(<<>>, a, a)
  BY <1>1, <1>2, PathEmpty
<1>7. \A t \in Targets : <<>> \o Call("see", t) = Call("see", t)
  BY DEF Call
<1>8. CASE source
  <2>1. Each("see") = Call("see", "bridge") /\ ManagedIn(mode) = {"bridge"} /\ "bridge" \in Managed
    BY <1>8 DEF Each, ManagedIn, ModeFits, Managed
  <2>2. {} \cup {"bridge"} = {"bridge"}
    OBVIOUS
  <2>3. Path(Each("see"), a, R({"bridge"}))
    <3> DEFINE none == {}
               t == "bridge"
    <3>1. none \in SUBSET Targets /\ t \in Managed /\ Path(<<>>, a, R(none))
      BY <1>1, <1>6, <2>1
    <3>2. <<>> \o Call("see", t) = Each("see") /\ none \cup {t} = {"bridge"}
      BY <1>1, <1>7, <2>1
    <3> HIDE DEF none, t
    <3>3. Path(<<>> \o Call("see", t), a, R(none \cup {t}))
      BY <3>1, PathSee
    <3>4. QED
      BY <3>2, <3>3
  <2> HIDE DEF a, R, auth, planned
  <2>4. Path(auth, a, a) /\ Path(auth, R({"bridge"}), R({"bridge"}))
    BY <1>1, <1>4, <2>1 DEF a
  <2>5. Path(auth \o Each("see"), a, R({"bridge"}))
    BY <2>3, <2>4, PathJoin
  <2>6. Path(auth \o Each("see") \o auth, a, R({"bridge"}))
    BY <2>4, <2>5, PathJoin
  <2>7. Path(auth \o Each("see") \o auth \o planned, a, Over(mode))
    BY <1>5, <2>1, <2>6, PathJoin
  <2>8. QED
    BY <1>8, <2>7 DEF Preparation, a, R, auth, planned
<1>9. CASE ~source
  <2> DEFINE v == Call("see", "verifier")
             c == Call("see", "controller")
             b == Call("see", "bridge")
             o == Call("see", "codeowners")
  <2>1. Each("see") = v \o c \o b \o o /\ ManagedIn(mode) = Targets /\ Managed = Targets
    BY <1>9 DEF Each, ManagedIn, ModeFits, Managed
  <2>2. /\ {"verifier"} \in SUBSET Targets /\ {"verifier", "controller"} \in SUBSET Targets
        /\ {"verifier", "controller", "bridge"} \in SUBSET Targets
        /\ {} \cup {"verifier"} = {"verifier"}
        /\ {"verifier"} \cup {"controller"} = {"verifier", "controller"}
        /\ {"verifier", "controller"} \cup {"bridge"} = {"verifier", "controller", "bridge"}
        /\ {"verifier", "controller", "bridge"} \cup {"codeowners"} = Targets
        /\ Targets \in SUBSET Targets
    BY DEF Targets
  <2>3. Path(<<>> \o v, a, R({"verifier"}))
    BY <1>1, <1>6, <2>1, <2>2, PathSee
  <2>4. Path(v \o c, a, R({"verifier", "controller"}))
    BY <1>1, <1>7, <2>1, <2>2, <2>3, PathSee
  <2>5. Path(v \o c \o b, a, R({"verifier", "controller", "bridge"}))
    BY <1>1, <2>1, <2>2, <2>4, PathSee
  <2>6. Path(v \o c \o b \o o, a, R(Targets))
    BY <1>1, <2>1, <2>2, <2>5, PathSee
  <2>7. Path(auth, R(Targets), R(Targets)) /\ Path(Each("list"), R(Targets), R(Targets))
    BY <1>4, <2>2
  <2>8. Path(Each("see"), a, R(Targets))
    BY <2>1, <2>6
  <2> HIDE DEF a, R, auth, planned
  <2>9. Path(Each("see") \o Each("list"), a, R(Targets))
    BY <2>7, <2>8, PathJoin
  <2>10. Path(Each("see") \o Each("list") \o auth, a, R(Targets))
    BY <2>7, <2>9, PathJoin
  <2>11. Path(Each("see") \o Each("list") \o auth \o planned, a, Over(mode))
    BY <1>5, <2>1, <2>10, PathJoin
  <2>12. QED
    BY <1>9, <2>11 DEF Preparation, a, R, auth, planned
<1>10. QED
  BY <1>8, <1>9

\* What is due in the i-th place of the order, when what comes before it is settled.
LEMMA PlannedPath ==
    ASSUME ModeFits,
           NEW i \in 1..4, NEW ok \in SUBSET Targets,
           \A t \in Targets : t \in ok <=> ~IsDue(t) \/ \E j \in 1..(i - 1) : t = ChangeOrder[j]
    PROVE  /\ ChangeOrder[i] \in Targets
           /\ Path(PlannedAt(i), In(mode, "ready", "bridge", ok),
                   In(mode, "ready", "bridge", ok \cup {ChangeOrder[i]}))
<1> DEFINE t == ChangeOrder[i]
           first == \A j \in 1..(i - 1) : ~IsDue(ChangeOrder[j])
<1>1. t \in Targets
  BY DEF ChangeOrder, Targets
<1>2. CASE ~IsDue(t)
  <2>1. t \in ok /\ ok \cup {t} = ok
    BY <1>1, <1>2
  <2>2. mode \in Modes /\ "ready" \in Stages /\ "bridge" \in Targets
    BY DEF ModeFits, Stages, Targets
  <2>3. In(mode, "ready", "bridge", ok) \in Phases
    BY <2>2, InIs
  <2>4. PlannedAt(i) = <<>>
    BY <1>2 DEF PlannedAt
  <2>5. QED
    BY <1>1, <2>1, <2>3, <2>4, PathEmpty
<1>3. CASE IsDue(t)
  <2>1. Fits(mode, t, ok) /\ t \notin ok
    <3>1. t # "codeowners" => "codeowners" \in ok
      BY DEF ChangeOrder, Targets
    <3>2. t \in {"verifier", "controller"} /\ mode = "bridge" => "bridge" \in ok
      BY DEF ChangeOrder, Targets
    <3>3. t = "bridge" /\ mode = "remove" => Targets \ {"bridge"} \subseteq ok
      BY DEF ChangeOrder, Targets
    <3>4. t \notin ok
      BY <1>1, <1>3 DEF ChangeOrder, Targets
    <3>5. QED
      BY <3>1, <3>2, <3>3, <3>4 DEF Fits
  <2>2. t \in Managed
    BY <1>3 DEF IsDue
  <2>3. PlannedAt(i) = Change(t, first)
    BY <1>3 DEF PlannedAt
  <2>4. CASE Final(t) = "nothing"
    <3>1. t = "bridge" /\ mode # "bridge"
      BY <2>4 DEF Final
    <3> HIDE DEF t, first
    <3>2. Path(Removal(first), In(mode, "ready", "bridge", ok),
               In(mode, "ready", "bridge", ok \cup {"bridge"}))
      BY <2>1, <3>1, RemovalPath
    <3>3. QED
      BY <1>1, <2>3, <2>4, <3>1, <3>2 DEF Change, t
  <2>5. CASE Final(t) # "nothing"
    <3>1. Final(t) = "canonical"
      BY <2>5 DEF Final
    <3> HIDE DEF t, first
    <3>2. Path(Installation(t, first), In(mode, "ready", "bridge", ok),
               In(mode, "ready", "bridge", ok \cup {t}))
      BY <2>1, <2>2, <3>1, InstallationPath
    <3>3. QED
      BY <1>1, <2>3, <2>5, <3>2 DEF Change, t
  <2>6. QED
    BY <2>4, <2>5
<1>4. QED
  BY <1>2, <1>3

\* The changes settle every target, one after the other.
LEMMA ChangesPath ==
    ASSUME ModeFits, NEW ok, ok = {t \in Targets : ~IsDue(t)}
    PROVE  Path(PlannedChanges, In(mode, "ready", "bridge", ok), In(mode, "ready", "bridge", Targets))
<1> DEFINE K1 == ok \cup {ChangeOrder[1]}
           K2 == K1 \cup {ChangeOrder[2]}
           K3 == K2 \cup {ChangeOrder[3]}
           K4 == K3 \cup {ChangeOrder[4]}
           R(s) == In(mode, "ready", "bridge", s)
<1>1. \A i \in 1..4 : ChangeOrder[i] \in Targets
  BY DEF ChangeOrder, Targets
<1>2. /\ ok \in SUBSET Targets /\ K1 \in SUBSET Targets /\ K2 \in SUBSET Targets
      /\ K3 \in SUBSET Targets
  BY <1>1
<1>3. K4 = Targets
  BY <1>1 DEF ChangeOrder, Targets
<1>4. \A t \in Targets : t \in ok <=> ~IsDue(t) \/ \E j \in 1..(1 - 1) : t = ChangeOrder[j]
  OBVIOUS
<1>5. \A t \in Targets : t \in K1 <=> ~IsDue(t) \/ \E j \in 1..(2 - 1) : t = ChangeOrder[j]
  OBVIOUS
<1>6. \A t \in Targets : t \in K2 <=> ~IsDue(t) \/ \E j \in 1..(3 - 1) : t = ChangeOrder[j]
  OBVIOUS
<1>7. \A t \in Targets : t \in K3 <=> ~IsDue(t) \/ \E j \in 1..(4 - 1) : t = ChangeOrder[j]
  OBVIOUS
<1> HIDE DEF K1, K2, K3, K4
<1>8. Path(PlannedAt(1), R(ok), R(K1))
  BY <1>2, <1>4, PlannedPath DEF K1
<1>9. Path(PlannedAt(2), R(K1), R(K2))
  BY <1>2, <1>5, PlannedPath DEF K2
<1>10. Path(PlannedAt(3), R(K2), R(K3))
  BY <1>2, <1>6, PlannedPath DEF K3
<1>11. Path(PlannedAt(4), R(K3), R(K4))
  BY <1>2, <1>7, PlannedPath DEF K4
<1> HIDE DEF R
<1>12. Path(PlannedAt(1) \o PlannedAt(2), R(ok), R(K2))
  BY <1>8, <1>9, PathJoin
<1>13. Path(PlannedAt(1) \o PlannedAt(2) \o PlannedAt(3), R(ok), R(K3))
  BY <1>10, <1>12, PathJoin
<1>14. Path(PlannedAt(1) \o PlannedAt(2) \o PlannedAt(3) \o PlannedAt(4), R(ok), R(K4))
  BY <1>11, <1>13, PathJoin
<1>15. QED
  BY <1>3, <1>14 DEF PlannedChanges, R

\* The planned, from the targets that are settled to the end.
LEMMA PlanPath ==
    ASSUME ModeFits, NEW ok, ok = {t \in Targets : ~IsDue(t)}
    PROVE  Path(PlanCalls, In(mode, "ready", "bridge", ok), Over(mode))
<1> DEFINE R(s) == In(mode, "ready", "bridge", s)
           a == R(ok)
           z == In(mode, "reading", "bridge", ManagedIn(mode))
<1>1. /\ mode \in Modes /\ "bridge" \in Targets /\ ok \in SUBSET Targets /\ Targets \in SUBSET Targets
      /\ "ready" \in Stages /\ "reading" \in Stages /\ ManagedIn(mode) \in SUBSET Targets
      /\ "removed" \in Objects /\ "applied" \in Objects /\ "no change" \in Objects
      /\ "end" \in Doings /\ "unchanged" \in Doings
      /\ <<"ready", "unchanged">> \in Staying /\ <<"ready", "authorize">> \in Staying
      /\ <<"ready", "diff">> \in Staying
  BY DEF ModeFits, Targets, Stages, ManagedIn, Objects, Doings, Staying
<1>2. a \in Phases /\ a.at = "ready" /\ a.mode = mode /\ Over(mode) \in Phases
  <2> DEFINE at == "ready"
             on == "bridge"
  <2>1. at \in Stages /\ on \in Targets /\ ok \in SUBSET Targets /\ mode \in Modes
    BY <1>1
  <2> HIDE DEF at, on
  <2>2. /\ In(mode, at, on, ok) \in Phases /\ In(mode, at, on, ok).at = at
        /\ In(mode, at, on, ok).mode = mode /\ Over(mode) \in Phases
    BY ONLY <2>1, InIs
  <2>3. QED
    BY <2>2 DEF at, on
<1>3. z \in Phases /\ z.at = "reading" /\ z.mode = mode /\ z.ok = ManagedIn(mode)
  <2> DEFINE at == "reading"
             on == "bridge"
             s == ManagedIn(mode)
  <2>1. at \in Stages /\ on \in Targets /\ s \in SUBSET Targets /\ mode \in Modes
    BY <1>1
  <2> HIDE DEF at, on, s
  <2>2. /\ In(mode, at, on, s) \in Phases /\ In(mode, at, on, s).at = at
        /\ In(mode, at, on, s).mode = mode /\ In(mode, at, on, s).ok = s
    BY ONLY <2>1, InIs
  <2>3. QED
    BY <2>2 DEF at, on, s
<1>4. Path(PlannedChanges, a, R(Targets)) /\ Path(Readbacks, R(Targets), z)
  BY <1>1, ChangesPath, ReadbacksPath
<1> HIDE DEF a, R, z
<1>5. Leads(z, [do |-> "end", on |-> "applied"], Over(mode))
  BY <1>3 DEF Leads, Ends
<1>6. Leads(a, [do |-> "end", on |-> "no change"], Over(mode))
  BY <1>2 DEF Leads, Ends
<1>7. Path(PlannedChanges \o Readbacks, a, z)
  BY <1>4, PathJoin
<1>8. Path(PlannedChanges \o Readbacks \o Call("end", "applied"), a, Over(mode))
  BY <1>1, <1>2, <1>3, <1>5, <1>7, PathOn
<1>9. Path(Each("unchanged"), a, a) /\ Path(<<>>, a, a) /\ Path(Authorization("removed"), a, a)
  BY <1>1, <1>2, EachStays, PathEmpty, AuthorizationStays
<1> DEFINE u == IF source THEN <<>> ELSE Each("unchanged")
<1>10. Path(u, a, a)
  BY <1>9
<1> HIDE DEF u
<1>11. Path(u \o Authorization("removed"), a, a)
  BY <1>9, <1>10, PathJoin
<1>12. Path(u \o Authorization("removed") \o Call("end", "no change"), a, Over(mode))
  BY <1>1, <1>2, <1>6, <1>11, PathOn
<1>13. QED
  BY <1>8, <1>12 DEF PlanCalls, u, a, R

-----------------------------------------------------------------------------
(* The worktree: the helper's steps.                                       *)

\* Where the helper is, and where its next call leads it.
LEMMA Stage ==
    ASSUME FilesInv, prog # <<>>
    PROVE  /\ report = "none" /\ ModeFits /\ Head(prog) \in Calls /\ Shaped /\ InOrder
           /\ \E a \in Phases, b \in Phases :
                 Holds(a) /\ Leads(a, Head(prog), b) /\ Path(Tail(prog), b, Over(mode))
<1>1. /\ report = "none" /\ ModeFits /\ Shaped /\ InOrder
      /\ \E a \in Phases : Path(prog, a, Over(mode)) /\ Holds(a)
  BY DEF FilesInv, Underway, ModeFits
<1>2. PICK a \in Phases : Path(prog, a, Over(mode)) /\ Holds(a)
  BY <1>1
<1>3. QED
  BY <1>1, <1>2, PathTail

\* The helper has still to make the calls s, and what holds in phase b holds.
LEMMA Arrives ==
    ASSUME ModeFits, NEW b \in Phases, NEW s, Path(s, b, Over(mode)), prog' = s,
           report' = "none", mode' = mode, source' = source, Holds(b)', Shaped', InOrder'
    PROVE  FilesInv'
<1>1. Underway'
  <2>1. Path(prog, b, Over(mode))'
    OBVIOUS
  <2>2. QED
    BY <2>1 DEF Underway, ModeFits
<1>2. QED
  BY <1>1 DEF FilesInv, AppliedIsReal

\* The order of the changes is the same while the targets are.
LEMMA InOrderStays ==
    ASSUME InOrder, mode' = mode, source' = source, moved \subseteq moved',
           wrote' \subseteq wrote,
           \A t \in Targets : Content(t)' = Content(t) \/ t \in moved'
                              \/ (t = "bridge" /\ mode # "bridge")
    PROVE  InOrder'
<1>1. \A t \in Targets : Final(t)' = Final(t)
  BY DEF Final
<1>2. \A t \in Targets : AsPlanned(t) /\ ~(t = "bridge" /\ mode # "bridge") => AsPlanned(t)'
  BY <1>1 DEF AsPlanned
<1>3. QED
  BY <1>2 DEF InOrder, Targets

\* The helper is where it was, and has looked at most.
LEMMA FilesStand ==
    ASSUME NEW a \in Phases, Holds(a),
           files' = files, seen' = seen, done' = done, note' = note, wrote' = wrote, moved' = moved,
           late' = late, admitted' = admitted, mode' = mode, source' = source,
           recent' = recent \/ a.at \notin {"compared", "checked", "twice", "proved"}
    PROVE  Holds(a)'
<1>1. \A t : Final(t)' = Final(t) /\ Content(t)' = Content(t)
  BY DEF Final, Content
<1>2. Managed' = Managed
  BY DEF Managed
<1>3. a.mode = mode' /\ note' = NoteIn(a.at) /\ wrote' = done' \cup Owed(a)
  BY DEF Holds
<1>4. Saw(a)'
  BY <1>1 DEF Holds, Saw
<1>5. Settled(a)'
  BY <1>1, <1>2 DEF Holds, Settled
<1>6. Installs(a)'
  BY <1>1, <1>2 DEF Holds, Installs
<1>7. Removes(a)'
  BY DEF Holds, Removes, Admitted
<1>8. ReadBack(a)'
  BY <1>1 DEF Holds, ReadBack
<1>9. QED
  BY <1>3, <1>4, <1>5, <1>6, <1>7, <1>8 DEF Holds

\* A call is made, and the next is up.
LEMMA Moves ==
    ASSUME FilesInv, prog # <<>>, prog' = Tail(prog), source' = source, mode' = mode,
           report' = report, Shaped', InOrder',
           \A a \in Phases, b \in Phases : Holds(a) /\ Leads(a, Head(prog), b) => Holds(b)'
    PROVE  FilesInv'
<1>1. /\ report = "none" /\ ModeFits
      /\ \E a \in Phases, b \in Phases :
            Holds(a) /\ Leads(a, Head(prog), b) /\ Path(Tail(prog), b, Over(mode))
  BY Stage
<1>2. PICK a \in Phases, b \in Phases :
          Holds(a) /\ Leads(a, Head(prog), b) /\ Path(Tail(prog), b, Over(mode))
  BY <1>1
<1>3. Holds(b)'
  BY <1>2
<1>4. QED
  BY <1>1, <1>2, <1>3, Arrives

\* The worktree and the targets' contents are as they were.
LEMMA Untouched ==
    ASSUME files' = files, source' = source, mode' = mode
    PROVE  /\ \A t : Final(t)' = Final(t) /\ Content(t)' = Content(t)
           /\ Managed' = Managed
  BY DEF Final, Content, Managed

\* A failure: the helper stops, or the bridge is put back.
LEMMA ThrowKeeps ==
    ASSUME FilesInv, prog # <<>>, Throw
    PROVE  FilesInv'
<1>1. /\ report = "none" /\ ModeFits /\ Head(prog) \in Calls /\ Shaped /\ InOrder
      /\ \E a \in Phases, b \in Phases :
            Holds(a) /\ Leads(a, Head(prog), b) /\ Path(Tail(prog), b, Over(mode))
  BY Stage
<1>2. PICK a \in Phases : Holds(a)
  BY <1>1
<1>3. UNCHANGED <<files, source, mode, seen, listed, admitted, done, wrote, moved, recent, late>>
  BY DEF Throw, worktree, past
<1>4. Shaped'
  BY <1>1, <1>3 DEF Shaped
<1>5. InOrder'
  BY <1>1, <1>3, InOrderStays DEF Content
<1>6. a.at \in Stages /\ a.ok \in SUBSET Targets /\ a.mode = mode /\ note = NoteIn(a.at)
      /\ wrote = done \cup Owed(a)
  BY <1>2 DEF Phases, Holds
<1>7. CASE note = "quarantined" /\ Head(prog).do \in {"authorize", "diff"}
  <2>1. prog' = Restoration /\ note' = "not restored" /\ report' = report
    BY <1>7 DEF Throw
  <2>2. a.at \in {"quarantined", "checked"}
    BY <1>6, <1>7 DEF NoteIn, Restoring, Stages
  <2>3. /\ mode # "bridge" /\ "bridge" \notin a.ok /\ "bridge" \in Managed /\ Final("bridge") = "nothing"
        /\ a.at \in Changing
    BY <1>2, <2>2 DEF Holds, Removes, Removing, Changing, Managed, Targets, Final
  <2>4. seen["bridge"] = "canonical" /\ "bridge" \notin done
    BY <1>2, <2>3 DEF Holds, Settled
  <2>5. PICK x \in Phases : /\ x = In(mode, "restoring", "bridge", a.ok)
                            /\ x.at = "restoring" /\ x.mode = mode
    <3>1. "restoring" \in Stages /\ "bridge" \in Targets /\ mode \in Modes
      BY <1>1 DEF Stages, Targets, ModeFits
    <3>2. QED
      BY <1>6, <3>1, InIs
  <2>6. note' = NoteIn(x.at) /\ wrote' = done' \cup Owed(x)
    BY <1>3, <1>6, <2>1, <2>2, <2>5 DEF NoteIn, Restoring, Owed
  <2>7. Saw(x)' /\ Settled(x)' /\ Installs(x)' /\ ReadBack(x)'
    BY <2>5 DEF Saw, Settled, Installs, ReadBack, Changing, Removing
  <2>8. Removes(x)'
    BY <1>3, <2>3, <2>4, <2>5 DEF Removes, Removing, Restoring
  <2>9. Holds(x)'
    BY <1>3, <2>5, <2>6, <2>7, <2>8 DEF Holds
  <2>10. Path(Restoration, x, Over(mode))
    BY <1>1, <1>6, <2>5, RestorationPath
  <2>11. QED
    BY <1>1, <1>3, <1>4, <1>5, <2>1, <2>5, <2>9, <2>10, Arrives
<1>8. CASE ~(note = "quarantined" /\ Head(prog).do \in {"authorize", "diff"})
  <2>1. prog' = <<>> /\ report' = "error" /\ note' = note
    BY <1>8 DEF Throw
  <2>2. Underway' /\ AppliedIsReal'
    BY <2>1 DEF Underway, AppliedIsReal
  <2>3. QED
    BY <1>4, <1>5, <2>2 DEF FilesInv
<1>9. QED
  BY <1>7, <1>8

LEMMA SeeKeeps ==
    ASSUME FilesInv, See
    PROVE  FilesInv'
<1>1. /\ prog # <<>> /\ Head(prog).do = "see" /\ ModeFits /\ Shaped /\ InOrder
      /\ report = "none"
  BY Stage DEF See, Doing
<1>2. CASE Throw
  BY <1>1, <1>2, ThrowKeeps
<1>3. CASE ~Throw
  <2>1. /\ ~(mode # "bridge" /\ On = "bridge" /\ Content(On) \notin {"nothing", "canonical"})
        /\ seen' = [seen EXCEPT ![On] = Content(On)] /\ recent' = {}
        /\ UNCHANGED <<wrote, moved, late, files, source, mode, report, listed, admitted, done, note>>
        /\ prog' = Tail(prog)
    BY <1>3 DEF See, Looked, GoOn, worktree
  <2>2. Shaped'
    BY <1>1, <2>1 DEF Shaped
  <2>3. InOrder'
    BY <1>1, <2>1, InOrderStays DEF Content
  <2>4. ASSUME NEW a \in Phases, NEW b \in Phases, Holds(a), Leads(a, Head(prog), b)
        PROVE  Holds(b)'
    <3>1. a.at = "seeing" /\ On \in ManagedIn(a.mode) /\ b = In(a.mode, "seeing", "bridge", a.ok \cup {On})
      BY <1>1, <2>4 DEF Leads, Staying, Moving, Ends, On
    <3>2. b.at = "seeing" /\ b.mode = a.mode /\ b.ok = a.ok \cup {On}
      BY <3>1 DEF In
    <3>3. On \in Targets /\ a.mode = mode /\ a.ok \subseteq Targets
      BY <3>1, <2>4 DEF ManagedIn, Targets, Holds, Phases
    <3>4. seen'[On] = Content(On) /\ \A t \in Targets : t # On => seen'[t] = seen[t]
      BY <1>1, <2>1, <3>3 DEF Shaped
    <3>5. Saw(b)'
      <4>1. \A t \in b.ok : Content(t)' = seen'[t] \/ t \in moved'
        BY <2>1, <2>4, <3>1, <3>2, <3>3, <3>4 DEF Holds, Saw, Content
      <4>2. mode' # "bridge" /\ "bridge" \in b.ok => seen'["bridge"] \in {"nothing", "canonical"}
        <5>1. CASE On = "bridge"
          BY <2>1, <3>4, <5>1
        <5>2. CASE On # "bridge"
          BY <2>1, <2>4, <3>1, <3>2, <3>4, <5>2 DEF Holds, Saw, Targets
        <5>3. QED
          BY <5>1, <5>2
      <4>3. wrote' = {}
        BY <2>1, <2>4, <3>1 DEF Holds, Saw
      <4>4. QED
        BY <3>2, <4>1, <4>2, <4>3 DEF Saw
    <3>6. note' = NoteIn(b.at) /\ wrote' = done' \cup Owed(b)
      BY <2>1, <2>4, <3>1, <3>2 DEF Holds, Owed
    <3>7. Settled(b)' /\ Installs(b)' /\ Removes(b)' /\ ReadBack(b)'
      BY <3>2 DEF Settled, Installs, Removes, ReadBack, Changing, Removing, Restoring
    <3>8. QED
      BY <2>1, <3>2, <3>3, <3>5, <3>6, <3>7 DEF Holds
  <2>5. QED
    BY <1>1, <2>1, <2>2, <2>3, <2>4, Moves
<1>4. QED
  BY <1>2, <1>3

LEMMA ListTargetKeeps ==
    ASSUME FilesInv, ListTarget
    PROVE  FilesInv'
<1>1. prog # <<>> /\ Head(prog).do = "list" /\ ModeFits /\ Shaped /\ InOrder
  BY Stage DEF ListTarget, Doing
<1>2. /\ UNCHANGED <<files, source, mode, report, seen, admitted, done, note, wrote, moved, late>>
      /\ prog' = Tail(prog) /\ recent' = {}
  BY DEF ListTarget, Looked, GoOn, worktree
<1>3. Shaped'
  BY <1>1, <1>2 DEF Shaped
<1>4. InOrder'
  BY <1>1, <1>2, InOrderStays DEF Content
<1>5. ASSUME NEW a \in Phases, NEW b \in Phases, Holds(a), Leads(a, Head(prog), b)
      PROVE  Holds(b)'
  <2>1. a.at = "seeing" /\ b = a
    BY <1>1, <1>5 DEF Leads, Staying, Moving, Ends
  <2>2. QED
    BY <1>2, <1>5, <2>1, FilesStand
<1>6. QED
  BY <1>1, <1>2, <1>3, <1>4, <1>5, Moves

\* The calls that only compare: what the helper knows after each.
LEMMA ComparisonKeeps ==
    ASSUME FilesInv, Comparison
    PROVE  FilesInv'
<1> DEFINE do == Head(prog).do
<1>1. prog # <<>> /\ do \in Comparing /\ ModeFits /\ Shaped /\ InOrder /\ report = "none"
  BY Stage DEF Comparison
<1>2. CASE ~Agrees(do, On)
  <2>1. Throw
    BY <1>2 DEF Comparison
  <2>2. QED
    BY <1>1, <2>1, ThrowKeeps
<1>3. CASE Agrees(do, On)
  <2>1. /\ UNCHANGED <<files, source, mode, report, seen, admitted, done, wrote, moved, late>>
        /\ prog' = Tail(prog) /\ note' = NoteAfter(do)
        /\ IF do = "verified" THEN recent' = recent ELSE recent' = {}
    BY <1>3 DEF Comparison, Looked, GoOn, worktree, past
  <2>2. Shaped'
    BY <1>1, <2>1 DEF Shaped
  <2>3. InOrder'
    BY <1>1, <2>1, InOrderStays DEF Content
  <2>4. ASSUME NEW a \in Phases, NEW b \in Phases, Holds(a), Leads(a, Head(prog), b)
        PROVE  Holds(b)'
    <3>1. /\ \A t : Final(t)' = Final(t) /\ Content(t)' = Content(t)
          /\ Managed' = Managed
      BY <2>1, Untouched
    <3>2. /\ a.at \in Stages /\ a.mode = mode /\ note = NoteIn(a.at)
          /\ wrote = done \cup Owed(a)
      BY <2>4 DEF Phases, Holds
    <3>3. CASE b = a
      <4>1. a.at \notin {"compared", "checked", "twice", "proved"} /\ do \notin {"mkdir", "verified"}
        <5>1. ~Ends(a, Head(prog))
          BY <1>1 DEF Ends, Comparing
        <5>2. QED
          BY <1>1, <2>4, <3>3, <5>1 DEF Leads, Staying, Moving, Comparing, In
      <4>2. note' = note
        BY <2>1, <4>1 DEF NoteAfter
      <4>3. QED
        BY <2>1, <2>4, <3>3, <4>1, <4>2, FilesStand
    <3>4. CASE b # a
      <4>1. CASE do = "compare"
        <5>1. /\ a.at = "written" /\ On = a.on /\ b = In(a.mode, "compared", a.on, a.ok)
          BY <2>4, <3>4, <4>1 DEF Leads, Staying, Moving, Ends, On
        <5>2. b.at = "compared" /\ b.on = a.on /\ b.ok = a.ok /\ b.mode = a.mode /\ Owed(b) = Owed(a)
          BY <5>1 DEF In, Owed
        <5>3. note' = NoteIn(b.at)
          BY <2>1, <3>2, <4>1, <5>1, <5>2 DEF NoteAfter, NoteIn, Restoring
        <5>4. Content(On) = seen[On]
          BY <1>3, <4>1 DEF Agrees
        <5>5. Installs(b)'
          BY <2>1, <2>4, <3>1, <5>1, <5>2, <5>4 DEF Holds, Installs
        <5>6. Settled(b)'
          BY <2>1, <2>4, <3>1, <5>1, <5>2 DEF Holds, Settled, Changing
        <5>7. Saw(b)' /\ Removes(b)' /\ ReadBack(b)'
          BY <5>2 DEF Saw, Removes, ReadBack, Removing, Restoring
        <5>8. QED
          BY <2>1, <3>2, <5>2, <5>3, <5>5, <5>6, <5>7 DEF Holds
      <4>2. CASE do = "final"
        <5>1. /\ a.at \in {"ready", "reading"} /\ On \in Targets
              /\ \/ a.at = "ready" /\ b = In(a.mode, "reading", "bridge", {On})
                 \/ a.at = "reading" /\ b = In(a.mode, "reading", "bridge", a.ok \cup {On})
          BY <2>4, <3>4, <4>2 DEF Leads, Staying, Moving, Ends, On
        <5>2. /\ b.at = "reading" /\ b.mode = a.mode /\ Owed(b) = Owed(a)
              /\ \A t \in b.ok : t = On \/ (a.at = "reading" /\ t \in a.ok)
          BY <5>1 DEF In, Owed
        <5>3. note' = NoteIn(b.at)
          BY <2>1, <3>2, <4>2, <5>1, <5>2 DEF NoteAfter, NoteIn, Restoring
        <5>4. Content(On) = Final(On)
          BY <1>3, <4>2 DEF Agrees
        <5>5. ReadBack(b)'
          <6>1. (\A t \in b.ok : Content(t) = Final(t) \/ t \in late)'
            BY <2>1, <2>4, <3>1, <5>2, <5>4 DEF Holds, ReadBack
          <6>2. (\A t \in Targets : t \in wrote => Content(t) = Final(t) \/ t \in moved)'
            BY <2>1, <2>4, <3>1, <5>1 DEF Holds, ReadBack, Settled, Changing
          <6>3. QED
            BY <6>1, <6>2 DEF ReadBack
        <5>6. Saw(b)' /\ Settled(b)' /\ Installs(b)' /\ Removes(b)'
          BY <5>2 DEF Saw, Settled, Installs, Removes, Changing, Removing, Restoring
        <5>7. QED
          BY <2>1, <3>2, <5>2, <5>3, <5>5, <5>6 DEF Holds
      <4>3. CASE do \notin {"compare", "final"}
        <5>1. /\ <<a.at, do, On, b.at>> \in Moving /\ b = In(a.mode, b.at, "bridge", a.ok)
          <6>1. ~Ends(a, Head(prog))
            BY <1>1 DEF Ends, Comparing
          <6>2. QED
            BY <1>1, <2>4, <3>4, <4>3, <6>1 DEF Leads, Comparing, On
        <5>2. \/ a.at = "admitted" /\ do = "mkdir" /\ b.at = "prepared"
              \/ a.at = "away" /\ do = "verified" /\ b.at = "quarantined"
              \/ a.at = "quarantined" /\ do = "check" /\ On = "quarantine" /\ b.at = "checked"
              \/ a.at = "checked" /\ do = "authorize" /\ b.at = "quarantined"
              \/ a.at = "linked" /\ do = "check" /\ b.at = "linked"
              \/ a.at = "linked" /\ do = "check" /\ On = "quarantine" /\ b.at = "twice"
              \/ a.at = "single" /\ do = "check" /\ b.at = "single"
              \/ a.at = "back" /\ do = "check" /\ On = "bridge" /\ b.at = "proved"
          BY <1>1, <5>1 DEF Moving, Comparing
        <5>3. b.mode = a.mode /\ b.ok = a.ok /\ b.on = "bridge"
          BY <5>1 DEF In
        <5>4. note' = NoteIn(b.at)
          BY <2>1, <3>2, <5>2 DEF NoteAfter, NoteIn, Restoring
        <5>5. Owed(b) = Owed(a)
          BY <5>2 DEF Owed
        <5>6. Settled(b)'
          <6>1. CASE a.at \in Changing
            BY <2>1, <2>4, <3>1, <5>3, <6>1 DEF Holds, Settled
          <6>2. CASE a.at \notin Changing
            <7>1. b.at \notin Changing
              BY <5>2, <6>2 DEF Changing, Removing
            <7>2. QED
              BY <7>1 DEF Settled
          <6>3. QED
            BY <6>1, <6>2
        <5>7. Removes(b)'
          <6>1. b.at \in Removing => a.at \in Removing
            BY <5>2 DEF Removing
          <6>2. b.at \in Restoring => a.at \in Restoring
            BY <5>2 DEF Restoring
          <6>3. b.at \notin {"restoring", "away"}
            BY <5>2
          <6>4. (b.at \in Removing =>
                   /\ mode # "bridge" /\ "bridge" \notin b.ok /\ b.on = "bridge"
                   /\ Fits(mode, "bridge", b.ok))'
            BY <2>1, <2>4, <5>3, <6>1 DEF Holds, Removes
          <6>5. (b.at \in Restoring \cup {"restoring"} =>
                   mode # "bridge" /\ seen["bridge"] = "canonical" /\ "bridge" \notin done)'
            BY <2>1, <2>4, <6>2, <6>3 DEF Holds, Removes
          <6>6. (b.at \in {"away", "quarantined", "checked"} =>
                   files["quarantine"] # Nothing \/ "quarantine" \in moved)'
            BY <2>1, <2>4, <5>2 DEF Holds, Removes
          <6>7. b.at \in {"checked", "twice", "proved"} => seen["bridge"] = "canonical"
            <7>1. CASE b.at \in {"twice", "proved"}
              <8>1. a.at \in Restoring
                BY <5>2, <7>1 DEF Restoring
              <8>2. QED
                BY <2>4, <8>1 DEF Holds, Removes
            <7>2. CASE b.at = "checked"
              <8>1. a.at \in Removing /\ a.at \in Changing
                BY <5>2, <7>2 DEF Removing, Changing
              <8>2. mode # "bridge" /\ "bridge" \notin a.ok /\ "bridge" \in Managed /\ Final("bridge") = "nothing"
                BY <2>4, <8>1 DEF Holds, Removes, Managed, Targets, Final
              <8>3. QED
                BY <2>4, <8>1, <8>2 DEF Holds, Settled
            <7>3. QED
              BY <7>1, <7>2
          <6>8. b.at \in {"checked", "twice", "proved"} =>
                   /\ do = "check" /\ On = IF b.at = "proved" THEN "bridge" ELSE "quarantine"
            BY <5>2
          <6>9. ASSUME b.at \in {"checked", "twice", "proved"}
                PROVE  files[On] = [id |-> admitted, content |-> "canonical"]
            <7>1. files[On].id = admitted /\ Content(On) = "canonical" /\ On \in FileNames
              BY <1>3, <6>7, <6>8, <6>9 DEF Agrees, FileNames, Targets
            <7>2. QED
              BY <1>1, <7>1 DEF Shaped, Content
          <6>10. (b.at \in {"checked", "twice"} => Admitted("quarantine"))'
            BY <2>1, <6>8, <6>9 DEF Admitted
          <6>11. (b.at = "proved" => Admitted("bridge"))'
            BY <2>1, <6>8, <6>9 DEF Admitted
          <6>12. (b.at \in {"single", "back", "proved"} => files["quarantine"] = Nothing)'
            BY <2>1, <2>4, <5>2 DEF Holds, Removes
          <6>13. QED
            BY <6>4, <6>5, <6>6, <6>10, <6>11, <6>12 DEF Removes
        <5>8. Saw(b)' /\ Installs(b)' /\ ReadBack(b)'
          BY <5>2 DEF Saw, Installs, ReadBack
        <5>9. QED
          BY <2>1, <3>2, <5>3, <5>4, <5>5, <5>6, <5>7, <5>8 DEF Holds
      <4>4. QED
        BY <4>1, <4>2, <4>3
    <3>5. QED
      BY <3>3, <3>4
  <2>5. QED
    BY <1>1, <2>1, <2>2, <2>3, <2>4, Moves
<1>4. QED
  BY <1>2, <1>3

LEMMA PrepareKeeps ==
    ASSUME FilesInv, Prepare
    PROVE  FilesInv'
<1>1. prog # <<>> /\ Head(prog).do = "start" /\ ModeFits /\ Shaped /\ InOrder /\ report = "none"
  BY Stage DEF Prepare, Doing
<1>2. /\ UNCHANGED <<files, source, mode, report, seen, admitted, done, note, wrote, moved, recent, late>>
      /\ prog' = Preparation
  BY DEF Prepare, worktree, memory, past
<1>3. Shaped'
  BY <1>1, <1>2 DEF Shaped
<1>4. InOrder'
  BY <1>1, <1>2, InOrderStays DEF Content
<1>5. PICK a \in Phases, b \in Phases : Holds(a) /\ Leads(a, Head(prog), b)
  BY <1>1, Stage
<1>6. a.at = "starting"
  BY <1>1, <1>5 DEF Leads, Staying, Moving, Ends
<1>7. PICK x \in Phases : x = In(mode, "seeing", "bridge", {})
  <2>1. "seeing" \in Stages /\ "bridge" \in Targets /\ mode \in Modes /\ {} \in SUBSET Targets
    BY <1>1 DEF Stages, Targets, ModeFits
  <2>2. QED
    BY <2>1, InIs
<1>8. x.at = "seeing" /\ x.mode = mode /\ x.ok = {}
  BY <1>7 DEF In
<1>9. note' = NoteIn(x.at) /\ wrote' = done' \cup Owed(x)
  BY <1>2, <1>5, <1>6, <1>8 DEF Holds, NoteIn, Restoring, Owed
<1>10. Saw(x)'
  BY <1>2, <1>5, <1>6, <1>8 DEF Holds, Saw
<1>11. Settled(x)' /\ Installs(x)' /\ Removes(x)' /\ ReadBack(x)'
  BY <1>8 DEF Settled, Installs, Removes, ReadBack, Changing, Removing, Restoring
<1>12. Holds(x)'
  BY <1>2, <1>8, <1>9, <1>10, <1>11 DEF Holds
<1>13. QED
  BY <1>1, <1>2, <1>3, <1>4, <1>7, <1>12, PreparationPath, Arrives

\* When it plans, what is not due is as planned.
LEMMA MakePlanKeeps ==
    ASSUME FilesInv, MakePlan
    PROVE  FilesInv'
<1>1. prog # <<>> /\ Head(prog).do = "plan" /\ ModeFits /\ Shaped /\ InOrder /\ report = "none"
  BY Stage DEF MakePlan, Doing
<1>2. CASE Throw
  BY <1>1, <1>2, ThrowKeeps
<1>3. CASE ~Throw
  <2>1. /\ UNCHANGED <<files, source, mode, report, seen, admitted, done, note, wrote, moved>>
        /\ prog' = PlanCalls
    BY <1>3 DEF MakePlan, worktree, memory
  <2>2. Shaped'
    BY <1>1, <2>1 DEF Shaped
  <2>3. InOrder'
    BY <1>1, <2>1, InOrderStays DEF Content
  <2>4. PICK a \in Phases, b \in Phases : Holds(a) /\ Leads(a, Head(prog), b)
    BY <1>1, Stage
  <2>5. a.at = "seeing" /\ a.ok = ManagedIn(a.mode) /\ a.mode = mode
    BY <1>1, <2>4 DEF Leads, Staying, Moving, Ends, Holds
  <2>6. a.ok = Managed /\ Managed \subseteq Targets /\ "bridge" \in Managed
    BY <1>1, <2>5, InMode DEF Managed, Targets
  <2>7. PICK x \in Phases : x = In(mode, "ready", "bridge", {t \in Targets : ~IsDue(t)})
    <3>1. "ready" \in Stages /\ "bridge" \in Targets /\ mode \in Modes
      BY <1>1 DEF Stages, Targets, ModeFits
    <3> DEFINE ok == {t \in Targets : ~IsDue(t)}
    <3>2. ok \in SUBSET Targets
      OBVIOUS
    <3> HIDE DEF ok
    <3>3. In(mode, "ready", "bridge", ok) \in Phases
      BY <3>1, <3>2, InIs
    <3>4. QED
      BY <3>3 DEF ok
  <2>8. x.at = "ready" /\ x.mode = mode /\ \A t \in Targets : t \in x.ok <=> ~IsDue(t)
    BY <2>7 DEF In
  <2>9. /\ \A t : Final(t)' = Final(t) /\ Content(t)' = Content(t)
        /\ Managed' = Managed
    BY <2>1, Untouched
  <2>10. wrote = {} /\ done = {} /\ note = "none"
    BY <2>4, <2>5 DEF Holds, Saw, NoteIn, Restoring
  <2>11. note' = NoteIn(x.at) /\ wrote' = done' \cup Owed(x)
    BY <2>1, <2>8, <2>10 DEF NoteIn, Restoring, Owed
  <2>12. /\ \A t \in Managed : Content(t) = seen[t] \/ t \in moved
         /\ mode # "bridge" => seen["bridge"] \in {"nothing", "canonical"}
    BY <2>4, <2>5, <2>6 DEF Holds, Saw
  <2>13. \A t \in Managed : t \in x.ok <=> seen[t] = Final(t)
    BY <2>6, <2>8 DEF IsDue
  <2>14. Settled(x)'
    BY <2>1, <2>9, <2>10, <2>12, <2>13 DEF Settled
  <2>15. Saw(x)' /\ Installs(x)' /\ Removes(x)' /\ ReadBack(x)'
    BY <2>8 DEF Saw, Installs, Removes, ReadBack, Removing, Restoring
  <2>16. Holds(x)'
    BY <2>1, <2>8, <2>11, <2>14, <2>15 DEF Holds
  <2>17. Path(PlanCalls, x, Over(mode))
    BY <1>1, <2>7, PlanPath
  <2>18. QED
    BY <1>1, <2>1, <2>2, <2>3, <2>16, <2>17, Arrives
<1>4. QED
  BY <1>2, <1>3

LEMMA AdmitKeeps ==
    ASSUME FilesInv, Admit
    PROVE  FilesInv'
<1>1. prog # <<>> /\ Head(prog).do = "admit" /\ ModeFits /\ Shaped /\ InOrder /\ report = "none"
  BY Stage DEF Admit, Doing
<1>2. CASE Throw
  BY <1>1, <1>2, ThrowKeeps
<1>3. CASE ~Throw
  <2>1. /\ UNCHANGED <<files, source, mode, report, seen, done, note, wrote, moved, late>>
        /\ prog' = Tail(prog)
    BY <1>3 DEF Admit, Looked, GoOn, worktree
  <2>2. Shaped'
    BY <1>1, <2>1 DEF Shaped
  <2>3. InOrder'
    BY <1>1, <2>1, InOrderStays DEF Content
  <2>4. ASSUME NEW a \in Phases, NEW b \in Phases, Holds(a), Leads(a, Head(prog), b)
        PROVE  Holds(b)'
    <3>1. /\ a.at = "ready" /\ a.mode # "bridge" /\ "bridge" \notin a.ok /\ Fits(a.mode, "bridge", a.ok)
          /\ b = In(a.mode, "admitted", "bridge", a.ok)
      BY <1>1, <2>4 DEF Leads, Staying, Moving, Ends
    <3>2. b.at = "admitted" /\ b.mode = a.mode /\ b.ok = a.ok /\ b.on = "bridge"
      BY <3>1 DEF In
    <3>3. a.mode = mode /\ note = NoteIn(a.at) /\ wrote = done \cup Owed(a)
      BY <2>4 DEF Holds
    <3>4. note' = NoteIn(b.at) /\ wrote' = done' \cup Owed(b)
      BY <2>1, <3>1, <3>2, <3>3 DEF NoteIn, Restoring, Owed
    <3>5. /\ \A t : Final(t)' = Final(t) /\ Content(t)' = Content(t)
          /\ Managed' = Managed
      BY <2>1, Untouched
    <3>6. Settled(b)'
      BY <2>1, <2>4, <3>1, <3>2, <3>5 DEF Holds, Settled, Changing
    <3>7. Removes(b)'
      BY <2>1, <3>1, <3>2, <3>3 DEF Removes, Restoring
    <3>8. Saw(b)' /\ Installs(b)' /\ ReadBack(b)'
      BY <3>2 DEF Saw, Installs, ReadBack
    <3>9. QED
      BY <2>1, <3>2, <3>3, <3>4, <3>6, <3>7, <3>8 DEF Holds
  <2>5. QED
    BY <1>1, <2>1, <2>2, <2>3, <2>4, Moves
<1>4. QED
  BY <1>2, <1>3

\* A target that was written is counted as done.
LEMMA CompletedKeeps ==
    ASSUME FilesInv, Completed
    PROVE  FilesInv'
<1>1. prog # <<>> /\ Head(prog).do = "completed" /\ ModeFits /\ Shaped /\ InOrder /\ report = "none"
  BY Stage DEF Completed, Doing
<1>2. /\ UNCHANGED <<files, source, mode, report, seen, wrote, moved, recent, late>>
      /\ prog' = Tail(prog) /\ done' = done \cup {On} /\ note' = "none"
  BY DEF Completed, GoOn, worktree, past
<1>3. Shaped'
  BY <1>1, <1>2 DEF Shaped
<1>4. InOrder'
  BY <1>1, <1>2, InOrderStays DEF Content
<1>5. ASSUME NEW a \in Phases, NEW b \in Phases, Holds(a), Leads(a, Head(prog), b)
      PROVE  Holds(b)'
  <2>1. /\ a.at \in {"installed", "emptied"} /\ On = a.on
        /\ b = In(a.mode, "ready", "bridge", a.ok \cup {a.on})
    BY <1>1, <1>5 DEF Leads, Staying, Moving, Ends, On
  <2>2. b.at = "ready" /\ b.mode = a.mode /\ b.ok = a.ok \cup {a.on}
    BY <2>1 DEF In
  <2>3. a.mode = mode /\ wrote = done \cup Owed(a) /\ a.on \in Targets
    BY <1>5 DEF Holds, Phases
  <2>4. Owed(a) = {On}
    BY <1>5, <2>1 DEF Owed, Holds, Removes, Removing
  <2>5. note' = NoteIn(b.at) /\ wrote' = done' \cup Owed(b)
    BY <1>2, <2>2, <2>3, <2>4 DEF NoteIn, Restoring, Owed
  <2>6. /\ \A t : Final(t)' = Final(t) /\ Content(t)' = Content(t)
        /\ Managed' = Managed
    BY <1>2, Untouched
  <2>7. Settled(b)'
    <3>1. a.at \in Changing
      BY <2>1 DEF Changing, Removing
    <3>2. QED
      BY <1>2, <1>5, <2>1, <2>2, <2>3, <2>4, <2>6, <3>1 DEF Holds, Settled
  <2>8. Saw(b)' /\ Installs(b)' /\ Removes(b)' /\ ReadBack(b)'
    BY <2>2 DEF Saw, Installs, Removes, ReadBack, Removing, Restoring
  <2>9. QED
    BY <1>2, <2>2, <2>3, <2>5, <2>7, <2>8 DEF Holds
<1>6. QED
  BY <1>1, <1>2, <1>3, <1>4, <1>5, Moves

LEMMA RmdirKeeps ==
    ASSUME FilesInv, Rmdir
    PROVE  FilesInv'
<1>1. prog # <<>> /\ Head(prog).do = "rmdir" /\ ModeFits /\ Shaped /\ InOrder /\ report = "none"
  BY Stage DEF Rmdir, Doing
<1>2. CASE Throw
  BY <1>1, <1>2, ThrowKeeps
<1>3. CASE ~Throw
  <2>1. /\ UNCHANGED <<files, source, mode, report, seen, admitted, done, note, wrote, moved, late>>
        /\ prog' = Tail(prog)
    BY <1>3 DEF Rmdir, Looked, GoOn, worktree, memory
  <2>2. Shaped'
    BY <1>1, <2>1 DEF Shaped
  <2>3. InOrder'
    BY <1>1, <2>1, InOrderStays DEF Content
  <2>4. ASSUME NEW a \in Phases, NEW b \in Phases, Holds(a), Leads(a, Head(prog), b)
        PROVE  Holds(b)'
    <3>1. /\ b = In(a.mode, b.at, "bridge", a.ok)
          /\ \/ a.at = "unlinked" /\ b.at = "emptied"
             \/ a.at = "single" /\ b.at = "back"
      BY <1>1, <2>4 DEF Leads, Staying, Moving, Ends
    <3>2. b.mode = a.mode /\ b.ok = a.ok /\ b.on = "bridge"
      BY <3>1 DEF In
    <3>3. a.mode = mode /\ note = NoteIn(a.at) /\ wrote = done \cup Owed(a)
      BY <2>4 DEF Holds
    <3>4. note' = NoteIn(b.at) /\ wrote' = done' \cup Owed(b)
      BY <2>1, <3>1, <3>3 DEF NoteIn, Restoring, Owed
    <3>5. /\ \A t : Final(t)' = Final(t) /\ Content(t)' = Content(t)
          /\ Managed' = Managed
      BY <2>1, Untouched
    <3>6. b.at \in Changing => a.at \in Changing
      BY <3>1 DEF Changing, Removing
    <3>7. Settled(b)'
      BY <2>1, <2>4, <3>2, <3>5, <3>6 DEF Holds, Settled
    <3>8. Removes(b)'
      BY <2>1, <2>4, <3>1, <3>2, <3>3 DEF Holds, Removes, Removing, Restoring
    <3>9. Saw(b)' /\ Installs(b)' /\ ReadBack(b)'
      BY <3>1 DEF Saw, Installs, ReadBack
    <3>10. QED
      BY <2>1, <3>2, <3>3, <3>4, <3>7, <3>8, <3>9 DEF Holds
  <2>5. QED
    BY <1>1, <2>1, <2>2, <2>3, <2>4, Moves
<1>4. QED
  BY <1>2, <1>3

LEMMA RestoredKeeps ==
    ASSUME FilesInv, Restored
    PROVE  FilesInv'
<1>1. prog # <<>> /\ Head(prog).do = "restored" /\ ModeFits /\ Shaped /\ InOrder /\ report = "none"
  BY Stage DEF Restored, Doing
<1>2. /\ UNCHANGED <<files, source, mode, seen, admitted, done, wrote, moved, recent, late>>
      /\ prog' = <<>> /\ report' = "error" /\ note' = "restored"
  BY DEF Restored, worktree, past
<1>3. Shaped'
  BY <1>1, <1>2 DEF Shaped
<1>4. InOrder'
  BY <1>1, <1>2, InOrderStays DEF Content
<1>5. Underway' /\ AppliedIsReal'
  BY <1>2 DEF Underway, AppliedIsReal
<1>6. QED
  BY <1>3, <1>4, <1>5 DEF FilesInv

\* The changes are reported as applied only when every target was read back.
LEMMA EndKeeps ==
    ASSUME FilesInv, End
    PROVE  FilesInv'
<1>1. prog # <<>> /\ Head(prog).do = "end" /\ ModeFits /\ Shaped /\ InOrder /\ report = "none"
  BY Stage DEF End, Doing
<1>2. /\ UNCHANGED <<files, source, mode, seen, admitted, done, note, wrote, moved, recent, late>>
      /\ prog' = <<>> /\ report' = On
  BY DEF End, worktree, memory, past
<1>3. Shaped'
  BY <1>1, <1>2 DEF Shaped
<1>4. InOrder'
  BY <1>1, <1>2, InOrderStays DEF Content
<1>5. PICK a \in Phases, b \in Phases : Holds(a) /\ Leads(a, Head(prog), b)
  BY <1>1, Stage
<1>6. \/ a.at = "ready" /\ On = "no change"
      \/ a.at = "reading" /\ On = "applied" /\ a.ok = ManagedIn(a.mode)
  BY <1>1, <1>5 DEF Leads, Staying, Moving, Ends, On
<1>7. Managed = ManagedIn(mode) /\ a.mode = mode
  BY <1>1, <1>5, InMode DEF Holds
<1>8. On = "applied" => Ready
  BY <1>5, <1>6, <1>7 DEF Holds, ReadBack, Ready
<1>9. /\ \A t : Final(t)' = Final(t) /\ Content(t)' = Content(t)
      /\ Managed' = Managed
  BY <1>2, Untouched
<1>10. AppliedIsReal'
  BY <1>2, <1>8, <1>9 DEF AppliedIsReal, Ready
<1>11. Underway'
  BY <1>2 DEF Underway
<1>12. QED
  BY <1>3, <1>4, <1>10, <1>11 DEF FilesInv

\* A name leads to another file.
LEMMA PutIs ==
    ASSUME Shaped, NEW n \in FileNames, NEW f, f = [id |-> f.id, content |-> f.content],
           files' = [files EXCEPT ![n] = f], seen' = seen
    PROVE  /\ Shaped' /\ files'[n] = f
           /\ \A m \in FileNames : m # n => files'[m] = files[m]
<1>1. files = [m \in FileNames |-> files[m]]
  BY DEF Shaped
<1>2. files'[n] = f /\ \A m \in FileNames : m # n => files'[m] = files[m]
  BY <1>1
<1>3. files' = [m \in FileNames |-> files'[m]]
  BY <1>1
<1>4. (\A m \in FileNames : files[m] = [id |-> files[m].id, content |-> files[m].content])'
  BY <1>2 DEF Shaped
<1>5. (seen = [t \in Targets |-> seen[t]])'
  BY DEF Shaped
<1>6. QED
  BY <1>2, <1>3, <1>4, <1>5 DEF Shaped

\* A file gets another name.
LEMMA RenameIs ==
    ASSUME Shaped, NEW n \in FileNames, NEW m \in FileNames, n # m,
           files' = [[files EXCEPT ![n] = files[m]] EXCEPT ![m] = Nothing], seen' = seen
    PROVE  /\ Shaped' /\ files'[n] = files[m] /\ files'[m] = Nothing
           /\ \A k \in FileNames : k \notin {n, m} => files'[k] = files[k]
<1>1. files = [k \in FileNames |-> files[k]]
  BY DEF Shaped
<1>2. /\ files'[n] = files[m] /\ files'[m] = Nothing
      /\ \A k \in FileNames : k \notin {n, m} => files'[k] = files[k]
  BY <1>1
<1>3. files' = [k \in FileNames |-> files'[k]]
  BY <1>1
<1>4. (\A k \in FileNames : files[k] = [id |-> files[k].id, content |-> files[k].content])'
  BY <1>2 DEF Shaped, Nothing
<1>5. (seen = [t \in Targets |-> seen[t]])'
  BY DEF Shaped
<1>6. QED
  BY <1>2, <1>3, <1>4, <1>5 DEF Shaped

LEMMA NewFileIs ==
    ASSUME NEW n, NEW content
    PROVE  /\ NewFile(n, content) = [id |-> NewFile(n, content).id, content |-> NewFile(n, content).content]
           /\ NewFile(n, content).content = content
  BY DEF NewFile

LEMMA WriteTempKeeps ==
    ASSUME FilesInv, WriteTemp
    PROVE  FilesInv'
<1>1. prog # <<>> /\ Head(prog).do = "write" /\ ModeFits /\ Shaped /\ InOrder /\ report = "none"
  BY Stage DEF WriteTemp, Doing
<1>2. /\ UNCHANGED <<source, mode, report, seen, admitted, done, wrote, moved, late>>
      /\ prog' = Tail(prog) /\ note' = "temp" /\ recent' = {}
  BY DEF WriteTemp, Changed
<1>3. /\ Shaped' /\ Content("temp")' = "canonical"
      /\ \A m \in FileNames : m # "temp" => files'[m] = files[m]
  <2>1. PICK f : f = NewFile(On, "canonical")
    OBVIOUS
  <2>2. f = [id |-> f.id, content |-> f.content] /\ f.content = "canonical"
    BY <2>1, NewFileIs
  <2>3. files' = [files EXCEPT !["temp"] = f]
    BY <2>1 DEF WriteTemp, Changed, WithFile
  <2>4. "temp" \in FileNames
    BY DEF FileNames
  <2>5. QED
    BY <1>1, <1>2, <2>2, <2>3, <2>4, PutIs DEF Content
<1>4. /\ \A t \in Targets : Final(t)' = Final(t) /\ Content(t)' = Content(t)
      /\ Managed' = Managed /\ Managed \subseteq Targets
  BY <1>2, <1>3 DEF Final, Content, Managed, FileNames, Targets
<1>5. InOrder'
  BY <1>1, <1>2, <1>4, InOrderStays
<1>6. ASSUME NEW a \in Phases, NEW b \in Phases, Holds(a), Leads(a, Head(prog), b)
      PROVE  Holds(b)'
  <2>1. /\ a.at = "ready" /\ On \in ManagedIn(a.mode) /\ FinalIn(a.mode, On) = "canonical"
        /\ Fits(a.mode, On, a.ok) /\ b = In(a.mode, "written", On, a.ok)
    BY <1>1, <1>6 DEF Leads, Staying, Moving, Ends, On
  <2>2. b.at = "written" /\ b.mode = a.mode /\ b.ok = a.ok /\ b.on = On
    BY <2>1 DEF In
  <2>3. a.mode = mode /\ note = NoteIn(a.at) /\ wrote = done \cup Owed(a)
    BY <1>6 DEF Holds
  <2>4. On \in Managed /\ Final(On) = "canonical"
    BY <1>1, <1>4, <2>1, <2>3, InMode
  <2>5. note' = NoteIn(b.at) /\ wrote' = done' \cup Owed(b)
    BY <1>2, <2>1, <2>2, <2>3 DEF NoteIn, Restoring, Owed
  <2>6. Settled(b)'
    BY <1>2, <1>4, <1>6, <2>1, <2>2 DEF Holds, Settled, Changing
  <2>7. Installs(b)'
    BY <1>2, <1>3, <1>4, <2>1, <2>2, <2>3, <2>4 DEF Installs
  <2>8. Saw(b)' /\ Removes(b)' /\ ReadBack(b)'
    BY <2>2 DEF Saw, Removes, ReadBack, Removing, Restoring
  <2>9. QED
    BY <1>2, <2>2, <2>3, <2>5, <2>6, <2>7, <2>8 DEF Holds
<1>7. QED
  BY <1>1, <1>2, <1>3, <1>5, <1>6, Moves

\* What a change has to find: what comes before it is as planned.
LEMMA Earlier ==
    ASSUME NEW a \in Phases, Holds(a), a.at \in Changing, ModeFits,
           NEW t \in Targets, Fits(mode, t, a.ok)
    PROVE  /\ t # "codeowners" /\ ~source => AsPlanned("codeowners")
           /\ t \in {"verifier", "controller"} /\ mode = "bridge" => AsPlanned("bridge")
           /\ t = "bridge" /\ mode = "remove" => \A u \in Targets \ {"bridge"} : AsPlanned(u)
<1>1. \A u \in Managed : u \in a.ok => AsPlanned(u)
  <2>1. \A u \in Managed : u \in Targets
    BY DEF Managed, Targets
  <2>2. QED
    BY <2>1 DEF Holds, Settled, AsPlanned
<1>2. ~source => Managed = Targets
  BY DEF Managed
<1>3. QED
  BY <1>1, <1>2 DEF Fits, ModeFits, Targets

LEMMA InstallKeeps ==
    ASSUME FilesInv, Install
    PROVE  FilesInv'
<1>1. prog # <<>> /\ Head(prog).do = "install" /\ ModeFits /\ Shaped /\ InOrder /\ report = "none"
  BY Stage DEF Install, Doing
<1>2. /\ UNCHANGED <<source, mode, report, seen, admitted, done, moved>>
      /\ prog' = Tail(prog) /\ note' = "renamed" /\ wrote' = wrote \cup {On}
  BY DEF Install, Changed
<1>3. PICK n : n = On
  OBVIOUS
<1>4. ASSUME NEW a \in Phases, NEW b \in Phases, Holds(a), Leads(a, Head(prog), b)
      PROVE  /\ a.at = "compared" /\ n = a.on /\ b = In(a.mode, "installed", a.on, a.ok)
             /\ a.mode = mode /\ note = NoteIn(a.at) /\ wrote = done \cup Owed(a)
             /\ Content("temp") = "canonical" /\ n \in Managed
             /\ Final(n) = "canonical" /\ Fits(mode, n, a.ok)
  <2>1. a.at = "compared" /\ n = a.on /\ b = In(a.mode, "installed", a.on, a.ok)
    BY <1>1, <1>3, <1>4 DEF Leads, Staying, Moving, Ends, On
  <2>2. QED
    BY <1>4, <2>1 DEF Holds, Installs
<1>5. PICK a0 \in Phases, b0 \in Phases : Holds(a0) /\ Leads(a0, Head(prog), b0)
  BY <1>1, Stage
<1>6. n \in Managed /\ Managed \subseteq Targets /\ n \in Targets
  BY <1>4, <1>5 DEF Managed, Targets
<1>7. /\ Shaped' /\ files'[n] = files["temp"]
      /\ \A m \in FileNames : m \notin {n, "temp"} => files'[m] = files[m]
  <2>1. n \in FileNames /\ "temp" \in FileNames /\ n # "temp"
    BY <1>6 DEF FileNames, Targets
  <2>2. files' = [[files EXCEPT ![n] = files["temp"]] EXCEPT !["temp"] = Nothing]
    BY <1>3 DEF Install, Changed, WithFile
  <2>3. QED
    BY <1>1, <1>2, <2>1, <2>2, RenameIs
<1>8. /\ \A t \in Targets : Final(t)' = Final(t) /\ (t # n => Content(t)' = Content(t))
      /\ Managed' = Managed
  BY <1>2, <1>7 DEF Final, Content, Managed, FileNames, Targets
<1>9. Content(n)' = Final(n) /\ Final(n) = "canonical"
  BY <1>4, <1>5, <1>7 DEF Content
<1>10. InOrder'
  <2>1. /\ n # "codeowners" /\ ~source => AsPlanned("codeowners")
        /\ n \in {"verifier", "controller"} /\ mode = "bridge" => AsPlanned("bridge")
    <3>1. a0.at \in Changing /\ Fits(mode, n, a0.ok)
      BY <1>4, <1>5 DEF Changing
    <3>2. QED
      BY <1>1, <1>5, <1>6, <3>1, Earlier
  <2>2. \A t \in Targets : AsPlanned(t) => AsPlanned(t)'
    BY <1>2, <1>8, <1>9 DEF AsPlanned
  <2>3. AsPlanned(n)'
    BY <1>6, <1>8, <1>9 DEF AsPlanned
  <2>4. n = "bridge" => mode = "bridge"
    BY <1>9 DEF Final
  <2>5. (wrote \subseteq {"codeowners"} \/ source \/ AsPlanned("codeowners"))'
    BY <1>1, <1>2, <1>3, <2>1, <2>2, <2>3 DEF InOrder, Targets
  <2>6. (mode = "bridge" /\ wrote \cap {"verifier", "controller"} # {} => AsPlanned("bridge"))'
    BY <1>1, <1>2, <1>3, <2>1, <2>2, <2>3 DEF InOrder, Targets
  <2>7. (mode = "remove" /\ "bridge" \in wrote => \A t \in Targets \ {"bridge"} : AsPlanned(t))'
    BY <1>1, <1>2, <1>3, <2>2, <2>4 DEF InOrder, Targets
  <2>8. QED
    BY <2>5, <2>6, <2>7 DEF InOrder
<1>11. ASSUME NEW a \in Phases, NEW b \in Phases, Holds(a), Leads(a, Head(prog), b)
       PROVE  Holds(b)'
  <2>1. /\ a.at = "compared" /\ n = a.on /\ b = In(a.mode, "installed", a.on, a.ok)
        /\ a.mode = mode /\ note = NoteIn(a.at) /\ wrote = done \cup Owed(a)
    BY <1>4, <1>11
  <2>2. b.at = "installed" /\ b.mode = a.mode /\ b.ok = a.ok /\ b.on = n
    BY <2>1 DEF In
  <2>3. note' = NoteIn(b.at) /\ wrote' = done' \cup Owed(b)
    BY <1>2, <1>3, <2>1, <2>2 DEF NoteIn, Restoring, Owed
  <2>4. Settled(b)'
    <3>1. a.at \in Changing
      BY <2>1 DEF Changing
    <3>2. /\ done \subseteq a.ok
          /\ \A t \in Managed : t \in a.ok => t \in wrote \/ seen[t] = Final(t)
          /\ \A t \in Managed : t \notin a.ok => seen[t] # Final(t)
          /\ \A t \in Targets : t \in wrote => Content(t) = Final(t) \/ t \in moved
          /\ \A t \in Managed : seen[t] = Final(t) => Content(t) = Final(t) \/ t \in moved
          /\ mode # "bridge" => seen["bridge"] \in {"nothing", "canonical"}
      BY <1>11, <3>1 DEF Holds, Settled
    <3>3. \A t \in Targets : t = n \/ Content(t)' = Content(t)
      BY <1>8
    <3>4. (\A t \in Targets : t \in wrote => Content(t) = Final(t) \/ t \in moved)'
      BY <1>2, <1>3, <1>6, <1>8, <1>9, <3>2, <3>3
    <3>5. (\A t \in Managed : seen[t] = Final(t) => Content(t) = Final(t) \/ t \in moved)'
      BY <1>2, <1>6, <1>8, <1>9, <3>2, <3>3
    <3>6. QED
      BY <1>2, <1>6, <1>8, <2>2, <3>2, <3>4, <3>5 DEF Settled
  <2>5. Saw(b)' /\ Installs(b)' /\ Removes(b)' /\ ReadBack(b)'
    BY <2>2 DEF Saw, Installs, Removes, ReadBack, Removing, Restoring
  <2>6. QED
    BY <1>2, <2>1, <2>2, <2>3, <2>4, <2>5 DEF Holds
<1>12. QED
  BY <1>1, <1>2, <1>7, <1>10, <1>11, Moves

\* The bridge goes into quarantine.
LEMMA RenameKeeps ==
    ASSUME FilesInv, Rename
    PROVE  FilesInv'
<1>1. prog # <<>> /\ Head(prog).do = "rename" /\ ModeFits /\ Shaped /\ InOrder /\ report = "none"
  BY Stage DEF Rename, Doing
<1>2. CASE Throw
  BY <1>1, <1>2, ThrowKeeps
<1>3. CASE ~Throw
  <2>1. /\ UNCHANGED <<source, mode, report, seen, admitted, done, moved>>
        /\ prog' = Tail(prog) /\ note' = "unverified" /\ wrote' = wrote \cup {"bridge"}
        /\ files["bridge"] # Nothing
        /\ files' = [[files EXCEPT !["quarantine"] = files["bridge"]] EXCEPT !["bridge"] = Nothing]
    BY <1>3 DEF Rename, Changed, WithFile
  <2>2. /\ Shaped' /\ files'["quarantine"] = files["bridge"] /\ files'["bridge"] = Nothing
        /\ \A m \in FileNames : m \notin {"quarantine", "bridge"} => files'[m] = files[m]
    <3>1. "quarantine" \in FileNames /\ "bridge" \in FileNames
      BY DEF FileNames, Targets
    <3>2. QED
      BY <1>1, <2>1, <3>1, RenameIs
  <2>3. /\ \A t \in Targets : Final(t)' = Final(t) /\ (t # "bridge" => Content(t)' = Content(t))
        /\ Managed' = Managed /\ Managed \subseteq Targets /\ "bridge" \in Targets
    BY <2>1, <2>2 DEF Final, Content, Managed, FileNames, Targets
  <2>4. ASSUME NEW a \in Phases, NEW b \in Phases, Holds(a), Leads(a, Head(prog), b)
        PROVE  /\ a.at = "prepared" /\ b = In(a.mode, "away", "bridge", a.ok) /\ a.mode = mode
               /\ wrote = done \cup Owed(a) /\ a.at \in Changing
               /\ mode # "bridge" /\ "bridge" \notin a.ok /\ Fits(mode, "bridge", a.ok)
    <3>1. a.at = "prepared" /\ b = In(a.mode, "away", "bridge", a.ok)
      BY <1>1, <2>4 DEF Leads, Staying, Moving, Ends
    <3>2. QED
      BY <2>4, <3>1 DEF Holds, Removes, Removing, Changing
  <2>5. PICK a0 \in Phases, b0 \in Phases : Holds(a0) /\ Leads(a0, Head(prog), b0)
    BY <1>1, Stage
  <2>6. Content("bridge")' = Final("bridge")
    BY <2>2, <2>4, <2>5 DEF Content, Nothing, Final
  <2>7. InOrder'
    <3>1. /\ ~source => AsPlanned("codeowners")
          /\ mode = "remove" => \A t \in Targets \ {"bridge"} : AsPlanned(t)
      BY <1>1, <2>3, <2>4, <2>5, Earlier
    <3>2. \A t \in Targets : AsPlanned(t) => AsPlanned(t)'
      BY <2>1, <2>3, <2>6 DEF AsPlanned
    <3>3. mode # "bridge"
      BY <2>4, <2>5
    <3>4. QED
      BY <2>1, <3>1, <3>2, <3>3 DEF InOrder, Targets
  <2>8. ASSUME NEW a \in Phases, NEW b \in Phases, Holds(a), Leads(a, Head(prog), b)
        PROVE  Holds(b)'
    <3>1. /\ a.at = "prepared" /\ b = In(a.mode, "away", "bridge", a.ok) /\ a.mode = mode
          /\ wrote = done \cup Owed(a) /\ a.at \in Changing
          /\ mode # "bridge" /\ "bridge" \notin a.ok /\ Fits(mode, "bridge", a.ok)
      BY <2>4, <2>8
    <3>2. b.at = "away" /\ b.mode = a.mode /\ b.ok = a.ok /\ b.on = "bridge"
      BY <3>1 DEF In
    <3>3. note' = NoteIn(b.at) /\ wrote' = done' \cup Owed(b)
      BY <2>1, <3>1, <3>2 DEF NoteIn, Restoring, Owed
    <3>4. Settled(b)'
      <4>1. /\ done \subseteq a.ok
            /\ \A t \in Managed : t \in a.ok => t \in wrote \/ seen[t] = Final(t)
            /\ \A t \in Managed : t \notin a.ok => seen[t] # Final(t)
            /\ \A t \in Targets : t \in wrote => Content(t) = Final(t) \/ t \in moved
            /\ \A t \in Managed : seen[t] = Final(t) => Content(t) = Final(t) \/ t \in moved
            /\ mode # "bridge" => seen["bridge"] \in {"nothing", "canonical"}
        BY <2>8, <3>1 DEF Holds, Settled
      <4>2. (\A t \in Targets : t \in wrote => Content(t) = Final(t) \/ t \in moved)'
        BY <2>1, <2>3, <2>6, <4>1
      <4>3. (\A t \in Managed : seen[t] = Final(t) => Content(t) = Final(t) \/ t \in moved)'
        BY <2>1, <2>3, <2>6, <4>1
      <4>4. QED
        BY <2>1, <2>3, <3>2, <4>1, <4>2, <4>3 DEF Settled
    <3>5. Removes(b)'
      BY <2>1, <2>2, <3>1, <3>2 DEF Removes, Restoring
    <3>6. Saw(b)' /\ Installs(b)' /\ ReadBack(b)'
      BY <3>2 DEF Saw, Installs, ReadBack
    <3>7. QED
      BY <2>1, <3>1, <3>2, <3>3, <3>4, <3>5, <3>6 DEF Holds
  <2>9. QED
    BY <1>1, <2>1, <2>2, <2>7, <2>8, Moves
<1>4. QED
  BY <1>2, <1>3

LEMMA UnlinkKeeps ==
    ASSUME FilesInv, Unlink
    PROVE  FilesInv'
<1>1. prog # <<>> /\ Head(prog).do = "unlink" /\ ModeFits /\ Shaped /\ InOrder /\ report = "none"
  BY Stage DEF Unlink, Doing
<1>2. CASE Throw
  BY <1>1, <1>2, ThrowKeeps
<1>3. CASE ~Throw
  <2>1. /\ UNCHANGED <<source, mode, report, seen, admitted, done, wrote, moved>>
        /\ prog' = Tail(prog) /\ note' = IF note = "quarantined" THEN "unlinked" ELSE note
        /\ files' = [files EXCEPT !["quarantine"] = Nothing]
    BY <1>3 DEF Unlink, Changed, WithFile
  <2>2. /\ Shaped' /\ files'["quarantine"] = Nothing
        /\ \A m \in FileNames : m # "quarantine" => files'[m] = files[m]
    <3>1. "quarantine" \in FileNames
      BY DEF FileNames
    <3>2. PICK f : f = Nothing
      OBVIOUS
    <3>3. f = [id |-> f.id, content |-> f.content]
      BY <3>2 DEF Nothing
    <3>4. QED
      BY <1>1, <2>1, <3>1, <3>2, <3>3, PutIs
  <2>3. /\ \A t \in Targets : Final(t)' = Final(t) /\ Content(t)' = Content(t)
        /\ Managed' = Managed /\ Managed \subseteq Targets
    BY <2>1, <2>2 DEF Final, Content, Managed, FileNames, Targets
  <2>4. InOrder'
    BY <1>1, <2>1, <2>3, InOrderStays
  <2>5. ASSUME NEW a \in Phases, NEW b \in Phases, Holds(a), Leads(a, Head(prog), b)
        PROVE  Holds(b)'
    <3>1. /\ b = In(a.mode, b.at, "bridge", a.ok)
          /\ \/ a.at = "checked" /\ b.at = "unlinked"
             \/ a.at = "twice" /\ b.at = "single"
      BY <1>1, <2>5 DEF Leads, Staying, Moving, Ends
    <3>2. b.mode = a.mode /\ b.ok = a.ok /\ b.on = "bridge"
      BY <3>1 DEF In
    <3>3. a.mode = mode /\ note = NoteIn(a.at) /\ wrote = done \cup Owed(a)
      BY <2>5 DEF Holds
    <3>4. note' = NoteIn(b.at) /\ wrote' = done' \cup Owed(b)
      BY <2>1, <3>1, <3>3 DEF NoteIn, Restoring, Owed
    <3>5. b.at \in Changing => a.at \in Changing
      BY <3>1 DEF Changing, Removing
    <3>6. Settled(b)'
      BY <2>1, <2>3, <2>5, <3>2, <3>5 DEF Holds, Settled
    <3>7. Removes(b)'
      BY <2>1, <2>2, <2>5, <3>1, <3>2, <3>3 DEF Holds, Removes, Removing, Restoring
    <3>8. Saw(b)' /\ Installs(b)' /\ ReadBack(b)'
      BY <3>1 DEF Saw, Installs, ReadBack
    <3>9. QED
      BY <2>1, <3>2, <3>3, <3>4, <3>6, <3>7, <3>8 DEF Holds
  <2>6. QED
    BY <1>1, <2>1, <2>2, <2>4, <2>5, Moves
<1>4. QED
  BY <1>2, <1>3

LEMMA LinkKeeps ==
    ASSUME FilesInv, Link
    PROVE  FilesInv'
<1>1. prog # <<>> /\ Head(prog).do = "link" /\ ModeFits /\ Shaped /\ InOrder /\ report = "none"
  BY Stage DEF Link, Doing
<1>2. CASE Throw
  BY <1>1, <1>2, ThrowKeeps
<1>3. CASE ~Throw
  <2>1. /\ UNCHANGED <<source, mode, report, seen, admitted, done, moved, note>>
        /\ prog' = Tail(prog) /\ wrote' = wrote \ {"bridge"}
        /\ files' = [files EXCEPT !["bridge"] = files["quarantine"]]
    BY <1>3 DEF Link, Changed, WithFile
  <2>2. /\ Shaped'
        /\ \A m \in FileNames : m # "bridge" => files'[m] = files[m]
    <3>1. "quarantine" \in FileNames /\ "bridge" \in FileNames
      BY DEF FileNames, Targets
    <3>2. PICK f : f = files["quarantine"]
      OBVIOUS
    <3>3. f = [id |-> f.id, content |-> f.content]
      BY <1>1, <3>1, <3>2 DEF Shaped
    <3>4. QED
      BY <1>1, <2>1, <3>1, <3>2, <3>3, PutIs
  <2>3. ASSUME NEW a \in Phases, NEW b \in Phases, Holds(a), Leads(a, Head(prog), b)
        PROVE  /\ a.at = "restoring" /\ b = In(a.mode, "linked", "bridge", a.ok)
               /\ a.mode = mode /\ note = NoteIn(a.at) /\ wrote = done \cup Owed(a)
               /\ mode # "bridge" /\ seen["bridge"] = "canonical" /\ "bridge" \notin done
    <3>1. a.at = "restoring" /\ b = In(a.mode, "linked", "bridge", a.ok)
      BY <1>1, <2>3 DEF Leads, Staying, Moving, Ends
    <3>2. QED
      BY <2>3, <3>1 DEF Holds, Removes
  <2>4. mode # "bridge"
    BY <1>1, <2>3, Stage
  <2>5. \A t \in Targets : Content(t)' = Content(t) \/ (t = "bridge" /\ mode # "bridge")
    BY <2>2, <2>4 DEF Content, FileNames
  <2>6. InOrder'
    BY <1>1, <2>1, <2>5, InOrderStays
  <2>7. ASSUME NEW a \in Phases, NEW b \in Phases, Holds(a), Leads(a, Head(prog), b)
        PROVE  Holds(b)'
    <3>1. /\ a.at = "restoring" /\ b = In(a.mode, "linked", "bridge", a.ok)
          /\ a.mode = mode /\ note = NoteIn(a.at) /\ wrote = done \cup Owed(a)
          /\ mode # "bridge" /\ seen["bridge"] = "canonical" /\ "bridge" \notin done
      BY <2>3, <2>7
    <3>2. b.at = "linked" /\ b.mode = a.mode
      BY <3>1 DEF In
    <3>3. note' = NoteIn(b.at) /\ wrote' = done' \cup Owed(b)
      BY <2>1, <3>1, <3>2 DEF NoteIn, Restoring, Owed
    <3>4. Removes(b)'
      BY <2>1, <3>1, <3>2 DEF Removes, Removing
    <3>5. Saw(b)' /\ Settled(b)' /\ Installs(b)' /\ ReadBack(b)'
      BY <3>2 DEF Saw, Settled, Installs, ReadBack, Changing, Removing
    <3>6. QED
      BY <2>1, <3>1, <3>2, <3>3, <3>4, <3>5 DEF Holds
  <2>8. QED
    BY <1>1, <2>1, <2>2, <2>6, <2>7, Moves
<1>4. QED
  BY <1>2, <1>3

-----------------------------------------------------------------------------
(* The worktree: others, kills, and the user.                              *)

\* Others change the files of these names.
LEMMA DisturbedKeeps ==
    ASSUME FilesInv, NEW names, names \subseteq Editable \cup {"origin"}, OthersChange(names), Shaped',
           files["quarantine"] = Nothing => files'["quarantine"] = Nothing,
           \A n \in FileNames : n \notin names => files'[n] = files[n]
    PROVE  FilesInv'
<1>1. /\ UNCHANGED <<source, mode, prog, seen, admitted, done, note, report, wrote>>
      /\ moved' = moved \cup names /\ recent' = recent \cup names /\ late' = late \cup names
  BY DEF OthersChange, memory
<1>2. /\ \A t : Final(t)' = Final(t)
      /\ Managed' = Managed /\ Managed \subseteq Targets
  BY <1>1 DEF Final, Managed, Targets
<1>3. /\ \A t \in Targets : Content(t)' = Content(t) \/ t \in names
      /\ Content("temp")' = Content("temp")
      /\ \A n \in {"bridge", "quarantine"} : files'[n] = files[n] \/ n \in names
  BY DEF Content, FileNames, Targets, Editable
<1>4. InOrder'
  <2>1. InOrder
    BY DEF FilesInv
  <2>2. QED
    BY <1>1, <1>3, <2>1, InOrderStays
<1>5. AppliedIsReal'
  BY <1>1, <1>2, <1>3 DEF FilesInv, AppliedIsReal, Ready
<1>6. files["quarantine"] = Nothing => files'["quarantine"] = Nothing
  OBVIOUS
<1>7. ASSUME NEW a \in Phases, Holds(a)
      PROVE  Holds(a)'
  <2>1. a.on \in Targets /\ a.ok \subseteq Targets
    BY DEF Phases
  <2>2. a.mode = mode' /\ note' = NoteIn(a.at) /\ wrote' = done' \cup Owed(a)
    BY <1>1, <1>7 DEF Holds
  <2>3. Saw(a)'
    BY <1>1, <1>3, <1>7, <2>1 DEF Holds, Saw
  <2>4. Settled(a)'
    <3>1. CASE a.at \in Changing
      <4>1. /\ done \subseteq a.ok
            /\ \A t \in Managed : t \in a.ok => t \in wrote \/ seen[t] = Final(t)
            /\ \A t \in Managed : t \notin a.ok => seen[t] # Final(t)
            /\ \A t \in Targets : t \in wrote => Content(t) = Final(t) \/ t \in moved
            /\ \A t \in Managed : seen[t] = Final(t) => Content(t) = Final(t) \/ t \in moved
            /\ mode # "bridge" => seen["bridge"] \in {"nothing", "canonical"}
        BY <1>7, <3>1 DEF Holds, Settled
      <4>2. (\A t \in Targets : t \in wrote => Content(t) = Final(t) \/ t \in moved)'
        BY <1>1, <1>2, <1>3, <4>1
      <4>3. (\A t \in Managed : seen[t] = Final(t) => Content(t) = Final(t) \/ t \in moved)'
        BY <1>1, <1>2, <1>3, <4>1
      <4>4. QED
        BY <1>1, <1>2, <4>1, <4>2, <4>3 DEF Settled
    <3>2. CASE a.at \notin Changing
      BY <3>2 DEF Settled
    <3>3. QED
      BY <3>1, <3>2
  <2>5. Installs(a)'
    BY <1>1, <1>2, <1>3, <1>7, <2>1 DEF Holds, Installs
  <2>6. Removes(a)'
    <3>1. \A n \in {"bridge", "quarantine"} : Admitted(n) => Admitted(n)'
      BY <1>1, <1>3 DEF Admitted
    <3>2. files["quarantine"] # Nothing \/ "quarantine" \in moved =>
             files'["quarantine"] # Nothing \/ "quarantine" \in moved'
      BY <1>1, <1>3
    <3>3. QED
      BY <1>1, <1>6, <1>7, <3>1, <3>2 DEF Holds, Removes
  <2>7. ReadBack(a)'
    BY <1>1, <1>2, <1>3, <1>7, <2>1 DEF Holds, ReadBack
  <2>8. QED
    BY <2>2, <2>3, <2>4, <2>5, <2>6, <2>7 DEF Holds
<1>8. Underway'
  <2>1. SUFFICES ASSUME prog' # <<>>
                 PROVE  /\ report' = "none" /\ mode' \in Modes /\ (source' <=> mode' = "source")
                        /\ \E a \in Phases : Path(prog', a, Over(mode')) /\ Holds(a)'
    BY DEF Underway
  <2>2. /\ report = "none" /\ mode \in Modes /\ (source <=> mode = "source")
        /\ \E a \in Phases : Path(prog, a, Over(mode)) /\ Holds(a)
    BY <1>1, <2>1 DEF FilesInv, Underway
  <2>3. PICK a \in Phases : Path(prog, a, Over(mode)) /\ Holds(a)
    BY <2>2
  <2>4. Holds(a)'
    BY <1>7, <2>3
  <2>5. QED
    BY <1>1, <2>2, <2>3, <2>4
<1>9. QED
  BY <1>4, <1>5, <1>8 DEF FilesInv

\* Others leave no file in a quarantine that has none.
LEMMA QuarantineStands ==
    ASSUME Shaped, NEW n \in Editable, Edit(n) \/ Replace(n), files["quarantine"] = Nothing
    PROVE  files'["quarantine"] = Nothing
<1>1. "quarantine" \in FileNames /\ files = [m \in FileNames |-> files[m]]
  BY DEF FileNames, Shaped
<1>2. CASE Edit(n)
  BY <1>1, <1>2 DEF Edit
<1>3. CASE Replace(n)
  <2>1. PICK f : files' = WithFile(n, f)
    BY <1>3 DEF Replace
  <2>2. n # "quarantine"
    BY <1>3 DEF Replace
  <2>3. QED
    BY <1>1, <2>1, <2>2 DEF WithFile
<1>4. QED
  BY <1>2, <1>3

LEMMA EditFileKeeps ==
    ASSUME FilesInv, NEW n \in Editable, Edit(n)
    PROVE  FilesInv'
<1> DEFINE same == {m \in {"bridge", "quarantine"} : files[m] # Nothing /\ files[m].id = files[n].id}
<1>1. /\ files' = [m \in FileNames |-> IF m \in same THEN [files[m] EXCEPT !.content = "foreign"]
                                       ELSE files[m]]
      /\ OthersChange(same)
  BY DEF Edit
<1>2. same \subseteq Editable \cup {"origin"}
  BY DEF Editable, FileNames, Targets
<1>3. Shaped
  BY DEF FilesInv
<1>4. seen' = seen
  BY <1>1 DEF OthersChange, memory
<1> HIDE DEF same
<1>5. /\ \A m \in FileNames : m \notin same => files'[m] = files[m]
      /\ files' = [m \in FileNames |-> files'[m]]
  BY <1>1
<1>6. ASSUME NEW m \in FileNames
      PROVE  files'[m] = [id |-> files'[m].id, content |-> files'[m].content]
  <2>1. files[m] = [id |-> files[m].id, content |-> files[m].content]
    BY <1>3 DEF Shaped
  <2>2. CASE m \in same
    <3>1. files'[m] = [files[m] EXCEPT !.content = "foreign"]
      BY <1>1, <2>2
    <3>2. QED
      BY <2>1, <3>1
  <2>3. CASE m \notin same
    BY <1>5, <2>1, <2>3
  <2>4. QED
    BY <2>2, <2>3
<1>7. Shaped'
  BY <1>3, <1>4, <1>5, <1>6 DEF Shaped
<1>8. PICK names : names = same
  OBVIOUS
<1>9. files["quarantine"] = Nothing => files'["quarantine"] = Nothing
  BY <1>3, QuarantineStands
<1>10. QED
  BY <1>1, <1>2, <1>5, <1>7, <1>8, <1>9, DisturbedKeeps

LEMMA ReplaceKeeps ==
    ASSUME FilesInv, NEW n \in Editable, Replace(n)
    PROVE  FilesInv'
<1>1. PICK f : files' = WithFile(n, f) /\ f \in {NewFile(n, "foreign"), NewFile(n, "canonical"), Nothing}
  BY DEF Replace
<1>2. OthersChange({n})
  BY DEF Replace
<1>3. Shaped /\ n \in FileNames /\ {n} \subseteq Editable \cup {"origin"}
  BY DEF FilesInv, Editable
<1>4. f = [id |-> f.id, content |-> f.content]
  <2>1. CASE f = Nothing
    BY <2>1 DEF Nothing
  <2>2. CASE f = NewFile(n, "foreign") \/ f = NewFile(n, "canonical")
    BY <2>2, NewFileIs
  <2>3. QED
    BY <1>1, <2>1, <2>2
<1>5. /\ Shaped' /\ \A m \in FileNames : m # n => files'[m] = files[m]
  <2>1. seen' = seen
    BY <1>2 DEF OthersChange, memory
  <2>2. files' = [files EXCEPT ![n] = f]
    BY <1>1 DEF WithFile
  <2>3. QED
    BY <1>3, <1>4, <2>1, <2>2, PutIs
<1>6. files["quarantine"] = Nothing => files'["quarantine"] = Nothing
  BY <1>3, QuarantineStands
<1>7. QED
  BY <1>2, <1>3, <1>5, <1>6, DisturbedKeeps

\* The helper stops where it is, or is not at work.
LEMMA StopKeeps ==
    ASSUME FilesInv, prog' = <<>>, report' = report,
           UNCHANGED <<files, source, mode, seen, admitted, done, wrote, moved, recent, late>>
    PROVE  FilesInv'
<1>1. Shaped /\ InOrder /\ AppliedIsReal
  BY DEF FilesInv
<1>2. Shaped'
  BY <1>1 DEF Shaped
<1>3. InOrder'
  BY <1>1, InOrderStays DEF Content
<1>4. AppliedIsReal'
  BY <1>1, Untouched DEF AppliedIsReal, Ready
<1>5. Underway'
  BY DEF Underway
<1>6. QED
  BY <1>2, <1>3, <1>4, <1>5 DEF FilesInv

LEMMA FilesOthersKeep ==
    ASSUME FilesInv, Others
    PROVE  FilesInv'
<1>1. CASE \E n \in Editable : Edit(n) \/ Replace(n)
  BY <1>1, EditFileKeeps, ReplaceKeeps
<1>2. CASE Retarget
  <2>1. OthersChange({"origin"}) /\ files' = files
    BY <1>2 DEF Retarget
  <2>2. Shaped'
    BY <2>1 DEF FilesInv, Shaped, OthersChange, memory
  <2>3. QED
    BY <2>1, <2>2, DisturbedKeeps
<1>3. CASE Tidy
  BY <1>3, StopKeeps DEF Tidy, memory, past
<1>4. CASE Fault
  BY <1>4, ThrowKeeps DEF Fault
<1>5. CASE Kill
  BY <1>5, StopKeeps DEF Kill, worktree, memory, past
<1>6. QED
  BY <1>1, <1>2, <1>3, <1>4, <1>5 DEF Others

\* The user starts the helper.
LEMMA InvokeKeeps ==
    ASSUME FilesInv, NEW m \in Modes, Invoke(m)
    PROVE  FilesInv'
<1>1. /\ mode' = m /\ (source' <=> m = "source") /\ prog' = Call("start", "all")
      /\ files' = [n \in FileNames |-> IF n \in Targets THEN files[n] ELSE Nothing]
      /\ seen' = [t \in Targets |-> "nothing"] /\ done' = {} /\ note' = "none" /\ report' = "none"
      /\ wrote' = {} /\ moved' = {} /\ recent' = {} /\ late' = {}
  BY DEF Invoke
<1>2. Shaped'
  <2>1. files' = [n \in FileNames |-> files'[n]]
    BY <1>1
  <2>2. ASSUME NEW n \in FileNames
        PROVE  files'[n] = [id |-> files'[n].id, content |-> files'[n].content]
    <3>1. files[n] = [id |-> files[n].id, content |-> files[n].content]
      BY DEF FilesInv, Shaped
    <3>2. files'[n] = files[n] \/ files'[n] = Nothing
      BY <1>1
    <3>3. QED
      BY <3>1, <3>2 DEF Nothing
  <2>3. seen' = [t \in Targets |-> seen'[t]]
    BY <1>1
  <2>4. QED
    BY <2>1, <2>2, <2>3 DEF Shaped
<1>3. InOrder'
  BY <1>1 DEF InOrder
<1>4. PICK x \in Phases : x = In(m, "starting", "bridge", {})
  <2>1. "starting" \in Stages /\ "bridge" \in Targets /\ {} \in SUBSET Targets
    BY DEF Stages, Targets
  <2>2. QED
    BY <2>1, InIs
<1>5. x.at = "starting" /\ x.mode = m /\ x.ok = {}
  BY <1>4 DEF In
<1>6. Holds(x)'
  <2>1. note' = NoteIn(x.at) /\ wrote' = done' \cup Owed(x)
    BY <1>1, <1>5 DEF NoteIn, Restoring, Owed
  <2>2. Saw(x)'
    BY <1>1, <1>5 DEF Saw
  <2>3. Settled(x)' /\ Installs(x)' /\ Removes(x)' /\ ReadBack(x)'
    BY <1>5 DEF Settled, Installs, Removes, ReadBack, Changing, Removing, Restoring
  <2>4. QED
    BY <1>1, <1>5, <2>1, <2>2, <2>3 DEF Holds
<1>7. Path(Call("start", "all"), x, Over(m))
  <2>1. /\ "start" \in Doings /\ "all" \in Objects /\ "bridge" \in Targets /\ "over" \in Stages
        /\ {} \in SUBSET Targets
    BY DEF Doings, Objects, Targets, Stages
  <2>2. Over(m) \in Phases
    BY <2>1, InIs
  <2>3. Leads(x, [do |-> "start", on |-> "all"], Over(m))
    BY <1>5 DEF Leads, Ends
  <2>4. QED
    BY <2>1, <2>2, <2>3, PathCall
<1>8. Underway'
  <2>1. Path(prog', x, Over(mode'))
    BY <1>1, <1>7
  <2>2. QED
    BY <1>1, <1>6, <2>1 DEF Underway
<1>9. AppliedIsReal'
  BY <1>1 DEF AppliedIsReal
<1>10. QED
  BY <1>2, <1>3, <1>8, <1>9 DEF FilesInv

LEMMA FilesInitHolds ==
    ASSUME FilesInit
    PROVE  FilesInv
<1>1. PICK old \in Outdated \cup {{}}, bridge \in BOOLEAN :
          files = [n \in FileNames |->
             CASE n = "bridge" /\ bridge -> [id |-> 1, content |-> "canonical"]
               [] n \in {"temp", "quarantine"} \/ (n = "bridge" /\ ~bridge) -> Nothing
               [] OTHER -> [id |-> 0, content |-> IF n \in old THEN "old" ELSE "canonical"]]
  BY Zenon DEF FilesInit
<1>2. files = [n \in FileNames |-> files[n]]
  BY <1>1
<1>3. ASSUME NEW n \in FileNames
      PROVE  files[n] = [id |-> files[n].id, content |-> files[n].content]
  <2>1. CASE n = "bridge" /\ bridge
    <3>1. files[n] = [id |-> 1, content |-> "canonical"]
      BY <1>1, <2>1
    <3>2. QED
      BY <3>1
  <2>2. CASE n \in {"temp", "quarantine", "bridge"} /\ ~(n = "bridge" /\ bridge)
    <3>1. files[n] = Nothing
      BY <1>1, <2>2
    <3>2. QED
      BY <3>1 DEF Nothing
  <2>3. CASE n \notin {"temp", "quarantine", "bridge"}
    BY <1>1, <2>3
  <2>4. QED
    BY <2>1, <2>2, <2>3
<1>4. Shaped
  BY <1>2, <1>3 DEF FilesInit, Shaped
<1>5. InOrder /\ AppliedIsReal /\ Underway
  BY DEF FilesInit, InOrder, AppliedIsReal, Underway
<1>6. QED
  BY <1>4, <1>5 DEF FilesInv

LEMMA FilesNextKeeps ==
    ASSUME FilesInv, FilesNext
    PROVE  FilesInv'
<1>1. CASE \E m \in {"bridge", "remove", "source"} : Invoke(m)
  BY <1>1, InvokeKeeps DEF Modes
<1>2. CASE Helper
  BY <1>2, PrepareKeeps, SeeKeeps, ListTargetKeeps, ComparisonKeeps, MakePlanKeeps, WriteTempKeeps,
     InstallKeeps, CompletedKeeps, AdmitKeeps, RenameKeeps, LinkKeeps, UnlinkKeeps, RmdirKeeps,
     RestoredKeeps, EndKeeps DEF Helper
<1>3. CASE Others
  BY <1>3, FilesOthersKeep
<1>4. QED
  BY <1>1, <1>2, <1>3 DEF FilesNext

LEMMA FilesStutterKeeps ==
    ASSUME FilesInv, UNCHANGED filesVars
    PROVE  FilesInv'
<1>1. /\ UNCHANGED <<files, source, mode, prog, seen, admitted, done, note, report, wrote, moved,
                     recent, late>>
  BY DEF filesVars, worktree, memory, past
<1>2. CASE prog = <<>>
  BY <1>1, <1>2, StopKeeps
<1>3. CASE prog # <<>>
  <2>1. Shaped /\ InOrder /\ report = "none" /\ ModeFits
    BY <1>3, Stage
  <2>2. PICK a \in Phases : Path(prog, a, Over(mode)) /\ Holds(a)
    BY <1>3 DEF FilesInv, Underway
  <2>3. Holds(a)'
    BY <1>1, <2>2, FilesStand
  <2>4. Shaped'
    BY <1>1, <2>1 DEF Shaped
  <2>5. InOrder'
    BY <1>1, <2>1, InOrderStays DEF Content
  <2>6. QED
    BY <1>1, <2>1, <2>2, <2>3, <2>4, <2>5, Arrives
<1>4. QED
  BY <1>2, <1>3

\* The inductive invariant: whatever the helper has still to do leads from what holds
\* now to its end.
THEOREM FilesInvHolds == FilesSpec => []FilesInv
<1>1. FilesInit => FilesInv
  BY FilesInitHolds
<1>2. FilesInv /\ [FilesNext]_filesVars => FilesInv'
  BY FilesNextKeeps, FilesStutterKeeps
<1>3. QED
  BY <1>1, <1>2, PTL DEF FilesSpec

-----------------------------------------------------------------------------
(* The worktree: what the helper says.                                     *)

\* A step that is no error, writes no other target, and puts no file in quarantine
\* but under a note that names it.
LEMMA TellsLess ==
    ASSUME FilesTold, source' = source, wrote' \subseteq wrote, report' # "error",
           files["quarantine"] = Nothing => files'["quarantine"] = Nothing,
           \/ note' \in {"unverified", "quarantined", "not restored"}
           \/ note \notin {"unverified", "quarantined", "not restored"}
    PROVE  FilesTold'
<1>1. Own'
  BY DEF FilesTold, Own, Managed
<1>2. Swept'
  BY DEF FilesTold, Swept
<1>3. QED
  BY <1>1, <1>2 DEF FilesTold, ErrorsAreTrue

\* A step that is no error and changes neither file nor note.
LEMMA TellsNothing ==
    ASSUME FilesTold, UNCHANGED <<files, source, note, wrote>>, report' # "error"
    PROVE  FilesTold'
<1>1. Own' /\ Swept'
  BY DEF FilesTold, Own, Managed, Swept
<1>2. QED
  BY <1>1 DEF FilesTold, ErrorsAreTrue

\* An error, wherever the helper is.
LEMMA ThrowTells ==
    ASSUME FilesInv, FilesTold, prog # <<>>, Throw
    PROVE  FilesTold'
<1>1. /\ report = "none" /\ ModeFits
      /\ \E a \in Phases, b \in Phases : Holds(a) /\ Leads(a, Head(prog), b)
  BY Stage
<1>2. PICK a \in Phases, b \in Phases : Holds(a) /\ Leads(a, Head(prog), b)
  BY <1>1
<1>3. UNCHANGED <<files, source, mode, admitted, done, wrote, moved, recent>>
  BY DEF Throw, worktree, past
<1>4. Own'
  BY <1>3 DEF FilesTold, Own, Managed
<1>5. Swept'
  BY <1>3 DEF FilesTold, Swept, Throw
<1>6. ASSUME report' = "error"
      PROVE  note' = note
  BY <1>1, <1>6 DEF Throw
<1>7. a.at \in Stages /\ a.mode = mode /\ note = NoteIn(a.at) /\ wrote = done \cup Owed(a)
  BY <1>2 DEF Phases, Holds
<1>8. Accounted
  <2>1. CASE Owed(a) # {} \/ a.at \in Restoring
    BY <1>7, <2>1 DEF Accounted, Owed, NoteIn, Restoring
  <2>2. CASE Owed(a) = {} /\ a.at \notin Restoring /\ ~source
    BY <1>7, <2>2 DEF Accounted, Counted
  <2>3. CASE Owed(a) = {} /\ a.at \notin Restoring /\ source /\ wrote = {}
    BY <2>3 DEF Accounted, Counted
  <2>4. CASE Owed(a) = {} /\ a.at \notin Restoring /\ source /\ wrote # {}
    <3>1. "bridge" \in wrote /\ "bridge" \in done /\ "bridge" \in Targets
      BY <1>7, <2>4 DEF FilesTold, Own, Managed, Targets
    <3>2. Managed = {"bridge"} /\ Final("bridge") = "nothing"
      BY <1>1, <2>4 DEF Managed, Final, ModeFits
    <3>3. a.at \notin {"starting", "seeing"}
      BY <1>2, <2>4 DEF Holds, Saw
    <3>4. a.at \notin {"written", "compared"}
      BY <1>2, <3>2 DEF Holds, Installs
    <3>5. a.at \notin {"admitted", "prepared"}
      <4>1. ASSUME a.at \in {"admitted", "prepared"}
            PROVE  "bridge" \notin a.ok /\ done \subseteq a.ok
        BY <1>2, <4>1 DEF Holds, Removes, Removing, Settled, Changing
      <4>2. QED
        BY <3>1, <4>1
    <3>6. a.at # "over"
      BY <1>2 DEF Leads, Staying, Moving, Ends
    <3>7. a.at \in {"ready", "reading"}
      BY <1>7, <2>4, <3>3, <3>4, <3>5, <3>6 DEF Stages, Owed, Restoring
    <3>8. AsPlanned("bridge")
      BY <1>2, <3>1, <3>7 DEF Holds, Settled, Changing, ReadBack, AsPlanned
    <3>9. note = "none"
      BY <1>7, <3>7 DEF NoteIn, Restoring
    <3>10. QED
      BY <2>4, <3>8, <3>9 DEF Accounted
  <2>5. QED
    BY <2>1, <2>2, <2>3, <2>4
<1>9. Placed
  <2>1. note # "restored"
    BY <1>7 DEF NoteIn
  <2>2. note \in {"unverified", "quarantined"} => a.at \in {"away", "quarantined", "checked"}
    BY <1>7 DEF NoteIn, Restoring
  <2>3. QED
    BY <1>2, <2>1, <2>2 DEF Holds, Removes, Placed
<1>10. report' = "error" => Accounted' /\ Placed'
  <2>1. AsPlanned("bridge")' <=> AsPlanned("bridge")
    BY <1>3 DEF AsPlanned, Content, Final
  <2>2. QED
    BY <1>3, <1>6, <1>8, <1>9, <2>1 DEF Accounted, Counted, Placed
<1>11. QED
  BY <1>4, <1>5, <1>10 DEF FilesTold, ErrorsAreTrue

\* The restoration is reported only where it was proved.
LEMMA RestoredTells ==
    ASSUME FilesInv, FilesTold, Restored
    PROVE  FilesTold'
<1>1. prog # <<>> /\ Head(prog).do = "restored"
  BY DEF Restored, Doing
<1>2. /\ UNCHANGED <<files, source, mode, admitted, done, wrote, recent>>
      /\ note' = "restored"
  BY DEF Restored, worktree, past
<1>3. PICK a \in Phases, b \in Phases : Holds(a) /\ Leads(a, Head(prog), b)
  BY <1>1, Stage
<1>4. a.at = "proved"
  BY <1>1, <1>3 DEF Leads, Staying, Moving, Ends
<1>5. /\ wrote = done /\ Admitted("bridge") /\ "bridge" \notin done
      /\ files["quarantine"] = Nothing
  BY <1>3, <1>4 DEF Holds, Owed, Removes, Restoring
<1>6. wrote = Counted
  BY <1>5 DEF FilesTold, Own, Managed, Counted
<1>7. Own' /\ Swept'
  BY <1>2, <1>5 DEF FilesTold, Own, Managed, Swept
<1>8. Accounted' /\ Placed'
  BY <1>2, <1>5, <1>6 DEF Accounted, Counted, Placed, Admitted
<1>9. QED
  BY <1>7, <1>8 DEF FilesTold, ErrorsAreTrue

\* The steps that change a file or a note.
LEMMA CompletedTells ==
    ASSUME FilesInv, FilesTold, Completed
    PROVE  FilesTold'
<1>1. prog # <<>> /\ Head(prog).do = "completed"
  BY DEF Completed, Doing
<1>2. UNCHANGED <<files, source, report, wrote>>
  BY DEF Completed, GoOn, worktree, past
<1>3. /\ report = "none"
      /\ \E a \in Phases, b \in Phases : Holds(a) /\ Leads(a, Head(prog), b)
  BY <1>1, Stage
<1>4. PICK a \in Phases, b \in Phases : Holds(a) /\ Leads(a, Head(prog), b)
  BY <1>3
<1>5. a.at \in {"installed", "emptied"}
  BY <1>1, <1>4 DEF Leads, Staying, Moving, Ends
<1>6. note \in {"renamed", "unlinked"}
  BY <1>4, <1>5 DEF Holds, NoteIn, Restoring
<1>7. QED
  BY <1>2, <1>3, <1>6, TellsLess

LEMMA ComparisonTells ==
    ASSUME FilesInv, FilesTold, Comparison
    PROVE  FilesTold'
<1>1. prog # <<>> /\ report = "none"
  BY Stage DEF Comparison
<1>2. CASE ~Agrees(Head(prog).do, On)
  <2>1. Throw
    BY <1>2 DEF Comparison
  <2>2. QED
    BY <1>1, <2>1, ThrowTells
<1>3. CASE Agrees(Head(prog).do, On)
  <2>1. /\ UNCHANGED <<files, source, report, wrote>>
        /\ note' = NoteAfter(Head(prog).do)
    BY <1>3 DEF Comparison, Looked, GoOn, worktree, past
  <2>2. CASE Head(prog).do = "mkdir"
    <3>1. PICK a \in Phases, b \in Phases : Holds(a) /\ Leads(a, Head(prog), b)
      BY <1>1, Stage
    <3>2. a.at = "admitted"
      BY <2>2, <3>1 DEF Leads, Staying, Moving, Ends
    <3>3. note = "none"
      BY <3>1, <3>2 DEF Holds, NoteIn, Restoring
    <3>4. QED
      BY <1>1, <2>1, <3>3, TellsLess
  <2>3. CASE Head(prog).do # "mkdir"
    <3>1. note' = "quarantined" \/ note' = note
      BY <2>1, <2>3 DEF NoteAfter
    <3>2. QED
      BY <1>1, <2>1, <3>1, TellsLess
  <2>4. QED
    BY <2>2, <2>3
<1>4. QED
  BY <1>2, <1>3

LEMMA WriteTempTells ==
    ASSUME FilesInv, FilesTold, WriteTemp
    PROVE  FilesTold'
<1>1. prog # <<>> /\ Head(prog).do = "write"
  BY DEF WriteTemp, Doing
<1>2. /\ report = "none" /\ Shaped
      /\ \E a \in Phases, b \in Phases : Holds(a) /\ Leads(a, Head(prog), b)
  BY <1>1, Stage
<1>3. UNCHANGED <<source, report, wrote>> /\ files'["quarantine"] = files["quarantine"]
  BY <1>2 DEF WriteTemp, Changed, WithFile, Shaped, FileNames
<1>4. PICK a \in Phases, b \in Phases : Holds(a) /\ Leads(a, Head(prog), b)
  BY <1>2
<1>5. a.at = "ready"
  BY <1>1, <1>4 DEF Leads, Staying, Moving, Ends
<1>6. note = "none"
  BY <1>4, <1>5 DEF Holds, NoteIn, Restoring
<1>7. QED
  BY <1>2, <1>3, <1>6, TellsLess

LEMMA InstallTells ==
    ASSUME FilesInv, FilesTold, Install
    PROVE  FilesTold'
<1>1. prog # <<>> /\ Head(prog).do = "install"
  BY DEF Install, Doing
<1>2. /\ report = "none" /\ Shaped
      /\ \E a \in Phases, b \in Phases : Holds(a) /\ Leads(a, Head(prog), b)
  BY <1>1, Stage
<1>3. PICK a \in Phases, b \in Phases : Holds(a) /\ Leads(a, Head(prog), b)
  BY <1>2
<1>4. a.at = "compared" /\ On = a.on
  BY <1>1, <1>3 DEF Leads, Staying, Moving, Ends, On
<1>5. On \in Managed /\ note = "temp"
  <2>1. a.on \in Managed
    BY <1>3, <1>4 DEF Holds, Installs
  <2>2. note = "temp"
    BY <1>3, <1>4 DEF Holds, NoteIn, Restoring
  <2>3. QED
    BY <1>4, <2>1, <2>2
<1>6. /\ UNCHANGED <<source, report>> /\ wrote' = wrote \cup {On}
      /\ note' = "renamed"
  BY DEF Install, Changed
<1>7. files'["quarantine"] = files["quarantine"]
  <2>1. On # "quarantine"
    BY <1>5 DEF Managed, Targets
  <2>2. QED
    BY <1>2, <2>1 DEF Install, Changed, WithFile, Shaped, FileNames
<1>8. Own'
  BY <1>5, <1>6 DEF FilesTold, Own, Managed
<1>9. Swept'
  BY <1>5, <1>7 DEF FilesTold, Swept
<1>10. QED
  BY <1>2, <1>6, <1>8, <1>9 DEF FilesTold, ErrorsAreTrue

LEMMA RenameTells ==
    ASSUME FilesInv, FilesTold, Rename
    PROVE  FilesTold'
<1>1. prog # <<>> /\ report = "none"
  BY Stage DEF Rename, Doing
<1>2. CASE Throw
  BY <1>1, <1>2, ThrowTells
<1>3. CASE ~Throw
  <2>1. /\ UNCHANGED <<source, report>> /\ wrote' = wrote \cup {"bridge"}
        /\ note' = "unverified"
    BY <1>3 DEF Rename, Changed
  <2>2. Own' /\ Swept'
    BY <2>1 DEF FilesTold, Own, Managed, Targets, Swept
  <2>3. QED
    BY <1>1, <2>1, <2>2 DEF FilesTold, ErrorsAreTrue
<1>4. QED
  BY <1>2, <1>3

LEMMA LinkTells ==
    ASSUME FilesInv, FilesTold, Link
    PROVE  FilesTold'
<1>1. prog # <<>> /\ report = "none" /\ Shaped
  BY Stage DEF Link, Doing
<1>2. CASE Throw
  BY <1>1, <1>2, ThrowTells
<1>3. CASE ~Throw
  <2>1. /\ UNCHANGED <<source, report, note>> /\ wrote' = wrote \ {"bridge"}
        /\ files'["quarantine"] = files["quarantine"]
    BY <1>1, <1>3 DEF Link, Changed, WithFile, Shaped, FileNames
  <2>2. QED
    BY <1>1, <2>1, TellsLess
<1>4. QED
  BY <1>2, <1>3

LEMMA UnlinkTells ==
    ASSUME FilesInv, FilesTold, Unlink
    PROVE  FilesTold'
<1>1. prog # <<>> /\ report = "none" /\ Shaped
  BY Stage DEF Unlink, Doing
<1>2. CASE Throw
  BY <1>1, <1>2, ThrowTells
<1>3. CASE ~Throw
  <2>1. UNCHANGED <<source, report, wrote>> /\ files'["quarantine"] = Nothing
    BY <1>1, <1>3 DEF Unlink, Changed, WithFile, Shaped, FileNames
  <2>2. Own' /\ Swept'
    BY <2>1 DEF FilesTold, Own, Managed, Swept
  <2>3. QED
    BY <1>1, <2>1, <2>2 DEF FilesTold, ErrorsAreTrue
<1>4. QED
  BY <1>2, <1>3

LEMMA HelperTells ==
    ASSUME FilesInv, FilesTold, Helper
    PROVE  FilesTold'
<1>1. prog # <<>> /\ report = "none"
  <2>1. prog # <<>>
    BY DEF Helper, Prepare, See, ListTarget, Comparison, MakePlan, WriteTemp, Install, Completed,
           Admit, Rename, Link, Unlink, Rmdir, Restored, End, Doing
  <2>2. QED
    BY <2>1, Stage
<1>2. CASE Throw
  BY <1>1, <1>2, ThrowTells
<1>3. CASE ~Throw /\ (Prepare \/ See \/ ListTarget \/ MakePlan \/ Admit \/ Rmdir)
  <2>1. UNCHANGED <<files, source, note, wrote, report>>
    BY <1>3 DEF Prepare, See, ListTarget, MakePlan, Admit, Rmdir, GoOn, Looked, worktree, memory, past
  <2>2. QED
    BY <1>1, <2>1, TellsNothing
<1>4. CASE End
  <2>1. PICK a \in Phases, b \in Phases : Holds(a) /\ Leads(a, Head(prog), b)
    BY <1>1, Stage
  <2>2. On \in {"applied", "no change"}
    BY <1>4, <2>1 DEF End, Doing, Leads, Staying, Moving, Ends, On
  <2>3. UNCHANGED <<files, source, note, wrote>> /\ report' = On
    BY <1>4 DEF End, worktree, memory, past
  <2>4. QED
    BY <2>2, <2>3, TellsNothing
<1>5. QED
  BY <1>2, <1>3, <1>4, ComparisonTells, WriteTempTells, InstallTells, CompletedTells, RenameTells,
     LinkTells, UnlinkTells, RestoredTells DEF Helper

\* What was said stays true of the worktree as the helper left it.
LEMMA DisturbedTells ==
    ASSUME FilesTold, NEW names, OthersChange(names),
           names \subseteq Editable \cup {"origin"},
           files["quarantine"] = Nothing => files'["quarantine"] = Nothing,
           \A n \in FileNames : n \notin names => files'[n] = files[n]
    PROVE  FilesTold'
<1>1. /\ UNCHANGED <<source, mode, admitted, done, note, report, wrote>>
      /\ moved' = moved \cup names /\ recent' = recent \cup names
  BY DEF OthersChange, memory
<1>2. \A n \in {"bridge", "quarantine"} : files'[n] = files[n] \/ n \in names
  BY DEF FileNames, Targets
<1>3. Own' /\ Swept'
  BY <1>1 DEF FilesTold, Own, Managed, Swept
<1>4. AsPlanned("bridge") => AsPlanned("bridge")'
  BY <1>1, <1>2 DEF AsPlanned, Content, Final
<1>5. /\ Accounted => Accounted'
      /\ Placed => Placed'
  BY <1>1, <1>2, <1>4 DEF Accounted, Counted, Placed
<1>6. QED
  BY <1>1, <1>3, <1>5 DEF FilesTold, ErrorsAreTrue

\* The helper stops where it is, or is not at work.
LEMMA StopTells ==
    ASSUME FilesTold,
           UNCHANGED <<files, source, mode, admitted, done, note, report, wrote, moved, recent>>
    PROVE  FilesTold'
<1>1. Own' /\ Swept'
  BY DEF FilesTold, Own, Managed, Swept
<1>2. /\ Accounted => Accounted'
      /\ Placed => Placed'
  BY DEF Accounted, Counted, Placed, AsPlanned, Content, Final
<1>3. QED
  BY <1>1, <1>2 DEF FilesTold, ErrorsAreTrue

LEMMA OthersTell ==
    ASSUME FilesInv, FilesTold, Others
    PROVE  FilesTold'
<1>1. Shaped
  BY DEF FilesInv
<1>2. ASSUME NEW n \in Editable, Edit(n) \/ Replace(n)
      PROVE  FilesTold'
  <2>1. files["quarantine"] = Nothing => files'["quarantine"] = Nothing
    BY <1>1, <1>2, QuarantineStands
  <2>2. CASE Edit(n)
    <3> DEFINE same == {m \in {"bridge", "quarantine"} : files[m] # Nothing /\ files[m].id = files[n].id}
    <3>1. /\ files' = [m \in FileNames |-> IF m \in same THEN [files[m] EXCEPT !.content = "foreign"]
                                           ELSE files[m]]
          /\ OthersChange(same)
      BY <2>2 DEF Edit
    <3>2. same \subseteq Editable \cup {"origin"}
      BY DEF Editable, FileNames, Targets
    <3> HIDE DEF same
    <3>3. \A m \in FileNames : m \notin same => files'[m] = files[m]
      BY <3>1
    <3>4. PICK names : names = same
      OBVIOUS
    <3>5. QED
      BY <2>1, <3>1, <3>2, <3>3, <3>4, DisturbedTells
  <2>3. CASE Replace(n)
    <3>1. OthersChange({n}) /\ \E f : files' = WithFile(n, f)
      BY <2>3 DEF Replace
    <3>2. \A m \in FileNames : m \notin {n} => files'[m] = files[m]
      BY <1>1, <3>1 DEF WithFile, Shaped
    <3>3. QED
      BY <2>1, <3>1, <3>2, DisturbedTells
  <2>4. QED
    BY <1>2, <2>2, <2>3
<1>3. CASE Retarget
  <2>1. OthersChange({"origin"}) /\ files' = files
    BY <1>3 DEF Retarget
  <2>2. QED
    BY <2>1, DisturbedTells
<1>4. CASE Tidy
  BY <1>4, StopTells DEF Tidy, memory, past
<1>5. CASE Fault
  BY <1>5, ThrowTells DEF Fault
<1>6. CASE Kill
  BY <1>6, StopTells DEF Kill, worktree, memory, past
<1>7. QED
  BY <1>2, <1>3, <1>4, <1>5, <1>6 DEF Others

LEMMA FilesInitTells ==
    ASSUME FilesInit
    PROVE  FilesTold
<1>1. PICK old \in Outdated \cup {{}}, bridge \in BOOLEAN :
          files = [n \in FileNames |->
             CASE n = "bridge" /\ bridge -> [id |-> 1, content |-> "canonical"]
               [] n \in {"temp", "quarantine"} \/ (n = "bridge" /\ ~bridge) -> Nothing
               [] OTHER -> [id |-> 0, content |-> IF n \in old THEN "old" ELSE "canonical"]]
  BY Zenon DEF FilesInit
<1>2. files["quarantine"] = Nothing
  <2>1. "quarantine" \in FileNames
    BY DEF FileNames
  <2>2. QED
    BY <1>1, <2>1
<1>3. wrote = {} /\ report = "none"
  BY Zenon DEF FilesInit
<1>4. QED
  BY <1>2, <1>3 DEF FilesTold, Own, Swept, ErrorsAreTrue

\* What the helper says is so, and would be so of an error at any of its calls.
THEOREM FilesToldHolds == FilesSpec => []FilesTold
<1>1. FilesInit => FilesTold
  BY FilesInitTells
<1>2. ASSUME FilesInv, FilesTold, [FilesNext]_filesVars
      PROVE  FilesTold'
  <2>1. ASSUME NEW m \in {"bridge", "remove", "source"}, Invoke(m)
        PROVE  FilesTold'
    <3>1. wrote' = {} /\ report' = "none" /\ files'["quarantine"] = Nothing
      BY <2>1 DEF Invoke, FileNames, Targets
    <3>2. QED
      BY <3>1 DEF FilesTold, Own, Swept, ErrorsAreTrue
  <2>2. CASE UNCHANGED filesVars
    BY <1>2, <2>2, StopTells DEF filesVars, worktree, memory, past
  <2>3. QED
    BY <1>2, <2>1, <2>2, HelperTells, OthersTell DEF FilesNext
<1>3. QED
  BY <1>1, <1>2, FilesInvHolds, PTL DEF FilesSpec

-----------------------------------------------------------------------------
(* The worktree: the properties.                                           *)

\* No workflow changes before CODEOWNERS protects it, no caller before the bridge that
\* stands in for it is there, and the bridge leaves only a complete gate.
THEOREM InOrderHolds == FilesSpec => []InOrder
<1>1. FilesInv => InOrder
  BY DEF FilesInv
<1>2. QED
  BY <1>1, FilesInvHolds, PTL

\* Changes are reported as applied only where every target is as planned.
THEOREM AppliedIsRealHolds == FilesSpec => []AppliedIsReal
<1>1. FilesInv => AppliedIsReal
  BY DEF FilesInv
<1>2. QED
  BY <1>1, FilesInvHolds, PTL

\* An error accounts for every change that was made, all but those of the source
\* repository's readbacks, which come when the bridge is removed in full; it says truly
\* where the bridge is, and it leaves no file in quarantine unnamed.
THEOREM ErrorsAreTrueHolds == FilesSpec => []ErrorsAreTrue
<1>1. FilesTold => ErrorsAreTrue
  BY DEF FilesTold
<1>2. QED
  BY <1>1, FilesToldHolds, PTL

\* No file is overwritten or unlinked that the helper has not just found to be the one
\* it may destroy.
THEOREM DestroysOnlyWhatItSawHolds == FilesSpec => DestroysOnlyWhatItSaw
<1>1. ASSUME FilesInv
      PROVE  /\ Doing("install") => Content(On) = seen[On] \/ On \in recent
             /\ Doing("unlink") =>
                   \/ files["quarantine"] = [id |-> admitted, content |-> "canonical"]
                   \/ "quarantine" \in recent
  <2>1. ASSUME prog # <<>>, Head(prog).do \in {"install", "unlink"}
        PROVE  \E a \in Phases, b \in Phases : Holds(a) /\ Leads(a, Head(prog), b)
    BY <1>1, <2>1, Stage
  <2>2. ASSUME Doing("install")
        PROVE  Content(On) = seen[On] \/ On \in recent
    <3>1. PICK a \in Phases, b \in Phases : Holds(a) /\ Leads(a, Head(prog), b)
      BY <2>1, <2>2 DEF Doing
    <3>2. a.at = "compared" /\ On = a.on
      BY <2>2, <3>1 DEF Doing, On, Leads, Staying, Moving, Ends
    <3>3. QED
      BY <3>1, <3>2 DEF Holds, Installs
  <2>3. ASSUME Doing("unlink")
        PROVE  Admitted("quarantine")
    <3>1. PICK a \in Phases, b \in Phases : Holds(a) /\ Leads(a, Head(prog), b)
      BY <2>1, <2>3 DEF Doing
    <3>2. a.at \in {"checked", "twice"}
      BY <2>3, <3>1 DEF Doing, Leads, Staying, Moving, Ends
    <3>3. QED
      BY <3>1, <3>2 DEF Holds, Removes
  <2>4. QED
    BY <2>2, <2>3 DEF Admitted
<1>2. FilesInv =>
        [ /\ Doing("install") /\ wrote' # wrote => Content(On) = seen[On] \/ On \in recent
          /\ Doing("unlink") /\ files' # files =>
                files["quarantine"] = [id |-> admitted, content |-> "canonical"] \/ "quarantine" \in recent
        ]_<<prog, files>>
  BY <1>1
<1>3. QED
  BY <1>2, FilesInvHolds, PTL DEF DestroysOnlyWhatItSaw

===============================================================================
