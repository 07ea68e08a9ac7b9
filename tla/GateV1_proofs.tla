---------------------------- MODULE GateV1_proofs ----------------------------
(***************************************************************************)
(* Proofs about gate v1.  First its verdict (LegacySnapshot), for a log of *)
(* any length, any shapes of what Codex posts, and any number of threads   *)
(* and failures.  Two things carry them.  What a channel serves only       *)
(* grows, so of two whole readings the earlier one saw no more than there  *)
(* was when the later one began, and the later one saw no less.  And an    *)
(* order: an entry made later is never strictly earlier, so a clean that   *)
(* is the newest of what was read is the newest of every part of it.       *)
(*                                                                         *)
(* Then how it asks (LegacyGate), for any number of heads, answers,        *)
(* pushes, failed requests, killed runs and deleted comments: while a run  *)
(* may still ask, the newest state comment holds no request of its head    *)
(* that the run does not.                                                  *)
(*                                                                         *)
(* And how it waits: deadlines are counted against answers and mishaps.    *)
(* Whatever a run, or the one after it, does not know of the requests that *)
(* were answered or lost, something that happened is left to pay for.      *)
(***************************************************************************)
EXTENDS LegacySnapshot, LegacyGate, TLAPS, NaturalsInduction, WellFoundedInduction,
        SequenceTheorems, FiniteSetTheorems

-----------------------------------------------------------------------------
(* The verdict: the inductive invariant.                                   *)

Entries == Posts \cup Threads \cup Moves

TypeInv ==
    /\ log \in Seq(Entries)
    /\ phase \in {"waiting", "first", "final", "done"}
    /\ since \in Nat /\ began \in Nat /\ faults \in Nat
    /\ began <= since /\ since <= Len(log)
    /\ phase # "done" => outcome = "none"

TimesGrow == \A i, j \in 1..Len(log) : i <= j => log[i].at <= log[j].at

\* What the first whole snapshot, which was clean, says of the pull request as it
\* was when the second one began.
FirstWasClean ==
    phase = "final" =>
        /\ certified.selected \subseteq World(since)
        /\ \E m \in began..since :
              \A t \in SeenThreads(began) : log[t].rel \in InScope => Resolved(t, m)

\* A run in which nothing happens decides by what there is.
CleanAt(m) ==
    /\ BlockingFindings(World(m)) = {} /\ Open(m) = {}
    /\ \E s \in SelectedCleans(World(m)) : s.rel = "current"

Readable(m) ==
    /\ \A a \in World(m) :
          /\ a.kind # "malformed" /\ a.rel # "invalid" /\ a.at # 0
          /\ \A b \in World(m) \ {a} : a.at # b.at
    /\ \A t \in SeenThreads(m) : log[t].rel # "invalid"

QuietIsDecided ==
    Len(log) = began /\ faults = 0 /\ Readable(began) =>
        /\ phase = "final" => CleanAt(began) /\ certified = Certificate(World(began))
        /\ phase = "done" => (outcome = "success" <=> CleanAt(began))

Inv ==
    /\ TypeInv /\ TimesGrow /\ FirstWasClean /\ QuietIsDecided
    /\ FailureWasTrue /\ StandingFindingBlocks /\ SuccessWasTrue

-----------------------------------------------------------------------------
(* The log, and what a channel serves of it.                               *)

\* A bounded set of numbers that is not empty has a largest one.
LEMMA LargestOf ==
    ASSUME NEW S \in SUBSET Nat, NEW n \in Nat, \A s \in S : s <= n, S # {}
    PROVE  \E m \in S : \A s \in S : s <= m
<1> DEFINE R == {ss \in Nat \X Nat : ss[1] < ss[2]}
           Bounds == {u \in Nat : \A s \in S : s <= u}
<1>1. IsWellFoundedOn(R, Nat)
  BY NatLessThanWellFounded DEF OpToRel
<1>2. Bounds \subseteq Nat /\ n \in Bounds
  OBVIOUS
<1>3. \E m \in Bounds : \A u \in Bounds : <<u, m>> \notin R
  <2> HIDE DEF R, Bounds
  <2>1. QED
    BY <1>1, <1>2, WFMin
<1>4. PICK m \in Bounds : \A u \in Bounds : <<u, m>> \notin R
  BY <1>3
<1>5. m \in S
  <2> SUFFICES ASSUME m \notin S PROVE FALSE
    OBVIOUS
  <2>1. m \in Nat /\ \A s \in S : s \in Nat /\ s <= m /\ s # m
    BY <1>4
  <2>2. PICK s \in S : s \in Nat /\ s <= m /\ s # m
    BY <2>1
  <2>3. m - 1 \in Nat /\ m - 1 < m
    BY <2>1, <2>2
  <2>4. \A z \in Nat : z <= m /\ z # m => z <= m - 1
    BY <2>1
  <2>5. m - 1 \in Bounds /\ <<m - 1, m>> \in R
    BY <2>1, <2>3, <2>4
  <2>6. QED
    BY <1>4, <2>5
<1>6. QED
  BY <1>4, <1>5

LEMMA EntriesAre ==
    ASSUME TypeInv
    PROVE  /\ Len(log) \in Nat
           /\ \A i \in 1..Len(log) :
                 /\ i \in Nat /\ log[i] \in Entries /\ log[i].at \in Nat
                 /\ log[i].type = "post" => log[i].shape \in Shapes \cup RareShapes
                 /\ log[i].type = "thread" => log[i].rel \in Relations
<1>1. Len(log) \in Nat /\ \A i \in 1..Len(log) : log[i] \in Entries
  BY DEF TypeInv
<1>2. \A e \in Entries :
         /\ e.at \in Nat /\ (e.type = "post" => e.shape \in Shapes \cup RareShapes)
         /\ e.type = "thread" => e.rel \in Relations
  BY ThreadsAssumption DEF Entries, Posts, Threads, Moves, Times
<1>3. QED
  BY <1>1, <1>2

LEMMA ArtifactIs ==
    ASSUME TypeInv, NEW i \in 1..Len(log), log[i].type = "post"
    PROVE  /\ Artifact(i).id = i /\ Artifact(i).source = log[i].shape.source
           /\ Artifact(i).source \in Sources /\ Artifact(i).rel \in Relations
           /\ Artifact(i).at \in Nat /\ Artifact(i).at \in {0, log[i].at}
           /\ Artifact(i).kind \in {"malformed", "progress", "clean", "finding"}
           /\ Artifact(i) = [id |-> i, source |-> Artifact(i).source, rel |-> Artifact(i).rel,
                             kind |-> Artifact(i).kind, at |-> Artifact(i).at]
<1>1. log[i].shape \in Shapes \cup RareShapes /\ log[i].at \in Nat
  BY EntriesAre
<1>2. log[i].shape.source \in Sources /\ log[i].shape.rel \in Relations
      /\ log[i].shape.ordered \in BOOLEAN
  BY <1>1, ShapesAssumption
<1>3. \A c : /\ CommentKind(c) \in {"malformed", "progress", "clean", "finding"}
             /\ ReviewKind(c) \in {"malformed", "progress", "clean", "finding"}
  BY DEF CommentKind, ReviewKind
<1>4. QED
  BY <1>1, <1>2, <1>3 DEF Artifact

\* A moment's evidence is that of the entries up to there.
LEMMA SeenIs ==
    ASSUME TypeInv, NEW m \in 0..Len(log)
    PROVE  /\ \A a \in SeenComments(m) :
                 a.id \in 1..m /\ log[a.id].type = "post" /\ a = Artifact(a.id)
                 /\ a.source = "comment"
           /\ \A a \in SeenReviews(m) :
                 a.id \in 1..m /\ log[a.id].type = "post" /\ a = Artifact(a.id)
                 /\ a.source = "review"
           /\ \A i \in 1..m : log[i].type = "post" => Artifact(i) \in World(m)
           /\ \A i \in 1..m : log[i].type = "post" /\ Artifact(i).source = "comment"
                                => Artifact(i) \in SeenComments(m)
           /\ \A i \in 1..m : log[i].type = "post" /\ Artifact(i).source = "review"
                                => Artifact(i) \in SeenReviews(m)
           /\ \A a \in World(m) :
                 a.id \in 1..m /\ log[a.id].type = "post" /\ a = Artifact(a.id)
           /\ SeenThreads(m) \subseteq 1..m /\ \A t \in SeenThreads(m) : log[t].type = "thread"
<1>1. \A i \in 1..m : i \in 1..Len(log)
  BY EntriesAre
<1>2. \A i \in 1..m : log[i].type = "post" =>
         /\ Artifact(i).id = i /\ Artifact(i).source = log[i].shape.source
         /\ Artifact(i).source \in {"comment", "review"}
  BY <1>1, ArtifactIs DEF Sources
<1>3. QED
  BY <1>2 DEF SeenComments, SeenReviews, World, Upto, SeenThreads

LEMMA SeenGrows ==
    ASSUME TypeInv, NEW m \in 0..Len(log), NEW n \in 0..Len(log), m <= n
    PROVE  /\ SeenComments(m) \subseteq SeenComments(n) /\ SeenReviews(m) \subseteq SeenReviews(n)
           /\ World(m) \subseteq World(n) /\ SeenThreads(m) \subseteq SeenThreads(n)
<1>1. 1..m \subseteq 1..n
  BY EntriesAre
<1>2. QED
  BY <1>1 DEF SeenComments, SeenReviews, World, Upto, SeenThreads

\* What was made earlier is not later.
LEMMA EarlierIsNotLater ==
    ASSUME TypeInv, TimesGrow, NEW a \in World(Len(log)), NEW b \in World(Len(log)), a.id <= b.id
    PROVE  ~StrictlyLater(a, b)
<1>1. Len(log) \in 0..Len(log)
  BY EntriesAre
<1>2. /\ a.id \in 1..Len(log) /\ log[a.id].type = "post" /\ a = Artifact(a.id)
      /\ b.id \in 1..Len(log) /\ log[b.id].type = "post" /\ b = Artifact(b.id)
  BY <1>1, SeenIs
<1>3. a.at \in {0, log[a.id].at} /\ b.at \in {0, log[b.id].at}
  BY <1>2, ArtifactIs
<1>4. log[a.id].at \in Nat /\ log[b.id].at \in Nat /\ log[a.id].at <= log[b.id].at
      /\ a.id \in Nat /\ b.id \in Nat
  BY <1>2, EntriesAre DEF TimesGrow
<1>5. QED
  BY <1>3, <1>4 DEF StrictlyLater

\* A thread stays resolved while nobody reopens it.
LEMMA ResolvedStays ==
    ASSUME TypeInv, NEW m \in 0..Len(log), NEW n \in 0..Len(log), m <= n, NEW t, Resolved(t, m),
           \A i \in m + 1..n : log[i].type # "reopen"
    PROVE  Resolved(t, n)
<1> DEFINE moves(k) == {i \in 1..k : log[i].type \in {"resolve", "reopen"} /\ log[i].on = t}
           last(k) == CHOOSE i \in moves(k) : \A j \in moves(k) : j <= i
<1>1. m \in Nat /\ n \in Nat
  BY EntriesAre
<1>2. \A k \in Nat : moves(k) # {} => last(k) \in moves(k) /\ \A j \in moves(k) : j <= last(k)
  <2> SUFFICES ASSUME NEW k \in Nat, moves(k) # {}
               PROVE  \E i \in moves(k) : \A j \in moves(k) : j <= i
    OBVIOUS
  <2>1. moves(k) \in SUBSET Nat /\ \A j \in moves(k) : j <= k
    OBVIOUS
  <2> HIDE DEF moves
  <2>2. QED
    BY <2>1, LargestOf
<1>3. moves(m) # {} /\ log[last(m)].type = "resolve"
  BY DEF Resolved
<1>4. moves(m) \subseteq moves(n) /\ moves(n) # {}
  BY <1>1, <1>3
<1>5. last(n) \in moves(n) /\ \A j \in moves(n) : j <= last(n)
  BY <1>1, <1>2, <1>4
<1>6. log[last(n)].type = "resolve"
  <2>1. CASE last(n) \in m + 1..n
    BY <1>5, <2>1
  <2>2. CASE last(n) \notin m + 1..n
    <3>1. last(n) \in moves(m)
      BY <1>1, <1>5, <2>2
    <3>2. last(m) \in moves(m) /\ \A j \in moves(m) : j <= last(m)
      BY <1>1, <1>2, <1>3
    <3>3. last(n) = last(m)
      <4>1. last(n) <= last(m) /\ last(m) <= last(n)
        BY <1>4, <1>5, <3>1, <3>2
      <4>2. moves(n) \subseteq Nat /\ moves(m) \subseteq Nat
        OBVIOUS
      <4> HIDE DEF last, moves
      <4>3. last(n) \in Nat /\ last(m) \in Nat
        BY <1>5, <3>2, <4>2
      <4>4. QED
        BY <4>1, <4>3
    <3>4. QED
      BY <1>3, <3>3
  <2>3. QED
    BY <2>1, <2>2
<1>7. QED
  BY <1>4, <1>6 DEF Resolved

\* The log only grows, so a past moment stays what it was.
LEMMA PastIsKept ==
    ASSUME TypeInv, NEW m \in 0..Len(log), \A i \in 1..Len(log) : log'[i] = log[i]
    PROVE  /\ World(m)' = World(m) /\ SeenThreads(m)' = SeenThreads(m)
           /\ \A t : Resolved(t, m)' = Resolved(t, m)
           /\ \A t \in SeenThreads(m) : log'[t] = log[t]
<1>1. \A i \in 1..m : log'[i] = log[i]
  BY EntriesAre
<1>2. (Upto(m, "post"))' = Upto(m, "post") /\ (Upto(m, "thread"))' = Upto(m, "thread")
  BY <1>1 DEF Upto
<1>3. \A i \in 1..m : Artifact(i)' = Artifact(i)
  BY <1>1 DEF Artifact
<1>4. \A i \in Upto(m, "post") : i \in 1..m
  BY DEF Upto
<1>5. SeenComments(m)' = SeenComments(m)
  BY <1>1, <1>2, <1>3, <1>4 DEF SeenComments
<1>6. SeenReviews(m)' = SeenReviews(m)
  BY <1>1, <1>2, <1>3, <1>4 DEF SeenReviews
<1>7. ASSUME NEW t PROVE Resolved(t, m)' = Resolved(t, m)
  <2>1. {i \in 1..m : log'[i].type \in {"resolve", "reopen"} /\ log'[i].on = t}
        = {i \in 1..m : log[i].type \in {"resolve", "reopen"} /\ log[i].on = t}
    BY <1>1
  <2> DEFINE moves == {i \in 1..m : log[i].type \in {"resolve", "reopen"} /\ log[i].on = t}
             last == CHOOSE i \in moves : \A j \in moves : j <= i
  <2>2. moves # {} => last \in moves
    <3> SUFFICES ASSUME moves # {} PROVE \E i \in moves : \A j \in moves : j <= i
      OBVIOUS
    <3>1. moves \in SUBSET Nat /\ m \in Nat /\ \A j \in moves : j <= m
      BY EntriesAre
    <3> HIDE DEF moves
    <3>2. QED
      BY <3>1, LargestOf
  <2>3. Resolved(t, m) = (moves # {} /\ log[last].type = "resolve")
    BY DEF Resolved
  <2>4. Resolved(t, m)' = (moves # {} /\ log'[last].type = "resolve")
    BY <2>1 DEF Resolved
  <2>5. moves # {} => log'[last] = log[last]
    <3>1. moves \subseteq 1..m
      OBVIOUS
    <3> HIDE DEF moves, last
    <3>2. QED
      BY <1>1, <2>2, <3>1
  <2> HIDE DEF moves, last
  <2>6. QED
    BY <2>3, <2>4, <2>5
<1>8. QED
  BY <1>1, <1>2, <1>5, <1>6, <1>7 DEF World, SeenThreads, Upto

-----------------------------------------------------------------------------
(* The newest clean.                                                       *)

Now == Len(log)

LEMMA WorldIs ==
    ASSUME TypeInv
    PROVE  /\ Now \in Nat /\ Now \in 0..Now
           /\ \A a \in World(Now) :
                 /\ a.id \in 1..Now /\ a.id \in Nat /\ log[a.id].type = "post"
                 /\ a = Artifact(a.id)
                 /\ a.at \in Nat /\ a.source \in Sources /\ a.rel \in Relations
                 /\ a.kind \in {"malformed", "progress", "clean", "finding"}
                 /\ a = [id |-> a.id, source |-> a.source, rel |-> a.rel, kind |-> a.kind,
                         at |-> a.at]
           /\ \A a, b \in World(Now) : a.id = b.id => a = b
<1>1. Now \in Nat /\ Now \in 0..Now
  BY EntriesAre DEF Now
<1>2. ASSUME NEW a \in World(Now)
      PROVE  /\ a.id \in 1..Now /\ a.id \in Nat /\ log[a.id].type = "post" /\ a = Artifact(a.id)
             /\ a.at \in Nat /\ a.source \in Sources /\ a.rel \in Relations
             /\ a.kind \in {"malformed", "progress", "clean", "finding"}
             /\ a = [id |-> a.id, source |-> a.source, rel |-> a.rel, kind |-> a.kind,
                     at |-> a.at]
  <2>1. a.id \in 1..Len(log) /\ log[a.id].type = "post" /\ a = Artifact(a.id)
    BY <1>1, SeenIs DEF Now
  <2>2. a.id \in Nat
    BY <1>1, <2>1
  <2>3. QED
    BY <2>1, <2>2, ArtifactIs DEF Now
<1>3. \A a, b \in World(Now) : a.id = b.id => a = b
  BY <1>2
<1>4. QED
  BY <1>1, <1>2, <1>3

LEMMA NewestIsUnique ==
    ASSUME TypeInv, NEW A \in SUBSET World(Now),
           NEW s \in SelectedCleans(A), NEW r \in SelectedCleans(A)
    PROVE  s = r
<1>1. s \in World(Now) /\ r \in World(Now)
  BY DEF SelectedCleans, InScopeOf, Orderable, Cleans
<1>2. /\ s.at \in Nat /\ r.at \in Nat /\ s.id \in Nat /\ r.id \in Nat
      /\ s.source \in {"comment", "review"} /\ r.source \in {"comment", "review"}
  BY <1>1, WorldIs DEF Sources
<1>3. s = r \/ (NewerFirst(s, r) /\ NewerFirst(r, s))
  BY DEF SelectedCleans
<1>4. QED
  BY <1>2, <1>3 DEF NewerFirst

LEMMA NewestExists ==
    ASSUME TypeInv, TimesGrow, NEW A \in SUBSET World(Now),
           NEW c \in InScopeOf(Orderable(Cleans(A)))
    PROVE  SelectedCleans(A) # {}
<1> DEFINE C == InScopeOf(Orderable(Cleans(A)))
           seconds == {a.at : a \in C}
<1>1. C \subseteq World(Now) /\ c \in C
  BY DEF InScopeOf, Orderable, Cleans
<1>2. \A a \in C : /\ a.at \in Nat /\ a.id \in Nat /\ a.id <= Now
                   /\ a.source \in {"comment", "review"}
  BY <1>1, WorldIs DEF Sources
<1>3. \A a \in C : a.at <= log[Now].at /\ log[Now].at \in Nat
  <2> SUFFICES ASSUME NEW a \in C PROVE a.at <= log[Now].at /\ log[Now].at \in Nat
    OBVIOUS
  <2>1. /\ a.id \in 1..Now /\ log[a.id].type = "post" /\ a = Artifact(a.id)
        /\ Now \in Nat /\ a.id \in Nat
    BY <1>1, WorldIs
  <2>2. Now \in 1..Len(log) /\ a.id \in 1..Len(log) /\ a.id <= Now
    BY <2>1 DEF Now
  <2>3. a.at \in {0, log[a.id].at}
    BY <2>1, <2>2, ArtifactIs
  <2>4. log[a.id].at <= log[Now].at /\ log[Now].at \in Nat
    BY <2>2, EntriesAre DEF TimesGrow
  <2>5. QED
    BY <2>3, <2>4
<1> HIDE DEF C
<1>4. PICK m \in seconds : \A n \in seconds : n <= m
  <2>1. seconds \in SUBSET Nat /\ seconds # {} /\ \A n \in seconds : n <= log[Now].at
    BY <1>1, <1>2, <1>3
  <2>2. log[Now].at \in Nat
    BY <1>1, <1>3
  <2> HIDE DEF seconds
  <2>3. QED
    BY <2>1, <2>2, LargestOf
<1> DEFINE best == {a \in C : a.at = m /\ (a.source = "comment"
                                           \/ \A b \in C : b.at = m => b.source # "comment")}
           ids == {a.id : a \in best}
<1>5. PICK k \in ids : \A n \in ids : n <= k
  <2>1. \E a \in C : a.at = m
    BY <1>4
  <2>2. best # {}
    BY <2>1
  <2>3. ids \in SUBSET Nat /\ ids # {} /\ \A n \in ids : n <= Now
    BY <1>2, <2>2
  <2> HIDE DEF ids
  <2>4. QED
    BY <2>3, LargestOf, WorldIs
<1>6. PICK s \in best : s.id = k
  OBVIOUS
<1>7. ASSUME NEW b \in C \ {s} PROVE NewerFirst(s, b)
  <2>1. b.at <= m /\ s.at = m /\ m \in Nat
    BY <1>2, <1>4, <1>6
  <2>2. b.id # s.id
    BY <1>1, <1>6, WorldIs
  <2>3. CASE b.at # m
    BY <1>2, <2>1, <2>3 DEF NewerFirst
  <2>4. CASE b.at = m /\ b \in best
    <3>1. b.id \in ids /\ b.id <= k /\ s.source = b.source
      BY <1>2, <1>5, <1>6, <2>4
    <3>2. s.id > b.id
      BY <1>2, <1>6, <2>2, <3>1
    <3>3. QED
      BY <2>1, <2>4, <3>1, <3>2 DEF NewerFirst
  <2>5. CASE b.at = m /\ b \notin best
    BY <1>2, <1>6, <2>1, <2>5 DEF NewerFirst
  <2>6. QED
    BY <2>3, <2>4, <2>5
<1>8. s \in SelectedCleans(A)
  BY <1>6, <1>7 DEF SelectedCleans, C
<1>9. QED
  BY <1>8

-----------------------------------------------------------------------------
(* What a verdict says of what was read.                                   *)

\* The moments of the reads of an attempt.
LEMMA ViewIs ==
    ASSUME NEW from, NEW to, NEW v \in Views(from, to)
    PROVE  \E c, rc, r, m \in from..to :
              /\ v.comments = SeenComments(c) /\ v.children = SeenThreads(rc)
              /\ v.reviews = SeenReviews(r) /\ v.parents = SeenThreads(r)
              /\ v.threads = ThreadStates(m) /\ v.drifted \in BOOLEAN
              /\ from = to => ~v.drifted
<1> DEFINE parts == {[reviews |-> SeenReviews(m), parents |-> SeenThreads(m)] : m \in from..to}
           served == {<<ThreadStates(p[1]), ThreadStates(p[2])>> :
                         p \in {q \in (from..to) \X (from..to) : q[1] <= q[2]}}
<1>1. PICK c \in {SeenComments(m) : m \in from..to}, rc \in {SeenThreads(m) : m \in from..to},
           r \in parts, t \in served :
         v = [comments |-> c, children |-> rc, reviews |-> r.reviews, parents |-> r.parents,
              threads |-> t[1], drifted |-> t[1] # t[2]]
  BY DEF Views
<1>2. PICK i \in from..to : r = [reviews |-> SeenReviews(i), parents |-> SeenThreads(i)]
  OBVIOUS
<1>3. PICK p \in (from..to) \X (from..to) : t = <<ThreadStates(p[1]), ThreadStates(p[2])>>
  OBVIOUS
<1>4. from = to => p[1] = p[2]
  <2>1. p[1] \in from..to /\ p[2] \in from..to
    BY <1>3
  <2>2. QED
    BY <2>1
<1>5. v.comments = c /\ v.children = rc /\ v.reviews = SeenReviews(i)
      /\ v.parents = SeenThreads(i) /\ v.threads = ThreadStates(p[1])
      /\ v.drifted = (ThreadStates(p[1]) # ThreadStates(p[2]))
  BY <1>1, <1>2, <1>3
<1>6. QED
  BY <1>1, <1>2, <1>3, <1>4, <1>5

LEMMA SettledIs ==
    ASSUME NEW e, NEW last \in BOOLEAN
    PROVE  /\ Settled(e, last) = "clean" =>
                 ~e.errors /\ ~e.transient /\ ~e.findings /\ e.clean
           /\ Settled(e, last) = "failure" => e.findings
BY DEF Settled

LEMMA BrokenIs ==
    ASSUME NEW e, NEW deterministic, NEW last
    PROVE  /\ Broken(e, deterministic, last) \in {"failure", "error", "retry"}
           /\ Broken(e, deterministic, last) = "failure" => e.findings
BY DEF Broken

LEMMA ComparedIs ==
    ASSUME TypeInv, NEW A \in SUBSET World(Now), NEW fails \in BOOLEAN
    PROVE  /\ \A a \in A : \E b \in ComparedAll(A, fails) :
                 /\ b.id = a.id /\ b.source = a.source /\ b.kind = a.kind /\ b.at = a.at
                 /\ b.rel = Compared(a.rel, fails) /\ (b.rel # "unknown" => b = a)
           /\ \A b \in ComparedAll(A, fails) : \E a \in A :
                 /\ b.id = a.id /\ b.source = a.source /\ b.kind = a.kind /\ b.at = a.at
                 /\ b.rel = Compared(a.rel, fails) /\ (b.rel # "unknown" => b = a)
           /\ ~fails => ComparedAll(A, fails) = A
<1> DEFINE image(a) == [a EXCEPT !.rel = Compared(a.rel, fails)]
<1>1. \A a \in A :
         /\ image(a).id = a.id /\ image(a).source = a.source /\ image(a).kind = a.kind
         /\ image(a).at = a.at /\ image(a).rel = Compared(a.rel, fails)
         /\ a.rel # "unknown"
         /\ image(a).rel # "unknown" => image(a) = a
  <2> SUFFICES ASSUME NEW a \in A
               PROVE  /\ image(a).id = a.id /\ image(a).source = a.source
                      /\ image(a).kind = a.kind
                      /\ image(a).at = a.at /\ image(a).rel = Compared(a.rel, fails)
                      /\ a.rel # "unknown"
                      /\ image(a).rel # "unknown" => image(a) = a
    OBVIOUS
  <2>1. /\ a.rel \in Relations
        /\ a = [id |-> a.id, source |-> a.source, rel |-> a.rel, kind |-> a.kind, at |-> a.at]
    BY WorldIs
  <2>2. image(a) = [id |-> a.id, source |-> a.source, rel |-> Compared(a.rel, fails),
                    kind |-> a.kind, at |-> a.at]
    BY <2>1
  <2> HIDE DEF image
  <2>3. QED
    BY <2>1, <2>2 DEF Compared, Relations
<1>2. ComparedAll(A, fails) = {image(a) : a \in A}
  BY DEF ComparedAll
<1>3. ~fails => \A a \in A : image(a).rel # "unknown"
  BY <1>1 DEF Compared
<1> HIDE DEF image
<1>4. QED
  BY <1>1, <1>2, <1>3

\* The clean that decides: of the head itself, and strictly later than every
\* other clean and every finding.
Deciding(A, s) ==
    /\ s \in A /\ s.kind = "clean" /\ s.rel = "current" /\ s.at # 0
    /\ \A d \in InScopeOf(Orderable(Cleans(A))) : d = s \/ StrictlyLater(s, d)
    /\ \A f \in ScopedFindings(A) : StrictlyLater(s, f)

LEMMA DecidingIsSelected ==
    ASSUME NEW A, NEW s, Deciding(A, s),
           \A a \in A : a.at \in Nat /\ a.source \in {"comment", "review"}
    PROVE  s \in SelectedCleans(A)
<1>1. s \in InScopeOf(Orderable(Cleans(A)))
  BY DEF Deciding, InScopeOf, Orderable, Cleans, InScope
<1>2. \A d \in A : StrictlyLater(s, d) => NewerFirst(s, d)
  BY DEF StrictlyLater, NewerFirst
<1>3. \A d \in InScopeOf(Orderable(Cleans(A))) \ {s} : NewerFirst(s, d)
  BY <1>2 DEF Deciding, InScopeOf, Orderable, Cleans
<1>4. QED
  BY <1>1, <1>3 DEF SelectedCleans

\* No errors and no findings: of the comparable and of all artifacts alike.
LEMMA ProviderIsClean ==
    ASSUME TypeInv, NEW A \in SUBSET World(Now), NEW fails \in BOOLEAN,
           NEW B, B = ComparedAll(A, fails),
           ~ProviderErrors(B), ~ProviderUnknown(B), BlockingFindings(B) = {},
           NEW s \in SelectedCleans(B), s.rel = "current"
    PROVE  Deciding(A, s)
<1>1. /\ s \in B /\ s.kind = "clean" /\ s.at # 0
      /\ \A d \in InScopeOf(Orderable(Cleans(B))) \ {s} : NewerFirst(s, d)
  BY DEF SelectedCleans, InScopeOf, Orderable, Cleans
<1>2. s \in A
  BY <1>1, ComparedIs
<1>3. \A a \in A : /\ a.at \in Nat /\ a.id \in Nat /\ a.source \in {"comment", "review"}
                   /\ a.rel # "unknown"
  BY WorldIs DEF Sources, Relations
<1>4. \A r \in SelectedCleans(B) : r = s
  <2> SUFFICES ASSUME NEW r \in SelectedCleans(B), r # s PROVE FALSE
    OBVIOUS
  <2>1. r \in B /\ NewerFirst(s, r) /\ NewerFirst(r, s)
    BY <1>1 DEF SelectedCleans, InScopeOf, Orderable, Cleans
  <2>2. r.at \in Nat /\ r.id \in Nat /\ r.source \in {"comment", "review"}
    BY <1>3, <2>1, ComparedIs
  <2>3. QED
    BY <1>2, <1>3, <2>1, <2>2 DEF NewerFirst
<1>5. ASSUME NEW d \in InScopeOf(Orderable(Cleans(A))), d # s
      PROVE  StrictlyLater(s, d)
  <2>1. d \in A /\ d.kind = "clean" /\ d.at # 0 /\ d.rel \in InScope
    BY DEF InScopeOf, Orderable, Cleans
  <2>2. PICK b \in B : /\ b.id = d.id /\ b.source = d.source /\ b.kind = d.kind /\ b.at = d.at
                       /\ (b.rel # "unknown" => b = d)
    BY <2>1, ComparedIs
  <2>3. b # s
    BY <1>2, <1>5, <2>1, <2>2, WorldIs
  <2>4. CASE b \in ClassifiedCleans(B)
    <3>1. b.rel # "unknown"
      BY <2>4 DEF ProviderUnknown
    <3>2. b = d /\ b \in InScopeOf(Orderable(Cleans(B)))
      BY <2>1, <2>2, <3>1 DEF InScopeOf, Orderable, Cleans
    <3>3. NewerFirst(s, d)
      BY <1>1, <2>3, <3>2
    <3>4. s \in ClassifiedCleans(B)
      BY <1>1, <1>4 DEF ClassifiedCleans, Cleans
    <3>5. s \in InScopeOf(ClassifiedCleans(B)) /\ d \in InScopeOf(ClassifiedCleans(B))
      BY <2>1, <2>4, <3>2, <3>4 DEF InScopeOf, InScope
    <3>6. ~Ambiguous(B)
      BY DEF ProviderErrors
    <3>7. s.at = d.at => s.source = d.source /\ s.source # "comment"
      BY <1>1, <1>5, <2>1, <3>5, <3>6 DEF Ambiguous, Orderable
    <3>8. QED
      BY <1>1, <1>2, <1>3, <2>1, <3>3, <3>7 DEF NewerFirst, StrictlyLater
  <2>5. CASE b \notin ClassifiedCleans(B)
    <3>1. ~NewerFirst(b, s) /\ b.at # s.at
      BY <1>4, <2>1, <2>2, <2>3, <2>5 DEF ClassifiedCleans, Cleans
    <3>2. QED
      BY <1>1, <1>2, <1>3, <2>1, <2>2, <3>1 DEF NewerFirst, StrictlyLater
  <2>6. QED
    BY <2>4, <2>5
<1>6. ASSUME NEW f \in ScopedFindings(A)
      PROVE  StrictlyLater(s, f)
  <2>1. f \in A /\ f.kind = "finding" /\ f.rel \in InScope
    BY DEF ScopedFindings, InScopeOf
  <2>2. PICK b \in B : b.kind = "finding" /\ (b.rel # "unknown" => b = f)
    BY <2>1, ComparedIs
  <2>3. b.rel # "unknown"
    BY <2>2 DEF ProviderUnknown
  <2>4. f \in ScopedFindings(B)
    BY <2>1, <2>2, <2>3 DEF ScopedFindings, InScopeOf
  <2>5. Superseded(B, f)
    BY <2>4 DEF BlockingFindings
  <2>6. QED
    BY <1>4, <2>5 DEF Superseded
<1>7. QED
  BY <1>1, <1>2, <1>5, <1>6 DEF Deciding

\* A clean verdict: the newest clean decides and no thread that was read is open.
LEMMA CleanVerdict ==
    ASSUME TypeInv, NEW v, v.comments \cup v.reviews \subseteq World(Now),
           NEW fault \in Faults, NEW last \in BOOLEAN, Attempted(v, fault, last) = "clean"
    PROVE  /\ \E s : Deciding(v.comments \cup v.reviews, s)
           /\ \A t \in DOMAIN v.threads : t \in v.children
           /\ \A t \in v.children : /\ t \in DOMAIN v.threads /\ t \in v.parents
                                    /\ ~v.threads[t] => log[t].rel \notin InScope
<1> DEFINE fails == fault.on = "compare"
           whole == Whole(v, fails, last)
           A == v.comments \cup v.reviews
           B == ComparedAll(A, fails)
<1>1. Settled(whole, last) = "clean"
  BY BrokenIs DEF Attempted
<1>2. ~whole.errors /\ ~whole.transient /\ ~whole.findings /\ whole.clean
  BY <1>1, SettledIs
<1>3. /\ ~ProviderErrors(B) /\ ~ProviderUnknown(B) /\ BlockingFindings(B) = {}
      /\ \E s \in SelectedCleans(B) : s.rel = "current"
      /\ ThreadsWith(v, InScope, fails) = {} /\ ThreadsWith(v, {"unknown"}, fails) = {}
      /\ ~ThreadsTransient(v)
  BY <1>2 DEF Whole
<1>4. \E s : Deciding(A, s)
  <2>1. fails \in BOOLEAN
    OBVIOUS
  <2> HIDE DEF fails
  <2>2. QED
    BY <1>3, <2>1, ProviderIsClean
<1>5. \A t \in DOMAIN v.threads : t \in v.children
  BY <1>3 DEF ThreadsTransient
<1>6. \A t \in v.children : t \in DOMAIN v.threads /\ t \in v.parents
  BY <1>3 DEF ThreadsTransient
<1>7. ASSUME NEW t \in v.children, ~v.threads[t], log[t].rel \in InScope
      PROVE  FALSE
  <2>1. t \in ThreadFindings(v)
    BY <1>6, <1>7 DEF ThreadFindings, Validated
  <2>2. Compared(log[t].rel, fails) \in InScope \cup {"unknown"}
    BY <1>7 DEF Compared
  <2>3. QED
    BY <1>3, <2>1, <2>2 DEF ThreadsWith
<1>8. QED
  BY <1>4, <1>5, <1>6, <1>7

\* A failure: a finding that no clean that was read supersedes, or an open thread.
LEMMA FailureVerdict ==
    ASSUME TypeInv, NEW v, v.comments \cup v.reviews \subseteq World(Now),
           NEW fault \in Faults, NEW last \in BOOLEAN, Attempted(v, fault, last) = "failure"
    PROVE  \/ BlockingFindings(v.comments \cup v.reviews) # {}
           \/ \E t \in DOMAIN v.threads : ~v.threads[t] /\ log[t].rel \in InScope
<1> DEFINE fails == fault.on = "compare"
           whole == Whole(v, fails, last)
           missing == ({fault.on} \cap Channels) \cup (IF v.drifted THEN {"threads"} ELSE {})
           part == Fulfilled(v, missing)
           A == v.comments \cup v.reviews
           B == ComparedAll(A, fails)
<1>1. whole.findings \/ part.findings
  BY BrokenIs, SettledIs DEF Attempted
<1>2. CASE part.findings
  <2>1. CASE ProviderComplete(missing) /\ BlockingFindings(A) # {}
    BY <2>1
  <2>2. CASE ThreadsWith(v, InScope, FALSE) # {}
    BY <2>2 DEF ThreadsWith, ThreadFindings, Validated, Compared
  <2>3. ProviderComplete(missing) => "comments" \notin missing /\ "reviews" \notin missing
    BY DEF ProviderComplete
  <2>4. QED
    BY <1>2, <2>1, <2>2, <2>3 DEF Fulfilled
<1>3. CASE whole.findings
  <2>1. BlockingFindings(B) # {} \/ ThreadsWith(v, InScope, fails) # {}
    BY <1>3 DEF Whole
  <2>2. CASE ThreadsWith(v, InScope, fails) # {}
    BY <2>2 DEF ThreadsWith, ThreadFindings, Validated, Compared, InScope
  <2>3. CASE BlockingFindings(B) # {}
    <3>1. PICK f \in ScopedFindings(B) : ~Superseded(B, f)
      BY <2>3 DEF BlockingFindings
    <3>2. fails \in BOOLEAN
      OBVIOUS
    <3> HIDE DEF fails
    <3>3. f \in B /\ f.kind = "finding" /\ f.rel \in InScope /\ f.rel # "unknown"
      BY <3>1 DEF ScopedFindings, InScopeOf, InScope
    <3>4. f \in A /\ f \in ScopedFindings(A)
      BY <3>2, <3>3, ComparedIs DEF ScopedFindings, InScopeOf
    <3>5. ASSUME NEW s \in SelectedCleans(A), s.rel = "current" PROVE s \in SelectedCleans(B)
      <4>1. s \in A /\ s \in InScopeOf(Orderable(Cleans(A)))
        BY DEF SelectedCleans, InScopeOf, Orderable, Cleans
      <4> DEFINE image(b) == b.rel = Compared(s.rel, fails) /\ (b.rel # "unknown" => b = s)
      <4>2. \E b \in ComparedAll(A, fails) : image(b)
        <5> HIDE DEF A
        <5>1. A \in SUBSET World(Now)
          BY DEF A
        <5>2. QED
          BY <3>2, <4>1, <5>1, ComparedIs
      <4>3. PICK b \in B : image(b)
        BY <4>2
      <4>4. s \in B
        BY <3>5, <4>3 DEF Compared
      <4>5. \A x \in InScopeOf(Orderable(Cleans(B))) : x \in InScopeOf(Orderable(Cleans(A)))
        <5> SUFFICES ASSUME NEW x \in InScopeOf(Orderable(Cleans(B)))
                     PROVE  x \in InScopeOf(Orderable(Cleans(A)))
          OBVIOUS
        <5>1. x \in B /\ x.rel # "unknown"
          BY DEF InScopeOf, Orderable, Cleans, InScope
        <5>2. x \in A
          BY <3>2, <5>1, ComparedIs
        <5>3. QED
          BY <5>2 DEF InScopeOf, Orderable, Cleans
      <4>6. QED
        BY <4>1, <4>4, <4>5 DEF SelectedCleans, InScopeOf, Orderable, Cleans
    <3>6. ~Superseded(A, f)
      BY <3>1, <3>5 DEF Superseded
    <3>7. QED
      BY <3>4, <3>6 DEF BlockingFindings
  <2>4. QED
    BY <2>1, <2>2, <2>3
<1>4. QED
  BY <1>1, <1>2, <1>3

-----------------------------------------------------------------------------
(* An attempt that settles.                                                *)

\* What was there when the attempt began was read, and no more than there is now.
LEMMA ReadIs ==
    ASSUME TypeInv, NEW v \in Views(since, Now)
    PROVE  /\ World(since) \subseteq v.comments \cup v.reviews
           /\ v.comments \cup v.reviews \subseteq World(Now)
           /\ SeenThreads(since) \subseteq v.children
           /\ \E m \in since..Now : v.threads = ThreadStates(m)
           /\ since = Now =>
                 /\ ~v.drifted /\ v.comments \cup v.reviews = World(Now)
                 /\ v.children = SeenThreads(Now) /\ v.parents = SeenThreads(Now)
                 /\ v.threads = ThreadStates(Now)
<1>1. PICK c \in since..Now, rc \in since..Now, r \in since..Now, m \in since..Now :
         /\ v.comments = SeenComments(c) /\ v.children = SeenThreads(rc)
         /\ v.reviews = SeenReviews(r) /\ v.parents = SeenThreads(r)
         /\ v.threads = ThreadStates(m) /\ v.drifted \in BOOLEAN
         /\ since = Now => ~v.drifted
  <2> HIDE DEF Now
  <2>1. QED
    BY ViewIs
<1>2. /\ since \in Nat /\ Now \in Nat /\ since \in 0..Now /\ Now \in 0..Now
      /\ \A k \in since..Now : k \in 0..Now /\ k \in Nat /\ since <= k /\ k <= Now
  BY EntriesAre DEF TypeInv, Now
<1>3. \A k \in since..Now :
         /\ SeenComments(since) \subseteq SeenComments(k) /\ SeenComments(k) \subseteq SeenComments(Now)
         /\ SeenReviews(since) \subseteq SeenReviews(k) /\ SeenReviews(k) \subseteq SeenReviews(Now)
         /\ SeenThreads(since) \subseteq SeenThreads(k)
  BY <1>2, SeenGrows DEF Now
<1>4. since = Now => c = Now /\ rc = Now /\ r = Now /\ m = Now
  BY <1>2
<1> HIDE DEF Now
<1>5. World(since) \subseteq v.comments \cup v.reviews
      /\ v.comments \cup v.reviews \subseteq World(Now)
  BY <1>1, <1>3 DEF World
<1>6. SeenThreads(since) \subseteq v.children
  BY <1>1, <1>3
<1>7. since = Now => /\ ~v.drifted /\ v.comments \cup v.reviews = World(Now)
                     /\ v.children = SeenThreads(Now) /\ v.parents = SeenThreads(Now)
                     /\ v.threads = ThreadStates(Now)
  BY <1>1, <1>4 DEF World
<1>8. QED
  BY <1>1, <1>5, <1>6, <1>7

LEMMA StatesAre ==
    ASSUME NEW m
    PROVE  /\ DOMAIN ThreadStates(m) = SeenThreads(m)
           /\ \A t \in SeenThreads(m) : ThreadStates(m)[t] = Resolved(t, m)
BY DEF ThreadStates

\* A finding that stands in what was read stood at some moment of the reading.
LEMMA FindingStood ==
    ASSUME TypeInv, TimesGrow, NEW A \in SUBSET World(Now), World(since) \subseteq A,
           NEW f \in BlockingFindings(A)
    PROVE  \E m \in since..Now : f \in ScopedFindings(World(m)) /\ ~Forgiven(f, World(m))
<1>1. f \in A /\ f.kind = "finding" /\ f.rel \in InScope /\ ~Superseded(A, f)
  BY DEF BlockingFindings, ScopedFindings, InScopeOf
<1>2. /\ since \in Nat /\ Now \in Nat /\ since <= Now /\ f.id \in 1..Now
      /\ since \in 0..Now /\ Now \in 0..Now
  BY <1>1, WorldIs DEF TypeInv, Now
<1>3. ASSUME NEW a \in World(Now), NEW m \in since..Now, a.id <= m
      PROVE  a \in World(m)
  <2>1. a.id \in 1..Now /\ log[a.id].type = "post" /\ a = Artifact(a.id)
    BY WorldIs
  <2>2. a.id \in 1..m /\ m \in 0..Len(log)
    BY <1>2, <1>3, <2>1 DEF Now
  <2>3. QED
    BY <2>1, <2>2, SeenIs
<1>4. ASSUME NEW m \in since..Now, NEW a \in World(m)
      PROVE  a \in World(Now) /\ a.id <= m /\ a.id \in Nat
  <2>1. m \in 0..Len(log) /\ Now \in 0..Len(log) /\ m <= Now /\ m \in Nat
    BY <1>2 DEF Now
  <2>2. a.id \in 1..m /\ World(m) \subseteq World(Now)
    BY <2>1, SeenIs, SeenGrows
  <2>3. QED
    BY <2>1, <2>2
<1>5. ASSUME NEW a \in World(Now), NEW b \in World(Now), a.id <= b.id
      PROVE  ~StrictlyLater(a, b)
  BY <1>5, EarlierIsNotLater DEF Now
<1>6. CASE f.id > since
  <2>1. f.id \in since..Now /\ f.id <= f.id
    BY <1>2, <1>6
  <2>2. f \in ScopedFindings(World(f.id))
    BY <1>1, <1>3, <2>1 DEF ScopedFindings, InScopeOf
  <2>3. \A c \in World(f.id) : ~StrictlyLater(c, f)
    BY <1>1, <1>4, <1>5, <2>1
  <2>4. ~Forgiven(f, World(f.id))
    BY <2>3 DEF Forgiven, Cleans
  <2>5. QED
    BY <2>1, <2>2, <2>4
<1>7. CASE ~(f.id > since)
  <2>1. since \in since..Now /\ f.id <= since
    BY <1>2, <1>7
  <2>2. f \in World(since) /\ f \in ScopedFindings(World(since))
    BY <1>1, <1>3, <2>1 DEF ScopedFindings, InScopeOf
  <2>3. CASE ~Forgiven(f, World(since))
    BY <2>1, <2>2, <2>3
  <2>4. CASE Forgiven(f, World(since))
    <3>1. PICK c \in Cleans(World(since)) :
             /\ c.rel = "current" /\ StrictlyLater(c, f)
             /\ \A d \in InScopeOf(Orderable(Cleans(World(since)))) : d = c \/ StrictlyLater(c, d)
      BY <2>4 DEF Forgiven
    <3>2. c \in InScopeOf(Orderable(Cleans(A)))
      BY <3>1 DEF InScopeOf, Orderable, Cleans, InScope, StrictlyLater
    <3>3. PICK s \in SelectedCleans(A) : TRUE
      BY <3>2, NewestExists
    <3>4. /\ s \in A /\ s.kind = "clean" /\ s.at # 0 /\ s.rel \in InScope
          /\ s = c \/ NewerFirst(s, c)
      BY <3>2 DEF SelectedCleans, InScopeOf, Orderable, Cleans
    <3>5. s \notin World(since)
      <4> SUFFICES ASSUME s \in World(since) PROVE FALSE
        OBVIOUS
      <4>1. s = c \/ StrictlyLater(c, s)
        BY <3>1, <3>4 DEF InScopeOf, Orderable, Cleans
      <4>2. s # c
        BY <1>1, <3>1, <3>3 DEF Superseded
      <4>3. c \in A
        BY <3>1 DEF Cleans
      <4>4. s.at \in Nat /\ c.at \in Nat /\ s.id \in Nat /\ c.id \in Nat
        BY <3>4, <4>3, WorldIs
      <4>5. QED
        BY <3>4, <4>1, <4>2, <4>4 DEF NewerFirst, StrictlyLater
    <3>6. s.id \in since..Now /\ s.id > since
      <4>1. s.id \in 1..Now /\ s.id \in Nat
        BY <3>4, WorldIs
      <4>2. ~(s.id <= since)
        BY <1>3, <2>1, <3>4, <3>5
      <4>3. QED
        BY <1>2, <4>1, <4>2
    <3>7. s \in World(s.id) /\ f \in World(s.id) /\ f \in ScopedFindings(World(s.id))
      <4>1. s.id <= s.id /\ f.id <= s.id
        BY <1>2, <2>1, <3>6
      <4>2. QED
        BY <1>1, <1>3, <3>4, <3>6, <4>1 DEF ScopedFindings, InScopeOf
    <3>8. ~Forgiven(f, World(s.id))
      <4> SUFFICES ASSUME NEW d \in World(s.id), d.rel = "current", StrictlyLater(d, f),
                          s = d \/ StrictlyLater(d, s)
                   PROVE  FALSE
        BY <3>4, <3>7 DEF Forgiven, InScopeOf, Orderable, Cleans
      <4>1. ~StrictlyLater(d, s)
        BY <1>4, <1>5, <3>4, <3>6
      <4>2. s = d
        BY <4>1
      <4>3. QED
        BY <1>1, <4>2 DEF Superseded
    <3>9. QED
      BY <3>6, <3>7, <3>8
  <2>5. QED
    BY <2>3, <2>4
<1>8. QED
  BY <1>6, <1>7

LEMMA FailureIsTrue ==
    ASSUME TypeInv, TimesGrow, NEW v \in Views(since, Now), NEW fault \in Faults,
           NEW last \in BOOLEAN, Attempted(v, fault, last) = "failure"
    PROVE  \E m \in since..Now : Blocking(m) # {}
<1> DEFINE A == v.comments \cup v.reviews
<1>1. World(since) \subseteq A /\ A \subseteq World(Now)
  BY ReadIs
<1>2. PICK n \in since..Now : v.threads = ThreadStates(n)
  BY ReadIs
<1>3. \/ BlockingFindings(A) # {}
      \/ \E t \in DOMAIN v.threads : ~v.threads[t] /\ log[t].rel \in InScope
  BY <1>1, FailureVerdict
<1>4. CASE BlockingFindings(A) # {}
  <2>1. PICK f \in BlockingFindings(A) : TRUE
    BY <1>4
  <2>2. \E m \in since..Now : f \in ScopedFindings(World(m)) /\ ~Forgiven(f, World(m))
    <3> HIDE DEF A
    <3>1. QED
      BY <1>1, <2>1, FindingStood
  <2>3. QED
    BY <2>2 DEF Blocking
<1>5. CASE \E t \in DOMAIN v.threads : ~v.threads[t] /\ log[t].rel \in InScope
  <2>1. PICK t \in SeenThreads(n) : ~Resolved(t, n) /\ log[t].rel \in InScope
    BY <1>2, <1>5, StatesAre
  <2>2. Blocking(n) # {}
    BY <2>1 DEF Blocking, Open
  <2>3. QED
    BY <2>2
<1>6. QED
  BY <1>3, <1>4, <1>5

\* Two whole readings whose selected cleans are the same: the deciding clean was
\* there when the second one began, and so were the findings it supersedes.
LEMMA SecondReading ==
    ASSUME TypeInv, NEW v \in Views(since, Now), NEW fault \in Faults, NEW last \in BOOLEAN,
           Attempted(v, fault, last) = "clean",
           SelectedCleans(v.comments \cup v.reviews) \subseteq World(since)
    PROVE  /\ Blocking(since) = Open(since)
           /\ \E s \in SelectedCleans(World(since)) : s.rel = "current"
           /\ \E n \in since..Now : \A t \in SeenThreads(since) :
                 log[t].rel \in InScope => Resolved(t, n)
<1> DEFINE A == v.comments \cup v.reviews
<1>1. /\ World(since) \subseteq A /\ A \subseteq World(Now)
      /\ SeenThreads(since) \subseteq v.children
  BY ReadIs
<1>2. PICK n \in since..Now : v.threads = ThreadStates(n)
  BY ReadIs
<1>3. /\ \E s : Deciding(A, s)
      /\ \A t \in v.children : /\ t \in DOMAIN v.threads
                               /\ ~v.threads[t] => log[t].rel \notin InScope
  BY <1>1, CleanVerdict
<1>4. PICK s : Deciding(A, s)
  BY <1>3
<1>5. \A a \in World(Now) : a.at \in Nat /\ a.source \in {"comment", "review"}
  BY WorldIs DEF Sources
<1> HIDE DEF A
<1>6. s \in SelectedCleans(A)
  BY <1>1, <1>4, <1>5, DecidingIsSelected
<1>7. s \in World(since) /\ World(since) \subseteq World(Now)
  BY <1>1, <1>6 DEF A
<1>8. Deciding(World(since), s)
  BY <1>1, <1>4, <1>7 DEF Deciding, InScopeOf, Orderable, Cleans, ScopedFindings
<1>9. s \in SelectedCleans(World(since)) /\ s.rel = "current"
  BY <1>5, <1>7, <1>8, DecidingIsSelected DEF Deciding
<1>10. \A f \in ScopedFindings(World(since)) : Forgiven(f, World(since))
  BY <1>8 DEF Deciding, Forgiven, Cleans
<1>11. Blocking(since) = Open(since)
  BY <1>10 DEF Blocking
<1>12. ASSUME NEW t \in SeenThreads(since), log[t].rel \in InScope PROVE Resolved(t, n)
  <2>1. t \in DOMAIN v.threads /\ v.threads[t]
    BY <1>1, <1>3, <1>12
  <2>2. QED
    BY <1>2, <2>1, StatesAre
<1>13. QED
  BY <1>9, <1>11, <1>12

\* The first clean reading makes FirstWasClean.
LEMMA FirstReading ==
    ASSUME TypeInv, NEW v \in Views(since, Now), NEW fault \in Faults, NEW last \in BOOLEAN,
           Attempted(v, fault, last) = "clean"
    PROVE  /\ SelectedCleans(v.comments \cup v.reviews) \subseteq World(Now)
           /\ \E m \in began..Now :
                 \A t \in SeenThreads(began) : log[t].rel \in InScope => Resolved(t, m)
<1> DEFINE A == v.comments \cup v.reviews
<1>1. A \subseteq World(Now) /\ SeenThreads(since) \subseteq v.children
  BY ReadIs
<1>2. PICK n \in since..Now : v.threads = ThreadStates(n)
  BY ReadIs
<1>3. \A t \in v.children : t \in DOMAIN v.threads /\ (~v.threads[t] => log[t].rel \notin InScope)
  BY <1>1, CleanVerdict
<1>4. began \in 0..Len(log) /\ since \in 0..Len(log) /\ began <= since /\ n \in began..Now
  BY <1>2, EntriesAre DEF TypeInv, Now
<1>5. SeenThreads(began) \subseteq v.children
  BY <1>1, <1>4, SeenGrows
<1>6. ASSUME NEW t \in SeenThreads(began), log[t].rel \in InScope PROVE Resolved(t, n)
  <2>1. t \in DOMAIN v.threads /\ v.threads[t]
    BY <1>3, <1>5, <1>6
  <2>2. QED
    BY <1>2, <2>1, StatesAre
<1>7. SelectedCleans(A) \subseteq World(Now)
  BY <1>1 DEF SelectedCleans, InScopeOf, Orderable, Cleans
<1>8. QED
  BY <1>4, <1>6, <1>7

\* Success in the second reading.
LEMMA SuccessIsTrue ==
    ASSUME TypeInv, FirstWasClean, phase = "final",
           NEW v \in Views(since, Now), NEW fault \in Faults, NEW last \in BOOLEAN,
           Attempted(v, fault, last) = "clean",
           SelectedCleans(v.comments \cup v.reviews) = certified.selected
    PROVE  /\ \A i \in 1..Now : \E m \in since..Now : i \notin Blocking(m)
           /\ (\A i \in began + 1..Now : log[i].type \in {"post", "resolve"}) =>
                 \E m \in began..Now :
                    Blocking(m) = {} /\ \E s \in SelectedCleans(World(m)) : s.rel = "current"
<1>1. SelectedCleans(v.comments \cup v.reviews) \subseteq World(since)
  BY DEF FirstWasClean
<1>2. /\ Blocking(since) = Open(since)
      /\ \E s \in SelectedCleans(World(since)) : s.rel = "current"
      /\ \E n \in since..Now : \A t \in SeenThreads(since) :
            log[t].rel \in InScope => Resolved(t, n)
  BY <1>1, SecondReading
<1>3. PICK n \in since..Now : \A t \in SeenThreads(since) :
         log[t].rel \in InScope => Resolved(t, n)
  BY <1>2
<1>4. /\ began \in Nat /\ since \in Nat /\ Now \in Nat /\ began <= since /\ since <= Now
      /\ began \in 0..Len(log) /\ since \in 0..Len(log) /\ n \in 0..Len(log)
      /\ since \in since..Now /\ since \in began..Now
  BY <1>3, EntriesAre DEF TypeInv, Now
<1>5. ASSUME NEW i \in 1..Now PROVE \E m \in since..Now : i \notin Blocking(m)
  <2>1. CASE i \notin Open(since)
    BY <1>2, <1>4, <2>1
  <2>2. CASE i \in Open(since)
    <3>1. i \in SeenThreads(since) /\ log[i].rel \in InScope /\ log[i].type = "thread"
      BY <1>4, <2>2, SeenIs DEF Open
    <3>2. i \notin Open(n)
      BY <1>3, <3>1 DEF Open
    <3>3. \A f \in World(n) : log[f.id].type = "post"
      BY <1>4, SeenIs
    <3>4. \A f \in ScopedFindings(World(n)) : f.id # i
      BY <3>1, <3>3 DEF ScopedFindings, InScopeOf
    <3>5. i \notin Blocking(n)
      BY <3>2, <3>4 DEF Blocking
    <3>6. QED
      BY <1>3, <3>5
  <2>3. QED
    BY <2>1, <2>2
<1>6. ASSUME \A i \in began + 1..Now : log[i].type \in {"post", "resolve"}
      PROVE  Open(since) = {}
  <2>1. PICK m \in began..since :
           \A t \in SeenThreads(began) : log[t].rel \in InScope => Resolved(t, m)
    BY DEF FirstWasClean
  <2>2. m \in 0..Len(log) /\ m \in Nat /\ m <= since
    BY <1>4, <2>1
  <2>3. \A i \in m + 1..since : log[i].type # "reopen"
    <3>1. \A i \in m + 1..since : i \in began + 1..Now
      BY <1>4, <2>1
    <3>2. QED
      BY <1>6, <3>1
  <2> SUFFICES ASSUME NEW t \in SeenThreads(since), log[t].rel \in InScope
               PROVE  Resolved(t, since)
    BY DEF Open
  <2>4. t \in 1..since /\ log[t].type = "thread"
    BY <1>4, SeenIs
  <2>5. t \in 1..began
    <3>1. t \notin began + 1..Now
      BY <1>6, <2>4
    <3>2. QED
      BY <1>4, <2>4, <3>1
  <2>6. t \in SeenThreads(began)
    BY <2>4, <2>5 DEF SeenThreads, Upto
  <2>7. Resolved(t, m)
    BY <2>1, <2>6
  <2>8. QED
    BY <1>4, <2>2, <2>3, <2>7, ResolvedStays
<1>7. QED
  BY <1>2, <1>4, <1>5, <1>6

\* Nothing happens and nothing fails: the reading is what there is.
LEMMA QuietReading ==
    ASSUME TypeInv, Now = began, Readable(began), NEW v \in Views(since, Now),
           NEW last \in BOOLEAN
    PROVE  /\ Attempted(v, NoFault, last) \in {"clean", "pending", "failure"}
           /\ Attempted(v, NoFault, last) = "clean" <=> CleanAt(began)
           /\ v.comments \cup v.reviews = World(began)
<1> DEFINE A == World(Now)
           whole == Whole(v, FALSE, last)
<1>1. since = Now /\ since = began
  BY EntriesAre DEF TypeInv, Now
<1>2. /\ ~v.drifted /\ v.comments \cup v.reviews = A
      /\ v.children = SeenThreads(Now) /\ v.parents = SeenThreads(Now)
      /\ v.threads = ThreadStates(Now)
  BY <1>1, ReadIs
<1>3. DOMAIN v.threads = SeenThreads(Now)
      /\ \A t \in SeenThreads(Now) : v.threads[t] = Resolved(t, Now)
  BY <1>2, StatesAre
<1>4. ~ThreadsTransient(v) /\ Childless(v) = {}
      /\ ThreadFindings(v) = {t \in SeenThreads(Now) : ~Resolved(t, Now)}
  BY <1>2, <1>3 DEF ThreadsTransient, Childless, ThreadFindings, Validated
<1>5. /\ \A a \in A : /\ a.kind # "malformed" /\ a.rel # "invalid" /\ a.at # 0
                      /\ a.rel # "unknown"
                      /\ \A b \in A \ {a} : a.at # b.at
      /\ \A t \in SeenThreads(Now) : log[t].rel # "invalid" /\ log[t].rel # "unknown"
  <2>1. \A a \in A : a.rel # "unknown"
    BY WorldIs DEF Relations
  <2>2. \A t \in SeenThreads(Now) : log[t].rel # "unknown"
    <3>1. \A t \in SeenThreads(Now) : t \in 1..Len(log) /\ log[t].type = "thread"
      BY WorldIs, SeenIs DEF Now
    <3>2. QED
      BY <3>1, EntriesAre DEF Relations
  <2>3. Readable(Now)
    BY <1>1
  <2> HIDE DEF Now
  <2>4. QED
    BY <2>1, <2>2, <2>3 DEF Readable
<1>6. ComparedAll(A, FALSE) = A
  BY ComparedIs
<1> HIDE DEF A
<1>7. ~ProviderErrors(A) /\ ~ProviderUnknown(A)
  <2>1. /\ ClassifiedCleans(A) \subseteq A
        /\ Orderable(ScopedFindings(A) \cup InScopeOf(ClassifiedCleans(A))) \subseteq A
    BY DEF ClassifiedCleans, Cleans, Orderable, ScopedFindings, InScopeOf
  <2>2. ~Ambiguous(A)
    BY <1>5, <2>1 DEF Ambiguous
  <2>3. QED
    BY <1>5, <2>1, <2>2 DEF ProviderErrors, ProviderUnknown
<1>8. /\ ThreadsWith(v, {"invalid"}, FALSE) = {} /\ ThreadsWith(v, {"unknown"}, FALSE) = {}
      /\ ThreadsWith(v, InScope, FALSE) = Open(Now)
  BY <1>4, <1>5 DEF ThreadsWith, Compared, Open
<1>9. /\ ~whole.errors /\ ~whole.transient
      /\ whole.findings = (BlockingFindings(A) # {} \/ Open(Now) # {})
      /\ whole.clean = \E s \in SelectedCleans(A) : s.rel = "current"
  BY <1>2, <1>4, <1>6, <1>7, <1>8 DEF Whole
<1>10. Attempted(v, NoFault, last) = Settled(whole, last)
  BY <1>2 DEF Attempted, NoFault, Channels
<1> HIDE DEF whole
<1>11. Settled(whole, last) = IF whole.findings THEN "failure"
                              ELSE IF whole.clean THEN "clean" ELSE "pending"
  BY <1>9 DEF Settled
<1>12. CleanAt(began) = (~whole.findings /\ whole.clean)
  BY <1>1, <1>9 DEF CleanAt, A
<1>13. QED
  BY <1>1, <1>2, <1>10, <1>11, <1>12 DEF A

-----------------------------------------------------------------------------
(* The actions.                                                            *)

LEMMA LastIs ==
    ASSUME TypeInv
    PROVE  LastAt \in Nat /\ (log # <<>> => LastAt = log[Len(log)].at /\ Len(log) \in 1..Len(log))
<1>1. log # <<>> => Len(log) \in 1..Len(log)
  BY DEF TypeInv
<1>2. QED
  BY <1>1, EntriesAre DEF LastAt

\* Something happens while the run goes on.
LEMMA HappensInv ==
    ASSUME Inv, NEW E \in SUBSET Entries, \A e \in E : LastAt <= e.at, Happens(E)
    PROVE  Inv'
<1> USE DEF Inv
<1>1. PICK e \in E : log' = Append(log, e)
  BY DEF Happens
<1>2. /\ phase # "done" /\ outcome = "none"
      /\ phase' = phase /\ since' = since /\ began' = began /\ faults' = faults
      /\ certified' = certified /\ outcome' = outcome
  BY DEF Happens, runVars, TypeInv
<1>3. /\ log \in Seq(Entries) /\ e \in Entries /\ Len(log) \in Nat /\ e.at \in Nat
      /\ log' \in Seq(Entries) /\ Len(log') = Len(log) + 1 /\ log'[Len(log) + 1] = e
      /\ \A i \in 1..Len(log) : log'[i] = log[i]
  <2>1. log \in Seq(Entries) /\ e \in Entries
    BY DEF TypeInv
  <2>2. e.at \in Nat
    BY <2>1 DEF Entries, Posts, Threads, Moves, Times
  <2>3. QED
    BY <1>1, <2>1, <2>2
<1>4. TypeInv'
  BY <1>2, <1>3 DEF TypeInv
<1>5. TimesGrow'
  <2> SUFFICES ASSUME NEW i \in 1..Len(log) + 1, NEW j \in 1..Len(log) + 1, i <= j
               PROVE  log'[i].at <= log'[j].at
    BY <1>3 DEF TimesGrow
  <2>1. CASE j \in 1..Len(log)
    <3>1. i \in 1..Len(log)
      BY <1>3, <2>1
    <3>2. QED
      BY <1>3, <2>1, <3>1 DEF TimesGrow
  <2>2. CASE i \in 1..Len(log) /\ j \notin 1..Len(log)
    <3>1. j = Len(log) + 1
      BY <1>3, <2>2
    <3>2. Len(log) \in 1..Len(log) /\ log # <<>> /\ i <= Len(log)
      BY <1>3, <2>2
    <3>3. log[i].at <= log[Len(log)].at
      BY <2>2, <3>2 DEF TimesGrow
    <3>4. log[Len(log)].at <= e.at
      BY <3>2, LastIs
    <3>5. log[i].at \in Nat /\ log[Len(log)].at \in Nat
      BY <2>2, <3>2, EntriesAre
    <3>6. QED
      BY <1>3, <2>2, <3>1, <3>3, <3>4, <3>5
  <2>3. CASE i \notin 1..Len(log)
    <3>1. i = Len(log) + 1 /\ j = Len(log) + 1
      BY <1>3, <2>3
    <3>2. QED
      BY <1>3, <3>1
  <2>4. QED
    BY <2>1, <2>2, <2>3
<1>6. FirstWasClean'
  <2> SUFFICES ASSUME phase = "final" PROVE FirstWasClean'
    BY <1>2 DEF FirstWasClean
  <2>1. since \in 0..Len(log) /\ began \in 0..Len(log)
    BY <1>3 DEF TypeInv
  <2>2. certified.selected \subseteq World(since)
    BY DEF FirstWasClean
  <2>3. PICK m \in began..since :
           \A t \in SeenThreads(began) : log[t].rel \in InScope => Resolved(t, m)
    BY DEF FirstWasClean
  <2>4. m \in 0..Len(log)
    BY <2>1, <2>3
  <2>5. World(since)' = World(since)
    BY <1>2, <1>3, <2>1, PastIsKept
  <2>6. SeenThreads(began)' = SeenThreads(began)
        /\ \A t \in SeenThreads(began) : log'[t] = log[t]
    BY <1>2, <1>3, <2>1, PastIsKept
  <2>7. \A t : Resolved(t, m)' = Resolved(t, m)
    BY <1>3, <2>4, PastIsKept
  <2>8. QED
    BY <1>2, <2>2, <2>3, <2>5, <2>6, <2>7 DEF FirstWasClean
<1>7. QuietIsDecided'
  BY <1>2, <1>3 DEF QuietIsDecided, TypeInv
<1>8. FailureWasTrue' /\ StandingFindingBlocks' /\ SuccessWasTrue'
  BY <1>2 DEF FailureWasTrue, StandingFindingBlocks, SuccessWasTrue
<1>9. QED
  BY <1>4, <1>5, <1>6, <1>7, <1>8

LEMMA WorldActs ==
    ASSUME Inv, CodexPosts \/ CodexOpensThread \/ PeopleResolve \/ PeopleReopen
    PROVE  Inv'
<1>1. TypeInv
  BY DEF Inv
<1>2. LastAt \in Nat /\ Len(log) \in 0..Len(log) /\ Len(log) \in Nat
  BY <1>1, LastIs, EntriesAre
<1>3. SeenThreads(Len(log)) \subseteq Nat
  BY <1>1, <1>2, SeenIs
<1>4. CASE CodexPosts
  <2> DEFINE E == [type : {"post"}, at : Seconds,
                   shape : Shapes \cup {s \in RareShapes : \A i \in Upto(Len(log), "post") :
                                                              log[i].shape \notin RareShapes}]
  <2>1. \A s \in Seconds : s \in Nat /\ LastAt <= s
    BY <1>2, GapsAssumption DEF Seconds
  <2>2. E \in SUBSET Entries
    BY <2>1 DEF Entries, Posts, Times
  <2>3. \A e \in E : LastAt <= e.at
    BY <2>1
  <2>4. Happens(E)
    BY <1>4 DEF CodexPosts
  <2> HIDE DEF E
  <2>5. QED
    BY <2>2, <2>3, <2>4, HappensInv
<1>5. CASE CodexOpensThread
  <2> DEFINE E == [type : {"thread"}, rel : ThreadRels, at : {LastAt}]
  <2>1. E \in SUBSET Entries /\ \A e \in E : LastAt <= e.at
    BY <1>2 DEF Entries, Threads, Times
  <2>2. Happens(E)
    BY <1>5 DEF CodexOpensThread
  <2> HIDE DEF E
  <2>3. QED
    BY <2>1, <2>2, HappensInv
<1>6. CASE PeopleResolve
  <2> DEFINE E == [type : {"resolve"},
                   on : {t \in SeenThreads(Len(log)) : ~Resolved(t, Len(log))}, at : {LastAt}]
  <2>1. E \in SUBSET Entries /\ \A e \in E : LastAt <= e.at
    BY <1>2, <1>3 DEF Entries, Moves, Times
  <2>2. Happens(E)
    BY <1>6 DEF PeopleResolve
  <2> HIDE DEF E
  <2>3. QED
    BY <2>1, <2>2, HappensInv
<1>7. CASE PeopleReopen
  <2> DEFINE E == [type : {"reopen"},
                   on : {t \in SeenThreads(Len(log)) : Resolved(t, Len(log))}, at : {LastAt}]
  <2>1. E \in SUBSET Entries /\ \A e \in E : LastAt <= e.at
    BY <1>2, <1>3 DEF Entries, Moves, Times
  <2>2. Happens(E)
    BY <1>7 DEF PeopleReopen
  <2> HIDE DEF E
  <2>3. QED
    BY <2>1, <2>2, HappensInv
<1>8. QED
  BY <1>4, <1>5, <1>6, <1>7

LEMMA StartInv ==
    ASSUME Inv, Start PROVE Inv'
<1> USE DEF Inv, Start
<1>1. /\ phase' = "first" /\ since' = Len(log) /\ began' = Len(log) /\ log' = log
      /\ outcome' = "none" /\ faults' = faults
  BY DEF TypeInv
<1>2. TypeInv'
  BY <1>1 DEF TypeInv
<1>3. TimesGrow'
  BY <1>1 DEF TimesGrow
<1>4. FirstWasClean' /\ QuietIsDecided'
  BY <1>1 DEF FirstWasClean, QuietIsDecided
<1>5. FailureWasTrue' /\ StandingFindingBlocks' /\ SuccessWasTrue'
  BY <1>1 DEF FailureWasTrue, StandingFindingBlocks, SuccessWasTrue
<1>6. QED
  BY <1>2, <1>3, <1>4, <1>5

LEMMA VerdictIsOneOf ==
    ASSUME NEW v, NEW fault, NEW last \in BOOLEAN
    PROVE  Attempted(v, fault, last) \in {"clean", "pending", "failure", "error", "retry"}
<1>1. \A e : Settled(e, last) \in {"clean", "pending", "failure", "error", "retry"}
  BY DEF Settled
<1>2. \A e : Broken(e, fault.deterministic, last)
                \in {"clean", "pending", "failure", "error", "retry"}
  BY BrokenIs
<1>3. QED
  BY <1>1, <1>2 DEF Attempted

\* With the log as it is, only the run's own variables change what is said of it.
LEMMA SameLog ==
    ASSUME log' = log
    PROVE  /\ \A m : /\ World(m)' = World(m) /\ SeenThreads(m)' = SeenThreads(m)
                     /\ Open(m)' = Open(m) /\ Blocking(m)' = Blocking(m)
                     /\ CleanAt(m)' = CleanAt(m) /\ Readable(m)' = Readable(m)
           /\ \A m, t : Resolved(t, m)' = Resolved(t, m)
<1>1. ASSUME NEW m, NEW t PROVE Resolved(t, m)' = Resolved(t, m)
  BY DEF Resolved
<1>2. ASSUME NEW m PROVE World(m)' = World(m) /\ SeenThreads(m)' = SeenThreads(m)
  <2>1. \A i : Artifact(i)' = Artifact(i)
    BY DEF Artifact
  <2>2. Upto(m, "post")' = Upto(m, "post") /\ Upto(m, "thread")' = Upto(m, "thread")
    BY DEF Upto
  <2>3. SeenComments(m)' = SeenComments(m) /\ SeenReviews(m)' = SeenReviews(m)
    BY <2>1, <2>2 DEF SeenComments, SeenReviews
  <2>4. QED
    BY <2>2, <2>3 DEF World, SeenThreads
<1>3. ASSUME NEW m PROVE Open(m)' = Open(m)
  BY <1>1, <1>2 DEF Open
<1>4. ASSUME NEW m PROVE Blocking(m)' = Blocking(m)
  BY <1>2, <1>3 DEF Blocking
<1>5. ASSUME NEW m PROVE CleanAt(m)' = CleanAt(m)
  BY <1>2, <1>3 DEF CleanAt
<1>6. ASSUME NEW m PROVE Readable(m)' = Readable(m)
  BY <1>2 DEF Readable
<1>7. QED
  BY <1>1, <1>2, <1>3, <1>4, <1>5, <1>6

LEMMA CertificateIs ==
    ASSUME TypeInv, NEW v \in Views(since, Now)
    PROVE  Whole(v, FALSE, FALSE).certificate = Certificate(v.comments \cup v.reviews)
<1>1. v.comments \cup v.reviews \subseteq World(Now)
  BY ReadIs
<1>2. ComparedAll(v.comments \cup v.reviews, FALSE) = v.comments \cup v.reviews
  BY <1>1, ComparedIs
<1>3. QED
  BY <1>2 DEF Whole

LEMMA SettleInv ==
    ASSUME Inv, Settle PROVE Inv'
<1> USE DEF Inv
<1>1. PICK v \in Views(since, Len(log)),
           fault \in IF faults < MaxFaults THEN Faults ELSE {NoFault} :
         /\ faults' = faults + (IF fault = NoFault THEN 0 ELSE 1)
         /\ IF Attempted(v, fault, LastAttempt) = "retry"
            THEN /\ attempt' = attempt + 1 /\ since' = Len(log)
                 /\ UNCHANGED <<phase, certified, outcome>>
            ELSE Decide(Attempted(v, fault, LastAttempt), Whole(v, FALSE, FALSE).certificate)
  BY DEF Settle
<1> DEFINE A == v.comments \cup v.reviews
           said == Attempted(v, fault, LastAttempt)
<1>2. /\ phase \in {"first", "final"} /\ outcome = "none"
      /\ log' = log /\ began' = began
  BY DEF Settle, TypeInv
<1>3. /\ v \in Views(since, Now) /\ fault \in Faults /\ LastAttempt \in BOOLEAN
      /\ faults' \in Nat /\ (faults' = 0 => faults = 0 /\ fault = NoFault)
  <2>1. NoFault \in Faults
    BY DEF Faults
  <2>2. fault \in Faults
    BY <1>1, <2>1
  <2>3. faults \in Nat
    BY DEF TypeInv
  <2>4. fault = NoFault => faults' = faults
    BY <1>1, <2>3
  <2>5. fault # NoFault => faults' = faults + 1
    BY <1>1
  <2>6. faults' \in Nat /\ (faults' = 0 => faults = 0 /\ fault = NoFault)
    BY <2>3, <2>4, <2>5
  <2>7. QED
    BY <1>1, <2>2, <2>6 DEF LastAttempt, Now
<1>4. /\ began \in Nat /\ since \in Nat /\ Now \in Nat /\ began <= since /\ since <= Now
      /\ Now = Len(log) /\ since \in 0..Len(log) /\ Now \in 0..Len(log)
  BY EntriesAre DEF TypeInv, Now
<1>5. said \in {"clean", "pending", "failure", "error", "retry"}
  BY <1>3, VerdictIsOneOf
<1>6. Whole(v, FALSE, FALSE).certificate = Certificate(A)
  BY <1>3, CertificateIs
<1>7. TimesGrow'
  BY <1>2 DEF TimesGrow
<1>8. World(since) \subseteq World(Now)
  BY <1>4, SeenGrows
<1> HIDE DEF A, said
<1>9. CASE said = "retry"
  <2>1. phase' = phase /\ since' = Now /\ certified' = certified /\ outcome' = "none"
    BY <1>1, <1>2, <1>4, <1>9 DEF said
  <2>2. TypeInv'
    BY <1>2, <1>3, <1>4, <2>1 DEF TypeInv
  <2>3. FirstWasClean'
    <3> SUFFICES ASSUME phase = "final" PROVE FirstWasClean'
      BY <2>1 DEF FirstWasClean
    <3>1. certified.selected \subseteq World(Now)
      BY <1>8 DEF FirstWasClean
    <3>2. PICK m \in began..since :
             \A t \in SeenThreads(began) : log[t].rel \in InScope => Resolved(t, m)
      BY DEF FirstWasClean
    <3>3. m \in began..Now
      BY <1>4, <3>2
    <3>4. /\ World(since)' = World(Now) /\ SeenThreads(began)' = SeenThreads(began)
          /\ \A t : Resolved(t, m)' = Resolved(t, m)
      BY <1>2, <2>1, SameLog
    <3>5. QED
      BY <1>2, <2>1, <3>1, <3>2, <3>3, <3>4 DEF FirstWasClean
  <2>4. QuietIsDecided'
    <3>1. CleanAt(began)' = CleanAt(began) /\ Readable(began)' = Readable(began)
          /\ World(began)' = World(began)
      BY <1>2, SameLog
    <3>2. Certificate(World(began))' = Certificate(World(began))
      BY <3>1 DEF Certificate
    <3>3. phase' # "done"
      BY <1>2, <2>1
    <3>4. QED
      BY <1>2, <1>3, <2>1, <3>1, <3>2, <3>3 DEF QuietIsDecided
  <2>5. FailureWasTrue' /\ StandingFindingBlocks' /\ SuccessWasTrue'
    BY <2>1 DEF FailureWasTrue, StandingFindingBlocks, SuccessWasTrue
  <2>6. QED
    BY <1>7, <2>2, <2>3, <2>4, <2>5
<1>10. CASE phase = "first" /\ said = "clean"
  <2>1. phase' = "final" /\ since' = Now /\ certified' = Certificate(A) /\ outcome' = "none"
    BY <1>1, <1>2, <1>4, <1>6, <1>10 DEF Decide, said
  <2>2. TypeInv'
    BY <1>2, <1>3, <1>4, <2>1 DEF TypeInv
  <2>3. FirstWasClean'
    <3>1. /\ SelectedCleans(A) \subseteq World(Now)
          /\ \E m \in began..Now :
                \A t \in SeenThreads(began) : log[t].rel \in InScope => Resolved(t, m)
      BY <1>3, <1>10, FirstReading DEF A, said
    <3>2. certified'.selected = SelectedCleans(A)
      BY <2>1 DEF Certificate
    <3>3. /\ World(since)' = World(Now) /\ SeenThreads(began)' = SeenThreads(began)
          /\ \A m, t : Resolved(t, m)' = Resolved(t, m)
      BY <1>2, <2>1, SameLog
    <3>4. QED
      BY <1>2, <2>1, <3>1, <3>2, <3>3 DEF FirstWasClean
  <2>4. QuietIsDecided'
    <3> SUFFICES ASSUME Len(log) = began, faults' = 0, Readable(began)'
                 PROVE  CleanAt(began)' /\ certified' = Certificate(World(began))'
      BY <1>2, <2>1 DEF QuietIsDecided
    <3>1. CleanAt(began)' = CleanAt(began) /\ Readable(began)' = Readable(began)
          /\ World(began)' = World(began)
      BY <1>2, SameLog
    <3>2. Now = began /\ Readable(began) /\ fault = NoFault
      BY <1>3, <1>4, <3>1
    <3>3. CleanAt(began) /\ A = World(began)
      BY <1>3, <1>10, <3>2, QuietReading DEF A, said
    <3>4. Certificate(World(began))' = Certificate(World(began))
      BY <3>1 DEF Certificate
    <3>5. QED
      BY <2>1, <3>1, <3>3, <3>4
  <2>5. FailureWasTrue' /\ StandingFindingBlocks' /\ SuccessWasTrue'
    BY <2>1 DEF FailureWasTrue, StandingFindingBlocks, SuccessWasTrue
  <2>6. QED
    BY <1>7, <2>2, <2>3, <2>4, <2>5
<1>11. CASE said # "retry" /\ ~(phase = "first" /\ said = "clean")
  <2>1. /\ phase' = "done" /\ since' = since /\ certified' = certified
        /\ \/ /\ phase = "final" /\ said \in {"clean", "pending"}
              /\ outcome' = IF said = "clean" /\ Certificate(A) = certified
                            THEN "success" ELSE "error"
           \/ /\ ~(phase = "final" /\ said \in {"clean", "pending"})
              /\ outcome' = said
    BY <1>1, <1>6, <1>11 DEF Decide, End, said
  <2>2. outcome' = "success" <=>
           phase = "final" /\ said = "clean" /\ Certificate(A) = certified
    BY <1>2, <1>5, <1>11, <2>1
  <2>3. outcome' = "failure" => said = "failure"
    BY <2>1
  <2>4. TypeInv'
    BY <1>2, <1>3, <1>4, <2>1 DEF TypeInv
  <2>5. FirstWasClean'
    BY <2>1 DEF FirstWasClean
  <2>6. QuietIsDecided'
    <3> SUFFICES ASSUME Len(log) = began, faults' = 0, Readable(began)'
                 PROVE  (outcome' = "success") <=> CleanAt(began)'
      BY <1>2, <2>1 DEF QuietIsDecided
    <3>1. CleanAt(began)' = CleanAt(began) /\ Readable(began)' = Readable(began)
      BY <1>2, SameLog
    <3>2. Now = began /\ Readable(began) /\ fault = NoFault /\ faults = 0
      BY <1>3, <1>4, <3>1
    <3>3. (said = "clean" <=> CleanAt(began)) /\ A = World(began)
      BY <1>3, <3>2, QuietReading DEF A, said
    <3>4. phase = "final" => certified = Certificate(World(began))
      BY <3>2 DEF QuietIsDecided, Now
    <3>5. QED
      BY <1>2, <1>11, <2>2, <3>1, <3>3, <3>4
  <2>7. FailureWasTrue'
    <3> SUFFICES ASSUME outcome' = "failure"
                 PROVE  \E m \in (since..Len(log)) : Blocking(m)' # {}
      BY <1>2, <2>1 DEF FailureWasTrue
    <3>1. \E m \in since..Now : Blocking(m) # {}
      BY <1>3, <2>3, FailureIsTrue DEF said
    <3>2. QED
      BY <1>2, <1>4, <3>1, SameLog
  <2>8. ASSUME outcome' = "success"
        PROVE  /\ \A i \in 1..Len(log) : \E m \in since..Len(log) : i \notin Blocking(m)
               /\ (\A i \in began + 1..Len(log) : log[i].type \in {"post", "resolve"}) =>
                     \E m \in began..Len(log) :
                        Blocking(m) = {} /\ \E s \in SelectedCleans(World(m)) : s.rel = "current"
    <3>1. phase = "final" /\ said = "clean" /\ SelectedCleans(A) = certified.selected
      BY <2>2, <2>8 DEF Certificate
    <3>2. QED
      BY <1>3, <3>1, SuccessIsTrue DEF A, said, Now
  <2>9. StandingFindingBlocks'
    <3>1. \A m : Blocking(m)' = Blocking(m)
      BY <1>2, SameLog
    <3>2. QED
      BY <1>2, <2>1, <2>8, <3>1 DEF StandingFindingBlocks
  <2>10. SuccessWasTrue'
    <3>1. \A m : Blocking(m)' = Blocking(m) /\ World(m)' = World(m)
      BY <1>2, SameLog
    <3>2. QED
      BY <1>2, <2>1, <2>8, <3>1 DEF SuccessWasTrue
  <2>11. QED
    BY <1>7, <2>4, <2>5, <2>6, <2>7, <2>9, <2>10
<1>12. QED
  BY <1>5, <1>9, <1>10, <1>11

-----------------------------------------------------------------------------
(* The theorems.                                                           *)

LEMMA InvInit == Init => Inv
<1> SUFFICES ASSUME Init PROVE Inv
  OBVIOUS
<1>1. TypeInv /\ TimesGrow
  BY DEF Init, TypeInv, TimesGrow
<1>2. FirstWasClean /\ QuietIsDecided
  BY DEF Init, FirstWasClean, QuietIsDecided
<1>3. FailureWasTrue /\ StandingFindingBlocks /\ SuccessWasTrue
  BY DEF Init, FailureWasTrue, StandingFindingBlocks, SuccessWasTrue
<1>4. QED
  BY <1>1, <1>2, <1>3 DEF Inv

LEMMA InvNext == Inv /\ [Next]_vars => Inv'
<1> SUFFICES ASSUME Inv, [Next]_vars PROVE Inv'
  OBVIOUS
<1>1. CASE CodexPosts \/ CodexOpensThread \/ PeopleResolve \/ PeopleReopen
  BY <1>1, WorldActs
<1>2. CASE Start
  BY <1>2, StartInv
<1>3. CASE Settle
  BY <1>3, SettleInv
<1>4. CASE UNCHANGED vars
  <2> USE <1>4 DEF vars, Inv
  <2>1. log' = log /\ began' = began /\ since' = since
    OBVIOUS
  <2>2. TypeInv' /\ TimesGrow'
    BY DEF TypeInv, TimesGrow
  <2>3. \A m : /\ World(m)' = World(m) /\ SeenThreads(m)' = SeenThreads(m)
               /\ Blocking(m)' = Blocking(m)
               /\ CleanAt(m)' = CleanAt(m) /\ Readable(m)' = Readable(m)
               /\ Certificate(World(m))' = Certificate(World(m))
    BY <2>1, SameLog DEF Certificate
  <2>4. \A m, t : Resolved(t, m)' = Resolved(t, m)
    BY <2>1, SameLog
  <2>5. FirstWasClean'
    BY <2>3, <2>4 DEF FirstWasClean
  <2>6. QuietIsDecided'
    BY <2>3 DEF QuietIsDecided
  <2>7. FailureWasTrue' /\ StandingFindingBlocks' /\ SuccessWasTrue'
    BY <2>3 DEF FailureWasTrue, StandingFindingBlocks, SuccessWasTrue
  <2>8. QED
    BY <2>2, <2>5, <2>6, <2>7
<1>5. QED
  BY <1>1, <1>2, <1>3, <1>4 DEF Next

\* The log has its shape and its order of time, the first clean reading says what
\* it says of the moment the second one begins, and the three properties hold, for
\* every log that passGateFromCurrentEvidence can be run on.
THEOREM InvHolds == Spec => []Inv
BY InvInit, InvNext, PTL DEF Spec

\* loadSnapshot never makes a failure of a partial snapshot: at some moment of the
\* last reading something blocked the head.
THEOREM FailureWasTrueHolds == Spec => []FailureWasTrue
<1>1. Inv => FailureWasTrue
  BY DEF Inv
<1>2. QED
  BY <1>1, InvHolds, PTL

\* passGateFromCurrentEvidence never misses what blocks the head during the whole
\* of the last reading.
THEOREM StandingFindingBlocksHolds == Spec => []StandingFindingBlocks
<1>1. Inv => StandingFindingBlocks
  BY DEF Inv
<1>2. QED
  BY <1>1, InvHolds, PTL

\* A success of passGateFromCurrentEvidence is never a mixture of moments: unless a
\* thread was opened or reopened, the head was clean at one moment of the run.
THEOREM SuccessWasTrueHolds == Spec => []SuccessWasTrue
<1>1. Inv => SuccessWasTrue
  BY DEF Inv
<1>2. QED
  BY <1>1, InvHolds, PTL

\* The head is clean for reduceProviderArtifacts when the newest of the words that
\* can be read and ordered is a clean of its own, and no thread is open.
LEMMA NewestWord ==
    ASSUME TypeInv, TimesGrow, Readable(Now), NEW words,
           words = {a \in InScopeOf(World(Now)) : a.kind \in {"clean", "finding"}},
           NEW last, last = CHOOSE a \in words : \A b \in words : b.at <= a.at
    PROVE  CleanAt(Now) <=> /\ words # {} /\ last.kind = "clean" /\ last.rel = "current"
                            /\ Open(Now) = {}
<1> DEFINE A == World(Now)
           seconds == {a.at : a \in words}
<1>1. \A a \in A : /\ a.at \in Nat /\ a.id \in Nat /\ a.id <= Now /\ a.at # 0
                   /\ a.source \in {"comment", "review"}
                   /\ \A b \in A \ {a} : a.at # b.at
  <2>1. \A a \in A : a.at # 0 /\ \A b \in A \ {a} : a.at # b.at
    <3> HIDE DEF Now
    <3>1. QED
      BY DEF Readable
  <2>2. QED
    BY <2>1, WorldIs DEF Sources
<1>2. words \subseteq A /\ InScopeOf(Orderable(Cleans(A))) \subseteq words
      /\ ScopedFindings(A) \subseteq words
  BY DEF InScopeOf, Orderable, Cleans, ScopedFindings
<1>3. Now \in Nat /\ \A a \in A : a.at <= log[Now].at /\ log[Now].at \in Nat
  <2> SUFFICES ASSUME NEW a \in A PROVE a.at <= log[Now].at /\ log[Now].at \in Nat
    BY WorldIs
  <2>1. /\ a.id \in 1..Now /\ log[a.id].type = "post" /\ a = Artifact(a.id)
        /\ Now \in Nat /\ a.id \in Nat
    BY WorldIs
  <2>2. Now \in 1..Len(log) /\ a.id \in 1..Len(log) /\ a.id <= Now
    BY <2>1 DEF Now
  <2>3. a.at \in {0, log[a.id].at}
    BY <2>1, <2>2, ArtifactIs
  <2>4. log[a.id].at <= log[Now].at /\ log[Now].at \in Nat
    BY <2>2, EntriesAre DEF TimesGrow
  <2>5. QED
    BY <2>3, <2>4
<1> HIDE DEF A
<1>4. ASSUME words # {}
      PROVE  last \in words /\ \A b \in words : b.at <= last.at
  <2>1. seconds \in SUBSET Nat /\ seconds # {} /\ \A n \in seconds : n <= log[Now].at
    BY <1>1, <1>2, <1>3, <1>4
  <2>2. log[Now].at \in Nat
    BY <1>2, <1>3, <1>4
  <2>3. \E m \in seconds : \A n \in seconds : n <= m
    <3> HIDE DEF seconds
    <3>1. QED
      BY <2>1, <2>2, LargestOf
  <2>4. \E a \in words : \A b \in words : b.at <= a.at
    BY <2>3
  <2>5. QED
    BY <2>4
<1>5. ASSUME CleanAt(Now)
      PROVE  words # {} /\ last.kind = "clean" /\ last.rel = "current" /\ Open(Now) = {}
  <2>1. /\ BlockingFindings(A) = {} /\ Open(Now) = {}
        /\ \E s \in SelectedCleans(A) : s.rel = "current"
    BY <1>5 DEF CleanAt, A
  <2>2. PICK s \in SelectedCleans(A) : s.rel = "current"
    BY <2>1
  <2>3. s \in words
    BY <1>2, <2>2 DEF SelectedCleans
  <2>4. last \in words /\ last \in A /\ s \in A /\ s.at <= last.at
    BY <1>2, <1>4, <2>3
  <2>5. last.kind # "finding"
    <3> SUFFICES ASSUME last.kind = "finding" PROVE FALSE
      OBVIOUS
    <3>1. last \in ScopedFindings(A)
      BY <1>2, <2>4 DEF ScopedFindings, InScopeOf, A
    <3>2. PICK r \in SelectedCleans(A) : StrictlyLater(r, last)
      BY <2>1, <3>1 DEF BlockingFindings, Superseded
    <3>3. r \in words /\ r \in A /\ r.kind = "clean"
      BY <1>2, <3>2 DEF SelectedCleans, InScopeOf, Orderable, Cleans
    <3>4. r.at <= last.at /\ r # last
      BY <1>4, <3>3
    <3>5. QED
      BY <1>1, <2>4, <3>2, <3>3, <3>4 DEF StrictlyLater
  <2>6. last.kind = "clean" /\ last \in InScopeOf(Orderable(Cleans(A)))
    BY <1>1, <2>4, <2>5 DEF InScopeOf, Orderable, Cleans, A
  <2>7. s = last
    <3>1. s = last \/ NewerFirst(s, last)
      BY <2>2, <2>6 DEF SelectedCleans
    <3>2. QED
      BY <1>1, <2>4, <3>1 DEF NewerFirst
  <2>8. QED
    BY <2>1, <2>2, <2>3, <2>6, <2>7
<1>6. ASSUME words # {}, last.kind = "clean", last.rel = "current", Open(Now) = {}
      PROVE  CleanAt(Now)
  <2>1. last \in words /\ last \in A /\ \A b \in words : b.at <= last.at
    BY <1>2, <1>4, <1>6
  <2>2. \A b \in words \ {last} : StrictlyLater(last, b) /\ NewerFirst(last, b)
    BY <1>1, <1>2, <2>1 DEF StrictlyLater, NewerFirst
  <2>3. last \in InScopeOf(Orderable(Cleans(A)))
    BY <1>1, <1>6, <2>1 DEF InScopeOf, Orderable, Cleans, InScope
  <2>4. last \in SelectedCleans(A)
    BY <1>2, <2>2, <2>3 DEF SelectedCleans
  <2>5. \A f \in ScopedFindings(A) : f \in words /\ f # last
    BY <1>2, <1>6 DEF ScopedFindings, InScopeOf
  <2>6. BlockingFindings(A) = {}
    BY <1>6, <2>2, <2>4, <2>5 DEF BlockingFindings, Superseded
  <2>7. QED
    BY <1>6, <2>4, <2>6 DEF CleanAt, A
<1>7. QED
  BY <1>5, <1>6

\* On a pull request that nobody touches, with no failed request and every word of
\* Codex readable and ordered, reduceProviderArtifacts and the two whole readings of
\* passGateFromCurrentEvidence let the newest word decide.
THEOREM NewestWordDecidesHolds == Spec => []NewestWordDecides
<1>1. Inv => NewestWordDecides
  <2> SUFFICES ASSUME Inv PROVE NewestWordDecides
    OBVIOUS
  <2> DEFINE words == {a \in InScopeOf(World(Len(log))) : a.kind \in {"clean", "finding"}}
             quiet == outcome # "none" /\ Len(log) = began /\ faults = 0
             readable == \A a \in World(Len(log)) :
                            /\ a.kind # "malformed" /\ a.rel # "invalid" /\ a.at # 0
                            /\ \A b \in World(Len(log)) \ {a} : a.at # b.at
             last == CHOOSE a \in words : \A b \in words : b.at <= a.at
  <2> SUFFICES ASSUME quiet, readable, \A t \in SeenThreads(Len(log)) : log[t].rel # "invalid"
               PROVE  outcome = "success" <=>
                         /\ words # {} /\ last.kind = "clean" /\ last.rel = "current"
                         /\ Open(Len(log)) = {}
    BY DEF NewestWordDecides
  <2>1. Readable(Now) /\ Now = began /\ Now = Len(log)
    BY DEF Readable, Now
  <2>2. phase = "done"
    BY DEF Inv, TypeInv
  <2>3. outcome = "success" <=> CleanAt(Now)
    BY <2>1, <2>2 DEF Inv, QuietIsDecided, Now
  <2>4. CleanAt(Now) <=> /\ words # {} /\ last.kind = "clean" /\ last.rel = "current"
                         /\ Open(Now) = {}
    <3>1. words = {a \in InScopeOf(World(Now)) : a.kind \in {"clean", "finding"}}
      BY <2>1
    <3> HIDE DEF words
    <3>2. QED
      BY <2>1, <3>1, NewestWord DEF Inv
  <2>5. QED
    BY <2>1, <2>3, <2>4
<1>2. QED
  BY <1>1, InvHolds, PTL

-----------------------------------------------------------------------------
(* How gate v1 asks: the inductive invariant.                              *)

Steps ==
    {"load", "final", "admit", "obsolete", "fresh", "timeout", "enter", "advance", "marker",
     "save", "saveBest", "critical", "replace", "fence", "pending", "wait", "failure",
     "timedout", "success", "error"}

\* The steps by which a run comes to post a marker, and those that save what it holds
\* before it does.
MarkerSteps == {"admit", "obsolete", "fresh", "timeout", "enter", "advance", "marker"}
Saving == {"save", "critical", "replace"}

\* A marker is only ever the next step, and none comes after findings are recorded.
Orderly(todo) ==
    \A i, j \in DOMAIN todo :
        i < j => todo[j] # "marker" /\ (todo[i] = "failure" => todo[j] \notin MarkerSteps)

Asks(todo) == \E i \in DOMAIN todo : todo[i] \in MarkerSteps
Asking(r) == r.todo # <<>> /\ Head(r.todo) # "fence" /\ Asks(r.todo)

Phases == {"none", "waiting_ack", "waiting_result"}
StateFields == {"active", "history", "last"}
RunFields ==
    {"todo", "at", "by", "sha", "word", "eyes", "reviewed", "st", "sc", "needs", "changed",
     "may", "allow", "mute", "blocked", "bad", "kept", "keptSc"}
MarkerFields == {"head", "created", "ack", "deadline", "eyes", "fence"}

IsState(st) ==
    /\ st = [f \in StateFields |-> st[f]]
    /\ st.active \in [id : Nat, phase : Phases]
    /\ st.active # NoMarker => st.active.id \in DOMAIN markers

IsRun(r) ==
    /\ r = [f \in RunFields |-> r[f]]
    /\ r.todo \in Seq(Steps) /\ r.sc \in 0..Len(states) /\ r.keptSc \in 0..Len(states)
    /\ IsState(r.st) /\ IsState(r.kept) /\ r.kept.active = NoMarker

GateTypeInv ==
    /\ markers \in Seq({markers[i] : i \in DOMAIN markers})
    /\ \A i \in DOMAIN markers : markers[i] = [f \in MarkerFields |-> markers[i][f]]
    /\ states \in Seq({states[i] : i \in DOMAIN states})
    /\ \A i \in DOMAIN states :
          /\ states[i] = [f \in {"st", "deleted"} |-> states[i][f]]
          /\ states[i].deleted \in BOOLEAN /\ IsState(states[i].st)
    /\ IsRun(run)

KnowsLast(st) == st.active # NoMarker => Knows(st, LastMarker)

\* What a run holds, it holds of the latest marker; and it holds nothing when it posts
\* the next.
RunHolds(r) ==
    /\ KnowsLast(r.st) /\ Orderly(r.todo)
    /\ r.todo # <<>> /\ Head(r.todo) = "marker" => r.st.active = NoMarker

Newest == states[Len(states)]
Holds(c) == ~c.deleted /\ c.st.active # NoMarker

\* While a run may still ask, the newest state comment holds no request of its head that
\* the run does not hold, or is not about to save that it holds no more; and what the
\* run holds has been saved, or is about to be.
NothingElseHeld(r) ==
    Asking(r) =>
        /\ r.sc = 0 /\ Head(r.todo) \notin Saving => r.st.active = NoMarker
        /\ states # <<>> /\ Holds(Newest) =>
              /\ r.sc = Len(states)
              /\ r.st.active = NoMarker /\ Head(r.todo) \notin Saving
                    => markers[Newest.st.active.id].head # r.sha

\* OneRequestPerHead of the comment that counts, or would if it were not deleted.
NewestKnows ==
    states # <<>> /\ Holds(Newest) /\ ~Knows(Newest.st, LastMarker)
        => markers[LastMarker].head # markers[Newest.st.active.id].head

Good(r) == IsRun(r) /\ RunHolds(r) /\ NothingElseHeld(r)

GateInv == GateTypeInv /\ RunHolds(run) /\ NothingElseHeld(run) /\ NewestKnows

\* What a run decides by: the newest state comment is the one it has read, and holds
\* nothing of its head that the run does not.
Alone(r) ==
    /\ r.sc = 0 => r.st.active = NoMarker
    /\ states # <<>> /\ Holds(Newest) =>
          /\ r.sc = Len(states)
          /\ r.st.active = NoMarker => markers[Newest.st.active.id].head # r.sha

-----------------------------------------------------------------------------
(* How gate v1 asks: what is left to do.                                   *)

\* The tail of a sequence.
LEMMA TailOf ==
    ASSUME NEW S, NEW s \in Seq(S), s # <<>>
    PROVE  /\ Tail(s) \in Seq(S) /\ Head(s) = s[1] /\ Head(s) \in S /\ 1 \in DOMAIN s
           /\ DOMAIN Tail(s) = 1..(Len(s) - 1) /\ DOMAIN s = 1..Len(s)
           /\ \A i \in DOMAIN Tail(s) : Tail(s)[i] = s[i + 1]
  OBVIOUS

\* Two sequences joined.
LEMMA JoinOf ==
    ASSUME NEW S, NEW s \in Seq(S), NEW t \in Seq(S)
    PROVE  /\ s \o t \in Seq(S) /\ DOMAIN (s \o t) = 1..(Len(s) + Len(t))
           /\ \A i \in 1..Len(s) : (s \o t)[i] = s[i]
           /\ \A i \in 1..Len(t) : (s \o t)[Len(s) + i] = t[i]
  OBVIOUS

\* What is left when a step is done is orderly, and never begins with a marker.
LEMMA RestIsOrderly ==
    ASSUME NEW s \in Seq(Steps), s # <<>>, Orderly(s)
    PROVE  /\ Tail(s) \in Seq(Steps) /\ Orderly(Tail(s))
           /\ \A i \in DOMAIN Tail(s) : Tail(s)[i] # "marker"
           /\ Tail(s) # <<>> => Head(Tail(s)) # "marker"
           /\ Asks(Tail(s)) => Asks(s)
           /\ Head(s) = "failure" => ~Asks(Tail(s))
<1>1. /\ Tail(s) \in Seq(Steps) /\ Head(s) = s[1] /\ 1 \in DOMAIN s
      /\ DOMAIN Tail(s) = 1..(Len(s) - 1) /\ DOMAIN s = 1..Len(s) /\ Len(s) \in Nat
      /\ \A i \in DOMAIN Tail(s) : Tail(s)[i] = s[i + 1]
  BY TailOf
<1>2. \A i \in DOMAIN Tail(s) : i \in Nat /\ i + 1 \in DOMAIN s /\ 1 < i + 1 /\ Tail(s)[i] = s[i + 1]
  BY <1>1
<1>3. \A i \in DOMAIN Tail(s) : Tail(s)[i] # "marker"
  BY <1>1, <1>2 DEF Orderly
<1>4. Orderly(Tail(s))
  BY <1>2, <1>3 DEF Orderly
<1>5. Tail(s) # <<>> => Head(Tail(s)) # "marker"
  BY <1>1, <1>3, TailOf
<1>6. Asks(Tail(s)) => Asks(s)
  BY <1>2 DEF Asks
<1>7. Head(s) = "failure" => ~Asks(Tail(s))
  BY <1>1, <1>2 DEF Asks, Orderly
<1>8. QED
  BY <1>1, <1>3, <1>4, <1>5, <1>6, <1>7

\* Steps put before what is left.
LEMMA PrefixIsOrderly ==
    ASSUME NEW p \in Seq(Steps), NEW t \in Seq(Steps), p # <<>>, Orderly(t),
           \A i \in DOMAIN t : t[i] # "marker",
           \A i \in DOMAIN p : p[i] # "failure" /\ (i # 1 => p[i] # "marker")
    PROVE  /\ p \o t \in Seq(Steps) /\ p \o t # <<>> /\ Head(p \o t) = Head(p)
           /\ Orderly(p \o t)
           /\ Asks(p \o t) => Asks(p) \/ Asks(t)
<1> DEFINE s == p \o t
           m == Len(p)
           n == Len(t)
<1>1. /\ s \in Seq(Steps) /\ DOMAIN s = 1..(m + n) /\ m \in Nat /\ n \in Nat /\ m # 0
      /\ \A i \in 1..m : s[i] = p[i]
      /\ \A i \in 1..n : s[m + i] = t[i]
      /\ DOMAIN p = 1..m /\ DOMAIN t = 1..n
  BY JoinOf
<1>2. s # <<>> /\ Head(s) = p[1] /\ Head(p) = p[1]
  <2>1. Len(s) = m + n
    BY <1>1
  <2>2. s # <<>>
    BY <1>1, <2>1
  <2>3. QED
    BY <1>1, <2>2, TailOf
<1> HIDE DEF s, m, n
<1>3. \A i \in DOMAIN s : i \in Nat /\ (i <= m => i \in DOMAIN p /\ s[i] = p[i])
                          /\ (i > m => i - m \in DOMAIN t /\ s[i] = t[i - m])
  <2> SUFFICES ASSUME NEW i \in DOMAIN s
               PROVE  i \in Nat /\ (i <= m => i \in DOMAIN p /\ s[i] = p[i])
                      /\ (i > m => i - m \in DOMAIN t /\ s[i] = t[i - m])
    OBVIOUS
  <2>1. i \in Nat /\ i >= 1 /\ i <= m + n
    BY <1>1
  <2>2. i <= m => i \in DOMAIN p /\ s[i] = p[i]
    BY <1>1, <2>1
  <2>3. i > m => i - m \in 1..n /\ m + (i - m) = i
    BY <1>1, <2>1
  <2>4. QED
    BY <1>1, <2>1, <2>2, <2>3
<1>4. Orderly(s)
  <2> SUFFICES ASSUME NEW i \in DOMAIN s, NEW j \in DOMAIN s, i < j
               PROVE  s[j] # "marker" /\ (s[i] = "failure" => s[j] \notin MarkerSteps)
    BY DEF Orderly
  <2>1. i \in Nat /\ j \in Nat /\ j # 1 /\ m \in Nat
    BY <1>1, <1>3
  <2>2. CASE j <= m
    BY <1>3, <2>1, <2>2
  <2>3. CASE j > m /\ i <= m
    BY <1>3, <2>1, <2>3
  <2>4. CASE j > m /\ i > m
    BY <1>3, <2>1, <2>4 DEF Orderly
  <2>5. QED
    BY <2>1, <2>2, <2>3, <2>4
<1>5. Asks(s) => Asks(p) \/ Asks(t)
  <2> SUFFICES ASSUME NEW i \in DOMAIN s, s[i] \in MarkerSteps PROVE Asks(p) \/ Asks(t)
    BY DEF Asks
  <2>1. i \in Nat /\ m \in Nat
    BY <1>1, <1>3
  <2>2. CASE i <= m
    BY <1>3, <2>2 DEF Asks
  <2>3. CASE i > m
    BY <1>3, <2>3 DEF Asks
  <2>4. QED
    BY <2>1, <2>2, <2>3
<1>6. QED
  BY <1>1, <1>2, <1>4, <1>5 DEF s

\* The steps a run may be given.
LEMMA Programs ==
    /\ Failing \in Seq(Steps) /\ Orderly(Failing) /\ Failing # <<>> /\ Head(Failing) = "failure"
    /\ ~Asks(Failing) /\ \A i \in DOMAIN Failing : Failing[i] # "marker"
    /\ \A step \in Steps : /\ <<step>> \in Seq(Steps) /\ Orderly(<<step>>) /\ <<step>> # <<>>
                           /\ Head(<<step>>) = step
                           /\ step \notin MarkerSteps => ~Asks(<<step>>)
    /\ <<>> \in Seq(Steps) /\ Orderly(<<>>) /\ ~Asks(<<>>) /\ \A i \in DOMAIN <<>> : <<>>[i] # "marker"
<1>1. Failing \in Seq(Steps) /\ Len(Failing) = 2 /\ Failing[1] = "failure" /\ Failing[2] = "saveBest"
      /\ DOMAIN Failing = 1..2
  BY DEF Failing, Steps
<1>2. Orderly(Failing) /\ ~Asks(Failing) /\ \A i \in DOMAIN Failing : Failing[i] # "marker"
  BY <1>1 DEF Orderly, Asks, MarkerSteps
<1>3. Failing # <<>> /\ Head(Failing) = "failure"
  BY DEF Failing
<1>4. ASSUME NEW step \in Steps
      PROVE  /\ <<step>> \in Seq(Steps) /\ Orderly(<<step>>) /\ <<step>> # <<>>
             /\ Head(<<step>>) = step
             /\ step \notin MarkerSteps => ~Asks(<<step>>)
  BY DEF Orderly, Asks
<1>5. <<>> \in Seq(Steps) /\ Orderly(<<>>) /\ ~Asks(<<>>) /\ \A i \in DOMAIN <<>> : <<>>[i] # "marker"
  BY DEF Orderly, Asks
<1>6. QED
  BY <1>1, <1>2, <1>3, <1>4, <1>5

-----------------------------------------------------------------------------
(* How gate v1 asks: what the state says.                                  *)

\* No marker is none of the markers.
LEMMA NoMarkerIs ==
    /\ NoMarker \in [id : Nat, phase : Phases] /\ NoMarker.id = 0
    /\ GateTypeInv => /\ DOMAIN markers = 1..Len(markers) /\ Len(markers) \in Nat
                      /\ 0 \notin DOMAIN markers /\ NoMarker.id \notin DOMAIN markers
<1>1. NoMarker \in [id : Nat, phase : Phases] /\ NoMarker.id = 0
  BY DEF NoMarker, Phases
<1>2. GateTypeInv => DOMAIN markers = 1..Len(markers) /\ Len(markers) \in Nat
  BY DEF GateTypeInv
<1>3. QED
  BY <1>1, <1>2

\* A state with nothing active.
LEMMA NothingActive ==
    ASSUME NEW st, st = [f \in StateFields |-> st[f]], st.active = NoMarker
    PROVE  IsState(st) /\ KnowsLast(st)
  BY NoMarkerIs DEF IsState, KnowsLast

\* A state that is told another result.
LEMMA SameActive ==
    ASSUME NEW st, NEW n, IsState(st), n = [f \in StateFields |-> n[f]],
           n.active = st.active, n.history = st.history
    PROVE  IsState(n) /\ (KnowsLast(st) => KnowsLast(n))
  BY DEF IsState, KnowsLast, Knows

\* A state whose active marker is closed.
LEMMA ClosedIs ==
    ASSUME NEW st, IsState(st), NEW why
    PROVE  /\ IsState(Closed(st, why)) /\ Closed(st, why).active = NoMarker
           /\ KnowsLast(Closed(st, why))
<1>1. CASE st.active = NoMarker
  BY <1>1 DEF Closed, KnowsLast
<1>2. CASE st.active # NoMarker
  <2> DEFINE h == Append(st.history, [id |-> st.active.id, outcome |-> why])
             n == [st EXCEPT !.active = NoMarker, !.history = h]
  <2>1. Closed(st, why) = n
    BY <1>2 DEF Closed
  <2>2. n = [f \in StateFields |-> n[f]] /\ n.active = NoMarker
    <3> HIDE DEF h
    <3>1. QED
      BY DEF IsState, StateFields
  <2> HIDE DEF n
  <2>3. QED
    BY <2>1, <2>2, NothingActive
<1>3. QED
  BY <1>1, <1>2

\* The states of a head nothing is known of.
LEMMA FreshIs ==
    ASSUME NEW h, NEW m
    PROVE  /\ IsState(Fresh(h)) /\ Fresh(h).active = NoMarker /\ KnowsLast(Fresh(h))
           /\ IsState(Recovered(h, m)) /\ Recovered(h, m).active = NoMarker
           /\ KnowsLast(Recovered(h, m))
<1>1. Fresh(h) = [f \in StateFields |-> Fresh(h)[f]] /\ Fresh(h).active = NoMarker
  BY DEF Fresh, StateFields
<1>2. Recovered(h, m) = [f \in StateFields |-> Recovered(h, m)[f]]
      /\ Recovered(h, m).active = NoMarker
  BY <1>1 DEF Recovered, StateFields
<1>3. QED
  BY <1>1, <1>2, NothingActive

\* A wait that is given up leaves nothing active.
LEMMA GivenUpIs ==
    ASSUME NEW st, IsState(st), NEW h
    PROVE  /\ IsState(GivenUp(st, h)) /\ GivenUp(st, h).active = NoMarker
           /\ KnowsLast(GivenUp(st, h))
<1> DEFINE grown == Append(st.history, [st.history[Latest(st, h)] EXCEPT !.outcome = "timed_out"])
           gone == IF st.active # NoMarker THEN Closed(st, "timed_out")
                   ELSE [st EXCEPT !.history = grown]
           n == [gone EXCEPT !.last = Told(h, "failure")]
<1>1. GivenUp(st, h) = n
  BY DEF GivenUp
<1>2. gone = [f \in StateFields |-> gone[f]] /\ gone.active = NoMarker
  <2> HIDE DEF grown
  <2>1. CASE st.active # NoMarker
    BY <2>1, ClosedIs DEF IsState
  <2>2. CASE st.active = NoMarker
    BY <2>2 DEF IsState, StateFields
  <2>3. QED
    BY <2>1, <2>2
<1> HIDE DEF gone
<1>3. n = [f \in StateFields |-> n[f]] /\ n.active = NoMarker
  BY <1>2 DEF StateFields
<1> HIDE DEF n
<1>4. QED
  BY <1>1, <1>3, NothingActive

\* The active marker is acknowledged.
LEMMA AcknowledgedIs ==
    ASSUME NEW st, IsState(st), st.active # NoMarker, KnowsLast(st), GateTypeInv
    PROVE  LET n == [st EXCEPT !.active.phase = "waiting_result"]
           IN  IsState(n) /\ n.active # NoMarker /\ KnowsLast(n)
<1> DEFINE n == [st EXCEPT !.active.phase = "waiting_result"]
<1>1. n = [f \in StateFields |-> n[f]] /\ n.history = st.history
      /\ n.active = [st.active EXCEPT !.phase = "waiting_result"]
  BY DEF IsState, StateFields
<1> HIDE DEF n
<1>2. n.active \in [id : Nat, phase : Phases] /\ n.active.id = st.active.id
  <2> DEFINE a == st.active
             b == [a EXCEPT !.phase = "waiting_result"]
  <2>1. a \in [id : Nat, phase : Phases]
    BY DEF IsState
  <2> HIDE DEF a
  <2>2. b \in [id : Nat, phase : Phases] /\ b.id = a.id
    BY <2>1 DEF Phases
  <2>3. n.active = b
    BY <1>1 DEF a
  <2>4. QED
    BY <2>2, <2>3 DEF a
<1>3. n.active # NoMarker /\ n.active.id \in DOMAIN markers
  BY <1>2, NoMarkerIs DEF IsState
<1>4. KnowsLast(n)
  BY <1>1, <1>2 DEF KnowsLast, Knows
<1>5. QED
  BY <1>1, <1>2, <1>3, <1>4 DEF IsState, n

-----------------------------------------------------------------------------
(* How gate v1 asks: what a run decides.                                   *)

\* A step of a run that is alone.
LEMMA StaysGood ==
    ASSUME NEW r, NEW n, IsRun(r), Alone(r),
           n = [f \in RunFields |-> n[f]], n.sc = r.sc, n.sha = r.sha, n.kept = r.kept, n.keptSc = r.keptSc,
           IsState(n.st), KnowsLast(n.st), n.todo \in Seq(Steps), Orderly(n.todo),
           n.todo # <<>> /\ Head(n.todo) = "marker" => n.st.active = NoMarker,
           \/ n.st.active = r.st.active \/ (n.st.active # NoMarker /\ r.st.active # NoMarker)
           \/ n.todo = <<>> \/ Head(n.todo) \in Saving \/ ~Asks(n.todo)
    PROVE  Good(n)
<1>1. IsRun(n)
  BY DEF IsRun
<1>2. RunHolds(n)
  BY DEF RunHolds
<1>3. NothingElseHeld(n)
  BY DEF NothingElseHeld, Alone, Asking
<1>4. QED
  BY <1>1, <1>2, <1>3 DEF Good

\* The wait is given up.
LEMMA GivesUpIsGood ==
    ASSUME NEW r, IsRun(r), Alone(r), KnowsLast(r.st)
    PROVE  Good(GivesUp(r))
<1> DEFINE after == IF PreparesFindings(r) THEN Failing ELSE <<>>
<1>1. /\ after \in Seq(Steps) /\ Orderly(after) /\ ~Asks(after)
      /\ \A i \in DOMAIN after : after[i] # "marker"
  BY Programs
<1> DEFINE told == <<"timedout">> \o after
           saves == <<"critical", "timedout">> \o after
<1>2. told \in Seq(Steps) /\ told # <<>> /\ Head(told) = "timedout" /\ Orderly(told) /\ ~Asks(told)
  <2> HIDE DEF after
  <2>1. "timedout" \in Steps /\ "timedout" \notin MarkerSteps
    BY DEF Steps, MarkerSteps
  <2>2. \A i \in DOMAIN <<"timedout">> : <<"timedout">>[i] = "timedout"
    OBVIOUS
  <2>3. QED
    BY <1>1, <2>1, <2>2, Programs, PrefixIsOrderly
<1>3. saves \in Seq(Steps) /\ saves # <<>> /\ Head(saves) = "critical" /\ Orderly(saves)
  <2> HIDE DEF after
  <2> DEFINE p == <<"critical", "timedout">>
  <2>1. p \in Seq(Steps) /\ p # <<>> /\ Head(p) = "critical"
    BY DEF Steps
  <2>2. \A i \in DOMAIN p : p[i] \in {"critical", "timedout"}
    OBVIOUS
  <2> HIDE DEF p
  <2>3. QED
    BY <1>1, <2>1, <2>2, PrefixIsOrderly DEF p
<1> HIDE DEF told, saves
<1>4. CASE r.st.active = NoMarker /\ LatestOutcome(r.st, r.sha) = "timed_out"
  <2> DEFINE n == [r EXCEPT !.todo = told]
  <2>1. GivesUp(r) = n
    BY <1>4 DEF GivesUp, told
  <2>2. /\ n = [f \in RunFields |-> n[f]] /\ n.sc = r.sc /\ n.sha = r.sha /\ n.kept = r.kept
        /\ n.keptSc = r.keptSc
        /\ n.st = r.st /\ n.todo = told
    BY DEF IsRun, RunFields
  <2> HIDE DEF n
  <2>3. IsState(r.st)
    BY DEF IsRun
  <2>4. QED
    BY <1>2, <2>1, <2>2, <2>3, StaysGood
<1>5. CASE ~(r.st.active = NoMarker /\ LatestOutcome(r.st, r.sha) = "timed_out")
  <2> DEFINE st == GivenUp(r.st, r.sha)
             n == [r EXCEPT !.st = st, !.todo = saves]
  <2>1. GivesUp(r) = n
    BY <1>5 DEF GivesUp, saves
  <2>2. IsState(st) /\ KnowsLast(st) /\ st.active = NoMarker
    BY GivenUpIs DEF IsRun
  <2> HIDE DEF st
  <2>3. /\ n = [f \in RunFields |-> n[f]] /\ n.sc = r.sc /\ n.sha = r.sha /\ n.kept = r.kept
        /\ n.keptSc = r.keptSc
        /\ n.st = st /\ n.todo = saves
    BY DEF IsRun, RunFields
  <2> HIDE DEF n
  <2>4. QED
    BY <1>3, <2>1, <2>2, <2>3, StaysGood DEF Saving
<1>6. QED
  BY <1>4, <1>5

\* advanceEventDrivenMarker.
LEMMA AdvancedIsGood ==
    ASSUME GateTypeInv, NEW r, IsRun(r), Alone(r), KnowsLast(r.st),
           NEW rest \in Seq(Steps), Orderly(rest), \A i \in DOMAIN rest : rest[i] # "marker"
    PROVE  Good(Advanced(r, rest))
<1> DEFINE asks == (IF r.allow /\ ~r.mute THEN <<"marker">> ELSE <<>>) \o rest
           saves == <<"save">> \o rest
           early == <<"save", "pending">> \o <<"advance">> \o rest
           again == <<"save">> \o <<"advance">> \o rest
<1>1. asks \in Seq(Steps) /\ Orderly(asks)
  <2>1. CASE r.allow /\ ~r.mute
    <3>1. /\ <<"marker">> \in Seq(Steps) /\ <<"marker">> # <<>>
          /\ \A i \in DOMAIN <<"marker">> : <<"marker">>[i] # "failure" /\ i = 1
      BY DEF Steps
    <3>2. asks = <<"marker">> \o rest
      BY <2>1
    <3> HIDE DEF asks
    <3>3. QED
      BY <3>1, <3>2, PrefixIsOrderly
  <2>2. CASE ~(r.allow /\ ~r.mute)
    <3>1. asks = <<>> \o rest
      BY <2>2
    <3>2. <<>> \o rest = rest
      OBVIOUS
    <3>3. QED
      BY <3>1, <3>2
  <2>3. QED
    BY <2>1, <2>2
<1>2. ASSUME NEW t \in Seq(Steps), Orderly(t), \A i \in DOMAIN t : t[i] # "marker",
             NEW p \in Seq(Steps), p # <<>>, Head(p) = "save",
             \A i \in DOMAIN p : p[i] # "failure" /\ p[i] # "marker"
      PROVE  p \o t \in Seq(Steps) /\ Orderly(p \o t) /\ p \o t # <<>> /\ Head(p \o t) = "save"
  BY <1>2, PrefixIsOrderly
<1>3. /\ <<"advance">> \o rest \in Seq(Steps) /\ Orderly(<<"advance">> \o rest)
      /\ \A i \in DOMAIN (<<"advance">> \o rest) : (<<"advance">> \o rest)[i] # "marker"
  <2> DEFINE p == <<"advance">>
             t == p \o rest
  <2>1. /\ p \in Seq(Steps) /\ p # <<>> /\ Len(p) = 1 /\ p[1] = "advance"
        /\ \A i \in DOMAIN p : p[i] # "failure" /\ p[i] # "marker"
    BY DEF Steps
  <2> HIDE DEF p
  <2>2. t \in Seq(Steps) /\ Orderly(t)
    BY <2>1, PrefixIsOrderly
  <2>3. \A i \in DOMAIN t : t[i] # "marker"
    <3>1. /\ DOMAIN t = 1..(1 + Len(rest)) /\ t[1] = "advance" /\ Len(rest) \in Nat
          /\ \A i \in 1..Len(rest) : t[1 + i] = rest[i] /\ i \in DOMAIN rest
      BY <2>1, JoinOf
    <3>2. SUFFICES ASSUME NEW i \in DOMAIN t, i # 1 PROVE t[i] # "marker"
      BY <3>1
    <3>3. i - 1 \in 1..Len(rest) /\ 1 + (i - 1) = i
      BY <3>1, <3>2
    <3>4. QED
      BY <3>1, <3>3
  <2>4. QED
    BY <2>2, <2>3 DEF p
<1>4. /\ <<"save">> \in Seq(Steps) /\ <<"save">> # <<>> /\ Head(<<"save">>) = "save"
      /\ \A i \in DOMAIN <<"save">> : <<"save">>[i] # "failure" /\ <<"save">>[i] # "marker"
      /\ <<"save", "pending">> \in Seq(Steps) /\ <<"save", "pending">> # <<>>
      /\ Head(<<"save", "pending">>) = "save"
      /\ \A i \in DOMAIN <<"save", "pending">> :
            <<"save", "pending">>[i] # "failure" /\ <<"save", "pending">>[i] # "marker"
  BY DEF Steps
<1>5. saves \in Seq(Steps) /\ Orderly(saves) /\ saves # <<>> /\ Head(saves) = "save"
  BY <1>2, <1>4
<1>6. again \in Seq(Steps) /\ Orderly(again) /\ again # <<>> /\ Head(again) = "save"
  <2> DEFINE t == <<"advance">> \o rest
  <2>1. t \in Seq(Steps) /\ Orderly(t) /\ \A i \in DOMAIN t : t[i] # "marker"
    BY <1>3
  <2>2. again = <<"save">> \o t
    BY <1>4, <2>1 DEF Steps
  <2> HIDE DEF t, again
  <2>3. QED
    BY <1>2, <1>4, <2>1, <2>2
<1>7. early \in Seq(Steps) /\ Orderly(early) /\ early # <<>> /\ Head(early) = "save"
  <2> DEFINE t == <<"advance">> \o rest
  <2>1. t \in Seq(Steps) /\ Orderly(t) /\ \A i \in DOMAIN t : t[i] # "marker"
    BY <1>3
  <2>2. early = <<"save", "pending">> \o t
    BY <1>4, <2>1 DEF Steps
  <2> HIDE DEF t, early
  <2>3. QED
    BY <1>2, <1>4, <2>1, <2>2
<1>8. IsState(r.st) /\ (rest # <<>> => Head(rest) # "marker")
  BY TailOf DEF IsRun
<1> HIDE DEF asks, saves, early, again
<1>9. CASE r.st.active = NoMarker /\ ~TimedOut(r.st, r.sha)
  <2> DEFINE n == [r EXCEPT !.todo = asks]
  <2>1. Advanced(r, rest) = n
    BY <1>9 DEF Advanced, asks
  <2>2. /\ n = [f \in RunFields |-> n[f]] /\ n.sc = r.sc /\ n.sha = r.sha /\ n.kept = r.kept
        /\ n.keptSc = r.keptSc
        /\ n.st = r.st /\ n.todo = asks
    BY DEF IsRun, RunFields
  <2> HIDE DEF n
  <2>3. IsState(n.st) /\ KnowsLast(n.st) /\ n.st.active = r.st.active /\ n.st.active = NoMarker
    BY <1>8, <1>9, <2>2
  <2>4. n.todo \in Seq(Steps) /\ Orderly(n.todo)
    BY <1>1, <2>2
  <2>5. QED
    BY <2>1, <2>2, <2>3, <2>4, StaysGood
<1>10. CASE r.st.active = NoMarker /\ TimedOut(r.st, r.sha)
  BY <1>10, GivesUpIsGood DEF Advanced
<1>11. ASSUME NEW why, NEW todo, Advanced(r, rest) =
              [r EXCEPT !.st = Closed(r.st, why), !.allow = ~r.mute, !.todo = todo],
              todo \in Seq(Steps), Orderly(todo), todo # <<>>, Head(todo) = "save"
       PROVE  Good(Advanced(r, rest))
  <2> DEFINE st == Closed(r.st, why)
             n == [r EXCEPT !.st = st, !.allow = ~r.mute, !.todo = todo]
  <2>1. IsState(st) /\ KnowsLast(st) /\ st.active = NoMarker
    BY <1>8, ClosedIs
  <2>2. Advanced(r, rest) = n
    BY <1>11
  <2> HIDE DEF st
  <2>3. /\ n = [f \in RunFields |-> n[f]] /\ n.sc = r.sc /\ n.sha = r.sha /\ n.kept = r.kept
        /\ n.keptSc = r.keptSc
        /\ n.st = st /\ n.todo = todo
    BY DEF IsRun, RunFields
  <2> HIDE DEF n
  <2>4. QED
    BY <1>11, <2>1, <2>2, <2>3, StaysGood DEF Saving
<1>12. CASE r.st.active # NoMarker /\ Obsolete(r.st, r.sha)
  <2>1. Advanced(r, rest) =
            [r EXCEPT !.st = Closed(r.st, "obsolete_head"), !.allow = ~r.mute, !.todo = early]
    BY <1>12 DEF Advanced, early
  <2>2. QED
    BY <1>7, <1>11, <2>1
<1>13. CASE r.st.active # NoMarker /\ ~Obsolete(r.st, r.sha) /\ TimedOut(r.st, r.sha)
  BY <1>13, GivesUpIsGood DEF Advanced
<1>14. CASE /\ r.st.active # NoMarker /\ ~Obsolete(r.st, r.sha) /\ ~TimedOut(r.st, r.sha)
            /\ Acknowledged(r)
  <2> DEFINE st == [r.st EXCEPT !.active.phase = "waiting_result"]
             n == [r EXCEPT !.st = st, !.todo = saves]
  <2>1. IsState(st) /\ st.active # NoMarker /\ KnowsLast(st)
    BY <1>8, <1>14, AcknowledgedIs
  <2>2. Advanced(r, rest) = n
    <3>1. Advanced(r, rest) = [r EXCEPT !.st.active.phase = "waiting_result", !.todo = saves]
      BY <1>14 DEF Advanced, saves
    <3>2. QED
      BY <3>1
  <2> HIDE DEF st
  <2>3. /\ n = [f \in RunFields |-> n[f]] /\ n.sc = r.sc /\ n.sha = r.sha /\ n.kept = r.kept
        /\ n.keptSc = r.keptSc
        /\ n.st = st /\ n.todo = saves
    BY DEF IsRun, RunFields
  <2> HIDE DEF n
  <2>4. QED
    BY <1>5, <1>14, <2>1, <2>2, <2>3, StaysGood
<1>15. CASE /\ r.st.active # NoMarker /\ ~Obsolete(r.st, r.sha) /\ ~TimedOut(r.st, r.sha)
            /\ ~Acknowledged(r) /\ Overdue(r.st) # "none"
  <2>1. Advanced(r, rest) =
            [r EXCEPT !.st = Closed(r.st, Overdue(r.st)), !.allow = ~r.mute, !.todo = again]
    BY <1>15 DEF Advanced, again
  <2>2. QED
    BY <1>6, <1>11, <2>1
<1>16. CASE /\ r.st.active # NoMarker /\ ~Obsolete(r.st, r.sha) /\ ~TimedOut(r.st, r.sha)
            /\ ~Acknowledged(r) /\ Overdue(r.st) = "none"
  <2> DEFINE n == [r EXCEPT !.todo = rest]
  <2>1. Advanced(r, rest) = n
    BY <1>16 DEF Advanced
  <2>2. /\ n = [f \in RunFields |-> n[f]] /\ n.sc = r.sc /\ n.sha = r.sha /\ n.kept = r.kept
        /\ n.keptSc = r.keptSc
        /\ n.st = r.st /\ n.todo = rest
    BY DEF IsRun, RunFields
  <2> HIDE DEF n
  <2>3. IsState(n.st) /\ KnowsLast(n.st) /\ n.st.active = r.st.active
    BY <1>8, <2>2
  <2>4. /\ n.todo \in Seq(Steps) /\ Orderly(n.todo)
        /\ n.todo # <<>> => Head(n.todo) # "marker"
    BY <1>8, <2>2
  <2>5. QED
    BY <2>1, <2>2, <2>3, <2>4, StaysGood
<1>17. QED
  BY <1>9, <1>10, <1>12, <1>13, <1>14, <1>15, <1>16

\* What goes wrong ends the run, or leads to the findings it set out to record.
LEMMA ThrownIsGood ==
    ASSUME NEW r, IsRun(r), KnowsLast(r.st)
    PROVE  /\ Good(Thrown(r)) /\ ~Asks(Thrown(r).todo)
           /\ r.st.active = NoMarker => Thrown(r).st.active = NoMarker
<1>1. KnowsLast(r.kept)
  BY DEF IsRun, KnowsLast
<1>2. CASE PreparesFindings(r)
  <2> DEFINE n == [r EXCEPT !.st = r.kept, !.todo = Failing]
  <2>1. Thrown(r) = n
    BY <1>2 DEF Thrown
  <2>2. /\ n = [f \in RunFields |-> n[f]] /\ n.sc = r.sc /\ n.kept = r.kept /\ n.keptSc = r.keptSc
        /\ n.st = r.kept /\ n.todo = Failing
    BY DEF IsRun, RunFields
  <2> HIDE DEF n
  <2>3. ~Asks(n.todo)
    BY <2>2, Programs
  <2>4. QED
    BY <1>1, <2>1, <2>2, <2>3, Programs DEF Good, IsRun, RunHolds, NothingElseHeld, Asking
<1>3. CASE ~PreparesFindings(r)
  <2> DEFINE n == [r EXCEPT !.todo = <<"error">>]
  <2>1. Thrown(r) = n
    BY <1>3 DEF Thrown
  <2>2. /\ n = [f \in RunFields |-> n[f]] /\ n.sc = r.sc /\ n.kept = r.kept /\ n.keptSc = r.keptSc
        /\ n.st = r.st /\ n.todo = <<"error">>
    BY DEF IsRun, RunFields
  <2> HIDE DEF n
  <2>3. "error" \in Steps /\ "error" \notin MarkerSteps
    BY DEF Steps, MarkerSteps
  <2>4. /\ n.todo \in Seq(Steps) /\ Orderly(n.todo) /\ Head(n.todo) = "error" /\ ~Asks(n.todo)
    BY <2>2, <2>3, Programs
  <2>5. QED
    BY <2>1, <2>2, <2>4 DEF Good, IsRun, RunHolds, NothingElseHeld, Asking
<1>4. QED
  BY <1>2, <1>3

LEMMA StatusFailedIsGood ==
    ASSUME NEW r, IsRun(r), KnowsLast(r.st)
    PROVE  Good(StatusFailed(r))
<1> DEFINE t == Thrown(r)
           n == [t EXCEPT !.sc = r.keptSc]
<1>1. Good(t) /\ ~Asks(t.todo)
  BY ThrownIsGood
<1>2. StatusFailed(r) = t \/ StatusFailed(r) = n
  BY DEF StatusFailed
<1> HIDE DEF t
<1>3. /\ n = [f \in RunFields |-> n[f]] /\ n.sc = r.keptSc /\ n.kept = t.kept /\ n.keptSc = t.keptSc
      /\ n.st = t.st /\ n.todo = t.todo
  BY <1>1 DEF Good, IsRun, RunFields
<1> HIDE DEF n
<1>4. Good(n)
  BY <1>1, <1>3 DEF Good, IsRun, RunHolds, NothingElseHeld, Asking
<1>5. QED
  BY <1>1, <1>2, <1>4

\* Steps that are neither a marker nor a record of findings are in order.
Mild(todo) == todo \in Seq(Steps) /\ \A i \in DOMAIN todo : todo[i] \notin {"marker", "failure"}

LEMMA MildIs ==
    /\ \A s, t : Mild(s) /\ Mild(t) => Mild(s \o t)
    /\ \A s : Mild(s) => Orderly(s) /\ (s # <<>> => Head(s) # "marker")
    /\ Mild(<<>>)
    /\ \A step \in Steps \ {"marker", "failure"} : Mild(<<step>>)
<1>1. ASSUME NEW s, NEW t, Mild(s), Mild(t) PROVE Mild(s \o t)
  <2>1. /\ s \in Seq(Steps) /\ t \in Seq(Steps) /\ Len(s) \in Nat /\ Len(t) \in Nat
        /\ DOMAIN s = 1..Len(s) /\ DOMAIN t = 1..Len(t)
    BY <1>1 DEF Mild
  <2>2. /\ s \o t \in Seq(Steps) /\ DOMAIN (s \o t) = 1..(Len(s) + Len(t))
        /\ \A i \in 1..Len(s) : (s \o t)[i] = s[i]
        /\ \A i \in 1..Len(t) : (s \o t)[Len(s) + i] = t[i]
    BY <2>1, JoinOf
  <2> DEFINE u == s \o t
  <2> HIDE DEF u
  <2>3. SUFFICES ASSUME NEW i \in DOMAIN u PROVE u[i] \notin {"marker", "failure"}
    BY <2>2 DEF Mild, u
  <2>4. CASE i <= Len(s)
    <3>1. i \in 1..Len(s)
      BY <2>1, <2>2, <2>4 DEF u
    <3>2. QED
      BY <1>1, <2>1, <2>2, <3>1 DEF Mild, u
  <2>5. CASE ~(i <= Len(s))
    <3>1. i - Len(s) \in 1..Len(t) /\ Len(s) + (i - Len(s)) = i
      BY <2>1, <2>2, <2>5 DEF u
    <3>2. u[i] = t[i - Len(s)]
      BY <2>2, <3>1 DEF u
    <3>3. QED
      BY <1>1, <2>1, <3>1, <3>2 DEF Mild
  <2>6. QED
    BY <2>4, <2>5
<1>2. ASSUME NEW s, Mild(s) PROVE Orderly(s) /\ (s # <<>> => Head(s) # "marker")
  BY <1>2, TailOf DEF Mild, Orderly
<1>3. Mild(<<>>)
  BY DEF Mild
<1>4. ASSUME NEW step \in Steps \ {"marker", "failure"} PROVE Mild(<<step>>)
  BY DEF Mild
<1>5. QED
  BY <1>1, <1>2, <1>3, <1>4

\* What processPullRequest has decided before its first marker step.
LEMMA AdmittedIsGood ==
    ASSUME NEW r, IsRun(r), Alone(r), KnowsLast(r.st), NEW save
    PROVE  Good(Admitted(r, save))
<1> DEFINE changed == Changed(r.st, r.sha)
           needs == r.needs \/ NeedsMarker(r.st, r.sha)
           active == r.st.active # NoMarker
           mute == /\ r.word = "progress" /\ ~changed /\ ~active
                   /\ LatestOutcome(r.st, r.sha) = "none"
           may == AllowsMarker(r) \/ needs \/ changed
           a == IF save THEN <<"saveBest">> ELSE <<>>
           b == IF changed /\ active THEN <<"obsolete">> ELSE <<>>
           c == IF changed THEN <<"wait">> ELSE <<>>
           d == <<"fresh", "timeout", "wait", "saveBest", "enter">>
           todo == a \o b \o c \o d
           n == [r EXCEPT !.needs = needs, !.changed = changed, !.mute = mute, !.may = may,
                          !.todo = todo]
<1>1. Admitted(r, save) = n
  BY DEF Admitted
<1>2. Mild(todo)
  <2>1. Mild(a) /\ Mild(b) /\ Mild(c)
    BY MildIs DEF Steps
  <2>2. Mild(d)
    BY DEF Mild, Steps
  <2> HIDE DEF a, b, c, d
  <2>3. QED
    BY <2>1, <2>2, MildIs
<1> HIDE DEF changed, needs, mute, may, todo
<1>3. /\ n = [f \in RunFields |-> n[f]] /\ n.sc = r.sc /\ n.sha = r.sha /\ n.kept = r.kept
      /\ n.keptSc = r.keptSc
      /\ n.st = r.st /\ n.todo = todo
  BY DEF IsRun, RunFields
<1> HIDE DEF n
<1>4. IsState(n.st) /\ KnowsLast(n.st) /\ n.st.active = r.st.active
  BY <1>3 DEF IsRun
<1>5. /\ n.todo \in Seq(Steps) /\ Orderly(n.todo)
      /\ n.todo # <<>> => Head(n.todo) # "marker"
  BY <1>2, <1>3, MildIs DEF Mild
<1>6. QED
  BY <1>1, <1>3, <1>4, <1>5, StaysGood

\* A run that asks no more.
LEMMA DoneAsking ==
    ASSUME NEW r, NEW n, IsRun(r), n = [f \in RunFields |-> n[f]], n.sc = r.sc,
           n.kept = r.kept, n.keptSc = r.keptSc,
           IsState(n.st), KnowsLast(n.st), n.todo \in Seq(Steps), Orderly(n.todo), ~Asks(n.todo),
           n.todo # <<>> => Head(n.todo) # "marker"
    PROVE  Good(n)
  BY DEF Good, IsRun, RunHolds, NothingElseHeld, Asking

\* findLatestTrustedStateComment finds the newest comment unless it is deleted.
LEMMA LastStateIs ==
    ASSUME GateTypeInv
    PROVE  /\ LastState \in 0..Len(states) /\ Len(states) \in Nat
           /\ LastState # 0 => LastState \in DOMAIN states /\ ~states[LastState].deleted
           /\ states # <<>> /\ Holds(Newest) => LastState = Len(states)
<1> DEFINE shown == {i \in DOMAIN states : ~states[i].deleted}
<1>1. Len(states) \in Nat /\ DOMAIN states = 1..Len(states)
      /\ (states # <<>> => Len(states) \in DOMAIN states)
  BY DEF GateTypeInv
<1>2. CASE shown = {}
  BY <1>1, <1>2 DEF LastState, Holds, Newest
<1>3. CASE shown # {}
  <2>1. shown \in SUBSET Nat /\ \A i \in shown : i <= Len(states)
    BY <1>1
  <2>2. \E i \in shown : \A j \in shown : j <= i
    <3> HIDE DEF shown
    <3>1. QED
      BY <1>1, <1>3, <2>1, LargestOf
  <2>3. LastState \in shown /\ \A j \in shown : j <= LastState
    <3>1. LastState = CHOOSE i \in shown : \A j \in shown : j <= i
      BY <1>3 DEF LastState
    <3> HIDE DEF shown
    <3>2. QED
      BY <2>2, <3>1
  <2>4. states # <<>> /\ Holds(Newest) => LastState = Len(states)
    <3>1. SUFFICES ASSUME states # <<>>, Holds(Newest) PROVE LastState = Len(states)
      OBVIOUS
    <3>2. Len(states) \in shown
      BY <1>1, <3>1 DEF Holds, Newest
    <3> HIDE DEF shown
    <3>3. Len(states) <= LastState /\ LastState <= Len(states)
      BY <2>1, <2>3, <3>2
    <3>4. Len(states) \in Nat /\ LastState \in Nat
      BY <1>1, <2>1, <2>3
    <3>5. QED
      BY <3>3, <3>4
  <2>5. QED
    BY <1>1, <2>1, <2>3, <2>4
<1>4. QED
  BY <1>2, <1>3

\* ensureState: what a run begins with, when nothing conflicts.
LEMMA LoadedIs ==
    ASSUME GateTypeInv, ~Conflict, NEW h
    PROVE  /\ IsState(Loaded(h)) /\ KnowsLast(Loaded(h))
           /\ LastState = 0 => Loaded(h).active = NoMarker
           /\ states # <<>> /\ Holds(Newest) =>
                 /\ LastState = Len(states) /\ Loaded(h).active = Newest.st.active
                 /\ LastState # 0
<1>1. /\ LastState \in 0..Len(states) /\ Len(states) \in Nat
      /\ LastState # 0 => LastState \in DOMAIN states
      /\ states # <<>> /\ Holds(Newest) => LastState = Len(states)
  BY LastStateIs
<1>2. CASE LastState = 0
  <2>1. Loaded(h) = Fresh(h) \/ Loaded(h) = Recovered(h, LastMarker)
    BY <1>2 DEF Loaded
  <2>2. IsState(Loaded(h)) /\ KnowsLast(Loaded(h)) /\ Loaded(h).active = NoMarker
    BY <2>1, FreshIs
  <2>3. ~(states # <<>> /\ Holds(Newest))
    BY <1>1, <1>2 DEF GateTypeInv
  <2>4. QED
    BY <2>2, <2>3
<1>3. CASE LastState # 0
  <2> DEFINE st == states[LastState].st
  <2>1. IsState(st) /\ LastState \in DOMAIN states
    BY <1>1, <1>3 DEF GateTypeInv
  <2>2. LastMarker \in Nat /\ (LastMarker # 0 => LastMarker \in DOMAIN markers)
        /\ DOMAIN markers = 1..LastMarker
    BY NoMarkerIs DEF LastMarker
  <2>3. CASE LastMarker = 0 \/ Knows(st, LastMarker)
    <3>1. Loaded(h) = st
      BY <1>3, <2>3 DEF Loaded
    <3>2. LastMarker = 0 => st.active = NoMarker
      BY <2>1, <2>2 DEF IsState
    <3>3. KnowsLast(st)
      BY <2>3, <3>2 DEF KnowsLast
    <3>4. QED
      BY <1>1, <1>3, <2>1, <3>1, <3>3 DEF Newest
  <2>4. CASE ~(LastMarker = 0 \/ Knows(st, LastMarker))
    <3> DEFINE a == [id |-> LastMarker, phase |-> "waiting_ack"]
               n == [st EXCEPT !.active = a]
    <3>1. Loaded(h) = n
      BY <1>3, <2>4 DEF Loaded
    <3>2. st.active = NoMarker
      BY <1>3, <2>4 DEF Conflict
    <3>3. n = [f \in StateFields |-> n[f]] /\ n.active = a
      BY <2>1 DEF IsState, StateFields
    <3>4. a \in [id : Nat, phase : Phases] /\ a.id = LastMarker
      BY <2>2 DEF Phases
    <3> HIDE DEF n, a
    <3>5. IsState(n)
      BY <2>2, <2>4, <3>3, <3>4 DEF IsState
    <3>6. KnowsLast(n)
      BY <3>3, <3>4 DEF KnowsLast, Knows
    <3>7. ~(states # <<>> /\ Holds(Newest))
      BY <1>1, <3>2 DEF Holds, Newest
    <3>8. QED
      BY <1>3, <3>1, <3>5, <3>6, <3>7
  <2>5. QED
    BY <2>3, <2>4
<1>4. QED
  BY <1>2, <1>3

\* What the snapshot and the comments lead to.
LEMMA SeenIsGood ==
    ASSUME GateTypeInv, RunHolds(run)
    PROVE  Good(Seen(run))
<1> DEFINE w == verdict[run.sha]
           st0 == IF Conflict THEN Fresh(run.sha) ELSE Loaded(run.sha)
           sc0 == IF Conflict THEN 0 ELSE LastState
           ns0 == Conflict \/ LastState = 0
           found == [run EXCEPT !.word = w, !.eyes = eyes, !.reviewed = reviewed,
                                !.st = st0, !.sc = sc0, !.needs = ns0, !.blocked = Conflict]
           save == LastState = 0 \/ Loaded(run.sha) # states[LastState].st
<1>1. IsRun(run) /\ KnowsLast(run.st)
  BY DEF GateTypeInv, RunHolds
<1>2. IsState(st0) /\ KnowsLast(st0)
  BY LoadedIs, FreshIs
<1>3. sc0 \in 0..Len(states)
  BY LastStateIs
<1>4. /\ found = [f \in RunFields |-> found[f]] /\ found.todo = run.todo /\ found.kept = run.kept
      /\ found.keptSc = run.keptSc
      /\ found.st = st0 /\ found.sc = sc0 /\ found.sha = run.sha /\ found.blocked = Conflict
  <2> HIDE DEF w, st0, sc0, ns0
  <2>1. QED
    BY <1>1 DEF IsRun, RunFields
<1> HIDE DEF w, st0, sc0, ns0, found
<1> DEFINE untracked == run.by = "scan" /\ ~Tracked /\ found.word # "finding"
           stuck == Conflict /\ found.word \notin {"finding", "clean"}
<1> HIDE DEF save
<1>5. /\ untracked => Seen(run) = [run EXCEPT !.todo = <<>>]
      /\ ~untracked /\ stuck => Seen(run) = [run EXCEPT !.todo = <<"error">>]
      /\ ~untracked /\ ~stuck =>
            /\ found.word = "finding" => Seen(run) = FindingsSeen(found)
            /\ found.word = "invalid" => Seen(run) = [found EXCEPT !.todo = <<"error">>]
            /\ found.word = "clean" => Seen(run) = [found EXCEPT !.todo = <<"final">>]
            /\ found.word \notin {"finding", "invalid", "clean"} => Seen(run) = PendingSeen(found, save)
  <2>1. untracked => Seen(run) = [run EXCEPT !.todo = <<>>]
    BY DEF Seen, found, save, w, st0, sc0, ns0
  <2>2. ~untracked /\ stuck => Seen(run) = [run EXCEPT !.todo = <<"error">>]
    BY DEF Seen, found, save, w, st0, sc0, ns0
  <2>3. ~untracked /\ ~stuck /\ found.word = "finding" => Seen(run) = FindingsSeen(found)
    BY DEF Seen, found, save, w, st0, sc0, ns0
  <2>4. ~untracked /\ ~stuck /\ found.word = "invalid" => Seen(run) = [found EXCEPT !.todo = <<"error">>]
    BY DEF Seen, found, save, w, st0, sc0, ns0
  <2>5. ~untracked /\ ~stuck /\ found.word = "clean" => Seen(run) = [found EXCEPT !.todo = <<"final">>]
    BY DEF Seen, found, save, w, st0, sc0, ns0
  <2>6. ~untracked /\ ~stuck /\ found.word \notin {"finding", "invalid", "clean"}
            => Seen(run) = PendingSeen(found, save)
    BY DEF Seen, found, save, w, st0, sc0, ns0
  <2>7. QED
    BY <2>1, <2>2, <2>3, <2>4, <2>5, <2>6
<1>6. IsRun(found)
  BY <1>1, <1>2, <1>3, <1>4 DEF IsRun
<1>7. ASSUME ~Conflict
      PROVE  Alone(found) /\ (states # <<>> /\ Holds(Newest) =>
                                 /\ LastState = Len(states) /\ LastState # 0
                                 /\ found.st.active = Newest.st.active)
  <2>1. found.st = Loaded(run.sha) /\ found.sc = LastState
    BY <1>4, <1>7 DEF st0, sc0
  <2>2. states # <<>> /\ Holds(Newest) => Newest.st.active # NoMarker
    BY DEF Holds
  <2>3. QED
    BY <1>7, <2>1, <2>2, LoadedIs DEF Alone
<1>8. ASSUME NEW todo, Mild(todo), ~Asks(todo) PROVE Good([found EXCEPT !.todo = todo])
  <2> DEFINE n == [found EXCEPT !.todo = todo]
  <2>1. /\ n = [f \in RunFields |-> n[f]] /\ n.sc = found.sc /\ n.kept = found.kept
        /\ n.keptSc = found.keptSc
        /\ n.st = st0 /\ n.todo = todo
    BY <1>4 DEF RunFields
  <2> HIDE DEF n
  <2>2. /\ n.todo \in Seq(Steps) /\ Orderly(n.todo) /\ ~Asks(n.todo)
        /\ n.todo # <<>> => Head(n.todo) # "marker"
    BY <1>8, <2>1, MildIs DEF Mild
  <2>3. Good(n)
    BY <1>2, <1>6, <2>1, <2>2, DoneAsking
  <2>4. QED
    BY <2>3 DEF n
<1>9. \A step \in Steps \ (MarkerSteps \cup {"failure"}) : Mild(<<step>>) /\ ~Asks(<<step>>)
  BY MildIs, Programs DEF MarkerSteps
<1>10. ASSUME NEW todo, Mild(todo), ~Asks(todo) PROVE Good([run EXCEPT !.todo = todo])
  <2> DEFINE n == [run EXCEPT !.todo = todo]
  <2>1. /\ n = [f \in RunFields |-> n[f]] /\ n.sc = run.sc /\ n.kept = run.kept /\ n.keptSc = run.keptSc
        /\ n.st = run.st /\ n.todo = todo
    BY <1>1 DEF IsRun, RunFields
  <2> HIDE DEF n
  <2>2. /\ n.todo \in Seq(Steps) /\ Orderly(n.todo) /\ ~Asks(n.todo)
        /\ n.todo # <<>> => Head(n.todo) # "marker"
    BY <1>10, <2>1, MildIs DEF Mild
  <2>3. Good(n)
    BY <1>1, <2>1, <2>2, DoneAsking DEF IsRun
  <2>4. QED
    BY <2>3 DEF n
<1>11. /\ Good([found EXCEPT !.todo = <<"error">>]) /\ Good([found EXCEPT !.todo = <<"final">>])
       /\ Good([run EXCEPT !.todo = <<"error">>]) /\ Good([run EXCEPT !.todo = <<>>])
  <2>1. Mild(<<"error">>) /\ ~Asks(<<"error">>) /\ Mild(<<"final">>) /\ ~Asks(<<"final">>)
    BY <1>9 DEF Steps, MarkerSteps
  <2>2. Mild(<<>>) /\ ~Asks(<<>>)
    BY MildIs, Programs
  <2>3. QED
    BY <1>8, <1>10, <2>1, <2>2
<1>12. Good(FindingsSeen(found))
  <2> DEFINE st == IF Obsolete(found.st, found.sha) THEN Closed(found.st, "obsolete_head") ELSE found.st
             changed == Changed(found.st, found.sha)
             fresh == st.active = NoMarker /\ (changed \/ found.needs)
  <2>1. IsState(st) /\ KnowsLast(st)
    BY <1>2, <1>4, ClosedIs
  <2>2. FindingsSeen(found) =
            IF found.blocked THEN [found EXCEPT !.todo = <<"failure">>]
            ELSE IF fresh
            THEN [found EXCEPT !.st = st, !.kept = st, !.keptSc = found.sc, !.allow = TRUE,
                               !.todo = <<"advance">> \o Failing]
            ELSE [found EXCEPT !.st = st, !.todo = Failing]
    BY DEF FindingsSeen
  <2>3. ~Conflict /\ states # <<>> /\ Holds(Newest) /\ st.active = NoMarker
            => markers[Newest.st.active.id].head # found.sha
    BY <1>7 DEF Obsolete, Holds
  <2>4. ~Conflict /\ found.sc = 0 => st.active = NoMarker
    <3>1. SUFFICES ASSUME ~Conflict, found.sc = 0 PROVE st.active = NoMarker
      OBVIOUS
    <3>2. found.st.active = NoMarker
      BY <1>7, <3>1 DEF Alone
    <3>3. QED
      BY <3>2, <1>2, <1>4, ClosedIs
  <2> HIDE DEF st, changed
  <2>5. CASE found.blocked
    <3> DEFINE n == [found EXCEPT !.todo = <<"failure">>]
    <3>1. /\ n = [f \in RunFields |-> n[f]] /\ n.sc = found.sc /\ n.kept = found.kept
          /\ n.keptSc = found.keptSc
          /\ n.st = st0 /\ n.todo = <<"failure">>
      BY <1>4 DEF RunFields
    <3> HIDE DEF n
    <3>2. /\ n.todo \in Seq(Steps) /\ Orderly(n.todo) /\ ~Asks(n.todo)
          /\ n.todo # <<>> => Head(n.todo) # "marker"
      BY <3>1, Programs DEF Steps, MarkerSteps
    <3>3. Good(n)
      BY <1>2, <1>6, <3>1, <3>2, DoneAsking
    <3>4. QED
      BY <2>2, <2>5, <3>3 DEF n
  <2>6. CASE ~found.blocked /\ ~fresh
    <3> DEFINE n == [found EXCEPT !.st = st, !.todo = Failing]
    <3>1. /\ n = [f \in RunFields |-> n[f]] /\ n.sc = found.sc /\ n.kept = found.kept
          /\ n.keptSc = found.keptSc
          /\ n.st = st /\ n.todo = Failing
      BY <1>4 DEF RunFields
    <3> HIDE DEF n
    <3>2. Good(n)
      BY <1>6, <2>1, <3>1, Programs, DoneAsking
    <3>3. QED
      BY <2>2, <2>6, <3>2 DEF n
  <2>7. CASE ~found.blocked /\ fresh
    <3> DEFINE todo == <<"advance">> \o Failing
               n == [found EXCEPT !.st = st, !.kept = st, !.keptSc = found.sc, !.allow = TRUE,
                                 !.todo = todo]
    <3>1. /\ <<"advance">> \in Seq(Steps) /\ <<"advance">> # <<>> /\ Head(<<"advance">>) = "advance"
          /\ \A i \in DOMAIN <<"advance">> :
                <<"advance">>[i] # "failure" /\ <<"advance">>[i] # "marker"
      BY DEF Steps
    <3>2. todo \in Seq(Steps) /\ Orderly(todo) /\ todo # <<>> /\ Head(todo) = "advance"
      BY <3>1, Programs, PrefixIsOrderly
    <3>3. FindingsSeen(found) = n
      BY <2>2, <2>7
    <3> HIDE DEF todo
    <3>4. /\ n = [f \in RunFields |-> n[f]] /\ n.sc = found.sc /\ n.kept = st /\ n.keptSc = found.sc
          /\ n.st = st /\ n.todo = todo /\ n.sha = found.sha
      BY <1>4 DEF RunFields
    <3> HIDE DEF n
    <3>5. ~Conflict /\ st.active = NoMarker
      BY <1>4, <2>7
    <3>6. IsRun(n)
      BY <1>6, <2>1, <3>2, <3>4, <3>5 DEF IsRun
    <3>7. RunHolds(n)
      BY <2>1, <3>2, <3>4 DEF RunHolds
    <3>8. NothingElseHeld(n)
      BY <1>7, <2>3, <2>4, <3>4, <3>5 DEF NothingElseHeld, Alone
    <3>9. QED
      BY <3>3, <3>6, <3>7, <3>8 DEF Good
  <2>8. QED
    BY <2>5, <2>6, <2>7
<1>13. ASSUME ~Conflict PROVE Good(PendingSeen(found, save))
  <2> DEFINE st == Unlinked(found.st, found.sha)
             needs == found.needs \/ MarkerLost(found.st, found.sha)
             next == [found EXCEPT !.st = st, !.needs = needs]
             lost == Unfenced(st, found.sha)
             todo == <<"critical", "pending", "admit">>
             n == [next EXCEPT !.st = lost, !.needs = TRUE, !.todo = todo]
  <2>1. PendingSeen(found, save) =
            IF Fenced(found.sha) THEN n ELSE Admitted(next, save \/ st # found.st)
    BY DEF PendingSeen
  <2>2. /\ IsState(st) /\ KnowsLast(st)
        /\ found.st.active = NoMarker => st.active = NoMarker
        /\ states # <<>> /\ Holds(Newest) => st = found.st
    <3>1. CASE MarkerLost(found.st, found.sha) /\ found.st.active # NoMarker
               /\ markers[found.st.active.id].head = found.sha
      <4>1. st = Closed(found.st, "state_lost")
        BY <3>1 DEF Unlinked
      <4>2. LastState # 0 /\ states[LastState].st.active = NoMarker
        BY <3>1 DEF MarkerLost, FailureCandidate
      <4>3. ~(states # <<>> /\ Holds(Newest))
        BY <1>7, <1>13, <4>2 DEF Holds, Newest
      <4>4. QED
        BY <1>2, <1>4, <4>1, <4>3, ClosedIs
    <3>2. CASE ~(MarkerLost(found.st, found.sha) /\ found.st.active # NoMarker
                 /\ markers[found.st.active.id].head = found.sha)
      <4>1. st = found.st
        BY <3>2 DEF Unlinked
      <4>2. QED
        BY <1>2, <1>4, <4>1
    <3>3. QED
      BY <3>1, <3>2
  <2>3. IsState(lost) /\ KnowsLast(lost) /\ lost.active = NoMarker
    <3> DEFINE grown == Append(st.history, [id |-> LastMarker, outcome |-> "state_lost"])
               gone == IF st.active # NoMarker THEN Closed(st, "state_lost")
                       ELSE [st EXCEPT !.history = grown]
               m == [gone EXCEPT !.last = Told(found.sha, "pending")]
    <3>1. lost = m
      BY DEF Unfenced
    <3> HIDE DEF st
    <3>2. gone = [f \in StateFields |-> gone[f]] /\ gone.active = NoMarker
      <4> HIDE DEF grown
      <4>1. CASE st.active # NoMarker
        BY <2>2, <4>1, ClosedIs DEF IsState
      <4>2. CASE st.active = NoMarker
        BY <2>2, <4>2 DEF IsState, StateFields
      <4>3. QED
        BY <4>1, <4>2
    <3> HIDE DEF gone
    <3>3. m = [f \in StateFields |-> m[f]] /\ m.active = NoMarker
      BY <3>2 DEF StateFields
    <3> HIDE DEF m, lost
    <3>4. QED
      BY <3>1, <3>3, NothingActive
  <2> HIDE DEF st, needs, lost
  <2>4. /\ next = [f \in RunFields |-> next[f]] /\ next.sc = found.sc /\ next.kept = found.kept
        /\ next.keptSc = found.keptSc
        /\ next.st = st /\ next.sha = found.sha /\ next.todo = found.todo
    BY <1>4 DEF RunFields
  <2> HIDE DEF next
  <2>5. IsRun(next) /\ KnowsLast(next.st)
    BY <1>6, <2>2, <2>4 DEF IsRun
  <2>6. Alone(next)
    BY <1>7, <1>13, <2>2, <2>4 DEF Alone
  <2>7. CASE ~Fenced(found.sha)
    BY <2>1, <2>5, <2>6, <2>7, AdmittedIsGood
  <2>8. CASE Fenced(found.sha)
    <3>1. todo \in Seq(Steps) /\ todo # <<>> /\ Head(todo) = "critical" /\ Orderly(todo)
      <4>1. Mild(todo) /\ todo # <<>> /\ Head(todo) = "critical"
        BY DEF Mild, Steps
      <4> HIDE DEF todo
      <4>2. QED
        BY <4>1, MildIs DEF Mild
    <3> HIDE DEF todo
    <3>2. /\ n = [f \in RunFields |-> n[f]] /\ n.sc = next.sc /\ n.kept = next.kept
          /\ n.keptSc = next.keptSc
          /\ n.st = lost /\ n.sha = next.sha /\ n.todo = todo
      BY <2>4 DEF RunFields
    <3> HIDE DEF n
    <3>3. QED
      BY <2>1, <2>3, <2>5, <2>6, <2>8, <3>1, <3>2, StaysGood DEF Saving
  <2>9. QED
    BY <2>7, <2>8
<1>14. CASE run.by = "scan" /\ ~Tracked /\ found.word # "finding"
  BY <1>5, <1>11, <1>14
<1>15. CASE ~(run.by = "scan" /\ ~Tracked /\ found.word # "finding")
            /\ Conflict /\ found.word \notin {"finding", "clean"}
  BY <1>5, <1>11, <1>15
<1>16. CASE ~(run.by = "scan" /\ ~Tracked /\ found.word # "finding")
            /\ ~(Conflict /\ found.word \notin {"finding", "clean"})
  <2>1. CASE found.word = "finding"
    BY <1>5, <1>12, <1>16, <2>1
  <2>2. CASE found.word = "invalid"
    BY <1>5, <1>11, <1>16, <2>2
  <2>3. CASE found.word = "clean"
    BY <1>5, <1>11, <1>16, <2>3
  <2>4. CASE found.word \notin {"finding", "invalid", "clean"}
    <3>1. Seen(run) = PendingSeen(found, save)
      BY <1>5, <1>16, <2>4
    <3>2. ~Conflict
      BY <1>16, <2>4
    <3>3. QED
      BY <1>13, <3>1, <3>2
  <2>5. QED
    BY <2>1, <2>2, <2>3, <2>4
<1>17. QED
  BY <1>14, <1>15, <1>16

-----------------------------------------------------------------------------
(* How gate v1 asks: a step keeps the invariant.                           *)

\* A run that may still ask is alone, unless it is about to save.
LEMMA AskingIsAlone ==
    ASSUME GateInv, run.todo # <<>>, Head(run.todo) \in MarkerSteps
    PROVE  Alone(run)
<1>1. run.todo \in Seq(Steps)
  BY DEF GateInv, GateTypeInv, IsRun
<1>2. Asks(run.todo)
  BY <1>1, TailOf DEF Asks
<1>3. Head(run.todo) # "fence" /\ Head(run.todo) \notin Saving
  BY DEF MarkerSteps, Saving
<1>4. Asking(run)
  BY <1>2, <1>3 DEF Asking
<1>5. QED
  BY <1>3, <1>4 DEF GateInv, NothingElseHeld, Alone

\* Nothing is left to do.
LEMMA IdleIsGood ==
    ASSUME GateTypeInv, NEW t
    PROVE  Good(Idle(t))
<1> DEFINE n == Idle(t)
<1>1. /\ n = [f \in RunFields |-> n[f]] /\ n.sc = 0 /\ n.todo = <<>>
      /\ n.st = Fresh(head) /\ n.kept = Fresh(head) /\ n.keptSc = 0
  BY DEF Idle, RunFields
<1>2. 0 \in 0..Len(states)
  BY LastStateIs
<1> HIDE DEF n
<1>3. IsRun(n) /\ KnowsLast(n.st)
  BY <1>1, <1>2, FreshIs, Programs DEF IsRun
<1>4. Good(n)
  BY <1>1, <1>3, Programs DEF Good, RunHolds, NothingElseHeld, Asking
<1>5. QED
  BY <1>4 DEF n

\* A good run stays good where nothing that is written has changed.
LEMMA GoodStays ==
    ASSUME GateInv, NEW r, Good(r), run' = r, UNCHANGED <<markers, states>>
    PROVE  GateInv'
<1>1. Len(markers') = Len(markers) /\ LastMarker' = LastMarker /\ Newest' = Newest
  BY DEF LastMarker, Newest
<1>2. GateTypeInv'
  <2>1. /\ markers' = markers /\ states' = states /\ run' = r
        /\ IsRun(r) /\ GateTypeInv
    BY DEF GateInv, Good
  <2>2. /\ markers' \in Seq({markers'[i] : i \in DOMAIN markers'})
        /\ \A i \in DOMAIN markers' : markers'[i] = [f \in MarkerFields |-> markers'[i][f]]
        /\ states' \in Seq({states'[i] : i \in DOMAIN states'})
    BY <2>1 DEF GateTypeInv
  <2>3. (\A i \in DOMAIN states :
          /\ states[i] = [f \in {"st", "deleted"} |-> states[i][f]]
          /\ states[i].deleted \in BOOLEAN /\ IsState(states[i].st))'
    BY <2>1 DEF GateTypeInv, IsState
  <2>4. IsRun(run)'
    BY <2>1, <1>1 DEF IsRun, IsState
  <2>5. QED
    BY <2>2, <2>3, <2>4 DEF GateTypeInv
<1>3. RunHolds(run)'
  BY <1>1 DEF Good, RunHolds, KnowsLast, Knows, Orderly
<1>4. NothingElseHeld(run)'
  BY <1>1 DEF Good, NothingElseHeld, Asking, Asks, Holds
<1>5. NewestKnows'
  BY <1>1 DEF GateInv, NewestKnows, Holds, Knows
<1>6. QED
  BY <1>2, <1>3, <1>4, <1>5 DEF GateInv

\* The run goes on, or is over.
LEMMA GoesOnGood ==
    ASSUME GateInv, NEW r, Good(r), Goes(r), UNCHANGED <<markers, states>>
    PROVE  GateInv'
<1>1. run' = r \/ run' = Idle(r.at)
  BY DEF Goes
<1>2. Good(Idle(r.at))
  BY IdleIsGood DEF GateInv
<1> DEFINE n == Idle(r.at)
<1>3. CASE run' = r
  BY <1>3, GoodStays
<1>4. CASE run' = n
  <2> HIDE DEF n
  <2>1. Good(n)
    BY <1>2 DEF n
  <2>2. QED
    BY <1>4, <2>1, GoodStays
<1>5. QED
  BY <1>1, <1>3, <1>4

\* A request of the run that failed is remembered.
LEMMA BadIsGood ==
    ASSUME NEW r, Good(r)
    PROVE  Good([r EXCEPT !.bad = TRUE])
<1> DEFINE n == [r EXCEPT !.bad = TRUE]
<1>1. /\ n = [f \in RunFields |-> n[f]] /\ n.sc = r.sc /\ n.kept = r.kept /\ n.keptSc = r.keptSc
      /\ n.sha = r.sha
      /\ n.st = r.st /\ n.todo = r.todo
  BY DEF Good, IsRun, RunFields
<1> HIDE DEF n
<1>2. Good(n)
  BY <1>1 DEF Good, IsRun, RunHolds, NothingElseHeld, Asking
<1>3. QED
  BY <1>2 DEF n

LEMMA GoesBadlyGood ==
    ASSUME GateInv, NEW r, Good(r), GoesBadly(r), UNCHANGED <<markers, states>>
    PROVE  GateInv'
<1> DEFINE n == [r EXCEPT !.bad = TRUE]
<1>1. Good(n) /\ Goes(n)
  BY BadIsGood DEF GoesBadly
<1> HIDE DEF n
<1>2. QED
  BY <1>1, GoesOnGood

\* A run with something to do.
LEMMA StepOf ==
    ASSUME GateInv, NEW step, At(step)
    PROVE  /\ GateTypeInv /\ IsRun(run) /\ KnowsLast(run.st) /\ IsState(run.st)
           /\ run.todo \in Seq(Steps) /\ run.todo # <<>> /\ Head(run.todo) = step
           /\ Orderly(run.todo) /\ Rest = Tail(run.todo)
           /\ Rest \in Seq(Steps) /\ Orderly(Rest)
           /\ \A i \in DOMAIN Rest : Rest[i] # "marker"
           /\ Rest # <<>> => Head(Rest) # "marker"
           /\ Asks(Rest) => Asks(run.todo)
           /\ step = "failure" => ~Asks(Rest)
           /\ step \in MarkerSteps => Alone(run)
<1>1. /\ GateTypeInv /\ IsRun(run) /\ KnowsLast(run.st) /\ IsState(run.st)
      /\ run.todo \in Seq(Steps) /\ run.todo # <<>> /\ Head(run.todo) = step
      /\ Orderly(run.todo) /\ Rest = Tail(run.todo)
  BY DEF GateInv, GateTypeInv, RunHolds, IsRun, At, Busy, Rest
<1>2. QED
  BY <1>1, RestIsOrderly, AskingIsAlone

\* The next step, with what the run holds as it was.
LEMMA GoesToRest ==
    ASSUME GateInv, NEW step, At(step), step \notin Saving, step # "fence",
           NEW n, n = [f \in RunFields |-> n[f]], n.sc = run.sc, n.sha = run.sha,
           n.kept = run.kept, n.keptSc = run.keptSc, n.todo = Rest, IsState(n.st), KnowsLast(n.st),
           n.st.active = run.st.active \/ ~Asks(Rest)
    PROVE  Good(n)
<1>1. /\ GateTypeInv /\ IsRun(run) /\ run.todo # <<>> /\ Head(run.todo) = step
      /\ Rest \in Seq(Steps) /\ Orderly(Rest)
      /\ Rest # <<>> => Head(Rest) # "marker"
      /\ Asks(Rest) => Asks(run.todo)
  BY StepOf
<1>2. IsRun(n)
  BY <1>1 DEF IsRun
<1>3. RunHolds(n)
  BY <1>1 DEF RunHolds
<1>4. Asking(n) => Asking(run) /\ n.st.active = run.st.active
  BY <1>1 DEF Asking
<1>5. NothingElseHeld(run) /\ Head(run.todo) \notin Saving
  BY <1>1 DEF GateInv
<1>6. NothingElseHeld(n)
  BY <1>4, <1>5 DEF NothingElseHeld
<1>7. QED
  BY <1>2, <1>3, <1>6 DEF Good

\* Time, Codex and people.
LEMMA WorldKeeps ==
    ASSUME GateInv, Tick \/ Answers \/ Reacts \/ Push
    PROVE  GateInv'
<1>1. run' = run /\ UNCHANGED <<markers, states>>
  BY DEF Tick, Answers, Reacts, Push, kept
<1>2. Good(run)
  BY DEF GateInv, GateTypeInv, Good
<1>3. QED
  BY <1>1, <1>2, GoodStays

\* A run begins.
LEMMA TriggerKeeps ==
    ASSUME GateInv, Trigger
    PROVE  GateInv'
<1>1. PICK by \in {"open", "scan", "event"} :
          run' = [Idle(now) EXCEPT !.by = by, !.sha = head, !.todo = <<"load">>]
  BY DEF Trigger
<1> DEFINE o == Idle(now)
           n == [o EXCEPT !.by = by, !.sha = head, !.todo = <<"load">>]
<1>2. GateTypeInv /\ IsRun(o) /\ KnowsLast(o.st) /\ IsState(o.st)
  BY IdleIsGood DEF Good, GateInv, RunHolds, IsRun
<1> HIDE DEF o
<1>3. /\ n = [f \in RunFields |-> n[f]] /\ n.sc = o.sc /\ n.kept = o.kept /\ n.keptSc = o.keptSc
      /\ n.st = o.st /\ n.todo = <<"load">>
  BY <1>2 DEF IsRun, RunFields
<1>4. run' = n
  BY <1>1 DEF o
<1> HIDE DEF n
<1>5. /\ n.todo \in Seq(Steps) /\ Orderly(n.todo) /\ ~Asks(n.todo) /\ Head(n.todo) # "marker"
  BY <1>3, Programs DEF Steps, MarkerSteps
<1>6. Good(n)
  BY <1>2, <1>3, <1>5, DoneAsking
<1>7. UNCHANGED <<markers, states>>
  BY DEF Trigger, kept
<1>8. QED
  BY <1>4, <1>6, <1>7, GoodStays

\* A run with nothing or one thing left, that is no request.
LEMMA EndsGood ==
    ASSUME GateInv, NEW todo, todo = <<>> \/ \E step \in Steps \ MarkerSteps : todo = <<step>>
    PROVE  Good([run EXCEPT !.todo = todo])
<1> DEFINE n == [run EXCEPT !.todo = todo]
<1>1. IsRun(run) /\ KnowsLast(run.st) /\ IsState(run.st)
  BY DEF GateInv, GateTypeInv, IsRun, RunHolds
<1>2. /\ n = [f \in RunFields |-> n[f]] /\ n.sc = run.sc /\ n.kept = run.kept /\ n.keptSc = run.keptSc
      /\ n.st = run.st /\ n.todo = todo
  BY <1>1 DEF IsRun, RunFields
<1>3. /\ todo \in Seq(Steps) /\ Orderly(todo) /\ ~Asks(todo)
      /\ todo # <<>> => Head(todo) # "marker"
  BY Programs DEF MarkerSteps
<1> HIDE DEF n
<1>4. Good(n)
  BY <1>1, <1>2, <1>3, DoneAsking
<1>5. QED
  BY <1>4 DEF n

\* A run is killed.
LEMMA CrashKeeps ==
    ASSUME GateInv, Crash
    PROVE  GateInv'
<1> DEFINE n == [run EXCEPT !.todo = <<>>]
<1>1. Goes(n) /\ UNCHANGED <<markers, states>>
  BY DEF Crash, kept
<1>2. Good(n)
  BY EndsGood
<1> HIDE DEF n
<1>3. QED
  BY <1>1, <1>2, GoesOnGood

\* What a run reads.
LEMMA LoadKeeps ==
    ASSUME GateInv, Load
    PROVE  GateInv'
<1>1. UNCHANGED <<markers, states>>
  BY DEF Load, kept
<1>2. CASE Goes(Seen(run))
  <2> DEFINE n == Seen(run)
  <2>1. Good(n)
    BY SeenIsGood DEF GateInv
  <2> HIDE DEF n
  <2>2. Goes(n)
    BY <1>2 DEF n
  <2>3. QED
    BY <1>1, <2>1, <2>2, GoesOnGood
<1>3. CASE \E end \in LoadErrors : GoesBadly([run EXCEPT !.todo = end])
  <2>1. PICK end \in LoadErrors : GoesBadly([run EXCEPT !.todo = end])
    BY <1>3
  <2> DEFINE n == [run EXCEPT !.todo = end]
  <2>2. end \in {<<>>, <<"error">>, <<"pending">>} /\ {"error", "pending"} \subseteq Steps \ MarkerSteps
    BY DEF Steps, MarkerSteps, LoadErrors
  <2>3. Good(n)
    BY <2>2, EndsGood
  <2>4. GoesBadly(n)
    BY <2>1
  <2> HIDE DEF n
  <2>5. QED
    BY <1>1, <2>3, <2>4, GoesBadlyGood
<1>4. QED
  BY <1>2, <1>3 DEF Load

\* passGateFromCurrentEvidence.
LEMMA FinalKeeps ==
    ASSUME GateInv, Final
    PROVE  GateInv'
<1> DEFINE blocked == run.blocked \/ Conflict
           why == IF Obsolete(run.st, run.sha) THEN "obsolete_head" ELSE "passed"
           closed == Closed(run.st, why)
           told == Told(run.sha, "success")
           passed == [closed EXCEPT !.last = told]
           found == [run EXCEPT !.todo = IF blocked THEN <<"failure">> ELSE Failing]
           clean == [run EXCEPT !.st = passed,
                                !.todo = <<"success">> \o IF blocked THEN <<>> ELSE <<"saveBest">>]
<1>1. UNCHANGED <<markers, states>> /\ IsRun(run) /\ KnowsLast(run.st) /\ IsState(run.st)
  BY DEF Final, kept, GateInv, GateTypeInv, IsRun, RunHolds
<1>2. \/ Goes(Thrown(run)) \/ Goes(found) \/ Goes(clean)
      \/ \E end \in {"pending", "error"} : GoesBadly([run EXCEPT !.todo = <<end>>])
  <2>1. CASE Goes(IF head # run.sha THEN Thrown(run)
                  ELSE CASE verdict[head] = "finding" -> found
                         [] verdict[head] = "clean" -> clean
                         [] OTHER -> Thrown(run))
    <3> DEFINE t == Thrown(run)
    <3> HIDE DEF found, clean, t
    <3>1. CASE head # run.sha
      BY <2>1, <3>1 DEF t
    <3>2. CASE head = run.sha /\ verdict[head] = "finding"
      BY <2>1, <3>2
    <3>3. CASE head = run.sha /\ verdict[head] = "clean"
      BY <2>1, <3>3
    <3>4. CASE head = run.sha /\ verdict[head] \notin {"finding", "clean"}
      BY <2>1, <3>4 DEF t
    <3>5. QED
      BY <3>1, <3>2, <3>3, <3>4
  <2>2. CASE \E end \in {"pending", "error"} : GoesBadly([run EXCEPT !.todo = <<end>>])
    BY <2>2
  <2>3. QED
    BY <2>1, <2>2 DEF Final
<1>3. Good(Thrown(run))
  BY <1>1, ThrownIsGood
<1>4. Good(found)
  <2> DEFINE todo == IF blocked THEN <<"failure">> ELSE Failing
             n == [run EXCEPT !.todo = todo]
  <2>1. /\ todo \in Seq(Steps) /\ Orderly(todo) /\ ~Asks(todo)
        /\ todo # <<>> => Head(todo) # "marker"
    BY Programs DEF Steps, MarkerSteps
  <2> HIDE DEF todo
  <2>2. /\ n = [f \in RunFields |-> n[f]] /\ n.sc = run.sc /\ n.kept = run.kept /\ n.keptSc = run.keptSc
        /\ n.st = run.st /\ n.todo = todo
    BY <1>1 DEF IsRun, RunFields
  <2> HIDE DEF n
  <2>3. Good(n)
    BY <1>1, <2>1, <2>2, DoneAsking
  <2>4. QED
    BY <2>3 DEF n, todo
<1>5. Good(clean)
  <2> DEFINE todo == <<"success">> \o IF blocked THEN <<>> ELSE <<"saveBest">>
             n == [run EXCEPT !.st = passed, !.todo = todo]
  <2>1. Mild(todo) /\ ~Asks(todo)
    <3> DEFINE after == IF blocked THEN <<>> ELSE <<"saveBest">>
    <3>1. Mild(<<"success">>) /\ ~Asks(<<"success">>) /\ <<"success">> \in Seq(Steps)
          /\ <<"success">> # <<>>
          /\ \A i \in DOMAIN <<"success">> : <<"success">>[i] # "failure" /\ <<"success">>[i] # "marker"
      BY MildIs, Programs DEF Steps, MarkerSteps
    <3>2. Mild(after) /\ ~Asks(after)
      BY MildIs, Programs DEF Steps, MarkerSteps
    <3> HIDE DEF after
    <3>3. Orderly(after) /\ after \in Seq(Steps) /\ \A i \in DOMAIN after : after[i] # "marker"
      BY <3>2, MildIs DEF Mild
    <3>4. QED
      BY <3>1, <3>2, <3>3, MildIs, PrefixIsOrderly DEF after
  <2>2. IsState(passed) /\ KnowsLast(passed) /\ passed.active = NoMarker
    <3>1. IsState(closed) /\ closed.active = NoMarker
      BY <1>1, ClosedIs
    <3> HIDE DEF closed, told
    <3>2. passed = [f \in StateFields |-> passed[f]] /\ passed.active = NoMarker
      BY <3>1 DEF IsState, StateFields
    <3> HIDE DEF passed
    <3>3. QED
      BY <3>2, NothingActive
  <2> HIDE DEF todo, passed
  <2>3. /\ n = [f \in RunFields |-> n[f]] /\ n.sc = run.sc /\ n.kept = run.kept /\ n.keptSc = run.keptSc
        /\ n.st = passed /\ n.todo = todo
    BY <1>1 DEF IsRun, RunFields
  <2> HIDE DEF n
  <2>4. Orderly(todo) /\ todo \in Seq(Steps) /\ (todo # <<>> => Head(todo) # "marker")
    BY <2>1, MildIs DEF Mild
  <2>5. Good(n)
    BY <1>1, <2>1, <2>2, <2>3, <2>4, DoneAsking
  <2>6. QED
    BY <2>5 DEF n, todo, passed
<1> DEFINE t == Thrown(run)
<1> HIDE DEF found, clean, t
<1>6. CASE Goes(t)
  BY <1>1, <1>3, <1>6, GoesOnGood DEF t
<1>7. CASE Goes(found)
  BY <1>1, <1>4, <1>7, GoesOnGood
<1>8. CASE Goes(clean)
  BY <1>1, <1>5, <1>8, GoesOnGood
<1>9. CASE \E end \in {"pending", "error"} : GoesBadly([run EXCEPT !.todo = <<end>>])
  <2>1. PICK end \in {"pending", "error"} : GoesBadly([run EXCEPT !.todo = <<end>>])
    BY <1>9
  <2> DEFINE n == [run EXCEPT !.todo = <<end>>]
  <2>2. end \in Steps \ MarkerSteps
    BY DEF Steps, MarkerSteps
  <2>3. Good(n)
    BY <2>2, EndsGood
  <2>4. GoesBadly(n)
    BY <2>1
  <2> HIDE DEF n
  <2>5. QED
    BY <1>1, <2>3, <2>4, GoesBadlyGood
<1>10. QED
  BY <1>2, <1>6, <1>7, <1>8, <1>9 DEF t

\* A decision that asks nothing of GitHub.
LEMMA DecidesKeeps ==
    ASSUME GateInv, NEW step, NEW next, Decides(step, next), Good(next)
    PROVE  GateInv'
<1>1. Goes(next) /\ UNCHANGED <<markers, states>>
  BY DEF Decides, kept
<1>2. QED
  BY <1>1, GoesOnGood

LEMMA AdmitKeeps ==
    ASSUME GateInv, Admit
    PROVE  GateInv'
<1>1. At("admit")
  BY DEF Admit, Decides
<1>2. "admit" \in MarkerSteps
  BY DEF MarkerSteps
<1> DEFINE n == Admitted(run, FALSE)
<1>3. Good(n)
  BY <1>1, <1>2, StepOf, AdmittedIsGood
<1>4. Decides("admit", n)
  BY DEF Admit
<1> HIDE DEF n
<1>5. QED
  BY <1>3, <1>4, DecidesKeeps

LEMMA CloseObsoleteKeeps ==
    ASSUME GateInv, CloseObsolete
    PROVE  GateInv'
<1>1. At("obsolete")
  BY DEF CloseObsolete, Decides
<1>2. "obsolete" \in MarkerSteps
  BY DEF MarkerSteps
<1>3. /\ IsRun(run) /\ Alone(run) /\ IsState(run.st) /\ Rest \in Seq(Steps) /\ Orderly(Rest)
      /\ \A i \in DOMAIN Rest : Rest[i] # "marker"
  BY <1>1, <1>2, StepOf
<1> DEFINE st == Closed(run.st, "obsolete_head")
           todo == <<"save">> \o Rest
           n == [run EXCEPT !.st = st, !.todo = todo]
<1>4. todo \in Seq(Steps) /\ todo # <<>> /\ Head(todo) = "save" /\ Orderly(todo)
  <2>1. /\ <<"save">> \in Seq(Steps) /\ <<"save">> # <<>> /\ Head(<<"save">>) = "save"
        /\ \A i \in DOMAIN <<"save">> : <<"save">>[i] # "failure" /\ <<"save">>[i] # "marker"
    BY DEF Steps
  <2>2. QED
    BY <1>3, <2>1, PrefixIsOrderly
<1>5. IsState(st) /\ KnowsLast(st) /\ st.active = NoMarker
  BY <1>3, ClosedIs
<1>6. Decides("obsolete", n)
  BY DEF CloseObsolete
<1> HIDE DEF st, todo
<1>7. /\ n = [f \in RunFields |-> n[f]] /\ n.sc = run.sc /\ n.kept = run.kept
      /\ n.keptSc = run.keptSc /\ n.sha = run.sha
      /\ n.st = st /\ n.todo = todo
  BY <1>3 DEF IsRun, RunFields
<1> HIDE DEF n
<1>8. Good(n)
  BY <1>3, <1>4, <1>5, <1>7, StaysGood DEF Saving
<1>9. QED
  BY <1>6, <1>8, DecidesKeeps

\* A run that goes on as it was.
LEMMA RestIsGood ==
    ASSUME GateInv, NEW step, At(step), step \notin Saving, step # "fence"
    PROVE  Good([run EXCEPT !.todo = Rest])
<1> DEFINE n == [run EXCEPT !.todo = Rest]
<1>1. IsRun(run) /\ IsState(run.st) /\ KnowsLast(run.st)
  BY StepOf
<1>2. /\ n = [f \in RunFields |-> n[f]] /\ n.sc = run.sc /\ n.kept = run.kept
      /\ n.keptSc = run.keptSc /\ n.sha = run.sha
      /\ n.st = run.st /\ n.todo = Rest
  BY <1>1 DEF IsRun, RunFields
<1> HIDE DEF n
<1>3. Good(n)
  BY <1>1, <1>2, GoesToRest
<1>4. QED
  BY <1>3 DEF n

LEMMA MarkFreshKeeps ==
    ASSUME GateInv, MarkFresh
    PROVE  GateInv'
<1>1. At("fresh")
  BY DEF MarkFresh, Decides
<1>2. "fresh" \in MarkerSteps /\ "fresh" \notin Saving
  BY DEF MarkerSteps, Saving
<1>3. /\ GateTypeInv /\ IsRun(run) /\ Alone(run) /\ IsState(run.st) /\ KnowsLast(run.st)
      /\ Rest \in Seq(Steps) /\ Orderly(Rest) /\ \A i \in DOMAIN Rest : Rest[i] # "marker"
  BY <1>1, <1>2, StepOf
<1> DEFINE r == [run EXCEPT !.allow = TRUE, !.changed = FALSE, !.needs = FALSE]
           a == Advanced(r, Rest)
           b == [run EXCEPT !.todo = Rest]
           n == IF run.may /\ ~run.mute /\ run.st.active = NoMarker /\ (run.changed \/ run.needs)
                THEN a ELSE b
<1>4. Decides("fresh", n)
  BY DEF MarkFresh
<1>5. /\ r = [f \in RunFields |-> r[f]] /\ r.sc = run.sc /\ r.kept = run.kept
      /\ r.keptSc = run.keptSc /\ r.sha = run.sha
      /\ r.st = run.st /\ r.todo = run.todo
  BY <1>3 DEF IsRun, RunFields
<1> HIDE DEF r
<1>6. IsRun(r) /\ Alone(r) /\ KnowsLast(r.st)
  BY <1>3, <1>5 DEF IsRun, Alone
<1>7. Good(a)
  BY <1>3, <1>6, AdvancedIsGood
<1>8. Good(b)
  BY <1>1, <1>2, RestIsGood
<1> HIDE DEF a, b
<1>9. Good(n)
  BY <1>7, <1>8
<1> HIDE DEF n
<1>10. QED
  BY <1>4, <1>9, DecidesKeeps

LEMMA WatchDeadlineKeeps ==
    ASSUME GateInv, WatchDeadline
    PROVE  GateInv'
<1>1. At("timeout")
  BY DEF WatchDeadline, Decides
<1>2. "timeout" \in MarkerSteps /\ "timeout" \notin Saving
  BY DEF MarkerSteps, Saving
<1> DEFINE a == GivesUp(run)
           b == [run EXCEPT !.todo = Rest]
           n == IF TimedOut(run.st, run.sha) THEN a ELSE b
<1>3. Decides("timeout", n)
  BY DEF WatchDeadline
<1>4. Good(a)
  BY <1>1, <1>2, StepOf, GivesUpIsGood
<1>5. Good(b)
  BY <1>1, <1>2, RestIsGood
<1> HIDE DEF a, b
<1>6. Good(n)
  BY <1>4, <1>5
<1> HIDE DEF n
<1>7. QED
  BY <1>3, <1>6, DecidesKeeps

LEMMA EnterKeeps ==
    ASSUME GateInv, Enter
    PROVE  GateInv'
<1>1. At("enter")
  BY DEF Enter, Decides
<1>2. "enter" \in MarkerSteps
  BY DEF MarkerSteps
<1>3. /\ GateTypeInv /\ IsRun(run) /\ Alone(run) /\ IsState(run.st) /\ KnowsLast(run.st)
      /\ Rest \in Seq(Steps) /\ Orderly(Rest) /\ \A i \in DOMAIN Rest : Rest[i] # "marker"
  BY <1>1, <1>2, StepOf
<1> DEFINE recovered == /\ run.st.active = NoMarker /\ run.st.history # <<>>
                        /\ run.st.history[Len(run.st.history)].outcome = "state_lost"
           skips == run.by = "scan" /\ run.st.active = NoMarker /\ ~run.changed /\ ~run.needs
           allow == (run.may /\ ~run.mute) \/ recovered
           r == [run EXCEPT !.allow = allow]
           a == Advanced(r, Rest)
           b == [run EXCEPT !.todo = <<>>]
           n == IF skips THEN b ELSE a
<1>4. Decides("enter", n)
  BY DEF Enter
<1> HIDE DEF allow, skips
<1>5. /\ r = [f \in RunFields |-> r[f]] /\ r.sc = run.sc /\ r.kept = run.kept
      /\ r.keptSc = run.keptSc /\ r.sha = run.sha
      /\ r.st = run.st /\ r.todo = run.todo
  BY <1>3 DEF IsRun, RunFields
<1> HIDE DEF r
<1>6. IsRun(r) /\ Alone(r) /\ KnowsLast(r.st)
  BY <1>3, <1>5 DEF IsRun, Alone
<1>7. Good(a)
  BY <1>3, <1>6, AdvancedIsGood
<1>8. Good(b)
  BY EndsGood
<1> HIDE DEF a, b
<1>9. Good(n)
  BY <1>7, <1>8
<1> HIDE DEF n
<1>10. QED
  BY <1>4, <1>9, DecidesKeeps

LEMMA AdvanceKeeps ==
    ASSUME GateInv, Advance
    PROVE  GateInv'
<1>1. At("advance")
  BY DEF Advance, Decides
<1>2. "advance" \in MarkerSteps
  BY DEF MarkerSteps
<1> DEFINE n == Advanced(run, Rest)
<1>3. Good(n)
  BY <1>1, <1>2, StepOf, AdvancedIsGood
<1>4. Decides("advance", n)
  BY DEF Advance
<1> HIDE DEF n
<1>5. QED
  BY <1>3, <1>4, DecidesKeeps

\* A commit status.
LEMMA SetStatusKeeps ==
    ASSUME GateInv, SetStatus
    PROVE  GateInv'
<1> DEFINE Words2 == {"pending", "wait", "failure", "timedout", "success", "error"}
           told(h, w) == [run.st EXCEPT !.last = Told(h, w)]
           closed == [Closed(run.st, "failed_findings") EXCEPT !.last = Told(run.sha, "failure")]
           held(step) == CASE step = "wait" -> told(run.sha, "pending")
                           [] step = "failure" /\ Rest # <<>> -> closed
                           [] OTHER -> run.st
           done(step) == [run EXCEPT !.st = held(step), !.todo = Rest]
           over == [run EXCEPT !.todo = <<>>]
<1>1. PICK step \in Words2 :
          /\ At(step)
          /\ Goes(done(step)) \/ GoesBadly(IF step = "error" THEN over ELSE StatusFailed(run))
  BY DEF SetStatus
<1>2. UNCHANGED <<markers, states>>
  BY DEF SetStatus
<1>3. /\ IsRun(run) /\ KnowsLast(run.st) /\ IsState(run.st)
      /\ step = "failure" => ~Asks(Rest)
  BY <1>1, StepOf
<1>4. step \notin Saving /\ step # "fence"
  BY DEF Saving
<1> DEFINE st == held(step)
<1>5. IsState(st) /\ KnowsLast(st) /\ (st.active = run.st.active \/ ~Asks(Rest))
  <2>1. CASE step = "wait"
    <3> DEFINE w == Told(run.sha, "pending")
               m == [run.st EXCEPT !.last = w]
    <3>1. st = m
      BY <2>1
    <3> HIDE DEF st, w
    <3>2. m = [f \in StateFields |-> m[f]] /\ m.active = run.st.active /\ m.history = run.st.history
      BY <1>3 DEF IsState, StateFields
    <3> HIDE DEF m
    <3>3. QED
      BY <1>3, <3>1, <3>2, SameActive
  <2>2. CASE step = "failure" /\ Rest # <<>>
    <3> DEFINE w == Told(run.sha, "failure")
               c == Closed(run.st, "failed_findings")
               m == [c EXCEPT !.last = w]
    <3>1. st = m
      BY <2>2
    <3>2. IsState(c) /\ c.active = NoMarker
      BY <1>3, ClosedIs
    <3> HIDE DEF st, w, c
    <3>3. m = [f \in StateFields |-> m[f]] /\ m.active = NoMarker
      BY <3>2 DEF IsState, StateFields
    <3> HIDE DEF m
    <3>4. QED
      BY <1>3, <2>2, <3>1, <3>3, NothingActive
  <2>3. CASE step # "wait" /\ ~(step = "failure" /\ Rest # <<>>)
    <3>1. st = run.st
      BY <2>3
    <3>2. QED
      BY <1>3, <3>1
  <2>4. QED
    BY <2>1, <2>2, <2>3
<1>6. CASE Goes(done(step))
  <2> DEFINE n == [run EXCEPT !.st = st, !.todo = Rest]
  <2>1. Goes(n)
    BY <1>6
  <2> HIDE DEF st
  <2>2. /\ n = [f \in RunFields |-> n[f]] /\ n.sc = run.sc /\ n.kept = run.kept
        /\ n.keptSc = run.keptSc /\ n.sha = run.sha
        /\ n.st = st /\ n.todo = Rest
    BY <1>3 DEF IsRun, RunFields
  <2> HIDE DEF n
  <2>3. Good(n)
    BY <1>1, <1>4, <1>5, <2>2, GoesToRest
  <2>4. QED
    BY <1>2, <2>1, <2>3, GoesOnGood
<1>7. CASE GoesBadly(IF step = "error" THEN over ELSE StatusFailed(run))
  <2> DEFINE t == StatusFailed(run)
             n == IF step = "error" THEN over ELSE t
  <2>1. Good(t)
    BY <1>3, StatusFailedIsGood
  <2>2. Good(over)
    BY EndsGood
  <2>3. GoesBadly(n)
    BY <1>7
  <2> HIDE DEF over, t
  <2>4. Good(n)
    BY <2>1, <2>2
  <2> HIDE DEF n
  <2>5. QED
    BY <1>2, <2>3, <2>4, GoesBadlyGood
<1>8. QED
  BY <1>1, <1>6, <1>7

\* What a run becomes by a step that ends its asking.
Quits(r) == Good(r) /\ ~Asks(r.todo)

LEMMA QuitsOn ==
    ASSUME GateInv, NEW r, Quits(r), Goes(r) \/ GoesBadly(r)
    PROVE  Quits(run') /\ (r.st.active = NoMarker => run'.st.active = NoMarker)
<1>1. ASSUME NEW n, Quits(n), Goes(n)
      PROVE  Quits(run') /\ (n.st.active = NoMarker => run'.st.active = NoMarker)
  <2>1. CASE run' = n
    BY <1>1, <2>1
  <2>2. CASE run' = Idle(n.at)
    <3> DEFINE i == Idle(n.at)
    <3>1. Good(i) /\ i.todo = <<>> /\ i.st = Fresh(head)
      BY IdleIsGood DEF GateInv, Idle
    <3> HIDE DEF i
    <3>2. Quits(i) /\ i.st.active = NoMarker
      BY <3>1, Programs, FreshIs DEF Quits
    <3>3. QED
      BY <2>2, <3>2 DEF i
  <2>3. QED
    BY <1>1, <2>1, <2>2 DEF Goes
<1>2. CASE Goes(r)
  BY <1>1, <1>2
<1>3. CASE GoesBadly(r)
  <2> DEFINE n == [r EXCEPT !.bad = TRUE]
  <2>1. Good(n) /\ Goes(n) /\ n.todo = r.todo /\ n.st = r.st
    BY <1>3, BadIsGood DEF GoesBadly, Quits, Good, IsRun, RunFields
  <2> HIDE DEF n
  <2>2. Quits(n)
    BY <2>1 DEF Quits
  <2>3. QED
    BY <1>1, <2>1, <2>2
<1>4. QED
  BY <1>2, <1>3

\* A marker comment is written or changed, and what the run holds is of the markers
\* there are then.
LEMMA MarkersChange ==
    ASSUME GateInv, NEW r, run' = r, states' = states, NEW n \in Nat,
           markers' \in Seq({markers'[i] : i \in DOMAIN markers'}), Len(markers') = n,
           Len(markers) <= n,
           \A i \in DOMAIN markers' : markers'[i] = [f \in MarkerFields |-> markers'[i][f]],
           r = [f \in RunFields |-> r[f]], r.todo \in Seq(Steps),
           r.sc \in 0..Len(states), r.keptSc \in 0..Len(states),
           IsState(r.kept), r.kept.active = NoMarker,
           r.st = [f \in StateFields |-> r.st[f]], r.st.active \in [id : Nat, phase : Phases],
           r.st.active # NoMarker => r.st.active.id \in 1..n
    PROVE  GateTypeInv'
<1>1. DOMAIN markers = 1..Len(markers) /\ Len(markers) \in Nat /\ DOMAIN markers' = 1..n
  BY DEF GateInv, GateTypeInv
<1>2. DOMAIN markers \subseteq DOMAIN markers'
  BY <1>1
<1>3. (\A i \in DOMAIN states :
          /\ states[i] = [f \in {"st", "deleted"} |-> states[i][f]]
          /\ states[i].deleted \in BOOLEAN /\ IsState(states[i].st))'
  BY <1>2 DEF GateInv, GateTypeInv, IsState
<1>4. (states \in Seq({states[i] : i \in DOMAIN states}))'
  BY DEF GateInv, GateTypeInv
<1>5. IsRun(run)'
  BY <1>1, <1>2 DEF IsRun, IsState
<1>6. QED
  BY <1>3, <1>4, <1>5 DEF GateTypeInv

\* A marker is posted.
LEMMA AppendKeeps ==
    ASSUME GateInv, At("marker"), NEW marker, marker = [f \in MarkerFields |-> marker[f]],
           marker.head = run.sha, markers' = Append(markers, marker), states' = states,
           NEW r, run' = r,
           r = [f \in RunFields |-> r[f]], r.todo \in Seq(Steps),
           r.sc \in 0..Len(states), r.keptSc \in 0..Len(states),
           Orderly(r.todo), r.todo # <<>> => Head(r.todo) # "marker",
           IsState(r.kept), r.kept.active = NoMarker,
           r.st = [f \in StateFields |-> r.st[f]], r.st.active \in [id : Nat, phase : Phases],
           r.st.active = NoMarker \/ r.st.active.id = Len(markers) + 1,
           ~Asks(r.todo) \/ (r.todo # <<>> /\ Head(r.todo) = "save" /\ r.sc = run.sc)
    PROVE  GateInv'
<1> DEFINE n == Len(markers) + 1
           all == {markers[i] : i \in DOMAIN markers} \cup {marker}
<1>1. /\ markers \in Seq({markers[i] : i \in DOMAIN markers}) /\ Len(markers) \in Nat
      /\ DOMAIN markers = 1..Len(markers)
  BY DEF GateInv, GateTypeInv
<1>2. markers \in Seq(all) /\ marker \in all
  <2>1. \A i \in DOMAIN markers : markers[i] \in all
    OBVIOUS
  <2> HIDE DEF all
  <2>2. markers \in Seq(all)
    BY <1>1, <2>1
  <2>3. QED
    BY <2>2 DEF all
<1>3. /\ DOMAIN markers' = 1..n /\ Len(markers') = n /\ markers'[n] = marker
      /\ \A i \in DOMAIN markers : markers'[i] = markers[i]
  <2> HIDE DEF all
  <2>1. QED
    BY <1>1, <1>2
<1>4. markers' \in Seq({markers'[i] : i \in DOMAIN markers'})
  <2> DEFINE s == markers'
             S == {s[i] : i \in DOMAIN s}
  <2>1. s \in Seq(all)
    <3> HIDE DEF all
    <3>1. QED
      BY <1>2
  <2>2. \A i \in DOMAIN s : s[i] \in S
    OBVIOUS
  <2> HIDE DEF s, S, all
  <2>3. s \in Seq(S)
    BY <2>1, <2>2
  <2>4. QED
    BY <2>3 DEF s, S
<1>5. \A i \in DOMAIN markers' : markers'[i] = [f \in MarkerFields |-> markers'[i][f]]
  <2>1. \A i \in 1..n : i = n \/ i \in DOMAIN markers
    BY <1>1
  <2>2. \A i \in DOMAIN markers : markers[i] = [f \in MarkerFields |-> markers[i][f]]
    BY DEF GateInv, GateTypeInv
  <2>3. QED
    BY <1>3, <2>1, <2>2
<1>6. GateTypeInv'
  <2>1. n \in Nat /\ Len(markers) <= n /\ n \in 1..n
    BY <1>1
  <2> HIDE DEF n, all
  <2>2. QED
    BY <1>3, <1>4, <1>5, <2>1, MarkersChange DEF n
<1>7. /\ Alone(run) /\ run.st.active = NoMarker
      /\ \A i \in DOMAIN states : IsState(states[i].st)
      /\ states # <<>> => Len(states) \in DOMAIN states
  <2>1. "marker" \in MarkerSteps
    BY DEF MarkerSteps
  <2>2. Alone(run) /\ run.todo # <<>> /\ Head(run.todo) = "marker"
    BY <2>1, StepOf
  <2>3. QED
    BY <2>2 DEF GateInv, RunHolds, GateTypeInv
<1>8. LastMarker' = n /\ Newest' = Newest
  BY <1>3 DEF LastMarker, Newest
<1>9. states # <<>> /\ Holds(Newest) =>
          /\ run.sc = Len(states) /\ markers[Newest.st.active.id].head # run.sha
          /\ Newest.st.active.id \in DOMAIN markers
  BY <1>7 DEF Alone, Holds, Newest, IsState
<1> HIDE DEF n, all
<1>10. RunHolds(run)'
  <2>1. KnowsLast(run.st)'
    BY <1>8 DEF KnowsLast, Knows, n
  <2>2. QED
    BY <2>1 DEF RunHolds, Orderly
<1>11. NothingElseHeld(run)'
  BY <1>8, <1>9 DEF NothingElseHeld, Asking, Asks, Holds, Saving
<1>12. NewestKnows'
  BY <1>3, <1>8, <1>9 DEF NewestKnows, Holds
<1>13. QED
  BY <1>6, <1>10, <1>11, <1>12 DEF GateInv

LEMMA PostMarkerKeeps ==
    ASSUME GateInv, PostMarker
    PROVE  GateInv'
<1> DEFINE marker == [head |-> run.sha, created |-> now, ack |-> AckAfter[Misses(run.st, run.sha)],
                      deadline |-> CycleDeadline(run.st, run.sha), eyes |-> run.eyes,
                      fence |-> FALSE]
           active == [id |-> Len(markers) + 1, phase |-> "waiting_ack"]
           todo == <<"save", "pending">> \o Rest
           next == [run EXCEPT !.st.active = active, !.todo = todo]
<1>1. At("marker") /\ states' = states
  BY DEF PostMarker
<1>2. \/ markers' = Append(markers, marker) /\ Goes(next)
      \/ markers' \in {markers, Append(markers, marker)} /\ GoesBadly(Thrown(run))
  BY DEF PostMarker
<1>3. marker = [f \in MarkerFields |-> marker[f]] /\ marker.head = run.sha
  BY DEF MarkerFields
<1>4. /\ IsRun(run) /\ KnowsLast(run.st) /\ IsState(run.st) /\ run.todo # <<>>
      /\ Head(run.todo) = "marker" /\ Rest \in Seq(Steps) /\ Orderly(Rest)
      /\ \A i \in DOMAIN Rest : Rest[i] # "marker"
  BY <1>1, StepOf
<1>5. run.st.active = NoMarker /\ Len(markers) \in Nat
  BY <1>4 DEF GateInv, RunHolds, GateTypeInv
<1> HIDE DEF marker
<1>6. CASE markers' = Append(markers, marker) /\ Goes(next)
  <2>1. active \in [id : Nat, phase : Phases] /\ active.id = Len(markers) + 1
    BY <1>5 DEF Phases
  <2>2. todo \in Seq(Steps) /\ todo # <<>> /\ Head(todo) = "save" /\ Orderly(todo)
    <3> DEFINE p == <<"save", "pending">>
    <3>1. /\ p \in Seq(Steps) /\ p # <<>> /\ Head(p) = "save"
          /\ \A i \in DOMAIN p : p[i] # "failure" /\ p[i] # "marker"
      BY DEF Steps
    <3> HIDE DEF p
    <3>2. QED
      BY <1>4, <3>1, PrefixIsOrderly DEF p
  <2> DEFINE st == [run.st EXCEPT !.active = active]
             n == [run EXCEPT !.st = st, !.todo = todo]
  <2> HIDE DEF active, todo
  <2>3. st = [f \in StateFields |-> st[f]] /\ st.active = active
    BY <1>4 DEF IsState, StateFields
  <2>4. next = n
    OBVIOUS
  <2> HIDE DEF st, next
  <2>5. /\ n = [f \in RunFields |-> n[f]] /\ n.sc = run.sc /\ n.kept = run.kept /\ n.keptSc = run.keptSc
        /\ n.st = st /\ n.todo = todo
    BY <1>4 DEF IsRun, RunFields
  <2> HIDE DEF n
  <2>6. run' = n
    BY <1>6, <2>2, <2>4, <2>5 DEF Goes
  <2>7. n.sc \in 0..Len(states) /\ n.keptSc \in 0..Len(states) /\ IsState(n.kept) /\ n.kept.active = NoMarker
    BY <1>4, <2>5 DEF IsRun
  <2>8. QED
    BY <1>1, <1>3, <1>6, <2>1, <2>2, <2>3, <2>5, <2>6, <2>7, AppendKeeps
<1>7. CASE markers' \in {markers, Append(markers, marker)} /\ GoesBadly(Thrown(run))
  <2> DEFINE t == Thrown(run)
             r == run'
  <2>1. Quits(t) /\ t.st.active = NoMarker
    BY <1>4, <1>5, ThrownIsGood DEF Quits
  <2>2. GoesBadly(t)
    BY <1>7
  <2> HIDE DEF t
  <2>3. Quits(r) /\ r.st.active = NoMarker
    BY <2>1, <2>2, QuitsOn
  <2>4. run' = r
    OBVIOUS
  <2> HIDE DEF r
  <2>5. CASE markers' = markers
    <3>1. Good(r)
      BY <2>3 DEF Quits
    <3>2. QED
      BY <1>1, <2>4, <2>5, <3>1, GoodStays
  <2>6. CASE markers' = Append(markers, marker)
    <3>1. /\ r = [f \in RunFields |-> r[f]] /\ r.todo \in Seq(Steps) /\ r.sc \in 0..Len(states)
          /\ r.keptSc \in 0..Len(states)
          /\ Orderly(r.todo) /\ IsState(r.kept) /\ r.kept.active = NoMarker
          /\ r.st = [f \in StateFields |-> r.st[f]] /\ r.st.active \in [id : Nat, phase : Phases]
          /\ r.st.active = NoMarker /\ ~Asks(r.todo)
      BY <2>3 DEF Quits, Good, IsRun, RunHolds, IsState
    <3>2. r.todo # <<>> => Head(r.todo) # "marker"
      <4>1. SUFFICES ASSUME r.todo # <<>> PROVE Head(r.todo) # "marker"
        OBVIOUS
      <4>2. Head(r.todo) = r.todo[1] /\ 1 \in DOMAIN r.todo
        BY <3>1, <4>1, TailOf
      <4>3. "marker" \in MarkerSteps
        BY DEF MarkerSteps
      <4>4. QED
        BY <3>1, <4>2, <4>3 DEF Asks
    <3>3. QED
      BY <1>1, <1>3, <2>4, <2>6, <3>1, <3>2, AppendKeeps
  <2>7. QED
    BY <1>7, <2>5, <2>6
<1>8. QED
  BY <1>2, <1>6, <1>7


\* A marker comment is marked as fenced: they are as many as before, of the same heads.
LEMMA FencedIs ==
    ASSUME GateTypeInv, NEW id
    PROVE  LET fenced == [markers EXCEPT ![id].fence = TRUE]
           IN  /\ fenced \in Seq({fenced[i] : i \in DOMAIN fenced}) /\ Len(fenced) = Len(markers)
               /\ \A i \in DOMAIN fenced : /\ fenced[i] = [f \in MarkerFields |-> fenced[i][f]]
                                           /\ fenced[i].head = markers[i].head
<1> DEFINE fenced == [markers EXCEPT ![id].fence = TRUE]
           S == {fenced[i] : i \in DOMAIN fenced}
<1>1. /\ DOMAIN markers = 1..Len(markers) /\ Len(markers) \in Nat
      /\ \A i \in DOMAIN markers : markers[i] = [f \in MarkerFields |-> markers[i][f]]
  BY DEF GateTypeInv
<1>2. /\ fenced = [i \in DOMAIN markers |->
                      IF i = id THEN [markers[i] EXCEPT !.fence = TRUE] ELSE markers[i]]
      /\ DOMAIN fenced = DOMAIN markers
  OBVIOUS
<1>3. ASSUME NEW i \in DOMAIN markers
      PROVE  /\ fenced[i] = [f \in MarkerFields |-> fenced[i][f]]
             /\ fenced[i].head = markers[i].head
  <2>1. fenced[i] = IF i = id THEN [markers[i] EXCEPT !.fence = TRUE] ELSE markers[i]
    BY <1>2
  <2>2. markers[i] = [f \in MarkerFields |-> markers[i][f]]
    BY <1>1
  <2> HIDE DEF fenced
  <2>3. QED
    BY <2>1, <2>2 DEF MarkerFields
<1>4. fenced \in Seq(S) /\ Len(fenced) = Len(markers)
  <2>1. \A i \in DOMAIN fenced : fenced[i] \in S
    OBVIOUS
  <2>2. fenced = [i \in DOMAIN fenced |-> fenced[i]]
    OBVIOUS
  <2> HIDE DEF fenced, S
  <2>3. fenced \in [1..Len(markers) -> S]
    BY <1>1, <1>2, <2>1, <2>2
  <2>4. QED
    BY <1>1, <2>3, SeqDef, LenProperties
<1>5. QED
  BY <1>2, <1>3, <1>4

\* The markers are as many as they were, of the same heads, and the run asks no more.
LEMMA FenceKeeps ==
    ASSUME GateInv, NEW r, run' = r, Quits(r), states' = states,
           markers' \in Seq({markers'[i] : i \in DOMAIN markers'}), Len(markers') = Len(markers),
           \A i \in DOMAIN markers' : /\ markers'[i] = [f \in MarkerFields |-> markers'[i][f]]
                                      /\ markers'[i].head = markers[i].head
    PROVE  GateInv'
<1>1. /\ Len(markers) \in Nat /\ DOMAIN markers = 1..Len(markers)
      /\ \A i \in DOMAIN states : IsState(states[i].st)
      /\ states # <<>> => Len(states) \in DOMAIN states
  BY DEF GateInv, GateTypeInv
<1>2. DOMAIN markers' = DOMAIN markers
  BY <1>1
<1>3. /\ r = [f \in RunFields |-> r[f]] /\ r.todo \in Seq(Steps) /\ r.sc \in 0..Len(states)
      /\ r.keptSc \in 0..Len(states)
      /\ IsState(r.kept) /\ r.kept.active = NoMarker /\ IsState(r.st)
  BY DEF Quits, Good, IsRun
<1>4. GateTypeInv'
  <2>1. /\ r.st = [f \in StateFields |-> r.st[f]] /\ r.st.active \in [id : Nat, phase : Phases]
        /\ r.st.active # NoMarker => r.st.active.id \in 1..Len(markers)
    BY <1>1, <1>3 DEF IsState
  <2>2. PICK n \in Nat : n = Len(markers)
    BY <1>1
  <2>3. /\ Len(markers') = n /\ Len(markers) <= n
        /\ \A i \in DOMAIN markers' : markers'[i] = [f \in MarkerFields |-> markers'[i][f]]
    BY <2>2
  <2>4. r.st.active # NoMarker => r.st.active.id \in 1..n
    BY <2>1, <2>2
  <2>5. QED
    BY <1>3, <2>1, <2>3, <2>4, MarkersChange, SMTT(30)
<1>5. LastMarker' = LastMarker /\ Newest' = Newest
  BY DEF LastMarker, Newest
<1>6. RunHolds(run)' /\ NothingElseHeld(run)'
  BY <1>5 DEF Quits, Good, RunHolds, KnowsLast, Knows, Orderly, NothingElseHeld, Asking, Asks
<1>7. NewestKnows'
  <2>1. SUFFICES ASSUME states # <<>>, Holds(Newest), ~Knows(Newest.st, LastMarker)
                 PROVE  markers'[LastMarker].head # markers'[Newest.st.active.id].head
    BY <1>5 DEF NewestKnows, Holds, Knows
  <2>2. Newest.st.active.id \in DOMAIN markers /\ LastMarker \in DOMAIN markers
    <3>1. Newest.st.active.id \in DOMAIN markers
      BY <1>1, <2>1 DEF Holds, Newest, IsState
    <3>2. \A i \in 1..Len(markers) : Len(markers) \in 1..Len(markers)
      BY <1>1
    <3>3. QED
      BY <1>1, <3>1, <3>2 DEF LastMarker
  <2>3. QED
    BY <1>2, <2>1, <2>2 DEF GateInv, NewestKnows
<1>8. QED
  BY <1>4, <1>6, <1>7 DEF GateInv

LEMMA PublishFenceKeeps ==
    ASSUME GateInv, PublishFence
    PROVE  GateInv'
<1> DEFINE latest == Latest(run.st, run.sha)
           id == IF run.st.active # NoMarker /\ ~Obsolete(run.st, run.sha) THEN run.st.active.id
                 ELSE IF latest # 0 THEN run.st.history[latest].id ELSE 0
           marked == [markers EXCEPT ![id].fence = TRUE]
           fenced == IF id = 0 THEN markers ELSE marked
           t == Thrown(run)
<1>1. At("fence") /\ states' = states
  BY DEF PublishFence
<1>2. (markers' = markers \/ markers' = marked) /\ (Goes(t) \/ GoesBadly(t))
  BY DEF PublishFence
<1>3. IsRun(run) /\ KnowsLast(run.st) /\ GateTypeInv
  BY <1>1, StepOf
<1>4. Quits(t)
  BY <1>3, ThrownIsGood DEF Quits
<1>5. /\ marked \in Seq({marked[i] : i \in DOMAIN marked}) /\ Len(marked) = Len(markers)
      /\ \A i \in DOMAIN marked : /\ marked[i] = [f \in MarkerFields |-> marked[i][f]]
                                  /\ marked[i].head = markers[i].head
  <2> HIDE DEF id
  <2>1. QED
    BY <1>3, FencedIs
<1>6. /\ markers \in Seq({markers[i] : i \in DOMAIN markers})
      /\ \A i \in DOMAIN markers : markers[i] = [f \in MarkerFields |-> markers[i][f]]
  BY <1>3 DEF GateTypeInv
<1> HIDE DEF t, marked
<1>7. Quits(run')
  BY <1>2, <1>4, QuitsOn
<1> DEFINE r == run'
<1>8. run' = r /\ Quits(r)
  BY <1>7
<1> HIDE DEF r
<1>9. CASE markers' = markers
  BY <1>1, <1>6, <1>8, <1>9, FenceKeeps
<1>10. CASE markers' = marked
  BY <1>1, <1>5, <1>8, <1>10, FenceKeeps
<1>11. QED
  BY <1>2, <1>9, <1>10

\* Where a step leads: to what it says, or to rest when nothing is left to do.
LEMMA GoesTo ==
    ASSUME NEW n, n = [f \in RunFields |-> n[f]], Goes(n) \/ GoesBadly(n)
    PROVE  /\ run' = [f \in RunFields |-> run'[f]]
           /\ \/ /\ run'.todo = n.todo /\ run'.sc = n.sc /\ run'.st = n.st
                 /\ run'.sha = n.sha /\ run'.kept = n.kept /\ run'.keptSc = n.keptSc
              \/ /\ run'.todo = <<>> /\ run'.sc = 0 /\ run'.st = Fresh(head)
                 /\ run'.kept = Fresh(head) /\ run'.keptSc = 0
<1> DEFINE b == [n EXCEPT !.bad = TRUE]
<1>1. /\ b = [f \in RunFields |-> b[f]] /\ b.todo = n.todo /\ b.sc = n.sc /\ b.st = n.st
      /\ b.sha = n.sha /\ b.kept = n.kept /\ b.keptSc = n.keptSc
  BY DEF RunFields
<1>2. Goes(n) \/ Goes(b)
  BY DEF GoesBadly
<1>3. ASSUME NEW t
      PROVE  /\ Idle(t) = [f \in RunFields |-> Idle(t)[f]] /\ Idle(t).sc = 0
             /\ Idle(t).todo = <<>> /\ Idle(t).st = Fresh(head) /\ Idle(t).kept = Fresh(head)
             /\ Idle(t).keptSc = 0
  BY DEF Idle, RunFields
<1> HIDE DEF b
<1>4. run' = n \/ run' = b \/ run' = Idle(n.at) \/ run' = Idle(b.at)
  BY <1>2 DEF Goes
<1>5. QED
  BY <1>1, <1>3, <1>4

\* The newest state comment c, and what it holds when the run is r.
LEMMA NewestIs ==
    ASSUME GateInv, NEW s, states' = s, NEW r, run' = r, r = [f \in RunFields |-> r[f]],
           r.todo \in Seq(Steps), IsState(r.st), IsState(r.kept), r.kept.active = NoMarker,
           RunHolds(r), markers' = markers, r.sc \in 0..Len(s), r.keptSc \in 0..Len(s),
           s \in Seq({s[i] : i \in DOMAIN s}),
           \A i \in DOMAIN s :
              /\ s[i] = [f \in {"st", "deleted"} |-> s[i][f]]
              /\ s[i].deleted \in BOOLEAN /\ IsState(s[i].st),
           NEW c, s # <<>> => s[Len(s)] = c,
           s # <<>> /\ Holds(c) /\ ~Knows(c.st, LastMarker) =>
              markers[LastMarker].head # markers[c.st.active.id].head,
           Asking(r) =>
              /\ r.sc = 0 /\ Head(r.todo) \notin Saving => r.st.active = NoMarker
              /\ s # <<>> /\ Holds(c) =>
                    /\ r.sc = Len(s)
                    /\ r.st.active = NoMarker /\ Head(r.todo) \notin Saving
                          => markers[c.st.active.id].head # r.sha
    PROVE  GateInv'
<1>1. GateTypeInv'
  <2>1. IsRun(run)'
    BY DEF IsRun, IsState
  <2>2. (/\ markers \in Seq({markers[i] : i \in DOMAIN markers})
         /\ \A i \in DOMAIN markers : markers[i] = [f \in MarkerFields |-> markers[i][f]])'
    BY DEF GateInv, GateTypeInv
  <2>3. (\A i \in DOMAIN states : IsState(states[i].st))'
    BY DEF IsState
  <2>4. QED
    BY <2>1, <2>2, <2>3 DEF GateTypeInv
<1>2. LastMarker' = LastMarker /\ (states' # <<>> => Newest' = c)
  BY DEF LastMarker, Newest
<1>3. RunHolds(run)'
  BY <1>2 DEF RunHolds, KnowsLast, Knows, Orderly
<1>4. NothingElseHeld(run)'
  BY <1>2 DEF NothingElseHeld, Asking, Asks, Holds
<1>5. NewestKnows'
  BY <1>2 DEF NewestKnows, Holds, Knows
<1>6. QED
  BY <1>1, <1>3, <1>4, <1>5 DEF GateInv

\* The same when a step leads there.
LEMMA NewestAfter ==
    ASSUME GateInv, NEW s, states' = s, NEW n, Goes(n) \/ GoesBadly(n), n = [f \in RunFields |-> n[f]],
           n.todo \in Seq(Steps), IsState(n.st), IsState(n.kept), n.kept.active = NoMarker,
           RunHolds(n), markers' = markers, n.sc \in 0..Len(s), n.keptSc \in 0..Len(s),
           s \in Seq({s[i] : i \in DOMAIN s}),
           \A i \in DOMAIN s :
              /\ s[i] = [f \in {"st", "deleted"} |-> s[i][f]]
              /\ s[i].deleted \in BOOLEAN /\ IsState(s[i].st),
           NEW c, s # <<>> => s[Len(s)] = c,
           s # <<>> /\ Holds(c) /\ ~Knows(c.st, LastMarker) =>
              markers[LastMarker].head # markers[c.st.active.id].head,
           Asking(n) =>
              /\ n.sc = 0 /\ Head(n.todo) \notin Saving => n.st.active = NoMarker
              /\ s # <<>> /\ Holds(c) =>
                    /\ n.sc = Len(s)
                    /\ n.st.active = NoMarker /\ Head(n.todo) \notin Saving
                          => markers[c.st.active.id].head # n.sha
    PROVE  GateInv'
<1> DEFINE r == run'
<1>1. /\ r = [f \in RunFields |-> r[f]]
      /\ \/ /\ r.todo = n.todo /\ r.sc = n.sc /\ r.st = n.st
            /\ r.sha = n.sha /\ r.kept = n.kept /\ r.keptSc = n.keptSc
         \/ /\ r.todo = <<>> /\ r.sc = 0 /\ r.st = Fresh(head)
            /\ r.kept = Fresh(head) /\ r.keptSc = 0
  BY GoesTo
<1>2. run' = r
  OBVIOUS
<1> HIDE DEF r
<1>3. /\ r.todo \in Seq(Steps) /\ IsState(r.st) /\ IsState(r.kept) /\ r.kept.active = NoMarker
      /\ RunHolds(r) /\ r.sc \in 0..Len(s) /\ r.keptSc \in 0..Len(s)
  <2>1. 0 \in 0..Len(s)
    OBVIOUS
  <2>2. CASE r.todo = n.todo /\ r.sc = n.sc /\ r.st = n.st /\ r.kept = n.kept /\ r.keptSc = n.keptSc
    BY <2>2 DEF RunHolds
  <2>3. CASE r.todo = <<>> /\ r.sc = 0 /\ r.st = Fresh(head) /\ r.kept = Fresh(head) /\ r.keptSc = 0
    <3> DEFINE fresh == Fresh(head)
    <3>1. IsState(fresh) /\ fresh.active = NoMarker /\ KnowsLast(fresh)
      BY FreshIs
    <3>2. <<>> \in Seq(Steps) /\ Orderly(<<>>)
      BY Programs
    <3>3. r.st = fresh /\ r.kept = fresh
      BY <2>3
    <3> HIDE DEF fresh
    <3>4. QED
      BY <2>1, <2>3, <3>1, <3>2, <3>3 DEF RunHolds
  <2>4. QED
    BY <1>1, <2>2, <2>3
<1>4. Asking(r) =>
         /\ r.sc = 0 /\ Head(r.todo) \notin Saving => r.st.active = NoMarker
         /\ s # <<>> /\ Holds(c) =>
               /\ r.sc = Len(s)
               /\ r.st.active = NoMarker /\ Head(r.todo) \notin Saving
                     => markers[c.st.active.id].head # r.sha
  BY <1>1 DEF Asking
<1>5. QED
  <2>1. r = [f \in RunFields |-> r[f]]
    BY <1>1
  <2>2. QED
    BY <1>2, <1>3, <1>4, <2>1, NewestIs, SMTT(90)

\* The run's state comment is written: the newest comment is this one, or what it was.
LEMMA WrittenIs ==
    ASSUME GateInv, NEW new \in BOOLEAN, run.sc = 0 => new
    PROVE  LET comment == [st |-> run.st, deleted |-> FALSE]
               written == IF new THEN Append(states, comment) ELSE [states EXCEPT ![run.sc] = comment]
           IN  /\ written \in Seq({written[i] : i \in DOMAIN written}) /\ written # <<>>
               /\ \A i \in DOMAIN written :
                     /\ written[i] = [f \in {"st", "deleted"} |-> written[i][f]]
                     /\ written[i].deleted \in BOOLEAN /\ IsState(written[i].st)
               /\ Len(written) \in Nat /\ run.sc \in 0..Len(written) /\ run.keptSc \in 0..Len(written)
               /\ new => Len(written) = Len(states) + 1 /\ written[Len(written)] = comment
               /\ ~new => /\ Len(written) = Len(states) /\ states # <<>> /\ run.sc # 0
                          /\ written[Len(written)] = IF run.sc = Len(states) THEN comment ELSE Newest
<1> DEFINE comment == [st |-> run.st, deleted |-> FALSE]
           written == IF new THEN Append(states, comment) ELSE [states EXCEPT ![run.sc] = comment]
           all == {states[i] : i \in DOMAIN states} \cup {comment}
           S == {written[i] : i \in DOMAIN written}
           Fine(d) == /\ d = [f \in {"st", "deleted"} |-> d[f]]
                      /\ d.deleted \in BOOLEAN /\ IsState(d.st)
<1>1. /\ states \in Seq({states[i] : i \in DOMAIN states}) /\ Len(states) \in Nat
      /\ DOMAIN states = 1..Len(states) /\ run.sc \in 0..Len(states)
      /\ run.keptSc \in 0..Len(states) /\ IsState(run.st)
      /\ \A i \in DOMAIN states : Fine(states[i])
  BY DEF GateInv, GateTypeInv, IsRun
<1>2. Fine(comment)
  BY <1>1
<1>3. states \in Seq(all) /\ comment \in all /\ \A d \in all : Fine(d)
  <2>1. \A i \in DOMAIN states : states[i] \in all
    OBVIOUS
  <2>2. \A d \in all : Fine(d)
    BY <1>1, <1>2
  <2>3. comment \in all
    OBVIOUS
  <2> HIDE DEF all
  <2>4. QED
    BY <1>1, <2>1, <2>2, <2>3
<1> HIDE DEF all, comment, Fine
<1>4. CASE new
  <2>1. /\ written \in Seq(all) /\ Len(written) = Len(states) + 1
        /\ written[Len(states) + 1] = comment
    BY <1>1, <1>3, <1>4
  <2>2. written \in Seq(S) /\ written # <<>> /\ Len(written) \in Nat
    <3>1. \A i \in DOMAIN written : written[i] \in S
      OBVIOUS
    <3> HIDE DEF written, S
    <3>2. QED
      BY <1>1, <2>1, <3>1
  <2>3. \A i \in DOMAIN written : Fine(written[i])
    <3> HIDE DEF written
    <3>1. QED
      BY <1>3, <2>1
  <2> HIDE DEF written
  <2>4. run.sc \in 0..Len(written) /\ run.keptSc \in 0..Len(written)
    BY <1>1, <2>1
  <2>5. QED
    BY <1>4, <2>1, <2>2, <2>3, <2>4 DEF Fine, written, S, comment
<1>5. CASE ~new
  <2>1. run.sc \in DOMAIN states /\ Len(states) \in DOMAIN states /\ states # <<>>
    BY <1>1, <1>5
  <2>2. written = [i \in DOMAIN states |-> IF i = run.sc THEN comment ELSE states[i]]
    BY <1>5
  <2> HIDE DEF written
  <2>3. written \in Seq(all) /\ Len(written) = Len(states) /\ written # <<>>
    <3>1. \A i \in DOMAIN states : states[i] \in all
      BY <1>1, <1>3
    <3>2. written \in [1..Len(states) -> all]
      BY <1>1, <1>3, <2>2, <3>1
    <3>3. QED
      BY <1>1, <2>1, <3>2, SeqDef, LenProperties
  <2>4. written \in Seq(S)
    <3>1. \A i \in DOMAIN written : written[i] \in S
      OBVIOUS
    <3> HIDE DEF S
    <3>2. QED
      BY <2>3, <3>1
  <2>5. \A i \in DOMAIN written : Fine(written[i])
    BY <1>3, <2>3
  <2>6. written[Len(written)] = IF run.sc = Len(states) THEN comment ELSE Newest
    BY <2>1, <2>2, <2>3 DEF Newest
  <2>7. QED
    BY <1>1, <1>5, <2>1, <2>3, <2>4, <2>5, <2>6 DEF Fine, written, S, comment
<1>6. QED
  BY <1>4, <1>5

\* What a failed save leads to: a run that may still ask holds what it held, and is to
\* save it, or had nothing to save.
LEMMA SaveFailedIs ==
    ASSUME GateInv, NEW step \in {"save", "saveBest", "critical", "replace"}, At(step)
    PROVE  LET n == SaveFailed(step)
           IN  /\ n = [f \in RunFields |-> n[f]] /\ n.todo \in Seq(Steps) /\ IsState(n.st)
               /\ IsState(n.kept) /\ n.kept.active = NoMarker /\ RunHolds(n) /\ n.sc = run.sc
               /\ n.keptSc = run.keptSc
               /\ Asking(n) =>
                     /\ n.st = run.st /\ n.sha = run.sha /\ Asking(run) /\ step # "replace"
                     /\ Head(n.todo) \in Saving \/ step \notin Saving
                     /\ run.sc = 0 => step \notin Saving
<1>1. /\ GateTypeInv /\ IsRun(run) /\ KnowsLast(run.st) /\ IsState(run.st)
      /\ run.todo \in Seq(Steps) /\ run.todo # <<>> /\ Head(run.todo) = step
      /\ Rest \in Seq(Steps) /\ Orderly(Rest)
      /\ \A i \in DOMAIN Rest : Rest[i] # "marker"
      /\ Rest # <<>> => Head(Rest) # "marker"
      /\ Asks(Rest) => Asks(run.todo)
  BY StepOf
<1>2. Asks(run.todo) => Asking(run)
  BY <1>1 DEF Asking
<1>3. ASSUME NEW todo
      PROVE  LET n == [run EXCEPT !.todo = todo]
             IN  /\ n = [f \in RunFields |-> n[f]] /\ n.todo = todo /\ n.st = run.st
                 /\ n.kept = run.kept /\ n.keptSc = run.keptSc /\ n.sc = run.sc /\ n.sha = run.sha
  BY <1>1 DEF IsRun, RunFields
<1>4. IsState(run.kept) /\ run.kept.active = NoMarker
  BY <1>1 DEF IsRun
<1> DEFINE n == SaveFailed(step)
<1>5. CASE step = "save"
  <2>1. n = Thrown(run)
    BY <1>5 DEF SaveFailed
  <2>2. Thrown(run).sc = run.sc /\ Thrown(run).keptSc = run.keptSc
    <3>1. run = [f \in RunFields |-> run[f]]
      BY <1>1 DEF IsRun
    <3>2. /\ [run EXCEPT !.st = run.kept, !.todo = Failing].sc = run.sc
          /\ [run EXCEPT !.st = run.kept, !.todo = Failing].keptSc = run.keptSc
          /\ [run EXCEPT !.todo = <<"error">>].sc = run.sc
          /\ [run EXCEPT !.todo = <<"error">>].keptSc = run.keptSc
      BY <3>1 DEF RunFields
    <3>3. QED
      BY <3>2 DEF Thrown
  <2> DEFINE t == Thrown(run)
  <2>3. Good(t) /\ ~Asks(t.todo)
    BY <1>1, ThrownIsGood
  <2> HIDE DEF t, n
  <2>4. /\ t = [f \in RunFields |-> t[f]] /\ t.todo \in Seq(Steps) /\ IsState(t.st)
        /\ IsState(t.kept) /\ t.kept.active = NoMarker /\ RunHolds(t) /\ ~Asking(t)
    BY <2>3 DEF Good, IsRun, Asking
  <2>5. n = t /\ t.sc = run.sc /\ t.keptSc = run.keptSc
    BY <2>1, <2>2 DEF t
  <2>6. QED
    BY <2>4, <2>5 DEF n
<1>6. CASE step = "saveBest"
  <2>1. n = [run EXCEPT !.todo = Rest]
    BY <1>6 DEF SaveFailed
  <2> HIDE DEF n
  <2>2. /\ n = [f \in RunFields |-> n[f]] /\ n.todo = Rest /\ n.st = run.st
        /\ n.kept = run.kept /\ n.keptSc = run.keptSc /\ n.sc = run.sc /\ n.sha = run.sha
    BY <1>3, <2>1
  <2>3. RunHolds(n)
    BY <1>1, <2>2 DEF RunHolds
  <2>4. Asking(n) => Asking(run)
    BY <1>1, <1>2, <2>2 DEF Asking
  <2>5. QED
    BY <1>1, <1>4, <1>6, <2>2, <2>3, <2>4 DEF n, Saving
<1>7. CASE step \in {"critical", "replace"}
  <2> DEFINE more == IF step = "critical" /\ run.sc # 0 THEN "replace" ELSE "fence"
             p == <<more>>
             todo == p \o Rest
  <2>1. n = [run EXCEPT !.todo = todo]
    BY <1>7 DEF SaveFailed
  <2>2. /\ p \in Seq(Steps) /\ p # <<>> /\ Head(p) = more /\ ~Asks(p)
        /\ \A i \in DOMAIN p : p[i] # "failure" /\ p[i] # "marker"
    BY DEF Steps, Asks, MarkerSteps
  <2>3. more # "marker"
    OBVIOUS
  <2> HIDE DEF p
  <2>4. /\ todo \in Seq(Steps) /\ todo # <<>> /\ Head(todo) = more /\ Orderly(todo)
        /\ Asks(todo) => Asks(Rest)
    BY <1>1, <2>2, PrefixIsOrderly
  <2> HIDE DEF n, todo
  <2>5. /\ n = [f \in RunFields |-> n[f]] /\ n.todo = todo /\ n.st = run.st
        /\ n.kept = run.kept /\ n.keptSc = run.keptSc /\ n.sc = run.sc /\ n.sha = run.sha
    BY <1>3, <2>1
  <2>6. RunHolds(n)
    BY <1>1, <2>3, <2>4, <2>5 DEF RunHolds
  <2>7. Asking(n) => Asking(run) /\ more = "replace"
    BY <1>1, <1>2, <2>4, <2>5 DEF Asking
  <2>8. QED
    BY <1>1, <1>4, <1>7, <2>4, <2>5, <2>6, <2>7 DEF n, Saving
<1>8. QED
  BY <1>5, <1>6, <1>7

LEMMA SaveKeeps ==
    ASSUME GateInv, Save
    PROVE  GateInv'
<1>1. PICK step \in {"save", "saveBest", "critical", "replace"} :
        /\ At(step)
        /\ LET new == run.sc = 0 \/ step = "replace"
               comment == [st |-> run.st, deleted |-> FALSE]
               written == IF new THEN Append(states, comment) ELSE [states EXCEPT ![run.sc] = comment]
               sc == IF new THEN Len(states) + 1 ELSE run.sc
               gone == IF new THEN FALSE ELSE states[run.sc].deleted
           IN  \/ /\ ~gone
                  /\ NothingFails /\ states' = written
                  /\ Goes([run EXCEPT !.sc = sc, !.todo = Rest])
               \/ /\ gone
                  /\ NothingFails /\ UNCHANGED states /\ Goes(SaveFailed(step))
               \/ /\ MayFail /\ states' \in {states} \cup IF gone THEN {} ELSE {written}
                  /\ GoesBadly(SaveFailed(step))
  BY DEF Save
<1> DEFINE new == run.sc = 0 \/ step = "replace"
           comment == [st |-> run.st, deleted |-> FALSE]
           written == IF new THEN Append(states, comment) ELSE [states EXCEPT ![run.sc] = comment]
           sc == IF new THEN Len(states) + 1 ELSE run.sc
           n == [run EXCEPT !.sc = sc, !.todo = Rest]
           f == SaveFailed(step)
           Fine(s) == /\ s \in Seq({s[i] : i \in DOMAIN s})
                      /\ \A i \in DOMAIN s :
                            /\ s[i] = [e \in {"st", "deleted"} |-> s[i][e]]
                            /\ s[i].deleted \in BOOLEAN /\ IsState(s[i].st)
           \* The newest comment c of the states s knows the last marker, or is of another head.
           Known(s, c) ==
               s # <<>> /\ Holds(c) /\ ~Knows(c.st, LastMarker) =>
                   markers[LastMarker].head # markers[c.st.active.id].head
           Held(s, c, r) ==
               Asking(r) =>
                  /\ r.sc = 0 /\ Head(r.todo) \notin Saving => r.st.active = NoMarker
                  /\ s # <<>> /\ Holds(c) =>
                        /\ r.sc = Len(s)
                        /\ r.st.active = NoMarker /\ Head(r.todo) \notin Saving
                              => markers[c.st.active.id].head # r.sha
<1>2. /\ markers' = markers
      /\ \/ states' = written /\ (Goes(n) \/ GoesBadly(n))
         \/ states' \in {states, written} /\ (Goes(f) \/ GoesBadly(f))
  BY <1>1 DEF Save
<1>3. /\ IsRun(run) /\ KnowsLast(run.st) /\ IsState(run.st)
      /\ run.todo \in Seq(Steps) /\ run.todo # <<>> /\ Head(run.todo) = step
      /\ Rest \in Seq(Steps) /\ Orderly(Rest)
      /\ Rest # <<>> => Head(Rest) # "marker"
      /\ Asks(Rest) => Asks(run.todo)
      /\ NothingElseHeld(run) /\ NewestKnows /\ GateTypeInv
  BY <1>1, StepOf DEF GateInv
<1>4. /\ Fine(written) /\ written # <<>> /\ Len(written) \in Nat /\ run.sc \in 0..Len(written)
      /\ run.keptSc \in 0..Len(written)
      /\ new => Len(written) = Len(states) + 1 /\ written[Len(written)] = comment
      /\ ~new => /\ Len(written) = Len(states) /\ states # <<>> /\ run.sc # 0
                 /\ written[Len(written)] = IF run.sc = Len(states) THEN comment ELSE Newest
  <2>1. new \in BOOLEAN /\ (run.sc = 0 => new)
    OBVIOUS
  <2> HIDE DEF new
  <2>2. QED
    BY <2>1, WrittenIs
<1>5. /\ Fine(states) /\ Len(states) \in Nat /\ run.sc \in 0..Len(states) /\ run.keptSc \in 0..Len(states)
  BY <1>3 DEF GateTypeInv, IsRun
<1> DEFINE c == written[Len(written)]
<1> HIDE DEF written, f, n, c
<1>6. \/ c = comment /\ sc = Len(written) /\ (~new => sc = run.sc)
      \/ c = Newest /\ states # <<>> /\ run.sc # Len(states) /\ sc = run.sc /\ ~new
  BY <1>4 DEF c
<1>7. Known(written, c) /\ Known(states, Newest)
  <2>1. Holds(comment) => Knows(comment.st, LastMarker)
    BY <1>3 DEF Holds, KnowsLast
  <2> HIDE DEF comment
  <2>2. QED
    BY <1>3, <1>6, <2>1 DEF NewestKnows
<1>8. /\ f = [e \in RunFields |-> f[e]] /\ f.todo \in Seq(Steps) /\ IsState(f.st)
      /\ IsState(f.kept) /\ f.kept.active = NoMarker /\ RunHolds(f) /\ f.sc = run.sc
      /\ f.keptSc = run.keptSc
      /\ Asking(f) =>
            /\ f.st = run.st /\ f.sha = run.sha /\ Asking(run) /\ step # "replace"
            /\ Head(f.todo) \in Saving \/ step \notin Saving
            /\ run.sc = 0 => step \notin Saving
  BY <1>1, SaveFailedIs DEF f
<1>9. /\ n = [e \in RunFields |-> n[e]] /\ n.todo = Rest /\ n.sc = sc /\ n.st = run.st
      /\ n.sha = run.sha /\ n.kept = run.kept /\ n.keptSc = run.keptSc
  BY <1>3 DEF n, IsRun, RunFields
<1>10. /\ n.todo \in Seq(Steps) /\ IsState(n.st) /\ IsState(n.kept) /\ n.kept.active = NoMarker
       /\ RunHolds(n) /\ n.sc \in 0..Len(written) /\ n.keptSc \in 0..Len(written)
  <2>1. sc \in 0..Len(written)
    BY <1>4, <1>5
  <2> HIDE DEF sc, new, comment
  <2>2. n.sc \in 0..Len(written) /\ n.keptSc \in 0..Len(written)
    BY <1>4, <1>9, <2>1
  <2>3. QED
    BY <1>3, <1>9, <2>2 DEF IsRun, RunHolds
\* What the run holds is held by its comment alone.
<1>11. Asking(run) => /\ run.sc = 0 /\ step \notin Saving => run.st.active = NoMarker
                      /\ states # <<>> /\ Holds(Newest) => run.sc = Len(states)
  BY <1>3 DEF NothingElseHeld
<1>12. Holds(comment) => run.st.active # NoMarker
  BY DEF Holds
<1>13. Held(written, c, n)
  <2>1. Asking(n) => Asking(run)
    <3>1. step # "fence"
      OBVIOUS
    <3>2. QED
      BY <1>3, <1>9, <3>1 DEF Asking
  <2>2. sc # 0
    BY <1>4, <1>5
  <2> HIDE DEF sc, comment, new
  <2>3. QED
    BY <1>6, <1>9, <1>11, <1>12, <2>1, <2>2
<1>14. Held(states, Newest, f)
  <2>1. SUFFICES ASSUME Asking(f)
                 PROVE  /\ f.sc = 0 /\ Head(f.todo) \notin Saving => f.st.active = NoMarker
                        /\ states # <<>> /\ Holds(Newest) =>
                              /\ f.sc = Len(states)
                              /\ f.st.active = NoMarker /\ Head(f.todo) \notin Saving
                                    => markers[Newest.st.active.id].head # f.sha
    OBVIOUS
  <2>2. QED
    BY <1>3, <1>8, <1>11, <2>1 DEF NothingElseHeld
<1>15. Held(written, c, f)
  <2>1. SUFFICES ASSUME Asking(f)
                 PROVE  /\ f.sc = 0 /\ Head(f.todo) \notin Saving => f.st.active = NoMarker
                        /\ Holds(c) => f.sc = Len(written) /\ f.st.active # NoMarker
    OBVIOUS
  <2>2. f.sc = 0 /\ Head(f.todo) \notin Saving => f.st.active = NoMarker
    BY <1>8, <1>11, <2>1
  <2>3. CASE new
    <3>1. run.sc = 0 /\ run.st.active = NoMarker
      BY <1>8, <1>11, <2>1, <2>3
    <3>2. c = comment
      BY <1>4, <2>3 DEF c
    <3>3. QED
      BY <1>12, <2>2, <3>1, <3>2
  <2>4. CASE ~new
    <3> HIDE DEF comment, sc, new
    <3>1. QED
      BY <1>6, <1>8, <1>11, <1>12, <2>1, <2>2, <2>4
  <2>5. QED
    BY <2>3, <2>4
<1>16. states # <<>> => states[Len(states)] = Newest
  BY DEF Newest
<1>17. written[Len(written)] = c
  BY DEF c
<1> HIDE DEF comment, sc, new
<1>18. CASE states' = written /\ (Goes(n) \/ GoesBadly(n))
  <2>1. n = [e \in RunFields |-> n[e]]
    BY <1>9
  <2>2. QED
    BY <1>2, <1>4, <1>7, <1>10, <1>13, <1>17, <1>18, <2>1, NewestAfter
<1>19. CASE states' = written /\ (Goes(f) \/ GoesBadly(f))
  <2>1. /\ f = [e \in RunFields |-> f[e]] /\ f.todo \in Seq(Steps) /\ IsState(f.st)
        /\ IsState(f.kept) /\ f.kept.active = NoMarker /\ RunHolds(f)
        /\ f.sc \in 0..Len(written) /\ f.keptSc \in 0..Len(written)
    BY <1>4, <1>8
  <2>2. Fine(written)
    BY <1>4
  <2>3. QED
    BY <1>2, <1>7, <1>15, <1>17, <1>19, <2>1, <2>2, NewestAfter
<1>20. CASE states' = states /\ (Goes(f) \/ GoesBadly(f))
  BY <1>2, <1>5, <1>7, <1>8, <1>14, <1>16, <1>20, NewestAfter
<1>21. QED
  BY <1>2, <1>18, <1>19, <1>20

\* The state comment is deleted: one comment less that counts.
LEMMA DeleteStateKeeps ==
    ASSUME GateInv, DeleteState
    PROVE  GateInv'
<1> DEFINE s == [states EXCEPT ![LastState].deleted = TRUE]
           S == {s[i] : i \in DOMAIN s}
           c == s[Len(s)]
           r == run
<1>1. states' = s /\ markers' = markers /\ run' = run /\ LastState # 0
  BY DEF DeleteState
<1>2. /\ GateTypeInv /\ IsRun(run) /\ RunHolds(run) /\ NothingElseHeld(run) /\ NewestKnows
      /\ Len(states) \in Nat /\ DOMAIN states = 1..Len(states)
      /\ \A i \in DOMAIN states :
            /\ states[i] = [f \in {"st", "deleted"} |-> states[i][f]]
            /\ states[i].deleted \in BOOLEAN /\ IsState(states[i].st)
  BY DEF GateInv, GateTypeInv
<1>3. /\ s = [i \in DOMAIN states |->
                 IF i = LastState THEN [states[i] EXCEPT !.deleted = TRUE] ELSE states[i]]
      /\ DOMAIN s = DOMAIN states
  OBVIOUS
<1>4. ASSUME NEW i \in DOMAIN states
      PROVE  /\ s[i] = [f \in {"st", "deleted"} |-> s[i][f]] /\ s[i].deleted \in BOOLEAN
             /\ s[i].st = states[i].st /\ (s[i].deleted \/ s[i] = states[i])
  <2>1. s[i] = IF i = LastState THEN [states[i] EXCEPT !.deleted = TRUE] ELSE states[i]
    BY <1>3
  <2>2. states[i] = [f \in {"st", "deleted"} |-> states[i][f]] /\ states[i].deleted \in BOOLEAN
    BY <1>2
  <2> HIDE DEF s
  <2>3. QED
    BY <2>1, <2>2
<1>5. s \in Seq(S) /\ Len(s) = Len(states) /\ (s # <<>> => states # <<>>)
  <2>1. \A i \in DOMAIN s : s[i] \in S
    OBVIOUS
  <2>2. s = [i \in DOMAIN s |-> s[i]]
    BY <1>3
  <2> HIDE DEF s, S
  <2>3. s \in [1..Len(states) -> S]
    BY <1>2, <1>3, <2>1, <2>2
  <2>4. QED
    BY <1>2, <2>3, SeqDef, LenProperties
<1>6. \A i \in DOMAIN s : IsState(s[i].st)
  <2> HIDE DEF s
  <2>1. QED
    BY <1>2, <1>3, <1>4
<1> HIDE DEF s
<1>7. s # <<>> /\ Holds(c) => states # <<>> /\ Holds(Newest) /\ c = Newest
  <2>1. SUFFICES ASSUME s # <<>>, Holds(c) PROVE states # <<>> /\ Holds(Newest) /\ c = Newest
    OBVIOUS
  <2>2. Len(states) \in DOMAIN states /\ states # <<>>
    BY <1>2, <1>5, <2>1
  <2>3. c = Newest
    BY <1>4, <1>5, <2>1, <2>2 DEF Newest, Holds
  <2>4. QED
    BY <2>1, <2>2, <2>3
<1>8. s # <<>> => s[Len(s)] = c
  OBVIOUS
<1>9. /\ r = [f \in RunFields |-> r[f]] /\ r.todo \in Seq(Steps) /\ IsState(r.st)
      /\ IsState(r.kept) /\ r.kept.active = NoMarker /\ r.sc \in 0..Len(s) /\ r.keptSc \in 0..Len(s)
      /\ RunHolds(r)
      /\ run' = r
  BY <1>1, <1>2, <1>5 DEF IsRun
<1>10. Asking(r) =>
         /\ r.sc = 0 /\ Head(r.todo) \notin Saving => r.st.active = NoMarker
         /\ s # <<>> /\ Holds(c) =>
               /\ r.sc = Len(s)
               /\ r.st.active = NoMarker /\ Head(r.todo) \notin Saving
                     => markers[c.st.active.id].head # r.sha
  BY <1>2, <1>5, <1>7 DEF NothingElseHeld
<1>11. s # <<>> /\ Holds(c) /\ ~Knows(c.st, LastMarker) =>
         markers[LastMarker].head # markers[c.st.active.id].head
  BY <1>2, <1>7 DEF NewestKnows
<1>12. /\ s \in Seq({s[i] : i \in DOMAIN s})
       /\ \A i \in DOMAIN s :
             /\ s[i] = [f \in {"st", "deleted"} |-> s[i][f]]
             /\ s[i].deleted \in BOOLEAN /\ IsState(s[i].st)
  BY <1>3, <1>4, <1>5, <1>6
<1> HIDE DEF c, r
<1>13. QED
  BY <1>1, <1>8, <1>9, <1>10, <1>11, <1>12, NewestIs

LEMMA GateInitKeeps ==
    ASSUME GateInit
    PROVE  GateInv
<1>1. /\ markers = <<>> /\ states = <<>> /\ run = Idle(0)
      /\ run = [f \in RunFields |-> run[f]] /\ run.sc = 0 /\ run.todo = <<>>
      /\ run.st = Fresh(head) /\ run.kept = Fresh(head) /\ run.keptSc = 0
  BY DEF GateInit, Idle, RunFields
<1>2. IsRun(run) /\ KnowsLast(run.st)
  <2> DEFINE fresh == Fresh(head)
  <2>1. IsState(fresh) /\ fresh.active = NoMarker /\ KnowsLast(fresh)
    BY FreshIs
  <2>2. run.st = fresh /\ run.kept = fresh /\ 0 \in 0..Len(states)
    BY <1>1
  <2> HIDE DEF fresh
  <2>3. QED
    BY <1>1, <2>1, <2>2, Programs DEF IsRun
<1>3. GateTypeInv
  BY <1>1, <1>2 DEF GateTypeInv
<1>4. RunHolds(run) /\ NothingElseHeld(run) /\ NewestKnows
  BY <1>1, <1>2, Programs DEF RunHolds, NothingElseHeld, Asking, NewestKnows
<1>5. QED
  BY <1>3, <1>4 DEF GateInv

LEMMA GateNextKeeps ==
    ASSUME GateInv, [GateNext]_gateVars
    PROVE  GateInv'
<1>1. CASE Tick \/ Answers \/ Reacts \/ Push
  BY <1>1, WorldKeeps
<1>2. CASE DeleteState
  BY <1>2, DeleteStateKeeps
<1>3. CASE Crash
  BY <1>3, CrashKeeps
<1>4. CASE Trigger
  BY <1>4, TriggerKeeps
<1>5. CASE Load \/ Final \/ Admit \/ CloseObsolete
  BY <1>5, LoadKeeps, FinalKeeps, AdmitKeeps, CloseObsoleteKeeps
<1>6. CASE MarkFresh \/ WatchDeadline \/ Enter \/ Advance
  BY <1>6, MarkFreshKeeps, WatchDeadlineKeeps, EnterKeeps, AdvanceKeeps
<1>7. CASE PostMarker \/ Save \/ PublishFence \/ SetStatus
  BY <1>7, PostMarkerKeeps, SaveKeeps, PublishFenceKeeps, SetStatusKeeps
<1>8. CASE UNCHANGED gateVars
  <2> DEFINE r == run
  <2>1. Good(r) /\ run' = r /\ UNCHANGED <<markers, states>>
    BY <1>8 DEF GateInv, GateTypeInv, Good, gateVars
  <2> HIDE DEF r
  <2>2. QED
    BY <2>1, GoodStays
<1>9. QED
  BY <1>1, <1>2, <1>3, <1>4, <1>5, <1>6, <1>7, <1>8 DEF GateNext, RunSteps

\* What a run holds when it may still ask is what the newest state comment holds, or it
\* is about to be written there: through every failure, deleted comment and killed run.
THEOREM GateInvHolds == GateSpec => []GateInv
<1>1. GateInit => GateInv
  BY GateInitKeeps
<1>2. GateInv /\ [GateNext]_gateVars => GateInv'
  BY GateNextKeeps
<1>3. QED
  BY <1>1, <1>2, PTL DEF GateSpec

\* The newest state comment never holds a request of a head while a later one of that
\* head is unknown to it, whatever fails or is killed (advanceEventDrivenMarker,
\* saveOrchestrationCriticalState).
THEOREM OneRequestPerHeadHolds == GateSpec => []OneRequestPerHead
<1>1. GateInv => OneRequestPerHead
  <2>1. SUFFICES ASSUME GateInv, LastState = Len(states), Conflict
                 PROVE  markers[LastMarker].head # markers[states[LastState].st.active.id].head
    BY DEF OneRequestPerHead
  <2>2. GateTypeInv /\ NewestKnows
    BY <2>1 DEF GateInv
  <2>3. LastState # 0 /\ states[LastState] = Newest /\ Newest.st.active # NoMarker
        /\ ~Knows(Newest.st, LastMarker)
    BY <2>1 DEF Conflict, Newest
  <2>4. ~Newest.deleted /\ states # <<>>
    BY <2>2, <2>3, LastStateIs DEF GateTypeInv
  <2>5. QED
    BY <2>2, <2>3, <2>4 DEF NewestKnows, Holds
<1>2. QED
  BY <1>1, GateInvHolds, PTL

-----------------------------------------------------------------------------
(* How gate v1 waits: the inductive invariant.                             *)

\* What is left of the bounds' answers and mishaps is what new deadlines are paid with.
Happened == used.answers + used.faults
Deadlines(h) == {markers[i].deadline : i \in MarkersOf(h)}

\* The head could be given k more deadlines before there are too many.
Affords(h, k) == Cardinality(Deadlines(h)) + k <= 1 + Happened

\* The head would be waited for anew by a state: nothing of it is awaited, and the last
\* request was answered or lost.
Awaited(st, h) == st.active # NoMarker /\ markers[st.active.id].head = h
Renews(st, h) == ~Awaited(st, h) /\ NewCycle(st, h)
\* The same for a run that is yet to begin, which asks nothing while Codex says clean.
Loses(st, h) == Renews(st, h) /\ ~(LatestOutcome(st, h) = "passed" /\ verdict[h] = "clean")

Outcomes == {"missed_ack", "stalled", "passed", "state_lost", "obsolete_head", "timed_out", "failed_findings"}
\* A history is of markers, and an active one is newer than all in it.
Remembered == [id : DOMAIN markers, outcome : Outcomes]
Remembers(st) ==
    /\ st.history \in Seq(Remembered)
    /\ st.active # NoMarker => \A i \in DOMAIN st.history : st.history[i].id < st.active.id

\* A run something has gone wrong in: a request failed, or its state comment was deleted.
Gone(r) == r.sc # 0 /\ states[r.sc].deleted
Spoiled(r) == r.bad \/ Gone(r)
Short == {<<>>, <<"load">>, <<"final">>, <<"failure">>, <<"error">>, <<"success">>, <<"pending">>}
Working(r) == r.todo \notin {<<>>, <<"load">>, <<"error">>} /\ ~r.blocked
Without(todo, step) == \A i \in DOMAIN todo : todo[i] # step

\* What a run holds is all there is to know, but for what went wrong in it.
Informed(r) ==
    /\ \/ r.bad
       \/ Knows(r.st, LastMarker)
       \/ Gone(r) /\ r.todo \in {Failing, <<"saveBest">>}
    /\ ~r.bad /\ ~Gone(r) => r.sc = LastState

\* A new deadline that the run may set, now or by what it leaves, can be afforded.
Pays(r) ==
    /\ Remembers(r.st) /\ Remembers(r.kept)
    /\ r.todo # <<>> =>
          /\ r.bad \in BOOLEAN /\ r.blocked \in BOOLEAN
          /\ Spoiled(r) => \A h \in Heads : Affords(h, 1)
          /\ Asks(r.todo) /\ Renews(r.st, r.sha) => Affords(r.sha, IF Spoiled(r) THEN 2 ELSE 1)
          /\ Working(r) => Informed(r) /\ \A h \in Heads : Loses(r.st, h) => Affords(h, 1)
          /\ r.blocked => r.todo \in Short
          /\ \A x \in {"load", "final"} : Without(r.todo, x) \/ r.todo = <<x>>
          /\ r.todo = <<"load">> => ~r.bad /\ ~r.blocked
          /\ r.bad \/ Without(r.todo, "fence")
          /\ r.sha \in Heads

\* So can the one a later run may set, from what is written.
Forgotten(h) == LastState = 0 \/ (~Conflict /\ (Loses(Loaded(h), h) \/ FailureCandidate))

WaitInv ==
    /\ GateInv
    /\ used \in [answers : Nat, pushes : Nat, faults : Nat] /\ head \in Heads
    /\ \A i \in DOMAIN states : Remembers(states[i].st)
    /\ \A h \in Heads : IsFiniteSet(Deadlines(h)) /\ Affords(h, 0)
    /\ Pays(run)
    /\ \A h \in Heads : Fenced(h) => Affords(h, 1)
    /\ At("save") \/ \A h \in Heads : Forgotten(h) => Affords(h, 1)

-----------------------------------------------------------------------------
(* How gate v1 waits: the last marker of a head.                           *)

\* latestMarkerForCurrentHead.
LEMMA LatestIs ==
    ASSUME NEW st, st.history \in Seq(Remembered), NEW h
    PROVE  /\ Latest(st, h) \in 0..Len(st.history)
           /\ DOMAIN st.history = 1..Len(st.history) /\ Len(st.history) \in Nat
           /\ Latest(st, h) = 0 => \A i \in DOMAIN st.history : markers[st.history[i].id].head # h
           /\ Latest(st, h) # 0 =>
                 /\ Latest(st, h) \in DOMAIN st.history
                 /\ markers[st.history[Latest(st, h)].id].head = h
                 /\ \A i \in DOMAIN st.history :
                       markers[st.history[i].id].head = h => i <= Latest(st, h)
<1> DEFINE of == {i \in DOMAIN st.history : markers[st.history[i].id].head = h}
<1>1. /\ DOMAIN st.history = 1..Len(st.history) /\ Len(st.history) \in Nat
      /\ of \in SUBSET Nat /\ \A i \in of : i <= Len(st.history)
  OBVIOUS
<1>2. CASE of = {}
  BY <1>1, <1>2 DEF Latest
<1>3. CASE of # {}
  <2>1. \E i \in of : \A j \in of : j <= i
    <3> HIDE DEF of
    <3>1. QED
      BY <1>1, <1>3, LargestOf
  <2>2. Latest(st, h) = CHOOSE i \in of : \A j \in of : j <= i
    BY <1>3 DEF Latest
  <2>3. Latest(st, h) \in of /\ \A j \in of : j <= Latest(st, h)
    <3> HIDE DEF of
    <3>1. QED
      BY <2>1, <2>2
  <2>4. QED
    BY <1>1, <2>3
<1>4. QED
  BY <1>2, <1>3

\* It is the only one that is as late.
LEMMA LatestIsOnly ==
    ASSUME NEW st, st.history \in Seq(Remembered), NEW h, NEW n \in DOMAIN st.history,
           markers[st.history[n].id].head = h,
           \A i \in DOMAIN st.history : markers[st.history[i].id].head = h => i <= n
    PROVE  Latest(st, h) = n
<1>1. /\ Latest(st, h) # 0 /\ Latest(st, h) \in DOMAIN st.history /\ Latest(st, h) <= n
      /\ n <= Latest(st, h)
  BY LatestIs
<1>2. DOMAIN st.history \subseteq Nat
  BY LatestIs
<1>3. QED
  BY <1>1, <1>2

\* A longer history.
LEMMA LatestOfLonger ==
    ASSUME NEW st, NEW n, st.history \in Seq(Remembered), NEW e \in Remembered,
           n.history = Append(st.history, e), NEW h
    PROVE  /\ n.history \in Seq(Remembered)
           /\ markers[e.id].head = h => Latest(n, h) = Len(st.history) + 1 /\ LatestOutcome(n, h) = e.outcome
           /\ markers[e.id].head # h => Latest(n, h) = Latest(st, h)
                                        /\ LatestOutcome(n, h) = LatestOutcome(st, h)
<1> DEFINE m == Len(st.history) + 1
<1>1. /\ n.history \in Seq(Remembered) /\ Len(st.history) \in Nat /\ DOMAIN st.history = 1..Len(st.history)
      /\ DOMAIN n.history = 1..m /\ n.history[m] = e
      /\ \A i \in DOMAIN st.history : n.history[i] = st.history[i]
  BY LatestIs
<1>2. CASE markers[e.id].head = h
  <2>1. m \in DOMAIN n.history /\ \A i \in DOMAIN n.history : i <= m
    BY <1>1
  <2>2. Latest(n, h) = m
    BY <1>1, <1>2, <2>1, LatestIsOnly
  <2>3. QED
    BY <1>1, <1>2, <2>2 DEF LatestOutcome
<1>3. CASE markers[e.id].head # h
  <2> DEFINE l == Latest(st, h)
  <2>1. /\ l \in 0..Len(st.history)
        /\ l = 0 => \A i \in DOMAIN st.history : markers[st.history[i].id].head # h
        /\ l # 0 => /\ l \in DOMAIN st.history
                    /\ markers[st.history[l].id].head = h
                    /\ \A i \in DOMAIN st.history : markers[st.history[i].id].head = h => i <= l
    BY LatestIs
  <2> HIDE DEF l
  <2>2. \A i \in DOMAIN n.history : markers[n.history[i].id].head = h
                                     => i \in DOMAIN st.history /\ n.history[i] = st.history[i]
    BY <1>1, <1>3
  <2>3. CASE l = 0
    <3>1. Latest(n, h) = 0
      <4>1. Latest(n, h) # 0 => /\ Latest(n, h) \in DOMAIN n.history
                                /\ markers[n.history[Latest(n, h)].id].head = h
        BY <1>1, LatestIs
      <4>2. QED
        BY <2>1, <2>2, <2>3, <4>1
    <3>2. QED
      BY <1>1, <1>3, <2>3, <3>1 DEF LatestOutcome, l
  <2>4. CASE l # 0
    <3>1. l \in DOMAIN n.history /\ n.history[l] = st.history[l]
      BY <1>1, <2>1, <2>4
    <3>2. \A i \in DOMAIN n.history : markers[n.history[i].id].head = h => i <= l
      BY <2>1, <2>2, <2>4
    <3>3. Latest(n, h) = l
      <4>1. n.history \in Seq(Remembered) /\ markers[n.history[l].id].head = h
        BY <1>1, <2>1, <2>4, <3>1
      <4>2. l \in DOMAIN n.history
        BY <3>1
      <4>3. \A i \in DOMAIN n.history : markers[n.history[i].id].head = h => i <= l
        BY <3>2
      <4> HIDE DEF m
      <4>4. QED
        BY <4>1, <4>2, <4>3, LatestIsOnly, ZenonT(30)
    <3>4. QED
      BY <1>1, <1>3, <2>4, <3>1, <3>3 DEF LatestOutcome, l
  <2>5. QED
    BY <2>3, <2>4
<1>4. QED
  BY <1>2, <1>3

\* What a state says of the heads is only of the markers it remembers: of the same heads
\* and deadlines, it says the same.
LEMMA LatestStays ==
    ASSUME NEW st, st.history \in Seq(Remembered), NEW h,
           \A m \in DOMAIN markers : m \in DOMAIN markers' /\ markers'[m].head = markers[m].head
    PROVE  /\ (st.history \in Seq(Remembered))'
           /\ Latest(st, h)' = Latest(st, h) /\ LatestOutcome(st, h)' = LatestOutcome(st, h)
<1>1. \A i \in DOMAIN st.history : st.history[i].id \in DOMAIN markers
  <2>1. \A i \in DOMAIN st.history : st.history[i] \in Remembered
    OBVIOUS
  <2>2. QED
    BY <2>1 DEF Remembered
<1>2. st.history \in Seq(Remembered')
  <2>1. \A e \in Remembered : e \in Remembered'
    BY DEF Remembered
  <2>2. QED
    BY <2>1
<1> DEFINE of == {i \in DOMAIN st.history : markers[st.history[i].id].head = h}
           was == {i \in DOMAIN st.history : markers'[st.history[i].id].head = h}
<1>3. of = was
  BY <1>1
<1>4. Latest(st, h)' = Latest(st, h)
  <2>1. Latest(st, h)' = IF was = {} THEN 0 ELSE CHOOSE i \in was : \A j \in was : j <= i
    BY DEF Latest
  <2>2. Latest(st, h) = IF of = {} THEN 0 ELSE CHOOSE i \in of : \A j \in of : j <= i
    BY DEF Latest
  <2> HIDE DEF of, was
  <2>3. QED
    BY <1>3, <2>1, <2>2
<1>5. QED
  BY <1>2, <1>4 DEF LatestOutcome

-----------------------------------------------------------------------------
(* How gate v1 waits: what a run does to the state it holds.               *)

\* A state that forgets nothing, and gives no head up that was awaited.
Milder(n, st) ==
    /\ Remembers(n)
    /\ \A m : Knows(st, m) => Knows(n, m)
    /\ \A h : (Renews(n, h) => Renews(st, h)) /\ (Loses(n, h) => Loses(st, h))

\* The same requests, another word of them.
LEMMA SameIsMilder ==
    ASSUME NEW st, NEW n, Remembers(st), n.history = st.history, n.active.id = st.active.id,
           n.active = NoMarker <=> st.active = NoMarker
    PROVE  Milder(n, st)
<1>1. Remembers(n)
  BY DEF Remembers
<1>2. \A m : Knows(st, m) => Knows(n, m)
  BY DEF Knows
<1>3. \A h : Awaited(n, h) <=> Awaited(st, h)
  BY DEF Awaited
<1>4. \A h : LatestOutcome(n, h) = LatestOutcome(st, h)
  BY DEF LatestOutcome, Latest
<1>5. QED
  BY <1>1, <1>2, <1>3, <1>4 DEF Milder, Renews, Loses, NewCycle

LEMMA MilderStill ==
    ASSUME NEW a, NEW b, NEW c, Milder(a, b), Milder(b, c)
    PROVE  Milder(a, c)
  BY DEF Milder

\* The active request is closed.
LEMMA ClosedRemembers ==
    ASSUME NEW st, IsState(st), Remembers(st), NEW why \in Outcomes
    PROVE  LET n == Closed(st, why)
           IN  /\ Remembers(n) /\ \A m : Knows(st, m) => Knows(n, m)
               /\ \A h : Awaited(st, h) => LatestOutcome(n, h) = why
               /\ \A h : ~Awaited(st, h) => LatestOutcome(n, h) = LatestOutcome(st, h)
<1>1. CASE st.active = NoMarker
  BY <1>1 DEF Closed, Awaited
<1>2. CASE st.active # NoMarker
  <2> DEFINE e == [id |-> st.active.id, outcome |-> why]
             n == [st EXCEPT !.active = NoMarker, !.history = Append(@, e)]
  <2>1. Closed(st, why) = n
    BY <1>2 DEF Closed
  <2>2. e \in Remembered /\ e.id = st.active.id /\ e.outcome = why
    BY <1>2 DEF IsState, Remembered
  <2>3. n.active = NoMarker /\ n.history = Append(st.history, e)
    BY DEF IsState, StateFields
  <2>4. st.history \in Seq(Remembered)
    BY DEF Remembers
  <2> HIDE DEF n, e
  <2>5. n.history \in Seq(Remembered)
    BY <2>2, <2>3, <2>4, LatestOfLonger
  <2>6. Remembers(n)
    BY <2>3, <2>5 DEF Remembers
  <2>7. ASSUME NEW h
        PROVE  LatestOutcome(n, h) = IF Awaited(st, h) THEN why ELSE LatestOutcome(st, h)
    BY <1>2, <2>2, <2>3, <2>4, LatestOfLonger DEF Awaited
  <2>8. ASSUME NEW m, Knows(st, m) PROVE Knows(n, m)
    <3>1. /\ DOMAIN st.history = 1..Len(st.history) /\ Len(st.history) \in Nat
          /\ DOMAIN n.history = 1..(Len(st.history) + 1)
          /\ n.history[Len(st.history) + 1] = e
          /\ \A i \in DOMAIN st.history : n.history[i] = st.history[i]
      BY <2>2, <2>3, <2>4
    <3>2. CASE m = st.active.id
      <4>1. Len(st.history) + 1 \in DOMAIN n.history
        BY <3>1
      <4>2. QED
        BY <2>2, <3>1, <3>2, <4>1 DEF Knows
    <3>3. CASE \E i \in DOMAIN st.history : st.history[i].id = m
      <4>1. PICK i \in DOMAIN st.history : st.history[i].id = m
        BY <3>3
      <4>2. i \in DOMAIN n.history /\ n.history[i].id = m
        BY <3>1, <4>1
      <4>3. QED
        BY <4>2 DEF Knows
    <3>4. QED
      BY <2>8, <3>2, <3>3 DEF Knows
  <2>9. QED
    BY <2>1, <2>6, <2>7, <2>8
<1>3. QED
  BY <1>1, <1>2

LEMMA ClosedIsMilder ==
    ASSUME NEW st, IsState(st), Remembers(st), NEW why \in Outcomes \ {"passed", "state_lost"}
    PROVE  Milder(Closed(st, why), st)
<1> DEFINE n == Closed(st, why)
<1>1. /\ Remembers(n) /\ \A m : Knows(st, m) => Knows(n, m)
      /\ \A h : Awaited(st, h) => LatestOutcome(n, h) = why
      /\ \A h : ~Awaited(st, h) => LatestOutcome(n, h) = LatestOutcome(st, h)
  BY ClosedRemembers
<1> HIDE DEF n
<1>2. why # "none"
  BY DEF Outcomes
<1>3. ASSUME NEW h, Renews(n, h)
      PROVE  Renews(st, h) /\ LatestOutcome(n, h) = LatestOutcome(st, h)
  BY <1>1, <1>2, <1>3 DEF Renews, NewCycle
<1>4. QED
  BY <1>1, <1>3 DEF Milder, Loses, n

\* The wait is given up.
LEMMA GivenUpIsMilder ==
    ASSUME NEW st, IsState(st), Remembers(st), NEW h, TimedOut(st, h)
    PROVE  Milder(GivenUp(st, h), st)
<1> DEFINE late == [st.history[Latest(st, h)] EXCEPT !.outcome = "timed_out"]
           gone == IF st.active # NoMarker THEN Closed(st, "timed_out")
                   ELSE [st EXCEPT !.history = Append(@, late)]
           n == [gone EXCEPT !.last = Told(h, "failure")]
<1>1. GivenUp(st, h) = n
  BY DEF GivenUp
<1>2. gone = [f \in StateFields |-> gone[f]] /\ Milder(gone, st)
  <2>1. CASE st.active # NoMarker
    BY <2>1, ClosedIs, ClosedIsMilder DEF IsState, Outcomes
  <2>2. CASE st.active = NoMarker
    <3> DEFINE g == [st EXCEPT !.history = Append(@, late)]
    <3>1. st.history \in Seq(Remembered) /\ Latest(st, h) # 0
      BY <2>2 DEF Remembers, TimedOut, NewCycle, LatestOutcome
    <3>2. /\ Latest(st, h) \in DOMAIN st.history
          /\ markers[st.history[Latest(st, h)].id].head = h
      BY <3>1, LatestIs
    <3> DEFINE e == st.history[Latest(st, h)]
    <3>3. e \in Remembered /\ markers[e.id].head = h
      BY <3>1, <3>2
    <3>4. late \in Remembered /\ late.id = e.id /\ late.outcome = "timed_out"
      <4>1. late = [e EXCEPT !.outcome = "timed_out"]
        OBVIOUS
      <4> HIDE DEF e, late
      <4>2. QED
        BY <3>3, <4>1 DEF Remembered, Outcomes
    <3> HIDE DEF late, e
    <3>5. /\ g = [f \in StateFields |-> g[f]] /\ g.active = st.active
          /\ g.history = Append(st.history, late)
      BY DEF IsState, StateFields
    <3>6. gone = g
      BY <2>2
    <3> HIDE DEF g, gone
    <3>7. g.history \in Seq(Remembered)
      BY <3>1, <3>4, <3>5, LatestOfLonger
    <3>8. \A m : Knows(st, m) => Knows(g, m)
      <4>1. st.history \in Seq(Remembered) /\ late \in Remembered /\ g.history = Append(st.history, late)
        BY <3>1, <3>4, <3>5
      <4>2. \A i \in DOMAIN st.history : i \in DOMAIN g.history /\ g.history[i] = st.history[i]
        BY <4>1
      <4>3. QED
        BY <3>5, <4>2 DEF Knows
    <3>9. markers[late.id].head = h /\ late \in Remembered /\ g.history = Append(st.history, late)
           /\ st.history \in Seq(Remembered)
      BY <3>1, <3>3, <3>4, <3>5
    <3>10. ASSUME NEW o, Renews(g, o) PROVE Renews(st, o) /\ LatestOutcome(g, o) = LatestOutcome(st, o)
      <4>1. CASE o = h
        <5>1. LatestOutcome(g, o) = "timed_out"
          <6>1. LatestOutcome(g, h) = late.outcome
            <7>1. PICK d \in Remembered : d = late
              BY <3>9
            <7>2. g.history = Append(st.history, d) /\ markers[d.id].head = h
              BY <3>9, <7>1
            <7>3. LatestOutcome(g, h) = d.outcome
              BY <3>9, <7>1, <7>2, LatestOfLonger
            <7>4. QED
              BY <7>1, <7>3
          <6>2. QED
            BY <3>4, <4>1, <6>1
        <5>2. QED
          BY <3>10, <5>1 DEF Renews, NewCycle
      <4>2. CASE o # h
        <5>1. LatestOutcome(g, o) = LatestOutcome(st, o)
          BY <3>9, <4>2, LatestOfLonger
        <5>2. QED
          BY <3>5, <3>10, <5>1 DEF Renews, NewCycle, Awaited
      <4>3. QED
        BY <4>1, <4>2
    <3>11. Remembers(g)
      BY <2>2, <3>5, <3>7 DEF Remembers
    <3>12. QED
      BY <3>5, <3>6, <3>8, <3>10, <3>11 DEF Milder, Loses
  <2>3. QED
    BY <2>1, <2>2
<1> HIDE DEF gone
<1>3. n.active = gone.active /\ n.history = gone.history
  BY <1>2 DEF StateFields
<1>4. Remembers(gone)
  BY <1>2 DEF Milder
<1> HIDE DEF n
<1>5. Milder(n, gone)
  BY <1>3, <1>4, SameIsMilder
<1>6. QED
  BY <1>1, <1>2, <1>5, MilderStill

\* The active request is acknowledged.
LEMMA AcknowledgedIsMilder ==
    ASSUME NEW st, IsState(st), Remembers(st), st.active # NoMarker, GateTypeInv
    PROVE  Milder([st EXCEPT !.active.phase = "waiting_result"], st)
<1> DEFINE n == [st EXCEPT !.active.phase = "waiting_result"]
<1>1. n.history = st.history /\ n.active = [st.active EXCEPT !.phase = "waiting_result"]
  BY DEF IsState, StateFields
<1>2. n.active.id = st.active.id
  BY <1>1 DEF IsState, Phases
<1>3. n.active # NoMarker
  BY <1>2, NoMarkerIs DEF IsState
<1> HIDE DEF n
<1>4. Milder(n, st)
  BY <1>1, <1>2, <1>3, SameIsMilder
<1>5. QED
  BY <1>4 DEF n

\* Another result is told.
LEMMA ToldIsMilder ==
    ASSUME NEW st, IsState(st), Remembers(st), NEW told
    PROVE  Milder([st EXCEPT !.last = told], st)
<1> DEFINE n == [st EXCEPT !.last = told]
<1>1. n.history = st.history /\ n.active = st.active
  BY DEF IsState, StateFields
<1> HIDE DEF n
<1>2. Milder(n, st)
  BY <1>1, SameIsMilder
<1>3. QED
  BY <1>2 DEF n

\* A head nothing is known of.
LEMMA FreshRemembers ==
    ASSUME NEW h, NEW m \in DOMAIN markers
    PROVE  /\ Remembers(Recovered(h, m)) /\ Knows(Recovered(h, m), m)
<1> DEFINE e == [id |-> m, outcome |-> "state_lost"]
           f == Fresh(h)
           n == Recovered(h, m)
<1>1. f = [x \in StateFields |-> f[x]] /\ f.active = NoMarker
  BY DEF Fresh, StateFields
<1>2. n = [f EXCEPT !.history = <<e>>]
  BY DEF Recovered
<1> HIDE DEF f, n
<1>3. n.active = NoMarker /\ n.history = <<e>>
  BY <1>1, <1>2 DEF StateFields
<1>4. e \in Remembered /\ e.id = m
  BY DEF Remembered, Outcomes
<1> HIDE DEF e
<1>5. <<e>> \in Seq(Remembered) /\ 1 \in DOMAIN <<e>> /\ <<e>>[1] = e
  BY <1>4
<1>6. QED
  BY <1>3, <1>4, <1>5 DEF Remembers, Knows, n

LEMMA FreshIsEmpty ==
    ASSUME NEW h
    PROVE  Remembers(Fresh(h)) /\ Knows(Fresh(h), 0)
<1>1. Fresh(h).active = NoMarker /\ Fresh(h).history = <<>>
  BY DEF Fresh
<1>2. <<>> \in Seq(Remembered)
  OBVIOUS
<1>3. QED
  BY <1>1, <1>2, NoMarkerIs DEF Remembers, Knows

-----------------------------------------------------------------------------
(* How gate v1 waits: what can be afforded.                                *)

Counting == /\ used \in [answers : Nat, pushes : Nat, faults : Nat]
            /\ \A h \in Heads : IsFiniteSet(Deadlines(h)) /\ Affords(h, 0)

LEMMA AffordsLess ==
    ASSUME Counting, NEW h \in Heads
    PROVE  /\ Cardinality(Deadlines(h)) \in Nat /\ Happened \in Nat
           /\ Affords(h, 2) => Affords(h, 1)
<1>1. Cardinality(Deadlines(h)) \in Nat
  BY FS_CardinalityType DEF Counting
<1>2. Happened \in Nat
  BY DEF Counting, Happened
<1>3. QED
  BY <1>1, <1>2 DEF Affords

\* While no request is posted what can be afforded stays, or grows by what happens.
LEMMA AffordsLater ==
    ASSUME Counting, \A h \in Heads : Deadlines(h)' = Deadlines(h),
           Happened' = Happened \/ Happened' = Happened + 1,
           used' \in [answers : Nat, pushes : Nat, faults : Nat]
    PROVE  /\ Counting'
           /\ \A h \in Heads : /\ Affords(h, 1) => Affords(h, 1)'
                               /\ Affords(h, 2) => Affords(h, 2)'
           /\ Happened' = Happened + 1 =>
                 \A h \in Heads : Affords(h, 1)' /\ (Affords(h, 1) => Affords(h, 2)')
<1>1. ASSUME NEW h \in Heads
      PROVE  /\ IsFiniteSet(Deadlines(h))' /\ Affords(h, 0)'
             /\ Affords(h, 1) => Affords(h, 1)'
             /\ Affords(h, 2) => Affords(h, 2)'
             /\ Happened' = Happened + 1 => Affords(h, 1)' /\ (Affords(h, 1) => Affords(h, 2)')
  <2>1. Cardinality(Deadlines(h)) \in Nat /\ Happened \in Nat /\ Deadlines(h)' = Deadlines(h)
    BY AffordsLess
  <2>2. Affords(h, 0) /\ IsFiniteSet(Deadlines(h))
    BY DEF Counting
  <2>3. PICK c \in Nat : c = Cardinality(Deadlines(h))
    BY <2>1
  <2>4. \A k : /\ Affords(h, k) <=> c + k <= 1 + Happened
               /\ Affords(h, k)' <=> c + k <= 1 + Happened'
    BY <2>1, <2>3 DEF Affords
  <2>5. QED
    BY <2>1, <2>2, <2>4
<1>2. QED
  BY <1>1 DEF Counting

\* Another deadline of a head costs at most one.
LEMMA AffordsOneMore ==
    ASSUME Counting, NEW h \in Heads, NEW d, UNCHANGED used,
           Deadlines(h)' \subseteq Deadlines(h) \cup {d}
    PROVE  /\ IsFiniteSet(Deadlines(h))'
           /\ Affords(h, 1) => Affords(h, 0)'
           /\ Affords(h, 2) => Affords(h, 1)'
           /\ d \in Deadlines(h) =>
                 /\ Affords(h, 0)'
                 /\ Affords(h, 1) => Affords(h, 1)'
                 /\ Affords(h, 2) => Affords(h, 2)'
<1> DEFINE T == Deadlines(h) \cup {d}
<1>1. IsFiniteSet(Deadlines(h)) /\ Cardinality(Deadlines(h)) \in Nat /\ Happened \in Nat
  BY AffordsLess DEF Counting
<1>2. IsFiniteSet(T) /\ Cardinality(T) = IF d \in Deadlines(h) THEN Cardinality(Deadlines(h))
                                         ELSE Cardinality(Deadlines(h)) + 1
  BY <1>1, FS_AddElement
<1>3. PICK D : D = Deadlines(h)'
  OBVIOUS
<1>4. D \subseteq T
  BY <1>3
<1> HIDE DEF T
<1>5. IsFiniteSet(D) /\ Cardinality(D) <= Cardinality(T) /\ Cardinality(D) \in Nat
  BY <1>2, <1>4, FS_Subset, FS_CardinalityType
<1>6. PICK c \in Nat, t \in Nat, e \in Nat :
          c = Cardinality(Deadlines(h)) /\ t = Cardinality(T) /\ e = Cardinality(D)
  BY <1>1, <1>2, <1>5
<1>7. Happened' = Happened
  BY DEF Happened
<1>8. \A k : (Affords(h, k) <=> c + k <= 1 + Happened) /\ (Affords(h, k)' <=> e + k <= 1 + Happened)
  BY <1>3, <1>6, <1>7 DEF Affords
<1>9. e <= t /\ t <= c + 1 /\ (d \in Deadlines(h) => t = c)
  BY <1>2, <1>5, <1>6
<1>10. Affords(h, 0)
  BY DEF Counting
<1>11. QED
  BY <1>1, <1>3, <1>5, <1>8, <1>9, <1>10

-----------------------------------------------------------------------------
(* How gate v1 waits: what a run decides.                                  *)

\* The steps a run is given.
LEMMA WithoutIs ==
    ASSUME NEW x
    PROVE  /\ \A s \in Seq(Steps), t \in Seq(Steps) :
                 Without(s, x) /\ Without(t, x) => Without(s \o t, x) /\ s \o t \in Seq(Steps)
           /\ \A s \in Seq(Steps) : s # <<>> /\ Without(s, x) =>
                                       Without(Tail(s), x) /\ Head(s) # x
           /\ \A y : y # x => Without(<<y>>, x)
           /\ Without(<<>>, x)
           /\ x \notin {"failure", "saveBest"} => Without(Failing, x)
<1>1. ASSUME NEW s \in Seq(Steps), NEW t \in Seq(Steps), Without(s, x), Without(t, x)
      PROVE  Without(s \o t, x) /\ s \o t \in Seq(Steps)
  <2> DEFINE u == s \o t
  <2>1. /\ u \in Seq(Steps) /\ DOMAIN u = 1..(Len(s) + Len(t)) /\ Len(s) \in Nat /\ Len(t) \in Nat
        /\ \A i \in 1..Len(s) : u[i] = s[i] /\ i \in DOMAIN s
        /\ \A i \in 1..Len(t) : u[Len(s) + i] = t[i] /\ i \in DOMAIN t
    BY JoinOf
  <2> HIDE DEF u
  <2>2. ASSUME NEW i \in DOMAIN u PROVE u[i] # x
    <3>1. CASE i <= Len(s)
      <4>1. i \in 1..Len(s)
        BY <2>1, <2>2, <3>1
      <4>2. QED
        BY <1>1, <2>1, <4>1 DEF Without
    <3>2. CASE ~(i <= Len(s))
      <4>1. i - Len(s) \in 1..Len(t) /\ Len(s) + (i - Len(s)) = i
        BY <2>1, <2>2, <3>2
      <4>2. QED
        BY <1>1, <2>1, <4>1 DEF Without
    <3>3. QED
      BY <3>1, <3>2
  <2>3. QED
    BY <2>1, <2>2 DEF Without, u
<1>2. ASSUME NEW s \in Seq(Steps), s # <<>>, Without(s, x)
      PROVE  Without(Tail(s), x) /\ Head(s) # x
  <2>1. /\ Tail(s) \in Seq(Steps) /\ Head(s) = s[1] /\ 1 \in DOMAIN s /\ Len(s) \in Nat
        /\ DOMAIN Tail(s) = 1..(Len(s) - 1) /\ DOMAIN s = 1..Len(s)
        /\ \A i \in DOMAIN Tail(s) : Tail(s)[i] = s[i + 1]
    BY <1>2, TailOf
  <2>2. \A i \in DOMAIN Tail(s) : i + 1 \in DOMAIN s
    BY <2>1
  <2>3. QED
    BY <1>2, <2>1, <2>2 DEF Without
<1>3. ASSUME NEW y, y # x PROVE Without(<<y>>, x)
  BY <1>3 DEF Without
<1>4. Without(<<>>, x)
  BY DEF Without
<1>5. x \notin {"failure", "saveBest"} => Without(Failing, x)
  BY DEF Without, Failing
<1>6. QED
  BY <1>1, <1>2, <1>3, <1>4, <1>5

\* A decision pays when it is milder than what the run held.
LEMMA MilderPays ==
    ASSUME Counting, NEW r, NEW n, Pays(r), Working(r), r.bad \/ Knows(r.st, LastMarker),
           n.sc = r.sc, n.sha = r.sha, n.bad = r.bad, n.blocked = r.blocked,
           Remembers(n.kept), Milder(n.st, r.st),
           Asks(n.todo) => Asks(r.todo),
           Without(n.todo, "load"), Without(n.todo, "final"), r.bad \/ Without(n.todo, "fence")
    PROVE  Pays(n)
<1>1. /\ Remembers(n.st) /\ (Gone(n) <=> Gone(r)) /\ (Spoiled(n) <=> Spoiled(r))
      /\ \A h : (Renews(n.st, h) => Renews(r.st, h)) /\ (Loses(n.st, h) => Loses(r.st, h))
      /\ r.bad \/ Knows(n.st, LastMarker)
      /\ ~r.blocked /\ r.todo # <<>>
  BY DEF Milder, Gone, Spoiled, Working
<1>2. Informed(n)
  BY <1>1 DEF Pays, Informed
<1>3. /\ n.todo # <<"load">> /\ \A x \in {"load", "final"} : Without(n.todo, x)
      /\ Asks(n.todo) /\ Renews(n.st, n.sha) => Affords(n.sha, IF Spoiled(n) THEN 2 ELSE 1)
      /\ n.blocked => n.todo \in Short
  <2>1. n.todo # <<"load">>
    BY DEF Without
  <2>2. QED
    BY <1>1, <2>1 DEF Pays
<1>4. /\ Remembers(n.st) /\ Remembers(n.kept) /\ n.bad \in BOOLEAN /\ n.blocked \in BOOLEAN
      /\ n.sha \in Heads /\ (Spoiled(n) => \A h \in Heads : Affords(h, 1))
      /\ \A h \in Heads : Loses(n.st, h) => Affords(h, 1)
  BY <1>1 DEF Pays
<1>5. QED
  BY <1>2, <1>3, <1>4 DEF Pays

\* What a run does with what it holds, and what it leaves alone.
Decided(n, r) ==
    /\ n = [f \in RunFields |-> n[f]]
    /\ n.sc = r.sc /\ n.sha = r.sha /\ n.bad = r.bad /\ n.blocked = r.blocked /\ n.kept = r.kept
    /\ Milder(n.st, r.st)

LEMMA DecidedIs ==
    ASSUME NEW r, IsRun(r), Remembers(r.st), NEW st, Milder(st, r.st), NEW todo
    PROVE  LET n == [r EXCEPT !.st = st, !.todo = todo]
           IN  Decided(n, r) /\ n.todo = todo /\ n.st = st
  BY DEF Decided, IsRun, RunFields

LEMMA KeptIs ==
    ASSUME NEW r, IsRun(r), Remembers(r.st), NEW todo
    PROVE  LET n == [r EXCEPT !.todo = todo]
           IN  Decided(n, r) /\ n.todo = todo /\ n.st = r.st
<1>1. Milder(r.st, r.st)
  BY SameIsMilder
<1>2. QED
  BY <1>1 DEF Decided, IsRun, RunFields


\* timeOutCurrentHeadWaitCycleIfNeeded.
LEMMA GivesUpIs ==
    ASSUME NEW r, IsRun(r), Remembers(r.st), TimedOut(r.st, r.sha)
    PROVE  /\ Decided(GivesUp(r), r)
           /\ \A x \in {"load", "final", "fence"} : Without(GivesUp(r).todo, x)
<1> DEFINE after == IF PreparesFindings(r) THEN Failing ELSE <<>>
           told == <<"timedout">> \o after
           saves == <<"critical", "timedout">> \o after
<1>1. after \in Seq(Steps) /\ \A x \in {"load", "final", "fence"} : Without(after, x)
  BY Programs, WithoutIs
<1>2. \A x \in {"load", "final", "fence"} : Without(told, x) /\ Without(saves, x)
  <2> HIDE DEF after
  <2>1. /\ <<"timedout">> \in Seq(Steps) /\ <<"critical", "timedout">> \in Seq(Steps)
        /\ \A x \in {"load", "final", "fence"} : /\ Without(<<"timedout">>, x)
                                        /\ Without(<<"critical", "timedout">>, x)
    BY DEF Steps, Without
  <2>2. QED
    BY <1>1, <2>1, WithoutIs
<1> HIDE DEF told, saves
<1>3. CASE r.st.active = NoMarker /\ LatestOutcome(r.st, r.sha) = "timed_out"
  <2>1. GivesUp(r) = [r EXCEPT !.todo = told]
    BY <1>3 DEF GivesUp, told
  <2>2. QED
    BY <1>2, <2>1, KeptIs
<1>4. CASE ~(r.st.active = NoMarker /\ LatestOutcome(r.st, r.sha) = "timed_out")
  <2> DEFINE st == GivenUp(r.st, r.sha)
  <2>1. GivesUp(r) = [r EXCEPT !.st = st, !.todo = saves]
    BY <1>4 DEF GivesUp, saves
  <2>2. Milder(st, r.st)
    BY GivenUpIsMilder DEF IsRun
  <2> DEFINE n == [r EXCEPT !.st = st, !.todo = saves]
  <2> HIDE DEF st
  <2>3. Decided(n, r) /\ n.todo = saves
    BY <2>2 DEF Decided, IsRun, RunFields
  <2> HIDE DEF n
  <2>4. QED
    BY <1>2, <2>1, <2>3 DEF n
<1>5. QED
  BY <1>3, <1>4

\* advanceEventDrivenMarker.
LEMMA AdvancedIs ==
    ASSUME GateTypeInv, NEW r, IsRun(r), Remembers(r.st), NEW rest \in Seq(Steps)
    PROVE  LET n == Advanced(r, rest)
           IN  /\ Decided(n, r)
               /\ \A x \in {"load", "final", "fence"} : Without(rest, x) => Without(n.todo, x)
<1> DEFINE p1 == <<"marker">>
           p2 == <<"save">>
           p3 == <<"save", "pending">>
           t == <<"advance">> \o rest
<1>1. /\ t \in Seq(Steps)
      /\ \A x \in {"load", "final", "fence"} : Without(rest, x) => Without(t, x)
  <2> DEFINE p == <<"advance">>
  <2>1. p \in Seq(Steps) /\ \A x \in {"load", "final", "fence"} : Without(p, x)
    BY DEF Steps, Without
  <2> HIDE DEF p
  <2>2. p \o rest \in Seq(Steps) /\ \A x \in {"load", "final", "fence"} : Without(rest, x) => Without(p \o rest, x)
    <3>1. p \o rest \in Seq(Steps)
      BY <2>1
    <3>2. ASSUME NEW x \in {"load", "final", "fence"}, Without(rest, x) PROVE Without(p \o rest, x)
      BY <2>1, <3>2, WithoutIs
    <3>3. QED
      BY <3>1, <3>2
  <2>3. QED
    BY <2>2 DEF p
<1>2. ASSUME NEW p \in Seq(Steps), NEW u \in Seq(Steps), \A x \in {"load", "final", "fence"} : Without(p, x),
             \A x \in {"load", "final", "fence"} : Without(rest, x) => Without(u, x)
      PROVE  \A x \in {"load", "final", "fence"} : Without(rest, x) => Without(p \o u, x)
  BY <1>2, WithoutIs
<1>3. /\ p1 \in Seq(Steps) /\ p2 \in Seq(Steps) /\ p3 \in Seq(Steps) /\ <<>> \in Seq(Steps)
      /\ \A x \in {"load", "final", "fence"} :
            Without(p1, x) /\ Without(p2, x) /\ Without(p3, x) /\ Without(<<>>, x)
  BY DEF Steps, Without
<1> DEFINE asks == (IF r.allow /\ ~r.mute THEN p1 ELSE <<>>) \o rest
           saves == p2 \o rest
           early == p3 \o t
           again == p2 \o t
<1>4. \A x \in {"load", "final", "fence"} : Without(rest, x) =>
          Without(asks, x) /\ Without(saves, x) /\ Without(early, x) /\ Without(again, x)
  <2> HIDE DEF p1, p2, p3, t
  <2>1. \A x \in {"load", "final", "fence"} : Without(rest, x) => Without(p1 \o rest, x) /\ Without(<<>> \o rest, x)
    BY <1>2, <1>3
  <2>2. \A x \in {"load", "final", "fence"} : Without(rest, x) => Without(p2 \o rest, x)
    BY <1>2, <1>3
  <2>3. \A x \in {"load", "final", "fence"} : Without(rest, x) => Without(p3 \o t, x) /\ Without(p2 \o t, x)
    BY <1>1, <1>2, <1>3
  <2>4. QED
    BY <2>1, <2>2, <2>3
<1>5. p3 \o t = <<"save", "pending">> \o <<"advance">> \o rest /\ p2 \o t = <<"save">> \o <<"advance">> \o rest
  <2>1. <<"save">> \in Seq(Steps) /\ <<"save", "pending">> \in Seq(Steps) /\ <<"advance">> \in Seq(Steps)
    BY DEF Steps
  <2>2. QED
    BY <2>1
<1>6. IsState(r.st)
  BY DEF IsRun
<1> HIDE DEF asks, saves, early, again
<1>7. CASE r.st.active = NoMarker /\ ~TimedOut(r.st, r.sha)
  <2>1. Advanced(r, rest) = [r EXCEPT !.todo = asks]
    BY <1>7 DEF Advanced, asks
  <2>2. QED
    BY <1>4, <2>1, KeptIs
<1>8. CASE TimedOut(r.st, r.sha) /\ ~Obsolete(r.st, r.sha)
  <2>1. Advanced(r, rest) = GivesUp(r)
    BY <1>8 DEF Advanced, Obsolete
  <2>2. QED
    BY <1>8, <2>1, GivesUpIs
<1>9. ASSUME NEW why \in Outcomes \ {"passed", "state_lost"}, NEW todo, Advanced(r, rest) =
              [r EXCEPT !.st = Closed(r.st, why), !.allow = ~r.mute, !.todo = todo],
              todo \in {early, again}
      PROVE  Decided(Advanced(r, rest), r) /\ Advanced(r, rest).todo = todo
  <2> DEFINE st == Closed(r.st, why)
             n == [r EXCEPT !.st = st, !.allow = ~r.mute, !.todo = todo]
  <2>1. Milder(st, r.st)
    BY <1>6, ClosedIsMilder
  <2>2. Advanced(r, rest) = n
    BY <1>9
  <2> HIDE DEF st
  <2>3. Decided(n, r) /\ n.todo = todo
    BY <2>1 DEF Decided, IsRun, RunFields
  <2> HIDE DEF n
  <2>4. QED
    BY <2>2, <2>3
<1>10. CASE r.st.active # NoMarker /\ Obsolete(r.st, r.sha)
  <2>1. Advanced(r, rest) =
            [r EXCEPT !.st = Closed(r.st, "obsolete_head"), !.allow = ~r.mute, !.todo = early]
    BY <1>5, <1>10 DEF Advanced, early
  <2>2. "obsolete_head" \in Outcomes \ {"passed", "state_lost"}
    BY DEF Outcomes
  <2>3. Decided(Advanced(r, rest), r) /\ Advanced(r, rest).todo = early
    BY <1>9, <2>1, <2>2
  <2>4. QED
    BY <1>4, <2>3
<1>11. CASE /\ r.st.active # NoMarker /\ ~Obsolete(r.st, r.sha) /\ ~TimedOut(r.st, r.sha)
            /\ Acknowledged(r)
  <2> DEFINE st == [r.st EXCEPT !.active.phase = "waiting_result"]
             n == [r EXCEPT !.st = st, !.todo = saves]
  <2>1. Milder(st, r.st)
    BY <1>6, <1>11, AcknowledgedIsMilder
  <2>2. Advanced(r, rest) = n
    <3>1. Advanced(r, rest) = [r EXCEPT !.st.active.phase = "waiting_result", !.todo = saves]
      BY <1>11 DEF Advanced, saves
    <3>2. QED
      BY <3>1
  <2> HIDE DEF st
  <2>3. Decided(n, r) /\ n.todo = saves
    BY <2>1 DEF Decided, IsRun, RunFields
  <2> HIDE DEF n
  <2>4. QED
    BY <1>4, <2>2, <2>3
<1>12. CASE /\ r.st.active # NoMarker /\ ~Obsolete(r.st, r.sha) /\ ~TimedOut(r.st, r.sha)
            /\ ~Acknowledged(r) /\ Overdue(r.st) # "none"
  <2>1. Advanced(r, rest) =
            [r EXCEPT !.st = Closed(r.st, Overdue(r.st)), !.allow = ~r.mute, !.todo = again]
    BY <1>5, <1>12 DEF Advanced, again
  <2>2. Overdue(r.st) \in Outcomes \ {"passed", "state_lost"}
    BY <1>12 DEF Overdue, Outcomes
  <2>3. Decided(Advanced(r, rest), r) /\ Advanced(r, rest).todo = again
    BY <1>9, <2>1, <2>2
  <2>4. QED
    BY <1>4, <2>3
<1>13. CASE /\ r.st.active # NoMarker /\ ~Obsolete(r.st, r.sha) /\ ~TimedOut(r.st, r.sha)
            /\ ~Acknowledged(r) /\ Overdue(r.st) = "none"
  <2>1. Advanced(r, rest) = [r EXCEPT !.todo = rest]
    BY <1>13 DEF Advanced
  <2>2. QED
    BY <2>1, KeptIs
<1>14. QED
  BY <1>7, <1>8, <1>10, <1>11, <1>12, <1>13 DEF Obsolete

\* What processPullRequest has decided before its first marker step.
LEMMA AdmittedIs ==
    ASSUME NEW r, IsRun(r), Remembers(r.st), NEW save
    PROVE  LET n == Admitted(r, save)
           IN  /\ Decided(n, r) /\ n.st = r.st
               /\ \A x \in {"load", "final", "fence"} : Without(n.todo, x)
<1> DEFINE changed == Changed(r.st, r.sha)
           needs == r.needs \/ NeedsMarker(r.st, r.sha)
           active == r.st.active # NoMarker
           mute == /\ r.word = "progress" /\ ~changed /\ ~active
                   /\ LatestOutcome(r.st, r.sha) = "none"
           may == AllowsMarker(r) \/ needs \/ changed
           a == IF save THEN <<"saveBest">> ELSE <<>>
           b == IF changed /\ active THEN <<"obsolete">> ELSE <<>>
           c == IF changed THEN <<"wait">> ELSE <<>>
           d == <<"fresh", "timeout", "wait", "saveBest", "enter">>
           todo == a \o b \o c \o d
           n == [r EXCEPT !.needs = needs, !.changed = changed, !.mute = mute, !.may = may,
                          !.todo = todo]
<1>1. Admitted(r, save) = n
  BY DEF Admitted
<1>2. \A x \in {"load", "final", "fence"} : Without(todo, x)
  <2>1. /\ a \in Seq(Steps) /\ b \in Seq(Steps) /\ c \in Seq(Steps) /\ d \in Seq(Steps)
        /\ \A x \in {"load", "final", "fence"} : Without(a, x) /\ Without(b, x) /\ Without(c, x) /\ Without(d, x)
    <3>1. d \in Seq(Steps) /\ \A x \in {"load", "final", "fence"} : Without(d, x)
      BY DEF Steps, Without
    <3>2. /\ <<>> \in Seq(Steps) /\ <<"saveBest">> \in Seq(Steps) /\ <<"obsolete">> \in Seq(Steps)
          /\ <<"wait">> \in Seq(Steps)
          /\ \A x \in {"load", "final", "fence"} : /\ Without(<<>>, x) /\ Without(<<"saveBest">>, x)
                                          /\ Without(<<"obsolete">>, x) /\ Without(<<"wait">>, x)
      BY DEF Steps, Without
    <3>3. a \in {<<>>, <<"saveBest">>} /\ b \in {<<>>, <<"obsolete">>} /\ c \in {<<>>, <<"wait">>}
      OBVIOUS
    <3> HIDE DEF a, b, c, d
    <3>4. QED
      BY <3>1, <3>2, <3>3
  <2> HIDE DEF a, b, c, d
  <2> DEFINE ab == a \o b
             abc == ab \o c
  <2>2. ab \in Seq(Steps) /\ \A x \in {"load", "final", "fence"} : Without(ab, x)
    BY <2>1, WithoutIs
  <2> HIDE DEF ab
  <2>3. abc \in Seq(Steps) /\ \A x \in {"load", "final", "fence"} : Without(abc, x)
    BY <2>1, <2>2, WithoutIs
  <2> HIDE DEF abc
  <2>4. \A x \in {"load", "final", "fence"} : Without(abc \o d, x)
    BY <2>1, <2>3, WithoutIs
  <2>5. QED
    BY <2>4 DEF ab, abc
<1> HIDE DEF changed, needs, mute, may, todo
<1>3. Milder(r.st, r.st)
  BY SameIsMilder
<1>4. Decided(n, r) /\ n.todo = todo /\ n.st = r.st
  BY <1>3 DEF Decided, IsRun, RunFields
<1> HIDE DEF n
<1>5. QED
  BY <1>1, <1>2, <1>4

-----------------------------------------------------------------------------
(* How gate v1 waits: what a step leaves alone.                            *)

\* What a state says, while the markers it remembers are of the same heads.
LEMMA SaysTheSame ==
    ASSUME NEW st, IsState(st), Remembers(st),
           \A m \in DOMAIN markers : m \in DOMAIN markers' /\ markers'[m].head = markers[m].head
    PROVE  /\ Remembers(st)'
           /\ \A m : Knows(st, m)' <=> Knows(st, m)
           /\ \A h : Renews(st, h)' <=> Renews(st, h)
           /\ \A h : verdict'[h] = verdict[h] => (Loses(st, h)' <=> Loses(st, h))
           /\ \A h : LatestOutcome(st, h)' = LatestOutcome(st, h) /\ Latest(st, h)' = Latest(st, h)
<1>1. ASSUME NEW h
      PROVE  /\ LatestOutcome(st, h)' = LatestOutcome(st, h) /\ Latest(st, h)' = Latest(st, h)
             /\ (st.history \in Seq(Remembered))'
  BY LatestStays DEF Remembers
<1>2. Remembers(st)'
  BY <1>1 DEF Remembers
<1>3. \A h : Awaited(st, h)' <=> Awaited(st, h)
  BY DEF Awaited, IsState
<1>4. \A h : Renews(st, h)' <=> Renews(st, h)
  BY <1>1, <1>3 DEF Renews, NewCycle
<1>5. QED
  BY <1>1, <1>2, <1>4 DEF Loses, Knows

\* What is written, and what the next run makes of it.
LEMMA WrittenStays ==
    ASSUME UNCHANGED <<markers, states, verdict>>
    PROVE  /\ LastState' = LastState /\ LastMarker' = LastMarker /\ Conflict' = Conflict
           /\ FailureCandidate' = FailureCandidate
           /\ \A h : Loaded(h)' = Loaded(h) /\ Fenced(h)' = Fenced(h) /\ Deadlines(h)' = Deadlines(h)
           /\ \A st, h : Loses(st, h)' = Loses(st, h) /\ Renews(st, h)' = Renews(st, h)
           /\ \A h : Forgotten(h)' = Forgotten(h)
           /\ \A r : Gone(r)' = Gone(r)
<1>1. LastState' = LastState
  <2> DEFINE k == {i \in DOMAIN states : ~states[i].deleted}
             l == {i \in DOMAIN states' : ~states'[i].deleted}
  <2>1. k = l
    OBVIOUS
  <2>2. /\ LastState = IF k = {} THEN 0 ELSE CHOOSE i \in k : \A j \in k : j <= i
        /\ LastState' = IF l = {} THEN 0 ELSE CHOOSE i \in l : \A j \in l : j <= i
    BY DEF LastState
  <2> HIDE DEF k, l
  <2>3. QED
    BY <2>1, <2>2
<1>2. LastMarker' = LastMarker
  BY DEF LastMarker
<1>3. \A st, m : Knows(st, m)' = Knows(st, m)
  BY DEF Knows
<1>4. Conflict' = Conflict
  <2>1. Knows(states[LastState].st, LastMarker)' = Knows(states[LastState].st, LastMarker)
    BY <1>1, <1>2 DEF Knows
  <2>2. QED
    BY <1>1, <1>2, <2>1 DEF Conflict
<1>5. FailureCandidate' = FailureCandidate
  BY <1>1 DEF FailureCandidate
<1>6. ASSUME NEW h PROVE Loaded(h)' = Loaded(h)
  <2>1. Knows(states[LastState].st, LastMarker)' = Knows(states[LastState].st, LastMarker)
    BY <1>1, <1>2 DEF Knows
  <2>2. Fresh(h)' = Fresh(h) /\ Recovered(h, LastMarker)' = Recovered(h, LastMarker)
    BY <1>2 DEF Recovered, Fresh, Told
  <2>3. QED
    BY <1>1, <1>2, <2>1, <2>2 DEF Loaded
<1>7. ASSUME NEW h PROVE Fenced(h)' = Fenced(h) /\ Deadlines(h)' = Deadlines(h)
  BY <1>2 DEF Fenced, Deadlines, MarkersOf
<1>8. ASSUME NEW st, NEW h PROVE Loses(st, h)' = Loses(st, h) /\ Renews(st, h)' = Renews(st, h)
  <2> DEFINE k == {i \in DOMAIN st.history : markers[st.history[i].id].head = h}
             l == {i \in DOMAIN st.history : markers'[st.history[i].id].head = h}
  <2>1. k = l
    OBVIOUS
  <2>2. /\ Latest(st, h) = IF k = {} THEN 0 ELSE CHOOSE i \in k : \A j \in k : j <= i
        /\ Latest(st, h)' = IF l = {} THEN 0 ELSE CHOOSE i \in l : \A j \in l : j <= i
    BY DEF Latest
  <2> HIDE DEF k, l
  <2>3. Latest(st, h)' = Latest(st, h)
    BY <2>1, <2>2
  <2>4. QED
    BY <2>3 DEF Loses, Renews, NewCycle, LatestOutcome, Awaited
<1>9. ASSUME NEW h PROVE Forgotten(h)' = Forgotten(h)
  <2>1. Loses(Loaded(h), h)' = Loses(Loaded(h), h)
    <3>1. PICK st : st = Loaded(h)
      OBVIOUS
    <3>2. Loaded(h)' = st
      BY <1>6, <3>1
    <3>3. QED
      BY <1>8, <3>1, <3>2
  <2>2. QED
    BY <1>1, <1>4, <1>5, <2>1 DEF Forgotten
<1>10. QED
  BY <1>1, <1>2, <1>4, <1>5, <1>6, <1>7, <1>8, <1>9 DEF Gone

\* A run that is over.
LEMMA IdlePays ==
    ASSUME NEW t, NEW n, n = Idle(t)
    PROVE  Pays(n)' /\ n.todo = <<>>
<1>1. n.todo = <<>> /\ n.st = Fresh(head) /\ n.kept = Fresh(head)
  BY DEF Idle
<1>2. n.st.active = NoMarker /\ n.st.history = <<>>
  BY <1>1 DEF Fresh
<1>3. n.kept.active = NoMarker /\ n.kept.history = <<>>
  BY <1>1 DEF Fresh
<1>4. Remembers(n.st)' /\ Remembers(n.kept)'
  BY <1>2, <1>3 DEF Remembers
<1>5. QED
  BY <1>1, <1>4 DEF Pays

\* When everything that is forgotten can be afforded.
LEMMA RichKeeps ==
    ASSUME GateInv', Counting', head' \in Heads, Pays(run)', \A h \in Heads : Affords(h, 1)',
           (\A i \in DOMAIN states : Remembers(states[i].st))'
    PROVE  WaitInv'
  BY DEF WaitInv, Counting

LEMMA StartsCounting ==
    ASSUME WaitInv
    PROVE  Counting
  BY DEF WaitInv, Counting

\* What happens from outside pays for itself: that a run is killed, too.
LEMMA HappenedIs ==
    ASSUME WaitInv, NEW what \in {"answers", "faults"}, NEW bound, Uses(what, bound),
           \A h \in Heads : Deadlines(h)' = Deadlines(h)
    PROVE  /\ Counting' /\ Happened' = Happened + 1
           /\ \A h \in Heads : Affords(h, 1)' /\ (Affords(h, 1) => Affords(h, 2)')
<1>1. used \in [answers : Nat, pushes : Nat, faults : Nat]
  BY DEF WaitInv
<1>2. used' = [used EXCEPT ![what] = @ + 1]
  BY DEF Uses
<1>3. used' \in [answers : Nat, pushes : Nat, faults : Nat] /\ Happened' = Happened + 1
  BY <1>1, <1>2 DEF Happened
<1>4. Counting
  BY StartsCounting
<1>5. QED
  BY <1>3, <1>4, AffordsLater

\* So does a request that fails, the first of a run.
LEMMA FailedIs ==
    ASSUME WaitInv, MayFail, Busy, \A h \in Heads : Deadlines(h)' = Deadlines(h)
    PROVE  /\ Counting' /\ \A h \in Heads : Affords(h, 1)'
           /\ Asks(run.todo) /\ Renews(run.st, run.sha) => \A h \in Heads : h = run.sha => Affords(h, 2)'
<1>1. Pays(run) /\ run.todo # <<>> /\ Counting
  BY StartsCounting DEF WaitInv, Busy
<1>2. CASE run.bad
  <2>1. UNCHANGED used
    BY <1>2 DEF MayFail
  <2>2. Happened' = Happened /\ used' \in [answers : Nat, pushes : Nat, faults : Nat]
    BY <2>1, <1>1 DEF Happened, Counting
  <2>3. Counting' /\ \A h \in Heads : /\ Affords(h, 1) => Affords(h, 1)'
                                      /\ Affords(h, 2) => Affords(h, 2)'
    BY <1>1, <2>2, AffordsLater
  <2>4. /\ run.sha \in Heads /\ \A h \in Heads : Affords(h, 1)
        /\ Asks(run.todo) /\ Renews(run.st, run.sha) => Affords(run.sha, 2)
    BY <1>1, <1>2 DEF Pays, Spoiled
  <2>5. QED
    BY <2>3, <2>4
<1>3. CASE ~run.bad
  <2>1. Uses("faults", MaxMishaps)
    BY <1>3 DEF MayFail, Fault
  <2>2. Counting' /\ \A h \in Heads : Affords(h, 1)' /\ (Affords(h, 1) => Affords(h, 2)')
    BY <2>1, HappenedIs
  <2>3. run.sha \in Heads
    BY <1>1 DEF Pays
  <2>4. Affords(run.sha, 2) => Affords(run.sha, 1)
    BY <1>1, <2>3, AffordsLess
  <2>5. Asks(run.todo) /\ Renews(run.st, run.sha) => Affords(run.sha, 1)
    BY <1>1, <2>4 DEF Pays
  <2>6. QED
    BY <2>2, <2>3, <2>5
<1>4. QED
  BY <1>2, <1>3

-----------------------------------------------------------------------------
(* How gate v1 waits: how a run goes on.                                   *)

\* It goes on as it was.
LEMMA GoesOnPays ==
    ASSUME WaitInv, GateInv', ~At("save"), NEW r, Pays(r), IsState(r.st), IsState(r.kept),
           run' = r \/ (r.todo = <<>> /\ run' = Idle(r.at)),
           UNCHANGED <<markers, states, verdict, used>>, head' \in Heads
    PROVE  WaitInv'
<1>1. /\ LastState' = LastState /\ LastMarker' = LastMarker
      /\ \A h : Fenced(h)' = Fenced(h) /\ Deadlines(h)' = Deadlines(h)
      /\ \A st, h : Loses(st, h)' = Loses(st, h) /\ Renews(st, h)' = Renews(st, h)
      /\ \A h : Forgotten(h)' = Forgotten(h)
      /\ \A o : Gone(o)' = Gone(o)
  BY WrittenStays
<1>2. \A h, k : Affords(h, k)' = Affords(h, k)
  BY <1>1 DEF Affords, Happened
<1>3. Counting'
  BY <1>1, <1>2, StartsCounting DEF Counting
<1>4. \A st : Remembers(st)' = Remembers(st)
  BY DEF Remembers, Remembered
<1>5. (\A i \in DOMAIN states : Remembers(states[i].st))'
  BY <1>4 DEF WaitInv
<1>6. Pays(r)'
  <2>1. Spoiled(r)' = Spoiled(r) /\ Working(r)' = Working(r)
    BY <1>1 DEF Spoiled, Working
  <2>2. Informed(r)' = Informed(r)
    BY <1>1 DEF Informed, Knows
  <2>3. QED
    BY <1>1, <1>2, <1>4, <2>1, <2>2 DEF Pays
<1>7. Pays(run)'
  <2>1. CASE run' = r
    BY <1>6, <2>1
  <2>2. CASE run' = Idle(r.at)
    <3>1. PICK n : n = Idle(r.at)
      OBVIOUS
    <3>2. Pays(n)' /\ run' = n
      BY <2>2, <3>1, IdlePays
    <3>3. QED
      BY <3>2
  <2>3. QED
    BY <2>1, <2>2
<1>8. QED
  BY <1>1, <1>2, <1>3, <1>5, <1>7 DEF WaitInv, Counting

\* What happened pays for what a run would have to pay for.
LEMMA HappenedPays ==
    ASSUME WaitInv, NEW r, Pays(r), IsState(r.st), IsState(r.kept), markers' = markers,
           \A h \in Heads : Affords(h, 1)' /\ (Affords(h, 1) => Affords(h, 2)'),
           r.todo # <<>> /\ Working(r) => Informed(r)'
    PROVE  Pays(r)'
<1>1. Remembers(r.st)' /\ \A h : Renews(r.st, h)' <=> Renews(r.st, h)
  BY SaysTheSame DEF Pays
<1>2. Remembers(r.kept)'
  BY SaysTheSame DEF Pays
<1>3. ASSUME r.todo # <<>>, Asks(r.todo), Renews(r.st, r.sha)
      PROVE  Affords(r.sha, 2)' /\ Affords(r.sha, 1)'
  <2>1. r.sha \in Heads /\ Counting
    BY <1>3, StartsCounting DEF Pays
  <2>2. Affords(r.sha, 2) => Affords(r.sha, 1)
    BY <2>1, AffordsLess
  <2>3. Affords(r.sha, 1)
    BY <1>3, <2>2 DEF Pays
  <2>4. QED
    BY <2>1, <2>3
<1>4. Working(r)' <=> Working(r)
  BY DEF Working
<1>5. QED
  BY <1>1, <1>2, <1>3, <1>4 DEF Pays

\* A run in which a request has failed.
LEMMA BadPays ==
    ASSUME NEW r, r.bad = TRUE, r.blocked \in BOOLEAN, r.sha \in Heads,
           Remembers(r.st)', Remembers(r.kept)', \A h \in Heads : Affords(h, 1)',
           Asks(r.todo) /\ Renews(r.st, r.sha)' => Affords(r.sha, 2)',
           r.blocked => r.todo \in Short, Without(r.todo, "load"), Without(r.todo, "final")
    PROVE  Pays(r)'
<1>1. Spoiled(r)' /\ Informed(r)'
  BY DEF Spoiled, Informed
<1>2. r.todo # <<"load">>
  BY DEF Without
<1>3. QED
  BY <1>1, <1>2 DEF Pays

\* Time, Codex and people.
LEMMA WorldWaits ==
    ASSUME WaitInv, GateInv', Tick \/ Answers \/ Reacts \/ Push
    PROVE  WaitInv'
<1>1. run' = run /\ UNCHANGED <<markers, states>>
  BY DEF Tick, Answers, Reacts, Push, kept
<1>2. IsState(run.st) /\ IsState(run.kept) /\ Pays(run)
  BY DEF WaitInv, GateInv, GateTypeInv, IsRun
<1>3. \A h : Deadlines(h)' = Deadlines(h)
  BY <1>1 DEF Deadlines, MarkersOf
<1>4. \A st : Remembers(st)' = Remembers(st)
  BY <1>1 DEF Remembers, Remembered
<1>5. (\A i \in DOMAIN states : Remembers(states[i].st))'
  BY <1>1, <1>4 DEF WaitInv
<1>6. PICK r : r = run
  OBVIOUS
<1>7. CASE Answers \/ Reacts
  <2>1. Uses("answers", MaxAnswers) /\ head' = head
    BY <1>7 DEF Answers, Reacts
  <2>2. /\ Counting' /\ \A h \in Heads : Affords(h, 1)' /\ (Affords(h, 1) => Affords(h, 2)')
    BY <1>3, <2>1, HappenedIs
  <2>3. Informed(r) => Informed(r)'
    <3>1. LastState' = LastState
      <4> DEFINE k == {i \in DOMAIN states : ~states[i].deleted}
                 l == {i \in DOMAIN states' : ~states'[i].deleted}
      <4>1. k = l
        BY <1>1
      <4>2. /\ LastState = IF k = {} THEN 0 ELSE CHOOSE i \in k : \A j \in k : j <= i
            /\ LastState' = IF l = {} THEN 0 ELSE CHOOSE i \in l : \A j \in l : j <= i
        BY DEF LastState
      <4> HIDE DEF k, l
      <4>3. QED
        BY <4>1, <4>2
    <3>2. QED
      BY <1>1, <3>1 DEF Informed, Knows, Gone, LastMarker
  <2>4. Pays(r)'
    BY <1>1, <1>2, <1>6, <2>2, <2>3, HappenedPays DEF Pays
  <2>5. Pays(run)'
    BY <1>1, <1>6, <2>4
  <2>6. QED
    BY <1>5, <2>1, <2>2, <2>5, RichKeeps DEF WaitInv
<1>8. CASE Tick \/ Push
  <2>1. UNCHANGED verdict /\ head' \in Heads
    BY <1>8 DEF Tick, Push, world, WaitInv
  <2>2. Happened' = Happened /\ used' \in [answers : Nat, pushes : Nat, faults : Nat]
    <3>1. used \in [answers : Nat, pushes : Nat, faults : Nat]
      BY DEF WaitInv
    <3>2. CASE Tick
      BY <3>1, <3>2 DEF Tick, Happened
    <3>3. CASE Push
      <4>1. used' = [used EXCEPT !["pushes"] = @ + 1]
        BY <3>3 DEF Push, Uses
      <4>2. QED
        BY <3>1, <4>1 DEF Happened
    <3>4. QED
      BY <1>8, <3>2, <3>3
  <2>3. /\ LastState' = LastState /\ LastMarker' = LastMarker
        /\ \A h : Fenced(h)' = Fenced(h)
        /\ \A st, h : Loses(st, h)' = Loses(st, h) /\ Renews(st, h)' = Renews(st, h)
        /\ \A h : Forgotten(h)' = Forgotten(h)
        /\ \A o : Gone(o)' = Gone(o)
    BY <1>1, <2>1, WrittenStays
  <2>4. \A h, k : Affords(h, k)' = Affords(h, k)
    BY <1>3, <2>2 DEF Affords
  <2>5. Pays(r)' = Pays(r)
    <3>1. Spoiled(r)' = Spoiled(r) /\ Working(r)' = Working(r)
      BY <2>3 DEF Spoiled, Working
    <3>2. Informed(r)' = Informed(r)
      BY <2>3 DEF Informed, Knows
    <3>3. QED
      BY <1>4, <2>3, <2>4, <3>1, <3>2 DEF Pays
  <2>6. Pays(run)'
    BY <1>1, <1>2, <1>6, <2>5
  <2>7. At("save")' = At("save")
    BY <1>1 DEF At, Busy
  <2>8. QED
    BY <1>3, <1>5, <2>1, <2>2, <2>3, <2>4, <2>6, <2>7 DEF WaitInv
<1>9. QED
  BY <1>7, <1>8

\* The state comment is deleted.
LEMMA DeleteStateWaits ==
    ASSUME WaitInv, GateInv', DeleteState
    PROVE  WaitInv'
<1>1. /\ run' = run /\ markers' = markers /\ head' = head /\ Uses("faults", MaxMishaps)
      /\ LastState # 0 /\ states' = [states EXCEPT ![LastState].deleted = TRUE]
  BY DEF DeleteState, world, Fault
<1>2. GateTypeInv /\ IsState(run.st) /\ IsState(run.kept) /\ Pays(run) /\ run.sc \in 0..Len(states)
  BY DEF WaitInv, GateInv, GateTypeInv, IsRun
<1>3. LastState \in DOMAIN states /\ DOMAIN states' = DOMAIN states
      /\ DOMAIN states = 1..Len(states) /\ Len(states) \in Nat
  BY <1>1, <1>2, LastStateIs DEF GateTypeInv
<1>4. \A i \in DOMAIN states : states'[i].st = states[i].st /\ (states[i].deleted => states'[i].deleted)
  <2> SUFFICES ASSUME NEW i \in DOMAIN states
               PROVE  states'[i].st = states[i].st /\ (states[i].deleted => states'[i].deleted)
    OBVIOUS
  <2> DEFINE c == states[i]
             d == [c EXCEPT !.deleted = TRUE]
  <2>1. c = [f \in {"st", "deleted"} |-> c[f]]
    BY <1>2 DEF GateTypeInv
  <2>2. d.st = c.st /\ d.deleted
    <3> HIDE DEF c
    <3>1. QED
      BY <2>1
  <2>3. states'[i] = c \/ states'[i] = d
    BY <1>1, <1>3
  <2> HIDE DEF d
  <2>4. QED
    BY <2>2, <2>3
<1>5. states'[LastState].deleted
  <2> DEFINE c == states[LastState]
             d == [c EXCEPT !.deleted = TRUE]
  <2>1. c = [f \in {"st", "deleted"} |-> c[f]]
    BY <1>2, <1>3 DEF GateTypeInv
  <2>2. states'[LastState] = d
    BY <1>1, <1>3
  <2> HIDE DEF c
  <2>3. QED
    BY <2>1, <2>2
<1>6. (\A i \in DOMAIN states : Remembers(states[i].st))'
  <2>1. \A st : Remembers(st)' = Remembers(st)
    BY <1>1 DEF Remembers, Remembered
  <2>2. QED
    BY <1>3, <1>4, <2>1 DEF WaitInv
<1>7. \A h : Deadlines(h)' = Deadlines(h)
  BY <1>1 DEF Deadlines, MarkersOf
<1>8. /\ Counting' /\ \A h \in Heads : Affords(h, 1)' /\ (Affords(h, 1) => Affords(h, 2)')
  BY <1>1, <1>7, HappenedIs
<1>9. PICK r : r = run
  OBVIOUS
<1>10. ASSUME Informed(r) PROVE Informed(r)'
  <2>1. Gone(r) => Gone(r)'
    <3>1. r.sc # 0 => r.sc \in DOMAIN states
      BY <1>2, <1>3, <1>9
    <3>2. QED
      BY <1>4, <3>1 DEF Gone
  <2>2. LastMarker' = LastMarker /\ \A m : Knows(r.st, m)' = Knows(r.st, m)
    BY <1>1 DEF LastMarker, Knows
  <2>3. r.sc = LastState => Gone(r)'
    BY <1>1, <1>5 DEF Gone
  <2>4. QED
    BY <1>10, <2>1, <2>2, <2>3 DEF Informed
<1>11. Pays(r)'
  BY <1>1, <1>2, <1>8, <1>9, <1>10, HappenedPays DEF Pays
<1>12. Pays(run)'
  BY <1>1, <1>9, <1>11
<1>13. QED
  BY <1>1, <1>6, <1>8, <1>12, RichKeeps DEF WaitInv

\* A run is killed.
LEMMA CrashWaits ==
    ASSUME WaitInv, GateInv', Crash
    PROVE  WaitInv'
<1>1. /\ run' = Idle(run.at) /\ UNCHANGED <<markers, states, verdict, head>>
      /\ Uses("faults", MaxMishaps)
  <2> DEFINE n == [run EXCEPT !.todo = <<>>]
  <2>1. n.todo = <<>> /\ n.at = run.at
    BY DEF WaitInv, GateInv, GateTypeInv, IsRun, RunFields
  <2>2. Goes(n)
    BY DEF Crash
  <2> HIDE DEF n
  <2>3. QED
    BY <2>1, <2>2 DEF Goes, Crash, Fault, world, kept
<1>2. /\ Counting' /\ \A h \in Heads : Affords(h, 1)'
  <2>1. \A h : Deadlines(h)' = Deadlines(h)
    BY <1>1 DEF Deadlines, MarkersOf
  <2>2. QED
    BY <1>1, <2>1, HappenedIs
<1>3. Pays(run)'
  <2>1. PICK n : n = Idle(run.at)
    OBVIOUS
  <2>2. Pays(n)' /\ run' = n
    BY <1>1, <2>1, IdlePays
  <2>3. QED
    BY <2>2
<1>4. (\A i \in DOMAIN states : Remembers(states[i].st))'
  <2>1. \A st : Remembers(st)' = Remembers(st)
    BY <1>1 DEF Remembers, Remembered
  <2>2. QED
    BY <1>1, <2>1 DEF WaitInv
<1>5. QED
  BY <1>1, <1>2, <1>3, <1>4, RichKeeps DEF WaitInv

\* A run begins.
LEMMA TriggerWaits ==
    ASSUME WaitInv, GateInv', Trigger
    PROVE  WaitInv'
<1>1. PICK by \in {"open", "scan", "event"} :
          run' = [Idle(now) EXCEPT !.by = by, !.sha = head, !.todo = <<"load">>]
  BY DEF Trigger
<1> DEFINE o == Idle(now)
           n == [o EXCEPT !.by = by, !.sha = head, !.todo = <<"load">>]
<1>2. run' = n /\ UNCHANGED <<markers, states, verdict, used, head>> /\ ~Busy
  BY <1>1 DEF Trigger, kept, world
<1>3. /\ o = [f \in RunFields |-> o[f]] /\ o.sc = 0 /\ o.bad = FALSE /\ o.blocked = FALSE
      /\ o.st = Fresh(head) /\ o.kept = Fresh(head)
  BY DEF Idle, RunFields
<1> HIDE DEF o
<1>4. /\ n.sc = 0 /\ n.bad = FALSE /\ n.blocked = FALSE /\ n.sha = head /\ n.todo = <<"load">>
      /\ n.st = Fresh(head) /\ n.kept = Fresh(head)
  BY <1>3 DEF RunFields
<1> HIDE DEF n
<1>5. ~Spoiled(n) /\ ~Working(n)
  BY <1>4 DEF Spoiled, Gone, Working
<1>6. ~Asks(n.todo) /\ Without(n.todo, "fence") /\ Without(n.todo, "final") /\ n.todo # <<>> /\ n.sha \in Heads
  BY <1>4 DEF Asks, MarkerSteps, Without, WaitInv
<1>7. Remembers(Fresh(head)) /\ IsState(Fresh(head))
  BY FreshIsEmpty, FreshIs
<1>8. Pays(n)
  BY <1>4, <1>5, <1>6, <1>7 DEF Pays
<1>9. ~At("save") /\ head' \in Heads
  BY <1>2 DEF At, WaitInv
<1>10. QED
  BY <1>2, <1>4, <1>7, <1>8, <1>9, GoesOnPays

\* A run that goes on after a request has failed.
LEMMA BadlyPays ==
    ASSUME NEW r, GoesBadly(r), r = [f \in RunFields |-> r[f]], r.blocked \in BOOLEAN,
           r.sha \in Heads, Remembers(r.st)', Remembers(r.kept)',
           \A h \in Heads : Affords(h, 1)',
           Asks(r.todo) /\ Renews(r.st, r.sha)' => Affords(r.sha, 2)',
           r.blocked => r.todo \in Short, Without(r.todo, "load"), Without(r.todo, "final")
    PROVE  Pays(run)'
<1> DEFINE b == [r EXCEPT !.bad = TRUE]
<1>1. /\ b.bad = TRUE /\ b.blocked = r.blocked /\ b.sha = r.sha /\ b.st = r.st /\ b.kept = r.kept
      /\ b.todo = r.todo /\ Goes(b)
  BY DEF RunFields, GoesBadly
<1>2. PICK n : n = b
  OBVIOUS
<1> HIDE DEF b
<1>3. CASE run' = n
  <2>1. /\ n.bad = TRUE /\ n.blocked = r.blocked /\ n.sha = r.sha /\ n.st = r.st /\ n.kept = r.kept
        /\ n.todo = r.todo
    BY <1>1, <1>2
  <2>2. Remembers(n.st)' /\ Remembers(n.kept)' /\ (Renews(n.st, n.sha)' <=> Renews(r.st, r.sha)')
        /\ (Affords(n.sha, 2)' <=> Affords(r.sha, 2)')
    BY <2>1
  <2>3. Pays(n)'
    BY <2>1, <2>2, BadPays
  <2>4. QED
    BY <1>3, <2>3
<1>4. CASE run' = Idle(b.at)
  <2>1. PICK o : o = Idle(b.at)
    OBVIOUS
  <2>2. Pays(o)' /\ run' = o
    BY <1>4, <2>1, IdlePays
  <2>3. QED
    BY <2>2
<1>5. QED
  BY <1>1, <1>2, <1>3, <1>4 DEF Goes

\* It does so in a run that asks for nothing more than it did.
LEMMA BadlyWaits ==
    ASSUME WaitInv, GateInv', MayFail, Busy, NEW r, GoesBadly(r), r = [f \in RunFields |-> r[f]],
           r.blocked = run.blocked, r.sha = run.sha, IsState(r.st), IsState(r.kept),
           Remembers(r.st), Remembers(r.kept),
           Asks(r.todo) /\ Renews(r.st, r.sha) => Asks(run.todo) /\ Renews(run.st, run.sha),
           r.blocked => r.todo \in Short, Without(r.todo, "load"), Without(r.todo, "final"),
           UNCHANGED <<markers, states, head>>
    PROVE  WaitInv'
<1>1. Pays(run) /\ run.todo # <<>> /\ head \in Heads
  BY DEF WaitInv, Busy
<1>2. \A h : Deadlines(h)' = Deadlines(h)
  BY DEF Deadlines, MarkersOf
<1>3. /\ Counting' /\ \A h \in Heads : Affords(h, 1)'
      /\ Asks(run.todo) /\ Renews(run.st, run.sha) => \A h \in Heads : h = run.sha => Affords(h, 2)'
  BY <1>2, FailedIs
<1>4. Remembers(r.st)' /\ Remembers(r.kept)' /\ \A h : Renews(r.st, h)' <=> Renews(r.st, h)
  BY SaysTheSame
<1>5. r.sha \in Heads /\ r.blocked \in BOOLEAN
  BY <1>1 DEF Pays
<1>6. Asks(r.todo) /\ Renews(r.st, r.sha)' => Affords(r.sha, 2)'
  BY <1>3, <1>4, <1>5
<1>7. Pays(run)'
  BY <1>3, <1>4, <1>5, <1>6, BadlyPays
<1>8. (\A i \in DOMAIN states : Remembers(states[i].st))'
  <2>1. \A st : Remembers(st)' = Remembers(st)
    BY DEF Remembers, Remembered
  <2>2. QED
    BY <2>1 DEF WaitInv
<1>9. QED
  BY <1>1, <1>3, <1>7, <1>8, RichKeeps

\* What is known of a run at a step.
LEMMA StepIs ==
    ASSUME WaitInv, NEW step, At(step)
    PROVE  /\ GateTypeInv /\ Counting /\ Pays(run) /\ Busy /\ IsRun(run) /\ Remembers(run.st)
           /\ Remembers(run.kept) /\ IsState(run.st) /\ IsState(run.kept)
           /\ run.todo \in Seq(Steps) /\ run.todo # <<>> /\ Head(run.todo) = step /\ Rest = Tail(run.todo)
           /\ Rest \in Seq(Steps) /\ (Asks(Rest) => Asks(run.todo))
           /\ run.sha \in Heads /\ head \in Heads
           /\ step \notin {"load", "final"} =>
                 Without(run.todo, "load") /\ Without(run.todo, "final")
           /\ step \in {"load", "final"} => run.todo = <<step>>
           /\ \A x : Without(run.todo, x) => Without(Rest, x)
           /\ run.bad \/ Without(Rest, "fence")
           /\ run.blocked => run.todo = <<step>> /\ Rest = <<>>
<1>1. /\ GateTypeInv /\ Pays(run) /\ Busy /\ IsRun(run) /\ head \in Heads
      /\ run.todo # <<>> /\ Head(run.todo) = step /\ Rest = Tail(run.todo)
  BY DEF WaitInv, GateInv, GateTypeInv, At, Busy, Rest
<1>2. /\ run.todo \in Seq(Steps) /\ IsState(run.st) /\ IsState(run.kept)
      /\ Remembers(run.st) /\ Remembers(run.kept) /\ run.sha \in Heads
  BY <1>1 DEF IsRun, Pays
<1>3. \A x : Without(run.todo, x) => Without(Rest, x)
  BY <1>1, <1>2, WithoutIs
<1>4. Rest \in Seq(Steps) /\ (Asks(Rest) => Asks(run.todo))
  BY StepOf DEF WaitInv
<1>5. \A x \in {"load", "final"} : Without(run.todo, x) \/ run.todo = <<x>>
  BY <1>1 DEF Pays
<1>6. step \notin {"load", "final"} => Without(run.todo, "load") /\ Without(run.todo, "final")
  <2>1. ASSUME NEW x, run.todo = <<x>> PROVE step = x
    BY <1>1, <2>1
  <2>2. QED
    BY <1>5, <2>1
<1>7. step \in {"load", "final"} => run.todo = <<step>>
  <2>1. ~Without(run.todo, step)
    <3>1. run.todo[1] = step /\ 1 \in DOMAIN run.todo
      BY <1>1, <1>2, TailOf
    <3>2. QED
      BY <3>1 DEF Without
  <2>2. QED
    BY <1>5, <2>1
<1>8. run.bad \/ Without(Rest, "fence")
  BY <1>1, <1>3 DEF Pays
<1>9. run.blocked => run.todo = <<step>> /\ Rest = <<>>
  <2>1. SUFFICES ASSUME run.blocked PROVE run.todo = <<step>> /\ Rest = <<>>
    OBVIOUS
  <2>2. run.todo \in Short
    BY <1>1, <2>1 DEF Pays
  <2>3. PICK x : run.todo = <<x>>
    BY <1>1, <2>2 DEF Short
  <2>4. QED
    BY <1>1, <2>3
<1>10. QED
  BY <1>1, <1>2, <1>3, <1>4, <1>6, <1>7, <1>8, <1>9, StartsCounting

LEMMA MarkerStepIs ==
    ASSUME WaitInv, NEW step \in MarkerSteps, At(step)
    PROVE  /\ Working(run) /\ Asks(run.todo) /\ (run.bad \/ Knows(run.st, LastMarker))
<1>1. /\ run.todo \in Seq(Steps) /\ run.todo # <<>> /\ Head(run.todo) = step /\ Pays(run)
      /\ run.blocked => run.todo = <<step>>
  BY StepIs
<1>2. Asks(run.todo)
  BY <1>1, TailOf DEF Asks
<1>3. run.todo \notin {<<"load">>, <<"error">>, Failing, <<"saveBest">>} /\ run.todo \notin Short
  BY <1>1 DEF MarkerSteps, Failing, Short
<1>4. Working(run)
  BY <1>1, <1>3 DEF Working, Pays
<1>5. QED
  BY <1>1, <1>2, <1>3, <1>4 DEF Pays, Informed

\* A decision at a step by which it comes to post a marker.
LEMMA DecidedWaits ==
    ASSUME WaitInv, GateInv', NEW step \in MarkerSteps, NEW n, Decides(step, n), Decided(n, run),
           IsState(n.st), \A x \in {"load", "final", "fence"} : Without(Rest, x) => Without(n.todo, x)
    PROVE  WaitInv'
<1>1. At(step) /\ Goes(n) /\ UNCHANGED <<markers, states, verdict, used, head>>
  BY DEF Decides, kept, world
<1>2. /\ Pays(run) /\ Counting /\ IsState(run.kept) /\ head \in Heads /\ Remembers(run.kept)
      /\ Without(Rest, "load") /\ Without(Rest, "final") /\ (run.bad \/ Without(Rest, "fence"))
  BY <1>1, StepIs DEF MarkerSteps
<1>3. /\ Working(run) /\ Asks(run.todo) /\ (run.bad \/ Knows(run.st, LastMarker))
  BY <1>1, MarkerStepIs
<1>4. Pays(n)
  BY <1>2, <1>3, MilderPays DEF Decided
<1>5. ~At("save") /\ head' \in Heads /\ IsState(n.kept)
  BY <1>1, <1>2 DEF At, MarkerSteps, Decided
<1>6. QED
  BY <1>1, <1>4, <1>5, GoesOnPays DEF Goes

LEMMA AdmitWaits ==
    ASSUME WaitInv, GateInv', Admit
    PROVE  WaitInv'
<1>1. At("admit") /\ "admit" \in MarkerSteps
  BY DEF Admit, Decides, MarkerSteps
<1> DEFINE n == Admitted(run, FALSE)
<1>2. /\ Decided(n, run) /\ n.st = run.st
      /\ \A x \in {"load", "final", "fence"} : Without(n.todo, x)
  BY <1>1, StepIs, AdmittedIs
<1>3. Decides("admit", n)
  BY DEF Admit
<1>4. IsState(run.st)
  BY <1>1, StepIs
<1> HIDE DEF n
<1>5. IsState(n.st)
  BY <1>2, <1>4
<1>6. QED
  BY <1>1, <1>2, <1>3, <1>5, DecidedWaits

LEMMA CloseObsoleteWaits ==
    ASSUME WaitInv, GateInv', CloseObsolete
    PROVE  WaitInv'
<1>1. At("obsolete") /\ "obsolete" \in MarkerSteps
  BY DEF CloseObsolete, Decides, MarkerSteps
<1>2. IsState(run.st) /\ Remembers(run.st) /\ IsRun(run) /\ Rest \in Seq(Steps)
  BY <1>1, StepIs
<1> DEFINE st == Closed(run.st, "obsolete_head")
           todo == <<"save">> \o Rest
           n == [run EXCEPT !.st = st, !.todo = todo]
<1>3. Milder(st, run.st) /\ IsState(st)
  BY <1>2, ClosedIsMilder, ClosedIs DEF Outcomes
<1>4. \A x \in {"load", "final", "fence"} : Without(Rest, x) => Without(todo, x)
  <2> DEFINE p == <<"save">>
  <2>1. p \in Seq(Steps) /\ \A x \in {"load", "final", "fence"} : Without(p, x)
    BY DEF Steps, Without
  <2> HIDE DEF p
  <2>2. SUFFICES ASSUME NEW x \in {"load", "final", "fence"}, Without(Rest, x) PROVE Without(p \o Rest, x)
    BY DEF p
  <2>3. QED
    BY <1>2, <2>1, <2>2, WithoutIs
<1>5. Decides("obsolete", n)
  BY DEF CloseObsolete
<1> HIDE DEF st, todo
<1>6. Decided(n, run) /\ n.todo = todo /\ n.st = st
  BY <1>2, <1>3 DEF Decided, IsRun, RunFields
<1> HIDE DEF n
<1>7. IsState(n.st) /\ \A x \in {"load", "final", "fence"} : Without(Rest, x) => Without(n.todo, x)
  BY <1>3, <1>4, <1>6
<1>8. QED
  BY <1>1, <1>5, <1>6, <1>7, DecidedWaits

LEMMA MarkFreshWaits ==
    ASSUME WaitInv, GateInv', MarkFresh
    PROVE  WaitInv'
<1>1. At("fresh") /\ "fresh" \in MarkerSteps
  BY DEF MarkFresh, Decides, MarkerSteps
<1>2. /\ GateTypeInv /\ IsState(run.st) /\ Remembers(run.st) /\ IsRun(run) /\ Rest \in Seq(Steps)
      /\ \A i \in DOMAIN Rest : Rest[i] # "marker"
      /\ Orderly(Rest) /\ Alone(run) /\ KnowsLast(run.st)
  BY <1>1, StepIs, StepOf DEF WaitInv
<1> DEFINE r == [run EXCEPT !.allow = TRUE, !.changed = FALSE, !.needs = FALSE]
           a == Advanced(r, Rest)
           b == [run EXCEPT !.todo = Rest]
           n == IF run.may /\ ~run.mute /\ run.st.active = NoMarker /\ (run.changed \/ run.needs)
                THEN a ELSE b
<1>3. Decides("fresh", n)
  BY DEF MarkFresh
<1>4. /\ r = [f \in RunFields |-> r[f]] /\ r.sc = run.sc /\ r.kept = run.kept
      /\ r.keptSc = run.keptSc /\ r.sha = run.sha
      /\ r.st = run.st /\ r.todo = run.todo /\ r.bad = run.bad /\ r.blocked = run.blocked
  BY <1>2 DEF IsRun, RunFields
<1> HIDE DEF r
<1>5. IsRun(r) /\ Alone(r) /\ KnowsLast(r.st) /\ Remembers(r.st)
  BY <1>2, <1>4 DEF IsRun, Alone
<1>6. /\ Decided(a, r)
      /\ \A x \in {"load", "final", "fence"} : Without(Rest, x) => Without(a.todo, x)
  BY <1>2, <1>5, AdvancedIs
<1>7. IsState(a.st)
  BY <1>2, <1>5, AdvancedIsGood DEF Good, IsRun
<1>8. Decided(b, run) /\ b.todo = Rest /\ IsState(b.st)
  BY <1>2, KeptIs
<1> HIDE DEF a, b
<1>9. /\ Decided(n, run) /\ IsState(n.st)
      /\ \A x \in {"load", "final", "fence"} : Without(Rest, x) => Without(n.todo, x)
  BY <1>4, <1>6, <1>7, <1>8 DEF Decided
<1> HIDE DEF n
<1>10. QED
  BY <1>1, <1>3, <1>9, DecidedWaits

LEMMA WatchDeadlineWaits ==
    ASSUME WaitInv, GateInv', WatchDeadline
    PROVE  WaitInv'
<1>1. At("timeout") /\ "timeout" \in MarkerSteps
  BY DEF WatchDeadline, Decides, MarkerSteps
<1>2. /\ IsState(run.st) /\ Remembers(run.st) /\ IsRun(run) /\ Alone(run) /\ KnowsLast(run.st)
  BY <1>1, StepIs, StepOf DEF WaitInv
<1> DEFINE a == GivesUp(run)
           b == [run EXCEPT !.todo = Rest]
           n == IF TimedOut(run.st, run.sha) THEN a ELSE b
<1>3. Decides("timeout", n)
  BY DEF WatchDeadline
<1>4. TimedOut(run.st, run.sha) =>
          Decided(a, run) /\ \A x \in {"load", "final", "fence"} : Without(a.todo, x)
  BY <1>2, GivesUpIs
<1>5. IsState(a.st)
  BY <1>2, GivesUpIsGood DEF Good, IsRun
<1>6. Decided(b, run) /\ b.todo = Rest /\ IsState(b.st)
  BY <1>2, KeptIs
<1> HIDE DEF a, b
<1>7. /\ Decided(n, run) /\ IsState(n.st)
      /\ \A x \in {"load", "final", "fence"} : Without(Rest, x) => Without(n.todo, x)
  BY <1>4, <1>5, <1>6
<1> HIDE DEF n
<1>8. QED
  BY <1>1, <1>3, <1>7, DecidedWaits

LEMMA EnterWaits ==
    ASSUME WaitInv, GateInv', Enter
    PROVE  WaitInv'
<1>1. At("enter") /\ "enter" \in MarkerSteps
  BY DEF Enter, Decides, MarkerSteps
<1>2. /\ GateTypeInv /\ IsState(run.st) /\ Remembers(run.st) /\ IsRun(run) /\ Rest \in Seq(Steps)
      /\ \A i \in DOMAIN Rest : Rest[i] # "marker"
      /\ Orderly(Rest) /\ Alone(run) /\ KnowsLast(run.st)
  BY <1>1, StepIs, StepOf DEF WaitInv
<1> DEFINE recovered == /\ run.st.active = NoMarker /\ run.st.history # <<>>
                        /\ run.st.history[Len(run.st.history)].outcome = "state_lost"
           skips == run.by = "scan" /\ run.st.active = NoMarker /\ ~run.changed /\ ~run.needs
           allow == (run.may /\ ~run.mute) \/ recovered
           r == [run EXCEPT !.allow = allow]
           a == Advanced(r, Rest)
           b == [run EXCEPT !.todo = <<>>]
           n == IF skips THEN b ELSE a
<1>3. Decides("enter", n)
  BY DEF Enter
<1> HIDE DEF allow, skips
<1>4. /\ r = [f \in RunFields |-> r[f]] /\ r.sc = run.sc /\ r.kept = run.kept
      /\ r.keptSc = run.keptSc /\ r.sha = run.sha
      /\ r.st = run.st /\ r.todo = run.todo /\ r.bad = run.bad /\ r.blocked = run.blocked
  BY <1>2 DEF IsRun, RunFields
<1> HIDE DEF r
<1>5. IsRun(r) /\ Alone(r) /\ KnowsLast(r.st) /\ Remembers(r.st)
  BY <1>2, <1>4 DEF IsRun, Alone
<1>6. /\ Decided(a, r)
      /\ \A x \in {"load", "final", "fence"} : Without(Rest, x) => Without(a.todo, x)
  BY <1>2, <1>5, AdvancedIs
<1>7. IsState(a.st)
  BY <1>2, <1>5, AdvancedIsGood DEF Good, IsRun
<1>8. Decided(b, run) /\ IsState(b.st) /\ \A x : Without(b.todo, x)
  <2>1. Decided(b, run) /\ b.todo = <<>> /\ IsState(b.st)
    BY <1>2, KeptIs
  <2>2. QED
    BY <2>1, WithoutIs
<1> HIDE DEF a, b
<1>9. /\ Decided(n, run) /\ IsState(n.st)
      /\ \A x \in {"load", "final", "fence"} : Without(Rest, x) => Without(n.todo, x)
  BY <1>4, <1>6, <1>7, <1>8 DEF Decided
<1> HIDE DEF n
<1>10. QED
  BY <1>1, <1>3, <1>9, DecidedWaits

LEMMA AdvanceWaits ==
    ASSUME WaitInv, GateInv', Advance
    PROVE  WaitInv'
<1>1. At("advance") /\ "advance" \in MarkerSteps
  BY DEF Advance, Decides, MarkerSteps
<1>2. /\ GateTypeInv /\ Remembers(run.st) /\ IsRun(run) /\ Rest \in Seq(Steps)
      /\ \A i \in DOMAIN Rest : Rest[i] # "marker"
      /\ Orderly(Rest) /\ Alone(run) /\ KnowsLast(run.st)
  BY <1>1, StepIs, StepOf DEF WaitInv
<1> DEFINE n == Advanced(run, Rest)
<1>3. /\ Decided(n, run)
      /\ \A x \in {"load", "final", "fence"} : Without(Rest, x) => Without(n.todo, x)
  BY <1>2, AdvancedIs
<1>4. IsState(n.st)
  BY <1>2, AdvancedIsGood DEF Good, IsRun
<1>5. Decides("advance", n)
  BY DEF Advance
<1> HIDE DEF n
<1>6. QED
  BY <1>1, <1>3, <1>4, <1>5, DecidedWaits

\* A run that goes on with what it knows, or more.
LEMMA KnowingPays ==
    ASSUME WaitInv, NEW step \in Steps \ {"load"}, At(step), NEW n,
           n.sc = run.sc, n.sha = run.sha, n.bad = run.bad, n.blocked = run.blocked,
           Remembers(n.kept), Remembers(n.st), \A m : Knows(run.st, m) => Knows(n.st, m),
           \A h : Loses(n.st, h) => Loses(run.st, h),
           Asks(n.todo) /\ Renews(n.st, n.sha) => Asks(run.todo) /\ Renews(run.st, run.sha),
           n.blocked => n.todo \in Short,
           Without(n.todo, "load"), Without(n.todo, "final"), run.bad \/ Without(n.todo, "fence"),
           run.todo = <<"error">> => n.todo = <<>>,
           run.todo \in {Failing, <<"saveBest">>} => n.todo \in {<<>>, Failing, <<"saveBest">>, <<"error">>}
    PROVE  Pays(n)
<1>1. /\ Pays(run) /\ run.todo # <<>> /\ Head(run.todo) = step /\ run.sha \in Heads
  BY StepIs
<1>2. run.todo # <<"load">>
  BY <1>1
<1>3. Gone(n) = Gone(run) /\ Spoiled(n) = Spoiled(run)
  BY DEF Gone, Spoiled
<1>4. /\ n.bad \in BOOLEAN /\ n.blocked \in BOOLEAN
      /\ Spoiled(n) => \A h \in Heads : Affords(h, 1)
      /\ Asks(n.todo) /\ Renews(n.st, n.sha) => Affords(n.sha, IF Spoiled(n) THEN 2 ELSE 1)
  BY <1>1, <1>3 DEF Pays
<1>5. ASSUME Working(n) PROVE Informed(n) /\ \A h \in Heads : Loses(n.st, h) => Affords(h, 1)
  <2>1. Working(run)
    BY <1>1, <1>2, <1>5 DEF Working
  <2>2. Informed(run) /\ \A h \in Heads : Loses(n.st, h) => Affords(h, 1)
    BY <1>1, <2>1 DEF Pays
  <2>3. n.todo \notin {<<>>, <<"error">>}
    BY <1>5 DEF Working
  <2>4. Informed(n)
    BY <1>3, <2>2, <2>3 DEF Informed
  <2>5. QED
    BY <2>2, <2>4
<1>6. n.todo # <<"load">>
  BY DEF Without
<1>7. /\ \A x \in {"load", "final"} : Without(n.todo, x) \/ n.todo = <<x>>
      /\ n.bad \/ Without(n.todo, "fence")
  OBVIOUS
<1>8. QED
  BY <1>1, <1>4, <1>5, <1>6, <1>7 DEF Pays

\* What goes wrong ends the run, or leads to the findings it set out to record.
LEMMA ThrownIs ==
    ASSUME WaitInv, NEW step, At(step)
    PROVE  LET t == Thrown(run)
           IN  /\ t = [f \in RunFields |-> t[f]] /\ t.sc = run.sc /\ t.sha = run.sha
               /\ t.bad = run.bad /\ t.blocked = run.blocked /\ t.kept = run.kept
               /\ Remembers(t.st) /\ IsState(t.st)
               /\ ~Asks(t.todo) /\ \A x \in {"load", "final", "fence"} : Without(t.todo, x)
               /\ t.blocked => t.todo \in Short
               /\ run.todo = <<step>> => t.todo = <<"error">> /\ t.st = run.st
<1>1. /\ IsRun(run) /\ Remembers(run.st) /\ Remembers(run.kept) /\ IsState(run.st) /\ IsState(run.kept)
      /\ run.blocked => run.todo = <<step>>
  BY StepIs
<1>2. run.todo = <<step>> => ~PreparesFindings(run)
  BY DEF PreparesFindings
<1> DEFINE a == [run EXCEPT !.st = run.kept, !.todo = Failing]
           b == [run EXCEPT !.todo = <<"error">>]
<1>3. /\ Thrown(run) = IF PreparesFindings(run) THEN a ELSE b
  BY DEF Thrown
<1>4. /\ a = [f \in RunFields |-> a[f]] /\ a.sc = run.sc /\ a.sha = run.sha /\ a.bad = run.bad
      /\ a.blocked = run.blocked /\ a.kept = run.kept /\ a.st = run.kept
      /\ a.todo = Failing
  BY <1>1 DEF IsRun, RunFields
<1>5. /\ b = [f \in RunFields |-> b[f]] /\ b.sc = run.sc /\ b.sha = run.sha /\ b.bad = run.bad
      /\ b.blocked = run.blocked /\ b.kept = run.kept /\ b.st = run.st
      /\ b.todo = <<"error">>
  BY <1>1 DEF IsRun, RunFields
<1>6. /\ ~Asks(Failing) /\ ~Asks(<<"error">>) /\ <<"error">> \in Short
      /\ \A x \in {"load", "final", "fence"} : Without(Failing, x) /\ Without(<<"error">>, x)
  BY Programs, WithoutIs DEF Steps, MarkerSteps, Short
<1> HIDE DEF a, b
<1>7. QED
  BY <1>1, <1>2, <1>3, <1>4, <1>5, <1>6

\* It does so when a request fails.
LEMMA ThrownWaits ==
    ASSUME WaitInv, GateInv', NEW step, At(step), MayFail,
           GoesBadly(Thrown(run)) \/ GoesBadly(StatusFailed(run)),
           UNCHANGED <<markers, states, head>>
    PROVE  WaitInv'
<1> DEFINE o == Thrown(run)
           t == IF GoesBadly(o) THEN o ELSE StatusFailed(run)
<1>1. /\ t = [f \in RunFields |-> t[f]] /\ t.sha = run.sha /\ t.blocked = run.blocked
      /\ t.kept = run.kept
      /\ Remembers(t.st) /\ IsState(t.st) /\ ~Asks(t.todo)
      /\ \A x \in {"load", "final", "fence"} : Without(t.todo, x)
      /\ t.blocked => t.todo \in Short
  <2> DEFINE d == [o EXCEPT !.sc = run.keptSc]
  <2>1. /\ o = [f \in RunFields |-> o[f]] /\ o.sha = run.sha /\ o.blocked = run.blocked
        /\ o.kept = run.kept
        /\ Remembers(o.st) /\ IsState(o.st) /\ ~Asks(o.todo)
        /\ \A x \in {"load", "final", "fence"} : Without(o.todo, x)
        /\ o.blocked => o.todo \in Short
    BY ThrownIs
  <2>2. t = o \/ t = d
    BY DEF StatusFailed
  <2> HIDE DEF o
  <2>3. /\ d = [f \in RunFields |-> d[f]] /\ d.sha = o.sha /\ d.blocked = o.blocked
        /\ d.kept = o.kept /\ d.st = o.st /\ d.todo = o.todo
    BY <2>1 DEF RunFields
  <2> HIDE DEF d, t
  <2>4. QED
    BY <2>1, <2>2, <2>3
<1>2. Busy /\ IsState(run.kept) /\ Remembers(run.kept)
  BY StepIs
<1>3. GoesBadly(t)
  OBVIOUS
<1> HIDE DEF t
<1>4. QED
  BY <1>1, <1>2, <1>3, BadlyWaits

\* A run that ends when a request fails, or that has one thing left to tell.
LEMMA EndsBadly ==
    ASSUME WaitInv, GateInv', NEW step, At(step), MayFail,
           NEW todo \in {<<>>, <<"error">>, <<"pending">>}, GoesBadly([run EXCEPT !.todo = todo]),
           UNCHANGED <<markers, states, head>>
    PROVE  WaitInv'
<1> DEFINE n == [run EXCEPT !.todo = todo]
<1>1. /\ Busy /\ IsRun(run) /\ IsState(run.st) /\ IsState(run.kept) /\ Remembers(run.kept) /\ Remembers(run.st)
  BY StepIs
<1>2. /\ n = [f \in RunFields |-> n[f]] /\ n.sha = run.sha /\ n.blocked = run.blocked
      /\ n.kept = run.kept /\ n.st = run.st /\ n.todo = todo
  BY <1>1 DEF IsRun, RunFields
<1>3. ~Asks(todo) /\ todo \in Short /\ Without(todo, "load") /\ Without(todo, "final")
  BY DEF Asks, MarkerSteps, Without, Short
<1>4. GoesBadly(n)
  OBVIOUS
<1> HIDE DEF n
<1>5. QED
  BY <1>1, <1>2, <1>3, <1>4, BadlyWaits

\* A commit status.
LEMMA SetStatusWaits ==
    ASSUME WaitInv, GateInv', SetStatus
    PROVE  WaitInv'
<1> DEFINE Words2 == {"pending", "wait", "failure", "timedout", "success", "error"}
           told(h, w) == [run.st EXCEPT !.last = Told(h, w)]
           closed == [Closed(run.st, "failed_findings") EXCEPT !.last = Told(run.sha, "failure")]
           held(step) == CASE step = "wait" -> told(run.sha, "pending")
                           [] step = "failure" /\ Rest # <<>> -> closed
                           [] OTHER -> run.st
           done(step) == [run EXCEPT !.st = held(step), !.todo = Rest]
           over == [run EXCEPT !.todo = <<>>]
<1>1. PICK step \in Words2 :
          /\ At(step)
          /\ \/ NothingFails /\ Goes(done(step))
             \/ MayFail /\ GoesBadly(IF step = "error" THEN over ELSE StatusFailed(run))
  BY DEF SetStatus
<1>2. UNCHANGED <<markers, states, verdict, head>>
  BY DEF SetStatus, world
<1>3. /\ IsRun(run) /\ IsState(run.st) /\ IsState(run.kept) /\ Remembers(run.st) /\ Remembers(run.kept)
      /\ run.todo \in Seq(Steps) /\ run.todo # <<>> /\ Head(run.todo) = step /\ Rest = Tail(run.todo)
      /\ (Asks(Rest) => Asks(run.todo)) /\ head \in Heads
      /\ Without(Rest, "load") /\ Without(Rest, "final") /\ (run.bad \/ Without(Rest, "fence"))
      /\ run.blocked => Rest = <<>>
  BY <1>1, StepIs
<1> DEFINE st == held(step)
<1>4. Milder(st, run.st) /\ IsState(st)
  <2>1. CASE step = "wait"
    <3> DEFINE w == Told(run.sha, "pending")
               m == [run.st EXCEPT !.last = w]
    <3>1. st = m
      BY <2>1
    <3>2. Milder(m, run.st)
      BY <1>3, ToldIsMilder
    <3> HIDE DEF st, w
    <3>3. m = [f \in StateFields |-> m[f]] /\ m.active = run.st.active /\ m.history = run.st.history
      BY <1>3 DEF IsState, StateFields
    <3> HIDE DEF m
    <3>4. QED
      BY <1>3, <3>1, <3>2, <3>3, SameActive
  <2>2. CASE step = "failure" /\ Rest # <<>>
    <3> DEFINE w == Told(run.sha, "failure")
               c == Closed(run.st, "failed_findings")
               m == [c EXCEPT !.last = w]
    <3>1. st = m
      BY <2>2
    <3>2. IsState(c) /\ c.active = NoMarker /\ Milder(c, run.st)
      BY <1>3, ClosedIs, ClosedIsMilder DEF Outcomes
    <3> HIDE DEF st, w, c
    <3>3. Milder(m, c)
      BY <3>2, ToldIsMilder DEF Milder
    <3>4. m = [f \in StateFields |-> m[f]] /\ m.active = NoMarker
      BY <3>2 DEF IsState, StateFields
    <3> HIDE DEF m
    <3>5. QED
      BY <3>1, <3>2, <3>3, <3>4, NothingActive, MilderStill
  <2>3. CASE step # "wait" /\ ~(step = "failure" /\ Rest # <<>>)
    <3>1. st = run.st
      BY <2>3
    <3> HIDE DEF st
    <3>2. QED
      BY <1>3, <3>1, SameIsMilder
  <2>4. QED
    BY <2>1, <2>2, <2>3
<1>5. CASE NothingFails /\ Goes(done(step))
  <2> DEFINE n == [run EXCEPT !.st = st, !.todo = Rest]
  <2>1. Goes(n) /\ UNCHANGED used
    BY <1>5 DEF NothingFails
  <2> HIDE DEF st
  <2>2. /\ n = [f \in RunFields |-> n[f]] /\ n.sc = run.sc /\ n.kept = run.kept /\ n.sha = run.sha
        /\ n.st = st /\ n.todo = Rest /\ n.bad = run.bad /\ n.blocked = run.blocked /\ n.at = run.at
    BY <1>3 DEF IsRun, RunFields
  <2> HIDE DEF n
  <2>3. step \in Steps \ {"load"} /\ ~At("save")
    BY <1>1 DEF Steps, At
  <2>4. /\ run.todo = <<"error">> => Rest = <<>>
        /\ run.todo \in {Failing, <<"saveBest">>} => Rest \in {<<>>, Failing, <<"saveBest">>, <<"error">>}
    <3>1. Tail(<<"error">>) = <<>> /\ Tail(<<"saveBest">>) = <<>> /\ Tail(Failing) = <<"saveBest">>
      BY DEF Failing
    <3>2. QED
      BY <1>3, <3>1
  <2>5. /\ Remembers(n.kept) /\ Remembers(n.st) /\ \A m : Knows(run.st, m) => Knows(n.st, m)
        /\ \A h : Loses(n.st, h) => Loses(run.st, h)
        /\ Renews(n.st, n.sha) => Renews(run.st, run.sha)
    BY <1>3, <1>4, <2>2 DEF Milder
  <2>6. n.blocked => n.todo \in Short
    BY <1>3, <2>2 DEF Short
  <2>7. /\ Without(n.todo, "load") /\ Without(n.todo, "final") /\ (run.bad \/ Without(n.todo, "fence"))
        /\ Asks(n.todo) => Asks(run.todo)
        /\ run.todo = <<"error">> => n.todo = <<>>
        /\ run.todo \in {Failing, <<"saveBest">>} => n.todo \in {<<>>, Failing, <<"saveBest">>, <<"error">>}
    BY <1>3, <2>2, <2>4
  <2>8. Pays(n)
    BY <1>1, <2>2, <2>3, <2>5, <2>6, <2>7, KnowingPays
  <2>9. IsState(n.st) /\ IsState(n.kept) /\ (run' = n \/ (n.todo = <<>> /\ run' = Idle(n.at)))
    BY <1>3, <1>4, <2>1, <2>2 DEF Goes
  <2>10. QED
    BY <1>2, <1>3, <2>1, <2>3, <2>8, <2>9, GoesOnPays
<1>6. CASE MayFail /\ GoesBadly(IF step = "error" THEN over ELSE StatusFailed(run))
  <2>1. CASE step = "error"
    <3>1. GoesBadly(over)
      BY <1>6, <2>1
    <3>2. QED
      BY <1>1, <1>2, <1>6, <3>1, EndsBadly
  <2>2. CASE step # "error"
    <3>1. GoesBadly(StatusFailed(run))
      BY <1>6, <2>2
    <3>2. QED
      BY <1>1, <1>2, <1>6, <3>1, ThrownWaits
  <2>3. QED
    BY <2>1, <2>2
<1>7. QED
  BY <1>1, <1>5, <1>6

\* A state that has led to success is waited for anew when Codex takes it back.
LEMMA PassedIs ==
    ASSUME NEW st, IsState(st), Remembers(st), NEW h, verdict[h] = "clean", NEW told
    PROVE  LET why == IF Obsolete(st, h) THEN "obsolete_head" ELSE "passed"
               n == [Closed(st, why) EXCEPT !.last = told]
           IN  /\ IsState(n) /\ Remembers(n) /\ \A m : Knows(st, m) => Knows(n, m)
               /\ \A o : Loses(n, o) => Loses(st, o)
<1> DEFINE why == IF Obsolete(st, h) THEN "obsolete_head" ELSE "passed"
           c == Closed(st, why)
           n == [c EXCEPT !.last = told]
<1>1. why \in Outcomes
  BY DEF Outcomes
<1>2. /\ Remembers(c) /\ \A m : Knows(st, m) => Knows(c, m)
      /\ \A o : Awaited(st, o) => LatestOutcome(c, o) = why
      /\ \A o : ~Awaited(st, o) => LatestOutcome(c, o) = LatestOutcome(st, o)
  <2> HIDE DEF why
  <2>1. QED
    BY <1>1, ClosedRemembers
<1>3. IsState(c) /\ c.active = NoMarker
  BY ClosedIs
<1>4. ASSUME NEW o, Loses(c, o) PROVE Loses(st, o)
  <2>1. CASE Awaited(st, o)
    <3>1. LatestOutcome(c, o) = why
      BY <1>2, <2>1
    <3>2. CASE Obsolete(st, h)
      BY <1>4, <3>1, <3>2 DEF Loses, Renews, NewCycle
    <3>3. CASE ~Obsolete(st, h)
      <4>1. o = h
        BY <2>1, <3>3 DEF Awaited, Obsolete
      <4>2. QED
        BY <1>4, <3>1, <3>3, <4>1 DEF Loses
    <3>4. QED
      BY <3>2, <3>3
  <2>2. CASE ~Awaited(st, o)
    <3>1. LatestOutcome(c, o) = LatestOutcome(st, o)
      BY <1>2, <2>2
    <3> HIDE DEF c
    <3>2. QED
      BY <1>4, <2>2, <3>1 DEF Loses, Renews, NewCycle
  <2>3. QED
    BY <2>1, <2>2
<1> HIDE DEF c
<1>5. Milder(n, c)
  BY <1>2, <1>3, ToldIsMilder
<1>6. n = [f \in StateFields |-> n[f]] /\ n.active = NoMarker
  BY <1>3 DEF IsState, StateFields
<1> HIDE DEF n
<1>7. IsState(n) /\ Remembers(n) /\ (\A m : Knows(st, m) => Knows(n, m))
      /\ \A o : Loses(n, o) => Loses(st, o)
  BY <1>2, <1>4, <1>5, <1>6, NothingActive DEF Milder
<1>8. QED
  BY <1>7 DEF n, c

\* passGateFromCurrentEvidence.
LEMMA FinalWaits ==
    ASSUME WaitInv, GateInv', Final
    PROVE  WaitInv'
<1> DEFINE blocked == run.blocked \/ Conflict
           why == IF Obsolete(run.st, run.sha) THEN "obsolete_head" ELSE "passed"
           told == Told(run.sha, "success")
           passed == [Closed(run.st, why) EXCEPT !.last = told]
           found == [run EXCEPT !.todo = IF blocked THEN <<"failure">> ELSE Failing]
           over == IF blocked THEN <<>> ELSE <<"saveBest">>
           clean == [run EXCEPT !.st = passed, !.todo = <<"success">> \o over]
           t == Thrown(run)
<1>1. UNCHANGED <<markers, states, verdict, head>> /\ At("final") /\ ~At("save")
  BY DEF Final, kept, world, At
<1>2. /\ IsRun(run) /\ IsState(run.st) /\ IsState(run.kept) /\ Remembers(run.st) /\ Remembers(run.kept)
      /\ run.todo = <<"final">> /\ head \in Heads
  BY <1>1, StepIs
<1>3. run.todo # <<"error">> /\ run.todo \notin {Failing, <<"saveBest">>} /\ "final" \in Steps \ {"load"}
  BY <1>2 DEF Failing, Steps
<1>4. \/ UNCHANGED used /\ (Goes(t) \/ Goes(found) \/ (Goes(clean) /\ verdict[run.sha] = "clean"))
      \/ MayFail /\ \E end \in {"pending", "error"} : GoesBadly([run EXCEPT !.todo = <<end>>])
  <2>1. CASE /\ NothingFails
             /\ Goes(IF head # run.sha THEN t
                     ELSE CASE verdict[head] = "finding" -> found
                            [] verdict[head] = "clean" -> clean
                            [] OTHER -> t)
    <3> HIDE DEF found, clean, t
    <3>1. UNCHANGED used
      BY <2>1 DEF NothingFails
    <3>2. CASE head # run.sha
      BY <2>1, <3>1, <3>2
    <3>3. CASE head = run.sha /\ verdict[head] = "finding"
      BY <2>1, <3>1, <3>3
    <3>4. CASE head = run.sha /\ verdict[head] = "clean"
      BY <2>1, <3>1, <3>4
    <3>5. CASE head = run.sha /\ verdict[head] \notin {"finding", "clean"}
      BY <2>1, <3>1, <3>5
    <3>6. QED
      BY <3>2, <3>3, <3>4, <3>5
  <2>2. CASE MayFail /\ \E end \in {"pending", "error"} : GoesBadly([run EXCEPT !.todo = <<end>>])
    BY <2>2
  <2>3. QED
    BY <2>1, <2>2 DEF Final
<1>5. ASSUME NEW n, Goes(n), UNCHANGED used,
             n.sc = run.sc, n.sha = run.sha, n.bad = run.bad, n.blocked = run.blocked,
             n.kept = run.kept, IsState(n.st),
             Remembers(n.st), \A m : Knows(run.st, m) => Knows(n.st, m),
             \A h : Loses(n.st, h) => Loses(run.st, h), ~Asks(n.todo),
             n.blocked => n.todo \in Short,
             \A x \in {"load", "final", "fence"} : Without(n.todo, x)
      PROVE  WaitInv'
  <2>1. Pays(n)
    BY <1>1, <1>2, <1>3, <1>5, KnowingPays
  <2>2. IsState(n.kept) /\ head' \in Heads
    BY <1>1, <1>2, <1>5
  <2>3. QED
    BY <1>1, <1>5, <2>1, <2>2, GoesOnPays DEF Goes
<1>6. CASE UNCHANGED used /\ Goes(t)
  <2>1. /\ t.sc = run.sc /\ t.sha = run.sha /\ t.bad = run.bad /\ t.blocked = run.blocked
        /\ t.kept = run.kept /\ IsState(t.st) /\ ~Asks(t.todo)
        /\ \A x \in {"load", "final", "fence"} : Without(t.todo, x)
        /\ t.blocked => t.todo \in Short
        /\ t.st = run.st
    BY <1>1, <1>2, ThrownIs
  <2> HIDE DEF t
  <2>2. QED
    BY <1>2, <1>5, <1>6, <2>1
<1>7. CASE UNCHANGED used /\ Goes(found)
  <2> DEFINE todo == IF blocked THEN <<"failure">> ELSE Failing
             n == [run EXCEPT !.todo = todo]
  <2>1. /\ n.sc = run.sc /\ n.sha = run.sha /\ n.bad = run.bad /\ n.blocked = run.blocked
        /\ n.kept = run.kept /\ n.st = run.st /\ n.todo = todo
    BY <1>2 DEF IsRun, RunFields
  <2>2. /\ ~Asks(todo) /\ \A x \in {"load", "final", "fence"} : Without(todo, x)
        /\ run.blocked => todo \in Short
    <3>1. /\ ~Asks(Failing) /\ ~Asks(<<"failure">>) /\ <<"failure">> \in Short
          /\ \A x \in {"load", "final", "fence"} : Without(Failing, x) /\ Without(<<"failure">>, x)
      BY Programs, WithoutIs DEF Steps, MarkerSteps, Short
    <3>2. QED
      BY <3>1
  <2>3. Goes(n)
    BY <1>7
  <2> HIDE DEF todo, n
  <2>4. QED
    BY <1>2, <1>5, <1>7, <2>1, <2>2, <2>3
<1>8. CASE UNCHANGED used /\ Goes(clean) /\ verdict[run.sha] = "clean"
  <2> DEFINE todo == <<"success">> \o over
             n == [run EXCEPT !.st = passed, !.todo = todo]
  <2>1. /\ IsState(passed) /\ Remembers(passed) /\ \A m : Knows(run.st, m) => Knows(passed, m)
        /\ \A o : Loses(passed, o) => Loses(run.st, o)
    <3> HIDE DEF told
    <3>1. QED
      BY <1>2, <1>8, PassedIs
  <2>2. /\ ~Asks(todo) /\ \A x \in {"load", "final", "fence"} : Without(todo, x)
        /\ run.blocked => todo \in Short
    <3> DEFINE s == <<"success">>
               e == <<"saveBest">>
    <3>1. /\ ~Asks(s) /\ ~Asks(e) /\ s \in Short /\ s \in Seq(Steps) /\ e \in Seq(Steps) /\ s # <<>>
          /\ Orderly(e) /\ (\A i \in DOMAIN e : e[i] # "marker")
          /\ (\A i \in DOMAIN s : s[i] # "failure" /\ s[i] # "marker")
          /\ \A x \in {"load", "final", "fence"} : Without(s, x) /\ Without(e, x)
      BY DEF Asks, MarkerSteps, Without, Short, Steps, Orderly
    <3> HIDE DEF s, e
    <3>2. s \o <<>> = s
      BY <3>1
    <3>3. ~Asks(s \o e) /\ \A x \in {"load", "final", "fence"} : Without(s \o e, x)
      BY <3>1, PrefixIsOrderly, WithoutIs
    <3>4. todo = IF blocked THEN s \o <<>> ELSE s \o e
      BY DEF s, e
    <3> HIDE DEF todo
    <3>5. QED
      BY <3>1, <3>2, <3>3, <3>4
  <2>3. Goes(n)
    BY <1>8
  <2> HIDE DEF todo, passed
  <2>4. /\ n.sc = run.sc /\ n.sha = run.sha /\ n.bad = run.bad /\ n.blocked = run.blocked
        /\ n.kept = run.kept /\ n.st = passed /\ n.todo = todo
    BY <1>2 DEF IsRun, RunFields
  <2> HIDE DEF n
  <2>5. QED
    BY <1>2, <1>5, <1>8, <2>1, <2>2, <2>3, <2>4
<1>9. CASE MayFail /\ \E end \in {"pending", "error"} : GoesBadly([run EXCEPT !.todo = <<end>>])
  <2>1. PICK end \in {"pending", "error"} : GoesBadly([run EXCEPT !.todo = <<end>>])
    BY <1>9
  <2>2. PICK todo \in {<<>>, <<"error">>, <<"pending">>} : todo = <<end>>
    OBVIOUS
  <2>3. GoesBadly([run EXCEPT !.todo = todo])
    BY <2>1, <2>2
  <2>4. QED
    BY <1>1, <1>9, <2>3, EndsBadly
<1> HIDE DEF t, found, clean
<1>10. QED
  BY <1>4, <1>6, <1>7, <1>8, <1>9

\* ensureState: what a run begins with knows the last request.
LEMMA LoadedKnows ==
    ASSUME GateTypeInv, \A i \in DOMAIN states : Remembers(states[i].st), ~Conflict, NEW h
    PROVE  /\ Remembers(Loaded(h)) /\ Knows(Loaded(h), LastMarker)
           /\ \A o : Loses(Loaded(h), o) => Forgotten(o)
<1>1. /\ LastMarker \in Nat /\ (LastMarker # 0 => LastMarker \in DOMAIN markers)
      /\ DOMAIN markers = 1..LastMarker
  BY NoMarkerIs DEF LastMarker
<1>2. CASE LastState = 0
  <2>1. CASE LastMarker = 0
    <3>1. Loaded(h) = Fresh(h)
      BY <1>2, <2>1 DEF Loaded
    <3>2. QED
      BY <1>2, <2>1, <3>1, FreshIsEmpty DEF Forgotten
  <2>2. CASE LastMarker # 0
    <3>1. Loaded(h) = Recovered(h, LastMarker)
      BY <1>2, <2>2 DEF Loaded
    <3>2. QED
      BY <1>1, <1>2, <2>2, <3>1, FreshRemembers DEF Forgotten
  <2>3. QED
    BY <2>1, <2>2
<1>3. CASE LastState # 0
  <2> DEFINE st == states[LastState].st
  <2>1. LastState \in DOMAIN states
    BY <1>3, LastStateIs
  <2>2. IsState(st) /\ Remembers(st)
    BY <2>1 DEF GateTypeInv
  <2>3. \A o : Loaded(h) = Loaded(o)
    BY <1>3 DEF Loaded
  <2>4. \A o : Loses(Loaded(h), o) => Forgotten(o)
    <3>1. SUFFICES ASSUME NEW o, Loses(Loaded(h), o) PROVE Forgotten(o)
      OBVIOUS
    <3>2. Loaded(h) = Loaded(o)
      BY <2>3
    <3>3. QED
      BY <3>1, <3>2 DEF Forgotten
  <2>5. CASE LastMarker = 0
    <3>1. Loaded(h) = st
      BY <1>3, <2>5 DEF Loaded
    <3>2. st.active = NoMarker
      BY <1>1, <2>2, <2>5 DEF IsState
    <3>3. Knows(st, 0)
      BY <3>2, NoMarkerIs DEF Knows
    <3>4. QED
      BY <2>2, <2>4, <2>5, <3>1, <3>3
  <2>6. CASE LastMarker # 0 /\ Knows(st, LastMarker)
    <3>1. Loaded(h) = st
      BY <1>3, <2>6 DEF Loaded
    <3>2. QED
      BY <2>2, <2>4, <2>6, <3>1
  <2>7. CASE LastMarker # 0 /\ ~Knows(st, LastMarker)
    <3> DEFINE a == [id |-> LastMarker, phase |-> "waiting_ack"]
               n == [st EXCEPT !.active = a]
    <3>1. Loaded(h) = n
      BY <1>3, <2>7 DEF Loaded
    <3>2. n.active = a /\ n.history = st.history /\ a.id = LastMarker
      BY <2>2 DEF IsState, StateFields
    <3> HIDE DEF n, a
    <3>3. \A i \in DOMAIN st.history : st.history[i].id < LastMarker
      <4>1. SUFFICES ASSUME NEW i \in DOMAIN st.history PROVE st.history[i].id < LastMarker
        OBVIOUS
      <4>2. st.history[i].id \in DOMAIN markers
        <5>1. st.history \in Seq(Remembered)
          BY <2>2 DEF Remembers
        <5>2. st.history[i] \in Remembered
          BY <5>1
        <5>3. QED
          BY <5>2 DEF Remembered
      <4>3. st.history[i].id # LastMarker
        BY <2>7 DEF Knows
      <4>4. QED
        BY <1>1, <4>2, <4>3
    <3>4. Remembers(n) /\ Knows(n, LastMarker)
      BY <2>2, <3>2, <3>3 DEF Remembers, Knows
    <3>5. QED
      BY <2>4, <3>1, <3>4
  <2>8. QED
    BY <2>5, <2>6, <2>7
<1>4. QED
  BY <1>2, <1>3

\* A failure that was recorded without its request is no longer of it.
LEMMA UnlinkedKnows ==
    ASSUME NEW st, IsState(st), Remembers(st), NEW h
    PROVE  LET n == Unlinked(st, h)
           IN  /\ IsState(n) /\ Remembers(n) /\ \A m : Knows(st, m) => Knows(n, m)
               /\ n = st \/ FailureCandidate
<1>1. CASE Unlinked(st, h) = st
  BY <1>1
<1>2. CASE Unlinked(st, h) # st
  <2>1. Unlinked(st, h) = Closed(st, "state_lost") /\ FailureCandidate
    BY <1>2 DEF Unlinked, MarkerLost
  <2>2. QED
    BY <2>1, ClosedRemembers, ClosedIs DEF Outcomes
<1>3. QED
  BY <1>1, <1>2

\* recoverOrchestrationPersistenceFence: the last request, of this head, is lost.
LEMMA UnfencedKnows ==
    ASSUME GateTypeInv, NEW st, IsState(st), Remembers(st), Knows(st, LastMarker), NEW h, Fenced(h)
    PROVE  LET n == Unfenced(st, h)
           IN  /\ Remembers(n) /\ Knows(n, LastMarker)
               /\ \A o : o # h /\ Loses(n, o) => Loses(st, o)
<1> DEFINE e == [id |-> LastMarker, outcome |-> "state_lost"]
           g == [st EXCEPT !.history = Append(@, e)]
           lost == IF st.active # NoMarker THEN Closed(st, "state_lost") ELSE g
           told == Told(h, "pending")
           n == [lost EXCEPT !.last = told]
<1>1. Unfenced(st, h) = n
  BY DEF Unfenced
<1>2. LastMarker \in DOMAIN markers /\ markers[LastMarker].head = h /\ DOMAIN markers = 1..LastMarker
      /\ LastMarker \in Nat
  BY NoMarkerIs DEF Fenced, LastMarker
<1>3. st.history \in Seq(Remembered)
  BY DEF Remembers
<1>4. lost = [f \in StateFields |-> lost[f]] /\ lost.active = NoMarker /\ Remembers(lost)
      /\ Knows(lost, LastMarker) /\ \A o : o # h /\ Loses(lost, o) => Loses(st, o)
  <2>1. CASE st.active # NoMarker
    <3>1. lost = Closed(st, "state_lost")
      BY <2>1
    <3>2. /\ Remembers(lost) /\ Knows(lost, LastMarker)
          /\ \A o : ~Awaited(st, o) => LatestOutcome(lost, o) = LatestOutcome(st, o)
      <4>1. "state_lost" \in Outcomes
        BY DEF Outcomes
      <4> HIDE DEF lost
      <4>2. QED
        BY <3>1, <4>1, ClosedRemembers
    <3>3. IsState(lost) /\ lost.active = NoMarker
      BY <3>1, ClosedIs
    <3>4. st.active.id = LastMarker
      <4>1. st.active.id \in DOMAIN markers
        BY <2>1 DEF IsState
      <4>2. CASE \E i \in DOMAIN st.history : st.history[i].id = LastMarker
        <5>1. LastMarker < st.active.id
          BY <2>1, <4>2 DEF Remembers
        <5>2. QED
          BY <1>2, <4>1, <5>1
      <4>3. QED
        BY <4>2 DEF Knows
    <3>5. \A o : o # h => ~Awaited(st, o)
      BY <1>2, <3>4 DEF Awaited
    <3> HIDE DEF lost
    <3>6. QED
      BY <3>2, <3>3, <3>5 DEF Loses, Renews, NewCycle, IsState
  <2>2. CASE st.active = NoMarker
    <3>1. lost = g
      BY <2>2
    <3>2. e \in Remembered /\ e.id = LastMarker /\ e.outcome = "state_lost"
      BY <1>2 DEF Remembered, Outcomes
    <3> HIDE DEF e
    <3>3. g = [f \in StateFields |-> g[f]] /\ g.active = NoMarker /\ g.history = Append(st.history, e)
      BY <2>2 DEF IsState, StateFields
    <3> HIDE DEF g, lost
    <3>4. PICK d \in Remembered : d = e
      BY <3>2
    <3>5. g.history = Append(st.history, d) /\ markers[d.id].head = h /\ d.id = LastMarker
      BY <1>2, <3>2, <3>3, <3>4
    <3>6. g.history \in Seq(Remembered) /\ \A o : o # h => LatestOutcome(g, o) = LatestOutcome(st, o)
      BY <1>3, <3>5, LatestOfLonger
    <3>7. Remembers(g)
      BY <3>3, <3>6 DEF Remembers
    <3>8. Knows(g, LastMarker)
      <4>1. Len(st.history) + 1 \in DOMAIN g.history /\ g.history[Len(st.history) + 1] = d
        BY <1>3, <3>5
      <4>2. QED
        BY <3>5, <4>1 DEF Knows
    <3>9. \A o : o # h /\ Loses(g, o) => Loses(st, o)
      BY <2>2, <3>6 DEF Loses, Renews, NewCycle, Awaited
    <3>10. QED
      BY <3>1, <3>3, <3>7, <3>8, <3>9
  <2>3. QED
    BY <2>1, <2>2
<1> HIDE DEF lost, told
<1>5. n.active = lost.active /\ n.history = lost.history
  BY <1>4 DEF StateFields
<1> HIDE DEF n
<1>6. Milder(n, lost)
  BY <1>4, <1>5, SameIsMilder
<1>7. QED
  BY <1>1, <1>4, <1>6 DEF Milder

\* What a run has read: all of it, and nothing has gone wrong in it yet.
LEMMA FoundPays ==
    ASSUME GateTypeInv, NEW n, n.sc = LastState, n.blocked = FALSE, n.bad = FALSE, n.sha \in Heads,
           Remembers(n.st), Remembers(n.kept), Knows(n.st, LastMarker),
           \A h \in Heads : Loses(n.st, h) => Affords(h, 1),
           Asks(n.todo) => verdict[n.sha] # "clean",
           \A x \in {"load", "final", "fence"} : Without(n.todo, x) \/ (x = "final" /\ n.todo = <<x>>)
    PROVE  Pays(n)
<1>1. ~Gone(n)
  BY LastStateIs DEF Gone
<1>2. ~Spoiled(n) /\ Informed(n)
  BY <1>1 DEF Spoiled, Informed
<1>3. Asks(n.todo) /\ Renews(n.st, n.sha) => Affords(n.sha, 1)
  BY DEF Loses
<1>4. n.todo # <<"load">>
  <2>1. Without(n.todo, "load")
    OBVIOUS
  <2>2. QED
    BY <2>1 DEF Without
<1>5. QED
  BY <1>2, <1>3, <1>4 DEF Pays

\* What the snapshot and the comments lead to.
LEMMA SeenPays ==
    ASSUME WaitInv, At("load")
    PROVE  Pays(Seen(run))
<1> DEFINE w == verdict[run.sha]
           st0 == IF Conflict THEN Fresh(run.sha) ELSE Loaded(run.sha)
           sc0 == IF Conflict THEN 0 ELSE LastState
           ns0 == Conflict \/ LastState = 0
           found == [run EXCEPT !.word = w, !.eyes = eyes, !.reviewed = reviewed,
                                !.st = st0, !.sc = sc0, !.needs = ns0, !.blocked = Conflict]
           save == LastState = 0 \/ Loaded(run.sha) # states[LastState].st
           untracked == run.by = "scan" /\ ~Tracked /\ found.word # "finding"
           stuck == Conflict /\ found.word \notin {"finding", "clean"}
<1>1. /\ GateTypeInv /\ IsRun(run) /\ Remembers(run.st) /\ Remembers(run.kept) /\ run.sha \in Heads
      /\ run.todo = <<"load">> /\ IsState(run.st) /\ IsState(run.kept) /\ Pays(run)
  BY StepIs
<1>2. run.bad = FALSE /\ run.blocked = FALSE
  BY <1>1 DEF Pays
<1>3. \A h \in Heads : (Forgotten(h) \/ Fenced(h)) => Affords(h, 1)
  BY DEF WaitInv, At
<1>4. /\ found = [f \in RunFields |-> found[f]] /\ found.kept = run.kept
      /\ found.keptSc = run.keptSc /\ found.word = w
      /\ found.st = st0 /\ found.sc = sc0 /\ found.sha = run.sha /\ found.blocked = Conflict
      /\ found.bad = FALSE /\ found.todo = run.todo
  <2> HIDE DEF w, st0, sc0, ns0
  <2>1. QED
    BY <1>1, <1>2 DEF IsRun, RunFields
<1>5. /\ untracked => Seen(run) = [run EXCEPT !.todo = <<>>]
      /\ ~untracked /\ stuck => Seen(run) = [run EXCEPT !.todo = <<"error">>]
      /\ ~untracked /\ ~stuck =>
            /\ found.word = "finding" => Seen(run) = FindingsSeen(found)
            /\ found.word = "invalid" => Seen(run) = [found EXCEPT !.todo = <<"error">>]
            /\ found.word = "clean" => Seen(run) = [found EXCEPT !.todo = <<"final">>]
            /\ found.word \notin {"finding", "invalid", "clean"} => Seen(run) = PendingSeen(found, save)
  <2> HIDE DEF w, st0, sc0, ns0, found, save
  <2>1. untracked => Seen(run) = [run EXCEPT !.todo = <<>>]
    BY DEF Seen, found, save, w, st0, sc0, ns0
  <2>2. ~untracked /\ stuck => Seen(run) = [run EXCEPT !.todo = <<"error">>]
    BY DEF Seen, found, save, w, st0, sc0, ns0
  <2>3. ~untracked /\ ~stuck /\ found.word = "finding" => Seen(run) = FindingsSeen(found)
    BY DEF Seen, found, save, w, st0, sc0, ns0
  <2>4. ~untracked /\ ~stuck /\ found.word = "invalid" => Seen(run) = [found EXCEPT !.todo = <<"error">>]
    BY DEF Seen, found, save, w, st0, sc0, ns0
  <2>5. ~untracked /\ ~stuck /\ found.word = "clean" => Seen(run) = [found EXCEPT !.todo = <<"final">>]
    BY DEF Seen, found, save, w, st0, sc0, ns0
  <2>6. ~untracked /\ ~stuck /\ found.word \notin {"finding", "invalid", "clean"}
            => Seen(run) = PendingSeen(found, save)
    BY DEF Seen, found, save, w, st0, sc0, ns0
  <2>7. QED
    BY <2>1, <2>2, <2>3, <2>4, <2>5, <2>6
<1>6. ASSUME Conflict
      PROVE  /\ Remembers(found.st) /\ found.sc = 0 /\ found.blocked = TRUE
  BY <1>4, <1>6, FreshIsEmpty
<1>7. ASSUME ~Conflict
      PROVE  /\ found.st = Loaded(run.sha) /\ found.sc = LastState /\ found.blocked = FALSE
             /\ IsState(found.st) /\ Remembers(found.st) /\ Knows(found.st, LastMarker)
             /\ \A o : Loses(found.st, o) => Forgotten(o)
  <2>1. found.st = Loaded(run.sha) /\ found.sc = LastState /\ found.blocked = FALSE
    BY <1>4, <1>7
  <2>2. \A i \in DOMAIN states : Remembers(states[i].st)
    BY DEF WaitInv
  <2>3. QED
    BY <1>1, <1>7, <2>1, <2>2, LoadedKnows, LoadedIs
<1> HIDE DEF w, st0, sc0, ns0, found, save, untracked, stuck
<1>9. CASE untracked
  <2> DEFINE n == [run EXCEPT !.todo = <<>>]
  <2>1. n.st = run.st /\ n.kept = run.kept /\ n.todo = <<>>
    BY <1>1 DEF IsRun, RunFields
  <2>2. Seen(run) = n
    BY <1>5, <1>9
  <2> HIDE DEF n
  <2>3. QED
    BY <1>1, <2>1, <2>2 DEF Pays
<1>10. CASE ~untracked /\ stuck
  <2> DEFINE n == [run EXCEPT !.todo = <<"error">>]
  <2>1. /\ n.st = run.st /\ n.kept = run.kept /\ n.todo = <<"error">>
        /\ n.sc = run.sc
        /\ n.bad = FALSE /\ n.blocked = FALSE /\ n.sha = run.sha
    BY <1>1, <1>2 DEF IsRun, RunFields
  <2>2. Seen(run) = n
    BY <1>5, <1>10
  <2> HIDE DEF n
  <2>3. /\ ~Asks(n.todo) /\ n.todo # <<"load">> /\ ~Working(n)
        /\ \A x \in {"load", "final", "fence"} : Without(n.todo, x)
    BY <2>1 DEF Asks, MarkerSteps, Without, Working
  <2>4. Spoiled(n) => \A h \in Heads : Affords(h, 1)
    BY <1>1, <1>2, <2>1 DEF Pays, Spoiled, Gone
  <2>5. QED
    BY <1>1, <2>1, <2>2, <2>3, <2>4 DEF Pays
<1>11. CASE ~untracked /\ ~stuck /\ Conflict
  <2>1. PICK todo \in {<<"failure">>, <<"final">>} : Seen(run) = [found EXCEPT !.todo = todo]
    <3>1. CASE found.word = "finding"
      BY <1>5, <1>6, <1>11, <3>1 DEF FindingsSeen
    <3>2. CASE found.word = "clean"
      BY <1>5, <1>11, <3>2
    <3>3. QED
      BY <1>11, <3>1, <3>2 DEF stuck
  <2> DEFINE n == [found EXCEPT !.todo = todo]
  <2>2. /\ n.st = found.st /\ n.kept = run.kept /\ n.todo = todo /\ n.sc = 0
        /\ n.bad = FALSE /\ n.blocked = TRUE /\ n.sha = run.sha
    BY <1>4, <1>6, <1>11 DEF RunFields
  <2>3. Seen(run) = n
    BY <2>1
  <2> HIDE DEF n
  <2>4. /\ ~Asks(n.todo) /\ n.todo # <<"load">> /\ ~Working(n) /\ ~Spoiled(n) /\ n.todo \in Short
        /\ \A x \in {"load", "fence"} : Without(n.todo, x)
        /\ Without(n.todo, "final") \/ n.todo = <<"final">>
    BY <2>2 DEF Asks, MarkerSteps, Without, Working, Spoiled, Gone, Short
  <2>5. QED
    BY <1>1, <1>6, <1>11, <2>2, <2>3, <2>4 DEF Pays
<1>12. ASSUME ~Conflict, NEW todo \in {<<"error">>, <<"final">>}
       PROVE  Pays([found EXCEPT !.todo = todo])
  <2> DEFINE n == [found EXCEPT !.todo = todo]
  <2>1. /\ n.st = found.st /\ n.kept = run.kept /\ n.todo = todo
        /\ n.sc = LastState
        /\ n.bad = FALSE /\ n.blocked = FALSE /\ n.sha = run.sha
    BY <1>4, <1>7, <1>12 DEF RunFields
  <2> HIDE DEF n
  <2>2. ~Asks(n.todo) /\ \A x \in {"load", "final", "fence"} : Without(n.todo, x) \/ (x = "final" /\ n.todo = <<x>>)
    BY <2>1 DEF Asks, MarkerSteps, Without
  <2>3. Pays(n)
    BY <1>1, <1>3, <1>7, <1>12, <2>1, <2>2, FoundPays
  <2>4. QED
    BY <2>3 DEF n
<1>13. ASSUME ~Conflict, found.word = "finding"
       PROVE  Pays(FindingsSeen(found))
  <2> DEFINE st == IF Obsolete(found.st, found.sha) THEN Closed(found.st, "obsolete_head") ELSE found.st
             changed == Changed(found.st, found.sha)
             fresh == st.active = NoMarker /\ (changed \/ found.needs)
             a == [found EXCEPT !.st = st, !.kept = st, !.keptSc = found.sc, !.allow = TRUE,
                                !.todo = <<"advance">> \o Failing]
             b == [found EXCEPT !.st = st, !.todo = Failing]
  <2>1. Milder(st, found.st)
    BY <1>7, <1>13, ClosedIsMilder, SameIsMilder DEF Outcomes
  <2>2. FindingsSeen(found) = IF fresh THEN a ELSE b
    BY <1>7, <1>13 DEF FindingsSeen
  <2>3. verdict[run.sha] # "clean"
    BY <1>4, <1>13 DEF w
  <2>4. \A x \in {"load", "final", "fence"} : Without(Failing, x) /\ Without(<<"advance">> \o Failing, x)
    <3>1. Failing \in Seq(Steps) /\ \A x \in {"load", "final", "fence"} : Without(Failing, x)
      BY Programs, WithoutIs
    <3> DEFINE p == <<"advance">>
    <3>2. p \in Seq(Steps) /\ \A x \in {"load", "final", "fence"} : Without(p, x)
      BY DEF Steps, Without
    <3> HIDE DEF p
    <3>3. \A x \in {"load", "final", "fence"} : Without(p \o Failing, x)
      BY <3>1, <3>2, WithoutIs
    <3>4. QED
      BY <3>1, <3>3 DEF p
  <2> HIDE DEF st, changed
  <2>5. Remembers(st) /\ Knows(st, LastMarker) /\ \A h \in Heads : Loses(st, h) => Affords(h, 1)
    BY <1>3, <1>7, <1>13, <2>1 DEF Milder
  <2>6. CASE fresh
    <3> DEFINE todo == <<"advance">> \o Failing
               n == [found EXCEPT !.st = st, !.kept = st, !.keptSc = found.sc, !.allow = TRUE,
                                 !.todo = todo]
    <3> HIDE DEF todo
    <3>1. /\ n.st = st /\ n.kept = st /\ n.todo = todo /\ n.sc = LastState
          /\ n.bad = FALSE /\ n.blocked = FALSE /\ n.sha = run.sha
      BY <1>4, <1>7, <1>13 DEF RunFields
    <3>2. FindingsSeen(found) = n
      BY <2>2, <2>6 DEF todo
    <3> HIDE DEF n
    <3>3. \A x \in {"load", "final", "fence"} : Without(n.todo, x)
      BY <2>4, <3>1 DEF todo
    <3>4. Pays(n)
      BY <1>1, <2>3, <2>5, <3>1, <3>3, FoundPays
    <3>5. QED
      BY <3>2, <3>4
  <2>7. CASE ~fresh
    <3> DEFINE n == [found EXCEPT !.st = st, !.todo = Failing]
    <3>1. /\ n.st = st /\ n.kept = run.kept /\ n.todo = Failing /\ n.sc = LastState
          /\ n.bad = FALSE /\ n.blocked = FALSE /\ n.sha = run.sha
      BY <1>4, <1>7, <1>13 DEF RunFields
    <3>2. FindingsSeen(found) = n
      BY <2>2, <2>7
    <3> HIDE DEF n
    <3>3. \A x \in {"load", "final", "fence"} : Without(n.todo, x)
      BY <2>4, <3>1
    <3>4. Pays(n)
      BY <1>1, <2>3, <2>5, <3>1, <3>3, FoundPays
    <3>5. QED
      BY <3>2, <3>4
  <2>8. QED
    BY <2>6, <2>7
<1>14. ASSUME ~Conflict, found.word # "clean"
       PROVE  Pays(PendingSeen(found, save))
  <2> DEFINE st == Unlinked(found.st, found.sha)
             needs == found.needs \/ MarkerLost(found.st, found.sha)
             next == [found EXCEPT !.st = st, !.needs = needs]
             lost == Unfenced(st, found.sha)
             todo == <<"critical", "pending", "admit">>
             n == [next EXCEPT !.st = lost, !.needs = TRUE, !.todo = todo]
             a == Admitted(next, save \/ st # found.st)
  <2>1. PendingSeen(found, save) = IF Fenced(found.sha) THEN n ELSE a
    BY DEF PendingSeen
  <2>2. verdict[run.sha] # "clean"
    BY <1>4, <1>14 DEF w
  <2>3. /\ IsState(st) /\ Remembers(st) /\ Knows(st, LastMarker)
        /\ \A h \in Heads : Loses(st, h) => Affords(h, 1)
    <3>1. /\ IsState(st) /\ Remembers(st) /\ Knows(st, LastMarker) /\ (st = found.st \/ FailureCandidate)
      BY <1>7, <1>14, UnlinkedKnows
    <3>2. FailureCandidate => \A h \in Heads : Affords(h, 1)
      BY <1>3, <1>14 DEF Forgotten
    <3> HIDE DEF st
    <3>3. QED
      BY <1>3, <1>7, <1>14, <3>1, <3>2
  <2> HIDE DEF st, needs, lost
  <2>4. /\ next = [f \in RunFields |-> next[f]] /\ next.sc = LastState /\ next.kept = run.kept
        /\ next.keptSc = run.keptSc
        /\ next.st = st /\ next.sha = run.sha /\ next.todo = run.todo
        /\ next.bad = FALSE /\ next.blocked = FALSE
    BY <1>4, <1>7, <1>14 DEF RunFields
  <2> HIDE DEF next
  <2>5. CASE ~Fenced(found.sha)
    <3>1. IsRun(next)
      BY <1>1, <2>3, <2>4, LastStateIs DEF IsRun
    <3>2. /\ Decided(a, next) /\ a.st = next.st
          /\ \A x \in {"load", "final", "fence"} : Without(a.todo, x)
      BY <2>3, <2>4, <3>1, AdmittedIs
    <3> HIDE DEF a
    <3>3. /\ a.st = st /\ a.kept = run.kept /\ a.sc = LastState
          /\ a.bad = FALSE /\ a.blocked = FALSE
          /\ a.sha = run.sha
      BY <2>4, <3>2 DEF Decided
    <3>4. Pays(a)
      BY <1>1, <2>2, <2>3, <3>2, <3>3, FoundPays
    <3>5. QED
      BY <2>1, <2>5, <3>4
  <2>6. CASE Fenced(found.sha)
    <3>1. \A x \in {"load", "final", "fence"} : Without(todo, x)
      BY DEF Without
    <3> HIDE DEF todo
    <3>2. /\ n.st = lost /\ n.kept = run.kept /\ n.sc = LastState
          /\ n.bad = FALSE /\ n.blocked = FALSE
          /\ n.sha = run.sha /\ n.todo = todo
      BY <2>4 DEF RunFields
    <3> HIDE DEF n
    <3>3. /\ Remembers(lost) /\ Knows(lost, LastMarker)
          /\ \A o : o # found.sha /\ Loses(lost, o) => Loses(st, o)
      BY <1>1, <2>3, <2>6, UnfencedKnows DEF lost
    <3>4. Affords(run.sha, 1)
      BY <1>1, <1>3, <1>4, <2>6
    <3>5. \A h \in Heads : Loses(lost, h) => Affords(h, 1)
      BY <1>4, <2>3, <3>3, <3>4
    <3>6. Pays(n)
      BY <1>1, <2>2, <3>1, <3>2, <3>3, <3>5, FoundPays
    <3>7. QED
      BY <2>1, <2>6, <3>6
  <2>7. QED
    BY <2>5, <2>6
<1>15. CASE ~untracked /\ ~stuck /\ ~Conflict
  <2>1. CASE found.word = "finding"
    BY <1>5, <1>13, <1>15, <2>1
  <2>2. CASE found.word = "invalid"
    BY <1>5, <1>12, <1>15, <2>2
  <2>3. CASE found.word = "clean"
    BY <1>5, <1>12, <1>15, <2>3
  <2>4. CASE found.word \notin {"finding", "invalid", "clean"}
    BY <1>5, <1>14, <1>15, <2>4
  <2>5. QED
    BY <2>1, <2>2, <2>3, <2>4
<1>16. QED
  BY <1>9, <1>10, <1>11, <1>15

\* What a run reads.
LEMMA LoadWaits ==
    ASSUME WaitInv, GateInv', Load
    PROVE  WaitInv'
<1>1. UNCHANGED <<markers, states, verdict, head>> /\ At("load") /\ ~At("save")
  BY DEF Load, kept, world, At
<1>2. CASE NothingFails /\ Goes(Seen(run))
  <2> DEFINE n == Seen(run)
  <2>1. Pays(n)
    BY <1>1, SeenPays
  <2>2. IsState(n.st) /\ IsState(n.kept)
    BY SeenIsGood DEF WaitInv, GateInv, Good, IsRun
  <2>3. head' \in Heads /\ UNCHANGED used
    BY <1>1, <1>2 DEF WaitInv, NothingFails
  <2>4. Goes(n)
    BY <1>2
  <2> HIDE DEF n
  <2>5. QED
    BY <1>1, <2>1, <2>2, <2>3, <2>4, GoesOnPays DEF Goes
<1>3. CASE MayFail /\ \E end \in LoadErrors : GoesBadly([run EXCEPT !.todo = end])
  <2>1. PICK end \in LoadErrors : GoesBadly([run EXCEPT !.todo = end])
    BY <1>3
  <2>2. end \in {<<>>, <<"error">>, <<"pending">>}
    BY DEF LoadErrors
  <2>3. QED
    BY <1>1, <1>3, <2>1, <2>2, EndsBadly
<1>4. QED
  BY <1>2, <1>3 DEF Load

-----------------------------------------------------------------------------
(* How gate v1 waits: markers.                                             *)

\* A deadline more for one head.
LEMMA OneMore ==
    ASSUME Counting, NEW s \in Heads, NEW d, UNCHANGED used,
           Deadlines(s)' \subseteq Deadlines(s) \cup {d},
           \A h \in Heads : h # s => Deadlines(h)' = Deadlines(h),
           d \in Deadlines(s) \/ Affords(s, 1)
    PROVE  /\ Counting' /\ \A h \in Heads : h # s /\ Affords(h, 1) => Affords(h, 1)'
           /\ (\A h \in Heads : Affords(h, 1)) /\ (d \in Deadlines(s) \/ Affords(s, 2))
                 => \A h \in Heads : Affords(h, 1)'
<1>1. /\ IsFiniteSet(Deadlines(s))' /\ Affords(s, 0)'
      /\ Affords(s, 1) /\ (d \in Deadlines(s) \/ Affords(s, 2)) => Affords(s, 1)'
  BY AffordsOneMore
<1>2. \A h \in Heads : h # s => /\ IsFiniteSet(Deadlines(h))' /\ Affords(h, 0)'
                                /\ Affords(h, 1) => Affords(h, 1)'
  BY DEF Affords, Happened, Counting
<1>3. QED
  BY <1>1, <1>2 DEF Counting

\* It is paid for by what has just happened.
LEMMA OneMoreLater ==
    ASSUME Counting, NEW s \in Heads, NEW d,
           Deadlines(s)' \subseteq Deadlines(s) \cup {d},
           \A h \in Heads : h # s => Deadlines(h)' = Deadlines(h),
           d \in Deadlines(s) \/ Affords(s, 1),
           Happened' = Happened + 1, used' \in [answers : Nat, pushes : Nat, faults : Nat]
    PROVE  Counting' /\ \A h \in Heads : Affords(h, 1)'
<1> DEFINE T == Deadlines(s) \cup {d}
<1>1. IsFiniteSet(Deadlines(s)) /\ Cardinality(Deadlines(s)) \in Nat /\ Happened \in Nat /\ Affords(s, 0)
  BY AffordsLess DEF Counting
<1>2. IsFiniteSet(T) /\ Cardinality(T) = IF d \in Deadlines(s) THEN Cardinality(Deadlines(s))
                                         ELSE Cardinality(Deadlines(s)) + 1
  BY <1>1, FS_AddElement
<1>3. PICK D : D = Deadlines(s)'
  OBVIOUS
<1>4. D \subseteq T
  BY <1>3
<1> HIDE DEF T
<1>5. IsFiniteSet(D) /\ Cardinality(D) <= Cardinality(T) /\ Cardinality(D) \in Nat
  BY <1>2, <1>4, FS_Subset, FS_CardinalityType
<1>6. PICK c \in Nat, t \in Nat, e \in Nat :
          c = Cardinality(Deadlines(s)) /\ t = Cardinality(T) /\ e = Cardinality(D)
  BY <1>1, <1>2, <1>5
<1>7. \A k : (Affords(s, k) <=> c + k <= 1 + Happened) /\ (Affords(s, k)' <=> e + k <= 2 + Happened)
  BY <1>1, <1>3, <1>6 DEF Affords
<1>8. e <= t /\ t <= c + 1 /\ (d \in Deadlines(s) => t = c)
  BY <1>2, <1>5, <1>6
<1>9. IsFiniteSet(Deadlines(s))' /\ Affords(s, 0)' /\ Affords(s, 1)'
  BY <1>1, <1>3, <1>5, <1>6, <1>7, <1>8
<1>10. ASSUME NEW h \in Heads, h # s
       PROVE  IsFiniteSet(Deadlines(h))' /\ Affords(h, 0)' /\ Affords(h, 1)'
  <2>1. IsFiniteSet(Deadlines(h)) /\ Cardinality(Deadlines(h)) \in Nat /\ Affords(h, 0)
    BY AffordsLess DEF Counting
  <2>2. Deadlines(h)' = Deadlines(h)
    BY <1>10
  <2>3. PICK n \in Nat : n = Cardinality(Deadlines(h))
    BY <2>1
  <2>4. \A k : (Affords(h, k) <=> n + k <= 1 + Happened) /\ (Affords(h, k)' <=> n + k <= 2 + Happened)
    BY <1>1, <2>2, <2>3 DEF Affords
  <2>5. QED
    BY <1>1, <2>1, <2>2, <2>4
<1>11. QED
  BY <1>9, <1>10 DEF Counting

\* A marker comment more.
LEMMA AppendedIs ==
    ASSUME GateTypeInv, NEW marker, markers' = Append(markers, marker)
    PROVE  /\ LastMarker' = LastMarker + 1 /\ LastMarker \in Nat
           /\ DOMAIN markers = 1..LastMarker /\ DOMAIN markers' = 1..(LastMarker + 1)
           /\ markers'[LastMarker + 1] = marker
           /\ \A m \in DOMAIN markers : m \in DOMAIN markers' /\ markers'[m] = markers[m]
           /\ \A h : h # marker.head => Deadlines(h)' = Deadlines(h)
           /\ \A h : h = marker.head => Deadlines(h)' \subseteq Deadlines(h) \cup {marker.deadline}
<1> DEFINE n == Len(markers) + 1
           all == {markers[i] : i \in DOMAIN markers} \cup {marker}
<1>1. /\ markers \in Seq({markers[i] : i \in DOMAIN markers}) /\ Len(markers) \in Nat
      /\ DOMAIN markers = 1..Len(markers)
  BY DEF GateTypeInv
<1>2. markers \in Seq(all) /\ marker \in all
  <2>1. \A i \in DOMAIN markers : markers[i] \in all
    OBVIOUS
  <2> HIDE DEF all
  <2>2. markers \in Seq(all)
    BY <1>1, <2>1
  <2>3. QED
    BY <2>2 DEF all
<1>3. /\ DOMAIN markers' = 1..n /\ Len(markers') = n /\ markers'[n] = marker
      /\ \A i \in DOMAIN markers : markers'[i] = markers[i]
  <2> HIDE DEF all
  <2>1. QED
    BY <1>1, <1>2
<1> HIDE DEF all
<1>4. DOMAIN markers' = DOMAIN markers \cup {n} /\ n \notin DOMAIN markers
  BY <1>1, <1>3
<1> HIDE DEF n
<1>5. ASSUME NEW h, h # marker.head PROVE Deadlines(h)' = Deadlines(h)
  <2>1. MarkersOf(h)' = MarkersOf(h)
    BY <1>3, <1>4, <1>5 DEF MarkersOf
  <2>2. \A i \in MarkersOf(h) : markers'[i] = markers[i]
    BY <1>3 DEF MarkersOf
  <2>3. QED
    BY <2>1, <2>2 DEF Deadlines
<1>6. ASSUME NEW h, h = marker.head PROVE Deadlines(h)' \subseteq Deadlines(h) \cup {marker.deadline}
  BY <1>3, <1>4, <1>6 DEF Deadlines, MarkersOf
<1>7. QED
  BY <1>1, <1>3, <1>4, <1>5, <1>6 DEF LastMarker, n

\* What state comments hold is of the markers there are then.
LEMMA StatesRemember ==
    ASSUME GateTypeInv, UNCHANGED states, \A i \in DOMAIN states : Remembers(states[i].st),
           \A s : IsState(s) /\ Remembers(s) => Remembers(s)'
    PROVE  (\A i \in DOMAIN states : Remembers(states[i].st))'
<1>1. \A i \in DOMAIN states : Remembers(states[i].st) /\ IsState(states[i].st)
  BY DEF GateTypeInv
<1>2. \A i \in DOMAIN states : \A s : s = states[i].st => Remembers(s)'
  BY <1>1
<1>3. QED
  BY <1>2 DEF Remembers

\* waitCycleForState: the deadline of a marker is that of the last one of its head,
\* unless the wait is renewed.
LEMMA CycleDeadlineIs ==
    ASSUME NEW st, Remembers(st), st.active = NoMarker, NEW h
    PROVE  CycleDeadline(st, h) \in Deadlines(h) \/ Renews(st, h)
<1>1. SUFFICES ASSUME ~Renews(st, h) PROVE CycleDeadline(st, h) \in Deadlines(h)
  OBVIOUS
<1>2. ~NewCycle(st, h)
  BY <1>1 DEF Renews, Awaited
<1>3. Latest(st, h) # 0
  BY <1>2 DEF NewCycle, LatestOutcome
<1>4. /\ Latest(st, h) \in DOMAIN st.history
      /\ markers[st.history[Latest(st, h)].id].head = h
  BY <1>3, LatestIs DEF Remembers
<1>5. st.history[Latest(st, h)] \in Remembered
  BY <1>4 DEF Remembers
<1>6. st.history[Latest(st, h)].id \in DOMAIN markers
  BY <1>5 DEF Remembered
<1>7. QED
  BY <1>2, <1>4, <1>6 DEF CycleDeadline, Deadlines, MarkersOf

\* createGateMarker.
LEMMA PostMarkerWaits ==
    ASSUME WaitInv, GateInv', PostMarker
    PROVE  WaitInv'
<1> DEFINE marker == [head |-> run.sha, created |-> now, ack |-> AckAfter[Misses(run.st, run.sha)],
                      deadline |-> CycleDeadline(run.st, run.sha), eyes |-> run.eyes,
                      fence |-> FALSE]
           active == [id |-> Len(markers) + 1, phase |-> "waiting_ack"]
           todo == <<"save", "pending">> \o Rest
           st == [run.st EXCEPT !.active = active]
           n == [run EXCEPT !.st = st, !.todo = todo]
           t == Thrown(run)
           d == CycleDeadline(run.st, run.sha)
<1>1. At("marker") /\ UNCHANGED <<states, head, verdict>>
  BY DEF PostMarker, world
<1>2. \/ NothingFails /\ markers' = Append(markers, marker)
         /\ Goes([run EXCEPT !.st.active = active, !.todo = <<"save", "pending">> \o Rest])
      \/ MayFail /\ markers' \in {markers, Append(markers, marker)} /\ GoesBadly(t)
  BY DEF PostMarker
<1>3. marker.head = run.sha /\ marker.deadline = d /\ marker.fence = FALSE
  OBVIOUS
<1>4. /\ GateTypeInv /\ Counting /\ Pays(run) /\ Busy /\ IsRun(run) /\ Remembers(run.st)
      /\ Remembers(run.kept) /\ IsState(run.st) /\ IsState(run.kept) /\ run.todo # <<>>
      /\ Rest \in Seq(Steps) /\ run.sha \in Heads /\ head \in Heads
      /\ Without(Rest, "load") /\ Without(Rest, "final") /\ (run.bad \/ Without(Rest, "fence"))
  BY <1>1, StepIs
<1>5. run.st.active = NoMarker
  BY <1>1, StepIs DEF WaitInv, GateInv, RunHolds
<1>6. /\ Working(run) /\ Asks(run.todo) /\ ~run.blocked
      /\ run.bad \in BOOLEAN /\ run.blocked \in BOOLEAN
      /\ ~run.bad /\ ~Gone(run) => run.sc = LastState
      /\ \A h \in Heads : Loses(run.st, h) => Affords(h, 1)
      /\ Spoiled(run) => \A h \in Heads : Affords(h, 1)
      /\ Renews(run.st, run.sha) => Affords(run.sha, IF Spoiled(run) THEN 2 ELSE 1)
  BY <1>1, <1>4, MarkerStepIs DEF MarkerSteps, Working, Informed, Pays
<1>7. d \in Deadlines(run.sha) \/ Renews(run.st, run.sha)
  BY <1>4, <1>5, CycleDeadlineIs
<1>8. /\ d \in Deadlines(run.sha) \/ Affords(run.sha, 1)
      /\ Spoiled(run) => d \in Deadlines(run.sha) \/ Affords(run.sha, 2)
  BY <1>4, <1>6, <1>7, AffordsLess
<1> HIDE DEF marker, d, t
<1>9. ASSUME markers' = Append(markers, marker)
      PROVE  /\ LastMarker' = LastMarker + 1 /\ LastMarker \in Nat /\ DOMAIN markers = 1..LastMarker
             /\ LastMarker + 1 \in DOMAIN markers' /\ markers'[LastMarker + 1] = marker
             /\ \A m \in DOMAIN markers : m \in DOMAIN markers' /\ markers'[m].head = markers[m].head
             /\ \A h \in Heads : h # run.sha => Deadlines(h)' = Deadlines(h)
             /\ \A h \in Heads : h = run.sha => Deadlines(h)' \subseteq Deadlines(h) \cup {d}
             /\ (\A i \in DOMAIN states : Remembers(states[i].st))'
  <2>1. /\ LastMarker' = LastMarker + 1 /\ LastMarker \in Nat /\ DOMAIN markers = 1..LastMarker
        /\ DOMAIN markers' = 1..(LastMarker + 1) /\ markers'[LastMarker + 1] = marker
        /\ \A m \in DOMAIN markers : m \in DOMAIN markers' /\ markers'[m] = markers[m]
        /\ \A h \in Heads : h # marker.head => Deadlines(h)' = Deadlines(h)
        /\ \A h : h = marker.head => Deadlines(h)' \subseteq Deadlines(h) \cup {marker.deadline}
    BY <1>4, <1>9, AppendedIs
  <2>2. \A h \in Heads : h = run.sha => Deadlines(h)' \subseteq Deadlines(h) \cup {d}
    BY <1>3, <2>1
  <2>3. \A x : IsState(x) /\ Remembers(x) => Remembers(x)'
    BY <2>1, SaysTheSame
  <2>4. (\A i \in DOMAIN states : Remembers(states[i].st))'
    BY <1>1, <1>4, <2>3, StatesRemember DEF WaitInv
  <2>5. QED
    BY <1>3, <2>1, <2>2, <2>4
<1>10. PICK s : s = run.sha
  OBVIOUS
<1>11. CASE NothingFails /\ markers' = Append(markers, marker)
            /\ Goes([run EXCEPT !.st.active = active, !.todo = <<"save", "pending">> \o Rest])
  <2>1. UNCHANGED used
    BY <1>11 DEF NothingFails
  <2>2. /\ Counting' /\ \A h \in Heads : h # s /\ Affords(h, 1) => Affords(h, 1)'
        /\ (\A h \in Heads : Affords(h, 1)) /\ (d \in Deadlines(s) \/ Affords(s, 2))
              => \A h \in Heads : Affords(h, 1)'
    BY <1>4, <1>8, <1>9, <1>10, <1>11, <2>1, OneMore
  <2>3. /\ active.id = LastMarker + 1 /\ active # NoMarker
        /\ st.active = active /\ st.history = run.st.history
    <3>1. active.id # 0 /\ active.id = LastMarker + 1
      BY <1>9, <1>11 DEF LastMarker
    <3> HIDE DEF active
    <3>2. QED
      BY <1>4, <3>1 DEF IsState, StateFields, NoMarker
  <2>4. /\ todo \in Seq(Steps) /\ todo # <<>> /\ Head(todo) = "save" /\ todo # <<"load">>
        /\ Without(todo, "load") /\ Without(todo, "final")
        /\ run.bad \/ Without(todo, "fence")
    <3> DEFINE p == <<"save", "pending">>
    <3>1. /\ p \in Seq(Steps) /\ p # <<>> /\ Head(p) = "save"
          /\ \A x \in {"load", "final", "fence"} : Without(p, x)
      BY DEF Steps, Without
    <3> HIDE DEF p
    <3>2. p \o Rest \in Seq(Steps) /\ p \o Rest # <<>> /\ Head(p \o Rest) = "save"
      BY <1>4, <3>1
    <3>3. /\ Without(p \o Rest, "load") /\ Without(p \o Rest, "final")
          /\ run.bad \/ Without(p \o Rest, "fence")
      BY <1>4, <3>1, WithoutIs
    <3>4. p \o Rest # <<"load">>
      <4>1. ASSUME NEW l, l = <<"load">> PROVE ~Without(l, "load")
        BY <4>1 DEF Without
      <4>2. QED
        BY <3>3, <4>1
    <3>5. QED
      BY <3>2, <3>3, <3>4 DEF p
  <2> HIDE DEF active, todo
  <2>5. [run EXCEPT !.st.active = active, !.todo = todo] = n
    OBVIOUS
  <2>6. Goes(n)
    BY <1>11, <2>5 DEF todo, active
  <2> HIDE DEF st
  <2>7. /\ n.sc = run.sc /\ n.sha = run.sha /\ n.bad = run.bad /\ n.blocked = run.blocked
        /\ n.kept = run.kept /\ n.st = st /\ n.todo = todo
    BY <1>4 DEF IsRun, RunFields
  <2> HIDE DEF n
  <2>8. run' = n
    BY <2>4, <2>6, <2>7 DEF Goes
  <2>9. PICK x : x = n
    OBVIOUS
  <2>10. PICK y, z : y = run.st /\ z = run.kept
    OBVIOUS
  <2>11. Remembers(x.st)' /\ Remembers(x.kept)' /\ Knows(x.st, LastMarker)'
         /\ \A h : LatestOutcome(x.st, h)' = LatestOutcome(run.st, h)
    <3>1. Remembers(y)' /\ Remembers(z)' /\ \A h : LatestOutcome(y, h)' = LatestOutcome(y, h)
      BY <1>4, <1>9, <1>11, <2>10, SaysTheSame
    <3>2. x.kept = z /\ x.st.history = y.history /\ x.st.active = active
      BY <2>3, <2>7, <2>9, <2>10
    <3>3. Knows(x.st, LastMarker)'
      BY <1>9, <1>11, <2>3, <3>2 DEF Knows
    <3>4. \A i \in DOMAIN y.history : y.history[i].id < LastMarker + 1
      <4>1. SUFFICES ASSUME NEW i \in DOMAIN y.history PROVE y.history[i].id < LastMarker + 1
        OBVIOUS
      <4>2. y.history[i] \in Remembered
        BY <1>4, <2>10 DEF Remembers
      <4>3. y.history[i].id \in 1..LastMarker /\ LastMarker \in Nat
        BY <1>9, <1>11, <4>2 DEF Remembered
      <4>4. QED
        BY <4>3
    <3>5. Remembers(x.st)'
      BY <2>3, <3>1, <3>2, <3>4 DEF Remembers
    <3>6. ASSUME NEW h PROVE LatestOutcome(x.st, h)' = LatestOutcome(y, h)
      <4>1. Latest(x.st, h)' = Latest(y, h)'
        BY <3>2 DEF Latest
      <4>2. LatestOutcome(x.st, h)' = LatestOutcome(y, h)'
        BY <3>2, <4>1 DEF LatestOutcome
      <4>3. QED
        BY <3>1, <4>2
    <3>7. QED
      BY <2>10, <3>1, <3>2, <3>3, <3>5, <3>6
  <2>12. \A h : Awaited(x.st, h)' <=> h = run.sha
    BY <1>3, <1>9, <1>11, <2>3, <2>7, <2>9 DEF Awaited
  <2>13. \A h : Loses(x.st, h)' => h # run.sha /\ Loses(run.st, h)
    BY <1>1, <1>5, <2>11, <2>12 DEF Loses, Renews, NewCycle, Awaited
  <2>14. Spoiled(x)' <=> Spoiled(run)
    BY <1>1, <2>7, <2>9 DEF Spoiled, Gone
  <2>15. Spoiled(x)' => \A h \in Heads : Affords(h, 1)'
    BY <1>6, <1>8, <1>10, <2>2, <2>14
  <2>16. Informed(x)'
    BY <1>1, <1>6, <2>7, <2>9, <2>11 DEF Informed, Gone, LastState
  <2>17. \A h \in Heads : Loses(x.st, h)' => Affords(h, 1)'
    BY <1>6, <1>10, <2>2, <2>13
  <2>18. ~Renews(x.st, x.sha)'
    BY <2>7, <2>9, <2>12 DEF Renews
  <2>19. Pays(x)'
    <3>1. /\ x.bad \in BOOLEAN /\ x.blocked \in BOOLEAN /\ ~x.blocked /\ x.sha \in Heads
          /\ Without(x.todo, "load") /\ Without(x.todo, "final")
          /\ x.bad \/ Without(x.todo, "fence")
          /\ x.todo # <<"load">>
      <4>1. x.bad = run.bad /\ x.blocked = run.blocked /\ x.sha = run.sha /\ x.todo = todo
        BY <2>7, <2>9
      <4>2. /\ x.bad \in BOOLEAN /\ x.blocked \in BOOLEAN /\ ~x.blocked /\ x.sha \in Heads
            /\ x.bad <=> run.bad
        BY <1>4, <1>6, <4>1
      <4>3. /\ Without(x.todo, "load") /\ Without(x.todo, "final")
            /\ x.bad \/ Without(x.todo, "fence")
            /\ x.todo # <<"load">>
        BY <2>4, <4>1, <4>2
      <4>4. QED
        BY <4>2, <4>3
    <3>2. QED
      BY <2>11, <2>15, <2>16, <2>17, <2>18, <3>1 DEF Pays
  <2>20. Pays(run)' /\ At("save")'
    BY <2>4, <2>7, <2>8, <2>9, <2>19 DEF At, Busy
  <2>21. \A h : ~Fenced(h)'
    BY <1>3, <1>9, <1>11 DEF Fenced
  <2>22. QED
    BY <1>1, <1>4, <1>9, <1>11, <2>2, <2>20, <2>21 DEF WaitInv, Counting
<1>12. CASE MayFail /\ GoesBadly(t) /\ markers' = markers
  BY <1>1, <1>12, ThrownWaits DEF t
<1>13. CASE MayFail /\ GoesBadly(t) /\ markers' = Append(markers, marker)
  <2>1. Counting' /\ \A h \in Heads : Affords(h, 1)'
    <3>1. CASE run.bad
      <4>1. UNCHANGED used
        BY <1>13, <3>1 DEF MayFail
      <4>2. (\A h \in Heads : Affords(h, 1)) /\ (d \in Deadlines(s) \/ Affords(s, 2))
        BY <1>6, <1>8, <1>10, <3>1 DEF Spoiled
      <4>3. QED
        BY <1>4, <1>8, <1>9, <1>10, <1>13, <4>1, <4>2, OneMore
    <3>2. CASE ~run.bad
      <4>1. used' = [used EXCEPT !["faults"] = @ + 1]
        BY <1>13, <3>2 DEF MayFail, Fault, Uses
      <4>2. used' \in [answers : Nat, pushes : Nat, faults : Nat] /\ Happened' = Happened + 1
        BY <1>4, <4>1 DEF Happened, Counting
      <4>3. QED
        BY <1>4, <1>8, <1>9, <1>10, <1>13, <4>2, OneMoreLater
    <3>3. QED
      BY <3>1, <3>2
  <2>2. /\ t = [f \in RunFields |-> t[f]] /\ t.sha = run.sha /\ t.blocked = run.blocked
        /\ t.kept = run.kept
        /\ Remembers(t.st) /\ IsState(t.st) /\ ~Asks(t.todo)
        /\ \A x \in {"load", "final", "fence"} : Without(t.todo, x)
        /\ t.blocked => t.todo \in Short
    BY <1>1, ThrownIs DEF t
  <2>3. \A x : IsState(x) /\ Remembers(x) => Remembers(x)'
    BY <1>9, <1>13, SaysTheSame
  <2>5. Pays(run)'
    <3>1. PICK x : x = t
      OBVIOUS
    <3>2. Remembers(x.st)' /\ Remembers(x.kept)'
      BY <2>3, <2>2, <1>4, <3>1
    <3>3. QED
      BY <1>4, <1>6, <1>13, <2>1, <2>2, <3>1, <3>2, BadlyPays
  <2>6. QED
    BY <1>1, <1>4, <1>9, <1>13, <2>1, <2>5, RichKeeps
<1>14. QED
  BY <1>2, <1>11, <1>12, <1>13

\* A marker that is marked as fenced keeps its deadline.
LEMMA FencedStays ==
    ASSUME GateTypeInv, NEW id, markers' \in {markers, [markers EXCEPT ![id].fence = TRUE]}
    PROVE  /\ \A m \in DOMAIN markers : m \in DOMAIN markers' /\ markers'[m].head = markers[m].head
           /\ \A h : Deadlines(h)' = Deadlines(h)
<1> DEFINE fenced == [markers EXCEPT ![id].fence = TRUE]
<1>1. \A i \in DOMAIN markers : markers[i] = [f \in MarkerFields |-> markers[i][f]]
  BY DEF GateTypeInv
<1>2. /\ fenced = [i \in DOMAIN markers |->
                      IF i = id THEN [markers[i] EXCEPT !.fence = TRUE] ELSE markers[i]]
      /\ DOMAIN fenced = DOMAIN markers
  OBVIOUS
<1>3. ASSUME NEW i \in DOMAIN markers
      PROVE  fenced[i].head = markers[i].head /\ fenced[i].deadline = markers[i].deadline
  <2>1. fenced[i] = IF i = id THEN [markers[i] EXCEPT !.fence = TRUE] ELSE markers[i]
    BY <1>2
  <2>2. markers[i] = [f \in MarkerFields |-> markers[i][f]]
    BY <1>1
  <2> HIDE DEF fenced
  <2>3. QED
    BY <2>1, <2>2 DEF MarkerFields
<1>4. /\ DOMAIN markers' = DOMAIN markers
      /\ \A i \in DOMAIN markers : markers'[i].head = markers[i].head /\ markers'[i].deadline = markers[i].deadline
  <2>1. markers' = markers \/ markers' = fenced
    OBVIOUS
  <2> HIDE DEF fenced
  <2>2. QED
    BY <1>2, <1>3, <2>1
<1>5. ASSUME NEW h PROVE Deadlines(h)' = Deadlines(h)
  <2>1. MarkersOf(h)' = MarkersOf(h)
    BY <1>4 DEF MarkersOf
  <2>2. \A i \in MarkersOf(h) : markers'[i].deadline = markers[i].deadline
    BY <1>4 DEF MarkersOf
  <2>3. QED
    BY <2>1, <2>2 DEF Deadlines
<1>6. QED
  BY <1>4, <1>5

\* publishOrchestrationFence: a request of the run has failed before it comes to this.
LEMMA PublishFenceWaits ==
    ASSUME WaitInv, GateInv', PublishFence
    PROVE  WaitInv'
<1> DEFINE latest == Latest(run.st, run.sha)
           id == IF run.st.active # NoMarker /\ ~Obsolete(run.st, run.sha) THEN run.st.active.id
                 ELSE IF latest # 0 THEN run.st.history[latest].id ELSE 0
           marked == [markers EXCEPT ![id].fence = TRUE]
           t == Thrown(run)
<1>1. At("fence") /\ UNCHANGED <<states, head, verdict>>
  BY DEF PublishFence, world
<1>2. markers' \in {markers, marked}
  BY DEF PublishFence
<1>3. /\ GateTypeInv /\ Counting /\ Pays(run) /\ Busy /\ Remembers(run.st) /\ Remembers(run.kept)
      /\ IsState(run.st) /\ IsState(run.kept) /\ run.todo # <<>> /\ Head(run.todo) = "fence"
      /\ run.todo \in Seq(Steps) /\ run.sha \in Heads /\ head \in Heads
  BY <1>1, StepIs
<1>4. run.bad = TRUE /\ run.blocked \in BOOLEAN
  <2>1. ~Without(run.todo, "fence")
    BY <1>3, WithoutIs
  <2>2. QED
    BY <1>3, <2>1 DEF Pays
<1>5. \A h \in Heads : Affords(h, 1)
  BY <1>3, <1>4 DEF Pays, Spoiled
<1>6. UNCHANGED used
  BY <1>4 DEF PublishFence, MayFail, NothingFails
<1>7. /\ \A m \in DOMAIN markers : m \in DOMAIN markers' /\ markers'[m].head = markers[m].head
      /\ \A h : Deadlines(h)' = Deadlines(h)
  <2> HIDE DEF id
  <2>1. QED
    BY <1>2, <1>3, FencedStays
<1> HIDE DEF marked
<1>8. Counting' /\ \A h \in Heads : Affords(h, 1)'
  BY <1>3, <1>5, <1>6, <1>7 DEF Counting, Affords, Happened
<1>9. /\ t = [f \in RunFields |-> t[f]] /\ t.sha = run.sha /\ t.blocked = run.blocked
      /\ t.kept = run.kept
      /\ Remembers(t.st) /\ IsState(t.st) /\ ~Asks(t.todo) /\ t.bad = run.bad
      /\ Without(t.todo, "load") /\ Without(t.todo, "final")
      /\ t.blocked => t.todo \in Short
  BY <1>1, ThrownIs
<1>10. GoesBadly(t)
  <2>1. Goes(t) \/ GoesBadly(t)
    BY DEF PublishFence
  <2> HIDE DEF t
  <2>2. [t EXCEPT !.bad = TRUE] = t
    BY <1>4, <1>9 DEF RunFields
  <2>3. QED
    BY <2>1, <2>2 DEF GoesBadly
<1>11. PICK r : r = t
  OBVIOUS
<1> HIDE DEF t
<1>12. \A s : IsState(s) /\ Remembers(s) => Remembers(s)'
  BY <1>7, SaysTheSame
<1>13. Pays(run)'
  <2>1. Remembers(r.st)' /\ Remembers(r.kept)'
    BY <1>3, <1>9, <1>11, <1>12
  <2>2. QED
    BY <1>3, <1>4, <1>8, <1>9, <1>10, <1>11, <2>1, BadlyPays
<1>14. (\A i \in DOMAIN states : Remembers(states[i].st))'
  BY <1>1, <1>3, <1>12, StatesRemember DEF WaitInv
<1>15. QED
  BY <1>1, <1>3, <1>8, <1>13, <1>14, RichKeeps

-----------------------------------------------------------------------------
(* How gate v1 waits: saving.                                              *)

\* The comment that is written, and the others as they were.
LEMMA WrittenShows ==
    ASSUME GateTypeInv, IsRun(run), NEW new \in BOOLEAN, run.sc = 0 => new
    PROVE  LET comment == [st |-> run.st, deleted |-> FALSE]
               written == IF new THEN Append(states, comment) ELSE [states EXCEPT ![run.sc] = comment]
           IN  /\ Len(states) \in Nat /\ DOMAIN states = 1..Len(states)
               /\ \A i \in DOMAIN written :
                     written[i] = comment \/ (i \in DOMAIN states /\ written[i] = states[i])
               /\ new => /\ DOMAIN written = 1..(Len(states) + 1)
                         /\ written[Len(states) + 1] = comment
               /\ ~new => /\ DOMAIN written = DOMAIN states /\ run.sc \in DOMAIN states
                          /\ written[run.sc] = comment
                          /\ \A i \in DOMAIN states : i # run.sc => written[i] = states[i]
<1> DEFINE comment == [st |-> run.st, deleted |-> FALSE]
           written == IF new THEN Append(states, comment) ELSE [states EXCEPT ![run.sc] = comment]
           all == {states[i] : i \in DOMAIN states} \cup {comment}
<1>1. /\ states \in Seq({states[i] : i \in DOMAIN states}) /\ Len(states) \in Nat
      /\ DOMAIN states = 1..Len(states) /\ run.sc \in 0..Len(states)
  BY DEF GateTypeInv, IsRun
<1>2. states \in Seq(all) /\ comment \in all
  <2>1. \A i \in DOMAIN states : states[i] \in all
    OBVIOUS
  <2>2. comment \in all
    OBVIOUS
  <2> HIDE DEF all
  <2>3. QED
    BY <1>1, <2>1, <2>2
<1> HIDE DEF all, comment
<1>3. CASE new
  <2>1. /\ DOMAIN written = 1..(Len(states) + 1) /\ written[Len(states) + 1] = comment
        /\ \A i \in DOMAIN states : written[i] = states[i]
    BY <1>1, <1>2, <1>3
  <2> HIDE DEF written
  <2>2. \A i \in DOMAIN written : i = Len(states) + 1 \/ i \in DOMAIN states
    BY <1>1, <2>1
  <2>3. QED
    BY <1>1, <1>3, <2>1, <2>2 DEF written, comment
<1>4. CASE ~new
  <2>1. run.sc \in DOMAIN states
    BY <1>1, <1>4
  <2>2. written = [i \in DOMAIN states |-> IF i = run.sc THEN comment ELSE states[i]]
    BY <1>4
  <2> HIDE DEF written
  <2>3. /\ DOMAIN written = DOMAIN states /\ written[run.sc] = comment
        /\ \A i \in DOMAIN states : i # run.sc => written[i] = states[i]
    BY <2>1, <2>2
  <2>4. QED
    BY <1>1, <1>4, <2>1, <2>3 DEF written, comment
<1>5. QED
  BY <1>3, <1>4

\* It is the one that counts, when it is new or was the one before.
LEMMA WrittenCounts ==
    ASSUME GateTypeInv, IsRun(run), NEW new \in BOOLEAN, run.sc = 0 => new,
           states' = IF new THEN Append(states, [st |-> run.st, deleted |-> FALSE])
                     ELSE [states EXCEPT ![run.sc] = [st |-> run.st, deleted |-> FALSE]],
           ~new => run.sc = LastState
    PROVE  LET sc == IF new THEN Len(states) + 1 ELSE run.sc
           IN  /\ LastState' = sc /\ sc # 0
               /\ states'[sc].st = run.st /\ states'[sc].deleted = FALSE
<1> DEFINE comment == [st |-> run.st, deleted |-> FALSE]
           sc == IF new THEN Len(states) + 1 ELSE run.sc
           k == {i \in DOMAIN states : ~states[i].deleted}
           l == {i \in DOMAIN states' : ~states'[i].deleted}
<1>1. /\ Len(states) \in Nat /\ DOMAIN states = 1..Len(states)
      /\ new => DOMAIN states' = 1..(Len(states) + 1) /\ states'[Len(states) + 1] = comment
      /\ ~new => /\ DOMAIN states' = DOMAIN states /\ run.sc \in DOMAIN states
                 /\ states'[run.sc] = comment
                 /\ \A i \in DOMAIN states : i # run.sc => states'[i] = states[i]
  BY WrittenShows
<1>2. comment.deleted = FALSE /\ comment.st = run.st
  OBVIOUS
<1>3. /\ LastState = IF k = {} THEN 0 ELSE CHOOSE i \in k : \A j \in k : j <= i
      /\ LastState' = IF l = {} THEN 0 ELSE CHOOSE i \in l : \A j \in l : j <= i
  BY DEF LastState
<1> HIDE DEF comment
<1>4. CASE new
  <2>1. sc \in l /\ \A j \in l : j \in Nat /\ j <= sc
    BY <1>1, <1>2, <1>4
  <2>2. PICK s : s = sc /\ s # 0 /\ states'[s] = comment /\ s \in Nat
    BY <1>1, <1>4
  <2>3. s \in l /\ \A j \in l : j \in Nat /\ j <= s
    BY <2>1, <2>2
  <2> HIDE DEF l, sc, k
  <2>4. LastState' = s
    <3>1. \E i \in l : \A j \in l : j <= i
      BY <2>3
    <3>2. LastState' \in l /\ \A j \in l : j <= LastState'
      BY <1>3, <2>3, <3>1
    <3>3. QED
      BY <2>2, <2>3, <3>2
  <2>5. QED
    BY <1>2, <2>2, <2>4 DEF sc
<1>5. CASE ~new
  <2>1. ~states[run.sc].deleted /\ run.sc # 0
    BY <1>1, <1>5, LastStateIs
  <2>2. k = l
    BY <1>1, <1>2, <1>5, <2>1
  <2> HIDE DEF k, l
  <2>3. LastState' = LastState
    BY <1>3, <2>2
  <2>4. LastState' = run.sc /\ states'[run.sc] = comment
    BY <1>1, <1>5, <2>3
  <2>5. QED
    BY <1>2, <1>5, <2>1, <2>4
<1>6. QED
  BY <1>4, <1>5

\* When every head can be given a deadline more.
LEMMA RichPays ==
    ASSUME NEW r, r.bad \in BOOLEAN, r.blocked \in BOOLEAN, ~r.blocked, r.sha \in Heads,
           Remembers(r.st)', Remembers(r.kept)', \A h \in Heads : Affords(h, 1)',
           \A h \in Heads : h = r.sha /\ Asks(r.todo) /\ Renews(r.st, h)' => Affords(h, 2)',
           Without(r.todo, "load"), Without(r.todo, "final"), r.bad \/ Without(r.todo, "fence"),
           Working(r) => Informed(r)'
    PROVE  Pays(r)'
<1>1. Asks(r.todo) /\ Renews(r.st, r.sha)' => Affords(r.sha, 2)' /\ Affords(r.sha, 1)'
  OBVIOUS
<1>2. r.todo # <<"load">>
  BY DEF Without
<1>3. QED
  BY <1>1, <1>2 DEF Pays, Working

LEMMA GoesPays ==
    ASSUME NEW r, Goes(r), Pays(r)'
    PROVE  Pays(run)'
<1>1. CASE run' = r
  BY <1>1
<1>2. CASE run' = Idle(r.at)
  <2>1. PICK o : o = Idle(r.at)
    OBVIOUS
  <2>2. Pays(o)' /\ run' = o
    BY <1>2, <2>1, IdlePays
  <2>3. QED
    BY <2>2
<1>3. QED
  BY <1>1, <1>2 DEF Goes

\* What is there at a step that saves.
LEMMA SaveStepIs ==
    ASSUME WaitInv, NEW step \in {"save", "saveBest", "critical", "replace"}, At(step)
    PROVE  /\ Working(run) /\ run.blocked = FALSE /\ run.bad \in BOOLEAN
           /\ Informed(run) /\ run.todo # Failing
           /\ step # "saveBest" => run.bad \/ Knows(run.st, LastMarker)
           /\ run.bad \/ Knows(run.st, LastMarker) \/ (run.todo = <<"saveBest">> /\ Rest = <<>>)
           /\ \A h \in Heads : Loses(run.st, h) => Affords(h, 1)
<1>1. /\ run.todo # <<>> /\ Head(run.todo) = step /\ Pays(run) /\ Rest = Tail(run.todo)
      /\ run.blocked => run.todo = <<step>>
  BY StepIs
<1>2. run.todo \notin {<<"load">>, <<"error">>, Failing} /\ run.todo \notin Short
  BY <1>1 DEF Failing, Short
<1>3. run.blocked = FALSE
  BY <1>1, <1>2 DEF Pays
<1>4. Working(run)
  BY <1>1, <1>2, <1>3 DEF Working
<1>5. run.todo = <<"saveBest">> => step = "saveBest" /\ Rest = <<>>
  BY <1>1
<1>6. QED
  BY <1>1, <1>2, <1>3, <1>4, <1>5 DEF Pays, Informed

\* What a failed save leads to.
LEMMA SaveFailedSays ==
    ASSUME WaitInv, NEW step \in {"save", "saveBest", "critical", "replace"}, At(step)
    PROVE  LET f == SaveFailed(step)
           IN  /\ f = [e \in RunFields |-> f[e]] /\ f.sc = run.sc /\ f.sha = run.sha
               /\ f.bad = run.bad /\ f.blocked = run.blocked /\ f.kept = run.kept
               /\ IsState(f.st) /\ Remembers(f.st)
               /\ Asks(f.todo) => Asks(run.todo) /\ f.st = run.st
               /\ f.st = run.st \/ f.todo = Failing
               /\ Without(f.todo, "load") /\ Without(f.todo, "final")
               /\ step \in {"save", "saveBest"} \/ (step = "critical" /\ run.sc # 0) =>
                     run.bad \/ Without(f.todo, "fence")
<1> DEFINE f == SaveFailed(step)
<1>1. /\ IsRun(run) /\ IsState(run.st) /\ Remembers(run.st) /\ Remembers(run.kept) /\ IsState(run.kept)
      /\ Rest \in Seq(Steps) /\ (Asks(Rest) => Asks(run.todo)) /\ (run.bad \/ Without(Rest, "fence"))
      /\ Without(Rest, "load") /\ Without(Rest, "final")
      /\ Orderly(Rest) /\ \A i \in DOMAIN Rest : Rest[i] # "marker"
  BY StepIs, StepOf DEF WaitInv
<1>2. ASSUME NEW todo
      PROVE  LET n == [run EXCEPT !.todo = todo]
             IN  /\ n = [e \in RunFields |-> n[e]] /\ n.sc = run.sc /\ n.sha = run.sha
                 /\ n.bad = run.bad /\ n.blocked = run.blocked /\ n.kept = run.kept
                 /\ n.st = run.st /\ n.todo = todo
  BY <1>1 DEF IsRun, RunFields
<1>3. CASE step = "save"
  <2>1. f = Thrown(run)
    BY <1>3 DEF SaveFailed
  <2>2. PICK t : t = Thrown(run)
    OBVIOUS
  <2>3. /\ t = [e \in RunFields |-> t[e]] /\ t.sc = run.sc /\ t.sha = run.sha
        /\ t.bad = run.bad /\ t.blocked = run.blocked /\ t.kept = run.kept
        /\ Remembers(t.st) /\ IsState(t.st)
        /\ ~Asks(t.todo) /\ \A x \in {"load", "final", "fence"} : Without(t.todo, x)
    BY <2>2, ThrownIs
  <2>4. t.st = run.st \/ t.todo = Failing
    <3>1. PreparesFindings(run) => t = [run EXCEPT !.st = run.kept, !.todo = Failing]
      BY <2>2 DEF Thrown
    <3>2. ~PreparesFindings(run) => t = [run EXCEPT !.todo = <<"error">>]
      BY <2>2 DEF Thrown
    <3>3. QED
      BY <1>1, <3>1, <3>2 DEF IsRun, RunFields
  <2>5. QED
    BY <2>1, <2>2, <2>3, <2>4
<1>4. CASE step = "saveBest"
  <2>1. f = [run EXCEPT !.todo = Rest]
    BY <1>4 DEF SaveFailed
  <2> HIDE DEF f
  <2>2. /\ f = [e \in RunFields |-> f[e]] /\ f.sc = run.sc /\ f.sha = run.sha
        /\ f.bad = run.bad /\ f.blocked = run.blocked /\ f.kept = run.kept
        /\ f.st = run.st /\ f.todo = Rest
    BY <1>2, <2>1
  <2>3. QED
    BY <1>1, <2>2 DEF f
<1>5. CASE step \in {"critical", "replace"}
  <2> DEFINE more == IF step = "critical" /\ run.sc # 0 THEN "replace" ELSE "fence"
             p == <<more>>
             todo == p \o Rest
  <2>1. f = [run EXCEPT !.todo = todo]
    BY <1>5 DEF SaveFailed
  <2>2. /\ p \in Seq(Steps) /\ p # <<>> /\ ~Asks(p) /\ Without(p, "load") /\ Without(p, "final")
        /\ \A i \in DOMAIN p : p[i] # "failure" /\ p[i] # "marker"
        /\ step = "critical" /\ run.sc # 0 => Without(p, "fence")
    BY DEF Steps, Asks, MarkerSteps, Without
  <2> HIDE DEF p
  <2>3. Asks(todo) => Asks(Rest)
    BY <1>1, <2>2, PrefixIsOrderly
  <2>4. /\ Without(todo, "load") /\ Without(todo, "final")
        /\ step = "critical" /\ run.sc # 0 => run.bad \/ Without(todo, "fence")
    BY <1>1, <2>2, WithoutIs
  <2> HIDE DEF f, todo
  <2>5. /\ f = [e \in RunFields |-> f[e]] /\ f.sc = run.sc /\ f.sha = run.sha
        /\ f.bad = run.bad /\ f.blocked = run.blocked /\ f.kept = run.kept
        /\ f.st = run.st /\ f.todo = todo
    BY <1>2, <2>1
  <2>6. QED
    BY <1>1, <1>5, <2>3, <2>4, <2>5 DEF f
<1>6. QED
  BY <1>3, <1>4, <1>5

\* saveState and saveOrchestrationCriticalState.
LEMMA SaveWaits ==
    ASSUME WaitInv, GateInv', Save
    PROVE  WaitInv'
<1>1. PICK step \in {"save", "saveBest", "critical", "replace"} :
        /\ At(step)
        /\ LET new == run.sc = 0 \/ step = "replace"
               comment == [st |-> run.st, deleted |-> FALSE]
               written == IF new THEN Append(states, comment) ELSE [states EXCEPT ![run.sc] = comment]
               sc == IF new THEN Len(states) + 1 ELSE run.sc
               gone == IF new THEN FALSE ELSE states[run.sc].deleted
           IN  \/ /\ ~gone
                  /\ NothingFails /\ states' = written
                  /\ Goes([run EXCEPT !.sc = sc, !.todo = Rest])
               \/ /\ gone
                  /\ NothingFails /\ UNCHANGED states /\ Goes(SaveFailed(step))
               \/ /\ MayFail /\ states' \in {states} \cup IF gone THEN {} ELSE {written}
                  /\ GoesBadly(SaveFailed(step))
  BY DEF Save
<1> DEFINE new == run.sc = 0 \/ step = "replace"
           comment == [st |-> run.st, deleted |-> FALSE]
           written == IF new THEN Append(states, comment) ELSE [states EXCEPT ![run.sc] = comment]
           sc == IF new THEN Len(states) + 1 ELSE run.sc
           gone == IF new THEN FALSE ELSE states[run.sc].deleted
           n == [run EXCEPT !.sc = sc, !.todo = Rest]
           f == SaveFailed(step)
<1>2. /\ UNCHANGED <<markers, head, verdict>>
      /\ \/ ~gone /\ NothingFails /\ states' = written /\ Goes(n)
         \/ gone /\ NothingFails /\ UNCHANGED states /\ Goes(f)
         \/ MayFail /\ states' \in {states, written} /\ GoesBadly(f)
  BY <1>1 DEF Save, world
<1>3. new \in BOOLEAN /\ (run.sc = 0 => new)
  OBVIOUS
<1>4. /\ GateTypeInv /\ Counting /\ Pays(run) /\ Busy /\ IsRun(run) /\ Remembers(run.st)
      /\ Remembers(run.kept) /\ IsState(run.st) /\ IsState(run.kept) /\ run.todo # <<>>
      /\ Head(run.todo) = step /\ run.todo \in Seq(Steps)
      /\ Rest \in Seq(Steps) /\ run.sha \in Heads /\ head \in Heads /\ (Asks(Rest) => Asks(run.todo))
      /\ Without(Rest, "load") /\ Without(Rest, "final") /\ (run.bad \/ Without(Rest, "fence"))
  BY <1>1, StepIs
<1>5. /\ Working(run) /\ run.blocked = FALSE /\ run.bad \in BOOLEAN
      /\ Informed(run) /\ run.todo # Failing
      /\ step # "saveBest" => run.bad \/ Knows(run.st, LastMarker)
      /\ run.bad \/ Knows(run.st, LastMarker) \/ (run.todo = <<"saveBest">> /\ Rest = <<>>)
      /\ \A h \in Heads : Loses(run.st, h) => Affords(h, 1)
  BY <1>1, SaveStepIs
<1>6. /\ f = [e \in RunFields |-> f[e]] /\ f.sc = run.sc /\ f.sha = run.sha
      /\ f.bad = run.bad /\ f.blocked = run.blocked /\ f.kept = run.kept
      /\ IsState(f.st) /\ Remembers(f.st)
      /\ Asks(f.todo) => Asks(run.todo) /\ f.st = run.st
      /\ f.st = run.st \/ f.todo = Failing
      /\ Without(f.todo, "load") /\ Without(f.todo, "final")
      /\ step \in {"save", "saveBest"} \/ (step = "critical" /\ run.sc # 0) =>
            run.bad \/ Without(f.todo, "fence")
  BY <1>1, SaveFailedSays
<1>7. /\ Len(states) \in Nat /\ DOMAIN states = 1..Len(states)
      /\ \A i \in DOMAIN written :
            written[i] = comment \/ (i \in DOMAIN states /\ written[i] = states[i])
  <2> HIDE DEF new
  <2>1. QED
    BY <1>3, <1>4, WrittenShows
<1>8. /\ \A s : IsState(s) /\ Remembers(s) => Remembers(s)'
      /\ \A s, h : IsState(s) /\ Remembers(s) => (Renews(s, h)' <=> Renews(s, h)) /\ (Loses(s, h)' <=> Loses(s, h))
      /\ \A s, m : Knows(s, m)' <=> Knows(s, m)
      /\ LastMarker' = LastMarker
      /\ \A h : Deadlines(h)' = Deadlines(h)
  <2>1. \A m \in DOMAIN markers : m \in DOMAIN markers' /\ markers'[m].head = markers[m].head
    BY <1>2
  <2>2. \A s, m : Knows(s, m)' <=> Knows(s, m)
    BY DEF Knows
  <2>3. LastMarker' = LastMarker /\ \A h : Deadlines(h)' = Deadlines(h)
    BY <1>2 DEF LastMarker, Deadlines, MarkersOf
  <2>4. QED
    BY <1>2, <2>1, <2>2, <2>3, SaysTheSame
<1>9. comment.st = run.st
  OBVIOUS
<1> HIDE DEF f, n, written, comment, new
<1>10. (\A i \in DOMAIN states : Remembers(states[i].st))'
  <2>1. \A i \in DOMAIN states : Remembers(states[i].st) /\ IsState(states[i].st)
    BY <1>4 DEF WaitInv, GateTypeInv
  <2>2. \A i \in DOMAIN states' : Remembers(states'[i].st) /\ IsState(states'[i].st)
    BY <1>2, <1>4, <1>7, <1>9, <2>1
  <2>3. \A i \in DOMAIN states' : \A s : s = states'[i].st => Remembers(s)'
    BY <1>8, <2>2
  <2>4. QED
    BY <2>3 DEF Remembers
<1>11. CASE MayFail /\ states' \in {states, written} /\ GoesBadly(f)
  <2>1. /\ Counting' /\ \A h \in Heads : Affords(h, 1)'
        /\ Asks(run.todo) /\ Renews(run.st, run.sha) => \A h \in Heads : h = run.sha => Affords(h, 2)'
    BY <1>4, <1>8, <1>11, FailedIs
  <2>2. PICK r : r = f
    OBVIOUS
  <2>3. Remembers(r.st)' /\ Remembers(r.kept)'
    BY <1>4, <1>6, <1>8, <2>2
  <2>4. Asks(r.todo) /\ Renews(r.st, r.sha)' => Affords(r.sha, 2)'
    BY <1>4, <1>6, <1>8, <2>1, <2>2
  <2>5. Pays(run)'
    BY <1>4, <1>5, <1>6, <1>11, <2>1, <2>2, <2>3, <2>4, BadlyPays
  <2>6. QED
    BY <1>2, <1>4, <1>10, <2>1, <2>5, RichKeeps
<1> DEFINE paid == /\ \A h \in Heads : Affords(h, 1)
                   /\ Asks(run.todo) /\ Renews(run.st, run.sha) => Affords(run.sha, 2)
<1>12. /\ Spoiled(run) => paid
       /\ Asks(run.todo) /\ Renews(run.st, run.sha) => Affords(run.sha, 1)
  BY <1>4, AffordsLess DEF Pays
<1>13. ASSUME NothingFails
       PROVE  /\ Counting' /\ \A h, k : Affords(h, k)' = Affords(h, k)
  <2>1. \A h, k : Affords(h, k)' = Affords(h, k)
    BY <1>8, <1>13 DEF NothingFails, Affords, Happened
  <2>2. QED
    BY <1>4, <1>8, <1>13, <2>1 DEF Counting, NothingFails
<1>14. CASE gone /\ NothingFails /\ UNCHANGED states /\ Goes(f)
  <2>1. ~new /\ states[run.sc].deleted
    BY <1>14
  <2>2. run.sc # 0 /\ step # "replace"
    BY <2>1 DEF new
  <2>3. Gone(run) /\ Spoiled(run)
    BY <2>1, <2>2 DEF Gone, Spoiled
  <2>4. paid
    BY <1>12, <2>3
  <2>5. PICK r : r = f
    OBVIOUS
  <2>6. Remembers(r.st)' /\ Remembers(r.kept)'
    BY <1>4, <1>6, <1>8, <2>5
  <2>7. \A h \in Heads : Affords(h, 1)'
    BY <1>13, <1>14, <2>4
  <2>8. \A h \in Heads : h = r.sha /\ Asks(r.todo) /\ Renews(r.st, h)' => Affords(h, 2)'
    BY <1>4, <1>6, <1>8, <1>13, <1>14, <2>4, <2>5
  <2>9. Gone(r)'
    BY <1>6, <1>14, <2>1, <2>2, <2>5 DEF Gone
  <2>10. ASSUME Working(r) PROVE Informed(r)'
    <3>1. CASE run.bad
      BY <1>6, <2>5, <3>1 DEF Informed
    <3>2. CASE ~run.bad /\ f.todo = Failing
      BY <2>5, <2>9, <3>2 DEF Informed
    <3>3. CASE ~run.bad /\ f.st = run.st /\ Knows(run.st, LastMarker)
      BY <1>8, <2>5, <2>9, <3>3 DEF Informed
    <3>4. CASE ~run.bad /\ f.st = run.st /\ ~Knows(run.st, LastMarker)
      <4>1. step = "saveBest" /\ Rest = <<>>
        BY <1>5, <3>4
      <4>2. f = [run EXCEPT !.todo = Rest]
        BY <4>1 DEF f, SaveFailed
      <4>3. f.todo = <<>>
        BY <1>4, <4>1, <4>2 DEF IsRun, RunFields
      <4>4. QED
        BY <2>5, <2>10, <4>3 DEF Working
    <3>5. QED
      BY <1>6, <3>1, <3>2, <3>3, <3>4
  <2>11. run.bad \/ Without(f.todo, "fence")
    BY <1>6, <2>2
  <2>12. Pays(r)'
    <3>1. r.bad = run.bad /\ r.blocked \in BOOLEAN /\ ~r.blocked /\ r.sha \in Heads
          /\ Without(r.todo, "load") /\ Without(r.todo, "final")
      BY <1>4, <1>5, <1>6, <2>5
    <3>2. (r.bad <=> run.bad) /\ r.bad \in BOOLEAN
      BY <1>5, <3>1
    <3>3. r.bad \/ Without(r.todo, "fence")
      BY <2>5, <2>11, <3>2
    <3>4. QED
      BY <2>6, <2>7, <2>8, <2>10, <3>1, <3>2, <3>3, RichPays
  <2>13. Pays(run)'
    BY <1>14, <2>5, <2>12, GoesPays
  <2>14. QED
    BY <1>2, <1>4, <1>10, <1>13, <1>14, <2>7, <2>13, RichKeeps
<1>15. CASE ~gone /\ NothingFails /\ states' = written /\ Goes(n)
  <2>1. /\ n.sc = sc /\ n.todo = Rest /\ n.sha = run.sha /\ n.bad = run.bad
        /\ n.blocked = FALSE /\ n.kept = run.kept /\ n.st = run.st
    <3> HIDE DEF sc
    <3>1. QED
      BY <1>4, <1>5 DEF n, IsRun, RunFields
  <2>2. PICK r : r = n
    OBVIOUS
  <2>3. Remembers(r.st)' /\ Remembers(r.kept)'
    BY <1>4, <1>8, <2>1, <2>2
  <2>4. ASSUME ~new => run.sc = LastState
        PROVE  LastState' = sc /\ sc # 0 /\ states'[sc].st = run.st /\ states'[sc].deleted = FALSE
    BY <1>3, <1>4, <1>15, <2>4, WrittenCounts DEF written, comment
  <2>5. Working(r) => run.bad \/ Knows(run.st, LastMarker)
    BY <1>5, <2>1, <2>2 DEF Working
  <2> HIDE DEF sc
  <2>6. /\ (r.bad <=> run.bad) /\ r.bad \in BOOLEAN /\ r.blocked \in BOOLEAN /\ ~r.blocked /\ r.sha \in Heads
        /\ Without(r.todo, "load") /\ Without(r.todo, "final")
        /\ r.todo = Rest /\ r.st = run.st /\ r.sha = run.sha /\ r.sc = sc
    BY <1>4, <1>5, <2>1, <2>2
  <2>7. r.bad \/ Without(r.todo, "fence")
    BY <1>4, <2>6
  <2>8. CASE Spoiled(run)
    <3>1. paid
      BY <1>12, <2>8
    <3>2. ASSUME Working(r) PROVE Informed(r)'
      <4>1. CASE run.bad
        BY <2>6, <4>1 DEF Informed
      <4>2. CASE ~run.bad
        <5>1. Knows(r.st, LastMarker)'
          BY <1>8, <2>5, <2>6, <3>2, <4>2
        <5>2. new
          BY <1>15, <2>8, <4>2 DEF Spoiled, Gone, new
        <5>3. LastState' = sc
          BY <2>4, <5>2
        <5>4. QED
          BY <2>6, <5>1, <5>3 DEF Informed
      <4>3. QED
        BY <4>1, <4>2
    <3>3. \A h \in Heads : Affords(h, 1)'
      BY <1>13, <1>15, <3>1
    <3>4. \A h \in Heads : h = r.sha /\ Asks(r.todo) /\ Renews(r.st, h)' => Affords(h, 2)'
      BY <1>4, <1>8, <1>13, <1>15, <2>6, <3>1
    <3>5. Pays(r)'
      BY <2>3, <2>6, <2>7, <3>2, <3>3, <3>4, RichPays
    <3>6. Pays(run)'
      BY <1>15, <2>2, <3>5, GoesPays
    <3>7. QED
      BY <1>2, <1>4, <1>10, <1>13, <1>15, <3>3, <3>6, RichKeeps
  <2>9. CASE ~Spoiled(run)
    <3>1. ~run.bad /\ ~Gone(run) /\ run.sc = LastState
      BY <1>5, <2>9 DEF Spoiled, Informed
    <3>2. Knows(run.st, LastMarker)
      BY <1>5, <3>1 DEF Informed
    <3>3. LastState' = sc /\ sc # 0 /\ states'[sc].st = run.st /\ states'[sc].deleted = FALSE
      BY <2>4, <3>1
    <3>4. ~Gone(r)' /\ ~Spoiled(r)'
      BY <2>6, <3>1, <3>3 DEF Gone, Spoiled
    <3>5. Informed(r)'
      BY <1>8, <2>6, <3>2, <3>3 DEF Informed
    <3>6. Pays(r)'
      <4>1. \A h \in Heads : Loses(r.st, h)' => Affords(h, 1)'
        BY <1>4, <1>5, <1>8, <1>13, <1>15, <2>6
      <4>2. Asks(r.todo) /\ Renews(r.st, r.sha)' => Affords(r.sha, 1)'
        BY <1>4, <1>8, <1>12, <1>13, <1>15, <2>6
      <4>3. QED
        BY <2>3, <2>6, <2>7, <3>4, <3>5, <4>1, <4>2 DEF Pays, Without
    <3>7. Pays(run)'
      BY <1>15, <2>2, <3>6, GoesPays
    <3>8. ASSUME NEW h \in Heads, Forgotten(h)' PROVE Affords(h, 1)'
      <4>1. ~Conflict'
        BY <1>8, <3>2, <3>3 DEF Conflict, Knows
      <4>2. Loaded(h)' = run.st
        BY <1>8, <3>2, <3>3 DEF Loaded, Knows
      <4>3. CASE Loses(run.st, h)
        BY <1>5, <1>13, <1>15, <4>3
      <4>4. CASE FailureCandidate'
        <5>1. run.st.active = NoMarker /\ run.st.history = <<>>
          BY <3>3, <4>4 DEF FailureCandidate
        <5>2. LastMarker = 0
          BY <3>2, <5>1, NoMarkerIs DEF Knows
        <5>3. Deadlines(h) = {}
          BY <1>4, <5>2 DEF LastMarker, Deadlines, MarkersOf, GateTypeInv
        <5>4. Affords(h, 1)
          BY <1>4, <5>3, AffordsLess, FS_EmptySet DEF Affords
        <5>5. QED
          BY <1>13, <1>15, <5>4
      <4>5. Loses(Loaded(h), h)' => Loses(run.st, h)
        <5>1. PICK s : s = run.st
          OBVIOUS
        <5>2. Loaded(h)' = s
          BY <4>2, <5>1
        <5>3. Loses(s, h)' => Loses(s, h)
          BY <1>4, <1>8, <5>1
        <5>4. QED
          BY <5>1, <5>2, <5>3
      <4>6. QED
        BY <3>3, <3>8, <4>1, <4>3, <4>4, <4>5 DEF Forgotten
    <3>9. \A h \in Heads : Fenced(h)' => Affords(h, 1)'
      <4>1. \A h : Fenced(h)' = Fenced(h)
        BY <1>2 DEF Fenced, LastMarker
      <4>2. QED
        BY <1>13, <1>15, <4>1 DEF WaitInv
    <3>10. QED
      BY <1>2, <1>4, <1>10, <1>13, <1>15, <3>7, <3>8, <3>9 DEF WaitInv, Counting
  <2>10. QED
    BY <2>8, <2>9
<1>16. QED
  BY <1>2, <1>11, <1>14, <1>15

-----------------------------------------------------------------------------
(* How gate v1 waits: every step.                                          *)

LEMMA GateInitWaits ==
    ASSUME GateInit
    PROVE  WaitInv
<1>1. /\ markers = <<>> /\ states = <<>> /\ run = Idle(0) /\ head \in Heads
      /\ used = [answers |-> 0, pushes |-> 0, faults |-> 0]
  BY DEF GateInit
<1>2. used \in [answers : Nat, pushes : Nat, faults : Nat] /\ Happened = 0
  BY <1>1 DEF Happened
<1>3. \A h : Deadlines(h) = {}
  BY <1>1 DEF Deadlines, MarkersOf
<1>4. \A h : IsFiniteSet(Deadlines(h)) /\ Affords(h, 0) /\ Affords(h, 1)
  BY <1>2, <1>3, FS_EmptySet DEF Affords
<1>5. Pays(run)
  <2>1. /\ run.todo = <<>> /\ run.st.history = <<>> /\ run.st.active = NoMarker
        /\ run.kept.history = <<>> /\ run.kept.active = NoMarker
    BY <1>1 DEF Idle, Fresh
  <2>2. QED
    BY <2>1 DEF Pays, Remembers
<1>6. \A i \in DOMAIN states : Remembers(states[i].st)
  BY <1>1
<1>7. QED
  BY <1>1, <1>2, <1>4, <1>5, <1>6, GateInitKeeps DEF WaitInv

LEMMA GateNextWaits ==
    ASSUME WaitInv, [GateNext]_gateVars
    PROVE  WaitInv'
<1>1. GateInv'
  BY GateNextKeeps DEF WaitInv
<1>2. CASE Tick \/ Answers \/ Reacts \/ Push
  BY <1>1, <1>2, WorldWaits
<1>3. CASE DeleteState
  BY <1>1, <1>3, DeleteStateWaits
<1>4. CASE Crash
  BY <1>1, <1>4, CrashWaits
<1>5. CASE Trigger
  BY <1>1, <1>5, TriggerWaits
<1>6. CASE Load \/ Final \/ Admit \/ CloseObsolete
  BY <1>1, <1>6, LoadWaits, FinalWaits, AdmitWaits, CloseObsoleteWaits
<1>7. CASE MarkFresh \/ WatchDeadline \/ Enter \/ Advance
  BY <1>1, <1>7, MarkFreshWaits, WatchDeadlineWaits, EnterWaits, AdvanceWaits
<1>8. CASE PostMarker \/ Save \/ PublishFence \/ SetStatus
  BY <1>1, <1>8, PostMarkerWaits, SaveWaits, PublishFenceWaits, SetStatusWaits
<1>9. CASE UNCHANGED gateVars
  <2>1. UNCHANGED <<markers, states, verdict, used, run, head>>
    BY <1>9 DEF gateVars
  <2>2. /\ LastState' = LastState /\ LastMarker' = LastMarker
        /\ \A h : Fenced(h)' = Fenced(h) /\ Deadlines(h)' = Deadlines(h)
        /\ \A st, h : Loses(st, h)' = Loses(st, h) /\ Renews(st, h)' = Renews(st, h)
        /\ \A h : Forgotten(h)' = Forgotten(h)
        /\ \A o : Gone(o)' = Gone(o)
    BY <2>1, WrittenStays
  <2>3. \A h, k : Affords(h, k)' = Affords(h, k)
    BY <2>1, <2>2 DEF Affords, Happened
  <2>4. \A st : Remembers(st)' = Remembers(st)
    BY <2>1 DEF Remembers, Remembered
  <2>5. PICK r : r = run
    OBVIOUS
  <2>6. Pays(r)'
    <3>1. Spoiled(r)' = Spoiled(r) /\ Working(r)' = Working(r) /\ Pays(r)
      BY <2>2, <2>5 DEF Spoiled, Working, WaitInv
    <3>2. Informed(r)' = Informed(r)
      BY <2>1, <2>2 DEF Informed, Knows
    <3>3. QED
      BY <2>2, <2>3, <2>4, <3>1, <3>2 DEF Pays
  <2>7. Pays(run)'
    BY <2>1, <2>5, <2>6
  <2>8. (\A i \in DOMAIN states : Remembers(states[i].st))'
    BY <2>1, <2>4 DEF WaitInv
  <2>9. At("save")' = At("save")
    BY <2>1 DEF At, Busy
  <2>10. QED
    BY <1>1, <2>1, <2>2, <2>3, <2>7, <2>8, <2>9 DEF WaitInv
<1>10. QED
  BY <1>2, <1>3, <1>4, <1>5, <1>6, <1>7, <1>8, <1>9 DEF GateNext, RunSteps

\* What a run knows, or a later one will, of the requests that were answered or lost is
\* covered by as many answers and mishaps: through every failure, deleted comment, push
\* and killed run (waitCycleForState, saveState, recoverOrchestrationPersistenceFence).
THEOREM WaitInvHolds == GateSpec => []WaitInv
<1>1. GateInit => WaitInv
  BY GateInitWaits
<1>2. WaitInv /\ [GateNext]_gateVars => WaitInv'
  BY GateNextWaits
<1>3. QED
  BY <1>1, <1>2, PTL DEF GateSpec

\* How long a head is waited for is decided once, and anew only for each answer and for
\* each write or comment that was lost, however the runs go (waitCycleForState).
THEOREM WaitIsNotRenewedHolds == GateSpec => []WaitIsNotRenewed
<1>1. WaitInv => WaitIsNotRenewed
  <2>1. SUFFICES ASSUME WaitInv, NEW h \in Heads
                 PROVE  Cardinality({markers[i].deadline : i \in MarkersOf(h)})
                            <= 1 + used.answers + used.faults
    BY DEF WaitIsNotRenewed
  <2>2. Affords(h, 0) /\ Counting
    BY <2>1, StartsCounting DEF WaitInv
  <2>3. Cardinality(Deadlines(h)) \in Nat /\ used.answers \in Nat /\ used.faults \in Nat
    BY <2>2, AffordsLess DEF Counting
  <2>4. QED
    BY <2>2, <2>3 DEF Affords, Happened, Deadlines
<1>2. QED
  BY <1>1, WaitInvHolds, PTL

=============================================================================
