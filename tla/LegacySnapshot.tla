---------------------------- MODULE LegacySnapshot -----------------------------
(***************************************************************************)
(* How gate v1 decides from live evidence (packages/action/src/gate.mjs    *)
(* and core.mjs): loadSnapshot reads four channels side by side while      *)
(* Codex and people go on posting, reduceProviderArtifacts and             *)
(* reduceThreadFindings reduce what was read, and                          *)
(* passGateFromCurrentEvidence reads everything once more before success.  *)
(*                                                                         *)
(* The evidence of one head is a log of what happened on the pull request. *)
(* A channel read at moment m serves what the first m entries made; an     *)
(* attempt at a snapshot lasts from the moment it starts to the moment it  *)
(* settles, and each of its reads happens at any moment between.           *)
(*                                                                         *)
(* Simplifications.  Carriers of people, and carriers whose ids or commit  *)
(* fields are not canonical, are left out; a thread has one Codex comment. *)
(* The eyes reactions and the request budget matter to the verdict only by *)
(* failing; that failure is channel "reactions".  An entry's place in the  *)
(* log is its id, so a later object has the larger id.                     *)
(***************************************************************************)
EXTENDS Integers, Sequences, FiniteSets

CONSTANTS
    Shapes,       \* bound: what Codex posts, [source, form, author, rel, ordered]
    RareShapes,   \* bound: those it posts once at most
    ThreadRels,   \* bound: the commits its threads are on
    Gaps,         \* bound: the seconds between two posts
    MaxThreads,   \* bound: threads
    MaxEvents,    \* bound: entries in the log
    MaxFaults     \* bound: failures of requests

ASSUME BoundsAssumption == MaxEvents \in Nat /\ MaxFaults \in Nat

VARIABLES
    log,          \* what happened on the pull request
    phase,        \* "first" or "final" whole snapshot, "done"
    attempt,      \* of loadSnapshot, 1 or 2
    since,        \* the moment the attempt started
    certified,    \* what the first snapshot was reduced to
    outcome,      \* how the run ended
    faults,       \* failures so far
    began         \* history: the moment the run started

vars == <<log, phase, attempt, since, certified, outcome, faults, began>>

-----------------------------------------------------------------------------
(* What is on the pull request.                                            *)

Sources == {"comment", "review"}
Relations == {"current", "ancestor", "nonancestor", "invalid"}
InScope == {"current", "ancestor"}

ASSUME ShapesAssumption ==
    \A s \in Shapes \cup RareShapes :
        s.source \in Sources /\ s.rel \in Relations /\ s.ordered \in BOOLEAN
ASSUME ThreadsAssumption == ThreadRels \subseteq Relations
ASSUME GapsAssumption == Gaps \subseteq Nat

\* Times are the seconds GitHub gives; 0 is a revision time that cannot be ordered.
Times == Nat

Posts == [type : {"post"}, shape : Shapes \cup RareShapes, at : Times]
Threads == [type : {"thread"}, rel : ThreadRels, at : Times]
Moves == [type : {"resolve", "reopen"}, on : Nat, at : Times]

\* Seconds never go back; two entries may share one.
LastAt == IF log = <<>> THEN 1 ELSE log[Len(log)].at

Upto(m, type) == {i \in 1..m : log[i].type = type}

\* parseCodexIssueCommentArtifact and parseCodexReviewArtifact: "author" tells the
\* official app from an account that only has its name, "form" what the body says;
\* an unordered carrier has a revision time that is no time, or before its creation.
CommentKind(c) ==
    CASE c.author # "app" -> "malformed"
      [] c.form = "progress" -> IF c.ordered THEN "progress" ELSE "malformed"
      [] c.form = "clean" -> "clean"
      [] c.form = "findings" -> "finding"
      [] OTHER -> "malformed"

ReviewKind(c) ==
    CASE c.author # "app" -> "malformed"
      [] c.form = "findings" -> "finding"
      [] c.form = "approved" -> "clean"
      [] OTHER -> "malformed"

\* providerArtifactIdentity.
Artifact(i) ==
    LET c == log[i].shape
    IN  [id |-> i, source |-> c.source, rel |-> c.rel,
         kind |-> IF c.source = "comment" THEN CommentKind(c) ELSE ReviewKind(c),
         at |-> IF c.ordered THEN log[i].at ELSE 0]

Resolved(t, m) ==
    LET moves == {i \in 1..m : log[i].type \in {"resolve", "reopen"} /\ log[i].on = t}
    IN  moves # {} /\ log[CHOOSE i \in moves : \A j \in moves : j <= i].type = "resolve"

-----------------------------------------------------------------------------
(* What a read serves at moment m.                                         *)

SeenComments(m) == {Artifact(i) : i \in {j \in Upto(m, "post") : log[j].shape.source = "comment"}}
SeenReviews(m) == {Artifact(i) : i \in {j \in Upto(m, "post") : log[j].shape.source = "review"}}

\* The parent review, the REST comment and the GraphQL thread of a Codex thread
\* come into being together, and are read through three channels.
SeenThreads(m) == Upto(m, "thread")
ThreadStates(m) == [t \in SeenThreads(m) |-> Resolved(t, m)]

Channels == {"comments", "reactions", "reviewComments", "reviews", "threads"}

\* One way the reads of an attempt can fall: the two reads of the thread states,
\* loadReviewThreads and validateClosingReviewThreadStates, are "threads" and "closing".
Views(from, to) ==
    LET parts == {[reviews |-> SeenReviews(m), parents |-> SeenThreads(m)] : m \in from..to}
        states == {<<ThreadStates(p[1]), ThreadStates(p[2])>> :
                      p \in {q \in (from..to) \X (from..to) : q[1] <= q[2]}}
    IN  {[comments |-> c, children |-> rc, reviews |-> r.reviews, parents |-> r.parents,
          threads |-> t[1], drifted |-> t[1] # t[2]] :
            c \in {SeenComments(m) : m \in from..to}, rc \in {SeenThreads(m) : m \in from..to},
            r \in parts, t \in states}

-----------------------------------------------------------------------------
(* collectCodexThreadEvidence: REST and GraphQL must tell the same threads. *)

Validated(v) == {t \in v.children : t \in DOMAIN v.threads /\ t \in v.parents}

ThreadsTransient(v) ==
    \/ \E t \in DOMAIN v.threads : t \notin v.children
    \/ \E t \in v.children : t \notin DOMAIN v.threads \/ t \notin v.parents

ThreadFindings(v) == {t \in Validated(v) : ~v.threads[t]}

\* A COMMENTED review whose child comment was not loaded: what
\* commentedReviewMayBeInlineParent leaves to the caller.
Childless(v) == v.parents \ Validated(v)

-----------------------------------------------------------------------------
(* reduceProviderArtifacts.                                                *)

\* sortCodexArtifactsNewestFirst, comments being listed before reviews.
NewerFirst(a, b) ==
    \/ a.at > b.at
    \/ a.at = b.at /\ a.source = "comment" /\ b.source = "review"
    \/ a.at = b.at /\ a.source = b.source /\ a.id > b.id

StrictlyLater(a, b) ==
    /\ a.at # 0 /\ b.at # 0
    /\ \/ a.at > b.at
       \/ a.at = b.at /\ a.source = "review" /\ b.source = "review" /\ a.id > b.id

Cleans(A) == {a \in A : a.kind = "clean"}
Orderable(A) == {a \in A : a.at # 0}
InScopeOf(A) == {a \in A : a.rel \in InScope}
ScopedFindings(A) == InScopeOf({a \in A : a.kind = "finding"})

\* The newest clean of the head or of an ancestor, and those looked at before it
\* was found, with those of its second and those that have no place in the order.
SelectedCleans(A) ==
    {a \in InScopeOf(Orderable(Cleans(A))) :
        \A b \in InScopeOf(Orderable(Cleans(A))) \ {a} : NewerFirst(a, b)}

ClassifiedCleans(A) ==
    {a \in Cleans(A) :
        a.at = 0 \/ \A s \in SelectedCleans(A) : a = s \/ NewerFirst(a, s) \/ a.at = s.at}

SupersededByAny(A, f) ==
    \E s \in SelectedCleans(A) : s.rel = "current"

\* A finding is forgiven only by the selected clean, of the head itself and later.
Superseded(A, f) ==
    \E s \in SelectedCleans(A) : s.rel = "current" /\ StrictlyLater(s, f)

BlockingFindings(A) == {f \in ScopedFindings(A) : ~Superseded(A, f)}

\* Commits that could not be compared, artifacts without a place in the order,
\* and two that share a second in a way the server does not order.
Ambiguous(A) ==
    LET relevant == Orderable(ScopedFindings(A) \cup InScopeOf(ClassifiedCleans(A)))
    IN  \E a, b \in relevant :
            /\ a # b /\ a.at = b.at
            /\ a.source # b.source \/ a.source = "comment"

ProviderErrors(A) ==
    \/ \E a \in A : a.kind = "malformed"
    \/ \E a \in {f \in A : f.kind = "finding"} \cup ClassifiedCleans(A) :
            a.rel = "invalid" \/ (a.at = 0 /\ a.rel \in InScope)
    \/ Ambiguous(A)

-----------------------------------------------------------------------------
(* loadSnapshotOnce.                                                       *)

\* A comparison of commits that fails for now leaves every commit but the head's
\* own out of the scope, with an error that asks for another attempt.
Compared(rel, fails) == IF fails /\ rel # "current" THEN "unknown" ELSE rel
ComparedAll(A, fails) == {[a EXCEPT !.rel = Compared(a.rel, fails)] : a \in A}

ProviderUnknown(A) ==
    \E a \in {f \in A : f.kind = "finding"} \cup ClassifiedCleans(A) : a.rel = "unknown"

\* reduceThreadFindings.
ThreadsWith(v, rels, fails) == {t \in ThreadFindings(v) : Compared(log[t].rel, fails) \in rels}

Certificate(A) ==
    [selected |-> SelectedCleans(A),
     relations |-> {<<f, Superseded(A, f)>> : f \in ScopedFindings(A)}]

\* buildCurrentReviewEvidence: every channel was read.  On the first attempt a
\* childless review may still be waiting for its children.
Whole(v, fails, last) ==
    LET A == ComparedAll(v.comments \cup v.reviews, fails)
        childless == Childless(v) # {} /\ ~ThreadsTransient(v)
    IN  [findings |-> BlockingFindings(A) # {} \/ ThreadsWith(v, InScope, fails) # {},
         errors |-> \/ ProviderErrors(A) \/ (childless /\ last)
                    \/ ThreadsWith(v, {"invalid"}, fails) # {},
         transient |-> \/ ThreadsTransient(v) \/ (childless /\ ~last)
                       \/ ProviderUnknown(A) \/ ThreadsWith(v, {"unknown"}, fails) # {},
         clean |-> \E s \in SelectedCleans(A) : s.rel = "current",
         certificate |-> Certificate(A)]

ProviderCompleteByComments(missing) == "comments" \notin missing

ProviderComplete(missing) == {"comments", "reviews"} \cap missing = {}

\* buildFulfilledProviderEvidence: some channel was not read.  Only what complete
\* channels confirm counts.
Fulfilled(v, missing) ==
    LET provider == ProviderComplete(missing)
        threaded == {"reviewComments", "reviews", "threads"} \cap missing = {}
        childless == threaded /\ ~ThreadsTransient(v) /\ Childless(v) # {}
        A == (IF "comments" \in missing THEN {} ELSE v.comments)
             \cup (IF "reviews" \in missing THEN {} ELSE v.reviews)
    IN  [findings |-> \/ provider /\ BlockingFindings(A) # {}
                      \/ threaded /\ ThreadsWith(v, InScope, FALSE) # {},
         errors |-> \/ provider /\ (ProviderErrors(A) \/ childless)
                    \/ threaded /\ ThreadsWith(v, {"invalid"}, FALSE) # {}]

\* What loadSnapshot makes of a snapshot it got: an error is final, something
\* transient is read again once and then an error; a finding blocks all the same.
Settled(e, last) ==
    CASE e.errors \/ (e.transient /\ last) -> IF e.findings THEN "failure" ELSE "error"
      [] e.transient /\ ~e.errors /\ ~last -> "retry"
      [] OTHER -> IF e.findings THEN "failure" ELSE IF e.clean THEN "clean" ELSE "pending"

\* settleEvidenceLoads: some reads failed, for good or for now.
Broken(e, deterministic, last) ==
    IF e.findings /\ (deterministic \/ e.errors \/ last) THEN "failure"
    ELSE IF deterministic \/ e.errors \/ last THEN "error" ELSE "retry"

-----------------------------------------------------------------------------
(* One attempt, with the request that fails in it.                         *)

NoFault == [on |-> "nothing", deterministic |-> FALSE]

Faults == {NoFault}
          \cup [on : Channels \cup {"markerReactions"}, deterministic : BOOLEAN]
          \cup [on : {"compare"}, deterministic : {FALSE}]

Attempted(v, fault, last) ==
    LET missing == ({fault.on} \cap Channels) \cup (IF v.drifted THEN {"threads"} ELSE {})
        whole == Whole(v, fault.on = "compare", last)
    IN  IF missing # {} THEN Broken(Fulfilled(v, missing), fault.deterministic, last)
        ELSE IF fault.on = "markerReactions" THEN Broken(whole, fault.deterministic, last)
        ELSE Settled(whole, last)

-----------------------------------------------------------------------------
(* The run and the world around it.                                        *)

NoCertificate == [selected |-> {}, relations |-> {}]

Init ==
    /\ log = <<>> /\ phase = "waiting" /\ attempt = 1 /\ since = 0 /\ began = 0
    /\ certified = NoCertificate /\ outcome = "none" /\ faults = 0

runVars == <<phase, attempt, since, certified, outcome, faults, began>>

Happens(entries) ==
    /\ phase # "done" /\ Len(log) < MaxEvents
    /\ \E e \in entries : log' = Append(log, e)
    /\ UNCHANGED runVars

Seconds == IF Upto(Len(log), "post") = {} THEN {LastAt} ELSE {LastAt + g : g \in Gaps}

\* External: Codex posts a comment or a review, or opens a thread.
CodexPosts ==
    Happens([type : {"post"}, at : Seconds,
             shape : Shapes \cup {s \in RareShapes : \A i \in Upto(Len(log), "post") :
                                                        log[i].shape \notin RareShapes}])
CodexOpensThread ==
    /\ Cardinality(SeenThreads(Len(log))) < MaxThreads
    /\ Happens([type : {"thread"}, rel : ThreadRels, at : {LastAt}])

\* External: people resolve and reopen threads.
PeopleResolve ==
    Happens([type : {"resolve"}, on : {t \in SeenThreads(Len(log)) : ~Resolved(t, Len(log))},
             at : {LastAt}])
PeopleReopen ==
    Happens([type : {"reopen"}, on : {t \in SeenThreads(Len(log)) : Resolved(t, Len(log))},
             at : {LastAt}])

\* processPullRequest comes to its first snapshot.
Start ==
    /\ phase = "waiting" /\ phase' = "first"
    /\ since' = Len(log) /\ began' = Len(log)
    /\ UNCHANGED <<log, attempt, certified, outcome, faults>>

End(how) == phase' = "done" /\ outcome' = how /\ UNCHANGED <<attempt, since, certified>>

DecideAtOnce(verdict, certificate) == End(IF verdict = "clean" THEN "success" ELSE verdict)

\* reconcileCurrentReviewEvidence and passGateFromCurrentEvidence, after a snapshot
\* that needs no other attempt.
Decide(verdict, certificate) ==
    IF phase = "first" /\ verdict = "clean"
    THEN /\ phase' = "final" /\ attempt' = 1 /\ since' = Len(log)
         /\ certified' = certificate /\ UNCHANGED outcome
    ELSE IF phase = "final" /\ verdict \in {"clean", "pending"}
    THEN End(IF verdict = "clean" /\ certificate = certified THEN "success" ELSE "error")
    ELSE End(verdict)

\* MAX_WHOLE_SNAPSHOT_ATTEMPTS is 2.
LastAttempt == attempt = 2

\* The five reads of an attempt have settled.
Settle ==
    /\ phase \in {"first", "final"}
    /\ \E v \in Views(since, Len(log)), fault \in IF faults < MaxFaults THEN Faults ELSE {NoFault} :
        LET verdict == Attempted(v, fault, LastAttempt)
            certificate == Whole(v, FALSE, FALSE).certificate
        IN  /\ faults' = faults + (IF fault = NoFault THEN 0 ELSE 1)
            /\ IF verdict = "retry"
               THEN /\ attempt' = attempt + 1 /\ since' = Len(log)
                    /\ UNCHANGED <<phase, certified, outcome>>
               ELSE Decide(verdict, certificate)
    /\ UNCHANGED <<log, began>>

Next ==
    \/ CodexPosts \/ CodexOpensThread \/ PeopleResolve \/ PeopleReopen
    \/ Start \/ Settle

Spec == Init /\ [][Next]_vars

-----------------------------------------------------------------------------
(* Properties.                                                             *)

\* What blocks the head at moment m, in the pull request itself.  A finding is
\* forgiven by the newest clean, and of two in one second none is the newest.
World(m) == SeenComments(m) \cup SeenReviews(m)
Open(m) == {t \in SeenThreads(m) : ~Resolved(t, m) /\ log[t].rel \in InScope}
Forgiven(f, A) ==
    \E c \in Cleans(A) :
        /\ c.rel = "current" /\ StrictlyLater(c, f)
        /\ \A d \in InScopeOf(Orderable(Cleans(A))) : d = c \/ StrictlyLater(c, d)
Blocking(m) ==
    {f.id : f \in {g \in ScopedFindings(World(m)) : ~Forgiven(g, World(m))}} \cup Open(m)

\* A finding that blocks the head during the whole of the last reading is never
\* missed, whatever is posted, resolved, reopened or fails to load meanwhile.
StandingFindingBlocks ==
    outcome = "success" =>
        \A i \in 1..Len(log) : \E m \in since..Len(log) : i \notin Blocking(m)

\* The five reads fall at different moments, and still success is never a mixture
\* of several: unless a thread was opened or reopened meanwhile, there was one moment
\* of the run at which the head had a clean of its own and nothing blocked it.
SuccessWasTrue ==
    (outcome = "success" /\ \A i \in began + 1..Len(log) : log[i].type \in {"post", "resolve"})
        => \E m \in began..Len(log) :
            Blocking(m) = {} /\ \E s \in SelectedCleans(World(m)) : s.rel = "current"

\* A failure is never made of a partial snapshot: at some moment of the last
\* reading something did block the head.
FailureWasTrue ==
    outcome = "failure" => \E m \in since..Len(log) : Blocking(m) # {}

\* On a pull request that nobody touches during the run, with no failed request,
\* the newest word of Codex on the head or an ancestor decides, if every word can
\* be read and ordered: earlier findings are forgiven, later ones are not.
NewestWordDecides ==
    LET words == {a \in InScopeOf(World(Len(log))) : a.kind \in {"clean", "finding"}}
        quiet == outcome # "none" /\ Len(log) = began /\ faults = 0
        readable == \A a \in World(Len(log)) :
                       /\ a.kind # "malformed" /\ a.rel # "invalid" /\ a.at # 0
                       /\ \A b \in World(Len(log)) \ {a} : a.at # b.at
        last == CHOOSE a \in words : \A b \in words : b.at <= a.at
    IN  (quiet /\ readable /\ \A t \in SeenThreads(Len(log)) : log[t].rel # "invalid")
        => (outcome = "success"
            <=> /\ words # {} /\ last.kind = "clean" /\ last.rel = "current"
                /\ Open(Len(log)) = {})

=============================================================================
