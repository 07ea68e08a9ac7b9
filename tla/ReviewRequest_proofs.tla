------------------------- MODULE ReviewRequest_proofs --------------------------
(***************************************************************************)
(* Proofs about ReviewRequest for every set of workflow runs, heads and    *)
(* bases and every number of invocations, seconds and faults: a run asks   *)
(* twice only after it said that it does not know what became of a POST,   *)
(* and no marker is accepted that a visible retarget may have overtaken.   *)
(***************************************************************************)
EXTENDS ReviewRequest, SequenceTheorems, FiniteSetTheorems, WellFoundedInduction, TLAPS

USE DEF gitHub, input, progress, outcome, vars

-----------------------------------------------------------------------------
(* The inductive invariant.                                                *)

BeforePost == {"list", "epoch0", "adoptPr", "adoptEpoch", "prePr", "preEpoch", "post"}

TypeInv ==
    /\ clock \in Nat
    /\ epochs \in Seq(Nat)
    /\ timeline \in 0..Len(epochs)
    /\ baseEpoch \in 0..timeline
    /\ IsFiniteSet(markers)
    /\ \A m \in markers : m.id \in 1..Cardinality(markers) /\ m.by \in 1..invocation
    /\ \A body \in inflight : body.by \in 1..invocation
    /\ invocation \in Nat \ {0}
    /\ created \in Nat
    /\ pc \in Steps \cup {"done"}

\* An invocation posts once, and GitHub handles a POST once, under a new id.
OnePost ==
    /\ \A m, n \in markers : m.id = n.id => m = n
    /\ \A m, n \in markers : m.by = n.by => m = n
    /\ \A m \in markers : \A body \in inflight : m.by # body.by
    /\ \A body, other \in inflight : body.by = other.by => body = other

\* What the invocation has posted is its own, and after its POST.
OwnPost ==
    \A posted \in markers \cup inflight :
        posted.by = invocation =>
            /\ posted.run = run
            /\ posted.scope = bound
            /\ pc \notin BeforePost

CreatedIsOwn ==
    created # 0 => \E m \in markers : m.id = created /\ m.by = invocation

\* What is about to be accepted is newer than the epoch of the first read.
Adoptable(m) == m \in markers /\ m.scope = bound

Acceptable ==
    /\ listed \subseteq markers
    /\ pc \in {"adoptPr", "adoptEpoch"} =>
          \E m \in listed : Matches(m) /\ Newer(m, baseEpoch)
    /\ pc \in {"postPr", "finalEpoch"} =>
          \E m \in markers : m.id = created /\ Adoptable(m) /\ Newer(m, baseEpoch)
    /\ \A m \in visible : Adoptable(m)
    /\ pc \in {"rereadPr", "adoptUnknown"} /\ ~flawed /\ timeline = baseEpoch =>
          \A m \in visible : Newer(m, baseEpoch)

\* A POST that outlives its invocation is one the invocation could not tell
\* anything about.
Outlived ==
    \A body \in inflight : body.by # invocation \/ pc = "done" => body.run \in unknown

Current(m) == \A e \in 1..Len(epochs) : m.at > epochs[e]

\* What the list did not show has been handled since, and once the invocation
\* goes on to its POST, every earlier marker of the run has.
Unlisted ==
    pc = "epoch0" => \A m \in Live : m \in listed \/ m.run \in unknown

EarlierUnknown ==
    pc \in {"prePr", "preEpoch", "post"} \cup MayHaveCommitted =>
        \A m \in Live :
            m.by # invocation /\ m.run = run /\ m.scope = bound /\ Current(m)
                => run \in unknown

Inv ==
    /\ TypeInv /\ OnePost /\ OwnPost /\ CreatedIsOwn
    /\ Acceptable /\ Outlived /\ Unlisted /\ EarlierUnknown
    /\ DuplicatesOnlyAfterUnknown

-----------------------------------------------------------------------------
(* What the actions leave alone, and what GitHub does with a POST.         *)

InvocationStep == Run \/ Denied \/ AnswerLost \/ Fault \/ Crash

LEMMA InvocationFrame ==
    ASSUME InvocationStep
    PROVE  /\ UNCHANGED <<gitHub, input>>
           /\ UNCHANGED inflight \/ Post \/ Denied
           /\ unknown \subseteq unknown'
BY DEF InvocationStep, Run, List, ReadEpoch, AdoptPr, AdoptEpoch, PrePr, PreEpoch, Post,
       Answered, NoAnswer, Refetch, PostPr, FinalEpoch, Reread, RereadEpoch, RereadPr,
       AdoptUnknown, Denied, AnswerLost, Fault, Crash, WorldUnchanged, Goto, Refuse,
       Report, ScopeError

LEMMA NextCases ==
    ASSUME [Next]_vars
    PROVE  \/ Environment
           \/ Handle
           \/ InvocationStep
           \/ \E r \in RunIds : Invoke(r)
           \/ UNCHANGED vars
BY DEF Next, InvocationStep, Done

LEMMA EnvironmentFrame ==
    ASSUME Environment, epochs \in Seq(Nat), clock \in Nat, timeline \in 0..Len(epochs)
    PROVE  /\ UNCHANGED <<markers, input, pc, progress, outcome>>
           /\ inflight' \subseteq inflight
           /\ withdrawn \subseteq withdrawn'
           /\ clock' \in Nat
           /\ epochs' \in Seq(Nat)
           /\ timeline' \in timeline..Len(epochs')
           /\ Len(epochs) <= Len(epochs')
           /\ \A e \in 1..Len(epochs) : epochs'[e] = epochs[e]
<1>1. CASE \E b \in Bases : Retarget(b)
  <2>1. PICK b \in Bases : Retarget(b)
    BY <1>1
  <2>2. /\ epochs' = Append(epochs, clock)
        /\ Len(epochs') = Len(epochs) + 1
        /\ epochs' \in Seq(Nat)
        /\ \A e \in 1..Len(epochs) : epochs'[e] = epochs[e]
    BY <2>1, AppendProperties DEF Retarget
  <2>3. Len(epochs) \in Nat
    BY LenProperties
  <2>4. QED
    BY <2>1, <2>2, <2>3 DEF Retarget, InvocationUnchanged
<1>2. CASE ~\E b \in Bases : Retarget(b)
  <2>1. Len(epochs) \in Nat
    BY LenProperties
  <2>2. CASE Tick
    BY <2>1, <2>2 DEF Tick, InvocationUnchanged
  <2>3. CASE \E h \in Heads : Push(h)
    BY <2>1, <2>3 DEF Push, InvocationUnchanged
  <2>4. CASE CatchUp
    BY <2>1, <2>4 DEF CatchUp, InvocationUnchanged
  <2>5. CASE \E m \in markers : Withdraw(m)
    BY <2>1, <2>5 DEF Withdraw, InvocationUnchanged
  <2>6. CASE \E body \in inflight : LosePost(body)
    BY <2>1, <2>6 DEF LosePost, InvocationUnchanged
  <2>7. QED
    BY <1>2, <2>2, <2>3, <2>4, <2>5, <2>6 DEF Environment
<1>3. QED
  BY <1>1, <1>2

\* The marker GitHub makes of a request.
MarkerOf(body) ==
    [id |-> NewId, by |-> body.by, run |-> body.run, scope |-> body.scope, at |-> clock]

LEMMA NewMarker ==
    ASSUME TypeInv, NEW body, HandlePost(body)
    PROVE  /\ body \in inflight /\ inflight' = inflight \ {body}
           /\ markers' = markers \cup {MarkerOf(body)}
           /\ \A m \in markers : m.id # MarkerOf(body).id
           /\ IsFiniteSet(markers')
           /\ Cardinality(markers) \in Nat
           /\ Cardinality(markers') = Cardinality(markers) + 1
<1>1. Cardinality(markers) \in Nat
  BY FS_CardinalityType DEF TypeInv
<1>2. \A m \in markers : m.id # MarkerOf(body).id
  BY <1>1 DEF TypeInv, MarkerOf, NewId
<1>3. MarkerOf(body) \notin markers
  BY <1>2
<1>4. markers' = markers \cup {MarkerOf(body)}
  BY DEF HandlePost, MarkerOf
<1>5. IsFiniteSet(markers') /\ Cardinality(markers') = Cardinality(markers) + 1
  <2> DEFINE x == MarkerOf(body)
  <2> HIDE DEF x
  <2>1. IsFiniteSet(markers)
    BY DEF TypeInv
  <2>2. x \notin markers /\ markers' = markers \cup {x}
    BY <1>3, <1>4 DEF x
  <2>3. QED
    BY <2>1, <2>2, FS_AddElement
<1>6. QED
  BY <1>1, <1>2, <1>4, <1>5 DEF HandlePost

-----------------------------------------------------------------------------
(* Each part of the invariant is kept.                                     *)

LEMMA InitInv == Init => Inv
<1> SUFFICES ASSUME Init PROVE Inv
  OBVIOUS
<1>1. epochs \in Seq(Nat) /\ Len(epochs) \in Nat
  <2>1. <<>> \in Seq(Nat) /\ <<0>> \in Seq(Nat)
    OBVIOUS
  <2>2. epochs \in Seq(Nat)
    BY <2>1 DEF Init
  <2>3. QED
    BY <2>2, LenProperties
<1>2. IsFiniteSet(markers) /\ markers = {}
  BY FS_EmptySet DEF Init
<1>3. TypeInv
  BY <1>1, <1>2 DEF Init, TypeInv, Steps
<1>4. QED
  BY <1>2, <1>3 DEF Init, Inv, OnePost, OwnPost, CreatedIsOwn, Acceptable, Outlived,
     Unlisted, EarlierUnknown, MayHaveCommitted, DuplicatesOnlyAfterUnknown, Live, Current

LEMMA TypeKept == Inv /\ [Next]_vars => TypeInv'
<1> SUFFICES ASSUME Inv, [Next]_vars PROVE TypeInv'
  OBVIOUS
<1> USE DEF Inv, TypeInv
<1>0. Len(epochs) \in Nat /\ timeline \in Nat
  BY LenProperties
<1>1. CASE Environment
  <2>1. timeline' \in timeline..Len(epochs') /\ epochs' \in Seq(Nat) /\ clock' \in Nat
    BY <1>1, EnvironmentFrame
  <2>2. Len(epochs') \in Nat
    BY <2>1, LenProperties
  <2>3. UNCHANGED <<markers, input, pc, progress>> /\ inflight' \subseteq inflight
    BY <1>1, EnvironmentFrame
  <2>4. QED
    BY <1>0, <2>1, <2>2, <2>3
<1>2. CASE Handle
  <2>1. PICK body \in inflight : HandlePost(body)
    BY <1>2 DEF Handle
  <2>2. \A m \in markers' : m.id \in 1..Cardinality(markers') /\ m.by \in 1..invocation
    BY <2>1, NewMarker DEF MarkerOf, NewId
  <2>3. created' \in Nat
    BY <2>1, NewMarker DEF HandlePost, NewId
  <2>4. QED
    BY <2>1, <2>2, <2>3, NewMarker DEF HandlePost
<1>3. CASE InvocationStep
  <2>1. UNCHANGED <<gitHub, input>>
    BY <1>3, InvocationFrame
  <2>2. \A body \in inflight' : body.by \in 1..invocation
    BY <1>3, InvocationFrame DEF Post, Denied
  <2>3. /\ baseEpoch' \in {baseEpoch, timeline}
        /\ created' \in {created, 0}
        /\ pc' \in Steps \cup {"done"}
    BY <1>3 DEF InvocationStep, Run, List, ReadEpoch, AdoptPr, AdoptEpoch, PrePr, PreEpoch,
       Post, Answered, NoAnswer, Refetch, PostPr, FinalEpoch, Reread, RereadEpoch, RereadPr,
       AdoptUnknown, Denied, AnswerLost, Fault, Crash, WorldUnchanged, Goto, Refuse,
       Report, ScopeError, ServedEpoch, Steps
  <2>4. QED
    BY <1>0, <2>1, <2>2, <2>3
<1>4. CASE \E r \in RunIds : Invoke(r)
  BY <1>0, <1>4 DEF Invoke, Steps
<1>5. CASE UNCHANGED vars
  BY <1>5
<1>6. QED
  BY <1>1, <1>2, <1>3, <1>4, <1>5, NextCases

LEMMA OnePostKept == Inv /\ [Next]_vars => OnePost' /\ OwnPost' /\ CreatedIsOwn'
<1> SUFFICES ASSUME Inv, [Next]_vars PROVE OnePost' /\ OwnPost' /\ CreatedIsOwn'
  OBVIOUS
<1> USE DEF Inv
<1>1. CASE Environment
  <2>1. UNCHANGED <<markers, input, pc, created>> /\ inflight' \subseteq inflight
    BY <1>1, EnvironmentFrame DEF TypeInv
  <2>2. QED
    BY <2>1 DEF OnePost, OwnPost, CreatedIsOwn
<1>2. CASE Handle
  <2>1. PICK body \in inflight : HandlePost(body)
    BY <1>2 DEF Handle
  <2>2. /\ inflight' = inflight \ {body}
        /\ markers' = markers \cup {MarkerOf(body)}
        /\ \A m \in markers : m.id # MarkerOf(body).id
    BY <2>1, NewMarker
  <2>3. UNCHANGED <<input, pc>>
    BY <2>1 DEF HandlePost
  <2>4. OnePost' /\ OwnPost'
    BY <2>1, <2>2, <2>3 DEF OnePost, OwnPost, MarkerOf
  <2>5. CreatedIsOwn'
    <3>1. CASE pc = "answer" /\ body.by = invocation
      <4>1. created' = MarkerOf(body).id /\ MarkerOf(body).by = invocation
        BY <2>1, <3>1 DEF HandlePost, MarkerOf
      <4>2. QED
        BY <2>2, <2>3, <4>1 DEF CreatedIsOwn
    <3>2. CASE ~(pc = "answer" /\ body.by = invocation)
      <4>1. created' = created
        BY <2>1, <3>2 DEF HandlePost
      <4>2. QED
        BY <2>2, <2>3, <4>1 DEF CreatedIsOwn
    <3>3. QED
      BY <3>1, <3>2
  <2>6. QED
    BY <2>4, <2>5
<1>3. CASE InvocationStep
  <2>1. UNCHANGED <<gitHub, input>>
    BY <1>3, InvocationFrame
  <2>2. created' \in {created, 0} /\ (pc \notin BeforePost => pc' \notin BeforePost)
    BY <1>3 DEF InvocationStep, Run, List, ReadEpoch, AdoptPr, AdoptEpoch, PrePr, PreEpoch,
       Post, Answered, NoAnswer, Refetch, PostPr, FinalEpoch, Reread, RereadEpoch, RereadPr,
       AdoptUnknown, Denied, AnswerLost, Fault, Crash, WorldUnchanged, Goto, Refuse,
       Report, ScopeError, BeforePost
  <2>3. CreatedIsOwn'
    BY <2>1, <2>2 DEF CreatedIsOwn
  <2>4. CASE Post
    <3>1. pc \in BeforePost /\ pc' \notin BeforePost
      BY <2>4 DEF Post, Goto, BeforePost
    <3>2. \A posted \in markers \cup inflight : posted.by # invocation
      BY <3>1 DEF OwnPost
    <3>3. inflight' = inflight \cup {[by |-> invocation, run |-> run, scope |-> bound]}
      BY <2>4 DEF Post
    <3>4. OnePost' /\ OwnPost'
      BY <2>1, <3>1, <3>2, <3>3 DEF OnePost, OwnPost
    <3>5. QED
      BY <2>3, <3>4
  <2>5. CASE ~Post
    <3>1. inflight' \subseteq inflight
      BY <1>3, <2>5, InvocationFrame DEF Denied
    <3>2. OnePost' /\ OwnPost'
      BY <2>1, <2>2, <3>1 DEF OnePost, OwnPost
    <3>3. QED
      BY <2>3, <3>2
  <2>6. QED
    BY <2>4, <2>5
<1>4. CASE \E r \in RunIds : Invoke(r)
  <2>1. /\ UNCHANGED <<markers, inflight>>
        /\ invocation' = invocation + 1
        /\ created' = 0
    BY <1>4 DEF Invoke
  <2>2. \A posted \in markers \cup inflight : posted.by # invocation'
    BY <2>1 DEF TypeInv
  <2>3. QED
    BY <2>1, <2>2 DEF OnePost, OwnPost, CreatedIsOwn
<1>5. CASE UNCHANGED vars
  BY <1>5 DEF OnePost, OwnPost, CreatedIsOwn
<1>6. QED
  BY <1>1, <1>2, <1>3, <1>4, <1>5, NextCases

\* An invocation ends with its POST still under way only in one of the reports
\* that leave the POST undecided.
LEMMA OutlivedKept == Inv /\ [Next]_vars => Outlived'
<1> SUFFICES ASSUME Inv, [Next]_vars PROVE Outlived'
  OBVIOUS
<1> USE DEF Inv
<1>1. CASE Environment
  <2>1. UNCHANGED <<input, pc, outcome>> /\ inflight' \subseteq inflight
    BY <1>1, EnvironmentFrame DEF TypeInv
  <2>2. QED
    BY <2>1 DEF Outlived
<1>2. CASE Handle
  BY <1>2 DEF Handle, HandlePost, Outlived
<1>3. CASE InvocationStep
  <2> DEFINE OwnBody == \E body \in inflight : body.by = invocation
  <2>1. UNCHANGED <<gitHub, input>> /\ unknown \subseteq unknown'
    BY <1>3, InvocationFrame
  <2>2. pc \in BeforePost => ~OwnBody
    BY DEF OwnPost
  <2>3. pc = "finalEpoch" => ~OwnBody
    BY DEF Acceptable, CreatedIsOwn, OnePost, TypeInv
  <2>4. OwnBody => \A body \in inflight : body.by = invocation => body.run = run
    BY DEF OwnPost
  <2>5. CASE Denied
    <3>1. PICK body \in inflight : body.by = invocation /\ inflight' = inflight \ {body}
      BY <2>5 DEF Denied
    <3>2. QED
      BY <2>1, <3>1 DEF Outlived, OnePost
  <2>6. CASE Post
    BY <2>1, <2>6 DEF Post, Goto, Outlived
  <2>7. CASE ~Denied /\ ~Post
    <3>1. UNCHANGED inflight
      BY <1>3, <2>7, InvocationFrame
    <3>2. pc' = "done" /\ OwnBody => run \in unknown'
      BY <1>3, <2>2, <2>3, <2>7 DEF InvocationStep, Run, List, ReadEpoch, AdoptPr,
         AdoptEpoch, PrePr, PreEpoch, Answered, NoAnswer, Refetch, PostPr, FinalEpoch,
         Reread, RereadEpoch, RereadPr, AdoptUnknown, AnswerLost, Fault, Crash, Goto,
         Refuse, Report, ScopeError, LateError, BeforePost, MayHaveCommitted, Undecided,
         Steps
    <3>3. QED
      BY <2>1, <2>4, <3>1, <3>2 DEF Outlived
  <2>8. QED
    BY <2>5, <2>6, <2>7
<1>4. CASE \E r \in RunIds : Invoke(r)
  <2>1. UNCHANGED <<inflight, unknown>> /\ pc = "done"
    BY <1>4 DEF Invoke
  <2>2. QED
    BY <2>1 DEF Outlived
<1>5. CASE UNCHANGED vars
  BY <1>5 DEF Outlived
<1>6. QED
  BY <1>1, <1>2, <1>3, <1>4, <1>5, NextCases

LEMMA AcceptableKept == Inv /\ [Next]_vars => Acceptable'
<1> SUFFICES ASSUME Inv, [Next]_vars PROVE Acceptable'
  OBVIOUS
<1> USE DEF Inv
<1>0. Len(epochs) \in Nat /\ timeline \in Nat /\ baseEpoch \in Nat
  BY LenProperties DEF TypeInv
<1>1. CASE Environment
  <2>1. UNCHANGED <<markers, input, pc, progress>>
    BY <1>1, EnvironmentFrame DEF TypeInv
  <2>2. /\ timeline' \in Nat /\ timeline <= timeline'
        /\ \A e \in 1..Len(epochs) : epochs'[e] = epochs[e]
    <3>1. Len(epochs') \in Nat
      BY <1>1, EnvironmentFrame, LenProperties DEF TypeInv
    <3>2. QED
      BY <1>0, <1>1, <3>1, EnvironmentFrame DEF TypeInv
  <2>3. \A m : Newer(m, baseEpoch)' <=> Newer(m, baseEpoch)
    BY <1>0, <2>1, <2>2 DEF Newer, TypeInv
  <2>4. timeline' = baseEpoch' => timeline = baseEpoch
    BY <1>0, <2>1, <2>2 DEF TypeInv
  <2>5. QED
    BY <2>1, <2>3, <2>4 DEF Acceptable, Adoptable, Matches
<1>2. CASE Handle
  <2>1. PICK body \in inflight : HandlePost(body)
    BY <1>2 DEF Handle
  <2>2. /\ markers \subseteq markers'
        /\ UNCHANGED <<epochs, timeline, input, pc, listed, baseEpoch, visible, flawed>>
        /\ pc # "answer" => UNCHANGED created
    BY <2>1 DEF HandlePost
  <2>3. QED
    BY <2>2 DEF Acceptable, Adoptable, Matches, Newer
<1>3. CASE InvocationStep
  <2>1. UNCHANGED <<gitHub, input>>
    BY <1>3, InvocationFrame
  <2> USE DEF Acceptable, Adoptable, Goto, Refuse, Report
  <2>2. CASE List
    BY <2>1, <2>2 DEF List, Live
  <2>3. CASE ReadEpoch
    BY <2>1, <2>3 DEF ReadEpoch, ServedEpoch, Matches, Newer
  <2>4. CASE Refetch
    <3>1. UNCHANGED progress
      BY <2>4 DEF Refetch
    <3>2. CASE pc' = "postPr"
      <4>1. PICK m \in markers : m.id = created /\ Newer(m, baseEpoch)
        BY <2>4, <3>2 DEF Refetch, Own, Live, EpochUnchanged, ServedEpoch
      <4>2. created # 0
        BY <4>1 DEF TypeInv
      <4>3. m.by = invocation
        BY <4>1, <4>2 DEF CreatedIsOwn, OnePost
      <4>4. m.scope = bound
        BY <4>3 DEF OwnPost
      <4>5. QED
        BY <2>1, <3>1, <3>2, <4>1, <4>4 DEF Newer
    <3>3. CASE pc' # "postPr"
      BY <2>1, <2>4, <3>1, <3>3 DEF Refetch
    <3>4. QED
      BY <3>2, <3>3
  <2>5. CASE Reread
    BY <2>1, <2>5 DEF Reread, Live, Matches
  <2>6. CASE RereadEpoch
    BY <2>1, <2>6 DEF RereadEpoch, Newer
  <2>7. CASE Fault
    BY <2>1, <2>7 DEF Fault, LateError
  <2>8. CASE AdoptPr \/ AdoptEpoch \/ PrePr \/ PreEpoch \/ Post \/ Answered \/ NoAnswer
    BY <2>1, <2>8 DEF AdoptPr, AdoptEpoch, PrePr, PreEpoch, Post, Answered, NoAnswer,
       ScopeError, Matches, Newer
  <2>9. CASE PostPr \/ FinalEpoch \/ RereadPr \/ AdoptUnknown
    BY <2>1, <2>9 DEF PostPr, FinalEpoch, RereadPr, AdoptUnknown, Newer
  <2>10. CASE Denied \/ AnswerLost \/ Crash
    BY <2>1, <2>10 DEF Denied, AnswerLost, Crash
  <2>11. QED
    BY <1>3, <2>2, <2>3, <2>4, <2>5, <2>6, <2>7, <2>8, <2>9, <2>10 DEF InvocationStep, Run
<1>4. CASE \E r \in RunIds : Invoke(r)
  BY <1>4 DEF Invoke, Acceptable
<1>5. CASE UNCHANGED vars
  BY <1>5 DEF Acceptable, Adoptable, Matches, Newer
<1>6. QED
  BY <1>1, <1>2, <1>3, <1>4, <1>5, NextCases

\* A marker of the run that the list did not show belongs to a POST that outlived
\* its invocation.
LEMMA UnlistedKept == Inv /\ [Next]_vars => Unlisted'
<1> SUFFICES ASSUME Inv, [Next]_vars PROVE Unlisted'
  OBVIOUS
<1> USE DEF Inv
<1>1. CASE Environment
  BY <1>1, EnvironmentFrame DEF TypeInv, Unlisted, Live
<1>2. CASE Handle
  <2>1. PICK body \in inflight : HandlePost(body)
    BY <1>2 DEF Handle
  <2>2. /\ markers' = markers \cup {MarkerOf(body)}
        /\ UNCHANGED <<withdrawn, pc, listed, outcome>>
    BY <2>1, NewMarker DEF HandlePost
  <2>3. pc = "epoch0" => body.run \in unknown
    BY <2>1 DEF OwnPost, BeforePost, Outlived
  <2>4. QED
    BY <2>2, <2>3 DEF Unlisted, Live, MarkerOf
<1>3. CASE InvocationStep
  <2>1. UNCHANGED <<gitHub, input>>
    BY <1>3, InvocationFrame
  <2>2. CASE List
    BY <2>1, <2>2 DEF List, Unlisted, Live, Goto, Refuse, Report
  <2>3. CASE ~List
    <3>1. pc' # "epoch0"
      BY <1>3, <2>3 DEF InvocationStep, Run, ReadEpoch, AdoptPr, AdoptEpoch, PrePr,
         PreEpoch, Post, Answered, NoAnswer, Refetch, PostPr, FinalEpoch, Reread,
         RereadEpoch, RereadPr, AdoptUnknown, Denied, AnswerLost, Fault, Crash, Goto,
         Refuse, Report, ScopeError
    <3>2. QED
      BY <3>1 DEF Unlisted
  <2>4. QED
    BY <2>2, <2>3
<1>4. CASE \E r \in RunIds : Invoke(r)
  BY <1>4 DEF Invoke, Unlisted
<1>5. CASE UNCHANGED vars
  BY <1>5 DEF Unlisted, Live
<1>6. QED
  BY <1>1, <1>2, <1>3, <1>4, <1>5, NextCases

LEMMA CurrentKept ==
    ASSUME Environment, TypeInv, NEW m, Current(m)'
    PROVE  Current(m)
<1>1. /\ Len(epochs) <= Len(epochs')
      /\ \A e \in 1..Len(epochs) : epochs'[e] = epochs[e]
      /\ epochs' \in Seq(Nat)
  BY EnvironmentFrame DEF TypeInv
<1>2. Len(epochs) \in Nat /\ Len(epochs') \in Nat
  BY <1>1, LenProperties DEF TypeInv
<1>3. QED
  BY <1>1, <1>2 DEF Current

LEMMA CurrentIsNewer ==
    ASSUME TypeInv, NEW m, Current(m)
    PROVE  Newer(m, timeline)
BY LenProperties DEF TypeInv, Current, Newer

LEMMA EarlierKept == Inv /\ [Next]_vars => EarlierUnknown'
<1> SUFFICES ASSUME Inv, [Next]_vars PROVE EarlierUnknown'
  OBVIOUS
<1> USE DEF Inv
<1>1. CASE Environment
  BY <1>1, EnvironmentFrame, CurrentKept DEF TypeInv, EarlierUnknown, Live
<1>2. CASE Handle
  <2>1. PICK body \in inflight : HandlePost(body)
    BY <1>2 DEF Handle
  <2>2. /\ markers' = markers \cup {MarkerOf(body)}
        /\ UNCHANGED <<epochs, withdrawn, input, pc, outcome>>
    BY <2>1, NewMarker DEF HandlePost
  <2>3. body.by # invocation => body.run \in unknown
    BY <2>1 DEF Outlived
  <2>4. QED
    BY <2>2, <2>3 DEF EarlierUnknown, Live, Current, MarkerOf
<1>3. CASE InvocationStep
  <2>1. UNCHANGED <<gitHub, input>> /\ unknown \subseteq unknown'
    BY <1>3, InvocationFrame
  <2>2. CASE ReadEpoch
    <3>1. CASE pc' = "prePr"
      <4>1. pc = "epoch0" /\ \A m \in listed : ~(Matches(m) /\ Newer(m, timeline))
        BY <2>2, <3>1 DEF ReadEpoch, Goto, Refuse, Report
      <4>2. ASSUME NEW m \in Live, m.run = run, m.scope = bound, Current(m)
            PROVE  run \in unknown
        BY <4>1, <4>2, CurrentIsNewer DEF Unlisted, Matches
      <4>3. QED
        BY <2>1, <3>1, <4>2 DEF EarlierUnknown, Live, Current
    <3>2. CASE pc' # "prePr"
      BY <2>2, <3>2 DEF ReadEpoch, Goto, Refuse, Report, EarlierUnknown, MayHaveCommitted
    <3>3. QED
      BY <3>1, <3>2
  <2>3. CASE ~ReadEpoch
    <3> DEFINE Posting == {"prePr", "preEpoch", "post"} \cup MayHaveCommitted
    <3>1. pc' \in Posting => pc \in Posting
      BY <1>3, <2>3 DEF InvocationStep, Run, List, AdoptPr, AdoptEpoch, PrePr,
         PreEpoch, Post, Answered, NoAnswer, Refetch, PostPr, FinalEpoch, Reread,
         RereadEpoch, RereadPr, AdoptUnknown, Denied, AnswerLost, Fault, Crash, Goto,
         Refuse, Report, ScopeError, MayHaveCommitted
    <3>2. QED
      BY <2>1, <3>1 DEF EarlierUnknown, Live, Current
  <2>4. QED
    BY <2>2, <2>3
<1>4. CASE \E r \in RunIds : Invoke(r)
  BY <1>4 DEF Invoke, EarlierUnknown, MayHaveCommitted
<1>5. CASE UNCHANGED vars
  BY <1>5 DEF EarlierUnknown, Live, Current
<1>6. QED
  BY <1>1, <1>2, <1>3, <1>4, <1>5, NextCases

LEMMA DuplicatesKept == Inv /\ [Next]_vars => DuplicatesOnlyAfterUnknown'
<1> SUFFICES ASSUME Inv, [Next]_vars,
                    NEW m \in Live', NEW n \in Live', m # n,
                    m.run = n.run, m.scope = n.scope, Current(m)', Current(n)'
             PROVE  m.run \in unknown'
  BY DEF DuplicatesOnlyAfterUnknown, Current
<1> USE DEF Inv
<1>1. ASSUME m \in Live, n \in Live, Current(m), Current(n), unknown \subseteq unknown'
      PROVE  m.run \in unknown'
  BY <1>1 DEF DuplicatesOnlyAfterUnknown, Current
<1>2. CASE Environment
  <2>1. m \in Live /\ n \in Live /\ unknown \subseteq unknown'
    BY <1>2, EnvironmentFrame DEF TypeInv, Live
  <2>2. Current(m) /\ Current(n)
    BY <1>2, CurrentKept
  <2>3. QED
    BY <1>1, <2>1, <2>2
<1>3. CASE Handle
  <2>1. PICK body \in inflight : HandlePost(body)
    BY <1>3 DEF Handle
  <2>2. /\ markers' = markers \cup {MarkerOf(body)}
        /\ UNCHANGED <<epochs, withdrawn, unknown>>
    BY <2>1, NewMarker DEF HandlePost
  <2>3. Current(m) /\ Current(n)
    BY <2>2 DEF Current
  <2>4. ASSUME NEW old \in Live, old.run = body.run, old.scope = body.scope, Current(old)
        PROVE  body.run \in unknown
    <3>1. CASE body.by # invocation \/ pc = "done"
      BY <2>1, <3>1 DEF Outlived
    <3>2. CASE body.by = invocation /\ pc # "done"
      <4>1. body.run = run /\ body.scope = bound /\ pc \in MayHaveCommitted
        BY <2>1, <3>2 DEF OwnPost, TypeInv, BeforePost, MayHaveCommitted, Steps
      <4>2. old.by # invocation
        BY <2>1, <3>2 DEF OnePost, Live
      <4>3. QED
        BY <2>4, <4>1, <4>2 DEF EarlierUnknown
    <3>3. QED
      BY <3>1, <3>2
  <2>5. CASE m = MarkerOf(body)
    <3>1. n \in Live /\ n.run = body.run /\ n.scope = body.scope
      BY <2>2, <2>5 DEF Live, MarkerOf
    <3>2. QED
      BY <2>2, <2>3, <2>4, <2>5, <3>1 DEF MarkerOf
  <2>6. CASE n = MarkerOf(body)
    <3>1. m \in Live /\ m.run = body.run /\ m.scope = body.scope
      BY <2>2, <2>6 DEF Live, MarkerOf
    <3>2. QED
      BY <2>2, <2>3, <2>4, <2>6, <3>1 DEF MarkerOf
  <2>7. CASE m # MarkerOf(body) /\ n # MarkerOf(body)
    BY <1>1, <2>2, <2>3, <2>7 DEF Live
  <2>8. QED
    BY <2>5, <2>6, <2>7
<1>4. CASE InvocationStep
  BY <1>1, <1>4, InvocationFrame DEF Live, Current
<1>5. CASE \E r \in RunIds : Invoke(r)
  BY <1>1, <1>5 DEF Invoke, Live, Current
<1>6. CASE UNCHANGED vars
  BY <1>1, <1>6 DEF Live, Current
<1>7. QED
  BY <1>2, <1>3, <1>4, <1>5, <1>6, NextCases

-----------------------------------------------------------------------------
(* The theorems.                                                           *)

LEMMA NextInv == Inv /\ [Next]_vars => Inv'
BY TypeKept, OnePostKept, AcceptableKept, OutlivedKept, UnlistedKept, EarlierKept,
   DuplicatesKept DEF Inv

\* The invariant holds of every behaviour of begin-review.
THEOREM InvHolds == Spec => []Inv
BY InitInv, NextInv, PTL DEF Spec

\* A workflow run asks twice for the same scope in the same epoch only if one of
\* its invocations reported that it does not know what became of its POST, and
\* GitHub handled that POST afterwards: through lost answers, adoption, crashes,
\* reruns and retargets, whatever their number.
THEOREM DuplicatesOnlyAfterUnknownHolds == Spec => []DuplicatesOnlyAfterUnknown
BY InvHolds, PTL DEF Inv

LEMMA LessThanWellFounded == IsWellFoundedOn({ss \in Nat \X Nat : ss[1] < ss[2]}, Nat)
BY NatLessThanWellFounded DEF OpToRel

\* The oldest of some markers is one of them.
LEMMA OldestIsOne ==
    ASSUME NEW ms, ms # {}, \A m \in ms : m.id \in Nat
    PROVE  \E m \in ms : m.id = Oldest(ms)
<1> DEFINE Ids == {m.id : m \in ms}
           Below == {ss \in Nat \X Nat : ss[1] < ss[2]}
<1>1. Ids \subseteq Nat /\ Ids # {}
  OBVIOUS
<1>2. PICK i \in Ids : \A j \in Ids : <<j, i>> \notin Below
  <2> HIDE DEF Ids
  <2>1. IsWellFoundedOn(Below, Nat)
    BY LessThanWellFounded
  <2> HIDE DEF Below
  <2>2. QED
    BY <1>1, <2>1, WFMin
<1>3. \A m \in ms : i <= m.id
  <2>1. TAKE m \in ms
  <2>2. m.id \in Ids /\ m.id \in Nat /\ i \in Nat
    BY <1>1
  <2>3. ~ (m.id < i)
    BY <1>2, <2>2
  <2>4. QED
    BY <2>2, <2>3
<1>4. Oldest(ms) \in Ids
  BY <1>3 DEF Oldest
<1>5. QED
  BY <1>4

LEMMA AcceptanceIsNewer ==
    ASSUME Inv, [Next]_vars, report \notin Accepted, report' \in Accepted
    PROVE  \E m \in markers :
              m.id = accepted' /\ m.scope = bound /\ Newer(m, timeline)
<1> USE DEF Inv
<1>1. AdoptEpoch \/ FinalEpoch \/ AdoptUnknown
  <2>1. InvocationStep
    <3>1. report' # report /\ report' # "none"
      BY DEF Accepted
    <3>2. CASE Environment
      BY <3>1, <3>2, EnvironmentFrame DEF TypeInv
    <3>3. CASE Handle
      BY <3>1, <3>3 DEF Handle, HandlePost
    <3>4. CASE \E r \in RunIds : Invoke(r)
      BY <3>1, <3>4 DEF Invoke
    <3>5. QED
      BY <3>1, <3>2, <3>3, <3>4, NextCases
  <2>2. QED
    BY <2>1 DEF InvocationStep, Run, List, ReadEpoch, AdoptPr, PrePr,
       PreEpoch, Post, Answered, NoAnswer, Refetch, PostPr, Reread,
       RereadEpoch, RereadPr, Denied, AnswerLost, Fault, Crash, Goto,
       Refuse, Report, ScopeError, LateError, Accepted
<1>2. CASE AdoptEpoch
  <2> DEFINE Candidates == {m \in listed : Matches(m) /\ Newer(m, baseEpoch)}
  <2>1. /\ pc = "adoptEpoch" /\ timeline = baseEpoch
        /\ accepted' = Oldest(Candidates)
    BY <1>2 DEF AdoptEpoch, Refuse, Report, Accepted, EpochUnchanged, ServedEpoch
  <2>2. Candidates # {} /\ Candidates \subseteq markers
    BY <2>1 DEF Acceptable
  <2>3. \A m \in Candidates : m.id \in Nat
    BY <2>2 DEF TypeInv
  <2>4. \E m \in Candidates : m.id = Oldest(Candidates)
    <3> HIDE DEF Candidates
    <3>1. QED
      BY <2>2, <2>3, OldestIsOne
  <2>5. QED
    BY <2>1, <2>2, <2>4 DEF Matches
<1>3. CASE FinalEpoch
  BY <1>3 DEF FinalEpoch, Goto, Report, EpochUnchanged, ServedEpoch, Acceptable, Adoptable
<1>4. CASE AdoptUnknown
  <2>1. /\ pc = "adoptUnknown" /\ timeline = baseEpoch /\ ~flawed /\ visible # {}
        /\ accepted' = Oldest(visible)
    BY <1>4 DEF AdoptUnknown, Report, Accepted, EpochUnchanged, ServedEpoch
  <2>2. \A m \in visible : m \in markers /\ m.scope = bound /\ Newer(m, timeline)
    BY <2>1 DEF Acceptable, Adoptable
  <2>3. \A m \in visible : m.id \in Nat
    BY <2>2 DEF TypeInv
  <2>4. QED
    BY <2>1, <2>2, <2>3, OldestIsOne
<1>5. QED
  BY <1>1, <1>2, <1>3, <1>4

\* A marker is accepted only for the scope the run is bound to, and in a step
\* that sees no retarget at or after its second: for any number of retargets, and
\* however late the timeline tells of them.
THEOREM AcceptedAfterRetargetHolds == Spec => AcceptedAfterRetarget
<1>1. Inv /\ [Next]_vars =>
        (report \notin Accepted /\ report' \in Accepted =>
           \E m \in markers :
              /\ m.id = accepted'
              /\ m.scope = bound
              /\ Newer(m, timeline))
  BY AcceptanceIsNewer
<1>2. QED
  BY <1>1, InvHolds, PTL DEF Spec, AcceptedAfterRetarget
=============================================================================
