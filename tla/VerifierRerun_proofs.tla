------------------------ MODULE VerifierRerun_proofs -------------------------
(***************************************************************************)
(* Proofs about VerifierRerun for every set of scopes and every number of  *)
(* polls, runs, controllers and faults: an ambiguous POST is never         *)
(* repeated, a report that blames something else is given only when the    *)
(* POST had no effect, and what is reported as observed is so.             *)
(***************************************************************************)
EXTENDS VerifierRerun, SequenceTheorems, WellFoundedInduction, TLAPS

USE DEF outside, own, vars

-----------------------------------------------------------------------------
(* The inductive invariant.                                                *)

Answers == {"none", "created", "denied", "rejected"}

TypeInv ==
    /\ scope \in Scopes
    /\ runs \in Seq(Runs)
    /\ inflight \in SUBSET ((1..Controllers) \X Nat)
    /\ answer \in Answers
    /\ controller \in 1..Controllers
    /\ pc \in BeforePost \cup AfterPost \cup {"done"}
    /\ baseline \in Seq(Runs)
    /\ report \in Reports
    /\ effects \in [1..Controllers -> Nat]

\* A controller has at most one request, either under way or with an effect; one
\* that has not posted yet has none.
Requests(c) == {m \in inflight : m[1] = c}

OnePost ==
    /\ \A m, n \in inflight : m[1] = n[1] => m = n
    /\ \A m \in inflight : effects[m[1]] = 0
    /\ \A c \in 1..Controllers : effects[c] <= 1
    /\ \A c \in 1..Controllers :
          c > controller \/ (c = controller /\ pc \in BeforePost)
             => effects[c] = 0 /\ Requests(c) = {}

\* What the controller knows of its POST.
AnswerIsTrue ==
    /\ pc \in BeforePost => answer = "none"
    /\ answer = "denied" => ~OwnEffect
    /\ report # "none" => pc = "done"

\* The baseline: nothing was active in it, and it holds the target.
Chosen ==
    pc \in (BeforePost \cup AfterPost) \ {"pr1", "list1"} =>
        /\ target \in 1..Len(baseline)
        /\ \A r \in 1..Len(baseline) : ~Active(baseline[r])

Inv == TypeInv /\ OnePost /\ AnswerIsTrue /\ SubmittedFailsClosed /\ Chosen

-----------------------------------------------------------------------------
(* The list of runs.                                                       *)

LEMMA FunctionIsSequence ==
    ASSUME NEW S, NEW n \in Nat, NEW f \in [1..n -> S]
    PROVE  f \in Seq(S) /\ Len(f) = n
<1>1. f \in Seq(S)
  BY SeqDef
<1>2. QED
  BY <1>1, LenProperties

LEMMA CancelledRuns ==
    ASSUME NEW inventory \in Seq(Runs)
    PROVE  /\ Cancelled(inventory) \in Seq(Runs)
           /\ Len(Cancelled(inventory)) = Len(inventory)
<1> DEFINE n == Len(inventory)
<1>1. n \in Nat /\ inventory \in [1..n -> Runs]
  BY LenProperties
<1>2. Cancelled(inventory) \in [1..n -> Runs]
  BY <1>1 DEF Cancelled, Runs, Phases
<1>3. QED
  BY <1>1, <1>2, FunctionIsSequence

LEMMA RerunKeepsRuns ==
    ASSUME runs \in Seq(Runs), NEW r, Rerun(r)
    PROVE  runs' \in Seq(Runs)
<1> DEFINE C == Cancelled(runs)
<1>1. C \in Seq(Runs)
  BY CancelledRuns
<1>2. runs' = [C EXCEPT ![r].attempt = @ + 1, ![r].phase = "requested"]
  BY DEF Rerun
<1> HIDE DEF C
<1>3. CASE r \in 1..Len(C)
  <2>1. [[C[r] EXCEPT !.attempt = @ + 1] EXCEPT !.phase = "requested"] \in Runs
    <3>1. C[r] \in Runs
      BY <1>1, <1>3, ElementOfSeq
    <3>2. C[r].attempt + 1 \in Nat \ {0}
      BY <3>1 DEF Runs
    <3>3. QED
      BY <3>1, <3>2 DEF Runs, Phases
  <2>2. runs' = [C EXCEPT ![r] = [[C[r] EXCEPT !.attempt = @ + 1] EXCEPT !.phase = "requested"]]
    BY <1>1, <1>2, <1>3
  <2>3. QED
    BY <1>1, <1>3, <2>1, <2>2
<1>4. CASE r \notin 1..Len(C)
  <2>1. r \notin DOMAIN C
    BY <1>1, <1>4, LenProperties
  <2>2. runs' = C
    BY <1>1, <1>2, <2>1, LenProperties
  <2>3. QED
    BY <1>1, <2>2
<1>5. QED
  BY <1>3, <1>4

\* Every set of naturals has a least element, every bounded one a largest.
LessThan == {ss \in Nat \X Nat : ss[1] < ss[2]}

LEMMA LessThanWellFounded == IsWellFoundedOn(LessThan, Nat)
BY NatLessThanWellFounded DEF OpToRel, LessThan

LEMMA SmallestOf ==
    ASSUME NEW S, S \subseteq Nat, S # {}
    PROVE  \E i \in S : \A j \in S : i <= j
<1>1. PICK i \in S : \A j \in S : <<j, i>> \notin LessThan
  BY LessThanWellFounded, WFMin
<1>2. ASSUME NEW j \in S PROVE i <= j
  <2>1. i \in Nat /\ j \in Nat
    OBVIOUS
  <2>2. <<j, i>> \in Nat \X Nat
    BY <2>1
  <2>3. ~ (j < i)
    BY <1>1, <2>1 DEF LessThan
  <2>4. QED
    BY <2>1, <2>3
<1>3. QED
  BY <1>2

LEMMA LargestInRange ==
    ASSUME NEW n \in Nat, NEW S, S \subseteq 1..n, S # {}
    PROVE  \E i \in S : \A j \in S : j <= i
<1> DEFINE T == {n - i : i \in S}
<1>1. T \subseteq Nat /\ T # {}
  OBVIOUS
<1>2. PICK k \in T : \A j \in T : k <= j
  <2> HIDE DEF T
  <2>1. QED
    BY <1>1, SmallestOf
<1>3. PICK i \in S : k = n - i
  OBVIOUS
<1>4. ASSUME NEW j \in S PROVE j <= i
  <2>1. n - j \in T
    OBVIOUS
  <2>2. n - i <= n - j /\ i \in Int /\ j \in Int
    BY <1>2, <1>3, <2>1
  <2>3. QED
    BY <2>2
<1>5. QED
  BY <1>4

LEMMA CurrentInRange ==
    ASSUME NEW inventory \in Seq(Runs), NEW s, Current(inventory, s) # 0
    PROVE  Current(inventory, s) \in 1..Len(inventory)
<1> DEFINE matching == {i \in 1..Len(inventory) : inventory[i].scope = s}
<1>1. matching # {} /\ Len(inventory) \in Nat
  BY LenProperties DEF Current
<1>2. \E i \in matching : \A j \in matching : j <= i
  BY <1>1, LargestInRange
<1>3. QED
  BY <1>1, <1>2 DEF Current

LEMMA InitialRuns ==
    ASSUME Init PROVE runs \in Seq(Runs)
<1>1. PICK s \in Scopes, phase \in {"running", "completed"} :
          runs = <<[scope |-> s, attempt |-> 1, phase |-> phase]>>
  BY DEF Init
<1>2. [scope |-> s, attempt |-> 1, phase |-> phase] \in Runs
  BY DEF Runs, Phases
<1>3. QED
  BY <1>1, <1>2

-----------------------------------------------------------------------------
(* The invariant is inductive.                                             *)

LEMMA InvInitially == Init => Inv
<1> SUFFICES ASSUME Init PROVE Inv
  OBVIOUS
<1>1. TypeInv
  BY InitialRuns, BoundsAssumption
     DEF Init, TypeInv, Answers, BeforePost, Reports
<1>2. OnePost
  BY BoundsAssumption DEF Init, OnePost, Requests
<1>3. AnswerIsTrue /\ SubmittedFailsClosed /\ Chosen
  BY DEF Init, AnswerIsTrue, SubmittedFailsClosed, Chosen, BeforePost
<1>4. QED
  BY <1>1, <1>2, <1>3 DEF Inv

\* What GitHub does with a request: it has its one effect, or none.
LEMMA HandlePostKeepsInv ==
    ASSUME Inv, NEW m \in inflight, HandlePost(m)
    PROVE  Inv'
<1> USE DEF Inv
<1>1. m[1] \in 1..Controllers /\ inflight' = inflight \ {m} /\ UNCHANGED <<controller, pc, report>>
  BY DEF TypeInv, HandlePost, ControllerUnchanged
<1>2. effects' = effects \/ effects' = [effects EXCEPT ![m[1]] = @ + 1]
  BY DEF HandlePost
<1>3. TypeInv'
  <2>1. runs' \in Seq(Runs)
    BY RerunKeepsRuns DEF TypeInv, HandlePost
  <2>2. answer' \in Answers
    BY DEF TypeInv, HandlePost, Answers
  <2>3. QED
    BY <1>1, <1>2, <2>1, <2>2 DEF TypeInv, HandlePost, ControllerUnchanged
<1>4. OnePost'
  <2> DEFINE k == m[1]
  <2>1. k \in 1..Controllers /\ effects[k] = 0 /\ effects \in [1..Controllers -> Nat]
    BY <1>1 DEF OnePost, TypeInv
  <2>2. \A n \in inflight' : n[1] # k /\ n[1] \in 1..Controllers
    BY <1>1 DEF OnePost, TypeInv
  <2>3. ~(k > controller \/ (k = controller /\ pc \in BeforePost))
    BY <1>1 DEF OnePost, Requests
  <2> HIDE DEF k
  <2>4. effects' = effects \/ effects' = [effects EXCEPT ![k] = 1]
    BY <1>2, <2>1 DEF k
  <2>5. /\ effects'[k] \in {0, 1}
        /\ \A c \in 1..Controllers : c # k => effects'[c] = effects[c]
    BY <2>1, <2>4
  <2>6. QED
    BY <1>1, <2>1, <2>2, <2>3, <2>5 DEF OnePost, Requests
<1>5. AnswerIsTrue' /\ SubmittedFailsClosed'
  <2>1. ~OwnEffect => ~OwnEffect'
    BY <1>1, <1>2 DEF TypeInv, OwnEffect
  <2>2. answer' \in {"denied", "rejected"} /\ answer' # answer => ~OwnEffect'
    <3> SUFFICES ASSUME answer' \in {"denied", "rejected"}, answer' # answer
                 PROVE  ~OwnEffect'
      OBVIOUS
    <3>1. m[1] = controller /\ effects' = effects
      BY DEF HandlePost
    <3>2. effects[controller] = 0 /\ \A n \in inflight' : n[1] # controller
      BY <1>1, <3>1 DEF OnePost
    <3>3. QED
      BY <1>1, <3>1, <3>2 DEF OwnEffect
  <2>3. answer' # answer => pc = "response"
    BY DEF HandlePost, TypeInv
  <2>4. QED
    BY <1>1, <2>1, <2>2, <2>3 DEF AnswerIsTrue, SubmittedFailsClosed, BeforePost
<1>6. Chosen'
  BY DEF Chosen, HandlePost, ControllerUnchanged
<1>7. QED
  BY <1>3, <1>4, <1>5, <1>6

\* The other steps of GitHub and its users create and answer no request.
LEMMA OutsideKeepsInv ==
    ASSUME Inv, runs' \in Seq(Runs), scope' \in Scopes, inflight' \subseteq inflight,
           UNCHANGED <<answer, effects>>, ControllerUnchanged
    PROVE  Inv'
<1> USE DEF Inv, ControllerUnchanged
<1>1. TypeInv'
  BY DEF TypeInv
<1>2. OnePost'
  BY DEF TypeInv, OnePost, Requests
<1>3. AnswerIsTrue' /\ SubmittedFailsClosed'
  BY DEF AnswerIsTrue, SubmittedFailsClosed, OwnEffect
<1>4. Chosen'
  BY DEF Chosen
<1>5. QED
  BY <1>1, <1>2, <1>3, <1>4

LEMMA GitHubKeepsInv == Inv /\ GitHub => Inv'
<1> SUFFICES ASSUME Inv, GitHub PROVE Inv'
  OBVIOUS
<1>1. runs \in Seq(Runs) /\ scope \in Scopes
  BY DEF Inv, TypeInv
<1>2. CASE \E s \in Scopes : MoveScope(s)
  BY <1>1, <1>2, OutsideKeepsInv DEF MoveScope
<1>3. CASE NewRun
  <2>1. [scope |-> scope, attempt |-> 1, phase |-> "requested"] \in Runs
    BY <1>1 DEF Runs, Phases
  <2>2. runs' \in Seq(Runs)
    BY <1>1, <1>3, <2>1, CancelledRuns, AppendProperties DEF NewRun
  <2>3. QED
    BY <1>1, <1>3, <2>2, OutsideKeepsInv DEF NewRun
<1>4. CASE \E r \in 1..Len(runs) : HumanRerun(r)
  BY <1>1, <1>4, RerunKeepsRuns, OutsideKeepsInv DEF HumanRerun
<1>5. CASE \E r \in 1..Len(runs) : Progress(r)
  <2>1. PICK r \in 1..Len(runs) : Progress(r)
    BY <1>5
  <2>2. PICK phase \in Phases : runs' = [runs EXCEPT ![r].phase = phase]
    BY <2>1 DEF Progress, Phases
  <2>3. [runs[r] EXCEPT !.phase = phase] \in Runs
    <3>1. runs[r] \in Runs
      BY <1>1, ElementOfSeq
    <3>2. QED
      BY <3>1 DEF Runs
  <2>4. runs' \in Seq(Runs)
    BY <1>1, <2>2, <2>3
  <2>5. QED
    BY <1>1, <2>1, <2>4, OutsideKeepsInv DEF Progress
<1>6. CASE \E m \in inflight : HandlePost(m)
  BY <1>6, HandlePostKeepsInv
<1>7. CASE \E m \in inflight : LosePost(m)
  BY <1>1, <1>7, OutsideKeepsInv DEF LosePost
<1>8. QED
  BY <1>2, <1>3, <1>4, <1>5, <1>6, <1>7 DEF GitHub

\* A step of the controller that posts nothing: it blames something else only
\* before its POST, or when that was denied.
Blames == {"stale", "missing", "denied", "unavailable"}

LEMMA StepKeepsInv ==
    ASSUME Inv, UNCHANGED <<outside, controller, effects>>,
           pc' \in BeforePost \cup AfterPost \cup {"done"},
           pc' \in BeforePost => pc \in BeforePost,
           report' \in Reports, report' # "none" => pc' = "done",
           report' \in Blames => pc \in BeforePost \/ answer = "denied",
           baseline' \in Seq(Runs), Chosen'
    PROVE  Inv'
<1> USE DEF Inv
<1>1. TypeInv'
  BY DEF TypeInv
<1>2. OnePost'
  BY DEF TypeInv, OnePost, Requests
<1>3. AnswerIsTrue'
  BY DEF AnswerIsTrue, OwnEffect
<1>4. SubmittedFailsClosed'
  <2>1. pc \in BeforePost => ~OwnEffect
    BY DEF TypeInv, OnePost, Requests, OwnEffect
  <2>2. QED
    BY <2>1 DEF AnswerIsTrue, SubmittedFailsClosed, OwnEffect, Blames
<1>5. QED
  BY <1>1, <1>2, <1>3, <1>4

LEMMA ReadScopesKeepsInv == Inv /\ ReadScopes => Inv'
<1> SUFFICES ASSUME Inv, ReadScopes PROVE Inv'
  OBVIOUS
<1>1. PICK label \in {"pr1", "pr2", "pr3"}, next \in {"list1", "list3", "list4"} :
          /\ ReadScope(label, next)
          /\ <<label, next>> \in {<<"pr1", "list1">>, <<"pr2", "list3">>, <<"pr3", "list4">>}
  BY DEF ReadScopes
<1>2. /\ pc = label /\ UNCHANGED <<outside, controller, effects, baseline, target>>
      /\ \/ pc' = next /\ report' = report
         \/ pc' = "done" /\ report' = (IF label = "pr3" THEN "pending" ELSE "stale")
  BY <1>1 DEF ReadScope, Goto, Report, AfterSubmission, GitHubUnchanged
<1>3. baseline' \in Seq(Runs) /\ report \in Reports /\ (report # "none" => pc = "done")
  BY <1>2 DEF Inv, TypeInv, AnswerIsTrue
<1>4. Chosen'
  BY <1>1, <1>2 DEF Inv, Chosen, BeforePost, AfterPost, Active
<1>5. QED
  BY <1>1, <1>2, <1>3, <1>4, StepKeepsInv DEF BeforePost, AfterPost, Reports, Blames

LEMMA FirstListKeepsInv == Inv /\ FirstList => Inv'
<1> SUFFICES ASSUME Inv, FirstList PROVE Inv'
  OBVIOUS
<1>1. runs \in Seq(Runs) /\ baseline \in Seq(Runs) /\ pc = "list1"
  BY DEF Inv, TypeInv, FirstList
<1>2. Current(runs, bound) # 0 => Current(runs, bound) \in 1..Len(runs)
  BY <1>1, CurrentInRange
<1>3. Chosen' /\ baseline' \in Seq(Runs)
  BY <1>1, <1>2 DEF FirstList, Chosen, BeforePost, AfterPost, Active, Goto, Report
<1>4. report \in Reports /\ (report # "none" => pc = "done")
  BY DEF Inv, TypeInv, AnswerIsTrue
<1>5. QED
  BY <1>1, <1>3, <1>4, StepKeepsInv
     DEF FirstList, Goto, Report, GitHubUnchanged, BeforePost, AfterPost, Reports, Blames

LEMMA ConfirmListsKeepsInv == Inv /\ ConfirmLists => Inv'
<1> SUFFICES ASSUME Inv, ConfirmLists PROVE Inv'
  OBVIOUS
<1>1. /\ pc \in {"list2", "list3"} /\ UNCHANGED <<outside, controller, effects, baseline, target>>
      /\ \/ pc' \in {"pr2", "post"} /\ report' = report
         \/ pc' = "done" /\ report' = "pending"
  BY DEF ConfirmLists, ConfirmList, Goto, Report, GitHubUnchanged
<1>2. baseline' \in Seq(Runs) /\ report \in Reports /\ (report # "none" => pc = "done")
  BY <1>1 DEF Inv, TypeInv, AnswerIsTrue
<1>3. Chosen'
  BY <1>1 DEF Inv, Chosen, BeforePost, AfterPost, Active
<1>4. QED
  BY <1>1, <1>2, <1>3, StepKeepsInv DEF BeforePost, AfterPost, Reports, Blames

\* The one POST: the controller has no request yet, and cannot come back to it.
LEMMA PostKeepsInv == Inv /\ Post => Inv'
<1> SUFFICES ASSUME Inv, Post PROVE Inv'
  OBVIOUS
<1> DEFINE m == <<controller, target>>
<1>1. /\ pc = "post" /\ pc' = "response" /\ inflight' = inflight \cup {m}
      /\ UNCHANGED <<scope, runs, answer, controller, target, baseline, report, effects>>
  BY DEF Post, Goto
<1>2. controller \in 1..Controllers /\ target \in Nat /\ m[1] = controller
  BY <1>1 DEF Inv, TypeInv, Chosen, BeforePost
<1>3. Requests(controller) = {} /\ effects[controller] = 0
  BY <1>1, <1>2 DEF Inv, OnePost, BeforePost
<1>4. answer = "none" /\ report = "none"
  BY <1>1 DEF Inv, AnswerIsTrue, BeforePost
<1>5. TypeInv'
  BY <1>1, <1>2 DEF Inv, TypeInv, BeforePost, AfterPost
<1>6. OnePost'
  BY <1>1, <1>2, <1>3 DEF Inv, TypeInv, OnePost, Requests, BeforePost
<1>7. AnswerIsTrue' /\ SubmittedFailsClosed' /\ Chosen'
  BY <1>1, <1>4
     DEF Inv, AnswerIsTrue, SubmittedFailsClosed, Chosen, BeforePost, AfterPost, Active
<1>8. QED
  BY <1>5, <1>6, <1>7 DEF Inv

\* What follows the POST: no way back before it, and no blame but for a denial.
LEMMA AfterPostKeepsInv ==
    ASSUME Inv,
           ReceiveAnswer \/ LoseAnswer \/ PollRun \/ ReadJob \/ ReadCheck \/ FinalList
    PROVE  Inv'
<1>1. pc \in AfterPost /\ UNCHANGED <<outside, controller, effects, baseline, target>>
  BY DEF ReceiveAnswer, LoseAnswer, PollRun, ReadJob, ReadCheck, FinalList,
         GitHubUnchanged, AfterPost
<1>2. \/ pc' \in AfterPost /\ report' = report
      \/ pc' = "done" /\ report' \in {"denied", "pending", "observed"}
  BY DEF ReceiveAnswer, LoseAnswer, PollRun, ReadJob, ReadCheck, FinalList,
         SleepOrGiveUp, AfterSubmission, Goto, Report, AfterPost
<1>3. report' = "denied" => report = "denied" \/ answer = "denied"
  BY DEF ReceiveAnswer, LoseAnswer, PollRun, ReadJob, ReadCheck, FinalList,
         SleepOrGiveUp, AfterSubmission, Goto, Report
<1>4. baseline' \in Seq(Runs) /\ report \in Reports /\ (report # "none" => pc = "done")
  BY <1>1 DEF Inv, TypeInv, AnswerIsTrue
<1>5. Chosen'
  BY <1>1, <1>2 DEF Inv, Chosen, BeforePost, AfterPost, Active
<1>6. QED
  BY <1>1, <1>2, <1>3, <1>4, <1>5, StepKeepsInv DEF BeforePost, AfterPost, Reports, Blames

LEMMA FaultKeepsInv == Inv /\ (Fault \/ Crash) => Inv'
<1> SUFFICES ASSUME Inv, Fault \/ Crash PROVE Inv'
  OBVIOUS
<1>1. /\ pc' = "done" /\ report' \in {"pending", "unavailable", "crashed"}
      /\ report' = "unavailable" => pc \in BeforePost
      /\ UNCHANGED <<outside, controller, effects, baseline>>
  BY DEF Fault, Crash, Report, AfterSubmission, BeforePost, AfterPost
<1>2. Chosen' /\ baseline' \in Seq(Runs)
  BY <1>1 DEF Inv, TypeInv, Chosen, BeforePost, AfterPost
<1>3. QED
  BY <1>1, <1>2, StepKeepsInv DEF Reports, Blames, BeforePost

\* The next controller starts with no request and no answer of its own.
LEMMA NextControllerKeepsInv == Inv /\ NextController => Inv'
<1> SUFFICES ASSUME Inv, NextController PROVE Inv'
  OBVIOUS
<1>1. /\ controller' = controller + 1 /\ controller' \in 1..Controllers /\ pc' = "pr1"
      /\ baseline' = <<>> /\ report' = "none" /\ answer' = "none"
      /\ UNCHANGED <<scope, runs, inflight, effects>>
  BY BoundsAssumption DEF NextController, Inv, TypeInv
<1>2. TypeInv'
  BY <1>1 DEF Inv, TypeInv, Answers, Reports, BeforePost
<1>3. OnePost'
  <2>1. controller' > controller /\ controller \in Int /\ controller' \in Int
    BY <1>1 DEF Inv, TypeInv
  <2>2. QED
    BY <1>1, <2>1 DEF Inv, TypeInv, OnePost, Requests
<1>4. AnswerIsTrue' /\ SubmittedFailsClosed' /\ Chosen'
  BY <1>1 DEF AnswerIsTrue, SubmittedFailsClosed, Chosen, BeforePost
<1>5. QED
  BY <1>2, <1>3, <1>4 DEF Inv

LEMMA InvKept == Inv /\ [Next]_vars => Inv'
<1> SUFFICES ASSUME Inv, [Next]_vars PROVE Inv'
  OBVIOUS
<1>1. CASE GitHub
  BY <1>1, GitHubKeepsInv
<1>2. CASE Run
  BY <1>2, ReadScopesKeepsInv, FirstListKeepsInv, ConfirmListsKeepsInv, PostKeepsInv,
     AfterPostKeepsInv DEF Run
<1>3. CASE Fault \/ Crash \/ NextController
  BY <1>3, FaultKeepsInv, NextControllerKeepsInv
<1>4. CASE UNCHANGED vars
  BY <1>4, OutsideKeepsInv DEF ControllerUnchanged, Inv, TypeInv
<1>5. QED
  BY <1>1, <1>2, <1>3, <1>4 DEF Next, Done

THEOREM InvHolds == Spec => []Inv
BY InvInitially, InvKept, PTL DEF Spec

-----------------------------------------------------------------------------
(* The properties.                                                         *)

\* No controller reruns the verifier twice.
THEOREM RerunAtMostOnceHolds == Spec => []RerunAtMostOnce
<1>1. Inv => RerunAtMostOnce
  BY DEF Inv, OnePost, RerunAtMostOnce
<1>2. QED
  BY <1>1, InvHolds, PTL

\* A report that sends the reader elsewhere is given only when the controller's
\* own POST had and will have no effect.
THEOREM SubmittedFailsClosedHolds == Spec => []SubmittedFailsClosed
<1>1. Inv => SubmittedFailsClosed
  BY DEF Inv
<1>2. QED
  BY <1>1, InvHolds, PTL

LEMMA ObservedStepIsAlone ==
    ASSUME Inv, [Next]_vars, report # "observed", report' = "observed"
    PROVE  /\ {r \in 1..Len(runs) : Active(runs[r])} = {target}
           /\ target = Current(runs, bound)
           /\ Len(runs) = Len(baseline)
           /\ \A r \in 1..Len(runs) :
                 runs[r].attempt = baseline[r].attempt + (IF r = target THEN 1 ELSE 0)
<1>1. FinalList
  <2>1. CASE GitHub \/ NextController \/ Done \/ UNCHANGED vars
    BY <2>1 DEF GitHub, MoveScope, NewRun, HumanRerun, Progress, HandlePost, LosePost,
                ControllerUnchanged, NextController, Done
  <2>2. CASE Fault \/ Crash
    BY <2>2 DEF Fault, Crash, Report, AfterSubmission
  <2>3. CASE Run
    BY <2>3 DEF Run, ReadScopes, ReadScope, FirstList, ConfirmLists, ConfirmList, Post,
                ReceiveAnswer, LoseAnswer, PollRun, ReadJob, ReadCheck, SleepOrGiveUp,
                AfterSubmission, Goto, Report
  <2>4. QED
    BY <2>1, <2>2, <2>3 DEF Next
<1>2. Corroborated /\ pc = "list4"
  BY <1>1 DEF FinalList, Report, AfterSubmission
<1>3. target \in 1..Len(baseline) /\ \A r \in 1..Len(baseline) : ~Active(baseline[r])
  BY <1>2 DEF Inv, Chosen, AfterPost
<1>4. baseline \in Seq(Runs) /\ \A r \in 1..Len(baseline) : baseline[r].attempt \in Nat
  <2>1. baseline \in Seq(Runs)
    BY DEF Inv, TypeInv
  <2>2. \A r \in 1..Len(baseline) : baseline[r] \in Runs
    BY <2>1, ElementOfSeq
  <2>3. QED
    BY <2>1, <2>2 DEF Runs
<1>5. QED
  BY <1>2, <1>3, <1>4 DEF Corroborated, Wanted

\* Observed is reported only of the one active attempt, which cancelled nothing.
THEOREM ObservedAloneHolds == Spec => ObservedAlone
<1>1. Inv /\ [Next]_vars =>
        (report # "observed" /\ report' = "observed" =>
         /\ {r \in 1..Len(runs) : Active(runs[r])} = {target}
         /\ target = Current(runs, bound)
         /\ Len(runs) = Len(baseline)
         /\ \A r \in 1..Len(runs) :
               runs[r].attempt = baseline[r].attempt + (IF r = target THEN 1 ELSE 0))
  BY ObservedStepIsAlone
<1>2. QED
  BY <1>1, InvHolds, PTL DEF Spec, ObservedAlone

=============================================================================
