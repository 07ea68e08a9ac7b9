---------------------- MODULE OrganizationHandoff_proofs -----------------------
(***************************************************************************)
(* Proofs about OrganizationHandoff for every set of surfaces and every    *)
(* number of changes by others, lost answers and crashes.                  *)
(***************************************************************************)
EXTENDS OrganizationHandoff, TLAPS

USE DEF gitHub, operator, command, round, work, history, vars

-----------------------------------------------------------------------------
(* The inductive invariant.                                                *)

\* A round reads every part of its mode.
RoundsReadAll ==
    /\ pc \in FirstRounds => PartsRead \subseteq DOMAIN snap \cup todo
    /\ pc \in Rounds \ FirstRounds => PartsRead \subseteq DOMAIN again \cup todo
    /\ pc \in Late \cup {"second", "back2"} => PartsRead \subseteq DOMAIN snap

\* The write a command of each mode may be at, if the first round found s.
WriteOf(w, s) ==
    CASE mode = "stage" -> w = "create" /\ s["v2"] = "absent"
      [] mode = "quiesce" -> w = "disable"
      [] mode = "restore" -> w = "enable" /\ s["scheduler"] = "disabled"
      [] mode = "activate" -> w = "activate" /\ s["v2"] = "disabled"
      [] mode = "cleanup" -> w \in Surfaces
      [] mode = "verify" -> w = "cutover" /\ s["legacy"] = "before"
      [] OTHER -> FALSE

\* From the last full round on, what was found allows the write.
WritesAsPlanned ==
    /\ pc \in Late => Precondition(snap)
    /\ pc \in {"finalLegacy", "finalScheduler", "write", "answer", "answered"}
          => WriteOf(pending, snap)
    /\ pc \in {"finalLegacy", "finalScheduler"} => mode = "verify"
    /\ pc \in Cleaning => mode = "cleanup"
    /\ pc \in Cleaning \ {"identity1"} => pending \in Surfaces
    /\ batch \subseteq Surfaces

TypeInv == live = [p \in Parts |-> live[p]]

\* Left to the commands, every part only moves forward.
Forward ==
    /\ live["legacy"] \in {"before", "after"}
    /\ live["v2"] \in {"absent", "disabled", "active"}
    /\ live["scheduler"] \in {"active", "disabled"}
    /\ \A s \in Surfaces : live[s] \in {"before", "after"}

\* So what the first round found is still so, but for the effect of the write.
FoundIsStillSo ==
    /\ "v2" \in DOMAIN snap /\ snap["v2"] = "active" => live["v2"] = "active"
    /\ \A s \in Surfaces \cap DOMAIN snap : snap[s] = "after" => live[s] = "after"
    /\ /\ mode = "stage"
       /\ pc \in {"first", "second", "revalidate", "write", "answer"}
       /\ "v2" \in DOMAIN snap /\ snap["v2"] = "absent"
       => live["v2"] = "absent"

\* A write that is still under way comes when its time has come.
LateIsHarmless ==
    /\ "create" \in late => live["v2"] = "absent"
    /\ late \cap Surfaces # {} => live["v2"] = "active"
    /\ "cutover" \in late => live["v2"] = "active" /\ All(live, "after")
    /\ mode = "stage" /\ pc # "idle" => "create" \notin late

HandoffInv ==
    ~drifted => Forward /\ FoundIsStillSo /\ LateIsHarmless /\ NeverUnenforced

Inv == TypeInv /\ RoundsReadAll /\ WritesAsPlanned /\ HandoffInv

\* No final receipt for a handoff that was incomplete after the first round: the
\* part that was missing is missing until the receipt, and the second round finds
\* it so.
Good(p) == IF p = "v2" THEN "active" ELSE "after"
Gated == Surfaces \cup {"legacy", "v2"}

StillIncomplete ==
    mode = "verify" /\ pc = "second" /\ ~landed /\ ~complete =>
        \E p \in Gated :
            /\ live[p] # Good(p)
            /\ p \in DOMAIN again => again[p] # Good(p)

FoundIsAuthorized ==
    pc \notin {"idle", "preflight"} =>
        /\ \A p \in DOMAIN snap \cap (Parts \ {"v2"}) : snap[p] \in Authorized(p)
        /\ \A p \in DOMAIN again \cap (Parts \ {"v2"}) : again[p] \in Authorized(p)

ReceiptInv ==
    /\ StillIncomplete
    /\ FoundIsAuthorized
    /\ report = "final-verified" => pc = "idle"
    /\ FinalReceiptIsReal

\* A part is as a write expects it, or others changed it after its last read.
KnownTypes ==
    /\ changed = [p \in Parts |-> changed[p]]
    /\ \A s \in Surfaces : live[s] \in SurfaceStates

RereadIsCurrent ==
    pc = "revalidate" =>
        \A p \in Parts \cap DOMAIN again : live[p] = again[p] \/ changed[p] \in Late

AsFound(p) == live[p] = snap[p] \/ (mode = "cleanup" /\ p \in Surfaces /\ live[p] = "after")

TowardWrite ==
    {"finalLegacy", "finalScheduler", "write", "answer"} \cup Cleaning
    \cup {step \in {"answered"} : mode = "cleanup"}

SinceRevalidation ==
    pc \in TowardWrite => \A p \in Parts \cap PartsRead : AsFound(p) \/ changed[p] \in Late

DrainProved == (pc = "revalidate" /\ "runs" \in DOMAIN again) \/ pc \in {"write", "answer"}

StillDrained ==
    mode = "activate" /\ DrainProved =>
        (~running /\ live["scheduler"] = "disabled") \/ changed["scheduler"] \in Late

NextToCutover ==
    mode = "verify" =>
        /\ pc \in {"finalScheduler", "write", "answer"} =>
              \/ live["legacy"] = snap["legacy"]
              \/ changed["legacy"] \in {"finalScheduler", "write", "answer"}
        /\ pc \in {"write", "answer"} =>
              live["scheduler"] = "active" \/ changed["scheduler"] \in {"write", "answer"}

NextToCleanup ==
    mode = "cleanup" =>
        /\ pc = "identity2" =>
              live[pending] \in {"before", "foreign"} \/ changed[pending] = "identity2"
        /\ pc \in {"write", "answer"} =>
              /\ live[pending] = "before" \/ changed[pending] \in {"identity2", "write", "answer"}
              /\ live[pending] = "foreign" => changed[pending] \in {"write", "answer"}

GapInv ==
    /\ KnownTypes /\ FoundIsAuthorized /\ RereadIsCurrent /\ SinceRevalidation
    /\ StillDrained /\ NextToCutover /\ NextToCleanup

-----------------------------------------------------------------------------
(* What the actions leave alone.                                           *)

LEMMA PartsDiffer ==
    /\ \A s \in Surfaces : s \notin {"legacy", "v2", "scheduler", "runs", "control", "rules", "create",
                                    "disable", "enable", "activate", "cutover", "none"}
    /\ Surfaces \subseteq Parts /\ "legacy" \in Parts /\ "v2" \in Parts /\ "scheduler" \in Parts
BY SurfacesAssumption DEF Parts

LEMMA OthersFrame ==
    ASSUME Others
    PROVE  /\ UNCHANGED <<operator, command, pc, round, work, report, complete>>
           /\ drifted => drifted'
           /\ landed => landed'
           /\ late' \subseteq late
           /\ \/ live' = live
              \/ \E p \in Parts : Drift(p)
              \/ \E p \in Parts : Repair(p)
              \/ \E w \in Writes : LateEffect(w)
BY DEF Others, OthersChange, Drift, Repair, LateEffect, LateLoss, SchedulerRuns

\* The steps of a command that write nothing.
Silent ==
    \/ \E m \in Modes, a \in BOOLEAN : Invoke(m, a)
    \/ Preflight \/ EndUncovered \/ EndFirst \/ EndUnstable \/ EndSecond
    \/ \E p \in PartsRead : Read(p)
    \/ Revalidate \/ FinalLegacy \/ FinalScheduler
    \/ \E s \in Surfaces : ReadIdentity(s)
    \/ ReadSurface \/ RereadIdentity \/ EndCleaning
    \/ Send \/ Answered
    \/ CheckIdentity \/ CheckSurface \/ Reread \/ Drain \/ Control \/ EndBack
    \/ Fault

LEMMA SilentFrame ==
    ASSUME Silent
    PROVE  UNCHANGED <<live, running, late, drifted>>
BY DEF Silent, Invoke, Preflight, EndUncovered, EndFirst, EndUnstable, EndSecond, Read,
       Revalidate, FinalLegacy, FinalScheduler, ReadIdentity, ReadSurface, RereadIdentity,
       EndCleaning, Send, Answered, CheckIdentity, CheckSurface, Reread, Drain, Control,
       EndBack, Fault, Quiet

LEMMA NextCases ==
    ASSUME [Next]_vars
    PROVE  Others \/ Silent \/ Handle \/ AnswerLost \/ Crash \/ UNCHANGED vars
BY DEF Next, Command, Silent

LEMMA Merged ==
    ASSUME NEW p, NEW s
    PROVE  /\ DOMAIN With(s, p) = DOMAIN s \cup {p}
           /\ With(s, p)[p] = Found(p)
           /\ \A q \in DOMAIN s \ {p} : With(s, p)[q] = s[q]
BY DEF With

LEMMA Ended ==
    ASSUME NEW outcome, End(outcome)
    PROVE  /\ pc' = "idle" /\ report' = outcome
           /\ snap' = NoSnap /\ DOMAIN snap' = {}
           /\ batch' = {}
BY DEF End, NoSnap

LEMMA Failed ==
    ASSUME Fail
    PROVE  /\ snap' = NoSnap /\ DOMAIN snap' = {}
           /\ batch' = {}
           /\ \/ pc' = "idle" /\ UNCHANGED command /\ report' = "error"
              \/ /\ pc \notin {"idle", "first", "second", "revalidate"}
                 /\ pc' = "first" /\ mode' = "recover" /\ todo' = {"legacy", "v2"}
                 /\ UNCHANGED report
BY DEF Fail, End, NoSnap

-----------------------------------------------------------------------------
(* The rounds.                                                             *)

LEMMA RoundStarted ==
    ASSUME NEW step, StartRound(step), mode' = mode,
           step \in {"second", "back2"} => PartsRead \subseteq DOMAIN snap,
           step = "revalidate" => PartsRead \subseteq DOMAIN snap,
           step \in Rounds
    PROVE  RoundsReadAll'
BY DEF StartRound, RoundsReadAll, PartsRead, Rounds, FirstRounds, Late, Cleaning

LEMMA FailedReadsAll ==
    ASSUME Fail
    PROVE  RoundsReadAll'
BY Failed DEF RoundsReadAll, PartsRead, Rounds, FirstRounds, Late, Cleaning

LEMMA EndedReadsAll ==
    ASSUME NEW outcome, End(outcome)
    PROVE  RoundsReadAll'
BY Ended DEF RoundsReadAll, PartsRead, Rounds, FirstRounds, Late, Cleaning

LEMMA SameRound ==
    ASSUME RoundsReadAll, UNCHANGED <<round, mode>>,
           pc' \notin Rounds, pc' \in Late => pc \in Late
    PROVE  RoundsReadAll'
BY DEF RoundsReadAll, PartsRead, Rounds, FirstRounds, Late, Cleaning

LEMMA ReadKeepsRounds ==
    ASSUME RoundsReadAll, NEW p \in PartsRead, Read(p)
    PROVE  RoundsReadAll'
<1>1. CASE Fail
  BY <1>1, FailedReadsAll
<1>2. CASE ~Fail
  <2>1. /\ todo' = todo \ {p} /\ UNCHANGED <<command, pc>> /\ pc \in Rounds
        /\ IF pc \in FirstRounds
             THEN snap' = With(snap, p) /\ UNCHANGED again
             ELSE again' = With(again, p) /\ UNCHANGED snap
    BY <1>2 DEF Read
  <2>2. PartsRead' = PartsRead
    BY <2>1 DEF PartsRead
  <2>3. CASE pc \in FirstRounds
    <3>1. DOMAIN snap' = DOMAIN snap \cup {p}
      BY <2>1, <2>3, Merged
    <3>2. QED
      BY <2>1, <2>2, <2>3, <3>1 DEF RoundsReadAll, Rounds, FirstRounds, Late, Cleaning
  <2>4. CASE pc \notin FirstRounds
    <3>1. DOMAIN again' = DOMAIN again \cup {p}
      BY <2>1, <2>4, Merged
    <3>2. QED
      BY <2>1, <2>2, <2>4, <3>1 DEF RoundsReadAll, Rounds, FirstRounds, Late, Cleaning
  <2>5. QED
    BY <2>3, <2>4
<1>3. QED
  BY <1>1, <1>2

LEMMA RoundsKept ==
    ASSUME Inv, [Next]_vars
    PROVE  RoundsReadAll'
<1> USE DEF Inv
<1>1. CASE Others
  <2>1. UNCHANGED <<pc, mode, round>>
    BY <1>1, OthersFrame
  <2>2. QED
    BY <2>1 DEF RoundsReadAll, PartsRead
<1>2. CASE Silent
  <2>1. CASE \E m \in Modes, a \in BOOLEAN : Invoke(m, a)
    BY <2>1 DEF Invoke, RoundsReadAll, Rounds, FirstRounds, Late, Cleaning
  <2>2. CASE Preflight
    <3>1. (\E o : End(o)) \/ (StartRound("first") /\ mode' = mode)
      BY <2>2 DEF Preflight, Quiet
    <3>2. QED
      BY <3>1, EndedReadsAll, RoundStarted DEF Rounds, FirstRounds
  <2>3. CASE EndUncovered
    BY <2>3, EndedReadsAll DEF EndUncovered
  <2>4. CASE EndFirst
    <3>1. PartsRead \subseteq DOMAIN snap /\ mode' = mode
      BY <2>4 DEF EndFirst, RoundEnds, RoundsReadAll
    <3>2. StartRound("second") \/ StartRound("back2")
      BY <2>4 DEF EndFirst
    <3>3. QED
      BY <3>1, <3>2, RoundStarted DEF Rounds, FirstRounds
  <2>5. CASE EndUnstable
    <3>1. (StartRound("first") \/ StartRound("back1")) /\ mode' = mode
      BY <2>5 DEF EndUnstable, Quiet
    <3>2. QED
      BY <3>1, RoundStarted DEF Rounds, FirstRounds
  <2>6. CASE EndSecond
    <3>1. (\E o : End(o)) \/ StartRound("revalidate")
      BY <2>6 DEF EndSecond
    <3>2. mode' = mode /\ PartsRead \subseteq DOMAIN snap
      BY <2>6 DEF EndSecond, RoundsReadAll
    <3>3. QED
      BY <3>1, <3>2, EndedReadsAll, RoundStarted DEF Rounds, FirstRounds
  <2>7. CASE \E p \in PartsRead : Read(p)
    BY <2>7, ReadKeepsRounds
  <2>8. CASE Revalidate
    <3>1. \/ \E o : End(o)
          \/ /\ UNCHANGED <<round, mode>> /\ pc \in Late
             /\ pc' \in {"identity1", "finalLegacy", "write"}
      BY <2>8 DEF Revalidate, Quiet, Late
    <3>2. QED
      BY <3>1, EndedReadsAll, SameRound DEF Rounds, FirstRounds
  <2>9. CASE FinalLegacy \/ FinalScheduler \/ ReadSurface \/ RereadIdentity \/ Send
             \/ CheckIdentity \/ CheckSurface \/ \E s \in Surfaces : ReadIdentity(s)
    <3>1. \/ \E o : End(o)
          \/ UNCHANGED <<round, mode>> /\ pc \in Late /\ pc' \notin Rounds
      BY <2>9 DEF FinalLegacy, FinalScheduler, ReadIdentity, ReadSurface, RereadIdentity,
         Send, CheckIdentity, CheckSurface, NextSurface, Goto, Quiet, Late, Cleaning, Rounds,
         FirstRounds
    <3>2. QED
      BY <3>1, EndedReadsAll, SameRound
  <2>10. CASE EndCleaning
    BY <2>10, RoundStarted DEF EndCleaning, Quiet, Rounds, FirstRounds
  <2>11. CASE Answered
    <3>1. mode' = mode
      BY <2>11 DEF Answered, Quiet
    <3>2. CASE StartRound("back1")
      BY <3>1, <3>2, RoundStarted DEF Rounds, FirstRounds
    <3>3. CASE ~StartRound("back1")
      <4>1. UNCHANGED round /\ pc' \in {"checkIdentity", "reread"} /\ pc \in Late
        BY <2>11, <3>3 DEF Answered, AfterAnswer, Goto, Late
      <4>2. QED
        BY <3>1, <4>1, SameRound DEF Rounds, FirstRounds
    <3>4. QED
      BY <3>2, <3>3
  <2>12. CASE Reread \/ Drain \/ Control
    <3>1. \/ \E o : End(o)
          \/ UNCHANGED <<round, mode>> /\ pc' \in {"drain", "recheck", "control"}
      BY <2>12 DEF Reread, Drain, Control, Goto, Quiet
    <3>2. QED
      BY <3>1, EndedReadsAll, SameRound DEF Rounds, FirstRounds, Late, Cleaning
  <2>13. CASE EndBack
    BY <2>13, EndedReadsAll, FailedReadsAll DEF EndBack
  <2>14. CASE Fault
    <3>1. Fail \/ (UNCHANGED <<round, mode>> /\ pc' = "recheck")
      BY <2>14 DEF Fault, Goto
    <3>2. QED
      BY <3>1, FailedReadsAll, SameRound DEF Rounds, FirstRounds, Late, Cleaning
  <2>15. QED
    BY <1>2, <2>1, <2>2, <2>3, <2>4, <2>5, <2>6, <2>7, <2>8, <2>9, <2>10, <2>11, <2>12,
       <2>13, <2>14 DEF Silent
<1>3. CASE Handle
  BY <1>3, SameRound DEF Handle, Goto, Rounds, FirstRounds, Late
<1>4. CASE AnswerLost
  <2>1. Fail \/ (UNCHANGED <<round, mode>> /\ pc' \in {"checkIdentity", "recheck"} /\ pc \in Late)
    BY <1>4 DEF AnswerLost, Goto, Late
  <2>2. QED
    BY <2>1, FailedReadsAll, SameRound DEF Rounds, FirstRounds
<1>5. CASE Crash
  BY <1>5, EndedReadsAll DEF Crash
<1>6. CASE UNCHANGED vars
  BY <1>6 DEF RoundsReadAll, PartsRead
<1>7. QED
  BY <1>1, <1>2, <1>3, <1>4, <1>5, <1>6, NextCases

-----------------------------------------------------------------------------
(* The writes are the planned ones.                                        *)

LEMMA SurfaceWrites ==
    ASSUME NEW w, NEW s, WriteOf(w, s)
    PROVE  w \in Surfaces <=> mode = "cleanup"
BY PartsDiffer DEF WriteOf

LEMMA OutsideWrites ==
    ASSUME WritesAsPlanned, pc' \notin Late, batch' \subseteq Surfaces
    PROVE  WritesAsPlanned'
BY DEF WritesAsPlanned, Late, Cleaning

LEMMA FailedWrites ==
    ASSUME WritesAsPlanned, Fail \/ \E outcome : End(outcome)
    PROVE  WritesAsPlanned'
<1>1. pc' \in {"idle", "first"} /\ batch' = {}
  BY Failed, Ended
<1>2. QED
  BY <1>1, OutsideWrites DEF Late, Cleaning

LEMMA WithinCleaning ==
    ASSUME WritesAsPlanned, mode = "cleanup", UNCHANGED <<mode, snap>>, pc \in Late,
           batch' \subseteq Surfaces,
           \/ pc' = "identity1"
           \/ pc' \in Cleaning \cup {"write", "answer", "answered"} /\ pending' \in Surfaces
    PROVE  WritesAsPlanned'
<1>1. Precondition(snap)'
  BY DEF WritesAsPlanned, Precondition
<1>2. pc' \notin {"finalLegacy", "finalScheduler"}
  BY DEF Cleaning
<1>3. pc' \in {"write", "answer", "answered"} => WriteOf(pending, snap)'
  BY DEF WriteOf, Cleaning
<1>4. QED
  BY <1>1, <1>2, <1>3 DEF WritesAsPlanned

LEMMA RevalidateWrites ==
    ASSUME WritesAsPlanned, Revalidate
    PROVE  WritesAsPlanned'
<1>1. CASE \E outcome : End(outcome)
  BY <1>1, FailedWrites
<1>2. CASE ~\E outcome : End(outcome)
  <2>1. UNCHANGED <<mode, snap>> /\ pc = "revalidate" /\ pc \in Late
    BY <1>2 DEF Revalidate, Quiet, Late
  <2>2. Precondition(snap)'
    BY <2>1 DEF WritesAsPlanned, Precondition
  <2>3. CASE mode = "cleanup"
    <3>1. pc' = "identity1" /\ batch' = Planned(mode, snap)
      BY <1>2, <2>3 DEF Revalidate
    <3>2. batch' \subseteq Surfaces
      BY <2>3, <3>1 DEF Planned
    <3>3. QED
      BY <2>1, <2>3, <3>1, <3>2, WithinCleaning
  <2>4. CASE mode # "cleanup"
    <3>1. /\ pc' = IF mode = "verify" THEN "finalLegacy" ELSE "write"
          /\ pending' \in Planned(mode, snap) /\ UNCHANGED batch
      BY <1>2, <2>4 DEF Revalidate
    <3>2. WriteOf(pending', snap)
      BY <2>4, <3>1 DEF Planned, WriteOf
    <3>3. WriteOf(pending, snap)'
      BY <2>1, <3>2 DEF WriteOf
    <3>4. mode = "verify" => pending' = "cutover"
      BY <3>2 DEF WriteOf
    <3>5. QED
      BY <2>1, <2>2, <3>1, <3>3, <3>4 DEF WritesAsPlanned, Cleaning
  <2>5. QED
    BY <2>3, <2>4
<1>3. QED
  BY <1>1, <1>2

LEMMA SameWrite ==
    ASSUME WritesAsPlanned, UNCHANGED <<mode, snap, pending, batch>>, pc \in Late,
           \/ pc = "finalLegacy" /\ pc' = "finalScheduler"
           \/ pc = "finalScheduler" /\ pc' = "write"
           \/ pc \in {"write", "answer", "answered"} /\ pc' \in {"answer", "answered"}
    PROVE  WritesAsPlanned'
<1>1. Precondition(snap)'
  BY DEF WritesAsPlanned, Precondition
<1>2. WriteOf(pending, snap)
  BY DEF WritesAsPlanned, WriteOf
<1>3. WriteOf(pending, snap)'
  BY <1>2 DEF WriteOf
<1>4. QED
  BY <1>1, <1>3 DEF WritesAsPlanned, Cleaning

LEMMA WritesKept ==
    ASSUME Inv, [Next]_vars
    PROVE  WritesAsPlanned'
<1> USE DEF Inv
<1>1. CASE Others \/ UNCHANGED vars
  <2>1. UNCHANGED <<pc, mode, snap, pending, batch>>
    BY <1>1, OthersFrame
  <2>2. QED
    BY <2>1 DEF WritesAsPlanned, Precondition, WriteOf
<1>2. CASE Silent
  <2>1. CASE \E m \in Modes, a \in BOOLEAN : Invoke(m, a)
    <3>1. pc' = "preflight" /\ UNCHANGED batch
      BY <2>1 DEF Invoke
    <3>2. QED
      BY <3>1, OutsideWrites DEF WritesAsPlanned, Late, Cleaning
  <2>2. CASE Preflight \/ EndUncovered \/ EndFirst \/ EndUnstable \/ EndCleaning
    <3>1. \/ \E outcome : End(outcome)
          \/ pc' \in {"first", "second", "back1", "back2"} /\ UNCHANGED batch
      BY <2>2 DEF Preflight, EndUncovered, EndFirst, EndUnstable, EndCleaning, StartRound
    <3>2. QED
      BY <3>1, FailedWrites, OutsideWrites DEF WritesAsPlanned, Late, Cleaning
  <2>3. CASE EndSecond
    <3>1. CASE \E outcome : End(outcome)
      BY <3>1, FailedWrites
    <3>2. CASE ~\E outcome : End(outcome)
      <4>1. /\ pc' = "revalidate" /\ UNCHANGED <<mode, snap, batch>>
            /\ Precondition(snap)
        BY <2>3, <3>2 DEF EndSecond, StartRound, Proceeds, FirstRounds
      <4>2. Precondition(snap)'
        BY <4>1 DEF Precondition
      <4>3. QED
        BY <4>1, <4>2 DEF WritesAsPlanned, Cleaning
    <3>3. QED
      BY <3>1, <3>2
  <2>4. CASE \E p \in PartsRead : Read(p)
    <3>1. PICK p \in PartsRead : Read(p)
      BY <2>4
    <3>2. CASE Fail
      BY <3>2, FailedWrites
    <3>3. CASE ~Fail
      <4>1. /\ UNCHANGED <<mode, pc, pending, batch>>
            /\ pc \in Rounds /\ (pc \notin FirstRounds => UNCHANGED snap)
        BY <3>1, <3>3 DEF Read
      <4>2. CASE pc = "revalidate"
        BY <4>1, <4>2 DEF WritesAsPlanned, FirstRounds, Precondition, Cleaning
      <4>3. CASE pc # "revalidate"
        BY <4>1, <4>3, OutsideWrites DEF Rounds, FirstRounds, Late, Cleaning, WritesAsPlanned
      <4>4. QED
        BY <4>2, <4>3
    <3>4. QED
      BY <3>2, <3>3
  <2>5. CASE Revalidate
    BY <2>5, RevalidateWrites
  <2>6. CASE FinalLegacy \/ FinalScheduler \/ Send
    <3>1. \/ \E outcome : End(outcome)
          \/ /\ UNCHANGED <<mode, snap, pending, batch>> /\ pc \in Late
             /\ \/ pc = "finalLegacy" /\ pc' = "finalScheduler"
                \/ pc = "finalScheduler" /\ pc' = "write"
                \/ pc = "write" /\ pc' = "answer"
      BY <2>6 DEF FinalLegacy, FinalScheduler, Send, Goto, Quiet, Late
    <3>2. QED
      BY <3>1, FailedWrites, SameWrite
  <2>7. CASE ReadSurface \/ RereadIdentity \/ CheckIdentity \/ CheckSurface
             \/ \E s \in Surfaces : ReadIdentity(s)
    <3>1. pc \in Cleaning /\ UNCHANGED mode
      BY <2>7 DEF ReadSurface, RereadIdentity, CheckIdentity, CheckSurface, ReadIdentity,
         Cleaning, Quiet
    <3>2. \/ \E outcome : End(outcome)
          \/ /\ UNCHANGED snap /\ batch' \subseteq Surfaces
             /\ \/ pc' = "identity1"
                \/ pc' \in Cleaning \cup {"write"} /\ pending' \in Surfaces
      BY <2>7, <3>1 DEF ReadSurface, RereadIdentity, CheckIdentity, CheckSurface,
         ReadIdentity, NextSurface, Goto, WritesAsPlanned, Cleaning
    <3>3. QED
      BY <3>1, <3>2, FailedWrites, WithinCleaning DEF WritesAsPlanned, Late
  <2>8. CASE Answered
    <3>1. WriteOf(pending, snap) /\ UNCHANGED <<mode, batch>> /\ pc \in Late
      BY <2>8 DEF Answered, AfterAnswer, WritesAsPlanned, Quiet, Goto, Late
    <3>2. CASE pending \in Surfaces
      <4>1. mode = "cleanup"
        BY <3>1, <3>2, SurfaceWrites
      <4>2. pc' = "checkIdentity" /\ UNCHANGED <<snap, pending>>
        BY <2>8, <3>2, PartsDiffer DEF Answered, AfterAnswer, Goto
      <4>3. QED
        BY <3>1, <3>2, <4>1, <4>2, WithinCleaning DEF Cleaning, WritesAsPlanned
    <3>3. CASE pending \notin Surfaces
      <4>1. pc' \in {"reread", "back1"}
        BY <2>8, <3>3 DEF Answered, AfterAnswer, Goto, StartRound
      <4>2. QED
        BY <3>1, <4>1, OutsideWrites DEF WritesAsPlanned, Late, Cleaning
    <3>4. QED
      BY <3>2, <3>3
  <2>9. CASE Reread \/ Drain \/ Control \/ EndBack \/ Fault
    <3>1. \/ Fail \/ \E outcome : End(outcome)
          \/ pc' \in {"drain", "recheck", "control"} /\ UNCHANGED batch
      BY <2>9 DEF Reread, Drain, Control, EndBack, Fault, Goto
    <3>2. QED
      BY <3>1, FailedWrites, OutsideWrites DEF WritesAsPlanned, Late, Cleaning
  <2>10. QED
    BY <1>2, <2>1, <2>2, <2>3, <2>4, <2>5, <2>6, <2>7, <2>8, <2>9 DEF Silent
<1>3. CASE Handle
  BY <1>3, SameWrite DEF Handle, Goto, Late
<1>4. CASE AnswerLost
  <2>1. pc \in Late /\ WriteOf(pending, snap)
    BY <1>4 DEF AnswerLost, WritesAsPlanned, Late
  <2>2. CASE pending \in Surfaces
    <3>1. mode = "cleanup"
      BY <2>1, <2>2, SurfaceWrites
    <3>2. pc' = "checkIdentity" /\ UNCHANGED <<snap, pending, mode, batch>>
      BY <1>4, <2>2, PartsDiffer DEF AnswerLost, Goto
    <3>3. QED
      BY <2>1, <2>2, <3>1, <3>2, WithinCleaning DEF Cleaning, WritesAsPlanned
  <2>3. CASE pending \notin Surfaces
    <3>1. Fail \/ (pc' = "recheck" /\ UNCHANGED batch)
      BY <1>4, <2>3 DEF AnswerLost, Goto
    <3>2. QED
      BY <3>1, FailedWrites, OutsideWrites DEF WritesAsPlanned, Late, Cleaning
  <2>4. QED
    BY <2>2, <2>3
<1>5. CASE Crash
  BY <1>5, FailedWrites DEF Crash
<1>6. QED
  BY <1>1, <1>2, <1>3, <1>4, <1>5, NextCases

-----------------------------------------------------------------------------
(* The handoff only moves forward.                                         *)

Timely(w) ==
    /\ w = "create" => live["v2"] = "absent"
    /\ w \in Surfaces => live["v2"] = "active"
    /\ w = "cutover" => live["v2"] = "active" /\ All(live, "after")

LEMMA EffectMovesForward ==
    ASSUME TypeInv, Forward, NeverUnenforced, ~drifted, NEW w \in Writes, Timely(w),
           live' = Effect(w)
    PROVE  /\ TypeInv' /\ Forward'
           /\ ~drifted' => NeverUnenforced'
           /\ live["v2"] = "active" => live'["v2"] = "active"
           /\ \A s \in Surfaces : live[s] = "after" => live'[s] = "after"
           /\ w # "create" /\ live["v2"] = "absent" => live'["v2"] = "absent"
<1> USE PartsDiffer
<1>1. w \in {"create", "disable", "enable", "activate", "cutover"} \/ w \in Surfaces
  BY DEF Writes
<1>2. CASE w = "create"
  <2>1. live' = [live EXCEPT !["v2"] = "disabled"]
    BY <1>2 DEF Effect, Timely
  <2>2. QED
    BY <1>2, <2>1 DEF TypeInv, Forward, NeverUnenforced, Timely, All
<1>3. CASE w \in {"disable", "enable"}
  <2>1. live' = [live EXCEPT !["scheduler"] = IF w = "disable" THEN "disabled" ELSE "active"]
    BY <1>3 DEF Effect
  <2>2. QED
    BY <1>3, <2>1 DEF TypeInv, Forward, NeverUnenforced, All
<1>4. CASE w = "activate"
  <2>1. live' = [live EXCEPT !["v2"] = IF live["v2"] = "absent" THEN "absent" ELSE "active"]
    BY <1>4 DEF Effect, TypeInv
  <2>2. QED
    BY <1>4, <2>1 DEF TypeInv, Forward, NeverUnenforced, All
<1>5. CASE w = "cutover"
  <2>1. live' = [live EXCEPT !["legacy"] = "after"]
    BY <1>5 DEF Effect
  <2>2. QED
    BY <1>5, <2>1 DEF TypeInv, Forward, NeverUnenforced, Timely, All
<1>6. CASE w \in Surfaces
  <2>1. live' = [live EXCEPT ![w] = "after"]
    BY <1>6 DEF Effect
  <2>2. QED
    BY <1>6, <2>1 DEF TypeInv, Forward, NeverUnenforced, Timely, All
<1>7. QED
  BY <1>1, <1>2, <1>3, <1>4, <1>5, <1>6

LEMMA PendingIsTimely ==
    ASSUME Inv, ~drifted, pc \in {"write", "answer"}
    PROVE  /\ pending \in Writes /\ Timely(pending)
           /\ pending = "create" => "create" \notin late
<1> USE DEF Inv
<1>1. Precondition(snap) /\ WriteOf(pending, snap) /\ PartsRead \subseteq DOMAIN snap
  BY DEF WritesAsPlanned, RoundsReadAll, Late
<1>2. FoundIsStillSo /\ LateIsHarmless
  BY DEF HandoffInv
<1>3. CASE mode = "stage"
  BY <1>1, <1>2, <1>3, PartsDiffer DEF WriteOf, Timely, FoundIsStillSo, LateIsHarmless,
     Writes, PartsRead
<1>4. CASE mode = "cleanup"
  BY <1>1, <1>2, <1>4, PartsDiffer DEF WriteOf, Timely, FoundIsStillSo, Precondition,
     Writes, PartsRead
<1>5. CASE mode = "verify"
  BY <1>1, <1>2, <1>5, PartsDiffer DEF WriteOf, Timely, FoundIsStillSo, Precondition,
     Writes, PartsRead, All
<1>6. CASE mode \notin {"stage", "cleanup", "verify"}
  BY <1>1, <1>6, PartsDiffer DEF WriteOf, Timely, Writes
<1>7. QED
  BY <1>3, <1>4, <1>5, <1>6

LEMMA TypeKept ==
    ASSUME Inv, [Next]_vars
    PROVE  TypeInv'
<1> USE DEF Inv
<1>1. \/ UNCHANGED live
      \/ \E p \in Parts : \E value : live' = [live EXCEPT ![p] = value]
      \/ \E w \in Writes : live' = Effect(w)
      \/ live' = Effect(pending)
  BY NextCases, SilentFrame DEF Others, Drift, Repair, LateEffect, LateLoss, SchedulerRuns,
     OthersChange, Handle, AnswerLost, Crash
<1>2. \A w : Effect(w) = [p \in Parts |-> Effect(w)[p]]
  BY DEF TypeInv, Effect
<1>3. QED
  BY <1>1, <1>2 DEF TypeInv

LEMMA FoundIsKept ==
    ASSUME FoundIsStillSo, UNCHANGED <<live, mode>>,
           \/ snap' = NoSnap
           \/ /\ snap' = snap
              /\ mode = "stage" /\ pc' \in {"first", "second", "revalidate", "write", "answer"}
                    => pc \in {"first", "second", "revalidate", "write", "answer"}
           \/ \E p : snap' = With(snap, p) /\ pc' = pc
    PROVE  FoundIsStillSo'
<1>1. CASE snap' = NoSnap
  BY <1>1 DEF NoSnap, FoundIsStillSo
<1>2. CASE snap' = snap /\ ~\E p : snap' = With(snap, p) /\ pc' = pc
  <2>1. /\ "v2" \in DOMAIN snap' /\ snap'["v2"] = "active" => live'["v2"] = "active"
        /\ \A s \in Surfaces \cap DOMAIN snap' : snap'[s] = "after" => live'[s] = "after"
    BY <1>2 DEF FoundIsStillSo
  <2>2. CASE snap = NoSnap
    BY <1>2, <2>1, <2>2 DEF FoundIsStillSo, NoSnap
  <2>3. CASE snap # NoSnap
    BY <1>2, <2>1, <2>3 DEF FoundIsStillSo
  <2>4. QED
    BY <2>2, <2>3
<1>3. CASE \E p : snap' = With(snap, p) /\ pc' = pc
  <2>1. PICK p : snap' = With(snap, p) /\ pc' = pc
    BY <1>3
  <2>2. \A q \in Surfaces \cup {"v2"} : Found(q) = live[q]
    BY PartsDiffer DEF Found
  <2>3. \A q \in (Surfaces \cup {"v2"}) \cap DOMAIN snap' :
           snap'[q] = live[q] \/ (q \in DOMAIN snap /\ snap'[q] = snap[q])
    <3>1. TAKE q \in (Surfaces \cup {"v2"}) \cap DOMAIN snap'
    <3>2. CASE q = p
      BY <2>1, <2>2, <3>2, Merged
    <3>3. CASE q # p
      <4>1. q \in DOMAIN snap
        BY <2>1, <3>1, <3>3 DEF With
      <4>2. QED
        BY <2>1, <3>3, <4>1 DEF With
    <3>4. QED
      BY <3>2, <3>3
  <2>4. QED
    BY <2>1, <2>3 DEF FoundIsStillSo
<1>4. QED
  BY <1>1, <1>2, <1>3

LEMMA SilentSnap ==
    ASSUME Inv, Silent
    PROVE  \/ snap' = NoSnap
           \/ /\ snap' = snap /\ mode' = mode
              /\ mode = "stage" /\ pc' \in {"first", "second", "revalidate", "write", "answer"}
                    => pc \in {"first", "second", "revalidate", "write", "answer"}
           \/ /\ mode' = mode
              /\ \E p : snap' = With(snap, p) /\ pc' = pc
           \/ pc' = "preflight" /\ snap' = snap
<1> USE DEF Inv
<1>1. CASE \E m \in Modes, a \in BOOLEAN : Invoke(m, a)
  BY <1>1 DEF Invoke
<1>2. CASE Preflight \/ EndUncovered \/ EndFirst \/ EndUnstable \/ EndSecond \/ EndCleaning
  BY <1>2 DEF Preflight, EndUncovered, EndFirst, EndUnstable, EndSecond, EndCleaning,
     StartRound, End, Quiet, FirstRounds, RoundEnds
<1>3. CASE \E p \in PartsRead : Read(p)
  BY <1>3, Failed DEF Read
<1>4. CASE Revalidate
  BY <1>4, Ended DEF Revalidate, Quiet
<1>5. CASE FinalLegacy \/ FinalScheduler \/ Send
  BY <1>5, Ended DEF FinalLegacy, FinalScheduler, Send, Goto, Quiet, WritesAsPlanned
<1>6. CASE ReadSurface \/ RereadIdentity \/ CheckIdentity \/ CheckSurface
           \/ \E s \in Surfaces : ReadIdentity(s)
  <2>1. mode = "cleanup" /\ UNCHANGED mode
    BY <1>6 DEF ReadSurface, RereadIdentity, CheckIdentity, CheckSurface, ReadIdentity,
       Quiet, WritesAsPlanned, Cleaning
  <2>2. snap' = NoSnap \/ snap' = snap
    BY <1>6, Ended DEF ReadSurface, RereadIdentity, CheckIdentity, CheckSurface,
       ReadIdentity, NextSurface, Goto
  <2>3. QED
    BY <2>1, <2>2
<1>7. CASE Answered
  BY <1>7 DEF Answered, AfterAnswer, Goto, StartRound, Quiet, FirstRounds
<1>8. CASE Reread \/ Drain \/ Control \/ EndBack \/ Fault
  BY <1>8, Ended, Failed DEF Reread, Drain, Control, EndBack, Fault, Goto, Quiet
<1>9. QED
  BY <1>1, <1>2, <1>3, <1>4, <1>5, <1>6, <1>7, <1>8 DEF Silent

LEMMA StageStarts ==
    ASSUME Silent, mode' = "stage", pc' # "idle"
    PROVE  (mode = "stage" /\ pc # "idle") \/ "create" \notin late
BY Failed DEF Silent, Invoke, Preflight, EndUncovered, EndFirst, EndUnstable, EndSecond, Read,
   Revalidate, FinalLegacy, FinalScheduler, ReadIdentity, ReadSurface, RereadIdentity,
   EndCleaning, Send, Answered, CheckIdentity, CheckSurface, Reread, Drain, Control,
   EndBack, Fault, Quiet, RoundEnds, Rounds, FirstRounds

LEMMA HandoffKept ==
    ASSUME Inv, [Next]_vars
    PROVE  HandoffInv'
<1> SUFFICES ASSUME ~drifted'
             PROVE  Forward' /\ FoundIsStillSo' /\ LateIsHarmless' /\ NeverUnenforced'
  BY DEF HandoffInv
<1>0. ~drifted
  BY NextCases, OthersFrame, SilentFrame DEF Handle, AnswerLost, Crash
<1>1. Forward /\ FoundIsStillSo /\ LateIsHarmless /\ NeverUnenforced /\ TypeInv
  BY <1>0 DEF Inv, HandoffInv
<1>2. CASE Others
  <2>1. UNCHANGED <<mode, pc, snap>> /\ late' \subseteq late
    BY <1>2, OthersFrame
  <2>2. CASE live' = live
    BY <1>0, <1>1, <2>1, <2>2 DEF Forward, FoundIsStillSo, LateIsHarmless, NeverUnenforced, All
  <2>3. CASE \E w \in Writes : LateEffect(w)
    <3>1. PICK w \in Writes : LateEffect(w)
      BY <2>3
    <3>2. w \in late /\ live' = Effect(w) /\ late' = late \ {w}
      BY <3>1 DEF LateEffect, OthersChange
    <3>3. Timely(w)
      BY <1>1, <3>2 DEF LateIsHarmless, Timely
    <3>4. /\ Forward' /\ NeverUnenforced'
          /\ live["v2"] = "active" => live'["v2"] = "active"
          /\ \A s \in Surfaces : live[s] = "after" => live'[s] = "after"
          /\ w # "create" /\ live["v2"] = "absent" => live'["v2"] = "absent"
      BY <1>0, <1>1, <3>2, <3>3, EffectMovesForward
    <3>5. FoundIsStillSo'
      BY <1>1, <2>1, <3>2, <3>4 DEF FoundIsStillSo, LateIsHarmless
    <3>6. LateIsHarmless'
      BY <1>1, <2>1, <3>2, <3>4 DEF LateIsHarmless, All
    <3>7. QED
      BY <3>4, <3>5, <3>6
  <2>4. CASE \E p \in Parts : Drift(p)
    BY <2>4 DEF Drift
  <2>5. CASE \E p \in Parts : Repair(p)
    <3>1. \A p \in Parts : live[p] \notin {"drifted", "foreign"}
      BY <1>1 DEF Parts, Forward
    <3>2. QED
      BY <2>5, <3>1 DEF Repair
  <2>6. QED
    BY <1>2, <2>2, <2>3, <2>4, <2>5, OthersFrame
<1>3. CASE Silent
  <2>1. UNCHANGED <<live, late>>
    BY <1>3, SilentFrame
  <2>2. Forward' /\ NeverUnenforced'
    BY <1>0, <1>1, <2>1 DEF Forward, NeverUnenforced, All
  <2>3. FoundIsStillSo'
    <3>1. CASE snap' = NoSnap
      BY <3>1 DEF FoundIsStillSo, NoSnap
    <3>2. CASE pc' = "preflight" /\ snap' = snap
      BY <1>1, <2>1, <3>2 DEF FoundIsStillSo
    <3>3. CASE mode' = mode /\ snap' # NoSnap /\ ~(pc' = "preflight" /\ snap' = snap)
      BY <1>1, <1>3, <2>1, <3>3, SilentSnap, FoundIsKept
    <3>4. QED
      BY <1>3, <3>1, <3>2, <3>3, SilentSnap
  <2>4. LateIsHarmless'
    BY <1>1, <1>3, <2>1, StageStarts DEF LateIsHarmless, All
  <2>5. QED
    BY <2>2, <2>3, <2>4
<1>4. CASE Handle
  <2>1. /\ pc = "answer" /\ pc' = "answered" /\ live' = Effect(pending)
        /\ UNCHANGED <<late, mode, snap>>
    BY <1>4 DEF Handle, Goto
  <2>2. /\ pending \in Writes /\ Timely(pending)
        /\ pending = "create" => "create" \notin late
    BY <1>0, <2>1, PendingIsTimely
  <2>3. /\ Forward' /\ NeverUnenforced'
        /\ live["v2"] = "active" => live'["v2"] = "active"
        /\ \A s \in Surfaces : live[s] = "after" => live'[s] = "after"
        /\ pending # "create" /\ live["v2"] = "absent" => live'["v2"] = "absent"
    BY <1>0, <1>1, <2>1, <2>2, EffectMovesForward
  <2>4. FoundIsStillSo'
    BY <1>1, <2>1, <2>3 DEF FoundIsStillSo
  <2>5. LateIsHarmless'
    BY <1>1, <2>1, <2>2, <2>3 DEF LateIsHarmless, All
  <2>6. QED
    BY <2>3, <2>4, <2>5
<1>5. CASE AnswerLost \/ Crash
  <2>1. /\ UNCHANGED live
        /\ late' = IF pc = "answer" THEN late \cup {pending} ELSE late
    BY <1>5 DEF AnswerLost, Crash
  <2>2. Forward' /\ NeverUnenforced'
    BY <1>0, <1>1, <2>1 DEF Forward, NeverUnenforced, All
  <2>3. \/ snap' = NoSnap
        \/ UNCHANGED <<snap, mode>> /\ pc' \in {"checkIdentity", "recheck"} /\ pc # "idle"
             /\ pending # "create"
    BY <1>5, Ended, Failed, PartsDiffer DEF AnswerLost, Crash, Goto
  <2>4. FoundIsStillSo'
    <3>1. CASE snap' = NoSnap
      BY <3>1 DEF FoundIsStillSo, NoSnap
    <3>2. CASE snap' # NoSnap
      BY <1>1, <2>1, <2>3, <3>2, FoundIsKept
    <3>3. QED
      BY <3>1, <3>2
  <2>5. mode' = "stage" /\ pc' # "idle" => "create" \notin late'
    <3>1. CASE Crash
      BY <3>1, Ended DEF Crash
    <3>2. CASE AnswerLost
      BY <1>1, <2>1, <3>2, Failed, PartsDiffer DEF AnswerLost, Goto, LateIsHarmless, Fail
    <3>3. QED
      BY <1>5, <3>1, <3>2
  <2>6. LateIsHarmless'
    <3>1. pc = "answer" => Timely(pending)
      BY <1>0, PendingIsTimely
    <3>2. QED
      BY <1>1, <2>1, <2>5, <3>1 DEF LateIsHarmless, Timely, All
  <2>7. QED
    BY <2>2, <2>4, <2>6
<1>6. CASE UNCHANGED vars
  BY <1>0, <1>1, <1>6 DEF Forward, FoundIsStillSo, LateIsHarmless, NeverUnenforced, All
<1>7. QED
  BY <1>2, <1>3, <1>4, <1>5, <1>6, NextCases

-----------------------------------------------------------------------------
(* The theorems.                                                           *)

LEMMA InitInv == Init => Inv
<1> SUFFICES ASSUME Init PROVE Inv
  OBVIOUS
<1> USE PartsDiffer
<1>1. TypeInv
  BY DEF Init, TypeInv
<1>2. \A s \in Surfaces : live[s] = "before"
  BY DEF Init
<1>3. live["legacy"] = "before" /\ live["v2"] = "absent" /\ live["scheduler"] = "active"
  BY DEF Init
<1>4. HandoffInv
  BY <1>2, <1>3 DEF Init, HandoffInv, Forward, FoundIsStillSo, LateIsHarmless,
     NeverUnenforced, All, NoSnap
<1>5. RoundsReadAll /\ WritesAsPlanned
  BY DEF Init, RoundsReadAll, WritesAsPlanned, Late, Cleaning, Rounds, FirstRounds
<1>6. QED
  BY <1>1, <1>4, <1>5 DEF Inv

LEMMA NextInv == Inv /\ [Next]_vars => Inv'
BY TypeKept, RoundsKept, WritesKept, HandoffKept DEF Inv

\* The invariant holds of every behaviour of the handoff.
THEOREM InvHolds == Spec => []Inv
BY InitInv, NextInv, PTL DEF Spec

\* However commands are ordered, repeated, killed or overtaken by their own late
\* writes, over any number of surfaces, no repository and not the organization is
\* ever without a gate as long as nobody else changes anything.
THEOREM NeverUnenforcedHolds == Spec => []NeverUnenforced
<1>1. Inv => NeverUnenforced
  BY DEF Inv, HandoffInv, NeverUnenforced
<1>2. QED
  BY <1>1, InvHolds, PTL

-----------------------------------------------------------------------------
(* The final receipt.                                                      *)

LEMMA ReportsElsewhere ==
    ASSUME Silent, ~EndSecond
    PROVE  report' = "final-verified" => report = "final-verified" /\ pc' # "idle"
BY Failed, Ended DEF Silent, Invoke, Preflight, EndUncovered, EndFirst, EndUnstable, Read,
   Revalidate, FinalLegacy, FinalScheduler, ReadIdentity, ReadSurface, RereadIdentity,
   EndCleaning, Send, Answered, AfterAnswer, CheckIdentity, CheckSurface, Reread, Drain,
   Control, EndBack, Fault, Goto, NextSurface, StartRound, RoundEnds, Rounds, FirstRounds

\* Only the end of a first round and its reads lead into a second one.
LEMMA SecondStarts ==
    ASSUME Silent, pc' = "second"
    PROVE  EndFirst \/ \E p \in PartsRead : Read(p) /\ ~Fail
BY Failed, Ended DEF Silent, Invoke, Preflight, EndUncovered, EndUnstable, EndSecond, Read,
   Revalidate, FinalLegacy, FinalScheduler, ReadIdentity, ReadSurface, RereadIdentity,
   EndCleaning, Send, Answered, AfterAnswer, CheckIdentity, CheckSurface, Reread, Drain,
   Control, EndBack, Fault, Goto, NextSurface, StartRound

LEMMA DriftStaysBad ==
    ASSUME TypeInv, NEW p \in Gated, live[p] # Good(p), Others, pc # "idle", ~landed'
    PROVE  live'[p] # Good(p)
<1>1. CASE live' = live
  BY <1>1
<1>2. CASE \E q \in Parts : Drift(q)
  <2>1. PICK q \in Parts : Drift(q)
    BY <1>2
  <2>2. PICK value \in DriftStates(q) : live' = [live EXCEPT ![q] = value]
    BY <2>1 DEF Drift, OthersChange
  <2>3. p = q => value # Good(p)
    BY <2>2, PartsDiffer DEF DriftStates, Good, Gated
  <2>4. p \in DOMAIN live
    BY DEF TypeInv, Gated, Parts
  <2>5. QED
    BY <2>2, <2>3, <2>4
<1>3. ~\E q \in Parts : Repair(q)
  BY DEF Repair
<1>4. ~\E w \in Writes : LateEffect(w)
  BY DEF LateEffect
<1>5. QED
  BY <1>1, <1>2, <1>3, <1>4, OthersFrame

LEMMA StillIncompleteKept ==
    ASSUME Inv, StillIncomplete, [Next]_vars
    PROVE  StillIncomplete'
<1> SUFFICES ASSUME mode' = "verify", pc' = "second", ~landed', ~complete'
             PROVE  \E p \in Gated :
                      /\ live'[p] # Good(p)
                      /\ p \in DOMAIN again' => again'[p] # Good(p)
  BY DEF StillIncomplete
<1>1. CASE Others
  <2>1. UNCHANGED <<mode, pc, again, complete>> /\ ~landed
    BY <1>1, OthersFrame
  <2>2. QED
    BY <1>1, <2>1, DriftStaysBad DEF StillIncomplete, Inv
<1>2. CASE Silent
  <2>1. CASE EndFirst
    <3>1. ~Complete /\ again' = NoSnap /\ UNCHANGED live
      BY <2>1, <1>2, SilentFrame DEF EndFirst, StartRound
    <3>2. PICK p \in Gated : live[p] # Good(p)
      BY <3>1, PartsDiffer DEF Complete, All, Gated, Good
    <3>3. p \notin DOMAIN again'
      BY <3>1 DEF NoSnap
    <3>4. QED
      BY <3>1, <3>2, <3>3
  <2>2. CASE \E q \in PartsRead : Read(q) /\ ~Fail
    <3>1. PICK q \in PartsRead : Read(q) /\ ~Fail
      BY <2>2
    <3>2. /\ UNCHANGED <<mode, pc, complete, landed, live>>
          /\ again' = With(again, q)
      BY <3>1 DEF Read, FirstRounds
    <3>3. PICK p \in Gated : live[p] # Good(p) /\ (p \in DOMAIN again => again[p] # Good(p))
      BY <3>2 DEF StillIncomplete
    <3>4. Found(p) = live[p]
      BY PartsDiffer DEF Found, Gated
    <3>5. p \in DOMAIN again' => again'[p] # Good(p)
      BY <3>2, <3>3, <3>4 DEF With
    <3>6. QED
      BY <3>2, <3>3, <3>5
  <2>3. QED
    BY <1>2, <2>1, <2>2, SecondStarts
<1>3. CASE Handle \/ AnswerLost \/ Crash
  BY <1>3, Failed, Ended DEF Handle, AnswerLost, Crash, Goto
<1>4. CASE UNCHANGED vars
  BY <1>4 DEF StillIncomplete
<1>5. QED
  BY <1>1, <1>2, <1>3, <1>4, NextCases

LEMMA AuthorizedParts ==
    /\ \A p \in Parts \ {"v2"} :
          Authorized(p) = IF p = "scheduler" THEN AuthorizedScheduler ELSE {"before", "after"}
    /\ \A p \in Parts \ {"v2"} :
          Authorized(p)' = IF p = "scheduler" THEN AuthorizedScheduler' ELSE {"before", "after"}
    /\ mode' = mode => AuthorizedScheduler' = AuthorizedScheduler
BY PartsDiffer DEF Parts, Authorized, AuthorizedScheduler

LEMMA AuthorizedKept ==
    ASSUME Inv, FoundIsAuthorized, [Next]_vars
    PROVE  FoundIsAuthorized'
<1>1. CASE snap' = NoSnap /\ again' = NoSnap
  BY <1>1 DEF FoundIsAuthorized, NoSnap
<1>2. CASE /\ snap' = snap /\ again' \in {again, NoSnap} /\ mode' = mode
           /\ pc \in {"idle", "preflight"} => pc' \in {"idle", "preflight"}
  <2>1. \A p \in Parts \ {"v2"} : Authorized(p)' = Authorized(p)
    BY <1>2, AuthorizedParts
  <2>2. QED
    BY <1>2, <2>1 DEF FoundIsAuthorized, NoSnap
<1>3. CASE pc' = "preflight"
  BY <1>3 DEF FoundIsAuthorized
<1>4. CASE \E p \in PartsRead : Read(p) /\ ~Fail
  <2>1. PICK p \in PartsRead : Read(p) /\ ~Fail
    BY <1>4
  <2>2. /\ UNCHANGED <<mode, pc>> /\ pc \in Rounds
        /\ Found(p) \in Authorized(p)
        /\ \/ snap' = With(snap, p) /\ again' = again
           \/ again' = With(again, p) /\ snap' = snap
    BY <2>1 DEF Read
  <2>3. \A q \in Parts \ {"v2"} : Authorized(q)' = Authorized(q)
    BY <2>2, AuthorizedParts
  <2>4. FoundIsAuthorized /\ pc \notin {"idle", "preflight"}
    BY <2>2 DEF Rounds, FirstRounds
  <2>5. \A q \in DOMAIN snap' \cap (Parts \ {"v2"}) : snap'[q] \in Authorized(q)
    BY <2>2, <2>4 DEF FoundIsAuthorized, With
  <2>6. \A q \in DOMAIN again' \cap (Parts \ {"v2"}) : again'[q] \in Authorized(q)
    BY <2>2, <2>4 DEF FoundIsAuthorized, With
  <2>7. QED
    BY <2>3, <2>5, <2>6 DEF FoundIsAuthorized
<1>5. QED
  <2>1. CASE Others \/ UNCHANGED vars
    BY <1>2, <2>1, OthersFrame
  <2>2. CASE Handle \/ AnswerLost \/ Crash
    <3>1. \/ snap' = NoSnap /\ again' = NoSnap
          \/ UNCHANGED <<snap, again, mode>> /\ pc \in {"answer", "answered"}
      BY <2>2 DEF Handle, AnswerLost, Crash, Goto, Fail, End
    <3>2. QED
      BY <1>1, <1>2, <3>1
  <2>3. CASE Silent /\ ~\E p \in PartsRead : Read(p) /\ ~Fail
    <3>1. \/ snap' = NoSnap /\ again' = NoSnap
          \/ pc' = "preflight"
          \/ snap' = snap /\ again' \in {again, NoSnap} /\ mode' = mode /\ pc \notin {"idle", "preflight"}
      BY <2>3 DEF Silent, Invoke, Preflight, EndUncovered, EndFirst, EndUnstable,
         EndSecond, Read, Revalidate, FinalLegacy, FinalScheduler, ReadIdentity, ReadSurface,
         RereadIdentity, EndCleaning, Send, Answered, AfterAnswer, CheckIdentity,
         CheckSurface, Reread, Drain, Control, EndBack, Fault, Goto, NextSurface, Fail, End,
         StartRound, FirstRounds, Quiet, RoundEnds, Rounds, Cleaning
    <3>2. QED
      BY <1>1, <1>2, <1>3, <3>1
  <2>4. QED
    BY <1>4, <2>1, <2>2, <2>3, NextCases

LEMMA ReceiptKept ==
    ASSUME Inv, ReceiptInv, [Next]_vars
    PROVE  ReceiptInv'
<1>1. StillIncomplete' /\ FoundIsAuthorized'
  BY StillIncompleteKept, AuthorizedKept DEF ReceiptInv
<1> SUFFICES ASSUME report' = "final-verified"
             PROVE  pc' = "idle" /\ (~landed' => complete')
  BY <1>1 DEF ReceiptInv, FinalReceiptIsReal
<1>2. CASE Others \/ UNCHANGED vars
  BY <1>2, OthersFrame DEF ReceiptInv, FinalReceiptIsReal
<1>3. CASE Handle \/ AnswerLost \/ Crash
  BY <1>3, Failed, Ended DEF Handle, AnswerLost, Crash, Goto, ReceiptInv
<1>4. CASE Silent /\ ~EndSecond
  <2>1. report = "final-verified" /\ pc = "idle" /\ pc' # "idle"
    BY <1>4, ReportsElsewhere DEF ReceiptInv
  <2>2. report' = "none"
    BY <1>4, <2>1 DEF Silent, Invoke, Preflight, EndUncovered, EndFirst, EndUnstable, Read,
       Revalidate, FinalLegacy, FinalScheduler, ReadIdentity, ReadSurface, RereadIdentity,
       EndCleaning, Send, Answered, CheckIdentity, CheckSurface, Reread, Drain, Control,
       EndBack, Fault, RoundEnds, Rounds, FirstRounds
  <2>3. QED
    BY <2>2
<1>5. CASE EndSecond
  <2>1. pc = "second" /\ report # "final-verified"
    BY <1>5 DEF EndSecond, ReceiptInv
  <2>2. /\ pc' = "idle" /\ Proceeds /\ Finding = "final-verified"
        /\ Planned(mode, snap) = {} \/ ~apply
        /\ todo = {} /\ again = snap
        /\ UNCHANGED <<landed, complete>>
    BY <1>5, <2>1, Ended DEF EndSecond, StartRound, RoundEnds, Differs
  <2>3. mode = "verify" /\ Planned(mode, snap) = {}
    <3>1. mode = "recover" => Planned(mode, snap) = {}
      BY DEF Planned
    <3>2. QED
      BY <2>2, <3>1 DEF Finding
  <2>4. PartsRead = Parts \cup {"rules"} /\ PartsRead \subseteq DOMAIN snap
    BY <2>1, <2>2, <2>3 DEF PartsRead, Inv, RoundsReadAll, Rounds, FirstRounds
  <2>5. snap["legacy"] = "after"
    <3>1. snap["legacy"] \in {"before", "after"}
      BY <2>1, <2>4, PartsDiffer, AuthorizedParts DEF ReceiptInv, FoundIsAuthorized
    <3>2. QED
      BY <2>3, <3>1 DEF Planned
  <2>6. snap["v2"] = "active" /\ All(snap, "after")
    BY <2>2, <2>3 DEF Proceeds, Precondition
  <2>7. \A p \in Gated : p \in DOMAIN again /\ again[p] = Good(p)
    BY <2>2, <2>4, <2>5, <2>6, PartsDiffer DEF Gated, Good, Parts, All
  <2>8. ~landed => complete
    BY <2>1, <2>3, <2>7 DEF ReceiptInv, StillIncomplete
  <2>9. QED
    BY <2>2, <2>8
<1>6. QED
  BY <1>2, <1>3, <1>4, <1>5, NextCases

\* The final receipt is given only for a handoff that was complete at one instant,
\* whatever administrators change between the reads of its two rounds, unless a
\* write whose answer was lost took effect meanwhile.
THEOREM FinalReceiptIsRealHolds == Spec => []FinalReceiptIsReal
<1>1. Init => ReceiptInv
  BY DEF Init, ReceiptInv, StillIncomplete, FoundIsAuthorized, FinalReceiptIsReal
<1>2. Inv /\ ReceiptInv /\ [Next]_vars => ReceiptInv'
  BY ReceiptKept
<1>3. ReceiptInv => FinalReceiptIsReal
  BY DEF ReceiptInv
<1>4. QED
  BY <1>1, <1>2, <1>3, InvHolds, PTL DEF Spec

-----------------------------------------------------------------------------
(* What a write finds.                                                     *)

\* Others mark each part they change from the last full round on.
LEMMA OthersMark ==
    ASSUME TypeInv, KnownTypes, Others, NEW p \in Parts
    PROVE  \/ live'[p] = live[p] /\ changed'[p] = changed[p]
           \/ IF pc \in Late THEN changed'[p] = pc ELSE changed'[p] = changed[p]
<1>1. CASE live' = live
  <2>1. changed' = changed
    BY <1>1 DEF Others, Drift, Repair, LateEffect, LateLoss, SchedulerRuns, OthersChange, KnownTypes
  <2>2. QED
    BY <1>1, <2>1
<1>2. CASE live' # live
  <2>1. changed' = [q \in Parts |-> IF live'[q] # live[q] /\ pc \in Late THEN pc ELSE changed[q]]
    BY <1>2 DEF Others, Drift, Repair, LateEffect, LateLoss, SchedulerRuns, OthersChange
  <2>2. QED
    BY <2>1
<1>3. QED
  BY <1>1, <1>2

LEMMA SilentChanged ==
    ASSUME Silent, pc' # "preflight"
    PROVE  UNCHANGED <<changed, live, running, late>>
BY DEF Silent, Invoke, Preflight, EndUncovered, EndFirst, EndUnstable, EndSecond, Read,
   Revalidate, FinalLegacy, FinalScheduler, ReadIdentity, ReadSurface, RereadIdentity,
   EndCleaning, Send, Answered, CheckIdentity, CheckSurface, Reread, Drain, Control,
   EndBack, Fault, Quiet

LEMMA SurfaceEffect ==
    ASSUME TypeInv, NEW w, NEW s \in Surfaces
    PROVE  Effect(w)[s] \in {live[s], "after"}
BY PartsDiffer DEF Effect, TypeInv

LEMMA KnownTypesKept ==
    ASSUME Inv, KnownTypes, [Next]_vars
    PROVE  KnownTypes'
<1> USE DEF Inv
<1>1. changed' = [p \in Parts |-> changed'[p]]
  BY NextCases, SilentChanged DEF KnownTypes, Others, Drift, Repair, LateEffect, LateLoss,
     SchedulerRuns, OthersChange, Silent, Invoke, Handle, AnswerLost, Crash, Preflight,
     EndUncovered, EndFirst, EndUnstable, EndSecond, Read,
     Revalidate, FinalLegacy, FinalScheduler, ReadIdentity, ReadSurface, RereadIdentity,
     EndCleaning, Send, Answered, CheckIdentity, CheckSurface, Reread, Drain, Control,
     EndBack, Fault, Quiet
<1>2. ASSUME NEW s \in Surfaces PROVE live'[s] \in SurfaceStates
  <2>1. CASE live' = live
    BY <2>1 DEF KnownTypes
  <2>2. CASE \E w : live' = Effect(w)
    BY <2>2, SurfaceEffect DEF KnownTypes, SurfaceStates
  <2>3. CASE \E p \in Parts : Drift(p) \/ Repair(p)
    <3>1. PICK p \in Parts : Drift(p) \/ Repair(p)
      BY <2>3
    <3>2. PICK value \in DriftStates(p) \cup PartStates(p) : live' = [live EXCEPT ![p] = value]
      BY <3>1 DEF Drift, Repair, OthersChange
    <3>3. p = s => value \in SurfaceStates
      BY <3>2, PartsDiffer DEF DriftStates, PartStates, SurfaceStates
    <3>4. QED
      BY <3>2, <3>3 DEF KnownTypes, TypeInv
  <2>4. QED
    BY <2>1, <2>2, <2>3, NextCases, SilentFrame DEF Others, LateEffect, LateLoss,
       SchedulerRuns, OthersChange, Handle, AnswerLost, Crash
<1>3. QED
  BY <1>1, <1>2 DEF KnownTypes

LEMMA RereadKept ==
    ASSUME Inv, KnownTypes, RereadIsCurrent, [Next]_vars
    PROVE  RereadIsCurrent'
<1> SUFFICES ASSUME pc' = "revalidate", NEW p \in Parts \cap DOMAIN again'
             PROVE  live'[p] = again'[p] \/ changed'[p] \in Late
  BY DEF RereadIsCurrent
<1>1. CASE Others \/ UNCHANGED vars
  <2>1. UNCHANGED <<pc, again>> /\ "revalidate" \in Late
    BY <1>1, OthersFrame DEF Late
  <2>2. QED
    BY <1>1, <2>1, OthersMark DEF RereadIsCurrent, Inv
<1>2. CASE Handle \/ AnswerLost \/ Crash
  BY <1>2, Failed, Ended DEF Handle, AnswerLost, Crash, Goto
<1>3. CASE Silent
  <2>1. UNCHANGED <<changed, live>>
    BY <1>3, SilentChanged
  <2>2. again' = NoSnap \/ \E q \in PartsRead : Read(q) /\ ~Fail
    BY <1>3, Failed, Ended DEF Silent, Invoke, Preflight, EndUncovered, EndFirst, EndUnstable,
       EndSecond, Read, Revalidate, FinalLegacy, FinalScheduler, ReadIdentity, ReadSurface,
       RereadIdentity, EndCleaning, Send, Answered, AfterAnswer, CheckIdentity,
       CheckSurface, Reread, Drain, Control, EndBack, Fault, Goto, NextSurface, StartRound
  <2>3. CASE again' = NoSnap
    BY <2>3 DEF NoSnap
  <2>4. CASE \E q \in PartsRead : Read(q) /\ ~Fail
    <3>1. PICK q \in PartsRead : Read(q) /\ ~Fail
      BY <2>4
    <3>2. pc = "revalidate" /\ again' = With(again, q)
      BY <3>1 DEF Read, FirstRounds
    <3>3. Found(p) = live[p]
      BY PartsDiffer DEF Found, Parts
    <3>4. QED
      BY <2>1, <3>2, <3>3 DEF RereadIsCurrent, With
  <2>5. QED
    BY <2>2, <2>3, <2>4
<1>4. QED
  BY <1>1, <1>2, <1>3, NextCases

\* A command goes towards a write only when the revalidation found nothing new.
LEMMA TowardStarts ==
    ASSUME Inv, Silent, pc' \in TowardWrite'
    PROVE  /\ UNCHANGED <<mode, snap>>
           /\ pc \in TowardWrite \/ (pc = "revalidate" /\ again = snap /\ todo = {})
<1> USE DEF Inv
<1>1. pc' \in {"finalLegacy", "finalScheduler", "write", "answer", "answered"} \cup Cleaning
  BY DEF TowardWrite
<1>2. CASE FinalLegacy \/ FinalScheduler \/ Send
  BY <1>1, <1>2, Ended DEF FinalLegacy, FinalScheduler, Send, Goto, Quiet, TowardWrite, Cleaning
<1>3. CASE Revalidate
  BY <1>1, <1>3, Ended DEF Revalidate, Quiet, RoundEnds, Differs, Cleaning
<1>4. CASE ReadSurface \/ RereadIdentity \/ CheckIdentity \/ CheckSurface
           \/ \E s \in Surfaces : ReadIdentity(s)
  BY <1>1, <1>4, Ended DEF ReadSurface, RereadIdentity, CheckIdentity, CheckSurface,
     ReadIdentity, NextSurface, Goto, Quiet, TowardWrite, Cleaning
<1>5. CASE Answered
  <2>1. pending \in Surfaces /\ UNCHANGED <<mode, snap>> /\ pc = "answered"
    BY <1>1, <1>5, PartsDiffer DEF Answered, AfterAnswer, Goto, Quiet, StartRound, Cleaning
  <2>2. mode = "cleanup"
    BY <2>1, SurfaceWrites DEF WritesAsPlanned, Late
  <2>3. QED
    BY <2>1, <2>2 DEF TowardWrite
<1>6. CASE \E p \in PartsRead : Read(p)
  BY <1>1, <1>6, Failed DEF Read, Rounds, FirstRounds, Cleaning
<1>7. CASE \/ Preflight \/ EndUncovered \/ EndFirst \/ EndUnstable \/ EndSecond \/ EndCleaning
           \/ \E m \in Modes, a \in BOOLEAN : Invoke(m, a)
  BY <1>1, <1>7, Ended DEF Preflight, EndUncovered, EndFirst, EndUnstable, EndSecond,
     EndCleaning, Invoke, StartRound, Cleaning
<1>8. CASE Reread \/ Drain \/ Control \/ EndBack \/ Fault
  BY <1>1, <1>8, Ended, Failed DEF Reread, Drain, Control, EndBack, Fault, Goto, Cleaning
<1>9. QED
  BY <1>2, <1>3, <1>4, <1>5, <1>6, <1>7, <1>8 DEF Silent

LEMMA SinceKept ==
    ASSUME Inv, KnownTypes, RereadIsCurrent, SinceRevalidation, [Next]_vars
    PROVE  SinceRevalidation'
<1> USE DEF Inv
<1> SUFFICES ASSUME pc' \in TowardWrite', NEW p \in Parts, p \in PartsRead'
             PROVE  AsFound(p)' \/ changed'[p] \in Late
  BY DEF SinceRevalidation
<1>1. CASE Others \/ UNCHANGED vars
  <2>1. UNCHANGED <<pc, mode, snap>>
    BY <1>1, OthersFrame
  <2>2. pc \in TowardWrite /\ pc \in Late /\ p \in PartsRead
    BY <2>1 DEF TowardWrite, Late, PartsRead
  <2>3. AsFound(p) \/ changed[p] \in Late
    BY <2>2 DEF SinceRevalidation
  <2>4. QED
    BY <1>1, <2>1, <2>2, <2>3, OthersMark DEF AsFound
<1>2. CASE Silent
  <2>1. UNCHANGED <<mode, snap>>
    BY <1>2, TowardStarts
  <2>2. UNCHANGED <<changed, live>>
    BY <1>2, SilentChanged DEF TowardWrite, Cleaning
  <2>3. p \in PartsRead
    BY <2>1 DEF PartsRead
  <2>4. AsFound(p) \/ changed[p] \in Late
    <3>1. CASE pc \in TowardWrite
      BY <2>3, <3>1 DEF SinceRevalidation
    <3>2. CASE pc = "revalidate" /\ again = snap /\ todo = {}
      <4>1. p \in DOMAIN again
        BY <2>3, <3>2 DEF RoundsReadAll, Rounds, FirstRounds
      <4>2. QED
        BY <3>2, <4>1 DEF RereadIsCurrent, AsFound
    <3>3. QED
      BY <1>2, <3>1, <3>2, TowardStarts
  <2>5. QED
    BY <2>1, <2>2, <2>4 DEF AsFound
<1>3. CASE Handle
  <2>1. /\ pc = "answer" /\ pc' = "answered" /\ live' = Effect(pending)
        /\ UNCHANGED <<mode, snap, changed>>
    BY <1>3 DEF Handle, Goto
  <2>2. mode = "cleanup" /\ p \in PartsRead
    BY <2>1 DEF TowardWrite, PartsRead, Cleaning
  <2>3. pending \in Surfaces
    BY <2>1, <2>2, SurfaceWrites DEF WritesAsPlanned
  <2>4. live' = [live EXCEPT ![pending] = "after"]
    BY <2>1, <2>3, PartsDiffer DEF Effect
  <2>5. AsFound(p) \/ changed[p] \in Late
    BY <2>1, <2>2 DEF SinceRevalidation, TowardWrite
  <2>6. QED
    BY <2>1, <2>2, <2>3, <2>4, <2>5 DEF AsFound, TypeInv
<1>4. CASE AnswerLost \/ Crash
  <2>1. pc' \notin {"idle", "first", "recheck"}
    BY DEF TowardWrite, Cleaning
  <2>2. AnswerLost /\ pending \in Surfaces
    BY <1>4, <2>1, Failed, Ended DEF AnswerLost, Crash, Goto
  <2>3. /\ UNCHANGED <<mode, snap, changed, live>>
        /\ pc \in {"answer", "answered"}
    BY <2>2, PartsDiffer DEF AnswerLost, Goto
  <2>4. mode = "cleanup" /\ p \in PartsRead
    BY <2>2, <2>3, SurfaceWrites DEF WritesAsPlanned, PartsRead
  <2>5. AsFound(p) \/ changed[p] \in Late
    BY <2>3, <2>4 DEF SinceRevalidation, TowardWrite
  <2>6. QED
    BY <2>3, <2>5 DEF AsFound
<1>5. QED
  BY <1>1, <1>2, <1>3, <1>4, NextCases

LEMMA DrainedKept ==
    ASSUME Inv, KnownTypes, FoundIsAuthorized, RereadIsCurrent, StillDrained, [Next]_vars
    PROVE  StillDrained'
<1> USE DEF Inv
<1> SUFFICES ASSUME mode' = "activate", DrainProved'
             PROVE  (~running' /\ live'["scheduler"] = "disabled") \/ changed'["scheduler"] \in Late
  BY DEF StillDrained
<1>1. CASE Others \/ UNCHANGED vars
  <2>1. UNCHANGED <<pc, mode, again>> /\ pc \in Late /\ DrainProved
    BY <1>1, OthersFrame DEF DrainProved, Late
  <2>2. (~running /\ live["scheduler"] = "disabled") \/ changed["scheduler"] \in Late
    BY <2>1 DEF StillDrained
  <2>3. running' = running \/ running \/ live["scheduler"] = "active"
    BY <1>1 DEF Others, Drift, Repair, LateEffect, LateLoss, SchedulerRuns, OthersChange
  <2>4. QED
    BY <1>1, <2>1, <2>2, <2>3, OthersMark, PartsDiffer
<1>2. CASE Silent
  <2>1. UNCHANGED <<changed, live, running>>
    BY <1>2, SilentChanged DEF DrainProved
  <2>2. CASE DrainProved /\ mode = "activate"
    BY <2>1, <2>2 DEF StillDrained
  <2>3. CASE \E p \in PartsRead : Read(p) /\ ~Fail
    <3>1. PICK p \in PartsRead : Read(p) /\ ~Fail
      BY <2>3
    <3>2. UNCHANGED <<mode, pc>> /\ pc \in Rounds
          /\ IF pc \in FirstRounds THEN UNCHANGED again ELSE again' = With(again, p)
      BY <3>1 DEF Read
    <3>3. pc = "revalidate" /\ "runs" \in DOMAIN again'
      BY <3>2 DEF DrainProved, Rounds, FirstRounds
    <3>4. CASE p = "runs"
      <4>1. ~running /\ "scheduler" \notin todo
        BY <3>1, <3>2, <3>4 DEF Read, Drained, Earlier
      <4>2. "scheduler" \in DOMAIN again
        BY <3>2, <3>3, <4>1, PartsDiffer DEF RoundsReadAll, PartsRead, Rounds, FirstRounds
      <4>3. again["scheduler"] = "disabled"
        BY <3>2, <3>3, <4>2, PartsDiffer, AuthorizedParts DEF FoundIsAuthorized, AuthorizedScheduler
      <4>4. QED
        BY <2>1, <3>3, <4>1, <4>2, <4>3, PartsDiffer DEF RereadIsCurrent
    <3>5. CASE p # "runs"
      <4>1. DrainProved
        BY <3>2, <3>3, <3>5 DEF DrainProved, With, FirstRounds
      <4>2. QED
        BY <2>2, <3>2, <4>1
    <3>6. QED
      BY <3>4, <3>5
  <2>4. CASE /\ ~\E p \in PartsRead : Read(p) /\ ~Fail
             /\ ~(DrainProved /\ mode = "activate")
    <3>1. CASE pc' \in {"write", "answer"}
      <4>1. /\ UNCHANGED mode
            /\ pc \in TowardWrite \/ (pc = "revalidate" /\ again = snap /\ todo = {})
        BY <1>2, <3>1, TowardStarts DEF TowardWrite
      <4>2. pc # "revalidate"
        <5>1. ASSUME pc = "revalidate" PROVE FALSE
          <6>1. "runs" \in PartsRead /\ again = snap /\ todo = {}
            BY <4>1, <5>1 DEF PartsRead, TowardWrite, Cleaning
          <6>2. "runs" \in DOMAIN again
            BY <5>1, <6>1 DEF RoundsReadAll, Rounds, FirstRounds
          <6>3. QED
            BY <2>4, <4>1, <5>1, <6>2 DEF DrainProved
        <5>2. QED
          BY <5>1
      <4>3. pc \notin {"write", "answer"}
        BY <2>4, <4>1 DEF DrainProved
      <4>4. mode = "activate" /\ pc \notin Cleaning \cup {"finalLegacy", "finalScheduler"}
        BY <4>1 DEF WritesAsPlanned
      <4>5. QED
        BY <4>1, <4>2, <4>3, <4>4 DEF TowardWrite
    <3>2. CASE pc' = "revalidate"
      <4>1. again' = NoSnap
        BY <1>2, <2>4, <3>2, Failed, Ended DEF Silent, Invoke, Preflight, EndUncovered,
           EndFirst, EndUnstable, EndSecond, Read, Revalidate, FinalLegacy, FinalScheduler,
           ReadIdentity, ReadSurface, RereadIdentity, EndCleaning, Send, Answered, AfterAnswer,
           CheckIdentity, CheckSurface, Reread, Drain, Control, EndBack, Fault, Goto,
           NextSurface, StartRound
      <4>2. QED
        BY <3>2, <4>1 DEF DrainProved, NoSnap
    <3>3. QED
      BY <3>1, <3>2 DEF DrainProved
  <2>5. QED
    BY <2>2, <2>3, <2>4
<1>3. CASE Handle \/ AnswerLost \/ Crash
  BY <1>3, Failed, Ended DEF Handle, AnswerLost, Crash, Goto, DrainProved
<1>4. QED
  BY <1>1, <1>2, <1>3, NextCases

LEMMA CutoverKept ==
    ASSUME Inv, KnownTypes, NextToCutover, [Next]_vars
    PROVE  NextToCutover'
<1> USE DEF Inv
<1>1. CASE Others \/ UNCHANGED vars
  <2>1. UNCHANGED <<pc, mode, snap>>
    BY <1>1, OthersFrame
  <2>2. pc \in {"finalScheduler", "write", "answer"} => pc \in Late
    BY DEF Late
  <2>3. ASSUME NEW p \in Parts, pc \in Late
        PROVE  (live'[p] = live[p] /\ changed'[p] = changed[p]) \/ changed'[p] = pc
    BY <1>1, <2>3, OthersMark
  <2>4. QED
    BY <2>1, <2>2, <2>3, PartsDiffer DEF NextToCutover
<1>2. CASE Silent
  <2> SUFFICES ASSUME mode' = "verify", pc' \in {"finalScheduler", "write", "answer"}
               PROVE  NextToCutover'
    BY DEF NextToCutover
  <2>1. UNCHANGED <<changed, live, mode, snap>>
    BY <1>2, SilentChanged, TowardStarts DEF TowardWrite
  <2>2. CASE FinalLegacy
    BY <2>1, <2>2, Ended DEF FinalLegacy, Goto, NextToCutover
  <2>3. CASE FinalScheduler
    BY <2>1, <2>3, Ended DEF FinalScheduler, Goto, NextToCutover
  <2>4. CASE Send
    BY <2>1, <2>4 DEF Send, Goto, NextToCutover
  <2>5. CASE ~FinalLegacy /\ ~FinalScheduler /\ ~Send
    <3>1. ~Revalidate
      BY <2>1, Ended DEF Revalidate
    <3>2. ~RereadIdentity
      BY <2>1 DEF RereadIdentity, WritesAsPlanned, Cleaning
    <3>3. QED
      BY <1>2, <2>5, <3>1, <3>2, Failed, Ended DEF Silent, Invoke, Preflight, EndUncovered,
         EndFirst, EndUnstable, EndSecond, Read, ReadIdentity, ReadSurface, EndCleaning,
         Answered, AfterAnswer, CheckIdentity, CheckSurface, Reread, Drain, Control, EndBack,
         Fault, Goto, NextSurface, StartRound, Rounds, FirstRounds
  <2>6. QED
    BY <2>2, <2>3, <2>4, <2>5
<1>3. CASE Handle \/ AnswerLost \/ Crash
  BY <1>3, Failed, Ended DEF Handle, AnswerLost, Crash, Goto, NextToCutover
<1>4. QED
  BY <1>1, <1>2, <1>3, NextCases

LEMMA CleanupKept ==
    ASSUME Inv, KnownTypes, NextToCleanup, [Next]_vars
    PROVE  NextToCleanup'
<1> USE DEF Inv
<1>1. CASE Others \/ UNCHANGED vars
  <2>1. UNCHANGED <<pc, mode, pending>>
    BY <1>1, OthersFrame
  <2>2. pc \in {"identity2", "write", "answer"} => pc \in Late
    BY DEF Late, Cleaning
  <2>3. mode = "cleanup" /\ pc \in {"identity2", "write", "answer"} => pending \in Parts
    BY SurfaceWrites, PartsDiffer DEF WritesAsPlanned, Cleaning
  <2>4. ASSUME NEW p \in Parts, pc \in Late
        PROVE  (live'[p] = live[p] /\ changed'[p] = changed[p]) \/ changed'[p] = pc
    BY <1>1, <2>4, OthersMark
  <2>5. QED
    BY <2>1, <2>2, <2>3, <2>4 DEF NextToCleanup
<1>2. CASE Silent
  <2> SUFFICES ASSUME mode' = "cleanup", pc' \in {"identity2", "write", "answer"}
               PROVE  NextToCleanup'
    BY DEF NextToCleanup
  <2>1. UNCHANGED <<changed, live, mode, snap>>
    BY <1>2, SilentChanged, TowardStarts DEF TowardWrite, Cleaning
  <2>2. CASE ReadSurface
    <3>1. /\ pc = "surface2" /\ pc' = "identity2" /\ UNCHANGED pending
          /\ LooksLike(pending) \notin {"drifted", "after"}
      BY <2>2, Ended DEF ReadSurface, Goto, NextSurface
    <3>2. pending \in Surfaces
      BY <3>1 DEF WritesAsPlanned, Cleaning
    <3>3. live[pending] \in {"before", "foreign"}
      BY <3>1, <3>2 DEF LooksLike, KnownTypes, SurfaceStates
    <3>4. QED
      BY <2>1, <3>1, <3>3 DEF NextToCleanup
  <2>3. CASE RereadIdentity
    <3>1. pc = "identity2" /\ live[pending] # "foreign" /\ UNCHANGED pending /\ pc' = "write"
      BY <2>3, Ended DEF RereadIdentity, Goto
    <3>2. QED
      BY <2>1, <3>1 DEF NextToCleanup
  <2>4. CASE Send
    BY <2>1, <2>4 DEF Send, Goto, NextToCleanup
  <2>5. CASE ~ReadSurface /\ ~RereadIdentity /\ ~Send
    <3>1. ~Revalidate
      BY <2>1, Ended DEF Revalidate
    <3>2. ~FinalScheduler
      BY <2>1 DEF FinalScheduler, WritesAsPlanned
    <3>3. QED
      BY <1>2, <2>5, <3>1, <3>2, Failed, Ended DEF Silent, Invoke, Preflight, EndUncovered,
         EndFirst, EndUnstable, EndSecond, Read, ReadIdentity, EndCleaning, FinalLegacy,
         Answered, AfterAnswer, CheckIdentity, CheckSurface, Reread, Drain, Control, EndBack,
         Fault, Goto, NextSurface, StartRound, Rounds, FirstRounds
  <2>6. QED
    BY <2>2, <2>3, <2>4, <2>5
<1>3. CASE Handle \/ AnswerLost \/ Crash
  BY <1>3, Failed, Ended DEF Handle, AnswerLost, Crash, Goto, NextToCleanup
<1>4. QED
  BY <1>1, <1>2, <1>3, NextCases

LEMMA GapNext == Inv /\ GapInv /\ [Next]_vars => GapInv'
BY KnownTypesKept, AuthorizedKept, RereadKept, SinceKept, DrainedKept, CutoverKept,
   CleanupKept DEF GapInv

LEMMA GapInit == Init => GapInv
<1> SUFFICES ASSUME Init PROVE GapInv
  OBVIOUS
<1>1. KnownTypes
  BY PartsDiffer DEF Init, KnownTypes, SurfaceStates
<1>2. QED
  BY <1>1 DEF Init, GapInv, FoundIsAuthorized, RereadIsCurrent, SinceRevalidation, TowardWrite,
     Cleaning, StillDrained, NextToCutover, NextToCleanup

LEMMA WriteFinds ==
    ASSUME Inv, GapInv, pc = "answer", NEW p \in Parts
    PROVE  Intended(pending, p) \/ changed[p] \in Gap(pending, p)
<1> USE PartsDiffer DEF Inv, GapInv
<1>1. /\ Precondition(snap) /\ WriteOf(pending, snap) /\ PartsRead \subseteq DOMAIN snap
      /\ pc \in TowardWrite
  BY DEF WritesAsPlanned, RoundsReadAll, Late, TowardWrite
<1>2. p \in PartsRead => AsFound(p) \/ changed[p] \in Late
  BY <1>1 DEF SinceRevalidation
<1>3. p \in PartsRead /\ p # "v2" =>
         snap[p] \in (IF p = "scheduler" THEN AuthorizedScheduler ELSE {"before", "after"})
  BY <1>1, AuthorizedParts DEF FoundIsAuthorized
<1>4. p # pending /\ ~(pending = "cutover" /\ p \in {"legacy", "scheduler"}) => Gap(pending, p) = Late
  BY DEF Gap, Late
<1>5. CASE mode = "stage"
  BY <1>1, <1>2, <1>3, <1>4, <1>5 DEF WriteOf, Precondition, PartsRead, AsFound, Intended, Parts
<1>6. CASE mode \in {"quiesce", "restore"}
  BY <1>1, <1>2, <1>3, <1>4, <1>6 DEF WriteOf, PartsRead, AsFound, Intended, Parts, AuthorizedScheduler
<1>7. CASE mode = "activate"
  <2>1. (~running /\ live["scheduler"] = "disabled") \/ changed["scheduler"] \in Late
    BY <1>7 DEF StillDrained, DrainProved
  <2>2. p \in PartsRead /\ pending = "activate" /\ snap["v2"] = "disabled"
    BY <1>1, <1>7 DEF PartsRead, WriteOf
  <2>3. QED
    BY <1>1, <1>2, <1>4, <1>7, <2>1, <2>2 DEF Precondition, All, AsFound, Intended, Parts
<1>8. CASE mode = "cleanup"
  <2>1. p \in PartsRead /\ pending \in Surfaces
    BY <1>1, <1>8 DEF PartsRead, WriteOf
  <2>2. CASE p = pending
    <3>1. Intended(pending, p) <=> live[p] = "before"
      BY <2>1, <2>2 DEF Intended
    <3>2. Gap(pending, p) = IF live[p] = "foreign" THEN {"write", "answer"}
                            ELSE {"identity2", "write", "answer"}
      BY <2>1, <2>2 DEF Gap
    <3>3. QED
      BY <1>8, <2>2, <3>1, <3>2 DEF NextToCleanup
  <2>3. CASE p # pending
    <3>1. p \in Surfaces => (Intended(pending, p) <=> live[p] \in {"before", "after"})
      BY <2>1, <2>3 DEF Intended
    <3>2. p = "legacy" => (Intended(pending, p) <=> live[p] = "before")
      BY <2>1 DEF Intended
    <3>3. p = "v2" => (Intended(pending, p) <=> live[p] = "active")
      BY <2>1 DEF Intended
    <3>4. p = "scheduler" => (Intended(pending, p) <=> live[p] = "active")
      BY <2>1 DEF Intended
    <3>5. Gap(pending, p) = Late
      BY <1>4, <2>1, <2>3
    <3>6. QED
      BY <1>1, <1>2, <1>3, <1>8, <2>1, <2>3, <3>1, <3>2, <3>3, <3>4, <3>5
         DEF Precondition, AsFound, Parts, AuthorizedScheduler
  <2>4. QED
    BY <2>2, <2>3
<1>9. CASE mode = "verify"
  <2>1. p \in PartsRead /\ pending = "cutover" /\ snap["legacy"] = "before"
    BY <1>1, <1>9 DEF PartsRead, WriteOf
  <2>2. CASE p = "legacy"
    <3>1. Gap(pending, p) = {"finalScheduler", "write", "answer"}
      BY <2>1, <2>2 DEF Gap
    <3>2. live[p] = "before" => Intended(pending, p)
      BY <2>1, <2>2 DEF Intended
    <3>3. QED
      BY <1>9, <2>1, <2>2, <3>1, <3>2 DEF NextToCutover
  <2>3. CASE p = "scheduler"
    <3>1. Gap(pending, p) = {"write", "answer"}
      BY <2>1, <2>3 DEF Gap
    <3>2. live[p] = "active" => Intended(pending, p)
      BY <2>1, <2>3 DEF Intended
    <3>3. QED
      BY <1>9, <2>3, <3>1, <3>2 DEF NextToCutover
  <2>4. CASE p \in Surfaces \cup {"v2"}
    BY <1>1, <1>2, <1>4, <1>9, <2>1, <2>4 DEF Precondition, All, AsFound, Intended
  <2>5. QED
    BY <2>2, <2>3, <2>4 DEF Parts
<1>10. CASE mode \notin {"stage", "quiesce", "restore", "activate", "cleanup", "verify"}
  BY <1>1, <1>10 DEF WriteOf
<1>11. QED
  BY <1>5, <1>6, <1>7, <1>8, <1>9, <1>10

\* A write that takes effect while its command waits finds every part as its plan
\* says, or changed after the last read of it that the code could make: for any
\* number of changes by others, in any order.
THEOREM WritesFindWhatWasPlannedHolds == Spec => WritesFindWhatWasPlanned
<1>1. Inv /\ GapInv =>
        (pc = "answer" /\ pc' = "answered" =>
           \A p \in Parts : Intended(pending, p) \/ changed[p] \in Gap(pending, p))
  BY WriteFinds
<1>2. QED
  BY <1>1, GapInit, GapNext, InvHolds, PTL DEF Spec, WritesFindWhatWasPlanned
=============================================================================
