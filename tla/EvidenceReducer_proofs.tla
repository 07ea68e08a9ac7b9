------------------------ MODULE EvidenceReducer_proofs -------------------------
(***************************************************************************)
(* Proofs about the verdict of v2, for a life of the pull request of any   *)
(* length and any number of events.                                        *)
(*                                                                         *)
(* The invariant ties the evidence to what happened: what GitHub serves is *)
(* of the past, a request that was never edited bears its own second, and  *)
(* Codex, which finishes once with each trigger, answers none twice.  The  *)
(* rest is about the operators of the verdict, on any such evidence.       *)
(***************************************************************************)
EXTENDS EvidenceReducer, TLAPS, NaturalsInduction, WellFoundedInduction

-----------------------------------------------------------------------------
(* The inductive invariant.                                                *)

Triggers == [id : {0} \cup Ids, at : {0} \cup Times]

TypeInv ==
    /\ clock \in Times
    /\ ev \in Evidence
    /\ triggers \in SUBSET Triggers
    /\ repeated \in BOOLEAN

\* Nothing is later than now, and what was not edited bears its own second.
OfThePast ==
    /\ ev.epoch <= clock /\ ev.run <= clock
    /\ \A a \in ev.artifacts :
          /\ a.at <= a.rev /\ a.rev <= clock
          /\ IF a.edited THEN a.source = "comment" ELSE a.rev = a.at
    /\ \A r \in ev.requests :
          r.at <= r.rev /\ r.rev <= clock /\ (r.edited = "no" => r.rev = r.at)
    /\ \A x \in ev.reactions : x.at <= clock
    /\ \A d \in ev.deletions : d.at <= clock
    /\ \A t \in triggers : t.at <= clock

\* An id is given once, the base moves by an event, and a reaction is on a request
\* that is there.
Identified ==
    /\ ev.tip <= ev.count
    /\ \A a \in ev.artifacts : a.id <= ev.count
    /\ \A r \in ev.requests : r.id <= ev.count
    /\ \A t \in triggers : t.id <= ev.count
    /\ \A a, b \in ev.artifacts : a.id = b.id => a = b
    /\ \A q, r \in ev.requests : q.id = r.id => q = r
    /\ \A x \in ev.reactions : \E r \in ev.requests : r.id = x.on

\* What started Codex: the push, and each request at its second.
Triggered ==
    /\ \A t \in triggers :
          IF t.id = 0 THEN t.at = 0
          ELSE \/ \E r \in ev.requests : r.id = t.id /\ r.at = t.at
               \/ ev.deletions # {}
    /\ \A r \in ev.requests : \E t \in triggers : t.id = r.id /\ t.at = r.at

\* Every answer was to a trigger that was there, and Codex has finished with it.
Answered ==
    /\ \A a \in ev.artifacts : \E t \in triggers : t.id = a.answers /\ t.at <= a.at
    /\ ~repeated =>
          /\ \A a \in ev.artifacts : a.answers \notin open
          /\ \A a, b \in ev.artifacts : a.answers = b.answers => a = b

Inv == TypeInv /\ OfThePast /\ Identified /\ Triggered /\ Answered

-----------------------------------------------------------------------------
(* What the events do to the evidence.                                     *)

LEMMA Numbers ==
    /\ MaxTime \in Nat /\ MaxEvents \in Nat
    /\ \A t \in Times : t \in Nat /\ t >= 1
    /\ \A i \in Ids : i \in Nat /\ i >= 1
    /\ \A i \in 0..MaxEvents : i \in Nat
BY BoundsAssumption DEF Times, Ids

LEMMA FreshId ==
    ASSUME TypeInv, ev.count < MaxEvents
    PROVE  /\ NewId \in Ids /\ NewId \in 0..MaxEvents /\ NewId # 0
           /\ ev.count <= NewId /\ \A i \in Ids : i <= ev.count => i # NewId /\ i <= NewId
           /\ ev.tip <= ev.count => /\ ev.tip <= NewId
                                   /\ ev.tip + 1 <= NewId /\ ev.tip + 1 \in 0..MaxEvents
<1>1. ev.count \in Nat /\ MaxEvents \in Nat /\ ev.tip \in Nat
  BY Numbers DEF TypeInv, Evidence
<1>2. QED
  BY <1>1, BoundsAssumption DEF NewId, Ids

LEMMA Typed ==
    ASSUME TypeInv
    PROVE  /\ clock \in Nat
           /\ \A a \in ev.artifacts :
                 a \in Artifacts /\ a.id \in Ids /\ a.at \in Nat /\ a.rev \in Nat /\ a.at >= 1
           /\ \A r \in ev.requests :
                 r \in Requests /\ r.id \in Ids /\ r.at \in Nat /\ r.rev \in Nat /\ r.at >= 1
           /\ \A x \in ev.reactions : x \in Reactions /\ x.on \in Ids /\ x.at \in Nat
           /\ \A d \in ev.deletions : d \in Deletions /\ d.id \in Ids /\ d.at \in Nat
           /\ \A t \in triggers : t.id \in Nat /\ t.at \in Nat
           /\ ev.epoch \in Nat /\ ev.run \in Nat /\ ev.count \in Nat /\ ev.tip \in Nat
<1>1. clock \in Nat /\ ev.count \in Nat /\ ev.epoch \in Nat /\ ev.run \in Nat /\ ev.tip \in Nat
  BY Numbers DEF TypeInv, Evidence
<1>2. \A a \in ev.artifacts :
         a \in Artifacts /\ a.id \in Ids /\ a.at \in Nat /\ a.rev \in Nat /\ a.at >= 1
  BY Numbers DEF TypeInv, Evidence, Artifacts
<1>3. \A r \in ev.requests :
         r \in Requests /\ r.id \in Ids /\ r.at \in Nat /\ r.rev \in Nat /\ r.at >= 1
  BY Numbers DEF TypeInv, Evidence, Requests
<1>4. \A x \in ev.reactions : x \in Reactions /\ x.on \in Ids /\ x.at \in Nat
  BY Numbers DEF TypeInv, Evidence, Reactions
<1>5. \A d \in ev.deletions : d \in Deletions /\ d.id \in Ids /\ d.at \in Nat
  BY Numbers DEF TypeInv, Evidence, Deletions
<1>6. \A t \in triggers : t.id \in Nat /\ t.at \in Nat
  BY Numbers DEF TypeInv, Triggers
<1>7. QED
  BY <1>1, <1>2, <1>3, <1>4, <1>5, <1>6

LEMMA TriggersBefore ==
    ASSUME Inv, ev.count < MaxEvents
    PROVE  \A t \in triggers : t.id # NewId /\ t.id <= NewId
<1>1. \A t \in triggers : t.id \in {0} \cup Ids /\ t.id <= ev.count
  BY DEF Inv, TypeInv, Triggers, Identified
<1>2. NewId # 0 /\ 0 <= NewId
  BY FreshId, Numbers DEF Inv
<1>3. QED
  BY <1>1, <1>2, FreshId DEF Inv

LEMMA TickInv ==
    ASSUME Inv, Tick
    PROVE  Inv'
<1> USE DEF Inv
<1>1. /\ clock' = clock + 1 /\ clock < MaxTime /\ UNCHANGED <<ev, triggers, open, repeated>>
  BY DEF Tick, HistoryUnchanged
<1>2. clock \in Nat /\ clock' \in Times /\ clock <= clock'
  BY <1>1, Typed, Numbers, BoundsAssumption DEF Times, TypeInv
<1>3. TypeInv'
  BY <1>1, <1>2 DEF TypeInv
<1>4. OfThePast'
  <2>1. \A t \in Nat : t <= clock => t <= clock'
    BY <1>1, <1>2
  <2>2. QED
    BY <1>1, <2>1, Typed DEF OfThePast
<1>5. Identified' /\ Triggered' /\ Answered'
  BY <1>1 DEF Identified, Triggered, Answered
<1>6. QED
  BY <1>3, <1>4, <1>5

LEMMA RequestInv ==
    ASSUME Inv, NEW kind \in {"marker", "bare"}, Request(kind)
    PROVE  Inv'
<1> USE DEF Inv
<1> DEFINE new == [id |-> NewId, kind |-> kind, at |-> clock, rev |-> clock, edited |-> "no",
                   tip |-> ev.tip]
           start == [id |-> NewId, at |-> clock]
<1>1. /\ ev.count < MaxEvents
      /\ ev' = [NewRequest(ev, kind, clock) EXCEPT !.count = NewId]
      /\ clock' = clock /\ repeated' = repeated
      /\ triggers' = triggers \cup {start} /\ open' = open \cup {NewId}
  BY DEF Request, Event
<1>2. /\ ev'.requests = ev.requests \cup {new} /\ ev'.artifacts = ev.artifacts
      /\ ev'.reactions = ev.reactions /\ ev'.deletions = ev.deletions
      /\ ev'.epoch = ev.epoch /\ ev'.run = ev.run /\ ev'.count = NewId /\ ev'.tip = ev.tip
  BY <1>1 DEF NewRequest, TypeInv, Evidence, NewId
<1>3. new \in Requests /\ start \in Triggers /\ NewId \in 0..MaxEvents
  BY <1>1, FreshId DEF Requests, TypeInv, Evidence, Triggers
<1>4. new.id = NewId /\ new.at = clock /\ new.rev = clock /\ start.id = NewId /\ start.at = clock
  OBVIOUS
<1>5. TypeInv'
  <2>1. ev' \in Evidence
    BY <1>1, <1>3 DEF NewRequest, TypeInv, Evidence, NewId
  <2>2. QED
    BY <1>1, <1>3, <2>1 DEF TypeInv
<1> HIDE DEF new, start
<1>6. OfThePast'
  BY <1>1, <1>2, <1>4, Typed DEF OfThePast
<1>7. Identified'
  <2>1. \A r \in ev.requests : r.id # NewId /\ r.id <= NewId
    BY <1>1, FreshId, Typed DEF Identified
  <2>2. \A a \in ev.artifacts : a.id <= NewId
    BY <1>1, FreshId, Typed DEF Identified
  <2>3. NewId <= NewId
    BY <1>1, FreshId, Numbers
  <2>4. \A t \in triggers' : t.id <= NewId
    BY <1>1, <1>4, <2>3, TriggersBefore
  <2>5. QED
    BY <1>1, <1>2, <1>4, <2>1, <2>2, <2>3, <2>4, FreshId DEF Identified
<1>8. Triggered'
  BY <1>1, <1>2, <1>4, FreshId DEF Triggered
<1>9. Answered'
  <2>1. \A a \in ev.artifacts : a.answers # NewId
    BY <1>1, TriggersBefore DEF Answered
  <2>2. QED
    BY <1>1, <1>2, <2>1 DEF Answered
<1>10. QED
  BY <1>5, <1>6, <1>7, <1>8, <1>9

LEMMA AnswerInv ==
    ASSUME Inv, NEW source \in {"comment", "review"}, NEW kind \in {"clean", "finding", "failure"},
           NEW t \in triggers, Answer(source, kind, t.id)
    PROVE  Inv'
<1> USE DEF Inv
<1> DEFINE new == [id |-> NewId, source |-> source, kind |-> kind, at |-> clock, rev |-> clock,
                   edited |-> FALSE, answers |-> t.id]
<1>1. /\ ev.count < MaxEvents
      /\ ev' = [NewArtifact(ev, source, kind, clock, t.id) EXCEPT !.count = NewId]
      /\ clock' = clock /\ triggers' = triggers /\ open' = open \ {t.id}
      /\ repeated' = (repeated \/ t.id \notin open)
  BY DEF Answer, Event, Finish
<1>2. /\ ev'.artifacts = ev.artifacts \cup {new} /\ ev'.requests = ev.requests
      /\ ev'.reactions = ev.reactions /\ ev'.deletions = ev.deletions
      /\ ev'.epoch = ev.epoch /\ ev'.run = ev.run /\ ev'.count = NewId /\ ev'.tip = ev.tip
  BY <1>1 DEF NewArtifact, TypeInv, Evidence, NewId
<1>3. new \in Artifacts /\ NewId \in 0..MaxEvents
  BY <1>1, FreshId DEF Artifacts, TypeInv, Triggers
<1>4. new.id = NewId /\ new.at = clock /\ new.rev = clock /\ new.edited = FALSE
      /\ new.answers = t.id
  OBVIOUS
<1>5. TypeInv'
  <2>1. ev' \in Evidence
    BY <1>1, <1>3 DEF NewArtifact, TypeInv, Evidence, NewId
  <2>2. QED
    BY <1>1, <2>1 DEF TypeInv
<1> HIDE DEF new
<1>6. OfThePast'
  BY <1>1, <1>2, <1>4, Typed DEF OfThePast
<1>7. Identified'
  <2>1. \A a \in ev.artifacts : a.id # NewId /\ a.id <= NewId
    BY <1>1, FreshId, Typed DEF Identified
  <2>2. \A r \in ev.requests : r.id <= NewId
    BY <1>1, FreshId, Typed DEF Identified
  <2>3. NewId <= NewId
    BY <1>1, FreshId, Numbers
  <2>4. QED
    BY <1>1, <1>2, <1>4, <2>1, <2>2, <2>3, TriggersBefore, FreshId DEF Identified
<1>8. Triggered'
  BY <1>1, <1>2 DEF Triggered
<1>9. Answered'
  <2>1. t.at <= clock
    BY DEF OfThePast
  <2>2. ~repeated' => ~repeated /\ t.id \in open
    BY <1>1
  <2>3. \A a \in ev'.artifacts : \E u \in triggers' : u.id = a.answers /\ u.at <= a.at
    BY <1>1, <1>2, <1>4, <2>1 DEF Answered
  <2>4. ASSUME ~repeated'
        PROVE  /\ \A a \in ev'.artifacts : a.answers \notin open'
               /\ \A a, b \in ev'.artifacts : a.answers = b.answers => a = b
    BY <1>1, <1>2, <1>4, <2>2, <2>4 DEF Answered
  <2>5. QED
    BY <2>3, <2>4 DEF Answered
<1>10. QED
  BY <1>5, <1>6, <1>7, <1>8, <1>9

LEMMA ReactInv ==
    ASSUME Inv, NEW r \in ev.requests, NEW content \in {"+1", "eyes"}, React(r, content)
    PROVE  Inv'
<1> USE DEF Inv
<1> DEFINE new == [id |-> NewId, on |-> r.id, content |-> content, at |-> clock]
<1>1. /\ ev.count < MaxEvents
      /\ ev' = [NewReaction(ev, r.id, content, clock) EXCEPT !.count = NewId]
      /\ clock' = clock /\ triggers' = triggers
      /\ \/ open' = open /\ repeated' = repeated
         \/ open' = open \ {r.id} /\ repeated' = (repeated \/ r.id \notin open)
  BY DEF React, Event, Finish, HistoryUnchanged
<1>2. /\ ev'.artifacts = ev.artifacts /\ ev'.requests = ev.requests
      /\ ev'.reactions = ev.reactions \cup {new} /\ ev'.deletions = ev.deletions
      /\ ev'.epoch = ev.epoch /\ ev'.run = ev.run /\ ev'.count = NewId /\ ev'.tip = ev.tip
  BY <1>1 DEF NewReaction, TypeInv, Evidence, NewId
<1>3. new \in Reactions /\ NewId \in 0..MaxEvents
  BY <1>1, FreshId, Typed DEF Reactions, TypeInv
<1>4. new.at = clock /\ new.on = r.id
  OBVIOUS
<1>5. TypeInv'
  <2>1. ev' \in Evidence
    BY <1>1, <1>3 DEF NewReaction, TypeInv, Evidence, NewId
  <2>2. repeated' \in BOOLEAN
    BY <1>1 DEF TypeInv
  <2>3. QED
    BY <1>1, <2>1, <2>2 DEF TypeInv
<1> HIDE DEF new
<1>6. OfThePast'
  BY <1>1, <1>2, <1>4, Typed DEF OfThePast
<1>7. Identified'
  <2>1. \A i \in {0} \cup Ids : i <= ev.count => i <= NewId
    BY <1>1, FreshId, Numbers
  <2>2. \A t \in triggers : t.id \in {0} \cup Ids
    BY DEF TypeInv, Triggers
  <2>3. QED
    BY <1>1, <1>2, <1>4, <2>1, <2>2, Typed, FreshId DEF Identified
<1>8. Triggered'
  BY <1>1, <1>2 DEF Triggered
<1>9. Answered'
  <2>1. ~repeated' => ~repeated /\ open' \subseteq open
    BY <1>1
  <2>2. QED
    BY <1>1, <1>2, <2>1 DEF Answered
<1>10. QED
  BY <1>5, <1>6, <1>7, <1>8, <1>9

\* A draft, a change of the base and a new run touch no comment.
LEMMA ContextInv ==
    ASSUME Inv, Draft \/ Retarget \/ AdvanceBase \/ NewRun
    PROVE  Inv'
<1> USE DEF Inv
<1>1. /\ ev.count < MaxEvents /\ UNCHANGED <<clock, triggers, open, repeated>>
      /\ ev' \in {[ev EXCEPT !.draft = ~@, !.count = NewId],
                  [ev EXCEPT !.epoch = clock, !.tip = @ + 1, !.count = NewId],
                  [ev EXCEPT !.tip = @ + 1, !.count = NewId],
                  [ev EXCEPT !.run = clock, !.count = NewId]}
  BY DEF Draft, Retarget, AdvanceBase, NewRun, Event, HistoryUnchanged, TypeInv, Evidence
<1>2. /\ ev'.artifacts = ev.artifacts /\ ev'.requests = ev.requests
      /\ ev'.reactions = ev.reactions /\ ev'.deletions = ev.deletions
      /\ ev'.epoch \in {ev.epoch, clock} /\ ev'.run \in {ev.run, clock} /\ ev'.count = NewId
      /\ ev'.tip \in {ev.tip, ev.tip + 1}
  BY <1>1 DEF TypeInv, Evidence
<1>5. TypeInv'
  <2>1. ev.tip + 1 \in 0..MaxEvents /\ NewId \in 0..MaxEvents
    BY <1>1, FreshId DEF Identified
  <2>2. ev' \in Evidence
    BY <1>1, <2>1 DEF TypeInv, Evidence
  <2>3. QED
    BY <1>1, <2>2 DEF TypeInv
<1>6. OfThePast'
  BY <1>1, <1>2, Typed DEF OfThePast
<1>7. Identified'
  <2>1. \A i \in {0} \cup Ids : i <= ev.count => i <= NewId
    BY <1>1, FreshId, Numbers
  <2>2. \A t \in triggers : t.id \in {0} \cup Ids
    BY DEF TypeInv, Triggers
  <2>3. QED
    BY <1>1, <1>2, <2>1, <2>2, Typed, FreshId DEF Identified
<1>8. Triggered' /\ Answered'
  BY <1>1, <1>2 DEF Triggered, Answered
<1>10. QED
  BY <1>5, <1>6, <1>7, <1>8

LEMMA EditAnswerInv ==
    ASSUME Inv, NEW a \in ev.artifacts, EditAnswer(a)
    PROVE  Inv'
<1> USE DEF Inv
<1> DEFINE new == [a EXCEPT !.rev = clock, !.edited = TRUE]
<1>1. /\ ev.count < MaxEvents /\ a.source = "comment"
      /\ UNCHANGED <<clock, triggers, open, repeated>>
      /\ ev' = [ev EXCEPT !.artifacts = (@ \ {a}) \cup {new}, !.count = NewId]
  BY DEF EditAnswer, Event, HistoryUnchanged, TypeInv, Evidence
<1>2. /\ ev'.artifacts = (ev.artifacts \ {a}) \cup {new} /\ ev'.requests = ev.requests
      /\ ev'.reactions = ev.reactions /\ ev'.deletions = ev.deletions
      /\ ev'.epoch = ev.epoch /\ ev'.run = ev.run /\ ev'.count = NewId /\ ev'.tip = ev.tip
  BY <1>1 DEF TypeInv, Evidence
<1>3. new \in Artifacts /\ NewId \in 0..MaxEvents
  BY <1>1, Typed, FreshId DEF Artifacts, TypeInv
<1>4. /\ new.id = a.id /\ new.at = a.at /\ new.rev = clock /\ new.edited = TRUE
      /\ new.source = a.source /\ new.answers = a.answers
  BY Typed DEF Artifacts
<1>5. TypeInv'
  <2>1. ev' \in Evidence
    BY <1>1, <1>3 DEF TypeInv, Evidence
  <2>2. QED
    BY <1>1, <2>1 DEF TypeInv
<1> HIDE DEF new
<1>6. OfThePast'
  <2>1. a.at <= clock
    BY Typed DEF OfThePast
  <2>2. QED
    BY <1>1, <1>2, <1>4, <2>1, Typed DEF OfThePast
<1>7. Identified'
  <2>1. \A i \in {0} \cup Ids : i <= ev.count => i <= NewId
    BY <1>1, FreshId, Numbers
  <2>2. \A t \in triggers : t.id \in {0} \cup Ids
    BY DEF TypeInv, Triggers
  <2>3. QED
    BY <1>1, <1>2, <1>4, <2>1, <2>2, Typed, FreshId DEF Identified
<1>8. Triggered'
  BY <1>1, <1>2 DEF Triggered
<1>9. Answered'
  BY <1>1, <1>2, <1>4 DEF Answered
<1>10. QED
  BY <1>5, <1>6, <1>7, <1>8, <1>9

LEMMA EditRequestInv ==
    ASSUME Inv, NEW r \in ev.requests, NEW how \in {"kept", "away"}, EditRequest(r, how)
    PROVE  Inv'
<1> USE DEF Inv
<1> DEFINE new == [r EXCEPT !.rev = clock, !.edited = how]
<1>1. /\ ev.count < MaxEvents /\ UNCHANGED <<clock, triggers, open, repeated>>
      /\ ev' = [ev EXCEPT !.requests = (@ \ {r}) \cup {new}, !.count = NewId]
  BY DEF EditRequest, Event, HistoryUnchanged, TypeInv, Evidence
<1>2. /\ ev'.requests = (ev.requests \ {r}) \cup {new} /\ ev'.artifacts = ev.artifacts
      /\ ev'.reactions = ev.reactions /\ ev'.deletions = ev.deletions
      /\ ev'.epoch = ev.epoch /\ ev'.run = ev.run /\ ev'.count = NewId /\ ev'.tip = ev.tip
  BY <1>1 DEF TypeInv, Evidence
<1>3. new \in Requests /\ NewId \in 0..MaxEvents
  BY <1>1, Typed, FreshId DEF Requests, TypeInv
<1>4. new.id = r.id /\ new.at = r.at /\ new.rev = clock /\ new.edited = how
  BY Typed DEF Requests
<1>5. TypeInv'
  <2>1. ev' \in Evidence
    BY <1>1, <1>3 DEF TypeInv, Evidence
  <2>2. QED
    BY <1>1, <2>1 DEF TypeInv
<1> HIDE DEF new
<1>6. OfThePast'
  <2>1. r.at <= clock
    BY Typed DEF OfThePast
  <2>2. QED
    BY <1>1, <1>2, <1>4, <2>1, Typed DEF OfThePast
<1>7. Identified'
  <2>1. \A i \in {0} \cup Ids : i <= ev.count => i <= NewId
    BY <1>1, FreshId, Numbers
  <2>2. \A t \in triggers : t.id \in {0} \cup Ids
    BY DEF TypeInv, Triggers
  <2>3. QED
    BY <1>1, <1>2, <1>4, <2>1, <2>2, Typed, FreshId DEF Identified
<1>8. Triggered'
  BY <1>1, <1>2, <1>4 DEF Triggered
<1>9. Answered'
  BY <1>1, <1>2 DEF Answered
<1>10. QED
  BY <1>5, <1>6, <1>7, <1>8, <1>9

\* A deletion leaves some of the evidence and a trace of itself.
LEMMA TakenAwayInv ==
    ASSUME Inv, ev.count < MaxEvents, UNCHANGED <<clock, triggers, open, repeated>>,
           NEW A \in SUBSET ev.artifacts, NEW R \in SUBSET ev.requests,
           NEW X \in SUBSET ev.reactions,
           \A x \in X : \A r \in ev.requests : r.id = x.on => r \in R,
           ev' = [ev EXCEPT !.artifacts = A, !.requests = R, !.reactions = X,
                            !.deletions = @ \cup {[id |-> NewId, at |-> clock]}, !.count = NewId]
    PROVE  Inv'
<1> USE DEF Inv
<1> DEFINE gone == [id |-> NewId, at |-> clock]
<1>1. ev.count < MaxEvents /\ UNCHANGED <<clock, triggers, open, repeated>>
  OBVIOUS
<1>2. /\ ev'.artifacts \subseteq ev.artifacts /\ ev'.deletions = ev.deletions \cup {gone}
      /\ ev'.epoch = ev.epoch /\ ev'.run = ev.run /\ ev'.count = NewId /\ ev'.tip = ev.tip
      /\ ev'.requests \subseteq ev.requests
      /\ ev'.reactions \subseteq ev.reactions
      /\ \A x \in ev'.reactions : \A r \in ev.requests : r.id = x.on => r \in ev'.requests
  BY DEF TypeInv, Evidence
<1>3. gone \in Deletions /\ NewId \in 0..MaxEvents
  BY <1>1, FreshId DEF Deletions, TypeInv
<1>4. gone.at = clock
  OBVIOUS
<1>5. TypeInv'
  <2>1. ev' \in Evidence
    BY <1>3 DEF TypeInv, Evidence
  <2>2. QED
    BY <1>1, <2>1 DEF TypeInv
<1> HIDE DEF gone
<1>6. OfThePast'
  BY <1>1, <1>2, <1>4, Typed DEF OfThePast
<1>7. Identified'
  <2>1. \A i \in {0} \cup Ids : i <= ev.count => i <= NewId
    BY <1>1, FreshId, Numbers
  <2>2. \A t \in triggers : t.id \in {0} \cup Ids
    BY DEF TypeInv, Triggers
  <2>3. QED
    BY <1>1, <1>2, <2>1, <2>2, Typed, FreshId DEF Identified
<1>8. Triggered'
  <2>1. ev'.deletions # {}
    BY <1>2
  <2>2. QED
    BY <1>1, <1>2, <2>1 DEF Triggered
<1>9. Answered'
  BY <1>1, <1>2 DEF Answered
<1>10. QED
  BY <1>5, <1>6, <1>7, <1>8, <1>9

LEMMA DeleteInv ==
    ASSUME Inv, \/ \E a \in ev.artifacts : DeleteAnswer(a)
                \/ \E r \in ev.requests : DeleteRequest(r)
    PROVE  Inv'
<1>1. ASSUME NEW a \in ev.artifacts, DeleteAnswer(a)
      PROVE  Inv'
  <2>1. /\ ev.count < MaxEvents /\ UNCHANGED <<clock, triggers, open, repeated>>
        /\ ev' = [Deleted([ev EXCEPT !.artifacts = @ \ {a}]) EXCEPT !.count = NewId]
    BY <1>1 DEF DeleteAnswer, Event, HistoryUnchanged
  <2> DEFINE A == ev.artifacts \ {a}
  <2>2. ev' = [ev EXCEPT !.artifacts = A, !.requests = ev.requests, !.reactions = ev.reactions,
                         !.deletions = @ \cup {[id |-> NewId, at |-> clock]}, !.count = NewId]
    BY <2>1 DEF Deleted, Inv, TypeInv, Evidence
  <2>3. QED
    BY <2>1, <2>2, TakenAwayInv
<1>2. ASSUME NEW r \in ev.requests, DeleteRequest(r)
      PROVE  Inv'
  <2> DEFINE R == ev.requests \ {r}
             X == {x \in ev.reactions : x.on # r.id}
  <2>1. /\ ev.count < MaxEvents /\ UNCHANGED <<clock, triggers, open, repeated>>
        /\ ev' = [Deleted([ev EXCEPT !.requests = R, !.reactions = X]) EXCEPT !.count = NewId]
    BY <1>2 DEF DeleteRequest, Event, HistoryUnchanged, Inv, TypeInv, Evidence
  <2>2. ev' = [ev EXCEPT !.artifacts = ev.artifacts, !.requests = R, !.reactions = X,
                         !.deletions = @ \cup {[id |-> NewId, at |-> clock]}, !.count = NewId]
    BY <2>1 DEF Deleted, Inv, TypeInv, Evidence
  <2>3. \A x \in X : \A q \in ev.requests : q.id = x.on => q \in R
    OBVIOUS
  <2> HIDE DEF R, X
  <2>4. R \in SUBSET ev.requests /\ X \in SUBSET ev.reactions
    BY DEF R, X
  <2>5. QED
    BY <2>1, <2>2, <2>3, <2>4, TakenAwayInv
<1>3. QED
  BY <1>1, <1>2

LEMMA InvNext ==
    ASSUME Inv, [Next]_vars
    PROVE  Inv'
<1>1. CASE Tick
  BY <1>1, TickInv
<1>2. ASSUME NEW kind \in {"marker", "bare"}, Request(kind)
      PROVE  Inv'
  BY <1>2, RequestInv
<1>3. ASSUME NEW source \in {"comment", "review"}, NEW kind \in {"clean", "finding", "failure"},
             NEW t \in triggers, Answer(source, kind, t.id)
      PROVE  Inv'
  BY <1>3, AnswerInv
<1>4. ASSUME NEW r \in ev.requests, NEW content \in {"+1", "eyes"}, React(r, content)
      PROVE  Inv'
  BY <1>4, ReactInv
<1>5. CASE Draft \/ Retarget \/ AdvanceBase \/ NewRun
  BY <1>5, ContextInv
<1>6. CASE Withdraw
  BY <1>6, EditAnswerInv, EditRequestInv, DeleteInv DEF Withdraw
<1>7. CASE UNCHANGED vars
  BY <1>7 DEF vars, Inv, TypeInv, OfThePast, Identified, Triggered, Answered
<1>8. QED
  BY <1>1, <1>2, <1>3, <1>4, <1>5, <1>6, <1>7 DEF Next

\* The invariant holds in every state: what GitHub serves is of the past, an id
\* is given once, and Codex finishes once with what started it.
THEOREM InvHolds == Spec => []Inv
<1>1. Init => Inv
  <2> SUFFICES ASSUME Init PROVE Inv
    OBVIOUS
  <2>1. 1 \in Times /\ 0 \in 0..MaxEvents
    BY BoundsAssumption DEF Times
  <2>2. ev \in Evidence
    BY <2>1 DEF Init, Evidence
  <2>3. TypeInv
    <3>1. [id |-> 0, at |-> 0] \in Triggers
      BY DEF Triggers
    <3>2. triggers \in SUBSET Triggers
      BY <3>1 DEF Init
    <3>3. QED
      BY <2>1, <2>2, <3>2 DEF Init, TypeInv
  <2>4. OfThePast /\ Identified /\ Triggered /\ Answered
    BY DEF Init, OfThePast, Identified, Triggered, Answered
  <2>5. QED
    BY <2>3, <2>4 DEF Inv
<1>2. QED
  BY <1>1, InvNext, PTL DEF Spec

-----------------------------------------------------------------------------
(* The operators of the verdict.                                           *)

LEMMA MaxOfPair ==
    ASSUME NEW x \in Nat, NEW y \in Nat
    PROVE  MaxOf({x, y}) \in Nat /\ MaxOf({x, y}) >= x /\ MaxOf({x, y}) >= y
<1>1. \E m \in {x, y} : \A z \in {x, y} : z <= m
  OBVIOUS
<1>2. MaxOf({x, y}) \in {x, y} /\ \A z \in {x, y} : z <= MaxOf({x, y})
  BY <1>1 DEF MaxOf
<1>3. QED
  BY <1>2

LEMMA GenerationRequestsAre ==
    ASSUME NEW e
    PROVE  /\ Selected(e) \subseteq GenerationRequests(e)
           /\ Seen(e) \subseteq e.reactions
           /\ \A r \in GenerationRequests(e) :
                 /\ r \in Authorized(e) /\ r \in e.requests /\ r.edited = "no"
                 /\ r.rev > e.epoch /\ (r.kind = "marker" => r.tip = e.tip)
<1>1. Selected(e) \subseteq GenerationRequests(e)
  BY DEF Selected
<1>2. Seen(e) \subseteq e.reactions
  BY DEF Seen, ServedReactions
<1>3. QED
  BY <1>1, <1>2 DEF GenerationRequests, GenerationRequestsOfAnyBase, Authorized

\* What the two sources of cleans and findings have in common.
LEMMA CurrentIs ==
    ASSUME NEW e, NEW c \in Current(e)
    PROVE  \/ \E a \in e.artifacts :
                 /\ a.kind # "failure" /\ ~a.edited /\ c.on = 0
                 /\ c.id = a.id /\ c.source = a.source /\ c.kind = a.kind /\ c.at = a.at
           \/ /\ c.source = "reaction" /\ c.kind = "clean"
              /\ \E r \in Selected(e) :
                    /\ c.on = r.id /\ r.kind = "marker" /\ c.at = NewestPlusOne(e, r).at
                    /\ \E x \in e.reactions :
                          x.content = "+1" /\ x.on = r.id /\ x.at > r.rev
<1>1. CASE c \in Terminals(e)
  BY <1>1 DEF Terminals
<1>2. CASE c \in ReactionCleans(e)
  <2>1. PICK r \in Selected(e) :
           /\ HasPlusOne(e, r) /\ c.source = "reaction" /\ c.kind = "clean" /\ c.on = r.id
           /\ c.at = NewestPlusOne(e, r).at
    BY <1>2 DEF ReactionCleans
  <2>2. QED
    BY <2>1, GenerationRequestsAre DEF HasPlusOne, PlusOnes
<1>3. QED
  BY <1>1, <1>2 DEF Current

\* Under the direct basis nothing of the requests is read.
LEMMA DirectBasisReadsNoRequest ==
    ASSUME NEW e, DirectBasis(e)
    PROVE  /\ Recoveries(e) = {} /\ Generations(e) = {} /\ GenerationRequests(e) = {}
           /\ Selected(e) = {} /\ Seen(e) = {} /\ RequestErrorTimes(e) = {}
           /\ ReactionCleans(e) = {} /\ Current(e) = Terminals(e)
<1>1. /\ Recoveries(e) = {} /\ Generations(e) = {} /\ GenerationRequestsOfAnyBase(e) = {}
      /\ Seen(e) = {} /\ RequestErrorTimes(e) = {}
  BY DEF Recoveries, Generations, GenerationRequestsOfAnyBase, Seen, RequestErrorTimes
<1>2. GenerationRequests(e) = {}
  BY <1>1 DEF GenerationRequests
<1>3. Selected(e) = {}
  BY <1>2 DEF Selected
<1>4. ReactionCleans(e) = {}
  BY <1>3 DEF ReactionCleans
<1>5. Current(e) = Terminals(e)
  BY <1>3, <1>4 DEF Current
<1>6. QED
  BY <1>1, <1>2, <1>3, <1>4, <1>5

\* A step by which nothing is superseded: no request is later than the time.
LEMMA NothingLater ==
    ASSUME NEW e, NEW time \in Nat, NEW allow,
           \A r \in e.requests : r.rev \in Nat /\ r.rev <= time
    PROVE  ~Superseded(e, time, allow)
BY GenerationRequestsAre DEF Superseded

-----------------------------------------------------------------------------
(* A retarget.                                                             *)

LEMMA SuccessAfterRetargetInv == Inv => SuccessAfterRetarget
<1> SUFFICES ASSUME Inv, Outcome(ev) = "success", ev.epoch > 0,
                    ~\E c \in TopLevelCleans(ev) : c.at > ev.epoch
             PROVE  \E x \in ev.reactions, r \in Authorized(ev) :
                       /\ x.content = "+1" /\ x.on = r.id /\ x.at > r.at
                       /\ r.kind = "marker" /\ r.tip = ev.tip /\ r.at > ev.epoch
  BY DEF SuccessAfterRetarget
<1>1. Succeeds(ev) /\ DirectCleans(ev, ev.epoch) = {}
  BY DEF Outcome, DirectCleans
<1>2. Selected(ev) # {} /\ GoodCleans(ev) # {}
  BY <1>1 DEF Succeeds, CleanSelected
<1>3. PICK c \in PositiveCleans(ev) : c \in Current(ev)
  BY <1>2 DEF GoodCleans, PositiveCleans
<1>4. ~RecoveryClean(ev, c)
  <2> SUFFICES ASSUME RecoveryClean(ev, c) PROVE FALSE
    OBVIOUS
  <2>1. PICK w \in RecoveryRequests(ev) \X RecoveryCleans(ev) : w[2].at > w[1].rev
    BY DEF RecoveryClean, Attested, Recoveries
  <2>2. /\ w[2] \in TopLevelCleans(ev) /\ w[2] \in ev.artifacts /\ w[1] \in ev.requests
        /\ w[1].rev > MaxOf({ev.run, ev.epoch})
    BY <2>1 DEF RecoveryCleans, TopLevelCleans, Comments, RecoveryRequests, Authorized
  <2>3. MaxOf({ev.run, ev.epoch}) \in Nat /\ MaxOf({ev.run, ev.epoch}) >= ev.epoch
    BY MaxOfPair, Typed DEF Inv
  <2>4. w[2].at > ev.epoch
    BY <2>1, <2>2, <2>3, Typed DEF Inv
  <2>5. QED
    BY <2>2, <2>4
<1>5. c.source = "reaction"
  BY <1>3, <1>4, Typed DEF PositiveCleans, Inv
<1>6. PICK r \in Selected(ev) :
         /\ r.kind = "marker"
         /\ \E x \in ev.reactions : x.content = "+1" /\ x.on = r.id /\ x.at > r.rev
  <2>1. \A a \in ev.artifacts : a.source # "reaction"
    BY Typed DEF Inv, Artifacts
  <2>2. QED
    BY <1>3, <1>5, <2>1, CurrentIs
<1>7. r \in Authorized(ev) /\ r \in ev.requests /\ r.rev > ev.epoch /\ r.tip = ev.tip
      /\ r.rev = r.at
  BY <1>6, GenerationRequestsAre DEF Inv, OfThePast
<1>8. QED
  BY <1>6, <1>7

\* After a retarget the gate is green only for an answer of a later second: a
\* top-level clean, or a +1 on a marker for the present base tip
\* (findV2SupersedingGenerationClean and the epoch of reduceV2Evidence).
THEOREM SuccessAfterRetargetHolds == Spec => []SuccessAfterRetarget
BY InvHolds, SuccessAfterRetargetInv, PTL

-----------------------------------------------------------------------------
(* A fresh clean.                                                          *)

LEMMA FreshCleanSufficesInv == Inv => FreshCleanSuffices
<1> SUFFICES ASSUME Inv, Unspoilt(ev), ev.epoch = 0
             PROVE  Outcome(NewArtifact(ev, "comment", "clean", clock + 1, 0)) = "success"
  BY DEF FreshCleanSuffices
<1> DEFINE e == NewArtifact(ev, "comment", "clean", clock + 1, 0)
           n == [id |-> ev.count + 1, source |-> "comment", kind |-> "clean",
                 at |-> clock + 1, rev |-> clock + 1, edited |-> FALSE, answers |-> 0]
<1>1. /\ e.artifacts = ev.artifacts \cup {n} /\ e.requests = ev.requests
      /\ e.reactions = ev.reactions /\ e.deletions = ev.deletions
      /\ e.epoch = ev.epoch /\ e.draft = ev.draft
  BY DEF NewArtifact, Inv, TypeInv, Evidence
<1>2. /\ n.source = "comment" /\ n.kind = "clean" /\ n.at = clock + 1 /\ n.rev = clock + 1
      /\ n.edited = FALSE
  OBVIOUS
<1> HIDE DEF e, n
<1>3. clock \in Nat /\ \A a \in ev.artifacts : a.at \in Nat /\ a.rev \in Nat
                          /\ a.at <= clock /\ a.rev <= clock
  BY Typed DEF Inv, OfThePast
<1>4. n \in DirectCleans(e, e.epoch)
  BY <1>1, <1>2, <1>3 DEF DirectCleans, TopLevelCleans, Comments
<1>5. \A f \in Failures(e) : ~f.edited /\ n.at > f.rev
  BY <1>1, <1>2, <1>3 DEF Unspoilt, Failures
<1>6. Findings(e) = {} /\ e.deletions = {} /\ ~e.draft
  BY <1>1, <1>2 DEF Unspoilt, Findings
<1>7. DirectBasis(e)
  BY <1>4, <1>5, <1>6 DEF DirectBasis, DirectlySuperseded
<1>8. Unresolved(e) = {}
  <2>1. \A c \in Current(e) : c.kind # "finding"
    BY <1>6, <1>7, DirectBasisReadsNoRequest DEF Terminals, Findings
  <2>2. QED
    BY <2>1 DEF Unresolved
<1>9. ScopedErrorTimes(e) = {}
  <2>1. \A a \in e.artifacts : ~a.edited
    BY <1>1, <1>2 DEF Unspoilt
  <2>2. \A a, b \in e.artifacts : a.at = b.at => a.source = b.source
    <3>1. \A a \in ev.artifacts : a.at # n.at
      BY <1>2, <1>3
    <3>2. QED
      BY <1>1, <3>1 DEF Unspoilt
  <2>3. ConflictTimes(e) = {}
    BY <2>2, <1>7, DirectBasisReadsNoRequest DEF ConflictTimes, Terminals
  <2>4. QED
    BY <1>6, <1>7, <2>1, <2>3, DirectBasisReadsNoRequest
    DEF ScopedErrorTimes, ScopedErrorTimesOfPresent, Comments
<1>10. Selected(e) = {} /\ DirectCleans(e, e.epoch) # {} /\ CleanSelected(e)
  BY <1>4, <1>7, DirectBasisReadsNoRequest DEF CleanSelected
<1>11. ~Blocked(e)
  BY <1>4, <1>5, <1>9, <1>10 DEF Blocked, EarlyPlusOne
<1>12. ~Unattributable(e) /\ ~PreEpochClean(e) /\ ~BlockedByLiveness(e)
  BY <1>1, <1>10 DEF Unattributable, PreEpochClean, BlockedByLiveness
<1>13. Succeeds(e)
  BY <1>6, <1>10, <1>11, <1>12 DEF Succeeds
<1>14. Outcome(e) = "success"
  BY <1>8, <1>13 DEF Outcome
<1>15. QED
  BY <1>14 DEF e

\* Whatever requests, reactions, service failures and runs came before, a fresh
\* top-level clean is enough where there is nothing to repair (the direct clean
\* basis of reduceV2Evidence).
THEOREM FreshCleanSufficesHolds == Spec => []FreshCleanSuffices
BY InvHolds, FreshCleanSufficesInv, PTL

-----------------------------------------------------------------------------
(* The way out of a finding.                                               *)

LEMMA AnsweredMarkerClearsInv == Inv => AnsweredMarkerClears
<1> SUFFICES ASSUME Inv, Findings(ev) # {}, ev.requests = {}, ev.deletions = {}, ~ev.draft,
                    ev.epoch = 0, \A a \in ev.artifacts : ~a.edited
             PROVE  Outcome(NewReaction(NewRequest(ev, "marker", clock + 1), NewId, "+1",
                                        clock + 2)) = "success"
  BY DEF AnsweredMarkerClears
<1> DEFINE e == NewReaction(NewRequest(ev, "marker", clock + 1), NewId, "+1", clock + 2)
           m == [id |-> NewId, kind |-> "marker", at |-> clock + 1, rev |-> clock + 1,
                 edited |-> "no", tip |-> ev.tip]
           x == [id |-> NewId, on |-> NewId, content |-> "+1", at |-> clock + 2]
           b == [id |-> NewId, rev |-> clock + 1, bound |-> TRUE]
           c == [id |-> NewId, source |-> "reaction", kind |-> "clean", at |-> clock + 2,
                 on |-> NewId]
<1>1. ev.reactions = {}
  BY DEF Inv, Identified
<1>2. /\ e.artifacts = ev.artifacts /\ e.requests = {m} /\ e.reactions = {x}
      /\ e.deletions = {} /\ e.epoch = 0 /\ e.tip = ev.tip /\ e.draft = ev.draft
  BY <1>1 DEF NewReaction, NewRequest, NewId, Inv, TypeInv, Evidence
<1>3. /\ m.id = NewId /\ m.kind = "marker" /\ m.rev = clock + 1 /\ m.edited = "no"
      /\ m.tip = ev.tip
      /\ x.id = NewId /\ x.on = NewId /\ x.content = "+1" /\ x.at = clock + 2
      /\ b.id = NewId /\ b.rev = clock + 1 /\ Boundary(m) = b
      /\ c.id = NewId /\ c.source = "reaction" /\ c.kind = "clean" /\ c.at = clock + 2
      /\ c.on = NewId
  BY DEF Boundary
<1>4. c = [id |-> x.id, source |-> "reaction", kind |-> "clean", at |-> x.at, on |-> m.id]
  OBVIOUS
<1> HIDE DEF e, m, x, b, c
<1>5. /\ clock \in Nat /\ NewId \in Int
      /\ \A a \in ev.artifacts : /\ a.at \in Nat /\ a.rev \in Nat /\ a.at <= clock
                                 /\ a.rev <= clock /\ a.source # "reaction"
  BY Typed DEF Inv, OfThePast, NewId, Artifacts
<1>6. ~DirectBasis(e)
  BY <1>2 DEF DirectBasis, Findings
<1>7. Physical(e) = {b} /\ Authorized(e) = {m} /\ RequestErrorTimes(e) = {}
  BY <1>2, <1>3 DEF Physical, Authorized, RequestErrorTimes
<1>8. Recoveries(e) = {}
  <2>1. Findings(e) # {} /\ x \in ReactionsOn(e, m)
    BY <1>2, <1>3 DEF Findings, ReactionsOn
  <2>2. ~(x.content # "+1" \/ x.at <= m.rev)
    BY <1>3, <1>5
  <2>3. RecoveryRequests(e) = {}
    BY <1>3, <1>7, <2>1, <2>2 DEF RecoveryRequests
  <2>4. QED
    BY <2>3 DEF Recoveries
<1>9. Seen(e) = {x} /\ Eyes(e) = {} /\ PlusOnes(e, m) = {x}
  BY <1>2, <1>3, <1>6, <1>8 DEF Seen, ServedReactions, Inventoried, Eyes, PlusOnes
<1>10. Generations(e) = {b}
  <2>1. Cohorts(e) = {}
    <3>1. \A pair \in {m} \X {m} : pair[1] = m /\ pair[2] = m
      OBVIOUS
    <3>2. ~(m.rev < m.rev)
      BY <1>3, <1>5
    <3>3. QED
      BY <1>2, <3>1, <3>2 DEF Cohorts, Cohort
  <2>2. KeptBoundary(e, m)
    BY <1>3, <2>1 DEF KeptBoundary, Confirmed
  <2>3. b.rev >= e.epoch
    BY <1>2, <1>3, <1>5
  <2>4. QED
    BY <1>2, <1>6, <1>7, <2>2, <2>3 DEF Generations
<1>11. GenerationRequests(e) = {m} /\ Selected(e) = {m}
  <2>1. m.rev > e.epoch
    BY <1>2, <1>3, <1>5
  <2>2. GenerationRequestsOfAnyBase(e) = {m}
    BY <1>3, <1>6, <1>7, <2>1 DEF GenerationRequestsOfAnyBase, Confirmed
  <2>3. GenerationRequests(e) = {m}
    BY <1>2, <1>3, <2>2 DEF GenerationRequests
  <2>4. m.id <= m.id
    BY <1>3, <1>5
  <2>5. QED
    BY <2>3, <2>4 DEF Selected
<1>12. ReactionCleans(e) = {c} /\ ~Vetoed(e, m) /\ ~EarlyPlusOne(e)
  <2>1. x.at > m.rev /\ x.at <= x.at /\ x.id <= x.id
    BY <1>3, <1>5
  <2>2. HasPlusOne(e, m)
    BY <1>3, <1>9, <2>1 DEF HasPlusOne
  <2>3. NewestPlusOne(e, m) = x
    <3>1. {y \in PlusOnes(e, m) : y.at > m.rev} = {x}
      BY <1>9, <2>1
    <3>2. Latest({x}) = x
      BY <2>1 DEF Latest
    <3>3. QED
      BY <3>1, <3>2 DEF NewestPlusOne
  <2>4. ~Vetoed(e, m)
    BY <1>9 DEF Vetoed
  <2>5. ReactionCleans(e) = {c}
    BY <1>4, <1>11, <2>2, <2>3, <2>4 DEF ReactionCleans
  <2>6. ~EarlyPlusOne(e)
    BY <1>9, <1>11, <1>3, <1>5 DEF EarlyPlusOne
  <2>7. QED
    BY <2>4, <2>5, <2>6
<1>13. \A a \in Terminals(e) : a.at \in Nat /\ a.at <= clock /\ a.source # "reaction"
  BY <1>2, <1>5 DEF Terminals
<1>14. c \in Current(e) /\ \A a \in Current(e) : a = c \/ (a.kind # "clean" /\ a \in Terminals(e))
  BY <1>3, <1>5, <1>11, <1>12, <1>13 DEF Current
<1>15. PositiveCleans(e) = {c}
  <2>1. PositiveCleans(e) \subseteq {c}
    BY <1>14 DEF PositiveCleans
  <2>2. c \in PositiveCleans(e)
    BY <1>3, <1>14 DEF PositiveCleans
  <2>3. QED
    BY <2>1, <2>2
<1>16. Qualifies(e, c, m)
  <2>1. ~Before(b, b)
    BY <1>3, <1>5 DEF Before
  <2>2. GapsClosed(e)
    BY <1>10, <2>1 DEF GapsClosed, Consecutive
  <2>3. Attributable(e, c, m)
    BY <1>3, <1>10, <2>1, <2>2 DEF Attributable, FirstOrReaction
  <2>4. \A a \in Activities(e) : a.to \in Nat /\ a.to <= clock
    BY <1>2, <1>5 DEF Activities
  <2>5. ~ActivityIn(e, c.at, MaxTime, 0)
    BY <1>2, <1>3, <1>5, <2>4 DEF ActivityIn
  <2>6. ~EyesIn(e, c.at, MaxTime) /\ ~UnsettledEyes(e, m, c.at)
    BY <1>9 DEF EyesIn, UnsettledEyes
  <2>7. c.at > m.rev
    BY <1>3, <1>5
  <2>8. QED
    BY <1>3, <2>3, <2>5, <2>6, <2>7 DEF Qualifies
<1>17. ASSUME NEW time \in Nat, time <= clock, NEW allow
       PROVE  Superseded(e, time, allow)
  BY <1>3, <1>5, <1>11, <1>15, <1>16, <1>17 DEF Superseded
<1>18. Unresolved(e) = {}
  BY <1>3, <1>13, <1>14, <1>17 DEF Unresolved
<1>19. \A time \in ScopedErrorTimes(e) : time \in Nat /\ time <= clock
  <2>1. \A a, d \in Current(e) : a.at = d.at /\ a.source # d.source => a.at <= clock /\ a.at \in Nat
    BY <1>3, <1>5, <1>13, <1>14
  <2>2. QED
    BY <1>2, <1>7, <2>1
    DEF ScopedErrorTimes, ScopedErrorTimesOfPresent, ConflictTimes, Comments
<1>20. \A f \in Failures(e) : ~f.edited /\ f.rev \in Nat /\ f.rev <= clock
  BY <1>2, <1>5 DEF Failures
<1>21. GoodCleans(e) = {c} /\ CleanSelected(e)
  BY <1>11, <1>15, <1>16 DEF GoodCleans, CleanSelected
<1>22. ~Blocked(e)
  BY <1>12, <1>17, <1>19, <1>20, <1>21 DEF Blocked
<1>23. ~Unattributable(e) /\ ~PreEpochClean(e) /\ ~BlockedByLiveness(e)
  BY <1>2, <1>15, <1>21
  DEF Unattributable, PreEpochClean, BlockedByLiveness, BusyCleans
<1>24. Succeeds(e)
  BY <1>2, <1>11, <1>21, <1>22, <1>23 DEF Succeeds
<1>25. Outcome(e) = "success"
  BY <1>18, <1>24 DEF Outcome
<1>26. QED
  BY <1>25 DEF e

\* The way out of a finding: where no request was made and nothing taken back,
\* a marker and a +1 on it turn failure into success (selectLatestV2RequestEpoch,
\* buildV2ReactionCleanArtifacts and findV2SupersedingGenerationClean).
THEOREM AnsweredMarkerClearsHolds == Spec => []AnsweredMarkerClears
BY InvHolds, AnsweredMarkerClearsInv, PTL

-----------------------------------------------------------------------------
(* What clears a finding.                                                  *)

\* The seconds of a bounded set have a last one.
LEMMA MaxOfBounds ==
    ASSUME NEW S \in SUBSET Nat, NEW n \in Nat, \A s \in S : s <= n, S # {}
    PROVE  MaxOf(S) \in Nat /\ \A s \in S : s <= MaxOf(S)
<1> DEFINE R == {ss \in Nat \X Nat : ss[1] < ss[2]}
           Bounds == {u \in Nat : \A s \in S : s <= u}
<1>1. IsWellFoundedOn(R, Nat)
  BY NatLessThanWellFounded DEF OpToRel
<1>2. Bounds \subseteq Nat /\ n \in Bounds
  OBVIOUS
<1>3. \E m \in Bounds : \A u \in Bounds : <<u, m>> \notin R
  <2> HIDE DEF R, Bounds
  <2>1. QED
    BY <1>1, <1>2, WFMin
<1>4. PICK m \in Bounds : \A u \in Bounds : <<u, m>> \notin R
  BY <1>3
<1>5. m \in S
  <2> SUFFICES ASSUME m \notin S PROVE FALSE
    OBVIOUS
  <2>1. \A s \in S : s \in Nat /\ s <= m /\ s # m
    BY <1>4
  <2>2. m \in Nat /\ m - 1 \in Nat /\ \A s \in S : s <= m - 1
    <3>1. m \in Nat
      BY <1>4
    <3>2. PICK s \in S : s \in Nat /\ s <= m /\ s # m
      BY <2>1
    <3>3. m - 1 \in Nat
      BY <3>1, <3>2
    <3>4. \A z \in Nat : z <= m /\ z # m => z <= m - 1
      BY <3>1
    <3>5. QED
      BY <2>1, <3>1, <3>3, <3>4
  <2>3. m - 1 \in Bounds /\ m - 1 < m
    BY <2>2
  <2>4. <<m - 1, m>> \in R
    BY <2>2, <2>3
  <2>5. QED
    BY <1>4, <2>3, <2>4
<1>6. \A s \in S : s <= m
  BY <1>4
<1>7. QED
  BY <1>5, <1>6 DEF MaxOf

\* The two words of a cohort are not divided: what Codex said since the first
\* request, it said after the receipt and after every later request.
LEMMA CohortIsUndisturbed ==
    ASSUME Inv, NEW s \in ev.requests, NEW q \in ev.requests, NEW k \in ev.artifacts,
           Cohort(ev, s, q, k),
           NEW f \in ev.artifacts, f # k, f.rev >= s.rev,
           NEW r \in ev.requests, r.id # s.id
    PROVE  r.rev < f.at
<1> USE DEF Inv
<1> DEFINE prior == {p \in Physical(ev) : p.rev < k.at}
           later == Physical(ev) \ prior
           seconds == {k.at} \cup {p.rev : p \in later}
<1>1. Undisturbed(ev, k, s.rev, MaxOf(seconds))
  BY DEF Cohort
<1>2. \A p \in Physical(ev) : p.rev \in Nat /\ p.rev <= clock
  <2>1. \A d \in ev.deletions : DeletedBoundary(d).rev = d.at
    BY DEF DeletedBoundary
  <2>2. \A b \in ev.requests : Boundary(b).rev = b.rev
    BY DEF Boundary
  <2>3. QED
    BY <2>1, <2>2, Typed DEF Physical, OfThePast
<1>3. k.at \in Nat /\ k.at <= clock /\ clock \in Nat
  BY Typed DEF OfThePast
<1>4. seconds \in SUBSET Nat /\ (\A t \in seconds : t <= clock) /\ k.at \in seconds
  BY <1>2, <1>3
<1>5. MaxOf(seconds) \in Nat /\ \A t \in seconds : t <= MaxOf(seconds)
  <2> HIDE DEF seconds
  <2>1. seconds # {}
    BY <1>4
  <2>2. QED
    BY <1>3, <1>4, <2>1, MaxOfBounds
<1>6. f.at > MaxOf(seconds)
  BY <1>1, Typed DEF Undisturbed
<1>7. Boundary(r) \in Physical(ev) /\ Boundary(r).rev = r.rev
  BY DEF Physical, Boundary
<1>8. r.rev <= MaxOf(seconds)
  <2>1. CASE Boundary(r) \in prior
    <3>1. r.rev < k.at
      BY <1>7, <2>1
    <3>2. k.at <= MaxOf(seconds) /\ MaxOf(seconds) \in Nat
      BY <1>4, <1>5
    <3>3. r.rev \in Nat /\ k.at \in Nat
      BY Typed
    <3> HIDE DEF seconds
    <3>4. QED
      BY <3>1, <3>2, <3>3
  <2>2. CASE Boundary(r) \notin prior
    <3>1. r.rev \in seconds
      BY <1>7, <2>2
    <3>2. QED
      BY <1>5, <3>1
  <2>3. QED
    BY <2>1, <2>2
<1>9. QED
  BY <1>5, <1>6, <1>8, Typed

\* Where a clean of Codex, and not a reaction, supersedes a second, it was for
\* a pull request never retargeted and the only generation is the request g.
LEMMA SupersededByAnswer ==
    ASSUME Inv, Findings(ev) # {},
           NEW g \in GenerationRequests(ev), NEW c \in PositiveCleans(ev),
           c.source # "reaction", Qualifies(ev, c, g),
           ~\E w \in Recoveries(ev) : w[2].id = c.id
    PROVE  /\ c.at > g.rev /\ ev.epoch = 0 /\ ev.deletions = {}
           /\ \A r \in ev.requests : r.id = g.id \/ ~KeptBoundary(ev, r)
<1> USE DEF Inv
<1>1. ev.epoch = 0
  BY Typed DEF PositiveCleans, RecoveryClean, Attested
<1>2. ~DirectBasis(ev)
  BY DEF DirectBasis
<1>3. /\ \A b \in Generations(ev) : ~Before(Boundary(g), b)
      /\ \A b \in Generations(ev) : ~Before(b, Boundary(g))
  BY DEF Qualifies, Attributable, RecoveryWitness, Attested, FirstOrReaction
<1>4. g \in ev.requests
  BY GenerationRequestsAre
<1>5. Boundary(g).id = g.id /\ Boundary(g).rev = g.rev
  BY DEF Boundary
<1>6. \A d \in ev.deletions : DeletedBoundary(d).id = MaxEvents + d.id
                              /\ DeletedBoundary(d).rev = d.at
  BY DEF DeletedBoundary
<1>7. \A p \in Physical(ev) : p.id \in Nat /\ p.rev \in Nat
  <2>1. \A b \in ev.requests : Boundary(b).id = b.id /\ Boundary(b).rev = b.rev
    BY DEF Boundary
  <2>2. \A b \in ev.requests : b.id \in Nat /\ b.rev \in Nat
    BY Typed, Numbers
  <2>3. \A d \in ev.deletions : MaxEvents + d.id \in Nat /\ d.at \in Nat
    BY Typed, Numbers
  <2>4. QED
    BY <1>6, <2>1, <2>2, <2>3 DEF Physical
<1>8. \A b \in Generations(ev) : b.id = g.id
  <2>1. g.id \in Nat /\ g.rev \in Nat
    BY <1>4, Typed, Numbers
  <2>2. Generations(ev) \subseteq Physical(ev)
    BY DEF Generations
  <2>3. QED
    BY <1>3, <1>5, <1>7, <2>1, <2>2 DEF Before
<1>9. \A p \in Physical(ev) :
         (\A r \in ev.requests : r.id = p.id => KeptBoundary(ev, r)) => p.id = g.id
  BY <1>1, <1>2, <1>7, <1>8 DEF Generations
<1>10. ev.deletions = {}
  <2> SUFFICES ASSUME NEW d \in ev.deletions PROVE FALSE
    OBVIOUS
  <2>1. DeletedBoundary(d) \in Physical(ev) /\ DeletedBoundary(d).id = MaxEvents + d.id
    BY <1>6 DEF Physical
  <2>2. \A r \in ev.requests : r.id \in Nat /\ r.id <= MaxEvents
    BY Typed, Numbers DEF Ids
  <2>3. d.id \in Nat /\ d.id >= 1 /\ MaxEvents \in Nat
    BY Typed, Numbers
  <2>4. \A r \in ev.requests : r.id # MaxEvents + d.id
    BY <2>2, <2>3
  <2>5. QED
    BY <1>4, <1>9, <2>1, <2>4
<1>11. ASSUME NEW r \in ev.requests, KeptBoundary(ev, r)
       PROVE  r.id = g.id
  <2>1. Boundary(r) \in Physical(ev) /\ Boundary(r).id = r.id
    BY DEF Physical, Boundary
  <2>2. \A q \in ev.requests : q.id = r.id => KeptBoundary(ev, q)
    BY <1>11 DEF Identified
  <2>3. QED
    BY <1>9, <2>1, <2>2
<1>12. QED
  BY <1>1, <1>10, <1>11 DEF Qualifies

LEMMA ClearedByLaterRequestInv == Inv => ClearedByLaterRequest
<1> SUFFICES ASSUME Inv, ~repeated, NEW f \in Findings(ev), Outcome(ev) = "success"
             PROVE  \E t \in triggers :
                       /\ t.at > f.at
                       /\ \/ \E c \in ev.artifacts : c.kind = "clean" /\ c.answers = t.id
                          \/ \E x \in ev.reactions : x.content = "+1" /\ x.on = t.id
  BY DEF ClearedByLaterRequest
<1> USE DEF Inv
<1>1. Succeeds(ev) /\ Unresolved(ev) = {}
  BY DEF Outcome
<1>2. f \in ev.artifacts /\ f.kind = "finding" /\ f.at \in Nat /\ f.rev \in Nat /\ f.at <= f.rev
  BY Typed DEF Findings, OfThePast
<1>3. \E time \in Nat : time >= f.at /\ Superseded(ev, time, FALSE)
  <2>1. CASE f.edited
    <3>1. f.rev \in ScopedErrorTimes(ev)
      BY <1>2, <2>1 DEF ScopedErrorTimes, ScopedErrorTimesOfPresent, Comments, OfThePast
    <3>2. Superseded(ev, f.rev, FALSE)
      BY <1>1, <3>1 DEF Succeeds, Blocked
    <3>3. QED
      BY <1>2, <3>2
  <2>2. CASE ~f.edited
    <3> DEFINE word == [id |-> f.id, source |-> f.source, kind |-> f.kind, at |-> f.at, on |-> 0]
    <3>1. word \in Terminals(ev)
      BY <1>2, <2>2 DEF Terminals
    <3>2. word.kind = "finding" /\ word.at = f.at
      BY <1>2
    <3> HIDE DEF word
    <3>3. word \in Current(ev)
      BY <3>1, <3>2 DEF Current
    <3>4. Superseded(ev, f.at, FALSE)
      BY <1>1, <3>2, <3>3 DEF Unresolved
    <3>5. f.at >= f.at
      BY <1>2
    <3>6. QED
      BY <1>2, <3>4, <3>5
  <2>3. QED
    BY <2>1, <2>2
<1>4. PICK time \in Nat, g \in GenerationRequests(ev), c \in PositiveCleans(ev) :
         /\ time >= f.at /\ g.rev > time
         /\ ~(c.source = "comment" /\ \E w \in Recoveries(ev) : w[2].id = c.id)
         /\ Qualifies(ev, c, g)
  BY <1>3 DEF Superseded
<1>5. g \in ev.requests /\ g.rev = g.at /\ g.at > f.at
  <2>1. g \in ev.requests /\ g.rev = g.at
    BY <1>4, GenerationRequestsAre DEF OfThePast
  <2>2. QED
    BY <1>2, <1>4, <2>1, Typed
<1>6. c \in Current(ev) /\ c.kind = "clean"
  BY <1>4 DEF PositiveCleans
<1>7. CASE c.source = "reaction"
  <2>1. PICK x \in ev.reactions : x.content = "+1" /\ x.on = g.id
    <3>1. c.on = g.id
      BY <1>4, <1>7 DEF Qualifies
    <3>2. \A a \in ev.artifacts : a.source # "reaction"
      BY Typed DEF Artifacts
    <3>3. QED
      BY <1>6, <1>7, <3>1, <3>2, CurrentIs
  <2>2. PICK t \in triggers : t.id = g.id /\ t.at = g.at
    BY <1>5 DEF Triggered
  <2>3. QED
    BY <1>5, <2>1, <2>2
<1>8. CASE c.source # "reaction"
  <2>1. PICK a \in ev.artifacts : /\ a.kind = "clean" /\ ~a.edited /\ c.at = a.at
                                  /\ c.source = a.source /\ c.id = a.id
    BY <1>6, <1>8, CurrentIs
  <2>2. PICK t \in triggers : t.id = a.answers /\ t.at <= a.at
    BY DEF Answered
  <2>3. PICK u \in triggers : u.id = f.answers /\ u.at <= f.at
    BY <1>2 DEF Answered
  <2>4. ~\E w \in Recoveries(ev) : w[2].id = c.id
    <3> SUFFICES ASSUME NEW w \in Recoveries(ev), w[2].id = c.id PROVE FALSE
      OBVIOUS
    <3>1. w[2] \in ev.artifacts /\ w[2].source = "comment"
      BY DEF Recoveries, RecoveryCleans, TopLevelCleans, Comments
    <3>2. w[2] = a
      BY <2>1, <3>1 DEF Identified
    <3>3. QED
      BY <1>4, <2>1, <3>1, <3>2
  <2>5. /\ a.at > g.rev /\ ev.epoch = 0 /\ ev.deletions = {}
        /\ \A r \in ev.requests : r.id = g.id \/ ~KeptBoundary(ev, r)
    BY <1>4, <1>8, <2>1, <2>4, SupersededByAnswer
  <2>6. ASSUME NEW v \in triggers, v.at <= f.at
        PROVE  v.id = 0
    <3> SUFFICES ASSUME v.id # 0 PROVE FALSE
      OBVIOUS
    <3>1. PICK s \in ev.requests : s.id = v.id /\ s.at = v.at
      BY <2>5 DEF Triggered
    <3>2. s.id # g.id
      <4>1. s.at <= f.at
        BY <2>6, <3>1
      <4>2. s # g
        BY <1>2, <1>5, <4>1, Typed
      <4>3. QED
        BY <1>5, <4>2 DEF Identified
    <3>3. ~KeptBoundary(ev, s)
      BY <2>5, <3>2
    <3>4. CASE \E pair \in Cohorts(ev) : pair[1] = s
      <4>1. PICK q \in ev.requests, k \in TopLevelCleans(ev) : Cohort(ev, s, q, k)
        BY <3>4 DEF Cohorts
      <4>2. k \in ev.artifacts /\ f # k
        BY <1>2 DEF TopLevelCleans, Comments
      <4>3. s.edited = "no"
        BY <4>1 DEF Cohort
      <4>4. f.rev >= s.rev
        <5>1. s.rev = s.at
          BY <4>3 DEF OfThePast
        <5>2. QED
          BY <1>2, <2>6, <3>1, <5>1, Typed
      <4>5. g.rev < f.at
        BY <1>2, <1>5, <3>2, <4>1, <4>2, <4>4, CohortIsUndisturbed
      <4>6. QED
        BY <1>2, <1>5, <4>5, Typed
    <3>5. CASE \A pair \in Cohorts(ev) : pair[1] # s
      <4>1. s.edited = "no" /\ ReceiptsAfter(ev, s) = {}
        BY <3>3, <3>5 DEF KeptBoundary
      <4>2. s.rev = s.at
        BY <4>1 DEF OfThePast
      <4>3. a.at > s.rev
        BY <1>2, <1>5, <2>5, <2>6, <3>1, <4>2, Typed
      <4>4. a \in ReceiptsAfter(ev, s)
        BY <2>1, <4>3 DEF ReceiptsAfter
      <4>5. QED
        BY <4>1, <4>4
    <3>6. QED
      BY <3>4, <3>5
  <2>7. CASE t.at > f.at
    BY <2>1, <2>2, <2>7
  <2>8. CASE ~(t.at > f.at)
    <3>1. t.at <= f.at
      BY <1>2, <2>8, Typed
    <3>2. t.id = 0 /\ u.id = 0
      BY <2>3, <2>6, <3>1
    <3>3. a = f
      BY <1>2, <2>2, <2>3, <3>2 DEF Answered
    <3>4. QED
      BY <1>2, <2>1, <3>3
  <2>9. QED
    BY <2>7, <2>8
<1>9. QED
  BY <1>7, <1>8

\* In whatever order Codex answers, once each, a finding is passed over only for
\* a clean answer to a request made after it (v2CleanLineageError,
\* selectV2PhysicalRequestBoundaries and findV2SupersedingGenerationClean).
THEOREM ClearedByLaterRequestHolds == Spec => []ClearedByLaterRequest
BY InvHolds, ClearedByLaterRequestInv, PTL

-----------------------------------------------------------------------------
(* What is taken back.                                                     *)

\* An error of the latest second, where no request can be later, stands.
LEMMA LatestErrorBlocks ==
    ASSUME NEW e, NEW now \in Nat, \A r \in e.requests : r.rev \in Nat /\ r.rev <= now,
           \/ now \in ScopedErrorTimes(e)
           \/ \E f \in e.artifacts : f.kind = "failure" /\ f.edited
    PROVE  Outcome(e) # "success"
<1>1. CASE now \in ScopedErrorTimes(e)
  <2>1. ~Superseded(e, now, FALSE)
    BY NothingLater
  <2>2. QED
    BY <1>1, <2>1 DEF Outcome, Succeeds, Blocked
<1>2. CASE \E f \in e.artifacts : f.kind = "failure" /\ f.edited
  BY <1>2 DEF Outcome, Succeeds, Blocked, Failures
<1>3. QED
  BY <1>1, <1>2

\* The evidence that is read under the direct basis.
LEMMA DirectBasisIsEnough ==
    ASSUME NEW d, NEW e, DirectBasis(d),
           d.artifacts = e.artifacts, d.deletions = e.deletions, d.epoch = e.epoch,
           d.run = e.run, d.draft = e.draft
    PROVE  DirectBasis(e) /\ Outcome(d) = Outcome(e)
<1>1. /\ \A epoch : DirectCleans(d, epoch) = DirectCleans(e, epoch)
      /\ Terminals(d) = Terminals(e) /\ Failures(d) = Failures(e)
      /\ Findings(d) = Findings(e) /\ Comments(d) = Comments(e)
  BY DEF DirectCleans, TopLevelCleans, Terminals, Failures, Findings, Comments
<1>2. DirectBasis(e)
  BY <1>1 DEF DirectBasis, DirectlySuperseded
<1>3. /\ Current(d) = Current(e) /\ Selected(d) = {} /\ Selected(e) = {}
      /\ RequestErrorTimes(d) = {} /\ RequestErrorTimes(e) = {}
      /\ GenerationRequests(d) = {} /\ GenerationRequests(e) = {}
  BY <1>1, <1>2, DirectBasisReadsNoRequest
<1>4. \A time, allow : ~Superseded(d, time, allow) /\ ~Superseded(e, time, allow)
  BY <1>3 DEF Superseded
<1>5. \A c : ~RecoveryClean(d, c) /\ ~RecoveryClean(e, c)
  BY <1>3 DEF RecoveryClean
<1>6. PositiveCleans(d) = PositiveCleans(e)
  <2>1. PreRunClean(d) = PreRunClean(e)
    BY <1>1 DEF PreRunClean
  <2>2. QED
    BY <1>3, <1>5, <2>1 DEF PositiveCleans
<1>7. GoodCleans(d) = GoodCleans(e) /\ BusyCleans(d) = BusyCleans(e)
  BY <1>3, <1>6 DEF GoodCleans, BusyCleans
<1>8. ScopedErrorTimes(d) = ScopedErrorTimes(e)
  BY <1>1, <1>3 DEF ScopedErrorTimes, ScopedErrorTimesOfPresent, ConflictTimes
<1>9. Unresolved(d) = Unresolved(e)
  BY <1>3, <1>4 DEF Unresolved
<1>10. CleanSelected(d) = CleanSelected(e) /\ EarlyPlusOne(d) = EarlyPlusOne(e)
  BY <1>1, <1>3, <1>7 DEF CleanSelected, EarlyPlusOne
<1>11. Blocked(d) = Blocked(e)
  BY <1>1, <1>4, <1>6, <1>7, <1>8, <1>10 DEF Blocked
<1>12. /\ Unattributable(d) = Unattributable(e) /\ PreEpochClean(d) = PreEpochClean(e)
       /\ BlockedByLiveness(d) = BlockedByLiveness(e)
  BY <1>1, <1>3, <1>5, <1>6, <1>7 DEF Unattributable, PreEpochClean, BlockedByLiveness
<1>13. Succeeds(d) = Succeeds(e)
  BY <1>1, <1>3, <1>10, <1>11, <1>12 DEF Succeeds
<1>14. QED
  BY <1>2, <1>9, <1>13 DEF Outcome

\* A bare request that was edited just now is the last generation, and nobody
\* has answered it.
LEMMA NothingCounts ==
    ASSUME NEW e, NEW now \in Nat, ~DirectBasis(e), e.epoch \in Nat, e.epoch <= now,
           NEW r \in e.requests, r.edited = "kept", r.rev = now,
           \A q \in e.requests : q.id \in Nat /\ q.rev \in Nat /\ q.rev <= now,
           \A p, q \in e.requests : p.id = q.id => p = q,
           \A a \in e.artifacts : a.at \in Nat /\ a.at <= now /\ a.source # "reaction",
           \A x \in e.reactions : x.at \in Nat /\ x.at <= now
    PROVE  \A g \in GenerationRequests(e), c \in PositiveCleans(e) : ~Qualifies(e, c, g)
<1> SUFFICES ASSUME NEW g \in GenerationRequests(e), NEW c \in PositiveCleans(e),
                    Qualifies(e, c, g)
             PROVE  FALSE
  OBVIOUS
<1>1. Recoveries(e) = {}
  <2>1. RecoveryRequests(e) = {}
    BY DEF RecoveryRequests
  <2>2. QED
    BY <2>1 DEF Recoveries
<1>2. Boundary(r) \in Generations(e) /\ Boundary(r).rev = now
  <2>1. \A pair \in Cohorts(e) : pair[1] # r
    <3>1. \A q, k : ~Cohort(e, r, q, k)
      BY DEF Cohort
    <3>2. QED
      BY <3>1 DEF Cohorts
  <2>2. KeptBoundary(e, r)
    BY <2>1 DEF KeptBoundary
  <2>3. \A q \in e.requests : q.id = r.id => KeptBoundary(e, q)
    BY <2>2
  <2>4. Boundary(r).id = r.id /\ Boundary(r).rev = now /\ Boundary(r) \in Physical(e)
    BY DEF Boundary, Physical
  <2>5. QED
    BY <2>3, <2>4 DEF Generations
<1>3. ~Before(Boundary(g), Boundary(r))
  BY <1>1, <1>2 DEF Qualifies, Attributable, RecoveryWitness, Attested
<1>4. g \in e.requests /\ g.rev = now
  <2>1. g \in e.requests
    BY GenerationRequestsAre
  <2>2. Boundary(g).rev = g.rev
    BY DEF Boundary
  <2>3. QED
    BY <1>2, <1>3, <2>1, <2>2 DEF Before
<1>5. c.at > now
  BY <1>4 DEF Qualifies
<1>6. c \in Current(e)
  BY DEF PositiveCleans
<1>7. c.source = "reaction"
  BY <1>5, <1>6, CurrentIs
<1>8. PICK q \in Selected(e) :
         c.on = q.id /\ \E x \in e.reactions : x.at > q.rev
  BY <1>6, <1>7, CurrentIs
<1>9. q = g
  BY <1>4, <1>7, <1>8, GenerationRequestsAre DEF Qualifies
<1>10. QED
  BY <1>4, <1>8, <1>9

LEMMA WithdrawalInv ==
    ASSUME Inv, Withdraw, Outcome(ev') = "success"
    PROVE  Outcome(ev) = "success"
<1> USE DEF Inv
<1>1. clock \in Nat /\ \A r \in ev.requests : r.id \in Nat /\ r.rev \in Nat /\ r.rev <= clock
  BY Typed, Numbers DEF OfThePast
<1>2. ASSUME NEW a \in ev.artifacts, EditAnswer(a)
      PROVE  FALSE
  <2> DEFINE new == [a EXCEPT !.rev = clock, !.edited = TRUE]
  <2>1. /\ a.source = "comment"
        /\ ev'.artifacts = (ev.artifacts \ {a}) \cup {new} /\ ev'.requests = ev.requests
    BY <1>2 DEF EditAnswer, Event, TypeInv, Evidence
  <2>2. /\ new.rev = clock /\ new.edited = TRUE /\ new.source = a.source
        /\ new.kind = a.kind
    BY Typed DEF Artifacts
  <2> HIDE DEF new
  <2>3. CASE a.kind = "failure"
    BY <1>1, <2>1, <2>2, <2>3, LatestErrorBlocks
  <2>4. CASE a.kind # "failure"
    <3>1. new \in Comments(ev') /\ new.edited /\ new.kind # "failure"
      BY <2>1, <2>2, <2>4 DEF Comments
    <3>2. clock \in ScopedErrorTimes(ev')
      BY <2>2, <3>1 DEF ScopedErrorTimes, ScopedErrorTimesOfPresent
    <3>3. QED
      BY <1>1, <2>1, <3>2, LatestErrorBlocks
  <2>5. QED
    BY <2>3, <2>4
<1>3. ASSUME \/ \E a \in ev.artifacts : DeleteAnswer(a)
             \/ \E r \in ev.requests : DeleteRequest(r)
      PROVE  FALSE
  <2>1. /\ [id |-> NewId, at |-> clock] \in ev'.deletions
        /\ ev'.requests \subseteq ev.requests
    <3>1. ASSUME NEW a \in ev.artifacts, DeleteAnswer(a)
          PROVE  [id |-> NewId, at |-> clock] \in ev'.deletions /\ ev'.requests = ev.requests
      BY <3>1 DEF DeleteAnswer, Deleted, Event, TypeInv, Evidence
    <3>2. ASSUME NEW r \in ev.requests, DeleteRequest(r)
          PROVE  /\ [id |-> NewId, at |-> clock] \in ev'.deletions
                 /\ ev'.requests = ev.requests \ {r}
      BY <3>2 DEF DeleteRequest, Deleted, Event, TypeInv, Evidence
    <3>3. QED
      BY <1>3, <3>1, <3>2
  <2>2. clock \in ScopedErrorTimes(ev')
    BY <2>1 DEF ScopedErrorTimes
  <2>3. QED
    BY <1>1, <2>1, <2>2, LatestErrorBlocks
<1>4. ASSUME NEW r \in ev.requests, NEW how \in {"kept", "away"}, EditRequest(r, how)
      PROVE  Outcome(ev) = "success"
  <2> DEFINE new == [r EXCEPT !.rev = clock, !.edited = how]
  <2>1. /\ ev'.requests = (ev.requests \ {r}) \cup {new} /\ ev'.artifacts = ev.artifacts
        /\ ev'.reactions = ev.reactions /\ ev'.deletions = ev.deletions
        /\ ev'.epoch = ev.epoch /\ ev'.run = ev.run /\ ev'.draft = ev.draft
    BY <1>4 DEF EditRequest, Event, TypeInv, Evidence
  <2>2. /\ new.id = r.id /\ new.rev = clock /\ new.edited = how /\ new.kind = r.kind
        /\ new.kind \in {"marker", "bare"}
    BY Typed DEF Requests
  <2> HIDE DEF new
  <2>3. \A q \in ev'.requests : q.id \in Nat /\ q.rev \in Nat /\ q.rev <= clock
    BY <1>1, <2>1, <2>2
  <2>4. CASE DirectBasis(ev')
    BY <2>1, <2>4, DirectBasisIsEnough
  <2>5. CASE ~DirectBasis(ev') /\ (how = "away" \/ r.kind = "marker")
    <3>1. clock \in RequestErrorTimes(ev')
      BY <2>1, <2>2, <2>5 DEF RequestErrorTimes
    <3>2. clock \in ScopedErrorTimes(ev')
      BY <3>1 DEF ScopedErrorTimes, ScopedErrorTimesOfPresent
    <3>3. QED
      BY <1>1, <2>3, <3>2, LatestErrorBlocks
  <2>6. CASE ~DirectBasis(ev') /\ how = "kept" /\ r.kind = "bare"
    <3>1. \A g \in GenerationRequests(ev'), c \in PositiveCleans(ev') : ~Qualifies(ev', c, g)
      <4>1. \A p, q \in ev'.requests : p.id = q.id => p = q
        BY <2>1, <2>2 DEF Identified
      <4>2. \A a \in ev'.artifacts : a.at \in Nat /\ a.at <= clock /\ a.source # "reaction"
        BY <2>1, Typed DEF OfThePast, Artifacts
      <4>3. \A x \in ev'.reactions : x.at \in Nat /\ x.at <= clock
        BY <2>1, Typed DEF OfThePast
      <4>4. ev'.epoch \in Nat /\ ev'.epoch <= clock
        BY <2>1, Typed DEF OfThePast
      <4>5. new \in ev'.requests /\ new.edited = "kept" /\ new.rev = clock
        BY <2>1, <2>2, <2>6
      <4>6. QED
        BY <1>1, <2>3, <2>6, <4>1, <4>2, <4>3, <4>4, <4>5, NothingCounts
    <3>2. \A time, allow : ~Superseded(ev', time, allow)
      BY <3>1 DEF Superseded
    <3>3. Succeeds(ev') /\ Unresolved(ev') = {} /\ ScopedErrorTimes(ev') = {}
      BY <3>2 DEF Outcome, Succeeds, Blocked
    <3>4. DirectCleans(ev', ev'.epoch) # {}
      <4> SUFFICES ASSUME DirectCleans(ev', ev'.epoch) = {} PROVE FALSE
        OBVIOUS
      <4>1. Selected(ev') # {} /\ GoodCleans(ev') # {}
        BY <3>3 DEF Succeeds, CleanSelected
      <4>2. QED
        BY <3>1, <4>1, GenerationRequestsAre DEF GoodCleans
    <3>5. Findings(ev') = {}
      <4> SUFFICES ASSUME NEW f \in Findings(ev') PROVE FALSE
        OBVIOUS
      <4>1. f \in ev.artifacts /\ f.kind = "finding"
        BY <2>1 DEF Findings
      <4>2. ~f.edited
        BY <2>1, <3>3, <4>1
        DEF ScopedErrorTimes, ScopedErrorTimesOfPresent, Comments, OfThePast
      <4> DEFINE word == [id |-> f.id, source |-> f.source, kind |-> f.kind, at |-> f.at,
                          on |-> 0]
      <4>3. word \in Terminals(ev')
        BY <2>1, <4>1, <4>2 DEF Terminals
      <4>4. word.kind = "finding"
        BY <4>1
      <4> HIDE DEF word
      <4>5. word \in Current(ev')
        BY <4>3, <4>4 DEF Current
      <4>6. QED
        BY <3>2, <3>3, <4>4, <4>5 DEF Unresolved
    <3>6. ev'.deletions = {}
      BY <3>3 DEF ScopedErrorTimes
    <3>7. \A f \in Failures(ev') : DirectlySuperseded(ev', f)
      BY <3>2, <3>3 DEF Succeeds, Blocked, DirectlySuperseded
    <3>8. QED
      BY <2>6, <3>4, <3>5, <3>6, <3>7 DEF DirectBasis
  <2>7. QED
    BY <2>2, <2>4, <2>5, <2>6
<1>5. QED
  BY <1>2, <1>3, <1>4 DEF Withdraw

\* Nobody turns the gate green by taking something back: editing or deleting a
\* comment leads to success only from success (the scoped errors of
\* collectAuthorizedV2Requests and reduceV2Evidence).
THEOREM WithdrawalNeverHelpsHolds == Spec => WithdrawalNeverHelps
<1>1. Inv /\ [Next]_vars => (Withdraw /\ Outcome(ev') = "success" => Outcome(ev) = "success")
  BY WithdrawalInv
<1>2. QED
  BY <1>1, InvHolds, PTL DEF Spec, WithdrawalNeverHelps

=============================================================================
