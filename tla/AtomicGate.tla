----------------------------- MODULE AtomicGate -----------------------------
(***************************************************************************)
(* What one verifier run promises, as if it could read the whole pull      *)
(* request in one instant: it glances at the facts, agrees with a clean    *)
(* glance, and passes the pull request only on a second glance that shows  *)
(* the very same facts.  A finding it glances at may fail the pull request  *)
(* at once; it may give no verdict at any time.                            *)
(***************************************************************************)
CONSTANTS
    Facts,        \* the states of the evidence
    CleanFacts,   \* those that may pass
    FindingFacts  \* those that hold a finding

VARIABLES
    facts,    \* the evidence as it is
    glance,   \* the evidence as it was when last looked at
    agreed,   \* the clean glance a pass would have to repeat, if any
    verdict   \* "none", "success", "failure" or "open"

vars == <<facts, glance, agreed, verdict>>

Init ==
    /\ facts \in Facts
    /\ glance \in Facts
    /\ agreed = {}
    /\ verdict = "none"

Change == facts' \in Facts /\ UNCHANGED <<glance, agreed, verdict>>

Glance == verdict = "none" /\ glance' = facts /\ UNCHANGED <<facts, agreed, verdict>>

Agree ==
    /\ verdict = "none"
    /\ glance \in CleanFacts
    /\ agreed' = {glance}
    /\ verdict' \in {"none", "open"}
    /\ UNCHANGED <<facts, glance>>

Forget ==
    /\ verdict = "none"
    /\ agreed' = {}
    /\ verdict' \in {"none", "open"}
    /\ UNCHANGED <<facts, glance>>

Pass ==
    /\ verdict = "none"
    /\ glance \in CleanFacts \cap agreed
    /\ verdict' = "success"
    /\ UNCHANGED <<facts, glance, agreed>>

Fail ==
    /\ verdict = "none"
    /\ glance \in FindingFacts
    /\ verdict' = "failure"
    /\ UNCHANGED <<facts, glance, agreed>>

GiveNoVerdict ==
    /\ verdict = "none"
    /\ verdict' = "open"
    /\ UNCHANGED <<facts, glance, agreed>>

Next == Change \/ Glance \/ Agree \/ Forget \/ Pass \/ Fail \/ GiveNoVerdict

Spec == Init /\ [][Next]_vars
=============================================================================
