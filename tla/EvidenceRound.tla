----------------------------- MODULE EvidenceRound -----------------------------
(***************************************************************************)
(* What an investigation promises, without how it is planned: at most      *)
(* Budget readonly calls, none once MaxFailures failures are counted, and  *)
(* a verdict that is accepted only on the evidence of a successful call.   *)
(***************************************************************************)
EXTENDS Naturals

CONSTANTS Budget, MaxFailures

VARIABLES
    stage,    \* no round, a round under way, a round that ended with a verdict
    spent,    \* calls made in the round
    wasted,   \* failures counted in it
    gained,   \* successful calls in it
    accepted  \* the verdict

roundVars == <<stage, spent, wasted, gained, accepted>>

RoundInit ==
    /\ stage = "none"
    /\ spent = 0 /\ wasted = 0 /\ gained = 0
    /\ accepted = FALSE

Open ==
    /\ stage = "none"
    /\ stage' = "open"
    /\ spent' = 0 /\ wasted' = 0 /\ gained' = 0 /\ accepted' = FALSE

\* a failed call whose bookkeeping fails as well is counted twice
Spend ==
    /\ stage = "open"
    /\ spent < Budget
    /\ wasted < MaxFailures
    /\ spent' = spent + 1
    /\ \/ gained' = gained + 1 /\ wasted' \in {wasted, wasted + 1}
       \/ gained' = gained /\ wasted' \in {wasted + 1, wasted + 2}
    /\ UNCHANGED <<stage, accepted>>

Judge ==
    /\ stage = "open"
    /\ stage' = "judged"
    /\ accepted' = (gained > 0)
    /\ UNCHANGED <<spent, wasted, gained>>

\* the next turn of the case begins, or the turn failed half-way
Forget ==
    /\ stage # "none"
    /\ stage' = "none"
    /\ spent' = 0 /\ wasted' = 0 /\ gained' = 0 /\ accepted' = FALSE

RoundNext == Open \/ Spend \/ Judge \/ Forget

RoundSpec == RoundInit /\ [][RoundNext]_roundVars
=============================================================================
