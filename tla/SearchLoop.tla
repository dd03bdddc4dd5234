----------------------------- MODULE SearchLoop -----------------------------
(***************************************************************************)
(* Component B's bounded search for one job, run_search_loop: run the      *)
(* pending queries, consolidate what they found, stop at a hard ceiling,   *)
(* otherwise let Claude finish or add follow-up queries.                   *)
(*                                                                         *)
(* Queries are counted, not named: a pass finds some of its queries in the *)
(* cache and searches for the others, and the candidates are known by how  *)
(* many queries' hits they were built from.  The loop can end in two       *)
(* exceptions: a batch its Pydantic validators refuse, and a hit whose URL *)
(* normalize_url cannot read (a port that is no number).                   *)
(***************************************************************************)
EXTENDS Naturals

CONSTANTS
    MaxInitialQueries,
    MaxTotalQueries,
    MaxSearchPasses,
    MaxContinuationDecisions,
    MinFollowupQueries,
    MaxFollowupQueries,
    MaxRetries

ASSUME QueryBudgetAssumption ==
    /\ MaxInitialQueries \in Nat \ {0}
    /\ MaxTotalQueries \in Nat
    /\ MaxInitialQueries <= MaxTotalQueries
ASSUME LoopBudgetAssumption ==
    /\ MaxSearchPasses \in Nat \ {0}
    /\ MaxContinuationDecisions \in Nat
    /\ MaxRetries \in Nat \ {0}
ASSUME FollowupAssumption ==
    /\ MinFollowupQueries \in Nat \ {0}
    /\ MaxFollowupQueries \in Nat

VARIABLES
    pc,            \* where run_search_loop is
    initial,       \* len(plan.queries)
    followups,     \* len(followups)
    pending,       \* len(pending)
    passes,
    decisions,
    attempts,      \* invalid answers to the current question
    searchesRun,
    cacheHits,
    cacheMisses,
    consolidated,  \* queries whose hits the candidates were built from
    outcome        \* error code of the batch that was built

vars == <<pc, initial, followups, pending, passes, decisions, attempts,
          searchesRun, cacheHits, cacheMisses, consolidated, outcome>>
totals == <<searchesRun, cacheHits, cacheMisses>>

NoError == "none"
Finished == {"done", "refused", "raised"}

TypeOK ==
    /\ pc \in {"searching", "consolidating", "deciding"} \cup Finished
    /\ initial \in 1..MaxInitialQueries
    /\ followups \in Nat /\ pending \in Nat
    /\ passes \in Nat /\ decisions \in Nat
    /\ attempts \in 0..MaxRetries
    /\ searchesRun \in Nat /\ cacheHits \in Nat /\ cacheMisses \in Nat
    /\ consolidated \in Nat
    /\ outcome \in {"unknown", NoError, "search_failed", "decision_failed"}

Init ==
    /\ pc = "searching"
    /\ initial \in 1..MaxInitialQueries
    /\ pending = initial
    /\ followups = 0 /\ passes = 0 /\ decisions = 0 /\ attempts = 0
    /\ searchesRun = 0 /\ cacheHits = 0 /\ cacheMisses = 0
    /\ consolidated = 0
    /\ outcome = "unknown"

-----------------------------------------------------------------------------
Executed == initial + followups

Trimmed(n) == IF n <= MaxTotalQueries - Executed THEN n ELSE MaxTotalQueries - Executed

\* Mistake: the list cap leaves one query of the total budget unusable.
FollowupCapShort == MaxTotalQueries - MaxInitialQueries - 1

\* max_length of EffectiveSearchPlan.followup_queries.
FollowupCap == MaxTotalQueries - MaxInitialQueries

\* The validators of EffectiveSearchPlan, for n more follow-ups.
PlanFits(n) ==
    /\ followups + n <= FollowupCap
    /\ Executed + n <= MaxTotalQueries

\* The validators of SearchCacheTotals and CandidateBatchMessage.
BatchFits ==
    /\ PlanFits(0)
    /\ searchesRun <= MaxTotalQueries
    /\ cacheHits <= MaxTotalQueries
    /\ cacheMisses <= MaxTotalQueries
    /\ consolidated <= Executed

\* Mistake: each ceiling is compared with > instead of >=.
PastCeiling ==
    \/ Executed > MaxTotalQueries
    \/ passes > MaxSearchPasses
    \/ decisions > MaxContinuationDecisions

AtCeiling ==
    \/ Executed >= MaxTotalQueries
    \/ passes >= MaxSearchPasses
    \/ decisions >= MaxContinuationDecisions

\* _batch: the message is returned, unless a validator raises.
Return(code) ==
    /\ pc' = IF BatchFits THEN "done" ELSE "refused"
    /\ outcome' = code

-----------------------------------------------------------------------------
\* Mistake: the ceilings are checked before the last hits are consolidated.
RunPassStopsFirst ==
    /\ pc = "searching"
    /\ passes' = passes + 1
    /\ \E cached \in 0..pending :
         /\ cacheHits' = cacheHits + cached
         /\ cacheMisses' = cacheMisses + (pending - cached)
         /\ searchesRun' = searchesRun + (pending - cached)
    /\ \/ AtCeiling /\ Return(NoError)
       \/ ~AtCeiling /\ pc' = "consolidating" /\ UNCHANGED outcome
    /\ UNCHANGED <<initial, followups, pending, decisions, attempts, consolidated>>

\* run_search_pass succeeds: every query is in the cache or searched for.
RunPass ==
    /\ pc = "searching"
    /\ passes' = passes + 1
    /\ \E cached \in 0..pending :
         /\ cacheHits' = cacheHits + cached
         /\ cacheMisses' = cacheMisses + (pending - cached)
         /\ searchesRun' = searchesRun + (pending - cached)
    /\ pc' = "consolidating"
    /\ UNCHANGED <<initial, followups, pending, decisions, attempts, consolidated, outcome>>

\* A query exhausted its retries, or Redis failed.
PassFails ==
    /\ pc = "searching"
    /\ Return("search_failed")
    /\ UNCHANGED <<initial, followups, pending, passes, decisions, attempts, totals,
                   consolidated>>

Consolidate ==
    /\ pc = "consolidating"
    /\ consolidated' = Executed
    /\ \/ AtCeiling /\ Return(NoError)
       \/ ~AtCeiling /\ pc' = "deciding" /\ UNCHANGED outcome
    /\ attempts' = 0
    /\ UNCHANGED <<initial, followups, pending, passes, decisions, totals>>

\* normalize_url raises outside any try block.
ConsolidateRaises ==
    /\ pc = "consolidating"
    /\ pc' = "raised"
    /\ UNCHANGED <<initial, followups, pending, passes, decisions, attempts, totals,
                   consolidated, outcome>>

\* Mistake: attempts are not counted.
InvalidAnswerUncounted ==
    /\ attempts' = 0
    /\ pc' = "consolidating"
    /\ UNCHANGED <<initial, followups, pending, passes, decisions, totals, consolidated,
                   outcome>>

\* Mistake: one attempt too many.
InvalidAnswerOnceMore ==
    /\ attempts' = attempts + 1
    /\ \/ attempts + 1 <= MaxRetries /\ UNCHANGED <<pc, outcome>>
       \/ attempts + 1 > MaxRetries /\ Return("decision_failed")
    /\ UNCHANGED <<initial, followups, pending, passes, decisions, totals, consolidated>>

\* An attempt is used up; after the last one the job fails.
InvalidAnswer ==
    /\ attempts' = attempts + 1
    /\ \/ attempts + 1 < MaxRetries /\ UNCHANGED <<pc, outcome>>
       \/ attempts + 1 >= MaxRetries /\ Return("decision_failed")
    /\ UNCHANGED <<initial, followups, pending, passes, decisions, totals, consolidated>>

\* Claude cannot be reached, or answers with something SearchDecision or the
\* identifier checks of EffectiveSearchPlan refuse.
AnswerInvalid == pc = "deciding" /\ InvalidAnswer

AnswerFinish ==
    /\ pc = "deciding"
    /\ decisions' = decisions + 1
    /\ Return(NoError)
    /\ UNCHANGED <<initial, followups, pending, passes, attempts, totals, consolidated>>

Queue(n) ==
    /\ decisions' = decisions + 1
    /\ followups' = followups + n
    /\ pending' = n
    /\ pc' = "searching"
    /\ UNCHANGED <<initial, passes, attempts, totals, consolidated, outcome>>

\* Mistake: the follow-ups are not validated against the whole plan.
AnswerContinueUnchecked(n) == pc = "deciding" /\ Queue(Trimmed(n))

\* Claude proposes n well-formed follow-ups.  They are trimmed to the total
\* budget and validated together with the earlier ones.
AnswerContinue(n) ==
    /\ pc = "deciding"
    /\ \/ PlanFits(Trimmed(n)) /\ Queue(Trimmed(n))
       \/ ~PlanFits(Trimmed(n)) /\ InvalidAnswer

\* Everything but the search passes.
LoopStep ==
    \/ Consolidate \/ ConsolidateRaises
    \/ AnswerInvalid \/ AnswerFinish
    \/ \E n \in MinFollowupQueries..MaxFollowupQueries : AnswerContinue(n)

Next == RunPass \/ PassFails \/ LoopStep

Spec == Init /\ [][Next]_vars

\* run_search_loop runs on, and its calls of Claude have a timeout of 120 s.  The
\* Exa calls of a pass have none, so passes are not assumed to end.
FairSpec == Spec /\ WF_vars(LoopStep)

-----------------------------------------------------------------------------
(* Properties.                                                             *)

\* Whatever Claude answers, the loop stays within the query, pass and decision
\* budgets, and so does the work it did (spec.md section 9).
CeilingsHold ==
    /\ Executed <= MaxTotalQueries
    /\ cacheHits + searchesRun <= MaxTotalQueries
    /\ passes <= MaxSearchPasses
    /\ decisions <= MaxContinuationDecisions

\* A batch without an error code was consolidated from the hits of every query
\* in its effective plan, the last pass's included, and its totals account for
\* each of them once.
BatchIsCurrent ==
    pc = "done" /\ outcome = NoError =>
        /\ consolidated = Executed
        /\ cacheHits + searchesRun = Executed
        /\ cacheMisses = searchesRun

\* Whatever the loop returns, success or failure, is a batch its validators
\* accept: the budgets of the loop and those of the message models agree.
BatchIsAccepted == pc # "refused"

\* "The loop never raises: success or a sanitized search_failed /
\* decision_failed" (search/worker.py).
LoopNeverRaises == pc \notin {"refused", "raised"}

\* A well-formed continue within the total budget is not refused.
BudgetIsUsable ==
    pc = "deciding" =>
        \A n \in MinFollowupQueries..MaxFollowupQueries : PlanFits(Trimmed(n))

\* "Claude finishes or Python enforces a hard ceiling" (spec.md section 9): when
\* component A used all its initial queries, no well-formed continue within the
\* total budget is refused.  The cap on follow-ups is made for such plans
\* (EffectiveSearchPlan's comment); with fewer it may refuse one.
FullPlanBudgetIsUsable == initial = MaxInitialQueries => BudgetIsUsable

\* No single pass runs for ever: PassEnds of SearchPass, which rests on Exa.
PassesEnd == \A n \in 0..MaxSearchPasses : []<>~(pc = "searching" /\ passes = n)

\* The search ends, even if every answer is invalid or asks for more, as long as
\* each of its passes does.
SearchEnds == PassesEnd => <>(pc \in Finished)

=============================================================================
