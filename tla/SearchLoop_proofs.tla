-------------------------- MODULE SearchLoop_proofs --------------------------
(***************************************************************************)
(* The budgets of the search loop and the batches it returns, for every    *)
(* choice of budgets.                                                      *)
(*                                                                         *)
(* The inductive invariant says what the counters mean at each point of    *)
(* the loop: before a pass the pending queries are the part of the plan    *)
(* not yet accounted for, after it everything is, and while Claude is      *)
(* asked no ceiling has been reached.                                      *)
(***************************************************************************)
EXTENDS SearchLoop, TLAPS

Budgets ==
    /\ followups <= FollowupCap
    /\ passes <= MaxSearchPasses
    /\ decisions <= MaxContinuationDecisions

Accounts ==
    /\ cacheMisses = searchesRun
    /\ cacheHits + searchesRun <= Executed
    /\ consolidated <= Executed

BeforePass ==
    pc = "searching" =>
        /\ cacheHits + searchesRun + pending = Executed
        /\ passes < MaxSearchPasses

AfterPass == pc \in {"consolidating", "deciding"} => cacheHits + searchesRun = Executed

WhileAsking ==
    pc = "deciding" =>
        /\ ~AtCeiling
        /\ consolidated = Executed
        /\ attempts < MaxRetries

LoopInv ==
    /\ TypeOK
    /\ Budgets
    /\ Accounts
    /\ BeforePass
    /\ AfterPass
    /\ WhileAsking
    /\ BatchIsCurrent
    /\ BatchIsAccepted

-----------------------------------------------------------------------------
\* The validators accept any batch assembled while the invariant holds.
LEMMA ReturnedBatchFits ==
    ASSUME TypeOK, Budgets, Accounts
    PROVE  BatchFits
BY QueryBudgetAssumption DEF TypeOK, Budgets, Accounts, BatchFits, PlanFits, FollowupCap, Executed

LEMMA InitEstablishesLoopInv == Init => LoopInv
BY QueryBudgetAssumption, LoopBudgetAssumption
DEF Init, LoopInv, TypeOK, Budgets, Accounts, BeforePass, AfterPass, WhileAsking,
    BatchIsCurrent, BatchIsAccepted, Executed, FollowupCap, NoError

\* An answer that cannot be used leaves everything but the attempts alone.
LEMMA InvalidAnswerKeepsLoopInv ==
    ASSUME LoopInv, pc = "deciding", InvalidAnswer
    PROVE  LoopInv'
<1>1. BatchFits
  BY ReturnedBatchFits DEF LoopInv
<1>2. attempts' \in 0..MaxRetries
  BY LoopBudgetAssumption DEF LoopInv, TypeOK, WhileAsking, InvalidAnswer
<1>3. \/ attempts' < MaxRetries /\ UNCHANGED <<pc, outcome>>
      \/ pc' = "done" /\ outcome' = "decision_failed"
  BY <1>1 DEF InvalidAnswer, Return
<1>4. UNCHANGED <<initial, followups, pending, passes, decisions, totals, consolidated>>
  BY DEF InvalidAnswer
<1> QED
  BY <1>2, <1>3, <1>4
  DEF LoopInv, TypeOK, Budgets, Accounts, BeforePass, AfterPass, WhileAsking,
      BatchIsCurrent, BatchIsAccepted, Executed, FollowupCap, AtCeiling, totals, Finished, NoError

LEMMA NextPreservesLoopInv == LoopInv /\ [Next]_vars => LoopInv'
<1> SUFFICES ASSUME LoopInv, [Next]_vars PROVE LoopInv'
  OBVIOUS
<1>fit. BatchFits
  BY ReturnedBatchFits DEF LoopInv
<1> USE DEF Executed, FollowupCap
<1>1. CASE RunPass
  <2>1. PICK cached \in 0..pending :
           /\ cacheHits' = cacheHits + cached
           /\ cacheMisses' = cacheMisses + (pending - cached)
           /\ searchesRun' = searchesRun + (pending - cached)
    BY <1>1 DEF RunPass
  <2>2. /\ cacheHits' + searchesRun' = Executed
        /\ cacheHits' \in Nat /\ searchesRun' \in Nat /\ cacheMisses' = searchesRun'
    BY <1>1, <2>1 DEF RunPass, LoopInv, TypeOK, Accounts, BeforePass
  <2> QED
    BY <1>1, <2>2, LoopBudgetAssumption
    DEF RunPass, LoopInv, TypeOK, Budgets, Accounts, BeforePass, AfterPass, WhileAsking,
        BatchIsCurrent, BatchIsAccepted, Finished
<1>2. CASE PassFails
  BY <1>2, <1>fit
  DEF PassFails, Return, LoopInv, TypeOK, Budgets, Accounts, BeforePass, AfterPass,
      WhileAsking, BatchIsCurrent, BatchIsAccepted, totals, Finished, NoError
<1>3. CASE Consolidate
  <2>1. \/ pc' = "done" /\ outcome' = NoError
        \/ ~AtCeiling /\ pc' = "deciding" /\ UNCHANGED outcome
    BY <1>3, <1>fit DEF Consolidate, Return
  <2> QED
    BY <1>3, <2>1, LoopBudgetAssumption
    DEF Consolidate, LoopInv, TypeOK, Budgets, Accounts, BeforePass, AfterPass, WhileAsking,
        BatchIsCurrent, BatchIsAccepted, AtCeiling, totals, Finished, NoError
<1>4. CASE ConsolidateRaises
  BY <1>4
  DEF ConsolidateRaises, LoopInv, TypeOK, Budgets, Accounts, BeforePass, AfterPass,
      WhileAsking, BatchIsCurrent, BatchIsAccepted, totals, Finished
<1>5. CASE AnswerInvalid
  BY <1>5, InvalidAnswerKeepsLoopInv DEF AnswerInvalid
<1>6. CASE AnswerFinish
  BY <1>6, <1>fit, LoopBudgetAssumption
  DEF AnswerFinish, Return, LoopInv, TypeOK, Budgets, Accounts, BeforePass, AfterPass,
      WhileAsking, BatchIsCurrent, BatchIsAccepted, AtCeiling, totals, Finished, NoError
<1>7. ASSUME NEW n \in MinFollowupQueries..MaxFollowupQueries, AnswerContinue(n)
      PROVE  LoopInv'
  <2>1. CASE PlanFits(Trimmed(n)) /\ Queue(Trimmed(n))
    <3>1. pc = "deciding" /\ ~AtCeiling
      BY <1>7 DEF AnswerContinue, LoopInv, WhileAsking
    <3>2. Trimmed(n) \in Nat
      BY <3>1, FollowupAssumption, QueryBudgetAssumption DEF LoopInv, TypeOK, Trimmed, AtCeiling
    <3> DEFINE accepted == Trimmed(n)
    <3>3. followups' = followups + accepted /\ pending' = accepted /\ accepted \in Nat
          /\ followups + accepted <= FollowupCap
      BY <2>1, <3>2 DEF Queue, PlanFits
    <3>4. /\ pc' = "searching" /\ decisions' = decisions + 1
          /\ UNCHANGED <<initial, passes, attempts, totals, consolidated, outcome>>
      BY <2>1 DEF Queue
    <3> HIDE DEF accepted
    <3> QED
      BY <3>1, <3>3, <3>4, LoopBudgetAssumption, QueryBudgetAssumption
      DEF LoopInv, TypeOK, Budgets, Accounts, BeforePass, AfterPass, WhileAsking,
          BatchIsCurrent, BatchIsAccepted, AtCeiling, totals, Finished
  <2>2. CASE InvalidAnswer
    BY <1>7, <2>2, InvalidAnswerKeepsLoopInv DEF AnswerContinue
  <2> QED
    BY <1>7, <2>1, <2>2 DEF AnswerContinue
<1>8. CASE UNCHANGED vars
  BY <1>8
  DEF vars, LoopInv, TypeOK, Budgets, Accounts, BeforePass, AfterPass, WhileAsking,
      BatchIsCurrent, BatchIsAccepted, AtCeiling
<1> QED
  BY <1>1, <1>2, <1>3, <1>4, <1>5, <1>6, <1>7, <1>8 DEF Next, LoopStep

LEMMA LoopInvHolds == Spec => []LoopInv
BY InitEstablishesLoopInv, NextPreservesLoopInv, PTL DEF Spec

-----------------------------------------------------------------------------
\* Every counter of the loop stays in the range its budgets give it.
THEOREM LoopsAreTyped == Spec => []TypeOK
<1>1. LoopInv => TypeOK
  BY DEF LoopInv
<1> QED
  BY <1>1, LoopInvHolds, PTL

\* Whatever the budgets are, neither Claude's answers nor the cache's content
\* can take the loop past one of them.
THEOREM BudgetsAreKept == Spec => []CeilingsHold
<1>1. LoopInv => CeilingsHold
  BY QueryBudgetAssumption
  DEF LoopInv, TypeOK, Budgets, Accounts, CeilingsHold, Executed, FollowupCap
<1> QED
  BY <1>1, LoopInvHolds, PTL

\* The loop's budgets never let it assemble a batch its validators refuse.
THEOREM BatchesAreAccepted == Spec => []BatchIsAccepted
<1>1. LoopInv => BatchIsAccepted
  BY DEF LoopInv
<1> QED
  BY <1>1, LoopInvHolds, PTL

\* A successful batch is consolidated from every query of its effective plan.
THEOREM BatchesAreCurrent == Spec => []BatchIsCurrent
<1>1. LoopInv => BatchIsCurrent
  BY DEF LoopInv
<1> QED
  BY <1>1, LoopInvHolds, PTL

\* The cap on follow-ups refuses no in-budget continue when the original plan
\* is as large as allowed.  (For a smaller plan it may.)
THEOREM FullPlansUseTheBudget == Spec => []FullPlanBudgetIsUsable
<1>1. LoopInv => FullPlanBudgetIsUsable
  <2> SUFFICES ASSUME LoopInv, initial = MaxInitialQueries, pc = "deciding",
                      NEW n \in MinFollowupQueries..MaxFollowupQueries
               PROVE  PlanFits(Trimmed(n))
    BY DEF FullPlanBudgetIsUsable, BudgetIsUsable
  <2> QED
    BY QueryBudgetAssumption, FollowupAssumption
    DEF LoopInv, TypeOK, WhileAsking, AtCeiling, PlanFits, Trimmed, Executed, FollowupCap
<1> QED
  BY <1>1, LoopInvHolds, PTL

-----------------------------------------------------------------------------
(* The search runs out of steps.  This is the part of SearchEnds that does *)
(* not depend on fairness: however Claude, Exa and the cache answer, each  *)
(* step leaves fewer steps to take, so the loop cannot go round for ever.  *)

\* The steps of one pass at most: the pass, its consolidation, and as many
\* invalid answers as the question has attempts but one, then the last answer.
StepsPerPass == MaxRetries + 3

StepsInPass ==
    CASE pc = "searching" -> 1
      [] pc = "consolidating" -> MaxRetries + 2
      [] pc = "deciding" -> MaxRetries + 1 - attempts
      [] OTHER -> 0

StepsLeft == (MaxSearchPasses - passes) * StepsPerPass + StepsInPass

LEMMA OnePassLess ==
    ASSUME NEW k \in Nat \ {0}, NEW m \in Nat
    PROVE  (k - 1) * m = k * m - m /\ k * m \in Nat /\ (k - 1) * m \in Nat
BY SMT

LEMMA StepsLeftIsBounded ==
    ASSUME LoopInv
    PROVE  StepsLeft \in Nat
<1>1. MaxSearchPasses - passes \in Nat /\ StepsPerPass \in Nat
  BY LoopBudgetAssumption DEF LoopInv, TypeOK, Budgets, StepsPerPass
<1>2. (MaxSearchPasses - passes) * StepsPerPass \in Nat
  BY <1>1
<1>3. StepsInPass \in Nat
  BY LoopBudgetAssumption DEF LoopInv, TypeOK, StepsInPass
<1> QED
  BY <1>2, <1>3 DEF StepsLeft

LEMMA EachStepCounts ==
    ASSUME LoopInv, Next
    PROVE  StepsLeft' < StepsLeft
<1> DEFINE before == (MaxSearchPasses - passes) * StepsPerPass
           after == (MaxSearchPasses - passes') * StepsPerPass
<1>1. before \in Nat /\ MaxRetries \in Nat \ {0}
  <2>1. MaxSearchPasses - passes \in Nat /\ StepsPerPass \in Nat
    BY LoopBudgetAssumption DEF LoopInv, TypeOK, Budgets, StepsPerPass
  <2> QED
    BY <2>1, LoopBudgetAssumption
<1>2. StepsLeft = before + StepsInPass /\ StepsLeft' = after + StepsInPass'
  BY DEF StepsLeft, StepsPerPass
<1>3. CASE RunPass
  <2>1. after = before - StepsPerPass
    <3>1. MaxSearchPasses - passes \in Nat \ {0} /\ StepsPerPass \in Nat
      BY <1>3, LoopBudgetAssumption
      DEF RunPass, LoopInv, TypeOK, BeforePass, StepsPerPass
    <3>2. MaxSearchPasses - passes' = (MaxSearchPasses - passes) - 1
      BY <1>3, LoopBudgetAssumption DEF RunPass, LoopInv, TypeOK
    <3> QED
      BY <3>1, <3>2, OnePassLess
  <2>2. StepsInPass = 1 /\ StepsInPass' = MaxRetries + 2
    BY <1>3 DEF RunPass, StepsInPass
  <2> HIDE DEF before, after
  <2> QED
    BY <1>1, <1>2, <2>1, <2>2 DEF StepsPerPass
<1>4. ASSUME UNCHANGED passes
      PROVE  after = before
  BY <1>4
<1>5. ASSUME pc' \in Finished
      PROVE  StepsInPass' = 0
  BY <1>5 DEF Finished, StepsInPass
<1>6. ASSUME NEW code, Return(code)
      PROVE  StepsInPass' = 0
  BY <1>5, <1>6 DEF Return, Finished
<1>7. pc = "deciding" => StepsInPass \in Nat /\ StepsInPass > 1
  BY <1>1 DEF LoopInv, TypeOK, WhileAsking, StepsInPass
<1> HIDE DEF before, after
<1>8. CASE PassFails
  BY <1>1, <1>2, <1>4, <1>6, <1>8 DEF PassFails, StepsInPass
<1>9. CASE Consolidate
  <2>1. UNCHANGED passes /\ StepsInPass = MaxRetries + 2
    BY <1>9 DEF Consolidate, StepsInPass
  <2>2. CASE Return(NoError)
    BY <1>1, <1>2, <1>4, <1>6, <2>1, <2>2
  <2>3. CASE pc' = "deciding"
    <3>1. StepsInPass' = MaxRetries + 1
      BY <1>1, <1>9, <2>3 DEF Consolidate, StepsInPass
    <3> QED
      BY <1>1, <1>2, <1>4, <2>1, <3>1
  <2> QED
    BY <1>9, <2>2, <2>3 DEF Consolidate
<1>10. CASE ConsolidateRaises
  <2>1. UNCHANGED passes /\ StepsInPass = MaxRetries + 2 /\ StepsInPass' = 0
    BY <1>10 DEF ConsolidateRaises, StepsInPass
  <2> QED
    BY <1>1, <1>2, <1>4, <2>1
<1>11. ASSUME pc = "deciding", InvalidAnswer
       PROVE  StepsLeft' < StepsLeft
  <2>1. UNCHANGED passes /\ attempts' = attempts + 1 /\ attempts \in Nat
    BY <1>11 DEF InvalidAnswer, LoopInv, TypeOK
  <2>2. CASE pc' = pc
    <3>1. StepsInPass' = StepsInPass - 1
      BY <1>1, <1>11, <2>1, <2>2 DEF StepsInPass
    <3> QED
      BY <1>1, <1>2, <1>4, <1>7, <1>11, <2>1, <3>1
  <2>3. CASE Return("decision_failed")
    BY <1>1, <1>2, <1>4, <1>6, <1>7, <1>11, <2>1, <2>3
  <2> QED
    BY <1>11, <2>2, <2>3 DEF InvalidAnswer
<1>12. CASE AnswerInvalid
  BY <1>11, <1>12 DEF AnswerInvalid
<1>13. CASE AnswerFinish
  <2>1. UNCHANGED passes /\ pc = "deciding" /\ StepsInPass' = 0
    BY <1>6, <1>13 DEF AnswerFinish
  <2> QED
    BY <1>1, <1>2, <1>4, <1>7, <2>1
<1>14. ASSUME NEW n \in MinFollowupQueries..MaxFollowupQueries, AnswerContinue(n)
       PROVE  StepsLeft' < StepsLeft
  <2>1. CASE Queue(Trimmed(n))
    <3>1. UNCHANGED passes /\ pc = "deciding" /\ StepsInPass' = 1
      BY <1>14, <2>1 DEF AnswerContinue, Queue, StepsInPass
    <3> QED
      BY <1>1, <1>2, <1>4, <1>7, <3>1
  <2> QED
    BY <1>11, <1>14, <2>1 DEF AnswerContinue
<1> QED
  BY <1>3, <1>8, <1>9, <1>10, <1>12, <1>13, <1>14 DEF Next, LoopStep

\* Every step of the search leaves fewer steps to take, and their number never
\* falls below zero: no answer of Claude's keeps the loop going for ever.
THEOREM SearchesRunOut ==
    Spec => [](StepsLeft \in Nat) /\ [][StepsLeft' < StepsLeft]_vars
<1>1. LoopInv => StepsLeft \in Nat
  BY StepsLeftIsBounded
<1>2. LoopInv /\ [Next]_vars => [StepsLeft' < StepsLeft]_vars
  BY EachStepCounts
<1> QED
  BY <1>1, <1>2, LoopInvHolds, PTL DEF Spec

=============================================================================
