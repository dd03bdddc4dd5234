----------------------------- MODULE PassContract -----------------------------
(***************************************************************************)
(* What run_search_loop relies on when it calls run_search_pass: seen from *)
(* the caller a pass is one step.  It returns an answer to every query it  *)
(* was given together with totals that count each of them once, as a hit   *)
(* or as a miss that was searched, or it raises; nothing of an unfinished  *)
(* pass is visible, and what has been returned does not change any more.   *)
(* SearchLoop!RunPass and PassFails take the two outcomes from here.       *)
(***************************************************************************)
EXTENDS Naturals, FiniteSets

CONSTANTS Workers, QueryLists, TextOf, Answer

VARIABLES
    stage,   \* what has become of each worker's pass
    asked,   \* the queries of that pass
    result,  \* the answers a pass has returned
    totals   \* and its totals

contractVars == <<stage, asked, result, totals>>

NoResult == <<>>
Totals(cached, searched) == [hit |-> cached, miss |-> searched, search |-> searched]

\* A list of hits for each query, found for that query's text.
AnswersTo(S) == {a \in [S -> Answer] : \A q \in S : a[q].text = TextOf[q]}

ContractInit ==
    /\ stage = [w \in Workers |-> "idle"]
    /\ asked = [w \in Workers |-> {}]
    /\ result = [w \in Workers |-> NoResult]
    /\ totals = [w \in Workers |-> Totals(0, 0)]

To(w, from, to) == stage[w] = from /\ stage' = [stage EXCEPT ![w] = to]

Call(w) ==
    /\ To(w, "idle", "running")
    /\ \E S \in QueryLists : asked' = [asked EXCEPT ![w] = S]
    /\ UNCHANGED <<result, totals>>

Return(w) ==
    /\ To(w, "running", "returned")
    /\ \E a \in AnswersTo(asked[w]) : result' = [result EXCEPT ![w] = a]
    /\ \E cached \in 0..Cardinality(asked[w]) :
         totals' = [totals EXCEPT ![w] = Totals(cached, Cardinality(asked[w]) - cached)]
    /\ UNCHANGED asked

Raise(w) == To(w, "running", "raised") /\ UNCHANGED <<asked, result, totals>>

\* The caller has taken the outcome, or the process has died.
Forget(w) ==
    /\ stage[w] # "idle"
    /\ stage' = [stage EXCEPT ![w] = "idle"]
    /\ asked' = [asked EXCEPT ![w] = {}]
    /\ result' = [result EXCEPT ![w] = NoResult]
    /\ totals' = [totals EXCEPT ![w] = Totals(0, 0)]

ContractNext == \E w \in Workers : Call(w) \/ Return(w) \/ Raise(w) \/ Forget(w)

ContractSpec == ContractInit /\ [][ContractNext]_contractVars

=============================================================================
