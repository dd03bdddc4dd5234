------------------------------ MODULE Evidence ------------------------------
(***************************************************************************)
(* From hits to a report: the candidates that B's search of a job          *)
(* consolidates are the rows of the batch that C ranks.  C knows a         *)
(* document by its normalised URL only.  That plans and batches may come   *)
(* more than once is Pipeline's subject; here one batch is ranked once.    *)
(***************************************************************************)
EXTENDS Consolidation, Ranking

vars == <<consolidationVars, rankingVars>>

Init == ConsolidationInit /\ RankingInit

\* CandidateBatchMessage: published by B, received by C.
Deliver ==
    /\ stage = "published"
    /\ Receive(candidates)
    /\ UNCHANGED consolidationVars

Next ==
    \/ ConsolidationNext /\ UNCHANGED rankingVars
    \/ Deliver
    \/ RankingStep /\ UNCHANGED consolidationVars

Spec == Init /\ [][Next]_vars

\* The process runs on and each call of Claude has a timeout (120 s).  The fetches
\* through Exa have none, and nothing is assumed of them.
Fairness == WF_vars(RankerStep /\ UNCHANGED consolidationVars)

FairSpec == Spec /\ Fairness

TypeOK == ConsolidationTypeOK /\ RankingTypeOK

\* The batch that C receives satisfies the batch's validator: B's candidates
\* never make CandidateBatchMessage raise (batch_must_line_up_with_plan).
BatchIsValid ==
    stage = "published" =>
      /\ DistinctUrls(candidates)
      /\ \A n \in DOMAIN candidates :
           LET c == candidates[n] IN
           /\ c.queries # <<>> /\ Len(c.queries) <= MaxTotalQueries
           /\ \A k, l \in DOMAIN c.queries : c.queries[k] = c.queries[l] => k = l
           /\ \A k \in DOMAIN c.queries : c.queries[k] <= searched
           /\ c.dateCheck # "unknown" => c.date # NoDate

\* Every piece of evidence in a finished report can be traced to the search:
\* each query it lists did find that document, by a hit whose raw URL leads to
\* it, and its date is one that such a hit gave and that counts as prior art.
EvidenceHasASource ==
    rankPc = "done" => \A n \in DOMAIN report.evidence :
      LET row == report.evidence[n].candidate IN
      /\ \A k \in DOMAIN row.queries :
           \E i \in Mentions(row.url) : found[i].query = row.queries[k]
      /\ row.queries # <<>>
      /\ row.dateCheck = "verified" =>
           /\ row.date <= CriticalDate
           /\ \E i \in Mentions(row.url) : found[i].hit.date = row.date
      /\ row.dateCheck = "unknown" => \A i \in Mentions(row.url) : found[i].hit.date = NoDate

=============================================================================
