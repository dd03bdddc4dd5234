-------------------------- MODULE Evidence_proofs --------------------------
(***************************************************************************)
(* From hits to a report, for any hits, any bounds and any answers of Exa  *)
(* and Claude.  The search and the ranking of a job each keep what they    *)
(* promise alone (Consolidation_proofs, Ranking_proofs), because Evidence  *)
(* takes only their steps; what is left is that the rows C ranks are the   *)
(* candidates B published, which no later step of B changes.               *)
(***************************************************************************)
EXTENDS Evidence, Consolidation_proofs, Ranking_proofs

\* C has a batch only once it is published, and then its rows are the batch.
RowsAreTheBatch ==
    rankPc # "waiting" => stage = "published" /\ rows = candidates

EvidenceInv == ConsolidationInv /\ RankingInv /\ RowsAreTheBatch

-----------------------------------------------------------------------------
(* Each part by itself.                                                    *)

LEMMA SearchTakesItsSteps == Spec => ConsolidationSpec
<1>1. Init => ConsolidationInit
  BY DEF Init
<1>2. [Next]_vars => [ConsolidationNext]_consolidationVars
  BY DEF Next, vars, Deliver, consolidationVars
<1> QED
  BY <1>1, <1>2, PTL DEF Spec, ConsolidationSpec

LEMMA RankingTakesItsSteps == Spec => RankingSpec
<1>1. Init => RankingInit
  BY DEF Init
<1>2. [Next]_vars => [RankingNext]_rankingVars
  BY DEF Next, vars, Deliver, RankingNext
<1> QED
  BY <1>1, <1>2, PTL DEF Spec, RankingSpec

\* Evidence joins a row of the batch with what Claude said about that row,
\* whatever B searched and C fetched.
THEOREM EvidenceIsAboutItsRow == Spec => []ReportIsSound
BY RankingTakesItsSteps, ReportsAreSound, PTL

\* In the report on a batch of B, too, the note on failed retrievals is missing
\* only where Claude's notes fill the list.
THEOREM ReportsLoseNotesOnlyWhenFull == Spec => []NoteIsLostOnlyWhenFull
BY RankingTakesItsSteps, NotesAreLostOnlyWhenFull, PTL

-----------------------------------------------------------------------------
(* The batch between them.                                                 *)

LEMMA StepKeepsRows == RowsAreTheBatch /\ [Next]_vars => RowsAreTheBatch'
<1> SUFFICES ASSUME RowsAreTheBatch, [Next]_vars
             PROVE  RowsAreTheBatch'
  OBVIOUS
<1>1. CASE ConsolidationNext /\ UNCHANGED rankingVars
  <2>1. stage # "published"
    BY <1>1 DEF ConsolidationNext, Gather, StartWalk, HitRaises, SkipHit, OpenBucket, MergeHit,
                Walk, BuildCandidates, Publish
  <2> QED
    BY <1>1, <2>1 DEF RowsAreTheBatch, rankingVars
<1>2. CASE Deliver
  BY <1>2 DEF Deliver, Receive, RowsAreTheBatch, consolidationVars
<1>3. CASE RankingStep /\ UNCHANGED consolidationVars
  <2>1. rankPc # "waiting" /\ rows' = rows
    BY <1>3
    DEF RankingStep, FetchStep, RankerStep, FetchFinds, FetchFindsNothing, FetchRaises,
        FetchExhausted, Fetching, fetchFrame, StartRanker, RankerAnswers, RankerFails,
        AddNotes, rankFrame
  <2> QED
    BY <1>3, <2>1 DEF RowsAreTheBatch, consolidationVars
<1>4. CASE UNCHANGED vars
  BY <1>4 DEF vars, consolidationVars, rankingVars, RowsAreTheBatch
<1> QED
  BY <1>1, <1>2, <1>3, <1>4 DEF Next

LEMMA EvidenceInvHolds == Spec => []EvidenceInv
<1>1. Init => RowsAreTheBatch
  BY DEF Init, RankingInit, RowsAreTheBatch
<1>2. RowsAreTheBatch /\ [Next]_vars => RowsAreTheBatch'
  BY StepKeepsRows
<1>3. RankingSpec => []RankingInv
  BY InitEstablishesRankingInv, StepPreservesRankingInv, PTL DEF RankingSpec
<1> QED
  BY <1>1, <1>2, <1>3, ConsolidationInvHolds, SearchTakesItsSteps, RankingTakesItsSteps, PTL
  DEF Spec, EvidenceInv

\* What a candidate is, read off its bucket.
LEMMA CandidatesAreTraced ==
    ASSUME ConsolidationInv, Decided, NEW n \in DOMAIN candidates
    PROVE  LET c == candidates[n] IN
           /\ c.queries \in Seq(Queries) /\ ListsOnce(c.queries) /\ Len(c.queries) <= NumQueries
           /\ DOMAIN c.queries = 1..Len(c.queries)
           /\ c.queries # <<>>
           /\ \A k \in 1..Len(c.queries) :
                \E i \in Mentions(c.url) : found[i].query = c.queries[k]
           /\ c.dateCheck = ClassifyDate(c.date)
           /\ \/ c.date = NoDate /\ \A i \in Mentions(c.url) : found[i].hit.date = NoDate
              \/ \E i \in Mentions(c.url) :
                   c.date # NoDate /\ found[i].hit.date = c.date /\ Usable(found[i].hit)
<1> DEFINE url == order[n]
           bucket == buckets[url]
           qs == bucket.queries
<1>1. /\ candidates[n] = Candidate(url) /\ candidates[n].url = url
      /\ MergedUpTo(found, Len(found), url, bucket)
  BY CandidatesAreBuilt DEF WalkedUpTo
<1>2. /\ Mentions(url) = Seen(found, Len(found), url)
      /\ DatedMentions(url) = Dated(found, Len(found), url)
  BY MentionsAreSeen DEF ConsolidationInv
<1>3. qs \in Seq(Queries) /\ ListsOnce(qs)
  BY <1>1 DEF MergedUpTo, Bucket
<1>4. DOMAIN qs = 1..Len(qs) /\ Len(qs) <= NumQueries /\ Take(qs, MaxTotalQueries) = qs
  BY <1>3, LenProperties, ProvenanceFits
<1>5. /\ candidates[n].queries = qs /\ candidates[n].date = bucket.date
      /\ candidates[n].dateCheck = ClassifyDate(bucket.date)
  BY <1>1, <1>4 DEF Candidate
<1>6. {qs[k] : k \in 1..Len(qs)} = {found[i].query : i \in Mentions(url)}
  BY <1>1, <1>2 DEF MergedUpTo
<1>7. Mentions(url) # {}
  BY <1>1, <1>2 DEF MergedUpTo, Foremost
<1>8. qs # <<>>
  <2> SUFFICES ASSUME qs = <<>> PROVE FALSE
    OBVIOUS
  <2>1. 1..Len(qs) = {}
    BY EmptySeq
  <2> QED
    BY <2>1, <1>6, <1>7
<1>9. \A k \in 1..Len(qs) : \E i \in Mentions(url) : found[i].query = qs[k]
  BY <1>6
<1>10. \/ bucket.date = NoDate /\ \A i \in Mentions(url) : found[i].hit.date = NoDate
       \/ \E i \in Mentions(url) :
            bucket.date # NoDate /\ found[i].hit.date = bucket.date /\ Usable(found[i].hit)
  <2>1. CASE bucket.date = NoDate /\ DatedMentions(url) = {}
    BY <2>1 DEF DatedMentions
  <2>2. CASE \E i \in 1..Len(found) :
               Foremost(i, DatedMentions(url)) /\ bucket.date = found[i].hit.date
    BY <2>2 DEF Foremost, DatedMentions, Mentions, UsableHits
  <2> QED
    BY <2>1, <2>2, <1>1, <1>2 DEF MergedUpTo
<1> HIDE DEF url, bucket, qs
<1> QED
  BY <1>1, <1>3, <1>4, <1>5, <1>8, <1>9, <1>10

LEMMA DecidedBatchIsValid ==
    ASSUME ConsolidationInv
    PROVE  BatchIsValid
<1> SUFFICES ASSUME stage = "published"
             PROVE  /\ DistinctUrls(candidates)
                    /\ \A n \in DOMAIN candidates :
                         LET c == candidates[n] IN
                         /\ c.queries # <<>> /\ Len(c.queries) <= MaxTotalQueries
                         /\ \A k, l \in DOMAIN c.queries : c.queries[k] = c.queries[l] => k = l
                         /\ \A k \in DOMAIN c.queries : c.queries[k] <= searched
                         /\ c.dateCheck # "unknown" => c.date # NoDate
  BY DEF BatchIsValid
<1>a. Decided
  BY DEF Decided
<1>1. DistinctUrls(candidates)
  <2>1. /\ DOMAIN candidates = 1..Len(candidates)
        /\ \A n \in 1..Len(candidates) : n \in 1..Len(order) /\ candidates[n].url = order[n]
        /\ Len(candidates) = IF Len(order) < MaxCandidates THEN Len(order) ELSE MaxCandidates
        /\ Len(order) \in Nat /\ MaxCandidates \in Nat
    BY <1>a, CandidatesAreBuilt, BoundsAssumption
  <2>2. Len(candidates) <= MaxCandidates
    BY <2>1
  <2>3. ASSUME NEW k \in 1..Len(order), NEW l \in 1..Len(order), k < l, order[k] = order[l]
        PROVE  FALSE
    <3>1. PICK n \in Seen(found, Len(found), order[k]) :
              \A m \in Seen(found, Len(found), order[l]) : n < m
      BY <2>3, <1>a, CandidatesAreBuilt DEF WalkedUpTo, OrderedUpTo
    <3>2. n < n /\ n \in 1..Len(found)
      BY <2>3, <3>1 DEF Seen
    <3> QED
      BY <3>2
  <2>4. \A n, m \in 1..Len(candidates) : candidates[n].url = candidates[m].url => n = m
    BY <2>1, <2>3
  <2> QED
    BY <2>1, <2>2, <2>4 DEF DistinctUrls
<1>2. ASSUME NEW n \in DOMAIN candidates
      PROVE  LET c == candidates[n] IN
             /\ c.queries # <<>> /\ Len(c.queries) <= MaxTotalQueries
             /\ \A k, l \in DOMAIN c.queries : c.queries[k] = c.queries[l] => k = l
             /\ \A k \in DOMAIN c.queries : c.queries[k] <= searched
             /\ c.dateCheck # "unknown" => c.date # NoDate
  <2> DEFINE c == candidates[n]
  <2>1. /\ c.queries \in Seq(Queries) /\ ListsOnce(c.queries) /\ Len(c.queries) <= NumQueries
        /\ DOMAIN c.queries = 1..Len(c.queries)
        /\ c.queries # <<>>
        /\ \A k \in 1..Len(c.queries) :
             \E i \in Mentions(c.url) : found[i].query = c.queries[k]
        /\ c.dateCheck = ClassifyDate(c.date)
    BY <1>a, CandidatesAreTraced
  <2> HIDE DEF c
  <2>2. Len(c.queries) <= MaxTotalQueries
    <3>1. Len(c.queries) \in Nat
      BY <2>1, LenProperties
    <3> QED
      BY <3>1, <2>1, ConsolidationAssumption, BoundsAssumption
  <2>3. \A k \in DOMAIN c.queries : c.queries[k] <= searched
    <3>1. DOMAIN found = 1..Len(found)
      BY LenProperties DEF ConsolidationInv, ConsolidationTypeOK
    <3>2. \A i \in Mentions(c.url) : found[i].query <= searched
      BY <3>1 DEF Mentions, UsableHits, ConsolidationInv, HitsAreTagged
    <3> QED
      BY <3>2, <2>1
  <2>4. c.dateCheck # "unknown" => c.date # NoDate
    BY <2>1 DEF ClassifyDate
  <2> QED
    BY <2>1, <2>2, <2>3, <2>4 DEF c, ListsOnce
<1> QED
  BY <1>1, <1>2

\* B never publishes a batch that the message's own validators would refuse.
THEOREM BatchesAreValid == Spec => []BatchIsValid
<1>1. EvidenceInv => BatchIsValid
  BY DecidedBatchIsValid DEF EvidenceInv
<1> QED
  BY <1>1, EvidenceInvHolds, PTL

LEMMA EvidenceIsTraced == EvidenceInv => EvidenceHasASource
<1> SUFFICES ASSUME EvidenceInv, rankPc = "done", NEW n \in DOMAIN report.evidence
             PROVE  LET row == report.evidence[n].candidate IN
                    /\ \A k \in DOMAIN row.queries :
                         \E i \in Mentions(row.url) : found[i].query = row.queries[k]
                    /\ row.queries # <<>>
                    /\ row.dateCheck = "verified" =>
                         /\ row.date <= CriticalDate
                         /\ \E i \in Mentions(row.url) : found[i].hit.date = row.date
                    /\ row.dateCheck = "unknown" =>
                         \A i \in Mentions(row.url) : found[i].hit.date = NoDate
  BY DEF EvidenceHasASource
<1> DEFINE row == report.evidence[n].candidate
<1>1. ConsolidationInv /\ Decided /\ rows = candidates
  BY DEF EvidenceInv, RowsAreTheBatch, Decided
<1>2. PICK m \in DOMAIN candidates : row = candidates[m]
  BY <1>1 DEF EvidenceInv, RankingInv, EvidenceIsSound
<1>3. /\ DOMAIN row.queries = 1..Len(row.queries)
      /\ row.queries # <<>>
      /\ \A k \in 1..Len(row.queries) :
           \E i \in Mentions(row.url) : found[i].query = row.queries[k]
      /\ row.dateCheck = ClassifyDate(row.date)
      /\ \/ row.date = NoDate /\ \A i \in Mentions(row.url) : found[i].hit.date = NoDate
         \/ \E i \in Mentions(row.url) :
              row.date # NoDate /\ found[i].hit.date = row.date /\ Usable(found[i].hit)
  BY <1>1, <1>2, CandidatesAreTraced
<1> HIDE DEF row
<1>4. row.dateCheck = "unknown" <=> row.date = NoDate
  BY <1>3 DEF ClassifyDate
<1>5. row.dateCheck = "verified" => row.date # NoDate /\ row.date <= CriticalDate
  <2>1. \A i \in Mentions(row.url) : found[i].hit.date \in Nat \cup {NoDate}
    <3>1. found \in HitList /\ DOMAIN found = 1..Len(found)
      BY <1>1, LenProperties DEF ConsolidationInv, ConsolidationTypeOK, HitList
    <3>2. \A i \in 1..Len(found) : found[i] \in [query : Queries, hit : Hits]
      BY <3>1, ElementOfSeq DEF HitList
    <3> QED
      BY <3>1, <3>2, DatesAssumption DEF Mentions, UsableHits
  <2>2. row.date \in Nat \cup {NoDate} /\ CriticalDate \in Nat
    BY <2>1, <1>3, ConsolidationAssumption
  <2> QED
    BY <2>2, <1>3 DEF ClassifyDate
<1> QED
  BY <1>3, <1>4, <1>5 DEF row

\* The evidence of a report leads back to hits of the search.
THEOREM EvidenceLeadsBackToHits == Spec => []EvidenceHasASource
BY EvidenceIsTraced, EvidenceInvHolds, PTL

-----------------------------------------------------------------------------
(* Types.  Attempts stay below the bound while there is something to       *)
(* attempt, and nothing is fetched before there is a batch.                *)

RankingTypeInv ==
    /\ RankingTypeOK
    /\ rankPc = "waiting" => RankingInit
    /\ rankPc \in {"fetching", "ranking"} => attempts < MaxRetries

\* The rows of a batch are a sequence.
LEMMA RowsAreTyped ==
    ASSUME EvidenceInv, rankPc # "waiting"
    PROVE  /\ Len(rows) \in Nat /\ DOMAIN rows = 1..Len(rows)
           /\ \A n \in 1..Len(rows) : rows[n].url \in RowUrls
<1>1. rows = candidates
  BY DEF EvidenceInv, RowsAreTheBatch
<1>2. Len(rows) \in Nat /\ DOMAIN rows = 1..Len(rows)
  BY <1>1, LenProperties DEF EvidenceInv, ConsolidationInv, ConsolidationTypeOK
<1> QED
  BY <1>2 DEF RowUrls

\* Dealing with a URL keeps the types of what is fetched.
LEMMA FetchingKeepsTypes ==
    ASSUME EvidenceInv, RankingTypeInv, rankPc = "fetching",
           \/ FetchFinds \/ FetchFindsNothing \/ FetchRaises \/ FetchExhausted
    PROVE  RankingTypeInv'
<1>1. /\ Len(rows) \in Nat /\ DOMAIN rows = 1..Len(rows)
      /\ \A n \in 1..Len(rows) : rows[n].url \in RowUrls
  BY RowsAreTyped
<1>2. /\ fetched \in 0..Len(rows) /\ fetched < Len(rows)
      /\ attempts \in 0..MaxRetries /\ attempts < MaxRetries
      /\ bodies \in Seq(RowUrls) /\ exhausted \subseteq RowUrls /\ anyFailed \in BOOLEAN
      /\ MaxRetries \in Nat \ {0}
  BY BoundsAssumption
  DEF RankingTypeInv, RankingTypeOK, FetchFinds, FetchFindsNothing, FetchRaises, FetchExhausted,
      Fetching
<1>3. fetched + 1 \in 0..Len(rows) /\ FetchUrl \in RowUrls
  BY <1>1, <1>2 DEF FetchUrl
<1>4. Append(bodies, FetchUrl) \in Seq(RowUrls)
  BY <1>2, <1>3
<1>5. /\ rankPc' = rankPc /\ rows' = rows /\ report' = report
      /\ RowUrls' = RowUrls
  BY DEF FetchFinds, FetchFindsNothing, FetchRaises, FetchExhausted, fetchFrame, RowUrls
<1>6. /\ fetched' \in 0..Len(rows)
      /\ attempts' \in 0..MaxRetries /\ attempts' < MaxRetries
      /\ bodies' \in Seq(RowUrls) /\ exhausted' \subseteq RowUrls /\ anyFailed' \in BOOLEAN
  <2>1. CASE FetchFinds
    BY <2>1, <1>2, <1>3, <1>4 DEF FetchFinds, NextUrl
  <2>2. CASE FetchFindsNothing
    BY <2>2, <1>2, <1>3 DEF FetchFindsNothing, NextUrl
  <2>3. CASE FetchRaises
    BY <2>3, <1>2 DEF FetchRaises
  <2>4. CASE FetchExhausted
    BY <2>4, <1>2, <1>3 DEF FetchExhausted, NextUrl
  <2> QED
    BY <2>1, <2>2, <2>3, <2>4
<1> QED
  BY <1>5, <1>6 DEF RankingTypeInv, RankingTypeOK

\* What the adapter builds, and the notes, with and without the one on
\* retrieval, have the types of a report.
LEMMA BuiltEvidenceIsTyped ==
    ASSUME NEW items \in RankedItems, NoUrlIsInvented(items), NEW n \in DOMAIN BuildEvidence(items)
    PROVE  LET e == BuildEvidence(items)[n] IN
           /\ DOMAIN e = {"rank", "candidate", "about", "citations"}
           /\ e.rank \in 1..MaxCandidates
           /\ e.citations \subseteq RowUrls
<1>1. n \in DOMAIN items
  BY DEF BuildEvidence
<1>2. items[n].rank \in 1..MaxCandidates
  <2>1. PICK k \in 0..MaxCandidates : items \in [1..k -> RankedItem]
    BY DEF RankedItems, Lists
  <2>2. items[n] \in RankedItem
    BY <1>1, <2>1
  <2> QED
    BY <2>2 DEF RankedItem
<1>3. items[n].url \in RowUrls
  BY <1>1 DEF NoUrlIsInvented
<1> QED
  BY <1>1, <1>2, <1>3 DEF BuildEvidence

LEMMA NotesAreTyped ==
    ASSUME NEW notes \in Notes
    PROVE  LET known == Seq({ClaudesNote, FetchFailedNote}) IN
           notes \in known /\ WithNote(notes) \in known
<1>1. PICK k \in 0..MaxUncertaintyNotes : notes = [n \in 1..k |-> ClaudesNote]
  BY DEF Notes
<1>2. k \in Nat
  BY BoundsAssumption
<1>3. notes \in Seq({ClaudesNote, FetchFailedNote})
  BY <1>1, <1>2
<1> QED
  BY <1>3 DEF WithNote

LEMMA EmptyReportIsTyped ==
    /\ DOMAIN NoReport.evidence = {}
    /\ NoReport.notes \in Seq({ClaudesNote, FetchFailedNote})
<1>1. NoReport.evidence = <<>> /\ NoReport.notes = <<>>
  BY DEF NoReport
<1> QED
  BY <1>1, EmptySeq

LEMMA StepKeepsRankingTypes ==
    EvidenceInv /\ EvidenceInv' /\ RankingTypeInv /\ [Next]_vars => RankingTypeInv'
<1> SUFFICES ASSUME EvidenceInv, EvidenceInv', RankingTypeInv, [Next]_vars
             PROVE  RankingTypeInv'
  OBVIOUS
<1>a. MaxRetries \in Nat \ {0}
  BY BoundsAssumption
<1>1. CASE UNCHANGED rankingVars
  BY <1>1 DEF rankingVars, RankingTypeInv, RankingTypeOK, RankingInit, RowUrls
<1>2. CASE Deliver
  <2>1. RankingInit
    BY <1>2 DEF Deliver, Receive, RankingTypeInv
  <2>2. /\ rankPc' = "fetching" /\ rows' = candidates
        /\ fetched' = 0 /\ attempts' = 0 /\ bodies' = <<>> /\ anyFailed' = FALSE
        /\ exhausted' = {} /\ report' = NoReport
    BY <1>2, <2>1 DEF Deliver, Receive, RankingInit
  <2>3. Len(rows') \in Nat
    BY <2>2, LenProperties DEF EvidenceInv, ConsolidationInv, ConsolidationTypeOK
  <2>4. bodies' \in Seq(RowUrls')
    BY <2>2, EmptySeq
  <2>5. /\ \A n \in DOMAIN report'.evidence : FALSE
        /\ report'.notes \in Seq({ClaudesNote, FetchFailedNote})
    BY <2>2, EmptyReportIsTyped
  <2>6. /\ fetched' \in 0..Len(rows')
        /\ attempts' \in 0..MaxRetries /\ attempts' < MaxRetries
    BY <2>2, <2>3, <1>a
  <2> QED
    BY <2>2, <2>4, <2>5, <2>6 DEF RankingTypeInv, RankingTypeOK
<1>3. CASE FetchFinds \/ FetchFindsNothing \/ FetchRaises \/ FetchExhausted
  <2>1. rankPc = "fetching"
    BY <1>3 DEF FetchFinds, FetchFindsNothing, FetchRaises, FetchExhausted, Fetching
  <2> QED
    BY <1>3, <2>1, FetchingKeepsTypes
<1>4. CASE StartRanker
  BY <1>4 DEF StartRanker, RankingTypeInv, RankingTypeOK, RowUrls
<1>5. CASE RankerAnswers
  <2>1. PICK items \in RankedItems, notes \in Notes :
            /\ Accepted(items)
            /\ report' = [evidence |-> BuildEvidence(items), notes |-> notes]
    BY <1>5 DEF RankerAnswers
  <2>2. RowUrls' = RowUrls
    BY <1>5 DEF RankerAnswers, rankFrame, RowUrls
  <2>3. \A n \in DOMAIN report'.evidence :
          LET e == report'.evidence[n] IN
          /\ DOMAIN e = {"rank", "candidate", "about", "citations"}
          /\ e.rank \in 1..MaxCandidates
          /\ e.citations \subseteq RowUrls
    BY <2>1, BuiltEvidenceIsTyped DEF Accepted
  <2>4. report'.notes \in Seq({ClaudesNote, FetchFailedNote})
    BY <2>1, NotesAreTyped
  <2> QED
    BY <1>5, <1>a, <2>2, <2>3, <2>4
    DEF RankerAnswers, rankFrame, RankingTypeInv, RankingTypeOK
<1>6. CASE RankerFails
  <2>1. attempts' \in 0..MaxRetries /\ (rankPc' = "ranking" => attempts' < MaxRetries)
    BY <1>6, <1>a DEF RankerFails, RankingTypeInv, RankingTypeOK
  <2>2. rankPc' \in {"ranking", "failed"} /\ RowUrls' = RowUrls
    BY <1>6 DEF RankerFails, rankFrame, RowUrls
  <2> QED
    BY <1>6, <2>1, <2>2 DEF RankerFails, rankFrame, RankingTypeInv, RankingTypeOK
<1>7. CASE AddNotes
  <2>1. report.notes \in Notes /\ report = [evidence |-> report.evidence, notes |-> report.notes]
    BY <1>7 DEF AddNotes, EvidenceInv, RankingInv, HasBothParts
  <2>2. /\ report'.evidence = report.evidence
        /\ report'.notes \in {report.notes, WithNote(report.notes)}
    BY <1>7, <2>1 DEF AddNotes
  <2>3. report'.notes \in Seq({ClaudesNote, FetchFailedNote})
    BY <2>1, <2>2, NotesAreTyped
  <2>4. rankPc' = "done" /\ RowUrls' = RowUrls
    BY <1>7 DEF AddNotes, rankFrame, RowUrls
  <2> QED
    BY <1>7, <2>2, <2>3, <2>4 DEF AddNotes, rankFrame, RankingTypeInv, RankingTypeOK
<1> QED
  BY <1>1, <1>2, <1>3, <1>4, <1>5, <1>6, <1>7
  DEF Next, RankingStep, FetchStep, RankerStep, vars

LEMMA RankingTypeInvHolds == Spec => []RankingTypeInv
<1>1. Init => RankingTypeInv
  <2> SUFFICES ASSUME RankingInit PROVE RankingTypeInv
    BY DEF Init
  <2>1. bodies \in Seq(RowUrls) /\ Len(rows) = 0
    BY EmptySeq DEF RankingInit
  <2>2. /\ \A n \in DOMAIN report.evidence : FALSE
        /\ report.notes \in Seq({ClaudesNote, FetchFailedNote})
    BY EmptyReportIsTyped DEF RankingInit
  <2>3. fetched \in 0..Len(rows) /\ attempts \in 0..MaxRetries
    BY <2>1, BoundsAssumption DEF RankingInit
  <2> QED
    BY <2>1, <2>2, <2>3 DEF RankingInit, RankingTypeInv, RankingTypeOK
<1>2. EvidenceInv /\ EvidenceInv' /\ RankingTypeInv /\ [Next]_vars => RankingTypeInv'
  BY StepKeepsRankingTypes
<1> QED
  BY <1>1, <1>2, EvidenceInvHolds, PTL DEF Spec

\* Hits, candidates, full texts, attempts and reports keep their types from
\* the first query to the finished report.
THEOREM EvidenceIsTyped == Spec => []TypeOK
<1>1. EvidenceInv /\ RankingTypeInv => TypeOK
  BY DEF EvidenceInv, ConsolidationInv, RankingTypeInv, TypeOK
<1> QED
  BY <1>1, RankingTypeInvHolds, EvidenceInvHolds, PTL

-----------------------------------------------------------------------------
(* The ranking of a batch runs out of steps.  This is the part of          *)
(* RankingEnds that depends neither on fairness nor on fetches returning:  *)
(* however Exa and Claude answer, each step leaves fewer attempts or fewer *)
(* rows to go.                                                             *)

\* What is left once the last row has been dealt with: starting the ranker,
\* its attempts, and the note.
RankerStepsLeft ==
    CASE rankPc = "fetching" -> MaxRetries + 2 - attempts
      [] rankPc = "ranking" -> MaxRetries + 1 - attempts
      [] rankPc = "noting" -> 1
      [] OTHER -> 0

RankingStepsLeft == (Len(rows) - fetched) * MaxRetries + RankerStepsLeft

LEMMA OneRowLess ==
    ASSUME NEW k \in Nat \ {0}, NEW m \in Nat
    PROVE  (k - 1) * m = k * m - m
BY SMT

LEMMA RowsLeftCount ==
    ASSUME EvidenceInv, RankingTypeInv
    PROVE  /\ MaxRetries \in Nat \ {0} /\ attempts \in Nat
           /\ Len(rows) - fetched \in Nat
           /\ (Len(rows) - fetched) * MaxRetries \in Nat
<1>1. MaxRetries \in Nat \ {0}
  BY BoundsAssumption
<1>2. Len(rows) \in Nat
  <2>1. CASE rankPc = "waiting"
    BY <2>1, EmptySeq DEF RankingTypeInv, RankingInit
  <2>2. CASE rankPc # "waiting"
    BY <2>2, RowsAreTyped
  <2> QED
    BY <2>1, <2>2
<1>3. Len(rows) - fetched \in Nat /\ attempts \in Nat
  BY <1>1, <1>2 DEF RankingTypeInv, RankingTypeOK
<1> QED
  BY <1>1, <1>3

LEMMA RankingStepsAreBounded ==
    ASSUME EvidenceInv, RankingTypeInv
    PROVE  RankingStepsLeft \in Nat
<1>1. RankerStepsLeft \in Nat
  BY RowsLeftCount DEF RankingTypeInv, RankingTypeOK, RankerStepsLeft
<1> QED
  BY <1>1, RowsLeftCount DEF RankingStepsLeft

LEMMA EachRankingStepCounts ==
    ASSUME EvidenceInv, RankingTypeInv, RankingStep
    PROVE  RankingStepsLeft' < RankingStepsLeft
<1> DEFINE before == (Len(rows) - fetched) * MaxRetries
           after == (Len(rows) - fetched') * MaxRetries
<1>1. before \in Nat /\ MaxRetries \in Nat \ {0} /\ attempts \in Nat
  BY RowsLeftCount
<1>2. rows' = rows
  BY DEF RankingStep, FetchStep, RankerStep, FetchFinds, FetchFindsNothing, FetchRaises,
         FetchExhausted, StartRanker, RankerAnswers, RankerFails, AddNotes, fetchFrame, rankFrame
<1>3. RankingStepsLeft = before + RankerStepsLeft /\ RankingStepsLeft' = after + RankerStepsLeft'
  BY <1>2 DEF RankingStepsLeft
<1>4. ASSUME UNCHANGED fetched
      PROVE  after = before
  BY <1>4
<1>5. ASSUME NextUrl, Fetching
      PROVE  after = before - MaxRetries
  <2>0. Len(rows) \in Nat /\ fetched \in Nat /\ fetched < Len(rows) /\ fetched' = fetched + 1
    <3>1. rankPc # "waiting" /\ fetched < Len(rows) /\ fetched' = fetched + 1
      BY <1>5 DEF Fetching, NextUrl
    <3>2. Len(rows) \in Nat
      BY <3>1, RowsAreTyped
    <3> QED
      BY <3>1, <3>2 DEF RankingTypeInv, RankingTypeOK
  <2>1. Len(rows) - fetched \in Nat \ {0}
    BY <2>0
  <2>2. Len(rows) - fetched' = (Len(rows) - fetched) - 1
    BY <2>0
  <2> QED
    BY <1>1, <2>1, <2>2, OneRowLess
<1> HIDE DEF before, after
<1>6. CASE FetchFinds \/ FetchFindsNothing \/ FetchExhausted
  <2>1. NextUrl /\ Fetching /\ rankPc' = rankPc
    BY <1>6 DEF FetchFinds, FetchFindsNothing, FetchExhausted, fetchFrame
  <2>2. /\ RankerStepsLeft = MaxRetries + 2 - attempts /\ attempts < MaxRetries
        /\ RankerStepsLeft' = MaxRetries + 2
    BY <1>1, <2>1 DEF Fetching, NextUrl, RankerStepsLeft, RankingTypeInv
  <2> QED
    BY <1>1, <1>3, <1>5, <2>1, <2>2
<1>7. CASE FetchRaises
  <2>1. /\ UNCHANGED fetched
        /\ RankerStepsLeft = MaxRetries + 2 - attempts
        /\ RankerStepsLeft' = MaxRetries + 2 - (attempts + 1)
    BY <1>7 DEF FetchRaises, Fetching, fetchFrame, RankerStepsLeft
  <2> QED
    BY <1>1, <1>3, <1>4, <2>1
<1>8. CASE StartRanker
  <2>1. /\ UNCHANGED fetched
        /\ RankerStepsLeft = MaxRetries + 2 - attempts
        /\ RankerStepsLeft' = MaxRetries + 1 - attempts
    BY <1>8 DEF StartRanker, RankerStepsLeft
  <2> QED
    BY <1>1, <1>3, <1>4, <2>1
<1>9. CASE RankerAnswers
  <2>1. /\ UNCHANGED fetched /\ attempts < MaxRetries
        /\ RankerStepsLeft = MaxRetries + 1 - attempts /\ RankerStepsLeft' = 1
    BY <1>9 DEF RankerAnswers, rankFrame, RankerStepsLeft, RankingTypeInv
  <2> QED
    BY <1>1, <1>3, <1>4, <2>1
<1>10. CASE RankerFails
  <2>1. /\ UNCHANGED fetched /\ attempts < MaxRetries
        /\ RankerStepsLeft = MaxRetries + 1 - attempts
        /\ \/ RankerStepsLeft' = 0
           \/ RankerStepsLeft' = MaxRetries + 1 - (attempts + 1)
    BY <1>10 DEF RankerFails, rankFrame, RankerStepsLeft, RankingTypeInv
  <2> QED
    BY <1>1, <1>3, <1>4, <2>1
<1>11. CASE AddNotes
  <2>1. UNCHANGED fetched /\ RankerStepsLeft = 1 /\ RankerStepsLeft' = 0
    BY <1>11 DEF AddNotes, rankFrame, RankerStepsLeft
  <2> QED
    BY <1>1, <1>3, <1>4, <2>1
<1> QED
  BY <1>6, <1>7, <1>8, <1>9, <1>10, <1>11
  DEF RankingStep, FetchStep, RankerStep

\* Once C has a batch, every step of its ranking leaves fewer steps to take,
\* and their number never falls below zero: a batch cannot keep C busy for ever.
THEOREM RankingsRunOut ==
    Spec => /\ [](RankingStepsLeft \in Nat)
            /\ [][rankPc # "waiting" => RankingStepsLeft' < RankingStepsLeft]_rankingVars
<1>1. EvidenceInv /\ RankingTypeInv => RankingStepsLeft \in Nat
  BY RankingStepsAreBounded
<1>2. EvidenceInv /\ RankingTypeInv /\ [Next]_vars
        => [rankPc # "waiting" => RankingStepsLeft' < RankingStepsLeft]_rankingVars
  <2> SUFFICES ASSUME EvidenceInv, RankingTypeInv, [Next]_vars, rankPc # "waiting",
                      ~UNCHANGED rankingVars
               PROVE  RankingStepsLeft' < RankingStepsLeft
    OBVIOUS
  <2>1. RankingStep
    BY DEF Next, vars, Deliver, Receive
  <2> QED
    BY <2>1, EachRankingStepCounts
<1> QED
  BY <1>1, <1>2, RankingTypeInvHolds, EvidenceInvHolds, PTL DEF Spec

=============================================================================
