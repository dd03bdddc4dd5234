--------------------------- MODULE Ranking_proofs ---------------------------
(***************************************************************************)
(* What run_ranking returns, for any batch and any answers of Exa and      *)
(* Claude.                                                                 *)
(***************************************************************************)
EXTENDS Ranking, TLAPS

RankingNext == (\E batch : Receive(batch)) \/ RankingStep

\* run_ranking by itself, on a batch that is anything.
RankingSpec == RankingInit /\ [][RankingNext]_rankingVars

\* The evidence of a report, from the time the adapter built it.
EvidenceIsSound ==
    /\ RanksAndUrlsAreUnique(report.evidence)
    /\ \A n \in DOMAIN report.evidence :
         LET e == report.evidence[n] IN
         /\ \E m \in DOMAIN rows : e.candidate = rows[m]
         /\ e.about = e.candidate.url
         /\ e.citations \subseteq {e.candidate.url}

\* any_failed remembers that a URL used up its attempts, whatever came later.
FailuresAreRemembered == anyFailed \in BOOLEAN /\ (anyFailed <=> exhausted # {})

HasBothParts == report = [evidence |-> report.evidence, notes |-> report.notes]

RankingInv ==
    /\ HasBothParts
    /\ FailuresAreRemembered
    /\ rankPc \in {"noting", "done"} => EvidenceIsSound
    /\ rankPc = "noting" => report.notes \in Notes
    /\ rankPc = "done" => Len(report.notes) <= MaxUncertaintyNotes /\ NoteIsLostOnlyWhenFull

-----------------------------------------------------------------------------
\* The adapter looks each row up by the URL Claude gave, so whatever Claude
\* wrote stays with that row.
LEMMA AdapterKeepsRows ==
    ASSUME NEW items \in RankedItems, NoUrlIsInvented(items), NEW n \in DOMAIN items
    PROVE  LET e == BuildEvidence(items)[n] IN
           /\ \E m \in DOMAIN rows : e.candidate = rows[m]
           /\ e.candidate.url = items[n].url
           /\ e.about = items[n].url
           /\ e.citations \subseteq {items[n].url}
<1>1. PICK m \in DOMAIN rows : rows[m].url = items[n].url
  BY DEF NoUrlIsInvented, RowUrls
<1>2. /\ (CHOOSE k \in DOMAIN rows : rows[k].url = items[n].url) \in DOMAIN rows
      /\ rows[CHOOSE k \in DOMAIN rows : rows[k].url = items[n].url].url = items[n].url
  BY <1>1
<1> QED
  BY <1>2 DEF BuildEvidence

\* Adding the note: the list stays within its bound, and the note is on it
\* unless it was full.
LEMMA WithNoteIsBounded ==
    ASSUME NEW notes \in Notes
    PROVE  /\ Len(WithNote(notes)) <= MaxUncertaintyNotes
           /\ \/ \E n \in DOMAIN WithNote(notes) : WithNote(notes)[n] = FetchFailedNote
              \/ Len(WithNote(notes)) = MaxUncertaintyNotes
<1>1. PICK k \in 0..MaxUncertaintyNotes : notes = [n \in 1..k |-> ClaudesNote]
  BY DEF Notes
<1>2. notes \in Seq({ClaudesNote}) /\ Len(notes) = k /\ MaxUncertaintyNotes \in Nat
  BY <1>1, BoundsAssumption
<1>3. CASE k < MaxUncertaintyNotes
  <2>1. WithNote(notes) = Append(notes, FetchFailedNote)
    BY <1>1, <1>2, <1>3, NotesAssumption DEF WithNote
  <2>2. /\ Len(Append(notes, FetchFailedNote)) = k + 1
        /\ k + 1 \in DOMAIN Append(notes, FetchFailedNote)
        /\ Append(notes, FetchFailedNote)[k + 1] = FetchFailedNote
    BY <1>2
  <2> QED
    BY <1>2, <1>3, <2>1, <2>2
<1>4. CASE k = MaxUncertaintyNotes
  BY <1>2, <1>4 DEF WithNote
<1> QED
  BY <1>2, <1>3, <1>4

LEMMA ClaudesNotesAreNot ==
    ASSUME NEW notes \in Notes
    PROVE  /\ Len(notes) <= MaxUncertaintyNotes
           /\ \A n \in DOMAIN notes : notes[n] # FetchFailedNote
<1>1. PICK k \in 0..MaxUncertaintyNotes : notes = [n \in 1..k |-> ClaudesNote]
  BY DEF Notes
<1>2. notes \in Seq({ClaudesNote}) /\ Len(notes) = k /\ MaxUncertaintyNotes \in Nat
  BY <1>1, BoundsAssumption
<1> QED
  BY <1>1, <1>2, NotesAssumption

LEMMA InitEstablishesRankingInv == RankingInit => RankingInv
BY DEF RankingInit, RankingInv, FailuresAreRemembered, HasBothParts, NoReport

LEMMA StepPreservesRankingInv == RankingInv /\ [RankingNext]_rankingVars => RankingInv'
<1> SUFFICES ASSUME RankingInv, [RankingNext]_rankingVars PROVE RankingInv'
  OBVIOUS
<1>1. CASE \E batch : Receive(batch)
  BY <1>1 DEF Receive, RankingInv, FailuresAreRemembered, HasBothParts
<1>2. CASE FetchFinds \/ FetchFindsNothing \/ FetchRaises \/ StartRanker
  BY <1>2
  DEF FetchFinds, FetchFindsNothing, FetchRaises, StartRanker, Fetching, fetchFrame, RankingInv,
      FailuresAreRemembered, HasBothParts
<1>3. CASE FetchExhausted
  BY <1>3 DEF FetchExhausted, Fetching, fetchFrame, RankingInv, FailuresAreRemembered, HasBothParts
<1>4. CASE RankerAnswers
  <2>1. PICK items \in RankedItems, notes \in Notes :
           /\ Accepted(items)
           /\ report' = [evidence |-> BuildEvidence(items), notes |-> notes]
    BY <1>4 DEF RankerAnswers
  <2>2. rows' = rows /\ rankPc' = "noting" /\ UNCHANGED <<anyFailed, exhausted>>
    BY <1>4 DEF RankerAnswers, rankFrame
  <2>3. DOMAIN BuildEvidence(items) = DOMAIN items
    BY DEF BuildEvidence
  <2>4. EvidenceIsSound'
    BY <2>1, <2>2, <2>3, AdapterKeepsRows DEF EvidenceIsSound, Accepted, RanksAndUrlsAreUnique
  <2> QED
    BY <2>1, <2>2, <2>4 DEF RankingInv, FailuresAreRemembered, HasBothParts, Notes
<1>5. CASE RankerFails
  BY <1>5 DEF RankerFails, rankFrame, RankingInv, FailuresAreRemembered, HasBothParts
<1>6. CASE AddNotes
  <2>1. /\ rankPc = "noting" /\ rankPc' = "done"
        /\ UNCHANGED <<rows, anyFailed, exhausted>>
        /\ report.notes \in Notes /\ EvidenceIsSound
        /\ FailuresAreRemembered
    BY <1>6 DEF AddNotes, rankFrame, RankingInv
  <2>2. CASE anyFailed
    <3>1. report' = [report EXCEPT !.notes = WithNote(report.notes)]
      BY <1>6, <2>2 DEF AddNotes
    <3>2. report' = [evidence |-> report.evidence, notes |-> WithNote(report.notes)]
      BY <3>1, <1>6 DEF RankingInv, HasBothParts
    <3> QED
      BY <2>1, <2>2, <3>2, WithNoteIsBounded
      DEF HasBothParts, RankingInv, FailuresAreRemembered, EvidenceIsSound,
          RanksAndUrlsAreUnique, NoteIsLostOnlyWhenFull, Noted
  <2>3. CASE ~anyFailed
    <3>1. report' = report
      BY <1>6, <2>3 DEF AddNotes
    <3> QED
      BY <2>1, <2>3, <3>1, ClaudesNotesAreNot
      DEF RankingInv, HasBothParts, FailuresAreRemembered, EvidenceIsSound,
          RanksAndUrlsAreUnique, NoteIsLostOnlyWhenFull, Noted
  <2> QED
    BY <2>1, <2>2, <2>3 DEF FailuresAreRemembered
<1>7. CASE UNCHANGED rankingVars
  BY <1>7
  DEF rankingVars, RankingInv, HasBothParts, FailuresAreRemembered, EvidenceIsSound,
      RanksAndUrlsAreUnique, NoteIsLostOnlyWhenFull, Noted, Notes
<1> QED
  BY <1>1, <1>2, <1>3, <1>4, <1>5, <1>6, <1>7 DEF RankingNext, RankingStep, FetchStep, RankerStep

\* The invariant gives both properties of a finished report.
LEMMA RankingInvGivesProperties == RankingInv => ReportIsSound /\ NoteIsLostOnlyWhenFull
BY DEF RankingInv, EvidenceIsSound, ReportIsSound, NoteIsLostOnlyWhenFull, Noted

-----------------------------------------------------------------------------
\* Whatever the batch and whatever Claude answers, evidence joins a row of the
\* batch with what Claude said of it, and the notes stay within their bound.
THEOREM ReportsAreSound == RankingSpec => []ReportIsSound
<1>1. RankingInv => ReportIsSound
  BY RankingInvGivesProperties
<1> QED
  BY InitEstablishesRankingInv, StepPreservesRankingInv, <1>1, PTL DEF RankingSpec

\* One failed retrieval is remembered whatever follows: its note is missing only
\* behind a full list, and none is made up (_fetch_contents, _with_notes).
THEOREM NotesAreLostOnlyWhenFull == RankingSpec => []NoteIsLostOnlyWhenFull
<1>1. RankingInv => NoteIsLostOnlyWhenFull
  BY RankingInvGivesProperties
<1> QED
  BY InitEstablishesRankingInv, StepPreservesRankingInv, <1>1, PTL DEF RankingSpec

=============================================================================
