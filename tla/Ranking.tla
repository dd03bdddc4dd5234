------------------------------- MODULE Ranking -------------------------------
(***************************************************************************)
(* How component C turns a candidate batch into a report: run_ranking      *)
(* fetches the full text of each candidate, asks Claude for a ranking,     *)
(* lets the adapter rebuild the report from the rows of the batch, checks  *)
(* it, and adds a note when full texts are missing.                        *)
(*                                                                         *)
(* A row is a record with a url.  Of what Claude writes about a URL only   *)
(* the URL matters (about), and of a quote only which document it cites.   *)
(* Job id and critical date are copied from the plan on both sides of      *)
(* _check_report and left out.  Exa and Claude are external: they answer   *)
(* anything their response types allow, or raise.                          *)
(***************************************************************************)
EXTENDS Bounds, Sequences

CONSTANTS
    InventedUrl,     \* a URL Claude makes up
    FetchFailedNote, \* FETCH_FAILED_NOTE
    ClaudesNote      \* a note of Claude's own

ASSUME NotesAssumption == ClaudesNote # FetchFailedNote

VARIABLES
    rankPc,     \* where run_ranking is
    rows,       \* the candidates of the batch
    fetched,    \* how many URLs are dealt with
    attempts,   \* failed attempts of the current fetch or of the ranking
    bodies,     \* URLs whose full text Claude is shown
    anyFailed,  \* any_failed
    exhausted,  \* history: URLs for which every attempt raised
    report      \* the report, as far as it is built

rankingVars == <<rankPc, rows, fetched, attempts, bodies, anyFailed, exhausted, report>>

RowUrls == {rows[n].url : n \in DOMAIN rows}

\* A list of at most MaxCandidates elements of S.
Lists(S) == UNION {[1..n -> S] : n \in 0..MaxCandidates}

\* RankingOutput: what Claude's structured answer may be.
RankedItem == [rank : 1..MaxCandidates, url : RowUrls \cup {InventedUrl}, quotes : BOOLEAN]
RankedItems == Lists(RankedItem)
Notes == {[n \in 1..k |-> ClaudesNote] : k \in 0..MaxUncertaintyNotes}

NoReport == [evidence |-> <<>>, notes |-> <<>>]

RankingTypeOK ==
    /\ rankPc \in {"waiting", "fetching", "ranking", "noting", "done", "failed"}
    /\ fetched \in 0..Len(rows)
    /\ attempts \in 0..MaxRetries
    /\ bodies \in Seq(RowUrls)
    /\ anyFailed \in BOOLEAN
    /\ exhausted \subseteq RowUrls
    /\ \A n \in DOMAIN report.evidence :
         LET e == report.evidence[n] IN
         /\ DOMAIN e = {"rank", "candidate", "about", "citations"}
         /\ e.rank \in 1..MaxCandidates
         /\ e.citations \subseteq RowUrls
    /\ report.notes \in Seq({ClaudesNote, FetchFailedNote})

RankingInit ==
    /\ rankPc = "waiting"
    /\ rows = <<>>
    /\ fetched = 0
    /\ attempts = 0
    /\ bodies = <<>>
    /\ anyFailed = FALSE
    /\ exhausted = {}
    /\ report = NoReport

\* run_ranking is called with the rows of a batch.
Receive(batch) ==
    /\ rankPc = "waiting"
    /\ rankPc' = "fetching"
    /\ rows' = batch
    /\ UNCHANGED <<fetched, attempts, bodies, anyFailed, exhausted, report>>

-----------------------------------------------------------------------------
(* _fetch_contents: one URL after the other, each with its own attempts.   *)

fetchFrame == <<rankPc, rows, report>>

Fetching == rankPc = "fetching" /\ fetched < Len(rows)
FetchUrl == rows[fetched + 1].url

NextUrl == fetched' = fetched + 1 /\ attempts' = 0

\* Mistake: what the last URL came to replaces any_failed.
FetchFindsForgetsFailure ==
    /\ Fetching
    /\ NextUrl
    /\ bodies' = Append(bodies, FetchUrl)
    /\ anyFailed' = FALSE
    /\ UNCHANGED <<fetchFrame, exhausted>>

FetchFinds ==
    /\ Fetching
    /\ NextUrl
    /\ bodies' = Append(bodies, FetchUrl)
    /\ UNCHANGED <<fetchFrame, anyFailed, exhausted>>

\* Exa answers without a text, or with the text under another spelling of the
\* URL.  That is no failure: there is no further attempt and no note.
FetchFindsNothing ==
    /\ Fetching
    /\ NextUrl
    /\ UNCHANGED <<fetchFrame, bodies, anyFailed, exhausted>>

FetchRaises ==
    /\ Fetching
    /\ attempts + 1 < MaxRetries
    /\ attempts' = attempts + 1
    /\ UNCHANGED <<fetchFrame, fetched, bodies, anyFailed, exhausted>>

\* Mistake: a URL that used up its attempts is tried anew.
FetchExhaustedStartsOver ==
    /\ Fetching
    /\ attempts + 1 = MaxRetries
    /\ attempts' = 0
    /\ anyFailed' = TRUE
    /\ exhausted' = exhausted \cup {FetchUrl}
    /\ UNCHANGED <<fetchFrame, fetched, bodies>>

FetchExhausted ==
    /\ Fetching
    /\ attempts + 1 = MaxRetries
    /\ NextUrl
    /\ anyFailed' = TRUE
    /\ exhausted' = exhausted \cup {FetchUrl}
    /\ UNCHANGED <<fetchFrame, bodies>>

StartRanker ==
    /\ rankPc = "fetching"
    /\ fetched = Len(rows)
    /\ rankPc' = "ranking"
    /\ UNCHANGED <<rows, fetched, attempts, bodies, anyFailed, exhausted, report>>

-----------------------------------------------------------------------------
(* _rank_with_retries around the adapter's rank_candidates.                *)

rankFrame == <<rows, fetched, bodies, anyFailed, exhausted>>

\* Mistake: Claude's items are matched with the rows by their position.
BuildEvidenceByPlace(items) ==
    [n \in DOMAIN items |->
       [rank |-> items[n].rank,
        candidate |-> rows[IF n <= Len(rows) THEN n ELSE 1],
        about |-> items[n].url,
        citations |-> IF items[n].quotes THEN {items[n].url} ELSE {}]]

\* The adapter: only rank, URL, explanation and quotes come from Claude.
BuildEvidence(items) ==
    [n \in DOMAIN items |->
       [rank |-> items[n].rank,
        candidate |-> rows[CHOOSE m \in DOMAIN rows : rows[m].url = items[n].url],
        about |-> items[n].url,
        citations |-> IF items[n].quotes THEN {items[n].url} ELSE {}]]

NoUrlIsInvented(items) == \A n \in DOMAIN items : items[n].url \in RowUrls

\* Report's validators.
RanksAndUrlsAreUnique(evidence) ==
    \A n, m \in DOMAIN evidence :
      (evidence[n].rank = evidence[m].rank \/ evidence[n].candidate.url = evidence[m].candidate.url)
        => n = m

\* _check_report.
CheckReport(evidence) ==
    \A n \in DOMAIN evidence :
      /\ evidence[n].candidate.url \in RowUrls
      /\ evidence[n].citations \subseteq {evidence[n].candidate.url}

Accepted(items) ==
    /\ NoUrlIsInvented(items)
    /\ RanksAndUrlsAreUnique(BuildEvidence(items))
    /\ CheckReport(BuildEvidence(items))

RankerAnswers ==
    /\ rankPc = "ranking"
    /\ rankPc' = "noting"
    /\ \E items \in RankedItems, notes \in Notes :
         /\ Accepted(items)
         /\ report' = [evidence |-> BuildEvidence(items), notes |-> notes]
    /\ attempts' = 0
    /\ UNCHANGED rankFrame

\* Mistake: one attempt too many.
RankerFailsOnceMore ==
    /\ rankPc = "ranking"
    /\ attempts' = attempts + 1
    /\ rankPc' = IF attempts' > MaxRetries THEN "failed" ELSE "ranking"
    /\ UNCHANGED <<rankFrame, report>>

\* Claude raises, refuses, or its answer is not accepted: all share one budget.
\* When it is used up, RankingFailedError.
RankerFails ==
    /\ rankPc = "ranking"
    /\ attempts' = attempts + 1
    /\ rankPc' = IF attempts' = MaxRetries THEN "failed" ELSE "ranking"
    /\ UNCHANGED <<rankFrame, report>>

\* _with_notes; the copy is not validated again.
WithNote(notes) ==
    IF Len(notes) < MaxUncertaintyNotes /\ \A n \in DOMAIN notes : notes[n] # FetchFailedNote
    THEN Append(notes, FetchFailedNote)
    ELSE notes

AddNotes ==
    /\ rankPc = "noting"
    /\ rankPc' = "done"
    /\ report' = IF anyFailed THEN [report EXCEPT !.notes = WithNote(@)] ELSE report
    /\ UNCHANGED <<rankFrame, attempts>>

FetchStep == FetchFinds \/ FetchFindsNothing \/ FetchRaises \/ FetchExhausted
RankerStep == StartRanker \/ RankerAnswers \/ RankerFails \/ AddNotes

RankingStep == FetchStep \/ RankerStep

\* Candidate batches: a list of rows with distinct URLs (the batch's validator).
DistinctUrls(batch) ==
    /\ Len(batch) <= MaxCandidates
    /\ \A n, m \in DOMAIN batch : batch[n].url = batch[m].url => n = m

-----------------------------------------------------------------------------
(* Properties.                                                             *)

\* A finished report is one its validators accept although notes were added
\* to a copy, and each piece of evidence joins a row of the batch with what
\* Claude wrote about, and quotes from, that same row (spec.md: "Claude cannot
\* alter source metadata or provenance").
ReportIsSound ==
    rankPc = "done" =>
      /\ RanksAndUrlsAreUnique(report.evidence)
      /\ Len(report.notes) <= MaxUncertaintyNotes
      /\ \A n \in DOMAIN report.evidence :
           LET e == report.evidence[n] IN
           /\ \E m \in DOMAIN rows : e.candidate = rows[m]
           /\ e.about = e.candidate.url
           /\ e.citations \subseteq {e.candidate.url}

Noted == \E n \in DOMAIN report.notes : report.notes[n] = FetchFailedNote

\* "Exhausted URLs fall back to snippet-only ranking and add a fixed uncertainty
\* note" (spec.md): a report says when a retrieval failed, and only then.
FailedFetchIsNoted == rankPc = "done" => (Noted <=> exhausted # {})

\* How much of that the code keeps (_fetch_contents, _with_notes): one failed
\* retrieval is remembered whatever the later ones come to, no note is made up,
\* and it is lost only behind a full list of notes.
NoteIsLostOnlyWhenFull ==
    rankPc = "done" =>
      /\ Noted => exhausted # {}
      /\ exhausted # {} => Noted \/ Len(report.notes) = MaxUncertaintyNotes

\* No single content fetch is out for ever.  get_contents is called without a
\* timeout, so this is Exa's to keep and not the code's.
FetchesReturn ==
    \A n \in 0..MaxCandidates, k \in 0..MaxRetries :
        []<>~(Fetching /\ fetched = n /\ attempts = k)

\* No ranking runs for ever, whatever Exa and Claude answer, as long as each
\* fetch returns; one that does not holds run_ranking and its worker.
RankingEnds == FetchesReturn => []<>(rankPc \in {"waiting", "done", "failed"})

=============================================================================
