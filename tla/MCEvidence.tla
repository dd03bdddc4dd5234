----------------------------- MODULE MCEvidence -----------------------------
(* Instance of Evidence for TLC: fewer hits, since reports multiply them.    *)
EXTENDS MCConsolidation, Evidence

\* Three spellings of one document, undated, dated and dated too late, and
\* another document.
MCFewHits ==
    {[url |-> Paper, date |-> NoDate, title |-> t1],
     [url |-> Respelled, date |-> 1, title |-> t2],
     [url |-> Paper, date |-> 3, title |-> t2],
     [url |-> Root, date |-> NoDate, title |-> NoTitle]}

=============================================================================
