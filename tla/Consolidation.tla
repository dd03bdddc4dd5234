---------------------------- MODULE Consolidation ----------------------------
(***************************************************************************)
(* How component B turns Exa's hits into the candidates of a batch:        *)
(* run_search_loop collects the hits of every pass, tagged with the query  *)
(* that found them, and after each pass consolidate() walks all of them    *)
(* again: it normalises each URL, drops what cannot be used, and merges    *)
(* the hits of one document into a bucket.                                 *)
(*                                                                         *)
(* A URL is what urlparse makes of it: its path is the sequence of the     *)
(* segments between slashes ("/a/" is <<"a","">>, "/" is <<"">>), params   *)
(* is what follows a semicolon in the last segment, query the sequence of  *)
(* its parameters.  A port may be written or not, also :0, and one that is *)
(* no number counts as one out of range.  Lengths are counted in segments. *)
(* Dates are numbers; truncation of titles and snippets is left out.       *)
(***************************************************************************)
EXTENDS Bounds, Sequences

CONSTANTS
    Hits,            \* what Exa may return: records of url, date and title
    NumQueries,      \* the queries are 1..NumQueries, run in this order
    MaxHits,         \* MAX_EXA_RESULTS_PER_QUERY
    MaxUrlLength,    \* _MAX_URL_LENGTH
    CriticalDate,    \* the job's critical date
    NoDate,          \* published_on is None
    NoTitle,         \* the title is missing or blank
    NoPort,          \* the URL has no port
    TrackingParams,  \* parameters that only follow the reader: utm_*, gclid ...
    NoUrl            \* normalize_url's empty string

\* The empty scheme, host, segment or ;params, and the largest port urlparse accepts.
None == ""
MaxPort == 65535

ASSUME ConsolidationAssumption ==
    /\ {NumQueries, MaxHits, MaxUrlLength, CriticalDate} \subseteq Nat
    /\ NumQueries <= MaxTotalQueries
ASSUME DatesAssumption ==
    /\ NoDate \notin Nat
    /\ \A hit \in Hits : hit.date \in Nat \cup {NoDate}
ASSUME NoPortAssumption == NoPort \notin Nat

VARIABLES
    stage,       \* where the search of this job is
    found,       \* all_hits
    searched,    \* how many queries have been run
    taken,       \* how many hits consolidate has walked
    order,       \* normalised URLs in the order they were first seen
    buckets,     \* normalised URL -> what is known of its document
    candidates   \* the result of the last consolidate

consolidationVars == <<stage, found, searched, taken, order, buckets, candidates>>

-----------------------------------------------------------------------------
(* URLs and dates.                                                         *)

\* path.rstrip("/"), except that the root stays as it is and "" becomes "/".
StripSlashes(path) ==
    IF path \in {<<>>, <<None>>} THEN <<None>>
    ELSE LET lasting == {0} \cup {n \in DOMAIN path : path[n] # None}
         IN  SubSeq(path, 1, CHOOSE n \in lasting : \A m \in lasting : m <= n)

\* :80 and :443 are dropped where they are the default; so is :0, which
\* `if port and` takes for no port.
KeptPort(url) ==
    IF \/ url.port = 0
       \/ url.scheme = "http" /\ url.port = 80
       \/ url.scheme = "https" /\ url.port = 443
    THEN NoPort ELSE url.port

HasHost(url) == url.scheme # None /\ url.host # None

\* urlparse's port raises ValueError; it is not read without scheme and host.
PortRaises(url) == HasHost(url) /\ url.port # NoPort /\ url.port > MaxPort

WithoutTracking(query) == SelectSeq(query, LAMBDA p : p \notin TrackingParams)

\* Mistake: the port is dropped whatever it is.
NormalizeUrlDropsPort(url) ==
    IF ~HasHost(url) THEN NoUrl
    ELSE [scheme |-> url.scheme, host |-> url.host, port |-> NoPort,
          path |-> StripSlashes(url.path), query |-> WithoutTracking(url.query)]

\* The URL is put together anew, with "" for url.params.  Scheme and host are
\* lower case, the fragment and a user name before the host are gone: what
\* url.written says of the original spelling is forgotten.
NormalizeUrl(url) ==
    IF ~HasHost(url) THEN NoUrl
    ELSE [scheme |-> url.scheme, host |-> url.host, port |-> KeptPort(url),
          path |-> StripSlashes(url.path), query |-> WithoutTracking(url.query)]

TooLong(normal) == Len(normal.path) > MaxUrlLength

ClassifyDate(date) ==
    IF date = NoDate THEN "unknown"
    ELSE IF date > CriticalDate THEN "after_critical_date"
    ELSE "verified"

\* Mistake: Exa's cutoff is trusted.
UsableWhateverTheDate(hit) ==
    NormalizeUrl(hit.url) # NoUrl /\ ~TooLong(NormalizeUrl(hit.url))

\* What the walk does not skip.
Usable(hit) ==
    /\ NormalizeUrl(hit.url) # NoUrl
    /\ ~TooLong(NormalizeUrl(hit.url))
    /\ ClassifyDate(hit.date) # "after_critical_date"

FallbackTitle(hit) == IF hit.title = NoTitle THEN NormalizeUrl(hit.url) ELSE hit.title

-----------------------------------------------------------------------------
(* The search loop around consolidate.                                     *)

Queries == 1..NumQueries

NormalUrls == {NormalizeUrl(hit.url) : hit \in Hits}
Titles == {hit.title : hit \in Hits} \cup NormalUrls
Dates == {hit.date : hit \in Hits}

ConsolidationTypeOK ==
    /\ stage \in {"searching", "searched", "walking", "raised", "decided", "published"}
    /\ found \in Seq([query : Queries, hit : Hits])
    /\ searched \in 0..NumQueries
    /\ taken \in 0..Len(found)
    /\ order \in Seq(NormalUrls)
    /\ DOMAIN buckets \subseteq NormalUrls
    /\ \A url \in DOMAIN buckets :
         buckets[url] \in [title : Titles, date : Dates, queries : Seq(Queries)]
    /\ candidates \in Seq([url : NormalUrls, title : Titles, date : Dates,
                            dateCheck : {"verified", "unknown"}, queries : Seq(Queries)])

ConsolidationInit ==
    /\ stage = "searching"
    /\ found = <<>>
    /\ searched = 0
    /\ taken = 0
    /\ order = <<>>
    /\ buckets = <<>>
    /\ candidates = <<>>

Tagged(q, hits) == [n \in DOMAIN hits |-> [query |-> q, hit |-> hits[n]]]

\* run_search_pass returns the next query's hits: they follow those of the
\* queries before it, whichever search ended first.
Gather(hits) ==
    /\ stage \in {"searching", "searched", "decided"}
    /\ searched < NumQueries
    /\ searched' = searched + 1
    /\ found' = found \o Tagged(searched', hits)
    /\ stage' = "searched"
    /\ UNCHANGED <<taken, order, buckets, candidates>>

\* Mistake: the order of the last pass is not cleared.
StartWalkWithOldOrder ==
    /\ stage = "searched"
    /\ stage' = "walking"
    /\ taken' = 0
    /\ buckets' = <<>>
    /\ UNCHANGED <<found, searched, order, candidates>>

\* consolidate starts anew on everything found so far.
StartWalk ==
    /\ stage = "searched"
    /\ stage' = "walking"
    /\ taken' = 0
    /\ order' = <<>>
    /\ buckets' = <<>>
    /\ UNCHANGED <<found, searched, candidates>>

Hit == found[taken + 1].hit
Query == found[taken + 1].query
Url == NormalizeUrl(Hit.url)

Walk == stage = "walking" /\ taken < Len(found)

walkFrame == <<stage, found, searched, candidates>>

\* consolidate raises, and run_search_loop with it: nothing is published.
HitRaises ==
    /\ Walk
    /\ PortRaises(Hit.url)
    /\ stage' = "raised"
    /\ UNCHANGED <<found, searched, taken, order, buckets, candidates>>

SkipHit ==
    /\ Walk
    /\ ~PortRaises(Hit.url)
    /\ ~Usable(Hit)
    /\ taken' = taken + 1
    /\ UNCHANGED <<walkFrame, order, buckets>>

NewBucket ==
    [title |-> FallbackTitle(Hit), date |-> Hit.date, queries |-> <<Query>>]

OpenBucket ==
    /\ Walk
    /\ Usable(Hit) /\ ~PortRaises(Hit.url)
    /\ Url \notin DOMAIN buckets
    /\ taken' = taken + 1
    /\ order' = Append(order, Url)
    /\ buckets' = [u \in DOMAIN buckets \cup {Url} |->
                     IF u = Url THEN NewBucket ELSE buckets[u]]
    /\ UNCHANGED walkFrame

\* Mistake: the last dated hit decides on the date.
MergedLastDateWins(bucket) ==
    [bucket EXCEPT
       !.queries = IF \E n \in DOMAIN @ : @[n] = Query THEN @ ELSE Append(@, Query),
       !.date = IF Hit.date # NoDate THEN Hit.date ELSE @]

\* Mistake: a query is listed once for each of its hits.
MergedRepeatsQuery(bucket) ==
    [bucket EXCEPT !.queries = Append(@, Query),
                   !.date = IF @ = NoDate THEN Hit.date ELSE @]

\* Mistake: a hit without a date takes the date away.
MergedForgetsDate(bucket) ==
    [bucket EXCEPT
       !.queries = IF \E n \in DOMAIN @ : @[n] = Query THEN @ ELSE Append(@, Query),
       !.date = Hit.date]

\* The query joins the provenance once; the first date found is kept.
Merged(bucket) ==
    [bucket EXCEPT
       !.queries = IF \E n \in DOMAIN @ : @[n] = Query THEN @ ELSE Append(@, Query),
       !.date = IF @ = NoDate THEN Hit.date ELSE @]

MergeHit ==
    /\ Walk
    /\ Usable(Hit) /\ ~PortRaises(Hit.url)
    /\ Url \in DOMAIN buckets
    /\ taken' = taken + 1
    /\ buckets' = [buckets EXCEPT ![Url] = Merged(@)]
    /\ UNCHANGED <<walkFrame, order>>

Take(s, n) == SubSeq(s, 1, IF Len(s) < n THEN Len(s) ELSE n)

Candidate(url) ==
    [url |-> url, title |-> buckets[url].title, date |-> buckets[url].date,
     dateCheck |-> ClassifyDate(buckets[url].date),
     queries |-> Take(buckets[url].queries, MaxTotalQueries)]

\* Mistake: the documents seen last are kept.
BuildLatestCandidates ==
    /\ stage = "walking"
    /\ taken = Len(found)
    /\ stage' = "decided"
    /\ candidates' = [n \in 1..Len(Take(order, MaxCandidates)) |->
                        Candidate(order[Len(order) + 1 - n])]
    /\ UNCHANGED <<found, searched, taken, order, buckets>>

\* The first MaxCandidates documents, in the order they were first seen.
BuildCandidates ==
    /\ stage = "walking"
    /\ taken = Len(found)
    /\ stage' = "decided"
    /\ candidates' = [n \in 1..Len(Take(order, MaxCandidates)) |-> Candidate(order[n])]
    /\ UNCHANGED <<found, searched, taken, order, buckets>>

\* A ceiling is reached or Claude finishes: the batch goes out.
Publish ==
    /\ stage = "decided"
    /\ stage' = "published"
    /\ UNCHANGED <<found, searched, taken, order, buckets, candidates>>

ConsolidationNext ==
    \/ \E n \in 0..MaxHits : \E hits \in [1..n -> Hits] : Gather(hits)
    \/ StartWalk \/ HitRaises \/ SkipHit \/ OpenBucket \/ MergeHit
    \/ BuildCandidates \/ Publish

ConsolidationSpec == ConsolidationInit /\ [][ConsolidationNext]_consolidationVars

-----------------------------------------------------------------------------
(* Properties.                                                             *)

Decided == stage \in {"decided", "published"}

UrlOf(n) == NormalizeUrl(found[n].hit.url)
UsableHits == {n \in DOMAIN found : Usable(found[n].hit)}
Mentions(url) == {n \in UsableHits : UrlOf(n) = url}
DatedMentions(url) == {n \in Mentions(url) : found[n].hit.date # NoDate}
First(S) == CHOOSE n \in S : \A m \in S : n <= m

\* The candidates are the documents mentioned first, in that order, and none is
\* left out while there is room (consolidate's order and final size cap).
CandidatesAreFirstFound ==
    Decided =>
      /\ Len(candidates) <= MaxCandidates
      /\ \A n \in DOMAIN candidates : Mentions(candidates[n].url) # {}
      /\ \A n, m \in DOMAIN candidates :
           n < m => First(Mentions(candidates[n].url)) < First(Mentions(candidates[m].url))
      /\ \A i \in UsableHits :
           \/ \E n \in DOMAIN candidates : candidates[n].url = UrlOf(i)
           \/ /\ Len(candidates) = MaxCandidates
              /\ \A n \in DOMAIN candidates : First(Mentions(candidates[n].url)) < i

\* A candidate says of its document what all usable hits together say: the
\* first title, the first date any of them has, whichever came first, and
\* every query that found it, once (the merging in consolidate).
HitsAreMerged ==
    Decided => \A n \in DOMAIN candidates :
      LET c == candidates[n] IN
      /\ c.title = FallbackTitle(found[First(Mentions(c.url))].hit)
      /\ c.date = IF DatedMentions(c.url) = {} THEN NoDate
                  ELSE found[First(DatedMentions(c.url))].hit.date
      /\ {c.queries[k] : k \in DOMAIN c.queries} = {found[i].query : i \in Mentions(c.url)}
      /\ \A k, l \in DOMAIN c.queries : c.queries[k] = c.queries[l] => k = l

\* When two raw URLs lead to the same document, whatever the code makes of
\* them: the default port may be written, slashes may trail, tracking parameters
\* may follow, but another port, path, ;params or query is another document.
\* "//" is not "/" with a slash trailing.
PortOf(url) ==
    CASE url.port # NoPort -> url.port
      [] url.port = NoPort /\ url.scheme = "http" -> 80
      [] url.port = NoPort /\ url.scheme = "https" -> 443
      [] OTHER -> NoPort

SamePath(p, q) ==
    LET bare(s) == {n \in DOMAIN s : \E m \in DOMAIN s : n <= m /\ s[m] # None}
    IN  /\ bare(p) = bare(q) /\ \A n \in bare(p) : p[n] = q[n]
        /\ bare(p) = {} => (Len(p) <= 1 <=> Len(q) <= 1)

SameDocument(url1, url2) ==
    /\ url1.scheme = url2.scheme /\ url1.host = url2.host
    /\ PortOf(url1) = PortOf(url2)
    /\ SamePath(url1.path, url2.path)
    /\ url1.params = url2.params
    /\ WithoutTracking(url1.query) = WithoutTracking(url2.query)

\* What normalize_url loses of a document's address: its ;params and a port
\* written :0.  Its docstring announces neither.
Blurred(url) ==
    [scheme |-> url.scheme, host |-> url.host,
     port |-> IF url.port = 0 THEN NoPort ELSE url.port,
     path |-> url.path, params |-> None, query |-> url.query]

\* All usable hits of one document are in one candidate, and a candidate mixes
\* documents only if nothing but ;params or :0 tells their URLs apart; those it
\* does mix, so that only the first of them can be cited (normalize_url).
EachDocumentOnce ==
    Decided => \A n \in DOMAIN candidates : \A i \in Mentions(candidates[n].url) :
      \A k \in UsableHits :
        LET one == found[i].hit.url other == found[k].hit.url IN
        k \in Mentions(candidates[n].url) <=> SameDocument(Blurred(one), Blurred(other))

\* Later passes add to what Claude was shown and never take it back or move
\* it: places and titles stay, provenance grows, and a date is only filled in
\* (run_search_loop consolidates all hits again after every pass).
CandidatesOnlyGrow ==
    [][\A n \in DOMAIN candidates :
         /\ n \in DOMAIN candidates'
         /\ candidates'[n].url = candidates[n].url
         /\ candidates'[n].title = candidates[n].title
         /\ candidates[n].date # NoDate => candidates'[n].date = candidates[n].date
         /\ \A k \in DOMAIN candidates[n].queries :
              /\ k \in DOMAIN candidates'[n].queries
              /\ candidates'[n].queries[k] = candidates[n].queries[k]
      ]_consolidationVars

=============================================================================
