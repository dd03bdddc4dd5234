------------------------ MODULE Consolidation_proofs ------------------------
(***************************************************************************)
(* The candidates of a batch are what a look at all hits at once says they *)
(* should be, for any hits and any bounds.                                 *)
(*                                                                         *)
(* consolidate walks the hits one by one.  The invariant says what order   *)
(* and buckets mean after t of them (WalkedUpTo), in terms of the set of   *)
(* hits among the first t that mention a document (Seen).  Each step of    *)
(* the walk adds at most one element, larger than all others, to at most   *)
(* one of these sets, so a first mention stays the first.                  *)
(***************************************************************************)
EXTENDS Consolidation, TLAPS, SequenceTheorems, FiniteSetTheorems, WellFoundedInduction

HitList == Seq([query : Queries, hit : Hits])

Key(f, n) == NormalizeUrl(f[n].hit.url)
Seen(f, t, url) == {n \in 1..t : Usable(f[n].hit) /\ Key(f, n) = url}
Dated(f, t, url) == {n \in Seen(f, t, url) : f[n].hit.date # NoDate}
Foremost(n, S) == n \in S /\ \A m \in S : n <= m

\* order and the domain of the buckets, after t hits of f.
OrderedUpTo(f, t, o, b) ==
    /\ o \in Seq(NormalUrls)
    /\ DOMAIN b = {o[k] : k \in 1..Len(o)}
    /\ \A n \in 1..t : Usable(f[n].hit) => Key(f, n) \in DOMAIN b
    /\ \A k, l \in 1..Len(o) :
         k < l => \E n \in Seen(f, t, o[k]) : \A m \in Seen(f, t, o[l]) : n < m

Bucket == [title : Titles, date : Dates, queries : Seq(Queries)]

ListsOnce(queries) ==
    \A k, l \in 1..Len(queries) : queries[k] = queries[l] => k = l

\* A bucket, after t hits of f.
MergedUpTo(f, t, url, bucket) ==
    /\ bucket \in Bucket
    /\ \E n \in 1..t : Foremost(n, Seen(f, t, url)) /\ bucket.title = FallbackTitle(f[n].hit)
    /\ \/ bucket.date = NoDate /\ Dated(f, t, url) = {}
       \/ \E n \in 1..t : Foremost(n, Dated(f, t, url)) /\ bucket.date = f[n].hit.date
    /\ {bucket.queries[k] : k \in 1..Len(bucket.queries)} = {f[i].query : i \in Seen(f, t, url)}
    /\ ListsOnce(bucket.queries)

WalkedUpTo(f, t, o, b) ==
    /\ OrderedUpTo(f, t, o, b)
    /\ \A url \in DOMAIN b : MergedUpTo(f, t, url, b[url])

Walked == stage \in {"walking", "decided", "published"}

HitsAreTagged == \A n \in 1..Len(found) : found[n].query <= searched

ConsolidationInv ==
    /\ ConsolidationTypeOK
    /\ HitsAreTagged
    /\ Walked => WalkedUpTo(found, taken, order, buckets)
    /\ Decided => /\ taken = Len(found)
                  /\ candidates = [n \in 1..Len(Take(order, MaxCandidates)) |-> Candidate(order[n])]

-----------------------------------------------------------------------------
(* The sets of mentions along the walk.                                    *)

\* A usable hit joins the mentions of its own document and no others; a hit
\* that is skipped joins none.
LEMMA SeenGrows ==
    ASSUME NEW f, NEW t \in Nat, NEW url
    PROVE  /\ ~(Usable(f[t + 1].hit) /\ Key(f, t + 1) = url)
                => /\ Seen(f, t + 1, url) = Seen(f, t, url)
                   /\ Dated(f, t + 1, url) = Dated(f, t, url)
           /\ Usable(f[t + 1].hit) /\ Key(f, t + 1) = url
                => /\ Seen(f, t + 1, url) = Seen(f, t, url) \cup {t + 1}
                   /\ Dated(f, t + 1, url)
                        = IF f[t + 1].hit.date # NoDate
                          THEN Dated(f, t, url) \cup {t + 1} ELSE Dated(f, t, url)
<1>1. 1..(t + 1) = (1..t) \cup {t + 1}
  OBVIOUS
<1> QED
  BY <1>1 DEF Seen, Dated

\* Whatever is seen lies within the first t hits.
LEMMA SeenIsPast ==
    ASSUME NEW f, NEW t \in Nat, NEW url
    PROVE  /\ Seen(f, t, url) \subseteq 1..t
           /\ Dated(f, t, url) \subseteq Seen(f, t, url)
BY DEF Seen, Dated

\* A bucket of another document, and every bucket when a hit is skipped, is
\* left alone.
LEMMA OthersStayMerged ==
    ASSUME NEW f, NEW t \in Nat, NEW url, NEW bucket,
           ~(Usable(f[t + 1].hit) /\ Key(f, t + 1) = url), MergedUpTo(f, t, url, bucket)
    PROVE  MergedUpTo(f, t + 1, url, bucket)
<1>1. 1..t \subseteq 1..(t + 1)
  OBVIOUS
<1> QED
  BY <1>1, SeenGrows DEF MergedUpTo

LEMMA SkippingKeepsTheWalk ==
    ASSUME NEW f, NEW t \in Nat, NEW o, NEW b,
           WalkedUpTo(f, t, o, b), ~Usable(f[t + 1].hit)
    PROVE  WalkedUpTo(f, t + 1, o, b)
<1>1. \A url : Seen(f, t + 1, url) = Seen(f, t, url)
  BY SeenGrows
<1>2. OrderedUpTo(f, t + 1, o, b)
  <2>1. \A n \in 1..(t + 1) : Usable(f[n].hit) => n \in 1..t
    <3>1. \A n \in 1..(t + 1) : n \in 1..t \/ n = t + 1
      OBVIOUS
    <3> QED
      BY <3>1
  <2> QED
    BY <1>1, <2>1 DEF OrderedUpTo, WalkedUpTo
<1>3. \A url \in DOMAIN b : MergedUpTo(f, t + 1, url, b[url])
  BY OthersStayMerged DEF WalkedUpTo
<1> QED
  BY <1>2, <1>3 DEF WalkedUpTo

\* Every document in the order has been mentioned.
LEMMA OrderedAreSeen ==
    ASSUME NEW f, NEW t \in Nat, NEW o, NEW b, WalkedUpTo(f, t, o, b), NEW k \in 1..Len(o)
    PROVE  \E n \in 1..t : Foremost(n, Seen(f, t, o[k]))
BY DEF WalkedUpTo, OrderedUpTo, MergedUpTo

LEMMA OpeningKeepsTheWalk ==
    ASSUME NEW f \in HitList, NEW t \in Nat, t < Len(f), NEW o, NEW b,
           WalkedUpTo(f, t, o, b), Usable(f[t + 1].hit), Key(f, t + 1) \notin DOMAIN b
    PROVE  LET url == Key(f, t + 1)
               bucket == [title |-> FallbackTitle(f[t + 1].hit), date |-> f[t + 1].hit.date,
                          queries |-> <<f[t + 1].query>>]
           IN  WalkedUpTo(f, t + 1, Append(o, url),
                          [u \in DOMAIN b \cup {url} |-> IF u = url THEN bucket ELSE b[u]])
<1> DEFINE url == Key(f, t + 1)
           hit == f[t + 1].hit
           bucket == [title |-> FallbackTitle(hit), date |-> hit.date,
                      queries |-> <<f[t + 1].query>>]
           o2 == Append(o, url)
           b2 == [u \in DOMAIN b \cup {url} |-> IF u = url THEN bucket ELSE b[u]]
<1>1. f[t + 1] \in [query : Queries, hit : Hits]
  <2>1. t + 1 \in 1..Len(f)
    BY LenProperties DEF HitList
  <2> QED
    BY <2>1, ElementOfSeq DEF HitList
<1>2. url \in NormalUrls /\ FallbackTitle(hit) \in Titles /\ hit.date \in Dates
  BY <1>1 DEF Key, NormalUrls, Titles, Dates, FallbackTitle
<1>3. Seen(f, t, url) = {}
  BY DEF Seen, WalkedUpTo, OrderedUpTo
<1>4. /\ Seen(f, t + 1, url) = {t + 1}
      /\ Dated(f, t + 1, url) = IF hit.date # NoDate THEN {t + 1} ELSE {}
  <2>1. Seen(f, t + 1, url) = Seen(f, t, url) \cup {t + 1}
    BY SeenGrows
  <2>2. Seen(f, t + 1, url) = {t + 1}
    BY <1>3, <2>1
  <2> QED
    BY <2>2 DEF Dated
<1>5. \A u : u # url => /\ Seen(f, t + 1, u) = Seen(f, t, u)
                        /\ Dated(f, t + 1, u) = Dated(f, t, u)
  BY SeenGrows
<1>6. o \in Seq(NormalUrls) /\ Len(o) \in Nat
  BY LenProperties DEF WalkedUpTo, OrderedUpTo
<1>7. /\ o2 \in Seq(NormalUrls) /\ Len(o2) = Len(o) + 1
      /\ \A k \in 1..Len(o) : o2[k] = o[k]
      /\ o2[Len(o) + 1] = url
  BY <1>2, <1>6
<1>8. \A k \in 1..Len(o) : o[k] # url
  BY DEF WalkedUpTo, OrderedUpTo
<1>9. OrderedUpTo(f, t + 1, o2, b2)
  <2>1. DOMAIN b2 = {o2[k] : k \in 1..Len(o2)}
    <3>1. DOMAIN b2 = DOMAIN b \cup {url}
      OBVIOUS
    <3>2. 1..Len(o2) = (1..Len(o)) \cup {Len(o) + 1}
      BY <1>6, <1>7
    <3>3. {o2[k] : k \in 1..Len(o2)} = {o[k] : k \in 1..Len(o)} \cup {url}
      BY <3>2, <1>7
    <3> QED
      BY <3>1, <3>3 DEF WalkedUpTo, OrderedUpTo
  <2>2. \A n \in 1..(t + 1) : Usable(f[n].hit) => Key(f, n) \in DOMAIN b2
    <3>1. \A n \in 1..(t + 1) : n \in 1..t \/ n = t + 1
      OBVIOUS
    <3>2. \A n \in 1..t : Usable(f[n].hit) => Key(f, n) \in DOMAIN b
      BY DEF WalkedUpTo, OrderedUpTo
    <3> QED
      BY <3>1, <3>2
  <2>3. ASSUME NEW k \in 1..Len(o2), NEW l \in 1..Len(o2), k < l
        PROVE  \E n \in Seen(f, t + 1, o2[k]) : \A m \in Seen(f, t + 1, o2[l]) : n < m
    <3>1. k \in 1..Len(o) /\ o2[k] = o[k] /\ Seen(f, t + 1, o2[k]) = Seen(f, t, o[k])
      BY <2>3, <1>5, <1>6, <1>7, <1>8
    <3>2. CASE l = Len(o) + 1
      <4>1. PICK n \in 1..t : n \in Seen(f, t, o[k])
        BY <3>1, OrderedAreSeen DEF Foremost
      <4> QED
        BY <3>1, <3>2, <4>1, <1>4, <1>7
    <3>3. CASE l \in 1..Len(o)
      <4>1. o2[l] = o[l] /\ Seen(f, t + 1, o2[l]) = Seen(f, t, o[l])
        BY <3>3, <1>5, <1>7, <1>8
      <4> QED
        BY <2>3, <3>1, <3>3, <4>1 DEF WalkedUpTo, OrderedUpTo
    <3>4. l = Len(o) + 1 \/ l \in 1..Len(o)
      BY <1>6, <1>7
    <3> QED
      BY <3>2, <3>3, <3>4
  <2> QED
    BY <1>7, <2>1, <2>2, <2>3 DEF OrderedUpTo
<1>10. ASSUME NEW u \in DOMAIN b2
       PROVE  MergedUpTo(f, t + 1, u, b2[u])
  <2>1. CASE u = url
    <3>1. b2[u] = bucket
      BY <2>1
    <3>2. bucket \in Bucket
      BY <1>1, <1>2 DEF Bucket
    <3>3. t + 1 \in 1..(t + 1) /\ Foremost(t + 1, Seen(f, t + 1, url))
      BY <1>4 DEF Foremost
    <3>4. \/ bucket.date = NoDate /\ Dated(f, t + 1, url) = {}
          \/ Foremost(t + 1, Dated(f, t + 1, url)) /\ bucket.date = hit.date
      BY <1>4 DEF Foremost
    <3>5. /\ Len(bucket.queries) = 1 /\ bucket.queries[1] = f[t + 1].query
      OBVIOUS
    <3>6. {bucket.queries[k] : k \in 1..Len(bucket.queries)}
            = {f[i].query : i \in Seen(f, t + 1, url)}
      BY <1>4, <3>5
    <3>7. ListsOnce(bucket.queries)
      BY <3>5 DEF ListsOnce
    <3> QED
      BY <2>1, <3>1, <3>2, <3>3, <3>4, <3>6, <3>7 DEF MergedUpTo
  <2>2. CASE u # url
    <3>1. u \in DOMAIN b /\ b2[u] = b[u]
      BY <2>2
    <3> QED
      BY <2>2, <3>1, OthersStayMerged DEF WalkedUpTo
  <2> QED
    BY <2>1, <2>2
<1> QED
  BY <1>9, <1>10 DEF WalkedUpTo

\* The hit at hand joins its bucket.
LEMMA MergedBucketStaysMerged ==
    ASSUME found \in HitList, taken \in Nat, taken < Len(found), Usable(Hit),
           NEW bucket, MergedUpTo(found, taken, Url, bucket)
    PROVE  MergedUpTo(found, taken + 1, Url, Merged(bucket))
<1> DEFINE seen == Seen(found, taken, Url)
           dated == Dated(found, taken, Url)
           qs == bucket.queries
           merged == Merged(bucket)
           known == \E n \in DOMAIN qs : qs[n] = Query
<1>1. found[taken + 1] \in [query : Queries, hit : Hits]
  <2>1. taken + 1 \in 1..Len(found)
    BY LenProperties DEF HitList
  <2> QED
    BY <2>1, ElementOfSeq DEF HitList
<1>2. Query \in Queries /\ Hit \in Hits /\ Hit.date \in Dates
  BY <1>1 DEF Query, Hit, Dates
<1>3. bucket \in Bucket /\ qs \in Seq(Queries) /\ DOMAIN qs = 1..Len(qs) /\ Len(qs) \in Nat
  <2>1. bucket \in Bucket /\ qs \in Seq(Queries)
    BY DEF MergedUpTo, Bucket
  <2> QED
    BY <2>1, LenProperties
<1>4. /\ Seen(found, taken + 1, Url) = seen \cup {taken + 1}
      /\ Dated(found, taken + 1, Url) = IF Hit.date # NoDate THEN dated \cup {taken + 1} ELSE dated
  BY SeenGrows DEF Url, Hit, Key
<1>5. seen \subseteq 1..taken /\ dated \subseteq seen
  BY SeenIsPast
<1>6. 1..taken \subseteq 1..(taken + 1) /\ taken + 1 \in 1..(taken + 1)
  OBVIOUS
<1>7. /\ merged.title = bucket.title
      /\ merged.date = IF bucket.date = NoDate THEN Hit.date ELSE bucket.date
      /\ merged.queries = IF known THEN qs ELSE Append(qs, Query)
      /\ merged = [title |-> merged.title, date |-> merged.date, queries |-> merged.queries]
  <2>1. bucket = [title |-> bucket.title, date |-> bucket.date, queries |-> qs]
    BY <1>3 DEF Bucket
  <2>2. merged = [[bucket EXCEPT !.queries = IF known THEN qs ELSE Append(qs, Query)]
                     EXCEPT !.date = IF bucket.date = NoDate THEN Hit.date ELSE bucket.date]
    BY <2>1 DEF Merged
  <2>3. merged = [title |-> bucket.title,
                  date |-> IF bucket.date = NoDate THEN Hit.date ELSE bucket.date,
                  queries |-> IF known THEN qs ELSE Append(qs, Query)]
    BY <2>1, <2>2
  <2> HIDE DEF merged
  <2> QED
    BY <2>3
<1>8. \E n \in 1..(taken + 1) :
         /\ Foremost(n, Seen(found, taken + 1, Url))
         /\ merged.title = FallbackTitle(found[n].hit)
  <2>1. PICK n \in 1..taken : Foremost(n, seen) /\ bucket.title = FallbackTitle(found[n].hit)
    BY DEF MergedUpTo
  <2> QED
    BY <2>1, <1>4, <1>6, <1>7 DEF Foremost
<1>9. \/ merged.date = NoDate /\ Dated(found, taken + 1, Url) = {}
      \/ \E n \in 1..(taken + 1) :
            Foremost(n, Dated(found, taken + 1, Url)) /\ merged.date = found[n].hit.date
  <2>1. CASE bucket.date = NoDate /\ dated = {}
    <3>1. CASE Hit.date = NoDate
      BY <2>1, <3>1, <1>4, <1>7
    <3>2. CASE Hit.date # NoDate
      <4>1. Dated(found, taken + 1, Url) = {taken + 1}
        BY <2>1, <3>2, <1>4
      <4>2. Foremost(taken + 1, Dated(found, taken + 1, Url))
        BY <4>1 DEF Foremost
      <4> QED
        BY <2>1, <4>2, <1>6, <1>7 DEF Hit
    <3> QED
      BY <3>1, <3>2
  <2>2. CASE \E n \in 1..taken : Foremost(n, dated) /\ bucket.date = found[n].hit.date
    <3>1. PICK n \in 1..taken : Foremost(n, dated) /\ bucket.date = found[n].hit.date
      BY <2>2
    <3>2. merged.date = found[n].hit.date
      BY <3>1, <1>7 DEF Foremost, Dated
    <3>3. Foremost(n, Dated(found, taken + 1, Url))
      BY <3>1, <1>4 DEF Foremost
    <3> QED
      BY <3>2, <3>3, <1>6
  <2> QED
    BY <2>1, <2>2 DEF MergedUpTo
<1>10. {qs[k] : k \in 1..Len(qs)} = {found[i].query : i \in seen} /\ ListsOnce(qs)
  BY DEF MergedUpTo
<1>11. {found[i].query : i \in Seen(found, taken + 1, Url)}
         = {found[i].query : i \in seen} \cup {Query}
  BY <1>4 DEF Query
<1>12. /\ merged.queries \in Seq(Queries)
       /\ {merged.queries[k] : k \in 1..Len(merged.queries)}
            = {found[i].query : i \in Seen(found, taken + 1, Url)}
       /\ ListsOnce(merged.queries)
  <2>1. CASE known
    <3>1. Query \in {qs[k] : k \in 1..Len(qs)}
      BY <2>1, <1>3
    <3> QED
      BY <2>1, <3>1, <1>3, <1>7, <1>10, <1>11
  <2>2. CASE ~known
    <3> DEFINE qs2 == Append(qs, Query)
    <3>1. /\ qs2 \in Seq(Queries) /\ Len(qs2) = Len(qs) + 1
          /\ \A k \in 1..Len(qs) : qs2[k] = qs[k]
          /\ qs2[Len(qs) + 1] = Query
      BY <1>2, <1>3
    <3>2. 1..Len(qs2) = (1..Len(qs)) \cup {Len(qs) + 1}
      BY <1>3, <3>1
    <3>3. {qs2[k] : k \in 1..Len(qs2)} = {qs[k] : k \in 1..Len(qs)} \cup {Query}
      BY <3>1, <3>2
    <3>4. \A k \in 1..Len(qs) : qs2[k] # Query
      BY <2>2, <1>3, <3>1
    <3>5. ListsOnce(qs2)
      <4>1. \A k, l \in 1..Len(qs) : qs2[k] = qs2[l] => k = l
        BY <3>1, <1>10 DEF ListsOnce
      <4> HIDE DEF qs2
      <4> QED
        BY <4>1, <3>1, <3>2, <3>4 DEF ListsOnce
    <3>6. merged.queries = qs2
      BY <2>2, <1>7
    <3> HIDE DEF qs2, merged
    <3>7. {qs2[k] : k \in 1..Len(qs2)} = {found[i].query : i \in Seen(found, taken + 1, Url)}
      BY <3>3, <1>10, <1>11
    <3> QED
      BY <3>1, <3>5, <3>6, <3>7
  <2> QED
    BY <2>1, <2>2
<1>13. merged \in Bucket
  <2>1. bucket.title \in Titles /\ bucket.date \in Dates
    BY <1>3 DEF Bucket
  <2>2. merged.title \in Titles /\ merged.date \in Dates
    BY <2>1, <1>2, <1>7
  <2> QED
    BY <2>2, <1>7, <1>12 DEF Bucket
<1> QED
  BY <1>8, <1>9, <1>12, <1>13 DEF MergedUpTo

LEMMA MergingKeepsTheWalk ==
    ASSUME found \in HitList, taken \in Nat, taken < Len(found),
           WalkedUpTo(found, taken, order, buckets), Usable(Hit), Url \in DOMAIN buckets
    PROVE  WalkedUpTo(found, taken + 1, order, [buckets EXCEPT ![Url] = Merged(@)])
<1> DEFINE b2 == [buckets EXCEPT ![Url] = Merged(@)]
<1>1. /\ DOMAIN b2 = DOMAIN buckets
      /\ b2[Url] = Merged(buckets[Url])
      /\ \A u \in DOMAIN buckets : u # Url => b2[u] = buckets[u]
  OBVIOUS
<1>2. \A u \in DOMAIN b2 : MergedUpTo(found, taken + 1, u, b2[u])
  <2> SUFFICES ASSUME NEW u \in DOMAIN b2
               PROVE  MergedUpTo(found, taken + 1, u, b2[u])
    OBVIOUS
  <2>1. MergedUpTo(found, taken, u, buckets[u])
    BY <1>1 DEF WalkedUpTo
  <2>2. CASE u = Url
    BY <2>1, <2>2, <1>1, MergedBucketStaysMerged
  <2>3. CASE u # Url
    BY <2>1, <2>3, <1>1, OthersStayMerged DEF Url, Hit, Key
  <2> QED
    BY <2>2, <2>3
<1>3. OrderedUpTo(found, taken + 1, order, b2)
  <2>1. \A n \in 1..(taken + 1) : n \in 1..taken \/ n = taken + 1
    OBVIOUS
  <2>2. \A n \in 1..(taken + 1) : Usable(found[n].hit) => Key(found, n) \in DOMAIN b2
    <3>1. \A n \in 1..taken : Usable(found[n].hit) => Key(found, n) \in DOMAIN buckets
      BY DEF WalkedUpTo, OrderedUpTo
    <3> QED
      BY <3>1, <2>1, <1>1 DEF Url, Hit, Key
  <2>3. ASSUME NEW k \in 1..Len(order), NEW l \in 1..Len(order), k < l
        PROVE  \E n \in Seen(found, taken + 1, order[k]) :
                 \A m \in Seen(found, taken + 1, order[l]) : n < m
    <3>1. PICK n \in Seen(found, taken, order[k]) :
              \A m \in Seen(found, taken, order[l]) : n < m
      BY <2>3 DEF WalkedUpTo, OrderedUpTo
    <3>2. n \in 1..taken
      BY SeenIsPast
    <3>3. \A u : /\ Seen(found, taken, u) \subseteq Seen(found, taken + 1, u)
                 /\ Seen(found, taken + 1, u) \subseteq Seen(found, taken, u) \cup {taken + 1}
      BY SeenGrows
    <3> QED
      BY <3>1, <3>2, <3>3
  <2> QED
    BY <2>2, <2>3, <1>1 DEF WalkedUpTo, OrderedUpTo
<1> QED
  BY <1>2, <1>3 DEF WalkedUpTo

-----------------------------------------------------------------------------
(* The invariant.                                                          *)

\* What a walk builds has the right types.
LEMMA WalkIsTyped ==
    ASSUME NEW f, NEW t \in Nat, NEW o, NEW b, WalkedUpTo(f, t, o, b)
    PROVE  /\ o \in Seq(NormalUrls)
           /\ DOMAIN b \subseteq NormalUrls
           /\ \A url \in DOMAIN b : b[url] \in Bucket
<1>1. o \in Seq(NormalUrls) /\ DOMAIN b = {o[k] : k \in 1..Len(o)}
  BY DEF WalkedUpTo, OrderedUpTo
<1>2. \A k \in 1..Len(o) : o[k] \in NormalUrls
  BY <1>1, ElementOfSeq
<1> QED
  BY <1>1, <1>2 DEF WalkedUpTo, MergedUpTo

LEMMA TakeProperties ==
    ASSUME NEW S, NEW s \in Seq(S), NEW n \in Nat
    PROVE  /\ Take(s, n) \in Seq(S)
           /\ Len(Take(s, n)) = IF Len(s) < n THEN Len(s) ELSE n
           /\ \A k \in 1..Len(Take(s, n)) : k \in 1..Len(s) /\ Take(s, n)[k] = s[k]
<1> DEFINE last == IF Len(s) < n THEN Len(s) ELSE n
<1>1. last \in Nat /\ last <= Len(s)
  BY LenProperties
<1>2. \A i \in 1..last : s[i] \in S
  BY <1>1, ElementOfSeq
<1>3. /\ SubSeq(s, 1, last) \in Seq(S)
      /\ Len(SubSeq(s, 1, last)) = IF 1 <= last THEN last - 1 + 1 ELSE 0
      /\ \A i \in 1..(last - 1 + 1) : SubSeq(s, 1, last)[i] = s[1 + i - 1]
  <2> HIDE DEF last
  <2> QED
    BY <1>1, <1>2, SubSeqProperties
<1>4. Take(s, n) = SubSeq(s, 1, last)
  BY DEF Take
<1> HIDE DEF last
<1>5. Len(Take(s, n)) = last
  BY <1>1, <1>3, <1>4
<1> QED
  BY <1>1, <1>3, <1>4, <1>5 DEF last

\* A candidate that is built has a date that does not rule it out.
LEMMA BuiltCandidatesAreTyped ==
    ASSUME ConsolidationTypeOK, WalkedUpTo(found, taken, order, buckets),
           NEW n \in 1..Len(order)
    PROVE  Candidate(order[n]) \in
             [url : NormalUrls, title : Titles, date : Dates,
              dateCheck : {"verified", "unknown"}, queries : Seq(Queries)]
<1> DEFINE url == order[n]
           bucket == buckets[url]
<1>1. taken \in Nat
  <2>1. Len(found) \in Nat
    BY LenProperties DEF ConsolidationTypeOK
  <2> QED
    BY <2>1 DEF ConsolidationTypeOK
<1>2. url \in DOMAIN buckets /\ url \in NormalUrls /\ bucket \in Bucket
  <2>1. url \in DOMAIN buckets
    BY DEF WalkedUpTo, OrderedUpTo
  <2> QED
    BY <2>1, <1>1, WalkIsTyped
<1>3. ClassifyDate(bucket.date) \in {"verified", "unknown"}
  <2>1. MergedUpTo(found, taken, url, bucket)
    BY <1>2 DEF WalkedUpTo
  <2>2. CASE bucket.date = NoDate
    BY <2>2 DEF ClassifyDate
  <2>3. CASE \E i \in 1..taken : /\ Foremost(i, Dated(found, taken, url))
                                /\ bucket.date = found[i].hit.date
    BY <2>3 DEF Foremost, Dated, Seen, Usable, ClassifyDate
  <2> QED
    BY <2>1, <2>2, <2>3 DEF MergedUpTo
<1>4. Take(bucket.queries, MaxTotalQueries) \in Seq(Queries)
  <2>1. bucket.queries \in Seq(Queries)
    BY <1>2 DEF Bucket
  <2> QED
    BY <2>1, TakeProperties, BoundsAssumption
<1>5. bucket.title \in Titles /\ bucket.date \in Dates
  BY <1>2 DEF Bucket
<1> QED
  BY <1>2, <1>3, <1>4, <1>5 DEF Candidate

LEMMA InitEstablishesConsolidationInv == ConsolidationInit => ConsolidationInv
<1> SUFFICES ASSUME ConsolidationInit PROVE ConsolidationInv
  OBVIOUS
<1>1. ConsolidationTypeOK
  <2>1. \A S : <<>> \in Seq(S)
    BY EmptySeq
  <2>2. Len(<<>>) = 0 /\ DOMAIN <<>> = {}
    BY EmptySeq
  <2> QED
    BY <2>1, <2>2, ConsolidationAssumption DEF ConsolidationInit, ConsolidationTypeOK
<1>2. HitsAreTagged
  BY EmptySeq DEF ConsolidationInit, HitsAreTagged
<1> QED
  BY <1>1, <1>2 DEF ConsolidationInit, ConsolidationInv, Walked, Decided

LEMMA ListIsSeq ==
    ASSUME NEW S, NEW n \in Nat, NEW list \in [1..n -> S]
    PROVE  list \in Seq(S) /\ Len(list) = n
OBVIOUS

LEMMA GatherKeepsTheInvariant ==
    ASSUME ConsolidationInv, NEW n \in 0..MaxHits, NEW hits \in [1..n -> Hits], Gather(hits)
    PROVE  ConsolidationInv'
<1> DEFINE new == Tagged(searched', hits)
<1>1. /\ found \in HitList /\ Len(found) \in Nat /\ taken \in 0..Len(found)
      /\ searched \in Nat /\ searched' \in Queries /\ searched' = searched + 1
      /\ searched' \in 0..NumQueries
  <2>1. found \in HitList /\ taken \in 0..Len(found) /\ searched \in 0..NumQueries
    BY DEF ConsolidationInv, ConsolidationTypeOK, HitList
  <2>2. Len(found) \in Nat
    BY <2>1, LenProperties DEF HitList
  <2> QED
    BY <2>1, <2>2, ConsolidationAssumption DEF Gather, Queries
<1>2. /\ new \in HitList /\ Len(new) = n
      /\ \A k \in 1..n : new[k].query = searched'
  <2>1. n \in Nat
    BY ConsolidationAssumption
  <2>2. new = [k \in 1..n |-> [query |-> searched', hit |-> hits[k]]]
    BY DEF Tagged
  <2>3. new \in [1..n -> [query : Queries, hit : Hits]]
    BY <1>1, <2>2
  <2>4. \A k \in 1..n : new[k].query = searched'
    BY <2>2
  <2> DEFINE R == [query : Queries, hit : Hits]
  <2>5. new \in Seq(R) /\ Len(new) = n
    <3>1. new \in [1..n -> R]
      BY <2>3
    <3> HIDE DEF new, R
    <3> QED
      BY <2>1, <3>1, ListIsSeq
  <2> QED
    BY <2>4, <2>5 DEF HitList
<1> HIDE DEF new
<1>3. /\ found' \in HitList
      /\ Len(found') = Len(found) + n
      /\ \A i \in 1..(Len(found) + n) :
           found'[i] = IF i <= Len(found) THEN found[i] ELSE new[i - Len(found)]
  <2>1. found' = found \o new
    BY DEF Gather, new
  <2> QED
    BY <2>1, <1>1, <1>2, ConcatProperties DEF HitList
<1>4. HitsAreTagged'
  <2> SUFFICES ASSUME NEW i \in 1..Len(found')
               PROVE  found'[i].query <= searched'
    BY DEF HitsAreTagged
  <2>1. n \in Nat
    BY ConsolidationAssumption
  <2>2. CASE i <= Len(found)
    <3>1. i \in 1..Len(found) /\ found'[i] = found[i]
      BY <2>1, <2>2, <1>1, <1>3
    <3>2. found[i].query <= searched
      BY <3>1 DEF ConsolidationInv, HitsAreTagged
    <3>3. found[i].query \in Nat
      <4>1. found[i] \in [query : Queries, hit : Hits]
        BY <3>1, <1>1, ElementOfSeq DEF HitList
      <4> QED
        BY <4>1 DEF Queries
    <3> QED
      BY <3>1, <3>2, <3>3, <1>1
  <2>3. CASE i > Len(found)
    <3>1. i - Len(found) \in 1..n /\ found'[i] = new[i - Len(found)]
      BY <2>1, <2>3, <1>1, <1>3
    <3> QED
      BY <3>1, <1>1, <1>2
  <2> QED
    BY <2>2, <2>3, <1>1
<1>5. ConsolidationTypeOK'
  <2>1. taken' \in 0..Len(found')
    BY <1>1, <1>3, ConsolidationAssumption DEF Gather
  <2>2. stage' = "searched" /\ order' = order /\ buckets' = buckets /\ candidates' = candidates
    BY DEF Gather
  <2> QED
    BY <1>1, <1>3, <2>1, <2>2 DEF ConsolidationInv, ConsolidationTypeOK, HitList
<1>6. ~Walked' /\ ~Decided'
  BY DEF Gather, Walked, Decided
<1> QED
  BY <1>4, <1>5, <1>6 DEF ConsolidationInv

\* Before the first hit nothing is in the buckets.
LEMMA EmptyWalk == ASSUME NEW f PROVE WalkedUpTo(f, 0, <<>>, <<>>)
<1>1. 1..0 = {} /\ Len(<<>>) = 0 /\ DOMAIN <<>> = {} /\ <<>> \in Seq(NormalUrls)
  BY EmptySeq
<1> QED
  BY <1>1 DEF WalkedUpTo, OrderedUpTo

\* A step of the walk keeps the types if what it leaves is a walk.
LEMMA WalkingKeepsTheTypes ==
    ASSUME ConsolidationTypeOK, Walk, UNCHANGED walkFrame, taken' = taken + 1,
           WalkedUpTo(found, taken + 1, order', buckets')
    PROVE  ConsolidationTypeOK'
<1>1. Len(found) \in Nat
  BY LenProperties DEF ConsolidationTypeOK
<1>2. taken \in Nat /\ taken' \in 0..Len(found)
  BY <1>1 DEF ConsolidationTypeOK, Walk
<1>3. /\ order' \in Seq(NormalUrls)
      /\ DOMAIN buckets' \subseteq NormalUrls
      /\ \A url \in DOMAIN buckets' : buckets'[url] \in Bucket
  <2>1. taken + 1 \in Nat
    BY <1>2
  <2> QED
    BY <2>1, WalkIsTyped
<1> QED
  BY <1>2, <1>3 DEF ConsolidationTypeOK, walkFrame, Bucket

LEMMA StepPreservesConsolidationInv ==
    ConsolidationInv /\ [ConsolidationNext]_consolidationVars => ConsolidationInv'
<1> SUFFICES ASSUME ConsolidationInv, [ConsolidationNext]_consolidationVars
             PROVE  ConsolidationInv'
  OBVIOUS
<1>a. /\ ConsolidationTypeOK /\ found \in HitList /\ Len(found) \in Nat
      /\ taken \in Nat /\ taken <= Len(found)
  <2>1. ConsolidationTypeOK /\ found \in HitList /\ taken \in 0..Len(found)
    BY DEF ConsolidationInv, ConsolidationTypeOK, HitList
  <2>2. Len(found) \in Nat
    BY <2>1, LenProperties DEF HitList
  <2> QED
    BY <2>1, <2>2
<1>1. CASE \E n \in 0..MaxHits : \E hits \in [1..n -> Hits] : Gather(hits)
  BY <1>1, GatherKeepsTheInvariant
<1>2. CASE StartWalk
  <2>1. WalkedUpTo(found, 0, <<>>, <<>>)
    BY EmptyWalk
  <2>2. ConsolidationTypeOK'
    BY <1>a, <1>2, EmptySeq DEF StartWalk, ConsolidationTypeOK
  <2> QED
    BY <1>2, <2>1, <2>2 DEF StartWalk, ConsolidationInv, HitsAreTagged, Walked, Decided
<1>3. CASE HitRaises
  BY <1>3 DEF HitRaises, ConsolidationInv, ConsolidationTypeOK, HitsAreTagged, Walked, Decided
<1>b. ASSUME Walk, UNCHANGED walkFrame, taken' = taken + 1,
             WalkedUpTo(found, taken + 1, order', buckets')
      PROVE  ConsolidationInv'
  <2>1. ConsolidationTypeOK'
    BY <1>a, <1>b, WalkingKeepsTheTypes
  <2> QED
    BY <1>b, <2>1 DEF Walk, walkFrame, ConsolidationInv, HitsAreTagged, Walked, Decided
<1>c. Walk => taken < Len(found) /\ WalkedUpTo(found, taken, order, buckets)
  BY DEF Walk, ConsolidationInv, Walked
<1>4. CASE SkipHit
  <2>1. WalkedUpTo(found, taken + 1, order', buckets')
    BY <1>4, <1>a, <1>c, SkippingKeepsTheWalk DEF SkipHit, Hit
  <2> QED
    BY <1>4, <1>b, <2>1 DEF SkipHit
<1>5. CASE OpenBucket
  <2>1. WalkedUpTo(found, taken + 1, order', buckets')
    BY <1>5, <1>a, <1>c, OpeningKeepsTheWalk DEF OpenBucket, NewBucket, Hit, Url, Query, Key
  <2> QED
    BY <1>5, <1>b, <2>1 DEF OpenBucket
<1>6. CASE MergeHit
  <2>1. WalkedUpTo(found, taken + 1, order', buckets')
    BY <1>6, <1>a, <1>c, MergingKeepsTheWalk DEF MergeHit
  <2> QED
    BY <1>6, <1>b, <2>1 DEF MergeHit
<1>7. CASE BuildCandidates
  <2> DEFINE CandidateType ==
               [url : NormalUrls, title : Titles, date : Dates,
                dateCheck : {"verified", "unknown"}, queries : Seq(Queries)]
             len == Len(Take(order, MaxCandidates))
  <2>1. WalkedUpTo(found, taken, order, buckets)
    BY <1>7 DEF BuildCandidates, ConsolidationInv, Walked
  <2>2. len \in Nat /\ \A n \in 1..len : n \in 1..Len(order)
    <3>1. order \in Seq(NormalUrls) /\ MaxCandidates \in Nat
      BY <1>a, BoundsAssumption DEF ConsolidationTypeOK
    <3> QED
      BY <3>1, TakeProperties, LenProperties
  <2>3. \A n \in 1..len : Candidate(order[n]) \in CandidateType
    BY <1>a, <2>1, <2>2, BuiltCandidatesAreTyped
  <2>4. candidates' = [n \in 1..len |-> Candidate(order[n])]
    BY <1>7 DEF BuildCandidates
  <2>5. candidates' \in Seq(CandidateType)
    <3> HIDE DEF len, CandidateType
    <3> QED
      BY <2>2, <2>3, <2>4
  <2>6. ConsolidationTypeOK'
    BY <1>7, <1>a, <2>5 DEF BuildCandidates, ConsolidationTypeOK
  <2>7. candidates' = [n \in 1..Len(Take(order', MaxCandidates)) |-> Candidate(order[n])']
    BY <1>7, <2>4 DEF BuildCandidates, Candidate
  <2> QED
    BY <1>7, <2>1, <2>6, <2>7
    DEF BuildCandidates, ConsolidationInv, HitsAreTagged, Walked, Decided
<1>8. CASE Publish
  BY <1>8 DEF Publish, ConsolidationInv, ConsolidationTypeOK, HitsAreTagged, Walked, Decided,
              Candidate
<1>9. CASE UNCHANGED consolidationVars
  BY <1>9 DEF consolidationVars, ConsolidationInv, ConsolidationTypeOK, HitsAreTagged, Walked,
              Decided, Candidate
<1> QED
  BY <1>1, <1>2, <1>3, <1>4, <1>5, <1>6, <1>7, <1>8, <1>9 DEF ConsolidationNext

-----------------------------------------------------------------------------
(* What the invariant says of the candidates.                              *)

LEMMA FirstIsForemost ==
    ASSUME NEW S \in SUBSET Nat, NEW n, Foremost(n, S)
    PROVE  First(S) = n
<1>1. n \in S /\ \A m \in S : n <= m
  BY DEF Foremost
<1>2. First(S) \in S /\ \A m \in S : First(S) <= m
  BY <1>1 DEF First
<1>3. n \in Nat /\ First(S) \in Nat /\ n <= First(S) /\ First(S) <= n
  BY <1>1, <1>2
<1> QED
  BY <1>3

\* At the end of the walk all hits have been seen.
LEMMA MentionsAreSeen ==
    ASSUME ConsolidationTypeOK, NEW url
    PROVE  /\ Mentions(url) = Seen(found, Len(found), url)
           /\ DatedMentions(url) = Dated(found, Len(found), url)
           /\ Mentions(url) \in SUBSET Nat
           /\ DatedMentions(url) \in SUBSET Nat
           /\ \A i \in UsableHits : i \in 1..Len(found) /\ i \in Mentions(UrlOf(i))
<1>1. DOMAIN found = 1..Len(found) /\ Len(found) \in Nat
  BY LenProperties DEF ConsolidationTypeOK
<1>2. Mentions(url) = Seen(found, Len(found), url)
  BY <1>1 DEF Mentions, UsableHits, UrlOf, Seen, Key
<1>3. DatedMentions(url) = Dated(found, Len(found), url)
  BY <1>2 DEF DatedMentions, Dated
<1> QED
  BY <1>1, <1>2, <1>3 DEF Mentions, UsableHits, DatedMentions

\* There are no more queries than the bound on provenance: nothing is cut off.
LEMMA ProvenanceFits ==
    ASSUME NEW queries \in Seq(Queries), ListsOnce(queries)
    PROVE  Take(queries, MaxTotalQueries) = queries /\ Len(queries) <= NumQueries
<1>1. NumQueries \in Nat /\ MaxTotalQueries \in Nat /\ NumQueries <= MaxTotalQueries
  BY ConsolidationAssumption, BoundsAssumption
<1>2. Len(queries) \in Nat /\ queries \in [1..Len(queries) -> Queries]
  BY LenProperties
<1>3. Len(queries) <= NumQueries
  <2> SUFFICES ASSUME NumQueries < Len(queries) PROVE FALSE
    BY <1>1, <1>2
  <2>1. IsFiniteSet(Queries) /\ Cardinality(Queries) = NumQueries
    BY <1>1, FS_Interval DEF Queries
  <2>2. /\ IsFiniteSet(1..Len(queries))
        /\ Cardinality(1..Len(queries)) = Len(queries)
    BY <1>1, <1>2, FS_Interval
  <2>3. \E k, l \in 1..Len(queries) : k # l /\ queries[k] = queries[l]
    BY <1>2, <2>1, <2>2, FS_PigeonHole
  <2> QED
    BY <2>3 DEF ListsOnce
<1>4. Len(queries) < MaxTotalQueries \/ Len(queries) = MaxTotalQueries
  <2>1. Len(queries) \in Nat
    BY <1>2
  <2> QED
    BY <2>1, <1>1, <1>3
<1>5. Take(queries, MaxTotalQueries) = SubSeq(queries, 1, Len(queries))
  BY <1>4 DEF Take
<1>6. SubSeq(queries, 1, Len(queries)) = queries
  BY SubSeqFull
<1> QED
  BY <1>3, <1>5, <1>6

\* Each candidate is built from the bucket at its place in the order, which
\* was merged from all hits; and the candidates are as many as can be.
LEMMA CandidatesAreBuilt ==
    ASSUME ConsolidationInv, Decided
    PROVE  /\ WalkedUpTo(found, Len(found), order, buckets)
           /\ Len(order) \in Nat /\ Len(found) \in Nat
           /\ Len(candidates) = IF Len(order) < MaxCandidates THEN Len(order) ELSE MaxCandidates
           /\ DOMAIN candidates = 1..Len(candidates)
           /\ \A n \in 1..Len(candidates) :
                /\ n \in 1..Len(order)
                /\ candidates[n] = Candidate(order[n])
                /\ candidates[n].url = order[n]
                /\ order[n] \in DOMAIN buckets
<1>1. ConsolidationTypeOK /\ order \in Seq(NormalUrls) /\ MaxCandidates \in Nat
  BY BoundsAssumption DEF ConsolidationInv, ConsolidationTypeOK
<1>2. WalkedUpTo(found, Len(found), order, buckets)
  BY DEF ConsolidationInv, Decided, Walked
<1>3. /\ Len(order) \in Nat /\ Len(found) \in Nat
      /\ DOMAIN candidates = 1..Len(candidates) /\ Len(candidates) \in Nat
  BY <1>1, LenProperties DEF ConsolidationTypeOK
<1> DEFINE len == Len(Take(order, MaxCandidates))
<1>4. /\ len = IF Len(order) < MaxCandidates THEN Len(order) ELSE MaxCandidates
      /\ \A n \in 1..len : n \in 1..Len(order)
  BY <1>1, TakeProperties
<1>5. candidates = [n \in 1..len |-> Candidate(order[n])]
  BY DEF ConsolidationInv
<1> HIDE DEF len
<1>6. Len(candidates) = len
  <2>1. DOMAIN candidates = 1..len
    BY <1>5
  <2> QED
    BY <2>1, <1>1, <1>3, <1>4
<1>7. \A n \in 1..Len(candidates) :
        candidates[n] = Candidate(order[n]) /\ candidates[n].url = order[n]
  BY <1>5, <1>6 DEF Candidate
<1>8. \A n \in 1..Len(order) : order[n] \in DOMAIN buckets
  BY <1>2 DEF WalkedUpTo, OrderedUpTo
<1> QED
  BY <1>2, <1>3, <1>4, <1>6, <1>7, <1>8

LEMMA CandidatesComeInOrder ==
    ASSUME ConsolidationInv, Decided
    PROVE  CandidatesAreFirstFound
<1> DEFINE first(n) == First(Mentions(order[n]))
<1>a. ConsolidationTypeOK /\ MaxCandidates \in Nat
  BY BoundsAssumption DEF ConsolidationInv
<1>b. \A url : /\ Mentions(url) = Seen(found, Len(found), url)
               /\ Mentions(url) \in SUBSET Nat
  BY <1>a, MentionsAreSeen
<1>1. \A n \in 1..Len(order) : Foremost(first(n), Mentions(order[n]))
  <2> SUFFICES ASSUME NEW n \in 1..Len(order)
               PROVE  Foremost(first(n), Mentions(order[n]))
    OBVIOUS
  <2>1. PICK i \in 1..Len(found) : Foremost(i, Mentions(order[n]))
    BY <1>b, CandidatesAreBuilt, OrderedAreSeen
  <2>2. first(n) = i
    BY <2>1, <1>b, FirstIsForemost
  <2> QED
    BY <2>1, <2>2
<1>2. \A k, l \in 1..Len(order) :
        k < l => \A m \in Mentions(order[l]) : first(k) < m
  <2> SUFFICES ASSUME NEW k \in 1..Len(order), NEW l \in 1..Len(order), k < l,
                      NEW m \in Mentions(order[l])
               PROVE  first(k) < m
    OBVIOUS
  <2>1. PICK i \in Mentions(order[k]) : i < m
    BY <1>b, CandidatesAreBuilt DEF WalkedUpTo, OrderedUpTo
  <2>2. first(k) <= i /\ first(k) \in Nat /\ i \in Nat /\ m \in Nat
    BY <1>1, <1>b DEF Foremost
  <2> QED
    BY <2>1, <2>2
<1> HIDE DEF first
<1>3. /\ DOMAIN candidates = 1..Len(candidates)
      /\ \A n \in 1..Len(candidates) : n \in 1..Len(order) /\ candidates[n].url = order[n]
      /\ Len(order) \in Nat
      /\ Len(candidates) = IF Len(order) < MaxCandidates THEN Len(order) ELSE MaxCandidates
  BY CandidatesAreBuilt
<1>4. \A n \in DOMAIN candidates : Mentions(candidates[n].url) # {}
  BY <1>1, <1>3 DEF Foremost
<1>5. \A n, m \in DOMAIN candidates :
        n < m => First(Mentions(candidates[n].url)) < First(Mentions(candidates[m].url))
  BY <1>1, <1>2, <1>3 DEF Foremost, first
<1>6. ASSUME NEW i \in UsableHits
      PROVE  \/ \E n \in DOMAIN candidates : candidates[n].url = UrlOf(i)
             \/ /\ Len(candidates) = MaxCandidates
                /\ \A n \in DOMAIN candidates : First(Mentions(candidates[n].url)) < i
  <2>1. i \in 1..Len(found) /\ Usable(found[i].hit) /\ i \in Mentions(UrlOf(i))
    BY <1>a, MentionsAreSeen DEF UsableHits
  <2>2. PICK k \in 1..Len(order) : order[k] = UrlOf(i)
    BY <2>1, CandidatesAreBuilt DEF WalkedUpTo, OrderedUpTo, UrlOf, Key
  <2>3. CASE k <= Len(candidates)
    <3>1. k \in 1..Len(candidates)
      BY <2>3, <1>a, <1>3
    <3> QED
      BY <3>1, <2>2, <1>3
  <2>4. CASE k > Len(candidates)
    <3>1. Len(candidates) = MaxCandidates
      BY <2>4, <1>a, <1>3
    <3>2. ASSUME NEW n \in DOMAIN candidates
          PROVE  First(Mentions(candidates[n].url)) < i
      <4>1. n \in 1..Len(order) /\ n < k /\ candidates[n].url = order[n]
        BY <2>4, <1>a, <1>3
      <4>2. first(n) < i
        BY <4>1, <2>1, <2>2, <1>2
      <4> QED
        BY <4>1, <4>2 DEF first
    <3> QED
      BY <3>1, <3>2
  <2> QED
    BY <2>3, <2>4, <1>a, <1>3
<1> QED
  BY <1>a, <1>3, <1>4, <1>5, <1>6 DEF CandidatesAreFirstFound

LEMMA CandidatesAreMerged ==
    ASSUME ConsolidationInv, Decided
    PROVE  HitsAreMerged
<1> SUFFICES ASSUME NEW n \in 1..Len(candidates)
             PROVE  LET c == candidates[n] IN
               /\ c.title = FallbackTitle(found[First(Mentions(c.url))].hit)
               /\ c.date = IF DatedMentions(c.url) = {} THEN NoDate
                           ELSE found[First(DatedMentions(c.url))].hit.date
               /\ {c.queries[k] : k \in DOMAIN c.queries} = {found[i].query : i \in Mentions(c.url)}
               /\ \A k, l \in DOMAIN c.queries : c.queries[k] = c.queries[l] => k = l
  BY CandidatesAreBuilt DEF HitsAreMerged
<1> DEFINE url == order[n]
           bucket == buckets[url]
<1>a. ConsolidationTypeOK
  BY DEF ConsolidationInv
<1>1. /\ Mentions(url) = Seen(found, Len(found), url) /\ Mentions(url) \in SUBSET Nat
      /\ DatedMentions(url) = Dated(found, Len(found), url) /\ DatedMentions(url) \in SUBSET Nat
  BY <1>a, MentionsAreSeen
<1>2. candidates[n] = Candidate(url) /\ MergedUpTo(found, Len(found), url, bucket)
  BY CandidatesAreBuilt DEF WalkedUpTo
<1>3. /\ bucket.queries \in Seq(Queries)
      /\ ListsOnce(bucket.queries)
      /\ DOMAIN bucket.queries = 1..Len(bucket.queries)
      /\ Take(bucket.queries, MaxTotalQueries) = bucket.queries
  <2>1. bucket.queries \in Seq(Queries) /\ ListsOnce(bucket.queries)
    BY <1>2 DEF MergedUpTo, Bucket
  <2> QED
    BY <2>1, LenProperties, ProvenanceFits
<1>4. /\ candidates[n].url = url
      /\ candidates[n].title = bucket.title
      /\ candidates[n].date = bucket.date
      /\ candidates[n].queries = bucket.queries
  BY <1>2, <1>3 DEF Candidate
<1>5. bucket.title = FallbackTitle(found[First(Mentions(url))].hit)
  <2>1. PICK i \in 1..Len(found) :
            Foremost(i, Mentions(url)) /\ bucket.title = FallbackTitle(found[i].hit)
    BY <1>1, <1>2 DEF MergedUpTo
  <2> QED
    BY <2>1, <1>1, FirstIsForemost
<1>6. bucket.date = IF DatedMentions(url) = {} THEN NoDate
                    ELSE found[First(DatedMentions(url))].hit.date
  <2>1. CASE bucket.date = NoDate /\ DatedMentions(url) = {}
    BY <2>1
  <2>2. CASE \E i \in 1..Len(found) :
               Foremost(i, DatedMentions(url)) /\ bucket.date = found[i].hit.date
    <3>1. PICK i \in 1..Len(found) :
              Foremost(i, DatedMentions(url)) /\ bucket.date = found[i].hit.date
      BY <2>2
    <3> QED
      BY <3>1, <1>1, FirstIsForemost DEF Foremost
  <2> QED
    BY <2>1, <2>2, <1>1, <1>2 DEF MergedUpTo
<1>7. {bucket.queries[k] : k \in 1..Len(bucket.queries)} = {found[i].query : i \in Mentions(url)}
  BY <1>1, <1>2 DEF MergedUpTo
<1>8. \A k, l \in 1..Len(bucket.queries) : bucket.queries[k] = bucket.queries[l] => k = l
  BY <1>3 DEF ListsOnce
<1> DEFINE c == candidates[n]
<1>9. {c.queries[k] : k \in DOMAIN c.queries} = {bucket.queries[k] : k \in 1..Len(bucket.queries)}
  BY <1>3, <1>4
<1>10. \A k, l \in DOMAIN c.queries : c.queries[k] = c.queries[l] => k = l
  BY <1>3, <1>4, <1>8
<1> HIDE DEF bucket, url, c
<1>11. /\ c.title = FallbackTitle(found[First(Mentions(c.url))].hit)
       /\ c.date = IF DatedMentions(c.url) = {} THEN NoDate
                   ELSE found[First(DatedMentions(c.url))].hit.date
       /\ {c.queries[k] : k \in DOMAIN c.queries} = {found[i].query : i \in Mentions(c.url)}
  BY <1>4, <1>5, <1>6, <1>7, <1>9 DEF c
<1> QED
  BY <1>10, <1>11 DEF c

-----------------------------------------------------------------------------
(* The theorems.                                                           *)

LEMMA ConsolidationInvHolds == ConsolidationSpec => []ConsolidationInv
<1>1. ConsolidationInit => ConsolidationInv
  BY InitEstablishesConsolidationInv
<1>2. ConsolidationInv /\ [ConsolidationNext]_consolidationVars => ConsolidationInv'
  BY StepPreservesConsolidationInv
<1> QED
  BY <1>1, <1>2, PTL DEF ConsolidationSpec

\* The search, the walk over its hits and the candidates keep their types; no
\* candidate is dated after the critical date (consolidate).
THEOREM ConsolidationIsTyped == ConsolidationSpec => []ConsolidationTypeOK
<1>1. ConsolidationInv => ConsolidationTypeOK
  BY DEF ConsolidationInv
<1> QED
  BY <1>1, ConsolidationInvHolds, PTL

\* The candidates are the documents mentioned first, in the order of their
\* first mention, and as many as the cap allows (consolidate).
THEOREM FirstDocumentsAreKept == ConsolidationSpec => []CandidatesAreFirstFound
<1>1. ConsolidationInv => CandidatesAreFirstFound
  BY CandidatesComeInOrder DEF CandidatesAreFirstFound
<1> QED
  BY <1>1, ConsolidationInvHolds, PTL

\* A candidate has the first title, the first date and all queries of its
\* document, each query once; the cap on provenance never drops one
\* (consolidate).
THEOREM MergingLosesNothing == ConsolidationSpec => []HitsAreMerged
<1>1. ConsolidationInv => HitsAreMerged
  BY CandidatesAreMerged DEF HitsAreMerged
<1> QED
  BY <1>1, ConsolidationInvHolds, PTL

-----------------------------------------------------------------------------
(* Later passes only add.  Each walk begins like the walk before it, since *)
(* the hits found first stay first: the invariant keeps what the longest   *)
(* walk so far looked like after each hit (IsWalk).  The candidates were   *)
(* built after t0 of them, and a walk only adds to what it has.            *)

Now == [order |-> order, buckets |-> buckets]
Empty == [order |-> <<>>, buckets |-> <<>>]

Opened(x) == [title |-> FallbackTitle(x.hit), date |-> x.hit.date, queries |-> <<x.query>>]

MergedWith(x, bucket) ==
    [bucket EXCEPT
       !.queries = IF \E n \in DOMAIN @ : @[n] = x.query THEN @ ELSE Append(@, x.query),
       !.date = IF @ = NoDate THEN x.hit.date ELSE @]

\* What one more hit makes of the state s of a walk.
AfterHit(x, s) ==
    LET url == NormalizeUrl(x.hit.url) IN
    IF ~Usable(x.hit) THEN s
    ELSE IF url \in DOMAIN s.buckets
    THEN [order |-> s.order,
          buckets |-> [s.buckets EXCEPT ![url] = MergedWith(x, @)]]
    ELSE [order |-> Append(s.order, url),
          buckets |-> [u \in DOMAIN s.buckets \cup {url} |->
                         IF u = url THEN Opened(x) ELSE s.buckets[u]]]

StateOK(s) ==
    /\ s.order \in Seq(NormalUrls)
    /\ \A n \in 1..Len(s.order) : s.order[n] \in DOMAIN s.buckets
    /\ \A u \in DOMAIN s.buckets : s.buckets[u] \in Bucket

BucketGrows(old, new) ==
    /\ new.title = old.title
    /\ old.date # NoDate => new.date = old.date
    /\ Len(old.queries) <= Len(new.queries)
    /\ \A k \in 1..Len(old.queries) : new.queries[k] = old.queries[k]

Grows(s, s2) ==
    /\ Len(s.order) <= Len(s2.order)
    /\ \A n \in 1..Len(s.order) : s2.order[n] = s.order[n]
    /\ \A u \in DOMAIN s.buckets :
         u \in DOMAIN s2.buckets /\ BucketGrows(s.buckets[u], s2.buckets[u])

IsWalk(f, T, h) ==
    /\ h[0] = Empty
    /\ \A n \in 0..T : StateOK(h[n])
    /\ \A n \in 0..(T - 1) : h[n + 1] = AfterHit(f[n + 1], h[n])
    /\ \A n, m \in 0..T : n <= m => Grows(h[n], h[m])

BuiltFrom(s) ==
    /\ DOMAIN candidates = 1..Len(Take(s.order, MaxCandidates))
    /\ \A n \in DOMAIN candidates :
         LET bucket == s.buckets[s.order[n]] IN
         /\ candidates[n].url = s.order[n]
         /\ candidates[n].title = bucket.title
         /\ candidates[n].date = bucket.date
         /\ candidates[n].queries = Take(bucket.queries, MaxTotalQueries)

Growth(T, t0, h) ==
    /\ t0 <= T /\ T <= Len(found)
    /\ IsWalk(found, T, h)
    /\ BuiltFrom(h[t0])
    /\ stage = "walking" => taken <= T /\ h[taken] = Now

GrowthInv == \E T, t0 \in Nat : \E h : Growth(T, t0, h)

LEMMA AfterHitGrows ==
    ASSUME NEW s, StateOK(s), NEW x \in [query : Queries, hit : Hits]
    PROVE  Grows(s, AfterHit(x, s))
<1> DEFINE url == NormalizeUrl(x.hit.url)
<1>1. Len(s.order) \in Nat /\ \A u \in DOMAIN s.buckets : Len(s.buckets[u].queries) \in Nat
  BY LenProperties DEF StateOK, Bucket
<1>2. \A u \in DOMAIN s.buckets : BucketGrows(s.buckets[u], s.buckets[u])
  BY <1>1 DEF BucketGrows
<1>3. CASE ~Usable(x.hit)
  BY <1>1, <1>2, <1>3 DEF AfterHit, Grows
<1>4. CASE Usable(x.hit) /\ url \in DOMAIN s.buckets
  <2> DEFINE bucket == s.buckets[url]
             added == Append(bucket.queries, x.query)
  <2>1. bucket \in Bucket
    BY <1>4 DEF StateOK
  <2>2. /\ Len(added) = Len(bucket.queries) + 1
        /\ \A k \in 1..Len(bucket.queries) : added[k] = bucket.queries[k]
    BY <2>1, AppendProperties DEF Bucket
  <2> DEFINE merged == MergedWith(x, bucket)
  <2>3. /\ merged.title = bucket.title
        /\ merged.date = IF bucket.date = NoDate THEN x.hit.date ELSE bucket.date
        /\ merged.queries = bucket.queries \/ merged.queries = added
    BY <2>1 DEF MergedWith, Bucket
  <2>4. BucketGrows(bucket, merged)
    <3> HIDE DEF merged, added, bucket
    <3>1. Len(bucket.queries) \in Nat
      BY <1>1, <1>4 DEF bucket
    <3> QED
      BY <2>2, <2>3, <3>1 DEF BucketGrows
  <2>5. AfterHit(x, s) =
          [order |-> s.order, buckets |-> [s.buckets EXCEPT ![url] = merged]]
    BY <1>4 DEF AfterHit
  <2> HIDE DEF merged
  <2>6. /\ AfterHit(x, s).order = s.order
        /\ DOMAIN AfterHit(x, s).buckets = DOMAIN s.buckets
        /\ \A u \in DOMAIN s.buckets :
             AfterHit(x, s).buckets[u] = IF u = url THEN merged ELSE s.buckets[u]
    BY <1>4, <2>5
  <2> QED
    BY <1>1, <1>2, <2>4, <2>6 DEF Grows
<1>5. CASE Usable(x.hit) /\ url \notin DOMAIN s.buckets
  <2>1. AfterHit(x, s) =
          [order |-> Append(s.order, url),
           buckets |-> [u \in DOMAIN s.buckets \cup {url} |->
                          IF u = url THEN Opened(x) ELSE s.buckets[u]]]
    BY <1>5 DEF AfterHit
  <2>2. url \in NormalUrls
    BY DEF NormalUrls
  <2>3. /\ Len(Append(s.order, url)) = Len(s.order) + 1
        /\ \A n \in 1..Len(s.order) : Append(s.order, url)[n] = s.order[n]
    BY <2>2, AppendProperties DEF StateOK
  <2>4. \A u \in DOMAIN s.buckets :
          /\ u \in DOMAIN AfterHit(x, s).buckets
          /\ AfterHit(x, s).buckets[u] = s.buckets[u]
    BY <1>5, <2>1
  <2>5. AfterHit(x, s).order = Append(s.order, url)
    BY <2>1
  <2> QED
    BY <1>1, <1>2, <2>3, <2>4, <2>5 DEF Grows
<1> QED
  BY <1>3, <1>4, <1>5

LEMMA GrowsIsTransitive ==
    ASSUME NEW s1, NEW s2, NEW s3, StateOK(s1), StateOK(s2), StateOK(s3),
           Grows(s1, s2), Grows(s2, s3)
    PROVE  Grows(s1, s3)
<1>1. Len(s1.order) \in Nat /\ Len(s2.order) \in Nat /\ Len(s3.order) \in Nat
  BY LenProperties DEF StateOK
<1>2. /\ Len(s1.order) <= Len(s3.order)
      /\ \A n \in 1..Len(s1.order) : s3.order[n] = s1.order[n]
  BY <1>1 DEF Grows
<1>3. ASSUME NEW u \in DOMAIN s1.buckets
      PROVE  u \in DOMAIN s3.buckets /\ BucketGrows(s1.buckets[u], s3.buckets[u])
  <2>1. /\ u \in DOMAIN s2.buckets /\ u \in DOMAIN s3.buckets
        /\ BucketGrows(s1.buckets[u], s2.buckets[u])
        /\ BucketGrows(s2.buckets[u], s3.buckets[u])
    BY <1>3 DEF Grows
  <2>2. /\ Len(s1.buckets[u].queries) \in Nat /\ Len(s2.buckets[u].queries) \in Nat
        /\ Len(s3.buckets[u].queries) \in Nat
    BY <1>3, <2>1, LenProperties DEF StateOK, Bucket
  <2> QED
    BY <2>1, <2>2 DEF BucketGrows
<1> QED
  BY <1>2, <1>3 DEF Grows

LEMMA StatesStay == ASSUME NEW s, StateOK(s) PROVE Grows(s, s)
<1>1. Len(s.order) \in Nat /\ \A u \in DOMAIN s.buckets : Len(s.buckets[u].queries) \in Nat
  BY LenProperties DEF StateOK, Bucket
<1> QED
  BY <1>1 DEF Grows, BucketGrows

\* What the other invariant says of the state of a walk.
LEMMA WalkStateIsOK == ASSUME ConsolidationInv, Walked PROVE StateOK(Now)
<1>1. ConsolidationTypeOK /\ WalkedUpTo(found, taken, order, buckets)
  BY DEF ConsolidationInv
<1>2. /\ order \in Seq(NormalUrls)
      /\ \A n \in 1..Len(order) : order[n] \in DOMAIN buckets
      /\ \A u \in DOMAIN buckets : buckets[u] \in Bucket
  BY <1>1 DEF WalkedUpTo, OrderedUpTo, ConsolidationTypeOK, Bucket
<1> QED
  BY <1>2 DEF Now, StateOK

LEMMA EmptyIsOK == StateOK(Empty)
<1>1. <<>> \in Seq(NormalUrls) /\ Len(<<>>) = 0 /\ DOMAIN <<>> = {}
  BY EmptySeq
<1> QED
  BY <1>1 DEF StateOK, Empty

LEMMA WalkStepIsAfterHit ==
    ASSUME ConsolidationInv, SkipHit \/ OpenBucket \/ MergeHit
    PROVE  Now' = AfterHit(found[taken + 1], Now)
<1> DEFINE x == found[taken + 1]
<1>1. CASE SkipHit
  BY <1>1 DEF SkipHit, Hit, Now, AfterHit
<1>2. CASE OpenBucket
  BY <1>2 DEF OpenBucket, NewBucket, Hit, Url, Query, Now, AfterHit, Opened
<1>3. CASE MergeHit
  BY <1>3 DEF MergeHit, Merged, MergedWith, Hit, Url, Query, Now, AfterHit
<1> QED
  BY <1>1, <1>2, <1>3

\* The longest walk so far either has been here before or grows by a step.
LEMMA WalkStepKeepsGrowth ==
    ASSUME ConsolidationInv, ConsolidationInv', GrowthInv, SkipHit \/ OpenBucket \/ MergeHit
    PROVE  GrowthInv'
<1>1. /\ stage = "walking" /\ stage' = "walking" /\ taken < Len(found) /\ taken' = taken + 1
      /\ UNCHANGED <<found, candidates>>
  BY DEF SkipHit, OpenBucket, MergeHit, Walk, walkFrame
<1>2. found \in HitList /\ Len(found) \in Nat /\ taken \in Nat
  <2>1. found \in HitList /\ taken \in 0..Len(found)
    BY DEF ConsolidationInv, ConsolidationTypeOK, HitList
  <2> QED
    BY <2>1, LenProperties DEF HitList
<1>3. Now' = AfterHit(found[taken + 1], Now)
  BY WalkStepIsAfterHit
<1>4. StateOK(Now) /\ StateOK(Now')
  <2>1. Walked /\ Walked'
    BY <1>1 DEF Walked
  <2>2. StateOK(Now)
    BY <2>1, WalkStateIsOK
  <2>3. StateOK(Now)'
    BY <2>1, WalkStateIsOK, PTL
  <2> QED
    BY <2>2, <2>3 DEF StateOK
<1>a. PICK T \in Nat, t0 \in Nat : \E h : Growth(T, t0, h)
  BY DEF GrowthInv
<1>5. PICK h : Growth(T, t0, h)
  BY <1>a
<1>6. /\ t0 \in 0..T /\ T <= Len(found)
      /\ IsWalk(found, T, h) /\ BuiltFrom(h[t0]) /\ taken <= T /\ h[taken] = Now
  BY <1>1, <1>5 DEF Growth
<1>7. CASE taken < T
  <2>1. h[taken + 1] = Now'
    BY <1>2, <1>3, <1>6, <1>7 DEF IsWalk
  <2>2. Growth(T, t0, h)'
    BY <1>1, <1>2, <1>6, <1>7, <2>1 DEF Growth, BuiltFrom
  <2> QED
    BY <1>1, <2>2 DEF GrowthInv
<1>8. CASE taken = T
  <2>a. PICK g : g = [n \in 0..(T + 1) |-> IF n = T + 1 THEN Now' ELSE h[n]]
    OBVIOUS
  <2>1. T \in Nat /\ T + 1 \in 0..Len(found) /\ t0 \in 0..(T + 1)
    BY <1>1, <1>2, <1>6, <1>8
  <2>2. g[T + 1] = Now' /\ \A n \in 0..T : g[n] = h[n]
    <3>1. T + 1 \in 0..(T + 1) /\ \A n \in 0..T : n \in 0..(T + 1) /\ n # T + 1
      BY <2>1
    <3> QED
      BY <2>a, <3>1
  <2>3. Grows(Now, Now')
    <3>1. found[taken + 1] \in [query : Queries, hit : Hits]
      <4>1. taken + 1 \in 1..Len(found)
        BY <1>1, <1>2
      <4> QED
        BY <1>2, <4>1, ElementOfSeq DEF HitList
    <3>2. Grows(Now, AfterHit(found[taken + 1], Now))
      BY <1>4, <3>1, AfterHitGrows
    <3> QED
      BY <1>3, <3>2
  <2>4. \A n \in 0..T : Grows(h[n], Now')
    <3>1. \A n \in 0..T : Grows(h[n], h[T]) /\ StateOK(h[n])
      <4>1. T \in 0..T /\ \A n \in 0..T : n <= T
        BY <2>1
      <4> QED
        BY <1>6, <4>1 DEF IsWalk
    <3>2. h[T] = Now
      BY <1>6, <1>8
    <3> QED
      BY <1>4, <2>3, <3>1, <3>2, GrowsIsTransitive
  <2>5. IsWalk(found, T + 1, g)
    <3>1. \A n \in 0..(T + 1) : n = T + 1 \/ n \in 0..T
      BY <2>1
    <3>2. g[0] = Empty /\ \A n \in 0..(T + 1) : StateOK(g[n])
      BY <1>4, <1>6, <2>1, <2>2, <3>1 DEF IsWalk
    <3>3. \A n \in 0..(T + 1 - 1) : g[n + 1] = AfterHit(found[n + 1], g[n])
      <4>1. \A n \in 0..(T + 1 - 1) : n = T \/ (n \in 0..(T - 1) /\ n + 1 \in 0..T)
        BY <2>1
      <4>2. g[T + 1] = AfterHit(found[T + 1], g[T])
        BY <1>3, <1>6, <1>8, <2>1, <2>2
      <4>3. \A n \in 0..(T - 1) : h[n + 1] = AfterHit(found[n + 1], h[n])
        BY <1>6 DEF IsWalk
      <4> QED
        BY <2>1, <2>2, <4>1, <4>2, <4>3
    <3>4. \A n, m \in 0..(T + 1) : n <= m => Grows(g[n], g[m])
      <4>1. Grows(g[T + 1], g[T + 1])
        BY <1>4, <2>2, StatesStay
      <4>2. \A n, m \in 0..T : n <= m => Grows(g[n], g[m])
        BY <1>6, <2>2 DEF IsWalk
      <4>3. \A n \in 0..T : Grows(g[n], g[T + 1])
        BY <2>2, <2>4
      <4>4. \A m \in 0..T : ~(T + 1 <= m)
        BY <2>1
      <4> QED
        BY <3>1, <4>1, <4>2, <4>3, <4>4
    <3> QED
      BY <3>2, <3>3, <3>4 DEF IsWalk
  <2>6. BuiltFrom(g[t0])
    BY <1>6, <2>2
  <2>7. Growth(T + 1, t0, g)'
    BY <1>1, <1>8, <2>1, <2>2, <2>5, <2>6 DEF Growth, BuiltFrom
  <2> QED
    BY <1>1, <2>1, <2>7 DEF GrowthInv
<1> QED
  BY <1>2, <1>5, <1>6, <1>7, <1>8

\* Candidates built from a state stay, as the state grows.
LEMMA CandidatesGrowWithTheWalk ==
    ASSUME NEW s, NEW s2, StateOK(s), StateOK(s2), Grows(s, s2), BuiltFrom(s), BuiltFrom(s2)',
           NEW n \in DOMAIN candidates
    PROVE  /\ n \in DOMAIN candidates'
           /\ candidates'[n].url = candidates[n].url
           /\ candidates'[n].title = candidates[n].title
           /\ candidates[n].date # NoDate => candidates'[n].date = candidates[n].date
           /\ \A k \in DOMAIN candidates[n].queries :
                /\ k \in DOMAIN candidates'[n].queries
                /\ candidates'[n].queries[k] = candidates[n].queries[k]
<1> DEFINE bucket == s.buckets[s.order[n]]
           bucket2 == s2.buckets[s.order[n]]
<1>1. MaxCandidates \in Nat /\ MaxTotalQueries \in Nat
  BY BoundsAssumption
<1>2. /\ s.order \in Seq(NormalUrls) /\ s2.order \in Seq(NormalUrls)
      /\ Len(s.order) \in Nat /\ Len(s2.order) \in Nat /\ Len(s.order) <= Len(s2.order)
  BY LenProperties DEF StateOK, Grows
<1>3. n \in 1..Len(Take(s.order, MaxCandidates)) /\ n \in 1..Len(s.order)
  BY <1>1, <1>2, TakeProperties DEF BuiltFrom
<1>4. n \in 1..Len(Take(s2.order, MaxCandidates))
  <2>1. /\ Len(Take(s.order, MaxCandidates)) =
             IF Len(s.order) < MaxCandidates THEN Len(s.order) ELSE MaxCandidates
        /\ Len(Take(s2.order, MaxCandidates)) =
             IF Len(s2.order) < MaxCandidates THEN Len(s2.order) ELSE MaxCandidates
    BY <1>1, <1>2, TakeProperties
  <2> QED
    BY <1>1, <1>2, <1>3, <2>1
<1>5. s2.order[n] = s.order[n] /\ s.order[n] \in DOMAIN s.buckets
  BY <1>3 DEF Grows, StateOK
<1>6. /\ s.order[n] \in DOMAIN s2.buckets /\ BucketGrows(bucket, bucket2)
      /\ bucket \in Bucket /\ bucket2 \in Bucket
  BY <1>5 DEF Grows, StateOK
<1>7. /\ candidates[n].url = s.order[n] /\ candidates[n].title = bucket.title
      /\ candidates[n].date = bucket.date
      /\ candidates[n].queries = Take(bucket.queries, MaxTotalQueries)
  BY DEF BuiltFrom
<1>8. n \in DOMAIN candidates'
  BY <1>4 DEF BuiltFrom
<1>9. /\ candidates'[n].url = s.order[n] /\ candidates'[n].title = bucket2.title
      /\ candidates'[n].date = bucket2.date
      /\ candidates'[n].queries = Take(bucket2.queries, MaxTotalQueries)
  BY <1>5, <1>8 DEF BuiltFrom
<1> DEFINE q == bucket.queries
           q2 == bucket2.queries
<1>10. ASSUME NEW k \in DOMAIN Take(q, MaxTotalQueries)
       PROVE  /\ k \in DOMAIN Take(q2, MaxTotalQueries)
              /\ Take(q2, MaxTotalQueries)[k] = Take(q, MaxTotalQueries)[k]
  <2>1. /\ q \in Seq(Queries) /\ q2 \in Seq(Queries)
        /\ Len(q) <= Len(q2) /\ \A i \in 1..Len(q) : q2[i] = q[i]
    BY <1>6 DEF Bucket, BucketGrows
  <2> HIDE DEF q, q2
  <2>2. Len(q) \in Nat /\ Len(q2) \in Nat
    BY <2>1, LenProperties
  <2>3. /\ DOMAIN Take(q, MaxTotalQueries) = 1..Len(Take(q, MaxTotalQueries))
        /\ DOMAIN Take(q2, MaxTotalQueries) = 1..Len(Take(q2, MaxTotalQueries))
        /\ Len(Take(q, MaxTotalQueries)) =
             IF Len(q) < MaxTotalQueries THEN Len(q) ELSE MaxTotalQueries
        /\ Len(Take(q2, MaxTotalQueries)) =
             IF Len(q2) < MaxTotalQueries THEN Len(q2) ELSE MaxTotalQueries
    BY <1>1, <2>1, TakeProperties, LenProperties
  <2>4. k \in 1..Len(q) /\ k \in 1..Len(Take(q2, MaxTotalQueries))
    BY <1>1, <1>10, <2>1, <2>2, <2>3
  <2>5. Take(q2, MaxTotalQueries)[k] = q2[k] /\ Take(q, MaxTotalQueries)[k] = q[k]
    BY <1>1, <1>10, <2>1, <2>3, <2>4, TakeProperties
  <2> QED
    BY <2>1, <2>3, <2>4, <2>5
<1>11. bucket2.title = bucket.title /\ (bucket.date # NoDate => bucket2.date = bucket.date)
  BY <1>6 DEF BucketGrows
<1>12. /\ candidates[n].queries = Take(q, MaxTotalQueries)
       /\ candidates'[n].queries = Take(q2, MaxTotalQueries)
  BY <1>7, <1>9
<1>13. \A k \in DOMAIN candidates[n].queries :
         /\ k \in DOMAIN candidates'[n].queries
         /\ candidates'[n].queries[k] = candidates[n].queries[k]
  <2> HIDE DEF q, q2
  <2> QED
    BY <1>10, <1>12
<1>14. /\ candidates'[n].url = candidates[n].url
       /\ candidates'[n].title = candidates[n].title
       /\ candidates[n].date # NoDate => candidates'[n].date = candidates[n].date
  BY <1>7, <1>9, <1>11
<1> QED
  BY <1>8, <1>13, <1>14

LEMMA InitEstablishesGrowth == ConsolidationInit => GrowthInv
<1> SUFFICES ASSUME ConsolidationInit PROVE GrowthInv
  OBVIOUS
<1>1. PICK h : h = [n \in 0..0 |-> Empty]
  OBVIOUS
<1>2. h[0] = Empty /\ \A n \in 0..0 : n = 0
  BY <1>1
<1>3. StateOK(Empty) /\ Grows(Empty, Empty)
  BY EmptyIsOK, StatesStay
<1>4. IsWalk(found, 0, h)
  BY <1>2, <1>3 DEF IsWalk
<1>5. BuiltFrom(h[0])
  <2>1. Empty.order = <<>> /\ <<>> \in Seq(NormalUrls) /\ MaxCandidates \in Nat
    BY EmptySeq, BoundsAssumption DEF Empty
  <2>2. Len(Take(<<>>, MaxCandidates)) = 0
    <3>1. PICK empty : empty = <<>> /\ empty \in Seq(NormalUrls) /\ Len(empty) = 0
      BY <2>1, EmptySeq
    <3>2. Len(Take(empty, MaxCandidates)) =
            IF Len(empty) < MaxCandidates THEN Len(empty) ELSE MaxCandidates
      BY <2>1, <3>1, TakeProperties
    <3> QED
      BY <2>1, <3>1, <3>2
  <2>3. DOMAIN candidates = {} /\ 1..0 = {}
    BY EmptySeq DEF ConsolidationInit
  <2> QED
    BY <1>2, <2>1, <2>2, <2>3 DEF BuiltFrom
<1>6. Len(found) = 0 /\ stage # "walking"
  BY EmptySeq DEF ConsolidationInit
<1>7. Growth(0, 0, h)
  BY <1>4, <1>5, <1>6 DEF Growth
<1> QED
  BY <1>7 DEF GrowthInv

\* What a step does to the candidates.
OnlyGrow ==
    \A n \in DOMAIN candidates :
      /\ n \in DOMAIN candidates'
      /\ candidates'[n].url = candidates[n].url
      /\ candidates'[n].title = candidates[n].title
      /\ candidates[n].date # NoDate => candidates'[n].date = candidates[n].date
      /\ \A k \in DOMAIN candidates[n].queries :
           /\ k \in DOMAIN candidates'[n].queries
           /\ candidates'[n].queries[k] = candidates[n].queries[k]

LEMMA GatherKeepsGrowth ==
    ASSUME ConsolidationInv, GrowthInv, NEW n \in 0..MaxHits, NEW hits \in [1..n -> Hits],
           Gather(hits)
    PROVE  GrowthInv'
<1> DEFINE new == Tagged(searched', hits)
<1>1. found \in HitList /\ Len(found) \in Nat /\ searched' \in Queries
  <2>1. found \in HitList /\ searched \in 0..NumQueries
    BY DEF ConsolidationInv, ConsolidationTypeOK, HitList
  <2> QED
    BY <2>1, LenProperties, ConsolidationAssumption DEF Gather, Queries, HitList
<1>2. new \in HitList /\ Len(new) \in Nat
  <2> DEFINE R == [query : Queries, hit : Hits]
  <2>1. n \in Nat
    BY ConsolidationAssumption
  <2>2. new \in [1..n -> R]
    BY <1>1 DEF Tagged
  <2> HIDE DEF new, R
  <2>3. new \in Seq(R) /\ Len(new) = n
    BY <2>1, <2>2, ListIsSeq
  <2> QED
    BY <2>1, <2>3 DEF HitList, R
<1> HIDE DEF new
<1>3. /\ Len(found) <= Len(found')
      /\ \A i \in 1..Len(found) : found'[i] = found[i]
  <2>1. found' = found \o new
    BY DEF Gather, new
  <2>2. /\ Len(found \o new) = Len(found) + Len(new)
        /\ \A i \in 1..(Len(found) + Len(new)) :
             (found \o new)[i] = IF i <= Len(found) THEN found[i] ELSE new[i - Len(found)]
    BY <1>1, <1>2, ConcatProperties DEF HitList
  <2> QED
    BY <1>1, <1>2, <2>1, <2>2
<1>4. PICK T \in Nat, t0 \in Nat : \E h : Growth(T, t0, h)
  BY DEF GrowthInv
<1>5. PICK h : Growth(T, t0, h)
  BY <1>4
<1>6. /\ t0 <= T /\ T <= Len(found) /\ IsWalk(found, T, h) /\ BuiltFrom(h[t0])
  BY <1>5 DEF Growth
<1>7. IsWalk(found', T, h)
  <2>1. \A i \in 0..(T - 1) : i + 1 \in 1..Len(found)
    BY <1>1, <1>6
  <2> QED
    BY <1>3, <1>6, <2>1 DEF IsWalk
<1>8. stage' = "searched" /\ candidates' = candidates /\ Len(found') \in Nat
  <2>1. found' \in HitList
    BY <1>1, <1>2, ConcatProperties DEF Gather, HitList, new
  <2> QED
    BY <2>1, LenProperties DEF Gather, HitList
<1>9. T <= Len(found')
  BY <1>1, <1>3, <1>6, <1>8
<1>10. Growth(T, t0, h)'
  BY <1>6, <1>7, <1>8, <1>9 DEF Growth, BuiltFrom
<1> QED
  BY <1>10 DEF GrowthInv

\* The candidates that are built are those of the whole walk.
LEMMA BuildingGrows ==
    ASSUME ConsolidationInv, ConsolidationInv', GrowthInv, BuildCandidates
    PROVE  GrowthInv' /\ OnlyGrow
<1>1. /\ stage = "walking" /\ taken = Len(found) /\ stage' = "decided"
      /\ UNCHANGED <<found, taken, order, buckets>>
      /\ candidates' = [n \in 1..Len(Take(order, MaxCandidates)) |-> Candidate(order[n])]
  BY DEF BuildCandidates
<1>2. Len(found) \in Nat
  BY LenProperties DEF ConsolidationInv, ConsolidationTypeOK
<1>3. PICK T \in Nat, t0 \in Nat : \E h : Growth(T, t0, h)
  BY DEF GrowthInv
<1>4. PICK h : Growth(T, t0, h)
  BY <1>3
<1>5. /\ t0 <= T /\ T <= Len(found) /\ IsWalk(found, T, h) /\ BuiltFrom(h[t0])
      /\ taken <= T /\ h[taken] = Now
  BY <1>1, <1>4 DEF Growth
<1>6. taken = T /\ T \in 0..T /\ t0 \in 0..T
  BY <1>1, <1>2, <1>5
<1>7. BuiltFrom(Now)'
  BY <1>1 DEF BuiltFrom, Now, Candidate
<1>8. PICK s : s = Now /\ s = Now'
  BY <1>1 DEF Now
<1>9. BuiltFrom(s)'
  BY <1>7, <1>8 DEF BuiltFrom
<1>10. GrowthInv'
  <2>1. h[T] = s
    BY <1>5, <1>6, <1>8
  <2>2. BuiltFrom(h[T])'
    BY <1>9, <2>1 DEF BuiltFrom
  <2>3. IsWalk(found', T, h) /\ T <= T /\ T <= Len(found') /\ stage' # "walking"
    BY <1>1, <1>5
  <2>4. Growth(T, T, h)'
    BY <2>2, <2>3 DEF Growth
  <2> QED
    BY <2>4 DEF GrowthInv
<1>11. OnlyGrow
  <2>1. StateOK(h[t0]) /\ StateOK(s) /\ Grows(h[t0], s)
    BY <1>5, <1>6, <1>8 DEF IsWalk
  <2> QED
    BY <1>5, <1>9, <2>1, CandidatesGrowWithTheWalk DEF OnlyGrow
<1> QED
  BY <1>10, <1>11

LEMMA StepGrows ==
    ConsolidationInv /\ ConsolidationInv' /\ GrowthInv /\ [ConsolidationNext]_consolidationVars
      => GrowthInv' /\ OnlyGrow
<1> SUFFICES ASSUME ConsolidationInv, ConsolidationInv', GrowthInv,
                    [ConsolidationNext]_consolidationVars
             PROVE  GrowthInv' /\ OnlyGrow
  OBVIOUS
<1>a. candidates' = candidates => OnlyGrow
  BY DEF OnlyGrow
<1>b. ASSUME UNCHANGED <<found, candidates>>, stage' # "walking"
      PROVE  GrowthInv'
  BY <1>b DEF GrowthInv, Growth, BuiltFrom
<1>1. ASSUME NEW n \in 0..MaxHits, NEW hits \in [1..n -> Hits], Gather(hits)
      PROVE  GrowthInv' /\ OnlyGrow
  <2>1. GrowthInv'
    BY <1>1, GatherKeepsGrowth
  <2> QED
    BY <1>1, <1>a, <2>1 DEF Gather
<1>2. CASE StartWalk
  <2>1. PICK T \in Nat, t0 \in Nat : \E h : Growth(T, t0, h)
    BY DEF GrowthInv
  <2>2. PICK h : Growth(T, t0, h)
    BY <2>1
  <2>3. /\ UNCHANGED <<found, candidates>> /\ taken' = 0 /\ Now' = Empty
    BY <1>2 DEF StartWalk, Now, Empty
  <2>4. IsWalk(found, T, h) /\ BuiltFrom(h[t0]) /\ t0 <= T /\ T <= Len(found) /\ 0 <= T
    BY <2>1, <2>2 DEF Growth
  <2>5. h[taken'] = Now'
    BY <2>3, <2>4 DEF IsWalk
  <2>6. Growth(T, t0, h)'
    BY <2>3, <2>4, <2>5 DEF Growth, BuiltFrom
  <2> QED
    BY <1>a, <2>1, <2>3, <2>6 DEF GrowthInv
<1>3. CASE HitRaises
  BY <1>3, <1>a, <1>b DEF HitRaises
<1>4. CASE SkipHit \/ OpenBucket \/ MergeHit
  <2>1. GrowthInv'
    BY <1>4, WalkStepKeepsGrowth
  <2>2. candidates' = candidates
    BY <1>4 DEF SkipHit, OpenBucket, MergeHit, walkFrame
  <2> QED
    BY <1>a, <2>1, <2>2
<1>5. CASE BuildCandidates
  BY <1>5, BuildingGrows
<1>6. CASE Publish
  BY <1>6, <1>a, <1>b DEF Publish
<1>7. CASE UNCHANGED consolidationVars
  <2>1. GrowthInv'
    BY <1>7 DEF consolidationVars, GrowthInv, Growth, BuiltFrom, Now
  <2> QED
    BY <1>7, <1>a, <2>1 DEF consolidationVars
<1> QED
  BY <1>1, <1>2, <1>3, <1>4, <1>5, <1>6, <1>7 DEF ConsolidationNext

\* What Claude was shown is never taken back, moved or renamed by a later
\* pass; provenance grows and a date is only filled in (run_search_loop).
THEOREM CandidatesAreNeverTakenBack == ConsolidationSpec => CandidatesOnlyGrow
<1>1. GrowthInv /\ ConsolidationInv /\ ConsolidationInv' /\ [ConsolidationNext]_consolidationVars
        => GrowthInv'
  BY StepGrows
<1>2. ConsolidationSpec => []GrowthInv
  BY <1>1, InitEstablishesGrowth, ConsolidationInvHolds, PTL DEF ConsolidationSpec
<1>3. ConsolidationInv /\ ConsolidationInv' /\ GrowthInv /\ [ConsolidationNext]_consolidationVars
        => [OnlyGrow]_consolidationVars
  BY StepGrows
<1>4. ConsolidationSpec => [][OnlyGrow]_consolidationVars
  BY <1>2, <1>3, ConsolidationInvHolds, PTL DEF ConsolidationSpec
<1> QED
  BY <1>4 DEF CandidatesOnlyGrow, OnlyGrow

-----------------------------------------------------------------------------
(* The key of the buckets: when two URLs are normalised to the same one.   *)

\* The path names something: it is more than slashes.
Named(path) == \E n \in 1..Len(path) : path[n] # None

UrlsAreTyped(Segments) ==
    \A hit \in Hits : hit.url.port \in Nat \cup {NoPort} /\ hit.url.path \in Seq(Segments)

LEMMA LeastNatural ==
    ASSUME NEW T \in SUBSET Nat, T # {}
    PROVE  \E n \in T : \A m \in T : n <= m
<1> DEFINE R == OpToRel(<, Nat)
<1>1. IsWellFoundedOn(R, Nat)
  BY NatLessThanWellFounded
<1>2. \A x, y \in Nat : y < x => <<y, x>> \in R
  BY DEF OpToRel
<1> HIDE DEF R
<1>3. PICK n \in T : \A y \in T : ~(<<y, n>> \in R)
  BY <1>1, WFMin
<1>4. \A m \in T : ~(m < n)
  BY <1>2, <1>3
<1> HIDE <1>1, <1>2, <1>3
<1> QED
  BY <1>4

LEMMA GreatestOfBounded ==
    ASSUME NEW N \in Nat, NEW T \in SUBSET (1..N), T # {}
    PROVE  \E n \in T : \A m \in T : m <= n
<1> DEFINE Rest == {N - n : n \in T}
<1>1. \A m \in T : m \in 1..N /\ N - m \in Rest /\ N - m \in Nat
  OBVIOUS
<1>2. Rest \in SUBSET Nat /\ Rest # {}
  BY <1>1
<1>3. PICK least \in Rest : \A r \in Rest : least <= r
  BY <1>2, LeastNatural
<1>4. PICK n \in T : least = N - n
  BY <1>3
<1> HIDE DEF Rest
<1>5. \A m \in T : m <= n
  BY <1>1, <1>3, <1>4
<1> QED
  BY <1>5

\* Stripping slashes keeps a path up to its last name.
LEMMA StripsUpToLastName ==
    ASSUME NEW Segments, NEW path \in Seq(Segments), Named(path)
    PROVE  \E n \in 1..Len(path) : /\ path[n] # None
                                   /\ \A m \in 1..Len(path) : m > n => path[m] = None
                                   /\ StripSlashes(path) = SubSeq(path, 1, n)
<1> DEFINE names == {n \in 1..Len(path) : path[n] # None}
           lasting == {0} \cup names
<1>1. Len(path) \in Nat /\ DOMAIN path = 1..Len(path)
  BY LenProperties
<1>2. names \in SUBSET (1..Len(path)) /\ names # {}
  BY DEF Named
<1>3. PICK n \in names : \A m \in names : m <= n
  BY <1>1, <1>2, GreatestOfBounded
<1>4. n \in 1..Len(path) /\ path[n] # None
  BY <1>3
<1>5. \A m \in 1..Len(path) : m > n => path[m] = None
  <2> TAKE m \in 1..Len(path)
  <2>1. path[m] # None => m <= n
    BY <1>3
  <2> QED
    BY <1>1, <1>4, <2>1
<1>6. (CHOOSE l \in lasting : \A m \in lasting : m <= l) = n
  <2> HIDE DEF names
  <2>1. \A l \in lasting : l = 0 \/ (l \in names /\ l \in 1..Len(path))
    BY <1>2
  <2>2. n \in lasting /\ \A m \in lasting : m <= n
    BY <1>1, <1>3, <1>4, <2>1
  <2>3. ASSUME NEW l \in lasting, \A m \in lasting : m <= l
        PROVE  l = n
    <3>1. n <= l /\ l <= n
      BY <2>2, <2>3
    <3>2. l \in Nat /\ n \in Nat
      BY <1>1, <1>4, <2>1
    <3> QED
      BY <3>1, <3>2
  <2> HIDE DEF lasting
  <2> QED
    BY <2>2, <2>3
<1>7. path # <<>> /\ path # <<None>>
  <2>1. ASSUME path = <<>>
        PROVE  FALSE
    <3>1. Len(path) = 0
      BY <2>1
    <3> QED
      BY <1>4, <3>1
  <2>2. ASSUME path = <<None>>
        PROVE  FALSE
    <3>1. Len(path) = 1 /\ path[1] = None
      BY <2>2
    <3>2. n = 1
      BY <1>4, <3>1
    <3> QED
      BY <1>4, <3>1, <3>2
  <2> QED
    BY <2>1, <2>2
<1>8. lasting = {0} \cup {k \in DOMAIN path : path[k] # None}
  BY <1>1
<1>9. StripSlashes(path) = SubSeq(path, 1, n)
  <2>1. StripSlashes(path) =
          SubSeq(path, 1, CHOOSE l \in {0} \cup {k \in DOMAIN path : path[k] # None} :
                            \A m \in {0} \cup {k \in DOMAIN path : path[k] # None} : m <= l)
    BY <1>7 DEF StripSlashes
  <2> HIDE DEF lasting
  <2> QED
    BY <1>6, <1>8, <2>1, Zenon
<1> QED
  BY <1>4, <1>5, <1>9

\* What becomes of a path of slashes only: the root stays, "//" is emptied.
LEMMA StripsSlashesOnly ==
    ASSUME NEW Segments, NEW path \in Seq(Segments), ~Named(path)
    PROVE  StripSlashes(path) = IF Len(path) <= 1 THEN <<None>> ELSE <<>>
<1>1. Len(path) \in Nat /\ DOMAIN path = 1..Len(path)
  BY LenProperties
<1>2. \A n \in 1..Len(path) : path[n] = None
  BY DEF Named
<1>3. CASE Len(path) = 0
  <2>1. path = <<>>
    BY <1>3, EmptySeq
  <2> QED
    BY <1>3, <2>1 DEF StripSlashes
<1>4. CASE Len(path) = 1
  <2>1. path[1] = None /\ None \in Segments
    BY <1>1, <1>2, <1>4, ElementOfSeq
  <2>2. <<None>> \in Seq(Segments) /\ Len(<<None>>) = 1 /\ <<None>>[1] = None
    BY <2>1
  <2>3. path = <<None>>
    BY <1>4, <2>1, <2>2, SeqEqual
  <2> QED
    BY <1>4, <2>3 DEF StripSlashes
<1>5. CASE Len(path) > 1
  <2>1. path # <<>> /\ path # <<None>>
    <3>1. path = <<>> => Len(path) = 0
      OBVIOUS
    <3>2. path = <<None>> => Len(path) = 1
      OBVIOUS
    <3> QED
      BY <1>1, <1>5, <3>1, <3>2
  <2> DEFINE lasting == {0} \cup {n \in DOMAIN path : path[n] # None}
  <2>2. lasting = {0}
    BY <1>1, <1>2
  <2>3. StripSlashes(path) = SubSeq(path, 1, CHOOSE n \in lasting : \A m \in lasting : m <= n)
    BY <2>1 DEF StripSlashes
  <2> HIDE DEF lasting
  <2>4. (CHOOSE n \in lasting : \A m \in lasting : m <= n) = 0
    BY <2>2
  <2>5. StripSlashes(path) = SubSeq(path, 1, 0)
    BY <2>3, <2>4
  <2> QED
    BY <1>1, <1>5, <2>5, SubSeqProperties, EmptySeq
<1> QED
  BY <1>1, <1>3, <1>4, <1>5

LEMMA StrippedPathsAgree ==
    ASSUME NEW Segments, NEW p \in Seq(Segments), NEW q \in Seq(Segments)
    PROVE  StripSlashes(p) = StripSlashes(q) <=> SamePath(p, q)
<1> DEFINE bare(s) == {n \in DOMAIN s : \E m \in DOMAIN s : n <= m /\ s[m] # None}
<1>1. ASSUME NEW s \in Seq(Segments), ~Named(s)
      PROVE  /\ StripSlashes(s) = IF Len(s) <= 1 THEN <<None>> ELSE <<>>
             /\ bare(s) = {}
  <2>1. \A k \in DOMAIN s : s[k] = None
    BY <1>1, LenProperties DEF Named
  <2> QED
    BY <1>1, <2>1, StripsSlashesOnly
<1>2. ASSUME NEW s \in Seq(Segments), Named(s)
      PROVE  \E n \in 1..Len(s) : /\ s[n] # None /\ bare(s) = 1..n
                                  /\ Len(StripSlashes(s)) = n
                                  /\ StripSlashes(s) \in Seq(Segments)
                                  /\ \A k \in 1..n : StripSlashes(s)[k] = s[k]
  <2>1. Len(s) \in Nat /\ DOMAIN s = 1..Len(s)
    BY LenProperties
  <2>2. PICK n \in 1..Len(s) : /\ s[n] # None
                               /\ \A m \in 1..Len(s) : m > n => s[m] = None
                               /\ StripSlashes(s) = SubSeq(s, 1, n)
    BY <1>2, StripsUpToLastName
  <2>3. bare(s) = 1..n
    <3>1. ASSUME NEW k \in bare(s)
          PROVE  k \in 1..n
      <4>1. PICK m \in 1..Len(s) : k \in 1..Len(s) /\ k <= m /\ s[m] # None
        BY <2>1
      <4>2. ~(m > n)
        BY <2>2, <4>1
      <4> QED
        BY <2>1, <4>1, <4>2
    <3>2. ASSUME NEW k \in 1..n
          PROVE  k \in bare(s)
      <4>1. k \in DOMAIN s /\ n \in DOMAIN s /\ k <= n
        BY <2>1
      <4> QED
        BY <2>2, <4>1
    <3> QED
      BY <3>1, <3>2
  <2>4. /\ Len(SubSeq(s, 1, n)) = n /\ SubSeq(s, 1, n) \in Seq(Segments)
        /\ \A k \in 1..n : SubSeq(s, 1, n)[k] = s[k]
    BY <2>1, SubSeqProperties
  <2> QED
    BY <2>2, <2>3, <2>4
<1>3. ASSUME NEW s \in Seq(Segments), ~Named(s), NEW t \in Seq(Segments), Named(t)
      PROVE  StripSlashes(s) # StripSlashes(t) /\ bare(s) # bare(t)
  <2>1. PICK n \in 1..Len(t) : /\ t[n] # None /\ bare(t) = 1..n
                               /\ Len(StripSlashes(t)) = n
                               /\ \A k \in 1..n : StripSlashes(t)[k] = t[k]
    BY <1>2, <1>3
  <2>2. n \in Nat /\ n \in 1..n
    <3>1. Len(t) \in Nat
      BY LenProperties
    <3> QED
      BY <3>1
  <2>3. ASSUME StripSlashes(t) = <<None>>
        PROVE  FALSE
    <3>1. Len(<<None>>) = 1 /\ <<None>>[1] = None
      OBVIOUS
    <3>2. n = 1
      BY <2>1, <2>3, <3>1
    <3> QED
      BY <2>1, <2>2, <2>3, <3>1, <3>2
  <2>4. ASSUME StripSlashes(t) = <<>>
        PROVE  FALSE
    <3>1. Len(<<>>) = 0
      OBVIOUS
    <3> QED
      BY <2>1, <2>2, <2>4, <3>1
  <2>5. bare(s) = {} /\ StripSlashes(s) \in {<<None>>, <<>>}
    BY <1>1, <1>3
  <2> HIDE DEF bare
  <2> QED
    BY <2>1, <2>2, <2>3, <2>4, <2>5
<1>4. ASSUME Named(p), Named(q)
      PROVE  /\ StripSlashes(p) = StripSlashes(q)
                  <=> bare(p) = bare(q) /\ \A n \in bare(p) : p[n] = q[n]
             /\ bare(p) # {}
  <2>1. PICK n \in 1..Len(p) : /\ bare(p) = 1..n /\ Len(StripSlashes(p)) = n
                               /\ StripSlashes(p) \in Seq(Segments)
                               /\ \A k \in 1..n : StripSlashes(p)[k] = p[k]
    BY <1>2, <1>4
  <2>2. PICK m \in 1..Len(q) : /\ bare(q) = 1..m /\ Len(StripSlashes(q)) = m
                               /\ StripSlashes(q) \in Seq(Segments)
                               /\ \A k \in 1..m : StripSlashes(q)[k] = q[k]
    BY <1>2, <1>4
  <2>3. n \in Nat \ {0} /\ m \in Nat \ {0}
    BY LenProperties
  <2>4. 1..n = 1..m => n = m
    BY <2>3
  <2> HIDE DEF bare
  <2>5. ASSUME StripSlashes(p) = StripSlashes(q)
        PROVE  bare(p) = bare(q) /\ \A k \in bare(p) : p[k] = q[k]
    BY <2>1, <2>2, <2>5
  <2>6. ASSUME bare(p) = bare(q), \A k \in bare(p) : p[k] = q[k]
        PROVE  StripSlashes(p) = StripSlashes(q)
    BY <2>1, <2>2, <2>4, <2>6, SeqEqual
  <2>7. bare(p) # {}
    <3>1. 1 \in 1..n
      BY <2>3
    <3> QED
      BY <2>1, <3>1
  <2> QED
    BY <2>5, <2>6, <2>7
<1>5. ASSUME ~Named(p), ~Named(q)
      PROVE  StripSlashes(p) = StripSlashes(q) <=> (Len(p) <= 1 <=> Len(q) <= 1)
  <2>1. <<None>> # <<>>
    OBVIOUS
  <2> QED
    BY <1>1, <1>5, <2>1
<1>6. SamePath(p, q) <=> /\ bare(p) = bare(q) /\ \A n \in bare(p) : p[n] = q[n]
                         /\ bare(p) = {} => (Len(p) <= 1 <=> Len(q) <= 1)
  BY DEF SamePath
<1>7. ~Named(p) => bare(p) = {}
  BY <1>1
<1>8. ~Named(q) => bare(q) = {}
  BY <1>1
<1> HIDE DEF bare
<1>9. CASE Named(p) /\ Named(q)
  BY <1>4, <1>6, <1>9
<1>10. CASE ~Named(p) /\ ~Named(q)
  BY <1>5, <1>6, <1>7, <1>8, <1>10
<1>11. CASE Named(p) /\ ~Named(q)
  BY <1>3, <1>6, <1>11
<1>12. CASE ~Named(p) /\ Named(q)
  BY <1>3, <1>6, <1>12
<1> QED
  BY <1>9, <1>10, <1>11, <1>12

LEMMA KeptPortsAgree ==
    ASSUME NEW u, NEW v, u.port \in Nat \cup {NoPort}, v.port \in Nat \cup {NoPort},
           u.scheme = v.scheme
    PROVE  KeptPort(u) = KeptPort(v) <=> PortOf(Blurred(u)) = PortOf(Blurred(v))
<1>1. \A w : /\ Blurred(w).scheme = w.scheme
             /\ Blurred(w).port = IF w.port = 0 THEN NoPort ELSE w.port
  BY DEF Blurred
<1> QED
  BY <1>1, NoPortAssumption DEF KeptPort, PortOf

\* Two usable hits are normalised to the same URL exactly when they are of the
\* same document, :0 and ;params aside.
LEMMA NormalUrlsAreDocuments ==
    ASSUME NEW Segments, UrlsAreTyped(Segments),
           NEW g \in Hits, NEW h \in Hits, Usable(g), Usable(h)
    PROVE  NormalizeUrl(g.url) = NormalizeUrl(h.url)
             <=> SameDocument(Blurred(g.url), Blurred(h.url))
<1>1. /\ g.url.port \in Nat \cup {NoPort} /\ g.url.path \in Seq(Segments)
      /\ h.url.port \in Nat \cup {NoPort} /\ h.url.path \in Seq(Segments)
  BY DEF UrlsAreTyped
<1>2. HasHost(g.url) /\ HasHost(h.url)
  BY DEF Usable, NormalizeUrl
<1>3. StripSlashes(g.url.path) = StripSlashes(h.url.path) <=> SamePath(g.url.path, h.url.path)
  BY <1>1, StrippedPathsAgree
<1>4. g.url.scheme = h.url.scheme
        => (KeptPort(g.url) = KeptPort(h.url)
              <=> PortOf(Blurred(g.url)) = PortOf(Blurred(h.url)))
  BY <1>1, KeptPortsAgree
<1>5. \A url : HasHost(url) =>
        NormalizeUrl(url) = [scheme |-> url.scheme, host |-> url.host, port |-> KeptPort(url),
                             path |-> StripSlashes(url.path),
                             query |-> WithoutTracking(url.query)]
  BY DEF NormalizeUrl
<1>6. \A url : /\ Blurred(url).scheme = url.scheme /\ Blurred(url).host = url.host
               /\ Blurred(url).path = url.path /\ Blurred(url).params = None
               /\ Blurred(url).query = url.query
  BY DEF Blurred
<1>7. SameDocument(Blurred(g.url), Blurred(h.url)) <=>
        /\ g.url.scheme = h.url.scheme /\ g.url.host = h.url.host
        /\ PortOf(Blurred(g.url)) = PortOf(Blurred(h.url))
        /\ SamePath(g.url.path, h.url.path)
        /\ WithoutTracking(g.url.query) = WithoutTracking(h.url.query)
  BY <1>6 DEF SameDocument
<1> QED
  BY <1>2, <1>3, <1>4, <1>5, <1>7

\* Each candidate is all usable hits of one document; hits of another document
\* are among them exactly when nothing but ;params or a written :0 tells their
\* URLs apart, whatever the URLs are.
THEOREM DocumentsAreNotMixed ==
    ASSUME NEW Segments, UrlsAreTyped(Segments)
    PROVE  ConsolidationSpec => []EachDocumentOnce
<1>1. ConsolidationTypeOK => EachDocumentOnce
  <2> SUFFICES ASSUME ConsolidationTypeOK, NEW n \in DOMAIN candidates,
                      NEW i \in Mentions(candidates[n].url), NEW k \in UsableHits
               PROVE  k \in Mentions(candidates[n].url)
                        <=> SameDocument(Blurred(found[i].hit.url), Blurred(found[k].hit.url))
    BY DEF EachDocumentOnce
  <2>1. /\ i \in UsableHits /\ UrlOf(i) = candidates[n].url
        /\ k \in Mentions(candidates[n].url) <=> UrlOf(k) = candidates[n].url
    BY DEF Mentions
  <2>2. \A m \in UsableHits : found[m].hit \in Hits /\ Usable(found[m].hit)
    <3> TAKE m \in UsableHits
    <3>1. m \in 1..Len(found) /\ Usable(found[m].hit) /\ found \in HitList
      BY LenProperties DEF UsableHits, ConsolidationTypeOK, HitList
    <3>2. found[m] \in [query : Queries, hit : Hits]
      BY <3>1, ElementOfSeq DEF HitList
    <3> QED
      BY <3>1, <3>2
  <2> QED
    BY <2>1, <2>2, NormalUrlsAreDocuments DEF UrlOf
<1> QED
  BY <1>1, ConsolidationIsTyped, PTL

=============================================================================
