----------------------------- MODULE SearchPass -----------------------------
(***************************************************************************)
(* run_search_pass: one list of queries through the Redis cache and then,  *)
(* for the misses, through Exa on a pool of MaxConcurrency threads.        *)
(*                                                                         *)
(* A worker is a process of component B; two of them overlap when a plan   *)
(* is redelivered while its first delivery is still being handled.  Each   *)
(* worker runs pass after pass, and the cache outlives them all.           *)
(*                                                                         *)
(* The caller's thread checks the cache, collects the results of the pool  *)
(* and writes the cache; only Exa calls run in the pool.  Leaving the      *)
(* `with` block waits for every submitted call, also after an exception.   *)
(*                                                                         *)
(* Redis and Exa are external: a Redis call may raise, before or after it  *)
(* took effect, a key may expire at any time, and an Exa call may fail or  *)
(* return any list of hits.                                                *)
(***************************************************************************)
EXTENDS Naturals, FiniteSets

CONSTANTS
    Workers,         \* processes of component B
    Queries,         \* numbered in the order of the lists they are in
    QueryLists,      \* what a pass is given: a plan's queries, or follow-ups
    Texts,           \* cache keys: normalised query text and critical date
    TextOf,          \* the key of each query; equivalent queries share one
    HitLists,        \* what Exa may return for a query, the empty list included
    NoAnswer,        \* what the cache returns on a miss
    MaxConcurrency,
    MaxRetries,
    MaxFaults        \* bound on Redis errors and crashes

\* An answer is a list of hits and the text it was found for.
Answer == [text : Texts, found : HitLists]

ASSUME NoAnswerAssumption == NoAnswer \notin Answer
ASSUME QueriesAssumption == Queries \subseteq Nat /\ IsFiniteSet(Queries)
ASSUME QueryListsAssumption == QueryLists \subseteq SUBSET Queries
ASSUME TextOfAssumption == TextOf \in [Queries -> Texts]
ASSUME MaxRetriesAssumption == MaxRetries \in Nat \ {0}
ASSUME MaxConcurrencyAssumption == MaxConcurrency \in Nat \ {0}
ASSUME MaxFaultsAssumption == MaxFaults \in Nat

VARIABLES
    pc,        \* where each worker's calling thread is
    asked,     \* the queries of its pass
    task,      \* what has become of each query
    tries,     \* attempts that have failed for a query being searched
    hits,      \* the answer each query has got
    counts,    \* cache_hits, cache_misses and searches_run
    cache,     \* Redis: the answer stored under each key
    obtained,  \* history: keys answered by Exa and not lost since
    faults     \* how much has gone wrong so far

passVars == <<asked, task, tries, hits, counts>>
vars == <<pc, passVars, cache, obtained, faults>>

PassPc == {"idle", "checking", "waiting", "closing", "returned", "raised"}
TaskState == {"none", "unchecked", "hit", "queued", "calling", "answered", "gaveup",
              "kept", "failed"}

\* The type of every variable; the attempts stay within the retry budget.
TypeOK ==
    /\ pc \in [Workers -> PassPc]
    /\ asked \in [Workers -> SUBSET Queries]
    /\ task \in [Workers -> [Queries -> TaskState]]
    /\ tries \in [Workers -> [Queries -> 0..(MaxRetries - 1)]]
    /\ hits \in [Workers -> [Queries -> Answer \cup {NoAnswer}]]
    /\ counts \in [Workers -> [hit : Nat, miss : Nat, search : Nat]]
    /\ cache \in [Texts -> Answer \cup {NoAnswer}]
    /\ obtained \in SUBSET Texts
    /\ faults \in 0..MaxFaults

NoCounts == [hit |-> 0, miss |-> 0, search |-> 0]

Init ==
    /\ pc = [w \in Workers |-> "idle"]
    /\ asked = [w \in Workers |-> {}]
    /\ task = [w \in Workers |-> [q \in Queries |-> "none"]]
    /\ tries = [w \in Workers |-> [q \in Queries |-> 0]]
    /\ hits = [w \in Workers |-> [q \in Queries |-> NoAnswer]]
    /\ counts = [w \in Workers |-> NoCounts]
    /\ cache = [t \in Texts |-> NoAnswer]
    /\ obtained = {}
    /\ faults = 0

Fault == faults < MaxFaults /\ faults' = faults + 1

\* The calling thread and the pool both take queries in the plan's order.
IsFirst(w, q, state) ==
    /\ task[w][q] = state
    /\ \A r \in Queries : r < q => task[w][r] # state

MoveTask(w, q, from, to) ==
    /\ task[w][q] = from
    /\ task' = [task EXCEPT ![w][q] = to]

Count(w, field) == counts' = [counts EXCEPT ![w][field] = @ + 1]

\* Keys whose answer w has received from Exa and not yet dealt with.
InHand(w) == {TextOf[q] : q \in {r \in Queries : task[w][r] = "answered"}}

-----------------------------------------------------------------------------
(* The calling thread, until the pool is opened.                           *)

\* run_search_loop starts a pass, or the same plan is delivered again.
StartPass(w) ==
    /\ pc[w] = "idle"
    /\ \E S \in QueryLists :
         /\ asked' = [asked EXCEPT ![w] = S]
         /\ task' = [task EXCEPT ![w] = [q \in Queries |->
                                           IF q \in S THEN "unchecked" ELSE "none"]]
    /\ pc' = [pc EXCEPT ![w] = "checking"]
    /\ UNCHANGED <<tries, hits, counts, cache, obtained, faults>>

CheckHit(w, q) ==
    /\ pc[w] = "checking"
    /\ IsFirst(w, q, "unchecked")
    /\ cache[TextOf[q]] # NoAnswer
    /\ MoveTask(w, q, "unchecked", "hit")
    /\ hits' = [hits EXCEPT ![w][q] = cache[TextOf[q]]]
    /\ Count(w, "hit")
    /\ UNCHANGED <<pc, asked, tries, cache, obtained, faults>>

\* Mistake: `if cached:` takes a stored empty list for a miss.
CheckMissOnEmpty(w, q) ==
    /\ pc[w] = "checking"
    /\ IsFirst(w, q, "unchecked")
    /\ cache[TextOf[q]] # NoAnswer => cache[TextOf[q]].found = <<>>
    /\ MoveTask(w, q, "unchecked", "queued")
    /\ Count(w, "miss")
    /\ UNCHANGED <<pc, asked, tries, hits, cache, obtained, faults>>

\* None is a miss, an empty list is not.
CheckMiss(w, q) ==
    /\ pc[w] = "checking"
    /\ IsFirst(w, q, "unchecked")
    /\ cache[TextOf[q]] = NoAnswer
    /\ MoveTask(w, q, "unchecked", "queued")
    /\ Count(w, "miss")
    /\ UNCHANGED <<pc, asked, tries, hits, cache, obtained, faults>>

CheckRaises(w) ==
    /\ pc[w] = "checking"
    /\ \E q \in Queries : task[w][q] = "unchecked"
    /\ Fault
    /\ pc' = [pc EXCEPT ![w] = "raised"]
    /\ UNCHANGED <<passVars, cache, obtained>>

\* Without a miss no pool is opened and the pass returns.
OpenPool(w) ==
    /\ pc[w] = "checking"
    /\ \A q \in Queries : task[w][q] # "unchecked"
    /\ pc' = [pc EXCEPT ![w] = IF \E q \in Queries : task[w][q] = "queued"
                               THEN "waiting" ELSE "returned"]
    /\ UNCHANGED <<passVars, cache, obtained, faults>>

-----------------------------------------------------------------------------
(* The pool: _search_with_retries for each miss.                           *)

PoolIsOpen(w) == pc[w] \in {"waiting", "closing"}
poolFrame == <<pc, asked, counts, cache, faults>>

StartSearch(w, q) ==
    /\ PoolIsOpen(w)
    /\ IsFirst(w, q, "queued")
    /\ Cardinality({r \in Queries : task[w][r] = "calling"}) < MaxConcurrency
    /\ MoveTask(w, q, "queued", "calling")
    /\ UNCHANGED <<poolFrame, tries, hits, obtained>>

ExaAnswers(w, q) ==
    /\ PoolIsOpen(w)
    /\ MoveTask(w, q, "calling", "answered")
    /\ \E found \in HitLists :
         hits' = [hits EXCEPT ![w][q] = [text |-> TextOf[q], found |-> found]]
    /\ tries' = [tries EXCEPT ![w][q] = 0]
    /\ obtained' = IF pc[w] = "waiting" THEN obtained \cup {TextOf[q]} ELSE obtained
    /\ UNCHANGED poolFrame

\* Mistake: one attempt more than the budget.
ExaFailsOnceMore(w, q) ==
    /\ PoolIsOpen(w)
    /\ task[w][q] = "calling"
    /\ tries[w][q] < MaxRetries
    /\ tries' = [tries EXCEPT ![w][q] = @ + 1]
    /\ UNCHANGED <<poolFrame, task, hits, obtained>>

\* An attempt fails and another one follows at once.
ExaFails(w, q) ==
    /\ PoolIsOpen(w)
    /\ task[w][q] = "calling"
    /\ tries[w][q] + 1 < MaxRetries
    /\ tries' = [tries EXCEPT ![w][q] = @ + 1]
    /\ UNCHANGED <<poolFrame, task, hits, obtained>>

\* Mistake: after the last attempt the query starts over.
GiveUpNever(w, q) ==
    /\ PoolIsOpen(w)
    /\ task[w][q] = "calling"
    /\ tries[w][q] + 1 = MaxRetries
    /\ tries' = [tries EXCEPT ![w][q] = 0]
    /\ UNCHANGED <<poolFrame, task, hits, obtained>>

GiveUp(w, q) ==
    /\ PoolIsOpen(w)
    /\ tries[w][q] + 1 = MaxRetries
    /\ MoveTask(w, q, "calling", "gaveup")
    /\ tries' = [tries EXCEPT ![w][q] = 0]
    /\ UNCHANGED <<poolFrame, hits, obtained>>

-----------------------------------------------------------------------------
(* The calling thread again: the loop over as_completed.                   *)

\* Mistake: a search is counted when it fails, not when it succeeds.
KeepHitsUncounted(w, q) ==
    /\ pc[w] = "waiting"
    /\ MoveTask(w, q, "answered", "kept")
    /\ cache' = [cache EXCEPT ![TextOf[q]] = hits[w][q]]
    /\ UNCHANGED <<pc, asked, tries, hits, counts, obtained, faults>>

KeepHits(w, q) ==
    /\ pc[w] = "waiting"
    /\ MoveTask(w, q, "answered", "kept")
    /\ cache' = [cache EXCEPT ![TextOf[q]] = hits[w][q]]
    /\ Count(w, "search")
    /\ UNCHANGED <<pc, asked, tries, hits, obtained, faults>>

\* set_hits raises, with or without the key having been written: the
\* exception leaves the loop, and the other answers are not looked at.
KeepHitsRaises(w, q) ==
    /\ pc[w] = "waiting"
    /\ task[w][q] = "answered"
    /\ Fault
    /\ \/ UNCHANGED cache
       \/ cache' = [cache EXCEPT ![TextOf[q]] = hits[w][q]]
    /\ pc' = [pc EXCEPT ![w] = "closing"]
    /\ obtained' = obtained \ InHand(w)
    /\ UNCHANGED passVars

\* The first error is remembered and the loop goes on.
NoteFailure(w, q) ==
    /\ pc[w] = "waiting"
    /\ MoveTask(w, q, "gaveup", "failed")
    /\ UNCHANGED <<pc, asked, tries, hits, counts, cache, obtained, faults>>

\* Mistake: the first failure ends the loop.
FinishPassAtFirstError(w) ==
    /\ pc[w] = "waiting"
    /\ \A q \in asked[w] : task[w][q] \notin {"queued", "calling"}
    /\ \/ /\ \E q \in asked[w] : task[w][q] = "failed"
          /\ pc' = [pc EXCEPT ![w] = "raised"]
       \/ /\ \A q \in asked[w] : task[w][q] \in {"hit", "kept"}
          /\ pc' = [pc EXCEPT ![w] = "returned"]
    /\ UNCHANGED <<passVars, cache, obtained, faults>>

\* Mistake: a query that failed counts as one without hits.
FinishPassSwallowsErrors(w) ==
    /\ pc[w] = "waiting"
    /\ \A q \in asked[w] : task[w][q] \in {"hit", "kept", "failed"}
    /\ pc' = [pc EXCEPT ![w] = "returned"]
    /\ UNCHANGED <<passVars, cache, obtained, faults>>

\* Every call has been collected: raise first_error, or return the hits.
FinishPass(w) ==
    /\ pc[w] = "waiting"
    /\ \A q \in asked[w] : task[w][q] \in {"hit", "kept", "failed"}
    /\ pc' = [pc EXCEPT ![w] = IF \E q \in asked[w] : task[w][q] = "failed"
                               THEN "raised" ELSE "returned"]
    /\ UNCHANGED <<passVars, cache, obtained, faults>>

\* Mistake: shutdown(wait=False).
ClosePoolAtOnce(w) ==
    /\ pc[w] = "closing"
    /\ pc' = [pc EXCEPT ![w] = "raised"]
    /\ UNCHANGED <<passVars, cache, obtained, faults>>

\* The pool has shut down and the exception of set_hits goes on.
ClosePool(w) ==
    /\ pc[w] = "closing"
    /\ \A q \in asked[w] : task[w][q] \notin {"queued", "calling"}
    /\ pc' = [pc EXCEPT ![w] = "raised"]
    /\ UNCHANGED <<passVars, cache, obtained, faults>>

-----------------------------------------------------------------------------
ForgetPass(w) ==
    /\ pc' = [pc EXCEPT ![w] = "idle"]
    /\ asked' = [asked EXCEPT ![w] = {}]
    /\ task' = [task EXCEPT ![w] = [q \in Queries |-> "none"]]
    /\ tries' = [tries EXCEPT ![w] = [q \in Queries |-> 0]]
    /\ hits' = [hits EXCEPT ![w] = [q \in Queries |-> NoAnswer]]
    /\ counts' = [counts EXCEPT ![w] = NoCounts]

\* Mistake: the totals of a pass run on into the next one.
LeavePassKeepsTotals(w) ==
    /\ pc[w] \in {"returned", "raised"}
    /\ pc' = [pc EXCEPT ![w] = "idle"]
    /\ asked' = [asked EXCEPT ![w] = {}]
    /\ task' = [task EXCEPT ![w] = [q \in Queries |-> "none"]]
    /\ tries' = [tries EXCEPT ![w] = [q \in Queries |-> 0]]
    /\ hits' = [hits EXCEPT ![w] = [q \in Queries |-> NoAnswer]]
    /\ UNCHANGED <<counts, cache, obtained, faults>>

\* run_search_loop has taken the result or the exception.
LeavePass(w) ==
    /\ pc[w] \in {"returned", "raised"}
    /\ ForgetPass(w)
    /\ UNCHANGED <<cache, obtained, faults>>

Crash(w) ==
    /\ pc[w] # "idle"
    /\ Fault
    /\ ForgetPass(w)
    /\ obtained' = obtained \ InHand(w)
    /\ UNCHANGED cache

Expire(t) ==
    /\ cache[t] # NoAnswer
    /\ cache' = [cache EXCEPT ![t] = NoAnswer]
    /\ obtained' = obtained \ {t}
    /\ UNCHANGED <<pc, passVars, faults>>

PassStep(w) ==
    \/ OpenPool(w) \/ FinishPass(w) \/ ClosePool(w)
    \/ \E q \in Queries : \/ CheckHit(w, q) \/ CheckMiss(w, q)
                          \/ KeepHits(w, q) \/ NoteFailure(w, q)

PoolStep(w) ==
    \E q \in Queries : StartSearch(w, q) \/ ExaAnswers(w, q) \/ ExaFails(w, q) \/ GiveUp(w, q)

Next ==
    \/ \E w \in Workers :
         \/ StartPass(w) \/ PassStep(w) \/ PoolStep(w) \/ LeavePass(w)
         \/ CheckRaises(w) \/ Crash(w)
         \/ \E q \in Queries : KeepHitsRaises(w, q)
    \/ \E t \in Texts : Expire(t)

\* The calling thread and the pool run on.  Nothing is assumed of the Exa calls:
\* ExaApi sets no timeout, and as_completed is called without one.
Fairness ==
    \A w \in Workers :
        WF_vars(PassStep(w)) /\ WF_vars(\E q \in Queries : StartSearch(w, q))

Spec == Init /\ [][Next]_vars /\ Fairness

-----------------------------------------------------------------------------
(* Properties                                                              *)

\* What Exa has answered is in the cache, or about to be written, until the
\* key expires, the write fails or the process dies: an answer is not dropped
\* because another query of its pass failed.
AnswersAreKept ==
    \A t \in obtained :
        \/ cache[t] # NoAnswer
        \/ \E w \in Workers : pc[w] = "waiting" /\ t \in InHand(w)

\* A query is put to Exa again only if an earlier answer was lost, or another
\* pass was about to store it when the cache was read.
AnswersAreReused ==
    [][\A w \in Workers, q \in Queries :
         task[w][q] = "unchecked" /\ task'[w][q] = "queued" /\ TextOf[q] \in obtained
           => \E v \in Workers : pc[v] = "waiting" /\ TextOf[q] \in InHand(v)]_vars

\* A pass that returns has for every query an answer to that query's text,
\* whoever asked Exa for it and when: a failure never passes for no hits.
PassIsComplete ==
    \A w \in Workers : pc[w] = "returned" =>
        \A q \in asked[w] : hits[w][q] \in Answer /\ hits[w][q].text = TextOf[q]

\* The totals of a pass that returns: every query is a hit or a miss, and
\* every miss was searched once, which is what run_search_loop adds up.
TotalsAddUp ==
    \A w \in Workers : pc[w] = "returned" =>
        /\ counts[w].hit + counts[w].miss = Cardinality(asked[w])
        /\ counts[w].search = counts[w].miss

\* What the caller of a pass sees of it: nothing before it has ended.
Stage(w) == IF pc[w] \in {"checking", "waiting", "closing"} THEN "running" ELSE pc[w]
Result(w) == IF pc[w] = "returned" THEN [q \in asked[w] |-> hits[w][q]] ELSE <<>>
TotalsSeen(w) == IF pc[w] = "returned" THEN counts[w] ELSE NoCounts

Contract == INSTANCE PassContract WITH
    stage <- [w \in Workers |-> Stage(w)],
    result <- [w \in Workers |-> Result(w)],
    totals <- [w \in Workers |-> TotalsSeen(w)]

\* However cache lookups, retries, failures, Redis errors and other passes on
\* the same cache interleave, a caller cannot tell a pass from one step that
\* either answers every query and counts each once, or raises.
PassKeepsContract == Contract!ContractSpec

\* No Exa call is still running when a pass has returned or raised.
NoSearchOutlivesItsPass ==
    \A w \in Workers, q \in Queries : task[w][q] = "calling" => PoolIsOpen(w)

\* No single Exa call of w's pass is out for ever: an answer, an exception or a
\* crash ends it.  The code does not see to it; the assumption is Exa's.
CallsReturn(w) ==
    \A q \in Queries, n \in 0..(MaxRetries - 1) :
        []<>~(task[w][q] = "calling" /\ tries[w][q] = n)

\* No pass runs for ever, whatever Exa's calls return or raise and whatever Redis
\* does, as long as they do return.  A call that never comes back holds its pass
\* and the worker, which no timeout in executor.py or exa.py takes from it.
PassEnds ==
    \A w \in Workers :
        CallsReturn(w) => []<>(pc[w] \in {"idle", "returned", "raised"})

\* A pass raises only if a query exhausted its retries, which is how the
\* comment at its only handler, in run_search_loop, reads the exception.
RaisesOnlyWhenSearchFails ==
    \A w \in Workers : pc[w] = "raised" =>
        \E q \in asked[w] : task[w][q] \in {"gaveup", "failed"}

=============================================================================
