# Agentic Patent Search in TLA+

A verification of the job pipeline of this repository: what happens to a job
between the upload of a specification and the report on the examiner's page, when
messages are duplicated, workers die, leases expire, connections are lost and
Claude answers anything. Modules are checked with TLC on small instances; the
invariants and action properties that the passing runs check are also proved with
TLAPS for every value of the constants, some from premises that section 5 names.

## 1. Inventory of the system

| Part | State | Operations | Talks to |
| --- | --- | --- | --- |
| Job store (`shared/db.py`, `shared/cloudsql.py`) | tables `jobs` (status, error code) and `reports` | `create_job`, `set_status`, `get_job`, `get_report`, `complete_job`, one transaction each | called by A and C |
| A, intake (`intake/`) | one request at a time (a coroutine that blocks its event loop) | `submit_job`, `run_intake`, `_fail`, `get_job` | Claude, store, publishes `search-plans` |
| B, search worker (`search/worker.py`) | the plan it holds; completion keys in Redis | `run_worker`, `handle_plan` | pulls `search-plans`, publishes `candidates` |
| B, search loop (`search/loop.py`) | follow-ups, pending queries, counters, candidates | pass, consolidate, ceilings, decide | Redis, Exa, Claude |
| B, search pass and cache (`executor.py`, `cache.py`) | hit lists in Redis with a lifetime | `run_search_pass`, `get_hits`, `set_hits` | Redis, Exa with four threads |
| B, consolidation (`consolidate.py`) | none across calls; it starts anew on the hits of all passes | URL normalisation, dates, merging | called by the loop |
| C, report worker (`report/worker.py`) | the batch it holds | `run_worker`, `handle_batch` | pulls `candidates`, store |
| C, ranking (`report/pipeline.py`) | none (pure, with retries) | fetch, rank, check, add notes | Exa, Claude |
| Messaging (`shared/messaging.py`, `pubsub.py`) | Pub/Sub subscriptions, leases | `publish`, `pull`, `ack`, `nack` | Pub/Sub |
| Message models (`shared/models.py`, `bounds.py`) | none | validators | every component |
| Frontend (`Frontend/`) | poll token, button, status line, report on display | submit, poll, render | A over HTTP, through the proxy of `server.py` |
| Configuration, logging, deployment | environment, logs | | |

What is hard here:

* *At-least-once delivery.* Plans and batches come again after a crash, an
  expired lease or a lost ack. Redis keys with a lifetime and the stored report
  are what makes a redelivery harmless.
* *Three writers of one row.* A and C write a job's status unconditionally, and
  A's last write comes after the message that lets B and C start.
* *Crashes between two effects:* publish and completion key, report and status,
  status and ack.
* *A message that always fails* shares its only worker with all other jobs.
* *Budgets kept in several places* that have to agree: the loop's counters, the
  message validators, the trimming of follow-ups.
* *Results merged in an order nobody chose:* a duplicate hit changes the date and
  provenance of a document seen passes before, and Claude has been shown the result.
* *Callbacks without cancellation:* a page's polls, timers and POST go on when their
  connection, their job or their proxy has gone.

The correctness conditions per component are listed with their runs in section 4,
and each hazard of `PROJECT.json` names the properties that watch it.

## 2. Modules

| Module | Models |
| --- | --- |
| `JobStore` | the store's transactions on `status`, `errorCode`, `report` |
| `JobLifecycle` | what a polling client is promised: the abstract specification, in the documented order and in any order |
| `Pipeline` | A, B and C over Pub/Sub and Redis; extends `JobStore` |
| `MCPipeline` | symmetry set for TLC |
| `Pipeline_proofs` | theorems about `Pipeline` |
| `Lifecycle_proofs` | `Pipeline` implements `JobLifecycle` |
| `SearchLoop` | `run_search_loop`, the search of one job inside B |
| `SearchLoop_proofs` | theorems about `SearchLoop` |
| `SearchPass` | `run_search_pass` on a shared cache, one level below `SearchLoop` |
| `PassContract` | what `run_search_loop` relies on when it calls a pass: the abstract specification of `SearchPass` |
| `MCSearchPass`, `SearchPass_proofs` | instances for TLC, theorems |
| `Bounds` | the bounds of `shared/bounds.py` that several modules share |
| `Consolidation` | `consolidate` hit by hit, and the passes around it |
| `MCConsolidation`, `Consolidation_proofs` | hits for TLC, theorems |
| `Ranking`, `Ranking_proofs` | `run_ranking`: fetching, ranking, checks, notes; theorems |
| `Evidence` | `Consolidation` and `Ranking` joined by the batch |
| `MCEvidence`, `Evidence_proofs` | hits for TLC, theorems |
| `PollingClient`, `PollingClient_proofs` | the pages and A's API in front of `JobLifecycle`; theorems |

`Pipeline` is what happens to a job; `SearchLoop`, `SearchPass`, `Consolidation` and
`Ranking` are what happens inside its steps `Search` and `Rank`; `JobLifecycle` is what
is seen of it from outside, and `PollingClient` is who looks.

### Pipeline

One action per stretch of code between two calls that leave the process; the
program counters are named after what comes next.

* **A**, `intake[j]`: `BeginJob` (create_job), `AnalyzeClaims` (Claude and plan
  validation), `SendPlan` and `ConfirmPlan` (the two halves of `publish`: Pub/Sub
  has the message, and the call returns), `PublishPlanRaises` in either half,
  `RecordSearching` (the 202 path), `RecordIntakeFailure` (`_fail`), `AbortIntake`
  (the process dies or the store raises). `submit_job` is a coroutine that calls
  the blocking `run_intake`, so `BeginJob` requires that no other request is inside.
* **B**, `searcher[w]`: `PullPlan`, `CheckPlan` (`job_is_done`), `Search` (the loop
  returns a batch, with or without error code), `SearchRaises` (the handler raises
  on every delivery of this job: `RaisingJobs`), `SendBatch`, `ConfirmBatch`,
  `MarkDone` (may fail silently), `AckPlan`, `DropPlan` (crash, or an exception and
  nack), `PlanLeaseExpires`, `DoneKeyExpires`.
* **C**, `reporter[w]`: `PullBatch`, `CheckBatch` (`get_report` and the error code),
  `StartRanking`, `Rank` (a report or `RankingFailedError`), `StoreReport`
  (`complete_job`), `RecordFailure`, `AckBatch`, `DropBatch`, `BatchLeaseExpires`.
* **Pub/Sub** is counted, not queued: `plans[j]` and `batches[b]` are copies waiting
  for delivery, in any order. A pulled copy belongs to its worker under a lease; it
  comes back when the worker drops it, when the lease expires (the worker keeps
  running), or when its ack is lost. An ack under an expired lease changes nothing.
* `sent`, `judged` and `faults` are history: plans Pub/Sub accepted, jobs for which C
  recorded a failure, and faults so far.

`JobLifecycle` is what the tables show from outside. `Pipeline` instantiates it with
its own three store variables (the refinement mapping is the identity on them).
`LifecycleSpec` is the order the repository documents; it needs premises. `AnyOrderSpec`
is what is left without them: a status may be overwritten by whoever writes last, but a job
that has been searched or ranked never looks new again, a completed job has a report, a
failed one its code, and the first report stays.

### SearchLoop

`RunPass`/`PassFails` is `run_search_pass` inside its try block; `Consolidate` also
makes the ceiling check that follows it; `AnswerInvalid`, `AnswerFinish` and
`AnswerContinue(n)` are the outcomes of one call of Claude with the validation in
`_decide_with_retries`; `Return` is `_batch`, which raises when `BatchFits` (the
counts in the Pydantic models) does not hold. Queries are counted: identifiers and
limitation links are part of "Claude's answer is refused" (`AnswerInvalid`), and
candidates are known by how many queries' hits they were built from.

`Pipeline` uses the result: `Search` returns one of the loop's outcomes, and
`SearchRaises` stands for the exception of `ConsolidateRaises`, which is cached
together with the hit that causes it.

### SearchPass

A worker's calling thread (`pc`) checks the cache (`CheckHit`, `CheckMiss`,
`CheckRaises`), opens the pool (`OpenPool`), collects what is ready (`KeepHits`,
`NoteFailure`, `KeepHitsRaises`) and ends (`FinishPass`). The pool takes misses in
order (`StartSearch`), each call ending in `ExaAnswers`, another attempt (`ExaFails`) or
`GiveUp`. `task` follows each query through these. When `set_hits` raises, the pass is
`closing`: leaving the `with` block still runs every submitted call, but nobody looks at
its answer. `as_completed` is "any ready query next". An answer carries the text it was
found for, so that a result from the wrong key can be told. `obtained` is history: texts
Exa has answered and whose answer nothing has lost since (expiry, a failed write, a crash).

`PassContract` is the pass as its caller sees it: it runs, and in one step returns an answer
to every query with totals that count each once, or raises. The refinement mapping
(`Stage`, `Result`, `TotalsSeen`) hides whatever an unfinished pass has done. These two
outcomes are `SearchLoop!RunPass` and `PassFails`; the totals are how the former splits a
pass's queries into hits and searches.

### Consolidation

`found` is `all_hits`. `Gather` is a pass, query by query: hits are kept in the order of
the queries, whichever search ended first. `StartWalk` is the call of `consolidate`, which
has no memory: `order` and `buckets` are its two local variables, and each iteration of its
loop is one of `SkipHit`, `OpenBucket`, `MergeHit` and `HitRaises` (the `ValueError` of
`parsed.port`). `BuildCandidates` is its last loop and the size caps. `Publish` ends the
search. A URL is the record that `urlparse` returns: its port a number or `NoPort`, its path
the sequence of segments between slashes, which is what `rstrip` is about, its `;params`,
and `written` for what of its spelling is case, user name or fragment. `NormalizeUrl` is
`normalize_url` on that record: scheme and host in lower case, user name and fragment
dropped (`written` is forgotten), default port and tracking parameters removed, trailing
slashes stripped, an empty string for `;params`, and no port for a written `:0`.

The properties compare the result with definitions that do not walk: `Mentions` is the set
of usable hits of a document, and a candidate is its first title, first date and set of
queries. `SameDocument` says when two raw URLs mean one document without normalising them:
`;params`, every port and `//` for `/` make another. `Blurred` names the two of these that
`normalize_url` does not keep, `;params` and `:0`; `EachDocumentOnce` says that candidates
mix documents that differ in one of these, and no others.

### Ranking and Evidence

`Receive` calls `run_ranking`. One URL after the other is fetched with its own attempts
(`FetchFinds`, `FetchFindsNothing`, `FetchRaises`, `FetchExhausted`). `RankerAnswers` is an
answer of Claude that passes everything: `BuildEvidence` is the adapter, which takes every
field except rank, explanation and quotes from the batch; `RanksAndUrlsAreUnique` are the
validators of `Report`; `CheckReport` is `_check_report`. `RankerFails` is an exception, a
refusal or a rejected answer, which share one budget. `AddNotes` is `_with_notes`:
`FailedFetchIsNoted` is what the repository promises of it, `NoteIsLostOnlyWhenFull` what the
code keeps of that. Items that Claude returns have any rank, any URL (one of them invented) and may quote their
document. `Evidence!Deliver` is the batch on its way from B to C; its copies and losses are
the subject of `Pipeline`, whose `Rank` step has the two outcomes of `Ranking`.

### PollingClient

`page` is what `app.js` keeps and shows; `chain[p][t]` is one run of the submit handler
with the polls it leads to, and `t` is its token, the value of `pollId` when it began.
`PressSubmit` is the handler up to its POST, `AcceptedAnswer`, `ErrorAnswer`, `LostAnswer`
what follows, `RunningAnswer`, `CompletedAnswer`, `FailedAnswer` what `poll` does with a
response, `TimerFires` the timeout, `Reload` the examiner. In A, `TakePost` and
`FinishPost` are the beginning and end of `submit_job`, during which `serving` keeps A's
event loop from taking anything else; `GetJob` reads the record and then the report, in two
transactions, and in a thread, so that a POST may come between. `RequestFails` is an error
response at any point, `DropRequest` a request without response: the proxy's timeout or the
network. A goes on with a request nobody waits for. `Elsewhere` is B and C: anything that
`JobLifecycle` lets happen to a job that has left `run_intake`. The module uses the actions
of `JobLifecycle` as its environment, and `Pipeline` is shown to implement them, so that
what a page is promised holds in front of the pipeline, under the premises of that proof.

## 3. Assumptions and bounds

* `MaxFaults` bounds crashes, nacks, lost acks, expired leases and failed key
  writes. Key expiry is not a fault. Three faults are enough for two redeliveries of
  a job together with a crash in between; the proofs have no bound.
* One or two jobs: jobs share workers, the request slot of A and nothing else.
* Two workers of C, or one; one of B. One process per component is deployed; two are
  what scaling out, or a worker that outlives its lease, amounts to.
* `IntakeOverlaps = FALSE` restricts a run to the usual case, that a request has left
  `run_intake` before B receives its plan. It is a premise of the properties that
  need it, not a fact about the code (see finding 1).
* `SearchLoop` runs with the production budgets (12, 40, 8, 7, 3 to 6, 3), unbounded
  otherwise: its state space is finite by itself, which is one of its properties.

* `SearchPass` runs with two workers, a list of two queries and a list of one that is
  equivalent to the first, two threads, two attempts and one fault. Two workers are the
  least that overlap; the third query meets the cache entry of the first both within and
  across workers. Exa answers with the empty list only, which is the answer easiest to
  take for a miss. A Redis write that raises may or may not have taken effect.

* `Consolidation` runs with two passes of one query, or one pass of both, at most two hits
  each: four hits, any of the thirteen in `MCHits`, in any order. They have for one document
  no date, two good dates and one too late, another spelling, and the same path with
  `;params`; for the root of a host another port in two spellings, the default port, `:0` and
  the path `//`; and three URLs that cannot be used or raise. Two rows (`MaxCandidates`)
  make the cap bite. Lengths of URLs count segments.
* `Evidence` takes four of these hits, since answers of Claude multiply them; one note, so
  that Claude can use up the notes; two attempts. `evidence_full_notes` has one row and the
  code's twenty notes and three attempts.
* `PollingClient` has two pages and two jobs, and a page submits at most twice between two
  reloads, so that a new chain meets an old one. Two pages are what makes one page's POST
  block the other's poll. A job id is drawn when the button is pressed: `create_job` draws a
  fresh one later, which nobody can tell.

Fairness (`Pipeline!Fairness`): a request that was admitted runs on; each worker works
off what it holds and keeps pulling (`while True` in `run_worker`, restarted by systemd
with `Restart=on-failure`). Pulling one particular waiting plan is strongly fair: the
worker is busy between two pulls, and Pub/Sub does not pass over a message for ever.
No fault is fair. That the search or ranking a worker is in comes to an end is assumed in
`Pipeline`; the modules below it say how far the code sees to it.

That depends on timeouts. Claude's calls have one (120 s in the three adapters), Redis has
one (5 s). The Exa client is built without one (`shared/providers/exa.py:111`), neither of
its calls sets one (`:125` and `:153`), and `executor.py:89` waits on `as_completed` without one. So a call of Exa that never returns
holds a pass, its search and the only search worker for ever, or a ranking and the only
report worker, and no fairness is assumed of such calls. `SearchPass` assumes weak fairness
of each worker's thread and of its pool taking the next task, `SearchLoop` of everything but
the end of a pass, `Evidence` of everything in `run_ranking` but the fetches. The properties
name what else they need as a premise: `PassEnds` that each call returns (`CallsReturn`),
`SearchEnds` that each pass ends (`PassesEnd`), `RankingEnds` that each fetch returns
(`FetchesReturn`). None of the three holds without its premise, and what they say with it is
that retries, passes and answers are counted. Keys need not expire and nothing has to fail.

In `PollingClient`, weak fairness of what a page does with answers and timers and of A ending
a request it has taken, strong fairness of A taking a request: the loop is free only between
POSTs. Nobody has to press a button, no request has to fail, and B and C need not act;
that a job comes to an end is the premise of `FormComesBack`, not an assumption.

## 4. Runs

| Run | Checks | Shows |
| --- | --- | --- |
| `pipeline_overlap` | `TypeOK`, `NoLostJob`, `DoneKeyMeansPublished`, `ReportIsFinal`, `FollowsAnyOrder` | one job, two report workers, three faults: at-least-once delivery with ack-after-output loses nothing, never replaces a report, and shows a client the lifecycle in any order |
| `pipeline_deployed` | `NoReportLeftRanking`, `ReportersLeaveReportedJobs`, `AcceptedJobSettles` | with one worker of each kind, C never disturbs a reported job, and a job is settled although another job's plan fails for ever |
| `pipeline_prompt` | `RecordsAgree`, `FollowsLifecycle`, `BegunJobFinishes` | when A leaves in time, the pipeline implements `JobLifecycle` and every job that was begun ends completed or failed for good, unless its request died before the plan was sent |
| `pipeline_late_status` | `NoJobRunsForever` (violated) | finding 1 |
| `search_loop` | `TypeOK`, `CeilingsHold`, `BatchIsCurrent`, `BatchIsAccepted`, `FullPlanBudgetIsUsable`, `SearchEnds` | the loop keeps its budgets, ends if its passes do, and returns current batches its validators accept |
| `search_loop_raises` | `LoopNeverRaises` (violated) | finding 2 |
| `search_pass` | `TypeOK`, `AnswersAreKept`, `PassIsComplete`, `TotalsAddUp`, `NoSearchOutlivesItsPass`, `AnswersAreReused`, `PassKeepsContract`, `PassEnds` | overlapping passes on one cache return complete results, neither lose nor repeat a paid search without cause, look like one step to their caller, and end if Exa's calls return |
| `search_pass_redis` | `RaisesOnlyWhenSearchFails` (violated) | finding 3 |
| `consolidation` | `ConsolidationTypeOK`, `CandidatesAreFirstFound`, `HitsAreMerged`, `EachDocumentOnce`, `CandidatesOnlyGrow` | merging hit by hit gives what all hits together say, normalised URLs keep documents together and apart but for `;params` and `:0`, and a later pass only adds |
| `evidence` | `TypeOK`, `BatchIsValid`, `ReportIsSound`, `NoteIsLostOnlyWhenFull`, `EvidenceHasASource`, `RankingEnds` | whatever Claude answers, the evidence of a report leads back to hits that found it, missing texts are noted unless Claude filled the notes, and ranking ends if fetches return |
| `evidence_full_notes` | `FailedFetchIsNoted` (violated) | finding 4 |
| `polling_client` | `TypeOK`, `OneChainAtATime`, `CompletedShowsItsReport`, `FormComesBack` | two pages with lost connections and reloads never run two polling loops, show the report of the job they name, and give the button back or say that the connection is lost |

`Pipeline` and `SearchPass` runs check for deadlock; `KeepPolling` is
`Pipeline`'s idle system. `SearchLoop`, `Consolidation` and `Evidence` end with their batch
or report, and pages may have used up `MaxSubmits`, so those runs do not.

### Findings

1. A writes `searching` after the plan is published. If B and C were faster, that write
   replaces their `failed` or `completed`, and nothing writes the status again.
2. A hit with a malformed port makes `consolidate` raise outside the loop's try block;
   the plan is redelivered and, with the hits cached, raises again.
3. A Redis error in a pass is caught as if a query had exhausted its retries: the job ends
   as `search_failed` for good, although the comments call cache errors retried or
   best-effort.
4. When a retrieval has failed and Claude has written twenty notes of its own, `_with_notes`
   drops `FETCH_FAILED_NOTE`, which `spec.md` promises without exception: the report does not
   say that a document was ranked from its snippet.

Met on the way, without a run of their own:

* Follow-ups are capped at 28 even if the original plan had fewer than 12 queries, so
  Claude's continue can be refused with budget left. `FullPlanBudgetIsUsable` is about plans
  of 12 queries, for which the two limits agree.
* With a second report worker, which is not deployed, one worker may store the report between
  the other's `get_report` (`report/worker.py:45`) and its `set_status` (`:60`). If the other
  then stops, the redelivered batch is skipped as a duplicate and the job stays `ranking` with
  a report. `pipeline_deployed` with `Reporters = {c1, c2}` violates `NoReportLeftRanking` in
  this way, although the comment at `:43` rules it out; this is why theorems name `OneReporter`.
* `poll`'s catch block leaves the button disabled: after one lost poll only a reload helps.
  `FormComesBack` counts the message that the connection was lost as an answer.
* `normalize_url` merges what it rebuilds alike: `/doc;id=1` and `/doc;id=2`, since it writes
  an empty string for `;params`, and a port written `:0` with no port. The merged candidate
  has the URL of neither when both have `;params`. Paths `/` and `//` stay apart, while other
  trailing slashes are stripped. No doc says otherwise; `EachDocumentOnce` says just this.
* `ExaApi` sets no timeout (see section 3).

## 5. Proofs

`Pipeline_proofs`, for any sets of jobs and workers and any number of faults:

* `TypeCorrect`: `TypeOK` is not inductive by itself, since a worker's job ends up in
  `doneKeys` and `judged`; `BusyWorkersHoldJobs` adds that a busy worker holds a job and
  one about to store has a report.
* `JobsAreNeverLost`, `DoneKeysAreSound`: the inductive invariant `IInv` adds what a
  worker's position witnesses: past its publish, B's job is published
  (`SentBatchesArePublished`); before its ack, C's job is settled
  (`AckedBatchesAreSettled`). The argument is that being published is stable
  (`PublishedStable`) and that a plan stays outstanding until then (`PlanStable`).
* `ReportsAreFinal`: from `TypeInv`, an action property.
* `OnlyFaultsDuplicate`: while `faults` is zero, no two workers are on the same job, and
  neither `handle_plan` nor `handle_batch` finds a duplicate. `OnceInv` follows a job
  through the one place it can be in (`PlanInOnePlace`, `BatchInOnePlace`) and says that
  what comes later has not happened yet (`InOrder`); most steps only take something away
  (`TakingAwayIsHarmless`). That a key found would be a duplicate's is
  `DoneKeyMeansPublished` again. So the duplicate checks are there for faults alone,
  however many workers are deployed; a plan that always raises is no fault here.

`Lifecycle_proofs`, for any jobs, search workers and faults, from two premises: requests
leave `run_intake` before B receives their plan (`Prompt`) and there is at most one report
worker (`OneReporter`); finding 1 and the second report worker above are what happens
without them.

* `PipelineFollowsLifecycle`: every step of `Pipeline` is a step of `JobLifecycle` or leaves
  the tables alone. The invariant `PromptInv` adds that nobody works on a job whose request
  is inside `run_intake` (`WorkFollowsIntake`), and that a report worker past its duplicate
  check finds the tables as it left them (`ReporterRecords`).
* `RecordsAlwaysAgree`: a part of the same invariant.
* `PipelineFollowsAnyOrder` needs neither premise: a status that is overwritten, as in those
  two cases, is all that overlap can do to the tables. Its invariant `OverlapInv` says that only jobs with a row are worked on
  (`OnlyBegunJobs`), and that a job has left `analyzing` once a report worker ranks it
  (`RankedJobsLeftAnalyzing`).
* `LifecycleIsAnyOrder`: the documented order implies the other one.

`SearchLoop_proofs`, for all budgets that satisfy the named assumptions: `BudgetsAreKept`,
`BatchesAreAccepted`, `BatchesAreCurrent`, `FullPlansUseTheBudget`. The invariant `LoopInv`
says what the counters mean at each point: pending queries are exactly those not yet
accounted for before a pass, everything is accounted for after it, and no ceiling has
been reached while Claude is asked. `SearchesRunOut` is the part of `SearchEnds` that depends
neither on fairness nor on passes ending: `StepsLeft` is a natural number and each step lowers it, since an
invalid answer uses up an attempt and a continue uses up a pass.

`SearchPass_proofs`, for any finite set of queries and any workers, texts and budgets:
`AnswersStayKept`, `AnswersStayReused`, `PassesAreComplete`, `SearchesEndWithTheirPass` from
`PassInv`, which says where each task may be while the thread is at a given point (`Placed`)
and that held and cached answers are to their own text (`Held`, `CacheIsSound`);
`TotalsAlwaysAddUp` from `TallyInv`, where each counter is the cardinality of a set of tasks.
`PassesKeepTheirContract` joins them into the refinement: a returning pass has an answer to
each query's own text and totals that add up, everything before is a stutter. Of `PassEnds`
there are two parts that need neither fairness nor calls that return: `PassesNeverGetStuck` (a pass that has not ended has a
thread that can go on, or a call in the pool that can) and `PassesMoveForward` (no step of
another worker moves a pass, and its own bring its thread or one of its queries forward).

`LoopsAreTyped` and `PassesAreTyped` are the type invariants of these two modules.

`Lifecycle_proofs` also proves the two properties of the deployed configuration,
`ReportedJobsAreNotRanking` and `ReportedJobsAreLeftAlone`, from `OneReporter` alone. The
invariant `DeployedInv` says that a worker past its duplicate check works on a job without
a report (`WorksOnOpenJobs`): only that worker could have stored one since.

`Consolidation_proofs`, for any hits, queries, dates and caps:

* `FirstDocumentsAreKept` and `MergingLosesNothing`: the invariant is that the properties
  hold of the hits walked so far. The set of hits seen grows by one element with each
  iteration, and its first elements stay first. The cap on provenance never bites, since the
  queries of a document are distinct and at most `NumQueries` (a pigeonhole argument).
* `DocumentsAreNotMixed`, for all URLs of the types `urlparse` gives (`UrlsAreTyped`): two have
  equal normal forms exactly when they are one document but for what `Blurred` takes away. By
  the last named segment of their paths (`StrippedPathsAgree`), the paths of slashes alone
  (`StripsSlashesOnly`), and their ports (`KeptPortsAgree`).
* `CandidatesAreNeverTakenBack`: `GrowthInv` says that there is a record of the longest walk
  so far, hit by hit (`IsWalk`), of which the present walk is a part and from a point of which
  the candidates were built. `consolidate` is deterministic and hits are only appended, so a
  new walk repeats the record and then extends it, and one more hit only adds to order and
  buckets (`AfterHitGrows`). The record is quantified in the invariant; the specification has
  no history variable for it.
* `ConsolidationIsTyped`.

`Ranking_proofs`: `ReportsAreSound` and `NotesAreLostOnlyWhenFull`, for any batch of distinct
URLs and any bounds. `Evidence_proofs` has the same for the composition
(`EvidenceIsAboutItsRow`, `ReportsLoseNotesOnlyWhenFull`), each of whose steps is a step of one
part and a stutter of the other, and what only the composition can say: `BatchesAreValid`,
and `EvidenceLeadsBackToHits`, which joins B's `MergingLosesNothing` with C's `ReportIsSound`
over the batch that both know. `RankingsRunOut` counts the steps a ranking has left, as
`SearchesRunOut` does for the search: a fetch uses up an attempt or a row, an answer of
Claude's an attempt.

`PollingClient_proofs`, for any pages, jobs and number of submissions: `PagesAreTyped`,
`PollsNeverRace`, `PagesShowTheirReports`. `ClientInv` adds to them that a polling chain is
about the job its page shows, and that what a request has read is still true when its answer
arrives (`ChainIsTrue`): a completed job stays completed with its report (`MovesOn`), as
`JobLifecycle` promises.

Only model-checked: the liveness properties (`AcceptedJobSettles`, `BegunJobFinishes`,
`SearchEnds`, `PassEnds`, `RankingEnds`, `FormComesBack`), since fairness and ENABLED are
beyond the prover. Of `SearchEnds`, `PassEnds` and `RankingEnds` what remains to TLC is that,
under their premises, a step which can be taken is taken. The runs that expect a violation are TLC's alone.

## 6. Not modelled

* Text extraction, prompts and the Claude adapters of A and B (which format and parse),
  configuration, logging, rendering: no state that a later step reads. What Claude and Exa
  may answer is any value their response types allow.
* `save_report` alone: no component calls it. The fakes and `InMemoryBroker` are test doubles.
* Poison payloads (acked, their job stranded) need two versions of the code.
* Of `normalize_url`: percent-encoding, the brackets of IPv6 hosts and surrounding blanks.
* Lengths and truncation of texts, identifiers and limitation links.
* Times: a lease or key may expire whenever it exists, a timer fires some time. How long a
  POST keeps A from answering polls, and whether the proxy's 30 seconds suffice then, is
  outside; that a poll may be dropped is inside.

## 7. Plan

1. `Ranking`'s outcomes as a refinement of `Pipeline!Rank`.
2. What a page is promised when requests overlap: `PollingClient` in front of
   `AnyOrderSpec` instead of `LifecycleSpec`.
