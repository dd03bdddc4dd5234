------------------------------ MODULE Pipeline ------------------------------
(***************************************************************************)
(* The three components joined by Pub/Sub: A (intake) creates a job,       *)
(* analyses the claims and publishes a search plan; B (search workers)     *)
(* turns a plan into a candidate batch; C (report workers) turns a batch   *)
(* into a stored report or a failed job.                                   *)
(*                                                                         *)
(* Every step between two calls that leave the process (the store, Redis,  *)
(* Pub/Sub, Claude, Exa) is one action.  A worker may stop at any of these *)
(* points: its process dies and systemd starts another, or an exception    *)
(* reaches run_worker, which nacks the message.                            *)
(*                                                                         *)
(* Pub/Sub is external and is at-least-once: a message is waiting, or      *)
(* leased to the worker that pulled it, until an acknowledgement made      *)
(* under a live lease takes effect.  Equal messages are counted.           *)
(*                                                                         *)
(* What goes wrong is bounded by MaxFaults so that the model is finite.    *)
(***************************************************************************)
EXTENDS JobStore, Naturals

CONSTANTS
    Searchers,       \* B's worker processes; one is deployed
    Reporters,       \* C's worker processes; one is deployed
    NoJob,           \* what an idle worker holds
    BatchOutcomes,   \* error codes run_search_loop may return, NoError for none
    RaisingJobs,     \* jobs on which handle_plan raises every time
    IntakeOverlaps,  \* may B receive a plan while A is still in run_intake?
    MaxFaults        \* bound on crashes, nacks, lost acks, expired leases ...

ASSUME NoJobAssumption == NoJob \notin Jobs
ASSUME BatchOutcomesAssumption == BatchOutcomes \subseteq BatchErrors \cup {NoError}
ASSUME RaisingJobsAssumption == RaisingJobs \subseteq Jobs
ASSUME IntakeOverlapsAssumption == IntakeOverlaps \in BOOLEAN
ASSUME MaxFaultsAssumption == MaxFaults \in Nat

VARIABLES
    intake,    \* where run_intake is for each job
    plans,     \* search-plans: copies of a job's plan waiting for delivery
    batches,   \* candidates: copies of a batch waiting for delivery
    searcher,  \* what each B worker is doing
    reporter,  \* what each C worker is doing
    doneKeys,  \* jobs whose completion key is in Redis
    sent,      \* history: jobs whose plan Pub/Sub has accepted
    judged,    \* history: jobs for which C has recorded a failure
    faults     \* how much has gone wrong so far

vars == <<status, errorCode, report, intake, plans, batches, searcher, reporter,
          doneKeys, sent, judged, faults>>

Batch == [job : Jobs, error : BatchErrors \cup {NoError}]

InRunIntake == {"analyzing", "publishing", "confirming", "recording",
                "analysis_failed", "publish_failed"}
IntakeState == InRunIntake \cup {"idle", "accepted", "rejected", "aborted"}

Lease == {"live", "over"}

\* A search worker: the plan it pulled, whether its lease is live, and the
\* error code of the batch it has built.
SearcherState ==
    [pc : {"idle", "checking", "searching", "publishing", "confirming", "marking", "acking"},
     job : Jobs \cup {NoJob}, lease : Lease, error : BatchErrors \cup {NoError}]
IdleSearcher == [pc |-> "idle", job |-> NoJob, lease |-> "over", error |-> NoError]

\* A report worker: the batch it pulled (job and error code) and the report
\* it has ranked.
ReporterState ==
    [pc : {"idle", "checking", "starting", "ranking", "storing", "failing", "acking"},
     job : Jobs \cup {NoJob}, lease : Lease, error : BatchErrors \cup {NoError},
     draft : Reports \cup {NoReport}]
IdleReporter == [pc |-> "idle", job |-> NoJob, lease |-> "over", error |-> NoError,
                 draft |-> NoReport]

TypeOK ==
    /\ StoreTypeOK
    /\ intake \in [Jobs -> IntakeState]
    /\ plans \in [Jobs -> Nat]
    /\ batches \in [Batch -> Nat]
    /\ searcher \in [Searchers -> SearcherState]
    /\ reporter \in [Reporters -> ReporterState]
    /\ doneKeys \in SUBSET Jobs
    /\ sent \in SUBSET Jobs
    /\ judged \in SUBSET Jobs
    /\ faults \in 0..MaxFaults

Init ==
    /\ StoreInit
    /\ intake = [j \in Jobs |-> "idle"]
    /\ plans = [j \in Jobs |-> 0]
    /\ batches = [b \in Batch |-> 0]
    /\ searcher = [w \in Searchers |-> IdleSearcher]
    /\ reporter = [w \in Reporters |-> IdleReporter]
    /\ doneKeys = {}
    /\ sent = {}
    /\ judged = {}
    /\ faults = 0

Fault == faults < MaxFaults /\ faults' = faults + 1

-----------------------------------------------------------------------------
(* Component A: run_intake for job j.  submit_job is a coroutine and       *)
(* run_intake blocks its event loop, so one request is in it at a time.    *)

intakeFrame == <<batches, searcher, reporter, doneKeys, judged>>

Advance(j, from, to) == intake[j] = from /\ intake' = [intake EXCEPT ![j] = to]

BeginJob(j) ==
    /\ \A k \in Jobs : intake[k] \notin InRunIntake
    /\ Advance(j, "idle", "analyzing")
    /\ CreateJob(j)
    /\ UNCHANGED <<intakeFrame, plans, sent, faults>>

\* Claude's analysis and the validation of the plan built from it.
AnalyzeClaims(j) ==
    /\ \/ Advance(j, "analyzing", "publishing")
       \/ Advance(j, "analyzing", "analysis_failed")
    /\ UNCHANGED <<intakeFrame, storeVars, plans, sent, faults>>

\* Pub/Sub accepts the plan; publish still waits for the confirmation.
SendPlan(j) ==
    /\ Advance(j, "publishing", "confirming")
    /\ plans' = [plans EXCEPT ![j] = @ + 1]
    /\ sent' = sent \cup {j}
    /\ UNCHANGED <<intakeFrame, storeVars, faults>>

ConfirmPlan(j) ==
    /\ Advance(j, "confirming", "recording")
    /\ UNCHANGED <<intakeFrame, storeVars, plans, sent, faults>>

\* publish raises: the payload is too large, Pub/Sub refuses it, or the
\* confirmation does not come within the timeout though the plan was accepted.
PublishPlanRaises(j) ==
    /\ \/ Advance(j, "publishing", "publish_failed")
       \/ Advance(j, "confirming", "publish_failed")
    /\ UNCHANGED <<intakeFrame, storeVars, plans, sent, faults>>

\* The 202 path: the status is written after the plan has been published.
RecordSearching(j) ==
    /\ Advance(j, "recording", "accepted")
    /\ SetStatus(j, "searching", NoError)
    /\ UNCHANGED <<intakeFrame, plans, sent, faults>>

\* Mistake: _fail raises its exception without writing the status.
RecordIntakeFailureNowhere(j) ==
    /\ intake[j] \in {"analysis_failed", "publish_failed"}
    /\ intake' = [intake EXCEPT ![j] = "rejected"]
    /\ UNCHANGED <<intakeFrame, storeVars, plans, sent, faults>>

\* _fail: the 502 path.
RecordIntakeFailure(j) ==
    /\ intake[j] \in {"analysis_failed", "publish_failed"}
    /\ intake' = [intake EXCEPT ![j] = "rejected"]
    /\ SetStatus(j, "failed", intake[j])
    /\ UNCHANGED <<intakeFrame, plans, sent, faults>>

\* The process dies, or a store call raises and the request ends in a 500.
\* Nothing resumes the request.
AbortIntake(j) ==
    /\ Fault
    /\ intake[j] \in InRunIntake
    /\ intake' = [intake EXCEPT ![j] = "aborted"]
    /\ UNCHANGED <<intakeFrame, storeVars, plans, sent>>

IntakeStep(j) ==
    \/ AnalyzeClaims(j) \/ SendPlan(j) \/ ConfirmPlan(j) \/ PublishPlanRaises(j)
    \/ RecordSearching(j) \/ RecordIntakeFailure(j)

-----------------------------------------------------------------------------
(* Component B: run_worker and handle_plan for worker w.                   *)

searcherFrame == <<storeVars, intake, reporter, sent, judged>>

Searching(w, from, to) ==
    /\ searcher[w].pc = from
    /\ searcher' = [searcher EXCEPT ![w].pc = to]

\* The message goes back to the subscription if the lease was still live.
ReturnPlan(w) ==
    plans' = IF searcher[w].lease = "live"
             THEN [plans EXCEPT ![searcher[w].job] = @ + 1]
             ELSE plans

PullPlan(w, j) ==
    /\ searcher[w].pc = "idle"
    /\ plans[j] > 0
    /\ IntakeOverlaps \/ intake[j] \notin InRunIntake
    /\ plans' = [plans EXCEPT ![j] = @ - 1]
    /\ searcher' = [searcher EXCEPT
                      ![w] = [pc |-> "checking", job |-> j, lease |-> "live", error |-> NoError]]
    /\ UNCHANGED <<searcherFrame, batches, doneKeys, faults>>

\* Mistake: the completion key is written before the batch is published.
CheckPlanMarksEarly(w) ==
    /\ \/ searcher[w].job \in doneKeys /\ Searching(w, "checking", "acking")
       \/ searcher[w].job \notin doneKeys /\ Searching(w, "checking", "searching")
    /\ doneKeys' = doneKeys \cup {searcher[w].job}
    /\ UNCHANGED <<searcherFrame, plans, batches, faults>>

\* job_is_done: a duplicate is acked without searching.
CheckPlan(w) ==
    /\ \/ searcher[w].job \in doneKeys /\ Searching(w, "checking", "acking")
       \/ searcher[w].job \notin doneKeys /\ Searching(w, "checking", "searching")
    /\ UNCHANGED <<searcherFrame, plans, batches, doneKeys, faults>>

\* run_search_loop returns a batch, with candidates or with an error code.
Search(w) ==
    /\ searcher[w].pc = "searching"
    /\ searcher[w].job \notin RaisingJobs
    /\ \E e \in BatchOutcomes :
         searcher' = [searcher EXCEPT ![w] = [@ EXCEPT !.pc = "publishing", !.error = e]]
    /\ UNCHANGED <<searcherFrame, plans, batches, doneKeys, faults>>

\* The handler raises on this job, however often it is redelivered.
SearchRaises(w) ==
    /\ searcher[w].pc = "searching"
    /\ searcher[w].job \in RaisingJobs
    /\ ReturnPlan(w)
    /\ searcher' = [searcher EXCEPT ![w] = IdleSearcher]
    /\ UNCHANGED <<searcherFrame, batches, doneKeys, faults>>

SendBatch(w) ==
    /\ Searching(w, "publishing", "confirming")
    /\ batches' = [batches EXCEPT
                     ![[job |-> searcher[w].job, error |-> searcher[w].error]] = @ + 1]
    /\ UNCHANGED <<searcherFrame, plans, doneKeys, faults>>

ConfirmBatch(w) ==
    /\ Searching(w, "confirming", "marking")
    /\ UNCHANGED <<searcherFrame, plans, batches, doneKeys, faults>>

\* mark_job_done; an error there is logged and ignored.
MarkDone(w) ==
    /\ Searching(w, "marking", "acking")
    /\ \/ doneKeys' = doneKeys \cup {searcher[w].job} /\ UNCHANGED faults
       \/ UNCHANGED doneKeys /\ Fault
    /\ UNCHANGED <<searcherFrame, plans, batches>>

\* The acknowledgement takes effect if the lease is live and it is not lost.
AckPlan(w) ==
    /\ searcher[w].pc = "acking"
    /\ searcher' = [searcher EXCEPT ![w] = IdleSearcher]
    /\ \/ UNCHANGED <<plans, faults>>
       \/ searcher[w].lease = "live" /\ ReturnPlan(w) /\ Fault
    /\ UNCHANGED <<searcherFrame, batches, doneKeys>>

\* The process dies, or an exception reaches run_worker and the plan is nacked.
DropPlan(w) ==
    /\ Fault
    /\ searcher[w].pc # "idle"
    /\ ReturnPlan(w)
    /\ searcher' = [searcher EXCEPT ![w] = IdleSearcher]
    /\ UNCHANGED <<searcherFrame, batches, doneKeys>>

\* The ack deadline passes while the worker is busy: the plan is delivered again.
PlanLeaseExpires(w) ==
    /\ Fault
    /\ searcher[w].lease = "live"
    /\ ReturnPlan(w)
    /\ searcher' = [searcher EXCEPT ![w].lease = "over"]
    /\ UNCHANGED <<searcherFrame, batches, doneKeys>>

\* Redis drops the key when its TTL has passed.
DoneKeyExpires(j) ==
    /\ j \in doneKeys
    /\ doneKeys' = doneKeys \ {j}
    /\ UNCHANGED <<searcherFrame, plans, batches, searcher, faults>>

SearcherStep(w) ==
    \/ CheckPlan(w) \/ Search(w) \/ SearchRaises(w) \/ SendBatch(w) \/ ConfirmBatch(w)
    \/ MarkDone(w) \/ AckPlan(w)

-----------------------------------------------------------------------------
(* Component C: run_worker and handle_batch for worker w.                  *)

reporterFrame == <<intake, plans, searcher, doneKeys, sent>>

Reporting(w, from, to) ==
    /\ reporter[w].pc = from
    /\ reporter' = [reporter EXCEPT ![w].pc = to]

HeldBatch(w) == [job |-> reporter[w].job, error |-> reporter[w].error]

ReturnBatch(w) ==
    batches' = IF reporter[w].lease = "live"
               THEN [batches EXCEPT ![HeldBatch(w)] = @ + 1]
               ELSE batches

PullBatch(w, b) ==
    /\ reporter[w].pc = "idle"
    /\ batches[b] > 0
    /\ batches' = [batches EXCEPT ![b] = @ - 1]
    /\ reporter' = [reporter EXCEPT
                      ![w] = [pc |-> "checking", job |-> b.job, lease |-> "live",
                              error |-> b.error, draft |-> NoReport]]
    /\ UNCHANGED <<reporterFrame, storeVars, judged, faults>>

\* Mistake: the duplicate check is dropped.
CheckBatchAlwaysRanks(w) ==
    /\ \/ reporter[w].error # NoError /\ Reporting(w, "checking", "failing")
       \/ reporter[w].error = NoError /\ Reporting(w, "checking", "starting")
    /\ UNCHANGED <<reporterFrame, storeVars, batches, judged, faults>>

\* Mistake: a terminal failure is skipped as if it were a duplicate.
CheckBatchSkipsFailures(w) ==
    /\ \/ /\ Reporting(w, "checking", "acking")
          /\ report[reporter[w].job] # NoReport \/ reporter[w].error # NoError
       \/ /\ Reporting(w, "checking", "starting")
          /\ report[reporter[w].job] = NoReport
          /\ reporter[w].error = NoError
    /\ UNCHANGED <<reporterFrame, storeVars, batches, judged, faults>>

\* get_report: a duplicate is skipped; a terminal failure of B is not ranked.
CheckBatch(w) ==
    /\ \/ /\ Reporting(w, "checking", "acking")
          /\ report[reporter[w].job] # NoReport
       \/ /\ Reporting(w, "checking", "failing")
          /\ report[reporter[w].job] = NoReport
          /\ reporter[w].error # NoError
       \/ /\ Reporting(w, "checking", "starting")
          /\ report[reporter[w].job] = NoReport
          /\ reporter[w].error = NoError
    /\ UNCHANGED <<reporterFrame, storeVars, batches, judged, faults>>

StartRanking(w) ==
    /\ Reporting(w, "starting", "ranking")
    /\ SetStatus(reporter[w].job, "ranking", NoError)
    /\ UNCHANGED <<reporterFrame, batches, judged, faults>>

\* run_ranking: a report, or RankingFailedError.
Rank(w) ==
    /\ reporter[w].pc = "ranking"
    /\ \/ \E r \in Reports :
            reporter' = [reporter EXCEPT ![w] = [@ EXCEPT !.pc = "storing", !.draft = r]]
       \/ reporter' = [reporter EXCEPT ![w].pc = "failing"]
    /\ UNCHANGED <<reporterFrame, storeVars, batches, judged, faults>>

StoreReport(w) ==
    /\ Reporting(w, "storing", "acking")
    /\ CompleteJob(reporter[w].job, reporter[w].draft)
    /\ UNCHANGED <<reporterFrame, batches, judged, faults>>

\* Mistake: what the exception says is stored instead of a safe code.
RecordFailureVerbatim(w) ==
    /\ Reporting(w, "failing", "acking")
    /\ SetStatus(reporter[w].job, "failed", "exception text")
    /\ judged' = judged \cup {reporter[w].job}
    /\ UNCHANGED <<reporterFrame, batches, faults>>

\* The batch's error code, or ranking_failed when the batch had none.
RecordFailure(w) ==
    /\ Reporting(w, "failing", "acking")
    /\ SetStatus(reporter[w].job, "failed",
                 IF reporter[w].error # NoError THEN reporter[w].error ELSE "ranking_failed")
    /\ judged' = judged \cup {reporter[w].job}
    /\ UNCHANGED <<reporterFrame, batches, faults>>

AckBatch(w) ==
    /\ reporter[w].pc = "acking"
    /\ reporter' = [reporter EXCEPT ![w] = IdleReporter]
    /\ \/ UNCHANGED <<batches, faults>>
       \/ reporter[w].lease = "live" /\ ReturnBatch(w) /\ Fault
    /\ UNCHANGED <<reporterFrame, storeVars, judged>>

\* The process dies, or an exception reaches run_worker and the batch is nacked.
DropBatch(w) ==
    /\ Fault
    /\ reporter[w].pc # "idle"
    /\ ReturnBatch(w)
    /\ reporter' = [reporter EXCEPT ![w] = IdleReporter]
    /\ UNCHANGED <<reporterFrame, storeVars, judged>>

BatchLeaseExpires(w) ==
    /\ Fault
    /\ reporter[w].lease = "live"
    /\ ReturnBatch(w)
    /\ reporter' = [reporter EXCEPT ![w].lease = "over"]
    /\ UNCHANGED <<reporterFrame, storeVars, judged>>

ReporterStep(w) ==
    \/ CheckBatch(w) \/ StartRanking(w) \/ Rank(w) \/ StoreReport(w) \/ RecordFailure(w)
    \/ AckBatch(w)

-----------------------------------------------------------------------------
\* Every request has been answered, nothing is waiting and the workers poll
\* empty subscriptions.
Quiescent ==
    /\ \A j \in Jobs : intake[j] \in {"accepted", "rejected", "aborted"} /\ plans[j] = 0
    /\ \A b \in Batch : batches[b] = 0
    /\ \A w \in Searchers : searcher[w].pc = "idle"
    /\ \A w \in Reporters : reporter[w].pc = "idle"

KeepPolling == Quiescent /\ UNCHANGED vars

Next ==
    \/ \E j \in Jobs : BeginJob(j) \/ IntakeStep(j) \/ AbortIntake(j) \/ DoneKeyExpires(j)
    \/ \E w \in Searchers :
         \/ \E j \in Jobs : PullPlan(w, j)
         \/ SearcherStep(w) \/ DropPlan(w) \/ PlanLeaseExpires(w)
    \/ \E w \in Reporters :
         \/ \E b \in Batch : PullBatch(w, b)
         \/ ReporterStep(w) \/ DropBatch(w) \/ BatchLeaseExpires(w)
    \/ KeepPolling

Spec == Init /\ [][Next]_vars

\* A request that was admitted runs on, a worker works off what it holds and
\* keeps pulling, and Pub/Sub does not pass over one waiting plan for ever in
\* favour of others (strong fairness: the worker is busy between two pulls).
\* No fault is fair.  That a worker's search and ranking end is assumed here;
\* SearchPass, SearchLoop and Ranking say how far the code sees to it: up to
\* the Exa calls, which have no timeout.
Fairness ==
    /\ \A j \in Jobs : WF_vars(IntakeStep(j))
    /\ \A w \in Searchers :
         WF_vars(SearcherStep(w)) /\ \A j \in Jobs : SF_vars(PullPlan(w, j))
    /\ \A w \in Reporters :
         WF_vars(ReporterStep(w)) /\ WF_vars(\E b \in Batch : PullBatch(w, b))

FairSpec == Spec /\ Fairness

-----------------------------------------------------------------------------
(* Properties.                                                             *)

PlanOutstanding(j) ==
    plans[j] > 0 \/ \E w \in Searchers : searcher[w].job = j /\ searcher[w].lease = "live"

BatchOutstanding(j) ==
    \/ \E b \in Batch : b.job = j /\ batches[b] > 0
    \/ \E w \in Reporters : reporter[w].job = j /\ reporter[w].lease = "live"

\* C has come to a verdict: a stored report or a recorded failure.
Settled(j) == report[j] # NoReport \/ j \in judged

\* Once Pub/Sub has accepted a plan the job is never lost: its plan is still to
\* be delivered, or a batch is, or C has settled it, whatever crashes, expired
\* leases, lost acks and expired completion keys come in between
\* (search/worker.py and report/worker.py ack only after their output exists).
NoLostJob ==
    \A j \in sent : PlanOutstanding(j) \/ BatchOutstanding(j) \/ Settled(j)

\* A completion key is only ever found for a job whose batch is under way or
\* settled, so skipping the duplicate plan (handle_plan) drops nothing.
DoneKeyMeansPublished ==
    \A j \in doneKeys : BatchOutstanding(j) \/ Settled(j)

\* A stored report is never replaced, however many workers rank duplicates of
\* the same batch at once (complete_job is first-write-wins).
ReportIsFinal ==
    [][\A j \in Jobs : report[j] # NoReport => report'[j] = report[j]]_vars

\* A stored report never belongs to a job that C has put back to ranking: a
\* skipped duplicate can leave the job as it is (handle_batch's comment).
NoReportLeftRanking ==
    \A j \in Jobs : report[j] # NoReport => status[j] # "ranking"

\* Once a report is stored, C never changes the job's status again: only a
\* request still inside run_intake can (run_intake's last set_status).
ReportersLeaveReportedJobs ==
    [][\A j \in Jobs :
         (report[j] # NoReport /\ intake'[j] = intake[j])
            => (status'[j] = status[j] /\ errorCode'[j] = errorCode[j])]_vars

\* Every accepted plan is eventually settled by C, even while the same worker
\* is offered another job's plan again and again because handling it always
\* raises.  Fairness covers the steps that work, and faults are finitely many.
AcceptedJobSettles == \A j \in Jobs \ RaisingJobs : j \in sent ~> Settled(j)

\* When its request has left run_intake before B receives the plan, every job
\* that was begun ends up completed or failed for a polling client, for good;
\* the one exception is a job whose request died before its plan was sent,
\* which nothing resumes (run_intake after create_job).
BegunJobFinishes ==
    \A j \in Jobs : status[j] # "absent" ~>
        \/ [](status[j] \in {"completed", "failed"})
        \/ intake[j] = "aborted" /\ j \notin sent

\* architecture.md: "no job runs forever".
NoJobRunsForever ==
    \A j \in Jobs : status[j] \in {"analyzing", "searching", "ranking"}
                      ~> status[j] \in {"completed", "failed"}

\* The refinement mapping: the tables are the whole of the abstract state.
Lifecycle == INSTANCE JobLifecycle
             WITH status <- status, errorCode <- errorCode, report <- report

\* Seen from the job tables alone, the pipeline follows the lifecycle README.md
\* describes, provided a request leaves run_intake before B receives its plan
\* (IntakeOverlaps is FALSE) and one report worker is deployed.
FollowsLifecycle == Lifecycle!LifecycleSpec

\* Without either proviso a client can still rely on this much: analyzing is
\* over once anything else was shown, a completed job has a report, a failed
\* one its code, and the report that was shown first is the one shown ever
\* after, although the status may be overwritten by whoever is slowest.
FollowsAnyOrder == Lifecycle!AnyOrderSpec

\* The three things a poll returns fit together: a report exactly for the
\* completed jobs, an error code exactly for the failed ones.
RecordsAgree == Lifecycle!RecordsAgree

=============================================================================
