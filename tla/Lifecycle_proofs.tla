--------------------------- MODULE Lifecycle_proofs ---------------------------
(***************************************************************************)
(* The pipeline implements JobLifecycle when a request has left run_intake *)
(* before B receives its plan and one report worker is deployed.           *)
(*                                                                         *)
(* The refinement mapping is the identity: both modules have the store's   *)
(* three variables.  What has to be known of the rest of the pipeline is   *)
(* PromptInv: while a request is inside run_intake nobody else works on    *)
(* its job, and a report worker past its duplicate check finds the records *)
(* as that check, and its own writes, left them.                           *)
(***************************************************************************)
EXTENDS Pipeline_proofs

\* Somebody other than component A works on job j, or may at any time.
Received(j) ==
    \/ \E w \in Searchers : searcher[w].job = j
    \/ \E b \in Batch : b.job = j /\ batches[b] > 0
    \/ \E w \in Reporters : reporter[w].job = j

IntakeRecords ==
    \A j \in Jobs :
      /\ intake[j] = "idle" <=> status[j] = "absent"
      /\ intake[j] \in InRunIntake => status[j] = "analyzing"

WorkFollowsIntake ==
    \A j \in Jobs :
      /\ plans[j] > 0 => intake[j] # "idle"
      /\ Received(j) => intake[j] \notin InRunIntake \cup {"idle"}

ReporterRecords ==
    \A w \in Reporters :
      /\ reporter[w].pc \in {"starting", "ranking", "storing", "failing"}
           => report[reporter[w].job] = NoReport
      /\ reporter[w].pc \in {"ranking", "storing"} => status[reporter[w].job] = "ranking"

PromptInv ==
    /\ TypeInv
    /\ RecordsAgree
    /\ IntakeRecords
    /\ WorkFollowsIntake
    /\ ReporterRecords

Prompt == IntakeOverlaps = FALSE
OneReporter == \A v, w \in Reporters : v = w

-----------------------------------------------------------------------------
LEMMA InitPrompt == Init => PromptInv
<1> SUFFICES ASSUME Init  PROVE PromptInv
  OBVIOUS
<1>1. TypeInv
  BY InitTyped
<1>2. RecordsAgree
  BY DEF Init, StoreInit, RecordsAgree, Lifecycle!RecordsAgree
<1>3. IntakeRecords
  BY DEF Init, StoreInit, IntakeRecords, InRunIntake
<1>4. WorkFollowsIntake
  <2>1. \A j \in Jobs : plans[j] = 0
    BY DEF Init
  <2>2. \A w \in Searchers : searcher[w].job = NoJob
    BY DEF Init, IdleSearcher
  <2>3. \A b \in Batch : batches[b] = 0
    BY DEF Init
  <2>4. \A w \in Reporters : reporter[w].job = NoJob
    BY DEF Init, IdleReporter
  <2>5. \A j \in Jobs : ~Received(j)
    <3>1. ~(0 > 0)
      OBVIOUS
    <3> QED
      BY <2>2, <2>3, <2>4, <3>1, NoJobAssumption, Zenon DEF Received
  <2>6. \A j \in Jobs : ~(plans[j] > 0)
    <3>1. ~(0 > 0)
      OBVIOUS
    <3> QED
      BY <2>1, <3>1, Zenon
  <2> QED
    BY <2>5, <2>6, Zenon DEF WorkFollowsIntake
<1>5. ReporterRecords
  BY DEF Init, ReporterRecords, IdleReporter
<1> QED
  BY <1>1, <1>2, <1>3, <1>4, <1>5 DEF PromptInv

\* What component A does to the records of the one job it works on.
LEMMA IntakeEffect ==
  ASSUME PromptInv, NEW j \in Jobs, BeginJob(j) \/ IntakeStep(j) \/ AbortIntake(j)
  PROVE  /\ intake[j] \in InRunIntake \cup {"idle"}
         /\ \A k \in Jobs \ {j} : /\ intake'[k] = intake[k]
                                 /\ status'[k] = status[k]
                                 /\ errorCode'[k] = errorCode[k]
         /\ \/ /\ intake'[j] \in InRunIntake
               /\ status'[j] = "analyzing" /\ errorCode'[j] = errorCode[j]
            \/ /\ intake'[j] \in {"accepted", "rejected", "aborted"}
               /\ \/ status'[j] = "analyzing" /\ errorCode'[j] = errorCode[j]
                  \/ status'[j] = "searching" /\ errorCode'[j] = NoError
                  \/ status'[j] = "failed" /\ errorCode'[j] \in ErrorCodes
<1> USE DEF PromptInv, TypeInv, TypeOK, StoreTypeOK, IntakeRecords, InRunIntake
<1>1. CASE BeginJob(j)
  BY <1>1 DEF BeginJob, Advance, CreateJob
<1>2. CASE AnalyzeClaims(j) \/ SendPlan(j) \/ ConfirmPlan(j) \/ PublishPlanRaises(j)
  <2>1. PICK to \in InRunIntake : /\ intake[j] \in InRunIntake
                                  /\ intake' = [intake EXCEPT ![j] = to]
    BY <1>2 DEF AnalyzeClaims, SendPlan, ConfirmPlan, PublishPlanRaises, Advance
  <2>2. UNCHANGED <<status, errorCode>>
    BY <1>2 DEF AnalyzeClaims, SendPlan, ConfirmPlan, PublishPlanRaises, storeVars
  <2> QED
    BY <2>1, <2>2
<1>3. CASE RecordSearching(j)
  BY <1>3 DEF RecordSearching, Advance, SetStatus
<1>4. CASE RecordIntakeFailure(j)
  BY <1>4 DEF RecordIntakeFailure, SetStatus, ErrorCodes
<1>5. CASE AbortIntake(j)
  BY <1>5 DEF AbortIntake, storeVars
<1> QED
  BY <1>1, <1>2, <1>3, <1>4, <1>5 DEF IntakeStep

LEMMA IntakeKeepsPrompt ==
  ASSUME PromptInv, NEW j \in Jobs, BeginJob(j) \/ IntakeStep(j) \/ AbortIntake(j)
  PROVE  PromptInv'
<1>1. TypeInv'
  BY IntakeTyped DEF PromptInv
<1>2. /\ UNCHANGED <<batches, searcher, reporter, report>>
      /\ \A k \in Jobs \ {j} : plans'[k] = plans[k]
  BY IntakeLeavesWork DEF PromptInv, TypeInv, TypeOK
<1>3. \A k : Received(k)' <=> Received(k)
  BY <1>2 DEF Received
<1>4. ~Received(j)
  BY IntakeEffect DEF PromptInv, WorkFollowsIntake
<1>5. report[j] = NoReport /\ errorCode[j] = NoError
  BY IntakeEffect DEF PromptInv, RecordsAgree, Lifecycle!RecordsAgree, IntakeRecords, InRunIntake
<1>6. RecordsAgree'
  BY <1>2, <1>5, IntakeEffect
     DEF PromptInv, RecordsAgree, Lifecycle!RecordsAgree, ErrorCodes, BatchErrors, NoError
<1>7. IntakeRecords'
  BY IntakeEffect DEF PromptInv, IntakeRecords, InRunIntake
<1>8. WorkFollowsIntake'
  BY <1>2, <1>3, <1>4, IntakeEffect DEF PromptInv, WorkFollowsIntake, InRunIntake
<1>9. ReporterRecords'
  <2>1. \A w \in Reporters : reporter[w].job # j
    BY <1>4 DEF Received
  <2>2. \A w \in Reporters : reporter[w].pc # "idle" => status'[reporter[w].job] = status[reporter[w].job]
    BY <2>1, IntakeEffect DEF PromptInv, TypeInv, BusyWorkersHoldJobs
  <2> QED
    BY <1>2, <2>2 DEF PromptInv, ReporterRecords
<1> QED
  BY <1>1, <1>6, <1>7, <1>8, <1>9 DEF PromptInv

LEMMA SearchersLeaveRecords ==
  ASSUME NEW w \in Searchers,
         \/ \E j \in Jobs : PullPlan(w, j)
         \/ SearcherStep(w) \/ DropPlan(w) \/ PlanLeaseExpires(w)
  PROVE  UNCHANGED <<storeVars, intake, reporter>>
BY DEF PullPlan, SearcherStep, DropPlan, PlanLeaseExpires, CheckPlan, Search, SearchRaises,
       SendBatch, ConfirmBatch, MarkDone, AckPlan, searcherFrame

\* A search worker adds a plan only of a job it holds, and works on only jobs
\* it holds or has just pulled the plan of; it leaves the rest to others.
LEMMA SearcherPassesOn ==
  ASSUME TypeInv, NEW w \in Searchers, NEW k \in Jobs,
         \/ \E j \in Jobs : PullPlan(w, j)
         \/ SearcherStep(w) \/ DropPlan(w) \/ PlanLeaseExpires(w)
  PROVE  /\ plans'[k] > 0 => plans[k] > 0 \/ Received(k)
         /\ Received(k)' => Received(k) \/ (PullPlan(w, k) /\ plans[k] > 0)
<1>0. UNCHANGED <<storeVars, intake, reporter>>
  BY SearchersLeaveRecords
<1> USE DEF TypeInv, TypeOK
<1>1. ASSUME UNCHANGED <<batches, reporter>>,
             \A v \in Searchers : searcher'[v].job \in {searcher[v].job, NoJob}
      PROVE  Received(k)' => Received(k)
  BY <1>1, NoJobAssumption DEF Received
<1>2. ASSUME ReturnPlan(w)
      PROVE  plans'[k] > 0 => plans[k] > 0 \/ Received(k)
  BY <1>2 DEF ReturnPlan, Received
<1>3. ASSUME NEW j \in Jobs, PullPlan(w, j)
      PROVE  /\ plans'[k] > 0 => plans[k] > 0
             /\ Received(k)' => Received(k) \/ (PullPlan(w, k) /\ plans[k] > 0)
  <2>1. plans'[k] > 0 => plans[k] > 0
    BY <1>3 DEF PullPlan
  <2>2. CASE j = k
    BY <1>3, <2>1, <2>2 DEF PullPlan
  <2>3. CASE j # k
    BY <1>0, <1>3, <2>1, <2>3 DEF PullPlan, Received
  <2> QED
    BY <2>2, <2>3
<1>4. CASE SendBatch(w)
  <2>1. searcher'[w].job = searcher[w].job
        /\ \A v \in Searchers : searcher'[v].job = searcher[v].job
    BY <1>4 DEF SendBatch, Searching, SearcherState
  <2>2. \A b \in Batch : batches'[b] > 0 => batches[b] > 0 \/ b.job = searcher[w].job
    BY <1>4 DEF SendBatch
  <2> QED
    BY <1>0, <1>4, <2>1, <2>2 DEF Received, SendBatch
<1>5. CASE CheckPlan(w) \/ ConfirmBatch(w) \/ MarkDone(w)
  <2>1. PICK from, to : Searching(w, from, to)
    BY <1>5 DEF CheckPlan, ConfirmBatch, MarkDone
  <2>2. \A v \in Searchers : searcher'[v].job = searcher[v].job
    BY <2>1 DEF Searching, SearcherState
  <2> QED
    BY <1>0, <1>1, <1>5, <2>2 DEF CheckPlan, ConfirmBatch, MarkDone
<1>6. CASE Search(w)
  <2>1. PICK e \in BatchErrors \cup {NoError} :
          searcher' = [searcher EXCEPT ![w] = [@ EXCEPT !.pc = "publishing", !.error = e]]
    BY <1>6, BatchOutcomesAssumption DEF Search
  <2> DEFINE built == [searcher[w] EXCEPT !.pc = "publishing", !.error = e]
  <2>2. built.job = searcher[w].job
    BY BuiltTyped
  <2>3. searcher' = [searcher EXCEPT ![w] = built]
    BY <2>1
  <2> HIDE DEF built
  <2> QED
    BY <1>0, <1>1, <1>6, <2>2, <2>3 DEF Search
<1>7. CASE SearchRaises(w) \/ AckPlan(w) \/ DropPlan(w)
  <2>1. /\ searcher' = [searcher EXCEPT ![w] = IdleSearcher]
        /\ UNCHANGED batches
        /\ UNCHANGED plans \/ ReturnPlan(w)
    BY <1>7 DEF SearchRaises, AckPlan, DropPlan
  <2> QED
    BY <1>0, <1>1, <1>2, <2>1 DEF IdleSearcher
<1>8. CASE PlanLeaseExpires(w)
  <2>1. \A v \in Searchers : searcher'[v].job = searcher[v].job
    BY <1>8 DEF PlanLeaseExpires, SearcherState
  <2> QED
    BY <1>0, <1>1, <1>2, <1>8, <2>1 DEF PlanLeaseExpires
<1> QED
  BY <1>3, <1>4, <1>5, <1>6, <1>7, <1>8 DEF SearcherStep

\* Component B passes on only jobs that component A is done with.
LEMMA SearcherKeepsPrompt ==
  ASSUME Prompt, PromptInv, NEW w \in Searchers,
         \/ \E j \in Jobs : PullPlan(w, j)
         \/ SearcherStep(w) \/ DropPlan(w) \/ PlanLeaseExpires(w)
  PROVE  PromptInv'
<1>1. TypeInv'
  BY SearcherTyped DEF PromptInv
<1>2. UNCHANGED <<storeVars, intake, reporter>>
  BY SearchersLeaveRecords
<1>3. RecordsAgree' /\ IntakeRecords' /\ ReporterRecords'
  BY <1>2 DEF PromptInv, RecordsAgree, Lifecycle!RecordsAgree, IntakeRecords, ReporterRecords,
              storeVars
<1>4. WorkFollowsIntake'
  BY <1>2, SearcherPassesOn DEF PromptInv, WorkFollowsIntake, PullPlan, Prompt
<1> QED
  BY <1>1, <1>3, <1>4 DEF PromptInv

\* Component C writes the records of a job only as its duplicate check found
\* them: nobody else is past that check with the same job.
LEMMA ReporterKeepsPrompt ==
  ASSUME OneReporter, PromptInv, NEW w \in Reporters,
         \/ \E b \in Batch : PullBatch(w, b)
         \/ ReporterStep(w) \/ DropBatch(w) \/ BatchLeaseExpires(w)
  PROVE  PromptInv'
<1>1. TypeInv'
  BY ReporterTyped DEF PromptInv
<1>2. UNCHANGED <<intake, plans, searcher>>
  BY DEF PullBatch, ReporterStep, DropBatch, BatchLeaseExpires, CheckBatch, StartRanking, Rank,
         StoreReport, RecordFailure, AckBatch, reporterFrame
<1>3. \A v \in Reporters : v = w
  BY DEF OneReporter
<1> USE DEF PromptInv, TypeInv, TypeOK
<1>4. ASSUME NEW b \in Batch, PullBatch(w, b)
      PROVE  PromptInv'
  <2>1. \A k : Received(k)' => Received(k)
    BY <1>2, <1>3, <1>4 DEF PullBatch, Received
  <2>2. reporter'[w].pc = "checking" /\ UNCHANGED storeVars
    BY <1>4 DEF PullBatch
  <2> QED
    BY <1>1, <1>2, <1>3, <2>1, <2>2
       DEF RecordsAgree, Lifecycle!RecordsAgree, IntakeRecords, WorkFollowsIntake,
           ReporterRecords, storeVars
<1>5. CASE AckBatch(w) \/ DropBatch(w)
  <2>1. /\ reporter' = [reporter EXCEPT ![w] = IdleReporter]
        /\ UNCHANGED batches \/ ReturnBatch(w)
        /\ UNCHANGED storeVars
    BY <1>5 DEF AckBatch, DropBatch
  <2>2. \A k \in Jobs : Received(k)' => Received(k)
    BY <1>2, <1>3, <2>1, NoJobAssumption DEF Received, ReturnBatch, HeldBatch, IdleReporter
  <2>3. reporter'[w].pc = "idle"
    BY <2>1 DEF IdleReporter
  <2> QED
    BY <1>1, <1>2, <1>3, <2>1, <2>2, <2>3
       DEF RecordsAgree, Lifecycle!RecordsAgree, IntakeRecords, WorkFollowsIntake,
           ReporterRecords, storeVars
<1>6. CASE BatchLeaseExpires(w)
  <2>1. /\ reporter'[w].job = reporter[w].job /\ reporter'[w].pc = reporter[w].pc
        /\ ReturnBatch(w)
        /\ UNCHANGED storeVars
    BY <1>6 DEF BatchLeaseExpires, ReporterState
  <2>2. \A k \in Jobs : Received(k)' => Received(k)
    BY <1>2, <1>3, <2>1 DEF Received, ReturnBatch, HeldBatch
  <2> QED
    BY <1>1, <1>2, <1>3, <2>1, <2>2
       DEF RecordsAgree, Lifecycle!RecordsAgree, IntakeRecords, WorkFollowsIntake,
           ReporterRecords, storeVars
<1>7. ASSUME NEW job, job = reporter[w].job, UNCHANGED batches,
             reporter[w].pc # "idle", reporter'[w].job = job
      PROVE  /\ job \in Jobs /\ status[job] # "absent" /\ intake[job] \notin InRunIntake
             /\ WorkFollowsIntake'
  <2>1. job \in Jobs /\ Received(job)
    BY <1>7 DEF BusyWorkersHoldJobs, Received
  <2>2. \A k \in Jobs : Received(k)' => Received(k)
    BY <1>2, <1>3, <1>7 DEF Received
  <2> QED
    BY <1>2, <2>1, <2>2 DEF WorkFollowsIntake, IntakeRecords
<1>8. CASE CheckBatch(w)
  <2>1. PICK to \in {"acking", "failing", "starting"} :
           /\ Reporting(w, "checking", to)
           /\ to \in {"failing", "starting"} => report[reporter[w].job] = NoReport
    BY <1>8 DEF CheckBatch
  <2>2. /\ reporter'[w].job = reporter[w].job /\ reporter'[w].pc = to
        /\ UNCHANGED <<storeVars, batches>>
    BY <1>8, <2>1 DEF CheckBatch, Reporting, ReporterState
  <2> QED
    BY <1>1, <1>2, <1>3, <1>7, <2>1, <2>2
       DEF RecordsAgree, Lifecycle!RecordsAgree, IntakeRecords, ReporterRecords, Reporting,
           storeVars
<1>9. CASE StartRanking(w)
  <2>1. /\ reporter[w].pc = "starting"
        /\ reporter'[w].job = reporter[w].job /\ reporter'[w].pc = "ranking"
        /\ SetStatus(reporter[w].job, "ranking", NoError)
        /\ UNCHANGED batches
    BY <1>9 DEF StartRanking, Reporting, ReporterState
  <2> QED
    BY <1>1, <1>2, <1>3, <1>7, <2>1
       DEF RecordsAgree, Lifecycle!RecordsAgree, IntakeRecords, ReporterRecords, SetStatus,
           StoreTypeOK
<1>10. CASE Rank(w)
  <2>1. /\ reporter[w].pc = "ranking"
        /\ reporter'[w].job = reporter[w].job /\ reporter'[w].pc \in {"storing", "failing"}
        /\ UNCHANGED <<storeVars, batches>>
    <3>1. CASE reporter' = [reporter EXCEPT ![w].pc = "failing"]
      BY <1>10, <3>1 DEF Rank, ReporterState
    <3>2. ASSUME NEW r \in Reports,
                 reporter' = [reporter EXCEPT ![w] = [@ EXCEPT !.pc = "storing", !.draft = r]]
          PROVE  reporter'[w].job = reporter[w].job /\ reporter'[w].pc = "storing"
      <4> DEFINE ranked == [reporter[w] EXCEPT !.pc = "storing", !.draft = r]
      <4>1. ranked.job = reporter[w].job /\ ranked.pc = "storing"
        BY RankedTyped
      <4>2. reporter' = [reporter EXCEPT ![w] = ranked]
        BY <3>2
      <4> HIDE DEF ranked
      <4> QED
        BY <4>1, <4>2
    <3> QED
      BY <1>10, <3>1, <3>2 DEF Rank
  <2> QED
    BY <1>1, <1>2, <1>3, <1>7, <2>1
       DEF RecordsAgree, Lifecycle!RecordsAgree, IntakeRecords, ReporterRecords, storeVars
<1>11. CASE StoreReport(w)
  <2>1. /\ reporter[w].pc = "storing"
        /\ reporter'[w].job = reporter[w].job /\ reporter'[w].pc = "acking"
        /\ CompleteJob(reporter[w].job, reporter[w].draft)
        /\ UNCHANGED batches
    BY <1>11 DEF StoreReport, Reporting, ReporterState
  <2>2. reporter[w].draft # NoReport
    BY <2>1, ReportsAssumption DEF BusyWorkersHoldJobs
  <2> QED
    BY <1>1, <1>2, <1>3, <1>7, <2>1, <2>2
       DEF RecordsAgree, Lifecycle!RecordsAgree, IntakeRecords, ReporterRecords, CompleteJob,
           StoreTypeOK
<1>12. CASE RecordFailure(w)
  <2> DEFINE code == IF reporter[w].error # NoError THEN reporter[w].error ELSE "ranking_failed"
  <2>1. /\ reporter[w].pc = "failing"
        /\ reporter'[w].job = reporter[w].job /\ reporter'[w].pc = "acking"
        /\ SetStatus(reporter[w].job, "failed", code)
        /\ UNCHANGED batches
    BY <1>12 DEF RecordFailure, Reporting, ReporterState
  <2>2. code # NoError
    BY DEF NoError
  <2> HIDE DEF code
  <2> QED
    BY <1>1, <1>2, <1>3, <1>7, <2>1, <2>2
       DEF RecordsAgree, Lifecycle!RecordsAgree, IntakeRecords, ReporterRecords, SetStatus,
           StoreTypeOK
<1> QED
  BY <1>4, <1>5, <1>6, <1>8, <1>9, <1>10, <1>11, <1>12 DEF ReporterStep

LEMMA NextKeepsPrompt ==
  ASSUME Prompt, OneReporter
  PROVE  PromptInv /\ [Next]_vars => PromptInv'
<1> SUFFICES ASSUME PromptInv, [Next]_vars  PROVE PromptInv'
  OBVIOUS
<1>1. ASSUME UNCHANGED <<storeVars, intake, plans, batches, searcher, reporter>>
      PROVE  PromptInv'
  <2>1. TypeInv'
    BY NextTyped DEF PromptInv
  <2>2. \A k : Received(k)' <=> Received(k)
    BY <1>1 DEF Received
  <2> QED
    BY <1>1, <2>1, <2>2
       DEF PromptInv, RecordsAgree, Lifecycle!RecordsAgree, IntakeRecords, WorkFollowsIntake,
           ReporterRecords, storeVars
<1>2. ASSUME NEW j \in Jobs, DoneKeyExpires(j)
      PROVE  PromptInv'
  BY <1>1, <1>2 DEF DoneKeyExpires, searcherFrame
<1>3. CASE UNCHANGED vars
  BY <1>1, <1>3 DEF vars, storeVars
<1> QED
  BY <1>2, <1>3, IntakeKeepsPrompt, SearcherKeepsPrompt, ReporterKeepsPrompt DEF Next, KeepPolling

-----------------------------------------------------------------------------
\* Each step of the pipeline is a step of the lifecycle or leaves the records
\* as they are.
LEMMA StepsFollowLifecycle ==
  ASSUME PromptInv, OneReporter, Next
  PROVE  [Lifecycle!LifecycleNext]_(Lifecycle!lifecycleVars)
<1> USE DEF PromptInv, TypeInv, TypeOK, StoreTypeOK
<1>1. ASSUME UNCHANGED storeVars
      PROVE  UNCHANGED Lifecycle!lifecycleVars
  BY <1>1 DEF storeVars, Lifecycle!lifecycleVars
<1>2. ASSUME NEW j \in Jobs, BeginJob(j)
      PROVE  Lifecycle!Submit(j)
  <2>1. errorCode[j] = NoError
    BY <1>2 DEF BeginJob, CreateJob, RecordsAgree, Lifecycle!RecordsAgree
  <2> QED
    BY <1>2, <2>1 DEF BeginJob, CreateJob, Lifecycle!Submit, Lifecycle!MoveTo
<1>3. ASSUME NEW j \in Jobs, RecordSearching(j)
      PROVE  Lifecycle!Searched(j)
  BY <1>3 DEF RecordSearching, Advance, SetStatus, IntakeRecords, InRunIntake,
              Lifecycle!Searched, Lifecycle!MoveTo
<1>4. ASSUME NEW j \in Jobs, RecordIntakeFailure(j)
      PROVE  Lifecycle!Failed(j)
  <2>1. intake[j] \in ErrorCodes /\ status[j] = "analyzing"
    BY <1>4 DEF RecordIntakeFailure, ErrorCodes, IntakeRecords, InRunIntake
  <2> QED
    BY <1>4, <2>1 DEF RecordIntakeFailure, SetStatus, Lifecycle!Failed, Lifecycle!MoveTo,
                      Lifecycle!Open
<1>5. ASSUME NEW w \in Reporters, reporter[w].pc \in {"starting", "failing"}
      PROVE  Lifecycle!Open(reporter[w].job)
  <2>1. /\ reporter[w].job \in Jobs
        /\ Received(reporter[w].job)
        /\ report[reporter[w].job] = NoReport
    BY <1>5 DEF BusyWorkersHoldJobs, Received, ReporterRecords
  <2>2. status[reporter[w].job] \notin {"absent", "completed"}
    BY <2>1 DEF WorkFollowsIntake, IntakeRecords, RecordsAgree, Lifecycle!RecordsAgree
  <2> QED
    BY <2>1, <2>2 DEF Lifecycle!Open, JobStatus
<1>6. ASSUME NEW w \in Reporters, StartRanking(w)
      PROVE  Lifecycle!Ranked(reporter[w].job)
  BY <1>5, <1>6 DEF StartRanking, Reporting, SetStatus, Lifecycle!Ranked, Lifecycle!MoveTo
<1>7. ASSUME NEW w \in Reporters, RecordFailure(w)
      PROVE  Lifecycle!Failed(reporter[w].job)
  <2> DEFINE code == IF reporter[w].error # NoError THEN reporter[w].error ELSE "ranking_failed"
  <2>1. code \in ErrorCodes
    BY DEF ErrorCodes, ReporterState
  <2>2. SetStatus(reporter[w].job, "failed", code) /\ reporter[w].pc = "failing"
    BY <1>7 DEF RecordFailure, Reporting
  <2> HIDE DEF code
  <2> QED
    BY <1>5, <2>1, <2>2 DEF SetStatus, Lifecycle!Failed, Lifecycle!MoveTo
<1>8. ASSUME NEW w \in Reporters, StoreReport(w)
      PROVE  Lifecycle!Completed(reporter[w].job)
  <2>1. /\ reporter[w].job \in Jobs /\ reporter[w].draft \in Reports
        /\ report[reporter[w].job] = NoReport
        /\ status[reporter[w].job] = "ranking"
    BY <1>8 DEF StoreReport, Reporting, BusyWorkersHoldJobs, ReporterRecords
  <2> QED
    BY <1>8, <2>1 DEF StoreReport, CompleteJob, Lifecycle!Completed, Lifecycle!MoveTo
<1>9. ASSUME NEW w \in Reporters, reporter[w].pc # "idle"
      PROVE  reporter[w].job \in Jobs
  BY <1>9 DEF BusyWorkersHoldJobs
<1>10. ASSUME NEW w \in Reporters, StartRanking(w) \/ RecordFailure(w) \/ StoreReport(w)
       PROVE  Lifecycle!LifecycleNext
  <2>1. reporter[w].job \in Jobs
    BY <1>9, <1>10 DEF StartRanking, RecordFailure, StoreReport, Reporting
  <2> QED
    BY <1>6, <1>7, <1>8, <1>10, <2>1 DEF Lifecycle!LifecycleNext
<1>11. ASSUME NEW w \in Reporters,
              \/ \E b \in Batch : PullBatch(w, b)
              \/ CheckBatch(w) \/ Rank(w) \/ AckBatch(w) \/ DropBatch(w) \/ BatchLeaseExpires(w)
       PROVE  UNCHANGED storeVars
  BY <1>11 DEF PullBatch, CheckBatch, Rank, AckBatch, DropBatch, BatchLeaseExpires
<1>12. ASSUME NEW w \in Searchers,
              \/ \E j \in Jobs : PullPlan(w, j)
              \/ SearcherStep(w) \/ DropPlan(w) \/ PlanLeaseExpires(w)
       PROVE  UNCHANGED storeVars
  BY <1>12, SearchersLeaveRecords
<1>13. ASSUME NEW j \in Jobs,
              \/ AnalyzeClaims(j) \/ SendPlan(j) \/ ConfirmPlan(j) \/ PublishPlanRaises(j)
              \/ AbortIntake(j) \/ DoneKeyExpires(j)
       PROVE  UNCHANGED storeVars
  BY <1>13 DEF AnalyzeClaims, SendPlan, ConfirmPlan, PublishPlanRaises, AbortIntake,
       DoneKeyExpires, searcherFrame
<1>14. ASSUME KeepPolling
       PROVE  UNCHANGED storeVars
  BY <1>14 DEF KeepPolling, vars, storeVars
<1> QED
  BY <1>1, <1>2, <1>3, <1>4, <1>10, <1>11, <1>12, <1>13, <1>14
     DEF Next, IntakeStep, ReporterStep, Lifecycle!LifecycleNext

\* With requests that leave run_intake in time and one report worker, for any
\* number of jobs, search workers and faults: what a client polls is what the
\* lifecycle promises.
THEOREM PipelineFollowsLifecycle ==
  ASSUME Prompt, OneReporter
  PROVE  Spec => FollowsLifecycle
<1>1. Init => Lifecycle!LifecycleInit
  BY DEF Init, StoreInit, Lifecycle!LifecycleInit
<1>2. PromptInv /\ [Next]_vars => [Lifecycle!LifecycleNext]_(Lifecycle!lifecycleVars)
  BY StepsFollowLifecycle DEF vars, Lifecycle!lifecycleVars
<1>3. PromptInv /\ [Next]_vars => PromptInv'
  BY NextKeepsPrompt
<1> QED
  BY <1>1, <1>2, <1>3, InitPrompt, PTL DEF Spec, FollowsLifecycle, Lifecycle!LifecycleSpec

\* Under the same premises a report, an error code and the status always agree.
THEOREM RecordsAlwaysAgree ==
  ASSUME Prompt, OneReporter
  PROVE  Spec => []RecordsAgree
<1>1. PromptInv /\ [Next]_vars => PromptInv'
  BY NextKeepsPrompt
<1>2. PromptInv => RecordsAgree
  BY DEF PromptInv
<1> QED
  BY <1>1, <1>2, InitPrompt, PTL DEF Spec

-----------------------------------------------------------------------------
(* One report worker, and requests that may overlap with B and C.          *)

WorksOnOpenJobs ==
    \A w \in Reporters :
      reporter[w].pc \in {"starting", "ranking", "storing", "failing"}
        => report[reporter[w].job] = NoReport

DeployedInv == TypeInv /\ WorksOnOpenJobs /\ NoReportLeftRanking

\* Of the records, a request changes only the status and error code of its own
\* job, never to ranking, and moves on as it does.
LEMMA RequestEffect ==
  ASSUME TypeInv, NEW j \in Jobs, BeginJob(j) \/ IntakeStep(j) \/ AbortIntake(j)
  PROVE  /\ UNCHANGED <<report, reporter>>
         /\ \/ UNCHANGED <<status, errorCode>>
            \/ /\ intake'[j] # intake[j] /\ status'[j] # "ranking"
               /\ \A k \in Jobs \ {j} : status'[k] = status[k] /\ errorCode'[k] = errorCode[k]
<1> USE DEF TypeInv, TypeOK, StoreTypeOK
<1>1. CASE BeginJob(j)
  BY <1>1 DEF BeginJob, Advance, CreateJob, intakeFrame
<1>2. CASE AnalyzeClaims(j) \/ SendPlan(j) \/ ConfirmPlan(j) \/ PublishPlanRaises(j) \/ AbortIntake(j)
  BY <1>2 DEF AnalyzeClaims, SendPlan, ConfirmPlan, PublishPlanRaises, AbortIntake,
              intakeFrame, storeVars
<1>3. CASE RecordSearching(j)
  BY <1>3 DEF RecordSearching, Advance, SetStatus, intakeFrame
<1>4. CASE RecordIntakeFailure(j)
  BY <1>4 DEF RecordIntakeFailure, SetStatus, intakeFrame
<1> QED
  BY <1>1, <1>2, <1>3, <1>4 DEF IntakeStep

\* The one report worker changes the records of the job it holds, and only
\* while no report is stored for it.
LEMMA ReporterEffect ==
  ASSUME OneReporter, DeployedInv, NEW w \in Reporters,
         \/ \E b \in Batch : PullBatch(w, b)
         \/ ReporterStep(w) \/ DropBatch(w) \/ BatchLeaseExpires(w)
  PROVE  /\ WorksOnOpenJobs'
         /\ \/ UNCHANGED storeVars
            \/ \E j \in Jobs :
                 /\ report[j] = NoReport
                 /\ report'[j] = NoReport \/ status'[j] = "completed"
                 /\ \A k \in Jobs \ {j} : /\ status'[k] = status[k]
                                         /\ errorCode'[k] = errorCode[k]
                                         /\ report'[k] = report[k]
<1> USE DEF DeployedInv, TypeInv, TypeOK
<1>1. \A v \in Reporters : v = w
  BY DEF OneReporter
<1>2. ASSUME NEW b \in Batch, PullBatch(w, b)
      PROVE  WorksOnOpenJobs' /\ UNCHANGED storeVars
  <2>1. reporter'[w].pc = "checking"
    BY <1>2 DEF PullBatch
  <2> QED
    BY <1>1, <1>2, <2>1 DEF PullBatch, WorksOnOpenJobs
<1>3. CASE AckBatch(w) \/ DropBatch(w)
  <2>1. reporter'[w].pc = "idle" /\ UNCHANGED storeVars
    BY <1>3 DEF AckBatch, DropBatch, IdleReporter
  <2> QED
    BY <1>1, <2>1 DEF WorksOnOpenJobs
<1>4. CASE BatchLeaseExpires(w)
  <2>1. /\ reporter'[w].job = reporter[w].job /\ reporter'[w].pc = reporter[w].pc
        /\ UNCHANGED storeVars
    BY <1>4 DEF BatchLeaseExpires, ReporterState
  <2> QED
    BY <1>1, <2>1 DEF WorksOnOpenJobs, storeVars
<1>5. CASE CheckBatch(w)
  <2>1. PICK to \in {"acking", "failing", "starting"} :
           /\ Reporting(w, "checking", to)
           /\ to \in {"failing", "starting"} => report[reporter[w].job] = NoReport
    BY <1>5 DEF CheckBatch
  <2>2. /\ reporter'[w].job = reporter[w].job /\ reporter'[w].pc = to
        /\ UNCHANGED storeVars
    BY <1>5, <2>1 DEF CheckBatch, Reporting, ReporterState
  <2> QED
    BY <1>1, <2>1, <2>2 DEF WorksOnOpenJobs, storeVars
<1>6. CASE Rank(w)
  <2>1. reporter[w].pc = "ranking" /\ UNCHANGED storeVars
    BY <1>6 DEF Rank
  <2>2. reporter'[w].job = reporter[w].job
    <3>1. CASE reporter' = [reporter EXCEPT ![w].pc = "failing"]
      BY <3>1 DEF ReporterState
    <3>2. ASSUME NEW r \in Reports,
                 reporter' = [reporter EXCEPT ![w] = [@ EXCEPT !.pc = "storing", !.draft = r]]
          PROVE  reporter'[w].job = reporter[w].job
      <4> DEFINE ranked == [reporter[w] EXCEPT !.pc = "storing", !.draft = r]
      <4>1. ranked.job = reporter[w].job
        BY RankedTyped
      <4>2. reporter' = [reporter EXCEPT ![w] = ranked]
        BY <3>2
      <4> HIDE DEF ranked
      <4> QED
        BY <4>1, <4>2
    <3> QED
      BY <1>6, <3>1, <3>2 DEF Rank
  <2> QED
    BY <1>1, <2>1, <2>2 DEF WorksOnOpenJobs, storeVars
<1>7. ASSUME NEW from \in {"starting", "storing", "failing"}, NEW to, Reporting(w, from, to)
      PROVE  /\ reporter[w].job \in Jobs /\ report[reporter[w].job] = NoReport
             /\ reporter'[w].job = reporter[w].job /\ reporter'[w].pc = to
  BY <1>7 DEF Reporting, WorksOnOpenJobs, BusyWorkersHoldJobs, ReporterState
<1>8. ASSUME NEW s, NEW code, SetStatus(reporter[w].job, s, code), reporter[w].job \in Jobs
      PROVE  /\ UNCHANGED report
             /\ \A k \in Jobs \ {reporter[w].job} : /\ status'[k] = status[k]
                                                   /\ errorCode'[k] = errorCode[k]
  BY <1>8 DEF SetStatus, StoreTypeOK
<1>9. CASE StartRanking(w)
  <2>1. Reporting(w, "starting", "ranking") /\ SetStatus(reporter[w].job, "ranking", NoError)
    BY <1>9 DEF StartRanking
  <2> QED
    BY <1>1, <1>7, <1>8, <2>1 DEF WorksOnOpenJobs
<1>10. CASE RecordFailure(w)
  <2>1. PICK code : Reporting(w, "failing", "acking") /\ SetStatus(reporter[w].job, "failed", code)
    BY <1>10 DEF RecordFailure
  <2> QED
    BY <1>1, <1>7, <1>8, <2>1 DEF WorksOnOpenJobs
<1>11. CASE StoreReport(w)
  <2>1. /\ Reporting(w, "storing", "acking")
        /\ CompleteJob(reporter[w].job, reporter[w].draft)
    BY <1>11 DEF StoreReport
  <2> QED
    BY <1>1, <1>7, <2>1 DEF WorksOnOpenJobs, CompleteJob, StoreTypeOK
<1> QED
  BY <1>2, <1>3, <1>4, <1>5, <1>6, <1>9, <1>10, <1>11 DEF ReporterStep

\* Component B and the end of a completion key leave records and C alone.
LEMMA ElsewhereEffect ==
  ASSUME \/ \E w \in Searchers : \/ \E j \in Jobs : PullPlan(w, j)
                                \/ SearcherStep(w) \/ DropPlan(w) \/ PlanLeaseExpires(w)
         \/ \E j \in Jobs : DoneKeyExpires(j)
         \/ KeepPolling \/ UNCHANGED vars
  PROVE  UNCHANGED <<storeVars, reporter>>
BY DEF PullPlan, SearcherStep, DropPlan, PlanLeaseExpires, CheckPlan, Search, SearchRaises,
       SendBatch, ConfirmBatch, MarkDone, AckPlan, DoneKeyExpires, KeepPolling, vars,
       searcherFrame, storeVars

LEMMA DeployedStep ==
  ASSUME OneReporter, DeployedInv, [Next]_vars
  PROVE  /\ DeployedInv'
         /\ \A j \in Jobs : (report[j] # NoReport /\ intake'[j] = intake[j])
                           => (status'[j] = status[j] /\ errorCode'[j] = errorCode[j])
<1>1. TypeInv'
  BY NextTyped DEF DeployedInv
<1>2. ASSUME NEW j \in Jobs, BeginJob(j) \/ IntakeStep(j) \/ AbortIntake(j)
      PROVE  /\ WorksOnOpenJobs' /\ NoReportLeftRanking'
             /\ \A k \in Jobs : (report[k] # NoReport /\ intake'[k] = intake[k])
                               => (status'[k] = status[k] /\ errorCode'[k] = errorCode[k])
  BY <1>2, RequestEffect DEF DeployedInv, WorksOnOpenJobs, NoReportLeftRanking
<1>3. ASSUME NEW w \in Reporters,
             \/ \E b \in Batch : PullBatch(w, b)
             \/ ReporterStep(w) \/ DropBatch(w) \/ BatchLeaseExpires(w)
      PROVE  /\ WorksOnOpenJobs' /\ NoReportLeftRanking'
             /\ \A k \in Jobs : (report[k] # NoReport /\ intake'[k] = intake[k])
                               => (status'[k] = status[k] /\ errorCode'[k] = errorCode[k])
  BY <1>3, ReporterEffect DEF DeployedInv, NoReportLeftRanking, storeVars
<1>4. ASSUME UNCHANGED <<storeVars, reporter>>
      PROVE  /\ WorksOnOpenJobs' /\ NoReportLeftRanking'
             /\ \A k \in Jobs : (report[k] # NoReport /\ intake'[k] = intake[k])
                               => (status'[k] = status[k] /\ errorCode'[k] = errorCode[k])
  BY <1>4 DEF DeployedInv, WorksOnOpenJobs, NoReportLeftRanking, storeVars
<1> QED
  BY <1>1, <1>2, <1>3, <1>4, ElsewhereEffect DEF DeployedInv, Next

LEMMA DeployedInvHolds ==
  ASSUME OneReporter
  PROVE  Spec => []DeployedInv
<1>1. Init => DeployedInv
  BY InitTyped DEF Init, StoreInit, DeployedInv, WorksOnOpenJobs, NoReportLeftRanking,
                   IdleReporter
<1>2. DeployedInv /\ [Next]_vars => DeployedInv'
  BY DeployedStep
<1> QED
  BY <1>1, <1>2, PTL DEF Spec

\* With one report worker no stored report belongs to a job put back to
\* ranking, for any number of jobs, search workers and faults, and whether or
\* not requests overlap with B and C.
THEOREM ReportedJobsAreNotRanking ==
  ASSUME OneReporter
  PROVE  Spec => []NoReportLeftRanking
<1>1. DeployedInv => NoReportLeftRanking
  BY DEF DeployedInv
<1> QED
  BY <1>1, DeployedInvHolds, PTL

\* Under the same premise C leaves the status of a reported job alone.
THEOREM ReportedJobsAreLeftAlone ==
  ASSUME OneReporter
  PROVE  Spec => ReportersLeaveReportedJobs
<1>1. DeployedInv /\ [Next]_vars =>
        [\A j \in Jobs : (report[j] # NoReport /\ intake'[j] = intake[j])
                        => (status'[j] = status[j] /\ errorCode'[j] = errorCode[j])]_vars
  BY DeployedStep
<1> QED
  BY <1>1, DeployedInvHolds, PTL DEF Spec, ReportersLeaveReportedJobs

-----------------------------------------------------------------------------
(* No premise at all: requests overlap with B and C, and any number of     *)
(* report workers may hold one job.  What still has to be known is that    *)
(* only jobs that were begun are worked on, and that the records of a job  *)
(* some report worker ranks are past analyzing.                            *)

OnlyBegunJobs ==
    \A j \in Jobs :
      /\ status[j] = "absent" => intake[j] = "idle" /\ errorCode[j] = NoError
      /\ plans[j] > 0 \/ Received(j) => status[j] # "absent"

RankedJobsLeftAnalyzing ==
    \A w \in Reporters :
      reporter[w].pc \in {"ranking", "storing"}
        => status[reporter[w].job] \notin {"absent", "analyzing"}

OverlapInv == TypeInv /\ OnlyBegunJobs /\ RankedJobsLeftAnalyzing

\* What a worker of B or C may touch: jobs somebody has already received.
LEMMA ReporterHandsBack ==
  ASSUME TypeInv, NEW w \in Reporters, NEW k \in Jobs,
         \/ \E b \in Batch : PullBatch(w, b)
         \/ ReporterStep(w) \/ DropBatch(w) \/ BatchLeaseExpires(w)
  PROVE  UNCHANGED <<intake, plans, searcher>> /\ (Received(k)' => Received(k))
<1>0. UNCHANGED <<intake, plans, searcher>>
  BY DEF PullBatch, ReporterStep, DropBatch, BatchLeaseExpires, CheckBatch, StartRanking, Rank,
         StoreReport, RecordFailure, AckBatch, reporterFrame
<1> USE DEF TypeInv, TypeOK
<1>1. ASSUME UNCHANGED batches \/ ReturnBatch(w),
             \A v \in Reporters : reporter'[v].job \in {reporter[v].job, NoJob}
      PROVE  Received(k)' => Received(k)
  BY <1>0, <1>1, NoJobAssumption DEF Received, ReturnBatch, HeldBatch
<1>2. ASSUME NEW b \in Batch, PullBatch(w, b)
      PROVE  Received(k)' => Received(k)
  BY <1>0, <1>2 DEF PullBatch, Received
<1>3. CASE AckBatch(w) \/ DropBatch(w)
  <2>1. UNCHANGED batches \/ ReturnBatch(w)
    BY <1>3 DEF AckBatch, DropBatch
  <2>2. reporter' = [reporter EXCEPT ![w] = IdleReporter] /\ IdleReporter.job = NoJob
    BY <1>3 DEF AckBatch, DropBatch, IdleReporter
  <2>3. \A v \in Reporters : reporter'[v].job \in {reporter[v].job, NoJob}
    BY <2>2
  <2> QED
    BY <1>0, <1>1, <2>1, <2>3
<1>4. CASE BatchLeaseExpires(w)
  <2>1. ReturnBatch(w)
    BY <1>4 DEF BatchLeaseExpires
  <2>2. \A v \in Reporters : reporter'[v].job \in {reporter[v].job, NoJob}
    BY <1>4 DEF BatchLeaseExpires, ReporterState
  <2> QED
    BY <1>0, <1>1, <2>1, <2>2
<1>5. CASE CheckBatch(w) \/ StartRanking(w) \/ StoreReport(w) \/ RecordFailure(w)
  <2>1. PICK from, to : Reporting(w, from, to)
    BY <1>5 DEF CheckBatch, StartRanking, StoreReport, RecordFailure
  <2>2. UNCHANGED batches
    BY <1>5 DEF CheckBatch, StartRanking, StoreReport, RecordFailure
  <2>3. \A v \in Reporters : reporter'[v].job \in {reporter[v].job, NoJob}
    BY <2>1 DEF Reporting, ReporterState
  <2> QED
    BY <1>0, <1>1, <2>2, <2>3
<1>6. CASE Rank(w)
  <2>1. UNCHANGED batches
    BY <1>6 DEF Rank
  <2>2. CASE reporter' = [reporter EXCEPT ![w].pc = "failing"]
    <3>1. \A v \in Reporters : reporter'[v].job \in {reporter[v].job, NoJob}
      BY <2>2 DEF ReporterState
    <3> QED
      BY <1>0, <1>1, <2>1, <3>1
  <2>3. ASSUME NEW r \in Reports,
               reporter' = [reporter EXCEPT ![w] = [@ EXCEPT !.pc = "storing", !.draft = r]]
        PROVE  Received(k)' => Received(k)
    <3> DEFINE ranked == [reporter[w] EXCEPT !.pc = "storing", !.draft = r]
    <3>1. ranked.job = reporter[w].job
      BY RankedTyped
    <3>2. reporter' = [reporter EXCEPT ![w] = ranked]
      BY <2>3
    <3> HIDE DEF ranked
    <3>3. \A v \in Reporters : reporter'[v].job \in {reporter[v].job, NoJob}
      BY <3>1, <3>2
    <3> QED
      BY <1>1, <2>1, <3>3
  <2> QED
    BY <1>0, <1>6, <2>2, <2>3 DEF Rank
<1> QED
  BY <1>0, <1>2, <1>3, <1>4, <1>5, <1>6 DEF ReporterStep

\* Each step of the pipeline is a step of the lifecycle in any order, or leaves
\* the records as they are.
LEMMA StepsFollowAnyOrder ==
  ASSUME OverlapInv, Next
  PROVE  [Lifecycle!AnyOrderNext]_(Lifecycle!lifecycleVars)
<1> USE DEF OverlapInv, TypeInv, TypeOK, StoreTypeOK
<1>1. ASSUME UNCHANGED storeVars
      PROVE  UNCHANGED Lifecycle!lifecycleVars
  BY <1>1 DEF storeVars, Lifecycle!lifecycleVars
<1>2. ASSUME NEW j \in Jobs, BeginJob(j)
      PROVE  Lifecycle!Submit(j)
  <2>1. errorCode[j] = NoError
    BY <1>2 DEF BeginJob, CreateJob, OnlyBegunJobs
  <2> QED
    BY <1>2, <2>1 DEF BeginJob, CreateJob, Lifecycle!Submit, Lifecycle!MoveTo
<1>3. ASSUME NEW j \in Jobs, RecordSearching(j)
      PROVE  Lifecycle!Rewritten(j)
  BY <1>3 DEF RecordSearching, Advance, SetStatus, OnlyBegunJobs, Lifecycle!Rewritten,
              Lifecycle!MoveTo
<1>4. ASSUME NEW j \in Jobs, RecordIntakeFailure(j)
      PROVE  Lifecycle!Rewritten(j)
  <2>1. intake[j] \in ErrorCodes /\ status[j] # "absent"
    BY <1>4 DEF RecordIntakeFailure, ErrorCodes, OnlyBegunJobs
  <2> QED
    BY <1>4, <2>1 DEF RecordIntakeFailure, SetStatus, Lifecycle!Rewritten, Lifecycle!MoveTo
<1>5. ASSUME NEW w \in Reporters, reporter[w].pc # "idle"
      PROVE  reporter[w].job \in Jobs /\ status[reporter[w].job] # "absent"
  BY <1>5 DEF BusyWorkersHoldJobs, Received, OnlyBegunJobs
<1>6. ASSUME NEW w \in Reporters, StartRanking(w)
      PROVE  Lifecycle!AnyOrderNext
  <2>1. Lifecycle!Rewritten(reporter[w].job)
    BY <1>5, <1>6 DEF StartRanking, Reporting, SetStatus, Lifecycle!Rewritten, Lifecycle!MoveTo
  <2>2. reporter[w].job \in Jobs
    BY <1>5, <1>6 DEF StartRanking, Reporting
  <2> QED
    BY <2>1, <2>2 DEF Lifecycle!AnyOrderNext
<1>7. ASSUME NEW w \in Reporters, RecordFailure(w)
      PROVE  Lifecycle!AnyOrderNext
  <2> DEFINE code == IF reporter[w].error # NoError THEN reporter[w].error ELSE "ranking_failed"
  <2>1. code \in ErrorCodes
    BY DEF ErrorCodes, ReporterState
  <2>2. SetStatus(reporter[w].job, "failed", code) /\ reporter[w].pc = "failing"
    BY <1>7 DEF RecordFailure, Reporting
  <2> HIDE DEF code
  <2>3. Lifecycle!Rewritten(reporter[w].job) /\ reporter[w].job \in Jobs
    BY <1>5, <2>1, <2>2 DEF SetStatus, Lifecycle!Rewritten, Lifecycle!MoveTo
  <2> QED
    BY <2>3 DEF Lifecycle!AnyOrderNext
<1>8. ASSUME NEW w \in Reporters, StoreReport(w)
      PROVE  Lifecycle!AnyOrderNext
  <2>1. /\ reporter[w].job \in Jobs /\ reporter[w].draft \in Reports
        /\ status[reporter[w].job] \notin {"absent", "analyzing"}
    BY <1>5, <1>8 DEF StoreReport, Reporting, BusyWorkersHoldJobs, RankedJobsLeftAnalyzing
  <2>2. Lifecycle!Reported(reporter[w].job)
    BY <1>8, <2>1 DEF StoreReport, CompleteJob, Lifecycle!Reported, Lifecycle!MoveTo
  <2> QED
    BY <2>1, <2>2 DEF Lifecycle!AnyOrderNext
<1>9. ASSUME NEW w \in Reporters,
             \/ \E b \in Batch : PullBatch(w, b)
             \/ CheckBatch(w) \/ Rank(w) \/ AckBatch(w) \/ DropBatch(w) \/ BatchLeaseExpires(w)
      PROVE  UNCHANGED storeVars
  BY <1>9 DEF PullBatch, CheckBatch, Rank, AckBatch, DropBatch, BatchLeaseExpires
<1>10. ASSUME NEW j \in Jobs,
              \/ AnalyzeClaims(j) \/ SendPlan(j) \/ ConfirmPlan(j) \/ PublishPlanRaises(j)
              \/ AbortIntake(j)
       PROVE  UNCHANGED storeVars
  BY <1>10 DEF AnalyzeClaims, SendPlan, ConfirmPlan, PublishPlanRaises, AbortIntake
<1> QED
  BY <1>1, <1>2, <1>3, <1>4, <1>6, <1>7, <1>8, <1>9, <1>10, ElsewhereEffect
     DEF Next, IntakeStep, ReporterStep, Lifecycle!AnyOrderNext

\* What AnyOrderSpec promises of one job over one step.
LEMMA RecordsMoveOn ==
  ASSUME TypeInv, [Lifecycle!AnyOrderNext]_(Lifecycle!lifecycleVars), NEW j \in Jobs
  PROVE  /\ status[j] # "absent" => status'[j] # "absent"
         /\ status[j] \notin {"absent", "analyzing"} => status'[j] \notin {"absent", "analyzing"}
         /\ status'[j] = "absent" => errorCode'[j] = errorCode[j]
<1> USE DEF TypeInv, TypeOK, StoreTypeOK
<1>1. CASE UNCHANGED Lifecycle!lifecycleVars
  BY <1>1 DEF Lifecycle!lifecycleVars
<1>2. ASSUME NEW k \in Jobs, NEW s, NEW code, Lifecycle!MoveTo(k, s, code),
             s # "absent", s = "analyzing" => status[k] = "absent"
      PROVE  /\ status[j] # "absent" => status'[j] # "absent"
             /\ status[j] \notin {"absent", "analyzing"}
                  => status'[j] \notin {"absent", "analyzing"}
             /\ status'[j] = "absent" => errorCode'[j] = errorCode[j]
  BY <1>2 DEF Lifecycle!MoveTo
<1>3. CASE Lifecycle!AnyOrderNext
  BY <1>2, <1>3 DEF Lifecycle!AnyOrderNext, Lifecycle!Submit, Lifecycle!Rewritten,
                    Lifecycle!Reported
<1> QED
  BY <1>1, <1>3

\* A request starts and hands on only its own job.
LEMMA RequestHandsOn ==
  ASSUME OverlapInv, NEW j \in Jobs, BeginJob(j) \/ IntakeStep(j) \/ AbortIntake(j)
  PROVE  /\ UNCHANGED reporter
         /\ \A k \in Jobs : /\ Received(k)' => Received(k)
                            /\ k # j => intake'[k] = intake[k] /\ plans'[k] = plans[k]
         /\ status'[j] # "absent"
<1>1. UNCHANGED <<batches, searcher, reporter>>
  BY IntakeLeavesWork
<1>2. \A k \in Jobs : Received(k)' => Received(k)
  BY <1>1 DEF Received
<1> USE DEF OverlapInv, TypeInv, TypeOK, StoreTypeOK, OnlyBegunJobs
<1>3. CASE BeginJob(j)
  BY <1>1, <1>2, <1>3 DEF BeginJob, Advance, CreateJob
<1>4. CASE AnalyzeClaims(j) \/ SendPlan(j) \/ ConfirmPlan(j) \/ PublishPlanRaises(j) \/ AbortIntake(j)
  <2>1. intake[j] # "idle" /\ UNCHANGED storeVars
    BY <1>4 DEF AnalyzeClaims, SendPlan, ConfirmPlan, PublishPlanRaises, AbortIntake, Advance,
                InRunIntake
  <2>2. \A k \in Jobs : k # j => intake'[k] = intake[k] /\ plans'[k] = plans[k]
    BY <1>4 DEF AnalyzeClaims, SendPlan, ConfirmPlan, PublishPlanRaises, AbortIntake, Advance
  <2> QED
    BY <1>1, <1>2, <2>1, <2>2 DEF storeVars
<1>5. CASE RecordSearching(j)
  BY <1>1, <1>2, <1>5 DEF RecordSearching, Advance, SetStatus
<1>6. CASE RecordIntakeFailure(j)
  BY <1>1, <1>2, <1>6 DEF RecordIntakeFailure, SetStatus
<1> QED
  BY <1>3, <1>4, <1>5, <1>6 DEF IntakeStep

\* A worker ranks a job only after it has put it to ranking itself.
LEMMA RankingStartsWithStatus ==
  ASSUME TypeInv, NEW w \in Reporters, NEW v \in Reporters,
         \/ \E b \in Batch : PullBatch(w, b)
         \/ ReporterStep(w) \/ DropBatch(w) \/ BatchLeaseExpires(w),
         reporter'[v].pc \in {"ranking", "storing"}
  PROVE  /\ reporter'[v].job = reporter[v].job
         /\ \/ reporter[v].pc \in {"ranking", "storing"}
            \/ /\ reporter[v].job \in Jobs
               /\ status'[reporter[v].job] = "ranking"
<1> USE DEF TypeInv, TypeOK, StoreTypeOK
<1>1. CASE v # w
  BY <1>1 DEF PullBatch, ReporterStep, DropBatch, BatchLeaseExpires, CheckBatch, StartRanking,
              Rank, StoreReport, RecordFailure, AckBatch, Reporting
<1>2. CASE v = w
  <2>1. ASSUME NEW b \in Batch, PullBatch(w, b)
        PROVE  FALSE
    BY <1>2, <2>1 DEF PullBatch
  <2>2. CASE AckBatch(w) \/ DropBatch(w)
    BY <1>2, <2>2 DEF AckBatch, DropBatch, IdleReporter
  <2>3. CASE BatchLeaseExpires(w)
    BY <1>2, <2>3 DEF BatchLeaseExpires, ReporterState
  <2>4. CASE CheckBatch(w) \/ StoreReport(w) \/ RecordFailure(w)
    <3>1. \E from, to : Reporting(w, from, to) /\ to \notin {"ranking", "storing"}
      BY <2>4 DEF CheckBatch, StoreReport, RecordFailure
    <3> QED
      BY <1>2, <3>1 DEF Reporting, ReporterState
  <2>5. CASE StartRanking(w)
    <3>1. /\ reporter'[w].job = reporter[w].job /\ reporter[w].pc = "starting"
          /\ SetStatus(reporter[w].job, "ranking", NoError)
      BY <2>5 DEF StartRanking, Reporting, ReporterState
    <3>2. reporter[w].job \in Jobs
      BY <3>1 DEF BusyWorkersHoldJobs
    <3> QED
      BY <1>2, <3>1, <3>2 DEF SetStatus
  <2>6. CASE Rank(w)
    <3>1. reporter[w].pc = "ranking"
      BY <2>6 DEF Rank
    <3>2. CASE reporter' = [reporter EXCEPT ![w].pc = "failing"]
      BY <1>2, <3>2 DEF ReporterState
    <3>3. ASSUME NEW r \in Reports,
                 reporter' = [reporter EXCEPT ![w] = [@ EXCEPT !.pc = "storing", !.draft = r]]
          PROVE  reporter'[w].job = reporter[w].job
      <4> DEFINE ranked == [reporter[w] EXCEPT !.pc = "storing", !.draft = r]
      <4>1. ranked.job = reporter[w].job
        BY RankedTyped
      <4>2. reporter' = [reporter EXCEPT ![w] = ranked]
        BY <3>3
      <4> HIDE DEF ranked
      <4> QED
        BY <4>1, <4>2
    <3> QED
      BY <1>2, <2>6, <3>1, <3>2, <3>3 DEF Rank
  <2> QED
    BY <2>1, <2>2, <2>3, <2>4, <2>5, <2>6 DEF ReporterStep
<1> QED
  BY <1>1, <1>2

LEMMA NextKeepsOverlap == OverlapInv /\ [Next]_vars => OverlapInv'
<1> SUFFICES ASSUME OverlapInv, [Next]_vars  PROVE OverlapInv'
  OBVIOUS
<1>1. TypeInv'
  BY NextTyped DEF OverlapInv
<1>2. [Lifecycle!AnyOrderNext]_(Lifecycle!lifecycleVars)
  BY StepsFollowAnyOrder DEF vars, Lifecycle!lifecycleVars
<1>3. \A k \in Jobs :
        /\ status[k] # "absent" => status'[k] # "absent"
        /\ status[k] \notin {"absent", "analyzing"} => status'[k] \notin {"absent", "analyzing"}
        /\ status'[k] = "absent" => errorCode'[k] = errorCode[k]
  BY <1>2, RecordsMoveOn DEF OverlapInv
<1>4. ASSUME UNCHANGED reporter
      PROVE  RankedJobsLeftAnalyzing'
  BY <1>3, <1>4 DEF OverlapInv, TypeInv, BusyWorkersHoldJobs, RankedJobsLeftAnalyzing
<1>5. ASSUME \A k \in Jobs :
               /\ intake'[k] # intake[k] => status'[k] # "absent"
               /\ plans'[k] > 0 => plans[k] > 0 \/ Received(k) \/ status'[k] # "absent"
               /\ Received(k)' => plans[k] > 0 \/ Received(k)
      PROVE  OnlyBegunJobs'
  BY <1>3, <1>5 DEF OverlapInv, OnlyBegunJobs
<1>6. ASSUME NEW j \in Jobs, BeginJob(j) \/ IntakeStep(j) \/ AbortIntake(j)
      PROVE  OnlyBegunJobs' /\ RankedJobsLeftAnalyzing'
  BY <1>4, <1>5, <1>6, RequestHandsOn
<1>7. ASSUME NEW w \in Searchers,
             \/ \E j \in Jobs : PullPlan(w, j)
             \/ SearcherStep(w) \/ DropPlan(w) \/ PlanLeaseExpires(w)
      PROVE  OnlyBegunJobs' /\ RankedJobsLeftAnalyzing'
  <2>1. UNCHANGED <<storeVars, intake, reporter>>
    BY <1>7, SearchersLeaveRecords
  <2>2. \A k \in Jobs : /\ plans'[k] > 0 => plans[k] > 0 \/ Received(k)
                        /\ Received(k)' => plans[k] > 0 \/ Received(k)
    BY <1>7, SearcherPassesOn DEF OverlapInv
  <2> QED
    BY <1>4, <1>5, <2>1, <2>2
<1>8. ASSUME NEW w \in Reporters,
             \/ \E b \in Batch : PullBatch(w, b)
             \/ ReporterStep(w) \/ DropBatch(w) \/ BatchLeaseExpires(w)
      PROVE  OnlyBegunJobs' /\ RankedJobsLeftAnalyzing'
  <2>1. OnlyBegunJobs'
    BY <1>5, <1>8, ReporterHandsBack DEF OverlapInv
  <2>2. RankedJobsLeftAnalyzing'
    BY <1>3, <1>8, RankingStartsWithStatus
       DEF OverlapInv, TypeInv, BusyWorkersHoldJobs, RankedJobsLeftAnalyzing
  <2> QED
    BY <2>1, <2>2
<1>9. ASSUME UNCHANGED <<intake, plans, batches, searcher, reporter>>
      PROVE  OnlyBegunJobs' /\ RankedJobsLeftAnalyzing'
  <2>1. \A k \in Jobs : Received(k)' => Received(k)
    BY <1>9 DEF Received
  <2> QED
    BY <1>4, <1>5, <1>9, <2>1
<1>10. ASSUME NEW j \in Jobs, DoneKeyExpires(j)
       PROVE  OnlyBegunJobs' /\ RankedJobsLeftAnalyzing'
  BY <1>9, <1>10 DEF DoneKeyExpires, searcherFrame
<1>11. CASE UNCHANGED vars
  BY <1>1, <1>9, <1>11 DEF vars, OverlapInv
<1> QED
  BY <1>1, <1>6, <1>7, <1>8, <1>10, <1>11 DEF OverlapInv, Next, KeepPolling

\* Whatever overlaps, for any number of jobs, search workers, report workers and
\* faults: what a client polls follows the lifecycle in any order.
THEOREM PipelineFollowsAnyOrder == Spec => FollowsAnyOrder
<1>1. Init => OverlapInv
  <2>1. Init => TypeInv /\ \A j \in Jobs : ~Received(j)
    BY InitTyped, InitPrompt DEF PromptInv, WorkFollowsIntake, Init
  <2> QED
    BY <2>1 DEF Init, StoreInit, OverlapInv, OnlyBegunJobs, RankedJobsLeftAnalyzing,
                IdleReporter, NoError
<1>2. Init => Lifecycle!LifecycleInit
  BY DEF Init, StoreInit, Lifecycle!LifecycleInit
<1>3. OverlapInv /\ [Next]_vars => [Lifecycle!AnyOrderNext]_(Lifecycle!lifecycleVars)
  BY StepsFollowAnyOrder DEF vars, Lifecycle!lifecycleVars
<1> QED
  BY <1>1, <1>2, <1>3, NextKeepsOverlap, PTL
     DEF Spec, FollowsAnyOrder, Lifecycle!AnyOrderSpec

-----------------------------------------------------------------------------
(* The two abstract specifications themselves.                             *)

LifecycleInv == StoreTypeOK /\ RecordsAgree

LEMMA LifecycleKeepsRecords ==
  LifecycleInv /\ [Lifecycle!LifecycleNext]_(Lifecycle!lifecycleVars) => LifecycleInv'
<1> SUFFICES ASSUME LifecycleInv, [Lifecycle!LifecycleNext]_(Lifecycle!lifecycleVars)
             PROVE  LifecycleInv'
  OBVIOUS
<1> USE ReportsAssumption
    DEF LifecycleInv, StoreTypeOK, RecordsAgree, Lifecycle!RecordsAgree, Lifecycle!MoveTo
<1>1. NoError \notin ErrorCodes
  BY DEF NoError, ErrorCodes, BatchErrors
<1>2. CASE UNCHANGED Lifecycle!lifecycleVars
  BY <1>2 DEF Lifecycle!lifecycleVars
<1>3. ASSUME NEW j \in Jobs, Lifecycle!Submit(j) \/ Lifecycle!Searched(j) \/ Lifecycle!Ranked(j)
      PROVE  LifecycleInv'
  BY <1>3 DEF Lifecycle!Submit, Lifecycle!Searched, Lifecycle!Ranked, Lifecycle!Open, JobStatus
<1>4. ASSUME NEW j \in Jobs, Lifecycle!Failed(j)
      PROVE  LifecycleInv'
  BY <1>1, <1>4 DEF Lifecycle!Failed, Lifecycle!Open, JobStatus
<1>5. ASSUME NEW j \in Jobs, Lifecycle!Completed(j)
      PROVE  LifecycleInv'
  BY <1>5 DEF Lifecycle!Completed, JobStatus
<1> QED
  BY <1>2, <1>3, <1>4, <1>5 DEF Lifecycle!LifecycleNext

\* The lifecycle with its order is a special case of the one without: whoever
\* relies only on AnyOrderSpec is served by either.
THEOREM LifecycleIsAnyOrder == Lifecycle!LifecycleSpec => Lifecycle!AnyOrderSpec
<1>1. Lifecycle!LifecycleInit => LifecycleInv
  BY DEF Lifecycle!LifecycleInit, LifecycleInv, StoreTypeOK, RecordsAgree,
         Lifecycle!RecordsAgree
<1>2. LifecycleInv /\ [Lifecycle!LifecycleNext]_(Lifecycle!lifecycleVars)
        => [Lifecycle!AnyOrderNext]_(Lifecycle!lifecycleVars)
  <2> SUFFICES ASSUME LifecycleInv, Lifecycle!LifecycleNext
               PROVE  Lifecycle!AnyOrderNext
    OBVIOUS
  <2>1. PICK j \in Jobs : \/ Lifecycle!Submit(j) \/ Lifecycle!Searched(j) \/ Lifecycle!Ranked(j)
                          \/ Lifecycle!Failed(j) \/ Lifecycle!Completed(j)
    BY DEF Lifecycle!LifecycleNext
  <2>2. CASE Lifecycle!Searched(j) \/ Lifecycle!Ranked(j) \/ Lifecycle!Failed(j)
    <3>1. Lifecycle!Rewritten(j)
      BY <2>2 DEF Lifecycle!Searched, Lifecycle!Ranked, Lifecycle!Failed, Lifecycle!Open,
                  Lifecycle!Rewritten
    <3> QED
      BY <3>1 DEF Lifecycle!AnyOrderNext
  <2>3. CASE Lifecycle!Completed(j)
    <3>1. report[j] = NoReport
      BY <2>3 DEF Lifecycle!Completed, LifecycleInv, RecordsAgree, Lifecycle!RecordsAgree
    <3>2. Lifecycle!Reported(j)
      BY <2>3, <3>1 DEF Lifecycle!Completed, Lifecycle!Reported
    <3> QED
      BY <3>2 DEF Lifecycle!AnyOrderNext
  <2> QED
    BY <2>1, <2>2, <2>3 DEF Lifecycle!AnyOrderNext
<1> QED
  BY <1>1, <1>2, LifecycleKeepsRecords, PTL
     DEF Lifecycle!LifecycleSpec, Lifecycle!AnyOrderSpec

=============================================================================
