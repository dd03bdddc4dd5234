--------------------------- MODULE Pipeline_proofs ---------------------------
(***************************************************************************)
(* What holds of Pipeline for every number of jobs, workers and faults.    *)
(***************************************************************************)
EXTENDS Pipeline, TLAPS

\* A busy worker holds a job, only a busy worker has a lease, and a worker about
\* to store a report has one.  TypeOK is not inductive without it: the completion
\* keys and the verdicts name the job a worker holds.
BusyWorkersHoldJobs ==
    /\ \A w \in Searchers :
         /\ searcher[w].pc # "idle" => searcher[w].job \in Jobs
         /\ searcher[w].lease = "live" => searcher[w].pc # "idle"
    /\ \A w \in Reporters :
         /\ reporter[w].pc # "idle" => reporter[w].job \in Jobs
         /\ reporter[w].lease = "live" => reporter[w].pc # "idle"
         /\ reporter[w].pc = "storing" => reporter[w].draft \in Reports

TypeInv == TypeOK /\ BusyWorkersHoldJobs

-----------------------------------------------------------------------------
\* Counting one more copy of a message, whether or not it is one.
LEMMA OneMore ==
  ASSUME NEW S, NEW f \in [S -> Nat], NEW x
  PROVE  [f EXCEPT ![x] = @ + 1] \in [S -> Nat]
<1>1. CASE x \in S
  BY <1>1
<1>2. CASE x \notin S
  BY <1>2
<1> QED
  BY <1>1, <1>2

\* Two fields of a worker's record change at once.
LEMMA BuiltTyped ==
  ASSUME NEW s \in SearcherState, NEW e \in BatchErrors \cup {NoError}
  PROVE  /\ [s EXCEPT !.pc = "publishing", !.error = e] \in SearcherState
         /\ [s EXCEPT !.pc = "publishing", !.error = e].pc = "publishing"
         /\ [s EXCEPT !.pc = "publishing", !.error = e].job = s.job
         /\ [s EXCEPT !.pc = "publishing", !.error = e].lease = s.lease
<1>1. [s EXCEPT !.pc = "publishing", !.error = e] \in SearcherState
  BY DEF SearcherState
<1>2. [s EXCEPT !.pc = "publishing", !.error = e].pc = "publishing"
  BY DEF SearcherState
<1>3. [s EXCEPT !.pc = "publishing", !.error = e].job = s.job
  BY DEF SearcherState
<1>4. [s EXCEPT !.pc = "publishing", !.error = e].lease = s.lease
  BY DEF SearcherState
<1> QED
  BY <1>1, <1>2, <1>3, <1>4

LEMMA RankedTyped ==
  ASSUME NEW s \in ReporterState, NEW r \in Reports
  PROVE  /\ [s EXCEPT !.pc = "storing", !.draft = r] \in ReporterState
         /\ [s EXCEPT !.pc = "storing", !.draft = r].pc = "storing"
         /\ [s EXCEPT !.pc = "storing", !.draft = r].job = s.job
         /\ [s EXCEPT !.pc = "storing", !.draft = r].lease = s.lease
         /\ [s EXCEPT !.pc = "storing", !.draft = r].draft = r
<1>1. [s EXCEPT !.pc = "storing", !.draft = r] \in ReporterState
  BY DEF ReporterState
<1>2. [s EXCEPT !.pc = "storing", !.draft = r].pc = "storing"
  BY DEF ReporterState
<1>3. [s EXCEPT !.pc = "storing", !.draft = r].job = s.job
  BY DEF ReporterState
<1>4. [s EXCEPT !.pc = "storing", !.draft = r].lease = s.lease
  BY DEF ReporterState
<1>5. [s EXCEPT !.pc = "storing", !.draft = r].draft = r
  BY DEF ReporterState
<1> QED
  BY <1>1, <1>2, <1>3, <1>4, <1>5

LEMMA InitTyped == Init => TypeInv
  BY ReportsAssumption, NoJobAssumption, MaxFaultsAssumption
     DEF Init, StoreInit, TypeInv, TypeOK, StoreTypeOK, BusyWorkersHoldJobs, IntakeState,
         SearcherState, ReporterState, Lease, IdleSearcher, IdleReporter, NoError, Batch

LEMMA IntakeTyped ==
  ASSUME TypeInv, NEW j \in Jobs, BeginJob(j) \/ IntakeStep(j) \/ AbortIntake(j)
  PROVE  TypeInv'
  BY MaxFaultsAssumption
     DEF TypeInv, TypeOK, StoreTypeOK, BusyWorkersHoldJobs, BeginJob, IntakeStep,
         AbortIntake, AnalyzeClaims, SendPlan, ConfirmPlan, PublishPlanRaises,
         RecordSearching, RecordIntakeFailure, Advance, CreateJob, SetStatus, IntakeState,
         InRunIntake, JobStatus, ErrorCodes, intakeFrame, storeVars, NoError, Fault

LEMMA SearcherTyped ==
  ASSUME TypeInv, NEW w \in Searchers,
         \/ \E j \in Jobs : PullPlan(w, j)
         \/ SearcherStep(w) \/ DropPlan(w) \/ PlanLeaseExpires(w)
  PROVE  TypeInv'
<1> USE NoJobAssumption, MaxFaultsAssumption
    DEF TypeInv, TypeOK, BusyWorkersHoldJobs, searcherFrame, storeVars, StoreTypeOK
<1>1. ASSUME NEW j \in Jobs, PullPlan(w, j)  PROVE TypeInv'
  BY <1>1 DEF PullPlan, SearcherState, Lease, NoError
<1>2. CASE CheckPlan(w)
  <2>1. PICK to \in {"acking", "searching"} : Searching(w, "checking", to)
    BY <1>2 DEF CheckPlan
  <2> QED
    BY <1>2, <2>1 DEF CheckPlan, Searching, SearcherState
<1>3. CASE Search(w)
  <2>1. PICK e \in BatchErrors \cup {NoError} :
          searcher' = [searcher EXCEPT ![w] = [@ EXCEPT !.pc = "publishing", !.error = e]]
    BY <1>3, BatchOutcomesAssumption DEF Search
  <2> DEFINE built == [searcher[w] EXCEPT !.pc = "publishing", !.error = e]
  <2>2. /\ built \in SearcherState
        /\ built.pc = "publishing" /\ built.job = searcher[w].job
    BY BuiltTyped
  <2>3. /\ searcher[w].pc = "searching"
        /\ UNCHANGED <<searcherFrame, plans, batches, doneKeys, faults>>
    BY <1>3 DEF Search
  <2>4. searcher' = [searcher EXCEPT ![w] = built]
    BY <2>1
  <2> HIDE DEF built
  <2> QED
    BY <2>2, <2>3, <2>4
<1>4. CASE SearchRaises(w)
  BY <1>4 DEF SearchRaises, ReturnPlan, IdleSearcher, SearcherState, Lease, NoError
<1>5. CASE SendBatch(w)
  <2>1. batches' \in [Batch -> Nat]
    BY <1>5, OneMore DEF SendBatch
  <2> QED
    BY <1>5, <2>1 DEF SendBatch, Searching, SearcherState, Lease
<1>6. CASE ConfirmBatch(w)
  BY <1>6 DEF ConfirmBatch, Searching, SearcherState, Lease
<1>7. CASE MarkDone(w)
  BY <1>7 DEF MarkDone, Searching, SearcherState, Lease, Fault
<1>8. CASE AckPlan(w)
  BY <1>8 DEF AckPlan, ReturnPlan, IdleSearcher, SearcherState, Lease, NoError, Fault
<1>9. CASE DropPlan(w)
  BY <1>9 DEF DropPlan, ReturnPlan, IdleSearcher, SearcherState, Lease, NoError, Fault
<1>10. CASE PlanLeaseExpires(w)
  <2>1. plans' \in [Jobs -> Nat]
    BY <1>10 DEF PlanLeaseExpires, ReturnPlan
  <2>2. searcher' \in [Searchers -> SearcherState]
    BY <1>10 DEF PlanLeaseExpires, SearcherState, Lease
  <2> QED
    BY <1>10, <2>1, <2>2 DEF PlanLeaseExpires, SearcherState, Lease, Fault
<1> QED
  BY <1>1, <1>2, <1>3, <1>4, <1>5, <1>6, <1>7, <1>8, <1>9, <1>10 DEF SearcherStep

LEMMA ReporterTyped ==
  ASSUME TypeInv, NEW w \in Reporters,
         \/ \E b \in Batch : PullBatch(w, b)
         \/ ReporterStep(w) \/ DropBatch(w) \/ BatchLeaseExpires(w)
  PROVE  TypeInv'
<1> USE NoJobAssumption, MaxFaultsAssumption
    DEF TypeInv, TypeOK, BusyWorkersHoldJobs, reporterFrame, storeVars, StoreTypeOK
<1>1. ASSUME NEW b \in Batch, PullBatch(w, b)  PROVE TypeInv'
  <2>1. b.job \in Jobs /\ b.error \in BatchErrors \cup {NoError}
    BY DEF Batch
  <2>2. batches' \in [Batch -> Nat]
    BY <1>1 DEF PullBatch
  <2>3. reporter' \in [Reporters -> ReporterState]
    BY <1>1, <2>1 DEF PullBatch, ReporterState, Lease
  <2> QED
    BY <1>1, <2>1, <2>2, <2>3 DEF PullBatch, ReporterState, Lease
<1>2. CASE CheckBatch(w)
  <2>1. PICK to \in {"acking", "failing", "starting"} : Reporting(w, "checking", to)
    BY <1>2 DEF CheckBatch
  <2> QED
    BY <1>2, <2>1 DEF CheckBatch, Reporting, ReporterState
<1>3. CASE StartRanking(w)
  BY <1>3 DEF StartRanking, Reporting, ReporterState, Lease, SetStatus, JobStatus
<1>4. CASE Rank(w)
  <2>1. CASE reporter' = [reporter EXCEPT ![w].pc = "failing"]
    BY <1>4, <2>1 DEF Rank, ReporterState, Lease
  <2>2. ASSUME NEW r \in Reports,
               reporter' = [reporter EXCEPT ![w] = [@ EXCEPT !.pc = "storing", !.draft = r]]
        PROVE  TypeInv'
    <3> DEFINE ranked == [reporter[w] EXCEPT !.pc = "storing", !.draft = r]
    <3>1. /\ ranked \in ReporterState
          /\ ranked.pc = "storing" /\ ranked.job = reporter[w].job /\ ranked.draft = r
      BY RankedTyped
    <3>2. /\ reporter[w].pc = "ranking"
          /\ UNCHANGED <<reporterFrame, storeVars, batches, judged, faults>>
      BY <1>4 DEF Rank
    <3>3. reporter' = [reporter EXCEPT ![w] = ranked]
      BY <2>2
    <3> HIDE DEF ranked
    <3> QED
      BY <3>1, <3>2, <3>3
  <2> QED
    BY <1>4, <2>1, <2>2 DEF Rank
<1>5. CASE StoreReport(w)
  BY <1>5 DEF StoreReport, Reporting, ReporterState, Lease, CompleteJob, JobStatus
<1>6. CASE RecordFailure(w)
  BY <1>6 DEF RecordFailure, Reporting, ReporterState, Lease, SetStatus, JobStatus, ErrorCodes,
              NoError
<1>7. CASE AckBatch(w)
  <2>1. batches' \in [Batch -> Nat]
    BY <1>7, OneMore DEF AckBatch, ReturnBatch
  <2>2. reporter' \in [Reporters -> ReporterState]
    BY <1>7 DEF AckBatch, IdleReporter, ReporterState, Lease, NoError
  <2> QED
    BY <1>7, <2>1, <2>2 DEF AckBatch, IdleReporter, ReporterState, Lease, Fault
<1>8. CASE DropBatch(w)
  <2>1. batches' \in [Batch -> Nat]
    BY <1>8, OneMore DEF DropBatch, ReturnBatch
  <2>2. reporter' \in [Reporters -> ReporterState]
    BY <1>8 DEF DropBatch, IdleReporter, ReporterState, Lease, NoError
  <2> QED
    BY <1>8, <2>1, <2>2 DEF DropBatch, IdleReporter, ReporterState, Lease, Fault
<1>9. CASE BatchLeaseExpires(w)
  <2>1. batches' \in [Batch -> Nat]
    BY <1>9, OneMore DEF BatchLeaseExpires, ReturnBatch
  <2>2. reporter' \in [Reporters -> ReporterState]
    BY <1>9 DEF BatchLeaseExpires, ReporterState, Lease
  <2> QED
    BY <1>9, <2>1, <2>2 DEF BatchLeaseExpires, ReporterState, Lease, Fault
<1> QED
  BY <1>1, <1>2, <1>3, <1>4, <1>5, <1>6, <1>7, <1>8, <1>9 DEF ReporterStep

LEMMA NextTyped == TypeInv /\ [Next]_vars => TypeInv'
<1> SUFFICES ASSUME TypeInv, [Next]_vars  PROVE TypeInv'
  OBVIOUS
<1>1. ASSUME NEW j \in Jobs, DoneKeyExpires(j)  PROVE TypeInv'
  BY <1>1 DEF DoneKeyExpires, searcherFrame, storeVars, TypeInv, TypeOK, StoreTypeOK,
              BusyWorkersHoldJobs
<1>2. CASE UNCHANGED vars
  BY <1>2 DEF vars, TypeInv, TypeOK, StoreTypeOK, BusyWorkersHoldJobs
<1> QED
  BY <1>1, <1>2, IntakeTyped, SearcherTyped, ReporterTyped DEF Next, KeepPolling

\* In every reachable state each variable has the type TypeOK gives it, for any
\* number of jobs, workers and faults.
THEOREM TypeCorrect == Spec => []TypeOK
<1>1. TypeInv => TypeOK
  BY DEF TypeInv
<1> QED
  BY <1>1, InitTyped, NextTyped, PTL DEF Spec

-----------------------------------------------------------------------------
(* No job is lost.  A job is published when a batch of it is under way or  *)
(* C has settled it.  A worker of B that has sent its batch, and a         *)
(* completion key in Redis, both witness that the job is published; a      *)
(* worker of C that is about to ack witnesses that it is settled.          *)

Published(j) == BatchOutstanding(j) \/ Settled(j)

SentBatchesArePublished ==
    \A w \in Searchers :
      searcher[w].pc \in {"confirming", "marking", "acking"} => Published(searcher[w].job)

AckedBatchesAreSettled ==
    \A w \in Reporters : reporter[w].pc = "acking" => Settled(reporter[w].job)

IInv ==
    /\ TypeInv
    /\ NoLostJob
    /\ DoneKeyMeansPublished
    /\ SentBatchesArePublished
    /\ AckedBatchesAreSettled

\* What a step leaves alone cannot change whether a job is published.
LEMMA PublishedFrame ==
  ASSUME NEW j \in Jobs, Published(j), UNCHANGED <<batches, reporter, report, judged>>
  PROVE  Published(j)'
  BY DEF Published, BatchOutstanding, Settled

LEMMA SettledStable ==
  ASSUME TypeInv, [Next]_vars, NEW j \in Jobs, Settled(j)
  PROVE  Settled(j)'
<1>1. ASSUME NEW k \in Jobs, BeginJob(k) \/ IntakeStep(k) \/ AbortIntake(k)
      PROVE  Settled(j)'
  BY <1>1 DEF BeginJob, IntakeStep, AbortIntake, AnalyzeClaims, SendPlan, ConfirmPlan,
       PublishPlanRaises, RecordSearching, RecordIntakeFailure, CreateJob, SetStatus,
       intakeFrame, storeVars, Settled
<1>2. ASSUME NEW k \in Jobs, DoneKeyExpires(k)
      PROVE  Settled(j)'
  BY <1>2 DEF DoneKeyExpires, searcherFrame, storeVars, Settled
<1>3. ASSUME NEW w \in Searchers,
             \/ \E k \in Jobs : PullPlan(w, k)
             \/ SearcherStep(w) \/ DropPlan(w) \/ PlanLeaseExpires(w)
      PROVE  Settled(j)'
  BY <1>3 DEF PullPlan, SearcherStep, DropPlan, PlanLeaseExpires, CheckPlan, Search,
       SearchRaises, SendBatch, ConfirmBatch, MarkDone, AckPlan, searcherFrame, storeVars,
       Settled
<1>4. ASSUME NEW w \in Reporters,
             \/ \E b \in Batch : PullBatch(w, b)
             \/ ReporterStep(w) \/ DropBatch(w) \/ BatchLeaseExpires(w)
      PROVE  Settled(j)'
  <2>1. CASE StoreReport(w)
    BY <2>1 DEF StoreReport, CompleteJob, Settled, TypeInv, TypeOK, StoreTypeOK
  <2> QED
    BY <1>4, <2>1 DEF PullBatch, ReporterStep, DropBatch, BatchLeaseExpires, CheckBatch,
       StartRanking, Rank, RecordFailure, AckBatch, SetStatus, reporterFrame, storeVars,
       Settled
<1>5. CASE UNCHANGED vars
  BY <1>5 DEF vars, Settled
<1> QED
  BY <1>1, <1>2, <1>3, <1>4, <1>5 DEF Next, KeepPolling

LEMMA IntakeLeavesWork ==
  ASSUME NEW k \in Jobs, BeginJob(k) \/ IntakeStep(k) \/ AbortIntake(k)
  PROVE  /\ UNCHANGED <<batches, searcher, reporter, report, doneKeys, judged>>
         /\ \/ UNCHANGED <<plans, sent>>
            \/ plans' = [plans EXCEPT ![k] = @ + 1] /\ sent' = sent \cup {k}
  BY DEF BeginJob, IntakeStep, AbortIntake, AnalyzeClaims, SendPlan, ConfirmPlan,
       PublishPlanRaises, RecordSearching, RecordIntakeFailure, CreateJob, SetStatus,
       intakeFrame, storeVars

\* C's workers keep a job published: a worker lets go of a batch only by
\* returning it to the subscription or by acking it after settling the job.
LEMMA ReportersKeepPublished ==
  ASSUME IInv, NEW w \in Reporters, NEW j \in Jobs, Published(j), Settled(j) => Settled(j)',
         \/ \E b \in Batch : PullBatch(w, b)
         \/ ReporterStep(w) \/ DropBatch(w) \/ BatchLeaseExpires(w)
  PROVE  Published(j)'
<1> SUFFICES ASSUME ~Settled(j), BatchOutstanding(j)
             PROVE  BatchOutstanding(j)'
  BY DEF Published
<1> USE DEF IInv, TypeInv, TypeOK, BusyWorkersHoldJobs
<1>0. batches' \in [Batch -> Nat]
  BY ReporterTyped
<1>1. ASSUME NEW b \in Batch, PullBatch(w, b)
      PROVE  BatchOutstanding(j)'
  <2>1. CASE b.job = j
    BY <1>1, <2>1 DEF PullBatch, BatchOutstanding
  <2>2. CASE b.job # j
    <3>1. \A c \in Batch : c.job = j => batches'[c] = batches[c]
      BY <1>1, <2>2 DEF PullBatch
    <3>2. \A v \in Reporters : reporter[v].lease = "live" => reporter'[v] = reporter[v]
      BY <1>1 DEF PullBatch
    <3> QED
      BY <3>1, <3>2 DEF BatchOutstanding
  <2> QED
    BY <2>1, <2>2
<1>2. ASSUME UNCHANGED batches,
             \A v \in Reporters : /\ reporter'[v].job = reporter[v].job
                                  /\ reporter'[v].lease = reporter[v].lease
      PROVE  BatchOutstanding(j)'
  BY <1>2 DEF BatchOutstanding
<1>3. CASE CheckBatch(w)
  <2>1. PICK to \in {"acking", "failing", "starting"} : Reporting(w, "checking", to)
    BY <1>3 DEF CheckBatch
  <2> QED
    BY <1>2, <1>3, <2>1 DEF CheckBatch, Reporting, ReporterState
<1>4. CASE StartRanking(w)
  BY <1>2, <1>4 DEF StartRanking, Reporting, ReporterState
<1>5. CASE Rank(w)
  <2>1. CASE reporter' = [reporter EXCEPT ![w].pc = "failing"]
    BY <1>2, <1>5, <2>1 DEF Rank, ReporterState
  <2>2. ASSUME NEW r \in Reports,
               reporter' = [reporter EXCEPT ![w] = [@ EXCEPT !.pc = "storing", !.draft = r]]
        PROVE  BatchOutstanding(j)'
    <3> DEFINE ranked == [reporter[w] EXCEPT !.pc = "storing", !.draft = r]
    <3>1. ranked.job = reporter[w].job /\ ranked.lease = reporter[w].lease
      BY RankedTyped
    <3>2. reporter' = [reporter EXCEPT ![w] = ranked]
      BY <2>2
    <3> HIDE DEF ranked
    <3> QED
      BY <1>2, <1>5, <3>1, <3>2 DEF Rank
  <2> QED
    BY <1>5, <2>1, <2>2 DEF Rank
<1>6. CASE StoreReport(w)
  BY <1>2, <1>6 DEF StoreReport, Reporting, ReporterState
<1>7. CASE RecordFailure(w)
  BY <1>2, <1>7 DEF RecordFailure, Reporting, ReporterState
<1>8. ASSUME \A c \in Batch : batches'[c] >= batches[c],
             \A v \in Reporters \ {w} : reporter'[v] = reporter[v],
             reporter[w].job = j /\ reporter[w].lease = "live" => batches'[HeldBatch(w)] > 0
      PROVE  BatchOutstanding(j)'
  <2>1. CASE \E c \in Batch : c.job = j /\ batches[c] > 0
    BY <1>0, <1>8, <2>1 DEF BatchOutstanding
  <2>2. CASE \E v \in Reporters \ {w} : reporter[v].job = j /\ reporter[v].lease = "live"
    BY <1>8, <2>2 DEF BatchOutstanding
  <2>3. CASE reporter[w].job = j /\ reporter[w].lease = "live"
    <3>1. HeldBatch(w) \in Batch /\ HeldBatch(w).job = j
      BY <2>3 DEF HeldBatch, Batch, ReporterState
    <3> QED
      BY <1>8, <2>3, <3>1 DEF BatchOutstanding
  <2> QED
    BY <2>1, <2>2, <2>3 DEF BatchOutstanding
<1>9. ASSUME ReturnBatch(w)
      PROVE  /\ \A c \in Batch : batches'[c] >= batches[c]
             /\ (reporter[w].job = j /\ reporter[w].lease = "live")
                  => batches'[HeldBatch(w)] > 0
  <2>1. reporter[w].job = j => HeldBatch(w) \in Batch
    BY DEF HeldBatch, Batch, ReporterState
  <2> QED
    BY <1>9, <2>1 DEF ReturnBatch
<1>10. CASE AckBatch(w)
  <2>1. reporter[w].job # j
    BY <1>10 DEF AckBatch, AckedBatchesAreSettled
  <2>2. \A c \in Batch : batches'[c] >= batches[c]
    BY <1>9, <1>10 DEF AckBatch
  <2> QED
    BY <1>8, <1>10, <2>1, <2>2 DEF AckBatch
<1>11. CASE DropBatch(w)
  BY <1>8, <1>9, <1>11 DEF DropBatch
<1>12. CASE BatchLeaseExpires(w)
  BY <1>8, <1>9, <1>12 DEF BatchLeaseExpires
<1> QED
  BY <1>1, <1>3, <1>4, <1>5, <1>6, <1>7, <1>10, <1>11, <1>12 DEF ReporterStep

LEMMA PublishedStable ==
  ASSUME IInv, [Next]_vars, NEW j \in Jobs, Published(j)
  PROVE  Published(j)'
<1>0. Settled(j) => Settled(j)'
  BY SettledStable DEF IInv
<1>1. ASSUME NEW k \in Jobs, BeginJob(k) \/ IntakeStep(k) \/ AbortIntake(k)
      PROVE  Published(j)'
  BY <1>1, IntakeLeavesWork, PublishedFrame
<1>2. ASSUME NEW k \in Jobs, DoneKeyExpires(k)
      PROVE  Published(j)'
  BY <1>2, PublishedFrame DEF DoneKeyExpires, searcherFrame, storeVars
<1>3. ASSUME NEW w \in Searchers, SendBatch(w)
      PROVE  Published(j)'
  <2>1. \A b \in Batch : batches'[b] \in {batches[b], batches[b] + 1}
    BY <1>3 DEF SendBatch, IInv, TypeInv, TypeOK
  <2>2. \A b \in Batch : batches[b] > 0 => batches'[b] > 0
    BY <2>1 DEF IInv, TypeInv, TypeOK
  <2>3. UNCHANGED <<reporter, report, judged>>
    BY <1>3 DEF SendBatch, searcherFrame, storeVars
  <2> QED
    BY <2>2, <2>3 DEF Published, BatchOutstanding, Settled
<1>4. ASSUME NEW w \in Searchers,
             \/ \E k \in Jobs : PullPlan(w, k)
             \/ SearcherStep(w) /\ ~SendBatch(w)
             \/ DropPlan(w) \/ PlanLeaseExpires(w)
      PROVE  Published(j)'
  <2>1. UNCHANGED <<batches, reporter, report, judged>>
    BY <1>4 DEF PullPlan, SearcherStep, DropPlan, PlanLeaseExpires, CheckPlan, Search,
         SearchRaises, ConfirmBatch, MarkDone, AckPlan, searcherFrame, storeVars
  <2> QED
    BY <2>1, PublishedFrame
<1>5. ASSUME NEW w \in Reporters,
             \/ \E b \in Batch : PullBatch(w, b)
             \/ ReporterStep(w) \/ DropBatch(w) \/ BatchLeaseExpires(w)
      PROVE  Published(j)'
  BY <1>0, <1>5, ReportersKeepPublished
<1>6. CASE UNCHANGED vars
  BY <1>6, PublishedFrame DEF vars
<1> QED
  BY <1>1, <1>2, <1>3, <1>4, <1>5, <1>6 DEF Next, KeepPolling

\* B's workers keep a plan outstanding until the job is published.
LEMMA PlanStable ==
  ASSUME IInv, [Next]_vars, NEW j \in Jobs, PlanOutstanding(j), ~Published(j)
  PROVE  PlanOutstanding(j)' \/ Published(j)'
<1> USE DEF IInv, TypeInv, TypeOK, BusyWorkersHoldJobs
<1>1. ASSUME NEW k \in Jobs, BeginJob(k) \/ IntakeStep(k) \/ AbortIntake(k)
      PROVE  PlanOutstanding(j)'
  BY <1>1, IntakeLeavesWork DEF PlanOutstanding
<1>2. ASSUME UNCHANGED <<plans, searcher>>
      PROVE  PlanOutstanding(j)'
  BY <1>2 DEF PlanOutstanding
<1>3. ASSUME NEW w \in Searchers, NEW k \in Jobs, PullPlan(w, k)
      PROVE  PlanOutstanding(j)'
  <2>1. CASE k = j
    BY <1>3, <2>1 DEF PullPlan, PlanOutstanding
  <2>2. CASE k # j
    BY <1>3, <2>2 DEF PullPlan, PlanOutstanding
  <2> QED
    BY <2>1, <2>2
<1>4. ASSUME UNCHANGED plans,
             \A v \in Searchers : /\ searcher'[v].job = searcher[v].job
                                  /\ searcher'[v].lease = searcher[v].lease
      PROVE  PlanOutstanding(j)'
  BY <1>4 DEF PlanOutstanding
<1>5. ASSUME NEW w \in Searchers, CheckPlan(w) \/ SendBatch(w) \/ ConfirmBatch(w) \/ MarkDone(w)
      PROVE  PlanOutstanding(j)'
  BY <1>4, <1>5 DEF CheckPlan, SendBatch, ConfirmBatch, MarkDone, Searching, SearcherState
<1>6. ASSUME NEW w \in Searchers, Search(w)
      PROVE  PlanOutstanding(j)'
  <2>1. PICK e \in BatchErrors \cup {NoError} :
          searcher' = [searcher EXCEPT ![w] = [@ EXCEPT !.pc = "publishing", !.error = e]]
    BY <1>6, BatchOutcomesAssumption DEF Search
  <2> DEFINE built == [searcher[w] EXCEPT !.pc = "publishing", !.error = e]
  <2>2. built.job = searcher[w].job /\ built.lease = searcher[w].lease
    BY BuiltTyped
  <2>3. searcher' = [searcher EXCEPT ![w] = built]
    BY <2>1
  <2> HIDE DEF built
  <2> QED
    BY <1>4, <1>6, <2>2, <2>3 DEF Search
<1>7. ASSUME NEW w \in Searchers, ReturnPlan(w),
             \A v \in Searchers \ {w} : searcher'[v] = searcher[v]
      PROVE  PlanOutstanding(j)'
  <2>1. CASE searcher[w].lease = "live"
    <3>1. plans' = [plans EXCEPT ![searcher[w].job] = @ + 1]
      BY <1>7, <2>1 DEF ReturnPlan
    <3>2. CASE searcher[w].job = j
      BY <3>1, <3>2 DEF PlanOutstanding
    <3>3. CASE searcher[w].job # j
      BY <1>7, <3>1, <3>3 DEF PlanOutstanding
    <3> QED
      BY <3>2, <3>3
  <2>2. CASE searcher[w].lease # "live"
    BY <1>7, <2>2 DEF ReturnPlan, PlanOutstanding
  <2> QED
    BY <2>1, <2>2
<1>8. ASSUME NEW w \in Searchers, SearchRaises(w) \/ DropPlan(w) \/ PlanLeaseExpires(w)
      PROVE  PlanOutstanding(j)'
  BY <1>7, <1>8 DEF SearchRaises, DropPlan, PlanLeaseExpires
<1>9. ASSUME NEW w \in Searchers, AckPlan(w)
      PROVE  PlanOutstanding(j)'
  <2>1. searcher[w].job # j
    BY <1>9 DEF AckPlan, SentBatchesArePublished
  <2>2. CASE UNCHANGED plans
    BY <1>9, <2>1, <2>2 DEF AckPlan, PlanOutstanding
  <2>3. CASE ReturnPlan(w)
    BY <1>7, <1>9, <2>3 DEF AckPlan
  <2> QED
    BY <1>9, <2>2, <2>3 DEF AckPlan
<1>10. ASSUME NEW w \in Reporters,
              \/ \E b \in Batch : PullBatch(w, b)
              \/ ReporterStep(w) \/ DropBatch(w) \/ BatchLeaseExpires(w)
       PROVE  PlanOutstanding(j)'
  BY <1>2, <1>10 DEF PullBatch, ReporterStep, DropBatch, BatchLeaseExpires, CheckBatch,
       StartRanking, Rank, StoreReport, RecordFailure, AckBatch, reporterFrame
<1>11. ASSUME NEW k \in Jobs, DoneKeyExpires(k)
       PROVE  PlanOutstanding(j)'
  BY <1>2, <1>11 DEF DoneKeyExpires
<1>12. CASE UNCHANGED vars
  BY <1>2, <1>12 DEF vars
<1> QED
  BY <1>1, <1>3, <1>5, <1>6, <1>8, <1>9, <1>10, <1>11, <1>12
     DEF Next, KeepPolling, SearcherStep

LEMMA InitHolds == Init => IInv
  BY InitTyped DEF IInv, Init, StoreInit, NoLostJob, DoneKeyMeansPublished,
     SentBatchesArePublished, AckedBatchesAreSettled, IdleSearcher, IdleReporter

\* A completion key is only set by a worker that has sent its batch.
LEMMA DoneKeyStep ==
  ASSUME IInv, [Next]_vars, NEW j \in doneKeys'
  PROVE  j \in Jobs /\ Published(j)
<1> USE DEF IInv, TypeInv, TypeOK, BusyWorkersHoldJobs
<1>1. CASE j \in doneKeys
  BY <1>1 DEF DoneKeyMeansPublished, Published
<1>2. CASE j \notin doneKeys
  <2>1. PICK w \in Searchers : MarkDone(w) /\ j = searcher[w].job
    BY <1>2, IntakeLeavesWork
       DEF Next, KeepPolling, vars, DoneKeyExpires, PullPlan, SearcherStep, DropPlan,
           PlanLeaseExpires, CheckPlan, Search, SearchRaises, SendBatch, ConfirmBatch,
           MarkDone, AckPlan, PullBatch, ReporterStep, DropBatch, BatchLeaseExpires,
           CheckBatch, StartRanking, Rank, StoreReport, RecordFailure, AckBatch,
           reporterFrame
  <2> QED
    BY <2>1 DEF MarkDone, Searching, SentBatchesArePublished
<1> QED
  BY <1>1, <1>2

\* A worker of B is past its publish only when its job is published.
LEMMA SentStep ==
  ASSUME IInv, [Next]_vars
  PROVE  SentBatchesArePublished'
<1> USE DEF IInv, TypeInv, TypeOK, BusyWorkersHoldJobs
<1> SUFFICES ASSUME NEW v \in Searchers, NEW j, j = searcher'[v].job,
                    searcher'[v].pc \in {"confirming", "marking", "acking"}
             PROVE  Published(j)'
  BY DEF SentBatchesArePublished
<1>1. j \in Jobs
  BY NextTyped
<1>2. CASE Published(j)
  BY <1>1, <1>2, PublishedStable
<1>3. CASE searcher'[v] = searcher[v]
  BY <1>2, <1>3 DEF SentBatchesArePublished
<1>4. CASE SendBatch(v)
  <2>1. [job |-> j, error |-> searcher[v].error] \in Batch
    BY <1>1 DEF Batch, SearcherState
  <2>2. batches' = [batches EXCEPT ![[job |-> j, error |-> searcher[v].error]] = @ + 1]
    BY <1>4 DEF SendBatch, Searching
  <2>3. batches'[[job |-> j, error |-> searcher[v].error]] > 0
    BY <2>1, <2>2
  <2> QED
    BY <2>1, <2>3 DEF Published, BatchOutstanding
<1>5. CASE CheckPlan(v)
  <2>1. CASE Searching(v, "checking", "searching")
    BY <2>1 DEF Searching
  <2>2. CASE searcher[v].job \in doneKeys /\ Searching(v, "checking", "acking")
    <3>1. j = searcher[v].job
      BY <2>2 DEF Searching, SearcherState
    <3> QED
      BY <1>2, <2>2, <3>1 DEF DoneKeyMeansPublished, Published
  <2> QED
    BY <1>5, <2>1, <2>2 DEF CheckPlan
<1>6. CASE ConfirmBatch(v) \/ MarkDone(v) \/ PlanLeaseExpires(v)
  <2>1. j = searcher[v].job /\ searcher[v].pc \in {"confirming", "marking", "acking"}
    BY <1>6 DEF ConfirmBatch, MarkDone, PlanLeaseExpires, Searching, SearcherState
  <2> QED
    BY <1>2, <2>1 DEF SentBatchesArePublished
<1>7. ASSUME searcher' # searcher
      PROVE  \E w \in Searchers :
               \/ \E k \in Jobs : PullPlan(w, k)
               \/ SearcherStep(w) \/ DropPlan(w) \/ PlanLeaseExpires(w)
  BY <1>7, IntakeLeavesWork
     DEF Next, KeepPolling, vars, DoneKeyExpires, PullBatch, ReporterStep, DropBatch,
         BatchLeaseExpires, CheckBatch, StartRanking, Rank, StoreReport, RecordFailure,
         AckBatch, reporterFrame
<1>8. ASSUME NEW w \in Searchers, w # v,
             \/ \E k \in Jobs : PullPlan(w, k)
             \/ SearcherStep(w) \/ DropPlan(w) \/ PlanLeaseExpires(w)
      PROVE  searcher'[v] = searcher[v]
  BY <1>8 DEF PullPlan, SearcherStep, DropPlan, PlanLeaseExpires, CheckPlan, Search,
       SearchRaises, SendBatch, ConfirmBatch, MarkDone, AckPlan, Searching
<1>9. ~ \E k \in Jobs : PullPlan(v, k)
  BY DEF PullPlan
<1>10. ~ (SearchRaises(v) \/ AckPlan(v) \/ DropPlan(v))
  BY DEF SearchRaises, AckPlan, DropPlan, IdleSearcher
<1>11. ~ Search(v)
  <2>1. SUFFICES ASSUME Search(v)  PROVE FALSE
    OBVIOUS
  <2>2. PICK e \in BatchErrors \cup {NoError} :
          searcher' = [searcher EXCEPT ![v] = [@ EXCEPT !.pc = "publishing", !.error = e]]
    BY <2>1, BatchOutcomesAssumption DEF Search
  <2>3. searcher'[v].pc = "publishing"
    BY <2>2, BuiltTyped
  <2> QED
    BY <2>3
<1> QED
  BY <1>3, <1>4, <1>5, <1>6, <1>7, <1>8, <1>9, <1>10, <1>11 DEF SearcherStep

\* A worker of C acks a batch only when its job is settled.
LEMMA AckedStep ==
  ASSUME IInv, [Next]_vars
  PROVE  AckedBatchesAreSettled'
<1> USE DEF IInv, TypeInv, TypeOK, BusyWorkersHoldJobs
<1> SUFFICES ASSUME NEW v \in Reporters, NEW j, j = reporter'[v].job,
                    reporter'[v].pc = "acking"
             PROVE  Settled(j)'
  BY DEF AckedBatchesAreSettled
<1>1. j \in Jobs
  BY NextTyped
<1>2. CASE Settled(j)
  BY <1>1, <1>2, SettledStable
<1>3. CASE reporter'[v] = reporter[v]
  BY <1>2, <1>3 DEF AckedBatchesAreSettled
<1>4. CASE CheckBatch(v)
  <2>1. report[j] # NoReport
    BY <1>4 DEF CheckBatch, Reporting, ReporterState
  <2> QED
    BY <1>2, <2>1 DEF Settled
<1>5. CASE StoreReport(v)
  <2>1. j = reporter[v].job /\ reporter[v].draft \in Reports
    BY <1>5 DEF StoreReport, Reporting, ReporterState
  <2>2. report' = [report EXCEPT ![j] = IF @ = NoReport THEN reporter[v].draft ELSE @]
    BY <1>5, <2>1 DEF StoreReport, CompleteJob
  <2> QED
    BY <1>1, <2>1, <2>2, ReportsAssumption DEF Settled, StoreTypeOK
<1>6. CASE RecordFailure(v)
  BY <1>6 DEF RecordFailure, Reporting, ReporterState, Settled
<1>7. CASE BatchLeaseExpires(v)
  BY <1>2, <1>7 DEF BatchLeaseExpires, ReporterState, AckedBatchesAreSettled
<1>8. ASSUME reporter' # reporter
      PROVE  \E w \in Reporters :
               \/ \E b \in Batch : PullBatch(w, b)
               \/ ReporterStep(w) \/ DropBatch(w) \/ BatchLeaseExpires(w)
  BY <1>8, IntakeLeavesWork
     DEF Next, KeepPolling, vars, DoneKeyExpires, PullPlan, SearcherStep, DropPlan,
         PlanLeaseExpires, CheckPlan, Search, SearchRaises, SendBatch, ConfirmBatch,
         MarkDone, AckPlan, searcherFrame
<1>9. ASSUME NEW w \in Reporters, w # v,
             \/ \E b \in Batch : PullBatch(w, b)
             \/ ReporterStep(w) \/ DropBatch(w) \/ BatchLeaseExpires(w)
      PROVE  reporter'[v] = reporter[v]
  BY <1>9 DEF PullBatch, ReporterStep, DropBatch, BatchLeaseExpires, CheckBatch,
       StartRanking, Rank, StoreReport, RecordFailure, AckBatch, Reporting
<1>10. ~ ((\E b \in Batch : PullBatch(v, b)) \/ StartRanking(v) \/ AckBatch(v) \/ DropBatch(v))
  <2>1. ~ StartRanking(v)
    BY DEF StartRanking, Reporting, ReporterState
  <2>2. ~ \E b \in Batch : PullBatch(v, b)
    <3>1. SUFFICES ASSUME NEW b \in Batch, PullBatch(v, b)  PROVE FALSE
      OBVIOUS
    <3>2. reporter'[v].pc = "checking"
      BY <3>1 DEF PullBatch
    <3> QED
      BY <3>2
  <2>3. ~ AckBatch(v) /\ ~ DropBatch(v)
    BY DEF AckBatch, DropBatch, IdleReporter
  <2> QED
    BY <2>1, <2>2, <2>3
<1>11. ~ Rank(v)
  <2>1. SUFFICES ASSUME Rank(v)  PROVE FALSE
    OBVIOUS
  <2>2. CASE reporter' = [reporter EXCEPT ![v].pc = "failing"]
    BY <2>2 DEF ReporterState
  <2>3. ASSUME NEW r \in Reports,
               reporter' = [reporter EXCEPT ![v] = [@ EXCEPT !.pc = "storing", !.draft = r]]
        PROVE  FALSE
    <3>1. reporter'[v].pc = "storing"
      BY <2>3, RankedTyped
    <3> QED
      BY <3>1
  <2> QED
    BY <2>1, <2>2, <2>3 DEF Rank
<1> QED
  BY <1>3, <1>4, <1>5, <1>6, <1>7, <1>8, <1>9, <1>10, <1>11 DEF ReporterStep

LEMMA InductiveStep == IInv /\ [Next]_vars => IInv'
<1> SUFFICES ASSUME IInv, [Next]_vars  PROVE IInv'
  OBVIOUS
<1>1. TypeInv'
  BY NextTyped DEF IInv
<1>2. NoLostJob'
  <2> SUFFICES ASSUME NEW j \in sent'
               PROVE  PlanOutstanding(j)' \/ Published(j)'
    BY DEF NoLostJob, Published
  <2>1. j \in Jobs
    BY <1>1 DEF TypeInv, TypeOK
  <2>2. CASE j \in sent
    BY <2>1, <2>2, PlanStable, PublishedStable DEF IInv, NoLostJob, Published
  <2>3. CASE j \notin sent
    <3>1. plans' = [plans EXCEPT ![j] = @ + 1]
      BY <2>3, IntakeLeavesWork
         DEF Next, KeepPolling, vars, DoneKeyExpires, PullPlan, SearcherStep, DropPlan,
             PlanLeaseExpires, CheckPlan, Search, SearchRaises, SendBatch, ConfirmBatch,
             MarkDone, AckPlan, searcherFrame, PullBatch, ReporterStep, DropBatch,
             BatchLeaseExpires, CheckBatch, StartRanking, Rank, StoreReport, RecordFailure,
             AckBatch, reporterFrame
    <3> QED
      BY <2>1, <3>1 DEF PlanOutstanding, IInv, TypeInv, TypeOK
  <2> QED
    BY <2>2, <2>3
<1>3. DoneKeyMeansPublished'
  BY DoneKeyStep, PublishedStable DEF DoneKeyMeansPublished, Published
<1> QED
  BY <1>1, <1>2, <1>3, SentStep, AckedStep DEF IInv

\* However many jobs, workers, crashes, expired leases and duplicate deliveries
\* there are, a plan Pub/Sub has accepted is never lost.
THEOREM JobsAreNeverLost == Spec => []NoLostJob
<1>1. IInv => NoLostJob
  BY DEF IInv
<1> QED
  BY <1>1, InitHolds, InductiveStep, PTL DEF Spec

\* A duplicate plan that is skipped because of its completion key drops nothing.
THEOREM DoneKeysAreSound == Spec => []DoneKeyMeansPublished
<1>1. IInv => DoneKeyMeansPublished
  BY DEF IInv
<1> QED
  BY <1>1, InitHolds, InductiveStep, PTL DEF Spec

-----------------------------------------------------------------------------
\* A stored report is never replaced or removed.
THEOREM ReportsAreFinal == Spec => ReportIsFinal
<1>1. TypeInv /\ [Next]_vars
        => [\A j \in Jobs : report[j] # NoReport => report'[j] = report[j]]_vars
  BY IntakeLeavesWork
     DEF TypeInv, TypeOK, StoreTypeOK,
         Next, KeepPolling, vars, DoneKeyExpires, PullPlan, SearcherStep, DropPlan,
         PlanLeaseExpires, CheckPlan, Search, SearchRaises, SendBatch, ConfirmBatch,
         MarkDone, AckPlan, searcherFrame, PullBatch, ReporterStep, DropBatch,
         BatchLeaseExpires, CheckBatch, StartRanking, Rank, StoreReport, RecordFailure,
         AckBatch, reporterFrame, storeVars, SetStatus, CompleteJob
<1> QED
  BY <1>1, InitTyped, NextTyped, PTL DEF Spec, ReportIsFinal

-----------------------------------------------------------------------------
(* As long as nothing has gone wrong, nothing is done twice.  Each job is  *)
(* then in one place at a time: its plan is still to be sent, waits, or is *)
(* with one worker of B; its batch waits or is with one worker of C; or C  *)
(* has settled it.                                                         *)

SearchPending(j) ==
    \/ plans[j] > 0
    \/ \E w \in Searchers : /\ searcher[w].job = j
                            /\ searcher[w].pc \in {"checking", "searching", "publishing"}

BatchWaits(j) == \E b \in Batch : b.job = j /\ batches[b] > 0

RankPending(j) ==
    BatchWaits(j) \/ \E w \in Reporters : reporter[w].job = j /\ reporter[w].pc # "acking"

PlanInOnePlace(j) ==
    /\ plans[j] <= 1
    /\ plans[j] > 0 => \A w \in Searchers : searcher[w].job # j
    /\ \A v, w \in Searchers : searcher[v].job = j /\ searcher[w].job = j => v = w

BatchInOnePlace(j) ==
    /\ \A b \in Batch : b.job = j => batches[b] <= 1
    /\ \A b, c \in Batch : b.job = j /\ c.job = j /\ batches[b] > 0 /\ batches[c] > 0 => b = c
    /\ BatchWaits(j) => \A w \in Reporters : reporter[w].job # j
    /\ \A v, w \in Reporters : reporter[v].job = j /\ reporter[w].job = j => v = w

\* What comes later has not happened yet.
InOrder(j) ==
    /\ intake[j] \in {"idle", "analyzing", "publishing", "analysis_failed"} => j \notin sent
    /\ j \notin sent => plans[j] = 0 /\ \A w \in Searchers : searcher[w].job # j
    /\ (j \notin sent \/ SearchPending(j))
         => /\ ~BatchWaits(j) /\ ~Settled(j)
            /\ \A w \in Reporters : reporter[w].job # j
    /\ RankPending(j) => ~Settled(j)

HandledOnce(j) == PlanInOnePlace(j) /\ BatchInOnePlace(j) /\ InOrder(j)

OnceInv == IInv /\ (faults = 0 => \A j \in Jobs : HandledOnce(j))

\* All of it is about too much being there, so it survives what only takes away.
LEMMA TakingAwayIsHarmless ==
  ASSUME TypeInv, TypeInv', NEW j \in Jobs, HandledOnce(j),
         plans'[j] <= plans[j],
         \A w \in Searchers : searcher'[w].job = j =>
            /\ searcher[w].job = j
            /\ searcher'[w].pc \in {"checking", "searching", "publishing"}
                 => searcher[w].pc \in {"checking", "searching", "publishing"},
         \A b \in Batch : b.job = j => batches'[b] <= batches[b],
         \A w \in Reporters : reporter'[w].job = j =>
            /\ reporter[w].job = j
            /\ reporter'[w].pc # "acking" => reporter[w].pc # "acking",
         Settled(j)' => Settled(j),
         j \in sent' <=> j \in sent,
         intake'[j] \in {"idle", "analyzing", "publishing", "analysis_failed"}
           => j \notin sent
  PROVE  HandledOnce(j)'
<1> plans[j] \in Nat /\ plans'[j] \in Nat
  BY DEF TypeInv, TypeOK
<1> \A b \in Batch : batches[b] \in Nat /\ batches'[b] \in Nat
  BY DEF TypeInv, TypeOK
<1>1. PlanInOnePlace(j)'
  BY DEF HandledOnce, PlanInOnePlace
<1>2. BatchWaits(j)' => BatchWaits(j)
  BY DEF BatchWaits
<1>3. BatchInOnePlace(j)'
  BY <1>2 DEF HandledOnce, BatchInOnePlace
<1>4. SearchPending(j)' => SearchPending(j)
  BY DEF SearchPending
<1>5. RankPending(j)' => RankPending(j)
  BY <1>2 DEF RankPending
<1>6. InOrder(j)'
  BY <1>2, <1>4, <1>5 DEF HandledOnce, InOrder
<1> QED
  BY <1>1, <1>3, <1>6 DEF HandledOnce

LEMMA OnceInit ==
  ASSUME Init, NEW j \in Jobs
  PROVE  HandledOnce(j)
<1>1. PlanInOnePlace(j)
  BY NoJobAssumption DEF Init, PlanInOnePlace, IdleSearcher
<1>2. BatchInOnePlace(j)
  BY NoJobAssumption DEF Init, BatchInOnePlace, BatchWaits, IdleReporter
<1>3. InOrder(j)
  BY NoJobAssumption DEF Init, StoreInit, InOrder, SearchPending, RankPending, BatchWaits,
     Settled, IdleSearcher, IdleReporter
<1> QED
  BY <1>1, <1>2, <1>3 DEF HandledOnce

LEMMA IntakeHandlesOnce ==
  ASSUME TypeInv, TypeInv', NEW j \in Jobs, HandledOnce(j),
         NEW k \in Jobs, BeginJob(k) \/ IntakeStep(k)
  PROVE  HandledOnce(j)'
<1> USE DEF TypeInv, TypeOK
<1>1. CASE SendPlan(k) /\ k = j
  <2>1. /\ j \notin sent /\ j \in sent'
        /\ plans' = [plans EXCEPT ![j] = @ + 1]
        /\ intake' = [intake EXCEPT ![j] = "confirming"]
        /\ UNCHANGED <<batches, searcher, reporter, report, judged>>
    BY <1>1 DEF SendPlan, Advance, HandledOnce, InOrder, intakeFrame, storeVars
  <2>2. /\ plans[j] = 0 /\ \A w \in Searchers : searcher[w].job # j
        /\ ~BatchWaits(j) /\ ~Settled(j) /\ \A w \in Reporters : reporter[w].job # j
    BY <2>1 DEF HandledOnce, InOrder
  <2>3. PlanInOnePlace(j)'
    BY <2>1, <2>2 DEF PlanInOnePlace
  <2>4. ~BatchWaits(j)' /\ ~Settled(j)' /\ ~RankPending(j)'
    BY <2>1, <2>2 DEF BatchWaits, Settled, RankPending
  <2>5. BatchInOnePlace(j)'
    BY <2>1, <2>2, <2>4 DEF HandledOnce, BatchInOnePlace
  <2>6. InOrder(j)'
    BY <2>1, <2>2, <2>4 DEF InOrder
  <2> QED
    BY <2>3, <2>5, <2>6 DEF HandledOnce
<1>2. CASE ~(SendPlan(k) /\ k = j)
  <2>1. UNCHANGED <<batches, searcher, reporter, report, judged>>
    BY IntakeLeavesWork
  <2>2. plans'[j] = plans[j] /\ (j \in sent' <=> j \in sent)
    BY <1>2 DEF BeginJob, IntakeStep, AnalyzeClaims, SendPlan, ConfirmPlan,
       PublishPlanRaises, RecordSearching, RecordIntakeFailure, intakeFrame, storeVars
  <2>3. intake'[j] \in {"idle", "analyzing", "publishing", "analysis_failed"}
          => intake[j] \in {"idle", "analyzing", "publishing", "analysis_failed"}
    BY DEF BeginJob, IntakeStep, AnalyzeClaims, SendPlan, ConfirmPlan,
       PublishPlanRaises, RecordSearching, RecordIntakeFailure, Advance
  <2>4. /\ plans'[j] <= plans[j]
        /\ \A b \in Batch : batches'[b] <= batches[b]
    BY <2>1, <2>2
  <2>5. Settled(j)' => Settled(j)
    BY <2>1 DEF Settled
  <2>6. intake'[j] \in {"idle", "analyzing", "publishing", "analysis_failed"}
          => j \notin sent
    BY <2>3 DEF HandledOnce, InOrder
  <2> QED
    BY <2>1, <2>2, <2>4, <2>5, <2>6, TakingAwayIsHarmless
<1> QED
  BY <1>1, <1>2

\* B's workers: a plan that is pulled, or given back, is the only one of its job.
LEMMA SearcherHandlesOnce ==
  ASSUME TypeInv, TypeInv', NEW j \in Jobs, HandledOnce(j), faults = 0, faults' = 0,
         NEW w \in Searchers,
         \/ \E k \in Jobs : PullPlan(w, k)
         \/ SearcherStep(w) \/ DropPlan(w) \/ PlanLeaseExpires(w)
  PROVE  HandledOnce(j)'
<1> USE DEF TypeInv, TypeOK, BusyWorkersHoldJobs
<1>0. UNCHANGED <<intake, sent, reporter, report, judged>>
  BY DEF PullPlan, SearcherStep, DropPlan, PlanLeaseExpires, CheckPlan, Search,
       SearchRaises, SendBatch, ConfirmBatch, MarkDone, AckPlan, searcherFrame, storeVars
<1>1. Settled(j)' = Settled(j)
  BY <1>0 DEF Settled
<1>2. ASSUME UNCHANGED batches, plans'[j] <= plans[j],
             \A v \in Searchers : searcher'[v].job = j =>
                /\ searcher[v].job = j
                /\ searcher'[v].pc \in {"checking", "searching", "publishing"}
                     => searcher[v].pc \in {"checking", "searching", "publishing"}
      PROVE  HandledOnce(j)'
  <2>1. \A b \in Batch : batches'[b] <= batches[b]
    BY <1>2
  <2>2. intake'[j] \in {"idle", "analyzing", "publishing", "analysis_failed"}
          => j \notin sent
    BY <1>0 DEF HandledOnce, InOrder
  <2> QED
    BY <1>0, <1>1, <1>2, <2>1, <2>2, TakingAwayIsHarmless
<1>3. ASSUME UNCHANGED batches, j \in sent, ~BatchWaits(j), ~Settled(j),
             \A v \in Reporters : reporter[v].job # j, PlanInOnePlace(j)'
      PROVE  HandledOnce(j)'
  <2>1. UNCHANGED <<BatchWaits(j), RankPending(j), BatchInOnePlace(j)>>
    BY <1>0, <1>3 DEF BatchWaits, RankPending, BatchInOnePlace
  <2>2. InOrder(j)'
    BY <1>0, <1>1, <1>3, <2>1 DEF HandledOnce, InOrder
  <2> QED
    BY <1>3, <2>1, <2>2 DEF HandledOnce
<1>4. ASSUME NEW k \in Jobs, PullPlan(w, k)
      PROVE  HandledOnce(j)'
  <2>1. CASE k = j
    <3>1. SearchPending(j) /\ plans[j] = 1 /\ \A v \in Searchers : searcher[v].job # j
      BY <1>4, <2>1 DEF PullPlan, HandledOnce, PlanInOnePlace, SearchPending
    <3>2. PlanInOnePlace(j)'
      BY <1>4, <2>1, <3>1 DEF PullPlan, PlanInOnePlace
    <3>3. j \in sent
      BY <3>1 DEF HandledOnce, InOrder
    <3> QED
      BY <1>3, <1>4, <3>1, <3>2, <3>3 DEF PullPlan, HandledOnce, InOrder
  <2>2. CASE k # j
    BY <1>2, <1>4, <2>2 DEF PullPlan
  <2> QED
    BY <2>1, <2>2
<1>5. CASE SearchRaises(w)
  <2>1. CASE searcher[w].job = j
    <3>1. SearchPending(j)
      BY <1>5, <2>1 DEF SearchRaises, SearchPending
    <3>2. plans[j] = 0 /\ \A v \in Searchers : searcher[v].job = j => v = w
      BY <2>1 DEF HandledOnce, PlanInOnePlace
    <3>3. \A v \in Searchers : searcher'[v].job # j
      BY <1>5, <3>2, NoJobAssumption DEF SearchRaises, IdleSearcher
    <3>4. plans'[j] <= 1
      BY <1>5, <2>1, <3>2 DEF SearchRaises, ReturnPlan
    <3>5. PlanInOnePlace(j)'
      BY <3>3, <3>4 DEF PlanInOnePlace
    <3>6. j \in sent
      BY <2>1 DEF HandledOnce, InOrder
    <3> QED
      BY <1>3, <1>5, <3>1, <3>5, <3>6 DEF SearchRaises, HandledOnce, InOrder
  <2>2. CASE searcher[w].job # j
    <3>1. plans'[j] = plans[j]
      BY <1>5, <2>2 DEF SearchRaises, ReturnPlan
    <3> QED
      BY <1>2, <1>5, <3>1, NoJobAssumption DEF SearchRaises, IdleSearcher
  <2> QED
    BY <2>1, <2>2
<1>6. CASE SendBatch(w)
  <2> DEFINE sentBatch == [job |-> searcher[w].job, error |-> searcher[w].error]
  <2>0. sentBatch \in Batch /\ sentBatch.job = searcher[w].job
    BY <1>6 DEF SendBatch, Searching, SearcherState, Batch
  <2>1. /\ UNCHANGED plans
        /\ batches' = [batches EXCEPT ![sentBatch] = @ + 1]
        /\ searcher' = [searcher EXCEPT ![w].pc = "confirming"]
        /\ searcher[w].pc = "publishing"
    BY <1>6 DEF SendBatch, Searching
  <2> HIDE DEF sentBatch
  <2>2. \A v \in Searchers : /\ searcher'[v].job = searcher[v].job
                             /\ searcher'[v].pc = IF v = w THEN "confirming" ELSE searcher[v].pc
    BY <2>1 DEF SearcherState
  <2>3. CASE searcher[w].job = j
    <3>1. SearchPending(j)
      BY <2>1, <2>3 DEF SearchPending
    <3>2. /\ plans[j] = 0 /\ \A v \in Searchers : searcher[v].job = j => v = w
          /\ j \in sent /\ ~BatchWaits(j) /\ ~Settled(j)
          /\ \A v \in Reporters : reporter[v].job # j
      BY <2>3, <3>1 DEF HandledOnce, PlanInOnePlace, InOrder
    <3>3. PlanInOnePlace(j)'
      BY <2>1, <2>2, <3>2 DEF PlanInOnePlace
    <3>4. \A b \in Batch : b.job = j => batches'[b] = IF b = sentBatch THEN 1 ELSE 0
      BY <2>1, <3>2 DEF BatchWaits
    <3>5. BatchInOnePlace(j)'
      BY <1>0, <3>2, <3>4 DEF BatchInOnePlace
    <3>6. ~SearchPending(j)'
      BY <2>1, <2>2, <3>2 DEF SearchPending
    <3>7. InOrder(j)'
      BY <1>0, <1>1, <3>2, <3>6 DEF HandledOnce, InOrder
    <3> QED
      BY <3>3, <3>5, <3>7 DEF HandledOnce
  <2>4. CASE searcher[w].job # j
    <3>1. \A b \in Batch : b.job = j => batches'[b] <= batches[b]
      BY <2>0, <2>1, <2>4
    <3>2. plans'[j] <= plans[j]
      BY <2>1
    <3>3. intake'[j] \in {"idle", "analyzing", "publishing", "analysis_failed"}
            => j \notin sent
      BY <1>0 DEF HandledOnce, InOrder
    <3> QED
      BY <1>0, <1>1, <2>2, <2>4, <3>1, <3>2, <3>3, TakingAwayIsHarmless
  <2> QED
    BY <2>3, <2>4
<1>7. CASE CheckPlan(w)
  <2>1. PICK to \in {"acking", "searching"} : Searching(w, "checking", to)
    BY <1>7 DEF CheckPlan
  <2>2. \A v \in Searchers : /\ searcher'[v].job = searcher[v].job
                             /\ v # w => searcher'[v].pc = searcher[v].pc
    BY <2>1 DEF Searching, SearcherState
  <2>3. searcher[w].pc = "checking"
    BY <2>1 DEF Searching
  <2> QED
    BY <1>2, <1>7, <2>2, <2>3 DEF CheckPlan
<1>8. CASE Search(w)
  <2>1. PICK e \in BatchErrors \cup {NoError} :
          searcher' = [searcher EXCEPT ![w] = [@ EXCEPT !.pc = "publishing", !.error = e]]
    BY <1>8, BatchOutcomesAssumption DEF Search
  <2> DEFINE built == [searcher[w] EXCEPT !.pc = "publishing", !.error = e]
  <2>2. built.pc = "publishing" /\ built.job = searcher[w].job
    BY BuiltTyped
  <2>3. searcher' = [searcher EXCEPT ![w] = built]
    BY <2>1
  <2> HIDE DEF built
  <2>4. searcher[w].pc = "searching"
    BY <1>8 DEF Search
  <2> QED
    BY <1>2, <1>8, <2>2, <2>3, <2>4 DEF Search
<1>9. CASE ConfirmBatch(w) \/ MarkDone(w)
  <2>1. PICK to \in {"marking", "acking"} : searcher' = [searcher EXCEPT ![w].pc = to]
    BY <1>9 DEF ConfirmBatch, MarkDone, Searching
  <2>2. \A v \in Searchers : /\ searcher'[v].job = searcher[v].job
                             /\ searcher'[v].pc = IF v = w THEN to ELSE searcher[v].pc
    BY <2>1 DEF SearcherState
  <2> QED
    BY <1>2, <1>9, <2>2 DEF ConfirmBatch, MarkDone
<1>10. CASE AckPlan(w)
  <2>1. UNCHANGED <<plans, batches>>
    BY <1>10 DEF AckPlan, Fault
  <2> QED
    BY <1>2, <1>10, <2>1, NoJobAssumption DEF AckPlan, IdleSearcher
<1>11. ~(DropPlan(w) \/ PlanLeaseExpires(w))
  BY DEF DropPlan, PlanLeaseExpires, Fault
<1> QED
  BY <1>4, <1>5, <1>6, <1>7, <1>8, <1>9, <1>10, <1>11 DEF SearcherStep

\* C's workers: the batch one of them holds is the only one of its job, and it
\* is the only one to settle it.
LEMMA ReporterHandlesOnce ==
  ASSUME TypeInv, TypeInv', NEW j \in Jobs, HandledOnce(j), faults = 0, faults' = 0,
         NEW w \in Reporters,
         \/ \E b \in Batch : PullBatch(w, b)
         \/ ReporterStep(w) \/ DropBatch(w) \/ BatchLeaseExpires(w)
  PROVE  HandledOnce(j)'
<1> USE DEF TypeInv, TypeOK, BusyWorkersHoldJobs
<1>0. UNCHANGED <<intake, sent, plans, searcher>>
  BY DEF PullBatch, ReporterStep, DropBatch, BatchLeaseExpires, CheckBatch, StartRanking,
       Rank, StoreReport, RecordFailure, AckBatch, reporterFrame
<1>1. UNCHANGED <<SearchPending(j), PlanInOnePlace(j)>>
  BY <1>0 DEF SearchPending, PlanInOnePlace
<1>2. ASSUME \A b \in Batch : b.job = j => batches'[b] <= batches[b],
             Settled(j)' => Settled(j),
             \A v \in Reporters : reporter'[v].job = j =>
                /\ reporter[v].job = j
                /\ reporter'[v].pc # "acking" => reporter[v].pc # "acking"
      PROVE  HandledOnce(j)'
  <2>1. plans'[j] <= plans[j]
    BY <1>0
  <2>2. intake'[j] \in {"idle", "analyzing", "publishing", "analysis_failed"}
          => j \notin sent
    BY <1>0 DEF HandledOnce, InOrder
  <2> QED
    BY <1>0, <1>2, <2>1, <2>2, TakingAwayIsHarmless
<1>3. ASSUME NEW b \in Batch, PullBatch(w, b)
      PROVE  HandledOnce(j)'
  <2>1. Settled(j)' = Settled(j)
    BY <1>3 DEF PullBatch, storeVars, Settled
  <2>2. \A c \in Batch : batches'[c] = IF c = b THEN batches[c] - 1 ELSE batches[c]
    BY <1>3 DEF PullBatch
  <2>3. \A v \in Reporters : reporter'[v].job = IF v = w THEN b.job ELSE reporter[v].job
    BY <1>3 DEF PullBatch
  <2>4. batches[b] > 0
    BY <1>3 DEF PullBatch
  <2>5. CASE b.job = j
    <3>1. BatchWaits(j) /\ RankPending(j)
      BY <2>4, <2>5 DEF BatchWaits, RankPending
    <3>2. /\ \A v \in Reporters : reporter[v].job # j
          /\ j \in sent /\ ~SearchPending(j) /\ ~Settled(j)
      BY <3>1 DEF HandledOnce, BatchInOnePlace, InOrder
    <3>3. \A c \in Batch : c.job = j => batches'[c] = 0
      BY <2>2, <2>4, <2>5 DEF HandledOnce, BatchInOnePlace
    <3>4. BatchInOnePlace(j)'
      BY <2>3, <3>2, <3>3 DEF BatchInOnePlace, BatchWaits
    <3>5. InOrder(j)'
      BY <1>0, <1>1, <2>1, <3>2 DEF HandledOnce, InOrder
    <3> QED
      BY <1>1, <3>4, <3>5 DEF HandledOnce
  <2>6. CASE b.job # j
    <3>1. \A c \in Batch : c.job = j => batches'[c] <= batches[c]
      BY <2>2, <2>6
    <3>2. \A v \in Reporters : reporter'[v].job = j => reporter'[v] = reporter[v]
      BY <1>3, <2>6 DEF PullBatch
    <3> QED
      BY <1>2, <2>1, <3>1, <3>2
  <2> QED
    BY <2>5, <2>6
<1>4. ASSUME UNCHANGED <<batches, storeVars, judged>>,
             \A v \in Reporters :
                /\ reporter'[v].job = reporter[v].job
                /\ reporter'[v].pc # "acking" => reporter[v].pc # "acking"
      PROVE  HandledOnce(j)'
  <2>1. \A b \in Batch : batches'[b] <= batches[b]
    BY <1>4
  <2>2. Settled(j)' => Settled(j)
    BY <1>4 DEF Settled, storeVars
  <2> QED
    BY <1>2, <1>4, <2>1, <2>2
<1>5. CASE CheckBatch(w)
  <2>1. PICK to \in {"acking", "failing", "starting"} : Reporting(w, "checking", to)
    BY <1>5 DEF CheckBatch
  <2>2. \A v \in Reporters :
           /\ reporter'[v].job = reporter[v].job
           /\ reporter'[v].pc # "acking" => reporter[v].pc # "acking"
    BY <2>1 DEF Reporting, ReporterState
  <2> QED
    BY <1>4, <1>5, <2>2 DEF CheckBatch
<1>6. CASE StartRanking(w)
  <2>1. \A v \in Reporters :
           /\ reporter'[v].job = reporter[v].job
           /\ reporter'[v].pc # "acking" => reporter[v].pc # "acking"
    BY <1>6 DEF StartRanking, Reporting, ReporterState
  <2>2. \A b \in Batch : batches'[b] <= batches[b]
    BY <1>6 DEF StartRanking
  <2>3. Settled(j)' => Settled(j)
    BY <1>6 DEF StartRanking, SetStatus, Settled
  <2> QED
    BY <1>2, <2>1, <2>2, <2>3
<1>7. CASE Rank(w)
  <2>0. reporter[w].pc = "ranking"
    BY <1>7 DEF Rank
  <2>1. CASE reporter' = [reporter EXCEPT ![w].pc = "failing"]
    <3>1. \A v \in Reporters :
             /\ reporter'[v].job = reporter[v].job
             /\ reporter'[v].pc # "acking" => reporter[v].pc # "acking"
      BY <2>0, <2>1 DEF ReporterState
    <3> QED
      BY <1>4, <1>7, <3>1 DEF Rank
  <2>2. ASSUME NEW r \in Reports,
               reporter' = [reporter EXCEPT ![w] = [@ EXCEPT !.pc = "storing", !.draft = r]]
        PROVE  HandledOnce(j)'
    <3> DEFINE ranked == [reporter[w] EXCEPT !.pc = "storing", !.draft = r]
    <3>0. reporter[w] \in ReporterState
      OBVIOUS
    <3>1. ranked.pc = "storing" /\ ranked.job = reporter[w].job
      BY ONLY <3>0, r \in Reports, RankedTyped
    <3>2. reporter' = [reporter EXCEPT ![w] = ranked]
      BY <2>2
    <3> HIDE DEF ranked
    <3>3. \A v \in Reporters :
             /\ reporter'[v].job = reporter[v].job
             /\ reporter'[v].pc # "acking" => reporter[v].pc # "acking"
      BY <2>0, <3>1, <3>2
    <3> QED
      BY <1>4, <1>7, <3>3 DEF Rank
  <2> QED
    BY <1>7, <2>1, <2>2 DEF Rank
<1>8. CASE StoreReport(w) \/ RecordFailure(w)
  <2>1. /\ reporter[w].pc \in {"storing", "failing"}
        /\ reporter' = [reporter EXCEPT ![w].pc = "acking"]
        /\ UNCHANGED batches
    BY <1>8 DEF StoreReport, RecordFailure, Reporting
  <2>2. \A v \in Reporters : /\ reporter'[v].job = reporter[v].job
                             /\ reporter'[v].pc = IF v = w THEN "acking" ELSE reporter[v].pc
    BY <2>1 DEF ReporterState
  <2>3. reporter[w].job # j => (Settled(j)' => Settled(j))
    BY <1>8 DEF StoreReport, RecordFailure, CompleteJob, SetStatus, Settled, StoreTypeOK
  <2>4. UNCHANGED <<BatchInOnePlace(j), BatchWaits(j)>>
    BY <2>1, <2>2 DEF BatchInOnePlace, BatchWaits
  <2>5. CASE reporter[w].job = j
    <3>1. /\ ~BatchWaits(j) /\ \A v \in Reporters : reporter[v].job = j => v = w
          /\ j \in sent /\ ~SearchPending(j)
      BY <2>5 DEF HandledOnce, BatchInOnePlace, InOrder
    <3>2. ~RankPending(j)'
      BY <2>2, <2>4, <3>1 DEF RankPending
    <3>3. InOrder(j)'
      BY <1>0, <1>1, <3>1, <3>2 DEF HandledOnce, InOrder
    <3> QED
      BY <1>1, <2>4, <3>3 DEF HandledOnce
  <2>6. CASE reporter[w].job # j
    <3>1. \A b \in Batch : batches'[b] <= batches[b]
      BY <2>1
    <3>2. \A v \in Reporters : reporter'[v].pc # "acking" => reporter[v].pc # "acking"
      BY <2>1, <2>2
    <3> QED
      BY <1>2, <2>2, <2>3, <2>6, <3>1, <3>2
  <2> QED
    BY <2>5, <2>6
<1>9. CASE AckBatch(w)
  <2>1. UNCHANGED batches
    BY <1>9 DEF AckBatch, Fault
  <2>2. \A b \in Batch : batches'[b] <= batches[b]
    BY <2>1
  <2>3. Settled(j)' => Settled(j)
    BY <1>9 DEF AckBatch, storeVars, Settled
  <2> QED
    BY <1>2, <1>9, <2>2, <2>3, NoJobAssumption DEF AckBatch, IdleReporter
<1>10. ~(DropBatch(w) \/ BatchLeaseExpires(w))
  BY DEF DropBatch, BatchLeaseExpires, Fault
<1> QED
  BY <1>3, <1>5, <1>6, <1>7, <1>8, <1>9, <1>10 DEF ReporterStep

LEMMA OnceStep == OnceInv /\ [Next]_vars => OnceInv'
<1> SUFFICES ASSUME OnceInv, [Next]_vars  PROVE OnceInv'
  OBVIOUS
<1>1. IInv /\ IInv' /\ TypeInv /\ TypeInv'
  BY InductiveStep, NextTyped DEF OnceInv, IInv
<1> SUFFICES ASSUME faults' = 0, NEW j \in Jobs  PROVE HandledOnce(j)'
  BY <1>1 DEF OnceInv
<1>2. faults = 0
  <2>1. faults' \in {faults, faults + 1}
    BY DEF Next, KeepPolling, vars, BeginJob, IntakeStep, AbortIntake, AnalyzeClaims,
       SendPlan, ConfirmPlan, PublishPlanRaises, RecordSearching, RecordIntakeFailure,
       DoneKeyExpires, PullPlan, SearcherStep, DropPlan, PlanLeaseExpires, CheckPlan,
       Search, SearchRaises, SendBatch, ConfirmBatch, MarkDone, AckPlan, PullBatch,
       ReporterStep, DropBatch, BatchLeaseExpires, CheckBatch, StartRanking, Rank,
       StoreReport, RecordFailure, AckBatch, Fault
  <2> QED
    BY <1>1, <2>1, MaxFaultsAssumption DEF TypeInv, TypeOK
<1>3. HandledOnce(j)
  BY <1>2 DEF OnceInv
<1>4. ASSUME UNCHANGED <<intake, sent, plans, batches, searcher, reporter, report, judged>>
      PROVE  HandledOnce(j)'
  BY <1>3, <1>4 DEF HandledOnce, PlanInOnePlace, BatchInOnePlace, InOrder, SearchPending,
     RankPending, BatchWaits, Settled
<1>5. ASSUME NEW k \in Jobs, BeginJob(k) \/ IntakeStep(k)  PROVE HandledOnce(j)'
  BY <1>1, <1>3, <1>5, IntakeHandlesOnce
<1>6. ASSUME NEW k \in Jobs, AbortIntake(k)  PROVE FALSE
  BY <1>2, <1>6 DEF AbortIntake, Fault
<1>7. ASSUME NEW k \in Jobs, DoneKeyExpires(k)  PROVE HandledOnce(j)'
  BY <1>4, <1>7 DEF DoneKeyExpires, searcherFrame, storeVars
<1>8. CASE UNCHANGED vars
  BY <1>4, <1>8 DEF vars
<1> QED
  BY <1>1, <1>2, <1>3, <1>5, <1>6, <1>7, <1>8, SearcherHandlesOnce, ReporterHandlesOnce
     DEF Next, KeepPolling

\* What the two duplicate checks would have to find: handle_plan a completion key
\* of the job it was handed, handle_batch a stored report.
NoDuplicateArrives ==
    /\ \A w \in Searchers : searcher[w].pc = "checking" => searcher[w].job \notin doneKeys
    /\ \A w \in Reporters : reporter[w].pc = "checking" => report[reporter[w].job] = NoReport

\* No two workers are ever on the same job.
NoTwoOnAJob ==
    /\ \A v, w \in Searchers :
         searcher[v].pc # "idle" /\ searcher[w].pc # "idle" /\ v # w
            => searcher[v].job # searcher[w].job
    /\ \A v, w \in Reporters :
         reporter[v].pc # "idle" /\ reporter[w].pc # "idle" /\ v # w
            => reporter[v].job # reporter[w].job

\* As long as nothing has gone wrong (no crash, nack of a healthy job, lost ack,
\* expired lease or failed write of a completion key), no two workers are on the
\* same job and neither duplicate check finds anything, with any number of jobs
\* and workers: all the duplicates handle_plan and handle_batch guard against
\* are the work of faults, not of the protocol.  Redelivering a plan that always
\* raises is no fault.
THEOREM OnlyFaultsDuplicate == Spec => [](faults = 0 => NoDuplicateArrives /\ NoTwoOnAJob)
<1>1. Init => OnceInv
  BY InitHolds, OnceInit DEF OnceInv
<1>2. OnceInv => (faults = 0 => NoDuplicateArrives /\ NoTwoOnAJob)
  <2> SUFFICES ASSUME OnceInv, faults = 0  PROVE NoDuplicateArrives /\ NoTwoOnAJob
    OBVIOUS
  <2> USE DEF OnceInv, IInv, TypeInv, TypeOK, BusyWorkersHoldJobs
  <2>1. ASSUME NEW w \in Searchers, searcher[w].pc = "checking",
               searcher[w].job \in doneKeys
        PROVE  FALSE
    <3>1. searcher[w].job \in Jobs /\ SearchPending(searcher[w].job)
      BY <2>1 DEF SearchPending
    <3>2. /\ ~BatchWaits(searcher[w].job) /\ ~Settled(searcher[w].job)
          /\ \A v \in Reporters : reporter[v].job # searcher[w].job
      BY <3>1 DEF HandledOnce, InOrder
    <3>3. BatchOutstanding(searcher[w].job) \/ Settled(searcher[w].job)
      BY <2>1 DEF DoneKeyMeansPublished
    <3> QED
      BY <3>2, <3>3 DEF BatchOutstanding, BatchWaits
  <2>2. ASSUME NEW w \in Reporters, reporter[w].pc = "checking"
        PROVE  report[reporter[w].job] = NoReport
    <3>1. reporter[w].job \in Jobs /\ RankPending(reporter[w].job)
      BY <2>2 DEF RankPending
    <3> QED
      BY <3>1 DEF HandledOnce, InOrder, Settled
  <2>3. NoTwoOnAJob
    BY DEF NoTwoOnAJob, HandledOnce, PlanInOnePlace, BatchInOnePlace
  <2> QED
    BY <2>1, <2>2, <2>3 DEF NoDuplicateArrives
<1> QED
  BY <1>1, <1>2, OnceStep, PTL DEF Spec

=============================================================================
