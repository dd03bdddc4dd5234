------------------------------ MODULE JobStore ------------------------------
(***************************************************************************)
(* The job records and reports that components A and C share: the jobs and *)
(* reports tables of Cloud SQL behind the JobStore protocol.  Each call of *)
(* the protocol is one transaction, so each is one action here; the two    *)
(* writes of complete_job are in the same transaction.                     *)
(*                                                                         *)
(* A report is an element of Reports: all that matters of it is which one  *)
(* was stored.  Timestamps are left out.                                   *)
(***************************************************************************)
CONSTANTS
    Jobs,      \* job ids; create_job draws a fresh one each time
    Reports,   \* the reports a ranking may produce
    NoReport   \* get_report's None

ASSUME ReportsAssumption == NoReport \notin Reports

VARIABLES
    status,     \* jobs.status, "absent" while there is no row
    errorCode,  \* jobs.error_code
    report      \* reports.report_json

storeVars == <<status, errorCode, report>>

JobStatus == {"analyzing", "searching", "ranking", "completed", "failed"}
NoError == "none"
BatchErrors == {"search_failed", "decision_failed"}
ErrorCodes == {"analysis_failed", "publish_failed", "ranking_failed"} \cup BatchErrors

StoreTypeOK ==
    /\ status \in [Jobs -> JobStatus \cup {"absent"}]
    /\ errorCode \in [Jobs -> ErrorCodes \cup {NoError}]
    /\ report \in [Jobs -> Reports \cup {NoReport}]

StoreInit ==
    /\ status = [j \in Jobs |-> "absent"]
    /\ errorCode = [j \in Jobs |-> NoError]
    /\ report = [j \in Jobs |-> NoReport]

-----------------------------------------------------------------------------
(* Plausible mistakes in the store, for checking that the properties see   *)
(* them.                                                                   *)

\* The insert replaces the row on conflict instead of doing nothing.
CompleteJobLastWriteWins(j, r) ==
    /\ report' = [report EXCEPT ![j] = r]
    /\ status' = [status EXCEPT ![j] = "completed"]
    /\ errorCode' = [errorCode EXCEPT ![j] = NoError]

\* The report is stored but the status update is forgotten.
CompleteJobWithoutStatus(j, r) ==
    /\ report' = [report EXCEPT ![j] = IF @ = NoReport THEN r ELSE @]
    /\ UNCHANGED <<status, errorCode>>

-----------------------------------------------------------------------------
CreateJob(j) ==
    /\ status[j] = "absent"
    /\ status' = [status EXCEPT ![j] = "analyzing"]
    /\ UNCHANGED <<errorCode, report>>

\* An unconditional UPDATE: whatever the row says is overwritten, and a call
\* without an error code clears the one stored before.
SetStatus(j, s, code) ==
    /\ status' = [status EXCEPT ![j] = s]
    /\ errorCode' = [errorCode EXCEPT ![j] = code]
    /\ UNCHANGED report

\* INSERT ... ON CONFLICT DO NOTHING and UPDATE, committed together.
CompleteJob(j, r) ==
    /\ report' = [report EXCEPT ![j] = IF @ = NoReport THEN r ELSE @]
    /\ status' = [status EXCEPT ![j] = "completed"]
    /\ errorCode' = [errorCode EXCEPT ![j] = NoError]

=============================================================================
