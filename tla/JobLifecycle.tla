---------------------------- MODULE JobLifecycle ----------------------------
(***************************************************************************)
(* What the job tables promise a client that polls a job: it goes from     *)
(* analyzing through searching and ranking to completed, or it fails; a    *)
(* report appears together with completed and neither is ever taken back.  *)
(* A failed job is not final: when its plan or batch is delivered once     *)
(* more it is searched or ranked once more, and may still complete.        *)
(***************************************************************************)
CONSTANTS Jobs, Reports, NoReport, ErrorCodes, NoError

VARIABLES status, errorCode, report

lifecycleVars == <<status, errorCode, report>>

Open(j) == status[j] \in {"analyzing", "searching", "ranking", "failed"}

MoveTo(j, s, code) ==
    /\ status' = [status EXCEPT ![j] = s]
    /\ errorCode' = [errorCode EXCEPT ![j] = code]

LifecycleInit ==
    /\ status = [j \in Jobs |-> "absent"]
    /\ errorCode = [j \in Jobs |-> NoError]
    /\ report = [j \in Jobs |-> NoReport]

Submit(j) == status[j] = "absent" /\ MoveTo(j, "analyzing", NoError) /\ UNCHANGED report

Searched(j) == status[j] = "analyzing" /\ MoveTo(j, "searching", NoError) /\ UNCHANGED report

Ranked(j) == Open(j) /\ MoveTo(j, "ranking", NoError) /\ UNCHANGED report

Failed(j) ==
    /\ Open(j)
    /\ \E code \in ErrorCodes : MoveTo(j, "failed", code)
    /\ UNCHANGED report

Completed(j) ==
    /\ status[j] = "ranking"
    /\ MoveTo(j, "completed", NoError)
    /\ \E r \in Reports : report' = [report EXCEPT ![j] = r]

LifecycleNext ==
    \E j \in Jobs : Submit(j) \/ Searched(j) \/ Ranked(j) \/ Failed(j) \/ Completed(j)

LifecycleSpec == LifecycleInit /\ [][LifecycleNext]_lifecycleVars

-----------------------------------------------------------------------------
(* What is left of it when a request may still be inside run_intake while  *)
(* B and C work on its job, or several report workers on one job: any      *)
(* status may replace any other, but a job never starts over, completed    *)
(* never comes without a report, and the first report stays.               *)

Rewritten(j) ==
    /\ status[j] # "absent"
    /\ \/ \E s \in {"searching", "ranking"} : MoveTo(j, s, NoError)
       \/ \E code \in ErrorCodes : MoveTo(j, "failed", code)
    /\ UNCHANGED report

Reported(j) ==
    /\ status[j] \notin {"absent", "analyzing"}
    /\ MoveTo(j, "completed", NoError)
    /\ \E r \in Reports : report' = [report EXCEPT ![j] = IF @ = NoReport THEN r ELSE @]

AnyOrderNext == \E j \in Jobs : Submit(j) \/ Rewritten(j) \/ Reported(j)

AnyOrderSpec == LifecycleInit /\ [][AnyOrderNext]_lifecycleVars

\* A report is stored exactly for the completed jobs, and an error code exactly
\* for the failed ones.
RecordsAgree ==
    \A j \in Jobs :
      /\ status[j] = "completed" <=> report[j] # NoReport
      /\ status[j] = "failed" <=> errorCode[j] # NoError

=============================================================================
