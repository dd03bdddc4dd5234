---------------------------- MODULE PollingClient ----------------------------
(***************************************************************************)
(* The examiner's pages (Frontend/app.js) in front of intake's API         *)
(* (intake/api.py), with the proxy between them (Frontend/server.py).  A   *)
(* page submits a job and polls it until it has an outcome to show.        *)
(*                                                                         *)
(* What the other components do to a job is what JobLifecycle promises; a  *)
(* request leaves run_intake before B and C touch its job (Pipeline calls  *)
(* this prompt).  A chain is one run of the submit handler with the polls  *)
(* it leads to; its token is the value of pollId when it began.            *)
(*                                                                         *)
(* intake has one event loop, and run_intake blocks it: while one page's   *)
(* POST is served no other request is taken.  A request may end without a  *)
(* response at any time: the connection is lost, or the proxy gives up     *)
(* (600 s for a POST, 30 s for a GET) and drops it.                        *)
(***************************************************************************)
EXTENDS JobLifecycle, Naturals

CONSTANTS
    Pages,      \* browser pages
    NoJob,      \* no job: nothing submitted, or intake serves no POST
    MaxSubmits  \* bound on the submissions of one page between two reloads

ASSUME PagesAssumption ==
    MaxSubmits \in Nat \ {0} /\ NoJob \notin Jobs /\ NoReport \notin Reports

VARIABLES
    page,     \* what a page shows
    chain,    \* for each page and token, how far the chain is
    serving   \* the job whose POST is inside run_intake

clientVars == <<page, chain, serving>>
vars == <<lifecycleVars, clientVars>>

Tokens == 1..MaxSubmits
FinalStatus == {"completed", "failed"}
Statuses == FinalStatus \cup {"analyzing", "searching", "ranking"}

\* enabled: the submit button; banner: the status line; job and view: the job
\* and report on display.  The report "missing" is "no report was stored".
Page == [pollId : 0..MaxSubmits, enabled : BOOLEAN,
         banner : {"none", "submitting", "running", "error", "lost"} \cup FinalStatus,
         job : Jobs \cup {NoJob}, view : Reports \cup {NoReport, "missing"}]

NewPage == [pollId |-> 0, enabled |-> TRUE, banner |-> "none", job |-> NoJob, view |-> NoReport]

\* first: the poll is awaited inside the submit handler's try block.
Chain == [pc : {"over", "posting", "served", "asking", "read", "answered", "waiting"},
          job : Jobs \cup {NoJob}, first : BOOLEAN,
          answer : {"none", "accepted", "error", "dropped"} \cup Statuses,
          report : Reports \cup {NoReport}]

NoChain == [pc |-> "over", job |-> NoJob, first |-> TRUE, answer |-> "none", report |-> NoReport]

TypeOK ==
    /\ status \in [Jobs -> Statuses \cup {"absent"}]
    /\ errorCode \in [Jobs -> ErrorCodes \cup {NoError}]
    /\ report \in [Jobs -> Reports \cup {NoReport}]
    /\ page \in [Pages -> Page]
    /\ chain \in [Pages -> [Tokens -> Chain]]
    /\ serving \in Jobs \cup {NoJob}

Init ==
    /\ LifecycleInit
    /\ page = [p \in Pages |-> NewPage]
    /\ chain = [p \in Pages |-> [t \in Tokens |-> NoChain]]
    /\ serving = NoJob

-----------------------------------------------------------------------------
(* Frontend/app.js.                                                        *)

\* A job id that no request has drawn yet: the chain names the id that
\* create_job will draw for it.
Unused(j) ==
    /\ status[j] = "absent"
    /\ \A p \in Pages, t \in Tokens : chain[p][t].job # j

Submitting(p) ==
    [page[p] EXCEPT !.pollId = @ + 1, !.enabled = FALSE, !.banner = "submitting",
                    !.job = NoJob, !.view = NoReport]

\* The handler up to the POST.  A disabled button submits nothing.
PressSubmit(p) ==
    /\ page[p].enabled
    /\ page[p].pollId < MaxSubmits
    /\ \E j \in Jobs :
         /\ Unused(j)
         /\ chain' = [chain EXCEPT ![p][page[p].pollId + 1] =
                        [NoChain EXCEPT !.pc = "posting", !.job = j]]
    /\ page' = [page EXCEPT ![p] = Submitting(p)]
    /\ UNCHANGED <<lifecycleVars, serving>>

responseFrame == <<lifecycleVars, serving>>

Answered(p, t, answer) ==
    chain[p][t].pc = "answered" /\ chain[p][t].answer = answer

Shown(p, banner, enabled) == [page[p] EXCEPT !.banner = banner, !.enabled = enabled]

\* fetch rejects: the catch blocks do not look at the token, and only the one
\* of the submit handler gives the button back.
LostAnswer(p, t) ==
    /\ Answered(p, t, "dropped")
    /\ page' = [page EXCEPT ![p] = IF chain[p][t].first THEN Shown(p, "error", TRUE)
                                   ELSE Shown(p, "lost", page[p].enabled)]
    /\ chain' = [chain EXCEPT ![p][t] = NoChain]
    /\ UNCHANGED responseFrame

\* Any other answer is ignored, and its chain ends, when token !== pollId.
IfCurrent(p, t, shown, next) ==
    /\ page' = [page EXCEPT ![p] = IF page[p].pollId = t THEN shown ELSE @]
    /\ chain' = [chain EXCEPT ![p][t] = IF page[p].pollId = t THEN next ELSE NoChain]
    /\ UNCHANGED responseFrame

Asking(p, t, first) ==
    [chain[p][t] EXCEPT !.pc = "asking", !.first = first, !.answer = "none"]

\* Mistake: the button comes back as soon as the job is accepted.
AcceptedAnswerEnables(p, t) ==
    /\ Answered(p, t, "accepted")
    /\ IfCurrent(p, t, [page[p] EXCEPT !.job = chain[p][t].job, !.enabled = TRUE],
                 Asking(p, t, TRUE))

\* 202: the first poll follows at once.
AcceptedAnswer(p, t) ==
    /\ Answered(p, t, "accepted")
    /\ IfCurrent(p, t, [page[p] EXCEPT !.job = chain[p][t].job], Asking(p, t, TRUE))

\* Any response that is not ok, to the POST or to a poll.
ErrorAnswer(p, t) ==
    /\ Answered(p, t, "error")
    /\ IfCurrent(p, t, Shown(p, "error", TRUE), NoChain)

CompletedAnswer(p, t) ==
    /\ Answered(p, t, "completed")
    /\ LET r == chain[p][t].report IN
       IfCurrent(p, t, [Shown(p, "completed", TRUE) EXCEPT
                          !.view = IF r = NoReport THEN "missing" ELSE r], NoChain)

\* Mistake: a failed job leaves the button as it is.
FailedAnswerKeepsButton(p, t) ==
    /\ Answered(p, t, "failed")
    /\ IfCurrent(p, t, Shown(p, "failed", page[p].enabled), NoChain)

FailedAnswer(p, t) ==
    /\ Answered(p, t, "failed")
    /\ IfCurrent(p, t, Shown(p, "failed", TRUE), NoChain)

\* The job is under way: poll again after POLL_MS.
RunningAnswer(p, t) ==
    /\ \E s \in Statuses \ FinalStatus : Answered(p, t, s)
    /\ IfCurrent(p, t, Shown(p, "running", page[p].enabled),
                 [chain[p][t] EXCEPT !.pc = "waiting"])

TimerFires(p, t) ==
    /\ chain[p][t].pc = "waiting"
    /\ chain' = [chain EXCEPT ![p][t] = Asking(p, t, FALSE)]
    /\ UNCHANGED <<responseFrame, page>>

\* The examiner reloads the page: whatever ran in it is gone.
Reload(p) ==
    /\ page[p].banner # "none"
    /\ page' = [page EXCEPT ![p] = NewPage]
    /\ chain' = [chain EXCEPT ![p] = [t \in Tokens |-> NoChain]]
    /\ UNCHANGED responseFrame

PageStep(p, t) ==
    \/ LostAnswer(p, t) \/ AcceptedAnswer(p, t) \/ ErrorAnswer(p, t)
    \/ CompletedAnswer(p, t) \/ FailedAnswer(p, t) \/ RunningAnswer(p, t) \/ TimerFires(p, t)

-----------------------------------------------------------------------------
(* intake/api.py and Frontend/server.py.                                   *)

Answer(p, t, answer) ==
    chain' = [chain EXCEPT ![p][t] = [@ EXCEPT !.pc = "answered", !.answer = answer]]

\* The answer to the POST of job j, if a page still waits for it.
AnswerPost(j, answer) ==
    chain' = [p \in Pages |-> [t \in Tokens |->
                IF chain[p][t].pc = "served" /\ chain[p][t].job = j
                THEN [chain[p][t] EXCEPT !.pc = "answered", !.answer = answer]
                ELSE chain[p][t]]]

LoopIsFree == serving = NoJob

\* Mistake: the request is accepted before the job is created.
TakePostInBackground(p, t) ==
    /\ chain[p][t].pc = "posting"
    /\ LoopIsFree
    /\ Answer(p, t, "accepted")
    /\ UNCHANGED <<lifecycleVars, serving, page>>

\* submit_job: the uploads are refused, or run_intake creates the job.
TakePost(p, t) ==
    /\ chain[p][t].pc = "posting"
    /\ LoopIsFree
    /\ \/ Answer(p, t, "error") /\ UNCHANGED <<lifecycleVars, serving>>
       \/ /\ Submit(chain[p][t].job)
          /\ serving' = chain[p][t].job
          /\ chain' = [chain EXCEPT ![p][t].pc = "served"]
    /\ UNCHANGED page

\* run_intake returns, raises IntakeFailedError, or raises something else and
\* leaves the job as it is.
FinishPost(j) ==
    /\ serving = j
    /\ serving' = NoJob
    /\ \/ Searched(j) /\ AnswerPost(j, "accepted")
       \/ Failed(j) /\ AnswerPost(j, "error")
       \/ UNCHANGED lifecycleVars /\ AnswerPost(j, "error")
    /\ UNCHANGED page

\* Mistake: the report is read before the record.
GetJobReportFirst(p, t) ==
    /\ \/ /\ chain[p][t].pc = "asking" /\ LoopIsFree
          /\ chain' = [chain EXCEPT ![p][t] =
                         [@ EXCEPT !.pc = "read", !.report = report[chain[p][t].job]]]
       \/ /\ chain[p][t].pc = "read"
          /\ Answer(p, t, status[chain[p][t].job])
    /\ UNCHANGED <<lifecycleVars, page, serving>>

\* get_job reads the record and then, if it says completed, the report: two
\* transactions.  It runs in a thread, once the loop has taken the request.
GetJob(p, t) ==
    /\ \/ /\ chain[p][t].pc = "asking" /\ LoopIsFree
          /\ IF status[chain[p][t].job] = "completed"
             THEN chain' = [chain EXCEPT ![p][t].pc = "read"]
             ELSE Answer(p, t, status[chain[p][t].job])
       \/ /\ chain[p][t].pc = "read"
          /\ chain' = [chain EXCEPT ![p][t] =
                         [@ EXCEPT !.pc = "answered", !.answer = "completed",
                                   !.report = report[chain[p][t].job]]]
    /\ UNCHANGED <<lifecycleVars, page, serving>>

\* The store raises, or the proxy cannot connect and answers 502.
RequestFails(p, t) ==
    /\ chain[p][t].pc \in {"posting", "asking", "read"}
    /\ Answer(p, t, "error")
    /\ UNCHANGED <<lifecycleVars, page, serving>>

\* The proxy's timeout, which it does not turn into a response, or the network.
DropRequest(p, t) ==
    /\ chain[p][t].pc \in {"posting", "served", "asking", "read"}
    /\ Answer(p, t, "dropped")
    /\ UNCHANGED <<lifecycleVars, page, serving>>

\* B and C go on with the jobs that have left run_intake.
Elsewhere(j) ==
    /\ serving # j
    /\ Ranked(j) \/ Failed(j) \/ Completed(j)
    /\ UNCHANGED clientVars

-----------------------------------------------------------------------------
Next ==
    \/ \E p \in Pages : PressSubmit(p) \/ Reload(p)
    \/ \E p \in Pages, t \in Tokens :
         PageStep(p, t) \/ TakePost(p, t) \/ GetJob(p, t) \/ RequestFails(p, t) \/ DropRequest(p, t)
    \/ \E j \in Jobs : FinishPost(j) \/ Elsewhere(j)

Spec == Init /\ [][Next]_vars

\* A page runs, intake works off what it has taken, and a request that is sent
\* again and again finds the loop free some time.  Nobody must press a button,
\* nothing must fail, and B and C need not do anything.
Fairness ==
    /\ \A p \in Pages :
         /\ WF_vars(\E t \in Tokens : PageStep(p, t))
         /\ SF_vars(\E t \in Tokens : TakePost(p, t))
         /\ SF_vars(\E t \in Tokens : GetJob(p, t))
    /\ WF_vars(\E j \in Jobs : FinishPost(j))

FairSpec == Spec /\ Fairness

-----------------------------------------------------------------------------
(* Properties.                                                             *)

Live(p) == {t \in Tokens : chain[p][t].pc # "over"}

\* While the button is disabled one chain runs, the one of the last submission,
\* or the page says that its connection was lost; while it is enabled none
\* does.  So two polling loops never race for the page, and the token check
\* of poll() is a second line of defence.
OneChainAtATime ==
    \A p \in Pages :
      /\ Live(p) \subseteq {page[p].pollId}
      /\ page[p].enabled => Live(p) = {}
      /\ ~page[p].enabled => Live(p) # {} \/ page[p].banner = "lost"

\* A page that says completed shows the stored report of the very job it says
\* so of, and no other page shows a report: get_job's two reads never give a
\* completed job without its report ("should not happen", api.py), and a new
\* submission takes the old report away.
CompletedShowsItsReport ==
    \A p \in Pages :
      IF page[p].banner = "completed"
      THEN /\ page[p].job # NoJob
           /\ status[page[p].job] = "completed"
           /\ page[p].view = report[page[p].job]
           /\ page[p].view \in Reports
      ELSE page[p].view = NoReport

\* If every job ends up completed or failed for good, the button comes back
\* after every submission, or the page tells the examiner that it has lost the
\* connection (poll's catch block leaves the button disabled).
FormComesBack ==
    (\A j \in Jobs : <>[](status[j] \in {"absent", "completed", "failed"}))
      => \A p \in Pages :
           ~page[p].enabled ~> page[p].enabled \/ page[p].banner = "lost"

=============================================================================
