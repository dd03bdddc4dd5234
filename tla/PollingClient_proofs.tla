------------------------ MODULE PollingClient_proofs ------------------------
(***************************************************************************)
(* What a page shows is true of its job, for any number of pages, jobs and *)
(* submissions.                                                            *)
(*                                                                         *)
(* The invariant says of each chain what its page already shows of it and  *)
(* what the store must say of its job by now (ChainIsTrue).  The store     *)
(* only moves on: a job that exists stays, and a completed job keeps its   *)
(* report (MovesOn), so that what a request has read stays true until the  *)
(* page shows it.                                                          *)
(***************************************************************************)
EXTENDS PollingClient, TLAPS

StoreIsTrue ==
    /\ status \in [Jobs -> Statuses \cup {"absent"}]
    /\ errorCode \in [Jobs -> ErrorCodes \cup {NoError}]
    /\ report \in [Jobs -> Reports \cup {NoReport}]
    /\ \A j \in Jobs : status[j] = "completed" => report[j] \in Reports

MovesOn ==
    /\ StoreIsTrue'
    /\ \A j \in Jobs :
         /\ status[j] # "absent" => status'[j] # "absent"
         /\ status[j] = "completed" => status'[j] = "completed" /\ report'[j] = report[j]

\* The chain has been told of its job, and its page shows which job that is.
Polls(c) ==
    \/ c.pc \in {"asking", "read", "waiting"}
    \/ c.pc = "answered" /\ c.answer \in Statuses

Begun(c) ==
    \/ Polls(c)
    \/ c.pc = "served"
    \/ c.pc = "answered" /\ c.answer = "accepted"

ChainIsTrue(c, pg) ==
    c.pc # "over" =>
      /\ c.job \in Jobs
      /\ Begun(c) => status[c.job] # "absent"
      /\ Polls(c) => pg.job = c.job
      /\ c.pc = "read" => status[c.job] = "completed"
      /\ c.pc = "answered" /\ c.answer = "completed" =>
           status[c.job] = "completed" /\ c.report = report[c.job]

PageIsTrue(pg) ==
    IF pg.banner = "completed"
    THEN /\ pg.enabled
         /\ pg.job \in Jobs
         /\ status[pg.job] = "completed"
         /\ pg.view = report[pg.job]
    ELSE pg.view = NoReport

\* One conjunct of OneChainAtATime for a page pg with chains cs.
OneChain(pg, cs) ==
    LET live == {t \in Tokens : cs[t].pc # "over"} IN
    /\ live \subseteq {pg.pollId}
    /\ pg.enabled => live = {}
    /\ ~pg.enabled => live # {} \/ pg.banner = "lost"

PageInv(pg, cs) ==
    /\ pg \in Page
    /\ cs \in [Tokens -> Chain]
    /\ PageIsTrue(pg)
    /\ OneChain(pg, cs)
    /\ \A t \in Tokens : ChainIsTrue(cs[t], pg)

ClientInv ==
    /\ StoreIsTrue
    /\ serving \in Jobs \cup {NoJob}
    /\ page \in [Pages -> Page]
    /\ chain \in [Pages -> [Tokens -> Chain]]
    /\ \A p \in Pages : PageInv(page[p], chain[p])

-----------------------------------------------------------------------------
(* The store moves on.                                                     *)

LEMMA JobsMoveOn ==
    ASSUME StoreIsTrue, NEW j \in Jobs,
           Submit(j) \/ Searched(j) \/ Ranked(j) \/ Failed(j) \/ Completed(j)
    PROVE  MovesOn
<1> USE DEF StoreIsTrue, MoveTo, Statuses, FinalStatus
<1>1. CASE Submit(j)
  BY <1>1 DEF Submit, MovesOn
<1>2. CASE Searched(j)
  BY <1>2 DEF Searched, MovesOn
<1>3. CASE Ranked(j)
  BY <1>3 DEF Ranked, Open, MovesOn
<1>4. CASE Failed(j)
  BY <1>4 DEF Failed, Open, MovesOn
<1>5. CASE Completed(j)
  BY <1>5 DEF Completed, MovesOn
<1> QED
  BY <1>1, <1>2, <1>3, <1>4, <1>5

LEMMA JobsStay ==
    ASSUME StoreIsTrue, UNCHANGED lifecycleVars
    PROVE  MovesOn
BY DEF StoreIsTrue, lifecycleVars, MovesOn

\* What is true of a page and its chains stays true as the store moves on.
LEMMA PagesStayTrue ==
    ASSUME NEW pg, NEW cs, StoreIsTrue, MovesOn, PageInv(pg, cs)
    PROVE  PageInv(pg, cs)'
<1>1. PageIsTrue(pg)'
  BY DEF PageInv, PageIsTrue, MovesOn
<1>2. \A t \in Tokens : ChainIsTrue(cs[t], pg)'
  BY DEF PageInv, ChainIsTrue, MovesOn
<1> QED
  BY <1>1, <1>2 DEF PageInv, OneChain

\* A step that changes one page and its chains, and perhaps the store.
LEMMA OnePageChanges ==
    ASSUME ClientInv, MovesOn, serving' \in Jobs \cup {NoJob},
           NEW p \in Pages, NEW pg \in Page, NEW cs \in [Tokens -> Chain],
           page' = [page EXCEPT ![p] = pg], chain' = [chain EXCEPT ![p] = cs],
           PageInv(pg, cs)'
    PROVE  ClientInv'
<1>1. /\ page' \in [Pages -> Page] /\ chain' \in [Pages -> [Tokens -> Chain]]
      /\ page'[p] = pg /\ chain'[p] = cs
      /\ \A q \in Pages : q # p => page'[q] = page[q] /\ chain'[q] = chain[q]
  BY DEF ClientInv
<1>2. ASSUME NEW q \in Pages
      PROVE  PageInv(page[q], chain[q])'
  <2>1. CASE q = p
    BY <2>1, <1>1
  <2>2. CASE q # p
    <3>1. PICK pg2, cs2 : pg2 = page[q] /\ cs2 = chain[q]
      OBVIOUS
    <3>2. PageInv(pg2, cs2)
      BY <3>1 DEF ClientInv
    <3>3. PageInv(pg2, cs2)'
      BY <3>2, PagesStayTrue DEF ClientInv
    <3>4. page'[q] = pg2 /\ chain'[q] = cs2
      BY <2>2, <3>1, <1>1
    <3> QED
      BY <3>3, <3>4
  <2> QED
    BY <2>1, <2>2
<1> QED
  BY <1>1, <1>2 DEF ClientInv, MovesOn

\* A step of a live chain: its page shows pg, and c is left of the chain.
LEMMA LiveChainMoves ==
    ASSUME ClientInv, MovesOn, serving' \in Jobs \cup {NoJob},
           NEW p \in Pages, NEW t \in Tokens, chain[p][t].pc # "over",
           NEW pg \in Page, NEW c \in Chain, pg.pollId = page[p].pollId,
           page' = [page EXCEPT ![p] = pg], chain' = [chain EXCEPT ![p][t] = c],
           PageIsTrue(pg)', ChainIsTrue(c, pg)',
           IF c.pc = "over" THEN pg.enabled \/ pg.banner = "lost" ELSE ~pg.enabled
    PROVE  ClientInv'
<1>1. PICK cs \in [Tokens -> Chain] : cs = [chain[p] EXCEPT ![t] = c]
  BY DEF ClientInv
<1>2. chain' = [chain EXCEPT ![p] = cs]
  BY <1>1 DEF ClientInv
<1>3. /\ t = page[p].pollId
      /\ \A u \in Tokens : u # t => chain[p][u].pc = "over"
  BY DEF ClientInv, PageInv, OneChain
<1>4. /\ cs[t] = c
      /\ \A u \in Tokens : u # t => cs[u].pc = "over"
  BY <1>1, <1>3
<1>5. OneChain(pg, cs)
  BY <1>3, <1>4 DEF OneChain
<1>6. \A u \in Tokens : ChainIsTrue(cs[u], pg)'
  BY <1>4 DEF ChainIsTrue
<1>7. PageInv(pg, cs)'
  BY <1>5, <1>6 DEF PageInv, OneChain
<1> QED
  BY <1>2, <1>7, OnePageChanges

-----------------------------------------------------------------------------
(* The invariant and the properties.                                       *)

\* A live chain, its page, and what the invariant says of them.
LEMMA LiveChain ==
    ASSUME ClientInv, NEW p \in Pages, NEW t \in Tokens, chain[p][t].pc # "over"
    PROVE  /\ page[p] \in Page /\ chain[p][t] \in Chain
           /\ PageIsTrue(page[p]) /\ ChainIsTrue(chain[p][t], page[p])
           /\ page[p].pollId = t /\ ~page[p].enabled /\ page[p].banner # "completed"
BY DEF ClientInv, PageInv, OneChain, PageIsTrue

LEMMA NoChainIsAChain == NoChain \in Chain
BY DEF NoChain, Chain

LEMMA InitHolds == Init => ClientInv
<1> SUFFICES ASSUME Init PROVE ClientInv
  OBVIOUS
<1>1. StoreIsTrue
  BY DEF Init, LifecycleInit, StoreIsTrue
<1>2. NewPage \in Page /\ NewPage.banner = "none" /\ NewPage.view = NoReport /\ NewPage.enabled
  BY PagesAssumption DEF NewPage, Page
<1>3. ASSUME NEW p \in Pages
      PROVE  PageInv(page[p], chain[p])
  <2>1. /\ page[p] = NewPage
        /\ chain[p] = [t \in Tokens |-> NoChain]
        /\ \A t \in Tokens : chain[p][t].pc = "over"
    BY DEF Init, NoChain
  <2>2. PageIsTrue(page[p])
    BY <2>1, <1>2 DEF PageIsTrue
  <2> QED
    BY <2>1, <2>2, <1>2, NoChainIsAChain DEF PageInv, OneChain, ChainIsTrue
<1> QED
  BY <1>1, <1>2, <1>3, NoChainIsAChain DEF Init, ClientInv

LEMMA InvGivesProperties ==
    ClientInv => TypeOK /\ OneChainAtATime /\ CompletedShowsItsReport
<1> SUFFICES ASSUME ClientInv PROVE TypeOK /\ OneChainAtATime /\ CompletedShowsItsReport
  OBVIOUS
<1>1. TypeOK
  BY DEF ClientInv, StoreIsTrue, TypeOK
<1>2. OneChainAtATime
  BY DEF ClientInv, PageInv, OneChain, OneChainAtATime, Live
<1>3. CompletedShowsItsReport
  BY PagesAssumption DEF ClientInv, StoreIsTrue, PageInv, PageIsTrue, CompletedShowsItsReport
<1> QED
  BY <1>1, <1>2, <1>3

-----------------------------------------------------------------------------
(* The page's own steps.                                                   *)

LEMMA PressSubmitKeepsInv ==
    ASSUME ClientInv, NEW p \in Pages, PressSubmit(p)
    PROVE  ClientInv'
<1>1. PICK j \in Jobs :
          /\ page[p].enabled /\ page[p].pollId < MaxSubmits
          /\ chain' = [chain EXCEPT ![p][page[p].pollId + 1] =
                         [NoChain EXCEPT !.pc = "posting", !.job = j]]
          /\ page' = [page EXCEPT ![p] = Submitting(p)]
  BY DEF PressSubmit
<1>2. page[p] \in Page /\ chain[p] \in [Tokens -> Chain] /\ OneChain(page[p], chain[p])
  BY DEF ClientInv, PageInv
<1>3. page[p].pollId + 1 \in Tokens /\ page[p].pollId + 1 \in 0..MaxSubmits
  BY <1>1, <1>2, PagesAssumption DEF Page, Tokens
<1>4. PICK t \in Tokens : t = page[p].pollId + 1
  BY <1>3
<1>5. PICK c : c = [NoChain EXCEPT !.pc = "posting", !.job = j]
  OBVIOUS
<1>6. c \in Chain /\ c.pc = "posting" /\ c.job \in Jobs
  BY <1>5 DEF NoChain, Chain
<1>7. PICK pg : pg = Submitting(p)
  OBVIOUS
<1>8. /\ pg \in Page /\ pg.pollId = t /\ ~pg.enabled
      /\ pg.banner = "submitting" /\ pg.view = NoReport
  <2>1. page[p] = [pollId |-> page[p].pollId, enabled |-> page[p].enabled,
                   banner |-> page[p].banner, job |-> page[p].job, view |-> page[p].view]
    BY <1>2 DEF Page
  <2>2. pg = [pollId |-> page[p].pollId + 1, enabled |-> FALSE, banner |-> "submitting",
              job |-> NoJob, view |-> NoReport]
    BY <1>7, <2>1 DEF Submitting
  <2> QED
    BY <2>2, <1>3, <1>4 DEF Page
<1>9. PICK cs \in [Tokens -> Chain] : cs = [chain[p] EXCEPT ![t] = c]
  BY <1>2, <1>6
<1>10. /\ cs[t] = c /\ \A u \in Tokens : u # t => cs[u].pc = "over"
  BY <1>1, <1>2, <1>9 DEF OneChain
<1>11. /\ chain' = [chain EXCEPT ![p] = cs]
       /\ page' = [page EXCEPT ![p] = pg]
       /\ serving' = serving /\ UNCHANGED lifecycleVars
  <2>1. chain' = [chain EXCEPT ![p][t] = c]
    BY <1>1, <1>4, <1>5
  <2>2. chain' = [chain EXCEPT ![p] = cs]
    BY <2>1, <1>9
  <2>3. page' = [page EXCEPT ![p] = pg]
    BY <1>1, <1>7
  <2> QED
    BY <2>2, <2>3 DEF PressSubmit
<1>12. PageInv(pg, cs)'
  <2>1. PageIsTrue(pg)'
    BY <1>8 DEF PageIsTrue
  <2>2. OneChain(pg, cs)
    BY <1>6, <1>8, <1>10 DEF OneChain
  <2>3. ~Begun(c) /\ ~Polls(c)
    BY <1>6 DEF Begun, Polls
  <2>4. ChainIsTrue(c, pg)'
    BY <1>6, <2>3 DEF ChainIsTrue, Begun, Polls
  <2>5. \A u \in Tokens : ChainIsTrue(cs[u], pg)'
    BY <1>10, <2>4 DEF ChainIsTrue
  <2> QED
    BY <1>8, <2>1, <2>2, <2>5 DEF PageInv, OneChain
<1> QED
  BY <1>8, <1>11, <1>12, JobsStay, OnePageChanges DEF ClientInv

LEMMA ReloadKeepsInv ==
    ASSUME ClientInv, NEW p \in Pages, Reload(p)
    PROVE  ClientInv'
<1>1. PICK pg : pg = NewPage
  OBVIOUS
<1>2. pg \in Page /\ pg.banner = "none" /\ pg.view = NoReport /\ pg.enabled
  BY <1>1, PagesAssumption DEF NewPage, Page
<1>3. PICK cs \in [Tokens -> Chain] : cs = [t \in Tokens |-> NoChain]
  BY NoChainIsAChain
<1>4. \A t \in Tokens : cs[t].pc = "over"
  BY <1>3 DEF NoChain
<1>5. PageInv(pg, cs)'
  BY <1>2, <1>4 DEF PageInv, PageIsTrue, OneChain, ChainIsTrue
<1>6. /\ page' = [page EXCEPT ![p] = pg] /\ chain' = [chain EXCEPT ![p] = cs]
      /\ serving' = serving /\ UNCHANGED lifecycleVars
  BY <1>1, <1>3 DEF Reload, responseFrame
<1> QED
  BY <1>2, <1>5, <1>6, JobsStay, OnePageChanges DEF ClientInv

\* What a page may make of an answer: pg is shown, and next is left of the
\* chain.
LEMMA AnswerKeepsInv ==
    ASSUME ClientInv, NEW p \in Pages, NEW t \in Tokens, chain[p][t].pc = "answered",
           UNCHANGED responseFrame,
           NEW pg \in Page, NEW next \in Chain, pg.pollId = page[p].pollId,
           page' = [page EXCEPT ![p] = pg], chain' = [chain EXCEPT ![p][t] = next],
           PageIsTrue(pg), ChainIsTrue(next, pg),
           IF next.pc = "over" THEN pg.enabled \/ pg.banner = "lost" ELSE ~pg.enabled
    PROVE  ClientInv'
<1>1. MovesOn /\ serving' \in Jobs \cup {NoJob}
  BY JobsStay DEF ClientInv, responseFrame
<1>2. PageIsTrue(pg)' /\ ChainIsTrue(next, pg)'
  BY DEF PageIsTrue, ChainIsTrue, responseFrame, lifecycleVars
<1> QED
  BY <1>1, <1>2, LiveChainMoves

\* The end of a chain.
LEMMA NoChainIsTrue == ASSUME NEW pg PROVE ChainIsTrue(NoChain, pg) /\ NoChain.pc = "over"
BY DEF ChainIsTrue, NoChain

LEMMA ShownIsAPage ==
    ASSUME ClientInv, NEW p \in Pages,
           NEW b \in {"none", "submitting", "running", "error", "lost"} \cup FinalStatus,
           NEW e \in BOOLEAN
    PROVE  /\ Shown(p, b, e) \in Page
           /\ Shown(p, b, e).banner = b /\ Shown(p, b, e).enabled = e
           /\ Shown(p, b, e).pollId = page[p].pollId
           /\ Shown(p, b, e).job = page[p].job
           /\ Shown(p, b, e).view = page[p].view
<1>1. page[p] \in Page
  BY DEF ClientInv
<1> QED
  BY <1>1 DEF Page, Shown, FinalStatus

\* A live chain is its page's current one, so that what IfCurrent guards is
\* what happens.
LEMMA CurrentAnswer ==
    ASSUME ClientInv, NEW p \in Pages, NEW t \in Tokens, chain[p][t].pc = "answered",
           NEW pg, NEW next, IfCurrent(p, t, pg, next)
    PROVE  /\ page' = [page EXCEPT ![p] = pg] /\ chain' = [chain EXCEPT ![p][t] = next]
           /\ UNCHANGED responseFrame
<1>1. page[p].pollId = t
  BY LiveChain
<1> QED
  BY <1>1 DEF IfCurrent

\* The chain ends, the button comes back, and no report is shown.
LEMMA EndingKeepsInv ==
    ASSUME ClientInv, NEW p \in Pages, NEW t \in Tokens, chain[p][t].pc = "answered",
           NEW b \in {"error", "failed"}, IfCurrent(p, t, Shown(p, b, TRUE), NoChain)
    PROVE  ClientInv'
<1>1. PICK pg : pg = Shown(p, b, TRUE)
  OBVIOUS
<1>2. /\ pg \in Page /\ pg.banner = b /\ pg.enabled /\ pg.pollId = page[p].pollId
      /\ pg.view = page[p].view
  BY <1>1, ShownIsAPage DEF FinalStatus
<1>3. page[p].view = NoReport
  BY LiveChain DEF PageIsTrue
<1>4. PageIsTrue(pg)
  BY <1>2, <1>3 DEF PageIsTrue
<1>5. PICK next \in Chain : next = NoChain
  BY NoChainIsAChain
<1>6. ChainIsTrue(next, pg) /\ next.pc = "over"
  BY <1>5, NoChainIsTrue
<1>7. /\ page' = [page EXCEPT ![p] = pg] /\ chain' = [chain EXCEPT ![p][t] = next]
      /\ UNCHANGED responseFrame
  <2>1. IfCurrent(p, t, pg, next)
    BY <1>1, <1>5
  <2> QED
    BY <2>1, CurrentAnswer
<1> QED
  BY <1>2, <1>4, <1>6, <1>7, AnswerKeepsInv

LEMMA LostKeepsInv ==
    ASSUME ClientInv, NEW p \in Pages, NEW t \in Tokens, LostAnswer(p, t)
    PROVE  ClientInv'
<1>1. chain[p][t].pc = "answered" /\ UNCHANGED responseFrame
  BY DEF LostAnswer, Answered
<1>2. PICK pg : pg = IF chain[p][t].first THEN Shown(p, "error", TRUE)
                     ELSE Shown(p, "lost", page[p].enabled)
  OBVIOUS
<1>3. page[p].enabled \in BOOLEAN /\ page[p].view = NoReport
  BY <1>1, LiveChain DEF Page, PageIsTrue
<1>4. /\ pg \in Page /\ pg.pollId = page[p].pollId /\ pg.view = NoReport
      /\ pg.banner \in {"error", "lost"}
      /\ pg.enabled \/ pg.banner = "lost"
  <2>1. CASE chain[p][t].first
    <3>1. pg = Shown(p, "error", TRUE)
      BY <2>1, <1>2
    <3> QED
      BY <3>1, <1>3, ShownIsAPage
  <2>2. CASE ~chain[p][t].first
    <3>1. pg = Shown(p, "lost", page[p].enabled)
      BY <2>2, <1>2
    <3> QED
      BY <3>1, <1>3, ShownIsAPage
  <2> QED
    BY <2>1, <2>2
<1>5. PICK next \in Chain : next = NoChain
  BY NoChainIsAChain
<1>6. ChainIsTrue(next, pg) /\ next.pc = "over" /\ PageIsTrue(pg)
  BY <1>4, <1>5, NoChainIsTrue DEF PageIsTrue
<1>7. page' = [page EXCEPT ![p] = pg] /\ chain' = [chain EXCEPT ![p][t] = next]
  BY <1>2, <1>5 DEF LostAnswer
<1> QED
  BY <1>1, <1>4, <1>6, <1>7, AnswerKeepsInv

LEMMA AcceptedKeepsInv ==
    ASSUME ClientInv, NEW p \in Pages, NEW t \in Tokens, AcceptedAnswer(p, t)
    PROVE  ClientInv'
<1>1. chain[p][t].pc = "answered" /\ chain[p][t].answer = "accepted"
  BY DEF AcceptedAnswer, Answered
<1>2. PICK c : c = chain[p][t]
  OBVIOUS
<1>3. PICK old : old = page[p]
  OBVIOUS
<1>4. /\ old \in Page /\ c \in Chain /\ PageIsTrue(old) /\ ChainIsTrue(c, old)
      /\ ~old.enabled /\ old.banner # "completed"
  BY <1>1, <1>2, <1>3, LiveChain
<1>5. c.job \in Jobs /\ status[c.job] # "absent"
  BY <1>1, <1>2, <1>4 DEF ChainIsTrue, Begun
<1>6. PICK pg : pg = [old EXCEPT !.job = c.job]
  OBVIOUS
<1>7. /\ pg \in Page /\ pg.job = c.job /\ pg.pollId = old.pollId /\ ~pg.enabled
      /\ pg.banner = old.banner /\ pg.view = old.view
  BY <1>4, <1>5, <1>6 DEF Page
<1>8. PICK next : next = [c EXCEPT !.pc = "asking", !.first = TRUE, !.answer = "none"]
  OBVIOUS
<1>9. next \in Chain /\ next.pc = "asking" /\ next.job = c.job
  BY <1>4, <1>8 DEF Chain
<1>10. ChainIsTrue(next, pg)
  BY <1>5, <1>7, <1>9 DEF ChainIsTrue
<1>11. PageIsTrue(pg)
  BY <1>4, <1>7 DEF PageIsTrue
<1>12. /\ page' = [page EXCEPT ![p] = pg] /\ chain' = [chain EXCEPT ![p][t] = next]
       /\ UNCHANGED responseFrame
  BY <1>1, <1>2, <1>3, <1>6, <1>8, CurrentAnswer DEF AcceptedAnswer, Asking
<1> QED
  BY <1>1, <1>3, <1>7, <1>9, <1>10, <1>11, <1>12, AnswerKeepsInv

LEMMA CompletedKeepsInv ==
    ASSUME ClientInv, NEW p \in Pages, NEW t \in Tokens, CompletedAnswer(p, t)
    PROVE  ClientInv'
<1>1. chain[p][t].pc = "answered" /\ chain[p][t].answer = "completed"
  BY DEF CompletedAnswer, Answered
<1>2. PICK c : c = chain[p][t]
  OBVIOUS
<1>3. PICK old : old = Shown(p, "completed", TRUE)
  OBVIOUS
<1>4. /\ old \in Page /\ old.banner = "completed" /\ old.enabled
      /\ old.pollId = page[p].pollId /\ old.job = page[p].job
  BY <1>3, ShownIsAPage DEF FinalStatus
<1>5. /\ c.job \in Jobs /\ status[c.job] = "completed" /\ c.report = report[c.job]
      /\ page[p].job = c.job
  BY <1>1, <1>2, LiveChain DEF ChainIsTrue, Polls, Statuses, FinalStatus
<1>6. c.report \in Reports /\ c.report # NoReport
  BY <1>5, PagesAssumption DEF ClientInv, StoreIsTrue
<1>7. PICK pg : pg = [old EXCEPT !.view = c.report]
  OBVIOUS
<1>8. /\ pg \in Page /\ pg.banner = "completed" /\ pg.enabled /\ pg.pollId = page[p].pollId
      /\ pg.job = c.job /\ pg.view = report[c.job]
  BY <1>4, <1>5, <1>6, <1>7 DEF Page
<1>9. PageIsTrue(pg)
  BY <1>5, <1>8 DEF PageIsTrue
<1>10. PICK next \in Chain : next = NoChain
  BY NoChainIsAChain
<1>11. ChainIsTrue(next, pg) /\ next.pc = "over"
  BY <1>10, NoChainIsTrue
<1>12. IfCurrent(p, t, pg, next)
  BY <1>2, <1>3, <1>6, <1>7, <1>10 DEF CompletedAnswer
<1>13. /\ page' = [page EXCEPT ![p] = pg] /\ chain' = [chain EXCEPT ![p][t] = next]
       /\ UNCHANGED responseFrame
  BY <1>1, <1>12, CurrentAnswer
<1> QED
  BY <1>1, <1>8, <1>9, <1>11, <1>13, AnswerKeepsInv

LEMMA RunningKeepsInv ==
    ASSUME ClientInv, NEW p \in Pages, NEW t \in Tokens, RunningAnswer(p, t)
    PROVE  ClientInv'
<1>1. chain[p][t].pc = "answered" /\ chain[p][t].answer \in Statuses
  BY DEF RunningAnswer, Answered
<1>2. PICK c : c = chain[p][t]
  OBVIOUS
<1>3. /\ c \in Chain /\ ChainIsTrue(c, page[p]) /\ page[p].enabled = FALSE
      /\ page[p].view = NoReport
  BY <1>1, <1>2, LiveChain DEF PageIsTrue, Page
<1>4. PICK pg : pg = Shown(p, "running", FALSE)
  OBVIOUS
<1>5. /\ pg \in Page /\ pg.banner = "running" /\ ~pg.enabled /\ pg.pollId = page[p].pollId
      /\ pg.job = page[p].job /\ pg.view = NoReport
  BY <1>3, <1>4, ShownIsAPage
<1>6. PICK next : next = [c EXCEPT !.pc = "waiting"]
  OBVIOUS
<1>7. next \in Chain /\ next.pc = "waiting" /\ next.job = c.job
  BY <1>3, <1>6 DEF Chain
<1>8. c.job \in Jobs /\ status[c.job] # "absent" /\ page[p].job = c.job
  <2>1. c.pc # "over" /\ Polls(c) /\ Begun(c)
    BY <1>1, <1>2 DEF Begun, Polls
  <2> QED
    BY <1>3, <2>1 DEF ChainIsTrue
<1>9. ChainIsTrue(next, pg) /\ PageIsTrue(pg)
  BY <1>5, <1>7, <1>8 DEF ChainIsTrue, PageIsTrue
<1>10. IfCurrent(p, t, pg, next)
  BY <1>2, <1>3, <1>4, <1>6 DEF RunningAnswer
<1>11. /\ page' = [page EXCEPT ![p] = pg] /\ chain' = [chain EXCEPT ![p][t] = next]
       /\ UNCHANGED responseFrame
  BY <1>1, <1>10, CurrentAnswer
<1> QED
  BY <1>1, <1>5, <1>7, <1>9, <1>11, AnswerKeepsInv

LEMMA PageStepKeepsInv ==
    ASSUME ClientInv, NEW p \in Pages, NEW t \in Tokens, PageStep(p, t)
    PROVE  ClientInv'
<1>1. CASE LostAnswer(p, t)
  BY <1>1, LostKeepsInv
<1>2. CASE AcceptedAnswer(p, t)
  BY <1>2, AcceptedKeepsInv
<1>3. CASE ErrorAnswer(p, t)
  BY <1>3, EndingKeepsInv DEF ErrorAnswer, Answered
<1>4. CASE CompletedAnswer(p, t)
  BY <1>4, CompletedKeepsInv
<1>5. CASE FailedAnswer(p, t)
  BY <1>5, EndingKeepsInv DEF FailedAnswer, Answered
<1>6. CASE RunningAnswer(p, t)
  BY <1>6, RunningKeepsInv
<1>7. CASE TimerFires(p, t)
  <2>1. PICK c : c = chain[p][t]
    OBVIOUS
  <2>2. PICK pg : pg = page[p]
    OBVIOUS
  <2>3. /\ c.pc = "waiting" /\ c \in Chain /\ ChainIsTrue(c, pg) /\ PageIsTrue(pg)
        /\ pg \in Page /\ ~pg.enabled
    BY <1>7, <2>1, <2>2, LiveChain DEF TimerFires
  <2>4. PICK next : next = [c EXCEPT !.pc = "asking", !.first = FALSE, !.answer = "none"]
    OBVIOUS
  <2>5. next \in Chain /\ next.pc = "asking" /\ next.job = c.job
    BY <2>3, <2>4 DEF Chain
  <2>6. /\ page' = [page EXCEPT ![p] = pg] /\ chain' = [chain EXCEPT ![p][t] = next]
        /\ UNCHANGED lifecycleVars /\ serving' = serving
    BY <1>7, <2>1, <2>2, <2>4 DEF TimerFires, Asking, responseFrame, ClientInv
  <2>7. Begun(c) /\ Polls(c)
    BY <2>3 DEF Begun, Polls
  <2>8. c.job \in Jobs /\ status[c.job] # "absent" /\ pg.job = c.job
    BY <2>3, <2>7 DEF ChainIsTrue
  <2>9. PageIsTrue(pg)' /\ ChainIsTrue(next, pg)'
    BY <2>3, <2>5, <2>6, <2>8 DEF PageIsTrue, ChainIsTrue, lifecycleVars
  <2> QED
    BY <2>1, <2>2, <2>3, <2>5, <2>6, <2>9, JobsStay, LiveChainMoves DEF ClientInv
<1> QED
  BY <1>1, <1>2, <1>3, <1>4, <1>5, <1>6, <1>7 DEF PageStep

-----------------------------------------------------------------------------
(* Requests.                                                               *)

\* A request of a live chain comes this far: the page is as before, and next
\* is what the chain has become.
LEMMA RequestMovesOn ==
    ASSUME ClientInv, MovesOn, serving' \in Jobs \cup {NoJob}, page' = page,
           NEW p \in Pages, NEW t \in Tokens, chain[p][t].pc # "over",
           NEW next \in Chain, next.pc # "over",
           chain' = [chain EXCEPT ![p][t] = next],
           ChainIsTrue(next, page[p])'
    PROVE  ClientInv'
<1>1. PICK pg : pg = page[p]
  OBVIOUS
<1>2. pg \in Page /\ PageIsTrue(pg) /\ ~pg.enabled /\ pg.banner # "completed"
  BY <1>1, LiveChain
<1>3. PageIsTrue(pg)'
  BY <1>2 DEF PageIsTrue
<1>4. page' = [page EXCEPT ![p] = pg] /\ page'[p] = pg
  BY <1>1 DEF ClientInv
<1>5. ChainIsTrue(next, pg)'
  BY <1>4
<1> QED
  BY <1>1, <1>2, <1>3, <1>4, <1>5, LiveChainMoves

\* An answer that says nothing of the job's record.
LEMMA PlainAnswerKeepsInv ==
    ASSUME ClientInv, NEW p \in Pages, NEW t \in Tokens, chain[p][t].pc # "over",
           NEW a \in {"error", "dropped"}, Answer(p, t, a),
           UNCHANGED <<lifecycleVars, page, serving>>
    PROVE  ClientInv'
<1>1. PICK c : c = chain[p][t]
  OBVIOUS
<1>2. c \in Chain /\ ChainIsTrue(c, page[p]) /\ c.pc # "over"
  BY <1>1, LiveChain
<1>3. PICK next : next = [c EXCEPT !.pc = "answered", !.answer = a]
  OBVIOUS
<1>4. next \in Chain /\ next.pc = "answered" /\ next.answer = a /\ next.job = c.job
  BY <1>2, <1>3 DEF Chain
<1>5. chain' = [chain EXCEPT ![p][t] = next]
  BY <1>1, <1>3 DEF Answer, ClientInv
<1>6. ~Begun(next) /\ ~Polls(next)
  BY <1>4 DEF Begun, Polls, Statuses, FinalStatus
<1>7. ChainIsTrue(next, page[p])'
  BY <1>2, <1>4, <1>6 DEF ChainIsTrue, Begun, Polls
<1> QED
  BY <1>1, <1>2, <1>4, <1>5, <1>7, JobsStay, RequestMovesOn DEF ClientInv

LEMMA TakePostKeepsInv ==
    ASSUME ClientInv, NEW p \in Pages, NEW t \in Tokens, TakePost(p, t)
    PROVE  ClientInv'
<1>1. CASE Answer(p, t, "error") /\ UNCHANGED <<lifecycleVars, serving>>
  BY <1>1, PlainAnswerKeepsInv DEF TakePost
<1>2. CASE /\ Submit(chain[p][t].job) /\ serving' = chain[p][t].job
           /\ chain' = [chain EXCEPT ![p][t].pc = "served"]
  <2>1. PICK c : c = chain[p][t]
    OBVIOUS
  <2>2. c \in Chain /\ ChainIsTrue(c, page[p]) /\ c.pc = "posting" /\ page' = page
    BY <2>1, LiveChain DEF TakePost
  <2>3. c.job \in Jobs
    BY <2>2 DEF ChainIsTrue
  <2>4. MovesOn /\ status'[c.job] # "absent"
    <3>1. StoreIsTrue
      BY DEF ClientInv
    <3>2. MovesOn
      BY <1>2, <2>1, <2>3, <3>1, JobsMoveOn
    <3>3. status'[c.job] = "analyzing"
      BY <1>2, <2>1, <2>3, <3>1 DEF Submit, MoveTo, StoreIsTrue
    <3> QED
      BY <3>2, <3>3
  <2>5. PICK next : next = [c EXCEPT !.pc = "served"]
    OBVIOUS
  <2>6. next \in Chain /\ next.pc = "served" /\ next.job = c.job
    BY <2>2, <2>5 DEF Chain
  <2>7. chain' = [chain EXCEPT ![p][t] = next]
    BY <1>2, <2>1, <2>5 DEF ClientInv
  <2>8. ~Polls(next)
    BY <2>6 DEF Polls
  <2>9. ChainIsTrue(next, page[p])'
    BY <2>3, <2>4, <2>6, <2>8 DEF ChainIsTrue, Begun, Polls
  <2> QED
    BY <1>2, <2>1, <2>2, <2>3, <2>4, <2>6, <2>7, <2>9, RequestMovesOn
<1> QED
  BY <1>1, <1>2 DEF TakePost

LEMMA GetJobKeepsInv ==
    ASSUME ClientInv, NEW p \in Pages, NEW t \in Tokens, GetJob(p, t)
    PROVE  ClientInv'
<1>1. PICK c : c = chain[p][t]
  OBVIOUS
<1>2. c \in Chain /\ ChainIsTrue(c, page[p]) /\ c.pc \in {"asking", "read"}
  BY <1>1, LiveChain DEF GetJob
<1>3. /\ c.job \in Jobs /\ status[c.job] # "absent" /\ page[p].job = c.job
      /\ c.pc = "read" => status[c.job] = "completed"
  BY <1>2 DEF ChainIsTrue, Begun, Polls
<1>4. /\ StoreIsTrue /\ MovesOn /\ serving' \in Jobs \cup {NoJob}
      /\ UNCHANGED lifecycleVars /\ page' = page
  BY JobsStay DEF GetJob, ClientInv
<1>5. status[c.job] \in Statuses /\ report[c.job] \in Reports \cup {NoReport}
  BY <1>3, <1>4 DEF StoreIsTrue
<1>6. CASE status[c.job] = "completed" /\ chain' = [chain EXCEPT ![p][t].pc = "read"]
  <2>1. PICK next : next = [c EXCEPT !.pc = "read"]
    OBVIOUS
  <2>2. next \in Chain /\ next.pc = "read" /\ next.job = c.job
    BY <1>2, <2>1 DEF Chain
  <2>3. chain' = [chain EXCEPT ![p][t] = next]
    BY <1>1, <1>6, <2>1 DEF ClientInv
  <2>4. ChainIsTrue(next, page[p])'
    BY <1>3, <1>4, <1>6, <2>2 DEF ChainIsTrue, lifecycleVars
  <2> QED
    BY <1>1, <1>2, <1>4, <2>2, <2>3, <2>4, RequestMovesOn
<1>7. CASE status[c.job] # "completed" /\ Answer(p, t, status[c.job])
  <2>1. PICK next : next = [c EXCEPT !.pc = "answered", !.answer = status[c.job]]
    OBVIOUS
  <2>2. /\ next \in Chain /\ next.pc = "answered" /\ next.answer = status[c.job]
        /\ next.job = c.job
    BY <1>2, <1>5, <2>1 DEF Chain
  <2>3. chain' = [chain EXCEPT ![p][t] = next]
    BY <1>1, <1>7, <2>1 DEF Answer, ClientInv
  <2>4. ChainIsTrue(next, page[p])'
    BY <1>3, <1>4, <1>7, <2>2 DEF ChainIsTrue, lifecycleVars
  <2> QED
    BY <1>1, <1>2, <1>4, <2>2, <2>3, <2>4, RequestMovesOn
<1>8. CASE /\ c.pc = "read"
           /\ chain' = [chain EXCEPT ![p][t] =
                          [@ EXCEPT !.pc = "answered", !.answer = "completed",
                                    !.report = report[chain[p][t].job]]]
  <2>1. PICK next : next = [c EXCEPT !.pc = "answered", !.answer = "completed",
                                     !.report = report[c.job]]
    OBVIOUS
  <2>2. /\ next \in Chain /\ next.pc = "answered" /\ next.answer = "completed"
        /\ next.job = c.job /\ next.report = report[c.job]
    BY <1>2, <1>5, <2>1 DEF Chain, Statuses, FinalStatus
  <2>3. chain' = [chain EXCEPT ![p][t] = next]
    BY <1>1, <1>8, <2>1 DEF ClientInv
  <2>4. ChainIsTrue(next, page[p])'
    BY <1>3, <1>4, <1>8, <2>2 DEF ChainIsTrue, lifecycleVars
  <2> QED
    BY <1>1, <1>2, <1>4, <2>2, <2>3, <2>4, RequestMovesOn
<1> QED
  BY <1>1, <1>6, <1>7, <1>8 DEF GetJob

\* The POST of job j ends: the chain that waits for it, if any, is answered.
LEMMA FinishPostKeepsInv ==
    ASSUME ClientInv, NEW j \in Jobs, FinishPost(j)
    PROVE  ClientInv'
<1>1. PICK a \in {"accepted", "error"} : AnswerPost(j, a)
  BY DEF FinishPost
<1>2. MovesOn
  BY JobsMoveOn, JobsStay DEF FinishPost, ClientInv
<1>3. ASSUME NEW c \in Chain, NEW pg, ChainIsTrue(c, pg), c.pc = "served",
             NEW next, next = [c EXCEPT !.pc = "answered", !.answer = a]
      PROVE  next \in Chain /\ next.pc = "answered" /\ ChainIsTrue(next, pg)'
  <2>1. next \in Chain /\ next.pc = "answered" /\ next.answer = a /\ next.job = c.job
    BY <1>3 DEF Chain
  <2>2. ~Polls(next)
    BY <2>1 DEF Polls, Statuses, FinalStatus
  <2>3. c.job \in Jobs /\ status[c.job] # "absent"
    BY <1>3 DEF ChainIsTrue, Begun
  <2> QED
    BY <2>1, <2>2, <2>3, <1>2 DEF ChainIsTrue, MovesOn, Begun, Polls
<1>4. ASSUME NEW p \in Pages
      PROVE  PageInv(page[p], chain[p])' /\ chain'[p] \in [Tokens -> Chain]
  <2>1. PICK pg, cs : pg = page[p] /\ cs = chain[p]
    OBVIOUS
  <2>2. PageInv(pg, cs)
    BY <2>1 DEF ClientInv
  <2>3. PICK cs2 : cs2 = [t \in Tokens |->
                            IF cs[t].pc = "served" /\ cs[t].job = j
                            THEN [cs[t] EXCEPT !.pc = "answered", !.answer = a] ELSE cs[t]]
    OBVIOUS
  <2>4. page'[p] = pg /\ chain'[p] = cs2
    BY <1>1, <2>1, <2>3 DEF FinishPost, AnswerPost
  <2>5. ASSUME NEW t \in Tokens
        PROVE  /\ cs2[t] \in Chain /\ ChainIsTrue(cs2[t], pg)'
               /\ cs2[t].pc = "over" <=> cs[t].pc = "over"
    <3>1. cs[t] \in Chain /\ ChainIsTrue(cs[t], pg)
      BY <2>2 DEF PageInv
    <3>2. CASE cs[t].pc = "served" /\ cs[t].job = j
      <4>1. PICK c : c = cs[t]
        OBVIOUS
      <4>2. PICK next : next = [c EXCEPT !.pc = "answered", !.answer = a]
        OBVIOUS
      <4>3. cs2[t] = next
        BY <2>3, <3>2, <4>1, <4>2
      <4>4. next \in Chain /\ next.pc = "answered" /\ ChainIsTrue(next, pg)'
        BY <3>1, <3>2, <4>1, <4>2, <1>3
      <4> QED
        BY <3>2, <4>3, <4>4
    <3>3. CASE ~(cs[t].pc = "served" /\ cs[t].job = j)
      <4>1. cs2[t] = cs[t]
        BY <2>3, <3>3
      <4>2. ChainIsTrue(cs[t], pg)'
        BY <2>2, <1>2, PagesStayTrue DEF ClientInv, PageInv
      <4> QED
        BY <3>1, <4>1, <4>2
    <3> QED
      BY <3>2, <3>3
  <2>6. cs2 \in [Tokens -> Chain]
    BY <2>3, <2>5
  <2>7. pg \in Page /\ PageIsTrue(pg)' /\ OneChain(pg, cs)
    BY <2>2, <1>2, PagesStayTrue DEF ClientInv, PageInv
  <2>8. OneChain(pg, cs2)
    BY <2>5, <2>7 DEF OneChain
  <2>9. PageInv(pg, cs2)'
    BY <2>5, <2>6, <2>7, <2>8 DEF PageInv, OneChain
  <2> QED
    BY <2>4, <2>6, <2>9
<1>5. chain' \in [Pages -> [Tokens -> Chain]]
  <2>1. \A p \in Pages : chain'[p] \in [Tokens -> Chain]
    BY <1>4
  <2>2. chain' = [p \in Pages |-> chain'[p]]
    BY <1>1 DEF AnswerPost
  <2> QED
    BY <2>1, <2>2
<1>6. page' = page /\ serving' = NoJob
  BY DEF FinishPost
<1> QED
  BY <1>2, <1>4, <1>5, <1>6 DEF ClientInv, MovesOn

\* Only the store moves on.
LEMMA ElsewhereKeepsInv ==
    ASSUME ClientInv, MovesOn, UNCHANGED clientVars
    PROVE  ClientInv'
<1>1. page' = page /\ chain' = chain /\ serving' = serving
  BY DEF clientVars
<1>2. ASSUME NEW p \in Pages
      PROVE  PageInv(page[p], chain[p])'
  <2>1. PICK pg, cs : pg = page[p] /\ cs = chain[p]
    OBVIOUS
  <2>2. PageInv(pg, cs)'
    BY <2>1, PagesStayTrue DEF ClientInv
  <2> QED
    BY <1>1, <2>1, <2>2
<1> QED
  BY <1>1, <1>2 DEF ClientInv, MovesOn

LEMMA NextKeepsInv == ClientInv /\ [Next]_vars => ClientInv'
<1> SUFFICES ASSUME ClientInv, [Next]_vars PROVE ClientInv'
  OBVIOUS
<1>1. CASE \E p \in Pages : PressSubmit(p)
  BY <1>1, PressSubmitKeepsInv
<1>2. CASE \E p \in Pages : Reload(p)
  BY <1>2, ReloadKeepsInv
<1>3. CASE \E p \in Pages, t \in Tokens : PageStep(p, t)
  BY <1>3, PageStepKeepsInv
<1>4. CASE \E p \in Pages, t \in Tokens : TakePost(p, t)
  BY <1>4, TakePostKeepsInv
<1>5. CASE \E p \in Pages, t \in Tokens : GetJob(p, t)
  BY <1>5, GetJobKeepsInv
<1>6. CASE \E p \in Pages, t \in Tokens : RequestFails(p, t)
  BY <1>6, PlainAnswerKeepsInv DEF RequestFails
<1>7. CASE \E p \in Pages, t \in Tokens : DropRequest(p, t)
  BY <1>7, PlainAnswerKeepsInv DEF DropRequest
<1>8. CASE \E j \in Jobs : FinishPost(j)
  BY <1>8, FinishPostKeepsInv
<1>9. CASE \E j \in Jobs : Elsewhere(j)
  BY <1>9, JobsMoveOn, ElsewhereKeepsInv DEF Elsewhere, ClientInv
<1>10. CASE UNCHANGED vars
  BY <1>10, JobsStay, ElsewhereKeepsInv DEF vars, ClientInv
<1> QED
  BY <1>1, <1>2, <1>3, <1>4, <1>5, <1>6, <1>7, <1>8, <1>9, <1>10 DEF Next

LEMMA InvAlways == Spec => []ClientInv
BY InitHolds, NextKeepsInv, PTL DEF Spec

-----------------------------------------------------------------------------
(* The theorems.                                                           *)

\* Pages, requests and records keep their types; in particular no poll is ever
\* answered for a job that does not exist (get_job's 404).
THEOREM PagesAreTyped == Spec => []TypeOK
BY InvGivesProperties, InvAlways, PTL

\* However many pages submit however often, at most the last submission of a
\* page is under way, and only while its button is disabled (app.js).
THEOREM PollsNeverRace == Spec => []OneChainAtATime
BY InvGivesProperties, InvAlways, PTL

\* A page that says completed shows the report stored for its job, although
\* record and report are read one after the other (get_job).
THEOREM PagesShowTheirReports == Spec => []CompletedShowsItsReport
BY InvGivesProperties, InvAlways, PTL

=============================================================================
