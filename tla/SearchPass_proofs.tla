-------------------------- MODULE SearchPass_proofs --------------------------
(***************************************************************************)
(* Theorems about SearchPass, for any queries, texts and workers and any   *)
(* number of faults.                                                       *)
(*                                                                         *)
(* PassInv says what a query's task means: which tasks are possible where  *)
(* the calling thread is (Placed), and that an answer held by a pass or    *)
(* stored in the cache is one to the right text (Held, CacheIsSound).      *)
(***************************************************************************)
EXTENDS SearchPass, FiniteSetTheorems, WellFoundedInduction, TLAPS

Held ==
    \A w \in Workers, q \in Queries :
        task[w][q] \in {"hit", "answered", "kept"}
          => hits[w][q] \in Answer /\ hits[w][q].text = TextOf[q]

CacheIsSound ==
    \A t \in Texts : cache[t] # NoAnswer => cache[t].text = t

PlacedAt(w, q) ==
    /\ q \in asked[w] <=> task[w][q] # "none"
    /\ pc[w] = "idle" => task[w][q] = "none"
    /\ pc[w] = "checking" => task[w][q] \in {"none", "unchecked", "hit", "queued"}
    /\ pc[w] \in {"waiting", "closing"} => task[w][q] # "unchecked"
    /\ pc[w] = "returned" => task[w][q] \in {"none", "hit", "kept"}
    /\ task[w][q] = "calling" => pc[w] \in {"waiting", "closing"}
Placed == \A w \in Workers, q \in Queries : PlacedAt(w, q)

\* AnswersAreKept, with the sets of texts in hand spelt out.
AboutToBeKept(t) ==
    \E w \in Workers, q \in Queries :
        pc[w] = "waiting" /\ task[w][q] = "answered" /\ TextOf[q] = t
Kept == \A t \in obtained : cache[t] # NoAnswer \/ AboutToBeKept(t)

PassInv == TypeOK /\ Held /\ CacheIsSound /\ Placed /\ Kept

-----------------------------------------------------------------------------
\* What a step does to one query leaves every other query as it was.
LEMMA MoveTaskEffect ==
  ASSUME task \in [Workers -> [Queries -> TaskState]],
         NEW w \in Workers, NEW q \in Queries, NEW from, NEW to \in TaskState,
         MoveTask(w, q, from, to)
  PROVE  /\ task[w][q] = from
         /\ task' \in [Workers -> [Queries -> TaskState]]
         /\ task'[w][q] = to
         /\ \A v \in Workers, r \in Queries : v # w \/ r # q => task'[v][r] = task[v][r]
BY DEF MoveTask

LEMMA HitsEffect ==
  ASSUME hits \in [Workers -> [Queries -> Answer \cup {NoAnswer}]],
         NEW w \in Workers, NEW q \in Queries, NEW a \in Answer \cup {NoAnswer},
         hits' = [hits EXCEPT ![w][q] = a]
  PROVE  /\ hits' \in [Workers -> [Queries -> Answer \cup {NoAnswer}]]
         /\ hits'[w][q] = a
         /\ \A v \in Workers, r \in Queries : v # w \/ r # q => hits'[v][r] = hits[v][r]
OBVIOUS

LEMMA CountEffect ==
  ASSUME counts \in [Workers -> [hit : Nat, miss : Nat, search : Nat]],
         NEW w \in Workers, NEW field \in {"hit", "miss", "search"}, Count(w, field)
  PROVE  /\ counts' \in [Workers -> [hit : Nat, miss : Nat, search : Nat]]
         /\ \A v \in Workers : v # w => counts'[v] = counts[v]
         /\ \A f \in {"hit", "miss", "search"} :
              counts'[w][f] = IF f = field THEN counts[w][f] + 1 ELSE counts[w][f]
BY DEF Count

LEMMA ForgetPassEffect ==
  ASSUME TypeOK, NEW w \in Workers, ForgetPass(w)
  PROVE  /\ pc' \in [Workers -> PassPc]
         /\ asked' \in [Workers -> SUBSET Queries]
         /\ task' \in [Workers -> [Queries -> TaskState]]
         /\ tries' \in [Workers -> [Queries -> 0..(MaxRetries - 1)]]
         /\ hits' \in [Workers -> [Queries -> Answer \cup {NoAnswer}]]
         /\ counts' \in [Workers -> [hit : Nat, miss : Nat, search : Nat]]
         /\ pc'[w] = "idle" /\ asked'[w] = {} /\ counts'[w] = NoCounts
         /\ \A q \in Queries : task'[w][q] = "none"
         /\ \A v \in Workers \ {w} :
              /\ pc'[v] = pc[v] /\ asked'[v] = asked[v] /\ counts'[v] = counts[v]
              /\ task'[v] = task[v] /\ hits'[v] = hits[v]
BY MaxRetriesAssumption DEF ForgetPass, TypeOK, PassPc, TaskState, NoCounts

-----------------------------------------------------------------------------
LEMMA InitTyped == Init => TypeOK
BY MaxRetriesAssumption, MaxFaultsAssumption DEF Init, TypeOK, PassPc, TaskState, NoCounts

LEMMA ThreadTyped ==
  ASSUME TypeOK, NEW w \in Workers,
         \/ StartPass(w) \/ PassStep(w) \/ LeavePass(w) \/ CheckRaises(w) \/ Crash(w)
         \/ \E q \in Queries : KeepHitsRaises(w, q)
  PROVE  TypeOK'
<1> USE MaxFaultsAssumption DEF TypeOK, passVars
<1>1. CASE StartPass(w)
  <2>1. PICK S \in QueryLists :
          /\ asked' = [asked EXCEPT ![w] = S]
          /\ task' = [task EXCEPT ![w] =
                        [q \in Queries |-> IF q \in S THEN "unchecked" ELSE "none"]]
    BY <1>1 DEF StartPass
  <2>2. asked' \in [Workers -> SUBSET Queries]
    BY <2>1, QueryListsAssumption
  <2>3. task' \in [Workers -> [Queries -> TaskState]]
    BY <2>1 DEF TaskState
  <2> QED
    BY <1>1, <2>2, <2>3 DEF StartPass, PassPc
<1>2. ASSUME NEW q \in Queries, CheckHit(w, q)
      PROVE  TypeOK'
  <2>1. cache[TextOf[q]] \in Answer \cup {NoAnswer}
    BY TextOfAssumption
  <2> QED
    BY <1>2, <2>1, MoveTaskEffect, HitsEffect, CountEffect DEF CheckHit, TaskState
<1>3. ASSUME NEW q \in Queries, CheckMiss(w, q)
      PROVE  TypeOK'
  BY <1>3, MoveTaskEffect, CountEffect DEF CheckMiss, TaskState
<1>4. ASSUME NEW q \in Queries, KeepHits(w, q)
      PROVE  TypeOK'
  BY <1>4, MoveTaskEffect, CountEffect, TextOfAssumption DEF KeepHits, TaskState
<1>5. ASSUME NEW q \in Queries, NoteFailure(w, q)
      PROVE  TypeOK'
  BY <1>5, MoveTaskEffect DEF NoteFailure, TaskState
<1>6. CASE OpenPool(w) \/ FinishPass(w) \/ ClosePool(w)
  BY <1>6 DEF OpenPool, FinishPass, ClosePool, PassPc
<1>7. CASE LeavePass(w)
  BY <1>7, ForgetPassEffect DEF LeavePass
<1>8. CASE CheckRaises(w)
  BY <1>8 DEF CheckRaises, Fault, PassPc
<1>9. CASE Crash(w)
  BY <1>9, ForgetPassEffect DEF Crash, Fault
<1>10. ASSUME NEW q \in Queries, KeepHitsRaises(w, q)
       PROVE  TypeOK'
  <2>1. cache' \in [Texts -> Answer \cup {NoAnswer}]
    BY <1>10, TextOfAssumption DEF KeepHitsRaises
  <2>2. pc' \in [Workers -> PassPc] /\ obtained' \in SUBSET Texts /\ faults' \in 0..MaxFaults
    BY <1>10 DEF KeepHitsRaises, Fault, PassPc
  <2> QED
    BY <1>10, <2>1, <2>2 DEF KeepHitsRaises
<1> QED
  BY <1>1, <1>2, <1>3, <1>4, <1>5, <1>6, <1>7, <1>8, <1>9, <1>10 DEF PassStep

LEMMA PoolTyped ==
  ASSUME TypeOK, NEW w \in Workers, PoolStep(w)
  PROVE  TypeOK'
<1> USE MaxRetriesAssumption DEF TypeOK, poolFrame
<1>1. ASSUME NEW q \in Queries, StartSearch(w, q)
      PROVE  TypeOK'
  BY <1>1, MoveTaskEffect DEF StartSearch, TaskState
<1>2. ASSUME NEW q \in Queries, ExaAnswers(w, q)
      PROVE  TypeOK'
  <2>1. PICK found \in HitLists :
          hits' = [hits EXCEPT ![w][q] = [text |-> TextOf[q], found |-> found]]
    BY <1>2 DEF ExaAnswers
  <2>2. [text |-> TextOf[q], found |-> found] \in Answer
    BY TextOfAssumption DEF Answer
  <2>3. hits' \in [Workers -> [Queries -> Answer \cup {NoAnswer}]]
    BY <2>1, <2>2, HitsEffect
  <2>4. obtained' \in SUBSET Texts
    BY <1>2, TextOfAssumption DEF ExaAnswers
  <2> QED
    BY <1>2, <2>3, <2>4, MoveTaskEffect DEF ExaAnswers, TaskState
<1>3. ASSUME NEW q \in Queries, ExaFails(w, q)
      PROVE  TypeOK'
  BY <1>3 DEF ExaFails
<1>4. ASSUME NEW q \in Queries, GiveUp(w, q)
      PROVE  TypeOK'
  BY <1>4, MoveTaskEffect DEF GiveUp, TaskState
<1> QED
  BY <1>1, <1>2, <1>3, <1>4 DEF PoolStep

LEMMA NextTyped == TypeOK /\ [Next]_vars => TypeOK'
<1>1. ASSUME TypeOK, NEW t \in Texts, Expire(t)
      PROVE  TypeOK'
  BY <1>1 DEF Expire, TypeOK, passVars
<1>2. ASSUME TypeOK, UNCHANGED vars
      PROVE  TypeOK'
  BY <1>2 DEF TypeOK, vars, passVars
<1> QED
  BY <1>1, <1>2, ThreadTyped, PoolTyped DEF Next

-----------------------------------------------------------------------------
LEMMA InitInv == Init => PassInv
<1> SUFFICES ASSUME Init  PROVE PassInv
  OBVIOUS
<1>1. TypeOK
  BY InitTyped
<1>2. Held
  BY DEF Init, Held
<1>3. CacheIsSound
  BY DEF Init, CacheIsSound
<1>4. Placed
  BY DEF Init, Placed, PlacedAt
<1>5. Kept
  BY DEF Init, Kept
<1> QED
  BY <1>1, <1>2, <1>3, <1>4, <1>5 DEF PassInv

\* Steps of a worker that end or begin its pass touch no answer of another.
LEMMA ForgetKeepsInv ==
  ASSUME PassInv, NEW w \in Workers, ForgetPass(w), UNCHANGED cache,
         obtained' \subseteq obtained,
         pc[w] = "waiting" => obtained' \cap InHand(w) = {}
  PROVE  Held' /\ CacheIsSound' /\ Placed' /\ Kept'
<1> USE DEF PassInv
<1>1. /\ pc'[w] = "idle" /\ asked'[w] = {}
      /\ \A q \in Queries : task'[w][q] = "none"
      /\ \A v \in Workers \ {w} : /\ pc'[v] = pc[v] /\ asked'[v] = asked[v]
                                  /\ task'[v] = task[v] /\ hits'[v] = hits[v]
  BY ForgetPassEffect
<1>2. Held'
  BY <1>1 DEF Held
<1>3. CacheIsSound'
  BY DEF CacheIsSound
<1>4. Placed'
  BY <1>1 DEF Placed, PlacedAt
<1>5. Kept'
  <2> SUFFICES ASSUME NEW t \in obtained', cache[t] = NoAnswer
               PROVE  AboutToBeKept(t)'
    BY DEF Kept
  <2>1. PICK v \in Workers, q \in Queries :
          pc[v] = "waiting" /\ task[v][q] = "answered" /\ TextOf[q] = t
    BY DEF Kept, AboutToBeKept
  <2>2. v # w
    BY <2>1 DEF InHand
  <2> QED
    BY <1>1, <2>1, <2>2 DEF AboutToBeKept
<1> QED
  BY <1>2, <1>3, <1>4, <1>5

\* An answer in hand is still there after another query's task has moved.
LEMMA MovingKeepsAnswers ==
  ASSUME NEW w \in Workers, NEW q \in Queries, task[w][q] # "answered", UNCHANGED pc,
         \A v \in Workers, r \in Queries : v # w \/ r # q => task'[v][r] = task[v][r],
         NEW t, AboutToBeKept(t)
  PROVE  AboutToBeKept(t)'
<1>1. PICK v \in Workers, r \in Queries :
        pc[v] = "waiting" /\ task[v][r] = "answered" /\ TextOf[r] = t
  BY DEF AboutToBeKept
<1>2. task'[v][r] = "answered" /\ pc'[v] = "waiting"
  BY <1>1
<1> QED
  BY <1>1, <1>2 DEF AboutToBeKept

\* Placed has to be checked only for the query that moves.
LEMMA MovingKeepsPlaces ==
  ASSUME Placed, NEW w \in Workers, NEW q \in Queries, NEW to,
         UNCHANGED <<pc, asked>>, task'[w][q] = to,
         \A v \in Workers, r \in Queries : v # w \/ r # q => task'[v][r] = task[v][r],
         task[w][q] # "none", to # "none", pc[w] \notin {"idle", "returned"},
         pc[w] = "checking" => to \in {"unchecked", "hit", "queued"},
         pc[w] \in {"waiting", "closing"} => to # "unchecked",
         to = "calling" => pc[w] \in {"waiting", "closing"}
  PROVE  Placed'
<1> SUFFICES ASSUME NEW v \in Workers, NEW r \in Queries  PROVE PlacedAt(v, r)'
  BY DEF Placed
<1>1. CASE v = w /\ r = q
  BY <1>1 DEF Placed, PlacedAt
<1>2. CASE v # w \/ r # q
  <2>1. task'[v][r] = task[v][r]
    BY <1>2
  <2> QED
    BY <2>1 DEF Placed, PlacedAt
<1> QED
  BY <1>1, <1>2

LEMMA CheckKeepsInv ==
  ASSUME PassInv, NEW w \in Workers, NEW q \in Queries, CheckHit(w, q) \/ CheckMiss(w, q)
  PROVE  Held' /\ CacheIsSound' /\ Placed' /\ Kept'
<1> USE DEF PassInv, TypeOK
<1>1. PICK to \in {"hit", "queued"} :
        /\ pc[w] = "checking" /\ task[w][q] = "unchecked"
        /\ MoveTask(w, q, "unchecked", to)
        /\ UNCHANGED <<pc, asked, cache, obtained>>
        /\ to = "queued" => UNCHANGED hits
        /\ to = "hit" => /\ cache[TextOf[q]] # NoAnswer
                         /\ hits' = [hits EXCEPT ![w][q] = cache[TextOf[q]]]
  BY DEF CheckHit, CheckMiss, MoveTask
<1>2. /\ task'[w][q] = to
      /\ \A v \in Workers, r \in Queries : v # w \/ r # q => task'[v][r] = task[v][r]
  BY <1>1, MoveTaskEffect DEF TaskState
<1>3. Held'
  <2>1. CASE to = "queued"
    BY <1>1, <1>2, <2>1 DEF Held
  <2>2. CASE to = "hit"
    <3>1. cache[TextOf[q]] \in Answer /\ cache[TextOf[q]].text = TextOf[q]
      BY <1>1, <2>2, TextOfAssumption DEF CacheIsSound
    <3>2. /\ hits'[w][q] = cache[TextOf[q]]
          /\ \A v \in Workers, r \in Queries : v # w \/ r # q => hits'[v][r] = hits[v][r]
      BY <1>1, <2>2, <3>1, HitsEffect
    <3> QED
      BY <1>2, <3>1, <3>2 DEF Held
  <2> QED
    BY <1>1, <2>1, <2>2
<1>4. CacheIsSound'
  BY <1>1 DEF CacheIsSound
<1>5. Placed'
  BY <1>1, <1>2, MovingKeepsPlaces
<1>6. Kept'
  BY <1>1, <1>2, MovingKeepsAnswers DEF Kept
<1> QED
  BY <1>3, <1>4, <1>5, <1>6

\* The pool moves tasks of an open pass and answers some.
LEMMA PoolKeepsInv ==
  ASSUME PassInv, NEW w \in Workers, PoolStep(w)
  PROVE  Held' /\ CacheIsSound' /\ Placed' /\ Kept'
<1> USE DEF PassInv, TypeOK
<1>1. PICK q \in Queries : StartSearch(w, q) \/ ExaAnswers(w, q) \/ ExaFails(w, q) \/ GiveUp(w, q)
  BY DEF PoolStep
<1>2. /\ pc[w] \in {"waiting", "closing"} /\ UNCHANGED <<pc, asked, cache>>
  BY <1>1 DEF StartSearch, ExaAnswers, ExaFails, GiveUp, PoolIsOpen, poolFrame
<1>3. CASE ExaFails(w, q)
  BY <1>2, <1>3 DEF ExaFails, Held, CacheIsSound, Placed, PlacedAt, Kept, AboutToBeKept
<1>4. CASE StartSearch(w, q) \/ GiveUp(w, q)
  <2>1. PICK from \in {"queued", "calling"}, to \in {"calling", "gaveup"} :
          MoveTask(w, q, from, to) /\ UNCHANGED <<hits, obtained>>
    BY <1>4 DEF StartSearch, GiveUp
  <2>2. /\ task[w][q] = from /\ task'[w][q] = to
        /\ \A v \in Workers, r \in Queries : v # w \/ r # q => task'[v][r] = task[v][r]
    BY <2>1, MoveTaskEffect DEF TaskState
  <2>3. Held' /\ CacheIsSound'
    BY <1>2, <2>1, <2>2 DEF Held, CacheIsSound
  <2>4. Placed'
    BY <1>2, <2>1, <2>2, MovingKeepsPlaces
  <2>5. Kept'
    BY <1>2, <2>1, <2>2, MovingKeepsAnswers DEF Kept
  <2> QED
    BY <2>3, <2>4, <2>5
<1>5. CASE ExaAnswers(w, q)
  <2>1. PICK found \in HitLists :
          hits' = [hits EXCEPT ![w][q] = [text |-> TextOf[q], found |-> found]]
    BY <1>5 DEF ExaAnswers
  <2> DEFINE a == [text |-> TextOf[q], found |-> found]
  <2>2. a \in Answer /\ a.text = TextOf[q]
    BY TextOfAssumption DEF Answer
  <2>3. hits' = [hits EXCEPT ![w][q] = a]
    BY <2>1
  <2> HIDE DEF a
  <2>4. /\ hits'[w][q] = a
        /\ \A v \in Workers, r \in Queries : v # w \/ r # q => hits'[v][r] = hits[v][r]
    BY <2>2, <2>3, HitsEffect
  <2>5. /\ task[w][q] = "calling" /\ task'[w][q] = "answered"
        /\ \A v \in Workers, r \in Queries : v # w \/ r # q => task'[v][r] = task[v][r]
    BY <1>5, MoveTaskEffect DEF ExaAnswers, TaskState
  <2>6. Held'
    BY <1>2, <2>2, <2>4, <2>5 DEF Held
  <2>7. CacheIsSound'
    BY <1>2 DEF CacheIsSound
  <2>8. Placed'
    BY <1>2, <2>5, MovingKeepsPlaces
  <2>9. Kept'
    <3> SUFFICES ASSUME NEW t \in obtained', cache[t] = NoAnswer
                 PROVE  AboutToBeKept(t)'
      BY <1>2 DEF Kept
    <3>1. CASE t \in obtained
      BY <1>2, <2>5, <3>1, MovingKeepsAnswers DEF Kept
    <3>2. CASE t \notin obtained
      BY <1>2, <1>5, <2>5, <3>2 DEF ExaAnswers, AboutToBeKept
    <3> QED
      BY <3>1, <3>2
  <2> QED
    BY <2>6, <2>7, <2>8, <2>9
<1> QED
  BY <1>1, <1>3, <1>4, <1>5

\* The calling thread collects the pool's results.
LEMMA CollectKeepsInv ==
  ASSUME PassInv, NEW w \in Workers, NEW q \in Queries, KeepHits(w, q) \/ NoteFailure(w, q)
  PROVE  Held' /\ CacheIsSound' /\ Placed' /\ Kept'
<1> USE DEF PassInv, TypeOK
<1>1. CASE NoteFailure(w, q)
  <2>1. /\ task[w][q] = "gaveup" /\ task'[w][q] = "failed"
        /\ \A v \in Workers, r \in Queries : v # w \/ r # q => task'[v][r] = task[v][r]
    BY <1>1, MoveTaskEffect DEF NoteFailure, TaskState
  <2>2. pc[w] = "waiting" /\ UNCHANGED <<pc, asked, hits, cache, obtained>>
    BY <1>1 DEF NoteFailure
  <2>3. Held' /\ CacheIsSound'
    BY <2>1, <2>2 DEF Held, CacheIsSound
  <2>4. Placed'
    BY <2>1, <2>2, MovingKeepsPlaces
  <2>5. Kept'
    BY <2>1, <2>2, MovingKeepsAnswers DEF Kept
  <2> QED
    BY <2>3, <2>4, <2>5
<1>2. CASE KeepHits(w, q)
  <2>1. /\ task[w][q] = "answered" /\ task'[w][q] = "kept"
        /\ \A v \in Workers, r \in Queries : v # w \/ r # q => task'[v][r] = task[v][r]
    BY <1>2, MoveTaskEffect DEF KeepHits, TaskState
  <2>2. /\ pc[w] = "waiting" /\ UNCHANGED <<pc, asked, hits, obtained>>
        /\ cache' = [cache EXCEPT ![TextOf[q]] = hits[w][q]]
    BY <1>2 DEF KeepHits
  <2>3. /\ hits[w][q] \in Answer /\ hits[w][q].text = TextOf[q]
        /\ cache'[TextOf[q]] = hits[w][q] /\ hits[w][q] # NoAnswer
        /\ \A t \in Texts : t # TextOf[q] => cache'[t] = cache[t]
    BY <2>1, <2>2, TextOfAssumption, NoAnswerAssumption DEF Held
  <2>4. Held'
    BY <2>1, <2>2, <2>3 DEF Held
  <2>5. CacheIsSound'
    BY <2>3 DEF CacheIsSound
  <2>6. Placed'
    BY <2>1, <2>2, MovingKeepsPlaces
  <2>7. Kept'
    <3> SUFFICES ASSUME NEW t \in obtained, cache'[t] = NoAnswer
                 PROVE  AboutToBeKept(t)'
      BY <2>2 DEF Kept
    <3>1. t # TextOf[q] /\ cache[t] = NoAnswer
      BY <2>3
    <3>2. PICK v \in Workers, r \in Queries :
            pc[v] = "waiting" /\ task[v][r] = "answered" /\ TextOf[r] = t
      BY <3>1 DEF Kept, AboutToBeKept
    <3>3. task'[v][r] = "answered" /\ pc'[v] = "waiting"
      BY <2>1, <2>2, <3>1, <3>2
    <3> QED
      BY <3>2, <3>3 DEF AboutToBeKept
  <2> QED
    BY <2>4, <2>5, <2>6, <2>7
<1> QED
  BY <1>1, <1>2

\* set_hits raises: what w has in hand is lost, what others have is not.
LEMMA RaiseKeepsInv ==
  ASSUME PassInv, NEW w \in Workers, NEW q \in Queries, KeepHitsRaises(w, q)
  PROVE  Held' /\ CacheIsSound' /\ Placed' /\ Kept'
<1> USE DEF PassInv, TypeOK
<1>1. /\ task[w][q] = "answered" /\ pc[w] = "waiting" /\ pc' = [pc EXCEPT ![w] = "closing"]
      /\ obtained' = obtained \ InHand(w)
      /\ UNCHANGED <<asked, task, hits>>
  BY DEF KeepHitsRaises, passVars
<1>2. hits[w][q] \in Answer /\ hits[w][q].text = TextOf[q] /\ hits[w][q] # NoAnswer
  BY <1>1, NoAnswerAssumption DEF Held
<1>3. \A t \in Texts : \/ cache'[t] = cache[t]
                       \/ cache'[t] = hits[w][q] /\ t = TextOf[q]
  <2>1. CASE UNCHANGED cache
    BY <2>1
  <2>2. CASE cache' = [cache EXCEPT ![TextOf[q]] = hits[w][q]]
    BY <2>2, TextOfAssumption
  <2> QED
    BY <2>1, <2>2 DEF KeepHitsRaises
<1>4. Held'
  BY <1>1 DEF Held
<1>5. CacheIsSound'
  BY <1>2, <1>3 DEF CacheIsSound
<1>6. Placed'
  BY <1>1 DEF Placed, PlacedAt
<1>7. Kept'
  <2> SUFFICES ASSUME NEW t \in obtained', cache'[t] = NoAnswer
               PROVE  AboutToBeKept(t)'
    BY DEF Kept
  <2>1. t \in obtained /\ t \notin InHand(w) /\ cache[t] = NoAnswer
    BY <1>1, <1>2, <1>3
  <2>2. PICK v \in Workers, r \in Queries :
          pc[v] = "waiting" /\ task[v][r] = "answered" /\ TextOf[r] = t
    BY <2>1 DEF Kept, AboutToBeKept
  <2>3. v # w
    BY <2>1, <2>2 DEF InHand
  <2> QED
    BY <1>1, <2>2, <2>3 DEF AboutToBeKept
<1> QED
  BY <1>4, <1>5, <1>6, <1>7

\* A pass begins, opens its pool or ends without having an answer in hand.
LEMMA MovingOnKeepsInv ==
  ASSUME PassInv, NEW w \in Workers,
         OpenPool(w) \/ FinishPass(w) \/ ClosePool(w) \/ CheckRaises(w)
  PROVE  Held' /\ CacheIsSound' /\ Placed' /\ Kept'
<1> USE DEF PassInv, TypeOK
<1>1. UNCHANGED <<asked, task, hits, cache, obtained>>
  BY DEF OpenPool, FinishPass, ClosePool, CheckRaises, passVars
<1>2. Held' /\ CacheIsSound'
  BY <1>1 DEF Held, CacheIsSound
<1>3. PICK to \in {"waiting", "returned", "raised"} : pc' = [pc EXCEPT ![w] = to]
  BY DEF OpenPool, FinishPass, ClosePool, CheckRaises
<1>4. ASSUME NEW r \in Queries, pc[w] = "waiting"
      PROVE  task[w][r] # "answered"
  <2>1. FinishPass(w)
    BY <1>4 DEF OpenPool, ClosePool, CheckRaises
  <2> QED
    BY <2>1 DEF FinishPass, Placed, PlacedAt
<1>5. Placed'
  <2>2. pc'[w] = to /\ \A v \in Workers : v # w => pc'[v] = pc[v]
    BY <1>3
  <2>1. ASSUME NEW r \in Queries
        PROVE  /\ to = "waiting" => task[w][r] # "unchecked"
               /\ to = "returned" => task[w][r] \in {"none", "hit", "kept"}
               /\ task[w][r] = "calling" => to = "waiting"
    <3>1. CASE OpenPool(w)
      BY <2>2, <3>1 DEF OpenPool, Placed, PlacedAt
    <3>2. CASE FinishPass(w)
      BY <2>2, <3>2 DEF FinishPass, Placed, PlacedAt
    <3>3. CASE ClosePool(w)
      BY <2>2, <3>3 DEF ClosePool, Placed, PlacedAt
    <3>4. CASE CheckRaises(w)
      BY <2>2, <3>4 DEF CheckRaises, Placed, PlacedAt
    <3> QED
      BY <3>1, <3>2, <3>3, <3>4
  <2>3. pc[w] # "idle"
    BY DEF OpenPool, FinishPass, ClosePool, CheckRaises
  <2> QED
    BY <1>1, <1>3, <2>1, <2>2, <2>3 DEF Placed, PlacedAt
<1>6. Kept'
  <2> SUFFICES ASSUME NEW t \in obtained, cache[t] = NoAnswer
               PROVE  AboutToBeKept(t)'
    BY <1>1 DEF Kept
  <2>1. PICK v \in Workers, r \in Queries :
          pc[v] = "waiting" /\ task[v][r] = "answered" /\ TextOf[r] = t
    BY DEF Kept, AboutToBeKept
  <2>2. v # w
    BY <1>4, <2>1
  <2> QED
    BY <1>1, <1>3, <2>1, <2>2 DEF AboutToBeKept
<1> QED
  BY <1>2, <1>5, <1>6

LEMMA StartKeepsInv ==
  ASSUME PassInv, NEW w \in Workers, StartPass(w)
  PROVE  Held' /\ CacheIsSound' /\ Placed' /\ Kept'
<1> USE DEF PassInv, TypeOK
<1>1. PICK S \in QueryLists :
        /\ asked' = [asked EXCEPT ![w] = S]
        /\ task' = [task EXCEPT ![w] =
                      [q \in Queries |-> IF q \in S THEN "unchecked" ELSE "none"]]
  BY DEF StartPass
<1>2. /\ pc[w] = "idle" /\ pc' = [pc EXCEPT ![w] = "checking"]
      /\ UNCHANGED <<hits, cache, obtained>>
  BY DEF StartPass
<1>3. /\ asked'[w] = S /\ pc'[w] = "checking"
      /\ \A q \in Queries : task'[w][q] = IF q \in S THEN "unchecked" ELSE "none"
      /\ \A v \in Workers : v # w => /\ asked'[v] = asked[v] /\ pc'[v] = pc[v]
                                    /\ task'[v] = task[v]
  BY <1>1, <1>2
<1>4. Held' /\ CacheIsSound'
  BY <1>2, <1>3 DEF Held, CacheIsSound
<1>5. Placed'
  <2>1. ASSUME NEW v \in Workers \ {w}, NEW q \in Queries
        PROVE  asked'[v] = asked[v] /\ pc'[v] = pc[v] /\ task'[v][q] = task[v][q]
    BY <1>3
  <2>2. \A q \in Queries : /\ q \in asked'[w] <=> task'[w][q] # "none"
                          /\ task'[w][q] \in {"none", "unchecked"}
    BY <1>3
  <2> QED
    <3>1. ASSUME NEW v \in Workers \ {w}, NEW q \in Queries
          PROVE  PlacedAt(v, q)'
      BY <2>1 DEF Placed, PlacedAt
    <3>2. ASSUME NEW q \in Queries
          PROVE  PlacedAt(w, q)'
      BY <1>3, <2>2 DEF PlacedAt
    <3> QED
      BY <3>1, <3>2 DEF Placed
<1>6. Kept'
  <2> SUFFICES ASSUME NEW t \in obtained, cache[t] = NoAnswer
               PROVE  AboutToBeKept(t)'
    BY <1>2 DEF Kept
  <2>1. PICK v \in Workers, r \in Queries :
          pc[v] = "waiting" /\ task[v][r] = "answered" /\ TextOf[r] = t
    BY DEF Kept, AboutToBeKept
  <2> QED
    BY <1>2, <1>3, <2>1 DEF AboutToBeKept
<1> QED
  BY <1>4, <1>5, <1>6

LEMMA ExpireKeepsInv ==
  ASSUME PassInv, NEW t \in Texts, Expire(t)
  PROVE  Held' /\ CacheIsSound' /\ Placed' /\ Kept'
<1> USE DEF PassInv, TypeOK
<1>1. /\ cache' = [cache EXCEPT ![t] = NoAnswer] /\ obtained' = obtained \ {t}
      /\ UNCHANGED <<pc, asked, task, hits>>
  BY DEF Expire, passVars
<1>2. Held' /\ Placed'
  BY <1>1 DEF Held, Placed, PlacedAt
<1>3. CacheIsSound'
  BY <1>1 DEF CacheIsSound
<1>4. \A u : AboutToBeKept(u) => AboutToBeKept(u)'
  BY <1>1 DEF AboutToBeKept
<1>5. Kept'
  <2> SUFFICES ASSUME NEW u \in obtained', cache'[u] = NoAnswer
               PROVE  AboutToBeKept(u)'
    BY DEF Kept
  <2>1. u \in obtained /\ cache[u] = NoAnswer
    BY <1>1
  <2>2. AboutToBeKept(u)
    BY <2>1 DEF Kept
  <2> QED
    BY <1>4, <2>2
<1> QED
  BY <1>2, <1>3, <1>5

LEMMA NextKeepsInv == PassInv /\ [Next]_vars => PassInv'
<1> SUFFICES ASSUME PassInv, [Next]_vars  PROVE PassInv'
  OBVIOUS
<1>1. TypeOK'
  BY NextTyped DEF PassInv
<1>2. Held' /\ CacheIsSound' /\ Placed' /\ Kept'
  <2>1. ASSUME NEW w \in Workers, LeavePass(w)
        PROVE  Held' /\ CacheIsSound' /\ Placed' /\ Kept'
    <3>1. pc[w] # "waiting" /\ ForgetPass(w) /\ UNCHANGED <<cache, obtained>>
      BY <2>1 DEF LeavePass
    <3> QED
      BY <3>1, ForgetKeepsInv
  <2>2. ASSUME NEW w \in Workers, Crash(w)
        PROVE  Held' /\ CacheIsSound' /\ Placed' /\ Kept'
    <3>1. ForgetPass(w) /\ UNCHANGED cache /\ obtained' = obtained \ InHand(w)
      BY <2>2 DEF Crash
    <3> QED
      BY <3>1, ForgetKeepsInv
  <2>3. CASE UNCHANGED vars
    BY <2>3 DEF PassInv, vars, passVars, Held, CacheIsSound, Placed, PlacedAt, Kept, AboutToBeKept
  <2>4. ASSUME NEW w \in Workers, PassStep(w)
        PROVE  Held' /\ CacheIsSound' /\ Placed' /\ Kept'
    BY <2>4, CheckKeepsInv, CollectKeepsInv, MovingOnKeepsInv DEF PassStep
  <2> QED
    BY <2>1, <2>2, <2>3, <2>4, StartKeepsInv, PoolKeepsInv, RaiseKeepsInv, MovingOnKeepsInv,
       ExpireKeepsInv
       DEF Next
<1> QED
  BY <1>1, <1>2 DEF PassInv

LEMMA InvAlways == Spec => []PassInv
BY InitInv, NextKeepsInv, PTL DEF Spec

-----------------------------------------------------------------------------
\* Tasks, answers and counters of any number of overlapping passes keep their
\* types; attempts stay within the retry budget.
THEOREM PassesAreTyped == Spec => []TypeOK
<1>1. PassInv => TypeOK
  BY DEF PassInv
<1> QED
  BY <1>1, InvAlways, PTL

\* Exa's answers are not lost when another query of the pass fails, for any
\* number of overlapping workers.
THEOREM AnswersStayKept == Spec => []AnswersAreKept
<1>1. PassInv => AnswersAreKept
  BY DEF PassInv, Kept, AboutToBeKept, AnswersAreKept, InHand
<1> QED
  BY <1>1, InvAlways, PTL

\* Only a miss puts a query in the pool's queue.
LEMMA OnlyMissesAreQueued ==
  ASSUME PassInv, [Next]_vars, NEW w \in Workers, NEW q \in Queries,
         task[w][q] = "unchecked", task'[w][q] = "queued"
  PROVE  cache[TextOf[q]] = NoAnswer
<1> USE DEF PassInv, TypeOK
<1>1. ASSUME NEW v \in Workers, NEW r \in Queries, NEW from, NEW to \in TaskState,
             MoveTask(v, r, from, to)
      PROVE  to = "queued" /\ v = w /\ r = q
  <2>1. /\ task'[v][r] = to
        /\ \A u \in Workers, p \in Queries : u # v \/ p # r => task'[u][p] = task[u][p]
    BY <1>1, MoveTaskEffect
  <2> QED
    BY <2>1
<1>2. ASSUME NEW v \in Workers, NEW r \in Queries, CheckMiss(v, r)
      PROVE  cache[TextOf[q]] = NoAnswer
  BY <1>1, <1>2 DEF CheckMiss, TaskState
<1>3. ASSUME NEW v \in Workers, NEW r \in Queries,
             \/ CheckHit(v, r) \/ KeepHits(v, r) \/ NoteFailure(v, r)
             \/ StartSearch(v, r) \/ ExaAnswers(v, r) \/ GiveUp(v, r)
      PROVE  FALSE
  <2>1. PICK from \in TaskState, to \in TaskState \ {"queued"} : MoveTask(v, r, from, to)
    BY <1>3 DEF CheckHit, KeepHits, NoteFailure, StartSearch, ExaAnswers, GiveUp, TaskState
  <2> QED
    BY <1>1, <2>1
<1>4. ASSUME NEW v \in Workers, StartPass(v)
      PROVE  FALSE
  BY <1>4 DEF StartPass
<1>5. ASSUME NEW v \in Workers, LeavePass(v) \/ Crash(v)
      PROVE  FALSE
  <2>1. ForgetPass(v)
    BY <1>5 DEF LeavePass, Crash
  <2> QED
    BY <2>1, ForgetPassEffect
<1>6. ASSUME UNCHANGED task
      PROVE  FALSE
  BY <1>6
<1>7. ASSUME NEW v \in Workers,
             \/ OpenPool(v) \/ FinishPass(v) \/ ClosePool(v) \/ CheckRaises(v)
             \/ \E r \in Queries : KeepHitsRaises(v, r) \/ ExaFails(v, r)
      PROVE  UNCHANGED task
  BY <1>7 DEF OpenPool, FinishPass, ClosePool, CheckRaises, KeepHitsRaises, ExaFails, passVars
<1>8. ASSUME (\E t \in Texts : Expire(t)) \/ UNCHANGED vars
      PROVE  UNCHANGED task
  BY <1>8 DEF Expire, vars, passVars
<1> QED
  BY <1>2, <1>3, <1>4, <1>5, <1>6, <1>7, <1>8 DEF Next, PassStep, PoolStep

\* A query goes to Exa again only while nobody's answer to its text is in the
\* cache: it was lost, or somebody is about to write it.
THEOREM AnswersStayReused == Spec => AnswersAreReused
<1>1. PassInv /\ [Next]_vars =>
        [\A w \in Workers, q \in Queries :
           task[w][q] = "unchecked" /\ task'[w][q] = "queued" /\ TextOf[q] \in obtained
             => \E v \in Workers : pc[v] = "waiting" /\ TextOf[q] \in InHand(v)]_vars
  <2> SUFFICES ASSUME PassInv, [Next]_vars, NEW w \in Workers, NEW q \in Queries,
                      task[w][q] = "unchecked", task'[w][q] = "queued", TextOf[q] \in obtained
               PROVE  \E v \in Workers : pc[v] = "waiting" /\ TextOf[q] \in InHand(v)
    OBVIOUS
  <2>1. cache[TextOf[q]] = NoAnswer
    BY OnlyMissesAreQueued
  <2>2. AboutToBeKept(TextOf[q])
    BY <2>1 DEF PassInv, Kept
  <2> QED
    BY <2>2 DEF AboutToBeKept, InHand
<1> QED
  BY <1>1, InvAlways, PTL DEF Spec, AnswersAreReused

\* A returned pass has an answer to the right text for each of its queries.
THEOREM PassesAreComplete == Spec => []PassIsComplete
<1>1. PassInv => PassIsComplete
  BY DEF PassInv, Placed, PlacedAt, Held, PassIsComplete, TypeOK
<1> QED
  BY <1>1, InvAlways, PTL

\* No Exa call outlives the pass it was submitted by.
THEOREM SearchesEndWithTheirPass == Spec => []NoSearchOutlivesItsPass
<1>1. PassInv => NoSearchOutlivesItsPass
  BY DEF PassInv, Placed, PlacedAt, NoSearchOutlivesItsPass, PoolIsOpen
<1> QED
  BY <1>1, InvAlways, PTL

-----------------------------------------------------------------------------
(* The totals: each counter is the number of queries in certain states.    *)

TasksIn(w, K) == {q \in Queries : task[w][q] \in K}
Missed == {"queued", "calling", "answered", "gaveup", "kept", "failed"}

Tally(w) ==
    /\ counts[w].hit = Cardinality(TasksIn(w, {"hit"}))
    /\ counts[w].miss = Cardinality(TasksIn(w, Missed))
    /\ counts[w].search = Cardinality(TasksIn(w, {"kept"}))

TallyInv == PassInv /\ \A w \in Workers : Tally(w)

LEMMA TasksAreFinite ==
  ASSUME NEW w, NEW K
  PROVE  IsFiniteSet(TasksIn(w, K))
BY QueriesAssumption, FS_Subset DEF TasksIn

\* A query that moves into K makes it larger by one.
LEMMA MoveTally ==
  ASSUME TypeOK, NEW w \in Workers, NEW q \in Queries, NEW from, NEW to \in TaskState,
         MoveTask(w, q, from, to), NEW K
  PROVE  /\ (from \in K <=> to \in K) => Cardinality(TasksIn(w, K)') = Cardinality(TasksIn(w, K))
         /\ from \notin K /\ to \in K
              => Cardinality(TasksIn(w, K)') = Cardinality(TasksIn(w, K)) + 1
         /\ \A v \in Workers : v # w => TasksIn(v, K)' = TasksIn(v, K)
<1>1. /\ task[w][q] = from /\ task'[w][q] = to
      /\ \A v \in Workers, r \in Queries : v # w \/ r # q => task'[v][r] = task[v][r]
  BY MoveTaskEffect DEF TypeOK
<1>2. ASSUME from \in K <=> to \in K
      PROVE  TasksIn(w, K)' = TasksIn(w, K)
  BY <1>1, <1>2 DEF TasksIn
<1>3. ASSUME from \notin K, to \in K
      PROVE  Cardinality(TasksIn(w, K)') = Cardinality(TasksIn(w, K)) + 1
  <2>1. TasksIn(w, K)' = TasksIn(w, K) \cup {q} /\ q \notin TasksIn(w, K)
    BY <1>1, <1>3 DEF TasksIn
  <2> QED
    BY <2>1, TasksAreFinite, FS_AddElement
<1>4. \A v \in Workers : v # w => TasksIn(v, K)' = TasksIn(v, K)
  BY <1>1 DEF TasksIn
<1> QED
  BY <1>2, <1>3, <1>4

\* The counters of the other workers are theirs.
LEMMA MoveKeepsTally ==
  ASSUME TallyInv, NEW w \in Workers, NEW q \in Queries, NEW from, NEW to \in TaskState,
         MoveTask(w, q, from, to),
         \A v \in Workers : v # w => counts'[v] = counts[v],
         counts'[w].hit = counts[w].hit + (IF from # "hit" /\ to = "hit" THEN 1 ELSE 0),
         counts'[w].miss = counts[w].miss
                            + (IF from \notin Missed /\ to \in Missed THEN 1 ELSE 0),
         counts'[w].search = counts[w].search
                              + (IF from # "kept" /\ to = "kept" THEN 1 ELSE 0),
         from = "hit" => to = "hit",
         from \in Missed => to \in Missed,
         from = "kept" => to = "kept"
  PROVE  \A v \in Workers : Tally(v)'
<1> USE DEF TallyInv, PassInv
<1>0. \A v, K : Cardinality(TasksIn(v, K)) \in Nat
  BY TasksAreFinite, FS_CardinalityType
<1>1. Tally(w)'
  <2>1. counts'[w].hit = Cardinality(TasksIn(w, {"hit"})')
    BY <1>0, MoveTally DEF Tally
  <2>2. counts'[w].miss = Cardinality(TasksIn(w, Missed)')
    BY <1>0, MoveTally DEF Tally
  <2>3. counts'[w].search = Cardinality(TasksIn(w, {"kept"})')
    BY <1>0, MoveTally DEF Tally
  <2> QED
    BY <2>1, <2>2, <2>3 DEF Tally, Missed
<1>2. ASSUME NEW v \in Workers \ {w}
      PROVE  Tally(v)'
  <2>1. \A K : TasksIn(v, K)' = TasksIn(v, K)
    BY MoveTally
  <2>2. TasksIn(v, {"hit"})' = TasksIn(v, {"hit"}) /\ TasksIn(v, {"kept"})' = TasksIn(v, {"kept"})
        /\ TasksIn(v, Missed)' = TasksIn(v, Missed)
    BY <2>1
  <2>3. counts'[v] = counts[v]
    OBVIOUS
  <2> QED
    BY <2>2, <2>3 DEF Tally, Missed
<1> QED
  BY <1>1, <1>2

LEMMA SameTally ==
  ASSUME NEW w, Tally(w), task'[w] = task[w], counts'[w] = counts[w]
  PROVE  Tally(w)'
<1>1. /\ TasksIn(w, {"hit"})' = TasksIn(w, {"hit"})
      /\ TasksIn(w, Missed)' = TasksIn(w, Missed)
      /\ TasksIn(w, {"kept"})' = TasksIn(w, {"kept"})
  BY DEF TasksIn, Missed
<1> QED
  BY <1>1 DEF Tally, Missed

LEMMA InitTally == Init => TallyInv
<1> SUFFICES ASSUME Init  PROVE TallyInv
  OBVIOUS
<1>1. ASSUME NEW w \in Workers
      PROVE  Tally(w)
  <2>1. TasksIn(w, {"hit"}) = {} /\ TasksIn(w, Missed) = {} /\ TasksIn(w, {"kept"}) = {}
    BY DEF Init, TasksIn, Missed
  <2>2. counts[w] = NoCounts
    BY DEF Init
  <2> QED
    BY <2>1, <2>2, FS_EmptySet DEF Tally, NoCounts
<1> QED
  BY <1>1, InitInv DEF TallyInv

LEMMA NextKeepsTally == TallyInv /\ [Next]_vars => TallyInv'
<1> SUFFICES ASSUME TallyInv, [Next]_vars  PROVE \A w \in Workers : Tally(w)'
  BY NextKeepsInv DEF TallyInv
<1>0. /\ TypeOK /\ Placed /\ \A v \in Workers : Tally(v)
      /\ counts \in [Workers -> [hit : Nat, miss : Nat, search : Nat]]
      /\ \A v \in Workers : counts[v].hit \in Nat /\ counts[v].miss \in Nat
                             /\ counts[v].search \in Nat
  BY DEF TallyInv, PassInv, TypeOK
<1>1. ASSUME NEW v \in Workers, NEW r \in Queries, CheckHit(v, r)
      PROVE  \A w \in Workers : Tally(w)'
  <2>1. /\ \A w \in Workers : w # v => counts'[w] = counts[w]
        /\ counts'[v].hit = counts[v].hit + 1
        /\ counts'[v].miss = counts[v].miss /\ counts'[v].search = counts[v].search
    BY <1>0, <1>1, CountEffect DEF CheckHit
  <2> QED
    <3>1. MoveTask(v, r, "unchecked", "hit")
      BY <1>1 DEF CheckHit
    <3> QED
      BY <1>0, <2>1, <3>1, MoveKeepsTally DEF TaskState, Missed
<1>2. ASSUME NEW v \in Workers, NEW r \in Queries, CheckMiss(v, r)
      PROVE  \A w \in Workers : Tally(w)'
  <2>1. /\ \A w \in Workers : w # v => counts'[w] = counts[w]
        /\ counts'[v].miss = counts[v].miss + 1
        /\ counts'[v].hit = counts[v].hit /\ counts'[v].search = counts[v].search
    BY <1>0, <1>2, CountEffect DEF CheckMiss
  <2> QED
    <3>1. MoveTask(v, r, "unchecked", "queued")
      BY <1>2 DEF CheckMiss
    <3> QED
      BY <1>0, <2>1, <3>1, MoveKeepsTally DEF TaskState, Missed
<1>3. ASSUME NEW v \in Workers, NEW r \in Queries, KeepHits(v, r)
      PROVE  \A w \in Workers : Tally(w)'
  <2>1. /\ \A w \in Workers : w # v => counts'[w] = counts[w]
        /\ counts'[v].search = counts[v].search + 1
        /\ counts'[v].hit = counts[v].hit /\ counts'[v].miss = counts[v].miss
    BY <1>0, <1>3, CountEffect DEF KeepHits
  <2> QED
    <3>1. MoveTask(v, r, "answered", "kept")
      BY <1>3 DEF KeepHits
    <3> QED
      BY <1>0, <2>1, <3>1, MoveKeepsTally DEF TaskState, Missed
<1>4. ASSUME NEW v \in Workers, NEW r \in Queries,
             NoteFailure(v, r) \/ StartSearch(v, r) \/ ExaAnswers(v, r) \/ GiveUp(v, r)
      PROVE  \A w \in Workers : Tally(w)'
  <2>1. UNCHANGED counts
    BY <1>4 DEF NoteFailure, StartSearch, ExaAnswers, GiveUp, poolFrame
  <2>2. PICK from \in {"gaveup", "queued", "calling"},
             to \in {"failed", "calling", "answered", "gaveup"} : MoveTask(v, r, from, to)
    BY <1>4 DEF NoteFailure, StartSearch, ExaAnswers, GiveUp
  <2> QED
    BY <1>0, <2>1, <2>2, MoveKeepsTally DEF TaskState, Missed
<1>5. ASSUME UNCHANGED <<task, counts>>
      PROVE  \A w \in Workers : Tally(w)'
  BY <1>0, <1>5, SameTally
<1>6. ASSUME NEW v \in Workers,
             \/ OpenPool(v) \/ FinishPass(v) \/ ClosePool(v) \/ CheckRaises(v)
             \/ \E r \in Queries : KeepHitsRaises(v, r) \/ ExaFails(v, r)
      PROVE  UNCHANGED <<task, counts>>
  BY <1>6 DEF OpenPool, FinishPass, ClosePool, CheckRaises, KeepHitsRaises, ExaFails, passVars,
              poolFrame
<1>7. ASSUME (\E t \in Texts : Expire(t)) \/ UNCHANGED vars
      PROVE  UNCHANGED <<task, counts>>
  BY <1>7 DEF Expire, vars, passVars
<1>8. ASSUME NEW v \in Workers, LeavePass(v) \/ Crash(v)
      PROVE  \A w \in Workers : Tally(w)'
  <2>1. ForgetPass(v)
    BY <1>8 DEF LeavePass, Crash
  <2>2. /\ \A q \in Queries : task'[v][q] = "none"
        /\ counts'[v] = NoCounts
        /\ \A w \in Workers \ {v} : task'[w] = task[w] /\ counts'[w] = counts[w]
    BY <1>0, <2>1, ForgetPassEffect
  <2>3. Tally(v)'
    <3>1. TasksIn(v, {"hit"})' = {} /\ TasksIn(v, Missed)' = {} /\ TasksIn(v, {"kept"})' = {}
      BY <2>2 DEF TasksIn, Missed
    <3>2. Cardinality({}) = 0
      BY FS_EmptySet
    <3> QED
      BY <2>2, <3>1, <3>2 DEF Tally, NoCounts, Missed
  <2>4. \A w \in Workers \ {v} : Tally(w)'
    BY <1>0, <2>2, SameTally
  <2> QED
    BY <2>3, <2>4
<1>9. ASSUME NEW v \in Workers, StartPass(v)
      PROVE  \A w \in Workers : Tally(w)'
  <2>1. PICK S \in QueryLists :
          task' = [task EXCEPT ![v] = [q \in Queries |-> IF q \in S THEN "unchecked" ELSE "none"]]
    BY <1>9 DEF StartPass
  <2>2. /\ \A q \in Queries : task[v][q] = "none" /\ task'[v][q] \in {"none", "unchecked"}
        /\ \A w \in Workers \ {v} : task'[w] = task[w]
        /\ UNCHANGED counts
    BY <1>0, <1>9, <2>1 DEF StartPass, Placed, PlacedAt, TypeOK
  <2>3. /\ TasksIn(v, {"hit"})' = TasksIn(v, {"hit"})
        /\ TasksIn(v, Missed)' = TasksIn(v, Missed)
        /\ TasksIn(v, {"kept"})' = TasksIn(v, {"kept"})
    BY <2>2 DEF TasksIn, Missed
  <2>4. Tally(v)'
    BY <1>0, <2>2, <2>3 DEF Tally, Missed
  <2>5. \A w \in Workers \ {v} : Tally(w)'
    BY <1>0, <2>2, SameTally
  <2> QED
    BY <2>4, <2>5
<1> QED
  BY <1>1, <1>2, <1>3, <1>4, <1>5, <1>6, <1>7, <1>8, <1>9 DEF Next, PassStep, PoolStep

\* What the counters of a pass that returns come to.
LEMMA TalliesAddUp == TallyInv => TotalsAddUp
<1>1. ASSUME TallyInv, NEW w \in Workers, pc[w] = "returned"
      PROVE  /\ counts[w].hit + counts[w].miss = Cardinality(asked[w])
             /\ counts[w].search = counts[w].miss
  <2>1. \A q \in Queries : task[w][q] \in {"none", "hit", "kept"}
    BY <1>1 DEF TallyInv, PassInv, Placed, PlacedAt
  <2>2. TasksIn(w, Missed) = TasksIn(w, {"kept"})
    BY <2>1 DEF TasksIn, Missed
  <2>3. /\ asked[w] = TasksIn(w, {"hit"}) \cup TasksIn(w, {"kept"})
        /\ TasksIn(w, {"hit"}) \cap TasksIn(w, {"kept"}) = {}
    BY <1>1, <2>1 DEF TallyInv, PassInv, TypeOK, Placed, PlacedAt, TasksIn
  <2>4. Cardinality(asked[w]) = Cardinality(TasksIn(w, {"hit"})) + Cardinality(TasksIn(w, {"kept"}))
    <3> DEFINE H == TasksIn(w, {"hit"})
               K == TasksIn(w, {"kept"})
    <3>1. IsFiniteSet(H) /\ IsFiniteSet(K) /\ H \cap K = {} /\ asked[w] = H \cup K
      BY <2>3, TasksAreFinite
    <3> HIDE DEF H, K
    <3>2. Cardinality(H) \in Nat /\ Cardinality(K) \in Nat
      BY <3>1, FS_CardinalityType
    <3>3. Cardinality(H \cup K) = Cardinality(H) + Cardinality(K) - Cardinality(H \cap K)
      BY <3>1, FS_Union
    <3>4. Cardinality(H \cap K) = 0
      BY <3>1, FS_EmptySet
    <3>5. Cardinality(H \cup K) = Cardinality(H) + Cardinality(K)
      BY <3>2, <3>3, <3>4
    <3> QED
      BY <3>1, <3>5 DEF H, K
  <2> QED
    BY <1>1, <2>2, <2>4 DEF TallyInv, Tally
<1> QED
  BY <1>1 DEF TotalsAddUp

LEMMA TallyAlways == Spec => []TallyInv
BY InitTally, NextKeepsTally, PTL DEF Spec

\* What run_search_loop adds to its totals: in a pass that returns, every query
\* is counted once, and every miss has been searched.
THEOREM TotalsAlwaysAddUp == Spec => []TotalsAddUp
BY TalliesAddUp, TallyAlways, PTL

-----------------------------------------------------------------------------
(* A pass as its caller sees it.  The mapping shows of a pass that has not *)
(* returned only that it runs, so that all but four kinds of steps are     *)
(* stutters of the contract.                                               *)

Inside == {"checking", "waiting", "closing"}

\* A step of one worker's pass, by where it leads.
Calls(w) ==
    /\ pc[w] = "idle" /\ pc'[w] = "checking"
    /\ asked'[w] \in QueryLists
Works(w) == pc[w] \in Inside /\ pc'[w] \in Inside /\ asked'[w] = asked[w]
Ends(w) ==
    /\ pc[w] \in Inside /\ pc'[w] \in {"returned", "raised"}
    /\ asked'[w] = asked[w]
Forgets(w) == pc[w] # "idle" /\ pc'[w] = "idle" /\ asked'[w] = {}

SamePass(v) ==
    pc'[v] = pc[v] /\ asked'[v] = asked[v] /\ hits'[v] = hits[v] /\ counts'[v] = counts[v]

\* Whatever a worker does is one of these to its own pass and nothing to others.
LEMMA StepsOfAPass ==
  ASSUME PassInv, NEW w \in Workers,
         \/ StartPass(w) \/ PassStep(w) \/ PoolStep(w) \/ LeavePass(w)
         \/ CheckRaises(w) \/ Crash(w)
         \/ \E q \in Queries : KeepHitsRaises(w, q)
  PROVE  /\ Calls(w) \/ Works(w) \/ Ends(w) \/ Forgets(w)
         /\ \A v \in Workers \ {w} : SamePass(v)
<1> USE DEF PassInv, TypeOK, Calls, Works, Ends, Forgets, SamePass, Inside
<1>1. CASE StartPass(w)
  BY <1>1 DEF StartPass
<1>2. ASSUME NEW q \in Queries, CheckHit(w, q) \/ CheckMiss(w, q)
      PROVE  Works(w) /\ \A v \in Workers \ {w} : SamePass(v)
  BY <1>2 DEF CheckHit, CheckMiss, Count
<1>3. ASSUME NEW q \in Queries, KeepHits(w, q) \/ NoteFailure(w, q)
      PROVE  Works(w) /\ \A v \in Workers \ {w} : SamePass(v)
  BY <1>3 DEF KeepHits, NoteFailure, Count
<1>4. CASE OpenPool(w)
  BY <1>4 DEF OpenPool, passVars
<1>5. CASE FinishPass(w) \/ ClosePool(w)
  BY <1>5 DEF FinishPass, ClosePool, passVars
<1>6. ASSUME NEW q \in Queries,
             StartSearch(w, q) \/ ExaAnswers(w, q) \/ ExaFails(w, q) \/ GiveUp(w, q)
      PROVE  Works(w) /\ \A v \in Workers \ {w} : SamePass(v)
  BY <1>6 DEF StartSearch, ExaAnswers, ExaFails, GiveUp, PoolIsOpen, poolFrame
<1>7. CASE LeavePass(w) \/ Crash(w)
  <2>1. ForgetPass(w) /\ pc[w] # "idle"
    BY <1>7 DEF LeavePass, Crash
  <2> QED
    BY <2>1, ForgetPassEffect
<1>8. CASE CheckRaises(w)
  BY <1>8 DEF CheckRaises, passVars
<1>9. ASSUME NEW q \in Queries, KeepHitsRaises(w, q)
      PROVE  Works(w) /\ \A v \in Workers \ {w} : SamePass(v)
  BY <1>9 DEF KeepHitsRaises, passVars
<1> QED
  BY <1>1, <1>2, <1>3, <1>4, <1>5, <1>6, <1>7, <1>8, <1>9 DEF PassStep, PoolStep

\* Only w's part of the contract's state changes.
LEMMA OnePassIsSeen ==
  ASSUME NEW w \in Workers, \A v \in Workers \ {w} : SamePass(v)
  PROVE  /\ [v \in Workers |-> Stage(v)'] = [[v \in Workers |-> Stage(v)] EXCEPT ![w] = Stage(w)']
         /\ [v \in Workers |-> Result(v)'] = [[v \in Workers |-> Result(v)] EXCEPT ![w] = Result(w)']
         /\ [v \in Workers |-> TotalsSeen(v)']
               = [[v \in Workers |-> TotalsSeen(v)] EXCEPT ![w] = TotalsSeen(w)']
<1>1. ASSUME NEW v \in Workers \ {w}
      PROVE  Stage(v)' = Stage(v) /\ Result(v)' = Result(v) /\ TotalsSeen(v)' = TotalsSeen(v)
  BY DEF SamePass, Stage, Result, TotalsSeen
<1> QED
  BY <1>1

\* A pass that returns has the answers and totals the contract asks for.
ReturnedIsComplete ==
    \A w \in Workers : pc[w] = "returned" =>
        /\ [q \in asked[w] |-> hits[w][q]] \in Contract!AnswersTo(asked[w])
        /\ \E cached \in 0..Cardinality(asked[w]) :
             counts[w] = Contract!Totals(cached, Cardinality(asked[w]) - cached)

LEMMA ReturnsAreComplete == TallyInv => ReturnedIsComplete
<1> SUFFICES ASSUME TallyInv, NEW w \in Workers, pc[w] = "returned"
             PROVE  /\ [q \in asked[w] |-> hits[w][q]] \in Contract!AnswersTo(asked[w])
                    /\ \E cached \in 0..Cardinality(asked[w]) :
                         counts[w] = Contract!Totals(cached, Cardinality(asked[w]) - cached)
  BY DEF ReturnedIsComplete
<1>1. PassIsComplete
  BY DEF TallyInv, PassInv, Placed, PlacedAt, Held, PassIsComplete, TypeOK
<1>2. [q \in asked[w] |-> hits[w][q]] \in Contract!AnswersTo(asked[w])
  BY <1>1 DEF PassIsComplete, Contract!AnswersTo
<1>3. /\ counts[w].hit + counts[w].miss = Cardinality(asked[w])
      /\ counts[w].search = counts[w].miss
  BY TalliesAddUp DEF TotalsAddUp
<1>4. counts[w] \in [hit : Nat, miss : Nat, search : Nat]
  BY DEF TallyInv, PassInv, TypeOK
<1>5. /\ counts[w] = [hit |-> counts[w].hit, miss |-> counts[w].miss, search |-> counts[w].search]
      /\ counts[w].hit \in Nat /\ counts[w].miss \in Nat
  BY <1>4
<1>6. /\ counts[w].hit \in 0..Cardinality(asked[w])
      /\ counts[w].miss = Cardinality(asked[w]) - counts[w].hit
  BY <1>3, <1>5
<1> QED
  BY <1>2, <1>3, <1>5, <1>6 DEF Contract!Totals

LEMMA InitKeepsContract == Init => Contract!ContractInit
BY DEF Init, Contract!ContractInit, Contract!Totals, Contract!NoResult, NoCounts, Stage, Result, TotalsSeen

\* Each kind of step of a pass is a step of the contract or leaves its state.
LEMMA PassStepKeepsContract ==
  ASSUME TypeOK, TypeOK', ReturnedIsComplete', NEW w \in Workers,
         Calls(w) \/ Works(w) \/ Ends(w) \/ Forgets(w),
         \A v \in Workers \ {w} : SamePass(v)
  PROVE  [Contract!ContractNext]_(Contract!contractVars)
<1>1. /\ [v \in Workers |-> Stage(v)'] = [[v \in Workers |-> Stage(v)] EXCEPT ![w] = Stage(w)']
      /\ [v \in Workers |-> Result(v)'] = [[v \in Workers |-> Result(v)] EXCEPT ![w] = Result(w)']
      /\ [v \in Workers |-> TotalsSeen(v)']
            = [[v \in Workers |-> TotalsSeen(v)] EXCEPT ![w] = TotalsSeen(w)']
  BY OnePassIsSeen
<1>2. [v \in Workers |-> Stage(v)][w] = Stage(w)
  OBVIOUS
<1>3. asked' = [asked EXCEPT ![w] = asked'[w]]
  BY DEF TypeOK, SamePass
<1>4. /\ Result(w)' = Result(w)
           => [v \in Workers |-> Result(v)'] = [v \in Workers |-> Result(v)]
      /\ TotalsSeen(w)' = TotalsSeen(w)
           => [v \in Workers |-> TotalsSeen(v)'] = [v \in Workers |-> TotalsSeen(v)]
      /\ Stage(w)' = Stage(w)
           => [v \in Workers |-> Stage(v)'] = [v \in Workers |-> Stage(v)]
  BY <1>1
<1>5. CASE Calls(w)
  <2>1. /\ Stage(w) = "idle" /\ Stage(w)' = "running"
        /\ Result(w)' = Result(w) /\ TotalsSeen(w)' = TotalsSeen(w)
    BY <1>5 DEF Calls, Stage, Result, TotalsSeen
  <2>2. Contract!Call(w)
    BY <1>1, <1>2, <1>3, <1>4, <1>5, <2>1 DEF Contract!Call, Contract!To, Calls
  <2> QED
    BY <2>2 DEF Contract!ContractNext
<1>6. CASE Works(w)
  <2>1. Stage(w)' = Stage(w) /\ Result(w)' = Result(w) /\ TotalsSeen(w)' = TotalsSeen(w)
    BY <1>6 DEF Works, Inside, Stage, Result, TotalsSeen
  <2>2. UNCHANGED asked
    BY <1>3, <1>6 DEF TypeOK, Works
  <2>3. UNCHANGED Contract!contractVars
    BY <1>4, <2>1, <2>2 DEF Contract!contractVars
  <2> QED
    BY <2>3
<1>7. CASE Ends(w) /\ pc'[w] = "returned"
  <2>1. Stage(w) = "running" /\ Stage(w)' = "returned"
    BY <1>7 DEF Ends, Inside, Stage
  <2>2. Result(w)' = [q \in asked'[w] |-> hits'[w][q]] /\ TotalsSeen(w)' = counts'[w]
    BY <1>7 DEF Result, TotalsSeen
  <2>3. /\ Result(w)' \in Contract!AnswersTo(asked[w])
        /\ \E cached \in 0..Cardinality(asked[w]) :
             TotalsSeen(w)' = Contract!Totals(cached, Cardinality(asked[w]) - cached)
    BY <1>7, <2>2 DEF ReturnedIsComplete, Ends
  <2>4. UNCHANGED asked
    BY <1>3, <1>7 DEF TypeOK, Ends
  <2>5. PICK cached \in 0..Cardinality(asked[w]) :
          TotalsSeen(w)' = Contract!Totals(cached, Cardinality(asked[w]) - cached)
    BY <2>3
  <2>6. \E a \in Contract!AnswersTo(asked[w]) :
          [v \in Workers |-> Result(v)'] = [[v \in Workers |-> Result(v)] EXCEPT ![w] = a]
    BY <1>1, <2>3
  <2>7. [v \in Workers |-> TotalsSeen(v)'] =
          [[v \in Workers |-> TotalsSeen(v)] EXCEPT
             ![w] = Contract!Totals(cached, Cardinality(asked[w]) - cached)]
    BY <1>1, <2>5
  <2>8. Contract!To(w, "running", "returned")
    BY <1>1, <1>2, <2>1 DEF Contract!To
  <2>9. Contract!Cardinality(asked[w]) = Cardinality(asked[w])
    BY DEF Contract!Cardinality, Cardinality
  <2>10. \E k \in 0..Cardinality(asked[w]) :
          [v \in Workers |-> TotalsSeen(v)'] =
            [[v \in Workers |-> TotalsSeen(v)] EXCEPT
               ![w] = Contract!Totals(k, Cardinality(asked[w]) - k)]
    BY <2>7
  <2>11. Contract!Return(w)
    BY <2>4, <2>6, <2>8, <2>9, <2>10 DEF Contract!Return
  <2> QED
    BY <2>11 DEF Contract!ContractNext
<1>8. CASE Ends(w) /\ pc'[w] = "raised"
  <2>1. /\ Stage(w) = "running" /\ Stage(w)' = "raised"
        /\ Result(w)' = Result(w) /\ TotalsSeen(w)' = TotalsSeen(w)
    BY <1>8 DEF Ends, Inside, Stage, Result, TotalsSeen
  <2>2. UNCHANGED asked
    BY <1>3, <1>8 DEF TypeOK, Ends
  <2>3. Contract!Raise(w)
    BY <1>1, <1>2, <1>4, <2>1, <2>2 DEF Contract!Raise, Contract!To
  <2> QED
    BY <2>3 DEF Contract!ContractNext
<1>9. CASE Forgets(w)
  <2>1. /\ Stage(w) # "idle" /\ Stage(w)' = "idle"
        /\ Result(w)' = Contract!NoResult /\ TotalsSeen(w)' = Contract!Totals(0, 0)
    BY <1>9 DEF Forgets, Stage, Result, TotalsSeen, NoCounts, Contract!NoResult,
                Contract!Totals
  <2>2. asked' = [asked EXCEPT ![w] = {}]
    BY <1>3, <1>9 DEF Forgets
  <2>3. Contract!Forget(w)
    BY <1>1, <1>2, <2>1, <2>2 DEF Contract!Forget, Contract!To
  <2> QED
    BY <2>3 DEF Contract!ContractNext
<1> QED
  BY <1>5, <1>6, <1>7, <1>8, <1>9 DEF Ends

LEMMA NextKeepsContract ==
  ASSUME PassInv, TypeOK', ReturnedIsComplete', [Next]_vars
  PROVE  [Contract!ContractNext]_(Contract!contractVars)
<1>1. ASSUME UNCHANGED <<pc, asked, hits, counts>>
      PROVE  UNCHANGED Contract!contractVars
  BY <1>1 DEF Contract!contractVars, Stage, Result, TotalsSeen
<1>2. ASSUME (\E t \in Texts : Expire(t)) \/ UNCHANGED vars
      PROVE  UNCHANGED <<pc, asked, hits, counts>>
  BY <1>2 DEF Expire, vars, passVars
<1>3. TypeOK
  BY DEF PassInv
<1> QED
  BY <1>1, <1>2, <1>3, StepsOfAPass, PassStepKeepsContract DEF Next

\* The pass of any number of overlapping workers, threads, retries and faults
\* refines the one-step pass on which run_search_loop is built.
THEOREM PassesKeepTheirContract == Spec => PassKeepsContract
<1>1. PassInv /\ TypeOK' /\ ReturnedIsComplete' /\ [Next]_vars
        => [Contract!ContractNext]_(Contract!contractVars)
  BY NextKeepsContract
<1>2. PassInv => TypeOK
  BY DEF PassInv
<1> QED
  BY <1>1, <1>2, InitKeepsContract, InvAlways, TallyAlways, ReturnsAreComplete, PTL
     DEF Spec, PassKeepsContract, Contract!ContractSpec

-----------------------------------------------------------------------------
(* A pass moves forward.  This is the part of PassEnds that depends        *)
(* neither on fairness nor on Exa calls returning: within one pass neither *)
(* the calling thread nor a query ever goes back, each step takes one of   *)
(* them forward, and some step is there to be taken as long as the pass    *)
(* has not ended.  A call that never returns is such a step, not taken.    *)

\* How far the calling thread has to go, and at most how many steps a query
\* still takes: it is checked, queued, called for as often as it has attempts
\* left, and collected.
ThreadToGo(w) ==
    CASE pc[w] = "checking" -> 3
      [] pc[w] = "waiting" -> 2
      [] pc[w] = "closing" -> 1
      [] OTHER -> 0

QueryToGo(w, q) ==
    CASE task[w][q] = "unchecked" -> MaxRetries + 3
      [] task[w][q] = "queued" -> MaxRetries + 2
      [] task[w][q] = "calling" -> MaxRetries + 1 - tries[w][q]
      [] task[w][q] \in {"answered", "gaveup"} -> 1
      [] OTHER -> 0

MovesForward(w) ==
    /\ ThreadToGo(w)' <= ThreadToGo(w)
    /\ \A q \in Queries : QueryToGo(w, q)' <= QueryToGo(w, q)
    /\ \/ ThreadToGo(w)' < ThreadToGo(w)
       \/ \E q \in Queries : QueryToGo(w, q)' < QueryToGo(w, q)

StaysPut(w) == UNCHANGED <<pc[w], task[w], tries[w]>>

LEMMA ToGoIsNat ==
  ASSUME TypeOK, NEW w \in Workers, NEW q \in Queries
  PROVE  QueryToGo(w, q) \in Nat /\ ThreadToGo(w) \in Nat
<1>1. tries[w][q] \in 0..(MaxRetries - 1) /\ MaxRetries \in Nat
  BY MaxRetriesAssumption DEF TypeOK
<1> QED
  BY <1>1 DEF QueryToGo, ThreadToGo

\* One query moves, and the calling thread and the other queries stay.
LEMMA OneQueryForward ==
  ASSUME TypeOK, NEW w \in Workers, NEW q \in Queries, UNCHANGED pc,
         \A r \in Queries \ {q} : task'[w][r] = task[w][r] /\ tries'[w][r] = tries[w][r],
         QueryToGo(w, q)' \in Nat, QueryToGo(w, q)' < QueryToGo(w, q)
  PROVE  MovesForward(w)
<1>1. ThreadToGo(w)' = ThreadToGo(w) /\ ThreadToGo(w) \in Nat
  BY ToGoIsNat DEF ThreadToGo
<1>2. \A r \in Queries \ {q} : QueryToGo(w, r)' = QueryToGo(w, r) /\ QueryToGo(w, r) \in Nat
  BY ToGoIsNat DEF QueryToGo
<1>3. \A r \in Queries : QueryToGo(w, r)' <= QueryToGo(w, r)
  <2> SUFFICES ASSUME NEW r \in Queries PROVE QueryToGo(w, r)' <= QueryToGo(w, r)
    OBVIOUS
  <2>1. CASE r = q
    <3>1. /\ QueryToGo(w, r)' < QueryToGo(w, r)
          /\ QueryToGo(w, r)' \in Nat /\ QueryToGo(w, r) \in Nat
      BY <2>1, ToGoIsNat
    <3> QED
      BY <3>1
  <2>2. CASE r # q
    BY <1>2, <2>2
  <2> QED
    BY <2>1, <2>2
<1> QED
  BY <1>1, <1>3 DEF MovesForward

\* A step of a pass, to its own end or to its next state.
LEMMA OwnStepGoesForward ==
  ASSUME PassInv, PassInv', NEW w \in Workers,
         \/ PassStep(w) \/ PoolStep(w) \/ CheckRaises(w)
         \/ \E q \in Queries : KeepHitsRaises(w, q)
  PROVE  /\ MovesForward(w)
         /\ \A v \in Workers \ {w} : StaysPut(v)
<1> USE DEF PassInv, TypeOK
<1>0. MaxRetries \in Nat \ {0}
  BY MaxRetriesAssumption
<1>1. ASSUME NEW q \in Queries, NEW from \in TaskState, NEW to \in TaskState,
             MoveTask(w, q, from, to), UNCHANGED pc,
             tries' = tries \/ (tries' = [tries EXCEPT ![w][q] = 0]),
             \/ from = "unchecked" /\ to \in {"hit", "queued"}
             \/ from = "queued" /\ to = "calling"
             \/ from = "calling" /\ to \in {"answered", "gaveup"}
             \/ from = "answered" /\ to = "kept"
             \/ from = "gaveup" /\ to = "failed"
      PROVE  MovesForward(w) /\ \A v \in Workers \ {w} : StaysPut(v)
  <2>1. /\ task[w][q] = from /\ task'[w][q] = to
        /\ \A v \in Workers, r \in Queries : v # w \/ r # q => task'[v][r] = task[v][r]
    BY <1>1, MoveTaskEffect
  <2>2. /\ \A r \in Queries \ {q} : task'[w][r] = task[w][r] /\ tries'[w][r] = tries[w][r]
        /\ tries'[w][q] \in 0..(MaxRetries - 1) /\ tries[w][q] \in 0..(MaxRetries - 1)
    BY <1>1, <2>1
  <2>3. QueryToGo(w, q)' \in Nat /\ QueryToGo(w, q)' < QueryToGo(w, q)
    BY <1>0, <1>1, <2>1, <2>2 DEF QueryToGo
  <2>4. \A v \in Workers \ {w} : StaysPut(v)
    BY <1>1 DEF MoveTask, StaysPut
  <2> QED
    BY <1>1, <2>2, <2>3, <2>4, OneQueryForward
<1>2. ASSUME NEW q \in Queries,
             \/ CheckHit(w, q) \/ CheckMiss(w, q) \/ KeepHits(w, q) \/ NoteFailure(w, q)
             \/ StartSearch(w, q) \/ ExaAnswers(w, q) \/ GiveUp(w, q)
      PROVE  MovesForward(w) /\ \A v \in Workers \ {w} : StaysPut(v)
  BY <1>1, <1>2
     DEF CheckHit, CheckMiss, KeepHits, NoteFailure, StartSearch, ExaAnswers, GiveUp, poolFrame,
         TaskState
<1>3. ASSUME NEW q \in Queries, ExaFails(w, q)
      PROVE  MovesForward(w) /\ \A v \in Workers \ {w} : StaysPut(v)
  <2>1. /\ UNCHANGED <<pc, task>> /\ task[w][q] = "calling"
        /\ tries'[w][q] = tries[w][q] + 1 /\ tries[w][q] \in Nat
        /\ \A r \in Queries \ {q} : tries'[w][r] = tries[w][r]
        /\ \A v \in Workers \ {w} : tries'[v] = tries[v]
    BY <1>0, <1>3 DEF ExaFails, poolFrame
  <2>2. QueryToGo(w, q)' \in Nat /\ QueryToGo(w, q)' < QueryToGo(w, q)
    BY <1>0, <2>1 DEF QueryToGo
  <2> QED
    BY <2>1, <2>2, OneQueryForward DEF StaysPut
<1>4. CASE OpenPool(w) \/ FinishPass(w) \/ ClosePool(w) \/ CheckRaises(w)
           \/ \E q \in Queries : KeepHitsRaises(w, q)
  <2>1. UNCHANGED passVars
    BY <1>4 DEF OpenPool, FinishPass, ClosePool, CheckRaises, KeepHitsRaises
  <2>2. \A v \in Workers \ {w} : StaysPut(v)
    BY <1>4, <2>1
       DEF OpenPool, FinishPass, ClosePool, CheckRaises, KeepHitsRaises, StaysPut, passVars
  <2>3. \/ pc[w] = "checking" /\ pc'[w] \in {"waiting", "returned", "raised"}
        \/ pc[w] = "waiting" /\ pc'[w] \in {"closing", "returned", "raised"}
        \/ pc[w] = "closing" /\ pc'[w] = "raised"
    BY <1>4 DEF OpenPool, FinishPass, ClosePool, CheckRaises, KeepHitsRaises
  <2>4. ThreadToGo(w)' < ThreadToGo(w)
    BY <2>3 DEF ThreadToGo
  <2>5. \A q \in Queries : QueryToGo(w, q)' = QueryToGo(w, q) /\ QueryToGo(w, q) \in Nat
    BY <2>1, ToGoIsNat DEF QueryToGo, passVars
  <2>6. ThreadToGo(w)' \in Nat /\ ThreadToGo(w) \in Nat
    BY DEF ThreadToGo
  <2> QED
    BY <2>2, <2>4, <2>5, <2>6 DEF MovesForward
<1> QED
  BY <1>2, <1>3, <1>4 DEF PassStep, PoolStep

\* Whatever the caller, the pool, Exa, Redis and other passes do, a pass stays
\* where it is, goes forward, or is over.
THEOREM PassesMoveForward ==
  Spec => [][\A w \in Workers :
               pc[w] # "idle" /\ pc'[w] # "idle" => StaysPut(w) \/ MovesForward(w)]_vars
<1>1. PassInv /\ PassInv' /\ [Next]_vars
        => [\A w \in Workers :
              pc[w] # "idle" /\ pc'[w] # "idle" => StaysPut(w) \/ MovesForward(w)]_vars
  <2> SUFFICES ASSUME PassInv, PassInv', Next, NEW w \in Workers,
                      pc[w] # "idle", pc'[w] # "idle"
               PROVE  StaysPut(w) \/ MovesForward(w)
    BY DEF vars
  <2>1. CASE \E t \in Texts : Expire(t)
    BY <2>1 DEF Expire, StaysPut, passVars
  <2>2. ASSUME NEW v \in Workers,
               StartPass(v) \/ LeavePass(v) \/ Crash(v)
        PROVE  StaysPut(w)
    <3>1. v # w
      BY <2>2 DEF StartPass, LeavePass, Crash, ForgetPass, PassInv, TypeOK
    <3> QED
      BY <2>2, <3>1 DEF StartPass, LeavePass, Crash, ForgetPass, PassInv, TypeOK, StaysPut
  <2>3. ASSUME NEW v \in Workers,
               \/ PassStep(v) \/ PoolStep(v) \/ CheckRaises(v)
               \/ \E q \in Queries : KeepHitsRaises(v, q)
        PROVE  StaysPut(w) \/ MovesForward(w)
    BY <2>3, OwnStepGoesForward
  <2> QED
    BY <2>1, <2>2, <2>3 DEF Next
<1> QED
  BY <1>1, InvAlways, PTL DEF Spec

\* The guards of the steps a pass takes by itself, without faults: a cache
\* lookup, an Exa call's start or end, an answer or failure collected, and the
\* steps of the calling thread from one phase to the next.
SomethingToDo(w) ==
    \/ /\ pc[w] = "checking"
       /\ \/ \E q \in Queries : IsFirst(w, q, "unchecked")
          \/ \A q \in Queries : task[w][q] # "unchecked"
    \/ /\ PoolIsOpen(w)
       /\ \/ \E q \in Queries : task[w][q] = "calling"
          \/ /\ \E q \in Queries : IsFirst(w, q, "queued")
             /\ Cardinality({r \in Queries : task[w][r] = "calling"}) < MaxConcurrency
    \/ /\ pc[w] = "waiting"
       /\ \/ \E q \in Queries : task[w][q] \in {"answered", "gaveup"}
          \/ \A q \in asked[w] : task[w][q] \in {"hit", "kept", "failed"}
    \/ /\ pc[w] = "closing"
       /\ \A q \in asked[w] : task[w][q] \notin {"queued", "calling"}

PassesAreNeverStuck ==
    \A w \in Workers : pc[w] \in {"checking", "waiting", "closing"} => SomethingToDo(w)

\* Of the queries in a state there is a first one.
LEMMA SomeQueryIsFirst ==
  ASSUME NEW w \in Workers, NEW state, NEW q \in Queries, task[w][q] = state
  PROVE  \E r \in Queries : IsFirst(w, r, state)
<1> DEFINE T == {r \in Queries : task[w][r] = state}
<1>1. T \subseteq Nat /\ T # {}
  BY QueriesAssumption
<1>2. PICK first \in T : \A r \in T : <<r, first>> \notin OpToRel(<, Nat)
  BY <1>1, NatLessThanWellFounded, WFMin
<1>3. \A r \in T : ~(r < first)
  BY <1>1, <1>2 DEF OpToRel
<1> QED
  BY <1>1, <1>3 DEF IsFirst

\* The pool never waits for itself: with no call running there is a free
\* thread, because max_workers is at least 1.
LEMMA NothingIsStuck == PassInv => PassesAreNeverStuck
<1> SUFFICES ASSUME PassInv, NEW w \in Workers, pc[w] \in {"checking", "waiting", "closing"}
             PROVE  SomethingToDo(w)
  BY DEF PassesAreNeverStuck
<1>1. CASE pc[w] = "checking"
  BY <1>1, SomeQueryIsFirst DEF SomethingToDo
<1>2. CASE pc[w] \in {"waiting", "closing"} /\ \E q \in Queries : task[w][q] = "calling"
  BY <1>2 DEF SomethingToDo, PoolIsOpen
<1>3. ASSUME pc[w] \in {"waiting", "closing"}, \A q \in Queries : task[w][q] # "calling",
             NEW q \in Queries, task[w][q] = "queued"
      PROVE  SomethingToDo(w)
  <2>1. {r \in Queries : task[w][r] = "calling"} = {}
    BY <1>3
  <2>2. Cardinality({r \in Queries : task[w][r] = "calling"}) < MaxConcurrency
    BY <2>1, FS_EmptySet, MaxConcurrencyAssumption
  <2>3. \E r \in Queries : IsFirst(w, r, "queued")
    BY <1>3, SomeQueryIsFirst
  <2> QED
    BY <1>3, <2>2, <2>3 DEF SomethingToDo, PoolIsOpen
<1>4. CASE /\ pc[w] \in {"waiting", "closing"}
           /\ \A q \in Queries : task[w][q] \notin {"calling", "queued"}
  <2>1. \A q \in asked[w] :
          /\ q \in Queries
          /\ task[w][q] \in {"hit", "answered", "gaveup", "kept", "failed"}
    BY <1>4 DEF PassInv, TypeOK, TaskState, Placed, PlacedAt
  <2> QED
    BY <1>4, <2>1 DEF SomethingToDo
<1> QED
  BY <1>1, <1>2, <1>3, <1>4

\* No pass waits for ever for its pool, nor the pool for the pass, however many
\* queries, threads and other workers there are.
THEOREM PassesNeverGetStuck == Spec => []PassesAreNeverStuck
BY InvAlways, NothingIsStuck, PTL

=============================================================================
