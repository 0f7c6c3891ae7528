------------------------ MODULE JobLifecycle_proofs ------------------------
(***************************************************************************)
(* Proofs about JobLifecycle, for any number of jobs, workers, views and   *)
(* requests.                                                               *)
(***************************************************************************)
EXTENDS JobLifecycle, FiniteSetTheorems, TLAPS

-----------------------------------------------------------------------------
(* Types *)

\* The initial state is well typed.
LEMMA InitTypeOK == Init => TypeOK
BY DEF Init, TypeOK, Status, PullPc, CheckPc

\* The number of jobs dated, or entered, so far.
LEMMA RankCount ==
    ASSUME NEW rank
    PROVE  IsFiniteSet(Ranked(rank)) /\ Cardinality(Ranked(rank)) \in Nat
<1>1. IsFiniteSet(Ranked(rank))
    BY FiniteAssumption, FS_Subset DEF Ranked
<1>. QED  BY <1>1, FS_CardinalityType

\* Every step keeps the variables well typed.
LEMMA NextTypeOK == TypeOK /\ [Next]_vars => TypeOK'
<1> SUFFICES ASSUME TypeOK, [Next]_vars PROVE TypeOK'
    OBVIOUS
<1> USE DEF TypeOK, Status, PullPc, CheckPc, rowVars, pullVars, checkVars, workerVars
<1>1. ASSUME NEW j \in Job, CreateStep(j) PROVE TypeOK'
  <2>1. Cardinality(Ranked(birth)) + 1 \in Nat /\ Cardinality(Ranked(entry)) + 1 \in Nat
      BY RankCount
  <2>. QED  BY <1>1, <2>1 DEF CreateStep, DateJob, InsertJob
<1>2. ASSUME NEW j \in Job, GrowOld(j) PROVE TypeOK'
    BY <1>2 DEF GrowOld
<1>3. ASSUME NEW j \in Job, ProcessStep(j) PROVE TypeOK'
    BY <1>3 DEF ProcessStep, OpenResult, GradeResult, ExitProcess
<1>4. ASSUME NEW d \in Deleter, DeleteRow(d) \/ \E j \in Job : CheckDeletable(d, j)
      PROVE TypeOK'
    BY <1>4 DEF DeleteRow, CheckDeletable
<1>5. ASSUME NEW w \in Worker, PullStep(w) PROVE TypeOK'
  <2>1. CASE PullList(w)
      BY <2>1 DEF PullList
  <2>2. CASE PullGet(w)
    <3>1. CASE EndPull(w)
        BY <2>2, <3>1 DEF PullGet, EndPull
    <3>2. ASSUME NEW j \in Job,
                 pullPc' = [pullPc EXCEPT ![w] = "picked"],
                 pullJob' = [pullJob EXCEPT ![w] = j]
          PROVE  TypeOK'
        BY <2>2, <3>2, NobodyAssumption DEF PullGet
    <3>. QED  BY <2>2, <3>1, <3>2 DEF PullGet
  <2>3. CASE PullClaim(w)
    <3>1. CASE EndPull(w) /\ UNCHANGED <<status, url, young>>
        BY <2>3, <3>1 DEF PullClaim, EndPull
    <3>2. CASE /\ status' = [status EXCEPT ![pullJob[w]] = "running"]
               /\ url' = [url EXCEPT ![pullJob[w]] = w]
               /\ young' = [young EXCEPT ![pullJob[w]] = TRUE]
               /\ pullPc' = [pullPc EXCEPT ![w] = "claimed"]
               /\ UNCHANGED pullJob
        BY <2>3, <3>2 DEF PullClaim
    <3>. QED
        BY <2>3, <3>1, <3>2 DEF PullClaim
  <2>4. CASE PullAnswer(w)
      BY <2>4 DEF PullAnswer, EndPull
  <2>. QED  BY <1>5, <2>1, <2>2, <2>3, <2>4 DEF PullStep
<1>6. ASSUME NEW w \in Worker, LoseAnswer(w) PROVE TypeOK'
    BY <1>6 DEF LoseAnswer, EndPull
<1>7. ASSUME NEW w \in Worker, StartController(w) PROVE TypeOK'
  <2>1. pullJob[w] \in Job
      BY <1>7 DEF StartController
  <2>. QED  BY <1>7, <2>1 DEF StartController, EndPull
<1>8. ASSUME NEW w \in Worker, CrashWorker(w) \/ RestartWorker(w) PROVE TypeOK'
    BY <1>8 DEF CrashWorker, RestartWorker
<1>9. ASSUME NEW w \in Worker, NEW j \in Job, CloseController(w, j) PROVE TypeOK'
    BY <1>9 DEF CloseController
<1>10. ASSUME NEW c \in Checker, NEW S \in SUBSET RunningRows, ReadRunning(c, S)
       PROVE TypeOK'
    BY <1>10 DEF ReadRunning, CopyOf, Copy, RunningRows, RowsWith
<1>11. ASSUME NEW c \in Checker, CheckStep(c) PROVE TypeOK'
  <2>1. ASSUME NEW r \in todo[c], SkipYoung(c, r) PROVE TypeOK'
      BY <2>1 DEF SkipYoung, GoOn
  <2>2. ASSUME NEW r \in todo[c], Poll(c, r) PROVE TypeOK'
      BY <2>2 DEF Poll, GoOn, Answer
  <2>3. ASSUME NEW r \in todo[c], BreakPoll(c, r) PROVE TypeOK'
      BY <2>3 DEF BreakPoll
  <2>4. CASE LoadVerdict(c)
    <3>1. Verdict(word[c], LoadedStatus(copy[c].job)) \in Closed
        BY <2>4 DEF LoadVerdict, Verdict, LoadedStatus, Answer, Closed, Final
    <3>. QED  BY <2>4, <3>1 DEF LoadVerdict
  <2>5. CASE SaveVerdict(c)
      BY <2>5 DEF SaveVerdict, GoOn, Copy
  <2>. QED  BY <1>11, <2>1, <2>2, <2>3, <2>4, <2>5 DEF CheckStep
<1>12. CASE UNCHANGED vars
    BY <1>12 DEF vars
<1>. QED  BY <1>1, <1>2, <1>3, <1>4, <1>5, <1>6, <1>7, <1>8, <1>9, <1>10, <1>11, <1>12
          DEF Next, DeliverStep, RefreshStep, ViewStep, Checker

\* The variables of JobLifecycle always have their types.
THEOREM TypeInvariant == Spec => []TypeOK
<1>. QED  BY InitTypeOK, NextTypeOK, PTL DEF Spec

-----------------------------------------------------------------------------
(* Handing out a job once *)

\* Initially no job is born and nobody holds one.
LEMMA InitHandoutInv == Init => HandoutInv
BY DEF Init, HandoutInv, Unclaimed, HasJob, InFlight, OnWorker, Held

\* Steps of the frontend that create, delete and age rows.
LEMMA RowsKeepHandoutInv ==
    ASSUME TypeOK, HandoutInv,
           \/ \E j \in Job : CreateStep(j) \/ GrowOld(j)
           \/ \E d \in Deleter : DeleteRow(d) \/ \E j \in Job : CheckDeletable(d, j)
    PROVE  HandoutInv'
<1> USE DEF TypeOK, HandoutInv, rowVars, pullVars, checkVars, workerVars,
            Unclaimed, HasJob, InFlight, OnWorker, Held, Status
<1>1. ASSUME NEW j \in Job, CreateStep(j) PROVE HandoutInv'
  <2>1. CASE DateJob(j)
    <3>1. /\ birth[j] = 0 /\ \A k \in Job : k # j => birth'[k] = birth[k]
          /\ UNCHANGED <<status, url, young, pullVars, deletion, checkVars, workerVars>>
        BY <2>1 DEF DateJob
    <3>2. birth'[j] # 0
        BY <2>1, RankCount DEF DateJob
    <3>. QED  BY <3>1, <3>2
  <2>2. CASE InsertJob(j)
    <3>1. /\ birth[j] # 0 /\ status[j] = "new" /\ status' = [status EXCEPT ![j] = "waiting"]
          /\ UNCHANGED <<url, birth, young, pullVars, deletion, checkVars, workerVars>>
        BY <2>2 DEF InsertJob
    <3>. QED  BY <3>1
  <2>. QED  BY <1>1, <2>1, <2>2 DEF CreateStep
<1>2. ASSUME NEW j \in Job, GrowOld(j) PROVE HandoutInv'
    BY <1>2 DEF GrowOld
<1>3. ASSUME NEW d \in Deleter, DeleteRow(d) PROVE HandoutInv'
    BY <1>3 DEF DeleteRow
<1>4. ASSUME NEW d \in Deleter, NEW j \in Job, CheckDeletable(d, j) PROVE HandoutInv'
    BY <1>4 DEF CheckDeletable
<1>. QED  BY <1>1, <1>2, <1>3, <1>4

\* Steps of a pull request and of the delivery of its answer.
LEMMA PullKeepsHandoutInv ==
    ASSUME TypeOK, HandoutInv, NEW w \in Worker, PullStep(w) \/ DeliverStep(w)
    PROVE  HandoutInv'
<1> USE DEF TypeOK, HandoutInv, rowVars, pullVars, checkVars, workerVars,
            Unclaimed, HasJob, InFlight, OnWorker, Held, Status, PullPc
<1>1. CASE PullList(w)
    BY <1>1 DEF PullList
<1>2. CASE PullGet(w)
  <2>1. CASE EndPull(w)
      BY <1>2, <2>1 DEF PullGet, EndPull
  <2>2. ASSUME NEW j \in Job, IsNextWaiting(j),
               pullPc' = [pullPc EXCEPT ![w] = "picked"],
               pullJob' = [pullJob EXCEPT ![w] = j]
        PROVE  HandoutInv'
    <3>1. status[j] = "waiting"
        BY <2>2 DEF IsNextWaiting
    <3>2. \A v \in Worker, k \in Job : HasJob(v, k)' => HasJob(v, k)
        BY <1>2, <2>2 DEF PullGet
    <3>. QED  BY <1>2, <2>2, <3>1, <3>2 DEF PullGet
  <2>. QED  BY <1>2, <2>1, <2>2 DEF PullGet
<1>3. CASE PullClaim(w)
  <2>1. CASE EndPull(w) /\ UNCHANGED <<status, url, young>>
      BY <1>3, <2>1 DEF PullClaim, EndPull
  <2>2. ASSUME NEW j \in Job, j = pullJob[w],
               status[j] = "waiting",
               status' = [status EXCEPT ![j] = "running"],
               url' = [url EXCEPT ![j] = w],
               pullPc' = [pullPc EXCEPT ![w] = "claimed"],
               UNCHANGED <<pullJob, birth, deletion, checkVars, workerVars>>
        PROVE  HandoutInv'
    <3>1. \A v \in Worker : ~HasJob(v, j)
        BY <2>2
    <3>2. birth[j] # 0 /\ pullPc[w] = "picked"
        BY <1>3, <2>2 DEF PullClaim
    <3>3. \A v \in Worker, k \in Job : HasJob(v, k)' => HasJob(v, k) \/ (v = w /\ k = j)
        BY <2>2
    <3>4. \A k \in Job : Unclaimed(k)' => Unclaimed(k) /\ k # j
        BY <2>2, <3>2
    <3>. QED  BY <2>2, <3>1, <3>2, <3>3, <3>4
  <2>3. pullJob[w] \in Job
      BY <1>3 DEF PullClaim
  <2>. QED  BY <1>3, <2>1, <2>2, <2>3 DEF PullClaim, IsClaimable
<1>4. CASE PullAnswer(w)
    BY <1>4 DEF PullAnswer, EndPull
<1>5. CASE StartController(w)
    BY <1>5 DEF StartController, EndPull
<1>6. CASE LoseAnswer(w)
    BY <1>6 DEF LoseAnswer, EndPull
<1>. QED  BY <1>1, <1>2, <1>3, <1>4, <1>5, <1>6 DEF PullStep, DeliverStep

\* Steps of the subprocesses, the controllers and the containers.
LEMMA WorkKeepsHandoutInv ==
    ASSUME TypeOK, HandoutInv,
           \/ \E j \in Job : ProcessStep(j)
           \/ \E w \in Worker : CrashWorker(w) \/ RestartWorker(w)
                                 \/ \E j \in Job : CloseController(w, j)
    PROVE  HandoutInv'
<1> USE DEF TypeOK, HandoutInv, rowVars, pullVars, checkVars, workerVars,
            Unclaimed, HasJob, InFlight, OnWorker, Held
<1>1. ASSUME NEW j \in Job, ProcessStep(j) PROVE HandoutInv'
    BY <1>1 DEF ProcessStep, OpenResult, GradeResult, ExitProcess
<1>2. ASSUME NEW w \in Worker, CrashWorker(w) PROVE HandoutInv'
    BY <1>2 DEF CrashWorker
<1>3. ASSUME NEW w \in Worker, RestartWorker(w) PROVE HandoutInv'
    BY <1>3 DEF RestartWorker
<1>4. ASSUME NEW w \in Worker, NEW j \in Job, CloseController(w, j) PROVE HandoutInv'
    BY <1>4 DEF CloseController, HasExited
<1>. QED  BY <1>1, <1>2, <1>3, <1>4

\* Steps of the checkers.
LEMMA ChecksKeepHandoutInv ==
    ASSUME TypeOK, HandoutInv, NEW c \in Checker,
           (\E S \in SUBSET RunningRows : ReadRunning(c, S)) \/ CheckStep(c)
    PROVE  HandoutInv'
<1> USE DEF TypeOK, HandoutInv, rowVars, pullVars, checkVars, workerVars,
            Unclaimed, HasJob, InFlight, OnWorker, Held, CheckPc
<1>1. ASSUME NEW S \in SUBSET RunningRows, ReadRunning(c, S) PROVE HandoutInv'
    BY <1>1 DEF ReadRunning, RunningRows, RowsWith, CopyOf
<1>2. ASSUME NEW r \in todo[c], SkipYoung(c, r) PROVE HandoutInv'
    BY <1>2 DEF SkipYoung, GoOn
<1>3. ASSUME NEW r \in todo[c], Poll(c, r) PROVE HandoutInv'
    BY <1>3 DEF Poll, GoOn
<1>4. ASSUME NEW r \in todo[c], BreakPoll(c, r) PROVE HandoutInv'
    BY <1>4 DEF BreakPoll
<1>5. CASE LoadVerdict(c)
    BY <1>5 DEF LoadVerdict
<1>6. CASE SaveVerdict(c)
    BY <1>6 DEF SaveVerdict, GoOn, Closed, Final, Graded
<1>. QED  BY <1>1, <1>2, <1>3, <1>4, <1>5, <1>6 DEF CheckStep

\* Every step of the system keeps the hand-out bookkeeping right.
LEMMA NextHandoutInv == TypeOK /\ HandoutInv /\ [Next]_vars => HandoutInv'
<1> SUFFICES ASSUME TypeOK, HandoutInv, [Next]_vars PROVE HandoutInv'
    OBVIOUS
<1>1. CASE \/ \E j \in Job : CreateStep(j) \/ GrowOld(j)
           \/ \E d \in Deleter : DeleteRow(d) \/ \E j \in Job : CheckDeletable(d, j)
    BY <1>1, RowsKeepHandoutInv
<1>2. CASE \E w \in Worker : PullStep(w) \/ DeliverStep(w)
    BY <1>2, PullKeepsHandoutInv
<1>3. CASE \/ \E j \in Job : ProcessStep(j)
           \/ \E w \in Worker : CrashWorker(w) \/ RestartWorker(w)
                                 \/ \E j \in Job : CloseController(w, j)
    BY <1>3, WorkKeepsHandoutInv
<1>4. CASE \E c \in Checker :
              (\E S \in SUBSET RunningRows : ReadRunning(c, S)) \/ CheckStep(c)
    BY <1>4, ChecksKeepHandoutInv
<1>5. CASE UNCHANGED vars
    BY <1>5 DEF vars, rowVars, pullVars, checkVars, workerVars, HandoutInv,
                Unclaimed, HasJob, InFlight, OnWorker, Held
<1>. QED  BY <1>1, <1>2, <1>3, <1>4, <1>5 DEF Next, RefreshStep, ViewStep, Checker

\* The hand-out bookkeeping is right at all times.
THEOREM HandoutInvariant == Spec => [](TypeOK /\ HandoutInv)
<1>. QED  BY InitTypeOK, InitHandoutInv, NextTypeOK, NextHandoutInv, PTL DEF Spec

\* A job is handed out to at most one worker and launched at most once.
THEOREM JobsAreHandedOutOnce == Spec => []HandedOutOnce
<1>1. TypeOK /\ HandoutInv => HandedOutOnce
    BY DEF TypeOK, HandoutInv, HandedOutOnce
<1>. QED  BY <1>1, HandoutInvariant, PTL

-----------------------------------------------------------------------------
(* Slots *)

\* What removing from or adding to a finite set does to its cardinality.
LEMMA CardinalityStep ==
    ASSUME NEW S, NEW x, IsFiniteSet(S)
    PROVE  /\ Cardinality(S) \in Nat
           /\ Cardinality(S \union {x}) <= Cardinality(S) + 1
           /\ Cardinality(S \ {x}) <= Cardinality(S)
<1>1. Cardinality(S) \in Nat /\ Cardinality(S \ {x}) \in Nat
    BY FS_CardinalityType, FS_Subset
<1>2. Cardinality(S \union {x}) <= Cardinality(S) + 1
  <2>1. Cardinality(S \union {x}) = Cardinality(S) \/ Cardinality(S \union {x}) = Cardinality(S) + 1
      BY FS_AddElement, Zenon
  <2>. QED  BY <1>1, <2>1
<1>3. Cardinality(S \ {x}) <= Cardinality(S)
    BY <1>1, FS_RemoveElement
<1>. QED  BY <1>1, <1>2, <1>3

\* An inductive form of SlotsRespected: a stopped worker has an empty table.
SlotsInv == SlotsRespected /\ \A w \in Worker : ~up[w] => table[w] = {}

\* Every step respects the slots of every worker.
LEMMA NextSlotsInv == TypeOK /\ SlotsInv /\ [Next]_vars => SlotsInv'
<1> SUFFICES ASSUME TypeOK, SlotsInv, [Next]_vars PROVE SlotsInv'
    OBVIOUS
<1> DEFINE Asks(w) == up[w] /\ pullPc[w] # "idle"
<1> USE DEF SlotsInv, SlotsRespected, rowVars, pullVars, checkVars, workerVars
<1>1. \A w \in Worker : /\ IsFiniteSet(table[w]) /\ Cardinality(table[w]) \in Nat
                        /\ Cardinality(table[w]) <= MaxSlots
    <2>1. \A w \in Worker : IsFiniteSet(table[w]) /\ Cardinality(table[w]) \in Nat
        BY FiniteAssumption, FS_Subset, FS_CardinalityType DEF TypeOK
    <2>. QED  BY <2>1, SlotsAssumption
<1>2. Cardinality({}) = 0 /\ MaxSlots \in Nat /\ MaxSlots >= 1
    BY SlotsAssumption, FS_EmptySet
<1>3. ASSUME NEW w \in Worker, PullList(w) PROVE SlotsInv'
    BY <1>1, <1>2, <1>3 DEF PullList, FreeSlots, TypeOK
<1>4. ASSUME NEW w \in Worker, PullGet(w) \/ PullClaim(w) \/ PullAnswer(w) \/ LoseAnswer(w)
      PROVE  SlotsInv'
  <2>1. \A v \in Worker : Asks(v)' => Asks(v)
      BY <1>4 DEF PullGet, PullClaim, PullAnswer, LoseAnswer, EndPull, TypeOK
  <2>2. UNCHANGED <<table, up>>
      BY <1>4 DEF PullGet, PullClaim, PullAnswer, LoseAnswer
  <2>. QED  BY <1>1, <1>2, <2>1, <2>2
<1>5. ASSUME NEW w \in Worker, StartController(w) PROVE SlotsInv'
  <2>1. PICK j : table' = [table EXCEPT ![w] = table[w] \union {j}]
      BY <1>5 DEF StartController
  <2>2. Cardinality(table[w] \union {j}) <= Cardinality(table[w]) + 1
      BY <1>1, CardinalityStep
  <2>3. Cardinality(table[w] \union {j}) \in Nat
      BY <1>1, FS_AddElement, FS_CardinalityType
  <2>4. /\ up' = up /\ up[w] /\ pullPc[w] # "idle"
        /\ pullPc' = [pullPc EXCEPT ![w] = "idle"]
      BY <1>5 DEF StartController, EndPull
  <2>5. table'[w] = table[w] \union {j} /\ pullPc'[w] = "idle"
      BY <2>1, <2>4 DEF TypeOK
  <2>6. \A v \in Worker \ {w} : table'[v] = table[v] /\ pullPc'[v] = pullPc[v]
      BY <2>1, <2>4 DEF TypeOK
  <2>. QED  BY <1>1, <1>2, <2>2, <2>3, <2>4, <2>5, <2>6
<1>6. ASSUME NEW w \in Worker, CrashWorker(w) \/ RestartWorker(w) PROVE SlotsInv'
  <2>1. table'[w] = {} /\ (up'[w] => pullPc[w] = "idle") /\ pullPc' = pullPc
      BY <1>6 DEF CrashWorker, RestartWorker, TypeOK
  <2>2. \A v \in Worker \ {w} : table'[v] = table[v] /\ up'[v] = up[v]
      BY <1>6 DEF CrashWorker, RestartWorker, TypeOK
  <2>3. Cardinality(table'[w]) + (IF up'[w] /\ pullPc'[w] # "idle" THEN 1 ELSE 0) <= MaxSlots
      BY <1>2, <2>1
  <2>. QED  BY <2>1, <2>2, <2>3
<1>7. ASSUME NEW w \in Worker, NEW j \in Job, CloseController(w, j) PROVE SlotsInv'
  <2>1. Cardinality(table[w] \ {j}) <= Cardinality(table[w])
      BY <1>1, CardinalityStep
  <2>2. Cardinality(table[w] \ {j}) \in Nat
      BY <1>1, FS_RemoveElement, FS_CardinalityType
  <2>. QED  BY <1>1, <1>2, <1>7, <2>1, <2>2 DEF CloseController, TypeOK
<1>8. CASE UNCHANGED <<pullPc, up, table>>
    BY <1>8
<1>9. ASSUME NEW j \in Job, CreateStep(j) \/ GrowOld(j) \/ ProcessStep(j)
      PROVE  UNCHANGED <<pullPc, up, table>>
    BY <1>9 DEF CreateStep, DateJob, InsertJob, GrowOld, ProcessStep, OpenResult, GradeResult, ExitProcess
<1>10. ASSUME NEW d \in Deleter, DeleteRow(d) \/ \E j \in Job : CheckDeletable(d, j)
       PROVE  UNCHANGED <<pullPc, up, table>>
    BY <1>10 DEF DeleteRow, CheckDeletable
<1>11. ASSUME NEW c \in Checker,
              (\E S \in SUBSET RunningRows : ReadRunning(c, S)) \/ CheckStep(c)
       PROVE  UNCHANGED <<pullPc, up, table>>
    BY <1>11 DEF ReadRunning, CheckStep, SkipYoung, Poll, BreakPoll, LoadVerdict, SaveVerdict
<1>12. UNCHANGED vars => UNCHANGED <<pullPc, up, table>>
    BY DEF vars
<1>. QED  BY <1>3, <1>4, <1>5, <1>6, <1>7, <1>8, <1>9, <1>10, <1>11, <1>12
          DEF Next, PullStep, DeliverStep, RefreshStep, ViewStep, Checker

\* SlotsInv holds in every behaviour of Scheduler.run and JobController.
LEMMA SlotsInvariant == Spec => []SlotsInv
<1>1. Init => SlotsInv
    BY SlotsAssumption, FS_EmptySet DEF Init, SlotsInv, SlotsRespected
<1>. QED  BY <1>1, NextSlotsInv, TypeInvariant, PTL DEF Spec

\* No worker ever has more jobs than slots.
THEOREM SlotsAreRespected == Spec => []SlotsRespected
<1>1. SlotsInv => SlotsRespected
    BY DEF SlotsInv
<1>. QED  BY <1>1, SlotsInvariant, PTL

-----------------------------------------------------------------------------
(* Verdicts *)

\* Every step keeps the grades in the database and those on their way true.
LEMMA NextVerdictInv == TypeOK /\ VerdictInv /\ [Next]_vars => VerdictInv'
<1> SUFFICES ASSUME TypeOK, VerdictInv, [Next]_vars PROVE VerdictInv'
    OBVIOUS
<1> USE DEF VerdictInv, GradeIsTrue, rowVars, pullVars, checkVars, workerVars
<1>1. ASSUME NEW j \in Job, GradeResult(j) PROVE VerdictInv'
  <2>1. PICK v \in Final : IsGradable(j, v) /\ result' = [result EXCEPT ![j] = v]
      BY <1>1 DEF GradeResult
  <2>2. result[j] \notin Graded
      BY <2>1 DEF IsGradable, Graded
  <2>. QED  BY <1>1, <2>1, <2>2 DEF GradeResult, TypeOK, Copy
<1>2. ASSUME NEW j \in Job, OpenResult(j) PROVE VerdictInv'
    BY <1>2 DEF OpenResult, TypeOK, Copy, Graded
<1>3. ASSUME NEW c \in Checker, LoadVerdict(c) PROVE VerdictInv'
  <2>1. Verdict(word[c], LoadedStatus(copy[c].job)) \in Graded =>
            Verdict(word[c], LoadedStatus(copy[c].job)) = result[copy[c].job]
      BY <1>3 DEF LoadVerdict, Verdict, LoadedStatus, Graded, Answer, TypeOK
  <2>. QED  BY <1>3, <2>1 DEF LoadVerdict, TypeOK
<1>4. ASSUME NEW c \in Checker, SaveVerdict(c) PROVE VerdictInv'
    BY <1>4 DEF SaveVerdict, GoOn, TypeOK, Copy
<1>5. ASSUME NEW c \in Checker, NEW r \in todo[c], Poll(c, r) PROVE VerdictInv'
    BY <1>5 DEF Poll, GoOn, TypeOK
<1>6. ASSUME NEW c \in Checker, NEW r \in todo[c], SkipYoung(c, r) \/ BreakPoll(c, r)
      PROVE  VerdictInv'
    BY <1>6 DEF SkipYoung, BreakPoll, GoOn, TypeOK
<1>7. ASSUME NEW c \in Checker, NEW S \in SUBSET RunningRows, ReadRunning(c, S)
      PROVE  VerdictInv'
    BY <1>7 DEF ReadRunning, TypeOK
<1>8. ASSUME NEW j \in Job, CreateStep(j) \/ GrowOld(j) \/ ExitProcess(j)
      PROVE  VerdictInv'
    BY <1>8 DEF CreateStep, DateJob, InsertJob, GrowOld, ExitProcess, TypeOK, Graded
<1>9. ASSUME NEW d \in Deleter, DeleteRow(d) \/ \E j \in Job : CheckDeletable(d, j)
      PROVE  VerdictInv'
    BY <1>9 DEF DeleteRow, CheckDeletable, TypeOK, Graded
<1>10. ASSUME NEW w \in Worker, PullStep(w) \/ DeliverStep(w) PROVE VerdictInv'
    BY <1>10 DEF PullStep, PullList, PullGet, PullClaim, PullAnswer, DeliverStep,
                 StartController, LoseAnswer, TypeOK, Graded
<1>11. ASSUME NEW w \in Worker, CrashWorker(w) \/ RestartWorker(w)
                                 \/ \E j \in Job : CloseController(w, j)
       PROVE  VerdictInv'
    BY <1>11 DEF CrashWorker, RestartWorker, CloseController
<1>12. CASE UNCHANGED vars
    BY <1>12 DEF vars
<1>. QED  BY <1>1, <1>2, <1>3, <1>4, <1>5, <1>6, <1>7, <1>8, <1>9, <1>10, <1>11, <1>12
          DEF Next, ProcessStep, CheckStep, RefreshStep, ViewStep, Checker

\* Grades on their way to the database are as true as those in it.
THEOREM VerdictInvariant == Spec => []VerdictInv
<1>1. Init => VerdictInv
    BY DEF Init, VerdictInv, GradeIsTrue, Graded
<1>. QED  BY <1>1, NextVerdictInv, TypeInvariant, PTL DEF Spec

\* A grade in the database is always the grade in result.json.
THEOREM GradesAreTrue == Spec => []GradeIsTrue
<1>1. VerdictInv => GradeIsTrue
    BY DEF VerdictInv
<1>. QED  BY <1>1, VerdictInvariant, PTL

\* Once a job is over, it stays over and its result does not change.
LEMMA OverStays ==
    ASSUME TypeOK, HandoutInv, [Next]_vars, NEW j \in Job, IsOver(j)
    PROVE  IsOver(j)' /\ result'[j] = result[j]
<1> USE DEF TypeOK, IsOver, Unclaimed, HasJob, InFlight, rowVars, pullVars, checkVars, workerVars
<1>1. process[j] # "running"
    BY DEF HandoutInv, OnWorker
<1>2. ASSUME NEW k \in Job, CreateStep(k) PROVE IsOver(j)' /\ result'[j] = result[j]
    BY <1>2 DEF CreateStep, DateJob, InsertJob
<1>3. ASSUME NEW k \in Job, GrowOld(k) \/ ProcessStep(k)
      PROVE  IsOver(j)' /\ result'[j] = result[j]
    BY <1>1, <1>3 DEF GrowOld, ProcessStep, OpenResult, GradeResult, ExitProcess
<1>4. ASSUME NEW d \in Deleter, DeleteRow(d) \/ \E k \in Job : CheckDeletable(d, k)
      PROVE  IsOver(j)' /\ result'[j] = result[j]
    BY <1>4 DEF DeleteRow, CheckDeletable
<1>5. ASSUME NEW w \in Worker, PullStep(w) \/ LoseAnswer(w)
      PROVE  IsOver(j)' /\ result'[j] = result[j]
  <2>1. status'[j] \notin {"new", "waiting"} /\ UNCHANGED workerVars
      BY <1>5 DEF PullStep, PullList, PullGet, PullClaim, PullAnswer, LoseAnswer
  <2>2. \A v \in Worker : ~InFlight(v, j)'
    <3>1. CASE PullList(w) \/ PullGet(w)
        BY <3>1 DEF PullList, PullGet, EndPull
    <3>2. CASE PullClaim(w)
        BY <3>2 DEF PullClaim, EndPull, IsClaimable
    <3>3. CASE PullAnswer(w) \/ LoseAnswer(w)
        BY <3>3 DEF PullAnswer, LoseAnswer, EndPull
    <3>. QED  BY <1>5, <3>1, <3>2, <3>3 DEF PullStep
  <2>. QED  BY <2>1, <2>2
<1>6. ASSUME NEW w \in Worker, StartController(w) PROVE IsOver(j)' /\ result'[j] = result[j]
  <2>1. pullJob[w] # j
      BY <1>6 DEF StartController
  <2>. QED  BY <1>6, <2>1 DEF StartController, EndPull
<1>7. ASSUME NEW w \in Worker, CrashWorker(w) \/ RestartWorker(w)
                                 \/ \E k \in Job : CloseController(w, k)
      PROVE  IsOver(j)' /\ result'[j] = result[j]
    BY <1>7 DEF CrashWorker, RestartWorker, CloseController
<1>8. ASSUME NEW c \in Checker, SaveVerdict(c) PROVE IsOver(j)' /\ result'[j] = result[j]
    BY <1>8 DEF SaveVerdict, Closed, Final, Graded
<1>9. ASSUME NEW c \in Checker,
             \/ \E S \in SUBSET RunningRows : ReadRunning(c, S)
             \/ \E r \in todo[c] : SkipYoung(c, r) \/ Poll(c, r) \/ BreakPoll(c, r)
             \/ LoadVerdict(c)
      PROVE  UNCHANGED <<status, birth, pullPc, pullJob, table, result>>
    BY <1>9 DEF ReadRunning, SkipYoung, Poll, BreakPoll, LoadVerdict
<1>10. UNCHANGED vars => UNCHANGED <<status, birth, pullPc, pullJob, table, result>>
    BY DEF vars
<1>. QED  BY <1>2, <1>3, <1>4, <1>5, <1>6, <1>7, <1>8, <1>9, <1>10
          DEF Next, DeliverStep, CheckStep, RefreshStep, ViewStep, Checker

\* When the workers pick their jobs up in time, every step keeps a checker that
\* waits for the delay from taking a live job for one in error.
LEMMA NextErrorInv ==
    ASSUME PickupInTime, TypeOK, HandoutInv, ErrorInv, [Next]_vars
    PROVE  ErrorInv'
<1> DEFINE Young == \A w \in Worker, j \in Job : InFlight(w, j) => young[j]
           Asked == \A c \in Patient : checkPc[c] = "loading" /\ word[c] = "null"
                        => IsOver(copy[c].job)
           Told  == \A c \in Patient : checkPc[c] = "saving" /\ word[c] = "error"
                        => IsOver(copy[c].job) /\ result[copy[c].job] \notin Graded
<1>0. Young /\ Asked /\ Told
    BY DEF ErrorInv
<1>s. \A j \in Job : IsOver(j) => IsOver(j)' /\ result'[j] = result[j]
    BY OverStays
<1>c. \A c \in Checker : checkPc[c] \in {"loading", "saving"} => copy[c].job \in Job
    BY DEF TypeOK, Copy
<1>1. Young'
  <2> USE DEF TypeOK, InFlight, rowVars, pullVars, checkVars, workerVars
  <2>1. ASSUME NEW j \in Job, GrowOld(j) PROVE Young'
      BY <1>0, <2>1 DEF GrowOld
  <2>2. ASSUME NEW w \in Worker, PullStep(w) \/ DeliverStep(w) PROVE Young'
    <3>1. CASE PullList(w) \/ PullGet(w)
        BY <1>0, <3>1 DEF PullList, PullGet, EndPull
    <3>2. CASE PullClaim(w)
        BY <1>0, <3>2 DEF PullClaim, EndPull
    <3>3. CASE PullAnswer(w) \/ LoseAnswer(w) \/ StartController(w)
        BY <1>0, <3>3 DEF PullAnswer, LoseAnswer, StartController, EndPull
    <3>. QED  BY <2>2, <3>1, <3>2, <3>3 DEF PullStep, DeliverStep
  <2>3. CASE UNCHANGED <<young, pullPc, pullJob>>
      BY <1>0, <2>3
  <2>4. ASSUME NEW j \in Job, CreateStep(j) \/ ProcessStep(j)
        PROVE  UNCHANGED <<young, pullPc, pullJob>>
      BY <2>4 DEF CreateStep, DateJob, InsertJob, ProcessStep, OpenResult, GradeResult, ExitProcess
  <2>5. ASSUME NEW d \in Deleter, DeleteRow(d) \/ \E j \in Job : CheckDeletable(d, j)
        PROVE  UNCHANGED <<young, pullPc, pullJob>>
      BY <2>5 DEF DeleteRow, CheckDeletable
  <2>6. ASSUME NEW w \in Worker, CrashWorker(w) \/ RestartWorker(w)
                                   \/ \E j \in Job : CloseController(w, j)
        PROVE  UNCHANGED <<young, pullPc, pullJob>>
      BY <2>6 DEF CrashWorker, RestartWorker, CloseController
  <2>7. ASSUME NEW c \in Checker,
               (\E S \in SUBSET RunningRows : ReadRunning(c, S)) \/ CheckStep(c)
        PROVE  UNCHANGED <<young, pullPc, pullJob>>
      BY <2>7 DEF ReadRunning, CheckStep, SkipYoung, Poll, BreakPoll, LoadVerdict, SaveVerdict
  <2>8. UNCHANGED vars => UNCHANGED <<young, pullPc, pullJob>>
      BY DEF vars
  <2>. QED  BY <2>1, <2>2, <2>3, <2>4, <2>5, <2>6, <2>7, <2>8
            DEF Next, RefreshStep, ViewStep, Checker
<1>2. ASSUME NEW c \in Checker, NEW r \in todo[c], Poll(c, r)
      PROVE  Asked' /\ Told'
  <2>1. r \in Copy /\ r.job \in Job /\ (c \in Patient => ~young[r.job])
      BY <1>2 DEF TypeOK, Copy, Poll, IsDue, Patient
  <2>2. ~Unclaimed(r.job) /\ r.url = url[r.job]
      BY <1>2 DEF HandoutInv, Held
  <2>3. c \in Patient => \A w \in Worker : HasJob(w, r.job) => w = r.url /\ r.job \in table[w]
      BY <1>0, <2>1, <2>2 DEF HandoutInv, HasJob
  <2>4. c \in Patient /\ r.job \notin table[r.url] => IsOver(r.job)
      BY <2>2, <2>3 DEF IsOver
  <2>5. UNCHANGED <<rowVars, pullVars, workerVars>>
      BY <1>2 DEF Poll
  <2>6. \A j \in Job : IsOver(j)' <=> IsOver(j)
      BY <2>5 DEF rowVars, pullVars, workerVars, IsOver, Unclaimed, HasJob, InFlight
  <2>. QED  BY <1>0, <1>2, <1>c, <1>s, <2>1, <2>4, <2>5, <2>6
            DEF Poll, GoOn, TypeOK, workerVars, Patient
<1>3. ASSUME NEW c \in Checker, LoadVerdict(c) PROVE Asked' /\ Told'
  <2>1. Verdict(word[c], LoadedStatus(copy[c].job)) = "error" =>
            word[c] = "null" /\ result[copy[c].job] \notin Graded
      BY <1>3 DEF LoadVerdict, Verdict, LoadedStatus, Graded, Final, Answer, TypeOK
  <2>. QED  BY <1>0, <1>3, <1>s, <1>c, <2>1 DEF LoadVerdict, TypeOK, workerVars, Patient
<1>4. ASSUME NEW c \in Checker, SaveVerdict(c) PROVE Asked' /\ Told'
    BY <1>0, <1>4, <1>s, <1>c DEF SaveVerdict, GoOn, TypeOK, workerVars, Patient
<1>5. ASSUME NEW c \in Checker, NEW r \in todo[c], SkipYoung(c, r) \/ BreakPoll(c, r)
      PROVE  Asked' /\ Told'
    BY <1>0, <1>5, <1>s, <1>c DEF SkipYoung, BreakPoll, GoOn, TypeOK, workerVars, Patient
<1>6. ASSUME NEW c \in Checker, NEW S \in SUBSET RunningRows, ReadRunning(c, S)
      PROVE  Asked' /\ Told'
    BY <1>0, <1>6, <1>s, <1>c DEF ReadRunning, TypeOK, workerVars, Patient
<1>7. UNCHANGED checkVars => Asked' /\ Told'
  <2> SUFFICES ASSUME checkPc' = checkPc, copy' = copy, word' = word
               PROVE  Asked' /\ Told'
      BY DEF checkVars
  <2>. QED  BY <1>0, <1>s, <1>c DEF Patient
<1>8. ASSUME NEW j \in Job, CreateStep(j) \/ GrowOld(j) \/ ProcessStep(j)
      PROVE  UNCHANGED checkVars
    BY <1>8 DEF CreateStep, DateJob, InsertJob, GrowOld, ProcessStep, OpenResult, GradeResult,
                ExitProcess
<1>9. ASSUME NEW d \in Deleter, DeleteRow(d) \/ \E j \in Job : CheckDeletable(d, j)
      PROVE  UNCHANGED checkVars
    BY <1>9 DEF DeleteRow, CheckDeletable
<1>10. ASSUME NEW w \in Worker, PullStep(w) \/ DeliverStep(w)
       PROVE  UNCHANGED checkVars
    BY <1>10 DEF PullStep, PullList, PullGet, PullClaim, PullAnswer, DeliverStep,
                 StartController, LoseAnswer
<1>11. ASSUME NEW w \in Worker, CrashWorker(w) \/ RestartWorker(w)
                                  \/ \E j \in Job : CloseController(w, j)
       PROVE  UNCHANGED checkVars
    BY <1>11 DEF CrashWorker, RestartWorker, CloseController
<1>12. UNCHANGED vars => UNCHANGED checkVars
    BY DEF vars
<1>13. Asked' /\ Told'
    BY <1>2, <1>3, <1>4, <1>5, <1>6, <1>7, <1>8, <1>9, <1>10, <1>11, <1>12
       DEF Next, CheckStep, RefreshStep, ViewStep, Checker
<1>. QED  BY <1>1, <1>13 DEF ErrorInv

\* A job is young as long as it is in flight, so that a checker that waits for
\* the delay takes no live job for a finished one.
THEOREM ErrorInvariant ==
    ASSUME PickupInTime
    PROVE  Spec => []ErrorInv
<1>1. Init => ErrorInv
    BY DEF Init, ErrorInv, InFlight, Patient
<1>2. TypeOK /\ HandoutInv /\ ErrorInv /\ [Next]_vars => ErrorInv'
    BY NextErrorInv
<1>. QED  BY <1>1, <1>2, HandoutInvariant, PTL DEF Spec

\* A checker that waits for the delay saves "error" only for a job that is over
\* and left no grade, whatever the history views do meanwhile.
THEOREM ErrorsAreTrue ==
    ASSUME PickupInTime
    PROVE  Spec => []ErrorIsTrue
<1>1. ErrorInv => ErrorIsTrue
    BY DEF ErrorInv, ErrorIsTrue, IsOver
<1>. QED  BY <1>1, ErrorInvariant, PTL

-----------------------------------------------------------------------------
(* What a step may never do *)

\* A job never goes back to waiting or running, whoever saves its row.
THEOREM JobsNeverGoBack == Spec => NeverBack
<1> DEFINE Forward == \A j \in Job :
        /\ status[j] \in Closed \union {"absent"}
              => status'[j] \notin {"waiting", "running"}
        /\ status[j] = "running" => status'[j] # "waiting"
<1>1. TypeOK /\ HandoutInv /\ [Next]_vars => [Forward]_vars
  <2> SUFFICES ASSUME TypeOK, HandoutInv, Next PROVE Forward
      OBVIOUS
  <2> USE DEF TypeOK, rowVars, pullVars, checkVars, workerVars, Closed, Final, Graded
  <2>1. ASSUME NEW j \in Job, CreateStep(j) PROVE Forward
      BY <2>1 DEF CreateStep, DateJob, InsertJob
  <2>2. ASSUME NEW w \in Worker, PullStep(w) PROVE Forward
      BY <2>2 DEF PullStep, PullList, PullGet, PullClaim, PullAnswer, IsClaimable
  <2>3. ASSUME NEW d \in Deleter, DeleteRow(d) PROVE Forward
      BY <2>3 DEF DeleteRow
  <2>4. ASSUME NEW c \in Checker, SaveVerdict(c) PROVE Forward
      BY <2>4 DEF SaveVerdict
  <2>5. CASE status' = status
      BY <2>5
  <2>6. ASSUME NEW j \in Job, GrowOld(j) \/ ProcessStep(j) PROVE status' = status
      BY <2>6 DEF GrowOld, ProcessStep, OpenResult, GradeResult, ExitProcess
  <2>7. ASSUME NEW d \in Deleter, NEW j \in Job, CheckDeletable(d, j) PROVE status' = status
      BY <2>7 DEF CheckDeletable
  <2>8. ASSUME NEW w \in Worker, DeliverStep(w) \/ CrashWorker(w) \/ RestartWorker(w)
                                  \/ \E j \in Job : CloseController(w, j)
        PROVE  status' = status
      BY <2>8 DEF DeliverStep, StartController, LoseAnswer, CrashWorker, RestartWorker,
                  CloseController
  <2>9. ASSUME NEW c \in Checker,
               \/ \E S \in SUBSET RunningRows : ReadRunning(c, S)
               \/ \E r \in todo[c] : SkipYoung(c, r) \/ Poll(c, r) \/ BreakPoll(c, r)
               \/ LoadVerdict(c)
        PROVE  status' = status
      BY <2>9 DEF ReadRunning, SkipYoung, Poll, BreakPoll, LoadVerdict
  <2>. QED  BY <2>1, <2>2, <2>3, <2>4, <2>5, <2>6, <2>7, <2>8, <2>9
            DEF Next, CheckStep, RefreshStep, ViewStep, Checker
<1>. QED  BY <1>1, HandoutInvariant, PTL DEF Spec, NeverBack

-----------------------------------------------------------------------------
(* The order of the queue *)

\* A handler has picked the oldest waiting job, and as long as nobody else has
\* claimed it the older waiting ones were entered since.
QueueInv ==
    /\ \A j \in Job : entry[j] <= Cardinality(Ranked(entry))
    /\ \A j \in Job : status[j] = "new" => entry[j] = 0
    /\ \A w \in Worker : pullPc[w] = "picked" /\ status[pullJob[w]] = "waiting" =>
            \A k \in RowsWith("waiting") :
                birth[pullJob[w]] <= birth[k] \/ entry[pullJob[w]] < entry[k]

\* Every step keeps the order of the queue.
LEMMA NextQueueInv ==
    ASSUME TypeOK, HandoutInv, QueueInv, [Next]_vars
    PROVE  QueueInv'
<1> USE DEF TypeOK, rowVars, pullVars, checkVars, workerVars
<1> DEFINE Entered == Ranked(entry)
<1>0. CASE \E j \in Job : DateJob(j)
  <2>1. PICK j \in Job : DateJob(j)
      BY <1>0
  <2>2. /\ UNCHANGED <<status, entry, pullPc, pullJob>>
        /\ \A k \in Job : status[k] = "waiting" => birth'[k] = birth[k]
      BY <2>1 DEF DateJob, HandoutInv
  <2>. QED  BY <2>2 DEF QueueInv, RowsWith, Ranked
<1>1. ASSUME NEW j \in Job, InsertJob(j) PROVE QueueInv'
  <2>1. Cardinality(Entered) \in Nat /\ IsFiniteSet(Entered)
      BY RankCount
  <2>2. \A k \in Job : entry[k] <= Cardinality(Entered)
      BY DEF QueueInv
  <2>3. /\ entry'[j] = Cardinality(Entered) + 1 /\ \A k \in Job \ {j} : entry'[k] = entry[k]
        /\ status'[j] = "waiting" /\ \A k \in Job \ {j} : status'[k] = status[k]
        /\ status[j] = "new" /\ UNCHANGED <<birth, pullPc, pullJob>>
      BY <1>1 DEF InsertJob
  <2>4. Entered' = Entered \union {j} /\ j \notin Entered
    <3>1. entry'[j] # 0 /\ entry[j] = 0
        BY <2>1, <2>3 DEF QueueInv
    <3>. QED  BY <2>3, <3>1 DEF Ranked
  <2>5. Cardinality(Entered') = Cardinality(Entered) + 1
    <3> HIDE DEF Entered
    <3>. QED  BY <2>1, <2>4, FS_AddElement
  <2> HIDE DEF Entered
  <2>6. \A k \in Job : entry'[k] <= Cardinality(Entered')
      BY <2>1, <2>2, <2>3, <2>5
  <2>7. ASSUME NEW w \in Worker, pullPc'[w] = "picked", status'[pullJob'[w]] = "waiting",
               NEW k \in Job, status'[k] = "waiting"
        PROVE  birth'[pullJob'[w]] <= birth'[k] \/ entry'[pullJob'[w]] < entry'[k]
    <3>1. pullJob[w] \in Job /\ pullJob[w] # j /\ pullJob' = pullJob /\ pullPc[w] = "picked"
        BY <2>3, <2>7 DEF HandoutInv
    <3>2. status[pullJob[w]] = "waiting" /\ entry'[pullJob[w]] = entry[pullJob[w]]
        BY <2>3, <2>7, <3>1
    <3>3. CASE k = j
        BY <2>1, <2>2, <2>3, <3>1, <3>2, <3>3
    <3>4. CASE k # j
        BY <2>3, <2>7, <3>1, <3>2, <3>4 DEF QueueInv, RowsWith
    <3>. QED  BY <3>3, <3>4
  <2>8. \A k \in Job : status'[k] = "new" => entry'[k] = 0
      BY <2>3 DEF QueueInv
  <2>9. Cardinality(Entered') = Cardinality(Ranked(entry'))
      BY DEF Entered, Ranked
  <2>. QED  BY <2>6, <2>7, <2>8, <2>9 DEF QueueInv, RowsWith, Ranked
<1>2. ASSUME UNCHANGED <<birth, entry>>,
             \A k \in Job : status'[k] \in {"waiting", "new"} => status'[k] = status[k],
             \A w \in Worker : pullPc'[w] = "picked" => pullPc[w] = "picked" /\ pullJob'[w] = pullJob[w]
      PROVE  QueueInv'
    BY <1>2 DEF QueueInv, RowsWith, Ranked
<1>3. ASSUME NEW w \in Worker, PullGet(w) PROVE QueueInv'
  <2>1. CASE EndPull(w)
      BY <1>2, <1>3, <2>1 DEF PullGet, EndPull
  <2>2. ASSUME NEW j \in Job, IsNextWaiting(j), pullPc' = [pullPc EXCEPT ![w] = "picked"],
               pullJob' = [pullJob EXCEPT ![w] = j]
        PROVE  QueueInv'
      BY <1>3, <2>2 DEF PullGet, QueueInv, IsNextWaiting, RowsWith
  <2>. QED  BY <1>3, <2>1, <2>2 DEF PullGet
<1>4. ASSUME NEW w \in Worker, PullList(w) \/ PullClaim(w) \/ PullAnswer(w) \/ DeliverStep(w)
      PROVE  QueueInv'
    BY <1>2, <1>4 DEF PullList, PullClaim, PullAnswer, DeliverStep, StartController, LoseAnswer, EndPull
<1>5. ASSUME NEW d \in Deleter, DeleteRow(d) \/ \E j \in Job : CheckDeletable(d, j) PROVE QueueInv'
    BY <1>2, <1>5 DEF DeleteRow, CheckDeletable
<1>6. ASSUME NEW c \in Checker, SaveVerdict(c) PROVE QueueInv'
    BY <1>2, <1>6 DEF SaveVerdict, Closed, Final, Graded
<1>7. ASSUME UNCHANGED <<status, birth, entry, pullPc, pullJob>> PROVE QueueInv'
    BY <1>2, <1>7
<1>8. ASSUME NEW j \in Job, GrowOld(j) \/ ProcessStep(j) PROVE QueueInv'
    BY <1>7, <1>8 DEF GrowOld, ProcessStep, OpenResult, GradeResult, ExitProcess
<1>9. ASSUME NEW w \in Worker, CrashWorker(w) \/ RestartWorker(w) \/ \E j \in Job : CloseController(w, j)
      PROVE  QueueInv'
    BY <1>7, <1>9 DEF CrashWorker, RestartWorker, CloseController
<1>10. ASSUME NEW c \in Checker,
              \/ \E S \in SUBSET RunningRows : ReadRunning(c, S)
              \/ \E r \in todo[c] : SkipYoung(c, r) \/ Poll(c, r) \/ BreakPoll(c, r)
              \/ LoadVerdict(c)
       PROVE  QueueInv'
    BY <1>7, <1>10 DEF ReadRunning, SkipYoung, Poll, BreakPoll, LoadVerdict
<1>11. CASE UNCHANGED vars
    BY <1>7, <1>11 DEF vars
<1>. QED  BY <1>0, <1>1, <1>3, <1>4, <1>5, <1>6, <1>8, <1>9, <1>10, <1>11
          DEF Next, CreateStep, PullStep, CheckStep, RefreshStep, ViewStep, Checker

\* A claim overtakes an older waiting job only if that job was entered later,
\* whichever workers ask and whatever is created or deleted between listing and
\* claiming.
THEOREM ClaimsKeepOrder == Spec => ClaimsInOrder
<1> DEFINE InOrder == \A j, k \in Job :
        status[j] = "waiting" /\ status'[j] = "running" /\ status[k] = "waiting"
            => birth[j] <= birth[k] \/ entry[j] < entry[k]
<1>1. Init => QueueInv
  <2>1. ASSUME Init PROVE \A j \in Job : entry[j] = 0
      BY <2>1 DEF Init
  <2>2. Cardinality(Ranked(entry)) \in Nat
      BY RankCount
  <2>. QED  BY <2>1, <2>2 DEF Init, QueueInv
<1>2. TypeOK /\ HandoutInv /\ QueueInv /\ [Next]_vars => QueueInv'
    BY NextQueueInv
<1>3. TypeOK /\ HandoutInv /\ QueueInv /\ [Next]_vars => [InOrder]_vars
  <2> SUFFICES ASSUME TypeOK, HandoutInv, QueueInv, Next PROVE InOrder
      OBVIOUS
  <2> USE DEF TypeOK, rowVars, pullVars, checkVars, workerVars
  <2>1. ASSUME NEW w \in Worker, PullClaim(w) PROVE InOrder
      BY <2>1 DEF PullClaim, IsClaimable, QueueInv, RowsWith
  <2>2. ASSUME \A j \in Job : status'[j] = "running" => status[j] = "running" PROVE InOrder
      BY <2>2
  <2>3. ASSUME NEW j \in Job, CreateStep(j) \/ GrowOld(j) \/ ProcessStep(j) PROVE InOrder
      BY <2>2, <2>3 DEF CreateStep, DateJob, InsertJob, GrowOld, ProcessStep, OpenResult, GradeResult, ExitProcess
  <2>4. ASSUME NEW d \in Deleter, DeleteRow(d) \/ \E j \in Job : CheckDeletable(d, j) PROVE InOrder
      BY <2>2, <2>4 DEF DeleteRow, CheckDeletable
  <2>5. ASSUME NEW w \in Worker, PullList(w) \/ PullGet(w) \/ PullAnswer(w) \/ DeliverStep(w)
               \/ CrashWorker(w) \/ RestartWorker(w) \/ \E j \in Job : CloseController(w, j)
        PROVE  InOrder
      BY <2>2, <2>5 DEF PullList, PullGet, PullAnswer, DeliverStep, StartController, LoseAnswer,
                        CrashWorker, RestartWorker, CloseController
  <2>6. ASSUME NEW c \in Checker, SaveVerdict(c) PROVE InOrder
      BY <2>2, <2>6 DEF SaveVerdict, Closed, Final, Graded
  <2>7. ASSUME NEW c \in Checker,
               \/ \E S \in SUBSET RunningRows : ReadRunning(c, S)
               \/ \E r \in todo[c] : SkipYoung(c, r) \/ Poll(c, r) \/ BreakPoll(c, r)
               \/ LoadVerdict(c)
        PROVE  InOrder
      BY <2>2, <2>7 DEF ReadRunning, SkipYoung, Poll, BreakPoll, LoadVerdict
  <2>. QED  BY <2>1, <2>3, <2>4, <2>5, <2>6, <2>7
            DEF Next, PullStep, CheckStep, RefreshStep, ViewStep, Checker
<1>. QED  BY <1>1, <1>2, <1>3, HandoutInvariant, PTL DEF Spec, ClaimsInOrder

-----------------------------------------------------------------------------
(* What becomes of a grade *)

\* A checker that saves over a grade brings the same grade, the silence of the
\* worker, or, if it did not wait, an error.
LEMMA SavesOverGrade ==
    ASSUME TypeOK, VerdictInv, ErrorInv, NEW c \in Checker, SaveVerdict(c),
           NEW j \in Job, status[j] \in Graded, status'[j] # status[j]
    PROVE  /\ j = copy[c].job /\ checkPc[c] = "saving" /\ status'[j] = word[c]
           /\ status'[j] \in {"timeout", "lost"} \/ (status'[j] = "error" /\ c \in History)
<1>1. j = copy[c].job /\ checkPc[c] = "saving" /\ status'[j] = word[c] /\ word[c] \in Closed
    BY DEF SaveVerdict, TypeOK
<1>2. word[c] \notin Graded
    BY <1>1 DEF VerdictInv, GradeIsTrue
<1>3. word[c] = "error" => c \in History
    BY <1>1 DEF ErrorInv, VerdictInv, GradeIsTrue, Patient
<1>. QED  BY <1>1, <1>2, <1>3 DEF Closed, Final

\* Whichever checkers race for a row, a grade in it is never replaced by another
\* grade, nor by the error of a checker that waits.
THEOREM GradesStand ==
    ASSUME PickupInTime
    PROVE  Spec => GradeStands
<1> DEFINE Stands == \A j \in Job : status[j] \in Graded =>
        \/ status'[j] \in {status[j], "absent", "timeout", "lost"}
        \/ /\ status'[j] = "error"
           /\ \E c \in History : checkPc[c] = "saving" /\ copy[c].job = j
<1>1. TypeOK /\ VerdictInv /\ ErrorInv /\ [Next]_vars => [Stands]_vars
  <2> SUFFICES ASSUME TypeOK, VerdictInv, ErrorInv, Next PROVE Stands
      OBVIOUS
  <2> USE DEF TypeOK, rowVars, pullVars, checkVars, workerVars
  <2>1. ASSUME NEW c \in Checker, SaveVerdict(c) PROVE Stands
      BY <2>1, SavesOverGrade
  <2>2. ASSUME \A j \in Job : status[j] \in Graded => status'[j] \in {status[j], "absent"}
        PROVE  Stands
      BY <2>2
  <2>3. ASSUME NEW j \in Job, CreateStep(j) \/ GrowOld(j) \/ ProcessStep(j) PROVE Stands
      BY <2>2, <2>3 DEF CreateStep, DateJob, InsertJob, GrowOld, ProcessStep, OpenResult,
                        GradeResult, ExitProcess, Graded
  <2>4. ASSUME NEW d \in Deleter, DeleteRow(d) \/ \E j \in Job : CheckDeletable(d, j) PROVE Stands
      BY <2>2, <2>4 DEF DeleteRow, CheckDeletable
  <2>5. ASSUME NEW w \in Worker, PullClaim(w) PROVE Stands
      BY <2>2, <2>5 DEF PullClaim, IsClaimable, Graded
  <2>6. ASSUME NEW w \in Worker, PullList(w) \/ PullGet(w) \/ PullAnswer(w) \/ DeliverStep(w)
               \/ CrashWorker(w) \/ RestartWorker(w) \/ \E j \in Job : CloseController(w, j)
        PROVE  Stands
      BY <2>2, <2>6 DEF PullList, PullGet, PullAnswer, DeliverStep, StartController, LoseAnswer,
                        CrashWorker, RestartWorker, CloseController
  <2>7. ASSUME NEW c \in Checker,
               \/ \E S \in SUBSET RunningRows : ReadRunning(c, S)
               \/ \E r \in todo[c] : SkipYoung(c, r) \/ Poll(c, r) \/ BreakPoll(c, r)
               \/ LoadVerdict(c)
        PROVE  Stands
      BY <2>2, <2>7 DEF ReadRunning, SkipYoung, Poll, BreakPoll, LoadVerdict
  <2>. QED  BY <2>1, <2>3, <2>4, <2>5, <2>6, <2>7
            DEF Next, PullStep, CheckStep, RefreshStep, ViewStep, Checker
<1>. QED  BY <1>1, TypeInvariant, VerdictInvariant, ErrorInvariant, PTL DEF Spec, GradeStands

-----------------------------------------------------------------------------
(* JobLifecycle implements JobHandout *)

\* Who holds a job is determined: the worker that has it, or nobody.
LEMMA HolderIs ==
    ASSUME HandoutInv, NEW j \in Job
    PROVE  /\ \A w \in Worker : HasJob(w, j) => HolderOf(j) = w
           /\ (\A w \in Worker : ~HasJob(w, j)) => HolderOf(j) = Nobody
           /\ HolderOf(j) \in Worker => HasJob(HolderOf(j), j)
<1>1. \A v, w \in Worker : HasJob(v, j) /\ HasJob(w, j) => v = w
    BY DEF HandoutInv
<1>2. \A w \in Worker : HasJob(w, j) => HolderOf(j) = w
    BY <1>1 DEF HolderOf
<1>3. (\A w \in Worker : ~HasJob(w, j)) => HolderOf(j) = Nobody
    BY DEF HolderOf
<1>. QED  BY <1>2, <1>3, NobodyAssumption

\* The same in the next state.
LEMMA NextHolderIs ==
    ASSUME HandoutInv', NEW j \in Job
    PROVE  /\ \A w \in Worker : HasJob(w, j)' => HolderOf(j)' = w
           /\ (\A w \in Worker : ~HasJob(w, j)') => HolderOf(j)' = Nobody
<1>1. \A v, w \in Worker : HasJob(v, j)' /\ HasJob(w, j)' => v = w
    BY DEF HandoutInv
<1>. QED  BY <1>1 DEF HolderOf

\* A step that moves no job between requests and tables, creates none and
\* takes none from the waiting ones changes neither phase nor holder.
LEMMA Stutter ==
    ASSUME UNCHANGED <<pullPc, pullJob, table>>, NEW j \in Job,
           \A st \in {"new", "waiting"} : status'[j] = st <=> status[j] = st
    PROVE  PhaseOf(j)' = PhaseOf(j) /\ HolderOf(j)' = HolderOf(j)
BY DEF PhaseOf, HolderOf, HasJob, InFlight, OnWorker

\* A step after which the same workers have j, and j is as much born and
\* waiting as before, does not touch j.
LEMMA Untouched ==
    ASSUME NEW j \in Job,
           \A w \in Worker : InFlight(w, j)' = InFlight(w, j),
           \A w \in Worker : j \in table'[w] <=> j \in table[w],
           \A st \in {"new", "waiting"} : status'[j] = st <=> status[j] = st
    PROVE  PhaseOf(j)' = PhaseOf(j) /\ HolderOf(j)' = HolderOf(j)
<1>1. \A w \in Worker : HasJob(w, j)' <=> HasJob(w, j)
    BY DEF HasJob
<1>2. PhaseOf(j)' = PhaseOf(j)
    BY DEF PhaseOf, OnWorker
<1>3. HolderOf(j)' = HolderOf(j)
    BY <1>1 DEF HolderOf
<1>. QED  BY <1>2, <1>3

\* A step that touches no job is a stuttering step of JobHandout.
LEMMA StutterStep ==
    ASSUME \A j \in Job : PhaseOf(j)' = PhaseOf(j) /\ HolderOf(j)' = HolderOf(j)
    PROVE  UNCHANGED Handout!vars
BY DEF Handout!vars

\* The abstract specification counts as this one does.
LEMMA SameCardinality == \A S : Handout!Cardinality(S) = Cardinality(S)
BY DEF Handout!Cardinality, Cardinality

\* A step in which w gives up the jobs in S, and touches no other, ends them.
LEMMA EndSome ==
    ASSUME HandoutInv, HandoutInv', NEW w \in Worker, NEW S \in SUBSET Job,
           \A k \in S : HasJob(w, k),
           \A k \in S : \A v \in Worker : ~HasJob(v, k)',
           UNCHANGED status,
           \A k \in Job \ S : PhaseOf(k)' = PhaseOf(k) /\ HolderOf(k)' = HolderOf(k)
    PROVE  Handout!End(w, S)
<1>1. \A k \in S : HolderOf(k) = w
    BY HolderIs
<1>2. S \subseteq Handout!HeldBy(w)
    BY <1>1 DEF Handout!HeldBy
<1>3. ASSUME NEW k \in S PROVE PhaseOf(k)' = "over" /\ HolderOf(k)' = Nobody
  <2>1. status'[k] \notin {"new", "waiting"}
      BY DEF HandoutInv, Unclaimed
  <2>2. \A v \in Worker : ~InFlight(v, k)' /\ k \notin table'[v]
      BY DEF HasJob
  <2>3. PhaseOf(k)' = "over"
      BY <2>1, <2>2 DEF PhaseOf, OnWorker
  <2>. QED  BY <2>3, NextHolderIs
<1>. QED  BY <1>2, <1>3 DEF Handout!End

\* Every step of JobLifecycle is a step of JobHandout or touches no job.
LEMMA StepRefines ==
    ASSUME TypeOK, HandoutInv, SlotsInv, HandoutInv', [Next]_vars
    PROVE  [Handout!Next]_Handout!vars
<1> USE DEF rowVars, pullVars, checkVars, workerVars
<1> DEFINE Same(j) == PhaseOf(j)' = PhaseOf(j) /\ HolderOf(j)' = HolderOf(j)
<1>0. ASSUME NEW j \in Job, DateJob(j) PROVE \A k \in Job : Same(k)
    BY <1>0, Stutter DEF DateJob
<1>1. ASSUME NEW j \in Job, InsertJob(j) PROVE Handout!Create(j)
  <2>1. status[j] = "new" /\ status'[j] = "waiting"
      BY <1>1 DEF InsertJob, TypeOK
  <2>2. \A w \in Worker : ~HasJob(w, j) /\ ~HasJob(w, j)'
      BY <1>1, <2>1 DEF InsertJob, HandoutInv, Unclaimed, HasJob, InFlight
  <2>3. PhaseOf(j) = "unborn" /\ PhaseOf(j)' = "waiting"
      BY <2>1, <2>2 DEF PhaseOf, HasJob, OnWorker
  <2>4. HolderOf(j)' = HolderOf(j)
      BY <2>2, HolderIs, NextHolderIs
  <2>5. \A k \in Job \ {j} : Same(k)
      BY <1>1, Untouched DEF InsertJob, InFlight, TypeOK
  <2>. QED  BY <2>3, <2>4, <2>5 DEF Handout!Create
<1>2. ASSUME NEW d \in Deleter, DeleteRow(d)
      PROVE  (\E j \in Job : Handout!Withdraw(j)) \/ \A j \in Job : Same(j)
  <2>0. PICK j \in Job : j = deletion[d]
      BY <1>2 DEF DeleteRow, TypeOK
  <2>1. j \in Job /\ status'[j] = "absent" /\ \A k \in Job \ {j} : status'[k] = status[k]
      BY <1>2, <2>0 DEF DeleteRow, TypeOK
  <2>2. \A k \in Job \ {j} : Same(k)
      BY <1>2, <2>1, Stutter DEF DeleteRow
  <2>3. CASE status[j] # "waiting"
    <3>1. Same(j)
        BY <1>2, <2>0, <2>1, <2>3, Stutter, NobodyAssumption DEF DeleteRow, HandoutInv
    <3>. QED  BY <2>2, <3>1
  <2>4. CASE status[j] = "waiting"
    <3>1. \A w \in Worker : ~HasJob(w, j)
        BY <1>2, <2>1, <2>4 DEF DeleteRow, HandoutInv, Unclaimed
    <3>2. \A w \in Worker : ~HasJob(w, j)'
        BY <1>2, <3>1 DEF DeleteRow, HasJob, InFlight
    <3>3. PhaseOf(j) = "waiting" /\ PhaseOf(j)' = "over"
        BY <2>1, <2>4, <3>1, <3>2 DEF PhaseOf, HasJob, OnWorker
    <3>4. HolderOf(j)' = HolderOf(j)
        BY <2>1, <3>1, <3>2, HolderIs, NextHolderIs
    <3>5. Handout!Withdraw(j)
        BY <2>1, <2>2, <3>3, <3>4 DEF Handout!Withdraw
    <3>. QED  BY <2>1, <3>5
  <2>. QED  BY <2>3, <2>4
<1>3. ASSUME NEW w \in Worker, PullClaim(w)
      PROVE  (\E j \in Job : Handout!Assign(w, j)) \/ \A j \in Job : Same(j)
  <2>0. PICK j \in Job : j = pullJob[w] /\ pullPc[w] = "picked"
      BY <1>3 DEF PullClaim, TypeOK
  <2>1. CASE EndPull(w) /\ UNCHANGED <<status, url, young>>
    <3>1. \A v \in Worker, k \in Job : InFlight(v, k)' = InFlight(v, k)
        BY <1>3, <2>0, <2>1, NobodyAssumption DEF PullClaim, EndPull, InFlight, TypeOK
    <3>. QED  BY <1>3, <2>1, <3>1, Untouched DEF PullClaim
  <2>2. CASE /\ status[j] = "waiting"
             /\ status' = [status EXCEPT ![j] = "running"]
             /\ pullPc' = [pullPc EXCEPT ![w] = "claimed"]
             /\ UNCHANGED <<pullJob, workerVars>>
    <3>1. \A v \in Worker : ~HasJob(v, j)
        BY <2>0, <2>2 DEF HandoutInv, Unclaimed
    <3>2. InFlight(w, j)' /\ \A v \in Worker : j \notin table'[v]
        BY <2>0, <2>2, <3>1 DEF InFlight, HasJob, TypeOK
    <3>3. PhaseOf(j) = "waiting" /\ PhaseOf(j)' = "assigned"
        BY <2>0, <2>2, <3>1, <3>2 DEF PhaseOf, HasJob, OnWorker
    <3>4. HolderOf(j)' = w
        BY <2>0, <3>2, NextHolderIs DEF HasJob
    <3>5. \A k \in Job \ {j} : Same(k)
        BY <2>0, <2>2, Untouched DEF InFlight, TypeOK
    <3>6. {k \in Job : HolderOf(k) = w} = table[w]
        BY <2>0, HolderIs DEF HasJob, InFlight, TypeOK
    <3>7. Cardinality(table[w]) < MaxSlots
      <4>1. Cardinality(table[w]) \in Nat
          BY FiniteAssumption, FS_Subset, FS_CardinalityType DEF TypeOK
      <4>2. CASE up[w]
          BY <2>0, <4>1, <4>2, SlotsAssumption DEF SlotsInv, SlotsRespected
      <4>3. CASE ~up[w]
          BY <4>3, SlotsAssumption, FS_EmptySet DEF SlotsInv
      <4>. QED  BY <4>2, <4>3
    <3>8. Handout!HeldBy(w) = table[w]
        BY <3>6 DEF Handout!HeldBy
    <3>9. Handout!Cardinality(Handout!HeldBy(w)) < MaxSlots
        BY <3>7, <3>8, SameCardinality
    <3>10. Handout!Assign(w, j)
        BY <2>0, <3>3, <3>4, <3>5, <3>9 DEF Handout!Assign
    <3>. QED  BY <2>0, <3>10
  <2>. QED  BY <1>3, <2>0, <2>1, <2>2 DEF PullClaim, IsClaimable
<1>4. ASSUME NEW w \in Worker, PullList(w) \/ PullGet(w)
      PROVE  \A j \in Job : Same(j)
  <2>1. \A v \in Worker, k \in Job : InFlight(v, k)' = InFlight(v, k)
      BY <1>4, NobodyAssumption DEF PullList, PullGet, EndPull, InFlight, TypeOK
  <2>2. UNCHANGED <<status, table>>
      BY <1>4 DEF PullList, PullGet
  <2>. QED  BY <2>1, <2>2, Untouched
<1>5. ASSUME NEW w \in Worker, NEW j \in Job, j = pullJob[w], pullPc[w] \in {"claimed", "answered"},
             EndPull(w), UNCHANGED <<status, table>>
      PROVE  Handout!End(w, {j})
  <2>1. HasJob(w, j) /\ \A v \in Worker : j \notin table[v]
      BY <1>5 DEF HasJob, InFlight, HandoutInv, OnWorker
  <2>2. \A v \in Worker : ~HasJob(v, j)'
    <3>1. \A v \in Worker : HasJob(v, j) => v = w
        BY <2>1 DEF HandoutInv
    <3>. QED  BY <1>5, <2>1, <3>1 DEF EndPull, HasJob, InFlight, TypeOK
  <2>3. \A k \in Job \ {j} : \A v \in Worker : InFlight(v, k)' = InFlight(v, k)
      BY <1>5, NobodyAssumption DEF EndPull, InFlight, TypeOK
  <2>4. \A k \in Job \ {j} : Same(k)
      BY <1>5, <2>3, Untouched
  <2>. QED  BY <1>5, <2>1, <2>2, <2>4, EndSome
<1>6. ASSUME NEW w \in Worker, PullAnswer(w)
      PROVE  (\E j \in Job : Handout!End(w, {j})) \/ \A j \in Job : Same(j)
  <2>0. PICK j \in Job : j = pullJob[w] /\ pullPc[w] = "claimed"
      BY <1>6 DEF PullAnswer, TypeOK
  <2>1. CASE EndPull(w)
      BY <1>5, <1>6, <2>0, <2>1 DEF PullAnswer
  <2>2. CASE pullPc' = [pullPc EXCEPT ![w] = "answered"] /\ UNCHANGED pullJob
    <3>1. \A v \in Worker, k \in Job : InFlight(v, k)' = InFlight(v, k)
        BY <2>0, <2>2 DEF InFlight, TypeOK
    <3>. QED  BY <1>6, <3>1, Untouched DEF PullAnswer
  <2>. QED  BY <1>6, <2>0, <2>1, <2>2 DEF PullAnswer
<1>7. ASSUME NEW w \in Worker, LoseAnswer(w)
      PROVE  \E j \in Job : Handout!End(w, {j})
  <2>0. PICK j \in Job : j = pullJob[w] /\ pullPc[w] = "answered"
      BY <1>7 DEF LoseAnswer, TypeOK
  <2>. QED  BY <1>5, <1>7, <2>0 DEF LoseAnswer
<1>8. ASSUME NEW w \in Worker, StartController(w)
      PROVE  \E j \in Job : Handout!Launch(j)
  <2>0. PICK j \in Job : j = pullJob[w] /\ pullPc[w] = "answered"
      BY <1>8 DEF StartController, TypeOK
  <2>1. InFlight(w, j) /\ HasJob(w, j) /\ ~OnWorker(j)
      BY <2>0 DEF InFlight, HasJob, HandoutInv
  <2>2. status[j] # "new" /\ status' = status
      BY <1>8, <2>1 DEF StartController, HandoutInv, Unclaimed
  <2>3. j \in table'[w] /\ \A v \in Worker, k \in Job \ {j} : k \in table'[v] <=> k \in table[v]
      BY <1>8, <2>0 DEF StartController, TypeOK
  <2>4. PhaseOf(j) = "assigned" /\ PhaseOf(j)' = "executing"
      BY <2>1, <2>2, <2>3 DEF PhaseOf, OnWorker
  <2>5. HolderOf(j) = w /\ HolderOf(j)' = w
      BY <2>1, <2>3, HolderIs, NextHolderIs DEF HasJob
  <2>6. \A k \in Job \ {j} : \A v \in Worker : InFlight(v, k)' = InFlight(v, k)
      BY <1>8, <2>0, NobodyAssumption DEF StartController, EndPull, InFlight, TypeOK
  <2>7. \A k \in Job \ {j} : Same(k)
      BY <2>2, <2>3, <2>6, Untouched
  <2>. QED  BY <2>4, <2>5, <2>7 DEF Handout!Launch
<1>9. ASSUME NEW w \in Worker, NEW j \in Job, CloseController(w, j)
      PROVE  Handout!End(w, {j})
  <2>1. HasJob(w, j) /\ \A v \in Worker : ~InFlight(v, j)
      BY <1>9 DEF CloseController, HasJob, HandoutInv, OnWorker
  <2>2. \A v \in Worker : HasJob(v, j) => v = w
      BY <2>1 DEF HandoutInv
  <2>3. \A v \in Worker : ~HasJob(v, j)'
      BY <1>9, <2>1, <2>2 DEF CloseController, HasJob, InFlight, TypeOK
  <2>4. \A k \in Job \ {j} : Same(k)
      BY <1>9, Untouched DEF CloseController, InFlight, TypeOK
  <2>. QED  BY <1>9, <2>1, <2>3, <2>4, EndSome DEF CloseController
<1>10. ASSUME NEW w \in Worker, CrashWorker(w)
       PROVE  Handout!End(w, table[w])
  <2>1. table[w] \in SUBSET Job /\ \A k \in table[w] : HasJob(w, k)
      BY DEF TypeOK, HasJob
  <2>2. \A k \in table[w] : \A v \in Worker : ~InFlight(v, k) /\ (HasJob(v, k) => v = w)
      BY <2>1 DEF HandoutInv, OnWorker
  <2>3. \A k \in table[w] : \A v \in Worker : ~HasJob(v, k)'
      BY <1>10, <2>2 DEF CrashWorker, HasJob, InFlight, TypeOK
  <2>4. \A k \in Job \ table[w] : Same(k)
      BY <1>10, Untouched DEF CrashWorker, InFlight, TypeOK
  <2>. QED  BY <1>10, <2>1, <2>3, <2>4, EndSome DEF CrashWorker
<1>11. ASSUME NEW c \in Checker, SaveVerdict(c)
       PROVE  \A j \in Job : Same(j)
  <2>1. copy[c].job \in Job /\ word[c] \in Closed /\ copy[c] \in Held(c)
      BY <1>11 DEF SaveVerdict, TypeOK, Copy, Held
  <2>2. status[copy[c].job] \notin {"new", "waiting"}
      BY <2>1 DEF HandoutInv, Unclaimed
  <2>3. \A j \in Job : \A st \in {"new", "waiting"} : status'[j] = st <=> status[j] = st
      BY <1>11, <2>1, <2>2 DEF SaveVerdict, TypeOK, Closed, Final, Graded
  <2>. QED  BY <1>11, <2>3, Stutter DEF SaveVerdict
<1>12. ASSUME UNCHANGED <<pullVars, table, status>>
       PROVE  \A j \in Job : Same(j)
    BY <1>12, Stutter
<1>13. ASSUME NEW j \in Job, GrowOld(j) \/ ProcessStep(j)
       PROVE  \A k \in Job : Same(k)
    BY <1>12, <1>13 DEF GrowOld, ProcessStep, OpenResult, GradeResult, ExitProcess
<1>14. ASSUME NEW c \in Checker, CheckStep(c) \/ \E S \in SUBSET RunningRows : ReadRunning(c, S)
       PROVE  \A j \in Job : Same(j)
  <2>1. CASE SaveVerdict(c)
      BY <1>11, <2>1
  <2>2. CASE (\E S \in SUBSET RunningRows : ReadRunning(c, S)) \/ LoadVerdict(c)
      BY <1>12, <2>2 DEF ReadRunning, LoadVerdict
  <2>3. CASE \E r \in todo[c] : SkipYoung(c, r) \/ Poll(c, r) \/ BreakPoll(c, r)
      BY <1>12, <2>3 DEF SkipYoung, Poll, BreakPoll
  <2>. QED  BY <1>14, <2>1, <2>2, <2>3 DEF CheckStep
<1>15. ASSUME NEW w \in Worker, RestartWorker(w)
       PROVE  \A j \in Job : Same(j)
    BY <1>12, <1>15 DEF RestartWorker
<1>16. ASSUME NEW d \in Deleter, NEW j \in Job, CheckDeletable(d, j)
       PROVE  \A k \in Job : Same(k)
    BY <1>12, <1>16 DEF CheckDeletable
<1>17. ASSUME UNCHANGED vars
       PROVE  \A j \in Job : Same(j)
    BY <1>12, <1>17 DEF vars
<1>18. Handout!Next \/ \A j \in Job : Same(j)
  <2>1. CASE \E j \in Job : CreateStep(j) \/ GrowOld(j) \/ ProcessStep(j)
      BY <1>0, <1>1, <1>13, <2>1 DEF CreateStep, Handout!Next
  <2>2. CASE \E d \in Deleter : DeleteRow(d) \/ \E j \in Job : CheckDeletable(d, j)
      BY <1>2, <1>16, <2>2 DEF Handout!Next
  <2>3. CASE \E w \in Worker : PullStep(w) \/ DeliverStep(w) \/ CrashWorker(w)
                                \/ RestartWorker(w) \/ \E j \in Job : CloseController(w, j)
    <3>1. PICK w \in Worker : PullStep(w) \/ DeliverStep(w) \/ CrashWorker(w)
                                \/ RestartWorker(w) \/ \E j \in Job : CloseController(w, j)
        BY <2>3
    <3>2. CASE PullStep(w)
        BY <1>3, <1>4, <1>6, <3>2 DEF PullStep, Handout!Next
    <3>3. CASE DeliverStep(w)
        BY <1>7, <1>8, <3>3 DEF DeliverStep, Handout!Next
    <3>4. CASE CrashWorker(w)
        BY <1>10, <3>4 DEF Handout!Next, TypeOK
    <3>5. CASE RestartWorker(w) \/ \E j \in Job : CloseController(w, j)
        BY <1>9, <1>15, <3>5 DEF Handout!Next
    <3>. QED  BY <3>1, <3>2, <3>3, <3>4, <3>5
  <2>4. CASE RefreshStep \/ \E c \in View : ViewStep(c)
    <3>1. Refresher \in Checker /\ \A c \in View : c \in Checker
        BY DEF Checker
    <3>. QED  BY <1>14, <2>4, <3>1 DEF RefreshStep, ViewStep
  <2>. QED  BY <1>17, <2>1, <2>2, <2>3, <2>4 DEF Next
<1>. QED  BY <1>18, StutterStep

\* JobLifecycle implements JobHandout (models.pull_job, Scheduler.run,
\* JobController, job_delete): each job is assigned at most once, to one worker
\* with a free slot, and ends at most once, whatever is queried, answered, lost
\* or deleted in between.
THEOREM ImplementationTheorem == Spec => ImplementsHandout
<1>1. Init => Handout!Init
  <2> SUFFICES ASSUME Init, NEW j \in Job
               PROVE  PhaseOf(j) = "unborn" /\ HolderOf(j) = Nobody
      BY DEF Handout!Init
  <2>1. \A w \in Worker : ~HasJob(w, j)
      BY DEF Init, HasJob, InFlight
  <2>. QED  BY <2>1 DEF Init, PhaseOf, HolderOf
<1>2. TypeOK /\ HandoutInv /\ SlotsInv /\ HandoutInv' /\ [Next]_vars => [Handout!Next]_Handout!vars
    BY StepRefines
<1>3. Spec => [](TypeOK /\ HandoutInv)
    BY HandoutInvariant
<1>4. Spec => []SlotsInv
    BY SlotsInvariant
<1>. QED  BY <1>1, <1>2, <1>3, <1>4, PTL DEF Spec, ImplementsHandout, Handout!Spec

=============================================================================
