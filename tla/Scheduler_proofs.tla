-------------------------- MODULE Scheduler_proofs --------------------------
(***************************************************************************)
(* What is proved of the threads of a worker, for any number of jobs and   *)
(* slots: the scheduler does not overbook, a running job is in the table,  *)
(* and the table only grows below the limit.                               *)
(***************************************************************************)
EXTENDS Scheduler, FiniteSetTheorems, TLAPS

(* The steps of the system leave the types alone.                            *)
THEOREM TypeInvariant == Spec => []TypeOK
<1>1. Init => TypeOK
  BY SlotsAssumption DEF Init, TypeOK, ThreadPc
<1>2. TypeOK /\ [Next]_vars => TypeOK'
  <2> SUFFICES ASSUME TypeOK, [Next]_vars PROVE TypeOK'
    OBVIOUS
  <2> USE DEF TypeOK, ThreadPc
  <2>1. CASE Look
    BY <2>1 DEF Look, tableVars, controllerVars, webVars
  <2>2. CASE PullJob
    BY <2>2 DEF PullJob, IsJob, tableVars, controllerVars, webVars
  <2>3. CASE Start
    BY <2>3 DEF Start, tableVars, webVars
  <2>4. CASE Wait
    BY <2>4 DEF Wait, tableVars, controllerVars, webVars
  <2>5. CASE Sleep
    BY <2>5 DEF Sleep, tableVars, controllerVars, webVars
  <2>6. ASSUME NEW j \in Job, Put(j) PROVE TypeOK'
    BY <2>6 DEF Put, Moves, schedulerVars, webVars
  <2>7. ASSUME NEW j \in Job, SetEvent(j) PROVE TypeOK'
    BY <2>7 DEF SetEvent, Moves, schedulerVars, tableVars, webVars
  <2>8. ASSUME NEW j \in Job, Launch(j) PROVE TypeOK'
    BY <2>8 DEF Launch, Moves, AfterFailure, schedulerVars, tableVars, webVars
  <2>9. ASSUME NEW j \in Job, ProcessEnds(j) PROVE TypeOK'
    BY <2>9 DEF ProcessEnds, Moves, schedulerVars, tableVars, webVars
  <2>10. ASSUME NEW j \in Job, Remove(j) PROVE TypeOK'
    BY <2>10 DEF Remove, schedulerVars, webVars
  <2>11. CASE WebStep
    <3>1. ASSUME NEW m \in -1..MaxSlots, SetMaxSlots(m) PROVE TypeOK'
      BY <3>1, SlotsAssumption DEF SetMaxSlots, schedulerVars, controllerVars, webVars
    <3>2. CASE ReadTable
      <4>1. IsFiniteSet(table)
        BY JobAssumption, FS_Subset
      <4>2. Cardinality(table) \in Nat
        BY <4>1, FS_CardinalityType
      <4>3. QED
        BY <3>2, <4>2 DEF ReadTable, schedulerVars, tableVars, controllerVars
    <3>3. CASE ReadItem
      BY <3>3 DEF ReadItem, schedulerVars, tableVars, controllerVars
    <3>4. CASE EndRequest
      BY <3>4 DEF EndRequest, schedulerVars, tableVars, controllerVars
    <3>5. QED
      BY <2>11, <3>1, <3>2, <3>3, <3>4 DEF WebStep
  <2>12. CASE UNCHANGED vars
    BY <2>12 DEF vars, schedulerVars, tableVars, controllerVars, webVars
  <2>13. QED
    BY <2>1, <2>2, <2>3, <2>4, <2>5, <2>6, <2>7, <2>8, <2>9, <2>10, <2>11, <2>12
    DEF Next, SchedulerStep, ControllerStep
<1>3. QED
  BY <1>1, <1>2, PTL DEF Spec

-----------------------------------------------------------------------------

(* The size of the table is a number, and no larger when a job leaves it.    *)
LEMMA TableSize ==
    ASSUME TypeOK, NEW j \in Job
    PROVE  /\ Cardinality(table) \in Nat
           /\ Cardinality(table \ {j}) \in Nat
           /\ Cardinality(table \ {j}) <= Cardinality(table)
<1>1. IsFiniteSet(table)
  BY JobAssumption, FS_Subset DEF TypeOK
<1>2. table \ {j} \subseteq table
  OBVIOUS
<1>3. QED
  BY <1>1, <1>2, FS_Subset, FS_CardinalityType

(* SchedulerInv is inductive, together with TypeOK.                          *)
LEMMA SchedulerInvStep ==
    ASSUME TypeOK, TypeOK', SchedulerInv, [Next]_vars PROVE SchedulerInv'
<1> USE DEF TypeOK, ThreadPc
<1> DEFINE Listed == Cardinality(table)
<1>0. SchedulerInv /\ table' = table /\ thread' = thread /\ event' = event
        /\ pc' = pc /\ job' = job /\ limit' = limit => SchedulerInv'
  BY DEF SchedulerInv
<1>1. CASE Look
  <2>1. pc' = "pull" => Listed' < limit'
    <3>1. Cardinality(table) \in Nat
      BY JobAssumption, FS_Subset, FS_CardinalityType
    <3>2. QED
      BY <1>1, <3>1 DEF Look, FreeSlots, tableVars
  <2>2. QED
    BY <1>1, <2>1 DEF Look, SchedulerInv, tableVars, controllerVars
<1>2. CASE PullJob
  BY <1>2 DEF PullJob, IsJob, SchedulerInv, tableVars, controllerVars
<1>3. CASE Start
  BY <1>3 DEF Start, SchedulerInv, tableVars
<1>4. CASE Wait
  BY <1>4 DEF Wait, IsListed, SchedulerInv, tableVars, controllerVars
<1>5. CASE Sleep
  BY <1>5 DEF Sleep, SchedulerInv, tableVars, controllerVars
<1>6. ASSUME NEW j \in Job, Put(j) PROVE SchedulerInv'
  BY <1>6 DEF Put, Moves, SchedulerInv, schedulerVars
<1>7. ASSUME NEW j \in Job, SetEvent(j) PROVE SchedulerInv'
  BY <1>7 DEF SetEvent, Moves, SchedulerInv, schedulerVars, tableVars
<1>8. ASSUME NEW j \in Job, Launch(j) PROVE SchedulerInv'
  BY <1>8 DEF Launch, Moves, AfterFailure, SchedulerInv, schedulerVars, tableVars
<1>9. ASSUME NEW j \in Job, ProcessEnds(j) PROVE SchedulerInv'
  BY <1>9 DEF ProcessEnds, Moves, SchedulerInv, schedulerVars, tableVars
<1>10. ASSUME NEW j \in Job, Remove(j) PROVE SchedulerInv'
  <2>1. /\ thread' = [thread EXCEPT ![j] = "closed"] /\ thread[j] = "closing"
        /\ table' = table \ {j}
        /\ UNCHANGED <<pc, job, limit, event>>
    BY <1>10 DEF Remove, MayRemove, schedulerVars
  <2>2. Cardinality(table) < limit => Cardinality(table') < limit'
    BY <2>1, TableSize
  <2>3. QED
    BY <2>1, <2>2 DEF SchedulerInv
<1>11. CASE WebStep
  BY <1>0, <1>11
  DEF WebStep, SetMaxSlots, ReadTable, ReadItem, EndRequest, schedulerVars, tableVars,
      controllerVars
<1>12. CASE UNCHANGED vars
  BY <1>0, <1>12 DEF vars, schedulerVars, tableVars, controllerVars
<1>13. QED
  BY <1>1, <1>2, <1>3, <1>4, <1>5, <1>6, <1>7, <1>8, <1>9, <1>10, <1>11, <1>12
  DEF Next, SchedulerStep, ControllerStep

(* The table is the set of live jobs but for the one being started.          *)
THEOREM SchedulerInvariant == Spec => []SchedulerInv
<1>1. Init => SchedulerInv
  BY DEF Init, SchedulerInv
<1>2. QED
  BY <1>1, SchedulerInvStep, TypeInvariant, PTL DEF Spec

(* Jobs are only pulled while there are fewer live ones than slots: at that   *)
(* moment no controller is starting, so that all of them are in the table.    *)
THEOREM SchedulerDoesNotOverbook == Spec => []NotOverbooked
<1>1. TypeOK /\ SchedulerInv => NotOverbooked
  <2> SUFFICES ASSUME TypeOK, SchedulerInv, pc \in {"pull", "start"}
               PROVE  Cardinality(Alive) < limit
    BY DEF NotOverbooked
  <2>1. \A j \in Job : j \in table <=> thread[j] \notin {"none", "closed"}
    BY DEF TypeOK, ThreadPc, SchedulerInv
  <2>2. Alive = table
    BY <2>1 DEF Alive, TypeOK
  <2>3. Cardinality(table) < limit
    BY DEF SchedulerInv
  <2>4. QED
    BY <2>2, <2>3
<1>2. QED
  BY <1>1, TypeInvariant, SchedulerInvariant, PTL

(* The web server knows every running job.                                   *)
THEOREM RunningJobsAreListed == Spec => []RunningIsListed
<1>1. SchedulerInv => RunningIsListed
  BY DEF SchedulerInv, RunningIsListed
<1>2. QED
  BY <1>1, SchedulerInvariant, PTL

(* Only Put adds to the table, and then there was room.                      *)
THEOREM TableGrowsBelowLimit == Spec => GrowsBelowLimit
<1> DEFINE Grows == \A j \in Job : j \in table' \ table => Cardinality(table) < limit
<1>1. TypeOK /\ SchedulerInv /\ [Next]_vars => [Grows]_vars
  <2> SUFFICES ASSUME TypeOK, SchedulerInv, Next PROVE Grows
    OBVIOUS
  <2>1. ASSUME NEW j \in Job, Put(j) PROVE Grows
    BY <2>1 DEF Put, Moves, SchedulerInv
  <2>2. ASSUME table' \subseteq table PROVE Grows
    BY <2>2
  <2>3. CASE SchedulerStep
    BY <2>2, <2>3 DEF SchedulerStep, Look, PullJob, Start, Wait, Sleep, tableVars
  <2>4. ASSUME NEW j \in Job, SetEvent(j) \/ Launch(j) \/ ProcessEnds(j) \/ Remove(j)
        PROVE  Grows
    BY <2>2, <2>4 DEF SetEvent, Launch, ProcessEnds, Remove, tableVars
  <2>5. CASE WebStep
    BY <2>2, <2>5 DEF WebStep, SetMaxSlots, ReadTable, ReadItem, EndRequest, tableVars
  <2>6. QED
    BY <2>1, <2>3, <2>4, <2>5 DEF Next, ControllerStep
<1>2. QED
  BY <1>1, TypeInvariant, SchedulerInvariant, PTL DEF Spec, GrowsBelowLimit

=============================================================================
