------------------------------ MODULE Scheduler ------------------------------
(***************************************************************************)
(* The threads of one worker container (worker/scheduler.py): the          *)
(* scheduler thread pulls jobs while the job table has free slots, every   *)
(* job gets a controller thread that keeps the job in the table for as     *)
(* long as its subprocess runs, and the web server reads the table and     *)
(* changes the number of slots.  They share the table without a lock.      *)
(*                                                                         *)
(* JobLifecycle takes the start of a controller as one step.  Here it is   *)
(* what it is: a thread is started, puts the job into the table and sets   *)
(* an event, and the scheduler waits for the event.                        *)
(***************************************************************************)
EXTENDS Integers, FiniteSets

CONSTANTS
    Job,        \* the jobs the frontend may hand out
    Nobody,     \* no job
    Slots,      \* the slots of a worker that starts
    MaxSlots,   \* bound: max_slots is put to at most that
    Fault       \* the faults that may happen

ASSUME JobAssumption == IsFiniteSet(Job) /\ Nobody \notin Job
ASSUME SlotsAssumption == Slots \in Nat /\ MaxSlots \in Nat
ASSUME FaultAssumption == Fault \subseteq {"raise"}

VARIABLES
    pc,         \* where the scheduler thread is
    job,        \* the job it has pulled
    max_slots,  \* JobTable.max_slots
    table,      \* JobTable._job_table, the jobs in it
    thread,     \* where the controller thread of each job is
    event,      \* put_event of each job
    limit,      \* history: max_slots when the scheduler last looked
    reader,     \* the web server iterating over the table
    left,       \* what the iteration still has to visit
    size        \* the size of the table when the iteration began

schedulerVars == <<pc, job, limit>>
tableVars == <<max_slots, table>>
controllerVars == <<thread, event>>
webVars == <<reader, left, size>>
vars == <<schedulerVars, tableVars, controllerVars, webVars>>

ThreadPc == {"none", "starting", "put", "open", "running", "closing", "closed"}

TypeOK ==
    /\ pc \in {"look", "pull", "start", "wait", "sleep"}
    /\ job \in Job \union {Nobody}
    /\ pc \in {"start", "wait"} => job \in Job
    /\ max_slots \in Int /\ limit \in Int
    /\ table \subseteq Job
    /\ thread \in [Job -> ThreadPc]
    /\ event \in [Job -> BOOLEAN]
    /\ reader \in {"idle", "iterating", "failed"}
    /\ left \subseteq Job
    /\ size \in Nat

-----------------------------------------------------------------------------
(* Helpers *)

FreeSlotsOver  == max_slots - Cardinality(table) + 1    \* mutant
FreeSlots      == max_slots - Cardinality(table)

\* if job_args is None
IsJob(answer)    == answer # Nobody

\* put_event.wait returns when the controller thread has set the event.
IsListed    == event[job]

\* process.wait returns when the subprocess has ended; rm comes after it.
MayRemoveRunning(j) == thread[j] \in {"running", "closing"} \* mutant: no wait
MayRemove(j)        == thread[j] = "closing"

\* The finally block removes the job even when it could not be launched.
NoCleanup    == "closed"                                \* mutant: no finally
AfterFailure == "closing"

Init ==
    /\ pc = "look" /\ job = Nobody
    /\ max_slots = Slots /\ limit = Slots
    /\ table = {}
    /\ thread = [j \in Job |-> "none"]
    /\ event = [j \in Job |-> FALSE]
    /\ reader = "idle" /\ left = {} /\ size = 0

-----------------------------------------------------------------------------
(* The scheduler thread *)

\* while job_table.free_slots > 0
Look ==
    /\ pc = "look"
    /\ pc' = IF FreeSlots > 0 THEN "pull" ELSE "sleep"
    /\ limit' = max_slots
    /\ UNCHANGED <<job, tableVars, controllerVars, webVars>>

\* The frontend hands out a job of its own choice, or none; whatever goes wrong
\* with the request counts as none.
PullJob ==
    /\ pc = "pull"
    /\ \E answer \in {j \in Job : thread[j] = "none"} \union {Nobody} :
        /\ job' = answer
        /\ pc' = IF IsJob(answer) THEN "start" ELSE "sleep"
    /\ UNCHANGED <<limit, tableVars, controllerVars, webVars>>

\* JobController.start starts the thread ...
Start ==
    /\ pc = "start"
    /\ thread' = [thread EXCEPT ![job] = "starting"]
    /\ pc' = "wait"
    /\ UNCHANGED <<job, limit, tableVars, event, webVars>>

\* ... and waits until the job is in the table.
Wait ==
    /\ pc = "wait"
    /\ IsListed
    /\ pc' = "look"
    /\ job' = Nobody
    /\ UNCHANGED <<limit, tableVars, controllerVars, webVars>>

Sleep ==
    /\ pc = "sleep"
    /\ pc' = "look"
    /\ UNCHANGED <<job, limit, tableVars, controllerVars, webVars>>

-----------------------------------------------------------------------------
(* The controller thread of job j *)

Moves(j, from, to) == thread[j] = from /\ thread' = [thread EXCEPT ![j] = to]

Put(j) ==
    /\ Moves(j, "starting", "put")
    /\ table' = table \union {j}
    /\ UNCHANGED <<schedulerVars, max_slots, event, webVars>>

SetEvent(j) ==
    /\ Moves(j, "put", "open")
    /\ event' = [event EXCEPT ![j] = TRUE]
    /\ UNCHANGED <<schedulerVars, tableVars, webVars>>

\* Popen, or an exception before it: a missing argument, a full disk.
Launch(j) ==
    /\ \/ Moves(j, "open", "running")
       \/ "raise" \in Fault /\ Moves(j, "open", AfterFailure)
    /\ UNCHANGED <<schedulerVars, tableVars, event, webVars>>

\* The subprocess ends and process.wait returns.
ProcessEnds(j) ==
    /\ Moves(j, "running", "closing")
    /\ UNCHANGED <<schedulerVars, tableVars, event, webVars>>

\* The finally block.
Remove(j) ==
    /\ MayRemove(j)
    /\ thread' = [thread EXCEPT ![j] = IF @ = "closing" THEN "closed" ELSE @]
    /\ table' = table \ {j}
    /\ UNCHANGED <<schedulerVars, max_slots, event, webVars>>

-----------------------------------------------------------------------------
(* The web server: one request at a time *)

\* PUT /max_slots takes any integer.
SetMaxSlots(m) ==
    /\ reader # "iterating"
    /\ max_slots' = m
    /\ UNCHANGED <<schedulerVars, table, controllerVars, webVars>>

\* GET /table.json iterates over the dictionary ...
ReadTable ==
    /\ reader = "idle"
    /\ reader' = "iterating"
    /\ left' = table
    /\ size' = Cardinality(table)
    /\ UNCHANGED <<schedulerVars, tableVars, controllerVars>>

\* ... which raises RuntimeError when its size has changed meanwhile.
ReadItem ==
    /\ reader = "iterating"
    /\ IF Cardinality(table) # size
       THEN reader' = "failed" /\ left' = {}
       ELSE IF left \intersect table = {}
            THEN reader' = "idle" /\ left' = {}
            ELSE \E j \in left \intersect table : left' = left \ {j} /\ UNCHANGED reader
    /\ UNCHANGED <<schedulerVars, tableVars, controllerVars, size>>

\* The client gets its error page, the server takes the next request.
EndRequest ==
    /\ reader = "failed"
    /\ reader' = "idle"
    /\ UNCHANGED <<schedulerVars, tableVars, controllerVars, left, size>>

-----------------------------------------------------------------------------
(* The system *)

SchedulerStep == Look \/ PullJob \/ Start \/ Wait \/ Sleep
ControllerStep(j) == Put(j) \/ SetEvent(j) \/ Launch(j) \/ Remove(j)
WebStep == (\E m \in -1..MaxSlots : SetMaxSlots(m)) \/ ReadTable \/ ReadItem \/ EndRequest

Next ==
    \/ SchedulerStep
    \/ \E j \in Job : ControllerStep(j) \/ ProcessEnds(j)
    \/ WebStep

Spec == Init /\ [][Next]_vars

(* Threads are scheduled, and a subprocess ends: Dispatch's JobEnds.          *)
FairSpec ==
    /\ Spec
    /\ WF_vars(SchedulerStep)
    /\ \A j \in Job : WF_vars(ControllerStep(j)) /\ WF_vars(ProcessEnds(j))

-----------------------------------------------------------------------------
(* Properties *)

\* The jobs whose controller thread has been started and not ended, listed in
\* the table or not.
Alive == {j \in Job : thread[j] \notin {"none", "closed"}}

\* The scheduler never takes on more jobs than there were slots when it looked,
\* although it counts the jobs in the table and a controller it has started is
\* not there at once ("Otherwise the scheduler may pull a new job even if all
\* slots have already been spent", JobController.start).
NotOverbooked == pc \in {"pull", "start"} => Cardinality(Alive) < limit

\* The web server never denies a job whose subprocess is running: the frontend
\* would take it for finished (get_job, "used for checking the job is still
\* running").
RunningIsListed == \A j \in Job : thread[j] = "running" => j \in table

\* What the proofs need: the table is the set of live jobs but for the one the
\* scheduler waits for, and its size is below the limit until that one is in it.
SchedulerInv ==
    /\ \A j \in Job : event[j] => thread[j] \notin {"none", "starting", "put"}
    /\ \A j \in Job : thread[j] \in {"starting", "put"} => pc = "wait" /\ job = j
    /\ \A j \in Job : j \in table <=> thread[j] \in {"put", "open", "running", "closing"}
    /\ pc = "start" => thread[job] = "none"
    /\ pc = "wait" => thread[job] # "none"
    /\ pc \in {"pull", "start"} \/ (pc = "wait" /\ thread[job] = "starting") =>
            Cardinality(table) < limit

\* The job table only grows below the number of slots last seen: lowering
\* max_slots evicts nobody, but nobody is added before a slot is free again.
GrowsBelowLimit ==
    [][\A j \in Job : j \in table' \ table => Cardinality(table) < limit]_vars

\* "Gets the whole job table": a request for the table is answered with it.
TableIsRead == reader # "failed"

\* A job that was pulled is run to its end, even when it cannot be launched: the
\* scheduler never waits for an event nobody sets, no slot is lost for good.
PulledJobEnds ==
    \A j \in Job : (job = j) ~> (thread[j] = "closed" /\ j \notin table)

=============================================================================
