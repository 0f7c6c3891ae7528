------------------------------ MODULE Dispatch ------------------------------
(***************************************************************************)
(* The subprocess of one job: worker/cmd.py prepares the job directory and *)
(* worker/dispatch.py runs the steps of the product definition one after   *)
(* the other, each under a time limit, stores result.json after every step *)
(* and grades the job at the end.  A step calls a check module, which      *)
(* reports through CheckStatus, may open the job's database schema, may    *)
(* raise, and may take longer than the time limit.                         *)
(*                                                                         *)
(* The time limit is an alarm signal whose handler raises TimedOutExc      *)
(* wherever the program happens to be.  The alarm is set before each check *)
(* and never cancelled; it rings once.  The handler waits for a call into  *)
(* C to come back, and a check may catch the exception itself.             *)
(***************************************************************************)
EXTENDS Integers, Sequences, SequencesExt, Functions

CONSTANTS
    N,              \* number of steps of the product definition
    SkipRequest,    \* sequences of step numbers users ask to skip
    Fault,          \* the faults that may happen
    LeaveSchema,    \* CONFIG["leave_schema"]
    LeaveJobdir     \* CONFIG["leave_jobdir"]

ASSUME StepsAssumption == N \in Nat \ {0}
ASSUME SkipAssumption == SkipRequest \subseteq Seq(Int)
ASSUME FaultAssumption == Fault \subseteq {"raise", "late", "db", "disk", "kill", "deaf"}
ASSUME LeaveAssumption == LeaveSchema \in BOOLEAN /\ LeaveJobdir \in BOOLEAN

VARIABLES
    required,       \* the steps of the product definition that are required
    skip,           \* --skip-steps
    pc,             \* where the program is
    step,           \* step_nr
    check,          \* CheckStatus.status
    alarm,          \* the alarm of the current check: not set yet, set, has rung
    steps,          \* job_result["steps"], the status of each step so far
    error,          \* is an exception on its way to the finally block
    fileSteps,      \* the steps in result.json
    fileStatus,     \* the status in result.json, "open" when it has none yet
    tmp,            \* does tmp.d exist in the job directory
    conn,           \* the connection of the ConnectionManager
    schema,         \* does the job's schema exist in the database
    named,          \* does the ConnectionManager have a job_schema_name
    call,           \* the call the check is in, "none" in its own code
    spoiled,        \* history: the process was killed or its cleanup failed
    events          \* history: what really happened in each step

planVars == <<required, skip>>
runVars  == <<pc, step, check, alarm>>
memVars  == <<steps, error>>
fileVars == <<fileSteps, fileStatus>>
resVars  == <<tmp, conn, schema, named, call>>
vars == <<planVars, runVars, memVars, fileVars, resVars, spoiled, events>>

-----------------------------------------------------------------------------
(* Types *)

Step       == 1..N
Complaint  == {"cancelled", "failed", "aborted"}
StepStatus == {"skipped", "ok"} \union Complaint
Final      == {"ok", "partial", "failed", "error"}
Event      == {"skipped", "begun", "returned", "raised", "timeout"} \union Complaint

\* A check may be away in C code, or in get_connection: about to create the
\* schema, to take its name, to set the search path.
Call == {"none", "away", "schema", "name", "path"}

\* before the launch; main; validate; create_dirs; the code before the first store; the loop; a
\* check; its exports; the store of its result; the finally block; the exits of
\* the two context managers.
Pc == {"none", "main", "validate", "dirs", "copy", "announce", "loop", "check", "export",
       "record", "finally", "close", "rmtmp", "end"}

TypeOK ==
    /\ required \subseteq Step /\ skip \in SkipRequest
    /\ pc \in Pc /\ step \in 1..(N + 1)
    /\ check \in StepStatus \ {"skipped"} /\ alarm \in {"off", "set", "rung"}
    /\ steps \in Seq(StepStatus) /\ Len(steps) <= step
    /\ error \in BOOLEAN
    /\ fileSteps \in Seq(StepStatus)
    /\ fileStatus \in {"missing", "open"} \union Final
    /\ tmp \in BOOLEAN /\ schema \in BOOLEAN /\ named \in BOOLEAN /\ call \in Call
    /\ conn \in {"none", "open", "broken"}
    /\ spoiled \in BOOLEAN
    /\ events \in [Step -> SUBSET Event]

-----------------------------------------------------------------------------
(* Helpers *)

\* validate_skip_steps: in range, not twice, not required.
IsInRange(request) ==                               \* mutant: required or not
    /\ \A i \in DOMAIN request : request[i] \in Step
    /\ IsInjective(request)
IsValid(request) ==
    /\ \A i \in DOMAIN request : request[i] \in Step \ required
    /\ IsInjective(request)

\* CheckStatus.aborted, failed, cancelled: a complaint never softens another.
Gravity(status) ==
    IF status = "aborted" THEN 3
    ELSE IF status = "failed" THEN 2
    ELSE IF status = "cancelled" THEN 1 ELSE 0
LastWord(old, new) == new                           \* mutant: no comparison
Worse(old, new) == IF Gravity(new) > Gravity(old) THEN new ELSE old

\* The complaint about a check that ran out of time.
TimeoutComplaint == IF step \in required THEN "aborted" ELSE "failed"

\* job_result["steps"].append
OnlyLast(status) == <<status>>                      \* mutant: append to nothing
WithStep(status) == Append(steps, status)

\* The grade the finally block gives.
GradeSkipsFirst(S, broken) ==                       \* mutant: skipped comes first
    IF broken THEN "error"
    ELSE IF "skipped" \in S THEN "partial"
    ELSE IF S \intersect Complaint # {} THEN "failed" ELSE "ok"
Grade(S, broken) ==
    IF broken THEN "error"
    ELSE IF {"aborted", "failed"} \intersect S # {} THEN "failed"
    ELSE IF "skipped" \in S THEN "partial"
    ELSE IF "cancelled" \in S THEN "failed" ELSE "ok"

\* The first result.json has no status yet.
HasStatusAtOnce == "ok"                             \* mutant: it has one
FirstStatus == "open"

\* The alarm is set before every check.
AlarmsOnce == step = 1                              \* mutant: before the loop
Alarms == TRUE

\* ConnectionManager.close connects again to drop the schema.
CanDropIfOpen == conn = "open"                      \* mutant: no reconnection
CanDrop == TRUE

\* is_aborted, the condition that ends the loop.
Stops == check = "aborted"

Happens(k, e) == events' = [events EXCEPT ![k] = @ \union {e}]

\* An exception leaves the loop for the finally block.
Raise == error' = TRUE /\ pc' = "finally"

Init ==
    /\ required \in SUBSET Step /\ skip \in SkipRequest
    /\ pc = "none" /\ step = 1 /\ check = "ok" /\ alarm = "off"
    /\ steps = <<>> /\ error = FALSE
    /\ fileSteps = <<>> /\ fileStatus = "missing"
    /\ tmp = FALSE /\ conn = "none" /\ schema = FALSE /\ named = FALSE /\ call = "none"
    /\ spoiled = FALSE
    /\ events = [k \in Step |-> {}]

-----------------------------------------------------------------------------
(* Before the first step *)

\* The job controller launches the subprocess.
Launch ==
    /\ pc = "none"
    /\ pc' = "main"
    /\ UNCHANGED <<planVars, step, check, alarm, memVars, fileVars, resVars, spoiled, events>>

\* cmd.main parses the arguments and creates the job directory.
Main ==
    /\ pc = "main"
    /\ pc' \in {"validate"} \union (IF "disk" \in Fault THEN {"end"} ELSE {})
    /\ UNCHANGED <<planVars, step, check, alarm, memVars, fileVars, resVars, spoiled, events>>

\* load_product_definition and validate_skip_steps, before any try block.
Validate ==
    /\ pc = "validate"
    /\ \/ IsValid(skip) /\ pc' = "dirs"
       \/ (~IsValid(skip) \/ "raise" \in Fault) /\ pc' = "end"
    /\ UNCHANGED <<planVars, step, check, alarm, memVars, fileVars, resVars, spoiled, events>>

\* JobdirManager.create_dirs in __enter__: an exception there skips __exit__.
CreateDirs ==
    /\ pc = "dirs"
    /\ \/ pc' = "copy" /\ tmp' = TRUE /\ UNCHANGED spoiled
       \/ "disk" \in Fault /\ pc' = "end" /\ tmp' \in BOOLEAN /\ spoiled' = TRUE
    /\ UNCHANGED <<planVars, step, check, alarm, memVars, fileVars, conn, schema, named, call, events>>

\* copy_product_definition_to_job; when it raises, the finally block finds no
\* job_result to complete and raises itself.
CopyDefinition ==
    /\ pc = "copy"
    /\ pc' \in {"announce"} \union (IF "raise" \in Fault THEN {"rmtmp"} ELSE {})
    /\ UNCHANGED <<planVars, step, check, alarm, memVars, fileVars, resVars, spoiled, events>>

\* make_signature and the first store.
Announce ==
    /\ pc = "announce"
    /\ \/ pc' = "loop" /\ fileStatus' = FirstStatus /\ UNCHANGED error
       \/ "raise" \in Fault /\ Raise /\ UNCHANGED fileStatus
    /\ UNCHANGED <<planVars, step, check, alarm, steps, fileSteps, resVars, spoiled, events>>

-----------------------------------------------------------------------------
(* The steps *)

\* job_result["steps"].append and store_job_result; a failed store raises.
Record(status) ==
    /\ steps' = WithStep(status)
    /\ \/ fileSteps' = steps' /\ UNCHANGED error
       \/ "disk" \in Fault /\ error' = TRUE /\ UNCHANGED fileSteps
    /\ UNCHANGED fileStatus

SkipStep ==
    /\ pc = "loop" /\ step <= N
    /\ step \in Range(skip)
    /\ Record("skipped")
    /\ IF error' THEN pc' = "finally" /\ UNCHANGED step ELSE pc' = "loop" /\ step' = step + 1
    /\ Happens(step, "skipped")
    /\ UNCHANGED <<planVars, check, alarm, resVars, spoiled>>

\* A new CheckStatus, import_module, alarm.
StartCheck ==
    /\ pc = "loop" /\ step <= N
    /\ step \notin Range(skip)
    /\ \/ pc' = "check" /\ check' = "ok" /\ alarm' = (IF Alarms THEN "set" ELSE alarm) /\ UNCHANGED error
          /\ Happens(step, "begun")
       \/ "raise" \in Fault /\ Raise /\ check' = "ok" /\ UNCHANGED alarm
          /\ Happens(step, "raised")
    /\ UNCHANGED <<planVars, step, steps, fileVars, resVars, spoiled>>

EndLoop ==
    /\ pc = "loop" /\ step > N
    /\ pc' = "finally"
    /\ UNCHANGED <<planVars, step, check, alarm, memVars, fileVars, resVars, spoiled, events>>

\* The check complains.
Complain(what) ==
    /\ pc = "check" /\ call = "none"
    /\ check' = Worse(check, what)
    /\ Happens(step, what)
    /\ UNCHANGED <<planVars, pc, step, alarm, memVars, fileVars, resVars, spoiled>>

ReturnFromCheck ==
    /\ pc = "check" /\ call = "none"
    /\ pc' = "export"
    /\ Happens(step, "returned")
    /\ UNCHANGED <<planVars, step, check, alarm, memVars, fileVars, resVars, spoiled>>

\* The check raises, for instance because the server closed the connection.
RaiseInCheck ==
    /\ "raise" \in Fault
    /\ pc = "check" /\ call = "none"
    /\ conn' \in {conn} \union (IF conn = "open" THEN {"broken"} ELSE {})
    /\ Raise
    /\ Happens(step, "raised")
    /\ UNCHANGED <<planVars, step, check, alarm, steps, fileVars, tmp, schema, named, call, spoiled>>

\* The check enters a call into C, a query or a computation on a raster, which
\* may never come back, or comes back from it.
CallOut ==
    /\ "deaf" \in Fault
    /\ pc = "check"
    /\ \/ call = "none" /\ call' = "away"
       \/ call = "away" /\ call' = "none"
    /\ UNCHANGED <<planVars, runVars, memVars, fileVars, tmp, conn, schema, named, spoiled, events>>

\* The alarm rings while the check runs.
TimeOut ==
    /\ pc = "check" /\ alarm = "set" /\ call # "away"
    /\ alarm' = "rung"
    /\ check' = Worse(check, TimeoutComplaint)
    /\ pc' = "export" /\ call' = "none"
    /\ Happens(step, "timeout")
    /\ UNCHANGED <<planVars, step, memVars, fileVars, tmp, conn, schema, named, spoiled>>

\* The alarm rings inside a try block of the check that catches every Exception
\* (unzip, download, requests to a service, is_marginal): the check goes on.
Swallow ==
    /\ "deaf" \in Fault
    /\ pc = "check" /\ alarm = "set" /\ call = "none"
    /\ alarm' = "rung"
    /\ UNCHANGED <<planVars, pc, step, check, memVars, fileVars, resVars, spoiled, events>>

-----------------------------------------------------------------------------
(* ConnectionManager.get_connection, called by a check *)

\* A query of get_connection fails, perhaps with the connection.
FailToConnect ==
    /\ "db" \in Fault
    /\ conn' \in {conn, "broken"}
    /\ Raise /\ call' = "none"
    /\ Happens(step, "raised")

\* get_connection has what it is asked for, or goes on with the schema; an alarm
\* that rings in connect() is turned into a ConnectionException.
Connect ==
    /\ pc = "check" /\ call = "none" /\ conn # "open"
    /\ \/ /\ conn' = "open" /\ call' = IF named THEN "none" ELSE "schema"
          /\ UNCHANGED <<pc, alarm, error, events>>
       \/ /\ ("db" \in Fault /\ UNCHANGED alarm) \/ (alarm = "set" /\ alarm' = "rung")
          /\ Raise /\ Happens(step, "raised")
          /\ UNCHANGED <<conn, call>>
    /\ UNCHANGED <<planVars, step, check, steps, fileVars, tmp, schema, named, spoiled>>

\* CREATE SCHEMA: it fails before or after the server has made the schema, or
\* because it is there.
CreateSchema ==
    /\ pc = "check" /\ call = "schema"
    /\ \/ ~schema /\ schema' = TRUE /\ call' = "name" /\ UNCHANGED <<pc, conn, error, events>>
       \/ FailToConnect /\ schema' \in {schema, TRUE}
       \/ /\ schema
          /\ Raise /\ call' = "none" /\ Happens(step, "raised") /\ UNCHANGED <<conn, schema>>
    /\ UNCHANGED <<planVars, step, check, alarm, steps, fileVars, tmp, named, spoiled>>

\* self.job_schema_name = job_schema_name
NameSchema ==
    /\ pc = "check" /\ call = "name"
    /\ named' = TRUE /\ call' = "path"
    /\ UNCHANGED <<planVars, runVars, memVars, fileVars, tmp, conn, schema, spoiled, events>>

\* SET search_path
SetPath ==
    /\ pc = "check" /\ call = "path"
    /\ \/ call' = "none" /\ UNCHANGED <<pc, conn, error, events>>
       \/ FailToConnect
    /\ UNCHANGED <<planVars, step, check, alarm, steps, fileVars, tmp, schema, named, spoiled>>

-----------------------------------------------------------------------------
(* After a check *)

\* dump_error_table and dump_full_table need the database.
Export ==
    /\ pc = "export"
    /\ \/ pc' = "record" /\ UNCHANGED error
       \/ "db" \in Fault /\ Raise
    /\ UNCHANGED <<planVars, step, check, alarm, steps, fileVars, resVars, spoiled, events>>

RecordCheck ==
    /\ pc = "record"
    /\ Record(check)
    /\ IF error' \/ Stops THEN pc' = "finally" /\ UNCHANGED step
                          ELSE pc' = "loop" /\ step' = step + 1
    /\ UNCHANGED <<planVars, check, alarm, resVars, spoiled, events>>

-----------------------------------------------------------------------------
(* The end *)

\* The finally block grades and stores; the pdf report that follows changes
\* nothing here, whether it succeeds or not.
Finish ==
    /\ pc = "finally"
    /\ pc' = "close"
    /\ \/ fileSteps' = steps /\ fileStatus' = Grade(Range(steps), error)
       \/ "disk" \in Fault /\ UNCHANGED fileVars
    /\ UNCHANGED <<planVars, step, check, alarm, memVars, resVars, spoiled, events>>

\* ConnectionManager.close: drop the schema whose name it has, over a new
\* connection if need be.  An exception leaves the schema behind.
Close ==
    /\ pc = "close"
    /\ pc' = "rmtmp"
    /\ LET drops == named /\ ~LeaveSchema /\ CanDrop IN
       \/ /\ schema' = (schema /\ ~drops) /\ named' = (named /\ ~drops) /\ conn' = "none"
          /\ UNCHANGED spoiled
       \/ "db" \in Fault /\ drops /\ UNCHANGED <<conn, schema, named>> /\ spoiled' = TRUE
    /\ UNCHANGED <<planVars, step, check, alarm, memVars, fileVars, tmp, call, events>>

\* JobdirManager.remove_tmp_dir
RemoveTmp ==
    /\ pc = "rmtmp"
    /\ pc' = "end"
    /\ \/ tmp' = (tmp /\ LeaveJobdir) /\ UNCHANGED spoiled
       \/ "disk" \in Fault /\ UNCHANGED tmp /\ spoiled' = TRUE
    /\ UNCHANGED <<planVars, step, check, alarm, memVars, fileVars, conn, schema, named, call, events>>

\* The alarm of a check rings after it: TimedOutExc is raised in the code that
\* exports, stores, finishes or cleans up.
LateAlarm ==
    /\ "late" \in Fault
    /\ alarm = "set"
    /\ alarm' = "rung"
    /\ \/ pc \in {"loop", "export", "record"} /\ Raise
       \/ pc = "finally" /\ pc' = "close" /\ UNCHANGED error
       \/ pc = "close" /\ pc' = "rmtmp" /\ UNCHANGED error
       \/ pc = "rmtmp" /\ pc' = "end" /\ UNCHANGED error
    /\ spoiled' = (spoiled \/ pc \in {"close", "rmtmp"})
    /\ UNCHANGED <<planVars, step, check, steps, fileVars, resVars, events>>

\* The operating system kills the process.
Kill ==
    /\ "kill" \in Fault
    /\ pc \notin {"none", "end"}
    /\ pc' = "end" /\ spoiled' = TRUE
    /\ UNCHANGED <<planVars, step, check, alarm, memVars, fileVars, resVars, events>>

-----------------------------------------------------------------------------
(* The system *)

Begin   == Launch \/ Main \/ Validate \/ CreateDirs \/ CopyDefinition \/ Announce
Iterate == SkipStep \/ StartCheck \/ EndLoop \/ Export \/ RecordCheck
End     == Finish \/ Close \/ RemoveTmp
Open    == CreateSchema \/ NameSchema \/ SetPath
Check   == (\E what \in Complaint : Complain(what)) \/ ReturnFromCheck \/ RaiseInCheck \/ Connect
Ring    == TimeOut \/ Swallow

Next == Begin \/ Iterate \/ Check \/ CallOut \/ Open \/ Ring \/ End \/ LateAlarm \/ Kill

Spec == Init /\ [][Next]_vars

\* The program goes on, and the alarm rings as soon as the check is in code of its
\* own; a check need not return, nor any call into C.
FairSpec == Spec /\ WF_vars(Begin \/ Iterate \/ End \/ Open) /\ SF_vars(Ring)

-----------------------------------------------------------------------------
(* Safety *)

\* What a step must be recorded as, given what happened in it (CheckStatus,
\* the handling of TimedOutExc in dispatch).
TrueStatus(k) ==
    LET E == events[k] IN
    IF "skipped" \in E THEN "skipped"
    ELSE IF "aborted" \in E \/ ("timeout" \in E /\ k \in required) THEN "aborted"
    ELSE IF "failed" \in E \/ "timeout" \in E THEN "failed"
    ELSE IF "cancelled" \in E THEN "cancelled" ELSE "ok"

\* result.json tells the truth about every step it lists, in every state a
\* reader may catch it in (store_job_result after each step).
StepsAreTrue ==
    \A k \in DOMAIN fileSteps : k \in Step /\ fileSteps[k] = TrueStatus(k)

\* The grade is earned: "ok" means that every step of the product definition
\* ran to its end without a complaint, "partial" that what was not skipped did
\* not fail, "failed" that some check complained or ran out of time.
GradeIsEarned ==
    /\ fileStatus = "ok" => \A k \in Step : events[k] = {"begun", "returned"}
    /\ fileStatus = "partial" =>
        /\ \E k \in Step : "skipped" \in events[k]
        /\ \A k \in Step : events[k] # {} /\ TrueStatus(k) \notin {"failed", "aborted"}
    /\ fileStatus = "failed" => \E k \in Step : TrueStatus(k) \in Complaint

\* A required step is never skipped, and nothing runs after it was aborted or
\* was found to run out of time (validate_skip_steps, the break at the end of the
\* loop).
RequiredGates ==
    \A k \in Step :
        /\ "skipped" \in events[k] => k \notin required
        /\ TrueStatus(k) = "aborted" => \A l \in Step : l > k => events[l] = {}

(* The inductive invariant behind StepsAreTrue, GradeIsEarned, RequiredGates. *)

Early  == {"none", "main", "validate", "dirs", "copy", "announce"}
InLoop == {"loop", "check", "export", "record"}

\* What is known of a step that has been recorded.
Ended(k) ==
    \/ events[k] = {"skipped"}
    \/ /\ "begun" \in events[k] /\ events[k] \intersect {"returned", "timeout"} # {}
       /\ events[k] \intersect {"skipped", "raised"} = {}

\* Nothing happens before the loop, and the skipped steps are valid in it.
BeginInv ==
    /\ pc \in Early =>
        /\ step = 1 /\ steps = <<>> /\ ~error /\ fileSteps = <<>> /\ fileStatus = "missing"
        /\ \A k \in Step : events[k] = {}
    /\ pc \in InLoop \union {"dirs", "copy", "announce"} => IsValid(skip)

\* The current step: nothing has happened, it is running, it is over.
StepInv ==
    /\ pc \in InLoop => ~error /\ Len(steps) = step - 1 /\ fileSteps = steps /\ fileStatus = "open"
    /\ pc \in InLoop \ {"loop"} => step \in Step
    /\ pc = "loop" => \A k \in Step : k >= step => events[k] = {}
    /\ pc = "check" =>
        /\ "begun" \in events[step] /\ events[step] \subseteq {"begun"} \union Complaint
        /\ check = TrueStatus(step)
    /\ pc \in {"export", "record"} =>
        /\ Ended(step) /\ events[step] # {"skipped"}
        /\ check = TrueStatus(step)

\* The steps recorded so far: only the last one may be aborted.
RecordInv ==
    /\ Len(steps) \in {step - 1, step} /\ Len(steps) <= N
    /\ \A k \in DOMAIN steps : steps[k] = TrueStatus(k) /\ Ended(k)
    /\ \A k \in Step : k < step => steps[k] # "aborted"
    /\ \A k \in Step : k > step => events[k] = {}
    /\ \A k \in Step : "skipped" \in events[k] => k \notin required

\* The file holds the first of them, and a grade when the program is done.
FileInv ==
    /\ Len(fileSteps) <= Len(steps)
    /\ \A k \in DOMAIN fileSteps : fileSteps[k] = steps[k]
    /\ fileStatus \in Final => pc \in {"close", "rmtmp", "end"}
    /\ pc = "finally" => error \/ Len(steps) = N \/ "aborted" \in Range(steps)
    /\ GradeIsEarned

DispatchInv == BeginInv /\ StepInv /\ RecordInv /\ FileInv

\* Unless it is killed or its cleanup itself is disturbed, the program leaves no
\* tmp.d, and no schema but one: that of a check which ran out of time, or lost its
\* connection, when the schema was made and its name not yet taken.  It does so
\* wherever else an exception or an alarm takes it and whatever became of the
\* connection (JobdirManager and ConnectionManager on the exit stack).
LeavesNothing ==
    pc = "end" /\ ~spoiled =>
        /\ tmp => LeaveJobdir
        /\ schema => LeaveSchema
                     \/ (~named /\ \E k \in Step : events[k] \intersect {"timeout", "raised"} # {})

\* The schema of a job is dropped (ConnectionManager.close); this is not so when
\* the alarm rings between CREATE SCHEMA and the assignment of the name.
SchemaIsDropped == pc = "end" /\ ~spoiled => (schema => LeaveSchema)

\* TimedOutExc means "The check has failed due to a timeout": a job whose
\* checks did not raise does not end with status error.
ErrorsComeFromChecks ==
    fileStatus = "error" => \E k \in Step : "raised" \in events[k]

\* A reader of result.json sees it grow: no step is rewritten or lost, the file
\* does not vanish, and once there is a status nothing changes any more.
StoredResultGrows ==
    [][/\ IsPrefix(fileSteps, fileSteps')
       /\ fileStatus # "missing" => fileStatus' # "missing"
       /\ fileStatus \in Final => UNCHANGED fileVars]_vars

-----------------------------------------------------------------------------
(* Liveness and refinement *)

\* Every job ends, though a check may hang: the alarm ends it, unless the check is
\* caught for ever in a call into C or has swallowed its alarm.
JobEnds ==
    <>[](pc = "check" /\ (call = "away" \/ alarm = "rung")) \/ ((pc # "none") ~> (pc = "end"))

\* No check keeps a job for ever (dispatch, the time limit); this is not so when it
\* catches TimedOutExc itself.
TimeLimitHolds == (pc # "none") ~> (pc = "end")

Outcome == INSTANCE JobOutcome WITH
    MayDie  <- TRUE,
    process <- IF pc = "none" THEN "none" ELSE IF pc = "end" THEN "exited" ELSE "running",
    result  <- fileStatus

\* To the rest of the system the program is the subprocess of JobOutcome.
ImplementsOutcome == Outcome!Spec

=============================================================================
