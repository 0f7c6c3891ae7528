---------------------------- MODULE JobLifecycle ----------------------------
(***************************************************************************)
(* The life of QC jobs across the frontend, the workers and the shared     *)
(* work directory of copernicus_quality_tools.                             *)
(*                                                                         *)
(*  - the frontend keeps a database row per job (models.Job).  Rows are    *)
(*    written by concurrent request threads: create_job, pull_job (asked   *)
(*    by workers), job_delete, the status views, and by the background     *)
(*    thread refresh_job_statuses.  The database runs in autocommit mode,  *)
(*    so every query is a step of its own;                                 *)
(*  - a worker pulls jobs while it has free slots, keeps the running ones  *)
(*    in its job table and runs each one in a subprocess;                  *)
(*  - the subprocess leaves result.json in the shared work directory;      *)
(*  - the frontend learns the outcome by asking the worker whether the job *)
(*    is still in its table and by reading result.json when it is not.     *)
(***************************************************************************)
EXTENDS Integers, FiniteSets

CONSTANTS
    Job,            \* job uuids
    Worker,         \* worker containers, each one a worker_url
    View,           \* request threads that ask for the status of running jobs
    History,        \* the views that ask at once, whatever the age of the job
    Refresher,      \* the background thread of the frontend
    Background,     \* is it started (REFRESH_JOB_STATUSES_BACKGROUND)
    Deleter,        \* request threads that run job_delete
    MaxSlots,       \* slots of one worker
    Fault,          \* the faults that may happen
    PickupInTime,   \* a pulled job is in the job table within the guard delay
    Nobody          \* no job, no worker

ASSUME SlotsAssumption == MaxSlots \in Nat \ {0}
ASSUME FiniteAssumption == IsFiniteSet(Job)
ASSUME ThreadAssumption == History \subseteq View /\ Refresher \notin View
ASSUME NobodyAssumption == Nobody \notin Job /\ Nobody \notin Worker
ASSUME FaultAssumption ==
    Fault \subseteq {"crash", "loss", "timeout", "unreachable", "reset", "die"}
ASSUME SwitchAssumption == PickupInTime \in BOOLEAN /\ Background \in BOOLEAN

VARIABLES
    status,     \* Job.job_status, "new" before there is a row, "absent" after
    url,        \* Job.worker_url
    birth,      \* rank of Job.date_created, 0 before the clock is read
    entry,      \* history: rank of the insertion of the row, 0 before it
    young,      \* less than CHECK_RUNNING_JOB_DELAY passed since date_started
    pullPc,     \* how far the handler of each worker's pull request has come
    pullJob,    \* the job that handler has picked
    deletion,   \* the job_delete requests
    checkPc,    \* how far the status checks of the views and of the thread are
    todo,       \* copies of running rows a checker still has to look at
    copy,       \* the copy it is working on
    word,       \* the answer of the worker, then the status to be saved
    up,         \* is the worker container alive
    table,      \* the job table of each worker
    process,    \* the subprocess of each job
    result,     \* the status in result.json of each job
    starts      \* history: how many times a subprocess was launched for a job

rowVars    == <<status, url, birth, entry, young>>
pullVars   == <<pullPc, pullJob>>
checkVars  == <<checkPc, todo, copy, word>>
workerVars == <<up, table, process, result, starts>>
vars == <<rowVars, pullVars, deletion, checkVars, workerVars>>

-----------------------------------------------------------------------------
(* Types *)

\* Statuses dispatch leaves in result.json (common.py).
Graded  == {"ok", "partial", "failed"}
Final   == Graded \union {"error"}
\* Statuses of a job that is not waiting and not running.
Closed  == Final \union {"timeout", "lost"}
Status  == {"new", "absent", "waiting", "running"} \union Closed

Checker == View \union {Refresher}

\* What a checker remembers of a row it read in status running.
Copy == [job : Job, url : Worker \union {Nobody}]

\* The answers of a worker that make the checker read result.json: the job is
\* not in the table, the worker does not answer in time, it cannot be reached.
Answer == {"null", "timeout", "lost"}

PullPc  == {"idle", "listed", "picked", "claimed", "answered"}
CheckPc == {"idle", "polling", "loading", "saving", "dead"}

TypeOK ==
    /\ status \in [Job -> Status]
    /\ url \in [Job -> Worker \union {Nobody}]
    /\ birth \in [Job -> Nat] /\ entry \in [Job -> Nat]
    /\ young \in [Job -> BOOLEAN]
    /\ pullPc \in [Worker -> PullPc]
    /\ pullJob \in [Worker -> Job \union {Nobody}]
    /\ \A w \in Worker : pullJob[w] = Nobody <=> pullPc[w] \in {"idle", "listed"}
    /\ deletion \in [Deleter -> Job \union {Nobody}]
    /\ checkPc \in [Checker -> CheckPc]
    /\ todo \in [Checker -> SUBSET Copy]
    /\ copy \in [Checker -> Copy \union {Nobody}]
    /\ word \in [Checker -> {"none"} \union Answer \union Closed]
    /\ \A c \in Checker :
        /\ checkPc[c] \in {"loading", "saving"} => copy[c] \in Copy
        /\ checkPc[c] = "loading" => word[c] \in Answer
        /\ checkPc[c] = "saving" => word[c] \in Closed
    /\ up \in [Worker -> BOOLEAN]
    /\ table \in [Worker -> SUBSET Job]
    /\ process \in [Job -> {"none", "running", "exited"}]
    /\ result \in [Job -> {"missing", "open"} \union Final]
    /\ starts \in [Job -> Nat]

-----------------------------------------------------------------------------
(* Helpers *)

RowsWith(st) == {j \in Job : status[j] = st}

RunningRowsAll == {j \in Job : url[j] # Nobody}     \* mutant: without the filter
RunningRows == RowsWith("running")

\* The row filter(job_status=WAITING).order_by("date_created")[:1] selects.
IsAnyWaiting(j) == status[j] = "waiting"            \* mutant: without order_by
IsNextWaiting(j) ==
    /\ status[j] = "waiting"
    /\ \A k \in RowsWith("waiting") : birth[j] <= birth[k]

\* The rows UPDATE ... WHERE job_status = WAITING affects.
IsClaimableAlways(j) == TRUE                        \* mutant: without the WHERE
IsClaimable(j) == status[j] = "waiting"

\* JobTable.free_slots.
FreeSlotsOver(w)  == MaxSlots - Cardinality(table[w]) + 1   \* mutant
FreeSlotsUnder(w) == MaxSlots - Cardinality(table[w]) - 1   \* mutant
FreeSlots(w)      == MaxSlots - Cardinality(table[w])

\* dispatch stores a status once, at its end, and an error when it fails before
\* the first store; process.wait waits for the end of the subprocess.
IsGradableAgain(j, v) == result[j] # "missing" \/ v = "error"   \* mutant
IsGradable(j, v) == result[j] = "open" \/ (result[j] = "missing" /\ v = "error")

HasExitedAlways(j) == TRUE                          \* mutant: nobody waits
HasExited(j) == process[j] = "exited"

\* load_job_status: no file or no status in it counts as an error.
LoadedStatus(j) == IF result[j] \in Final THEN result[j] ELSE "error"

\* check_running_job: what to make of the answer and of the loaded status.
VerdictLenient(answer, loaded) ==                   \* mutant: silent means alive
    IF loaded = "error" /\ answer \in {"timeout", "lost"} THEN "running" ELSE loaded
Verdict(answer, loaded) ==
    IF loaded = "error" /\ answer # "null" THEN answer ELSE loaded

\* A job is on its way from the claiming UPDATE to the job table of w.
InFlight(w, j) == pullPc[w] \in {"claimed", "answered"} /\ pullJob[w] = j

HasJob(w, j) == InFlight(w, j) \/ j \in table[w]

OnWorker(j) == \E w \in Worker : j \in table[w]

Init ==
    /\ status = [j \in Job |-> "new"]
    /\ url = [j \in Job |-> Nobody]
    /\ birth = [j \in Job |-> 0] /\ entry = [j \in Job |-> 0]
    /\ young = [j \in Job |-> FALSE]
    /\ pullPc = [w \in Worker |-> "idle"]
    /\ pullJob = [w \in Worker |-> Nobody]
    /\ deletion = [d \in Deleter |-> Nobody]
    /\ checkPc = [c \in Checker |-> "idle"]
    /\ todo = [c \in Checker |-> {}]
    /\ copy = [c \in Checker |-> Nobody]
    /\ word = [c \in Checker |-> "none"]
    /\ up = [w \in Worker |-> TRUE]
    /\ table = [w \in Worker |-> {}]
    /\ process = [j \in Job |-> "none"]
    /\ result = [j \in Job |-> "missing"]
    /\ starts = [j \in Job |-> 0]

-----------------------------------------------------------------------------
(* Frontend: creating and deleting rows *)

Ranked(rank) == {k \in Job : rank[k] # 0}

\* Delivery.create_job reads the clock for a new job under a fresh uuid, ...
DateJob(j) ==
    /\ birth[j] = 0
    /\ birth' = [birth EXCEPT ![j] = Cardinality(Ranked(birth)) + 1]
    /\ UNCHANGED <<status, url, entry, young, pullVars, deletion, checkVars, workerVars>>

\* ... looks up the description of the product, and only then saves the row: it
\* may come after that of a job that was dated later, or never.
InsertJob(j) ==
    /\ birth[j] # 0 /\ status[j] = "new"
    /\ status' = [status EXCEPT ![j] = "waiting"]
    /\ entry' = [entry EXCEPT ![j] = Cardinality(Ranked(entry)) + 1]
    /\ UNCHANGED <<url, birth, young, pullVars, deletion, checkVars, workerVars>>

\* job_delete validates first: the row exists and is not running ...
CheckDeletable(d, j) ==
    /\ deletion[d] = Nobody
    /\ status[j] \notin {"new", "absent", "running"}
    /\ deletion' = [deletion EXCEPT ![d] = j]
    /\ UNCHANGED <<rowVars, pullVars, checkVars, workerVars>>

\* ... and then deletes whatever the row has become.
DeleteRow(d) ==
    /\ deletion[d] # Nobody
    /\ status' = [status EXCEPT ![deletion[d]] = "absent"]
    /\ deletion' = [deletion EXCEPT ![d] = Nobody]
    /\ UNCHANGED <<url, birth, entry, young, pullVars, checkVars, workerVars>>

-----------------------------------------------------------------------------
(* Worker w asks for a job; the handler in the frontend runs pull_job *)

\* Scheduler.run asks only while there is a free slot; len(jobs) is the first
\* query of the handler.  Without a waiting job the answer is null and the
\* scheduler sleeps, which changes nothing.
PullList(w) ==
    /\ up[w]
    /\ pullPc[w] = "idle"
    /\ FreeSlots(w) > 0
    /\ RowsWith("waiting") # {}
    /\ pullPc' = [pullPc EXCEPT ![w] = "listed"]
    /\ UNCHANGED <<rowVars, pullJob, deletion, checkVars, workerVars>>

\* The request of w ends without a job.
EndPull(w) ==
    /\ pullPc' = [pullPc EXCEPT ![w] = "idle"]
    /\ pullJob' = [pullJob EXCEPT ![w] = Nobody]

\* jobs.get() evaluates the query again; with no row left it raises
\* DoesNotExist, and the scheduler takes the HTTP error for "no job".
PullGet(w) ==
    /\ pullPc[w] = "listed"
    /\ \/ \E j \in Job :
            /\ IsNextWaiting(j)
            /\ pullPc' = [pullPc EXCEPT ![w] = "picked"]
            /\ pullJob' = [pullJob EXCEPT ![w] = j]
       \/ /\ RowsWith("waiting") = {}
          /\ EndPull(w)
    /\ UNCHANGED <<rowVars, deletion, checkVars, workerVars>>

\* UPDATE ... WHERE job_status = WAITING AND job_uuid = j.
PullClaim(w) ==
    /\ pullPc[w] = "picked"
    /\ LET j == pullJob[w] IN
       \/ /\ IsClaimable(j)
          /\ status' = [status EXCEPT ![j] = "running"]
          /\ url' = [url EXCEPT ![j] = w]
          /\ young' = [young EXCEPT ![j] = TRUE]
          /\ pullPc' = [pullPc EXCEPT ![w] = "claimed"]
          /\ UNCHANGED pullJob
       \/ /\ ~IsClaimable(j)
          /\ EndPull(w)
          /\ UNCHANGED <<status, url, young>>
    /\ UNCHANGED <<birth, entry, deletion, checkVars, workerVars>>

\* Job.objects.get fails when the row was deleted meanwhile.
PullAnswer(w) ==
    /\ pullPc[w] = "claimed"
    /\ IF status[pullJob[w]] = "absent"
       THEN EndPull(w)
       ELSE pullPc' = [pullPc EXCEPT ![w] = "answered"] /\ UNCHANGED pullJob
    /\ UNCHANGED <<rowVars, deletion, checkVars, workerVars>>

\* The answer reaches the scheduler: JobController puts the job into the table
\* before the scheduler goes on, and launches the subprocess.
StartController(w) ==
    /\ pullPc[w] = "answered"
    /\ up[w]
    /\ LET j == pullJob[w] IN
       /\ table' = [table EXCEPT ![w] = @ \union {j}]
       /\ process' = [process EXCEPT ![j] = "running"]
       /\ starts' = [starts EXCEPT ![j] = @ + 1]
    /\ EndPull(w)
    /\ UNCHANGED <<rowVars, deletion, checkVars, up, result>>

\* The answer is lost with the connection, or with the worker that asked.
LoseAnswer(w) ==
    /\ pullPc[w] = "answered"
    /\ ~up[w] \/ "loss" \in Fault
    /\ EndPull(w)
    /\ UNCHANGED <<rowVars, deletion, checkVars, workerVars>>

\* CHECK_RUNNING_JOB_DELAY seconds have passed since date_started.
GrowOld(j) ==
    /\ young[j]
    /\ PickupInTime => \A w \in Worker : ~InFlight(w, j)
    /\ young' = [young EXCEPT ![j] = FALSE]
    /\ UNCHANGED <<status, url, birth, entry, pullVars, deletion, checkVars, workerVars>>

-----------------------------------------------------------------------------
(* Worker: the subprocess, its controller thread and the container *)

\* dispatch stores a first result.json that has no status yet.
OpenResult(j) ==
    /\ process[j] = "running"
    /\ result[j] = "missing"
    /\ result' = [result EXCEPT ![j] = "open"]
    /\ UNCHANGED <<rowVars, pullVars, deletion, checkVars, up, table, process, starts>>

\* The finally block of dispatch renames the graded result into place.
GradeResult(j) ==
    /\ process[j] = "running"
    /\ \E v \in Final : IsGradable(j, v) /\ result' = [result EXCEPT ![j] = v]
    /\ UNCHANGED <<rowVars, pullVars, deletion, checkVars, up, table, process, starts>>

\* The subprocess ends: it is done, or it dies before it could grade the job.
ExitProcess(j) ==
    /\ process[j] = "running"
    /\ result[j] \in Final \/ "die" \in Fault
    /\ process' = [process EXCEPT ![j] = "exited"]
    /\ UNCHANGED <<rowVars, pullVars, deletion, checkVars, up, table, result, starts>>

\* JobController.run: process.wait returns, finally job_table.rm.
CloseController(w, j) ==
    /\ j \in table[w]
    /\ HasExited(j)
    /\ table' = [table EXCEPT ![w] = @ \ {j}]
    /\ UNCHANGED <<rowVars, pullVars, deletion, checkVars, up, process, result, starts>>

\* The container stops with its table and its subprocesses.
CrashWorker(w) ==
    /\ "crash" \in Fault
    /\ up[w]
    /\ up' = [up EXCEPT ![w] = FALSE]
    /\ table' = [table EXCEPT ![w] = {}]
    /\ process' = [j \in Job |-> IF j \in table[w] THEN "exited" ELSE process[j]]
    /\ UNCHANGED <<rowVars, pullVars, deletion, checkVars, result, starts>>

\* A container starts in seconds, a handler it left behind ends before that.
RestartWorker(w) ==
    /\ ~up[w]
    /\ pullPc[w] = "idle"
    /\ up' = [up EXCEPT ![w] = TRUE]
    /\ UNCHANGED <<rowVars, pullVars, deletion, checkVars, table, process, result, starts>>

-----------------------------------------------------------------------------
(* Frontend: checking running jobs *)

CopyOf(j) == [job |-> j, url |-> url[j]]

\* The background thread reads all running rows, a view those it shows.
ReadRunning(c, S) ==
    /\ checkPc[c] = "idle"
    /\ S # {}
    /\ checkPc' = [checkPc EXCEPT ![c] = "polling"]
    /\ todo' = [todo EXCEPT ![c] = {CopyOf(j) : j \in S}]
    /\ UNCHANGED <<rowVars, pullVars, deletion, copy, word, workerVars>>

\* c goes on with the copies in rest, or has come to its end.
GoOn(c, rest) ==
    /\ checkPc' = [checkPc EXCEPT ![c] = IF rest = {} THEN "idle" ELSE "polling"]
    /\ todo' = [todo EXCEPT ![c] = rest]
    /\ copy' = [copy EXCEPT ![c] = Nobody]
    /\ word' = [word EXCEPT ![c] = "none"]

IsDueAtOnce(c, r) == TRUE                           \* mutant: nobody waits
IsDue(c, r) == c \in History \/ ~young[r.job]

\* update_job and refresh_job_statuses leave young jobs alone.
SkipYoung(c, r) ==
    /\ checkPc[c] = "polling" /\ r \in todo[c]
    /\ ~IsDue(c, r)
    /\ GoOn(c, todo[c] \ {r})
    /\ UNCHANGED <<rowVars, pullVars, deletion, workerVars>>

\* check_running_job asks worker_url for the job: it is in the table (nothing
\* to do), it is not, the worker is late, or the connection is refused.
Poll(c, r) ==
    /\ checkPc[c] = "polling" /\ r \in todo[c]
    /\ IsDue(c, r)
    /\ \/ /\ up[r.url] /\ r.job \in table[r.url]
          /\ GoOn(c, todo[c] \ {r})
       \/ \E a \in Answer :
            /\ a = "null" => up[r.url] /\ r.job \notin table[r.url]
            /\ a = "timeout" => "timeout" \in Fault
            /\ a = "lost" => ~up[r.url] \/ "unreachable" \in Fault
            /\ checkPc' = [checkPc EXCEPT ![c] = "loading"]
            /\ copy' = [copy EXCEPT ![c] = r]
            /\ word' = [word EXCEPT ![c] = a]
            /\ UNCHANGED todo
    /\ UNCHANGED <<rowVars, pullVars, deletion, workerVars>>

\* The worker closes the connection before it answers.  http.client raises a
\* ConnectionError, which check_running_job does not catch: a request fails,
\* the background thread is gone.
BreakPoll(c, r) ==
    /\ "reset" \in Fault
    /\ checkPc[c] = "polling" /\ r \in todo[c]
    /\ IsDue(c, r)
    /\ up[r.url]
    /\ checkPc' = [checkPc EXCEPT ![c] = IF c = Refresher THEN "dead" ELSE "idle"]
    /\ todo' = [todo EXCEPT ![c] = {}]
    /\ UNCHANGED <<rowVars, pullVars, deletion, copy, word, workerVars>>

\* check_running_job reads result.json and decides.
LoadVerdict(c) ==
    /\ checkPc[c] = "loading"
    /\ checkPc' = [checkPc EXCEPT ![c] = "saving"]
    /\ word' = [word EXCEPT ![c] = Verdict(@, LoadedStatus(copy[c].job))]
    /\ UNCHANGED <<rowVars, pullVars, deletion, todo, copy, workerVars>>

\* Job.update_status saves every field of the copy; Django inserts the row
\* again when it is gone.
SaveVerdict(c) ==
    /\ checkPc[c] = "saving"
    /\ status' = [status EXCEPT ![copy[c].job] = word[c]]
    /\ url' = [url EXCEPT ![copy[c].job] = copy[c].url]
    /\ GoOn(c, todo[c] \ {copy[c]})
    /\ UNCHANGED <<birth, entry, young, pullVars, deletion, workerVars>>

-----------------------------------------------------------------------------
(* The system *)

CreateStep(j) == DateJob(j) \/ InsertJob(j)

PullStep(w) == PullList(w) \/ PullGet(w) \/ PullClaim(w) \/ PullAnswer(w)

DeliverStep(w) == StartController(w) \/ LoseAnswer(w)

ProcessStep(j) == OpenResult(j) \/ GradeResult(j) \/ ExitProcess(j)

CheckStep(c) ==
    \/ \E r \in todo[c] : SkipYoung(c, r) \/ Poll(c, r) \/ BreakPoll(c, r)
    \/ LoadVerdict(c)
    \/ SaveVerdict(c)

RefreshStep == Background /\ (ReadRunning(Refresher, RunningRows) \/ CheckStep(Refresher))

ViewStep(c) == (\E S \in SUBSET RunningRows : ReadRunning(c, S)) \/ CheckStep(c)

Next ==
    \/ \E j \in Job : CreateStep(j) \/ GrowOld(j) \/ ProcessStep(j)
    \/ \E d \in Deleter : DeleteRow(d) \/ \E j \in Job : CheckDeletable(d, j)
    \/ \E w \in Worker :
        \/ PullStep(w) \/ DeliverStep(w)
        \/ CrashWorker(w) \/ RestartWorker(w)
        \/ \E j \in Job : CloseController(w, j)
    \/ RefreshStep
    \/ \E c \in View : ViewStep(c)

Spec == Init /\ [][Next]_vars

(* Threads and processes are scheduled, containers are restarted by docker,   *)
(* the checks of a job are finite, and time passes.  Nobody has to create or  *)
(* delete jobs or to open a view.                                             *)
Fairness ==
    /\ \A w \in Worker : WF_vars(PullStep(w)) /\ WF_vars(DeliverStep(w))
                         /\ WF_vars(RestartWorker(w))
                         /\ \A j \in Job : WF_vars(CloseController(w, j))
    /\ \A j \in Job : WF_vars(GrowOld(j)) /\ WF_vars(ProcessStep(j))
    /\ WF_vars(RefreshStep)

FairSpec == Spec /\ Fairness

-----------------------------------------------------------------------------
(* Safety *)

\* A job is handed out once: at any time at most one worker has it or is about
\* to get it, and its subprocess is launched at most once in its life, although
\* two handlers may pick the same row (models.pull_job, the safeguard against
\* the race condition).
HandedOutOnce ==
    \A j \in Job :
        /\ starts[j] <= 1
        /\ \A v, w \in Worker : HasJob(v, j) /\ HasJob(w, j) => v = w

\* A worker never has more jobs than slots, not even counting the answer that
\* is on its way to the scheduler (the wait for put_event in JobController).
SlotsRespected ==
    \A w \in Worker :
        Cardinality(table[w]) + (IF up[w] /\ pullPc[w] # "idle" THEN 1 ELSE 0) <= MaxSlots

\* A grade in the database is the grade in result.json, whichever checkers
\* raced and whatever row they overwrote (update_status, load_job_status).
GradeIsTrue == \A j \in Job : status[j] \in Graded => status[j] = result[j]

\* Whatever the history views do at the same time, a checker that waits for
\* CHECK_RUNNING_JOB_DELAY saves "error" only for a job that is over and left no
\* grade: the delay keeps it from jobs that are not yet in the table.
Patient == Checker \ History

ErrorIsTrue ==
    \A c \in Patient : checkPc[c] = "saving" /\ word[c] = "error" =>
        LET j == copy[c].job
        IN  result[j] \notin Graded /\ \A w \in Worker : ~HasJob(w, j)

\* When the worker does not know a job any more, the job is over ("The job has
\* already finished so load status from job result", check_running_job).
LoadedJobHasFinished ==
    \A c \in Checker : checkPc[c] = "loading" /\ word[c] = "null" =>
        \A w \in Worker : ~HasJob(w, copy[c].job)

\* A job that a worker runs is known to the users: it has a row, so that
\* job_delete refused to delete it (views.py: "cannot be deleted. QC job is
\* currently running").
RunningJobHasRow == \A j \in Job : OnWorker(j) => status[j] # "absent"

-----------------------------------------------------------------------------
(* The inductive invariants behind HandedOutOnce, GradeIsTrue, ErrorIsTrue *)

\* A job nobody has claimed: it has no row yet, or it is waiting.
Unclaimed(j) == status[j] \in {"new", "waiting"}

\* The copies a checker holds.
Held(c) == todo[c] \union (IF checkPc[c] \in {"loading", "saving"} THEN {copy[c]} ELSE {})

\* Nothing happens to a job before it is claimed, and it is launched from one
\* answer, in flight to the worker its row names; only claimed jobs are checked.
HandoutInv ==
    /\ \A j \in Job : birth[j] = 0 => status[j] = "new"
    /\ \A j \in Job : Unclaimed(j) => \A w \in Worker : ~HasJob(w, j)
    /\ \A j \in Job : Unclaimed(j) \/ (\E w \in Worker : InFlight(w, j)) =>
            starts[j] = 0 /\ process[j] = "none" /\ result[j] = "missing"
    /\ \A j \in Job : OnWorker(j) => starts[j] = 1
    /\ \A j \in Job : starts[j] <= 1
    /\ \A j \in Job : process[j] = "running" => OnWorker(j)
    /\ \A w \in Worker, j \in Job : HasJob(w, j) => url[j] = w
    /\ \A w \in Worker : pullPc[w] = "picked" => status[pullJob[w]] # "new"
    /\ \A d \in Deleter : deletion[d] # Nobody => status[deletion[d]] # "new"
    /\ \A j \in Job : status[j] = "running" => url[j] \in Worker
    /\ \A c \in Checker : \A r \in Held(c) :
            ~Unclaimed(r.job) /\ r.url = url[r.job] /\ r.url \in Worker

\* A job of which nothing more will come.
IsOver(j) == ~Unclaimed(j) /\ \A w \in Worker : ~HasJob(w, j)

\* A verdict on its way to the database is as true as one in the database.
VerdictInv ==
    /\ GradeIsTrue
    /\ \A c \in Checker : checkPc[c] = "saving" /\ word[c] \in Graded =>
            result[copy[c].job] = word[c]

\* When the workers are fast enough, "not in the table" and "error" mean that
\* the job is over to a checker that waits.
ErrorInv ==
    /\ \A w \in Worker, j \in Job : InFlight(w, j) => young[j]
    /\ \A c \in Patient : checkPc[c] = "loading" /\ word[c] = "null" => IsOver(copy[c].job)
    /\ \A c \in Patient : checkPc[c] = "saving" /\ word[c] = "error" =>
            IsOver(copy[c].job) /\ result[copy[c].job] \notin Graded

-----------------------------------------------------------------------------
(* What a step may never do *)

\* A claim, though it comes later than the query that picked its job and other
\* workers claim in between, overtakes an older waiting job only where that job's
\* row was inserted later, by a create_job that was slower than another
\* (pull_job, order_by("date_created")).
ClaimsInOrder ==
    [][\A j, k \in Job :
        status[j] = "waiting" /\ status'[j] = "running" /\ status[k] = "waiting"
            => birth[j] <= birth[k] \/ entry[j] < entry[k]]_vars

\* Jobs are claimed in the order of their dates (pull_job); this is not so when
\* create_job requests overlap.
ClaimsOldest ==
    [][\A j, k \in Job :
        status[j] = "waiting" /\ status'[j] = "running" /\ status[k] = "waiting"
            => birth[j] <= birth[k]]_vars

\* No job goes back: a closed or deleted job is never waiting or running again,
\* a running one never waits again, even when a stale copy of the row is saved.
NeverBack ==
    [][\A j \in Job :
        /\ status[j] \in Closed \union {"absent"}
              => status'[j] \notin {"waiting", "running"}
        /\ status[j] = "running" => status'[j] # "waiting"]_vars

\* Checkers that read a row before it was closed save what they found out later,
\* over the verdict of another.  A grade gives way to the silence of a worker
\* alone, TIMEOUT or LOST, or to the error of a history view that did not wait:
\* never to another grade, nor to the error of a checker that waits
\* (check_running_job, update_status).
GradeStands ==
    [][\A j \in Job : status[j] \in Graded =>
        \/ status'[j] \in {status[j], "absent", "timeout", "lost"}
        \/ /\ status'[j] = "error"
           /\ \E c \in History : checkPc[c] = "saving" /\ copy[c].job = j]_vars

\* A verdict stays (update_status: a finished job has its date_finished); this is
\* not so when two checkers work on a row.
VerdictStands ==
    [][\A j \in Job : status[j] \in Closed => status'[j] \in {status[j], "absent"}]_vars

\* A deleted job stays deleted (job_delete: "Deletes the job from the
\* database").
DeletedForGood ==
    [][\A j \in Job : status[j] = "absent" => status'[j] = "absent"]_vars

-----------------------------------------------------------------------------
(* Liveness *)

\* Every running job leaves status running: its answer may be lost, its worker
\* may crash, but the background thread finds out.
RunningIsClosed ==
    \A j \in Job : (status[j] = "running") ~> (status[j] # "running")

\* Every waiting job is taken, though workers race for it, lose it and crash and
\* jobs are deleted before it, if only one worker stays up in the end.
WaitingIsTaken ==
    (\E w \in Worker : <>[]up[w]) =>
        \A j \in Job : (status[j] = "waiting") ~> (status[j] # "waiting")

-----------------------------------------------------------------------------
(* The subprocesses *)

Outcome(j) == INSTANCE JobOutcome WITH
    MayDie  <- Fault \intersect {"crash", "die"} # {},
    process <- process[j],
    result  <- result[j]

\* Each subprocess does what JobOutcome promises, and Dispatch is shown to keep
\* that promise: dispatch announces, then grades once, then ends.
ProcessesKeepOutcome ==
    [][\A j \in Job : [Outcome(j)!Next]_<<process[j], result[j]>>]_vars

-----------------------------------------------------------------------------
(* The abstract hand-out of jobs *)

PhaseOf(j) ==
    IF status[j] = "new" THEN "unborn"
    ELSE IF OnWorker(j) THEN "executing"
    ELSE IF \E w \in Worker : InFlight(w, j) THEN "assigned"
    ELSE IF status[j] = "waiting" THEN "waiting" ELSE "over"

HolderOf(j) ==
    IF \E w \in Worker : HasJob(w, j)
    THEN CHOOSE w \in Worker : HasJob(w, j) ELSE Nobody

Handout == INSTANCE JobHandout WITH
    phase  <- [j \in Job |-> PhaseOf(j)],
    holder <- [j \in Job |-> HolderOf(j)]

\* All the queries, answers, crashes and deletions above amount to handing out
\* each job at most once to a worker with a free slot.
ImplementsHandout == Handout!Spec

=============================================================================
