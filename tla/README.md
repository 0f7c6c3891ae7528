# Verification of the Copernicus quality tools

This directory holds a formal model of the QC tool in `src/`: TLA+ modules, the
configurations that check them with TLC, and proofs checked with TLAPS. Paths
below are relative to `src/src/qc_tool/` unless they begin with `docker/`.

    tlc -workers 2 -config queue.cfg MCJobLifecycle      # a run
    tlapm JobLifecycle_proofs.tla                        # the proofs of a module

## 1. The system

Service providers upload *deliveries* (zip files) to a Django **frontend**, ask
for QC **jobs** on them, and submit those that end well to an archive. Jobs are
run by **workers**, containers of their own, which pull them over HTTP. All
share a directory with the files, and a worker has a PostGIS server beside it.

| part | state | operations | talks to |
|---|---|---|---|
| job table and queue (`frontend/dashboard/models.py`, `views.py`) | a row per job: status, worker url, dates | create_job, pull_job, update_status, job_delete | workers by HTTP, result files |
| status refresh thread (`frontend/wsgi.py`, `views.refresh_job_statuses`) | the rows it loaded in this pass | one pass after the other over the running rows | workers, result files |
| worker scheduler (`worker/scheduler.py`) | job table, slots, a controller thread per job | pull, start, wait; the web handlers get_table, get_job, set_max_slots | frontend, the job's subprocess |
| job subprocess (`worker/cmd.py`, `worker/dispatch.py`) | result.json, CheckStatus, the alarm | the steps of a product definition | check modules, PostGIS |
| `worker/manager.py` | a connection, a schema, a directory | open, close, remove | PostGIS, the disk |
| job results (`common.py`) | result.json | store, load, check_running_job | both sides |
| deliveries and submission (`views.py`, `helpers.py`) | rows, the uploaded file, the archive directory | register, create_job, delete, three ways to submit | the shared directory |
| resumable upload (`views.resumable_upload`) | chunk files, the merged file | test, store, merge, register | the browser |
| naming of a delivery (`vector/naming.py`, `raster/naming.py`, `vector/helper.py`) | the layers found, those matched to an alias, the codes in their names | find, match, extract codes, choose the boundary | the steps after it |
| checks of vector features (`vector/*.py`) | PostGIS tables of errors, exceptions and warnings | one query or a few per check and layer | the support tables |
| support tables (`vector/helper.py`) | partitions, pieces, neighbours, exterior, marginal features, gaps, clusters | `make()`, once per layer, with all it needs | PostGIS |
| checks of rasters (`raster/*.py`) | pixels, patches, masks | one check each, layer by layer or tile by tile | GDAL |
| INSPIRE checks (`vector/inspire.py`, `raster/inspire.py`, `vector/helper.py`) | the calls under way, the runs at the service, reports | upload metadata, start a run, poll it, retry | an INSPIRE validator service |
| boundary packages, S3 registration, API keys, pdf report | | | |

What makes it hard:

- **No transactions.** The frontend serves each request in a thread, the database
  is in autocommit mode, and `Model.save()` writes every field of a row that was
  read earlier. Any two requests interleave between their queries.
- **No word from the worker.** A worker never reports an outcome. The frontend
  asks whether a job is still in the worker's table and reads result.json when it
  is not, so it must tell "finished" from "not there yet", "late" and "crashed".
- **An alarm.** The time limit of a check is a signal whose handler raises an
  exception wherever the program is.
- **Threads around one table.** Scheduler, controllers and web server of a worker
  share the job table and the number of slots.
- **Files as state.** Chunks, uploads and archive directories are found by name,
  written in several steps and never locked.
- **Pieces.** Layers are cut into partitions and rasters into tiles; what is found
  in the pieces must be what is true of the whole, at every border.
- **Three values.** The checks are queries over columns that may be NULL; a clause
  and its negation may both miss a feature.
- **A foreign service.** The INSPIRE validator is asked in ten different requests
  per file, any of which may not be answered.

## 2. The modules

| module | stands for | abstract specification |
|---|---|---|
| `JobLifecycle` | rows, workers and checkers together | `JobHandout`, `JobOutcome` |
| `Scheduler` | the threads of one worker | |
| `Dispatch` | the subprocess of one job | `JobOutcome` |
| `Delivery` | deliveries, their file, their jobs, the archive | |
| `Upload` | tabs, server threads, chunks, the merged file | |
| `Naming` | the naming checks | |
| `FeatureChecks` | the vector checks as queries (no state) | |
| `VectorJob` | the steps of a vector job; extends the two above | |
| `SupportTables` | the support tables of a layer; extends `Clusters` | the layer as it was before it was cut |
| `Clusters` | the union-find of complex changes | `Together`, the closure of the pairs |
| `RasterMmu`, `RasterGap` | the two raster checks that go by tiles | the raster as a whole |
| `RasterJob` | the steps of a raster job; extends the two above | |
| `Inspire` | the client of the validator service | |

The modules `MC...` give the symmetry sets and the inputs; those named `..._proofs`
hold the theorems.

The modules meet at interfaces, not in one state. `JobLifecycle` sees a subprocess as
`process` and `result`; it requires of them what `JobOutcome` says (`ProcessesKeepOutcome`),
and `Dispatch` is shown to do no more than that (`ImplementsOutcome`; `ProcessesKeepOutcome`
may be added to `progress.cfg`). `JobLifecycle` gives a worker one pull at a time and a
table that grows when the answer arrives; `Scheduler` is the detail of it. `Delivery` knows
of an upload only its last post (conflict, append, register) and of a job when it is claimed
and how it ends; `Upload` and `JobLifecycle` spell them out. A step of `Dispatch` may end in
any way; `VectorJob`, `RasterJob` and `Inspire` say how the steps of real products end.

### JobLifecycle

One row per job (`status`, `url`, `birth` for date_created, `young` for "less
than CHECK_RUNNING_JOB_DELAY seconds since date_started"; `entry` is history, the
order in which rows were inserted). Each query is a step:

| action | code |
|---|---|
| `DateJob`, `InsertJob` | Delivery.create_job: read the clock (models.py:76); look up the product, then insert the row (:79-82), after others if need be |
| `PullList`, `PullGet`, `PullClaim`, `PullAnswer` | the four queries of models.pull_job, interleaved with other workers' |
| `StartController`, `LoseAnswer` | the answer reaches Scheduler.pull_job, or is lost with the connection or the worker |
| `OpenResult`, `GradeResult`, `ExitProcess`, `CloseController` | dispatch and JobController.run as the frontend sees them |
| `CrashWorker`, `RestartWorker` | the container |
| `ReadRunning`, `SkipYoung`, `Poll`, `BreakPoll`, `LoadVerdict`, `SaveVerdict` | a status check: load the rows, then for each one ask the worker, read result.json, save the copy; by the thread `Refresher` or by a view |
| `CheckDeletable`, `DeleteRow` | job_delete, which looks first and deletes later |

`SaveVerdict` writes the row although it may have been deleted or closed since
it was loaded, as `Model.save()` does. `Fault` lists what may go wrong: "crash",
"loss" of an answer, "die" (a subprocess ends without a status), "timeout",
"unreachable", "reset" (the worker drops the connection). `History` are the
views that ask without waiting for CHECK_RUNNING_JOB_DELAY. `PickupInTime` is
the assumption behind that delay: a pulled job is in the worker's table before
it has passed.

### Scheduler

`pc` is the place of the scheduler thread in its loop, `thread[j]` that of the
controller of job j; `table` is the JobTable, `event[j]` the put_event the
scheduler waits for, `max_slots` what set_max_slots last set, `reader` a request
that iterates over the table. A controller whose subprocess cannot be launched
still leaves the table (the finally block).

### Dispatch

One job with `N` steps, any choice of required ones and any skip request.
`Main` to `Announce` are what happens before the loop; `SkipStep`, `StartCheck`,
`Complain`, `Connect`, `ReturnFromCheck`, `RaiseInCheck`, `TimeOut`, `Export`,
`RecordCheck` the loop; `Finish`, `Close`, `RemoveTmp` the finally block and the
exit stack. `LateAlarm` is the alarm of a check that has already returned.
`events[k]` is history: what really happened in step k; `TrueStatus(k)` is what
it should be recorded as.

A connection is made in the steps of `get_connection`: `Connect`, `CreateSchema`,
`NameSchema` (manager.py:71: from here on the program knows what to drop) and `SetPath`;
the alarm and, where a query is made, a failing database come between any two of them.
The `alarm` is off, set, or has rung, once per check. With the fault "deaf" a check may be
away in C code, where no handler of Python's runs, for a while or for ever (`CallOut`), and
may catch the alarm's exception in a try block of its own (`Swallow`: the broad except
clauses of vector/helper.py) and go on without one.

### Delivery

Deliveries of one user and one file name; the file is the set of uploads that were appended
to it. `BeginUpload` is the test for a conflict (views.py:1595), `AppendUpload` the append
(:1606), `RegisterUpload` the row (:1624), with other uploads, requests and a `Restart` in
between. `met` is history, the uploads that overlapped; so is `astray`, what was deleted by
a request that looks for the file under another user. A request (`req`) has the user who
makes it, the owner, a superuser or none (an API key without a session), keeps the copy of
the row it read and saves it at the end. Three submission views differ in where they look
for the file (`FindsFile`) and what they do with an exception (`AfterException`). The
archive directory of a job and a day goes from "made" to "filled" (outputs), "complete"
(input) and "stamped".

### Upload

A tab tests and posts its chunks in order, `Simultaneous` at a time. A post runs
in a server thread: ask for a delivery of that name (first chunk only), create
the chunk file, write it, count the chunks, ask again, then append and unlink
one chunk after the other and register. A stored chunk is "whole" or still
being written by a thread. A restart forgets the threads and keeps the files.

### Naming, FeatureChecks, VectorJob

A name is a record of the facts the regular expressions and lists of a product
tell apart. `FindLayers`, `ExtractLayerDef` (one alias after the other, each pops
what it matches), `CheckExcessive`, `ExtractCodes`, `FindBoundary` are the stages
of `naming.run_check`; `severity` is the worst word the step has got.

`FeatureChecks` has one operator per check, named for its file. A layer is a
record of features with the columns the checks read, `Null` among their values;
`Where` keeps the rows whose clause is "T", as SQL does, `Negate`, `Both`,
`Either`, `Equal` have its three values, `Unjoined` is LEFT JOIN ... IS NULL. The
result of a check is a table per error table.

`VectorJob` runs a product: `Unzip`, `S3Download`, `NamingStep`, `ImportLayer`,
`CheckLayer` for the other checks, layer by layer, `LayersChecked` when none is
left. `Told` is what a non-empty table does to the status, `Returns` the checks
that leave the loop over the layers early, `Crashes` an exception.

`Meets` says what the documentation of each check asks of a layer, in two truth values and
apart from the queries. `Waivers` names the fifteen cases in which the checks accept
what it does not, each with its lines in the code and in the docs; `Meets` is given the set
of those that are waived: all in `AcceptedIsClean`, none in `AcceptedIsDocumented`.

### SupportTables, Clusters

The plane is a grid of unit squares; a geometry is a set of squares. The actions
are the statements of `PartitionedLayer` (`MakePartition`, `CountVertices`,
`SplitPartitions`, `FillPartitions`, `DeletePartitions`) and the `make()` of each
other table; `asks` are the tables the checks of a product ask for, in their
order, and `made` is what `is_made` knows. `SubtractOne` takes a partition from
the gaps, `SplitGapRows` splits those that got too large. `Clusters` is the
union-find of `ComplexChangeProperty`: pairs come in any order; the recursion of
`find` is a walk, up to the root and down again (`trail`).

### RasterMmu, RasterGap, RasterJob

`RasterMmu`: `Column` and `Row` are the window and inner zone of a tile along the
axes, `CheckTile` looks for small patches in it, looks deeper (`Deeper`) at those
on the rim of the inner zone, and sorts them into errors and exceptions.
`RasterGap`: `MaskOf` is the mask of a layer, from the boundary package or made by
`RasterizeMask`; `NextGapTile`, `SkipUnmapped`, `CompareTile`, `FinishLayer` are
the loops. `CrashTile` is the exception of a tile that is compared although the layer has no
NoData value to compare with, or of which no row or column is left to read; GDAL decides
whether it fails at such a read or not, so both happen. `RasterJob` has an operator
per check of a layer and runs them; `Counted` are the values a histogram counts, 0 to 255.

### Inspire

`at` is the place in `do_inspire_check`, `depth` the depth of its recursion and
`mine[c]` the run that call c has started; `waited` is the time slept. Each request
is a step that is answered or not; `ServiceEndsRun` is the service. After a
recursive call has returned, the caller goes on with the report of its own run.

## 3. The runs

| run | module | asks | bounds |
|---|---|---|---|
| `queue` | MCJobLifecycle | `HandedOutOnce`, `ClaimsInOrder`, `NeverBack`, refinement of `JobHandout` | 2 jobs, 2 workers with one slot, the thread, one job_delete; crashes and lost answers |
| `progress` | MCJobLifecycle | `GradeIsTrue`, `ErrorIsTrue`, `GradeStands`, `RunningIsClosed` | 1 job, 2 workers, three checkers: the thread, a view and a history view; one job_delete, every fault but "reset" |
| `waiting` | MCJobLifecycle | `WaitingIsTaken` | 2 jobs, 2 workers, one job_delete; crashes and lost answers |
| `overbooking` | MCScheduler | `NotOverbooked`, `RunningIsListed`, `PulledJobEnds` | 3 jobs, at most 2 slots, set at any time |
| `steps` | MCDispatch | `StepsAreTrue`, `GradeIsEarned`, `RequiredGates`, `LeavesNothing`, `StoredResultGrows`, refinement of `JobOutcome`, `JobEnds` | 3 steps, 8 choices of required ones, 7 skip requests, every fault, checks that are deaf to the alarm among them |
| `archive` | MCDelivery | `SubmittedIsArchived`, `ArchiveIsFinal`, `FileIsTrue`, `AloneJobsAreSpared` | 2 requests, 2 jobs, 2 days, full disk, a restart, in three settings: 1 delivery and overlapping requests of all kinds by its owner, with a session or an API key; on one day, 2 deliveries whose uploads, deletions and job creations, by owner and superuser, overlap; on one day, 2 deliveries and one request at a time |
| `tabs` | MCUpload | `RegisteredHasAllChunks`, `UploadEnds` | 2 files, 2 tabs, 2 threads, 2 chunks two at a time, 1 restart |
| `tables` | MCSupportTables | `PartitionedLayerIsTrue`, `EdgesAreTrue`, `GapsAreTrue`, `ChangeIsTrue`, `ClustersAreTrue` | 4 features of 5 shapes in any places, grid of 2, at most 9 vertices in a partition |
| `raster` | MCRasterJob | `SmallPatchesAreTrue`, `MissingDataIsTrue`, `VerdictOfLayers` | up to 3 by 2 tiles of 8 pixels, MMU of 3; masks across a layer in tiles of 2; 2 layers in every order |
| `inspire` | MCInspire | `OkIsPassed`, `WaitIsBounded`, `InspireEnds` | deliveries of 1 to 3 layers, 2 retries of a run and of the status request |
| `features` | MCVectorJob | `DividedOnce`, `AcceptedIsClean`, `LayersAreSound`, `NamesAreClear` | 2993 jobs: 1 or 2 layers, up to 3 features, names that fit in every way, and for each waiver a layer that needs it |
| `dependents` | MCVectorJob | `DependentsReported`: does not hold | 2 dependent columns |

The type invariants of the modules hold in these runs too. They are proved where a
module has proofs; `TypeOK` of `SupportTables`, `RasterTypes` and `VectorTypes` may
be added to the configuration. So may the inductive invariants of section 5
(`HandoutInv`, `VerdictInv`, `ErrorInv`, `SchedulerInv`, `DispatchInv`,
`ClusterInv`), which TLC confirmed before they were proved, and `SlotsRespected`,
`GrowsBelowLimit`, `OneWriter` and `SmallestIsRoot`, which follow from them.

Why the bounds are enough. The races of `JobLifecycle` are between two handlers
for one row, two checkers for one row, or a checker and a deletion: `progress` has three
checkers, one of each kind, for one row; `queue` and `waiting` have a second job so that order and
slots mean something, and two workers so that a claim can be lost. `Dispatch` looks back one step
and forward to the end: three steps give a first, a middle and a last one. The
archive is contended by two requests for one directory. A merge is disturbed by
one other thread. `Job`, `Days` and `MaxRestarts` bound what would be unlimited; the
scheduler's `MaxSlots` bounds what set_max_slots is given.

`tables` draws features as bars and corners of unit squares in 3 by 3, with a boundary
of two units that reaches one square beyond them, and cuts them along a grid of 2:
features lie inside a partition, across one border and across a corner. `raster` has
tiles that are first, middle and last on both axes and patches of each small shape
across every border between inner zones. `features` tries for each check the values its
clauses compare, NULL among them, and its exceptions on and off.

The runs of `JobLifecycle` keep `PickupInTime`. What is asked is what holds while everyone
races: `ErrorIsTrue` is about the checkers that wait for CHECK_RUNNING_JOB_DELAY, with a
history view, which does not, at work beside them; `GradeStands` says which verdict may be
saved over another; `ClaimsInOrder` that a claim overtakes only a row that was inserted
later than its own. The stronger statements one might expect are in section 4. `archive`
chooses at the start whether requests may overlap: `AloneJobsAreSpared` does not survive two
requests at a time, and is asked where `alone` is true. `FileIsTrue` is asked of all
settings and says what overlapping uploads and a superuser's deletion leave in the file. In
the setting with two overlapping deliveries no job ends ok: there is nothing to submit.
`SmallPatchesAreTrue` is asked of rasters that are larger than a tile both ways or neither,
and of patches with a pixel in some inner zone, when the step went through its tiles; see
section 4 for the others. `MissingDataIsTrue` compares layers that have one NoData value.
`VerdictOfLayers` knows where the color check returns: at the first layer that can have no
color table, after which it looks at none. Deadlock checking is off where the system really
stops: all jobs done, the program at its end, all tabs served, all checks answered.

### Fairness

- `JobLifecycle`: workers, subprocesses and the refresh thread are threads and
  processes the operating system runs; docker restarts containers (RestartWorker);
  time passes (GrowOld); a subprocess ends, which is `JobEnds` of `Dispatch` and presumes that
  no check stays in a call for ever after its alarm could not reach it. Nobody
  has to create or delete jobs, to open a view, or to crash. `WaitingIsTaken`
  needs one worker that stays up from some time on, and says so.
- `Scheduler`: the scheduler and the controllers run; nobody has to call the web
  server.
- `Dispatch`: the program goes on between checks and in get_connection, and the alarm, once
  set, rings when the check comes to code of its own: SF(Ring), since a check may leave for a
  call and come back any number of times. A check need not return, complain or raise, nor
  come back from a call, nor fail when its alarm rings. So `JobEnds` says what is left: the job
  ends, or its check is away for ever, or it has swallowed its alarm.
- `Upload`: threads run, and a tab that is open goes on until it shows an error.
- `Inspire`: the client's only thread goes on. The service owes nothing: no fairness
  for `ServiceEndsRun`, and every request may fail. The one exception is the constant
  `GithubAnswers`: the request for the newest version (vector/helper.py:487) has
  no time limit, and without an answer `InspireEnds` does not hold. An alarm that rings there
  is caught (helper.py:493) and the request comes back without a version: the check
  goes on, without an alarm.

## 4. What the runs found

A statement of the code's own texts that does not hold, with the run that shows it
and an entry under `findings`:

- `dependents`: the nodata check makes its report after the loop over the dependent
  columns (vector/nodata.py:46), so only the last one counts.

More properties are stated in the modules that the code does not keep. They are
not part of the regular runs; the configuration named reproduces each. (Several hold
more than one: leave the one to look at.)

| property | configuration | what happens |
|---|---|---|
| `LoadedJobHasFinished` | `early_view` (MCJobLifecycle) | a history view asks the worker at once for a job that is claimed and not yet listed, and saves it as error |
| `ClaimsOldest` | `races` (MCJobLifecycle) | create_job reads the clock, then looks up the product, then inserts (models.py:76-82): a younger job's row comes first and is claimed first |
| `VerdictStands` | `races` (MCJobLifecycle) | the thread and a view load the same running row; the slower one saves its TIMEOUT or error over the other's verdict |
| `DeletedForGood` | `races` (MCJobLifecycle) | job_delete deletes a row that a status check has loaded; the check's `save()` inserts it again |
| `RunningJobHasRow` | `races` (MCJobLifecycle) | a job is claimed between job_delete's test and its deletion |
| `RunningIsClosed` | `reset` (MCJobLifecycle) | a dropped connection raises out of check_running_job and ends the refresh thread for good |
| `TableIsRead` | `table_json` (MCScheduler) | the table changes while get_table_json iterates over it |
| `ErrorsComeFromChecks` | `late_alarm` (MCDispatch) | the alarm set before a check is not cancelled when it returns; it rings while error tables are exported and the job ends with "error" though no check failed |
| `SchemaIsDropped` | `late_alarm` (MCDispatch) | the alarm rings between CREATE SCHEMA and the assignment of the name (manager.py:70-71), and `close` has no name to drop |
| `TimeLimitHolds` | `late_alarm` (MCDispatch) | the check catches the alarm's exception, as vector/helper.py:493 does, or is in a C call when it comes: it runs on, and the alarm rings once |
| `SubmittedStays` | `requests` (MCDelivery) | a second submission on the same day fails at mkdir and resets date_submitted |
| `DeletedStays`, `DeletedHasNoJob` | `requests` (MCDelivery) | create_job saves a row read before the deletion, or takes a deleted one |
| `DeletedFileIsGone` | `requests` (MCDelivery) | the path is built from the wrong user |
| `LivingHasFile` | `requests` (MCDelivery) | deleting twice removes the next upload |
| `FileIsOneUpload` | `requests` (MCDelivery) | two uploads test for a conflict (views.py:1595) before either registers (:1624), and both append to the file. With the fault "restart" one upload that is cut short before its registration is enough |
| `ArchivedAsChecked` | `requests` (MCDelivery) | the file is found by name and may be another one by now |
| `RegisteredIsWhole` | `threads` (MCUpload); holds with one server thread (`one_thread`) | the thread that finds all chunks merges them while another is still writing its own |
| `OneDelivery` | `threads` (MCUpload); holds with one server thread (`one_thread`) | the conflict test and the registration are separate |
| `UploadedIsRegistered` | `threads` (MCUpload); holds without restarts and with one thread (`one_thread`) | a restart in a merge loses the merged chunks, and the browser is told that all is well |
| `OverlapIsSuspect` | `overlaps` (MCSupportTables) | the neighbour table asks for a common side longer than 0.001 (vector/helper.py:1273), which two polygons whose intersection is a polygon do not have: the overlap check does not see them |
| `TechnicalIsException` | `documented` (MCVectorJob) | technical changes are exceptions only if another parameter is given too (vector/change.py:55), which clc2012 and clc2018 do not |
| `AcceptedIsDocumented` | `documented` (MCVectorJob) | a job whose steps all end ok leaves a layer that does not meet what the documentation of a check asks; see below |
| `ReportOfVerdict` | `stale_report` (MCInspire) | the report of an undefined run is written over that of the retry that decided |

| `DetectedAreReported` | `raster_limits` (MCRasterJob) | small patches between the inner zones of the first and the second tile are missed (raster/mmu.py:389-411, where the second zone starts a buffer late) |
| `BordersCutNothing` | `raster_limits` (MCRasterJob) | rasters larger than a tile in one direction only get no buffers (mmu.py:356 gives both or none): a large patch that a border cuts is told as two small ones |
| `NoCrash`, `CountedOnce` | `raster_limits` (MCRasterJob) | of `RasterMmu`: a window beyond the raster; a patch told by two tiles is counted twice |
| `OnlyUnmappedSkipped`, `OriginsAligned`, `OwnNoData` | `raster_limits` (MCRasterJob) | of `RasterGap`: a mask with a NoData value is skipped by its least value; the origins are compared in x only; the layers are read with one NoData value |
| `EveryLayerCounts` | `raster_limits` (MCRasterJob) | color.py:65-71 returns at the first layer that can have no color table; value.py asks for a histogram of 0 to 255, which leaves out other values |
| `HashOfDelivery` | `raster_limits` (MCRasterJob) | do_s3_download hashes the zip file only |

`documented.cfg` also names the fifteen waivers one by one (`NoNullKey`, `NoNullCode`, ...):
each says that the accepted layers meet the documentation but for the other fourteen, and
each is violated, so that none of the waivers is idle. They are: NULL in a unique column
(vector-checks.md:130-131 does not allow it, unique.py neither counts nor joins NULLs), NULL
among the codes of an enumeration (:141), rows the product excludes, changes the product
exempts, dependents other than the last (:178), areas that are NULL or negative, clauses on
a NULL, the opposite of `!=` (which condition.py takes to be `!=`), layers without features,
overlaps (:309) and gaps (:236) below a tolerance, gaps outside the core or at the edge of
the area of interest, and a coordinate system of another authority (:104).

Two smaller differences: docker/NOTES.environ.txt:39 gives WORKER_ALIVE_TIMEOUT
as 5 seconds where the default in the code is 20, and test_dispatch expects the
message "Required step 1 can not be skipped." where validate_skip_steps words it
differently. Neither is a property of the models. Of the vector checks:
docs/checks/vector-checks.md:285-286 reports a feature whose negative buffer is empty,
where mxmw.py reports one whose buffer is not; no product uses condition,
condition_sql or constant.

## 5. What is proved

For every value of the constants, from the named assumptions in the modules (at
least one slot, one step; finitely many jobs; `Nobody` is no job and no worker).

**JobLifecycle_proofs.** `TypeInvariant`. `HandoutInvariant`: `HandedOutOnce`
is not inductive, since a claim must know that nobody else has the job.
`HandoutInv` adds that nothing has happened to an unclaimed job, that a job in
flight has not been started, that whoever has a job is named in its row, and
that copies held by checkers are of claimed jobs and carry the row's url; that
last part is why a stale save cannot make a row waiting again or point it to
another worker. From it follow `JobsAreHandedOutOnce` and `JobsNeverGoBack`.
`SlotsAreRespected` has an invariant of its own that counts the pull under way.
`ClaimsKeepOrder` adds that among the rows there were when a worker listed its job none
that waits is older (`QueueInv`): whoever is older came in later, as `entry` tells.
`GradesAreTrue` adds that verdicts on their way to the database are true
(`VerdictInvariant`) and rests on results never being replaced.

`ErrorsAreTrue` is `ErrorInvariant`, among any views and history views: with
`PickupInTime`, the one hypothesis of both, a job that is in flight is young, so a worker that
does not know an old job is done with it, and a checker that waits (`Patient`) asks about old jobs
only. `GradesStand` follows: a grade on its way to a row is the one in result.json, as is the one
in the row, and an error that a checker which waits is about to save means that result.json has
no grade. Without the hypothesis the delay protects nothing.

In the same module, `ImplementationTheorem`: under the refinement mapping
(`PhaseOf`, `HolderOf`) every step of `JobLifecycle` is a step of `JobHandout` or
leaves it unchanged. The lemmas go by the effect on `HasJob`: a claim assigns, a
start launches, a closing controller, a lost answer or a crash ends one or all
jobs of a worker.

**Scheduler_proofs.** `SchedulerInvariant` ties the scheduler's place to the
threads: while it waits there is exactly one controller not yet in the table, and
until that one is listed the table is below the limit. `SchedulerDoesNotOverbook`,
`RunningJobsAreListed` and `TableGrowsBelowLimit` follow.

**Dispatch_proofs.** `DispatchInvariant` has four parts: before the loop nothing
has happened; in it `check` is the true status of the running step and the file
holds what is in memory; the recorded steps are true and only the last may be
aborted; the file is a prefix of them, and a grade comes last. The lemma
`RecordStep` carries a finished step into the record, `CheckEvent` what may
happen in a check, `GradeIsRight` the grade. `StepsAreTold`, `GradesAreEarned`
and `RequiredStepsGate` follow. `NothingIsLeft` has a small invariant of its own; the
property excepts a check that was interrupted after CREATE SCHEMA had been sent and before
the name was kept, of which nothing can be promised (`SchemaIsDropped` in section 4).
`StoredResultOnlyGrows` and `OutcomeTheorem`, the refinement of `JobOutcome`, rest on
the same invariant: a grade is written once, from nothing.

**Delivery_proofs.** `ArchiveInv`: how far a submission has come (`Stage`) is how far
its directory has, and two requests that write have different directories, because
mkdir refuses one that is there. `DirectoriesHaveOneWriter` and `StampedIsFinal`
follow. `SubmittedDeliveriesAreArchived` follows the evidence for each copy of a
row: a copy says submitted only if there is a stamped directory with the input of a
job that ended ok, and such evidence is never taken away, so stale copies do no
harm. `DeliveryTypeInvariant` needs a count of the rows, to bound the rank of a new job.
`FileStaysTrue`, without a hypothesis: a deleted upload is in the file only if it was
deleted by a user who looks for the file elsewhere, and two uploads are in it only if one of
them is such, or they overlapped, or one had been appended and not registered when the other
began (`Met`). `FileInv` says the same of the uploads that are still to be appended
(`Pending`), and that what a stale copy calls deleted is not in the file: such a copy may
bring a row back but not its file.
`AloneDeletionsSpareJobs` is about `MCSpec`, where `alone` lives. `SparedInv` says that a
deletion which got past its counts has no job waiting or running, as no other request can
create one, and that workers only take jobs away from what was counted; waiting jobs must be
counted first, or a claim hides one from both counts. `RequestMoves` sums up what a step of
any request may change, for both proofs.

**Upload_proofs.** `RegisteredDeliveriesAreComplete`: a thread passes a position of
the merge only after it has appended the chunk there, and what other threads take
away stops it (`MergeInv`); the merged file only grows. With any number of threads,
tabs, chunks and restarts.

**Geometry_proofs.** All that cuts the plane into pieces, for any layer.

*Clusters.* `ClusterInvariant`: links go down, so that there is no cycle;
linked nodes are joined by pairs already merged (`Sound`), and merged pairs have a common
root, or will when the union under way is done (`Complete`); the walk of `find` keeps
the root of everything it has passed (`WalkInv`). `ClustersAreWhatPairsJoin` and
`ClustersAreNamedAfterLeast` follow for every order of the pairs, and
`ClustersStayTrue` for the clusters of a job, among the statements of the other tables.

*Support tables.* Any layer of finite sets of squares, any boundary, any order of the
tables asked for. What `is_made` and the phases say of each other is `OrderInv`; all else
is an invariant per table, each of which rests on those above it:

- `CutInv`: a partition lies inside the one it is from, `Leaves` (those that are not
  superitems) tile the extent, and a partition and its halves are there together only from
  the split to the deletion. `PieceInv`: the pieces fit their partitions, do not overlap and
  make their features; between the filling and the deletion that is true twice over, of all
  pieces and of those that stay. Hence `PartitionsMakeLayer`, with the bound on vertices.
- `InteriorInv`, `ExteriorInv`: in each partition the covered part is the area in it, and
  the exterior rows together are what is left of the extent. `NeighbourInv`: a common side
  is seen in some partition, also where a cut runs along it, since the pieces of a partition
  meet only if their features do. With `MetaInv`, `EdgesStayTrue`.
- `GapRowsInv`: while partitions are subtracted, the rows together are the boundary without
  the area of the partitions done (`Covered`), and splitting rows changes nothing of that;
  `GapsAreUncovered`. That no spot is told twice needs boundary units that do not overlap,
  and the property says so.
- `KnownInv`, `ChangeInv`: at each phase of ComplexChangeProperty the columns that are
  filled tell the clusters of their pairs and the others are still NULL;
  `ChangesHaveTheirArea`, of layers whose features do not overlap.

Assumed are `TableAssumption` (the grid is at least 1, finitely many features) and
`GeometryAssumption` (geometries are finite, no feature is empty, the checks ask for the
four tables there are). Polygons are the components `Grown` reaches; `PolygonsPartition`
says that they split a geometry, by well-founded induction on a least element instead of an
induction over sets.

*Rasters.* `VerdictIsOnLayers`: while a check goes from layer to layer, its status is ok if and
only if it accepts each layer behind it that it has looked at (`RunningInv`; `FindingIsTrue` for
each of the twelve checks). For eleven checks these are all layers; the color check looks at
none after one that can have no color table (`LookedAt`), and that these count too is
`EveryLayerCounts`, which does not hold. `MissingDataIsFound`: `TileInv` knows of
the tiles passed (`Passed`) that all gaps in them have been found, and of any gap reported
that it is one; the heart of it is that a pixel of the mask is compared with the layer's
pixel on the same spot, also in tiles that begin outside the layer (`Spot`), and that floor
and ceil in rasterize_mask give a mask whose pixels lie on the layer's.

`SmallPatchesAreFound`: a patch is the least set with its pixel that no step to a neighbour
of the same value leaves (`PatchIsLeast`: a walk that is not stuck gains a pixel per step),
so it has no holes between columns or rows (`NoJump`) and is less wide than it may have
pixels (`NotWide`). It is about rasters larger than a tile in both directions or in none,
and about patches with a pixel in some inner zone; for others `BordersCutNothing` and
`DetectedAreReported` do not hold. A small patch at the rim of an inner zone ends before the
buffer does and before the masked middle begins, and two arrays that agree in and around a
patch show the same patch with the same exceptions (`Transfer`). `MmuInv` says that the
errors hold the small patches of the inner zones behind the tile; a tile of one value has
none, since a row of its window is longer than the unit or ends at the raster's edge.
Assumed is that the unit is smaller than a tile (`MmuAssumption`): products ask for at most
50 pixels, BLOCKSIZE is 2048. When it is not, an image wider than a tile may get no buffer
and the property is false. The proof needed two things of the model. Arrays are functions,
as operators that are parameters cannot be instantiated; and `Searched` excludes a step
without s3 parameters, which fails before its first tile.

`RasterAssumption` and `GapAssumption` say what gdal can give: whole numbers, rasters of at
least one pixel, pixels of positive size, values for all pixels.

**VectorJob_proofs.** One invariant for the job (`JobInv`), since its steps feed each other.
`NameInv` for the naming: layers and aliases are matched one to one as far as the matching
has come, and the area codes of all layers are the one that chooses the boundary
(`NamesStayClear`). `ImportInv`: what is imported was named by a naming that passed.
`FoundInv`: a check looks only at layers that were imported whole (`ChecksMeetSoundLayers`,
with what earlier steps have refused). `CheckedInv` and `PastInv`: the layers the running
check has looked at, and those of all steps before it, are clean as long as the status is
ok. The lemmas go check by check: what is in no error table meets what the check's
documentation asks, but for the waivers, with NULL a value of its own (`OppositeTells`: an
inverted condition finds every row that does not hold, but for NULLs and `!=`).
`AcceptedJobsAreClean` is the end of it: it is about `Meets` with all fifteen waivers, not
about the documentation as it stands. `NothingIsLost` is about the queries alone: `Unjoined`
divides what two clauses over NULL would not. `VectorAssumption` says what products and
deliveries are like (`IsVectorJob`): one naming, before all checks of layers, thresholds
that are numbers, layer names that are among the aliases.

**Inspire_proofs.** `InspireTypeInvariant` with the discipline of the recursion;
`SleepIsBounded` adds up what each call may still sleep; `OkIsEarned` knows for each
layer that is done, and for each call that is open, what its runs were.

Only model-checked:

- the liveness properties (`WaitingIsTaken`, `RunningIsClosed`, `PulledJobEnds`, `JobEnds`,
  `UploadEnds`, `InspireEnds`), which need fairness and ENABLED, out of reach of the
  installed provers;
- the numbers of vertices in `TypeOK` of `SupportTables`, sums by FoldSet, an induction over data.

## 6. What is not modelled

- Below the grid: the tolerances of PostGIS, the snapping of gaps to what is around them
  (GapTable), the validity of intersections. Coordinates are whole numbers.
- What libraries answer: GDAL, OGR drivers, the vendored validator of cloud optimized files,
  geonetwork-validate. Their answers are part of the inputs.
- vector/naming_pdf.py, which repeats the naming checks for documents. A neighbour or
  overlap check returns at a layer without features; what comes after it is the waiver
  "empty layer".
- Registration from S3, boundaries_upload, API keys and login, the pages, the pdf report,
  the statistics columns of a delivery.
- `scripts/`: generators of product definitions and metadata, run by hand on files.
- `SupportTables` and `VectorJob` are not composed: the checks take the pairs and gaps of a
  layer as given, and the tables are checked against the layer.
- How long things take. CHECK_RUNNING_JOB_DELAY is the flag `young`; the time limits of HTTP
  requests are the faults "timeout" and "unreachable". Scheduler.pull_job calls urlopen
  without a time limit; that such a call may never return is not modelled.
- Two frontends, or two databases; the deployment files start one of each.

## 7. Plan

In this order, each with its runs and, where it says so, theorems:

1. `WorkerContainer`: `Scheduler` and `Dispatch` composed, several subprocesses
   in one container, and that it implements what `JobLifecycle` says of a worker.
2. Boundaries that are replaced while a job reads them (boundaries_upload), the
   registration from S3, the search path of ConnectionManager.
3. validate_skip_steps, get_timeout and compile_job_report_data of `common.py` as
   functions; documents in `Naming`.
