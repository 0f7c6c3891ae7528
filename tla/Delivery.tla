------------------------------ MODULE Delivery ------------------------------
(***************************************************************************)
(* A delivery of the frontend: its database row (models.Delivery), its     *)
(* uploaded zip file, its jobs, and the submission archive it is copied    *)
(* to.  Requests that create a job, delete the delivery or submit it run   *)
(* in threads of their own.  Each one reads the row, works, and saves      *)
(* every field of its copy (Model.save), so that the last one to save      *)
(* wins.                                                                   *)
(*                                                                         *)
(* The deliveries are uploads of one file name by one user, whose          *)
(* directory holds one file of that name.  The chunks of an upload and the *)
(* threads that merge them are Upload's business: here the last post of an *)
(* upload tests for a conflict, appends to the file and registers the      *)
(* delivery.  How a job runs is JobLifecycle's.  Deliveries on S3 are left *)
(* out.                                                                    *)
(***************************************************************************)
EXTENDS Integers, FiniteSets, FiniteSetsExt

CONSTANTS
    Delivery,   \* ids of deliveries, all of the same user and file name
    Job,        \* bound: the jobs that may be created
    Days,       \* bound: number of days the clock can reach
    Request,    \* request threads of the frontend
    Kind,       \* the requests that are made
    Owner,      \* the user the deliveries belong to
    Super,      \* a superuser
    Anonymous,  \* request.user of a request with an API key and no session
    Visitor,    \* the users that make requests
    Fault,      \* the faults that may happen
    Nobody      \* no delivery, no job

SubmitKind == {"web", "batch", "api"}

ASSUME DaysAssumption == Days \in Nat \ {0}
ASSUME FiniteAssumption == IsFiniteSet(Job) /\ IsFiniteSet(Request)
ASSUME KindAssumption == Kind \subseteq {"create", "delete", "register"} \union SubmitKind
ASSUME UserAssumption ==
    Cardinality({Owner, Super, Anonymous}) = 3 /\ Visitor \subseteq {Owner, Super, Anonymous}
ASSUME FaultAssumption == Fault \subseteq {"disk", "restart"}
ASSUME NobodyAssumption == Nobody \notin Delivery /\ Nobody \notin Job

VARIABLES
    known,      \* deliveries that have a row
    submitted,  \* rows with a date_submitted
    deleted,    \* rows with is_deleted
    file,       \* the uploads in the file MEDIA_ROOT/<owner>/<filename>
    upload,     \* how far an upload has come that is not registered
    met,        \* history: the uploads not registered when an upload began
    astray,     \* history: deliveries deleted by a request that looks for the file elsewhere
    status,     \* Job.job_status
    of,         \* Job.delivery
    birth,      \* rank of Job.date_created
    seen,       \* the file a job has checked, as an upload set
    day,        \* today
    archive,    \* state of the submission directory of a job and a day
    input,      \* the file copied into it
    pc,         \* how far each request has come
    req         \* the parameters of a request and its copy of the row

rowVars == <<known, submitted, deleted>>
jobVars == <<status, of, birth, seen>>
archiveVars == <<archive, input>>
requestVars == <<pc, req>>
fileVars == <<file, upload, met, astray>>
vars == <<rowVars, fileVars, jobVars, day, archiveVars, requestVars>>

Day == 1..Days
Copy == [kind : Kind, by : Visitor, id : Delivery, submitted : BOOLEAN, deleted : BOOLEAN,
         job : Job \union {Nobody}, day : Day]

TypeOK ==
    /\ submitted \subseteq known /\ deleted \subseteq known /\ known \subseteq Delivery
    /\ file \subseteq known \union {d \in Delivery : upload[d] \in {"register", "lost"}}
    /\ upload \in [Delivery -> {"none", "merge", "register", "lost"}]
    /\ \A d \in known : upload[d] = "none"
    /\ met \in [Delivery -> SUBSET Delivery] /\ astray \subseteq Delivery
    /\ status \in [Job -> {"absent", "waiting", "running", "ok", "failed"}]
    /\ of \in [Job -> Delivery \union {Nobody}]
    /\ \A j \in Job : of[j] = Nobody <=> status[j] = "absent"
    /\ birth \in [Job -> 0..Cardinality(Job)]
    /\ seen \in [Job -> SUBSET Delivery]
    /\ day \in Day
    /\ archive \in [Job \X Day -> {"none", "made", "filled", "complete", "stamped"}]
    /\ input \in [Job \X Day -> SUBSET Delivery]
    /\ \A r \in Request :
        IF pc[r] = "idle" THEN req[r] = Nobody
        ELSE /\ req[r] \in Copy
             /\ req[r].id \in known
             /\ pc[r] \in {"mkdir", "copy", "input", "stamp"} => req[r].job \in Job
    /\ pc \in [Request -> {"idle", "insert", "save", "count1", "count2", "get",
                           "unlink", "find", "mkdir", "copy", "input", "stamp", "submit", "reset"}]

-----------------------------------------------------------------------------
(* Helpers *)

JobsOf(d, S) == {j \in Job : of[j] = d /\ status[j] \in S}

\* get_submittable_job: the newest job that ended well.
SubmittableJobs(d) ==
    LET good == JobsOf(d, {"ok"})
    IN  {j \in good : \A k \in good : birth[k] <= birth[j]}

\* Without such a job the submission is refused.
AfterFind(j)   == IF j = Nobody THEN "idle" ELSE "mkdir"

\* The single-delivery view takes the path from the owner of the delivery, the
\* others from the user of the request.
FindsFile(q) == q.kind = "web" \/ q.by = Owner

Entry(q) == <<q.job, q.day>>

\* mkdir(exist_ok=False)
MakeAgain(q) == TRUE                                \* mutant: exist_ok=True
MayMake(q)   == archive[Entry(q)] = "none"

\* The views for one delivery answer an exception with date_submitted = None;
\* the one for a batch goes on.
SwallowException(q) == "submit"                     \* mutant: no return
AfterException(q)   == IF q.kind = "batch" THEN "idle" ELSE "reset"

\* delivery_delete counts the jobs of one status, then those of the other.
RunningFirst == <<"running", "waiting">>            \* mutant: swapped queries
CountOrder   == <<"waiting", "running">>
None(d, n) == JobsOf(d, {CountOrder[n]}) = {}

\* uploaded_delivery_file_exists
NoConflict     == known \subseteq deleted

UnlinkNothing(q) == file                            \* mutant: the file stays
Unlinked(q)      == IF FindsFile(q) THEN {} ELSE file

\* A row read again in the second loop of delivery_delete.
FreshRow(q) == [q EXCEPT !.submitted = q.id \in submitted, !.deleted = q.id \in deleted]

\* Chunks are appended to whatever file is there.
NewFile(d)  == {d}                                  \* mutant: opened with "wb"
Appended(d) == file \union {d}

With(S, d, b) == IF b THEN S \union {d} ELSE S \ {d}

Init ==
    /\ known = {} /\ submitted = {} /\ deleted = {} /\ file = {}
    /\ upload = [d \in Delivery |-> "none"] /\ met = [d \in Delivery |-> {}] /\ astray = {}
    /\ status = [j \in Job |-> "absent"]
    /\ of = [j \in Job |-> Nobody]
    /\ birth = [j \in Job |-> 0]
    /\ seen = [j \in Job |-> {}]
    /\ day = 1
    /\ archive = [e \in Job \X Day |-> "none"]
    /\ input = [e \in Job \X Day |-> {}]
    /\ pc = [r \in Request |-> "idle"]
    /\ req = [r \in Request |-> Nobody]

-----------------------------------------------------------------------------
(* The file, the clock and the jobs *)

(* resumable_upload, for the post that finds all chunks stored.               *)

\* An upload is refused while there is a row of that name that is not deleted.
BeginUpload(d) ==
    /\ d \notin known /\ upload[d] = "none"
    /\ NoConflict
    /\ upload' = [upload EXCEPT ![d] = "merge"]
    /\ met' = [met EXCEPT ![d] = {e \in Delivery : upload[e] # "none"}]
    /\ UNCHANGED <<rowVars, file, astray, jobVars, day, archiveVars, requestVars>>

\* merge_uploaded_chunks appends to a file that is there all the same; what it
\* writes after the file was unlinked is in no file.
AppendUpload(d) ==
    /\ upload[d] = "merge"
    /\ file' = Appended(d)
    /\ upload' = [upload EXCEPT ![d] = "register"]
    /\ UNCHANGED <<rowVars, met, astray, jobVars, day, archiveVars, requestVars>>

\* The delivery is registered; without a file there is no size, and an exception.
RegisterUpload(d) ==
    /\ upload[d] = "register"
    /\ IF file # {} THEN known' = known \union {d} /\ upload' = [upload EXCEPT ![d] = "none"]
                    ELSE UNCHANGED known /\ upload' = [upload EXCEPT ![d] = "lost"]
    /\ UNCHANGED <<submitted, deleted, file, met, astray, jobVars, day, archiveVars, requestVars>>

\* The API registers a file that is there, whatever rows there are.
Register(d) ==
    /\ "register" \in Kind
    /\ d \notin known /\ upload[d] = "none"
    /\ file # {}
    /\ known' = known \union {d}
    /\ UNCHANGED <<submitted, deleted, fileVars, jobVars, day, archiveVars, requestVars>>

\* The frontend is restarted: uploads and requests under way come to nothing.
Restart ==
    /\ "restart" \in Fault
    /\ upload' = [d \in Delivery |-> IF upload[d] = "none" THEN "none" ELSE "lost"]
    /\ pc' = [r \in Request |-> "idle"] /\ req' = [r \in Request |-> Nobody]
    /\ UNCHANGED <<rowVars, file, met, astray, jobVars, day, archiveVars>>

NextDay ==
    /\ day < Days
    /\ day' = day + 1
    /\ UNCHANGED <<rowVars, fileVars, jobVars, archiveVars, requestVars>>

Claim(j) ==
    /\ status[j] = "waiting"
    /\ status' = [status EXCEPT ![j] = "running"]
    /\ UNCHANGED <<rowVars, fileVars, of, birth, seen, day, archiveVars, requestVars>>

\* A job without a file fails.
Finish(j) ==
    /\ status[j] = "running"
    /\ \E grade \in {"ok", "failed"} :
        /\ grade = "ok" => file # {}
        /\ status' = [status EXCEPT ![j] = grade]
    /\ seen' = [seen EXCEPT ![j] = file]
    /\ UNCHANGED <<rowVars, fileVars, of, birth, day, archiveVars, requestVars>>

-----------------------------------------------------------------------------
(* Requests *)

\* No request but deletion looks at who makes it; none looks at date_submitted
\* or is_deleted: the pages do, when they are shown.
FirstStep(kind) ==
    CASE kind = "create" -> "insert"
      [] kind = "delete" -> "count1"
      [] OTHER           -> "find"

Underway(kind) == {r \in Request : pc[r] # "idle" /\ req[r].kind = kind}

Begin(r, kind, by, d) ==
    /\ pc[r] = "idle"
    /\ kind # "register" /\ d \in known
    /\ by = Anonymous <=> kind = "api"
    /\ kind = "create" =>   \* bound
        Cardinality({j \in Job : status[j] = "absent"}) > Cardinality(Underway("create"))
    /\ pc' = [pc EXCEPT ![r] = FirstStep(kind)]
    /\ req' = [req EXCEPT ![r] =
        [kind |-> kind, by |-> by, id |-> d, job |-> Nobody, day |-> day,
         submitted |-> d \in submitted, deleted |-> d \in deleted]]
    /\ UNCHANGED <<rowVars, fileVars, jobVars, day, archiveVars>>

\* The request goes on with q, or is answered and forgotten.
Goes(r, from, to, q) ==
    /\ pc[r] = from
    /\ pc' = [pc EXCEPT ![r] = to]
    /\ req' = [req EXCEPT ![r] = IF to = "idle" THEN Nobody ELSE q]

\* Model.save writes all fields of the copy.
SaveRow(q) ==
    /\ submitted' = With(submitted, q.id, q.submitted)
    /\ deleted' = With(deleted, q.id, q.deleted)
    /\ UNCHANGED known

\* The last statement of create_job, delivery_delete and the submissions.
Save(r) ==
    /\ Goes(r, "save", "idle", req[r])
    /\ SaveRow(req[r])
    /\ UNCHANGED <<fileVars, jobVars, day, archiveVars>>

\* Delivery.create_job
InsertJob(r) ==
    /\ Goes(r, "insert", "save", req[r])
    /\ \E j \in Job :
        /\ status[j] = "absent"
        /\ status' = [status EXCEPT ![j] = "waiting"]
        /\ of' = [of EXCEPT ![j] = req[r].id]
        /\ birth' = [birth EXCEPT ![j] = Max({birth[k] : k \in Job}) + 1]
    /\ UNCHANGED <<rowVars, fileVars, seen, day, archiveVars>>

(* delivery_delete: two queries before anything is deleted, then the row is   *)
(* read again.                                                                *)
CountFirst(r) ==
    /\ Goes(r, "count1", IF None(req[r].id, 1) THEN "count2" ELSE "idle", req[r])
    /\ UNCHANGED <<rowVars, fileVars, jobVars, day, archiveVars>>

CountSecond(r) ==
    /\ Goes(r, "count2", IF None(req[r].id, 2) THEN "get" ELSE "idle", req[r])
    /\ UNCHANGED <<rowVars, fileVars, jobVars, day, archiveVars>>

GetAgain(r) ==
    /\ Goes(r, "get", "unlink", FreshRow(req[r]))
    /\ UNCHANGED <<rowVars, fileVars, jobVars, day, archiveVars>>

UnlinkFile(r) ==
    /\ Goes(r, "unlink", "save", [req[r] EXCEPT !.deleted = TRUE])
    /\ file' = Unlinked(req[r])
    /\ astray' = IF FindsFile(req[r]) THEN astray ELSE astray \union {req[r].id}
    /\ UNCHANGED <<rowVars, upload, met, jobVars, day, archiveVars>>

(* The three submission views and submit_job.                                 *)
FindJob(r) ==
    /\ pc[r] = "find"
    /\ \E j \in IF SubmittableJobs(req[r].id) = {} THEN {Nobody} ELSE SubmittableJobs(req[r].id) :
        Goes(r, "find", AfterFind(j), [req[r] EXCEPT !.job = j, !.day = day])
    /\ UNCHANGED <<rowVars, fileVars, jobVars, day, archiveVars>>

Raises(r, from) ==
    /\ Goes(r, from, AfterException(req[r]), req[r])
    /\ UNCHANGED <<rowVars, fileVars, jobVars, day, archiveVars>>

Archives(r, from, to, state) ==
    /\ Goes(r, from, to, req[r])
    /\ archive' = [archive EXCEPT ![Entry(req[r])] = state]
    /\ UNCHANGED <<rowVars, fileVars, jobVars, day>>

\* The directory is named after the day and the job.
MakeDirectory(r) ==
    /\ pc[r] = "mkdir"
    /\ IF MayMake(req[r])
       THEN Archives(r, "mkdir", "copy", "made") /\ UNCHANGED input
       ELSE Raises(r, "mkdir")

CopyOutputs(r) ==
    \/ Archives(r, "copy", "input", "filled") /\ UNCHANGED input
    \/ "disk" \in Fault /\ Raises(r, "copy")

CopyInput(r) ==
    /\ pc[r] = "input"
    /\ IF FindsFile(req[r]) /\ file # {}
       THEN /\ Archives(r, "input", "stamp", "complete")
            /\ input' = [input EXCEPT ![Entry(req[r])] = file]
       ELSE Raises(r, "input")

PutStamp(r) == Archives(r, "stamp", "submit", "stamped") /\ UNCHANGED input

\* Delivery.submit saves the copy, and the view saves it again.
Submit(r) ==
    /\ Goes(r, "submit", "save", [req[r] EXCEPT !.submitted = TRUE])
    /\ SaveRow([req[r] EXCEPT !.submitted = TRUE])
    /\ UNCHANGED <<fileVars, jobVars, day, archiveVars>>

ResetSubmitted(r) ==
    /\ Goes(r, "reset", "idle", req[r])
    /\ SaveRow([req[r] EXCEPT !.submitted = FALSE])
    /\ UNCHANGED <<fileVars, jobVars, day, archiveVars>>

-----------------------------------------------------------------------------
(* The system *)

UploadStep(d) == BeginUpload(d) \/ AppendUpload(d) \/ RegisterUpload(d)
DeleteStep(r) == CountFirst(r) \/ CountSecond(r) \/ GetAgain(r) \/ UnlinkFile(r)
SubmitStep(r) ==
    \/ FindJob(r) \/ MakeDirectory(r) \/ CopyOutputs(r) \/ CopyInput(r) \/ PutStamp(r)
    \/ Submit(r) \/ ResetSubmitted(r)

Next ==
    \/ \E d \in Delivery : UploadStep(d) \/ Register(d)
    \/ \E j \in Job : Claim(j) \/ Finish(j)
    \/ NextDay \/ Restart
    \/ \E r \in Request :
        \/ \E kind \in Kind, by \in Visitor, d \in Delivery : Begin(r, kind, by, d)
        \/ InsertJob(r) \/ DeleteStep(r) \/ SubmitStep(r) \/ Save(r)

Spec == Init /\ [][Next]_vars

-----------------------------------------------------------------------------
(* Properties *)

\* A delivery that is called submitted is in the archive, stamped and with its
\* input, under a job that found it ok: whatever copies of the row are saved and
\* whichever requests fail (submit_job, Delivery.submit).
SubmittedIsArchived ==
    \A d \in submitted : \E j \in JobsOf(d, {"ok"}), t \in Day :
        archive[<<j, t>>] = "stamped" /\ input[<<j, t>>] # {}

\* A stamp is put by the request that made the directory: nothing is written to
\* a stamped directory, though the same job is submitted by several requests on
\* one day ("Put stamp confirming finished submission.").
ArchiveIsFinal ==
    [][\A e \in Job \X Day : archive[e] = "stamped" =>
            archive'[e] = "stamped" /\ input'[e] = input[e]]_vars

\* Two requests never fill the same directory.
OneWriter ==
    \A q, r \in Request :
        q # r /\ {pc[q], pc[r]} \subseteq {"copy", "input", "stamp"} =>
            Entry(req[q]) # Entry(req[r])

\* The input in a stamped directory is the file the job has checked ("Copy the
\* uploaded file.").
ArchivedAsChecked ==
    \A j \in Job, t \in Day : archive[<<j, t>>] = "stamped" => input[<<j, t>>] = seen[j]

\* The file of a deleted delivery is gone ("Deletes a delivery from the database
\* and deleted the associated ZIP file from the filesystem.").
DeletedFileIsGone == deleted \intersect file = {}

\* A file is one upload: none is appended to what another one left (the conflict
\* test of resumable_upload).
FileIsOneUpload == Cardinality(file) <= 1

\* One of two uploads began before the other was registered, or after it was cut
\* short.
Met(d, e) == d \in met[e] \/ e \in met[d]

\* The file is true to the rows, in whatever order requests read and save their
\* copies, uploads go on and the frontend is restarted: deleting a delivery takes
\* its upload away, unless a superuser does it, who looks for the file elsewhere;
\* and the next upload is appended to nothing (resumable_upload opens the target
\* with "ab"), unless that file is there or the other upload was then under way or
\* had been cut short.
FileIsTrue ==
    /\ deleted \intersect file \subseteq astray
    /\ \A d, e \in file : d = e \/ Met(d, e) \/ {d, e} \intersect astray # {}

\* A delivery that is not deleted has its file: deleting a delivery does not take
\* the file of another one.
LivingHasFile ==
    \A d \in known \ deleted :
        file # {} \/ \E r \in Underway("delete") : pc[r] = "save" /\ req[r].id = d

\* Once submitted, a delivery stays so ("Delivery has already been submitted to
\* EEA.", deliveries.js).
SubmittedStays == [][submitted \subseteq submitted']_vars

\* Once deleted, a delivery stays so.
DeletedStays == [][deleted \subseteq deleted']_vars

\* When a delivery is deleted, its jobs are over: a job that is claimed between
\* the two queries is seen by the second one.
JobsAreSpared ==
    [][\A d \in deleted' \ deleted : JobsOf(d, {"waiting", "running"}) = {}]_vars

\* A deleted delivery has no job to come ("cannot be deleted. QC job is
\* currently waiting.").
DeletedHasNoJob == \A d \in deleted : JobsOf(d, {"waiting", "running"}) = {}

=============================================================================
