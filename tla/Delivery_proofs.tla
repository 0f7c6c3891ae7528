-------------------------- MODULE Delivery_proofs --------------------------
(***************************************************************************)
(* What is proved of submissions, for any deliveries, jobs, days, requests *)
(* and users: a directory of the archive has one writer, nothing is        *)
(* written to it once it is stamped, and a delivery that is called         *)
(* submitted is in it.  The argument follows the evidence: a job that      *)
(* found the delivery ok and a stamped directory with its input.  A copy   *)
(* of a row says submitted only if there is such evidence, and evidence is *)
(* never taken away; so it does no harm that stale copies are saved.       *)
(***************************************************************************)
EXTENDS MCDelivery, FiniteSetTheorems, WellFoundedInduction, TLAPS

Pcs == {"idle", "insert", "save", "count1", "count2", "get", "unlink", "find",
        "mkdir", "copy", "input", "stamp", "submit", "reset"}

(* The part of the types the argument needs.                               *)
Shape ==
    /\ status \in [Job -> {"absent", "waiting", "running", "ok", "failed"}]
    /\ of \in [Job -> Delivery \union {Nobody}]
    /\ day \in Day
    /\ file \in SUBSET Delivery
    /\ archive \in [Job \X Day -> {"none", "made", "filled", "complete", "stamped"}]
    /\ input \in [Job \X Day -> SUBSET Delivery]
    /\ pc \in [Request -> Pcs]
    /\ req \in [Request -> Copy \union {Nobody}]
    /\ \A r \in Request : pc[r] # "idle" => req[r] \in Copy

(* How far a submission has come is how far its directory has.             *)
Stage(r) ==
    /\ pc[r] \in {"mkdir", "copy", "input", "stamp", "submit"} =>
          req[r].job \in Job /\ of[req[r].job] = req[r].id /\ status[req[r].job] = "ok"
    /\ pc[r] = "copy" => archive[Entry(req[r])] = "made"
    /\ pc[r] = "input" => archive[Entry(req[r])] = "filled"
    /\ pc[r] = "stamp" => archive[Entry(req[r])] = "complete" /\ input[Entry(req[r])] # {}
    /\ pc[r] = "submit" => archive[Entry(req[r])] = "stamped" /\ input[Entry(req[r])] # {}

(* What every step keeps: jobs that ended well, and stamped directories.    *)
JobsKept ==
    /\ day' \in Day
    /\ file' \in SUBSET Delivery
    /\ status' \in [Job -> {"absent", "waiting", "running", "ok", "failed"}]
    /\ of' \in [Job -> Delivery \union {Nobody}]
    /\ \A j \in Job : status[j] = "ok" => status'[j] = "ok" /\ of'[j] = of[j]

ArchiveKept ==
    \A e \in Job \X Day : archive[e] = "stamped" => archive'[e] = "stamped" /\ input'[e] = input[e]

ArchiveInv == Shape /\ (\A r \in Request : Stage(r)) /\ OneWriter

(* What SubmittedIsArchived asks for.                                      *)
Evidence(d) ==
    \E j \in Job, t \in Day :
        of[j] = d /\ status[j] = "ok" /\ archive[<<j, t>>] = "stamped" /\ input[<<j, t>>] # {}

CopiesInv ==
    /\ \A d \in submitted : Evidence(d)
    /\ \A r \in Request : pc[r] # "idle" /\ req[r].submitted => Evidence(req[r].id)

-----------------------------------------------------------------------------
LEMMA EntryType ==
    ASSUME NEW q \in Copy, q.job \in Job
    PROVE  Entry(q) \in Job \X Day
BY DEF Copy, Entry

(* A row that is read again is a copy like the first one.                  *)
LEMMA FreshCopy ==
    ASSUME NEW q \in Copy
    PROVE  FreshRow(q) \in Copy
<1>1. \A s, d \in BOOLEAN : [q EXCEPT !.submitted = s, !.deleted = d] \in Copy
  BY DEF Copy
<1> DEFINE s == q.id \in submitted
           d == q.id \in deleted
<1>2. s \in BOOLEAN /\ d \in BOOLEAN
  OBVIOUS
<1>3. FreshRow(q) = [q EXCEPT !.submitted = s, !.deleted = d]
  BY Zenon DEF FreshRow
<1> HIDE DEF s, d
<1>4. QED
  BY <1>1, <1>2, <1>3

(* Steps that leave the requests and the archive alone.                    *)
LEMMA OtherSteps ==
    ASSUME ArchiveInv, UNCHANGED <<archiveVars, requestVars>>, JobsKept
    PROVE  ArchiveInv' /\ ArchiveKept
<1>1. UNCHANGED <<archive, input, pc, req>>
  BY DEF archiveVars, requestVars
<1>2. Shape'
  BY <1>1 DEF ArchiveInv, Shape, JobsKept
<1>3. ASSUME NEW r \in Request PROVE Stage(r)'
  <2>1. Entry(req[r])' = Entry(req[r])
    BY <1>1 DEF Entry
  <2>2. Stage(r)
    BY DEF ArchiveInv
  <2>3. QED
    BY <1>1, <2>1, <2>2 DEF Stage, JobsKept
<1>4. OneWriter'
  BY <1>1 DEF ArchiveInv, OneWriter, Entry
<1>5. QED
  BY <1>1, <1>2, <1>3, <1>4 DEF ArchiveInv, ArchiveKept

(* A request that does not write goes on; only FindJob changes its entry.  *)
LEMMA QuietSteps ==
    ASSUME ArchiveInv, NEW r \in Request, NEW q \in Copy \union {Nobody}, NEW to \in Pcs,
           UNCHANGED archiveVars, JobsKept,
           pc' = [pc EXCEPT ![r] = to], req' = [req EXCEPT ![r] = q],
           to \notin {"copy", "input", "stamp", "submit"}, to # "idle" => q \in Copy,
           to = "mkdir" => q.job \in Job /\ of[q.job] = q.id /\ status[q.job] = "ok"
    PROVE  ArchiveInv' /\ ArchiveKept
<1>0. UNCHANGED <<archive, input>>
  BY DEF archiveVars
<1>1. Shape'
  BY <1>0 DEF ArchiveInv, Shape, JobsKept
<1>2. ASSUME NEW s \in Request PROVE Stage(s)'
  <2>1. CASE s = r
    BY <1>0, <2>1 DEF Stage, ArchiveInv, Shape, JobsKept
  <2>2. CASE s # r
    <3>1. pc'[s] = pc[s] /\ req'[s] = req[s] /\ Stage(s)
      BY <2>2 DEF ArchiveInv, Shape
    <3>2. Entry(req[s])' = Entry(req[s])
      BY <3>1 DEF Entry
    <3>3. QED
      BY <1>0, <3>1, <3>2 DEF Stage, JobsKept
  <2>3. QED
    BY <2>1, <2>2
<1>3. OneWriter'
  <2> SUFFICES ASSUME NEW s \in Request, NEW u \in Request, s # u,
                      {pc'[s], pc'[u]} \subseteq {"copy", "input", "stamp"}
               PROVE  Entry(req'[s]) # Entry(req'[u])
    BY DEF OneWriter, Entry
  <2>1. s # r /\ u # r
    BY DEF ArchiveInv, Shape
  <2>2. pc'[s] = pc[s] /\ pc'[u] = pc[u] /\ req'[s] = req[s] /\ req'[u] = req[u]
    BY <2>1 DEF ArchiveInv, Shape
  <2>3. QED
    BY <2>2 DEF ArchiveInv, OneWriter
<1>4. QED
  BY <1>0, <1>1, <1>2, <1>3 DEF ArchiveInv, ArchiveKept

(* A request writes to its directory, which no other request does.         *)
LEMMA WriteSteps ==
    ASSUME ArchiveInv, NEW r \in Request, NEW q \in Copy, NEW to, NEW state,
           UNCHANGED <<day, file, of, status>>,
           pc[r] \in {"mkdir", "copy", "input", "stamp"}, q = req[r],
           pc' = [pc EXCEPT ![r] = to], req' = [req EXCEPT ![r] = q],
           archive' = [archive EXCEPT ![Entry(q)] = state],
           \/ pc[r] = "mkdir" /\ archive[Entry(q)] = "none" /\ to = "copy" /\ state = "made" /\ input' = input
           \/ pc[r] = "copy" /\ to = "input" /\ state = "filled" /\ input' = input
           \/ /\ pc[r] = "input" /\ to = "stamp" /\ state = "complete"
              /\ \E F \in SUBSET Delivery : F # {} /\ input' = [input EXCEPT ![Entry(q)] = F]
           \/ pc[r] = "stamp" /\ to = "submit" /\ state = "stamped" /\ input' = input
    PROVE  ArchiveInv' /\ ArchiveKept /\ JobsKept
<1>1. /\ Stage(r) /\ Shape /\ OneWriter /\ q.job \in Job
      /\ Entry(q) \in Job \X Day /\ archive[Entry(q)] # "stamped"
  BY EntryType DEF ArchiveInv, Stage
<1>2. Shape'
  BY <1>1 DEF Shape, Pcs
<1>3. /\ archive'[Entry(q)] = state
      /\ \A e \in Job \X Day : e # Entry(q) => archive'[e] = archive[e] /\ input'[e] = input[e]
      /\ to = "stamp" => input'[Entry(q)] # {}
      /\ to # "stamp" => input' = input
  BY <1>1 DEF Shape
<1>4. pc'[r] = to /\ req'[r] = q /\ Entry(req'[r]) = Entry(q)
  BY <1>1 DEF Shape
<1>5. ASSUME NEW s \in Request, s # r, pc[s] \in {"copy", "input", "stamp", "submit"}
      PROVE  Entry(req[s]) # Entry(q) /\ Entry(req[s]) \in Job \X Day
  <2>1. Stage(s) /\ req[s] \in Copy /\ req[s].job \in Job
    BY <1>5 DEF ArchiveInv, Shape, Stage
  <2>2. Entry(req[s]) \in Job \X Day
    BY <2>1, EntryType
  <2>3. CASE pc[s] = "submit"
    BY <1>1, <2>1, <2>2, <2>3 DEF Stage
  <2>4. CASE pc[r] = "mkdir" /\ pc[s] # "submit"
    BY <1>5, <2>1, <2>2, <2>4 DEF Stage
  <2>5. CASE pc[r] # "mkdir" /\ pc[s] # "submit"
    BY <1>1, <1>5, <2>2, <2>5 DEF OneWriter
  <2>6. QED
    BY <2>3, <2>4, <2>5
<1>6. ASSUME NEW s \in Request PROVE Stage(s)'
  <2>1. CASE s = r
    BY <1>1, <1>3, <1>4, <2>1 DEF Stage, Entry
  <2>2. CASE s # r
    <3>1. pc'[s] = pc[s] /\ req'[s] = req[s] /\ Stage(s) /\ Entry(req[s])' = Entry(req[s])
      BY <2>2 DEF ArchiveInv, Shape, Entry
    <3>2. pc[s] \in {"copy", "input", "stamp", "submit"} =>
             archive'[Entry(req[s])] = archive[Entry(req[s])] /\ input'[Entry(req[s])] = input[Entry(req[s])]
      BY <1>3, <1>5, <2>2
    <3>3. QED
      BY <3>1, <3>2 DEF Stage
  <2>3. QED
    BY <2>1, <2>2
<1>7. OneWriter'
  <2> SUFFICES ASSUME NEW s \in Request, NEW u \in Request, s # u,
                      {pc'[s], pc'[u]} \subseteq {"copy", "input", "stamp"}
               PROVE  Entry(req'[s]) # Entry(req'[u])
    BY DEF OneWriter, Entry
  <2>1. \A v \in Request : v # r => pc'[v] = pc[v] /\ req'[v] = req[v]
    BY DEF ArchiveInv, Shape
  <2>2. CASE s = r
    BY <1>4, <1>5, <2>1, <2>2
  <2>3. CASE u = r
    BY <1>4, <1>5, <2>1, <2>3
  <2>4. CASE s # r /\ u # r
    BY <1>1, <2>1, <2>4 DEF OneWriter
  <2>5. QED
    BY <2>2, <2>3, <2>4
<1>8. ArchiveKept
  BY <1>1, <1>3 DEF ArchiveKept
<1>9. QED
  BY <1>1, <1>2, <1>6, <1>7, <1>8 DEF ArchiveInv, JobsKept, Shape

-----------------------------------------------------------------------------
(* At first nothing is under way and the archive is empty.                  *)
THEOREM ArchiveInit == Init => ArchiveInv
<1> SUFFICES ASSUME Init PROVE ArchiveInv
  OBVIOUS
<1>1. Shape
  BY DaysAssumption DEF Init, Shape, Pcs, Day
<1>2. \A r \in Request : Stage(r)
  BY DEF Init, Stage
<1>3. OneWriter
  BY DEF Init, OneWriter
<1>4. QED
  BY <1>1, <1>2, <1>3 DEF ArchiveInv

(* Every step of every request keeps its place in the archive.             *)
THEOREM ArchiveStep == ArchiveInv /\ [Next]_vars => ArchiveInv' /\ ArchiveKept /\ JobsKept
<1> SUFFICES ASSUME ArchiveInv, [Next]_vars PROVE ArchiveInv' /\ ArchiveKept /\ JobsKept
  OBVIOUS
<1>0. Shape /\ \A r \in Request : Stage(r)
  BY DEF ArchiveInv
<1>1. ASSUME UNCHANGED <<file, of, status, day>> PROVE JobsKept
  BY <1>0, <1>1 DEF JobsKept, Shape
<1>2. CASE UNCHANGED vars
  BY <1>1, <1>2, OtherSteps DEF vars, jobVars, fileVars
<1>3. ASSUME NEW d \in Delivery, UploadStep(d) \/ Register(d) PROVE ArchiveInv' /\ ArchiveKept /\ JobsKept
  <2>1. UNCHANGED <<archiveVars, requestVars, jobVars, day>> /\ (file' = file \/ file' = file \union {d})
    BY <1>3 DEF UploadStep, BeginUpload, AppendUpload, RegisterUpload, Register, Appended, fileVars
  <2>2. JobsKept
    BY <1>0, <2>1 DEF JobsKept, Shape, jobVars
  <2>3. QED
    BY <2>1, <2>2, OtherSteps
<1>4. ASSUME NEW j \in Job, Claim(j) \/ Finish(j) PROVE ArchiveInv' /\ ArchiveKept /\ JobsKept
  <2>1. JobsKept
    BY <1>0, <1>4 DEF Claim, Finish, JobsKept, Shape, fileVars
  <2>2. QED
    BY <1>4, <2>1, OtherSteps DEF Claim, Finish
<1>5. CASE NextDay
  <2>1. JobsKept
    BY <1>0, <1>5, DaysAssumption DEF NextDay, JobsKept, Shape, Day, jobVars, fileVars
  <2>2. QED
    BY <1>5, <2>1, OtherSteps DEF NextDay
<1>20. CASE Restart
  <2>1. JobsKept /\ UNCHANGED <<archive, input>>
    BY <1>1, <1>20 DEF Restart, jobVars, archiveVars
  <2>2. pc' = [r \in Request |-> "idle"] /\ req' = [r \in Request |-> Nobody]
    BY <1>20 DEF Restart
  <2>3. Shape'
    BY <1>0, <2>1, <2>2 DEF Shape, JobsKept, Pcs
  <2>4. (\A r \in Request : Stage(r)') /\ OneWriter'
    BY <2>2 DEF Stage, OneWriter
  <2> QED
    BY <2>1, <2>3, <2>4 DEF ArchiveInv, ArchiveKept
<1>6. ASSUME NEW r \in Request, NEW kind \in Kind, NEW by \in Visitor, NEW d \in Delivery,
             Begin(r, kind, by, d)
      PROVE  ArchiveInv' /\ ArchiveKept /\ JobsKept
  <2> DEFINE q == [kind |-> kind, by |-> by, id |-> d, job |-> Nobody, day |-> day,
                   submitted |-> d \in submitted, deleted |-> d \in deleted]
  <2>1. q \in Copy
    BY <1>0 DEF Copy, Shape
  <2>2. FirstStep(kind) \in {"insert", "count1", "find"}
    BY DEF FirstStep
  <2>3. JobsKept
    BY <1>1, <1>6 DEF Begin, jobVars, fileVars
  <2>4. pc' = [pc EXCEPT ![r] = FirstStep(kind)] /\ req' = [req EXCEPT ![r] = q] /\ UNCHANGED archiveVars
    BY <1>6 DEF Begin
  <2> HIDE DEF q
  <2>5. QED
    BY <2>1, <2>2, <2>3, <2>4, QuietSteps DEF Pcs
<1>7. ASSUME NEW r \in Request, NEW from, NEW to, NEW q, Goes(r, from, to, q), JobsKept,
             UNCHANGED archiveVars, q \in Copy, to \in {"idle", "save", "count2", "get", "unlink", "reset"}
      PROVE  ArchiveInv' /\ ArchiveKept /\ JobsKept
  <2>1. CASE to = "idle"
    BY <1>7, <2>1, QuietSteps DEF Goes, Pcs
  <2>2. CASE to # "idle"
    BY <1>7, <2>2, QuietSteps DEF Goes, Pcs
  <2>3. QED
    BY <2>1, <2>2
<1>8. ASSUME NEW r \in Request, NEW from, NEW to, NEW q, Goes(r, from, to, q), from # "idle"
      PROVE  req[r] \in Copy /\ pc[r] = from
  BY <1>0, <1>8 DEF Goes, Shape
<1>9. ASSUME NEW r \in Request, InsertJob(r) PROVE ArchiveInv' /\ ArchiveKept /\ JobsKept
  <2>1. Goes(r, "insert", "save", req[r]) /\ UNCHANGED archiveVars
    BY <1>9 DEF InsertJob
  <2>2. req[r] \in Copy
    BY <1>8, <2>1
  <2>3. PICK j \in Job : /\ status[j] = "absent"
                         /\ status' = [status EXCEPT ![j] = "waiting"]
                         /\ of' = [of EXCEPT ![j] = req[r].id]
    BY <1>9 DEF InsertJob
  <2>4. JobsKept
    BY <1>0, <1>9, <2>2, <2>3 DEF InsertJob, JobsKept, Shape, Copy, fileVars
  <2>5. QED
    BY <1>7, <2>1, <2>2, <2>4
<1>10. ASSUME NEW r \in Request, DeleteStep(r) PROVE ArchiveInv' /\ ArchiveKept /\ JobsKept
  <2>1. CASE CountFirst(r) \/ CountSecond(r)
    <3>1. JobsKept /\ UNCHANGED archiveVars
      BY <1>1, <2>1 DEF CountFirst, CountSecond, jobVars, fileVars
    <3>2. QED
      BY <1>7, <1>8, <2>1, <3>1 DEF CountFirst, CountSecond
  <2>2. CASE GetAgain(r)
    <3>1. JobsKept /\ UNCHANGED archiveVars
      BY <1>1, <2>2 DEF GetAgain, jobVars, fileVars
    <3>2. Goes(r, "get", "unlink", FreshRow(req[r]))
      BY <2>2 DEF GetAgain
    <3>3. req[r] \in Copy
      BY <1>8, <3>2
    <3>4. FreshRow(req[r]) \in Copy
      BY <3>3, FreshCopy
    <3>5. QED
      BY <1>7, <3>1, <3>2, <3>4
  <2>3. CASE UnlinkFile(r)
    <3>1. Goes(r, "unlink", "save", [req[r] EXCEPT !.deleted = TRUE]) /\ UNCHANGED archiveVars
      BY <2>3 DEF UnlinkFile
    <3>2. req[r] \in Copy
      BY <1>8, <3>1
    <3>3. [req[r] EXCEPT !.deleted = TRUE] \in Copy
      BY <3>2 DEF Copy
    <3>4. JobsKept
      BY <1>0, <2>3 DEF UnlinkFile, Unlinked, JobsKept, Shape, jobVars
    <3>5. QED
      BY <1>7, <3>1, <3>3, <3>4
  <2>4. QED
    BY <1>10, <2>1, <2>2, <2>3 DEF DeleteStep
<1>11. ASSUME NEW r \in Request, NEW from, from # "idle", Raises(r, from)
       PROVE  ArchiveInv' /\ ArchiveKept /\ JobsKept
  <2>1. JobsKept /\ UNCHANGED archiveVars /\ Goes(r, from, AfterException(req[r]), req[r])
    BY <1>1, <1>11 DEF Raises, jobVars, fileVars
  <2>2. AfterException(req[r]) \in {"idle", "reset"}
    BY DEF AfterException
  <2>3. QED
    BY <1>7, <1>8, <1>11, <2>1, <2>2
<1>12. ASSUME NEW r \in Request, FindJob(r) PROVE ArchiveInv' /\ ArchiveKept /\ JobsKept
  <2> DEFINE d == req[r].id
  <2>1. PICK j \in (IF SubmittableJobs(d) = {} THEN {Nobody} ELSE SubmittableJobs(d)) :
             Goes(r, "find", AfterFind(j), [req[r] EXCEPT !.job = j, !.day = day])
    BY <1>12 DEF FindJob
  <2>2. req[r] \in Copy
    BY <1>8, <2>1
  <2>3. JobsKept /\ UNCHANGED archiveVars
    BY <1>1, <1>12 DEF FindJob, jobVars, fileVars
  <2>4. j = Nobody \/ (j \in Job /\ of[j] = d /\ status[j] = "ok")
    BY <2>1 DEF SubmittableJobs, JobsOf
  <2> DEFINE q == [req[r] EXCEPT !.job = j, !.day = day]
  <2>5. q \in Copy /\ q.job = j /\ q.id = d
    BY <1>0, <2>2, <2>4 DEF Copy, Shape
  <2>6. CASE AfterFind(j) = "idle"
    BY <1>7, <2>1, <2>3, <2>5, <2>6
  <2>7. CASE AfterFind(j) # "idle"
    <3>1. AfterFind(j) = "mkdir" /\ j # Nobody
      BY <2>7 DEF AfterFind
    <3>2. pc' = [pc EXCEPT ![r] = "mkdir"] /\ req' = [req EXCEPT ![r] = q]
      BY <2>1, <3>1 DEF Goes
    <3> HIDE DEF q, d
    <3>3. q.job \in Job /\ of[q.job] = q.id /\ status[q.job] = "ok"
      BY <2>4, <2>5, <3>1
    <3>4. QED
      BY <2>3, <2>5, <3>2, <3>3, QuietSteps DEF Pcs
  <2>8. QED
    BY <2>6, <2>7
<1>13. ASSUME NEW r \in Request, NEW from, NEW to, NEW state, Archives(r, from, to, state),
              from # "idle", to # "idle"
       PROVE  /\ UNCHANGED <<day, file, of, status>>
              /\ pc[r] = from /\ req[r] \in Copy
              /\ pc' = [pc EXCEPT ![r] = to] /\ req' = [req EXCEPT ![r] = req[r]]
              /\ archive' = [archive EXCEPT ![Entry(req[r])] = state]
  BY <1>8, <1>13 DEF Archives, Goes, jobVars, fileVars
<1>14. ASSUME NEW r \in Request, MakeDirectory(r) PROVE ArchiveInv' /\ ArchiveKept /\ JobsKept
  <2>1. CASE MayMake(req[r])
    <3>1. Archives(r, "mkdir", "copy", "made") /\ input' = input /\ archive[Entry(req[r])] = "none"
      BY <1>14, <2>1 DEF MakeDirectory, MayMake
    <3>2. QED
      BY <1>13, <3>1, WriteSteps
  <2>2. CASE ~MayMake(req[r])
    BY <1>11, <1>14, <2>2 DEF MakeDirectory
  <2>3. QED
    BY <2>1, <2>2
<1>15. ASSUME NEW r \in Request, CopyOutputs(r) PROVE ArchiveInv' /\ ArchiveKept /\ JobsKept
  <2>1. CASE Archives(r, "copy", "input", "filled") /\ input' = input
    BY <1>13, <2>1, WriteSteps
  <2>2. CASE Raises(r, "copy")
    BY <1>11, <2>2
  <2>3. QED
    BY <1>15, <2>1, <2>2 DEF CopyOutputs
<1>16. ASSUME NEW r \in Request, CopyInput(r) PROVE ArchiveInv' /\ ArchiveKept /\ JobsKept
  <2>1. CASE FindsFile(req[r]) /\ file # {}
    <3>1. Archives(r, "input", "stamp", "complete") /\ input' = [input EXCEPT ![Entry(req[r])] = file]
      BY <1>16, <2>1 DEF CopyInput
    <3>2. file \in SUBSET Delivery
      BY <1>0 DEF Shape
    <3>3. \E F \in SUBSET Delivery : F # {} /\ input' = [input EXCEPT ![Entry(req[r])] = F]
      BY <2>1, <3>1, <3>2
    <3>4. /\ UNCHANGED <<day, file, of, status>>
          /\ pc[r] = "input" /\ req[r] \in Copy
          /\ pc' = [pc EXCEPT ![r] = "stamp"] /\ req' = [req EXCEPT ![r] = req[r]]
          /\ archive' = [archive EXCEPT ![Entry(req[r])] = "complete"]
      BY <1>13, <3>1
    <3>5. QED
      BY <3>3, <3>4, WriteSteps
  <2>2. CASE ~(FindsFile(req[r]) /\ file # {})
    BY <1>11, <1>16, <2>2 DEF CopyInput
  <2>3. QED
    BY <2>1, <2>2
<1>17. ASSUME NEW r \in Request, PutStamp(r) PROVE ArchiveInv' /\ ArchiveKept /\ JobsKept
  <2>1. Archives(r, "stamp", "submit", "stamped") /\ input' = input
    BY <1>17 DEF PutStamp
  <2>2. QED
    BY <1>13, <2>1, WriteSteps
<1>18. ASSUME NEW r \in Request, Submit(r) \/ ResetSubmitted(r) \/ Save(r)
       PROVE  ArchiveInv' /\ ArchiveKept /\ JobsKept
  <2>1. JobsKept /\ UNCHANGED archiveVars
    BY <1>1, <1>18 DEF Submit, ResetSubmitted, Save, jobVars, fileVars
  <2>2. CASE Submit(r)
    <3>1. Goes(r, "submit", "save", [req[r] EXCEPT !.submitted = TRUE])
      BY <2>2 DEF Submit
    <3>2. req[r] \in Copy
      BY <1>8, <3>1
    <3>3. [req[r] EXCEPT !.submitted = TRUE] \in Copy
      BY <3>2 DEF Copy
    <3>4. QED
      BY <1>7, <2>1, <3>1, <3>3
  <2>3. CASE ResetSubmitted(r) \/ Save(r)
    BY <1>7, <1>8, <2>1, <2>3 DEF ResetSubmitted, Save
  <2>4. QED
    BY <1>18, <2>2, <2>3
<1>19. QED
  BY <1>2, <1>3, <1>4, <1>5, <1>6, <1>9, <1>10, <1>12, <1>14, <1>15, <1>16, <1>17, <1>18, <1>20 DEF Next, SubmitStep

(* The archive holds what requests under way have come to, in every state  *)
(* of submit_job.                                                          *)
THEOREM ArchiveInvariant == Spec => []ArchiveInv
<1>1. ArchiveInv /\ [Next]_vars => ArchiveInv'
  BY ArchiveStep
<1>2. QED
  BY ArchiveInit, <1>1, PTL DEF Spec

(* No two submissions ever write to one directory, though they may be of   *)
(* the same job on the same day: mkdir lets only one of them go on.        *)
THEOREM DirectoriesHaveOneWriter == Spec => []OneWriter
<1>1. ArchiveInv => OneWriter
  BY DEF ArchiveInv
<1>2. QED
  BY ArchiveInvariant, <1>1, PTL

(* A stamped directory is never written to again.                          *)
THEOREM StampedIsFinal == Spec => ArchiveIsFinal
<1>1. ArchiveInv /\ [Next]_vars =>
         [\A e \in Job \X Day : archive[e] = "stamped" =>
            archive'[e] = "stamped" /\ input'[e] = input[e]]_vars
  BY ArchiveStep DEF ArchiveKept
<1>2. QED
  BY ArchiveInvariant, <1>1, PTL DEF Spec, ArchiveIsFinal

(* Evidence is never taken away.                                           *)
LEMMA EvidenceStays ==
    ASSUME ArchiveKept, JobsKept, NEW d, Evidence(d)
    PROVE  Evidence(d)'
<1>1. PICK j \in Job, t \in Day :
         of[j] = d /\ status[j] = "ok" /\ archive[<<j, t>>] = "stamped" /\ input[<<j, t>>] # {}
  BY DEF Evidence
<1>2. <<j, t>> \in Job \X Day
  OBVIOUS
<1>3. /\ of'[j] = d /\ status'[j] = "ok"
      /\ archive'[<<j, t>>] = "stamped" /\ input'[<<j, t>>] # {}
  BY <1>1, <1>2 DEF ArchiveKept, JobsKept
<1>4. QED
  BY <1>3 DEF Evidence, Day

(* A step may call a delivery submitted in its row, or in a request's copy *)
(* of it, if another copy said so or there is evidence.                    *)
LEMMA CopiesStep ==
    ASSUME ArchiveInv, CopiesInv, [Next]_vars
    PROVE  CopiesInv'
<1>1. ArchiveKept /\ JobsKept /\ Shape /\ \A r \in Request : Stage(r)
  BY ArchiveStep DEF ArchiveInv
<1>2. ASSUME \A d \in submitted' : Evidence(d),
             \A r \in Request : pc'[r] # "idle" /\ req'[r].submitted => Evidence(req'[r].id)
      PROVE  CopiesInv'
  BY <1>1, <1>2, EvidenceStays DEF CopiesInv
<1>3. ASSUME UNCHANGED <<submitted, pc, req>> PROVE CopiesInv'
  BY <1>2, <1>3 DEF CopiesInv
<1>4. ASSUME NEW r \in Request, NEW from, NEW to, NEW q, Goes(r, from, to, q),
             q.submitted => Evidence(q.id), \A d \in submitted' : Evidence(d)
      PROVE  CopiesInv'
  <2>1. ASSUME NEW s \in Request, pc'[s] # "idle", req'[s].submitted PROVE Evidence(req'[s].id)
    <3>1. CASE s = r
      BY <1>1, <1>4, <2>1, <3>1 DEF Goes, Shape
    <3>2. CASE s # r
      <4>1. pc'[s] = pc[s] /\ req'[s] = req[s]
        BY <1>1, <1>4, <3>2 DEF Goes, Shape
      <4>2. QED
        BY <2>1, <4>1 DEF CopiesInv
    <3>3. QED
      BY <3>1, <3>2
  <2>2. QED
    BY <1>2, <1>4, <2>1
<1>5. ASSUME NEW r \in Request, pc[r] # "idle" PROVE req[r] \in Copy /\ (req[r].submitted => Evidence(req[r].id))
  BY <1>1, <1>5 DEF CopiesInv, Shape
<1>6. ASSUME NEW r \in Request, NEW from, NEW to, Goes(r, from, to, req[r]), from # "idle",
             submitted' = submitted
      PROVE  CopiesInv'
  <2>1. pc[r] # "idle"
    BY <1>6 DEF Goes
  <2>2. \A d \in submitted' : Evidence(d)
    BY <1>6 DEF CopiesInv
  <2>3. QED
    BY <1>4, <1>5, <1>6, <2>1, <2>2
<1>7. CASE UNCHANGED vars \/ NextDay \/ (\E d \in Delivery : UploadStep(d) \/ Register(d))
           \/ (\E j \in Job : Claim(j) \/ Finish(j))
  BY <1>3, <1>7 DEF vars, NextDay, UploadStep, BeginUpload, AppendUpload, RegisterUpload, Register,
                    Claim, Finish, rowVars, requestVars
<1>19. CASE Restart
  <2>1. submitted' = submitted /\ \A r \in Request : pc'[r] = "idle"
    BY <1>19 DEF Restart, rowVars
  <2> QED
    BY <1>2, <2>1 DEF CopiesInv
<1>8. ASSUME NEW r \in Request, NEW kind \in Kind, NEW by \in Visitor, NEW d \in Delivery,
             Begin(r, kind, by, d)
      PROVE  CopiesInv'
  <2>1. submitted' = submitted /\ pc[r] = "idle"
    BY <1>8 DEF Begin, rowVars
  <2>2. req'[r].id = d /\ req'[r].submitted = (d \in submitted)
    BY <1>1, <1>8 DEF Begin, Shape
  <2>3. ASSUME NEW s \in Request, s # r PROVE pc'[s] = pc[s] /\ req'[s] = req[s]
    BY <1>1, <1>8, <2>3 DEF Begin, Shape
  <2>4. ASSUME NEW s \in Request, pc'[s] # "idle", req'[s].submitted PROVE Evidence(req'[s].id)
    <3>1. CASE s = r
      BY <2>2, <2>4, <3>1 DEF CopiesInv
    <3>2. CASE s # r
      BY <2>3, <2>4, <3>2 DEF CopiesInv
    <3>3. QED
      BY <3>1, <3>2
  <2>5. QED
    BY <1>2, <2>1, <2>4 DEF CopiesInv
<1>9. ASSUME NEW r \in Request, InsertJob(r) \/ CountFirst(r) \/ CountSecond(r) PROVE CopiesInv'
  BY <1>6, <1>9 DEF InsertJob, CountFirst, CountSecond, rowVars
<1>10. ASSUME NEW r \in Request, GetAgain(r) PROVE CopiesInv'
  <2>1. Goes(r, "get", "unlink", FreshRow(req[r])) /\ submitted' = submitted /\ pc[r] # "idle"
    BY <1>10 DEF GetAgain, Goes, rowVars
  <2>2. req[r] \in Copy
    BY <1>5, <2>1
  <2>3. FreshRow(req[r]).id = req[r].id /\ FreshRow(req[r]).submitted = (req[r].id \in submitted)
    BY <2>2 DEF FreshRow, Copy
  <2>4. QED
    BY <1>4, <2>1, <2>3 DEF CopiesInv
<1>11. ASSUME NEW r \in Request, UnlinkFile(r) PROVE CopiesInv'
  <2> DEFINE q == [req[r] EXCEPT !.deleted = TRUE]
  <2>1. Goes(r, "unlink", "save", q) /\ submitted' = submitted /\ pc[r] # "idle"
    BY <1>11 DEF UnlinkFile, Goes, rowVars
  <2>2. q.id = req[r].id /\ q.submitted = req[r].submitted
    BY <1>5, <2>1 DEF Copy
  <2> HIDE DEF q
  <2>3. QED
    BY <1>4, <1>5, <2>1, <2>2 DEF CopiesInv
<1>12. ASSUME NEW r \in Request, FindJob(r) PROVE CopiesInv'
  <2>1. PICK j : Goes(r, "find", AfterFind(j), [req[r] EXCEPT !.job = j, !.day = day])
    BY <1>12 DEF FindJob
  <2> DEFINE q == [req[r] EXCEPT !.job = j, !.day = day]
  <2>2. submitted' = submitted /\ pc[r] # "idle"
    BY <1>12 DEF FindJob, rowVars
  <2>3. q.id = req[r].id /\ q.submitted = req[r].submitted
    BY <1>5, <2>2 DEF Copy
  <2>4. Goes(r, "find", AfterFind(j), q)
    BY <2>1
  <2> HIDE DEF q
  <2>5. QED
    BY <1>4, <1>5, <2>2, <2>3, <2>4 DEF CopiesInv
<1>13. ASSUME NEW r \in Request, NEW from, from # "idle", Raises(r, from) PROVE CopiesInv'
  BY <1>6, <1>13 DEF Raises, rowVars
<1>14. ASSUME NEW r \in Request, NEW from, NEW to, NEW state, from # "idle", Archives(r, from, to, state)
       PROVE  CopiesInv'
  BY <1>6, <1>14 DEF Archives, rowVars
<1>15. ASSUME NEW r \in Request, MakeDirectory(r) \/ CopyOutputs(r) \/ CopyInput(r) \/ PutStamp(r)
       PROVE  CopiesInv'
  BY <1>13, <1>14, <1>15 DEF MakeDirectory, CopyOutputs, CopyInput, PutStamp
<1>16. ASSUME NEW r \in Request, Submit(r) PROVE CopiesInv'
  <2> DEFINE q == [req[r] EXCEPT !.submitted = TRUE]
  <2>1. Goes(r, "submit", "save", q) /\ pc[r] = "submit" /\ submitted' = With(submitted, q.id, q.submitted)
    BY <1>16 DEF Submit, SaveRow, Goes
  <2>2. req[r] \in Copy /\ q.id = req[r].id
    BY <1>5, <2>1 DEF Copy
  <2>3. Evidence(req[r].id)
    BY <1>1, <2>1, <2>2 DEF Stage, Entry, Evidence, Copy
  <2> HIDE DEF q
  <2>4. QED
    BY <1>4, <2>1, <2>2, <2>3 DEF With, CopiesInv
<1>17. ASSUME NEW r \in Request, Save(r) \/ ResetSubmitted(r) PROVE CopiesInv'
  <2>1. pc[r] # "idle" /\ \E from, to : Goes(r, from, to, req[r])
    BY <1>17 DEF Save, ResetSubmitted, Goes
  <2>2. CASE Save(r)
    BY <1>4, <1>5, <2>1, <2>2 DEF Save, SaveRow, With, CopiesInv
  <2>3. CASE ResetSubmitted(r)
    <3> DEFINE q == [req[r] EXCEPT !.submitted = FALSE]
    <3>1. submitted' = With(submitted, q.id, q.submitted) /\ q.submitted = FALSE
      BY <1>5, <2>1, <2>3 DEF ResetSubmitted, SaveRow, Copy
    <3>2. submitted' \subseteq submitted
      BY <3>1 DEF With
    <3>3. QED
      BY <1>4, <1>5, <2>1, <3>2 DEF CopiesInv
  <2>4. QED
    BY <1>17, <2>2, <2>3
<1>18. QED
  BY <1>7, <1>8, <1>9, <1>10, <1>11, <1>12, <1>15, <1>16, <1>17, <1>19 DEF Next, DeleteStep, SubmitStep

(* A delivery whose row says submitted is in the archive, whatever copies  *)
(* of the row are saved and whichever requests fail.                       *)
THEOREM SubmittedDeliveriesAreArchived == Spec => []SubmittedIsArchived
<1>1. Init => CopiesInv
  BY DEF Init, CopiesInv
<1>2. ArchiveInv /\ CopiesInv /\ [Next]_vars => CopiesInv'
  BY CopiesStep
<1>3. CopiesInv => SubmittedIsArchived
  BY DEF CopiesInv, Evidence, SubmittedIsArchived, JobsOf
<1>4. QED
  BY ArchiveInvariant, <1>1, <1>2, <1>3, PTL DEF Spec

-----------------------------------------------------------------------------
(* Types.  That the rank of a new job stays below the number of jobs takes *)
(* a count of the rows there are.                                          *)

Rows == {j \in Job : status[j] # "absent"}
RankInv == \A j \in Job : birth[j] <= Cardinality(Rows)

Smaller == {p \in Nat \X Nat : p[1] < p[2]}

(* A finite bound is reached.                                              *)
LEMMA HasGreatest ==
    ASSUME NEW B, B # {}, B \subseteq Nat, NEW N \in Nat, \A b \in B : b <= N
    PROVE  Max(B) \in B /\ \A b \in B : b <= Max(B)
<1> DEFINE S == {m \in Nat : \A b \in B : b <= m}
<1>1. IsWellFoundedOn({p \in Nat \X Nat : p[1] < p[2]}, Nat)
  BY NatLessThanWellFounded DEF OpToRel
<1>2. IsWellFoundedOn(Smaller, Nat)
  BY <1>1 DEF Smaller
<1>3. S \subseteq Nat /\ S # {}
  OBVIOUS
<1>4. PICK m \in S : \A k \in S : ~ (<<k, m>> \in Smaller)
  <2> HIDE DEF S
  <2>1. QED
    BY <1>2, <1>3, WFMin
<1>5. \A k \in S : ~(k < m)
  BY <1>4 DEF Smaller
<1>6. m \in B
  <2>1. ASSUME m \notin B PROVE FALSE
    <3>1. \A b \in B : b < m
      BY <1>4, <2>1
    <3> PICK b \in B : b \in Nat
      OBVIOUS
    <3>2. m # 0 /\ m - 1 \in Nat
      BY <1>4, <3>1
    <3>3. m - 1 \in S
      BY <3>1, <3>2
    <3>4. QED
      BY <1>5, <3>2, <3>3
  <2>2. QED
    BY <2>1
<1>7. m \in B /\ \A b \in B : m >= b
  BY <1>4, <1>6
<1>8. QED
  BY <1>7 DEF Max

(* The part of the types that is not in Shape.                             *)
RowTypes ==
    /\ submitted \subseteq known /\ deleted \subseteq known /\ known \subseteq Delivery
    /\ seen \in [Job -> SUBSET Delivery]

FileTypes ==
    /\ file \subseteq known \union {d \in Delivery : upload[d] \in {"register", "lost"}}
    /\ upload \in [Delivery -> {"none", "merge", "register", "lost"}]
    /\ \A d \in known : upload[d] = "none"
    /\ met \in [Delivery -> SUBSET Delivery] /\ astray \subseteq Delivery

JobTypes ==
    /\ \A j \in Job : of[j] = Nobody <=> status[j] = "absent"
    /\ birth \in [Job -> Nat]
    /\ RankInv

RequestTypes ==
    \A r \in Request :
        IF pc[r] = "idle" THEN req[r] = Nobody ELSE req[r].id \in known

LEMMA RowsAreFinite == IsFiniteSet(Rows) /\ Cardinality(Rows) \in Nat /\ Cardinality(Rows) <= Cardinality(Job)
BY FiniteAssumption, FS_Subset, FS_CardinalityType DEF Rows

(* A new job is ranked above all others, and there is one more of them.    *)
LEMMA InsertRanks ==
    ASSUME Shape, JobTypes, NEW j \in Job, status[j] = "absent",
           status' = [status EXCEPT ![j] = "waiting"],
           birth' = [birth EXCEPT ![j] = Max({birth[k] : k \in Job}) + 1]
    PROVE  birth' \in [Job -> Nat] /\ RankInv'
<1> DEFINE B == {birth[k] : k \in Job}
           N == Cardinality(Rows)
<1>1. N \in Nat /\ IsFiniteSet(Rows)
  BY RowsAreFinite
<1>2. B # {} /\ B \subseteq Nat /\ \A b \in B : b <= N
  BY DEF JobTypes, RankInv
<1>3. Max(B) \in B
  <2> HIDE DEF B, N
  <2>1. QED
    BY <1>1, <1>2, HasGreatest
<1>4. Max(B) \in Nat /\ Max(B) <= N
  BY <1>2, <1>3
<1>5. Rows' = Rows \union {j} /\ j \notin Rows
  BY DEF Rows, Shape
<1>6. Cardinality(Rows') = N + 1
  BY <1>1, <1>5, FS_AddElement
<1>7. birth' = [birth EXCEPT ![j] = Max(B) + 1]
  OBVIOUS
<1>8. \A k \in Job : birth[k] \in Nat /\ birth[k] <= N
  BY DEF JobTypes, RankInv
<1> HIDE DEF B, N
<1>9. birth' \in [Job -> Nat]
  BY <1>4, <1>7 DEF JobTypes
<1>10. ASSUME NEW k \in Job PROVE birth'[k] <= N + 1
  <2>1. CASE k = j
    BY <1>1, <1>4, <1>7, <2>1 DEF JobTypes
  <2>2. CASE k # j
    BY <1>1, <1>7, <1>8, <2>2 DEF JobTypes
  <2>3. QED
    BY <2>1, <2>2
<1>11. QED
  BY <1>6, <1>9, <1>10 DEF RankInv

(* The rows, the jobs, the archive and the requests keep their types.       *)
THEOREM DeliveryTypeInvariant == Spec => []TypeOK
<1> DEFINE Types == RowTypes /\ FileTypes /\ JobTypes /\ RequestTypes
<1>1. Init => Types
  <2> SUFFICES ASSUME Init PROVE Types
    OBVIOUS
  <2>1. RankInv
    BY RowsAreFinite DEF Init, RankInv
  <2>2. QED
    BY <2>1 DEF Init, RowTypes, FileTypes, JobTypes, RequestTypes
<1>2. ArchiveInv /\ Types /\ [Next]_vars => Types'
  <2> SUFFICES ASSUME ArchiveInv, Types, [Next]_vars PROVE Types'
    OBVIOUS
  <2>0. Shape /\ RowTypes /\ FileTypes /\ JobTypes /\ RequestTypes
    BY DEF ArchiveInv
  <2>1. ASSUME UNCHANGED jobVars PROVE JobTypes' /\ seen' = seen
    <3>1. UNCHANGED <<status, of, birth, seen>>
      BY <2>1 DEF jobVars
    <3>2. Rows' = Rows
      BY <3>1 DEF Rows
    <3>3. QED
      BY <2>0, <3>1, <3>2 DEF JobTypes, RankInv
  <2>2. ASSUME UNCHANGED requestVars, known \subseteq known' PROVE RequestTypes'
    BY <2>0, <2>2 DEF RequestTypes, requestVars
  <2>3. ASSUME NEW r \in Request, NEW from, NEW to, NEW q, Goes(r, from, to, q), from # "idle",
               known' = known, q.id = req[r].id
        PROVE  RequestTypes' /\ req[r].id \in known
    BY <2>0, <2>3 DEF RequestTypes, Goes, Shape
  <2>17. ASSUME known' = known, file' \subseteq file, UNCHANGED <<upload, met>>, astray' \subseteq Delivery
         PROVE  FileTypes'
    BY <2>0, <2>17 DEF FileTypes
  <2>18. ASSUME known' = known, UNCHANGED fileVars PROVE FileTypes'
    BY <2>0, <2>17, <2>18 DEF FileTypes, fileVars
  <2>4. ASSUME UNCHANGED <<rowVars, jobVars>> PROVE RowTypes' /\ JobTypes'
    BY <2>0, <2>1, <2>4 DEF RowTypes, rowVars
  <2>5. CASE UNCHANGED vars
    BY <2>2, <2>4, <2>5, <2>18 DEF vars, rowVars
  <2>6. ASSUME NEW d \in Delivery, UploadStep(d) \/ Register(d) PROVE Types'
    <3>1. /\ UNCHANGED <<submitted, deleted, astray, jobVars, requestVars>>
          /\ known' = known \/ known' = known \union {d}
      BY <2>6 DEF UploadStep, BeginUpload, AppendUpload, RegisterUpload, Register, rowVars, fileVars
    <3>2. RowTypes' /\ JobTypes' /\ RequestTypes'
      BY <2>0, <2>1, <2>2, <3>1 DEF RowTypes
    <3>3. ASSUME NEW u \in {"none", "merge", "register", "lost"}, upload' = [upload EXCEPT ![d] = u]
          PROVE  /\ upload' \in [Delivery -> {"none", "merge", "register", "lost"}]
                 /\ upload'[d] = u /\ \A e \in Delivery : e # d => upload'[e] = upload[e]
      BY <2>0, <3>3 DEF FileTypes
    <3>4. CASE BeginUpload(d)
      <4>1. /\ d \notin known /\ upload[d] = "none" /\ upload' = [upload EXCEPT ![d] = "merge"]
            /\ UNCHANGED <<known, file>>
            /\ met' = [met EXCEPT ![d] = {e \in Delivery : upload[e] # "none"}]
        BY <3>4 DEF BeginUpload, rowVars
      <4> QED
        BY <2>0, <3>1, <3>2, <3>3, <4>1 DEF FileTypes, RowTypes
    <3>5. CASE AppendUpload(d)
      <4>1. /\ upload[d] = "merge" /\ upload' = [upload EXCEPT ![d] = "register"]
            /\ UNCHANGED <<known, met>> /\ file' = file \union {d}
        BY <3>5 DEF AppendUpload, Appended, rowVars
      <4> QED
        BY <2>0, <3>1, <3>2, <3>3, <4>1 DEF FileTypes, RowTypes
    <3>6. CASE RegisterUpload(d)
      <4>1. /\ upload[d] = "register" /\ UNCHANGED <<file, met>>
            /\ \/ known' = known \union {d} /\ upload' = [upload EXCEPT ![d] = "none"]
               \/ known' = known /\ upload' = [upload EXCEPT ![d] = "lost"]
        BY <3>6 DEF RegisterUpload
      <4> QED
        BY <2>0, <3>1, <3>2, <3>3, <4>1 DEF FileTypes, RowTypes
    <3>7. CASE Register(d)
      <4>1. upload[d] = "none" /\ UNCHANGED <<file, upload, met>> /\ known' = known \union {d}
        BY <3>7 DEF Register, fileVars
      <4> QED
        BY <2>0, <3>1, <3>2, <4>1 DEF FileTypes, RowTypes
    <3> QED
      BY <2>6, <3>4, <3>5, <3>6, <3>7 DEF UploadStep
  <2>7. ASSUME NEW j \in Job, Claim(j) \/ Finish(j) PROVE Types'
    <3>1. /\ UNCHANGED <<known, submitted, deleted, fileVars, of, birth, requestVars>>
          /\ status[j] # "absent" /\ \E s \in {"running", "ok", "failed"} : status' = [status EXCEPT ![j] = s]
      BY <2>7 DEF Claim, Finish, rowVars
    <3>2. Rows' = Rows /\ \A k \in Job : status'[k] = "absent" <=> status[k] = "absent"
      BY <2>0, <3>1 DEF Rows, Shape
    <3>3. JobTypes'
      BY <2>0, <3>1, <3>2 DEF JobTypes, RankInv
    <3>4. RowTypes'
      BY <2>0, <2>7, <3>1 DEF RowTypes, Claim, Finish, FileTypes, Shape
    <3>5. QED
      BY <2>2, <2>18, <3>1, <3>3, <3>4
  <2>8. CASE NextDay
    BY <2>2, <2>4, <2>8, <2>18 DEF NextDay, rowVars
  <2>19. CASE Restart
    <3>1. /\ UNCHANGED <<rowVars, file, met, astray, jobVars>>
          /\ upload' = [d \in Delivery |-> IF upload[d] = "none" THEN "none" ELSE "lost"]
          /\ pc' = [r \in Request |-> "idle"] /\ req' = [r \in Request |-> Nobody]
      BY <2>19 DEF Restart
    <3>2. RequestTypes'
      BY <3>1 DEF RequestTypes
    <3>3. FileTypes'
      BY <2>0, <3>1 DEF FileTypes, RowTypes, rowVars
    <3> QED
      BY <2>4, <3>1, <3>2, <3>3
  <2>9. ASSUME NEW r \in Request, NEW kind \in Kind, NEW by \in Visitor, NEW d \in Delivery,
               Begin(r, kind, by, d)
        PROVE  Types'
    <3>1. RequestTypes'
      <4>1. req'[r].id = d /\ d \in known /\ FirstStep(kind) # "idle"
        BY <2>0, <2>9 DEF Begin, FirstStep, Shape
      <4>2. QED
        BY <2>0, <2>9, <4>1 DEF Begin, RequestTypes, Shape, rowVars
    <3>2. QED
      BY <2>4, <2>9, <2>18, <3>1 DEF Begin, rowVars
  <2>10. ASSUME NEW r \in Request, InsertJob(r) PROVE Types'
    <3>1. Goes(r, "insert", "save", req[r]) /\ UNCHANGED <<known, submitted, deleted, fileVars, seen>>
      BY <2>10 DEF InsertJob, rowVars
    <3>2. RequestTypes' /\ req[r].id \in known
      BY <2>3, <3>1
    <3>3. PICK j \in Job : /\ status[j] = "absent"
                           /\ status' = [status EXCEPT ![j] = "waiting"]
                           /\ of' = [of EXCEPT ![j] = req[r].id]
                           /\ birth' = [birth EXCEPT ![j] = Max({birth[k] : k \in Job}) + 1]
      BY <2>10 DEF InsertJob
    <3>4. birth' \in [Job -> Nat] /\ RankInv'
      BY <2>0, <3>3, InsertRanks
    <3>5. \A k \in Job : of'[k] = Nobody <=> status'[k] = "absent"
      BY <2>0, <3>2, <3>3, NobodyAssumption DEF Shape, RowTypes, JobTypes
    <3>6. RowTypes'
      BY <2>0, <3>1 DEF RowTypes
    <3>7. QED
      BY <2>18, <3>1, <3>2, <3>4, <3>5, <3>6 DEF JobTypes
  <2>11. ASSUME NEW r \in Request, NEW from, NEW to, NEW q, Goes(r, from, to, q), from # "idle",
                q.id = req[r].id, UNCHANGED <<rowVars, fileVars, jobVars>>
         PROVE  Types'
    BY <2>3, <2>4, <2>11, <2>18 DEF rowVars
  <2>12. ASSUME NEW r \in Request, NEW from, NEW q, from # "idle", Goes(r, from, "idle", req[r]) \/ Goes(r, from, "save", q),
                q.id = req[r].id, SaveRow(q), UNCHANGED <<fileVars, jobVars>>
         PROVE  Types'
    <3>1. RequestTypes' /\ req[r].id \in known
      BY <2>3, <2>12 DEF SaveRow
    <3>2. JobTypes' /\ seen' = seen
      BY <2>1, <2>12
    <3>3. RowTypes'
      BY <2>0, <2>12, <3>1, <3>2 DEF RowTypes, SaveRow, With
    <3>4. FileTypes'
      BY <2>12, <2>18 DEF SaveRow
    <3>5. QED
      BY <3>1, <3>2, <3>3, <3>4
  <2>13. ASSUME NEW r \in Request, pc[r] # "idle" PROVE req[r] \in Copy
    BY <2>0, <2>13 DEF Shape
  <2>14. ASSUME NEW r \in Request, DeleteStep(r) PROVE Types'
    <3>1. CASE CountFirst(r) \/ CountSecond(r)
      BY <2>11, <3>1 DEF CountFirst, CountSecond
    <3>2. CASE GetAgain(r)
      <4>1. FreshRow(req[r]).id = req[r].id
        BY <2>13, <3>2 DEF GetAgain, Goes, FreshRow, Copy
      <4>2. QED
        BY <2>11, <3>2, <4>1 DEF GetAgain
    <3>3. CASE UnlinkFile(r)
      <4>1. [req[r] EXCEPT !.deleted = TRUE].id = req[r].id
        BY <2>13, <3>3 DEF UnlinkFile, Goes, Copy
      <4>2. /\ Goes(r, "unlink", "save", [req[r] EXCEPT !.deleted = TRUE])
            /\ UNCHANGED <<rowVars, upload, met, jobVars>>
            /\ file' = Unlinked(req[r]) /\ (astray' = astray \/ astray' = astray \union {req[r].id})
        BY <3>3 DEF UnlinkFile
      <4>3. RequestTypes' /\ req[r].id \in known
        BY <2>3, <4>1, <4>2 DEF rowVars
      <4>4. FileTypes'
        BY <2>0, <2>17, <4>2, <4>3 DEF Unlinked, RowTypes, FileTypes, rowVars
      <4>5. QED
        BY <2>4, <4>2, <4>3, <4>4
    <3>4. QED
      BY <2>14, <3>1, <3>2, <3>3 DEF DeleteStep
  <2>15. ASSUME NEW r \in Request, SubmitStep(r) \/ Save(r) PROVE Types'
    <3>1. CASE FindJob(r)
      <4>1. PICK j : Goes(r, "find", AfterFind(j), [req[r] EXCEPT !.job = j, !.day = day])
        BY <3>1 DEF FindJob
      <4>2. [req[r] EXCEPT !.job = j, !.day = day].id = req[r].id
        BY <2>13, <3>1 DEF FindJob, Copy
      <4>3. QED
        BY <2>11, <3>1, <4>1, <4>2 DEF FindJob
    <3>2. ASSUME NEW from, from # "idle", Raises(r, from) PROVE Types'
      BY <2>11, <3>2 DEF Raises
    <3>3. ASSUME NEW from, NEW to, NEW state, from # "idle", Archives(r, from, to, state) PROVE Types'
      BY <2>11, <3>3 DEF Archives
    <3>4. CASE MakeDirectory(r) \/ CopyOutputs(r) \/ CopyInput(r) \/ PutStamp(r)
      BY <3>2, <3>3, <3>4 DEF MakeDirectory, CopyOutputs, CopyInput, PutStamp
    <3>5. CASE Submit(r)
      <4>1. [req[r] EXCEPT !.submitted = TRUE].id = req[r].id
        BY <2>13, <3>5 DEF Submit, Goes, Copy
      <4>2. QED
        BY <2>12, <3>5, <4>1 DEF Submit
    <3>6. CASE ResetSubmitted(r)
      <4>1. [req[r] EXCEPT !.submitted = FALSE].id = req[r].id
        BY <2>13, <3>6 DEF ResetSubmitted, Goes, Copy
      <4>2. QED
        BY <2>12, <3>6, <4>1 DEF ResetSubmitted
    <3>7. CASE Save(r)
      BY <2>12, <3>7 DEF Save
    <3>8. QED
      BY <2>15, <3>1, <3>4, <3>5, <3>6, <3>7 DEF SubmitStep
  <2>16. QED
    BY <2>5, <2>6, <2>7, <2>8, <2>9, <2>10, <2>14, <2>15, <2>19 DEF Next
<1>3. ArchiveInv /\ Types => TypeOK
  <2> SUFFICES ASSUME ArchiveInv, Types PROVE TypeOK
    OBVIOUS
  <2>1. birth \in [Job -> 0..Cardinality(Job)]
    <3>1. \A j \in Job : birth[j] \in 0..Cardinality(Job)
      BY RowsAreFinite, FiniteAssumption, FS_CardinalityType DEF JobTypes, RankInv
    <3>2. QED
      BY <3>1 DEF JobTypes
  <2>2. ASSUME NEW r \in Request
        PROVE  IF pc[r] = "idle" THEN req[r] = Nobody
               ELSE /\ req[r] \in Copy
                    /\ req[r].id \in known
                    /\ pc[r] \in {"mkdir", "copy", "input", "stamp"} => req[r].job \in Job
    BY DEF ArchiveInv, Shape, Stage, RequestTypes
  <2>3. QED
    BY <2>1, <2>2 DEF ArchiveInv, Shape, Pcs, RowTypes, FileTypes, JobTypes, TypeOK
<1>4. QED
  <2> HIDE DEF Types
  <2>1. QED
    BY ArchiveInvariant, <1>1, <1>2, <1>3, PTL DEF Spec

-----------------------------------------------------------------------------
(* What the steps of a request do to the row, the file and the jobs.        *)
Deleting == {"count1", "count2", "get", "unlink"}

Moves(r) ==
    /\ pc[r] # "idle" /\ req[r] \in Copy
    /\ known' = known
    /\ \A s \in Request \ {r} : pc'[s] = pc[s] /\ req'[s] = req[s]
    /\ pc'[r] # "idle" => /\ req'[r] \in Copy
                          /\ req'[r].id = req[r].id /\ req'[r].by = req[r].by /\ req'[r].kind = req[r].kind
                          /\ \/ req'[r].deleted = req[r].deleted
                             \/ pc[r] = "get" /\ req'[r].deleted = (req[r].id \in deleted)
                             \/ pc[r] = "unlink" /\ pc'[r] = "save" /\ req'[r].deleted = TRUE
    /\ \/ deleted' = deleted
       \/ deleted' = With(deleted, req[r].id, req[r].deleted) /\ pc'[r] \in {"idle", "save"}
    /\ UNCHANGED <<upload, met>>
    /\ \/ pc[r] # "unlink" /\ UNCHANGED <<file, astray>>
       \/ pc[r] = "unlink" /\ file' = {} /\ astray' = astray
       \/ pc[r] = "unlink" /\ file' = file /\ astray' = astray \union {req[r].id}
    /\ pc'[r] # "count1"
    /\ pc'[r] = "count2" => pc[r] = "count1" /\ JobsOf(req[r].id, {"waiting"}) = {}
    /\ pc'[r] = "get" => pc[r] = "count2" /\ JobsOf(req[r].id, {"running"}) = {}
    /\ pc'[r] = "unlink" <=> pc[r] = "get"
    /\ pc[r] = "save" => pc'[r] = "idle"
    /\ UNCHANGED <<status, of>> \/ (pc[r] = "insert" /\ pc'[r] = "save" /\ deleted' = deleted)

LEMMA RequestMoves ==
    ASSUME ArchiveInv, NEW r \in Request, InsertJob(r) \/ DeleteStep(r) \/ SubmitStep(r) \/ Save(r)
    PROVE  Moves(r)
<1>1. Shape
  BY DEF ArchiveInv
<1>2. ASSUME NEW from, NEW to, NEW q, Goes(r, from, to, q), from # "idle"
      PROVE  /\ pc[r] = from /\ pc'[r] = to /\ req[r] \in Copy
             /\ \A s \in Request \ {r} : pc'[s] = pc[s] /\ req'[s] = req[s]
             /\ to # "idle" => req'[r] = q
  BY <1>1, <1>2 DEF Goes, Shape
<1>3. ASSUME NEW q \in Copy, NEW b \in BOOLEAN
      PROVE  /\ [q EXCEPT !.deleted = b] \in Copy
             /\ [q EXCEPT !.deleted = b].id = q.id /\ [q EXCEPT !.deleted = b].by = q.by
             /\ [q EXCEPT !.deleted = b].kind = q.kind /\ [q EXCEPT !.deleted = b].deleted = b
  BY DEF Copy
<1>4. ASSUME NEW q \in Copy, NEW b \in BOOLEAN
      PROVE  /\ [q EXCEPT !.submitted = b] \in Copy
             /\ [q EXCEPT !.submitted = b].id = q.id /\ [q EXCEPT !.submitted = b].by = q.by
             /\ [q EXCEPT !.submitted = b].kind = q.kind /\ [q EXCEPT !.submitted = b].deleted = q.deleted
  BY DEF Copy
<1>5. CASE InsertJob(r)
  <2>1. Goes(r, "insert", "save", req[r]) /\ UNCHANGED <<known, deleted, fileVars>>
    BY <1>5 DEF InsertJob, rowVars
  <2> QED
    BY <1>2, <2>1 DEF Moves, fileVars
<1>6. CASE CountFirst(r)
  <2>1. /\ Goes(r, "count1", IF None(req[r].id, 1) THEN "count2" ELSE "idle", req[r])
        /\ UNCHANGED <<known, deleted, fileVars, status, of>>
    BY <1>6 DEF CountFirst, rowVars, jobVars
  <2>2. None(req[r].id, 1) <=> JobsOf(req[r].id, {"waiting"}) = {}
    BY DEF None, CountOrder
  <2> QED
    BY <1>2, <2>1, <2>2 DEF Moves, fileVars
<1>7. CASE CountSecond(r)
  <2>1. /\ Goes(r, "count2", IF None(req[r].id, 2) THEN "get" ELSE "idle", req[r])
        /\ UNCHANGED <<known, deleted, fileVars, status, of>>
    BY <1>7 DEF CountSecond, rowVars, jobVars
  <2>2. None(req[r].id, 2) <=> JobsOf(req[r].id, {"running"}) = {}
    BY DEF None, CountOrder
  <2> QED
    BY <1>2, <2>1, <2>2 DEF Moves, fileVars
<1>8. CASE GetAgain(r)
  <2>1. Goes(r, "get", "unlink", FreshRow(req[r])) /\ UNCHANGED <<known, deleted, fileVars, status, of>>
    BY <1>8 DEF GetAgain, rowVars, jobVars
  <2> DEFINE b == req[r].id \in submitted
             d == req[r].id \in deleted
             q == [req[r] EXCEPT !.submitted = b]
  <2>2. req[r] \in Copy /\ b \in BOOLEAN /\ d \in BOOLEAN
    BY <1>2, <2>1
  <2>3. FreshRow(req[r]) = [q EXCEPT !.deleted = d]
    <3>1. \A x, y \in BOOLEAN : [req[r] EXCEPT !.submitted = x, !.deleted = y] = [[req[r] EXCEPT !.submitted = x] EXCEPT !.deleted = y]
      BY <2>2 DEF Copy
    <3>2. FreshRow(req[r]) = [req[r] EXCEPT !.submitted = b, !.deleted = d]
      BY Zenon DEF FreshRow
    <3> HIDE DEF b, d
    <3> QED
      BY <2>2, <3>1, <3>2
  <2> HIDE DEF b, q
  <2>4. q \in Copy /\ q.id = req[r].id /\ q.by = req[r].by /\ q.kind = req[r].kind
    BY <1>4, <2>2 DEF q
  <2> HIDE DEF d
  <2>5. /\ FreshRow(req[r]) \in Copy
        /\ FreshRow(req[r]).id = req[r].id /\ FreshRow(req[r]).by = req[r].by
        /\ FreshRow(req[r]).kind = req[r].kind /\ FreshRow(req[r]).deleted = d
    BY <1>3, <2>2, <2>3, <2>4
  <2> QED
    BY <1>2, <2>1, <2>5 DEF Moves, fileVars, d
<1>9. CASE UnlinkFile(r)
  <2> DEFINE q == [req[r] EXCEPT !.deleted = TRUE]
  <2>1. /\ Goes(r, "unlink", "save", q)
        /\ UNCHANGED <<upload, met, known, deleted, status, of>>
        /\ \/ file' = {} /\ astray' = astray
           \/ file' = file /\ astray' = astray \union {req[r].id}
    BY <1>9 DEF UnlinkFile, Unlinked, rowVars, jobVars
  <2>2. req[r] \in Copy
    BY <1>2, <2>1
  <2>3. q \in Copy /\ q.id = req[r].id /\ q.by = req[r].by /\ q.kind = req[r].kind /\ q.deleted = TRUE
    BY <1>3, <2>2
  <2> HIDE DEF q
  <2> QED
    BY <1>2, <2>1, <2>3 DEF Moves, fileVars
<1>10. CASE FindJob(r)
  <2>1. PICK j \in Job \union {Nobody} : Goes(r, "find", AfterFind(j), [req[r] EXCEPT !.job = j, !.day = day])
    BY <1>10 DEF FindJob, SubmittableJobs, JobsOf
  <2>2. UNCHANGED <<known, deleted, fileVars, status, of>> /\ AfterFind(j) \in {"idle", "mkdir"}
    BY <1>10 DEF FindJob, rowVars, jobVars, AfterFind
  <2>3. req[r] \in Copy /\ day \in Day
    BY <1>1, <1>2, <2>1 DEF Shape
  <2> DEFINE q == [req[r] EXCEPT !.job = j, !.day = day]
  <2>4. q \in Copy /\ q.id = req[r].id /\ q.by = req[r].by /\ q.kind = req[r].kind /\ q.deleted = req[r].deleted
    BY <2>3 DEF Copy
  <2> HIDE DEF q
  <2>5. Goes(r, "find", AfterFind(j), q)
    BY <2>1 DEF q
  <2> QED
    BY <1>2, <2>2, <2>4, <2>5 DEF Moves, fileVars
<1>11. ASSUME NEW from, from # "idle", from \notin {"get", "save", "unlink"}, Raises(r, from) PROVE Moves(r)
  <2>1. Goes(r, from, AfterException(req[r]), req[r]) /\ UNCHANGED <<known, deleted, fileVars, status, of>>
    BY <1>11 DEF Raises, rowVars, jobVars
  <2>2. AfterException(req[r]) \in {"idle", "reset"}
    BY DEF AfterException
  <2> QED
    BY <1>2, <1>11, <2>1, <2>2 DEF Moves, fileVars
<1>12. ASSUME NEW from, from # "idle", from \notin {"get", "save", "unlink"}, NEW to \in {"copy", "input", "stamp", "submit"}, NEW state,
              Archives(r, from, to, state)
       PROVE  Moves(r)
  <2>1. Goes(r, from, to, req[r]) /\ UNCHANGED <<known, deleted, fileVars, status, of>>
    BY <1>12 DEF Archives, rowVars, jobVars
  <2> QED
    BY <1>2, <1>12, <2>1 DEF Moves, fileVars
<1>13. CASE MakeDirectory(r) \/ CopyOutputs(r) \/ CopyInput(r) \/ PutStamp(r)
  BY <1>11, <1>12, <1>13 DEF MakeDirectory, CopyOutputs, CopyInput, PutStamp
<1>14. CASE Submit(r)
  <2> DEFINE q == [req[r] EXCEPT !.submitted = TRUE]
  <2>1. Goes(r, "submit", "save", q) /\ SaveRow(q) /\ UNCHANGED <<fileVars, status, of>>
    BY <1>14 DEF Submit, jobVars
  <2>2. req[r] \in Copy
    BY <1>2, <2>1
  <2>3. q \in Copy /\ q.id = req[r].id /\ q.by = req[r].by /\ q.kind = req[r].kind /\ q.deleted = req[r].deleted
    BY <1>4, <2>2
  <2> HIDE DEF q
  <2>4. known' = known /\ deleted' = With(deleted, req[r].id, req[r].deleted)
    BY <2>1, <2>3 DEF SaveRow
  <2> QED
    BY <1>2, <2>1, <2>3, <2>4 DEF Moves, fileVars
<1>15. CASE ResetSubmitted(r)
  <2> DEFINE q == [req[r] EXCEPT !.submitted = FALSE]
  <2>1. Goes(r, "reset", "idle", req[r]) /\ SaveRow(q) /\ UNCHANGED <<fileVars, status, of>>
    BY <1>15 DEF ResetSubmitted, jobVars
  <2>2. req[r] \in Copy
    BY <1>2, <2>1
  <2>3. q.id = req[r].id /\ q.deleted = req[r].deleted
    BY <1>4, <2>2
  <2> HIDE DEF q
  <2>4. known' = known /\ deleted' = With(deleted, req[r].id, req[r].deleted)
    BY <2>1, <2>3 DEF SaveRow
  <2> QED
    BY <1>2, <2>1, <2>3, <2>4 DEF Moves, fileVars
<1>16. CASE Save(r)
  <2>1. Goes(r, "save", "idle", req[r]) /\ SaveRow(req[r]) /\ UNCHANGED <<fileVars, status, of>>
    BY <1>16 DEF Save, jobVars
  <2> QED
    BY <1>2, <2>1 DEF Moves, fileVars, SaveRow
<1> QED
  BY <1>5, <1>6, <1>7, <1>8, <1>9, <1>10, <1>13, <1>14, <1>15, <1>16 DEF DeleteStep, SubmitStep

(* A request begins with a copy of the row as it is.                        *)
LEMMA RequestBegins ==
    ASSUME ArchiveInv, NEW r \in Request, NEW kind \in Kind, NEW by \in Visitor, NEW d \in Delivery,
           Begin(r, kind, by, d)
    PROVE  /\ pc[r] = "idle" /\ pc'[r] = FirstStep(kind) /\ req'[r] \in Copy
           /\ req'[r].id = d /\ req'[r].by = by /\ req'[r].kind = kind /\ req'[r].deleted = (d \in deleted)
           /\ \A s \in Request \ {r} : pc'[s] = pc[s] /\ req'[s] = req[s]
           /\ by = Anonymous <=> kind = "api"
           /\ UNCHANGED <<known, deleted, fileVars, status, of>>
<1>1. Shape /\ pc[r] = "idle"
  BY DEF ArchiveInv, Begin
<1> DEFINE b == d \in submitted
           c == d \in deleted
           q == [kind |-> kind, by |-> by, id |-> d, job |-> Nobody, day |-> day, submitted |-> b, deleted |-> c]
<1>2. req' = [req EXCEPT ![r] = q] /\ pc' = [pc EXCEPT ![r] = FirstStep(kind)]
  BY DEF Begin
<1>3. b \in BOOLEAN /\ c \in BOOLEAN /\ day \in Day
  BY <1>1 DEF Shape
<1>4. q.deleted = c
  OBVIOUS
<1> HIDE DEF b, c
<1>5. q \in Copy /\ q.id = d /\ q.by = by /\ q.kind = kind
  BY <1>3 DEF Copy
<1> HIDE DEF q
<1>6. req'[r] = q /\ pc'[r] = FirstStep(kind) /\ \A s \in Request \ {r} : pc'[s] = pc[s] /\ req'[s] = req[s]
  BY <1>1, <1>2 DEF Shape
<1>7. (by = Anonymous <=> kind = "api") /\ UNCHANGED <<known, deleted, fileVars, status, of>>
  BY DEF Begin, rowVars, jobVars
<1> QED
  BY <1>1, <1>4, <1>5, <1>6, <1>7 DEF c

-----------------------------------------------------------------------------
(* The file.                                                                *)

(* A delivery that was deleted once, in the row or in a copy of it, has no   *)
(* upload in the file unless it is astray.  An upload that is to be appended *)
(* counts as in the file: it has met the others, or they are astray.         *)
Gone(d) == d \notin file \/ d \in astray

Pending == file \union {d \in Delivery : upload[d] = "merge"}

FileInv ==
    /\ \A d \in deleted : Gone(d)
    /\ \A d, e \in Pending : d = e \/ Met(d, e) \/ {d, e} \intersect astray # {}
    /\ \A r \in Request : pc[r] # "idle" /\ req[r].deleted => Gone(req[r].id)

(* Once gone, a delivery stays so.                                          *)
LEMMA GoneStays ==
    ASSUME NEW d, Gone(d), d \in file' => d \in file, astray \subseteq astray'
    PROVE  Gone(d)'
BY DEF Gone

(* What is in the file or to be appended to it has met the others still.     *)
LEMMA PendingStays ==
    ASSUME FileInv, Pending' \subseteq Pending, astray \subseteq astray', met' = met
    PROVE  \A d, e \in Pending' : d = e \/ Met(d, e)' \/ {d, e} \intersect astray' # {}
BY DEF FileInv, Met

LEMMA FileHolds == Spec => []FileInv
<1>1. Init => FileInv
  BY DEF Init, FileInv, Pending
<1>2. ArchiveInv /\ TypeOK /\ FileInv /\ [Next]_vars => FileInv'
  <2> SUFFICES ASSUME ArchiveInv, TypeOK, FileInv, [Next]_vars PROVE FileInv'
    OBVIOUS
  <2>1. /\ deleted \subseteq known /\ file \subseteq Delivery
        /\ file \subseteq known \union {d \in Delivery : upload[d] \in {"register", "lost"}}
        /\ upload \in [Delivery -> {"none", "merge", "register", "lost"}]
        /\ \A d \in known : upload[d] = "none"
        /\ met \in [Delivery -> SUBSET Delivery]
        /\ \A r \in Request : pc[r] # "idle" => req[r].id \in known
    BY DEF TypeOK
  <2>2. ASSUME UNCHANGED <<deleted, pc, req, file, upload, met, astray>> PROVE FileInv'
    BY <2>2 DEF FileInv, Gone, Pending, Met
  <2>3. ASSUME NEW d \in Delivery, BeginUpload(d) PROVE FileInv'
    <3>1. /\ d \notin known /\ known \subseteq deleted /\ upload[d] = "none"
          /\ upload' = [upload EXCEPT ![d] = "merge"]
          /\ met' = [met EXCEPT ![d] = {e \in Delivery : upload[e] # "none"}]
          /\ UNCHANGED <<deleted, file, astray, pc, req>>
      BY <2>3 DEF BeginUpload, NoConflict, rowVars, requestVars
    <3>2. Pending' = Pending \union {d} /\ d \notin Pending
      BY <2>1, <3>1 DEF Pending
    <3>3. ASSUME NEW e \in Pending PROVE Met(d, e)' \/ e \in astray
      <4>1. CASE upload[e] # "none"
        <5>1. e \in Delivery
          BY <2>1 DEF Pending
        <5> QED
          BY <2>1, <3>1, <4>1, <5>1 DEF Met
      <4>2. CASE upload[e] = "none"
        <5>1. e \in file /\ e \in deleted
          BY <2>1, <3>1, <4>2 DEF Pending
        <5> QED
          BY <5>1 DEF FileInv, Gone
      <4> QED
        BY <4>1, <4>2
    <3>4. ASSUME NEW e \in Pending, NEW f \in Pending PROVE Met(e, f)' <=> Met(e, f)
      <4>1. e # d /\ f # d /\ e \in Delivery /\ f \in Delivery
        BY <2>1, <3>2 DEF Pending
      <4> QED
        BY <2>1, <3>1, <4>1 DEF Met
    <3>5. ASSUME NEW e \in Pending', NEW f \in Pending'
          PROVE  e = f \/ Met(e, f)' \/ {e, f} \intersect astray' # {}
      <4>1. CASE e = d \/ f = d
        BY <3>1, <3>2, <3>3, <4>1 DEF Met
      <4>2. CASE e # d /\ f # d
        BY <3>1, <3>2, <3>4, <4>2 DEF FileInv
      <4> QED
        BY <4>1, <4>2
    <3> QED
      BY <3>1, <3>5 DEF FileInv, Gone
  <2>4. ASSUME NEW d \in Delivery, AppendUpload(d) PROVE FileInv'
    <3>1. /\ upload[d] = "merge" /\ file' = file \union {d} /\ upload' = [upload EXCEPT ![d] = "register"]
          /\ UNCHANGED <<deleted, met, astray, pc, req>> /\ d \notin known
      BY <2>1, <2>4 DEF AppendUpload, Appended, rowVars, requestVars
    <3>2. Pending' \subseteq Pending
      BY <2>1, <3>1 DEF Pending
    <3>3. \A e \in known : Gone(e) => Gone(e)'
      BY <3>1, GoneStays
    <3> QED
      BY <2>1, <3>1, <3>2, <3>3, PendingStays DEF FileInv
  <2>5. ASSUME Restart \/ \E d \in Delivery : RegisterUpload(d) PROVE FileInv'
    <3>1. /\ UNCHANGED <<deleted, file, met, astray>>
          /\ \A e \in Delivery : upload'[e] = "merge" => upload[e] = "merge"
          /\ \A r \in Request : pc'[r] = "idle" \/ (pc'[r] = pc[r] /\ req'[r] = req[r])
      BY <2>1, <2>5 DEF RegisterUpload, Restart, rowVars, requestVars
    <3>2. Pending' \subseteq Pending
      BY <3>1 DEF Pending
    <3> QED
      BY <3>1, <3>2, PendingStays DEF FileInv, Gone
  <2>6. ASSUME \/ NextDay \/ UNCHANGED vars
               \/ \E d \in Delivery : Register(d)
               \/ \E j \in Job : Claim(j) \/ Finish(j)
        PROVE FileInv'
    BY <2>2, <2>6 DEF NextDay, vars, Register, Claim, Finish, rowVars, fileVars, requestVars
  <2>7. ASSUME NEW r \in Request, NEW kind \in Kind, NEW by \in Visitor, NEW d \in Delivery,
               Begin(r, kind, by, d)
        PROVE  FileInv'
    <3>1. req'[r].id = d
      BY <2>7, RequestBegins
    <3>4. req'[r].deleted = (d \in deleted)
      BY <2>7, RequestBegins
    <3>2. UNCHANGED <<deleted, fileVars>> /\ \A s \in Request \ {r} : pc'[s] = pc[s] /\ req'[s] = req[s]
      BY <2>7, RequestBegins
    <3>3. ASSUME NEW s \in Request, pc'[s] # "idle", req'[s].deleted PROVE Gone(req'[s].id)
      <4>1. CASE s # r
        BY <3>2, <3>3, <4>1 DEF FileInv
      <4>2. CASE s = r
        BY <3>1, <3>3, <3>4, <4>2 DEF FileInv
      <4> QED
        BY <4>1, <4>2
    <3> QED
      BY <3>2, <3>3 DEF FileInv, Gone, Pending, Met, fileVars
  <2>8. ASSUME NEW r \in Request, Moves(r) PROVE FileInv'
    <3>1. file' \subseteq file /\ astray \subseteq astray' /\ UNCHANGED <<upload, met>>
      BY <2>8 DEF Moves
    <3>2. ASSUME NEW d, d = req[r].id, pc[r] = "unlink" PROVE Gone(d)'
      BY <2>8, <3>2 DEF Moves, Gone
    <3>3. \A d : Gone(d) => Gone(d)'
      BY <3>1, GoneStays
    <3>4. \A d \in deleted' : Gone(d)'
      <4>1. deleted' \subseteq deleted \union {d \in {req[r].id} : req[r].deleted}
        BY <2>8 DEF Moves, With
      <4>2. req[r].deleted => Gone(req[r].id)
        BY <2>8 DEF FileInv, Moves
      <4> QED
        BY <3>3, <4>1, <4>2 DEF FileInv
    <3>5. ASSUME NEW s \in Request, pc'[s] # "idle", req'[s].deleted PROVE Gone(req[s].id)'
      <4>1. CASE s # r
        <5>1. pc'[s] = pc[s] /\ req'[s] = req[s]
          BY <2>8, <4>1 DEF Moves
        <5> QED
          BY <3>3, <3>5, <5>1 DEF FileInv, Gone
      <4>2. CASE s = r
        <5>1. /\ pc[r] # "idle" /\ req'[r].id = req[r].id
              /\ \/ req'[r].deleted = req[r].deleted
                 \/ req'[r].deleted = (req[r].id \in deleted)
                 \/ pc[r] = "unlink"
          BY <2>8, <3>5, <4>2 DEF Moves
        <5>2. pc[r] # "unlink" => Gone(req[r].id)
          BY <3>5, <4>2, <5>1 DEF FileInv
        <5> QED
          BY <3>1, <3>2, <4>2, <5>1, <5>2 DEF Gone
      <4> QED
        BY <4>1, <4>2
    <3>6. Pending' \subseteq Pending
      BY <3>1 DEF Pending
    <3> QED
      BY <3>1, <3>4, <3>5, <3>6, PendingStays DEF FileInv
  <2>9. ASSUME NEW r \in Request, InsertJob(r) \/ DeleteStep(r) \/ SubmitStep(r) \/ Save(r) PROVE FileInv'
    BY <2>8, <2>9, RequestMoves
  <2> QED
    BY <2>3, <2>4, <2>5, <2>6, <2>7, <2>9 DEF Next, UploadStep
<1> QED
  BY <1>1, <1>2, ArchiveInvariant, DeliveryTypeInvariant, PTL DEF Spec

(* For any users, requests and uploads, and whatever is restarted: a deleted *)
(* upload is in the file only if the delivery went astray, and two uploads   *)
(* are joined only if one did or they overlapped.                            *)
THEOREM FileStaysTrue == Spec => []FileIsTrue
<1>1. TypeOK /\ FileInv => FileIsTrue
  BY DEF TypeOK, FileInv, FileIsTrue, Gone, Pending
<1> QED
  BY <1>1, FileHolds, DeliveryTypeInvariant, PTL

-----------------------------------------------------------------------------
(* Requests one by one.                                                     *)

(* No copy is stale, and a deletion goes on only while no job of the         *)
(* delivery waits or runs; workers cannot make one wait.                     *)
SparedInv ==
    alone =>
        /\ ~files
        /\ OneByOne
        /\ \A r \in Request :
            /\ pc[r] = "count2" => JobsOf(req[r].id, {"waiting"}) = {}
            /\ pc[r] \in {"get", "unlink"} => JobsOf(req[r].id, {"waiting", "running"}) = {}
            /\ pc[r] # "idle" /\ req[r].deleted /\ req[r].id \notin deleted =>
                  pc[r] = "save" /\ JobsOf(req[r].id, {"waiting", "running"}) = {}

LEMMA WorkersSpare ==
    ASSUME Shape, NEW j \in Job, Claim(j) \/ Finish(j), NEW d
    PROVE  /\ JobsOf(d, {"waiting"})' \subseteq JobsOf(d, {"waiting"})
           /\ JobsOf(d, {"waiting", "running"})' \subseteq JobsOf(d, {"waiting", "running"})
<1>1. of' = of /\ status[j] \in {"waiting", "running"}
      /\ \E s \in {"running", "ok", "failed"} : status' = [status EXCEPT ![j] = s]
  BY DEF Claim, Finish
<1> QED
  BY <1>1 DEF Shape, JobsOf

LEMMA AloneIsSpec == MCSpec => Spec
<1>1. MCInit => Init
  BY DEF MCInit
<1>2. [MCNext]_<<vars, alone, files>> => [Next]_vars
  BY DEF MCNext
<1> QED
  BY <1>1, <1>2, PTL DEF MCSpec, Spec

(* Requests that come one by one delete no delivery whose jobs are not over. *)
THEOREM AloneDeletionsSpareJobs == MCSpec => AloneJobsAreSpared
<1>1. MCInit => SparedInv
  BY DEF MCInit, Init, SparedInv, OneByOne, Uploading
<1>2. /\ ArchiveInv /\ SparedInv /\ [MCNext]_<<vars, alone, files>>
      => /\ SparedInv'
         /\ [alone => \A d \in deleted' \ deleted : JobsOf(d, {"waiting", "running"}) = {}]_vars
  <2> SUFFICES ASSUME ArchiveInv, SparedInv, [MCNext]_<<vars, alone, files>>
               PROVE  SparedInv' /\ (alone => \A d \in deleted' \ deleted : JobsOf(d, {"waiting", "running"}) = {})
    OBVIOUS
  <2> DEFINE Spares == \A d \in deleted' \ deleted : JobsOf(d, {"waiting", "running"}) = {}
  <2>1. CASE UNCHANGED <<vars, alone, files>>
    <3>1. UNCHANGED <<alone, files, upload, deleted, pc, req, status, of>>
      BY <2>1 DEF vars, rowVars, fileVars, requestVars, jobVars
    <3>2. \A d, S : JobsOf(d, S)' = JobsOf(d, S)
      BY <3>1 DEF JobsOf
    <3> QED
      BY <3>1, <3>2 DEF SparedInv, OneByOne, Uploading
  <2> SUFFICES ASSUME alone, ~files', Next, OneByOne', alone' = alone
               PROVE  SparedInv' /\ Spares
    BY <2>1 DEF MCNext, SparedInv
  <2>2. Shape /\ OneByOne
    BY DEF ArchiveInv, SparedInv
  <2>3. ASSUME UNCHANGED <<deleted, pc, req>>,
               \A d : /\ JobsOf(d, {"waiting"})' \subseteq JobsOf(d, {"waiting"})
                      /\ JobsOf(d, {"waiting", "running"})' \subseteq JobsOf(d, {"waiting", "running"})
        PROVE  SparedInv' /\ Spares
    BY <2>3 DEF SparedInv
  <2>4. ASSUME UNCHANGED <<status, of>>, NEW d, NEW S PROVE JobsOf(d, S)' = JobsOf(d, S)
    BY <2>4 DEF JobsOf
  <2>5. ASSUME NEW d \in Delivery, UploadStep(d) \/ Register(d) PROVE SparedInv' /\ Spares
    BY <2>3, <2>4, <2>5 DEF UploadStep, BeginUpload, AppendUpload, RegisterUpload, Register,
                            rowVars, requestVars, jobVars
  <2>10. CASE Restart
    <3>1. UNCHANGED deleted /\ \A r \in Request : pc'[r] = "idle"
      BY <2>10 DEF Restart, rowVars
    <3> QED
      BY <3>1 DEF SparedInv
  <2>6. ASSUME NEW j \in Job, Claim(j) \/ Finish(j) PROVE SparedInv' /\ Spares
    <3>1. UNCHANGED <<deleted, pc, req>>
      BY <2>6 DEF Claim, Finish, rowVars, requestVars
    <3> QED
      BY <2>2, <2>3, <2>6, <3>1, WorkersSpare
  <2>7. CASE NextDay
    BY <2>3, <2>4, <2>7 DEF NextDay, rowVars, requestVars, jobVars
  <2>8. ASSUME NEW r \in Request, NEW kind \in Kind, NEW by \in Visitor, NEW d \in Delivery,
               Begin(r, kind, by, d)
        PROVE  SparedInv' /\ Spares
    <3>1. /\ pc'[r] = FirstStep(kind) /\ req'[r].id = d /\ req'[r].deleted = (d \in deleted)
          /\ \A s \in Request \ {r} : pc'[s] = pc[s] /\ req'[s] = req[s]
          /\ UNCHANGED <<deleted, status, of>>
      BY <2>8, RequestBegins
    <3>2. FirstStep(kind) \notin {"idle", "count2", "get", "unlink"}
      BY DEF FirstStep
    <3>3. \A s \in Request \ {r} : pc'[s] = "idle"
      BY <3>1, <3>2 DEF OneByOne
    <3> QED
      BY <3>1, <3>2, <3>3 DEF SparedInv
  <2>9. ASSUME NEW r \in Request, Moves(r) PROVE SparedInv' /\ Spares
    <3> DEFINE d == req[r].id
               busy == JobsOf(d, {"waiting", "running"}) = {}
    <3>1. pc[r] # "idle" /\ \A s \in Request \ {r} : pc'[s] = "idle"
      BY <2>2, <2>9 DEF Moves, OneByOne
    <3>2. Spares
      <4>1. deleted' \subseteq deleted \union {e \in {d} : req[r].deleted}
        BY <2>9 DEF Moves, With
      <4> QED
        BY <3>1, <4>1 DEF SparedInv
    <3>3. CASE pc'[r] = "idle"
      BY <3>1, <3>2, <3>3 DEF SparedInv
    <3>4. CASE pc'[r] # "idle"
      <4>1. /\ req'[r].id = d
            /\ \/ req'[r].deleted = req[r].deleted
               \/ pc[r] = "get" /\ req'[r].deleted = (d \in deleted)
               \/ pc[r] = "unlink" /\ pc'[r] = "save" /\ req'[r].deleted = TRUE
        BY <2>9, <3>4 DEF Moves
      <4>2. CASE pc[r] = "insert" /\ pc'[r] = "save" /\ deleted' = deleted
        BY <3>1, <3>2, <4>1, <4>2 DEF SparedInv
      <4>3. CASE UNCHANGED <<status, of>>
        <5>1. \A e, S : JobsOf(e, S)' = JobsOf(e, S)
          BY <2>4, <4>3
        <5>2. JobsOf(d, {"waiting", "running"}) = JobsOf(d, {"waiting"}) \union JobsOf(d, {"running"})
          BY DEF JobsOf
        <5>3. pc[r] # "save"
          BY <2>9, <3>4 DEF Moves
        <5>4. pc'[r] = "count2" => JobsOf(d, {"waiting"}) = {}
          BY <2>9 DEF Moves
        <5>5. pc'[r] \in {"get", "unlink"} => JobsOf(d, {"waiting", "running"}) = {}
          BY <2>9, <5>2 DEF Moves, SparedInv
        <5>6. req'[r].deleted /\ d \notin deleted' => pc'[r] = "save" /\ JobsOf(d, {"waiting", "running"}) = {}
          <6>1. ASSUME req[r].deleted, d \notin deleted' PROVE FALSE
            <7>1. d \in deleted
              BY <3>1, <5>3, <6>1 DEF SparedInv
            <7>2. deleted' = deleted \/ deleted' = With(deleted, d, req[r].deleted)
              BY <2>9 DEF Moves
            <7> QED
              BY <6>1, <7>1, <7>2 DEF With
          <6>2. ASSUME pc[r] = "get" PROVE deleted' = deleted
            BY <2>9, <3>4, <6>2 DEF Moves
          <6> SUFFICES ASSUME req'[r].deleted, d \notin deleted'
                      PROVE  pc'[r] = "save" /\ JobsOf(d, {"waiting", "running"}) = {}
            OBVIOUS
          <6>3. pc[r] # "get"
            <7> SUFFICES ASSUME pc[r] = "get" PROVE FALSE
              OBVIOUS
            <7>1. req'[r].deleted <=> req[r].deleted \/ d \in deleted
              BY <4>1
            <7> QED
              BY <6>1, <6>2, <7>1
          <6>4. req'[r].deleted = req[r].deleted \/ (pc[r] = "unlink" /\ pc'[r] = "save")
            BY <4>1, <6>3
          <6>5. pc[r] = "unlink" /\ pc'[r] = "save"
            BY <6>1, <6>4
          <6> QED
            BY <6>5 DEF SparedInv
        <5> QED
          BY <3>1, <3>2, <4>1, <5>1, <5>4, <5>5, <5>6 DEF SparedInv
      <4> QED
        BY <2>9, <4>2, <4>3 DEF Moves
    <3> QED
      BY <3>3, <3>4
  <2> QED
    BY <2>5, <2>6, <2>7, <2>8, <2>9, <2>10, RequestMoves DEF Next
<1> QED
  BY <1>1, <1>2, AloneIsSpec, ArchiveInvariant, PTL DEF MCSpec, AloneJobsAreSpared

=============================================================================
