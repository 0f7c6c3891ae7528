--------------------------- MODULE Dispatch_proofs ---------------------------
(***************************************************************************)
(* What is proved of the subprocess of a job, for any number of steps, any *)
(* choice of required steps and any skip request: its types, that the      *)
(* required steps gate the others, and that a grade is earned.             *)
(***************************************************************************)
EXTENDS Dispatch, SequenceTheorems, TLAPS

Inv == TypeOK /\ DispatchInv

(* A complaint makes the status of the running check what it must be.        *)
LEMMA ComplaintIsCounted ==
    ASSUME TypeOK, pc = "check", step \in Step, NEW what \in Complaint,
           check = TrueStatus(step), events[step] \subseteq {"begun"} \union Complaint,
           events' = [events EXCEPT ![step] = @ \union {what}],
           UNCHANGED <<step, required>>,
           check' = Worse(check, what)
    PROVE  check' = TrueStatus(step)'
<1>1. events'[step] = events[step] \union {what}
  BY DEF TypeOK
<1>2. {"skipped", "timeout"} \intersect events'[step] = {}
  BY <1>1 DEF Complaint
<1>3. CASE what = "aborted"
  BY <1>1, <1>2, <1>3 DEF TrueStatus, Worse, Gravity
<1>4. CASE what = "failed"
  BY <1>1, <1>2, <1>4 DEF TrueStatus, Worse, Gravity
<1>5. CASE what = "cancelled"
  BY <1>1, <1>2, <1>5 DEF TrueStatus, Worse, Gravity
<1>6. QED
  BY <1>3, <1>4, <1>5 DEF Complaint

(* What is known of a step depends on what happened in it.                   *)
LEMMA UntouchedSteps ==
    ASSUME TypeOK, UNCHANGED <<events, required>>
    PROVE  /\ \A k \in Step : TrueStatus(k)' = TrueStatus(k) /\ Ended(k)' = Ended(k)
           /\ UNCHANGED fileStatus => GradeIsEarned' = GradeIsEarned
BY DEF TrueStatus, Ended, GradeIsEarned

LEMMA OtherSteps ==
    ASSUME TypeOK, UNCHANGED required, NEW E, events' = [events EXCEPT ![step] = E]
    PROVE  \A k \in Step \ {step} :
            /\ events'[k] = events[k]
            /\ TrueStatus(k)' = TrueStatus(k) /\ Ended(k)' = Ended(k)
BY DEF TypeOK, TrueStatus, Ended

-----------------------------------------------------------------------------
(* Inv is inductive: one lemma for each part of the program.                 *)

LEMMA InitInv == Init => Inv
<1> SUFFICES ASSUME Init PROVE Inv
  OBVIOUS
<1> USE StepsAssumption DEF Init
<1>1. TypeOK
  <2>1. events \in [Step -> SUBSET Event]
    OBVIOUS
  <2>2. step \in 1..(N + 1) /\ Len(steps) <= step
    OBVIOUS
  <2>3. steps \in Seq(StepStatus) /\ fileSteps \in Seq(StepStatus)
    OBVIOUS
  <2>4. /\ check \in StepStatus \ {"skipped"} /\ pc \in Pc /\ required \subseteq Step
        /\ call \in Call
    BY DEF StepStatus, Pc, Call
  <2>5. QED
    BY <2>1, <2>2, <2>3, <2>4 DEF TypeOK
<1>2. BeginInv
  BY DEF BeginInv, InLoop
<1>3. StepInv
  BY DEF StepInv, InLoop
<1>4. RecordInv
  BY DEF RecordInv, Step
<1>5. FileInv
  BY DEF FileInv, GradeIsEarned, Final
<1>6. QED
  BY <1>1, <1>2, <1>3, <1>4, <1>5 DEF Inv, DispatchInv

(* Before the loop nothing happens but the announcement.                     *)
LEMMA BeginStep == ASSUME Inv, Begin PROVE Inv'
<1>1. UNCHANGED <<required, skip, step, check, alarm, steps, fileSteps, conn, schema, named, call, events>>
  BY DEF Begin, Launch, Main, Validate, CreateDirs, CopyDefinition, Announce, planVars, memVars,
     fileVars, resVars
<1>2. /\ pc \in Early /\ pc' \in Pc \ {"check", "export", "record", "close"}
      /\ error' \in BOOLEAN /\ tmp' \in BOOLEAN /\ spoiled' \in BOOLEAN
      /\ fileStatus' \in {"missing", "open"}
      /\ pc' = "finally" => error'
  BY DEF Begin, Launch, Main, Validate, CreateDirs, CopyDefinition, Announce, planVars, memVars,
     fileVars, resVars, Inv, TypeOK, DispatchInv, BeginInv, Early, Pc, FirstStatus, Raise
<1>3. TypeOK'
  BY <1>1, <1>2 DEF Inv, TypeOK
<1>4. BeginInv'
  BY <1>1, <1>2
  DEF Begin, Launch, Main, Validate, CreateDirs, CopyDefinition, Announce, planVars, memVars,
     fileVars, resVars, Inv, TypeOK, DispatchInv, BeginInv, Early, InLoop, Raise, IsValid
<1>5. StepInv'
  BY <1>1, <1>2
  DEF Begin, Launch, Main, Validate, CreateDirs, CopyDefinition, Announce, planVars, memVars,
     fileVars, resVars, Inv, TypeOK, DispatchInv, BeginInv, StepInv, Early, InLoop, Raise,
     FirstStatus
<1>6. RecordInv'
  BY <1>1, <1>2 DEF Inv, DispatchInv, BeginInv, RecordInv, TypeOK, Step
<1>7. FileInv'
  BY <1>1, <1>2 DEF Inv, DispatchInv, BeginInv, FileInv, GradeIsEarned, Final
<1>8. QED
  BY <1>3, <1>4, <1>5, <1>6, <1>7 DEF Inv, DispatchInv

(* Where only the program counter moves on, to the end of the program or from *)
(* the exports to the record, nothing is disturbed.                           *)
LEMMA QuietStep ==
    ASSUME Inv, UNCHANGED <<required, skip, step, check, steps, fileSteps, fileStatus, events>>,
           error' \in BOOLEAN,
           pc' \in {"record", "finally", "close", "rmtmp", "end"},
           pc' = "record" => pc = "export" /\ UNCHANGED error,
           pc' = "finally" => fileStatus \notin Final /\ (error' \/ Len(steps) = N),
           fileStatus \in Final => pc' # "record"
    PROVE  DispatchInv'
<1> USE DEF Inv, DispatchInv
<1>1. \A k \in Step : TrueStatus(k)' = TrueStatus(k) /\ Ended(k)' = Ended(k)
  BY UntouchedSteps
<1>2. GradeIsEarned' = GradeIsEarned
  BY UntouchedSteps
<1>3. BeginInv'
  BY DEF BeginInv, Early, InLoop, IsValid
<1>4. StepInv'
  BY <1>1 DEF StepInv, InLoop
<1>5. RecordInv'
  <2>1. DOMAIN steps \subseteq Step
    BY StepsAssumption DEF RecordInv, TypeOK, Step
  <2>2. QED
    BY <1>1, <2>1 DEF RecordInv
<1>6. FileInv'
  BY <1>2 DEF FileInv, Final
<1>7. QED
  BY <1>3, <1>4, <1>5, <1>6

LEMMA CleanupStep == ASSUME Inv, Close \/ RemoveTmp \/ Kill PROVE Inv'
<1>1. /\ UNCHANGED <<required, skip, step, check, alarm, steps, error, fileSteps, fileStatus, events>>
      /\ pc' \in {"rmtmp", "end"}
      /\ tmp' \in BOOLEAN /\ schema' \in BOOLEAN /\ named' \in BOOLEAN /\ spoiled' \in BOOLEAN
      /\ UNCHANGED call
      /\ conn' \in {"none", "open", "broken"}
  BY LeaveAssumption
  DEF Inv, TypeOK, Close, RemoveTmp, Kill, CanDrop, planVars, memVars, fileVars, resVars
<1>2. TypeOK'
  BY <1>1 DEF Inv, TypeOK, Pc
<1>3. DispatchInv'
  BY <1>1, QuietStep DEF Inv, TypeOK
<1>4. QED
  BY <1>2, <1>3 DEF Inv

LEMMA LateAlarmStep == ASSUME Inv, LateAlarm PROVE Inv'
<1>1. /\ UNCHANGED <<required, skip, step, check, steps, fileSteps, fileStatus, tmp, conn, schema, named, call, events>>
      /\ alarm' = "rung" /\ error' \in BOOLEAN /\ spoiled' \in BOOLEAN
      /\ \/ pc \in {"loop", "export", "record"} /\ pc' = "finally" /\ error'
         \/ pc' \in {"close", "rmtmp", "end"}
  BY DEF Inv, TypeOK, LateAlarm, Raise, planVars, fileVars, resVars
<1>2. TypeOK'
  BY <1>1 DEF Inv, TypeOK, Pc
<1>3. pc \in {"loop", "export", "record"} => fileStatus \notin Final
  BY DEF Inv, DispatchInv, FileInv
<1>4. DispatchInv'
  BY <1>1, <1>3, QuietStep
<1>5. QED
  BY <1>2, <1>4 DEF Inv

LEMMA EndLoopStep == ASSUME Inv, EndLoop PROVE Inv'
<1>1. /\ UNCHANGED <<required, skip, step, check, alarm, steps, error, fileSteps, fileStatus, tmp, conn, schema, named, call, spoiled, events>>
      /\ pc = "loop" /\ pc' = "finally"
  BY DEF EndLoop, planVars, memVars, fileVars, resVars
<1>2. TypeOK'
  BY <1>1 DEF Inv, TypeOK, Pc
<1>3. Len(steps) = N /\ fileStatus \notin Final
  BY <1>1, StepsAssumption
  DEF Inv, TypeOK, DispatchInv, StepInv, RecordInv, FileInv, InLoop, EndLoop
<1>4. DispatchInv'
  BY <1>1, <1>3, QuietStep DEF Inv, TypeOK
<1>5. QED
  BY <1>2, <1>4 DEF Inv

LEMMA ExportStep == ASSUME Inv, Export PROVE Inv'
<1>1. /\ UNCHANGED <<required, skip, step, check, alarm, steps, fileSteps, fileStatus, tmp, conn, schema, named, call, spoiled, events>>
      /\ pc = "export" /\ error' \in BOOLEAN
      /\ \/ pc' = "record" /\ UNCHANGED error
         \/ pc' = "finally" /\ error'
  BY DEF Inv, TypeOK, Export, Raise, planVars, fileVars, resVars
<1>2. TypeOK'
  BY <1>1 DEF Inv, TypeOK, Pc
<1>3. fileStatus \notin Final
  BY <1>1 DEF Inv, DispatchInv, FileInv
<1>4. DispatchInv'
  <2>1. CASE pc' = "record"
    BY <1>1, <1>3, <2>1, QuietStep DEF Inv, TypeOK
  <2>2. CASE pc' = "finally"
    BY <1>1, <1>3, <2>2, QuietStep
  <2>3. QED
    BY <1>1, <2>1, <2>2
<1>5. QED
  BY <1>2, <1>4 DEF Inv

(* The grade that is given to the recorded steps is earned.                  *)
LEMMA GradeIsRight ==
    ASSUME Inv, pc = "finally", UNCHANGED <<required, events>>,
           fileStatus' = Grade(Range(steps), error)
    PROVE  GradeIsEarned'
<1>1. \A k \in Step : TrueStatus(k)' = TrueStatus(k) /\ events'[k] = events[k]
  BY UntouchedSteps DEF Inv
<1>2. \A k \in DOMAIN steps : k \in Step /\ steps[k] = TrueStatus(k) /\ Ended(k)
  BY StepsAssumption DEF Inv, DispatchInv, RecordInv, TypeOK, Step
<1>3. \A k \in DOMAIN steps : steps[k] \in Range(steps)
  BY DEF Range
<1>4. \A s \in Range(steps) : \E k \in Step : TrueStatus(k) = s
  BY <1>2 DEF Range
<1>5. ASSUME ~error, "aborted" \notin Range(steps)
      PROVE  DOMAIN steps = Step
  BY <1>5 DEF Inv, DispatchInv, FileInv, TypeOK, Step
<1>6. ASSUME fileStatus' = "ok", NEW k \in Step
      PROVE  events'[k] = {"begun", "returned"}
  <2>1. ~error /\ Range(steps) \intersect (Complaint \union {"skipped"}) = {}
    BY <1>6 DEF Grade, Complaint
  <2>2. TrueStatus(k) = steps[k] /\ Ended(k) /\ steps[k] \in Range(steps)
    BY <1>2, <1>3, <1>5, <2>1 DEF Complaint
  <2>3. TrueStatus(k) \notin Complaint \union {"skipped"}
    BY <2>1, <2>2
  <2>4. events[k] \intersect (Complaint \union {"skipped", "timeout"}) = {}
    BY <2>3 DEF TrueStatus, Complaint
  <2>5. events[k] \subseteq Event
    BY DEF Inv, TypeOK
  <2>6. QED
    BY <1>1, <2>2, <2>4, <2>5 DEF Ended, Event, Complaint
<1>7. ASSUME fileStatus' = "partial"
      PROVE  /\ \E k \in Step : "skipped" \in events'[k]
             /\ \A k \in Step : events'[k] # {} /\ TrueStatus(k)' \notin {"failed", "aborted"}
  <2>1. ~error /\ Range(steps) \intersect {"failed", "aborted"} = {} /\ "skipped" \in Range(steps)
    BY <1>7 DEF Grade
  <2>2. \E k \in Step : "skipped" \in events'[k]
    <3>1. PICK k \in Step : TrueStatus(k) = "skipped"
      BY <1>4, <2>1
    <3>2. "skipped" \in events[k]
      BY <3>1 DEF TrueStatus
    <3>3. QED
      BY <1>1, <3>2
  <2>3. ASSUME NEW k \in Step
        PROVE  events'[k] # {} /\ TrueStatus(k)' \notin {"failed", "aborted"}
    <3>1. TrueStatus(k) = steps[k] /\ Ended(k) /\ steps[k] \in Range(steps)
      BY <1>2, <1>3, <1>5, <2>1
    <3>2. events[k] # {}
      BY <3>1 DEF Ended
    <3>3. QED
      BY <1>1, <2>1, <3>1, <3>2
  <2>4. QED
    BY <2>2, <2>3
<1>8. ASSUME fileStatus' = "failed"
      PROVE  \E k \in Step : TrueStatus(k)' \in Complaint
  BY <1>1, <1>4, <1>8 DEF Grade, Complaint
<1>9. QED
  BY <1>6, <1>7, <1>8 DEF GradeIsEarned

LEMMA FinishStep == ASSUME Inv, Finish PROVE Inv'
<1>1. /\ UNCHANGED <<required, skip, step, check, alarm, steps, error, tmp, conn, schema, named, call, spoiled, events>>
      /\ pc = "finally" /\ pc' = "close"
      /\ \/ fileSteps' = steps /\ fileStatus' = Grade(Range(steps), error)
         \/ UNCHANGED <<fileSteps, fileStatus>>
  BY DEF Finish, planVars, memVars, fileVars, resVars
<1>2. Grade(Range(steps), error) \in Final
  BY DEF Grade, Final
<1>3. TypeOK'
  BY <1>1, <1>2 DEF Inv, TypeOK, Pc
<1>4. GradeIsEarned'
  BY <1>1, GradeIsRight, UntouchedSteps DEF Inv, DispatchInv, FileInv
<1>5. BeginInv' /\ StepInv'
  BY <1>1 DEF BeginInv, StepInv, Early, InLoop
<1>6. RecordInv'
  <2>1. \A k \in Step : TrueStatus(k)' = TrueStatus(k) /\ Ended(k)' = Ended(k)
    BY <1>1, UntouchedSteps DEF Inv
  <2>2. DOMAIN steps \subseteq Step
    BY StepsAssumption DEF Inv, DispatchInv, RecordInv, TypeOK, Step
  <2>3. QED
    BY <1>1, <2>1, <2>2 DEF Inv, DispatchInv, RecordInv
<1>7. FileInv'
  BY <1>1, <1>4 DEF Inv, TypeOK, DispatchInv, FileInv
<1>8. QED
  BY <1>3, <1>5, <1>6, <1>7 DEF Inv, DispatchInv

(* A step that is over is recorded: skipped, or with the word of its check.  *)
LEMMA RecordStep ==
    ASSUME Inv, pc \in {"loop", "record"}, NEW k \in Step, step = k, NEW status \in StepStatus,
           Record(status),
           UNCHANGED <<required, skip>>,
           status = TrueStatus(k)', Ended(k)',
           "skipped" \in events'[k] => k \notin required,
           \A l \in Step \ {k} :
               /\ events'[l] = events[l]
               /\ TrueStatus(l)' = TrueStatus(l) /\ Ended(l)' = Ended(l),
           \/ pc' = "finally" /\ UNCHANGED step /\ (error' \/ status = "aborted")
           \/ pc' = "loop" /\ step' = step + 1 /\ ~error' /\ status # "aborted"
    PROVE  /\ DispatchInv'
           /\ steps' \in Seq(StepStatus) /\ fileSteps' \in Seq(StepStatus)
           /\ Len(steps') <= step' /\ step' \in 1..(N + 1) /\ error' \in BOOLEAN
           /\ UNCHANGED fileStatus
<1> USE DEF Inv, DispatchInv
<1>1. /\ ~error /\ Len(steps) = step - 1 /\ fileSteps = steps /\ fileStatus = "open"
      /\ IsValid(skip) /\ steps \in Seq(StepStatus) /\ step \in Nat /\ step <= N /\ N \in Nat
  BY StepsAssumption DEF StepInv, BeginInv, InLoop, TypeOK, Step
<1>2. /\ steps' = Append(steps, status)
      /\ \/ fileSteps' = steps' /\ UNCHANGED error
         \/ error' = TRUE /\ UNCHANGED fileSteps
      /\ UNCHANGED fileStatus
  BY DEF Record, WithStep
<1>3. /\ steps' \in Seq(StepStatus) /\ Len(steps') = step
      /\ steps'[step] = status
      /\ \A l \in 1..(step - 1) : steps'[l] = steps[l]
  BY <1>1, <1>2
<1>4. /\ steps' \in Seq(StepStatus) /\ fileSteps' \in Seq(StepStatus)
      /\ Len(steps') <= step' /\ step' \in 1..(N + 1) /\ error' \in BOOLEAN
      /\ UNCHANGED fileStatus
  <2>1. step' \in 1..(N + 1) /\ Len(steps') <= step'
    BY <1>1, <1>3
  <2>2. fileSteps' \in Seq(StepStatus) /\ error' \in BOOLEAN
    BY <1>1, <1>2, <1>3 DEF TypeOK
  <2>3. QED
    BY <1>2, <1>3, <2>1, <2>2
<1>5. BeginInv'
  BY <1>1 DEF BeginInv, Early, InLoop, IsValid
<1>6. StepInv'
  <2>1. pc' = "loop" => fileSteps' = steps' /\ ~error' /\ Len(steps') = step' - 1
    BY <1>1, <1>2, <1>3
  <2>2. pc' = "loop" => \A l \in Step : l >= step' => events'[l] = {}
    <3>1. \A l \in Step : l > step => events[l] = {}
      BY DEF RecordInv
    <3>2. QED
      BY <1>1, <3>1 DEF Step
  <2>3. QED
    BY <1>1, <1>2, <2>1, <2>2 DEF StepInv, InLoop
<1>7. RecordInv'
  <2>1. Len(steps') \in {step' - 1, step'} /\ Len(steps') <= N
    BY <1>1, <1>3
  <2>2. \A l \in DOMAIN steps' : steps'[l] = TrueStatus(l)' /\ Ended(l)'
    <3>1. \A l \in 1..(step - 1) : steps[l] = TrueStatus(l) /\ Ended(l)
      BY <1>1 DEF RecordInv
    <3>2. \A l \in 1..(step - 1) : l \in Step \ {step}
      BY <1>1 DEF Step
    <3>3. DOMAIN steps' = 1..step
      BY <1>3
    <3>4. \A l \in DOMAIN steps' : l = step \/ l \in 1..(step - 1)
      BY <1>1, <3>3
    <3>5. QED
      <4>1. ASSUME NEW l \in DOMAIN steps', l = k PROVE steps'[l] = TrueStatus(l)' /\ Ended(l)'
        BY <1>3, <4>1
      <4>2. ASSUME NEW l \in 1..(step - 1) PROVE steps'[l] = TrueStatus(l)' /\ Ended(l)'
        BY <1>3, <3>1, <3>2
      <4>3. QED
        BY <3>4, <4>1, <4>2
  <2>3. \A l \in Step : l < step' => steps'[l] # "aborted"
    <3>1. \A l \in Step : l < step => steps[l] # "aborted"
      BY DEF RecordInv
    <3>2. QED
      BY <1>1, <1>3, <3>1 DEF Step
  <2>4. \A l \in Step : l > step' => events'[l] = {}
    BY <1>1 DEF RecordInv, Step
  <2>5. \A l \in Step : "skipped" \in events'[l] => l \notin required'
    BY DEF RecordInv
  <2>6. QED
    BY <2>1, <2>2, <2>3, <2>4, <2>5 DEF RecordInv
<1>8. FileInv'
  <2>1. Len(fileSteps') <= Len(steps') /\ \A l \in DOMAIN fileSteps' : fileSteps'[l] = steps'[l]
    BY <1>1, <1>2, <1>3
  <2>2. fileStatus' \notin Final
    BY <1>1, <1>2 DEF Final
  <2>3. "aborted" = status => "aborted" \in Range(steps')
    BY <1>1, <1>3 DEF Range
  <2>4. GradeIsEarned'
    BY <1>1, <1>2 DEF GradeIsEarned
  <2>5. QED
    BY <2>1, <2>2, <2>3, <2>4 DEF FileInv
<1>9. QED
  BY <1>4, <1>5, <1>6, <1>7, <1>8

LEMMA SkipStepStep == ASSUME Inv, SkipStep PROVE Inv'
<1>1. PICK k \in Step : k = step
  BY StepsAssumption DEF Inv, TypeOK, Step, SkipStep
<1>2. /\ pc = "loop" /\ k \in Range(skip) /\ Record("skipped")
      /\ UNCHANGED <<required, skip, check, alarm, tmp, conn, schema, named, call, spoiled>>
      /\ events' = [events EXCEPT ![step] = @ \union {"skipped"}]
      /\ \/ pc' = "finally" /\ UNCHANGED step /\ error'
         \/ pc' = "loop" /\ step' = step + 1 /\ ~error'
  BY <1>1 DEF Inv, TypeOK, SkipStep, Happens, planVars, resVars
<1>3. events'[k] = {"skipped"}
  BY <1>1, <1>2 DEF Inv, TypeOK, DispatchInv, StepInv, Step
<1>4. k \notin required
  BY <1>1, <1>2 DEF Inv, DispatchInv, BeginInv, InLoop, IsValid, Range
<1>5. "skipped" = TrueStatus(k)' /\ Ended(k)'
  BY <1>3 DEF TrueStatus, Ended
<1>6. \A l \in Step \ {k} :
        /\ events'[l] = events[l]
        /\ TrueStatus(l)' = TrueStatus(l) /\ Ended(l)' = Ended(l)
  BY <1>1, <1>2, OtherSteps DEF Inv
<1>7. /\ DispatchInv'
      /\ steps' \in Seq(StepStatus) /\ fileSteps' \in Seq(StepStatus)
      /\ Len(steps') <= step' /\ step' \in 1..(N + 1) /\ error' \in BOOLEAN
      /\ UNCHANGED fileStatus
  <2>1. "skipped" \in StepStatus
    BY DEF StepStatus
  <2>2. QED
    BY <1>1, <1>2, <1>4, <1>5, <1>6, <2>1, RecordStep
<1>8. TypeOK'
  <2>1. events' \in [Step -> SUBSET Event]
    BY <1>2 DEF Inv, TypeOK, Event
  <2>2. QED
    BY <1>2, <1>7, <2>1 DEF Inv, TypeOK, Pc
<1>9. QED
  BY <1>7, <1>8 DEF Inv

LEMMA RecordCheckStep == ASSUME Inv, RecordCheck PROVE Inv'
<1>1. PICK k \in Step : k = step
  BY DEF Inv, DispatchInv, StepInv, InLoop, RecordCheck
<1>2. /\ pc = "record" /\ Record(check)
      /\ UNCHANGED <<required, skip, check, alarm, tmp, conn, schema, named, call, spoiled, events>>
      /\ \/ pc' = "finally" /\ UNCHANGED step /\ (error' \/ check = "aborted")
         \/ pc' = "loop" /\ step' = step + 1 /\ ~error' /\ check # "aborted"
  BY DEF RecordCheck, Stops, planVars, resVars
<1>3. \A l \in Step : TrueStatus(l)' = TrueStatus(l) /\ Ended(l)' = Ended(l) /\ events'[l] = events[l]
  BY <1>2, UntouchedSteps DEF Inv
<1>4. check = TrueStatus(k)' /\ Ended(k)'
  BY <1>1, <1>2, <1>3 DEF Inv, DispatchInv, StepInv
<1>5. "skipped" \in events'[k] => k \notin required
  BY <1>3 DEF Inv, DispatchInv, RecordInv
<1>6. /\ DispatchInv'
      /\ steps' \in Seq(StepStatus) /\ fileSteps' \in Seq(StepStatus)
      /\ Len(steps') <= step' /\ step' \in 1..(N + 1) /\ error' \in BOOLEAN
      /\ UNCHANGED fileStatus
  <2>1. check \in StepStatus
    BY DEF Inv, TypeOK
  <2>2. QED
    BY <1>1, <1>2, <1>3, <1>4, <1>5, <2>1, RecordStep
<1>7. TypeOK'
  BY <1>2, <1>6 DEF Inv, TypeOK, Pc
<1>8. QED
  BY <1>6, <1>7 DEF Inv

(* A check starts, or its module cannot be loaded.                           *)
LEMMA StartCheckStep == ASSUME Inv, StartCheck PROVE Inv'
<1>1. PICK k \in Step : k = step
  BY StepsAssumption DEF Inv, TypeOK, Step, StartCheck
<1>2. PICK e \in {"begun", "raised"} :
        /\ events' = [events EXCEPT ![step] = @ \union {e}]
        /\ \/ pc' = "check" /\ error' = error /\ e = "begun"
           \/ pc' = "finally" /\ error' = TRUE /\ e = "raised"
  BY DEF StartCheck, Happens, Raise
<1>3. /\ pc = "loop" /\ check' = "ok" /\ alarm' \in {"off", "set", "rung"}
      /\ UNCHANGED <<required, skip, step, steps, fileSteps, fileStatus, tmp, conn, schema, named, call, spoiled>>
  BY DEF StartCheck, Alarms, Inv, TypeOK, planVars, fileVars, resVars
<1>4. events[k] = {} /\ events'[k] = {e} /\ events' \in [Step -> SUBSET Event]
  BY <1>1, <1>2, <1>3 DEF Inv, TypeOK, DispatchInv, StepInv, Step, Event
<1>5. \A l \in Step \ {k} :
        events'[l] = events[l] /\ TrueStatus(l)' = TrueStatus(l) /\ Ended(l)' = Ended(l)
  BY <1>1, <1>2, <1>3, OtherSteps DEF Inv
<1>6. TypeOK'
  BY <1>2, <1>3, <1>4 DEF Inv, TypeOK, Pc, StepStatus
<1>7. /\ Len(steps) = step - 1 /\ fileSteps = steps /\ fileStatus = "open" /\ ~error /\ IsValid(skip)
      /\ steps \in Seq(StepStatus) /\ step \in Nat /\ N \in Nat
  BY <1>3, StepsAssumption DEF Inv, TypeOK, DispatchInv, StepInv, BeginInv, InLoop
<1>8. BeginInv'
  BY <1>2, <1>3, <1>7 DEF BeginInv, Early, InLoop, IsValid
<1>9. StepInv'
  <2>1. TrueStatus(k)' = "ok" /\ (pc' = "check" => "begun" \in events'[k] /\ events'[k] \subseteq {"begun"} \union Complaint)
    BY <1>2, <1>4 DEF TrueStatus
  <2>2. pc' = "check" => "begun" \in events'[step'] /\ events'[step'] \subseteq {"begun"} \union Complaint
                         /\ check' = TrueStatus(step)'
    BY <1>1, <1>2, <1>3, <2>1 DEF TrueStatus
  <2>3. QED
    BY <1>1, <1>2, <1>3, <1>7, <2>2 DEF StepInv, InLoop
<1>10. RecordInv'
  <2>1. \A l \in DOMAIN steps : l \in Step \ {k}
    BY <1>1, <1>7 DEF Step
  <2>2. \A l \in DOMAIN steps : steps[l] = TrueStatus(l)' /\ Ended(l)'
    BY <1>5, <2>1 DEF Inv, DispatchInv, RecordInv
  <2>3. \A l \in Step : l > step => events'[l] = {}
    BY <1>1, <1>5, <1>7 DEF Inv, DispatchInv, RecordInv, Step
  <2>4. \A l \in Step : "skipped" \in events'[l] => l \notin required
    BY <1>4, <1>5 DEF Inv, DispatchInv, RecordInv
  <2>5. QED
    BY <1>3, <2>2, <2>3, <2>4 DEF Inv, DispatchInv, RecordInv
<1>11. FileInv'
  BY <1>2, <1>3, <1>7 DEF Inv, DispatchInv, FileInv, GradeIsEarned, Final
<1>12. QED
  BY <1>6, <1>8, <1>9, <1>10, <1>11 DEF Inv, DispatchInv

(* Whatever happens in a running check concerns the current step only.       *)
LEMMA CheckEvent ==
    ASSUME Inv, pc = "check", NEW e \in Event \ {"skipped"},
           events' = [events EXCEPT ![step] = @ \union {e}],
           UNCHANGED <<required, skip, step, steps, fileSteps, fileStatus>>,
           pc' \in {"check", "export", "finally"},
           check' \in StepStatus \ {"skipped"},
           IF pc' = "finally" THEN error' = TRUE
           ELSE /\ error' = error /\ check' = TrueStatus(step)'
                /\ IF pc' = "check" THEN e \in Complaint
                   ELSE e \in {"returned", "timeout"}
    PROVE  /\ DispatchInv'
           /\ events' \in [Step -> SUBSET Event]
<1>1. PICK k \in Step : k = step
  BY DEF Inv, DispatchInv, StepInv, InLoop
<1>2. /\ "begun" \in events[k] /\ events[k] \subseteq {"begun"} \union Complaint
      /\ events'[k] = events[k] \union {e} /\ events' \in [Step -> SUBSET Event]
  BY <1>1 DEF Inv, TypeOK, DispatchInv, StepInv
<1>3. \A l \in Step \ {k} :
        events'[l] = events[l] /\ TrueStatus(l)' = TrueStatus(l) /\ Ended(l)' = Ended(l)
  BY <1>1, OtherSteps DEF Inv
<1>4. /\ Len(steps) = step - 1 /\ fileSteps = steps /\ fileStatus = "open" /\ ~error /\ IsValid(skip)
      /\ steps \in Seq(StepStatus) /\ step \in Nat /\ N \in Nat
  BY StepsAssumption DEF Inv, TypeOK, DispatchInv, StepInv, BeginInv, InLoop
<1>5. BeginInv'
  BY <1>4 DEF BeginInv, Early, InLoop, IsValid
<1>6. StepInv'
  <2>1. pc' = "check" => events'[k] \subseteq {"begun"} \union Complaint
    BY <1>2
  <2>2. pc' = "export" => Ended(k)' /\ events'[k] # {"skipped"}
    <3>1. pc' = "export" => events'[k] \intersect {"skipped", "raised"} = {}
      BY <1>2 DEF Complaint
    <3>2. QED
      BY <1>2, <3>1 DEF Ended
  <2>3. pc' = "export" => Ended(step)' /\ events'[step'] # {"skipped"}
    BY <1>1, <2>2 DEF Ended
  <2>4. QED
    BY <1>1, <1>2, <1>4, <2>1, <2>3 DEF StepInv, InLoop
<1>7. RecordInv'
  <2>1. \A l \in DOMAIN steps : l \in Step \ {k}
    BY <1>1, <1>4 DEF Step
  <2>2. \A l \in DOMAIN steps : steps[l] = TrueStatus(l)' /\ Ended(l)'
    BY <1>3, <2>1 DEF Inv, DispatchInv, RecordInv
  <2>3. \A l \in Step : l > step => events'[l] = {}
    BY <1>1, <1>3, <1>4 DEF Inv, DispatchInv, RecordInv, Step
  <2>4. \A l \in Step : "skipped" \in events'[l] => l \notin required
    BY <1>2, <1>3 DEF Inv, DispatchInv, RecordInv, Complaint
  <2>5. QED
    BY <2>2, <2>3, <2>4 DEF Inv, DispatchInv, RecordInv
<1>8. FileInv'
  BY <1>4 DEF Inv, DispatchInv, FileInv, GradeIsEarned, Final
<1>9. QED
  BY <1>2, <1>5, <1>6, <1>7, <1>8 DEF DispatchInv

LEMMA ComplainStep == ASSUME Inv, NEW what \in Complaint, Complain(what) PROVE Inv'
<1>1. /\ pc = "check" /\ step \in Step /\ check = TrueStatus(step)
      /\ events[step] \subseteq {"begun"} \union Complaint
  BY DEF Complain, Inv, DispatchInv, StepInv, InLoop
<1>2. /\ UNCHANGED <<required, skip, pc, step, alarm, steps, error, fileSteps, fileStatus, tmp, conn, schema, named, call, spoiled>>
      /\ events' = [events EXCEPT ![step] = @ \union {what}]
      /\ check' = Worse(check, what)
  BY DEF Complain, Happens, planVars, memVars, fileVars, resVars
<1>3. check' \in StepStatus \ {"skipped"}
  BY <1>2 DEF Worse, Inv, TypeOK, Complaint, StepStatus
<1>4. check' = TrueStatus(step)'
  BY <1>1, <1>2, ComplaintIsCounted DEF Inv
<1>5. what \in Event \ {"skipped"}
  BY DEF Event, Complaint
<1>6. DispatchInv' /\ events' \in [Step -> SUBSET Event]
  BY <1>1, <1>2, <1>3, <1>4, <1>5, CheckEvent
<1>7. TypeOK'
  BY <1>2, <1>3, <1>6 DEF Inv, TypeOK
<1>8. QED
  BY <1>6, <1>7 DEF Inv

LEMMA ReturnStep == ASSUME Inv, ReturnFromCheck PROVE Inv'
<1>1. /\ pc = "check" /\ step \in Step /\ check = TrueStatus(step)
      /\ UNCHANGED <<required, skip, step, check, alarm, steps, error, fileSteps, fileStatus, tmp, conn, schema, named, call, spoiled>>
      /\ pc' = "export"
      /\ events' = [events EXCEPT ![step] = @ \union {"returned"}]
  BY DEF ReturnFromCheck, Happens, Inv, DispatchInv, StepInv, InLoop, planVars, memVars,
     fileVars, resVars
<1>2. check' = TrueStatus(step)'
  BY <1>1 DEF TrueStatus, Inv, TypeOK
<1>3. check' \in StepStatus \ {"skipped"} /\ "returned" \in Event \ {"skipped"}
  BY <1>1 DEF Inv, TypeOK, Event
<1>4. DispatchInv' /\ events' \in [Step -> SUBSET Event]
  BY <1>1, <1>2, <1>3, CheckEvent
<1>5. TypeOK'
  BY <1>1, <1>4 DEF Inv, TypeOK, Pc
<1>6. QED
  BY <1>4, <1>5 DEF Inv

LEMMA RaiseStep == ASSUME Inv, RaiseInCheck PROVE Inv'
<1>1. /\ pc = "check" /\ pc' = "finally" /\ error' = TRUE
      /\ UNCHANGED <<required, skip, step, check, alarm, steps, fileSteps, fileStatus, tmp, schema, named, call, spoiled>>
      /\ events' = [events EXCEPT ![step] = @ \union {"raised"}]
      /\ conn' \in {"none", "open", "broken"}
  BY DEF RaiseInCheck, Happens, Raise, Inv, TypeOK, planVars, fileVars
<1>2. check' \in StepStatus \ {"skipped"} /\ "raised" \in Event \ {"skipped"}
  BY <1>1 DEF Inv, TypeOK, Event
<1>3. DispatchInv' /\ events' \in [Step -> SUBSET Event]
  BY <1>1, <1>2, CheckEvent
<1>4. TypeOK'
  BY <1>1, <1>3 DEF Inv, TypeOK, Pc
<1>5. QED
  BY <1>3, <1>4 DEF Inv

(* A call a check makes changes nothing of what is recorded, unless it fails. *)
LEMMA CallIsQuiet ==
    ASSUME Inv, pc = "check",
           UNCHANGED <<required, skip, step, check, steps, fileSteps, fileStatus>>,
           UNCHANGED <<pc, error, events>> \/ (Raise /\ Happens(step, "raised"))
    PROVE  /\ DispatchInv'
           /\ events' \in [Step -> SUBSET Event] /\ pc' \in Pc /\ error' \in BOOLEAN
<1>1. CASE UNCHANGED <<pc, error, events>>
  <2>1. events' \in [Step -> SUBSET Event] /\ pc' \in Pc /\ error' \in BOOLEAN
    BY <1>1 DEF Inv, TypeOK
  <2>2. \A k \in Step : TrueStatus(k)' = TrueStatus(k) /\ Ended(k)' = Ended(k)
    BY <1>1, UntouchedSteps DEF Inv
  <2>3. BeginInv'
    BY <1>1 DEF Inv, DispatchInv, BeginInv, Early, InLoop, IsValid
  <2>4. StepInv'
    BY <1>1, <2>2 DEF Inv, DispatchInv, StepInv, InLoop
  <2>5. RecordInv'
    <3>1. DOMAIN steps \subseteq Step
      BY StepsAssumption DEF Inv, DispatchInv, RecordInv, TypeOK, Step
    <3>2. QED
      BY <1>1, <2>2, <3>1 DEF Inv, DispatchInv, RecordInv
  <2>6. FileInv'
    <3>1. GradeIsEarned' = GradeIsEarned
      BY <1>1, UntouchedSteps DEF Inv
    <3>2. QED
      BY <1>1, <3>1 DEF Inv, DispatchInv, FileInv
  <2>7. QED
    BY <2>1, <2>3, <2>4, <2>5, <2>6 DEF DispatchInv
<1>2. CASE Raise /\ Happens(step, "raised")
  <2>1. check' \in StepStatus \ {"skipped"} /\ "raised" \in Event \ {"skipped"}
    BY DEF Inv, TypeOK, Event
  <2>2. /\ pc' = "finally" /\ error' = TRUE
        /\ events' = [events EXCEPT ![step] = @ \union {"raised"}]
    BY <1>2 DEF Raise, Happens
  <2>3. DispatchInv' /\ events' \in [Step -> SUBSET Event]
    BY <2>1, <2>2, CheckEvent
  <2>4. QED
    BY <2>2, <2>3 DEF Pc
<1>3. QED
  BY <1>1, <1>2

LEMMA ConnectStep == ASSUME Inv, Connect \/ Open PROVE Inv'
<1>1. /\ pc = "check"
      /\ UNCHANGED <<required, skip, step, check, steps, fileSteps, fileStatus, tmp, spoiled>>
      /\ UNCHANGED <<pc, error, events>> \/ (Raise /\ Happens(step, "raised"))
  BY DEF Connect, Open, CreateSchema, NameSchema, SetPath, FailToConnect, planVars, runVars,
     memVars, fileVars
<1>2. conn' \in {"none", "open", "broken"} /\ schema' \in BOOLEAN /\ named' \in BOOLEAN
  BY DEF Connect, Open, CreateSchema, NameSchema, SetPath, FailToConnect, Inv, TypeOK
<1>3. call' \in Call /\ alarm' \in {"off", "set", "rung"}
  BY DEF Connect, Open, CreateSchema, NameSchema, SetPath, FailToConnect, Inv, TypeOK, Call, runVars
<1>4. /\ DispatchInv'
      /\ events' \in [Step -> SUBSET Event] /\ pc' \in Pc /\ error' \in BOOLEAN
  BY <1>1, CallIsQuiet
<1>5. TypeOK'
  BY <1>1, <1>2, <1>3, <1>4 DEF Inv, TypeOK
<1>6. QED
  BY <1>4, <1>5 DEF Inv

(* A call into C and a swallowed alarm change nothing of what is recorded.   *)
LEMMA CallOutStep == ASSUME Inv, CallOut \/ Swallow PROVE Inv'
<1>1. /\ pc = "check"
      /\ UNCHANGED <<required, skip, pc, step, check, steps, error, fileSteps, fileStatus,
                      tmp, conn, schema, named, spoiled, events>>
      /\ call' \in Call /\ alarm' \in {"off", "set", "rung"}
  BY DEF CallOut, Swallow, Call, Inv, TypeOK, planVars, runVars, memVars, fileVars, resVars
<1>2. DispatchInv'
  BY <1>1, CallIsQuiet
<1>3. TypeOK'
  BY <1>1 DEF Inv, TypeOK
<1>4. QED
  BY <1>2, <1>3 DEF Inv

(* A check that runs out of time ends as if it had complained.               *)
LEMMA TimeOutStep == ASSUME Inv, TimeOut PROVE Inv'
<1>1. /\ pc = "check" /\ step \in Step /\ check = TrueStatus(step)
      /\ events[step] \subseteq {"begun"} \union Complaint
  BY DEF TimeOut, Inv, DispatchInv, StepInv, InLoop
<1>2. /\ UNCHANGED <<required, skip, step, steps, error, fileSteps, fileStatus, tmp, conn, schema, named, spoiled>>
      /\ pc' = "export" /\ alarm' = "rung" /\ call' = "none"
      /\ events' = [events EXCEPT ![step] = @ \union {"timeout"}]
      /\ check' = Worse(check, TimeoutComplaint)
  BY DEF TimeOut, Happens, planVars, memVars, fileVars, resVars
<1>3. /\ check' \in StepStatus \ {"skipped"} /\ "timeout" \in Event \ {"skipped"}
  BY <1>2 DEF Worse, TimeoutComplaint, Inv, TypeOK, StepStatus, Complaint, Event
<1>4. check' = TrueStatus(step)'
  <2>1. events'[step] = events[step] \union {"timeout"} /\ "skipped" \notin events'[step]
    BY <1>1, <1>2 DEF Inv, TypeOK, Complaint
  <2>2. CASE step \in required
    BY <1>1, <1>2, <2>1, <2>2 DEF TrueStatus, Worse, Gravity, TimeoutComplaint
  <2>3. CASE step \notin required
    BY <1>1, <1>2, <2>1, <2>3 DEF TrueStatus, Worse, Gravity, TimeoutComplaint
  <2>4. QED
    BY <2>2, <2>3
<1>5. DispatchInv' /\ events' \in [Step -> SUBSET Event]
  BY <1>1, <1>2, <1>3, <1>4, CheckEvent
<1>6. TypeOK'
  BY <1>2, <1>3, <1>5 DEF Inv, TypeOK, Pc, Call
<1>7. QED
  BY <1>5, <1>6 DEF Inv

LEMMA StutterStep == ASSUME Inv, UNCHANGED vars PROVE Inv'
<1>1. UNCHANGED <<required, skip, pc, step, check, alarm, steps, error, fileSteps, fileStatus,
                  tmp, conn, schema, named, call, spoiled, events>>
  BY DEF vars, planVars, runVars, memVars, fileVars, resVars
<1>2. TypeOK'
  BY <1>1 DEF Inv, TypeOK
<1>3. \A k \in Step : TrueStatus(k)' = TrueStatus(k) /\ Ended(k)' = Ended(k)
  BY <1>1, UntouchedSteps DEF Inv
<1>4. BeginInv'
  BY <1>1 DEF Inv, DispatchInv, BeginInv, IsValid
<1>5. StepInv'
  BY <1>1, <1>3 DEF Inv, DispatchInv, StepInv, InLoop
<1>6. RecordInv'
  <2>1. DOMAIN steps \subseteq Step
    BY StepsAssumption DEF Inv, DispatchInv, RecordInv, TypeOK, Step
  <2>2. QED
    BY <1>1, <1>3, <2>1 DEF Inv, DispatchInv, RecordInv
<1>7. FileInv'
  BY <1>1, UntouchedSteps DEF Inv, DispatchInv, FileInv
<1>8. QED
  BY <1>2, <1>4, <1>5, <1>6, <1>7 DEF Inv, DispatchInv

LEMMA NextStep == Inv /\ [Next]_vars => Inv'
<1> SUFFICES ASSUME Inv, [Next]_vars PROVE Inv'
  OBVIOUS
<1>1. CASE Begin
  BY <1>1, BeginStep
<1>2. CASE Iterate
  BY <1>2, SkipStepStep, StartCheckStep, EndLoopStep, ExportStep, RecordCheckStep DEF Iterate
<1>3. CASE Check
  BY <1>3, ComplainStep, ConnectStep, ReturnStep, RaiseStep DEF Check
<1>4. CASE CallOut \/ Open \/ Ring
  BY <1>4, CallOutStep, ConnectStep, TimeOutStep DEF Ring
<1>5. CASE End
  BY <1>5, FinishStep, CleanupStep DEF End
<1>6. CASE LateAlarm
  BY <1>6, LateAlarmStep
<1>7. CASE Kill
  BY <1>7, CleanupStep
<1>8. CASE UNCHANGED vars
  BY <1>8, StutterStep
<1>9. QED
  BY <1>1, <1>2, <1>3, <1>4, <1>5, <1>6, <1>7, <1>8 DEF Next

LEMMA Inductive == Spec => []Inv
<1>1. Init => Inv
  BY InitInv
<1>2. Inv /\ [Next]_vars => Inv'
  BY NextStep
<1>3. QED
  BY <1>1, <1>2, PTL DEF Spec

-----------------------------------------------------------------------------
(* What follows.                                                             *)

\* The variables of the program keep their types.
THEOREM TypeInvariant == Spec => []TypeOK
<1>1. Inv => TypeOK
  BY DEF Inv
<1>2. QED
  BY <1>1, Inductive, PTL

\* Where the program is in its steps, what it has recorded of them, what is in
\* result.json and what really happened in the checks agree.
THEOREM DispatchInvariant == Spec => []DispatchInv
<1>1. Inv => DispatchInv
  BY DEF Inv
<1>2. QED
  BY <1>1, Inductive, PTL

\* A reader of result.json never sees a step that was not so.
THEOREM StepsAreTold == Spec => []StepsAreTrue
<1>1. Inv => StepsAreTrue
  BY StepsAssumption DEF Inv, TypeOK, DispatchInv, RecordInv, FileInv, StepsAreTrue, Step
<1>2. QED
  BY <1>1, Inductive, PTL

\* "ok", "partial" and "failed" are earned.
THEOREM GradesAreEarned == Spec => []GradeIsEarned
<1>1. Inv => GradeIsEarned
  BY DEF Inv, DispatchInv, FileInv
<1>2. QED
  BY <1>1, Inductive, PTL

\* No required step is skipped, and none runs after it was aborted.
THEOREM RequiredStepsGate == Spec => []RequiredGates
<1>1. Inv => RequiredGates
  <2> SUFFICES ASSUME Inv, NEW k \in Step
               PROVE  /\ "skipped" \in events[k] => k \notin required
                      /\ TrueStatus(k) = "aborted" => \A l \in Step : l > k => events[l] = {}
    BY DEF RequiredGates
  <2>1. "skipped" \in events[k] => k \notin required
    BY DEF Inv, DispatchInv, RecordInv
  <2>2. ASSUME TrueStatus(k) = "aborted", NEW l \in Step, l > k PROVE events[l] = {}
    <3>1. k >= step
      <4>1. ASSUME k < step PROVE FALSE
        <5>1. k \in DOMAIN steps
          BY <4>1, StepsAssumption DEF Inv, TypeOK, DispatchInv, RecordInv, Step
        <5>2. steps[k] = "aborted"
          BY <2>2, <5>1 DEF Inv, DispatchInv, RecordInv
        <5>3. QED
          BY <4>1, <5>2 DEF Inv, DispatchInv, RecordInv
      <4>2. QED
        BY <4>1, StepsAssumption DEF Inv, TypeOK, Step
    <3>2. l > step
      BY <2>2, <3>1, StepsAssumption DEF Inv, TypeOK, Step
    <3>3. QED
      BY <3>2 DEF Inv, DispatchInv, RecordInv
  <2>3. QED
    BY <2>1, <2>2
<1>2. QED
  BY <1>1, Inductive, PTL

(* The cleanup, of which the invariant above says nothing: there is nothing   *)
(* to remove before the directories are made and the first check runs; a      *)
(* schema without a name is one a check is about to name, or one whose check  *)
(* was interrupted just then; the schema goes first.                          *)
Interrupted == \E k \in Step : events[k] \intersect {"timeout", "raised"} # {}

CleanInv ==
    /\ pc \in {"none", "main", "validate", "dirs"} => ~tmp
    /\ pc \in Early => ~schema /\ ~named
    /\ pc \notin {"check", "end"} => call = "none"
    /\ schema /\ ~named => \/ pc = "check" /\ call = "name"
                           \/ Interrupted
                           \/ pc = "end" /\ spoiled
    /\ pc = "rmtmp" /\ ~spoiled => (schema /\ ~LeaveSchema => ~named)
    /\ LeavesNothing

(* A step interrupted stays so.                                              *)
LEMMA InterruptedStays ==
    ASSUME TypeOK, [Next]_vars
    PROVE  Interrupted => Interrupted'
<1>1. UNCHANGED events \/ \E e \in Event : Happens(step, e)
  <2>1. CASE Begin
    BY <2>1 DEF Begin, Launch, Main, Validate, CreateDirs, CopyDefinition, Announce
  <2>2. CASE Iterate
    BY <2>2 DEF Iterate, SkipStep, StartCheck, EndLoop, Export, RecordCheck, Event
  <2>3. CASE Check
    BY <2>3 DEF Check, Complain, Connect, ReturnFromCheck, RaiseInCheck, Event, Complaint
  <2>4. CASE CallOut \/ Open \/ Ring
    BY <2>4 DEF CallOut, Open, CreateSchema, NameSchema, SetPath, FailToConnect, Ring, TimeOut,
       Swallow, Event
  <2>5. CASE End \/ LateAlarm \/ Kill
    BY <2>5 DEF End, Finish, Close, RemoveTmp, LateAlarm, Kill
  <2>6. CASE UNCHANGED vars
    BY <2>6 DEF vars
  <2>7. QED
    BY <2>1, <2>2, <2>3, <2>4, <2>5, <2>6 DEF Next
<1>2. CASE UNCHANGED events
  BY <1>2 DEF Interrupted
<1>3. ASSUME NEW e \in Event, Happens(step, e)
      PROVE  \A k \in Step : events[k] \subseteq events'[k]
  BY <1>3 DEF Happens, TypeOK
<1>4. QED
  BY <1>1, <1>2, <1>3 DEF Interrupted

(* An exception of the check, or the alarm, interrupts it.                   *)
LEMMA InterruptsCheck ==
    ASSUME Inv, pc = "check", NEW e \in {"timeout", "raised"}, Happens(step, e)
    PROVE  Interrupted'
<1>1. step \in Step
  BY DEF Inv, DispatchInv, StepInv, InLoop
<1>2. e \in events'[step]
  BY <1>1 DEF Happens, Inv, TypeOK
<1>3. QED
  BY <1>1, <1>2 DEF Interrupted

LEMMA CleanStep == Inv /\ CleanInv /\ [Next]_vars => CleanInv'
<1> SUFFICES ASSUME Inv, CleanInv, [Next]_vars PROVE CleanInv'
  OBVIOUS
<1> USE DEF CleanInv, LeavesNothing, Early
<1>0. Interrupted => Interrupted'
  BY InterruptedStays DEF Inv
<1>1. CASE Begin
  BY <1>1, <1>0
  DEF Begin, Launch, Main, Validate, CreateDirs, CopyDefinition, Announce, Raise, resVars
<1>2. CASE Iterate
  BY <1>2, <1>0 DEF Iterate, SkipStep, StartCheck, EndLoop, Export, RecordCheck, Raise, resVars
<1>3. CASE (\E what \in Complaint : Complain(what)) \/ ReturnFromCheck \/ RaiseInCheck
  BY <1>3, <1>0 DEF Complain, ReturnFromCheck, RaiseInCheck, Raise, resVars
<1>4. CASE Connect \/ Open
  <2>1. /\ pc = "check" /\ pc' \in {"check", "finally"}
        /\ pc' = "finally" => Happens(step, "raised") /\ call' = "none"
    BY <1>4 DEF Connect, Open, CreateSchema, NameSchema, SetPath, FailToConnect, Raise, runVars
  <2>2. pc' = "finally" => Interrupted'
    BY <2>1, InterruptsCheck
  <2>3. pc' = "check" /\ schema' /\ ~named' =>
            call' = "name" \/ (schema /\ ~named /\ call # "name")
    BY <1>4, <2>1 DEF Connect, Open, CreateSchema, NameSchema, SetPath, FailToConnect, Raise
  <2>4. QED
    BY <2>1, <2>2, <2>3, <1>0
<1>5. CASE CallOut \/ Ring
  BY <1>5, <1>0, InterruptsCheck DEF CallOut, Ring, TimeOut, Swallow, runVars, resVars
<1>6. CASE Finish
  BY <1>6, <1>0 DEF Finish, resVars
<1>7. CASE Close
  <2>1. /\ pc = "close" /\ pc' = "rmtmp" /\ tmp' = tmp /\ call' = call
        /\ spoiled' \/ (/\ schema' = (schema /\ (~named \/ LeaveSchema))
                        /\ named' = (named /\ LeaveSchema) /\ spoiled' = spoiled)
        /\ schema' /\ ~named' => schema /\ ~named
    BY <1>7, LeaveAssumption DEF Close, CanDrop, Inv, TypeOK
  <2>2. QED
    BY <2>1, <1>0
<1>8. CASE RemoveTmp
  <2>1. /\ pc = "rmtmp" /\ pc' = "end" /\ UNCHANGED <<schema, named, call, events>>
        /\ spoiled' \/ (tmp' = (tmp /\ LeaveJobdir) /\ spoiled' = spoiled)
    BY <1>8 DEF RemoveTmp
  <2>2. ~spoiled' => (tmp' => LeaveJobdir)
    BY <2>1
  <2>3. ~spoiled' /\ schema' /\ ~LeaveSchema => ~named' /\ Interrupted'
    BY <2>1, <1>0
  <2>4. QED
    BY <2>1, <2>2, <2>3, <1>0 DEF Interrupted
<1>9. CASE LateAlarm
  BY <1>9, <1>0 DEF LateAlarm, Raise, resVars
<1>10. CASE Kill
  BY <1>10, <1>0 DEF Kill, resVars
<1>11. CASE UNCHANGED vars
  BY <1>11, <1>0 DEF vars, runVars, resVars
<1>12. QED
  BY <1>1, <1>2, <1>3, <1>4, <1>5, <1>6, <1>7, <1>8, <1>9, <1>10, <1>11 DEF Next, Check, End

\* A program that was not killed, and whose cleanup was not disturbed, leaves no
\* directory, and no schema but that of a check which was interrupted between the
\* making of the schema and the assignment of its name.
THEOREM NothingIsLeft == Spec => []LeavesNothing
<1>1. Init => CleanInv
  BY DEF Init, CleanInv, LeavesNothing
<1>2. CleanInv => LeavesNothing
  BY DEF CleanInv
<1>3. QED
  BY <1>1, <1>2, CleanStep, Inductive, PTL DEF Spec

-----------------------------------------------------------------------------
(* What a reader of result.json sees.                                        *)

(* Only the first store, the records and the finally block write the file.   *)
LEMMA FileSteps ==
    ASSUME Inv, [Next]_vars
    PROVE  \/ UNCHANGED fileVars
           \/ pc \in Early /\ fileStatus' = "open" /\ UNCHANGED fileSteps
           \/ /\ pc \in InLoop /\ UNCHANGED fileStatus
              /\ \E status \in StepStatus : fileSteps' = Append(steps, status)
           \/ pc = "finally" /\ fileSteps' = steps /\ fileStatus' \in Final
<1> USE DEF fileVars
<1>1. CASE Begin
  BY <1>1 DEF Begin, Launch, Main, Validate, CreateDirs, CopyDefinition, Announce, FirstStatus, Early
<1>2. CASE SkipStep
  BY <1>2 DEF SkipStep, Record, WithStep, StepStatus, InLoop
<1>3. CASE RecordCheck
  BY <1>3 DEF RecordCheck, Record, WithStep, InLoop, Inv, TypeOK
<1>4. CASE StartCheck \/ EndLoop \/ Export
  BY <1>4 DEF StartCheck, EndLoop, Export
<1>5. CASE Check
  BY <1>5 DEF Check, Complain, Connect, ReturnFromCheck, RaiseInCheck
<1>6. CASE CallOut \/ Open \/ Ring
  BY <1>6 DEF CallOut, Open, CreateSchema, NameSchema, SetPath, Ring, TimeOut, Swallow
<1>7. CASE Finish
  BY <1>7 DEF Finish, Grade, Final
<1>8. CASE Close \/ RemoveTmp \/ LateAlarm \/ Kill
  BY <1>8 DEF Close, RemoveTmp, LateAlarm, Kill
<1>9. CASE UNCHANGED vars
  BY <1>9 DEF vars
<1>10. QED
  BY <1>1, <1>2, <1>3, <1>4, <1>5, <1>6, <1>7, <1>8, <1>9 DEF Next, Iterate, End

(* A reader sees the file grow: no step is rewritten or lost, and a status   *)
(* is the last word.                                                         *)
THEOREM StoredResultOnlyGrows == Spec => StoredResultGrows
<1> DEFINE Grows ==
        /\ IsPrefix(fileSteps, fileSteps')
        /\ fileStatus # "missing" => fileStatus' # "missing"
        /\ fileStatus \in Final => UNCHANGED fileVars
<1>1. Inv /\ [Next]_vars => [Grows]_vars
  <2> SUFFICES ASSUME Inv, [Next]_vars PROVE Grows
    OBVIOUS
  <2>1. steps \in Seq(StepStatus) /\ fileSteps \in Seq(StepStatus)
    BY DEF Inv, TypeOK
  <2>2. CASE UNCHANGED fileVars
    BY <2>1, <2>2 DEF fileVars, IsPrefix
  <2>3. CASE pc \in Early /\ fileStatus' = "open" /\ UNCHANGED fileSteps
    <3>1. fileStatus = "missing"
      BY <2>3 DEF Inv, DispatchInv, BeginInv
    <3>2. QED
      BY <2>1, <2>3, <3>1 DEF IsPrefix, Final
  <2>4. ASSUME pc \in InLoop, UNCHANGED fileStatus, NEW status \in StepStatus,
               fileSteps' = Append(steps, status)
        PROVE  Grows
    <3>1. fileSteps = steps /\ fileStatus = "open"
      BY <2>4 DEF Inv, DispatchInv, StepInv
    <3>2. IsPrefix(fileSteps, fileSteps')
      BY <2>1, <2>4, <3>1 DEF IsPrefix
    <3>3. QED
      BY <2>4, <3>1, <3>2 DEF Final
  <2>5. CASE pc = "finally" /\ fileSteps' = steps /\ fileStatus' \in Final
    <3>1. /\ Len(fileSteps) <= Len(steps) /\ fileStatus \notin Final
          /\ \A k \in DOMAIN fileSteps : fileSteps[k] = steps[k]
      BY <2>5 DEF Inv, DispatchInv, FileInv
    <3>2. IsPrefix(fileSteps, fileSteps')
      BY <2>1, <2>5, <3>1 DEF IsPrefix
    <3>3. QED
      BY <2>5, <3>1, <3>2 DEF Final
  <2>6. QED
    BY <2>2, <2>3, <2>4, <2>5, FileSteps
<1>2. QED
  BY <1>1, Inductive, PTL DEF Spec, StoredResultGrows

(* Nothing is recorded before the first store, which is why a job that fails *)
(* before it can only be graded "error".                                     *)
NothingYet == fileStatus = "missing" => steps = <<>>

LEMMA NothingYetStep ==
    ASSUME Inv, NothingYet, [Next]_vars
    PROVE  NothingYet'
<1>1. fileStatus' = "missing" => fileStatus = "missing" /\ pc \notin InLoop
  BY FileSteps DEF fileVars, Final, Inv, DispatchInv, StepInv
<1>2. pc \in InLoop \/ UNCHANGED steps
  <2>1. CASE Begin
    BY <2>1 DEF Begin, Launch, Main, Validate, CreateDirs, CopyDefinition, Announce, memVars
  <2>2. CASE Iterate
    BY <2>2 DEF Iterate, SkipStep, StartCheck, EndLoop, Export, RecordCheck, InLoop
  <2>3. CASE Check \/ CallOut \/ Open \/ Ring
    BY <2>3 DEF Check, Complain, Connect, ReturnFromCheck, RaiseInCheck, CallOut, Open,
       CreateSchema, NameSchema, SetPath, Ring, TimeOut, Swallow, memVars
  <2>4. CASE End \/ LateAlarm \/ Kill
    BY <2>4 DEF End, Finish, Close, RemoveTmp, LateAlarm, Kill, memVars
  <2>5. CASE UNCHANGED vars
    BY <2>5 DEF vars, memVars
  <2>6. QED
    BY <2>1, <2>2, <2>3, <2>4, <2>5 DEF Next
<1>3. QED
  BY <1>1, <1>2 DEF NothingYet

(* The program refines JobOutcome: what the frontend may take for granted of *)
(* any subprocess it has not seen end.                                       *)
THEOREM OutcomeTheorem == Spec => ImplementsOutcome
<1> DEFINE Life == IF pc = "none" THEN "none" ELSE IF pc = "end" THEN "exited" ELSE "running"
<1>1. Init => Outcome!Init
  BY DEF Init, Outcome!Init
<1>2. Inv /\ NothingYet /\ [Next]_vars => [Outcome!Next]_<<Life, fileStatus>>
  <2> SUFFICES ASSUME Inv, NothingYet, [Next]_vars PROVE Outcome!Next \/ UNCHANGED <<Life, fileStatus>>
    OBVIOUS
  <2> USE DEF Outcome!Next, Outcome!Launch, Outcome!Announce, Outcome!Grade, Outcome!Exit,
              Outcome!Final, fileVars, memVars
  <2>1. CASE Launch
    BY <2>1 DEF Launch
  <2>2. CASE Main \/ Validate \/ CreateDirs \/ CopyDefinition
    BY <2>2 DEF Main, Validate, CreateDirs, CopyDefinition
  <2>3. CASE Announce
    <3>1. fileStatus = "missing"
      BY <2>3 DEF Announce, Inv, DispatchInv, BeginInv, Early
    <3>2. QED
      BY <2>3, <3>1 DEF Announce, FirstStatus, Raise
  <2>4. CASE Iterate
    BY <2>4 DEF Iterate, SkipStep, StartCheck, EndLoop, Export, RecordCheck, Record, Raise
  <2>5. CASE Check \/ CallOut \/ Open \/ Ring
    BY <2>5 DEF Check, Complain, Connect, ReturnFromCheck, RaiseInCheck, CallOut, Open,
       CreateSchema, NameSchema, SetPath, FailToConnect, Ring, TimeOut, Swallow, Raise, runVars
  <2>6. CASE Finish
    <3>1. fileStatus \in {"missing", "open"}
      BY <2>6 DEF Finish, Inv, TypeOK, DispatchInv, FileInv
    <3>2. fileStatus = "missing" => error
      BY <2>6, StepsAssumption DEF Finish, NothingYet, Inv, DispatchInv, FileInv, Range
    <3>3. QED
      BY <2>6, <3>1, <3>2 DEF Finish, Grade
  <2>7. CASE Close \/ RemoveTmp \/ LateAlarm \/ Kill
    BY <2>7 DEF Close, RemoveTmp, LateAlarm, Kill, Raise
  <2>8. CASE UNCHANGED vars
    BY <2>8 DEF vars, runVars
  <2>9. QED
    BY <2>1, <2>2, <2>3, <2>4, <2>5, <2>6, <2>7, <2>8 DEF Next, Begin, End
<1>3. Init => NothingYet
  BY DEF Init, NothingYet
<1>4. Inv /\ NothingYet /\ [Next]_vars => NothingYet'
  BY NothingYetStep
<1>5. QED
  BY <1>1, <1>2, <1>3, <1>4, Inductive, PTL DEF Spec, ImplementsOutcome, Outcome!Spec

=============================================================================
