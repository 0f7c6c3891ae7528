------------------------------ MODULE Inspire ------------------------------
(***************************************************************************)
(* The INSPIRE check of a delivery's metadata (vector/inspire.py,          *)
(* raster/inspire.py, vector/helper.py:475-847).  For each layer the       *)
(* client uploads the metadata file to a validator service, starts a test  *)
(* run there and polls it; runs end on their own, with any verdict.  A run *)
(* of verdict UNDEFINED is tried again by a recursive call, after which    *)
(* the caller goes on with the report of its own run.                      *)
(***************************************************************************)
EXTENDS Integers, Sequences, FiniteSets

CONSTANTS
    Deliveries,         \* what is checked: see InspireTypes
    MaxRetries,         \* INSPIRE_MAX_RETRIES
    StatusRetries,      \* INSPIRE_SERVICE_STATUS_MAX_RETRIES
    StatusInterval,     \* INSPIRE_SERVICE_STATUS_RETRY_INTERVAL
    PollInterval,       \* INSPIRE_POLL_INTERVAL
    RunTimeout,         \* INSPIRE_TEST_RUN_TIMEOUT
    GithubAnswers       \* whether the request for the latest version, which has no timeout, ends

ASSUME InspireAssumption ==
    /\ \A d \in Deliveries :
        d \in [xml : Seq({"inspire", "other", "missing"}), raster : BOOLEAN, light : BOOLEAN,
               dirs : Nat, local : BOOLEAN, excluded : BOOLEAN]
    /\ MaxRetries \in Nat /\ StatusRetries \in Nat \ {0}
    /\ StatusInterval \in Nat /\ PollInterval \in Nat \ {0} /\ RunTimeout \in Nat
    /\ GithubAnswers \in BOOLEAN

VARIABLES
    delivery,   \* xml: the metadata file of each layer; raster or vector product; light: the built-in
                \* validator; dirs: the metadata folders; local: the service; excluded: skip_vector_checks
    layer,      \* the layer at hand
    at,         \* what the client does next
    calls,      \* how many calls of do_inspire_check were made for the layer
    depth,      \* the one of them that runs: its callers wait
    mine,       \* the test run of each call, 0 for none
    tries,      \* status_check_retry_no
    polled,     \* total_seconds of retrieve_test_result
    waited,     \* all the seconds the check has slept
    runs,       \* the service's test runs: [of, verdict]
    status,     \* the status of the step
    report,     \* the run whose report each layer's html file holds, 0 for no file
    logged,     \* the layers whose log file exists
    trouble     \* whether a request failed, or an answer came too late

callVars == <<calls, depth, mine, tries, polled>>
inspireVars == <<delivery, layer, at, callVars, waited, runs, status, report, logged, trouble>>

Passed == {"PASSED", "PASSED_MANUAL"}
Verdicts == Passed \union {"FAILED", "UNDEFINED", "NOT_APPLICABLE"}

InspireInit ==
    /\ delivery \in Deliveries
    /\ layer = 1 /\ at = "begin"
    /\ calls = 0 /\ depth = 0 /\ mine = [c \in 1 .. MaxRetries + 1 |-> 0]
    /\ tries = 0 /\ polled = 0 /\ waited = 0
    /\ runs = <<>>
    /\ status = "ok"
    /\ report = [l \in 1 .. Len(delivery.xml) |-> 0]
    /\ logged = {}
    /\ trouble = FALSE

Fail == status' = "failed"

-----------------------------------------------------------------------------
(* run_check: the layers.                                                   *)

Begin ==
    /\ at = "begin"
    /\ at' = IF delivery.excluded /\ ~delivery.raster THEN "ended" ELSE "layer"
    /\ UNCHANGED <<delivery, layer, callVars, waited, runs, status, report, trouble, logged>>

(* failed() takes one message: with two the job crashes.                    *)
FindMetadata ==
    /\ at = "layer"
    /\ \/ /\ layer > Len(delivery.xml)
          /\ at' = "ended"
          /\ UNCHANGED <<layer, calls, depth, tries, status>>
       \/ /\ layer <= Len(delivery.xml) /\ delivery.dirs > 1
          /\ at' = "crashed"
          /\ UNCHANGED <<layer, calls, depth, tries, status>>
       \/ /\ layer <= Len(delivery.xml) /\ delivery.dirs <= 1
          /\ delivery.xml[layer] = "missing"
          /\ Fail
          /\ IF delivery.raster THEN at' = "ended" /\ UNCHANGED layer
             ELSE layer' = layer + 1 /\ UNCHANGED at
          /\ UNCHANGED <<calls, depth, tries>>
       \/ /\ layer <= Len(delivery.xml) /\ delivery.dirs <= 1
          /\ delivery.xml[layer] # "missing"
          /\ IF delivery.light THEN at' = "light" /\ UNCHANGED <<calls, depth, tries>>
             ELSE at' = "version" /\ calls' = 1 /\ depth' = 1 /\ tries' = 0
          /\ UNCHANGED <<layer, status>>
    /\ UNCHANGED <<delivery, mine, polled, waited, runs, report, trouble, logged>>

(* geonetwork-validate; a validator that breaks off prints no [INVALID].    *)
ValidateLight ==
    /\ at = "light"
    /\ \E outcome \in {"valid", "invalid", "broken"} :
        /\ status' = IF outcome = "invalid" THEN "failed" ELSE status
        /\ runs' = Append(runs, [of |-> layer, verdict |-> CASE outcome = "valid" -> "PASSED"
                                                             [] outcome = "invalid" -> "FAILED"
                                                             [] outcome = "broken" -> "NOT_APPLICABLE"])
    /\ layer' = layer + 1
    /\ at' = "layer"
    /\ UNCHANGED <<delivery, callVars, waited, report, trouble, logged>>

-----------------------------------------------------------------------------
(* do_inspire_check.                                                        *)

\* The layer is begun again (a mutant).
ReturnToLayer ==
    IF depth = 1 THEN at' = "layer" /\ depth' = 0 /\ UNCHANGED layer
    ELSE depth' = depth - 1 /\ at' = "report" /\ UNCHANGED layer

\* A call returns: to its caller, which goes on with its report, or to the next layer.
Return ==
    IF depth = 1 THEN layer' = layer + 1 /\ at' = "layer" /\ depth' = 0
    ELSE depth' = depth - 1 /\ at' = "report" /\ UNCHANGED layer

GiveUp == Fail /\ trouble' = TRUE /\ Return

(* The version of a local validator is compared with the one on github.     *)
AskVersion ==
    /\ at = "version"
    /\ delivery.local => GithubAnswers
    /\ at' = "status"
    /\ UNCHANGED <<delivery, layer, callVars, waited, runs, status, report, trouble, logged>>

AskStatus ==
    /\ at = "status"
    /\ \/ /\ tries < StatusRetries
          /\ at' = "suite"
          /\ UNCHANGED <<layer, depth, tries, waited, status, trouble>>
       \/ /\ tries < StatusRetries
          /\ tries' = tries + 1
          /\ waited' = waited + StatusInterval
          /\ UNCHANGED <<layer, at, depth, status, trouble>>
       \/ /\ tries = StatusRetries
          /\ GiveUp
          /\ UNCHANGED <<tries, waited>>
    /\ UNCHANGED <<delivery, calls, mine, polled, runs, report, logged>>

RetrieveSuite ==
    /\ at = "suite"
    /\ \/ at' = "upload" /\ UNCHANGED <<layer, depth, status, trouble>>
       \/ GiveUp
    /\ UNCHANGED <<delivery, calls, mine, tries, polled, waited, runs, report, logged>>

(* The service refuses with 400 what is no metadata.                        *)
CreateTestObject ==
    /\ at = "upload"
    /\ \/ /\ delivery.xml[layer] = "inspire"
          /\ waited' = waited + PollInterval
          /\ at' = "start"
          /\ UNCHANGED <<layer, depth, status, trouble>>
       \/ /\ delivery.xml[layer] = "other"
          /\ Fail /\ Return
          /\ UNCHANGED <<waited, trouble>>
       \/ GiveUp /\ UNCHANGED waited
    /\ UNCHANGED <<delivery, calls, mine, tries, polled, runs, report, logged>>

(* The run may have been started although no answer comes.                  *)
StartTestRun ==
    /\ at = "start"
    /\ \/ /\ runs' = Append(runs, [of |-> layer, verdict |-> "running"])
          /\ mine' = [mine EXCEPT ![depth] = Len(runs) + 1]
          /\ polled' = 0
          /\ at' = "poll"
          /\ UNCHANGED <<layer, depth, status, trouble>>
       \/ /\ GiveUp
          /\ runs' \in {runs, Append(runs, [of |-> layer, verdict |-> "running"])}
          /\ UNCHANGED <<mine, polled>>
    /\ UNCHANGED <<delivery, calls, tries, waited, report, logged>>

Run == runs[mine[depth]]

\* The run is waited for (a mutant).
TimedOutNever(seconds) == FALSE

TimedOut(seconds) == seconds > RunTimeout

(* Sleeps first, then asks for the progress.                                *)
PollProgress ==
    /\ at = "poll"
    /\ polled' = polled + PollInterval
    /\ waited' = waited + PollInterval
    /\ \/ /\ Run.verdict # "running"
          /\ at' = "result"
          /\ UNCHANGED <<layer, depth, status, trouble>>
       \/ /\ Run.verdict = "running"
          /\ ~TimedOut(polled')
          /\ UNCHANGED <<layer, at, depth, status, trouble>>
       \/ /\ Run.verdict = "running"
          /\ TimedOut(polled')
          /\ GiveUp
       \/ GiveUp
    /\ UNCHANGED <<delivery, calls, mine, tries, runs, report, logged>>

\* Calls count from one, retry_no from zero.
MayRetry == depth - 1 < MaxRetries

\* A last run that is undefined passes (a mutant).
FailedOnly(verdict) == verdict = "FAILED"

Fails(verdict) == verdict = "FAILED" \/ (verdict = "UNDEFINED" /\ ~MayRetry)

RetrieveResult ==
    /\ at = "result"
    /\ waited' = waited + PollInterval
    /\ \/ /\ Run.verdict = "UNDEFINED" /\ MayRetry
          /\ calls' = calls + 1 /\ depth' = depth + 1 /\ tries' = 0
          /\ at' = "version"
          /\ UNCHANGED <<layer, status, trouble>>
       \/ /\ ~(Run.verdict = "UNDEFINED" /\ MayRetry)
          /\ status' = IF Fails(Run.verdict) THEN "failed" ELSE status
          /\ at' = "report"
          /\ UNCHANGED <<layer, calls, depth, tries, trouble>>
       \/ GiveUp /\ UNCHANGED <<calls, tries>>
    /\ UNCHANGED <<delivery, mine, polled, runs, report, logged>>

(* The report is written over the one of an earlier call; without an answer *)
(* the step fails unless that one is there.                                 *)
DownloadReport ==
    /\ at = "report"
    /\ \/ /\ report' = [report EXCEPT ![layer] = mine[depth]]
          /\ UNCHANGED <<status, trouble>>
       \/ /\ trouble' = TRUE
          /\ status' = IF report[layer] = 0 THEN "failed" ELSE status
          /\ UNCHANGED report
    /\ at' = "log"
    /\ UNCHANGED <<delivery, layer, callVars, waited, runs, logged>>

DownloadLog ==
    /\ at = "log"
    /\ \/ logged' = logged \union {layer} /\ UNCHANGED <<status, trouble>>
       \/ /\ trouble' = TRUE
          /\ status' = IF layer \in logged THEN status ELSE "failed"
          /\ UNCHANGED logged
    /\ Return
    /\ UNCHANGED <<delivery, calls, mine, tries, polled, waited, runs, report>>

(* The service ends a run, whenever it likes.                               *)
ServiceEndsRun ==
    /\ \E r \in 1 .. Len(runs), v \in Verdicts :
        /\ runs[r].verdict = "running"
        /\ runs' = [runs EXCEPT ![r] = [of |-> runs[r].of, verdict |-> v]]
    /\ UNCHANGED <<delivery, layer, at, callVars, waited, status, report, trouble, logged>>

ClientNext ==
    \/ Begin \/ FindMetadata \/ ValidateLight
    \/ AskVersion \/ AskStatus \/ RetrieveSuite \/ CreateTestObject \/ StartTestRun
    \/ PollProgress \/ RetrieveResult \/ DownloadReport \/ DownloadLog

InspireNext == ClientNext \/ ServiceEndsRun

InspireSpec == InspireInit /\ [][InspireNext]_inspireVars

(* The job's only thread goes on; the service need not.                     *)
FairInspireSpec == InspireSpec /\ WF_inspireVars(ClientNext)

-----------------------------------------------------------------------------
InLayer == {"version", "status", "suite", "upload", "start", "poll", "result", "report", "log"}

(* Types.                                                                   *)
InspireTypes ==
    /\ delivery \in Deliveries
    /\ layer \in 1 .. Len(delivery.xml) + 1
    /\ at \in {"begin", "layer", "light", "ended", "crashed"} \union InLayer
    /\ at \in InLayer => layer <= Len(delivery.xml) /\ depth \in 1 .. calls
    /\ calls \in 0 .. MaxRetries + 1 /\ depth \in 0 .. calls
    /\ mine \in [1 .. MaxRetries + 1 -> 0 .. Len(runs)]
    /\ tries \in 0 .. StatusRetries
    /\ polled \in 0 .. RunTimeout + PollInterval
    /\ waited \in Nat
    /\ runs \in Seq([of : 1 .. Len(delivery.xml), verdict : Verdicts \union {"running"}])
    /\ status \in {"ok", "failed"}
    /\ report \in [1 .. Len(delivery.xml) -> 0 .. Len(runs)]
    /\ logged \subseteq 1 .. Len(delivery.xml)
    /\ trouble \in BOOLEAN

Of(l) == {r \in 1 .. Len(runs) : runs[r].of = l}

(* A step ends ok only if the last run of every layer did not fail and was  *)
(* not left undefined, and all runs before it were undefined ones.  (A      *)
(* verdict the code does not name passes.)                                  *)
OkIsPassed ==
    at = "ended" /\ status = "ok" /\ ~(delivery.excluded /\ ~delivery.raster) =>
        \A l \in 1 .. Len(delivery.xml) :
            \E last \in Of(l) :
                /\ runs[last].verdict \notin {"FAILED", "UNDEFINED", "running"}
                /\ \A r \in Of(l) \ {last} : r < last /\ runs[r].verdict = "UNDEFINED"

\* The longest a call can sleep, and all calls for one layer.
PerCall == StatusRetries * StatusInterval + RunTimeout + 3 * PollInterval
PerLayer == (MaxRetries + 1) * PerCall

(* The check sleeps no longer than its intervals, timeouts and retries add  *)
(* up to, however slow the service is.                                      *)
WaitIsBounded == waited <= Len(delivery.xml) * PerLayer

(* The check ends, even if no run on the service ever does.                 *)
InspireEnds == <>(at \in {"ended", "crashed"})

(* helper.py:817, "See report for details": a layer's report is the one of  *)
(* the run that failed it.                                                  *)
ReportOfVerdict ==
    at = "layer" => \A l \in 1 .. layer - 1 : \A r \in Of(l) :
        runs[r].verdict = "FAILED" /\ ~trouble /\ ~delivery.light => report[l] = r

=============================================================================
