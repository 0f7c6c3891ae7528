--------------------------- MODULE Inspire_proofs ---------------------------
(***************************************************************************)
(* What is proved of the INSPIRE check, for any delivery, any retries,     *)
(* intervals and timeouts, and a service that does what it likes: the      *)
(* types, how long the check can sleep, and that it ends ok only if the    *)
(* last run of every layer passed.                                         *)
(***************************************************************************)
EXTENDS Inspire, TLAPS

(* The places before a verdict is read: the call that runs is the newest.  *)
Asking == {"version", "status", "suite", "upload", "start", "poll", "result"}

(* The types with what they rest on.                                       *)
Places ==
    /\ InspireTypes
    /\ at \in Asking => calls = depth
    /\ at = "light" => layer <= Len(delivery.xml)
    /\ at \in {"poll", "result"} => mine[depth] \in 1 .. Len(runs)
    /\ at = "poll" => polled <= RunTimeout

(* The types of what a call leaves to the next one.                        *)
Data ==
    /\ mine \in [1 .. MaxRetries + 1 -> 0 .. Len(runs)]
    /\ tries \in 0 .. StatusRetries
    /\ polled \in 0 .. RunTimeout + PollInterval
    /\ waited \in Nat
    /\ runs \in Seq([of : 1 .. Len(delivery.xml), verdict : Verdicts \union {"running"}])
    /\ status \in {"ok", "failed"}
    /\ report \in [1 .. Len(delivery.xml) -> 0 .. Len(runs)]
    /\ logged \subseteq 1 .. Len(delivery.xml)
    /\ trouble \in BOOLEAN

LEMMA DeliveryType ==
    ASSUME delivery \in Deliveries
    PROVE  /\ Len(delivery.xml) \in Nat
           /\ \A l \in 1 .. Len(delivery.xml) : delivery.xml[l] \in {"inspire", "other", "missing"}
           /\ delivery.dirs \in Nat
<1>1. delivery \in [xml : Seq({"inspire", "other", "missing"}), raster : BOOLEAN, light : BOOLEAN,
                    dirs : Nat, local : BOOLEAN, excluded : BOOLEAN]
  BY InspireAssumption
<1>2. QED
  BY <1>1

(* Another run, or another verdict of one, keeps the other runs.           *)
LEMMA RunsGrow ==
    ASSUME Places, NEW l \in 1 .. Len(delivery.xml),
           runs' = Append(runs, [of |-> l, verdict |-> "running"])
    PROVE  /\ runs' \in Seq([of : 1 .. Len(delivery.xml), verdict : Verdicts \union {"running"}])
           /\ Len(runs') = Len(runs) + 1 /\ Len(runs) \in Nat
           /\ \A r \in 1 .. Len(runs) : runs'[r] = runs[r]
           /\ runs'[Len(runs')] = [of |-> l, verdict |-> "running"]
<1>1. runs \in Seq([of : 1 .. Len(delivery.xml), verdict : Verdicts \union {"running"}])
  BY DEF Places, InspireTypes
<1>2. [of |-> l, verdict |-> "running"] \in [of : 1 .. Len(delivery.xml), verdict : Verdicts \union {"running"}]
  OBVIOUS
<1>3. QED
  BY <1>1, <1>2

(* How a call returns, to its caller or to the next layer.                 *)
LEMMA Returns ==
    ASSUME Places, at \in InLayer, Return, UNCHANGED calls
    PROVE  /\ \/ at' = "layer" /\ layer' = layer + 1 /\ depth' = 0
              \/ at' = "report" /\ layer' = layer /\ depth' = depth - 1 /\ depth' \in 1 .. calls
           /\ layer \in 1 .. Len(delivery.xml) /\ Len(delivery.xml) \in Nat
<1>1. /\ layer \in 1 .. Len(delivery.xml) /\ depth \in 1 .. calls /\ calls \in 0 .. MaxRetries + 1
      /\ Len(delivery.xml) \in Nat
  BY DeliveryType DEF Places, InspireTypes
<1>2. QED
  BY <1>1, InspireAssumption DEF Return

(* Whatever has been assigned before, it returns to a proper place.        *)
LEMMA ReturnsWell ==
    ASSUME Places, at \in InLayer, Return, UNCHANGED <<delivery, calls>>, Data'
    PROVE  Places'
<1>1. \/ at' = "layer" /\ layer' = layer + 1 /\ depth' = 0
      \/ at' = "report" /\ layer' = layer /\ depth' \in 1 .. calls
  BY Returns
<1>2. layer \in 1 .. Len(delivery.xml) /\ Len(delivery.xml) \in Nat
  BY Returns
<1>3. delivery' = delivery /\ delivery \in Deliveries /\ calls' = calls /\ calls \in 0 .. MaxRetries + 1
  BY DEF Places, InspireTypes
<1>4. InspireTypes'
  BY <1>1, <1>2, <1>3, InspireAssumption DEF InspireTypes, Data, InLayer
<1>5. at' \notin Asking /\ at' \notin {"light", "poll", "result"}
  BY <1>1 DEF Asking
<1>6. QED
  BY <1>4, <1>5 DEF Places

-----------------------------------------------------------------------------
(* Each step keeps the types and the places.                               *)
LEMMA PlacesKept ==
    ASSUME Places, [InspireNext]_inspireVars
    PROVE  Places'
<1>0. /\ Len(delivery.xml) \in Nat
      /\ \A l \in 1 .. Len(delivery.xml) : delivery.xml[l] \in {"inspire", "other", "missing"}
  BY DeliveryType DEF Places, InspireTypes
<1> USE InspireAssumption DEF Places, InspireTypes, InLayer, Asking
<1>1. CASE Begin
  BY <1>1, <1>0 DEF Begin, callVars
<1>2. CASE FindMetadata
  <2>1. /\ UNCHANGED <<delivery, mine, polled, waited, runs, report, trouble, logged>>
        /\ at = "layer"
    BY <1>2 DEF FindMetadata
  <2>2. \/ at' \in {"ended", "crashed"} /\ UNCHANGED <<layer, calls, depth, tries>> /\ status' \in {"ok", "failed"}
        \/ /\ at' = "layer" /\ layer <= Len(delivery.xml) /\ layer' = layer + 1
           /\ UNCHANGED <<calls, depth, tries>> /\ status' = "failed"
        \/ /\ at' = "light" /\ layer <= Len(delivery.xml) /\ UNCHANGED <<layer, calls, depth, tries, status>>
        \/ /\ at' = "version" /\ layer <= Len(delivery.xml) /\ calls' = 1 /\ depth' = 1 /\ tries' = 0
           /\ UNCHANGED <<layer, status>>
    BY <1>2 DEF FindMetadata, Fail
  <2>3. Data'
    BY <2>1, <2>2 DEF Data
  <2>4. layer' \in 1 .. Len(delivery.xml) + 1
    BY <1>0, <2>1, <2>2
  <2>5. calls' \in 0 .. MaxRetries + 1 /\ depth' \in 0 .. calls'
    BY <2>2
  <2>6. /\ at' \in InLayer => at' = "version" /\ layer' <= Len(delivery.xml) /\ depth' \in 1 .. calls' /\ calls' = depth'
        /\ at' = "light" => layer' <= Len(delivery.xml)
        /\ at' \in {"begin", "layer", "light", "ended", "crashed"} \union InLayer
    BY <2>2
  <2>7. QED
    BY <2>1, <2>3, <2>4, <2>5, <2>6 DEF Data
<1>3. CASE ValidateLight
  <2>1. PICK v \in {"PASSED", "FAILED", "NOT_APPLICABLE"} : runs' = Append(runs, [of |-> layer, verdict |-> v])
    BY <1>3 DEF ValidateLight
  <2>2. /\ at = "light" /\ layer' = layer + 1 /\ at' = "layer" /\ status' \in {"ok", "failed"}
        /\ UNCHANGED <<delivery, calls, depth, mine, tries, polled, waited, report, trouble, logged>>
    BY <1>3 DEF ValidateLight, callVars
  <2>3. [of |-> layer, verdict |-> v] \in [of : 1 .. Len(delivery.xml), verdict : Verdicts \union {"running"}]
    BY <1>0, <2>2 DEF Verdicts, Passed
  <2>4. /\ runs' \in Seq([of : 1 .. Len(delivery.xml), verdict : Verdicts \union {"running"}])
        /\ Len(runs') = Len(runs) + 1 /\ Len(runs) \in Nat
    BY <2>1, <2>3
  <2>5. QED
    BY <1>0, <2>2, <2>4
<1>4. CASE AskVersion
  BY <1>4 DEF AskVersion, callVars
<1>5. CASE AskStatus
  <2>1. /\ at = "status" /\ UNCHANGED <<delivery, calls, mine, polled, runs, report, logged>>
        /\ waited' \in Nat
    BY <1>5 DEF AskStatus
  <2>2. CASE at' = "suite" /\ UNCHANGED <<layer, depth, tries, status, trouble>>
    BY <2>1, <2>2
  <2>3. CASE at' = at /\ tries < StatusRetries /\ tries' = tries + 1 /\ UNCHANGED <<layer, depth, status, trouble>>
    BY <2>1, <2>3
  <2>4. CASE GiveUp /\ UNCHANGED tries
    <3>1. Data'
      BY <2>1, <2>4 DEF GiveUp, Fail, Data
    <3>2. QED
      BY <2>1, <2>4, <3>1, ReturnsWell DEF GiveUp
  <2>5. QED
    BY <1>5, <2>2, <2>3, <2>4 DEF AskStatus
<1>6. CASE RetrieveSuite
  <2>1. /\ at = "suite" /\ UNCHANGED <<delivery, calls, mine, tries, polled, waited, runs, report, logged>>
    BY <1>6 DEF RetrieveSuite
  <2>2. CASE at' = "upload" /\ UNCHANGED <<layer, depth, status, trouble>>
    BY <2>1, <2>2
  <2>3. CASE GiveUp
    <3>1. Data'
      BY <2>1, <2>3 DEF GiveUp, Fail, Data
    <3>2. QED
      BY <2>1, <2>3, <3>1, ReturnsWell DEF GiveUp
  <2>4. QED
    BY <1>6, <2>2, <2>3 DEF RetrieveSuite
<1>7. CASE CreateTestObject
  <2>1. /\ at = "upload" /\ UNCHANGED <<delivery, calls, mine, tries, polled, runs, report, logged>>
        /\ waited' \in Nat
    BY <1>7 DEF CreateTestObject
  <2>2. CASE at' = "start" /\ UNCHANGED <<layer, depth, status, trouble>>
    BY <2>1, <2>2
  <2>3. CASE status' = "failed" /\ Return /\ trouble' \in BOOLEAN
    <3>1. Data'
      BY <2>1, <2>3 DEF Data
    <3>2. QED
      BY <2>1, <2>3, <3>1, ReturnsWell
  <2>4. QED
    BY <1>7, <2>2, <2>3 DEF CreateTestObject, GiveUp, Fail
<1>8. CASE StartTestRun
  <2>1. /\ at = "start" /\ UNCHANGED <<delivery, calls, tries, waited, report, logged>>
        /\ layer \in 1 .. Len(delivery.xml)
    BY <1>0, <1>8 DEF StartTestRun
  <2>2. CASE /\ runs' = Append(runs, [of |-> layer, verdict |-> "running"])
             /\ mine' = [mine EXCEPT ![depth] = Len(runs) + 1]
             /\ polled' = 0 /\ at' = "poll" /\ UNCHANGED <<layer, depth, status, trouble>>
    <3>1. /\ runs' \in Seq([of : 1 .. Len(delivery.xml), verdict : Verdicts \union {"running"}])
          /\ Len(runs') = Len(runs) + 1 /\ Len(runs) \in Nat
      BY <2>1, <2>2, RunsGrow
    <3>2. depth \in 1 .. MaxRetries + 1
      BY <2>1
    <3>3. mine' \in [1 .. MaxRetries + 1 -> 0 .. Len(runs')] /\ mine'[depth] = Len(runs')
      BY <2>2, <3>1, <3>2
    <3>4. QED
      BY <2>1, <2>2, <3>1, <3>3
  <2>3. CASE /\ GiveUp /\ UNCHANGED <<mine, polled>>
             /\ runs' \in {runs, Append(runs, [of |-> layer, verdict |-> "running"])}
    <3>1. /\ runs' \in Seq([of : 1 .. Len(delivery.xml), verdict : Verdicts \union {"running"}])
          /\ Len(runs) \in Nat /\ Len(runs') \in Nat /\ Len(runs) <= Len(runs')
      <4>1. CASE runs' = runs
        BY <4>1
      <4>2. CASE runs' = Append(runs, [of |-> layer, verdict |-> "running"])
        BY <2>1, <4>2, RunsGrow
      <4>3. QED
        BY <2>3, <4>1, <4>2
    <3>2. mine' \in [1 .. MaxRetries + 1 -> 0 .. Len(runs')] /\ report' \in [1 .. Len(delivery.xml) -> 0 .. Len(runs')]
      BY <2>1, <2>3, <3>1
    <3>3. Data'
      BY <2>1, <2>3, <3>1, <3>2 DEF GiveUp, Fail, Data
    <3>4. QED
      BY <2>1, <2>3, <3>3, ReturnsWell DEF GiveUp
  <2>4. QED
    BY <1>8, <2>2, <2>3 DEF StartTestRun
<1>9. CASE PollProgress
  <2>1. /\ at = "poll" /\ UNCHANGED <<delivery, calls, mine, tries, runs, report, logged>>
        /\ polled' = polled + PollInterval /\ waited' = waited + PollInterval
    BY <1>9 DEF PollProgress
  <2>2. CASE at' = "result" /\ UNCHANGED <<layer, depth, status, trouble>>
    BY <2>1, <2>2
  <2>3. CASE ~TimedOut(polled') /\ UNCHANGED <<layer, at, depth, status, trouble>>
    BY <2>1, <2>3 DEF TimedOut
  <2>4. CASE GiveUp
    <3>1. Data'
      BY <2>1, <2>4 DEF GiveUp, Fail, Data
    <3>2. QED
      BY <2>1, <2>4, <3>1, ReturnsWell DEF GiveUp
  <2>5. QED
    BY <1>9, <2>2, <2>3, <2>4 DEF PollProgress
<1>10. CASE RetrieveResult
  <2>1. /\ at = "result" /\ UNCHANGED <<delivery, mine, polled, runs, report, logged>>
        /\ waited' = waited + PollInterval
    BY <1>10 DEF RetrieveResult
  <2>2. CASE /\ MayRetry /\ calls' = calls + 1 /\ depth' = depth + 1 /\ tries' = 0
             /\ at' = "version" /\ UNCHANGED <<layer, status, trouble>>
    BY <2>1, <2>2 DEF MayRetry
  <2>3. CASE /\ status' \in {"ok", "failed"} /\ at' = "report"
             /\ UNCHANGED <<layer, calls, depth, tries, trouble>>
    BY <2>1, <2>3
  <2>4. CASE GiveUp /\ UNCHANGED <<calls, tries>>
    <3>1. Data'
      BY <2>1, <2>4 DEF GiveUp, Fail, Data
    <3>2. QED
      BY <2>1, <2>4, <3>1, ReturnsWell DEF GiveUp
  <2>5. QED
    BY <1>10, <2>2, <2>3, <2>4 DEF RetrieveResult
<1>11. CASE DownloadReport
  <2>1. /\ at = "report" /\ at' = "log" /\ status' \in {"ok", "failed"} /\ trouble' \in BOOLEAN
        /\ UNCHANGED <<delivery, layer, callVars, waited, runs, logged>>
    BY <1>11 DEF DownloadReport
  <2>2. mine[depth] \in 0 .. Len(runs)
    BY <2>1
  <2>3. report' = report \/ report' = [report EXCEPT ![layer] = mine[depth]]
    BY <1>11 DEF DownloadReport
  <2>4. report' \in [1 .. Len(delivery.xml) -> 0 .. Len(runs)]
    BY <2>2, <2>3
  <2>5. QED
    BY <2>1, <2>4 DEF callVars
<1>12. CASE DownloadLog
  <2>1. /\ at = "log" /\ Return /\ status' \in {"ok", "failed"} /\ trouble' \in BOOLEAN
        /\ logged' \subseteq 1 .. Len(delivery.xml)
        /\ UNCHANGED <<delivery, calls, mine, tries, polled, waited, runs, report>>
    <3>1. layer \in 1 .. Len(delivery.xml)
      BY <1>0, <1>12 DEF DownloadLog
    <3>2. QED
      BY <1>12, <3>1 DEF DownloadLog
  <2>2. Data'
    BY <2>1 DEF Data
  <2>3. QED
    BY <2>1, <2>2, ReturnsWell
<1>13. CASE ServiceEndsRun
  <2>1. PICK r \in 1 .. Len(runs), v \in Verdicts : runs' = [runs EXCEPT ![r] = [of |-> runs[r].of, verdict |-> v]]
    BY <1>13 DEF ServiceEndsRun
  <2>2. /\ runs' \in Seq([of : 1 .. Len(delivery.xml), verdict : Verdicts \union {"running"}])
        /\ Len(runs') = Len(runs)
    <3> DEFINE Runs == [of : 1 .. Len(delivery.xml), verdict : Verdicts \union {"running"}]
    <3>1. runs \in Seq(Runs) /\ r \in 1 .. Len(runs)
      OBVIOUS
    <3> HIDE DEF Places, Runs
    <3>2. runs[r] \in Runs
      BY <3>1
    <3>3. [of |-> runs[r].of, verdict |-> v] \in [of : 1 .. Len(delivery.xml), verdict : Verdicts \union {"running"}]
      BY <3>2 DEF Runs
    <3>4. QED
      BY <2>1, <3>1, <3>3 DEF Runs
  <2>3. QED
    BY <1>13, <2>2 DEF ServiceEndsRun, callVars
<1>14. CASE UNCHANGED inspireVars
  BY <1>14 DEF inspireVars, callVars
<1>15. QED
  BY <1>1, <1>2, <1>3, <1>4, <1>5, <1>6, <1>7, <1>8, <1>9, <1>10, <1>11, <1>12, <1>13, <1>14
  DEF InspireNext, ClientNext

LEMMA PlacesAtFirst ==
    ASSUME InspireInit
    PROVE  Places
<1>1. Len(delivery.xml) \in Nat /\ delivery \in Deliveries
  BY DeliveryType DEF InspireInit
<1>2. Data
  <2>1. /\ runs = <<>> /\ Len(runs) = 0
        /\ runs \in Seq([of : 1 .. Len(delivery.xml), verdict : Verdicts \union {"running"}])
    BY DEF InspireInit
  <2>2. mine \in [1 .. MaxRetries + 1 -> 0 .. Len(runs)] /\ report \in [1 .. Len(delivery.xml) -> 0 .. Len(runs)]
    BY <2>1 DEF InspireInit
  <2>3. tries = 0 /\ polled = 0 /\ waited = 0 /\ status = "ok" /\ logged = {} /\ trouble = FALSE
    BY DEF InspireInit
  <2>4. 0 \in 0 .. StatusRetries /\ 0 \in 0 .. RunTimeout + PollInterval
    BY InspireAssumption
  <2>5. QED
    BY <2>1, <2>2, <2>3, <2>4 DEF Data
<1>3. /\ layer = 1 /\ at = "begin" /\ calls = 0 /\ depth = 0
  BY DEF InspireInit
<1>4. QED
  BY <1>1, <1>2, <1>3, InspireAssumption DEF Data, Places, InspireTypes, InLayer, Asking

(* The variables keep their types; as the calls are counted, the check     *)
(* never makes more than MaxRetries + 1 of them for a layer.               *)
THEOREM InspireTypeInvariant == InspireSpec => []InspireTypes
<1>1. InspireSpec => []Places
  BY PlacesAtFirst, PlacesKept, PTL DEF InspireSpec
<1>2. Places => InspireTypes
  BY DEF Places
<1>3. QED
  BY <1>1, <1>2, PTL

-----------------------------------------------------------------------------
(* How long the check sleeps.  Asleep is the most the newest call can have *)
(* slept when it is at its place; its callers have slept PerCall at most,  *)
(* and each layer before PerLayer.                                         *)
Asleep ==
    IF at = "version" THEN 0
    ELSE IF at \in {"status", "suite", "upload"} THEN tries * StatusInterval
    ELSE IF at = "start" THEN StatusRetries * StatusInterval + PollInterval
    ELSE IF at = "poll" THEN StatusRetries * StatusInterval + PollInterval + polled
    ELSE IF at = "result" THEN StatusRetries * StatusInterval + 2 * PollInterval + RunTimeout
    ELSE PerCall

WaitInv ==
    IF at \in InLayer THEN waited <= (layer - 1) * PerLayer + (calls - 1) * PerCall + Asleep
    ELSE waited <= (layer - 1) * PerLayer

LEMMA Times ==
    ASSUME NEW a \in Nat, NEW b \in Nat, NEW c \in Nat
    PROVE  /\ a * c \in Nat
           /\ (a + 1) * c = a * c + c
           /\ a <= b => a * c <= b * c
OBVIOUS

LEMMA Lengths == PerCall \in Nat /\ PerLayer \in Nat /\ StatusRetries * StatusInterval \in Nat
BY InspireAssumption, Times DEF PerCall, PerLayer

(* A call that returns has slept no longer than a call may.                *)
LEMMA ReturnsInTime ==
    ASSUME Places, at \in InLayer, Return, UNCHANGED calls, waited' \in Nat,
           waited' <= (layer - 1) * PerLayer + (calls - 1) * PerCall + PerCall
    PROVE  WaitInv'
<1>1. /\ layer \in Nat \ {0} /\ calls \in Nat \ {0} /\ calls <= MaxRetries + 1
      /\ PerCall \in Nat /\ PerLayer \in Nat /\ MaxRetries \in Nat
  BY InspireAssumption, Returns, Lengths DEF Places, InspireTypes
<1>2. (calls - 1) * PerCall + PerCall = calls * PerCall
  BY <1>1, Times
<1>3. CASE at' = "layer" /\ layer' = layer + 1
  <2>1. calls * PerCall <= PerLayer
    BY <1>1, Times DEF PerLayer
  <2>2. (layer - 1) * PerLayer + PerLayer = layer * PerLayer /\ layer * PerLayer \in Nat
        /\ (layer - 1) * PerLayer \in Nat
    BY <1>1, Times
  <2>3. calls * PerCall \in Nat /\ (calls - 1) * PerCall \in Nat
    BY <1>1, Times
  <2>4. waited' <= layer * PerLayer
    BY <1>1, <1>2, <2>1, <2>2, <2>3
  <2>5. layer' - 1 = layer
    BY <1>1, <1>3
  <2>6. QED
    BY <1>3, <2>4, <2>5 DEF WaitInv, InLayer
<1>4. CASE at' = "report" /\ layer' = layer
  <2>1. Asleep' = PerCall
    BY <1>4 DEF Asleep, PerCall
  <2>2. QED
    BY <1>4, <2>1 DEF WaitInv, InLayer, PerLayer, PerCall
<1>5. QED
  BY <1>3, <1>4, Returns

(* Each step keeps within its share.                                       *)
LEMMA WaitKept ==
    ASSUME Places, WaitInv, [InspireNext]_inspireVars
    PROVE  WaitInv'
<1> DEFINE before == (layer - 1) * PerLayer + (calls - 1) * PerCall
<1>1. /\ StatusRetries * StatusInterval \in Nat /\ PollInterval \in Nat /\ RunTimeout \in Nat
      /\ StatusInterval \in Nat /\ PerLayer \in Nat
      /\ PerCall = StatusRetries * StatusInterval + RunTimeout + 3 * PollInterval
  BY InspireAssumption, Lengths DEF PerCall
<1>2. /\ layer \in Nat \ {0} /\ calls \in Nat /\ tries \in Nat /\ tries <= StatusRetries /\ StatusRetries \in Nat
      /\ polled \in Nat /\ waited \in Nat /\ (at = "poll" => polled <= RunTimeout)
      /\ at \in InLayer => calls \in Nat \ {0}
  BY InspireAssumption, DeliveryType DEF Places, InspireTypes
<1>3. tries * StatusInterval \in Nat /\ tries * StatusInterval <= StatusRetries * StatusInterval
  BY <1>1, <1>2, Times
<1>4. at \in InLayer => before \in Nat
  BY <1>1, <1>2, Times, Lengths
<1>5. at \in InLayer => waited <= before + Asleep
  BY DEF WaitInv
<1>6. ASSUME at \in InLayer, Return, UNCHANGED calls, waited' \in Nat, waited' <= before + PerCall PROVE WaitInv'
  BY <1>6, ReturnsInTime
<1>7. ASSUME at \in InLayer, UNCHANGED <<layer, calls>>, at' \in InLayer, waited' <= before + Asleep' PROVE WaitInv'
  BY <1>7 DEF WaitInv
<1> HIDE DEF before
<1>8. CASE Begin
  BY <1>8 DEF Begin, callVars, WaitInv, InLayer
<1>9. CASE FindMetadata
  <2>1. (layer - 1) * PerLayer \in Nat /\ layer * PerLayer = (layer - 1) * PerLayer + PerLayer
    BY <1>1, <1>2, Times
  <2>2. at = "layer" /\ waited <= (layer - 1) * PerLayer /\ waited' = waited
    BY <1>9 DEF FindMetadata, WaitInv, InLayer
  <2>3. CASE at' \in {"ended", "crashed", "light"} /\ layer' = layer
    BY <2>2, <2>3 DEF WaitInv, InLayer
  <2>4. CASE at' = "layer" /\ layer' = layer + 1
    <3>1. layer' - 1 = layer /\ waited <= layer * PerLayer
      BY <1>1, <1>2, <2>1, <2>2, <2>4
    <3>2. QED
      BY <2>2, <2>4, <3>1 DEF WaitInv, InLayer
  <2>5. CASE at' = "version" /\ calls' = 1 /\ layer' = layer
    <3>1. (calls' - 1) * PerCall = 0 /\ Asleep' = 0
      BY <1>1, <2>5, Times, Lengths DEF Asleep
    <3>2. QED
      BY <2>1, <2>2, <2>5, <3>1 DEF WaitInv, InLayer
  <2>6. QED
    BY <1>9, <2>2, <2>3, <2>4, <2>5 DEF FindMetadata
<1>10. CASE ValidateLight
  <2>1. (layer - 1) * PerLayer \in Nat /\ layer * PerLayer = (layer - 1) * PerLayer + PerLayer
    BY <1>1, <1>2, Times
  <2>2. at = "light" /\ waited <= (layer - 1) * PerLayer /\ waited' = waited /\ at' = "layer" /\ layer' = layer + 1
    BY <1>10 DEF ValidateLight, WaitInv, InLayer
  <2>3. layer' - 1 = layer /\ waited <= layer * PerLayer
    BY <1>1, <1>2, <2>1, <2>2
  <2>4. QED
    BY <2>2, <2>3 DEF WaitInv, InLayer
<1>11. CASE AskVersion
  <2>1. at = "version" /\ at' = "status" /\ UNCHANGED <<layer, callVars, waited>>
    BY <1>11 DEF AskVersion
  <2>2. Asleep = 0 /\ Asleep' = tries * StatusInterval
    BY <2>1 DEF Asleep, callVars
  <2>3. waited' <= before + Asleep'
    BY <1>2, <1>3, <1>4, <1>5, <2>1, <2>2 DEF InLayer
  <2>4. QED
    BY <1>7, <2>1, <2>3 DEF InLayer, callVars
<1>12. CASE AskStatus
  <2>1. at = "status" /\ calls' = calls /\ Asleep = tries * StatusInterval /\ at \in InLayer
    BY <1>12 DEF AskStatus, Asleep, InLayer
  <2>2. CASE at' = "suite" /\ UNCHANGED <<layer, tries, waited>>
    <3>1. Asleep' = tries * StatusInterval
      BY <2>2 DEF Asleep
    <3>2. QED
      BY <1>5, <1>7, <2>1, <2>2, <3>1 DEF InLayer
  <2>3. CASE at' = at /\ layer' = layer /\ tries' = tries + 1 /\ waited' = waited + StatusInterval
    <3>1. Asleep' = tries' * StatusInterval /\ tries' * StatusInterval = tries * StatusInterval + StatusInterval
      BY <1>1, <1>2, <2>1, <2>3, Times DEF Asleep
    <3>2. waited' <= before + Asleep'
      BY <1>1, <1>2, <1>3, <1>4, <1>5, <2>1, <2>3, <3>1
    <3>3. QED
      BY <1>7, <2>1, <2>3, <3>2
  <2>4. CASE GiveUp /\ waited' = waited
    BY <1>1, <1>2, <1>3, <1>4, <1>5, <1>6, <2>1, <2>4 DEF GiveUp
  <2>5. QED
    BY <1>12, <2>2, <2>3, <2>4 DEF AskStatus
<1>13. CASE RetrieveSuite
  <2>1. at = "suite" /\ UNCHANGED <<calls, tries, waited>> /\ Asleep = tries * StatusInterval /\ at \in InLayer
    BY <1>13 DEF RetrieveSuite, Asleep, InLayer
  <2>2. CASE at' = "upload" /\ layer' = layer
    <3>1. Asleep' = tries * StatusInterval
      BY <2>1, <2>2 DEF Asleep
    <3>2. QED
      BY <1>5, <1>7, <2>1, <2>2, <3>1 DEF InLayer
  <2>3. CASE GiveUp
    BY <1>1, <1>2, <1>3, <1>4, <1>5, <1>6, <2>1, <2>3 DEF GiveUp
  <2>4. QED
    BY <1>13, <2>2, <2>3 DEF RetrieveSuite
<1>14. CASE CreateTestObject
  <2>1. at = "upload" /\ calls' = calls /\ Asleep = tries * StatusInterval /\ at \in InLayer
    BY <1>14 DEF CreateTestObject, Asleep, InLayer
  <2>2. CASE at' = "start" /\ layer' = layer /\ waited' = waited + PollInterval
    <3>1. Asleep' = StatusRetries * StatusInterval + PollInterval
      BY <2>2 DEF Asleep
    <3>2. waited' <= before + Asleep'
      BY <1>1, <1>2, <1>3, <1>4, <1>5, <2>1, <2>2, <3>1
    <3>3. QED
      BY <1>7, <2>1, <2>2, <3>2 DEF InLayer
  <2>3. CASE Return /\ waited' = waited
    BY <1>1, <1>2, <1>3, <1>4, <1>5, <1>6, <2>1, <2>3
  <2>4. QED
    BY <1>14, <2>2, <2>3 DEF CreateTestObject, GiveUp
<1>15. CASE StartTestRun
  <2>1. at = "start" /\ UNCHANGED <<calls, waited>> /\ at \in InLayer
        /\ Asleep = StatusRetries * StatusInterval + PollInterval
    BY <1>15 DEF StartTestRun, Asleep, InLayer
  <2>2. CASE at' = "poll" /\ layer' = layer /\ polled' = 0
    <3>1. Asleep' = StatusRetries * StatusInterval + PollInterval + 0
      BY <2>2 DEF Asleep
    <3>2. waited' <= before + Asleep'
      BY <1>1, <1>2, <1>4, <1>5, <2>1, <3>1
    <3>3. QED
      BY <1>7, <2>1, <2>2, <3>2 DEF InLayer
  <2>3. CASE GiveUp
    BY <1>1, <1>2, <1>4, <1>5, <1>6, <2>1, <2>3 DEF GiveUp
  <2>4. QED
    BY <1>15, <2>2, <2>3 DEF StartTestRun
<1>16. CASE PollProgress
  <2>1. /\ at = "poll" /\ calls' = calls /\ at \in InLayer
        /\ polled' = polled + PollInterval /\ waited' = waited + PollInterval
        /\ Asleep = StatusRetries * StatusInterval + PollInterval + polled
    BY <1>16 DEF PollProgress, Asleep, InLayer
  <2>2. CASE at' \in {"poll", "result"} /\ layer' = layer
    <3>1. Asleep' = IF at' = "poll" THEN StatusRetries * StatusInterval + PollInterval + polled'
                    ELSE StatusRetries * StatusInterval + 2 * PollInterval + RunTimeout
      BY <2>2 DEF Asleep
    <3>2. waited' <= before + Asleep'
      BY <1>1, <1>2, <1>4, <1>5, <2>1, <2>2, <3>1
    <3>3. QED
      BY <1>7, <2>1, <2>2, <3>2 DEF InLayer
  <2>3. CASE GiveUp
    BY <1>1, <1>2, <1>4, <1>5, <1>6, <2>1, <2>3 DEF GiveUp
  <2>4. QED
    BY <1>16, <2>1, <2>2, <2>3 DEF PollProgress
<1>17. CASE RetrieveResult
  <2>1. /\ at = "result" /\ waited' = waited + PollInterval /\ at \in InLayer
        /\ Asleep = StatusRetries * StatusInterval + 2 * PollInterval + RunTimeout
    BY <1>17 DEF RetrieveResult, Asleep, InLayer
  <2>2. waited' <= before + PerCall /\ waited' \in Nat
    BY <1>1, <1>2, <1>4, <1>5, <2>1
  <2>3. CASE at' = "version" /\ layer' = layer /\ calls' = calls + 1
    <3>1. Asleep' = 0 /\ calls \in Nat \ {0}
      BY <1>2, <2>1, <2>3 DEF Asleep
    <3>2. calls' - 1 = calls /\ (calls - 1) * PerCall + PerCall = calls * PerCall
          /\ (calls - 1) * PerCall \in Nat /\ calls * PerCall \in Nat /\ (layer - 1) * PerLayer \in Nat
      BY <1>2, <2>3, <3>1, Times, Lengths
    <3>3. before + PerCall = (layer - 1) * PerLayer + calls * PerCall
      BY <3>2, Lengths DEF before
    <3>4. QED
      BY <2>2, <2>3, <3>1, <3>2, <3>3 DEF WaitInv, InLayer
  <2>4. CASE at' = "report" /\ UNCHANGED <<layer, calls>>
    <3>1. Asleep' = PerCall
      BY <2>4 DEF Asleep, PerCall
    <3>2. QED
      BY <1>7, <2>1, <2>2, <2>4, <3>1 DEF InLayer
  <2>5. CASE GiveUp /\ calls' = calls
    BY <1>6, <2>1, <2>2, <2>5 DEF GiveUp
  <2>6. QED
    BY <1>17, <2>3, <2>4, <2>5 DEF RetrieveResult
<1>18. CASE DownloadReport
  <2>1. at = "report" /\ at' = "log" /\ UNCHANGED <<layer, calls, waited>> /\ at \in InLayer
    BY <1>18 DEF DownloadReport, callVars, InLayer
  <2>2. Asleep = PerCall /\ Asleep' = PerCall
    BY <2>1 DEF Asleep, PerCall
  <2>3. QED
    BY <1>5, <1>7, <2>1, <2>2 DEF InLayer
<1>19. CASE DownloadLog
  <2>1. at = "log" /\ Return /\ UNCHANGED <<calls, waited>> /\ at \in InLayer
    BY <1>19 DEF DownloadLog, InLayer
  <2>2. Asleep = PerCall
    BY <2>1 DEF Asleep
  <2>3. QED
    BY <1>2, <1>5, <1>6, <2>1, <2>2
<1>20. CASE ServiceEndsRun \/ UNCHANGED inspireVars
  <2>1. UNCHANGED <<layer, at, calls, tries, polled, waited>>
    BY <1>20 DEF ServiceEndsRun, inspireVars, callVars
  <2>2. Asleep' = Asleep
    BY <2>1 DEF Asleep, PerCall
  <2>3. QED
    BY <2>1, <2>2 DEF WaitInv, PerLayer, PerCall
<1>21. QED
  BY <1>8, <1>9, <1>10, <1>11, <1>12, <1>13, <1>14, <1>15, <1>16, <1>17, <1>18, <1>19, <1>20
  DEF InspireNext, ClientNext

(* However slow the service is, the check sleeps no longer than its        *)
(* intervals, timeouts and retries add up to.                              *)
THEOREM SleepIsBounded == InspireSpec => []WaitIsBounded
<1>1. InspireInit => WaitInv
  <2> SUFFICES ASSUME InspireInit PROVE WaitInv
    OBVIOUS
  <2>1. at = "begin" /\ layer = 1 /\ waited = 0
    BY DEF InspireInit
  <2>2. QED
    BY <2>1, Lengths DEF WaitInv, InLayer
<1>2. Places /\ WaitInv => WaitIsBounded
  <2> SUFFICES ASSUME Places, WaitInv PROVE WaitIsBounded
    OBVIOUS
  <2>1. /\ layer \in 1 .. Len(delivery.xml) + 1 /\ Len(delivery.xml) \in Nat /\ waited \in Nat
        /\ calls \in Nat /\ calls <= MaxRetries + 1 /\ MaxRetries \in Nat
        /\ at \in InLayer => layer <= Len(delivery.xml) /\ calls \in Nat \ {0}
    BY InspireAssumption, DeliveryType DEF Places, InspireTypes
  <2>2. PerLayer \in Nat /\ PerCall \in Nat
    BY Lengths
  <2>3. CASE at \notin InLayer
    <3>1. (layer - 1) * PerLayer <= Len(delivery.xml) * PerLayer
      BY <2>1, <2>2, Times
    <3>2. QED
      BY <2>1, <2>2, <2>3, <3>1, Times DEF WaitInv, WaitIsBounded
  <2>4. CASE at \in InLayer
    <3>1. Asleep <= PerCall /\ Asleep \in Nat
      <4>1. /\ StatusRetries * StatusInterval \in Nat /\ PollInterval \in Nat /\ RunTimeout \in Nat
            /\ PerCall = StatusRetries * StatusInterval + RunTimeout + 3 * PollInterval
        BY InspireAssumption, Lengths DEF PerCall
      <4>2. tries * StatusInterval \in Nat /\ tries * StatusInterval <= StatusRetries * StatusInterval
        BY InspireAssumption, Times DEF Places, InspireTypes
      <4>3. polled \in Nat /\ (at = "poll" => polled <= RunTimeout)
        BY InspireAssumption DEF Places, InspireTypes
      <4>4. QED
        BY <4>1, <4>2, <4>3 DEF Asleep
    <3>2. (calls - 1) * PerCall + PerCall = calls * PerCall /\ (calls - 1) * PerCall \in Nat
      BY <2>1, <2>2, <2>4, Times
    <3>3. calls * PerCall <= PerLayer
      BY <2>1, <2>2, Times DEF PerLayer
    <3>4. (layer - 1) * PerLayer + PerLayer = layer * PerLayer /\ layer * PerLayer <= Len(delivery.xml) * PerLayer
          /\ (layer - 1) * PerLayer \in Nat /\ Len(delivery.xml) * PerLayer \in Nat
      BY <2>1, <2>2, <2>4, Times
    <3>5. waited <= (layer - 1) * PerLayer + (calls - 1) * PerCall + Asleep
      BY <2>4 DEF WaitInv
    <3>6. QED
      BY <2>1, <2>2, <3>1, <3>2, <3>3, <3>4, <3>5 DEF WaitIsBounded
  <2>5. QED
    BY <2>3, <2>4
<1>3. QED
  BY <1>1, <1>2, PlacesAtFirst, PlacesKept, WaitKept, PTL DEF InspireSpec

-----------------------------------------------------------------------------
(* What the runs of a layer are like while nothing has failed: each call   *)
(* that has one waits for the next call, which had it because the run was  *)
(* undefined; the newest call reads the last verdict.                      *)
Skipped == delivery.excluded /\ ~delivery.raster

Bad == {"FAILED", "UNDEFINED", "running"}

Passes(l) ==
    \E last \in Of(l) :
        /\ runs[last].verdict \notin Bad
        /\ \A r \in Of(l) \ {last} : r < last /\ runs[r].verdict = "UNDEFINED"

Counted == IF at \in {"poll", "result", "report", "log"} THEN calls ELSE calls - 1

Stack ==
    /\ Of(layer) = {mine[c] : c \in 1 .. Counted}
    /\ \A c, d \in 1 .. Counted : c < d => mine[c] < mine[d]
    /\ \A c \in 1 .. calls - 1 : runs[mine[c]].verdict = "UNDEFINED"
    /\ at = "result" => runs[mine[calls]].verdict # "running"
    /\ at \in {"report", "log"} => runs[mine[calls]].verdict \notin Bad

OkInv ==
    status = "ok" /\ ~Skipped =>
        /\ \A l \in 1 .. layer - 1 : Passes(l)
        /\ \A l \in 1 .. Len(delivery.xml) : l > layer => Of(l) = {}
        /\ at \in {"begin", "layer", "light"} /\ layer <= Len(delivery.xml) => Of(layer) = {}
        /\ at = "ended" => layer > Len(delivery.xml)
        /\ at \in InLayer => Stack

(* A layer whose newest call has read a good verdict passes.               *)
LEMMA StackPasses ==
    ASSUME Places, Stack, at \in {"report", "log"}
    PROVE  Passes(layer)
<1>1. Counted = calls /\ calls \in Nat \ {0} /\ calls <= MaxRetries + 1
      /\ mine \in [1 .. MaxRetries + 1 -> 0 .. Len(runs)] /\ Len(runs) \in Nat
  BY InspireAssumption DEF Places, InspireTypes, InLayer, Counted
<1>2. mine[calls] \in Of(layer) /\ runs[mine[calls]].verdict \notin Bad
  BY <1>1 DEF Stack
<1>3. ASSUME NEW r \in Of(layer), r # mine[calls] PROVE r < mine[calls] /\ runs[r].verdict = "UNDEFINED"
  <2>1. PICK c \in 1 .. calls : r = mine[c]
    BY <1>1 DEF Stack
  <2>2. c < calls /\ c \in 1 .. calls - 1
    BY <1>1, <1>3, <2>1
  <2>3. QED
    BY <1>1, <2>1, <2>2 DEF Stack
<1>4. QED
  BY <1>2, <1>3 DEF Passes

(* A step that leaves the runs, and fails or keeps the place in the layers, *)
(* is no matter for the layers before.                                     *)
LEMMA SameRuns ==
    ASSUME UNCHANGED runs, NEW l
    PROVE  Of(l)' = Of(l) /\ (Passes(l)' <=> Passes(l))
BY DEF Of, Passes

LEMMA StaysInLayer ==
    ASSUME Places, OkInv, at \in InLayer, at' \in InLayer, UNCHANGED <<delivery, layer, runs>>,
           status' = "ok" => status = "ok",
           status = "ok" /\ status' = "ok" /\ Stack => Stack'
    PROVE  OkInv'
<1>1. Skipped' = Skipped
  BY DEF Skipped
<1>2. at \notin {"begin", "layer", "light", "ended"} /\ at' \notin {"begin", "layer", "light", "ended"}
  BY DEF InLayer
<1> SUFFICES ASSUME status' = "ok", ~Skipped PROVE OkInv'
  BY <1>1 DEF OkInv
<1>3. /\ \A l \in 1 .. layer - 1 : Passes(l)
      /\ \A l \in 1 .. Len(delivery.xml) : l > layer => Of(l) = {}
      /\ Stack'
  BY DEF OkInv
<1>4. QED
  BY <1>1, <1>2, <1>3, SameRuns DEF OkInv

LEMMA OkKept ==
    ASSUME Places, OkInv, [InspireNext]_inspireVars
    PROVE  OkInv'
<1>0. /\ layer \in 1 .. Len(delivery.xml) + 1 /\ Len(delivery.xml) \in Nat /\ Len(runs) \in Nat
      /\ at \in InLayer => layer \in 1 .. Len(delivery.xml) /\ depth \in 1 .. calls /\ calls \in Nat \ {0}
      /\ at \in Asking => calls = depth
      /\ status \in {"ok", "failed"}
  BY InspireAssumption, DeliveryType DEF Places, InspireTypes
<1>a. ASSUME status' = "failed" PROVE OkInv'
  BY <1>a DEF OkInv
<1>b. ASSUME GiveUp PROVE OkInv'
  BY <1>a, <1>b DEF GiveUp, Fail
<1>1. CASE Begin
  BY <1>0, <1>1, SameRuns DEF Begin, OkInv, Skipped, InLayer
<1>2. CASE FindMetadata
  <2>1. at = "layer" /\ UNCHANGED <<delivery, mine, runs>> /\ at \notin InLayer
    BY <1>2 DEF FindMetadata, InLayer
  <2>2. CASE at' = "ended" /\ layer > Len(delivery.xml) /\ UNCHANGED <<layer, status>>
    BY <1>0, <2>1, <2>2, SameRuns DEF OkInv, Skipped, InLayer
  <2>3. CASE at' \in {"crashed", "light"} /\ UNCHANGED <<layer, status>>
    BY <1>0, <2>1, <2>3, SameRuns DEF OkInv, Skipped, InLayer
  <2>4. CASE at' = "version" /\ layer <= Len(delivery.xml) /\ calls' = 1 /\ UNCHANGED <<layer, status>>
    <3>1. Counted' = 0
      BY <2>4 DEF Counted
    <3>2. Of(layer)' = {} => Stack'
      BY <2>4, <3>1 DEF Stack
    <3>3. QED
      BY <1>0, <2>1, <2>4, <3>2, SameRuns DEF OkInv, Skipped, InLayer
  <2>5. CASE status' = "failed"
    BY <1>a, <2>5
  <2>6. QED
    BY <1>2, <2>2, <2>3, <2>4, <2>5 DEF FindMetadata, Fail
<1>3. CASE ValidateLight
  <2> SUFFICES ASSUME status' = "ok", ~Skipped PROVE OkInv'
    BY <1>3 DEF OkInv, Skipped, ValidateLight
  <2>1. /\ at = "light" /\ layer' = layer + 1 /\ at' = "layer" /\ delivery' = delivery /\ status = "ok"
        /\ layer \in 1 .. Len(delivery.xml)
    BY <1>0, <1>3 DEF ValidateLight, Places
  <2>2. PICK v \in {"PASSED", "NOT_APPLICABLE"} : runs' = Append(runs, [of |-> layer, verdict |-> v])
    BY <1>3, <2>1 DEF ValidateLight
  <2>3. /\ Len(runs') = Len(runs) + 1 /\ runs'[Len(runs) + 1] = [of |-> layer, verdict |-> v]
        /\ \A r \in 1 .. Len(runs) : runs'[r] = runs[r]
    BY <2>2 DEF Places, InspireTypes
  <2>4. \A l : Of(l)' = IF l = layer THEN Of(l) \union {Len(runs) + 1} ELSE Of(l)
    BY <1>0, <2>3 DEF Of
  <2>5. PICK n : n = layer
    OBVIOUS
  <2>6. Passes(n)'
    <3>1. Of(n)' = {Len(runs) + 1}
      BY <2>1, <2>4, <2>5 DEF OkInv
    <3>2. QED
      BY <2>3, <3>1 DEF Passes, Bad
  <2>7. ASSUME NEW l \in 1 .. layer - 1 PROVE Passes(l)'
    <3>1. Passes(l) /\ l # layer
      BY <1>0, <2>1 DEF OkInv
    <3>2. Of(l)' = Of(l) /\ \A r \in Of(l) : runs'[r] = runs[r]
      BY <2>3, <2>4, <3>1 DEF Of
    <3>3. QED
      BY <3>1, <3>2 DEF Passes
  <2>8. \A l \in 1 .. Len(delivery.xml) : l >= layer' => Of(l)' = {}
    BY <1>0, <2>1, <2>4 DEF OkInv
  <2>9. \A l \in 1 .. layer' - 1 : Passes(l)'
    <3>1. \A l \in 1 .. layer' - 1 : l \in 1 .. layer - 1 \/ l = n
      BY <1>0, <2>1, <2>5
    <3>2. QED
      BY <2>6, <2>7, <3>1
  <2>10. QED
    BY <1>0, <2>1, <2>8, <2>9 DEF OkInv, InLayer
<1>4. CASE AskVersion \/ (AskStatus /\ ~GiveUp) \/ (RetrieveSuite /\ ~GiveUp)
           \/ (CreateTestObject /\ at' = "start" /\ UNCHANGED status)
  <2>1. /\ at \in {"version", "status", "suite", "upload"} /\ at' \in {"status", "suite", "upload", "start"}
        /\ UNCHANGED <<delivery, layer, calls, mine, runs, status>>
    <3>1. CASE AskVersion
      BY <3>1 DEF AskVersion, callVars
    <3>2. CASE AskStatus /\ ~GiveUp
      BY <3>2 DEF AskStatus
    <3>3. CASE RetrieveSuite /\ ~GiveUp
      BY <3>3 DEF RetrieveSuite
    <3>4. CASE CreateTestObject /\ at' = "start" /\ UNCHANGED status
      <4>1. ~Return
        BY <3>4 DEF Return
      <4>2. QED
        BY <3>4, <4>1 DEF CreateTestObject, GiveUp
    <3>5. QED
      BY <1>4, <3>1, <3>2, <3>3, <3>4
  <2>2. Counted' = Counted
    BY <2>1 DEF Counted
  <2>3. Stack' <=> Stack
    BY <2>1, <2>2, SameRuns DEF Stack
  <2>4. QED
    BY <2>1, <2>3, StaysInLayer DEF InLayer
<1>5. CASE CreateTestObject
  BY <1>a, <1>4, <1>5 DEF CreateTestObject, GiveUp, Fail
<1>6. CASE StartTestRun
  <2>1. CASE GiveUp
    BY <1>b, <2>1
  <2>2. CASE /\ runs' = Append(runs, [of |-> layer, verdict |-> "running"])
             /\ mine' = [mine EXCEPT ![depth] = Len(runs) + 1]
             /\ at' = "poll" /\ UNCHANGED <<layer, depth, status, trouble>>
    <3> SUFFICES ASSUME status = "ok", ~Skipped PROVE OkInv'
      BY <1>6, <2>2 DEF OkInv, Skipped, StartTestRun
    <3>1. /\ at = "start" /\ UNCHANGED <<delivery, calls>> /\ calls = depth
          /\ calls \in 1 .. MaxRetries + 1 /\ layer \in 1 .. Len(delivery.xml) /\ Stack
          /\ mine \in [1 .. MaxRetries + 1 -> 0 .. Len(runs)]
      BY <1>0, <1>6, InspireAssumption DEF StartTestRun, InLayer, Asking, Places, InspireTypes, OkInv
    <3>2. /\ Len(runs') = Len(runs) + 1 /\ runs'[Len(runs) + 1] = [of |-> layer, verdict |-> "running"]
          /\ \A r \in 1 .. Len(runs) : runs'[r] = runs[r]
      BY <2>2, <3>1, RunsGrow
    <3>3. \A l : Of(l)' = IF l = layer THEN Of(l) \union {Len(runs) + 1} ELSE Of(l)
      BY <1>0, <3>2 DEF Of
    <3>4. Counted = calls - 1 /\ Counted' = calls
      BY <2>2, <3>1 DEF Counted
    <3>5. /\ mine'[calls] = Len(runs) + 1
          /\ \A c \in 1 .. calls - 1 : mine'[c] = mine[c] /\ mine[c] \in Of(layer) /\ mine[c] \in 1 .. Len(runs)
      BY <2>2, <3>1, <3>4, InspireAssumption DEF Stack, Of
    <3>6. Stack'
      <4>1. Of(layer)' = {mine'[c] : c \in 1 .. calls}
        <5>1. 1 .. calls = (1 .. calls - 1) \union {calls}
          BY <3>1
        <5>2. {mine'[c] : c \in 1 .. calls} = {mine[c] : c \in 1 .. calls - 1} \union {Len(runs) + 1}
          BY <3>5, <5>1
        <5>3. QED
          BY <2>2, <3>1, <3>3, <3>4, <5>2 DEF Stack
      <4>2. \A c, d \in 1 .. calls : c < d => mine'[c] < mine'[d]
        <5> SUFFICES ASSUME NEW c \in 1 .. calls, NEW d \in 1 .. calls, c < d PROVE mine'[c] < mine'[d]
          OBVIOUS
        <5>1. CASE d = calls
          BY <1>0, <3>1, <3>5, <5>1
        <5>2. CASE d # calls
          BY <3>1, <3>4, <3>5, <5>2 DEF Stack
        <5>3. QED
          BY <5>1, <5>2
      <4>3. \A c \in 1 .. calls - 1 : runs'[mine'[c]].verdict = "UNDEFINED"
        BY <3>1, <3>2, <3>5 DEF Stack
      <4>4. QED
        BY <2>2, <3>1, <3>4, <4>1, <4>2, <4>3 DEF Stack
    <3>7. ASSUME NEW l \in 1 .. layer - 1 PROVE Passes(l)'
      <4>1. Passes(l) /\ l # layer
        BY <1>0 DEF OkInv
      <4>2. Of(l)' = Of(l) /\ \A r \in Of(l) : runs'[r] = runs[r]
        BY <3>2, <3>3, <4>1 DEF Of
      <4>3. QED
        BY <4>1, <4>2 DEF Passes
    <3>8. \A l \in 1 .. Len(delivery.xml) : l > layer => Of(l)' = {}
      BY <1>0, <3>3 DEF OkInv
    <3>9. QED
      BY <2>2, <3>1, <3>6, <3>7, <3>8 DEF OkInv
  <2>3. QED
    BY <1>6, <2>1, <2>2 DEF StartTestRun
<1>7. CASE PollProgress
  <2>1. CASE GiveUp
    BY <1>b, <2>1
  <2>2. CASE /\ at' \in {"poll", "result"} /\ UNCHANGED <<layer, depth, status>>
             /\ at' = "result" => Run.verdict # "running"
    <3>1. at = "poll" /\ UNCHANGED <<delivery, calls, mine, runs>> /\ calls = depth
      BY <1>0, <1>7 DEF PollProgress, Asking
    <3>2. Counted' = Counted
      BY <2>2, <3>1 DEF Counted
    <3>3. Stack => Stack'
      BY <2>2, <3>1, <3>2, SameRuns DEF Stack, Run
    <3>4. QED
      BY <2>2, <3>1, <3>3, StaysInLayer DEF InLayer
  <2>3. QED
    BY <1>7, <2>1, <2>2 DEF PollProgress
<1>8. CASE RetrieveResult
  <2>1. at = "result" /\ UNCHANGED <<delivery, mine, runs>> /\ calls = depth
    BY <1>0, <1>8 DEF RetrieveResult, Asking
  <2>2. CASE GiveUp
    BY <1>b, <2>2
  <2>3. CASE Run.verdict = "UNDEFINED" /\ calls' = calls + 1 /\ at' = "version" /\ UNCHANGED <<layer, status>>
    <3>1. Counted' = Counted /\ Counted = calls
      BY <1>0, <2>1, <2>3 DEF Counted, InLayer
    <3>2. Stack => Stack'
      <4>1. \A c \in 1 .. calls' - 1 : c \in 1 .. calls - 1 \/ c = calls
        BY <1>0, <2>1, <2>3 DEF InLayer
      <4>2. QED
        BY <2>1, <2>3, <3>1, <4>1, SameRuns DEF Stack, Run
    <3>3. QED
      BY <2>1, <2>3, <3>2, StaysInLayer DEF InLayer
  <2>4. CASE /\ at' = "report" /\ UNCHANGED <<layer, calls>> /\ ~(Run.verdict = "UNDEFINED" /\ MayRetry)
             /\ status' = IF Fails(Run.verdict) THEN "failed" ELSE status
    <3>1. Counted' = Counted
      BY <2>1, <2>4 DEF Counted
    <3>2. status' = "ok" => Run.verdict \notin {"FAILED", "UNDEFINED"}
      BY <2>4 DEF Fails
    <3>3. status' = "ok" /\ Stack => Stack'
      BY <2>1, <2>4, <3>1, <3>2, SameRuns DEF Stack, Run, Bad
    <3>4. QED
      BY <2>1, <2>4, <3>3, StaysInLayer DEF InLayer
  <2>5. QED
    BY <1>8, <2>2, <2>3, <2>4 DEF RetrieveResult
<1>9. CASE DownloadReport
  <2>1. /\ at = "report" /\ at' = "log" /\ UNCHANGED <<delivery, layer, calls, mine, runs>>
        /\ status' \in {status, "failed"}
    BY <1>9 DEF DownloadReport, callVars
  <2>2. Counted' = Counted
    BY <2>1 DEF Counted
  <2>3. Stack => Stack'
    BY <2>1, <2>2, SameRuns DEF Stack
  <2>4. QED
    BY <2>1, <2>3, StaysInLayer DEF InLayer
<1>10. CASE DownloadLog
  <2>1. /\ at = "log" /\ at \in InLayer /\ Return /\ UNCHANGED <<delivery, calls, mine, runs>>
        /\ status' \in {status, "failed"}
    BY <1>10 DEF DownloadLog, InLayer
  <2>2. CASE at' = "report" /\ layer' = layer
    <3>1. Counted' = Counted
      BY <2>1, <2>2 DEF Counted
    <3>2. Stack => Stack'
      BY <2>1, <2>2, <3>1, SameRuns DEF Stack
    <3>3. QED
      BY <2>1, <2>2, <3>2, StaysInLayer DEF InLayer
  <2>3. CASE at' = "layer" /\ layer' = layer + 1
    <3> SUFFICES ASSUME status = "ok", ~Skipped PROVE OkInv'
      BY <1>a, <2>1 DEF OkInv, Skipped
    <3>1. Passes(layer)
      BY <2>1, StackPasses DEF OkInv
    <3>2. \A l \in 1 .. layer' - 1 : l \in 1 .. layer - 1 \/ l = layer
      BY <1>0, <2>3
    <3>3. \A l \in 1 .. layer' - 1 : Passes(l)'
      BY <2>1, <3>1, <3>2, SameRuns DEF OkInv
    <3>4. \A l \in 1 .. Len(delivery.xml) : l >= layer' => Of(l)' = {}
      BY <1>0, <2>1, <2>3, SameRuns DEF OkInv
    <3>5. QED
      BY <1>0, <2>1, <2>3, <3>3, <3>4 DEF OkInv, InLayer
  <2>4. QED
    BY <2>1, <2>2, <2>3, Returns
<1>11. CASE ServiceEndsRun
  <2>1. UNCHANGED <<delivery, layer, at, calls, mine, status>>
    BY <1>11 DEF ServiceEndsRun, callVars
  <2>2. PICK r \in 1 .. Len(runs), v \in Verdicts :
           runs[r].verdict = "running" /\ runs' = [runs EXCEPT ![r] = [of |-> runs[r].of, verdict |-> v]]
    BY <1>11 DEF ServiceEndsRun
  <2>3. /\ Len(runs') = Len(runs)
        /\ \A q \in 1 .. Len(runs) : runs'[q].of = runs[q].of
        /\ \A q \in 1 .. Len(runs) : runs[q].verdict # "running" => runs'[q] = runs[q]
    BY <2>2 DEF Places, InspireTypes
  <2>4. \A l : Of(l)' = Of(l)
    BY <2>3 DEF Of
  <2>5. ASSUME NEW l, Passes(l) PROVE Passes(l)'
    <3>1. PICK last \in Of(l) :
            /\ runs[last].verdict \notin Bad
            /\ \A q \in Of(l) \ {last} : q < last /\ runs[q].verdict = "UNDEFINED"
      BY <2>5 DEF Passes
    <3>2. Of(l) \subseteq 1 .. Len(runs)
      BY DEF Of
    <3>3. \A q \in Of(l) : runs'[q] = runs[q]
      BY <2>3, <3>1, <3>2 DEF Bad
    <3>4. QED
      BY <2>4, <3>1, <3>3 DEF Passes
  <2>6. ASSUME at \in InLayer, Stack PROVE Stack'
    <3>1. Counted' = Counted
      BY <2>1 DEF Counted
    <3>2. \A c \in 1 .. Counted : mine[c] \in 1 .. Len(runs)
      BY <2>6 DEF Stack, Of
    <3>3. (1 .. calls - 1) \subseteq 1 .. Counted
      BY <1>0, <2>6 DEF Counted
    <3>4. at \in {"result", "report", "log"} => calls \in 1 .. Counted
      BY <1>0, <2>6 DEF Counted
    <3>5. \A c \in 1 .. calls - 1 : runs'[mine[c]].verdict = "UNDEFINED"
      BY <2>3, <2>6, <3>2, <3>3 DEF Stack
    <3>6. at \in {"result", "report", "log"} => runs'[mine[calls]] = runs[mine[calls]]
      BY <2>3, <2>6, <3>2, <3>4 DEF Stack, Bad
    <3>7. QED
      BY <2>1, <2>4, <2>6, <3>1, <3>5, <3>6 DEF Stack
  <2>7. QED
    BY <2>1, <2>4, <2>5, <2>6 DEF OkInv, Skipped
<1>12. CASE UNCHANGED inspireVars
  BY <1>12 DEF inspireVars, callVars, OkInv, Skipped, Passes, Of, Stack, Counted
<1>13. QED
  BY <1>b, <1>1, <1>2, <1>3, <1>4, <1>5, <1>6, <1>7, <1>8, <1>9, <1>10, <1>11, <1>12
  DEF InspireNext, ClientNext

(* A step ends ok only if the last run of every layer did not fail and was *)
(* not left undefined, and all runs before it were undefined ones.         *)
THEOREM OkIsEarned == InspireSpec => []OkIsPassed
<1>1. InspireInit => OkInv
  <2> SUFFICES ASSUME InspireInit PROVE OkInv
    OBVIOUS
  <2>1. layer = 1 /\ at = "begin" /\ Len(runs) = 0
    BY DEF InspireInit
  <2>2. \A l : Of(l) = {}
    BY <2>1 DEF Of
  <2>3. QED
    BY <2>1, <2>2 DEF OkInv, InLayer
<1>2. Places /\ OkInv => OkIsPassed
  <2> SUFFICES ASSUME Places, OkInv, at = "ended", status = "ok", ~Skipped, NEW l \in 1 .. Len(delivery.xml)
               PROVE  Passes(l)
    BY DEF OkIsPassed, Skipped, Passes, Bad
  <2>1. l \in 1 .. layer - 1
    BY DeliveryType DEF OkInv, Places, InspireTypes
  <2>2. QED
    BY <2>1 DEF OkInv
<1>3. QED
  BY <1>1, <1>2, PlacesAtFirst, PlacesKept, OkKept, PTL DEF InspireSpec

=============================================================================
