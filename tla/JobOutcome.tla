----------------------------- MODULE JobOutcome -----------------------------
(***************************************************************************)
(* What the rest of the system may expect of the subprocess of one job and *)
(* of its result.json: first there is no file, then a file without a       *)
(* status, then one with a status that stays.  A process that breaks down  *)
(* before it announced the job may leave status "error" at once, or        *)
(* nothing at all.                                                         *)
(***************************************************************************)
CONSTANT MayDie     \* may the process end without leaving a status

VARIABLES process, result

Final == {"ok", "partial", "failed", "error"}

Init == process = "none" /\ result = "missing"

Launch ==
    /\ process = "none"
    /\ process' = "running"
    /\ UNCHANGED result

Announce ==
    /\ process = "running"
    /\ result = "missing"
    /\ result' = "open"
    /\ UNCHANGED process

Grade ==
    /\ process = "running"
    /\ \/ result = "open" /\ result' \in Final
       \/ result = "missing" /\ result' = "error"
    /\ UNCHANGED process

Exit ==
    /\ process = "running"
    /\ result \in Final \/ MayDie
    /\ process' = "exited"
    /\ UNCHANGED result

Next == Launch \/ Announce \/ Grade \/ Exit

Spec == Init /\ [][Next]_<<process, result>>

=============================================================================
