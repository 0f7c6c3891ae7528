----------------------------- MODULE MCDelivery -----------------------------
(* Model checking of Delivery: deliveries, jobs and requests are            *)
(* interchangeable.  Three settings are checked: requests one by one, for   *)
(* the one promise that needs it; overlapping requests of all kinds for one *)
(* delivery; overlapping requests for several deliveries, of the kinds that *)
(* touch the file or the row.  The clock moves on in the second one.        *)
EXTENDS Delivery, TLC

CONSTANTS
    Concurrent,     \* bound: the deliveries there are while all requests overlap
    FileKind        \* bound: the requests that overlap when there are more

VARIABLES
    alone,          \* whether requests come one by one
    files           \* if not, whether there are several deliveries

Symmetry == Permutations(Job) \union Permutations(Request)

Uploading == {d \in Delivery : upload[d] \in {"merge", "register"}}

OneByOne ==
    /\ \A r, s \in Request : "idle" \in {pc[r], pc[s]} \/ r = s
    /\ \A d \in Uploading : Uploading = {d} /\ \A r \in Request : pc[r] = "idle"

MCInit == Init /\ alone \in BOOLEAN /\ files \in BOOLEAN /\ ~(alone /\ files)

Begun == known \union {d \in Delivery : upload[d] # "none"}

\* A superuser's requests matter to the file.
BySuper == {r \in Request : pc[r] # "idle" /\ req[r].by = Super}

MCNext ==
    /\ Next
    /\ alone \/ files => day' = 1
    /\ IF files
       THEN /\ \A kind \in Kind \ FileKind : Underway(kind)' = {}
            /\ Cardinality({j \in Job : status'[j] # "absent"}) <= 1
            /\ \A j \in Job : status'[j] # "ok"
       ELSE BySuper' = {} /\ (IF alone THEN OneByOne' ELSE Begun' \subseteq Concurrent)
    /\ UNCHANGED <<alone, files>>

MCSpec == MCInit /\ [][MCNext]_<<vars, alone, files>>

\* While requests come one by one, a delivery that is deleted has no job waiting
\* or running, though workers claim jobs between the two queries that count them.
AloneJobsAreSpared ==
    [][alone => \A d \in deleted' \ deleted : JobsOf(d, {"waiting", "running"}) = {}]_vars

=============================================================================
