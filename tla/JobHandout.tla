----------------------------- MODULE JobHandout -----------------------------
(***************************************************************************)
(* What the frontend and the workers promise together about handing out    *)
(* jobs, without requests, tables or crashes: a job waits until it is      *)
(* assigned to one worker that has a free slot, the worker executes it or  *)
(* it is abandoned, and after that it is over.  Nothing happens twice.     *)
(***************************************************************************)
EXTENDS Naturals, FiniteSets

CONSTANTS Job, Worker, MaxSlots, Nobody

VARIABLES
    phase,      \* how far each job has come
    holder      \* the worker that has the job, from its assignment to its end

vars == <<phase, holder>>

Init ==
    /\ phase = [j \in Job |-> "unborn"]
    /\ holder = [j \in Job |-> Nobody]

HeldBy(w) == {j \in Job : holder[j] = w}

Create(j) ==
    /\ phase[j] = "unborn"
    /\ phase' = [phase EXCEPT ![j] = "waiting"]
    /\ UNCHANGED holder

Withdraw(j) ==
    /\ phase[j] = "waiting"
    /\ phase' = [phase EXCEPT ![j] = "over"]
    /\ UNCHANGED holder

Assign(w, j) ==
    /\ phase[j] = "waiting"
    /\ Cardinality(HeldBy(w)) < MaxSlots
    /\ phase' = [phase EXCEPT ![j] = "assigned"]
    /\ holder' = [holder EXCEPT ![j] = w]

Launch(j) ==
    /\ phase[j] = "assigned"
    /\ phase' = [phase EXCEPT ![j] = "executing"]
    /\ UNCHANGED holder

\* Jobs end one by one, or several with the container that held them.
End(w, S) ==
    /\ S \subseteq HeldBy(w)
    /\ phase' = [j \in Job |-> IF j \in S THEN "over" ELSE phase[j]]
    /\ holder' = [j \in Job |-> IF j \in S THEN Nobody ELSE holder[j]]

Next ==
    \/ \E j \in Job : Create(j) \/ Withdraw(j) \/ Launch(j)
    \/ \E w \in Worker, j \in Job : Assign(w, j)
    \/ \E w \in Worker : \E S \in SUBSET Job : End(w, S)

Spec == Init /\ [][Next]_vars

=============================================================================
