--------------------------- MODULE MCJobLifecycle ---------------------------
(* Model checking of JobLifecycle: symmetry for the safety runs.            *)
EXTENDS JobLifecycle, TLC

\* Jobs, workers and views are interchangeable.
Symmetry == Permutations(Job) \union Permutations(Worker) \union Permutations(View)

=============================================================================
