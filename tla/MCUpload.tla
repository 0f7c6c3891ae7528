------------------------------ MODULE MCUpload ------------------------------
(* Model checking of Upload: files, tabs and threads are interchangeable in *)
(* the runs without liveness.                                               *)
EXTENDS Upload, TLC

Symmetry == Permutations(File) \union Permutations(Tab) \union Permutations(Thread)

=============================================================================
