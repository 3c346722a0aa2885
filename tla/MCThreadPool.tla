---------------------------- MODULE MCThreadPool ----------------------------
(* Instances of ThreadPool for TLC. *)
EXTENDS ThreadPool, TLC

\* Task nodes are interchangeable: no definition tells one from another.
TaskSymmetry == Permutations(Tasks)
=============================================================================
