----------------------------- MODULE MCDatabase -----------------------------
(* Database on small instances.                                            *)
EXTENDS Database

(* Handles other than the root are interchangeable (for runs without       *)
(* liveness properties).                                                   *)
Clones == Permutations(Handles \ {Root})
=============================================================================
