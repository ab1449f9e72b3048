----------------------------- MODULE MCIngestion -----------------------------
(***************************************************************************)
(* Ingestion for TLC.  Workers are interchangeable: every action treats    *)
(* them alike and no property names one, so states that differ by a        *)
(* permutation of the workers need not be told apart.  (Devices are not:   *)
(* First is.)                                                              *)
(***************************************************************************)
EXTENDS Ingestion, TLC

WorkerSymmetry == Permutations(Worker)

=============================================================================
