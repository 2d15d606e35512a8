---------------------------- MODULE MCLabWorkflow ----------------------------
(* A small laboratory for TLC.                                             *)
EXTENDS LabWorkflow, TLC

AllSilver == [t \in Tests |-> "silver"]

\* With AllSilver every identifier of a set stands for any other one.
Symmetric == Permutations(Tests) \cup Permutations(Certs) \cup Permutations(Samples)
                \cup Permutations(Requests)
=============================================================================
