-------------------------- MODULE MCSchemaMigration --------------------------
(***************************************************************************)
(* SchemaMigration on small sets of processes and initial files.            *)
(***************************************************************************)
EXTENDS SchemaMigration, TLC

OpenerSymmetry == Permutations(Openers)
=============================================================================
