-------------------------- MODULE MCMigrationFiles --------------------------
(* Instances of MigrationFiles for TLC. *)
EXTENDS MigrationFiles, TLC

CONSTANTS s0, s1, s2, d1, d2, b1

Alike == Permutations(Schema) \cup Permutations(Developer)
=============================================================================
