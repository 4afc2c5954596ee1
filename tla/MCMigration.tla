----------------------------- MODULE MCMigration -----------------------------
(* The migration of the explicit-root layout: config, data, state.         *)
EXTENDS Migration
============================================================================
