----------------------------- MODULE MCMigration -----------------------------
EXTENDS Migration
=============================================================================
