-------------------------- MODULE MC_SyncConverge --------------------------
EXTENDS MC_Sync, SyncConverge

=============================================================================
