---------------------------- MODULE MC_Ingestion ----------------------------
EXTENDS Ingestion
CONSTANTS t1, t2, exe, lib, null
MCTids == {t1, t2}
MCSampled == {lib}
=============================================================================
