---------------------------- MODULE MCWorkQueue ----------------------------
EXTENDS WorkQueue
============================================================================
