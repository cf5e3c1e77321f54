------------------------------ MODULE MCServer ------------------------------
EXTENDS ServerLifecycle, TLC
=============================================================================
