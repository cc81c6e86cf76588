---------------------------- MODULE MCPublishing ----------------------------
EXTENDS Publishing, TLC
=============================================================================
