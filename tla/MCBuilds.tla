------------------------------ MODULE MCBuilds ------------------------------
EXTENDS Builds, TLC
=============================================================================
