----------------------------- MODULE MCAppTurns -----------------------------
EXTENDS AppTurns, TLC
=============================================================================
