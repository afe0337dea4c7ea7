----------------------------- MODULE MCTaskMove -----------------------------
EXTENDS TaskMove, TLC

CONSTANTS A, B
=============================================================================
