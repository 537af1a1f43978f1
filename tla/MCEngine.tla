------------------------------ MODULE MCEngine ------------------------------
EXTENDS Engine

CONSTANTS k1, k2
MCCheckList == <<k1, k2>>
=============================================================================
