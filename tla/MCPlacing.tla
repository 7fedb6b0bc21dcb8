------------------------------ MODULE MCPlacing ------------------------------
EXTENDS Placing, TLC

CONSTANTS t1, t2

\* The first job is a placement on the first tile.
MCWanted(j) == IF j = 1 THEN {t1} ELSE {t1, t2, Chat}
=============================================================================
