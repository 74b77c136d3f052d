--------------------------- MODULE MCOutcomeLedger ---------------------------
\* Model-checking instances of OutcomeLedger.
EXTENDS OutcomeLedger

CONSTANTS v1, v2
ManyAndOne == [v \in {v1, v2} |-> IF v = v1 THEN 4 ELSE 1]
=============================================================================
