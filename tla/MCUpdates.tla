------------------------------ MODULE MCUpdates ------------------------------
EXTENDS Updates
CONSTANTS m1, m2, p1
MCVersion == [j \in Jobs |-> IF j = m2 THEN 2 ELSE 1]
================================================================================
