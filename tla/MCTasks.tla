-------------------------------- MODULE MCTasks --------------------------------
EXTENDS Tasks, TLC
CONSTANTS t1, t2, e1, e2
SymTasks == Permutations(Grants) \cup Permutations(Events)
================================================================================
