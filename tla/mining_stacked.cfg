\* Starts and stops that overlap a connect: two sets of hash processes.
SPECIFICATION Spec
CONSTANTS
    Callers = {http}
    MaxStarts = 2
    MaxEngines = 2
    MaxMiners = 2
    MaxCalls = 3
INVARIANT NeverStacked
CHECK_DEADLOCK FALSE
