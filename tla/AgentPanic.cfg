SPECIFICATION Spec
CONSTANTS
    MaxRuns = 1
    MaxGen = 1
    MaxHups = 0
INVARIANT NeverPanics
\* The agent exits, or dies.
CHECK_DEADLOCK FALSE
