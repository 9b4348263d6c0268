SPECIFICATION Spec
CONSTANTS
    Callers = {c1, c2}
    N = 2
    MaxRounds = 1
    MaxFailovers = 0
INVARIANTS SingleFlight
