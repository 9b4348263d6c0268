SPECIFICATION Spec
CONSTANTS
    Dir = d
    Files = {f}
    Tasks = {t1, t2}
    Capacity = 2
    Ttl = 2
    MaxTime = 1
    MaxRev = 3
INVARIANT ReadYourWrites
