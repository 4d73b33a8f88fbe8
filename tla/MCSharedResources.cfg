SPECIFICATION Spec
CONSTANTS
    both = both
    caller = caller
    callee = callee
    old = old
    alone = alone
    Threads = {t1, t2, t3}
    Modules = {both, caller, callee, old, alone}
    Names = {0, 1, 2, 3}
    Legacy = 0
    Configurations <- Jobs
    MaxChanges = 1
SYMMETRY Symmetry
INVARIANTS
    ResourceExclusion
    NoDeadlock
