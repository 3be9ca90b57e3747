\* Three callers, two faults enabled, all side effects.
SPECIFICATION Spec
CONSTANTS
    Callers = {c1, c2, c3}
    Kinds = {"cpu_stress", "memory_leak", "novel_log", "log_storm", "pod_crash"}
    Chunks = 3
    Lines = 1
    MaxStarts = 2
SYMMETRY CallerSymmetry
INVARIANTS
    TypeOK
    ClosedOnce
    BurnersAnswer
    ResidueBounded
CHECK_DEADLOCK FALSE
