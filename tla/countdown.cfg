SPECIFICATION Spec
CONSTANTS
    Timers = {k1, k2, k3}
    Confs <- SmallConfs
    Second = 4
    Half = 32
    Env = {"leaves"}
    NONE = NONE
SYMMETRY TimerSymmetry
INVARIANTS TypeOK NoStrayTimer NeverIdleEarly
CHECK_DEADLOCK FALSE
