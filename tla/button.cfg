SPECIFICATION Spec
CONSTANTS
    Timers = {k1}
    Confs <- OneConf
    Second = 4
    Half = 32
    Env = {}
    NONE = NONE
INVARIANTS ButtonFollowsState
CHECK_DEADLOCK FALSE
