SPECIFICATION FairSpec
CONSTANTS
    Timers = {k1, k2, k3}
    Confs <- OneConf
    Second = 4
    Half = 32
    Env = {"impatient", "leaves", "menu", "noSu", "blank"}
    NONE = NONE
INVARIANTS InjectingHasTimer
PROPERTIES CrashNeedsStaleTick InjectionEnds
CHECK_DEADLOCK FALSE
