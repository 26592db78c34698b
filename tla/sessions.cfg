SPECIFICATION Spec
CONSTANTS
    Threads = {t1, t2}
    PacketCount = 2
    QueueMax = 1
    Shells = {s1}
    Instances = {capture}
    Kind <- OneScreen
    Env = {"impatient"}
    NONE = NONE
    Main = Main
    capture = capture
    csi = csi
SYMMETRY ThreadSymmetry
VIEW UiForgotten
INVARIANTS TypeOK UiReturnsToIdle RecordedOnce RecordedInOrder
PROPERTIES CrashNeedsRace
CHECK_DEADLOCK FALSE
