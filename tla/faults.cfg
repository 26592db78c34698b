SPECIFICATION Spec
CONSTANTS
    Threads = {t1, t2}
    PacketCount = 1
    QueueMax = 1
    Shells = {s1, s2}
    Instances = {csi}
    Kind <- OneCsiScreen
    Env = {"untimely", "menu", "noSu", "noMedia", "noPcap", "malformed", "short", "numbers"}
    NONE = NONE
    Main = Main
    capture = capture
    csi = csi
SYMMETRY Symmetry
INVARIANTS UiReturnsToIdle
PROPERTIES CrashNeedsRace
CHECK_DEADLOCK FALSE
