SPECIFICATION Spec
CONSTANTS
    Threads = {t1, t2}
    PacketCount = 1
    QueueMax = 2
    Shells = {s1, s2}
    Instances = {capture, csi}
    Kind <- TwoScreens
    Env = {"leaves"}
    NONE = NONE
    Main = Main
    capture = capture
    csi = csi
SYMMETRY Symmetry
VIEW UiForgotten
INVARIANTS SocketsClosed
PROPERTIES NullsClosedSocket
CHECK_DEADLOCK FALSE
