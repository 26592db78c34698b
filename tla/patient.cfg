SPECIFICATION FairSpec
CONSTANTS
    Threads = {t1, t2, t3, t4}
    PacketCount = 2
    QueueMax = 3
    Shells = {s1}
    Instances = {capture}
    Kind <- OneScreen
    Env = {}
    NONE = NONE
    Main = Main
    capture = capture
    csi = csi
CONSTRAINT InTurn
INVARIANTS RecordsPrefix CompleteUnlessStopped WritersClosed IdleMeansStopped
PROPERTIES KeepsFiles StopEnds SessionEnds UiSettles
CHECK_DEADLOCK FALSE
