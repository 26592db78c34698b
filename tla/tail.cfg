SPECIFICATION Spec
CONSTANTS
    Frames <- WideAir
    MaxFrames = 2
    RcvMax = 2
    Options <- OnlyAppCsi
    Count = 2
    SnapLen = 1024
    DetachEmpty = {"ok", "refused"}
    Me = Me
    App = App
    Sh = Sh
    NoOne = NoOne
INVARIANTS SentWasCaptured
CHECK_DEADLOCK FALSE
