SPECIFICATION Spec
CONSTANTS
    Frames <- Air
    MaxFrames = 4
    RcvMax = 2
    Options <- CommandLines
    Count = 2
    SnapLen = 1024
    DetachEmpty = {"ok", "refused"}
    Me = Me
    App = App
    Sh = Sh
    NoOne = NoOne
INVARIANTS TypeOK OnlyThisInterface FilteredOrOvertook FiltersOnce SentOnceUnlessShort
PROPERTIES DrainReadsOld Implements
CHECK_DEADLOCK FALSE
