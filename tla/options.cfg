SPECIFICATION Spec
CONSTANTS
    Enables = {0, 1}
    CoreMasks <- SomeCoreMasks
    NssMasks <- SomeNssMasks
    FirstBytes <- SomeFirstBytes
    Delays <- SomeDelays
    ChanspecCodes = {0, 4097, 53290}
    MacLists <- SomeMacs
INVARIANTS TypeOK SameBlock FirmwareReads PrintsBlock
CHECK_DEADLOCK FALSE
