SPECIFICATION Spec
CONSTANTS
    Texts <- AllTexts
    Chanspecs <- AllChanspecs
INVARIANTS PrimaryAgrees ConstructorInverts
PROPERTIES RoundTrip TextMeans
CHECK_DEADLOCK FALSE
