CONSTANT Spurious = TRUE
SPECIFICATION FairSpec
INVARIANTS TypeOK NoLostWakeup StatusSettled LinkSeen
PROPERTIES ReportsAlternate ImplementsLinkReport CloseReturns DisconnectReported
