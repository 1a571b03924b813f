CONSTANTS
    Drivers = {"flarm", "fenix", "stop", "leave"}
    Lines = 4
    Attempts = 4
SPECIFICATION FairSpec
INVARIANTS TypeOK NamedTaskDeclared SolePort ReceivedAgain
PROPERTIES DeclareReturns
