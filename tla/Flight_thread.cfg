CONSTANTS
    Aircraft <- AllTypes
    Times = {0, 1}
    Steps = 1
    CapAir <- Caps
    CapGround = 2
    Settled = 2
SPECIFICATION Spec
INVARIANTS TypeOK NoLostSignal OnGroundOnlyAtTakeOff
PROPERTIES PhaseNeedsFixes ReviewedFlight
