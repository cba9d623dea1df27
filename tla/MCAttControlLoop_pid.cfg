CONSTANTS
    NaN = NaN
    NoMsg = NoMsg
    Axes <- MCYawOnly
    SatInputs <- MCSat
    StickInputs = {FALSE}
    MinTakeoffThrust = 1
    UdeLimit = 2
    UdeSteps <- MCSteps
    StreakBound = 2
    ControlModes <- PidModes
    Statuses <- AnyStatus
    Params <- PidParams
    GyroRates <- MCGyro
    RateSetpoints <- MCRateSp
    Thrusts <- MCThrust
INIT Init
NEXT Next
INVARIANTS
    TypeOK
    IntegratorWithinLimit
    PidRecovers
PROPERTIES
    AntiWindup
    ThrustGate
