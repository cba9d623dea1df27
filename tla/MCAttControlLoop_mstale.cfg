CONSTANTS
    NaN = NaN
    NoMsg = NoMsg
    Axes <- MCPitchOnly
    SatInputs <- MCSat
    StickInputs = {FALSE}
    MinTakeoffThrust = 1
    UdeLimit = 2
    UdeSteps <- MCSteps
    StreakBound = 2
    ControlModes <- UdeModes
    Statuses <- MCStatus
    Params <- MUdeParams
    GyroRates <- MCGyro
    RateSetpoints <- MCRateSpNaN
    Thrusts <- MCThrust
INIT Init
NEXT Next
INVARIANT
    MUdeResetBelowThrust
