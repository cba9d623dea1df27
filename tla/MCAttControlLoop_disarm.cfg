CONSTANTS
    NaN = NaN
    NoMsg = NoMsg
    Axes <- MCPitchOnly
    SatInputs <- MCSat
    StickInputs = {FALSE}
    MinTakeoffThrust = 1
    UdeLimit = 2
    UdeSteps <- MCSteps
    StreakBound = 2
    ControlModes <- DisarmModes
    Statuses <- MCStatus
    Params <- PidParams
    GyroRates <- MCGyro
    RateSetpoints <- MCRateSp
    Thrusts <- MCThrust
INIT Init
NEXT Next
INVARIANT
    DisarmedIntegratorsZero
