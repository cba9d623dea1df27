CONSTANTS
    DtFloor <- MCDtFloor
    DtCeil <- MCDtCeil
    Second <- MCSecond
    StartWindow <- MCStartWindow
    Gaps <- MCGaps
SPECIFICATION LoopRateSpec
INVARIANTS
    EstimateInBand
PROPERTIES
    RetunedWhileDisarmed
