SPECIFICATION FairSpec
CONSTANTS
    MaxSetting = 10
    StepLimit = 25
CHECK_DEADLOCK FALSE
INVARIANTS TypeOK ToolRoundsCapped JudgedFresh SilenceExplained LimitSpares
PROPERTIES GraphEnds
