SPECIFICATION ViewSpec
CONSTANT ChannelSize = 1
CONSTANT Analysis <- ShortAnalysis
CHECK_DEADLOCK FALSE
INVARIANT NothingVanishes FinalEventFindsAnswer
