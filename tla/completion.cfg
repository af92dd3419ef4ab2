SPECIFICATION StalledSpec
CONSTANT ChannelSize = 13
CONSTANT Analysis <- ShortAnalysis
INVARIANT SavedAnswerIsWhole NeverHeldUp
PROPERTY ImplementsAnswer
