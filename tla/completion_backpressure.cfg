SPECIFICATION Spec
CONSTANT ChannelSize = 1
CONSTANT Analysis <- ShortAnalysis
PROPERTY PipelineEnds ReaderIsTold
