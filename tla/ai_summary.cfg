SPECIFICATION Spec
CONSTANTS
  Handlers <- ThreeHandlers
  Prompts <- OnePrompt
  MaxFaults = 1
CHECK_DEADLOCK FALSE
INVARIANT OneGenerationAtATime OutdatedOnlyByEdit
PROPERTY GeneratingEnds RetryRecovers
