SPECIFICATION PageSpec
CONSTANT Requests = {r1, r2}
CONSTANT r1 = r1
CONSTANT r2 = r2
CONSTANT MaxQuestions = 2
CONSTANT MaxFaults = 1
CONSTANT MaxLate = 1
SYMMETRY RequestSymmetry
CHECK_DEADLOCK FALSE
INVARIANT OfferIsHonest AnswersShownOnce AnswerIsFinished WaitsForSomething
PROPERTY RenameIsKept
