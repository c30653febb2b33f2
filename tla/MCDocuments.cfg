SPECIFICATION Spec
CONSTANTS
  Payloads <- MCPayloads
  Answers <- MCAnswers
  Bodies <- MCBodies
  MaxTokens = 8
  MaxIds = 5
  MaxCalls = 2
  MaxEdits = 1
  Threshold = 2
CHECK_DEADLOCK FALSE
INVARIANT TypeOK
INVARIANT BatchesInOrder
INVARIANT ChunksCoverDocument
INVARIANT ReadySectionsAreFound
PROPERTY OneBlockAtATime
PROPERTY AppendsToItsSection
