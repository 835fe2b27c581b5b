SPECIFICATION Spec
CONSTANTS
  Descriptors <- MCDescriptors
  Pitches = {1, 64}
  Guesses = {0, 512}
  HdrValues <- MCHdrValues
INVARIANTS ReportsTypeOK CodecKeepsReports ImportSeesAllocation PlanesWithinBuffer StrideAgrees AnsweredAsWritten
