SPECIFICATION Spec
CONSTANTS
  NoURI = NoURI
  Specs <- SampleSpecs
  Bases <- SampleBases
INVARIANTS
  RenderedIsAccepted
CHECK_DEADLOCK FALSE
