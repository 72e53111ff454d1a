SPECIFICATION Spec
CONSTANTS
  SemMax = 1
  ZeroBlocks = 1
  Modes = {"off", "auto"}
INVARIANTS PsTypeOK CorrectionAgrees
PROPERTIES OneRamp FitFromOneKeyDown OffEnds
CONSTRAINT BeforeTheWindow
