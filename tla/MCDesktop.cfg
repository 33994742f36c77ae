SPECIFICATION Spec
CONSTANTS
  VK_SHIFT = VK_SHIFT  h1 = h1  h2 = h2
  Modifiers <- MCModifiers
  OtherKeys = {}
  CodeOrder <- MCCodeOrder
  Handlers <- MCHandlers
  DebugModes = {FALSE, TRUE}
  MaxFaults = 2
SYMMETRY MCSymmetry
INVARIANTS TypeOK HiddenHasIcon MarkTellsNextStart
PROPERTIES StartsAsLeft NothingStuckInDebug
