SPECIFICATION Spec
CONSTANTS
  VK_SHIFT = VK_SHIFT  VK_A = VK_A  VK_B = VK_B  h1 = h1  h2 = h2
  Modifiers <- MCModifiers
  OtherKeys <- MCOtherKeys
  CodeOrder <- MCCodeOrder
  Handlers <- MCHandlers
  OtherClientCodes <- MCOtherClientCodes
  ClientKeys <- MCShiftKeys
  MaxLag = 3
  BothSides = TRUE
  DebugModes = {FALSE}
SYMMETRY MCSymmetry
INVARIANTS ServerMirrorsKeyboard TypeOK
PROPERTY UpMatchesDown
