SPECIFICATION Spec
CONSTANTS
  VK_SHIFT = VK_SHIFT  VK_A = VK_A  VK_B = VK_B  h1 = h1  h2 = h2
  Modifiers <- MCModifiers
  OtherKeys <- MCOtherKeys
  CodeOrder <- MCCodeOrder
  Handlers <- MCHandlers
  OtherClientCodes <- MCOtherClientCodes
  ClientKeys <- MCClientKeys
  MaxLag = 2
  BothSides = FALSE
  DebugModes = {FALSE}
SYMMETRY MCSymmetry
INVARIANT NoStuckKey
