-------------------------- MODULE MCKeyTranslation --------------------------
(* KeyTranslation for TLC: Shift, a key of this client, and one of another. *)
EXTENDS KeyTranslation, TLC

CONSTANTS VK_SHIFT, VK_A, VK_B, h1, h2

MCModifiers == {VK_SHIFT}
MCOtherKeys == {VK_A, VK_B}
MCCodeOrder == <<VK_SHIFT, VK_A, VK_B, <<VK_SHIFT, "left">>, <<VK_SHIFT, "right">>>>
MCHandlers == {h1, h2}
MCSymmetry == Permutations(MCHandlers)
MCClientKeys == {VK_A, <<VK_SHIFT, "left">>, <<VK_SHIFT, "right">>}
MCShiftKeys == {<<VK_SHIFT, "left">>, <<VK_SHIFT, "right">>}
MCOtherClientCodes == {VK_B}
=============================================================================
