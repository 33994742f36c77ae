----------------------------- MODULE MCDesktop -----------------------------
(* Desktop for TLC: the keys of one modifier, and two handlers. *)
EXTENDS Desktop, TLC

CONSTANTS VK_SHIFT, h1, h2

MCModifiers == {VK_SHIFT}
MCCodeOrder == <<VK_SHIFT, <<VK_SHIFT, "left">>, <<VK_SHIFT, "right">>>>
MCHandlers == {h1, h2}
MCSymmetry == Permutations(MCHandlers)
=============================================================================
