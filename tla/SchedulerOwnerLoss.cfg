SPECIFICATION Spec
CONSTANTS
  Proc = {p1, p2, p3}
  Slots = 2
  Bootstrap = boot
  Free = free
  PromptReap = TRUE
  MaxCrash = 1
  MaxLoss = 1
INVARIANT SingleOwner
