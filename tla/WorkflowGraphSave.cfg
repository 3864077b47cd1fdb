CONSTANTS
  MaxSteps = 3
  Triggers = {"manual"}
  Palette = {"action", "cond"}
  MaxTyped = 0
  MaxByHand = 0
  HandSteps = 0
SPECIFICATION Spec
INVARIANT SavePreservesTasks
