CONSTANTS
  MaxSteps = 3
  Triggers = {"manual", "alert"}
  Palette = {"step", "action", "cond", "foreach"}
  MaxTyped = 1
  MaxByHand = 1
  HandSteps = 1
SPECIFICATION Spec
INVARIANTS GraphAgrees SavesAreFaithful
PROPERTY EditsTheTree
