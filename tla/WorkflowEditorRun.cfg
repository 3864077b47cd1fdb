CONSTANTS
  Nodes = {step, trigger}
  Forms = {step, trigger}
  Triggers = {trigger}
  Dropped = {}
  Saves = {s1}
  MaxEdits = 1
  Broken = {}
  Nobody = Nobody
SPECIFICATION Spec
INVARIANT SavedBeforeRun
