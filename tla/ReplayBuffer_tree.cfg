SPECIFICATION Spec
CONSTANTS
  capacity = 5
  Priorities = {1, 3}
  BatchSize = 2
  NoIndex = none
INVARIANTS
  Consistent
  SampledInProportion
PROPERTY ImplementsPool
