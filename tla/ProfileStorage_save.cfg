CONSTANTS
  Torn = Torn
  Absent = Absent
  FoundProfiles <- MCFoundProfiles
SPECIFICATION Spec
INVARIANT SaveIsOneOperation
