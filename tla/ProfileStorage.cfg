CONSTANTS
  Torn = Torn
  Absent = Absent
  FoundProfiles <- MCFoundProfiles
SPECIFICATION Spec
INVARIANTS
  TypeOK
  MemoryIsUsable
  ReportedIsOnDisk
  KeptSurvives
