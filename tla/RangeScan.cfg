SPECIFICATION Spec
CONSTANTS
  MaxTotal = 5
  Payload = {a, b}
INVARIANTS
  TypeOK
  CountAccurate
  CompleteIsLatest
  ScanFindsMaximalRanges
