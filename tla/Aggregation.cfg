SPECIFICATION Spec
CONSTANTS
  Device = {d1, d2}
  Hours = 1
  Watts = {0, 5, 9}
  Loads = {{}, {0, 5}}
  Backfiller = {b1}
  Other = {o1}
  MaxLate = 1
  MaxRuns = 2
  MaxCrash = 1
  MaxRemoved = 1
INVARIANT TypeOK
INVARIANT HomeTotalIsSum
PROPERTY HarmNeedsOverlap
PROPERTY SummariesConverge
