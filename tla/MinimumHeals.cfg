SPECIFICATION Spec
CONSTANTS
  Device = {d1}
  Hours = 1
  Watts = {0, 5, 9}
  Loads = {{5, 9}}
  Backfiller = {b1}
  Other = {o1}
  MaxLate = 1
  MaxRuns = 1
  MaxCrash = 0
  MaxRemoved = 0
PROPERTY MinimumHeals
