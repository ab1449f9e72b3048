SPECIFICATION Spec
CONSTANTS
  User = {u1}
  Topic = {energy}
  Title = {t1}
  Alerter = {a1}
  Broadcaster = {b1}
  TitleWindow = 0
  Window = 1
  Retention = 2
  MaxAlerts = 2
  MaxRuns = 3
  MaxTime = 3
  MaxCrash = 0
  MaxToggles = 0
  MaxActs = 0
INVARIANT TypeOK
INVARIANT RepeatsNeedOverlap
INVARIANT SpamBounded
CHECK_DEADLOCK FALSE
