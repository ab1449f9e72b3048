SPECIFICATION Spec
CONSTANTS
  User = {u1}
  Topic = {energy}
  Title = {t1}
  Alerter = {a1}
  Broadcaster = {b1}
  TitleWindow = 0
  Window = 1
  Retention = 2
  MaxAlerts = 2
  MaxRuns = 2
  MaxTime = 0
  MaxCrash = 1
  MaxToggles = 1
  MaxActs = 1
INVARIANT PushRecordAgrees
PROPERTY OptOutHonoured
PROPERTY StatusOnlyAdvances
PROPERTY RunsEnd
CHECK_DEADLOCK FALSE
