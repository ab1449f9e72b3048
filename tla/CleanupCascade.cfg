SPECIFICATION Spec
CONSTANTS
  Notif = {n1, n2}
  Reporter = {r1}
  Hook = {h1}
  Simulator = {s1}
  Deleter = {d1}
  Job = {j1}
  Batch = 2
  MaxRequests = 2
  MaxCrash = 1
PROPERTY CleanupKeepsDecisions
CHECK_DEADLOCK FALSE
