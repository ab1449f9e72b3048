SPECIFICATION Spec
CONSTANTS
  Notif = {n1, n2}
  Reporter = {r1}
  Hook = {h1}
  Simulator = {s1}
  Deleter = {d1}
  Job = {j1}
  Batch = 2
  MaxRequests = 3
  MaxCrash = 1
INVARIANT TypeOK
INVARIANT SecondDecisionNeedsOverlap
INVARIANT LoopClosed
PROPERTY DeleteKeepsWhatItSaw
PROPERTY MeasuredInTheEnd
CHECK_DEADLOCK FALSE
