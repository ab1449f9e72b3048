SPECIFICATION Spec
CONSTANTS
  Msgs = 2
  Device = {d1, d2}
  First = d1
  Worker = {w1, w2}
  NoStamp = nostamp
  Guard = 1
  Interval = 2
  MaxTime = 2
  MaxResend = 1
  MaxHttp = 1
  MaxFault = 1
INVARIANT TypeOK
INVARIANT RepeatsNeedOverlap
INVARIANT HandledIsStored
INVARIANT NoSilentLoss
CHECK_DEADLOCK FALSE
SYMMETRY WorkerSymmetry
