SPECIFICATION HistorySpec
CONSTANTS
  Unset = Unset
  Zero = Zero
  Stamp = Stamp
  One = One
  Two = Two
  A = A
  B = B
  NoChild = NoChild
  NoBase = NoBase
  NoSpec = NoSpec
  NoObject = NoObject
  NoOwner = NoOwner
  Idle = Idle
  NotReported = NotReported
  m1 = m1
  m2 = m2
  c1 = c1
  c2 = c2
  Values <- MCValues
  ModelServices = {m1}
  Controllers = {c1, c2}
  Objects <- ServicesObjects
  ObjectOf <- ServicesObjectOf
  Specs <- OverlapSpecs
  Bases <- NoBaseConfig
  Readiness = {0}
  NoneReady = 0
  DefaultReplicas = One
  Rejected = {}
  ForeignEdits <- OverlapEdits
  MaxUid = 1
  MaxDisturbances = 1
INVARIANTS
  NoLostWakeup
  NothingForgotten
PROPERTIES
  ReconciliationImplemented
CHECK_DEADLOCK FALSE
