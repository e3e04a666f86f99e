SPECIFICATION Spec
CONSTANTS
  Unset = Unset
  Zero = Zero
  Stamp = Stamp
  One = One
  Two = Two
  A = A
  B = B
  NoChild = NoChild
  NoBase = NoBase
  NoSpec = NoSpec
  NoObject = NoObject
  NoOwner = NoOwner
  Idle = Idle
  NotReported = NotReported
  m1 = m1
  m2 = m2
  c1 = c1
  c2 = c2
  Values <- MCValues
  ModelServices = {m1}
  Controllers = {c1}
  Objects <- LifeObjects
  ObjectOf <- LifeObjectOf
  Specs <- LifeSpecs
  Bases <- NoBaseConfig
  Readiness = {0}
  NoneReady = 0
  DefaultReplicas = One
  Rejected = {}
  ForeignEdits = {}
  MaxUid = 1
  MaxDisturbances = 3
INVARIANTS
  TypeOK
  NoLostWakeup
  StatusSettled
CHECK_DEADLOCK FALSE
