SPECIFICATION Spec
CONSTANTS
  Unset = Unset
  Zero = Zero
  Stamp = Stamp
  One = One
  Two = Two
  A = A
  B = B
  NoChild = NoChild
  NoBase = NoBase
  NoSpec = NoSpec
  NoObject = NoObject
  NoOwner = NoOwner
  Idle = Idle
  NotReported = NotReported
  m1 = m1
  m2 = m2
  c1 = c1
  c2 = c2
  Values <- MCValues
  ModelServices = {m1, m2}
  Controllers = {c1}
  Objects <- NamedRoutes
  ObjectOf <- NamedRoutesOf
  Specs <- ServicesSpecs
  Bases <- ServicesBases
  Readiness = {0}
  NoneReady = 0
  DefaultReplicas = One
  Rejected = {}
  ForeignEdits = {}
  MaxLength = 7
  Pieces <- SomePieces
  ServiceNames <- SomeNames
  NotGiven = NotGiven
  Missing = Missing
  NoContent = NoContent
  Failed = Failed
  Panic = Panic
  MaxUid = 1
  MaxDisturbances = 2
INVARIANTS
  NamesApart
  PreviewAgrees
  NoLostWakeup
  OwnersTraced
PROPERTIES
  OwnerKept
CHECK_DEADLOCK FALSE
