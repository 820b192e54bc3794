CONSTANTS
  e1 = e1
  e2 = e2
  u1 = u1
  u2 = u2
  k1 = k1
  v1 = v1
  v2 = v2
  Resources = {e1}
  URIs = {u1}
  Workers = {w1}
  AspectKeys = {k1}
  AspectValues = {v1, v2}
  SpecsOf <- SpecsOne
  TopoFinalizer = topo
  GCFinalizer = gc
  NoResource = NoResource
  NoRequest = NoRequest
  NoObject = NoObject
  NoValue = NoValue
  Controllers = {"kind", "relation"}
  StoreSurvives = FALSE
  TopoClients = TRUE
  MaxOperations = 3
  MaxOutages = 1
  MaxFaults = 1
SPECIFICATION FairSpec
INVARIANTS
  KRTypeOK
  ObjectHeld
  RestMeansPublished
  KindsCurrent
PROPERTIES
  ImplementsTopologySync
  EventuallyPublished
  EventuallyWithdrawn
  NamespaceReleased
CHECK_DEADLOCK FALSE
