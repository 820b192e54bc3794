CONSTANTS
  e1 = e1
  e2 = e2
  u1 = u1
  u2 = u2
  k1 = k1
  v1 = v1
  v2 = v2
  Resources = {e1, e2}
  URIs = {u1}
  Workers = {w1}
  AspectKeys = {k1}
  AspectValues = {v1, v2}
  SpecsOf <- SpecsShared
  TopoFinalizer = topo
  GCFinalizer = gc
  NoResource = NoResource
  NoRequest = NoRequest
  NoObject = NoObject
  NoValue = NoValue
  StoreSurvives = FALSE
  TopoClients = FALSE
  MaxOperations = 3
  MaxOutages = 1
  MaxFaults = 1
SPECIFICATION Spec
INVARIANTS
  NoLostWakeup
PROPERTIES
  OnlyGivenUp
  ImplementsTopologySync
  StateEdges
  AddedCarriesSpec
CHECK_DEADLOCK FALSE
