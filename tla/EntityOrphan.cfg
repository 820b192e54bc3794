CONSTANTS
  e1 = e1
  e2 = e2
  u1 = u1
  u2 = u2
  k1 = k1
  v1 = v1
  v2 = v2
  Resources = {e1}
  URIs = {u1}
  Workers = {w1, w2}
  AspectKeys = {k1}
  AspectValues = {v1, v2}
  SpecsOf <- SpecsOne
  TopoFinalizer = topo
  GCFinalizer = gc
  NoResource = NoResource
  NoRequest = NoRequest
  NoObject = NoObject
  NoValue = NoValue
  StoreSurvives = FALSE
  TopoClients = FALSE
  MaxOperations = 2
  MaxOutages = 0
  MaxFaults = 0
SPECIFICATION Spec
INVARIANTS
  NoOrphan
CHECK_DEADLOCK FALSE
