CONSTANTS
  Types = {"Entity", "Kind", "Relation", "Service", "Model", "ModelRegistry"}
  Clients = {"user", "controller"}
  Values = {"a", "b"}
  Nil = Nil
  Gone = Gone
  MaxWrites = 3
SPECIFICATION Spec
INVARIANTS
  TypeOK
  CacheFaithful
PROPERTIES
  Isolation
CHECK_DEADLOCK FALSE
