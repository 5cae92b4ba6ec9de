CONSTANTS
  LittleEndian = TRUE
  FlagSets <- MCFlagSets
  Numeric <- MCNumeric
  Ports <- MCPorts
  Fds = {d1, d2}
  None = None
SPECIFICATION Spec
SYMMETRY Symmetry
INVARIANTS
  
  FamilyAsAsked
  OrderIsTotal
  MappingKeepsMeaning
  UnionIsSource
  ConnectReachesHost
