SPECIFICATION Spec
CONSTANTS
  Ring = 1
  SocketCap = 1
  MaxRecords = 4
  MaxDeaths = 1
INVARIANTS
  NoneOvertakes
  MissingIsToldOrCut
  AdmittedIsOut
PROPERTY
  DrainsOnceUp
