SPECIFICATION FairSpec
INVARIANTS
  ReadsAreTimed
  AbortWakesRead
PROPERTIES
  HalfCloseSparesOther
  SlotComesBack
  StopEndsTunnel
CHECK_DEADLOCK FALSE
