SPECIFICATION FairSpec
CONSTANTS
  None = None
  Sos = {i1}
  Reports = {r1}
  Tabs = {t1, t2}
  MaxFaults = 2

  
PROPERTIES
  EverySyncEnds
  
