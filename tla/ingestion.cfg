SPECIFICATION Spec
CONSTANTS
  None = None
  Contents <- MCContents
  Plain <- MCPlain
  Limits <- MCLimits
  BatchSize = 2
  MaxCommands = 3
  MaxFaults = 1
INVARIANTS
  
  RepeatableRunSucceeds
  
 
