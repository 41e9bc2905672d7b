SPECIFICATION FairSpec
CONSTANTS
  None = None
  Workers = {w1}
  Sockets = {s1, s2, s3}
  Events = {e1, e2}
 
PROPERTIES PublishEnds GoneIsForgotten
