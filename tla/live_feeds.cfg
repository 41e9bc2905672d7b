CONSTANTS
    Callers = {c1, c2}
    Readers = {c1}
    LeadAreas <- MCLeadAreas
    upper = upper
    lower = lower
    Points = {upper, lower}
    Screening <- MCScreening
    Rains = {10, 70}
    WeatherTtl = 1
    WatchTtl = 2
    MaxFetch = 1
    Attempts = 2
    Free = Free
    NoPoint = NoPoint
SPECIFICATION FeedsSpec
INVARIANTS
  ObservationsAreRecent
  AgeIsNotUnderstated
PROPERTIES
  EveryRequestIsAnswered
CHECK_DEADLOCK FALSE
