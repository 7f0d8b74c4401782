SPECIFICATION Spec
CONSTANTS
  a1 = a1
  a2 = a2
  c1 = c1
  c2 = c2
  c3 = c3
  c4 = c4
  d1 = d1
  d2 = d2
  d3 = d3
  None = None
  Claims = {c1, c2, c3, c4}
  Verdicts = {"yes", "no", "both", "nee"}
  NotEnough = "nee"
  Sides = {"yes", "no"}
  Conflicting = "both"
  Clauses = {2, 3}
  Sources = {2}
  Levels = {1, 2, 3}
  Collected <- MCCollected
  Recovering = FALSE
  Rank <- MCRank
  Tolerance = 20
  Scale = 60
  DevSize = 3
  StabilitySize = 2
  Repeats <- MCRepeats
  Activities = {a1, a2}
  Cohorts <- MCCohorts
  Manifests <- MCManifests
  Orders <- MCOrders
  Price <- MCPrice
  Reserve = 2000
  MaxHead = 1
PROPERTIES
  ReplayAgrees
  StricterIsDearer
  PolicyIsChosen
  ScheduleIsFair
  
CHECK_DEADLOCK FALSE
