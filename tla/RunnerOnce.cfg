SPECIFICATION FairSpec
CONSTANTS
  p20 = p20
  p500 = p500
  ARCHS = {"rest"}
  POOLS = {p500}
  BASELINE_POOL = p500
  GATE_RATES <- TwoGateRates
  SAT_RATE = 800
  CONTRAST_RATE = 480
  CONTRAST_POOLS = {}
  E_RATES = {}
  REPS = 1
  SWEEP_POOLS = {p500}
  SWEEP_RATES = {900}
  SWEEP_ARCHS = {"graphql"}
  SWEEP_LIGHTS = {0, 1}
  None = None
  Commands = {"gate", "all", "sweep"}
  MaxStarts = 1
  Points = 1
  Faults = {"influx", "k6", "pool"}
  Readings = {"ok", "bad"}
INVARIANTS
  GateRateReproduced
  SwappinessRestored
  ClockMeasured
  ResultsAreWhole
PROPERTIES
  ScriptEnds
CHECK_DEADLOCK FALSE
