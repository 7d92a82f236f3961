SPECIFICATION Spec
CONSTANTS
  p20 = p20
  p500 = p500
  ARCHS = {"rest"}
  POOLS = {p500}
  BASELINE_POOL = p500
  GATE_RATES <- TwoGateRates
  SAT_RATE = 800
  CONTRAST_RATE = 480
  CONTRAST_POOLS = {}
  E_RATES = {}
  REPS = 1
  SWEEP_POOLS = {}
  SWEEP_RATES = {900}
  SWEEP_ARCHS = {"rest"}
  SWEEP_LIGHTS = {0}
  None = None
  Commands = {"gate", "all"}
  MaxStarts = 2
  Points = 1
  Faults = {}
  Readings = {"ok"}
INVARIANTS
  GateRateReproduced
CHECK_DEADLOCK FALSE
