SPECIFICATION Spec
CONSTANTS
  SlPips = 2
  TpPips = 4
  Slip = 1
  MaxBars = 3
  BeR = 1
  TrailR = 2
  Candidates <- MCCandidates
  Bars <- MCBars
INVARIANTS
  TypeOK
  LossBounded
  ArmedNeverLoses

