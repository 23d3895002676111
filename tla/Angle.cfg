SPECIFICATION DiffSpec
CONSTANTS
  Jobs = {}
  Problems <- MCAngle
  Samples <- MCSamp
  NumParams = 3
  Fuel = 12
INVARIANT DerivativesRight
