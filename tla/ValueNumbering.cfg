SPECIFICATION DiffSpec
CONSTANTS
  Jobs <- MCJobs
  Problems <- MCProblems
  Samples <- MCSamp
  NumParams = 3
  Fuel = 12
INVARIANTS OutputsKept ClassesSound DerivativesRight
PROPERTY Terminates
