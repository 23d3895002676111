CONSTANTS
  Jobs <- MCSplitJobs
  Params <- MCParams
  Dependent <- MCDependent
  Tagged <- MCTagged
  Fuel = 24
SPECIFICATION Spec
INVARIANTS PassesPreserve SplitSound WellFormed ConstantsRight
PROPERTY Terminates
