CONSTANTS
  mfactor = mfactor
  r0 = r0
  g0 = g0
  s0 = s0
  None = None
  Temp = Temp
  WordBits = 2
  MaxGiven = 2
  Numbers = {1, 2}
  Modules <- MCModules
  Solutions <- MCSolutions
  FlagSets <- MCFlagSets
SPECIFICATION LibrarySpec
INVARIANTS LoadsAgree
PROPERTIES RefinesDevice
