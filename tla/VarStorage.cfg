SPECIFICATION Spec
CONSTANTS
  o0 = o0
  o1 = o1
  o2 = o2
  pwd = pwd
  oldpwd = oldpwd
  Overlays <- MCThreeOverlays
  Root = o0
  Names <- MCNames
  NameCost <- MCNameCost
  MaxVarBytes = 1
  MaxCharge = 1
  Caps <- MCCaps
  MaxAssigns = 2
  HostEnvs <- AnyEnv
  PWD = pwd
  OLDPWD = oldpwd
SYMMETRY SymThree
INVARIANT Accounting
PROPERTIES PutBack CapEnforced
CHECK_DEADLOCK FALSE
