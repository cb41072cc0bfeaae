SPECIFICATION Spec
CONSTANTS
  Windows <- MCWindows
  Devices <- MCDevices
  Standard <- MCStandard
  Customs <- MCCustoms
  Names <- MCNames
  Order <- MCOrder
  Default <- MCDefault
  Builtins <- MCBuiltins
  Missing <- MCMissing
  Legacy <- MCLegacy
  Preset <- MCPreset
  MaxActions = 4
CHECK_DEADLOCK FALSE
INVARIANTS
  DialogErrorIsShown
