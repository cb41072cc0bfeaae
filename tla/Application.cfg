SPECIFICATION Spec
CONSTANTS
  Windows <- MCWindows
  Devices <- MCDevices
  Standard <- MCStandard
  Customs <- MCCustoms
  Names <- MCNames
  Order <- MCOrder
  Default <- MCDefault
  Builtins <- MCBuiltins
  Missing <- MCMissing
  Legacy <- MCLegacy
  Preset <- MCPreset
  MaxActions = 5
CHECK_DEADLOCK FALSE
INVARIANTS
  TypeOK
  ErrorIsShown
  OneAttemptPerAction
  CharsetAgrees
  ShownIsInForce
