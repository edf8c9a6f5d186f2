CONSTANTS
  NodeCount = 2
  MaxQuota = 2
  MaxLoad = 3
  MaxMinutes = 3
SPECIFICATION Spec
INVARIANTS
  TypeOK
  SharesSumToTotal
  IntervalSharesMatchRamp
  PinningRespected
  BusyOnlyWhenShort
