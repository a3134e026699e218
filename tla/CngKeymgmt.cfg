\* Every public blob with numbers of up to three bytes, and two calls.
SPECIFICATION KeymgmtSpec
CONSTANTS
  Base = 2
  Bits <- MCBits
  MaxBytes = 3
  MaxCalls = 2
PROPERTIES ExportedNumbersAgree StrengthNeverOverstated FailuresLeakNothing
CHECK_DEADLOCK FALSE
