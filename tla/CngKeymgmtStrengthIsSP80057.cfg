\* The security bits of a modulus at each threshold of the table.
SPECIFICATION KeymgmtSpec
CONSTANTS
  Base = 2
  Bits <- MCBits
  MaxBytes = 3
  MaxCalls = 2
PROPERTY StrengthIsSP80057
