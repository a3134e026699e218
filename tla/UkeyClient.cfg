\* Two tokens exchanged at any moment; the server asks for two signatures.
SPECIFICATION Spec
CONSTANTS
  Token = {t1, t2}
  NoToken = NoToken
  MaxTries = 2
  MaxSigned = 2
SYMMETRY Symmetry
INVARIANTS PairsMatch OneWrongPinAtMost LeftOnlyByFailure
PROPERTY SignatureClosesItsSession
CHECK_DEADLOCK FALSE
