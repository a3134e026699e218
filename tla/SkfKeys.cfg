\* Four pairs: the SM2 container filled, the RSA container refilled.
SPECIFICATION Spec
CONSTANTS
  MaxPairs = 4
  Imported = Imported
  None = None
INVARIANTS VerifiesItsOwnSignature WrappedForTheToken HalfMadeWasCut RefusalFreesBlobs
PROPERTY SigningPairStays
