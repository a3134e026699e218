\* Two loaders and the core's keys competing for the heap and the handles.
SPECIFICATION Spec
CONSTANTS
  Loader = {l1, l2}
  KeyObj = {k1, k2, k3, k4}
  Handle = {h1, h2, h3, h4}
  NoKey = NoKey
  NoHandle = NoHandle
  MaxCerts = 2
SYMMETRY Symmetry
CONSTRAINT BeforeStray
INVARIANTS PositionsAgree HasErrsOnBlankKeys
  OneOwnerPerObject HandlesExclusive PreloadMatchesCursor LeaksAccountedFor
PROPERTIES HeldKeysStable LoadersAreStreams
