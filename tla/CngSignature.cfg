\* Two contexts, every parameter, two digests and one piece of data.
SPECIFICATION Spec
CONSTANTS
  Ctx = {c1, c2}
  NoCtx = NoCtx
  Hash = {h1, h2}
  NoHash = NoHash
  KeyObj = {k1, k2}
  NoKey = NoKey
  PrivKey = {p1}
  Block = {b1}
  Alg = {sha256, sha384}
  NoAlg = NoAlg
  Pad = {"absent", "int pss", "int pkcs1", "str pss", "str pkcs1", "unknown"}
  Salt = {"absent", "int", "str digest", "no digest length", "unknown"}
  MaxFed = 1
SYMMETRY Symmetry
INVARIANTS HashesExclusive TranscriptFaithful UnsignedStaysOpen
PROPERTY SignsWhatWasFed
