\* Two entries, texts of none to three characters, buffers of one to three
\* bytes; every pair of CA files of two subjects; two repeated calls.
SPECIFICATION Spec
CONSTANTS
  Character = {1, 2}
  Junk = 9
  MaxText = 3
  MaxEntries = 2
  BufferLength <- MCBufferLength
  Chunk = 2
  s1 = s1
  s2 = s2
  Subject <- MCSubject
  NoFile = NoFile
  MaxRetry = 2
INVARIANTS IssuerIsTheLastName Terminated ListsBothFiles
CHECK_DEADLOCK FALSE
