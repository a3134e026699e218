\* One process, every store of up to two certificates, every call failing.
SPECIFICATION Spec
CONSTANTS
  MaxCerts = 2
  PrivateKey <- MCPrivateKey
  KeyObj <- MCKeyObj
  NoKey = 0
  Handle <- MCHandle
  NoHandle = 0
CONSTRAINT BeforeStray
ACTION_CONSTRAINT FirstFit
PROPERTIES FollowsTheClient SignsForItsCertificate
CHECK_DEADLOCK FALSE
