\* Two devices that come and go, up to two applications and two containers.
SPECIFICATION Spec
CONSTANTS
  Device <- MCDevice
  MaxApps = 2
  MaxContainers = 2
  Null = Null
INVARIANTS ListsAreWhole SkippedForAReason CrashesOnlyOnNothing
