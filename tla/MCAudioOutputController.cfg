\* Client calls, device callbacks, one stream error and two device changes:
\* the safety invariants and Close's liveness.
CONSTANTS
  Devices <- MCDevices
  InitDevice <- MCInitDevice
  Volumes <- MCVolumes
  InitVolume <- MCInitVolume
  MaxCalls = 3
  MaxErrors = 1
  MaxDeviceChanges = 2
SPECIFICATION Spec
\* The controller waits for its client once the bounded calls are made.
CHECK_DEADLOCK FALSE
INVARIANT TypeOK
INVARIANT IOEntryGate
INVARIANT ListenerMatchesStream
INVARIANT StreamVolumeCurrent
INVARIANT ProxyOnCurrentDevice
INVARIANT ReaderOpenWhileDeviceRuns
PROPERTY NoCallbacksAfterClose
PROPERTY ClosedQuiesces
