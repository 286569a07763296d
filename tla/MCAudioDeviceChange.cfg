\* Stream creation failing, then diversion: the device-change path's NOTREACHED.
CONSTANTS
  Devices <- MCDevices
  InitDevice <- MCInitDevice
  Volumes <- MCVolumes
  InitVolume <- MCInitVolume
  MaxCalls = 2
  MaxErrors = 0
  MaxDeviceChanges = 1
SPECIFICATION Spec
CHECK_DEADLOCK FALSE
INVARIANT NoInvalidDeviceChange
