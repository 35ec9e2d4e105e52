CONSTANTS
  QueueSize = 2
  MaxRetry = 1
  MaxBoots = 2
SPECIFICATION Spec
INVARIANTS LostNetworkIsReported
PROPERTIES NetworkGetsItsRetries ProvidedDeviceWorks
\* A device that nothing happens to any more may stop.
CHECK_DEADLOCK FALSE
