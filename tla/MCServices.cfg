SPECIFICATION Spec
CONSTANTS
  Services = {"sensors", "switches"}
  Reporting = {"sensors"}
  MaxReports = 2
  ActionQueueSize = 2
  EventQueueSize = 2
  CommandQueueSize = 1
  MaxBacklog = 1
PROPERTIES OnlyTheAssertOpensTheRing NobodyWaitsForever
