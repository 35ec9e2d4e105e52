CONSTANTS
  Main = Main
  Service = Service
  Wifi = Wifi
  Tasks <- MCTasks
  MainTask = Main
  QueueSize = 2
  ListenerCount = 2
  MaxPushes = 2
  NoEvent = NoEvent
SPECIFICATION Spec
INVARIANTS ListenersSeeEachTaskInOrder DataBlockLivesWithItsEvent
PROPERTIES StallIsFinal AcceptedIsHandled ImplementsBus
CHECK_DEADLOCK FALSE
