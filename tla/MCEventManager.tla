--------------------------- MODULE MCEventManager ---------------------------
(* Two producer tasks beside the main task, a queue shorter than what they   *)
(* can push, two listeners.                                                  *)
EXTENDS EventManager
CONSTANTS Main, Service, Wifi

MCTasks == {Main, Service, Wifi}
=============================================================================
