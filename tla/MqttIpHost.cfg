SPECIFICATION Spec
\* A client deleted while no callback is due has nothing left to do.
CHECK_DEADLOCK FALSE
CONSTANTS
  Clients = {c1}
  l1 = l1
  l2 = l2
  Links = {l1, l2}
  NULL = NULL
  HostIsIP = TRUE
  MQTT_TASK_QUEUE_SIZE = 1
  MQTT_SEND_TIMOUT = 2
  MQTT_RECONNECT_TIMEOUT = 1
  KeepAlive = 1
  QueueFrames = 2
  FinMayFail = FALSE
  AppMsgs = {"PUBLISH", "EMPTY"}
  Segments <- MCSegments
SYMMETRY LinkSymmetry
INVARIANTS
  TypeOK
  TimerDiscipline
  ConnackFindsConnect
  NoLostWakeup
PROPERTIES
  NoReconnectAfterDelete
