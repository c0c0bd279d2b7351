SPECIFICATION FairSpec
\* A client deleted while no callback is due has nothing left to do.
CHECK_DEADLOCK FALSE
CONSTANTS
  Clients = {c1}
  l1 = l1
  l2 = l2
  Links = {l1, l2}
  NULL = NULL
  HostIsIP = FALSE
  MQTT_TASK_QUEUE_SIZE = 1
  MQTT_SEND_TIMOUT = 1
  MQTT_RECONNECT_TIMEOUT = 0
  KeepAlive = 1
  QueueFrames = 1
  FinMayFail = TRUE
  AppMsgs = {"PUBLISH"}
  Segments <- MCSegments
PROPERTIES
  ReconnectAttempted
  StalledQueueWakes
