----------------------------- MODULE MqttClient -----------------------------
(***************************************************************************)
(* lib/mqtt/mqtt.c: the session of one or more MQTT clients.               *)
(*                                                                         *)
(* Everything runs in callbacks of the non-preemptive ESP8266 SDK, so each *)
(* handler is one action: the application's calls, the 1 s timer, the      *)
(* espconn and DNS callbacks, and MQTT_Task, which every handler wakes     *)
(* through ONE event queue of MQTT_TASK_QUEUE_SIZE slots that all clients  *)
(* share (system_os_post drops the event when it is full).                 *)
(*                                                                         *)
(* A link is an espconn the client allocated.  MQTT_Connect overwrites     *)
(* pCon without freeing the previous one, whose callbacks stay registered. *)
(* The outgoing queue is the LossyFifo that MsgQueue implements, its ring  *)
(* counted in frames.                                                      *)
(***************************************************************************)
EXTENDS Integers, Sequences, FiniteSets

CONSTANTS
    Clients,            \* the MQTT_Client objects
    Links,              \* espconn addresses: a bound on the live ones
    NULL,
    HostIsIP,           \* UTILS_StrToIP accepts the host: no DNS query
    MQTT_TASK_QUEUE_SIZE,
    MQTT_SEND_TIMOUT,
    MQTT_RECONNECT_TIMEOUT,
    KeepAlive,          \* connect_info.keepalive, in timer ticks
    QueueFrames,        \* frames the outgoing ring holds
    FinMayFail,         \* espconn_disconnect may find no memory for the FIN
    AppMsgs,            \* what the application queues
    Segments            \* what one TCP segment from the broker may hold

ASSUME LinkAssumption == NULL \notin Links
ASSUME SizesAssumption ==
    /\ MQTT_TASK_QUEUE_SIZE \in Nat \ {0}
    /\ MQTT_SEND_TIMOUT \in Nat \ {0}
    /\ MQTT_RECONNECT_TIMEOUT \in Nat
    /\ KeepAlive \in Nat
    /\ QueueFrames \in Nat \ {0}
    /\ FinMayFail \in BOOLEAN

ConnState ==
    {"WIFI_INIT", "TCP_DISCONNECTING", "TCP_DISCONNECTED", "TCP_RECONNECT_REQ",
     "TCP_RECONNECT", "TCP_CONNECTING", "MQTT_CONNECT_SENDING", "MQTT_DATA",
     "MQTT_DELETING", "MQTT_DELETED"}

\* "EMPTY" is the zero-length message MQTT_Subscribe queues when
\* mqtt_msg_subscribe failed.
OutType == {"PUBLISH", "SUBSCRIBE", "PINGREQ", "PUBACK", "PUBREC", "PUBREL",
            "PUBCOMP", "PINGRESP", "EMPTY"}
InType == {"CONNACK", "PUBLISH0", "PUBLISH1", "PUBLISH2", "PUBREC", "PUBREL",
           "PINGREQ", "ACK"}

ASSUME InputAssumption ==
    /\ AppMsgs \subseteq {"PUBLISH", "SUBSCRIBE", "PINGREQ", "EMPTY"}
    /\ Segments \subseteq Seq(InType) \ {<<>>}

\* idle: no TCP pcb; closing and failed: espconn has posted the callback;
\* dangling: freed while the TCP stack or the resolver still points to it.
LinkState == {"idle", "connecting", "up", "closing", "failed", "dangling"}

\* The one packet espconn buffers per link: none, written to TCP and not yet
\* acknowledged, or kept although tcp_write refused it.
SendBuf == {"empty", "sent", "stuck"}

\* What MQTT_InitConnection, MQTT_InitClient and MQTT_InitLWT allocate.
HeapObjects == {"host", "connect_info", "in_buffer", "out_buffer", "msgQueue.buf"}

VARIABLES
    connState, pCon,
    mqttTimer,          \* the 1 s timer is armed
    keepAliveTick, reconnectTick, sendTimeout,
    pending,            \* mqtt_state.pending_msg_type
    msgQueue,           \* message types, oldest first
    heap,               \* objects the client still owns
    taskQueue,          \* mqtt_procTaskQueue
    link, dns, cbs, sendBuf,    \* espconn
    deleted             \* the application has called MQTT_DeleteClient

ticks == <<keepAliveTick, reconnectTick, sendTimeout>>
net   == <<link, dns, cbs, sendBuf>>
vars  == <<connState, pCon, mqttTimer, ticks, pending, msgQueue, heap,
           taskQueue, net, deleted>>

-----------------------------------------------------------------------------
(* Helpers *)

\* system_os_post: an event for c, dropped when every slot is taken.
Post_Never(q, c) == q
Post(q, c) == IF Len(q) < MQTT_TASK_QUEUE_SIZE THEN Append(q, c) ELSE q

Posted(c) == \E i \in 1 .. Len(taskQueue) : taskQueue[i] = c

\* Counters saturate where the code only compares them with ">".
UpTo(n, bound) == IF n > bound THEN bound ELSE n

\* espconn_send on c's current link, once the links are lk.  A failure may
\* leave the packet in the buffer, written to TCP or not.
CanSend(c, lk) ==
    /\ pCon[c] # NULL
    /\ lk[c][pCon[c]] = "up"
    /\ sendBuf[c][pCon[c]] = "empty"

espconn_send(c, lk, ok) ==
    \/ ~ok /\ UNCHANGED sendBuf
    \/ /\ CanSend(c, lk)
       /\ \E b \in IF ok THEN {"sent"} ELSE {"sent", "stuck"} :
            sendBuf' = [sendBuf EXCEPT ![c][pCon[c]] = b]

\* espconn_connect on link l: it may fail (no address, no memory), which
\* every caller ignores; on a link that is not idle it returns ISCONN.
Connecting(c, l) ==
    {link} \cup IF link[c][l] = "idle" THEN {[link EXCEPT ![c][l] = "connecting"]} ELSE {}

\* Publishing into the queue: MQTT_Publish evicts the oldest until it fits;
\* the partial frames its failed attempts leave can make it evict them all.
Accepting_WhenFull(q, m) == {Append(q, m)}
Accepting(q, m) ==
    IF Len(q) < QueueFrames THEN {Append(q, m)}
    ELSE {Append(SubSeq(q, k + 1, Len(q)), m) : k \in 1 .. Len(q)}

\* mqtt_tcpclient_recv goes on to a segment's next packet only after a PUBLISH.
IsPublish(p) == p \in {"PUBLISH0", "PUBLISH1", "PUBLISH2"}
Handled(s, i) == \A j \in 1 .. i - 1 : IsPublish(s[j])

AnswerTo(p) ==
    CASE p = "PUBLISH1" -> "PUBACK"
      [] p = "PUBLISH2" -> "PUBREC"
      [] p = "PUBREC"   -> "PUBREL"
      [] p = "PUBREL"   -> "PUBCOMP"
      [] p = "PINGREQ"  -> "PINGRESP"
      [] OTHER          -> "none"

Answers(s) ==
    LET upTo[n \in 0 .. Len(s)] ==
          IF n = 0 THEN <<>>
          ELSE IF Handled(s, n) /\ AnswerTo(s[n]) # "none"
               THEN Append(upTo[n - 1], AnswerTo(s[n])) ELSE upTo[n - 1]
    IN  upTo[Len(s)]

\* QUEUE_Puts of each answer, dropped when the ring is full.
Answering(q, as) ==
    q \o SubSeq(as, 1, IF Len(as) <= QueueFrames - Len(q)
                       THEN Len(as) ELSE QueueFrames - Len(q))

-----------------------------------------------------------------------------
(* The application's calls.  The documented use stops calling a client it  *)
(* has asked to delete.                                                    *)

\* After user_init: every client is initialised, and MQTT_Task has taken the
\* event MQTT_InitClient posts, which it ignores.
Init ==
    /\ connState = [c \in Clients |-> "WIFI_INIT"]
    /\ pCon = [c \in Clients |-> NULL]
    /\ mqttTimer = [c \in Clients |-> FALSE]
    /\ keepAliveTick = [c \in Clients |-> 0]
    /\ reconnectTick = [c \in Clients |-> 0]
    /\ sendTimeout = [c \in Clients |-> 0]
    /\ pending = [c \in Clients |-> "none"]
    /\ msgQueue = [c \in Clients |-> <<>>]
    /\ heap = [c \in Clients |-> HeapObjects]
    /\ taskQueue = <<>>
    /\ link = [c \in Clients |-> [l \in Links |-> "idle"]]
    /\ dns = [c \in Clients |-> {}]
    /\ cbs = [c \in Clients |-> {}]
    /\ sendBuf = [c \in Clients |-> [l \in Links |-> "empty"]]
    /\ deleted = [c \in Clients |-> FALSE]

\* A new espconn: an address no callback of this client can still arrive at.
Fresh(c) ==
    {l \in Links : l # pCon[c] /\ link[c][l] = "idle" /\ l \notin dns[c]}

\* MQTT_Connect, after the event its MQTT_Disconnect posts: the application
\* and MQTT_Task call it.  The outcome of espconn_connect and of
\* espconn_gethostbyname is ignored.
MQTT_Connect(c) ==
    \E l \in Fresh(c) :
      /\ pCon' = [pCon EXCEPT ![c] = l]
      /\ cbs' = [cbs EXCEPT ![c] = @ \ {l}]
      /\ sendBuf' = [sendBuf EXCEPT ![c][l] = "empty"]
      /\ keepAliveTick' = [keepAliveTick EXCEPT ![c] = 0]
      /\ reconnectTick' = [reconnectTick EXCEPT ![c] = 0]
      /\ mqttTimer' = [mqttTimer EXCEPT ![c] = TRUE]
      /\ IF HostIsIP
         THEN link' \in Connecting(c, l) /\ UNCHANGED dns
         ELSE dns' \in {dns, [dns EXCEPT ![c] = @ \cup {l}]} /\ UNCHANGED link
      /\ connState' = [connState EXCEPT ![c] = "TCP_CONNECTING"]
      /\ UNCHANGED <<sendTimeout, pending, msgQueue, heap, deleted>>

AppConnect(c) ==
    /\ ~deleted[c]
    /\ MQTT_Connect(c)
    /\ taskQueue' = Post(taskQueue, c)

\* os_timer_disarm in MQTT_Disconnect and MQTT_DeleteClient.
Disarmed_Never(c) == mqttTimer
Disarmed(c) == [mqttTimer EXCEPT ![c] = FALSE]

MQTT_Disconnect(c) ==
    /\ ~deleted[c]
    /\ connState' = [connState EXCEPT ![c] = "TCP_DISCONNECTING"]
    /\ taskQueue' = Post(taskQueue, c)
    /\ mqttTimer' = Disarmed(c)
    /\ UNCHANGED <<pCon, ticks, pending, msgQueue, heap, net, deleted>>

MQTT_DeleteClient(c) ==
    /\ ~deleted[c]
    /\ deleted' = [deleted EXCEPT ![c] = TRUE]
    /\ connState' = [connState EXCEPT ![c] = "MQTT_DELETING"]
    /\ taskQueue' = Post(taskQueue, c)
    /\ mqttTimer' = Disarmed(c)
    /\ UNCHANGED <<pCon, ticks, pending, msgQueue, heap, net>>

\* MQTT_Publish, MQTT_Subscribe and MQTT_Ping: TRUE and an event, or FALSE
\* once the eviction loop has emptied the queue.
MQTT_Publish(c, m) ==
    /\ ~deleted[c]
    /\ \/ /\ \E q \in Accepting(msgQueue[c], m) : msgQueue' = [msgQueue EXCEPT ![c] = q]
          /\ taskQueue' = Post(taskQueue, c)
       \/ /\ Len(msgQueue[c]) = QueueFrames
          /\ msgQueue' = [msgQueue EXCEPT ![c] = <<>>]
          /\ UNCHANGED taskQueue
    /\ UNCHANGED <<connState, pCon, mqttTimer, ticks, pending, heap, net, deleted>>

-----------------------------------------------------------------------------
(* mqtt_timer: the periodic 1 s timer.                                     *)

\* The PINGREQ goes straight to espconn_send, whatever is in flight.
KeepAliveDue_WhenIdle(c) == keepAliveTick[c] + 1 > KeepAlive /\ msgQueue[c] = <<>>
KeepAliveDue(c) == keepAliveTick[c] + 1 > KeepAlive

TimerInData(c) ==
    /\ connState[c] = "MQTT_DATA"
    /\ IF KeepAliveDue(c)
       THEN \E ok \in BOOLEAN :
              /\ espconn_send(c, link, ok)
              /\ pending' = [pending EXCEPT ![c] = "PINGREQ"]
              /\ sendTimeout' = [sendTimeout EXCEPT ![c] = MQTT_SEND_TIMOUT - 1]
              /\ IF ok
                 THEN /\ keepAliveTick' = [keepAliveTick EXCEPT ![c] = 0]
                      /\ taskQueue' = Post(taskQueue, c)
                      /\ UNCHANGED connState
                 ELSE /\ keepAliveTick' = [keepAliveTick EXCEPT ![c] = UpTo(@ + 1, KeepAlive + 1)]
                      /\ connState' = [connState EXCEPT ![c] = "TCP_RECONNECT_REQ"]
                      /\ UNCHANGED taskQueue
       ELSE /\ keepAliveTick' = [keepAliveTick EXCEPT ![c] = UpTo(@ + 1, KeepAlive + 1)]
            /\ sendTimeout' = [sendTimeout EXCEPT ![c] = IF @ > 0 THEN @ - 1 ELSE 0]
            /\ UNCHANGED <<connState, pending, sendBuf, taskQueue>>
    /\ UNCHANGED reconnectTick

TimerInReconnectReq(c) ==
    /\ connState[c] = "TCP_RECONNECT_REQ"
    /\ IF reconnectTick[c] + 1 > MQTT_RECONNECT_TIMEOUT
       THEN /\ reconnectTick' = [reconnectTick EXCEPT ![c] = 0]
            /\ connState' = [connState EXCEPT ![c] = "TCP_RECONNECT"]
            /\ taskQueue' = Post(taskQueue, c)
       ELSE /\ reconnectTick' = [reconnectTick EXCEPT ![c] = @ + 1]
            /\ UNCHANGED <<connState, taskQueue>>
    /\ sendTimeout' = [sendTimeout EXCEPT ![c] = IF @ > 0 THEN @ - 1 ELSE 0]
    /\ UNCHANGED <<keepAliveTick, pending, sendBuf>>

TimerElsewhere(c) ==
    /\ connState[c] \notin {"MQTT_DATA", "TCP_RECONNECT_REQ"}
    /\ sendTimeout' = [sendTimeout EXCEPT ![c] = IF @ > 0 THEN @ - 1 ELSE 0]
    /\ UNCHANGED <<connState, keepAliveTick, reconnectTick, pending, sendBuf, taskQueue>>

mqtt_timer(c) ==
    /\ mqttTimer[c]
    /\ TimerInData(c) \/ TimerInReconnectReq(c) \/ TimerElsewhere(c)
    /\ UNCHANGED <<pCon, mqttTimer, msgQueue, heap, link, dns, cbs, deleted>>

-----------------------------------------------------------------------------
(* espconn's callbacks.  Callbacks are registered per link: the connect    *)
(* and error ones by MQTT_Connect, the rest (cbs) by the connect callback  *)
(* on the CURRENT link.  Each acts on the client, whichever link it is     *)
(* about.                                                                  *)

\* connect and receive write into the buffers of the client.
BuffersAlive(c) == {"in_buffer", "out_buffer"} \subseteq heap[c]

\* espconn_disconnect on the current link, if espconn knows it.  A close that
\* fails is to be "tried again later", which nothing does.
espconn_disconnect(c) ==
    IF pCon[c] # NULL /\ link[c][pCon[c]] \in {"connecting", "up"}
    THEN {[link EXCEPT ![c][pCon[c]] = "closing"]}
         \cup IF FinMayFail /\ link[c][pCon[c]] = "up" THEN {link} ELSE {}
    ELSE {link}

\* The CONNECT message goes out on the current link; its outcome is ignored.
mqtt_tcpclient_connect_cb(c, l) ==
    /\ link[c][l] = "connecting" /\ BuffersAlive(c)
    /\ link' = [link EXCEPT ![c][l] = "up"]
    /\ cbs' = [cbs EXCEPT ![c] = @ \cup ({pCon[c]} \ {NULL})]
    /\ \E ok \in BOOLEAN : espconn_send(c, link', ok)
    /\ pending' = [pending EXCEPT ![c] = "CONNECT"]
    /\ sendTimeout' = [sendTimeout EXCEPT ![c] = MQTT_SEND_TIMOUT]
    /\ connState' = [connState EXCEPT ![c] = "MQTT_CONNECT_SENDING"]
    /\ taskQueue' = Post(taskQueue, c)
    /\ UNCHANGED <<pCon, mqttTimer, keepAliveTick, reconnectTick, msgQueue, heap, dns, deleted>>

RecvInConnectSending(c, seg) ==
    /\ connState[c] = "MQTT_CONNECT_SENDING"
    /\ CASE seg[1] # "CONNACK" -> UNCHANGED <<connState, link>>
         [] seg[1] = "CONNACK" /\ pending[c] # "CONNECT" ->
              link' \in espconn_disconnect(c) /\ UNCHANGED connState
         [] seg[1] = "CONNACK" /\ pending[c] = "CONNECT" ->
              connState' = [connState EXCEPT ![c] = "MQTT_DATA"] /\ UNCHANGED link
    /\ UNCHANGED msgQueue

RecvInData(c, seg) ==
    /\ connState[c] = "MQTT_DATA"
    /\ msgQueue' = [msgQueue EXCEPT ![c] = Answering(@, Answers(seg))]
    /\ UNCHANGED <<connState, link>>

RecvElsewhere(c) ==
    /\ connState[c] \notin {"MQTT_CONNECT_SENDING", "MQTT_DATA"}
    /\ UNCHANGED <<connState, link, msgQueue>>

mqtt_tcpclient_recv(c, l, seg) ==
    /\ link[c][l] = "up" /\ l \in cbs[c] /\ BuffersAlive(c)
    /\ RecvInConnectSending(c, seg) \/ RecvInData(c, seg) \/ RecvElsewhere(c)
    /\ taskQueue' = Post(taskQueue, c)
    /\ UNCHANGED <<pCon, mqttTimer, ticks, pending, heap, dns, cbs, sendBuf, deleted>>

\* A send on l has been acknowledged.
mqtt_tcpclient_sent_cb(c, l) ==
    /\ link[c][l] = "up" /\ sendBuf[c][l] = "sent"
    /\ sendBuf' = [sendBuf EXCEPT ![c][l] = "empty"]
    /\ IF l \in cbs[c]
       THEN /\ sendTimeout' = [sendTimeout EXCEPT ![c] = 0]
            /\ taskQueue' = Post(taskQueue, c)
       ELSE UNCHANGED <<sendTimeout, taskQueue>>
    /\ UNCHANGED <<connState, pCon, mqttTimer, keepAliveTick, reconnectTick,
                   pending, msgQueue, heap, link, dns, cbs, deleted>>

AfterDisconnect(s) ==
    CASE s = "TCP_DISCONNECTING" -> "TCP_DISCONNECTED"
      [] s = "MQTT_DELETING"     -> "MQTT_DELETED"
      [] OTHER                   -> "TCP_RECONNECT_REQ"

mqtt_tcpclient_discon_cb(c, l) ==
    /\ link[c][l] = "closing"
    /\ link' = [link EXCEPT ![c][l] = "idle"]
    /\ sendBuf' = [sendBuf EXCEPT ![c][l] = "empty"]
    /\ IF l \in cbs[c]
       THEN /\ connState' = [connState EXCEPT ![c] = AfterDisconnect(@)]
            /\ taskQueue' = Post(taskQueue, c)
       ELSE UNCHANGED <<connState, taskQueue>>
    /\ UNCHANGED <<pCon, mqttTimer, ticks, pending, msgQueue, heap, dns, cbs, deleted>>

mqtt_tcpclient_recon_cb(c, l) ==
    /\ link[c][l] = "failed"
    /\ link' = [link EXCEPT ![c][l] = "idle"]
    /\ sendBuf' = [sendBuf EXCEPT ![c][l] = "empty"]
    /\ connState' = [connState EXCEPT ![c] = "TCP_RECONNECT_REQ"]
    /\ taskQueue' = Post(taskQueue, c)
    /\ UNCHANGED <<pCon, mqttTimer, ticks, pending, msgQueue, heap, dns, cbs, deleted>>

\* The resolver's answer to the query of link l: none; the address 0, for which
\* nothing is connected and the task is posted all the same; or one it connects
\* the current link to (a NULL one is dereferenced: undefined, not modelled).
mqtt_dns_found(c, l) ==
    /\ l \in dns[c] /\ link[c][l] # "dangling"
    /\ dns' = [dns EXCEPT ![c] = @ \ {l}]
    /\ \/ /\ connState' = [connState EXCEPT ![c] = "TCP_RECONNECT_REQ"]
          /\ UNCHANGED <<link, taskQueue>>
       \/ /\ taskQueue' = Post(taskQueue, c)
          /\ UNCHANGED <<link, connState>>
       \/ /\ pCon[c] # NULL
          /\ link' \in Connecting(c, pCon[c])
          /\ connState' = [connState EXCEPT ![c] = "TCP_CONNECTING"]
          /\ taskQueue' = Post(taskQueue, c)
    /\ UNCHANGED <<pCon, mqttTimer, ticks, pending, msgQueue, heap, cbs, sendBuf, deleted>>

\* The network: the broker closes the connection, or it breaks.
PeerCloses(c, l) ==
    /\ link[c][l] = "up"
    /\ link' = [link EXCEPT ![c][l] = "closing"]
    /\ UNCHANGED <<connState, pCon, mqttTimer, ticks, pending, msgQueue, heap,
                   taskQueue, dns, cbs, sendBuf, deleted>>

LinkFails(c, l) ==
    /\ link[c][l] \in {"connecting", "up"}
    /\ link' = [link EXCEPT ![c][l] = "failed"]
    /\ UNCHANGED <<connState, pCon, mqttTimer, ticks, pending, msgQueue, heap,
                   taskQueue, dns, cbs, sendBuf, deleted>>

-----------------------------------------------------------------------------
(* MQTT_Task: one event off the shared queue.                              *)

\* Freeing an espconn that the stack or the resolver still knows leaves them
\* a dangling pointer.
mqtt_tcpclient_delete(c) ==
    /\ pCon' = [pCon EXCEPT ![c] = NULL]
    /\ IF pCon[c] = NULL THEN UNCHANGED link
       ELSE link' = [link EXCEPT ![c][pCon[c]] =
                       IF @ = "idle" /\ pCon[c] \notin dns[c] THEN "idle" ELSE "dangling"]

TaskReconnect(c) ==
    /\ connState[c] = "TCP_RECONNECT"
    /\ MQTT_Connect(c)
    /\ taskQueue' = Post(Tail(taskQueue), c)

TaskDisconnect(c) ==
    /\ connState[c] \in {"TCP_DISCONNECTING", "MQTT_DELETING"}
    /\ link' \in espconn_disconnect(c)
    /\ taskQueue' = Tail(taskQueue)
    /\ UNCHANGED <<connState, pCon, mqttTimer, ticks, pending, msgQueue, heap,
                   dns, cbs, sendBuf, deleted>>

TaskDisconnected(c) ==
    /\ connState[c] = "TCP_DISCONNECTED"
    /\ mqtt_tcpclient_delete(c)
    /\ taskQueue' = Tail(taskQueue)
    /\ UNCHANGED <<connState, mqttTimer, ticks, pending, msgQueue, heap, dns, cbs,
                   sendBuf, deleted>>

\* mqtt_client_delete
TaskDeleted(c) ==
    /\ connState[c] = "MQTT_DELETED"
    /\ mqtt_tcpclient_delete(c)
    /\ heap' = [heap EXCEPT ![c] = @ \cap {"msgQueue.buf"}]
    /\ taskQueue' = Tail(taskQueue)
    /\ UNCHANGED <<connState, mqttTimer, ticks, pending, msgQueue, dns, cbs,
                   sendBuf, deleted>>

\* One message off the queue, unless the previous one has not been
\* acknowledged yet; whether espconn takes it is ignored.
MaySend_BeforeConnack(c) ==
    /\ connState[c] \in {"MQTT_CONNECT_SENDING", "MQTT_DATA"}
    /\ msgQueue[c] # <<>> /\ sendTimeout[c] = 0
MaySend(c) == connState[c] = "MQTT_DATA" /\ msgQueue[c] # <<>> /\ sendTimeout[c] = 0

TaskSend(c) ==
    /\ MaySend(c)
    /\ msgQueue' = [msgQueue EXCEPT ![c] = Tail(@)]
    /\ \E t \in IF Head(msgQueue[c]) = "EMPTY" THEN OutType ELSE {Head(msgQueue[c])} :
          pending' = [pending EXCEPT ![c] = t]
    /\ sendTimeout' = [sendTimeout EXCEPT ![c] = MQTT_SEND_TIMOUT]
    /\ \E ok \in BOOLEAN : (Head(msgQueue[c]) = "EMPTY" => ~ok) /\ espconn_send(c, link, ok)
    /\ taskQueue' = Tail(taskQueue)
    /\ UNCHANGED <<connState, pCon, mqttTimer, keepAliveTick, reconnectTick, heap,
                   link, dns, cbs, deleted>>

TaskIdle(c) ==
    /\ connState[c] \in {"WIFI_INIT", "TCP_RECONNECT_REQ", "TCP_CONNECTING",
                         "MQTT_CONNECT_SENDING", "MQTT_DATA"}
    /\ ~MaySend(c)
    /\ taskQueue' = Tail(taskQueue)
    /\ UNCHANGED <<connState, pCon, mqttTimer, ticks, pending, msgQueue, heap, net, deleted>>

MQTT_Task ==
    /\ taskQueue # <<>>
    /\ LET c == Head(taskQueue) IN
         \/ TaskReconnect(c) \/ TaskDisconnect(c) \/ TaskDisconnected(c)
         \/ TaskDeleted(c)   \/ TaskSend(c)       \/ TaskIdle(c)

-----------------------------------------------------------------------------
Application(c) ==
    \/ AppConnect(c)
    \/ MQTT_Disconnect(c)
    \/ MQTT_DeleteClient(c)
    \/ \E m \in AppMsgs : MQTT_Publish(c, m)

Espconn(c, l) ==
    \/ mqtt_tcpclient_connect_cb(c, l)
    \/ \E seg \in Segments : mqtt_tcpclient_recv(c, l, seg)
    \/ mqtt_tcpclient_sent_cb(c, l)
    \/ mqtt_tcpclient_discon_cb(c, l)
    \/ mqtt_tcpclient_recon_cb(c, l)
    \/ mqtt_dns_found(c, l)
    \/ PeerCloses(c, l)
    \/ LinkFails(c, l)

Next ==
    \/ \E c \in Clients :
         \/ Application(c)
         \/ mqtt_timer(c)
         \/ \E l \in Links : Espconn(c, l)
    \/ MQTT_Task

\* The SDK runs posted events and armed timers.  Of TCP, the resolver and the
\* broker nothing is assumed: they may never call back.
Fairness ==
    /\ WF_vars(MQTT_Task)
    /\ \A c \in Clients : WF_vars(mqtt_timer(c))

Spec == Init /\ [][Next]_vars
FairSpec == Spec /\ Fairness

-----------------------------------------------------------------------------
(* Properties *)

\* The types of the control state.
SessionTypeOK ==
    /\ connState \in [Clients -> ConnState]
    /\ pCon \in [Clients -> Links \cup {NULL}]
    /\ mqttTimer \in [Clients -> BOOLEAN]
    /\ heap \in [Clients -> SUBSET HeapObjects]
    /\ taskQueue \in Seq(Clients) /\ Len(taskQueue) <= MQTT_TASK_QUEUE_SIZE
    /\ link \in [Clients -> [Links -> LinkState]]
    /\ dns \in [Clients -> SUBSET Links]
    /\ deleted \in [Clients -> BOOLEAN]

(* Types, and the outgoing queue within its ring.                          *)
TypeOK ==
    /\ SessionTypeOK
    /\ keepAliveTick \in [Clients -> 0 .. KeepAlive + 1]
    /\ reconnectTick \in [Clients -> 0 .. MQTT_RECONNECT_TIMEOUT]
    /\ sendTimeout \in [Clients -> 0 .. MQTT_SEND_TIMOUT]
    /\ pending \in [Clients -> OutType \cup {"none", "CONNECT"}]
    /\ msgQueue \in [Clients -> Seq(OutType)]
    /\ \A c \in Clients : Len(msgQueue[c]) <= QueueFrames
    /\ cbs \in [Clients -> SUBSET Links]
    /\ sendBuf \in [Clients -> [Links -> SendBuf]]

(* A client that is being torn down has no timer running, whatever late    *)
(* callbacks of its links arrive, and one that waits to reconnect has.     *)
TimerDiscipline ==
    \A c \in Clients :
      /\ connState[c] \in {"TCP_DISCONNECTING", "TCP_DISCONNECTED",
                            "MQTT_DELETING", "MQTT_DELETED"} => ~mqttTimer[c]
      /\ connState[c] = "TCP_RECONNECT" => mqttTimer[c]

(* "MQTT: Invalid packet" is unreachable: while the client waits for the   *)
(* CONNACK nothing overwrites the pending CONNECT.                         *)
ConnackFindsConnect ==
    \A c \in Clients : connState[c] = "MQTT_CONNECT_SENDING" => pending[c] = "CONNECT"

(* Work only MQTT_Task can do next: reconnecting, starting to close a live *)
(* link (unless a close may have failed), freeing a closed one, freeing a  *)
(* deleted client.                                                         *)
NeedsTask(c) ==
    \/ connState[c] = "TCP_RECONNECT"
    \/ /\ ~FinMayFail /\ connState[c] \in {"TCP_DISCONNECTING", "MQTT_DELETING"}
       /\ pCon[c] # NULL /\ link[c][pCon[c]] \in {"connecting", "up"}
    \/ connState[c] = "TCP_DISCONNECTED" /\ pCon[c] # NULL
    \/ connState[c] = "MQTT_DELETED" /\ "host" \in heap[c]

(* No wake-up is lost, although the event queue has one slot and posting   *)
(* to a full one is ignored: nothing else would ever take these steps.     *)
NoLostWakeup == \A c \in Clients : NeedsTask(c) => Posted(c)

(* A deleted client never starts another connection.                       *)
NoReconnectAfterDelete ==
    [][\A c \in Clients :
         deleted[c] /\ connState'[c] # connState[c] => connState'[c] # "TCP_CONNECTING"]_vars

(* A client that waits to reconnect gets to a connection, a new one or the  *)
(* late success of an old one, unless the application disconnects or        *)
(* deletes it or no espconn is left.                                       *)
ReconnectAttempted ==
    \A c \in Clients :
      connState[c] = "TCP_RECONNECT_REQ" /\ mqttTimer[c]
        ~> \/ connState[c] \in {"TCP_CONNECTING", "MQTT_CONNECT_SENDING"}
           \/ ~mqttTimer[c]
           \/ Fresh(c) = {}

(* A queue left waiting when the send timeout ran out, with no event       *)
(* posted, is woken by the keep-alive.                                     *)
Stalled(c) ==
    MaySend(c) /\ ~Posted(c) /\ mqttTimer[c]

StalledQueueWakes == \A c \in Clients : Stalled(c) ~> ~Stalled(c)
=============================================================================
