------------------------- MODULE MqttClient_proofs -------------------------
(* Proofs about MqttClient, for every number of clients and links, every   *)
(* timeout, queue size and interleaving.                                   *)
EXTENDS MqttClient, SequenceTheorems, WellFoundedInduction, TLAPS

\* What the invariants below need to know of the pending message type.
PendingDomain == pending = [c \in Clients |-> pending[c]]

\* Deleting a client disarms its timer, and only DNS answers could arm a
\* connection again.
DeletedIsQuiet ==
    \A c \in Clients :
      /\ deleted[c] => ~mqttTimer[c]
      /\ HostIsIP => dns[c] = {}

IInv == SessionTypeOK /\ PendingDomain /\ TimerDiscipline /\ ConnackFindsConnect
        /\ DeletedIsQuiet

-----------------------------------------------------------------------------
(* The event queue: posting keeps it a queue of clients within its slots.  *)
LEMMA PostType ==
    ASSUME NEW q \in Seq(Clients), Len(q) <= MQTT_TASK_QUEUE_SIZE, NEW c \in Clients
    PROVE  /\ Post(q, c) \in Seq(Clients)
           /\ Len(Post(q, c)) <= MQTT_TASK_QUEUE_SIZE
           /\ Len(Post(q, c)) > 0
  <1>1. CASE Len(q) < MQTT_TASK_QUEUE_SIZE
    <2>1. Append(q, c) \in Seq(Clients) /\ Len(Append(q, c)) = Len(q) + 1
      OBVIOUS
    <2>2. QED BY <1>1, <2>1, SizesAssumption DEF Post
  <1>2. CASE ~(Len(q) < MQTT_TASK_QUEUE_SIZE)
    BY <1>2, SizesAssumption DEF Post
  <1>3. QED BY <1>1, <1>2

(* Taking an event: the head is a client, the rest a queue within its slots. *)
LEMMA TakeType ==
    ASSUME NEW q \in Seq(Clients), Len(q) <= MQTT_TASK_QUEUE_SIZE, q # <<>>
    PROVE  /\ Head(q) \in Clients
           /\ Tail(q) \in Seq(Clients)
           /\ Len(Tail(q)) <= MQTT_TASK_QUEUE_SIZE
           /\ Len(Tail(q)) = Len(q) - 1
  <1>1. Head(q) \in Clients /\ Tail(q) \in Seq(Clients) /\ Len(Tail(q)) = Len(q) - 1
    OBVIOUS
  <1>2. QED BY <1>1, SizesAssumption
(* A link's new state: the other links of every client keep theirs.        *)
LEMMA LinkType ==
    ASSUME SessionTypeOK, NEW c \in Clients, NEW l \in Links, NEW v \in LinkState
    PROVE  [link EXCEPT ![c][l] = v] \in [Clients -> [Links -> LinkState]]
  BY DEF SessionTypeOK

(* MQTT_Connect arms the timer and forgets whichever link it had.          *)
LEMMA AppConnectKeeps ==
    ASSUME IInv, NEW c \in Clients, AppConnect(c)
    PROVE  IInv'
  <1> USE DEF IInv, SessionTypeOK
  <1>p. Post(taskQueue, c) \in Seq(Clients) /\ Len(Post(taskQueue, c)) <= MQTT_TASK_QUEUE_SIZE
    BY PostType
  <1>1. SessionTypeOK'
    <2>1. /\ connState' \in [Clients -> ConnState]
          /\ pCon' \in [Clients -> Links \cup {NULL}]
          /\ mqttTimer' \in [Clients -> BOOLEAN]
          /\ heap' \in [Clients -> SUBSET HeapObjects]
          /\ deleted' \in [Clients -> BOOLEAN]
      BY DEF AppConnect, MQTT_Connect, Connecting, Fresh, ConnState
    <2>2. taskQueue' \in Seq(Clients) /\ Len(taskQueue') <= MQTT_TASK_QUEUE_SIZE
      BY <1>p DEF AppConnect, MQTT_Connect, Connecting, Fresh
    <2>3. link' \in [Clients -> [Links -> LinkState]]
      <3>1. PICK l \in Links : link' \in {link, [link EXCEPT ![c][l] = "connecting"]}
        BY DEF AppConnect, MQTT_Connect, Connecting, Fresh
      <3>2. [link EXCEPT ![c][l] = "connecting"] \in [Clients -> [Links -> LinkState]]
        BY LinkType DEF LinkState
      <3>3. QED BY <3>1, <3>2
    <2>4. dns' \in [Clients -> SUBSET Links]
      <3>1. PICK l \in Links : dns' \in {dns, [dns EXCEPT ![c] = @ \cup {l}]}
        BY DEF AppConnect, MQTT_Connect, Fresh
      <3>2. [dns EXCEPT ![c] = @ \cup {l}] \in [Clients -> SUBSET Links]
        OBVIOUS
      <3>3. QED BY <3>1, <3>2
    <2>5. QED BY <2>1, <2>2, <2>3, <2>4
  <1>2. PendingDomain'
    BY DEF AppConnect, MQTT_Connect, Connecting, Fresh, PendingDomain
  <1>3. TimerDiscipline'
    BY DEF AppConnect, MQTT_Connect, Connecting, Fresh, TimerDiscipline
  <1>4. ConnackFindsConnect'
    BY DEF AppConnect, MQTT_Connect, Connecting, Fresh, ConnackFindsConnect
  <1>5. DeletedIsQuiet'
    BY DEF AppConnect, MQTT_Connect, Connecting, Fresh, DeletedIsQuiet
  <1>6. QED BY <1>1, <1>2, <1>3, <1>4, <1>5

(* MQTT_Disconnect disarms the timer.                                      *)
LEMMA DisconnectKeeps ==
    ASSUME IInv, NEW c \in Clients, MQTT_Disconnect(c)
    PROVE  IInv'
  <1> USE DEF IInv, SessionTypeOK
  <1>p. Post(taskQueue, c) \in Seq(Clients) /\ Len(Post(taskQueue, c)) <= MQTT_TASK_QUEUE_SIZE
    BY PostType
  <1>1. SessionTypeOK'
    <2>1. /\ connState' \in [Clients -> ConnState]
          /\ pCon' \in [Clients -> Links \cup {NULL}]
          /\ mqttTimer' \in [Clients -> BOOLEAN]
          /\ heap' \in [Clients -> SUBSET HeapObjects]
          /\ dns' \in [Clients -> SUBSET Links]
          /\ deleted' \in [Clients -> BOOLEAN]
      BY DEF MQTT_Disconnect, Disarmed, ticks, net, ConnState
    <2>2. taskQueue' \in Seq(Clients) /\ Len(taskQueue') <= MQTT_TASK_QUEUE_SIZE
      BY <1>p DEF MQTT_Disconnect, Disarmed, ticks, net
    <2>3. link' \in [Clients -> [Links -> LinkState]]
      BY LinkType, LinkAssumption DEF MQTT_Disconnect, Disarmed, ticks, net, LinkState
    <2>4. QED BY <2>1, <2>2, <2>3
  <1>2. PendingDomain'
    BY DEF MQTT_Disconnect, Disarmed, ticks, net, PendingDomain
  <1>3. TimerDiscipline'
    BY DEF MQTT_Disconnect, Disarmed, ticks, net, TimerDiscipline
  <1>4. ConnackFindsConnect'
    BY DEF MQTT_Disconnect, Disarmed, ticks, net, ConnackFindsConnect
  <1>5. DeletedIsQuiet'
    BY DEF MQTT_Disconnect, Disarmed, ticks, net, DeletedIsQuiet
  <1>6. QED BY <1>1, <1>2, <1>3, <1>4, <1>5

(* MQTT_DeleteClient disarms the timer.                                    *)
LEMMA DeleteKeeps ==
    ASSUME IInv, NEW c \in Clients, MQTT_DeleteClient(c)
    PROVE  IInv'
  <1> USE DEF IInv, SessionTypeOK
  <1>p. Post(taskQueue, c) \in Seq(Clients) /\ Len(Post(taskQueue, c)) <= MQTT_TASK_QUEUE_SIZE
    BY PostType
  <1>1. SessionTypeOK'
    <2>1. /\ connState' \in [Clients -> ConnState]
          /\ pCon' \in [Clients -> Links \cup {NULL}]
          /\ mqttTimer' \in [Clients -> BOOLEAN]
          /\ heap' \in [Clients -> SUBSET HeapObjects]
          /\ dns' \in [Clients -> SUBSET Links]
          /\ deleted' \in [Clients -> BOOLEAN]
      BY DEF MQTT_DeleteClient, Disarmed, ticks, net, ConnState
    <2>2. taskQueue' \in Seq(Clients) /\ Len(taskQueue') <= MQTT_TASK_QUEUE_SIZE
      BY <1>p DEF MQTT_DeleteClient, Disarmed, ticks, net
    <2>3. link' \in [Clients -> [Links -> LinkState]]
      BY LinkType, LinkAssumption DEF MQTT_DeleteClient, Disarmed, ticks, net, LinkState
    <2>4. QED BY <2>1, <2>2, <2>3
  <1>2. PendingDomain'
    BY DEF MQTT_DeleteClient, Disarmed, ticks, net, PendingDomain
  <1>3. TimerDiscipline'
    BY DEF MQTT_DeleteClient, Disarmed, ticks, net, TimerDiscipline
  <1>4. ConnackFindsConnect'
    BY DEF MQTT_DeleteClient, Disarmed, ticks, net, ConnackFindsConnect
  <1>5. DeletedIsQuiet'
    BY DEF MQTT_DeleteClient, Disarmed, ticks, net, DeletedIsQuiet
  <1>6. QED BY <1>1, <1>2, <1>3, <1>4, <1>5

(* MQTT_Publish leaves the session alone.                                  *)
LEMMA PublishKeeps ==
    ASSUME IInv, NEW c \in Clients, NEW m \in AppMsgs, MQTT_Publish(c, m)
    PROVE  IInv'
  <1> USE DEF IInv, SessionTypeOK
  <1>p. Post(taskQueue, c) \in Seq(Clients) /\ Len(Post(taskQueue, c)) <= MQTT_TASK_QUEUE_SIZE
    BY PostType
  <1>1. SessionTypeOK'
    <2>1. /\ connState' \in [Clients -> ConnState]
          /\ pCon' \in [Clients -> Links \cup {NULL}]
          /\ mqttTimer' \in [Clients -> BOOLEAN]
          /\ heap' \in [Clients -> SUBSET HeapObjects]
          /\ dns' \in [Clients -> SUBSET Links]
          /\ deleted' \in [Clients -> BOOLEAN]
      BY DEF MQTT_Publish, ticks, net, ConnState
    <2>2. taskQueue' \in Seq(Clients) /\ Len(taskQueue') <= MQTT_TASK_QUEUE_SIZE
      BY <1>p DEF MQTT_Publish, ticks, net
    <2>3. link' \in [Clients -> [Links -> LinkState]]
      BY LinkType, LinkAssumption DEF MQTT_Publish, ticks, net, LinkState
    <2>4. QED BY <2>1, <2>2, <2>3
  <1>2. PendingDomain'
    BY DEF MQTT_Publish, ticks, net, PendingDomain
  <1>3. TimerDiscipline'
    BY DEF MQTT_Publish, ticks, net, TimerDiscipline
  <1>4. ConnackFindsConnect'
    BY DEF MQTT_Publish, ticks, net, ConnackFindsConnect
  <1>5. DeletedIsQuiet'
    BY DEF MQTT_Publish, ticks, net, DeletedIsQuiet
  <1>6. QED BY <1>1, <1>2, <1>3, <1>4, <1>5

(* mqtt_timer asks for a reconnection only while it is armed.              *)
LEMMA TimerKeeps ==
    ASSUME IInv, NEW c \in Clients, mqtt_timer(c)
    PROVE  IInv'
  <1> USE DEF IInv, SessionTypeOK
  <1>p. Post(taskQueue, c) \in Seq(Clients) /\ Len(Post(taskQueue, c)) <= MQTT_TASK_QUEUE_SIZE
    BY PostType
  <1>1. SessionTypeOK'
    <2>1. /\ connState' \in [Clients -> ConnState]
          /\ pCon' \in [Clients -> Links \cup {NULL}]
          /\ mqttTimer' \in [Clients -> BOOLEAN]
          /\ heap' \in [Clients -> SUBSET HeapObjects]
          /\ dns' \in [Clients -> SUBSET Links]
          /\ deleted' \in [Clients -> BOOLEAN]
      BY DEF mqtt_timer, TimerInData, TimerInReconnectReq, TimerElsewhere, ConnState
    <2>2. taskQueue' \in Seq(Clients) /\ Len(taskQueue') <= MQTT_TASK_QUEUE_SIZE
      BY <1>p DEF mqtt_timer, TimerInData, TimerInReconnectReq, TimerElsewhere
    <2>3. link' \in [Clients -> [Links -> LinkState]]
      BY LinkType, LinkAssumption DEF mqtt_timer, TimerInData, TimerInReconnectReq,
                              TimerElsewhere, LinkState
    <2>4. QED BY <2>1, <2>2, <2>3
  <1>2. PendingDomain'
    BY DEF mqtt_timer, TimerInData, TimerInReconnectReq, TimerElsewhere, PendingDomain
  <1>3. TimerDiscipline'
    BY DEF mqtt_timer, TimerInData, TimerInReconnectReq, TimerElsewhere, TimerDiscipline
  <1>4. ConnackFindsConnect'
    BY DEF mqtt_timer, TimerInData, TimerInReconnectReq, TimerElsewhere,
           PendingDomain, ConnackFindsConnect
  <1>5. DeletedIsQuiet'
    BY DEF mqtt_timer, TimerInData, TimerInReconnectReq, TimerElsewhere, DeletedIsQuiet
  <1>6. QED BY <1>1, <1>2, <1>3, <1>4, <1>5

(* The connect callback makes CONNECT the pending message.                 *)
LEMMA ConnectCbKeeps ==
    ASSUME IInv, NEW c \in Clients, NEW l \in Links, mqtt_tcpclient_connect_cb(c, l)
    PROVE  IInv'
  <1> USE DEF IInv, SessionTypeOK
  <1>p. Post(taskQueue, c) \in Seq(Clients) /\ Len(Post(taskQueue, c)) <= MQTT_TASK_QUEUE_SIZE
    BY PostType
  <1>1. SessionTypeOK'
    <2>1. /\ connState' \in [Clients -> ConnState]
          /\ pCon' \in [Clients -> Links \cup {NULL}]
          /\ mqttTimer' \in [Clients -> BOOLEAN]
          /\ heap' \in [Clients -> SUBSET HeapObjects]
          /\ dns' \in [Clients -> SUBSET Links]
          /\ deleted' \in [Clients -> BOOLEAN]
      BY DEF mqtt_tcpclient_connect_cb, ConnState
    <2>2. taskQueue' \in Seq(Clients) /\ Len(taskQueue') <= MQTT_TASK_QUEUE_SIZE
      BY <1>p DEF mqtt_tcpclient_connect_cb
    <2>3. link' \in [Clients -> [Links -> LinkState]]
      BY LinkType, LinkAssumption DEF mqtt_tcpclient_connect_cb, LinkState
    <2>4. QED BY <2>1, <2>2, <2>3
  <1>2. PendingDomain'
    BY DEF mqtt_tcpclient_connect_cb, PendingDomain
  <1>3. TimerDiscipline'
    BY DEF mqtt_tcpclient_connect_cb, TimerDiscipline
  <1>4. ConnackFindsConnect'
    BY DEF mqtt_tcpclient_connect_cb, PendingDomain, ConnackFindsConnect
  <1>5. DeletedIsQuiet'
    BY DEF mqtt_tcpclient_connect_cb, DeletedIsQuiet
  <1>6. QED BY <1>1, <1>2, <1>3, <1>4, <1>5

(* The receive callback only turns an awaited CONNACK into a session.      *)
LEMMA RecvKeeps ==
    ASSUME IInv, NEW c \in Clients, NEW l \in Links, NEW seg \in Segments,
           mqtt_tcpclient_recv(c, l, seg)
    PROVE  IInv'
  <1> USE DEF IInv, SessionTypeOK
  <1>p. Post(taskQueue, c) \in Seq(Clients) /\ Len(Post(taskQueue, c)) <= MQTT_TASK_QUEUE_SIZE
    BY PostType
  <1>1. SessionTypeOK'
    <2>1. /\ connState' \in [Clients -> ConnState]
          /\ pCon' \in [Clients -> Links \cup {NULL}]
          /\ mqttTimer' \in [Clients -> BOOLEAN]
          /\ heap' \in [Clients -> SUBSET HeapObjects]
          /\ dns' \in [Clients -> SUBSET Links]
          /\ deleted' \in [Clients -> BOOLEAN]
      BY DEF mqtt_tcpclient_recv, RecvInConnectSending, RecvInData, RecvElsewhere,
             espconn_disconnect, ConnState
    <2>2. taskQueue' \in Seq(Clients) /\ Len(taskQueue') <= MQTT_TASK_QUEUE_SIZE
      BY <1>p DEF mqtt_tcpclient_recv, RecvInConnectSending, RecvInData,
                  RecvElsewhere, espconn_disconnect
    <2>3. link' \in [Clients -> [Links -> LinkState]]
      <3>1. link' = link \/ link' \in espconn_disconnect(c)
        BY DEF mqtt_tcpclient_recv, RecvInConnectSending, RecvInData, RecvElsewhere
      <3>2. CASE pCon[c] \in Links
        <4>1. [link EXCEPT ![c][pCon[c]] = "closing"] \in [Clients -> [Links -> LinkState]]
          BY <3>2, LinkType DEF LinkState
        <4>2. QED BY <3>1, <4>1 DEF espconn_disconnect
      <3>3. CASE pCon[c] = NULL
        BY <3>1, <3>3 DEF espconn_disconnect
      <3>4. QED BY <3>2, <3>3
    <2>4. QED BY <2>1, <2>2, <2>3
  <1>2. PendingDomain'
    BY DEF mqtt_tcpclient_recv, RecvInConnectSending, RecvInData, RecvElsewhere,
           espconn_disconnect, PendingDomain
  <1>3. TimerDiscipline'
    BY DEF mqtt_tcpclient_recv, RecvInConnectSending, RecvInData, RecvElsewhere,
           espconn_disconnect, TimerDiscipline
  <1>4. ConnackFindsConnect'
    BY DEF mqtt_tcpclient_recv, RecvInConnectSending, RecvInData, RecvElsewhere,
           espconn_disconnect, ConnackFindsConnect
  <1>5. DeletedIsQuiet'
    BY DEF mqtt_tcpclient_recv, RecvInConnectSending, RecvInData, RecvElsewhere,
           espconn_disconnect, DeletedIsQuiet
  <1>6. QED BY <1>1, <1>2, <1>3, <1>4, <1>5

(* An acknowledged send leaves the session alone.                          *)
LEMMA SentCbKeeps ==
    ASSUME IInv, NEW c \in Clients, NEW l \in Links, mqtt_tcpclient_sent_cb(c, l)
    PROVE  IInv'
  <1> USE DEF IInv, SessionTypeOK
  <1>p. Post(taskQueue, c) \in Seq(Clients) /\ Len(Post(taskQueue, c)) <= MQTT_TASK_QUEUE_SIZE
    BY PostType
  <1>1. SessionTypeOK'
    <2>1. /\ connState' \in [Clients -> ConnState]
          /\ pCon' \in [Clients -> Links \cup {NULL}]
          /\ mqttTimer' \in [Clients -> BOOLEAN]
          /\ heap' \in [Clients -> SUBSET HeapObjects]
          /\ dns' \in [Clients -> SUBSET Links]
          /\ deleted' \in [Clients -> BOOLEAN]
      BY DEF mqtt_tcpclient_sent_cb, ConnState
    <2>2. taskQueue' \in Seq(Clients) /\ Len(taskQueue') <= MQTT_TASK_QUEUE_SIZE
      BY <1>p DEF mqtt_tcpclient_sent_cb
    <2>3. link' \in [Clients -> [Links -> LinkState]]
      BY LinkType, LinkAssumption DEF mqtt_tcpclient_sent_cb, LinkState
    <2>4. QED BY <2>1, <2>2, <2>3
  <1>2. PendingDomain'
    BY DEF mqtt_tcpclient_sent_cb, PendingDomain
  <1>3. TimerDiscipline'
    BY DEF mqtt_tcpclient_sent_cb, TimerDiscipline
  <1>4. ConnackFindsConnect'
    BY DEF mqtt_tcpclient_sent_cb, ConnackFindsConnect
  <1>5. DeletedIsQuiet'
    BY DEF mqtt_tcpclient_sent_cb, DeletedIsQuiet
  <1>6. QED BY <1>1, <1>2, <1>3, <1>4, <1>5

(* The disconnect callback continues the teardown or asks to reconnect.    *)
LEMMA DisconCbKeeps ==
    ASSUME IInv, NEW c \in Clients, NEW l \in Links, mqtt_tcpclient_discon_cb(c, l)
    PROVE  IInv'
  <1> USE DEF IInv, SessionTypeOK
  <1>p. Post(taskQueue, c) \in Seq(Clients) /\ Len(Post(taskQueue, c)) <= MQTT_TASK_QUEUE_SIZE
    BY PostType
  <1>1. SessionTypeOK'
    <2>1. /\ connState' \in [Clients -> ConnState]
          /\ pCon' \in [Clients -> Links \cup {NULL}]
          /\ mqttTimer' \in [Clients -> BOOLEAN]
          /\ heap' \in [Clients -> SUBSET HeapObjects]
          /\ dns' \in [Clients -> SUBSET Links]
          /\ deleted' \in [Clients -> BOOLEAN]
      BY DEF mqtt_tcpclient_discon_cb, AfterDisconnect, ConnState
    <2>2. taskQueue' \in Seq(Clients) /\ Len(taskQueue') <= MQTT_TASK_QUEUE_SIZE
      BY <1>p DEF mqtt_tcpclient_discon_cb, AfterDisconnect
    <2>3. link' \in [Clients -> [Links -> LinkState]]
      BY LinkType, LinkAssumption DEF mqtt_tcpclient_discon_cb, AfterDisconnect, LinkState
    <2>4. QED BY <2>1, <2>2, <2>3
  <1>2. PendingDomain'
    BY DEF mqtt_tcpclient_discon_cb, AfterDisconnect, PendingDomain
  <1>3. TimerDiscipline'
    BY DEF mqtt_tcpclient_discon_cb, AfterDisconnect, TimerDiscipline
  <1>4. ConnackFindsConnect'
    BY DEF mqtt_tcpclient_discon_cb, AfterDisconnect, ConnackFindsConnect
  <1>5. DeletedIsQuiet'
    BY DEF mqtt_tcpclient_discon_cb, AfterDisconnect, DeletedIsQuiet
  <1>6. QED BY <1>1, <1>2, <1>3, <1>4, <1>5

(* The error callback asks to reconnect; only the timer acts on it.        *)
LEMMA ReconCbKeeps ==
    ASSUME IInv, NEW c \in Clients, NEW l \in Links, mqtt_tcpclient_recon_cb(c, l)
    PROVE  IInv'
  <1> USE DEF IInv, SessionTypeOK
  <1>p. Post(taskQueue, c) \in Seq(Clients) /\ Len(Post(taskQueue, c)) <= MQTT_TASK_QUEUE_SIZE
    BY PostType
  <1>1. SessionTypeOK'
    <2>1. /\ connState' \in [Clients -> ConnState]
          /\ pCon' \in [Clients -> Links \cup {NULL}]
          /\ mqttTimer' \in [Clients -> BOOLEAN]
          /\ heap' \in [Clients -> SUBSET HeapObjects]
          /\ dns' \in [Clients -> SUBSET Links]
          /\ deleted' \in [Clients -> BOOLEAN]
      BY DEF mqtt_tcpclient_recon_cb, ConnState
    <2>2. taskQueue' \in Seq(Clients) /\ Len(taskQueue') <= MQTT_TASK_QUEUE_SIZE
      BY <1>p DEF mqtt_tcpclient_recon_cb
    <2>3. link' \in [Clients -> [Links -> LinkState]]
      BY LinkType, LinkAssumption DEF mqtt_tcpclient_recon_cb, LinkState
    <2>4. QED BY <2>1, <2>2, <2>3
  <1>2. PendingDomain'
    BY DEF mqtt_tcpclient_recon_cb, PendingDomain
  <1>3. TimerDiscipline'
    BY DEF mqtt_tcpclient_recon_cb, TimerDiscipline
  <1>4. ConnackFindsConnect'
    BY DEF mqtt_tcpclient_recon_cb, ConnackFindsConnect
  <1>5. DeletedIsQuiet'
    BY DEF mqtt_tcpclient_recon_cb, DeletedIsQuiet
  <1>6. QED BY <1>1, <1>2, <1>3, <1>4, <1>5

(* A DNS answer connects the current link, asks to reconnect, or posts.     *)
LEMMA DnsFoundKeeps ==
    ASSUME IInv, NEW c \in Clients, NEW l \in Links, mqtt_dns_found(c, l)
    PROVE  IInv'
  <1> USE DEF IInv, SessionTypeOK
  <1>p. Post(taskQueue, c) \in Seq(Clients) /\ Len(Post(taskQueue, c)) <= MQTT_TASK_QUEUE_SIZE
    BY PostType
  <1>1. SessionTypeOK'
    <2>1. /\ connState' \in [Clients -> ConnState]
          /\ pCon' \in [Clients -> Links \cup {NULL}]
          /\ mqttTimer' \in [Clients -> BOOLEAN]
          /\ heap' \in [Clients -> SUBSET HeapObjects]
          /\ dns' \in [Clients -> SUBSET Links]
          /\ deleted' \in [Clients -> BOOLEAN]
      BY DEF mqtt_dns_found, Connecting, ConnState
    <2>2. taskQueue' \in Seq(Clients) /\ Len(taskQueue') <= MQTT_TASK_QUEUE_SIZE
      BY <1>p DEF mqtt_dns_found, Connecting
    <2>3. link' \in [Clients -> [Links -> LinkState]]
      <3>1. \/ link' = link
            \/ pCon[c] \in Links /\ link' = [link EXCEPT ![c][pCon[c]] = "connecting"]
        BY LinkAssumption DEF mqtt_dns_found, Connecting
      <3>2. CASE pCon[c] \in Links
        <4>1. [link EXCEPT ![c][pCon[c]] = "connecting"] \in [Clients -> [Links -> LinkState]]
          BY <3>2, LinkType DEF LinkState
        <4>2. QED BY <3>1, <4>1
      <3>3. QED BY <3>1, <3>2
    <2>4. QED BY <2>1, <2>2, <2>3
  <1>2. PendingDomain'
    BY DEF mqtt_dns_found, Connecting, PendingDomain
  <1>3. TimerDiscipline'
    BY DEF mqtt_dns_found, Connecting, TimerDiscipline
  <1>4. ConnackFindsConnect'
    BY DEF mqtt_dns_found, Connecting, ConnackFindsConnect
  <1>5. DeletedIsQuiet'
    BY DEF mqtt_dns_found, Connecting, DeletedIsQuiet
  <1>6. QED BY <1>1, <1>2, <1>3, <1>4, <1>5

(* The network changes links only.                                         *)
LEMMA NetworkKeeps ==
    ASSUME IInv, NEW c \in Clients, NEW l \in Links, PeerCloses(c, l) \/ LinkFails(c, l)
    PROVE  IInv'
  <1> USE DEF IInv, SessionTypeOK
  <1>1. SessionTypeOK'
    <2>1. /\ connState' \in [Clients -> ConnState]
          /\ pCon' \in [Clients -> Links \cup {NULL}]
          /\ mqttTimer' \in [Clients -> BOOLEAN]
          /\ heap' \in [Clients -> SUBSET HeapObjects]
          /\ dns' \in [Clients -> SUBSET Links]
          /\ deleted' \in [Clients -> BOOLEAN]
      BY DEF PeerCloses, LinkFails, ConnState
    <2>2. taskQueue' \in Seq(Clients) /\ Len(taskQueue') <= MQTT_TASK_QUEUE_SIZE
      BY DEF PeerCloses, LinkFails
    <2>3. link' \in [Clients -> [Links -> LinkState]]
      <3>1. \E v \in {"closing", "failed"} : link' = [link EXCEPT ![c][l] = v]
        BY DEF PeerCloses, LinkFails
      <3>2. QED BY <3>1, LinkType DEF LinkState
    <2>4. QED BY <2>1, <2>2, <2>3
  <1>2. PendingDomain'
    BY DEF PeerCloses, LinkFails, PendingDomain
  <1>3. TimerDiscipline'
    BY DEF PeerCloses, LinkFails, TimerDiscipline
  <1>4. ConnackFindsConnect'
    BY DEF PeerCloses, LinkFails, ConnackFindsConnect
  <1>5. DeletedIsQuiet'
    BY DEF PeerCloses, LinkFails, DeletedIsQuiet
  <1>6. QED BY <1>1, <1>2, <1>3, <1>4, <1>5

(* MQTT_Task, by the state of the client it is woken for.                  *)
LEMMA TaskKeeps ==
    ASSUME IInv, MQTT_Task
    PROVE  IInv'
  <1> USE DEF IInv, SessionTypeOK
  <1> DEFINE c == Head(taskQueue)
  <1>t. /\ c \in Clients
        /\ Tail(taskQueue) \in Seq(Clients) /\ Len(Tail(taskQueue)) <= MQTT_TASK_QUEUE_SIZE
    BY TakeType DEF MQTT_Task
  <1>p. /\ Post(Tail(taskQueue), c) \in Seq(Clients)
        /\ Len(Post(Tail(taskQueue), c)) <= MQTT_TASK_QUEUE_SIZE
    BY <1>t, PostType
  <1>s. \/ TaskReconnect(c) \/ TaskDisconnect(c) \/ TaskDisconnected(c)
        \/ TaskDeleted(c) \/ TaskSend(c) \/ TaskIdle(c)
    BY DEF MQTT_Task
  <1> HIDE DEF c
  <1>1. CASE TaskReconnect(c)
    <2>1. SessionTypeOK'
      <3>1. /\ connState' \in [Clients -> ConnState]
            /\ pCon' \in [Clients -> Links \cup {NULL}]
            /\ mqttTimer' \in [Clients -> BOOLEAN]
            /\ heap' \in [Clients -> SUBSET HeapObjects]
            /\ deleted' \in [Clients -> BOOLEAN]
        BY <1>1, <1>t DEF TaskReconnect, MQTT_Connect, Connecting, ConnState, Fresh
      <3>2. taskQueue' \in Seq(Clients) /\ Len(taskQueue') <= MQTT_TASK_QUEUE_SIZE
        BY <1>1, <1>t, <1>p DEF TaskReconnect
      <3>3. link' \in [Clients -> [Links -> LinkState]]
        <4>1. PICK l \in Links : link' \in {link, [link EXCEPT ![c][l] = "connecting"]}
          BY <1>1 DEF TaskReconnect, MQTT_Connect, Connecting, Fresh
        <4>2. [link EXCEPT ![c][l] = "connecting"] \in [Clients -> [Links -> LinkState]]
          BY <1>t, LinkType DEF LinkState
        <4>3. QED BY <4>1, <4>2
      <3>4. dns' \in [Clients -> SUBSET Links]
        <4>1. PICK l \in Links : dns' \in {dns, [dns EXCEPT ![c] = @ \cup {l}]}
          BY <1>1 DEF TaskReconnect, MQTT_Connect, Fresh
        <4>2. [dns EXCEPT ![c] = @ \cup {l}] \in [Clients -> SUBSET Links]
          BY <1>t
        <4>3. QED BY <4>1, <4>2
      <3>5. QED BY <3>1, <3>2, <3>3, <3>4
    <2>2. PendingDomain'
      BY <1>1, <1>t DEF TaskReconnect, MQTT_Connect, Connecting, PendingDomain
    <2>3. TimerDiscipline'
      BY <1>1, <1>t DEF TaskReconnect, MQTT_Connect, Connecting, TimerDiscipline
    <2>4. ConnackFindsConnect'
      BY <1>1, <1>t DEF TaskReconnect, MQTT_Connect, Connecting, ConnackFindsConnect
    <2>5. DeletedIsQuiet'
      BY <1>1, <1>t DEF TaskReconnect, MQTT_Connect, Connecting, TimerDiscipline,
                        DeletedIsQuiet
    <2>6. QED BY <2>1, <2>2, <2>3, <2>4, <2>5
  <1>2. CASE TaskDisconnect(c)
    <2>1. SessionTypeOK'
      <3>1. /\ connState' \in [Clients -> ConnState]
            /\ pCon' \in [Clients -> Links \cup {NULL}]
            /\ mqttTimer' \in [Clients -> BOOLEAN]
            /\ heap' \in [Clients -> SUBSET HeapObjects]
            /\ dns' \in [Clients -> SUBSET Links]
            /\ deleted' \in [Clients -> BOOLEAN]
        BY <1>2, <1>t DEF TaskDisconnect, ticks, net, ConnState, Fresh
      <3>2. taskQueue' \in Seq(Clients) /\ Len(taskQueue') <= MQTT_TASK_QUEUE_SIZE
        BY <1>2, <1>t, <1>p DEF TaskDisconnect
      <3>3. link' \in [Clients -> [Links -> LinkState]]
        <4>1. CASE pCon[c] \in Links
          <5>1. [link EXCEPT ![c][pCon[c]] = "closing"] \in [Clients -> [Links -> LinkState]]
            BY <4>1, <1>t, LinkType DEF LinkState
          <5>2. QED BY <1>2, <5>1 DEF TaskDisconnect, espconn_disconnect
        <4>2. CASE pCon[c] = NULL
          BY <1>2, <4>2 DEF TaskDisconnect, espconn_disconnect
        <4>3. QED BY <1>t, <4>1, <4>2
      <3>4. QED BY <3>1, <3>2, <3>3
    <2>2. PendingDomain'
      BY <1>2, <1>t DEF TaskDisconnect, ticks, net, PendingDomain
    <2>3. TimerDiscipline'
      BY <1>2, <1>t DEF TaskDisconnect, ticks, net, TimerDiscipline
    <2>4. ConnackFindsConnect'
      BY <1>2, <1>t DEF TaskDisconnect, ticks, net, ConnackFindsConnect
    <2>5. DeletedIsQuiet'
      BY <1>2, <1>t DEF TaskDisconnect, ticks, net, DeletedIsQuiet
    <2>6. QED BY <2>1, <2>2, <2>3, <2>4, <2>5
  <1>3. CASE TaskDisconnected(c)
    <2>1. SessionTypeOK'
      <3>1. /\ connState' \in [Clients -> ConnState]
            /\ pCon' \in [Clients -> Links \cup {NULL}]
            /\ mqttTimer' \in [Clients -> BOOLEAN]
            /\ heap' \in [Clients -> SUBSET HeapObjects]
            /\ dns' \in [Clients -> SUBSET Links]
            /\ deleted' \in [Clients -> BOOLEAN]
        BY <1>3, <1>t DEF TaskDisconnected, mqtt_tcpclient_delete, ticks, ConnState,
                          Fresh
      <3>2. taskQueue' \in Seq(Clients) /\ Len(taskQueue') <= MQTT_TASK_QUEUE_SIZE
        BY <1>3, <1>t, <1>p DEF TaskDisconnected
      <3>3. link' \in [Clients -> [Links -> LinkState]]
        <4>1. CASE pCon[c] \in Links
          <5>1. \A v \in {"idle", "dangling"} :
                  [link EXCEPT ![c][pCon[c]] = v] \in [Clients -> [Links -> LinkState]]
            BY <4>1, <1>t, LinkType DEF LinkState
          <5>2. \E v \in {"idle", "dangling"} : link' = [link EXCEPT ![c][pCon[c]] = v]
            BY <1>3, <4>1, <1>t, LinkAssumption DEF TaskDisconnected, mqtt_tcpclient_delete
          <5>3. QED BY <5>1, <5>2
        <4>2. CASE pCon[c] = NULL
          BY <1>3, <4>2 DEF TaskDisconnected, mqtt_tcpclient_delete
        <4>3. QED BY <1>t, <4>1, <4>2
      <3>4. QED BY <3>1, <3>2, <3>3
    <2>2. PendingDomain'
      BY <1>3, <1>t DEF TaskDisconnected, mqtt_tcpclient_delete, ticks, PendingDomain
    <2>3. TimerDiscipline'
      BY <1>3, <1>t DEF TaskDisconnected, mqtt_tcpclient_delete, ticks, TimerDiscipline
    <2>4. ConnackFindsConnect'
      BY <1>3, <1>t DEF TaskDisconnected, mqtt_tcpclient_delete, ticks,
                        ConnackFindsConnect
    <2>5. DeletedIsQuiet'
      BY <1>3, <1>t DEF TaskDisconnected, mqtt_tcpclient_delete, ticks, DeletedIsQuiet
    <2>6. QED BY <2>1, <2>2, <2>3, <2>4, <2>5
  <1>4. CASE TaskDeleted(c)
    <2>1. SessionTypeOK'
      <3>1. /\ connState' \in [Clients -> ConnState]
            /\ pCon' \in [Clients -> Links \cup {NULL}]
            /\ mqttTimer' \in [Clients -> BOOLEAN]
            /\ heap' \in [Clients -> SUBSET HeapObjects]
            /\ dns' \in [Clients -> SUBSET Links]
            /\ deleted' \in [Clients -> BOOLEAN]
        BY <1>4, <1>t DEF TaskDeleted, mqtt_tcpclient_delete, ticks, ConnState, Fresh
      <3>2. taskQueue' \in Seq(Clients) /\ Len(taskQueue') <= MQTT_TASK_QUEUE_SIZE
        BY <1>4, <1>t, <1>p DEF TaskDeleted
      <3>3. link' \in [Clients -> [Links -> LinkState]]
        <4>1. CASE pCon[c] \in Links
          <5>1. \A v \in {"idle", "dangling"} :
                  [link EXCEPT ![c][pCon[c]] = v] \in [Clients -> [Links -> LinkState]]
            BY <4>1, <1>t, LinkType DEF LinkState
          <5>2. \E v \in {"idle", "dangling"} : link' = [link EXCEPT ![c][pCon[c]] = v]
            BY <1>4, <4>1, <1>t, LinkAssumption DEF TaskDeleted, mqtt_tcpclient_delete
          <5>3. QED BY <5>1, <5>2
        <4>2. CASE pCon[c] = NULL
          BY <1>4, <4>2 DEF TaskDeleted, mqtt_tcpclient_delete
        <4>3. QED BY <1>t, <4>1, <4>2
      <3>4. QED BY <3>1, <3>2, <3>3
    <2>2. PendingDomain'
      BY <1>4, <1>t DEF TaskDeleted, mqtt_tcpclient_delete, ticks, PendingDomain
    <2>3. TimerDiscipline'
      BY <1>4, <1>t DEF TaskDeleted, mqtt_tcpclient_delete, ticks, TimerDiscipline
    <2>4. ConnackFindsConnect'
      BY <1>4, <1>t DEF TaskDeleted, mqtt_tcpclient_delete, ticks, ConnackFindsConnect
    <2>5. DeletedIsQuiet'
      BY <1>4, <1>t DEF TaskDeleted, mqtt_tcpclient_delete, ticks, DeletedIsQuiet
    <2>6. QED BY <2>1, <2>2, <2>3, <2>4, <2>5
  <1>5. CASE TaskSend(c)
    <2>1. SessionTypeOK'
      <3>1. /\ connState' \in [Clients -> ConnState]
            /\ pCon' \in [Clients -> Links \cup {NULL}]
            /\ mqttTimer' \in [Clients -> BOOLEAN]
            /\ heap' \in [Clients -> SUBSET HeapObjects]
            /\ dns' \in [Clients -> SUBSET Links]
            /\ deleted' \in [Clients -> BOOLEAN]
        BY <1>5, <1>t DEF TaskSend, MaySend, ConnState, Fresh
      <3>2. taskQueue' \in Seq(Clients) /\ Len(taskQueue') <= MQTT_TASK_QUEUE_SIZE
        BY <1>5, <1>t, <1>p DEF TaskSend
      <3>3. link' \in [Clients -> [Links -> LinkState]]
        BY <1>5 DEF TaskSend, net
      <3>4. QED BY <3>1, <3>2, <3>3
    <2>2. PendingDomain'
      BY <1>5, <1>t DEF TaskSend, MaySend, PendingDomain
    <2>3. TimerDiscipline'
      BY <1>5, <1>t DEF TaskSend, MaySend, TimerDiscipline
    <2>4. ConnackFindsConnect'
      BY <1>5, <1>t DEF TaskSend, MaySend, ConnackFindsConnect
    <2>5. DeletedIsQuiet'
      BY <1>5, <1>t DEF TaskSend, MaySend, DeletedIsQuiet
    <2>6. QED BY <2>1, <2>2, <2>3, <2>4, <2>5
  <1>6. CASE TaskIdle(c)
    <2>1. SessionTypeOK'
      <3>1. /\ connState' \in [Clients -> ConnState]
            /\ pCon' \in [Clients -> Links \cup {NULL}]
            /\ mqttTimer' \in [Clients -> BOOLEAN]
            /\ heap' \in [Clients -> SUBSET HeapObjects]
            /\ dns' \in [Clients -> SUBSET Links]
            /\ deleted' \in [Clients -> BOOLEAN]
        BY <1>6, <1>t DEF TaskIdle, ticks, net, ConnState, Fresh
      <3>2. taskQueue' \in Seq(Clients) /\ Len(taskQueue') <= MQTT_TASK_QUEUE_SIZE
        BY <1>6, <1>t, <1>p DEF TaskIdle
      <3>3. link' \in [Clients -> [Links -> LinkState]]
        BY <1>6 DEF TaskIdle, net
      <3>4. QED BY <3>1, <3>2, <3>3
    <2>2. PendingDomain'
      BY <1>6, <1>t DEF TaskIdle, ticks, net, PendingDomain
    <2>3. TimerDiscipline'
      BY <1>6, <1>t DEF TaskIdle, ticks, net, TimerDiscipline
    <2>4. ConnackFindsConnect'
      BY <1>6, <1>t DEF TaskIdle, ticks, net, ConnackFindsConnect
    <2>5. DeletedIsQuiet'
      BY <1>6, <1>t DEF TaskIdle, ticks, net, DeletedIsQuiet
    <2>6. QED BY <2>1, <2>2, <2>3, <2>4, <2>5
  <1>7. QED BY <1>s, <1>1, <1>2, <1>3, <1>4, <1>5, <1>6

-----------------------------------------------------------------------------
(* Every step of the system, the stuttering ones included.                 *)
LEMMA StepKeeps == IInv /\ [Next]_vars => IInv'
  <1> SUFFICES ASSUME IInv, [Next]_vars PROVE IInv'
    OBVIOUS
  <1>1. CASE UNCHANGED vars
    BY <1>1 DEF vars, ticks, net, IInv, SessionTypeOK, PendingDomain, TimerDiscipline,
                ConnackFindsConnect, DeletedIsQuiet
  <1>2. ASSUME NEW c \in Clients, Application(c) PROVE IInv'
    BY <1>2, AppConnectKeeps, DisconnectKeeps, DeleteKeeps, PublishKeeps DEF Application
  <1>3. ASSUME NEW c \in Clients, NEW l \in Links, Espconn(c, l) PROVE IInv'
    <2>1. CASE \/ mqtt_tcpclient_connect_cb(c, l) \/ mqtt_tcpclient_sent_cb(c, l)
               \/ \E seg \in Segments : mqtt_tcpclient_recv(c, l, seg)
      BY <2>1, ConnectCbKeeps, RecvKeeps, SentCbKeeps
    <2>2. CASE \/ mqtt_tcpclient_discon_cb(c, l) \/ mqtt_tcpclient_recon_cb(c, l)
               \/ mqtt_dns_found(c, l)
      BY <2>2, DisconCbKeeps, ReconCbKeeps, DnsFoundKeeps
    <2>3. CASE PeerCloses(c, l) \/ LinkFails(c, l)
      BY <2>3, NetworkKeeps
    <2>4. QED BY <1>3, <2>1, <2>2, <2>3 DEF Espconn
  <1>4. QED BY <1>1, <1>2, <1>3, TimerKeeps, TaskKeeps DEF Next

(* The initial state.                                                      *)
LEMMA InitHolds == Init => IInv
  <1> SUFFICES ASSUME Init PROVE IInv
    OBVIOUS
  <1>1. taskQueue \in Seq(Clients) /\ Len(taskQueue) <= MQTT_TASK_QUEUE_SIZE
    BY SizesAssumption DEF Init
  <1>2. SessionTypeOK
    BY <1>1, SizesAssumption DEF Init, SessionTypeOK, ConnState, LinkState, HeapObjects
  <1>3. PendingDomain /\ TimerDiscipline /\ ConnackFindsConnect /\ DeletedIsQuiet
    BY DEF Init, PendingDomain, TimerDiscipline, ConnackFindsConnect, DeletedIsQuiet
  <1>4. QED BY <1>2, <1>3 DEF IInv

(* The inductive invariant, for the whole specification.                   *)
LEMMA Invariance == Spec => []IInv
  BY InitHolds, StepKeeps, PTL DEF Spec

-----------------------------------------------------------------------------
(* A set of natural numbers has a least element, so one that holds 0 and   *)
(* each successor holds all: the induction the answers to a segment need.  *)
LEMMA Least ==
    ASSUME NEW T \in SUBSET Nat, T # {}
    PROVE  \E m \in T : \A n \in T : m <= n
  <1>1. \A x, y \in Nat : x < y => <<x, y>> \in OpToRel(<, Nat)
    BY Zenon DEF OpToRel
  <1>2. \E x \in T : \A y \in T : ~ (<<y, x>> \in OpToRel(<, Nat))
    BY WFMin, NatLessThanWellFounded, Zenon
  <1>3. \E x \in T : \A y \in T : ~ (y < x)
    BY <1>1, <1>2, Zenon
  <1>4. QED BY <1>3

(* Induction over the natural numbers, the property being a set.           *)
LEMMA Induction ==
    ASSUME NEW S, 0 \in S, \A n \in Nat : n \in S => n + 1 \in S
    PROVE  Nat \subseteq S
  <1>1. CASE Nat \ S # {}
    <2>1. PICK m \in Nat \ S : \A n \in Nat \ S : m <= n
      BY <1>1, Least
    <2>2. m - 1 \in Nat /\ m - 1 \in S
      BY <2>1
    <2>3. QED BY <2>1, <2>2
  <1>2. QED BY <1>1

\* What one more packet of a segment adds to its answers.
NextAnswers(s, q, n) ==
    IF Handled(s, n) /\ AnswerTo(s[n]) # "none" THEN Append(q, AnswerTo(s[n])) ELSE q

(* What answers a packet is a message for the queue.                       *)
LEMMA AnswerType == \A p : AnswerTo(p) # "none" => AnswerTo(p) \in OutType
  BY DEF AnswerTo, OutType

\* f holds the answers to the first 0 .. k packets of s.
IsUpTo(s, f, k) ==
    f \in [0 .. k -> Seq(OutType)]
    /\ \A n \in 0 .. k : f[n] = IF n = 0 THEN <<>> ELSE NextAnswers(s, f[n - 1], n)

(* The recursion of Answers defines a function on every initial segment.   *)
LEMMA AnswersExist ==
    ASSUME NEW s
    PROVE  \A k \in Nat : \E f : IsUpTo(s, f, k)
  <1> DEFINE S == {k \in Nat : \E f : IsUpTo(s, f, k)}
  <1>1. 0 \in S
    <2>1. IsUpTo(s, [n \in 0 .. 0 |-> <<>>], 0)
      BY DEF IsUpTo
    <2>2. QED BY <2>1
  <1>2. ASSUME NEW k \in Nat, k \in S PROVE k + 1 \in S
    <2>1. PICK f : IsUpTo(s, f, k)
      BY <1>2
    <2> DEFINE x == NextAnswers(s, f[k], k + 1)
               g == [n \in 0 .. k + 1 |-> IF n <= k THEN f[n] ELSE x]
    <2>2. x \in Seq(OutType)
      BY <2>1, AnswerType DEF NextAnswers, IsUpTo
    <2>3. g[k + 1] = NextAnswers(s, g[k], k + 1) /\ g[k + 1] = x
      OBVIOUS
    <2>4. \A n \in 0 .. k : g[n] = f[n] /\ (n > 0 => g[n - 1] = f[n - 1])
      OBVIOUS
    <2>5. g \in [0 .. k + 1 -> Seq(OutType)]
      <3> HIDE DEF x
      <3> QED BY <2>1, <2>2 DEF IsUpTo
    <2> HIDE DEF g, x
    <2>6. \A n \in 0 .. k + 1 : g[n] = IF n = 0 THEN <<>> ELSE NextAnswers(s, g[n - 1], n)
      <3> SUFFICES ASSUME NEW n \in 0 .. k + 1
                   PROVE  g[n] = IF n = 0 THEN <<>> ELSE NextAnswers(s, g[n - 1], n)
        OBVIOUS
      <3>1. CASE n = k + 1
        BY <3>1, <2>3
      <3>2. CASE n # k + 1
        BY <3>2, <2>1, <2>4 DEF IsUpTo
      <3>3. QED BY <3>1, <3>2
    <2>7. IsUpTo(s, g, k + 1)
      BY <2>5, <2>6 DEF IsUpTo
    <2>8. QED BY <2>7
  <1>3. Nat \subseteq S
    <2> HIDE DEF S
    <2> QED BY <1>1, <1>2, Induction
  <1>4. QED BY <1>3

(* The answers to a segment are messages for the queue.                    *)
LEMMA AnswersType ==
    ASSUME NEW s, Len(s) \in Nat
    PROVE  Answers(s) \in Seq(OutType)
  <1> DEFINE Body(f) == [n \in 0 .. Len(s) |->
                 IF n = 0 THEN <<>>
                 ELSE IF Handled(s, n) /\ AnswerTo(s[n]) # "none"
                      THEN Append(f[n - 1], AnswerTo(s[n])) ELSE f[n - 1]]
  <1>1. PICK g : IsUpTo(s, g, Len(s))
    BY AnswersExist
  <1>2. g = Body(g)
    BY <1>1, Zenon DEF IsUpTo, NextAnswers
  <1>3. \E f : f = Body(f) /\ Answers(s) = f[Len(s)]
    BY <1>2, Zenon DEF Answers
  <1>4. PICK f : f = Body(f) /\ Answers(s) = f[Len(s)]
    BY <1>3
  <1>5. \A n \in 0 .. Len(s) :
          f[n] = IF n = 0 THEN <<>> ELSE NextAnswers(s, f[n - 1], n)
    BY <1>4, Zenon DEF NextAnswers
  <1> HIDE DEF Body
  <1> DEFINE S == {n \in Nat : n <= Len(s) => f[n] \in Seq(OutType)}
  <1>6. ASSUME NEW n \in Nat, n \in S PROVE n + 1 \in S
    <2> SUFFICES ASSUME n + 1 <= Len(s) PROVE f[n + 1] \in Seq(OutType)
      OBVIOUS
    <2>1. f[n] \in Seq(OutType) /\ n + 1 \in 0 .. Len(s) /\ n + 1 # 0 /\ (n + 1) - 1 = n
      BY <1>6
    <2>2. f[n + 1] = NextAnswers(s, f[n], n + 1)
      BY <1>5, <2>1
    <2>3. QED BY <2>1, <2>2, AnswerType DEF NextAnswers
  <1>7. 0 \in S
    <2>1. f[0] = <<>> /\ <<>> \in Seq(OutType)
      BY <1>5
    <2>2. f[0] \in Seq(OutType)
      BY <2>1
    <2>3. QED BY <2>2
  <1>8. Nat \subseteq S
    <2> HIDE DEF S
    <2> QED BY <1>6, <1>7, Induction
  <1>9. f[Len(s)] \in Seq(OutType)
    BY <1>8
  <1>10. QED BY <1>4, <1>9

\* What TypeOK adds to the types of the control state ...
DataTypeOK ==
    /\ keepAliveTick \in [Clients -> 0 .. KeepAlive + 1]
    /\ reconnectTick \in [Clients -> 0 .. MQTT_RECONNECT_TIMEOUT]
    /\ sendTimeout \in [Clients -> 0 .. MQTT_SEND_TIMOUT]
    /\ pending \in [Clients -> OutType \cup {"none", "CONNECT"}]
    /\ cbs \in [Clients -> SUBSET Links]
    /\ sendBuf \in [Clients -> [Links -> SendBuf]]

\* ... and the outgoing queue, within its ring.
QueueTypeOK ==
    /\ msgQueue \in [Clients -> Seq(OutType)]
    /\ \A c \in Clients : Len(msgQueue[c]) <= QueueFrames

(* Publishing and answering keep a queue of messages within its ring.      *)
LEMMA AcceptingType ==
    ASSUME NEW q \in Seq(OutType), Len(q) <= QueueFrames, NEW m \in OutType,
           NEW r \in Accepting(q, m)
    PROVE  r \in Seq(OutType) /\ Len(r) <= QueueFrames
  <1>1. CASE Len(q) < QueueFrames
    <2>1. r = Append(q, m)
      BY <1>1 DEF Accepting
    <2>2. QED BY <1>1, <2>1, SizesAssumption
  <1>2. CASE ~(Len(q) < QueueFrames)
    <2>1. PICK k \in 1 .. Len(q) : r = Append(SubSeq(q, k + 1, Len(q)), m)
      BY <1>2 DEF Accepting
    <2>2. /\ SubSeq(q, k + 1, Len(q)) \in Seq(OutType)
          /\ Len(SubSeq(q, k + 1, Len(q))) = Len(q) - k
      BY SubSeqProperties
    <2> DEFINE t == SubSeq(q, k + 1, Len(q))
    <2> HIDE DEF t
    <2>3. t \in Seq(OutType) /\ Len(t) = Len(q) - k /\ r = Append(t, m)
      BY <2>1, <2>2 DEF t
    <2>4. QED BY <2>3, SizesAssumption
  <1>3. QED BY <1>1, <1>2

(* The answers that do not fit are dropped.                                *)
LEMMA AnsweringType ==
    ASSUME NEW q \in Seq(OutType), Len(q) <= QueueFrames, NEW an \in Seq(OutType)
    PROVE  Answering(q, an) \in Seq(OutType) /\ Len(Answering(q, an)) <= QueueFrames
  <1>a. Len(q) \in Nat /\ Len(an) \in Nat /\ QueueFrames \in Nat
    <2>1. QueueFrames \in Nat
      BY SizesAssumption
    <2>2. Len(q) \in Nat /\ Len(an) \in Nat
      OBVIOUS
    <2>3. QED BY <2>1, <2>2
  <1> DEFINE n == IF Len(an) <= QueueFrames - Len(q) THEN Len(an) ELSE QueueFrames - Len(q)
             t == SubSeq(an, 1, n)
  <1>1. n \in 0 .. Len(an) /\ n <= QueueFrames - Len(q)
    <2> DEFINE a == Len(an)
               b == Len(q)
    <2>1. a \in Nat /\ b \in Nat /\ b <= QueueFrames
      BY <1>a
    <2> HIDE DEF a, b
    <2>2. (IF a <= QueueFrames - b THEN a ELSE QueueFrames - b) \in 0 .. a
          /\ (IF a <= QueueFrames - b THEN a ELSE QueueFrames - b) <= QueueFrames - b
      BY <2>1, <1>a
    <2>3. QED BY <2>2 DEF a, b
  <1> HIDE DEF n
  <1>2. t \in Seq(OutType) /\ Len(t) = n
    <2>1. n \in Int /\ 1 \in Int /\ n >= 0
      BY <1>1, <1>a
    <2>2. \A i \in 1 .. n : i \in 1 .. Len(an)
      BY <1>1, <1>a
    <2>3. \A i \in 1 .. n : an[i] \in OutType
      BY <2>2, ElementOfSeq
    <2>4. SubSeq(an, 1, n) \in Seq(OutType)
          /\ Len(SubSeq(an, 1, n)) = IF 1 <= n THEN n - 1 + 1 ELSE 0
      BY <2>1, <2>3, SubSeqProperties
    <2>5. QED BY <2>1, <2>4
  <1> HIDE DEF t
  <1>3. q \o t \in Seq(OutType) /\ Len(q \o t) = Len(q) + Len(t)
    BY <1>2, ConcatProperties
  <1>4. Answering(q, an) = q \o t
    BY DEF Answering, n, t
  <1>5. QED BY <1>1, <1>2, <1>3, <1>4, <1>a

(* espconn_send fills one buffer or leaves them all alone.                 *)
LEMMA SendType ==
    ASSUME SessionTypeOK, sendBuf \in [Clients -> [Links -> SendBuf]],
           NEW c \in Clients, NEW lk, NEW ok, espconn_send(c, lk, ok)
    PROVE  sendBuf' \in [Clients -> [Links -> SendBuf]]
  <1>1. CASE UNCHANGED sendBuf
    BY <1>1
  <1>2. CASE ~UNCHANGED sendBuf
    <2>1. pCon[c] \in Links
      BY <1>2 DEF espconn_send, CanSend, SessionTypeOK
    <2>2. PICK b \in {"sent", "stuck"} : sendBuf' = [sendBuf EXCEPT ![c][pCon[c]] = b]
      BY <1>2 DEF espconn_send
    <2>3. b \in SendBuf
      BY DEF SendBuf
    <2>4. QED BY <2>1, <2>2, <2>3
  <1>3. QED BY <1>1, <1>2

(* No step leaves the ranges of the counters, the pending message and      *)
(* espconn's buffers.                                                      *)
LEMMA DataKept ==
    ASSUME SessionTypeOK, DataTypeOK, QueueTypeOK, [Next]_vars
    PROVE  DataTypeOK'
  <1> USE SizesAssumption DEF DataTypeOK
  <1>0. /\ MQTT_SEND_TIMOUT \in Nat /\ MQTT_RECONNECT_TIMEOUT \in Nat
        /\ KeepAlive \in Nat /\ MQTT_SEND_TIMOUT # 0
    BY SizesAssumption
  <1>1. ASSUME NEW c \in Clients, MQTT_Connect(c) PROVE DataTypeOK'
    <2>1. PICK l \in Links :
             /\ cbs' = [cbs EXCEPT ![c] = @ \ {l}]
             /\ sendBuf' = [sendBuf EXCEPT ![c][l] = "empty"]
             /\ keepAliveTick' = [keepAliveTick EXCEPT ![c] = 0]
             /\ reconnectTick' = [reconnectTick EXCEPT ![c] = 0]
             /\ UNCHANGED <<sendTimeout, pending>>
      BY <1>1 DEF MQTT_Connect, Fresh
    <2>2. QED BY <1>0, <2>1 DEF SendBuf
  <1>2. ASSUME NEW c \in Clients, Application(c) PROVE DataTypeOK'
    BY <1>1, <1>2 DEF Application, AppConnect, MQTT_Disconnect, MQTT_DeleteClient,
                      MQTT_Publish, ticks, net
  <1>3. ASSUME NEW c \in Clients, mqtt_timer(c) PROVE DataTypeOK'
    <2> USE <1>3 DEF mqtt_timer, TimerInData, TimerInReconnectReq, TimerElsewhere
    <2>1. keepAliveTick' \in [Clients -> 0 .. KeepAlive + 1]
      BY <1>0 DEF UpTo
    <2>2. reconnectTick' \in [Clients -> 0 .. MQTT_RECONNECT_TIMEOUT]
      BY <1>0
    <2>3. sendTimeout' \in [Clients -> 0 .. MQTT_SEND_TIMOUT]
      BY <1>0
    <2>4. pending' \in [Clients -> OutType \cup {"none", "CONNECT"}]
      BY DEF OutType
    <2>5. UNCHANGED cbs
      OBVIOUS
    <2>6. UNCHANGED sendBuf \/ \E ok \in BOOLEAN : espconn_send(c, link, ok)
      OBVIOUS
    <2>7. sendBuf' \in [Clients -> [Links -> SendBuf]]
      BY <2>6, SendType
    <2>8. QED BY <2>1, <2>2, <2>3, <2>4, <2>5, <2>7
  <1>4. ASSUME NEW c \in Clients, NEW l \in Links, Espconn(c, l) PROVE DataTypeOK'
    <2>1. CASE mqtt_tcpclient_connect_cb(c, l)
      <3> USE <2>1 DEF mqtt_tcpclient_connect_cb
      <3>1. cbs' \in [Clients -> SUBSET Links]
        BY DEF SessionTypeOK
      <3>2. sendBuf' \in [Clients -> [Links -> SendBuf]]
        BY SendType
      <3>3. QED BY <1>0, <3>1, <3>2
    <2>2. CASE mqtt_tcpclient_sent_cb(c, l)
      BY <1>0, <2>2 DEF mqtt_tcpclient_sent_cb, SendBuf
    <2>3. CASE mqtt_tcpclient_discon_cb(c, l)
      BY <2>3 DEF mqtt_tcpclient_discon_cb, SendBuf, ticks
    <2>r. CASE mqtt_tcpclient_recon_cb(c, l)
      BY <2>r DEF mqtt_tcpclient_recon_cb, SendBuf, ticks
    <2>4. CASE \/ \E seg \in Segments : mqtt_tcpclient_recv(c, l, seg)
               \/ mqtt_dns_found(c, l) \/ PeerCloses(c, l) \/ LinkFails(c, l)
      BY <2>4 DEF mqtt_tcpclient_recv, mqtt_dns_found, PeerCloses, LinkFails, ticks
    <2>5. QED BY <1>4, <2>1, <2>2, <2>3, <2>r, <2>4 DEF Espconn
  <1>5. CASE MQTT_Task
    <2>c. PICK c \in Clients : c = Head(taskQueue)
      BY <1>5 DEF MQTT_Task, SessionTypeOK
    <2>s. \/ TaskReconnect(c) \/ TaskDisconnect(c) \/ TaskDisconnected(c)
          \/ TaskDeleted(c) \/ TaskSend(c) \/ TaskIdle(c)
      BY <1>5, <2>c DEF MQTT_Task
    <2>1. CASE TaskReconnect(c)
      BY <1>1, <2>1 DEF TaskReconnect
    <2>2. CASE TaskSend(c)
      <3> USE <2>2 DEF TaskSend, MaySend
      <3>1. msgQueue[c] \in Seq(OutType) /\ msgQueue[c] # <<>>
        BY DEF QueueTypeOK
      <3>2. Head(msgQueue[c]) \in OutType
        BY <3>1
      <3>3. pending' \in [Clients -> OutType \cup {"none", "CONNECT"}]
        BY <3>2
      <3>4. sendBuf' \in [Clients -> [Links -> SendBuf]]
        BY SendType
      <3>5. QED BY <1>0, <3>3, <3>4
    <2>3. CASE TaskDisconnect(c) \/ TaskDisconnected(c) \/ TaskDeleted(c) \/ TaskIdle(c)
      BY <2>3 DEF TaskDisconnect, TaskDisconnected, TaskDeleted, TaskIdle, ticks, net
    <2>4. QED BY <2>s, <2>1, <2>2, <2>3
  <1>6. CASE UNCHANGED vars
    BY <1>6 DEF vars, ticks, net
  <1>7. QED BY <1>2, <1>3, <1>4, <1>5, <1>6 DEF Next
  
(* No step overfills the outgoing ring: MQTT_Publish evicts first, the     *)
(* answers to a segment are dropped.                                       *)
LEMMA QueueKept ==
    ASSUME SessionTypeOK, QueueTypeOK, [Next]_vars
    PROVE  QueueTypeOK'
  <1>0. ASSUME NEW c \in Clients, NEW q \in Seq(OutType), Len(q) <= QueueFrames,
               msgQueue' = [msgQueue EXCEPT ![c] = q]
        PROVE  QueueTypeOK'
    BY <1>0 DEF QueueTypeOK
  <1>u. UNCHANGED msgQueue => QueueTypeOK'
    BY DEF QueueTypeOK
  <1>1. ASSUME NEW c \in Clients, Application(c) PROVE QueueTypeOK'
    <2>1. ASSUME NEW m \in AppMsgs, MQTT_Publish(c, m) PROVE QueueTypeOK'
      <3>1. CASE \E q \in Accepting(msgQueue[c], m) : msgQueue' = [msgQueue EXCEPT ![c] = q]
        <4>1. PICK q \in Accepting(msgQueue[c], m) : msgQueue' = [msgQueue EXCEPT ![c] = q]
          BY <3>1
        <4>2. m \in OutType
          BY InputAssumption DEF OutType
        <4>3. q \in Seq(OutType) /\ Len(q) <= QueueFrames
          BY <4>2, AcceptingType DEF QueueTypeOK
        <4>4. QED BY <1>0, <4>1, <4>3
      <3>2. CASE msgQueue' = [msgQueue EXCEPT ![c] = <<>>]
        <4>1. <<>> \in Seq(OutType) /\ Len(<<>>) <= QueueFrames
          BY SizesAssumption
        <4>2. QED BY <1>0, <3>2, <4>1
      <3>3. QED BY <2>1, <3>1, <3>2 DEF MQTT_Publish
    <2>2. QED BY <1>1, <1>u, <2>1 DEF Application, AppConnect, MQTT_Connect, MQTT_Disconnect,
                                  MQTT_DeleteClient
  <1>2. ASSUME NEW c \in Clients, mqtt_timer(c) PROVE QueueTypeOK'
    BY <1>2, <1>u DEF mqtt_timer
  <1>3. ASSUME NEW c \in Clients, NEW l \in Links, Espconn(c, l) PROVE QueueTypeOK'
    <2>1. ASSUME NEW seg \in Segments, RecvInData(c, seg) PROVE QueueTypeOK'
      <3> DEFINE an == Answers(seg)
      <3>1. Len(seg) \in Nat
        BY InputAssumption
      <3>2. an \in Seq(OutType)
        BY <3>1, AnswersType
      <3>3. msgQueue' = [msgQueue EXCEPT ![c] = Answering(msgQueue[c], an)]
        BY <2>1 DEF RecvInData, QueueTypeOK
      <3> HIDE DEF an
      <3>4. /\ Answering(msgQueue[c], an) \in Seq(OutType)
            /\ Len(Answering(msgQueue[c], an)) <= QueueFrames
        BY <3>2, AnsweringType DEF QueueTypeOK
      <3>5. QED BY <1>0, <3>3, <3>4
    <2>2. CASE UNCHANGED msgQueue
      BY <2>2, <1>u
    <2>3. QED BY <1>3, <2>1, <2>2 DEF Espconn, mqtt_tcpclient_connect_cb, mqtt_tcpclient_recv,
               RecvInConnectSending, RecvElsewhere, mqtt_tcpclient_sent_cb,
               mqtt_tcpclient_discon_cb, mqtt_tcpclient_recon_cb, mqtt_dns_found,
               PeerCloses, LinkFails
  <1>4. CASE MQTT_Task
    <2>c. PICK c \in Clients : c = Head(taskQueue)
      BY <1>4 DEF MQTT_Task, SessionTypeOK
    <2>1. CASE TaskSend(c)
      <3>1. msgQueue[c] \in Seq(OutType) /\ msgQueue[c] # <<>> /\ Len(msgQueue[c]) <= QueueFrames
        BY <2>1 DEF TaskSend, MaySend, QueueTypeOK
      <3>2. Tail(msgQueue[c]) \in Seq(OutType) /\ Len(Tail(msgQueue[c])) = Len(msgQueue[c]) - 1
        BY <3>1
      <3>3. Len(Tail(msgQueue[c])) <= QueueFrames
        BY <3>1, <3>2, SizesAssumption
      <3>4. msgQueue' = [msgQueue EXCEPT ![c] = Tail(msgQueue[c])]
        BY <2>1 DEF TaskSend, QueueTypeOK
      <3>5. QED BY <1>0, <3>2, <3>3, <3>4
    <2>2. CASE UNCHANGED msgQueue
      BY <2>2, <1>u
    <2>3. QED BY <1>4, <2>c, <2>1, <2>2 DEF MQTT_Task, TaskReconnect, MQTT_Connect,
               TaskDisconnect, TaskDisconnected, TaskDeleted, TaskIdle
  <1>5. CASE UNCHANGED vars
    BY <1>5, <1>u DEF vars
  <1>6. QED BY <1>1, <1>2, <1>3, <1>4, <1>5 DEF Next

(* The types of the whole state: in particular the outgoing queue stays    *)
(* within its ring whatever the application publishes and the broker asks  *)
(* to have answered, and the counters within the timeouts they count to.   *)
THEOREM QueuesStayInTheRing == Spec => []TypeOK
  <1>1. Init => DataTypeOK /\ QueueTypeOK
    <2> SUFFICES ASSUME Init PROVE DataTypeOK /\ QueueTypeOK
      OBVIOUS
    <2>1. DataTypeOK
      BY SizesAssumption DEF Init, DataTypeOK, SendBuf
    <2>2. QueueTypeOK
      BY SizesAssumption DEF Init, QueueTypeOK
    <2>3. QED BY <2>1, <2>2
  <1>2. IInv /\ DataTypeOK /\ QueueTypeOK /\ [Next]_vars => (DataTypeOK /\ QueueTypeOK)'
    BY DataKept, QueueKept DEF IInv
  <1>3. IInv /\ DataTypeOK /\ QueueTypeOK => TypeOK
    BY DEF IInv, TypeOK, DataTypeOK, QueueTypeOK
  <1>4. QED BY <1>1, <1>2, <1>3, Invariance, PTL DEF Spec

-----------------------------------------------------------------------------
(* However many clients share the SDK, and whatever callbacks of dead      *)
(* links still arrive: a client being torn down has no timer running, one  *)
(* that is about to reconnect has.                                         *)
THEOREM SessionsAreDisciplined == Spec => []TimerDiscipline
  BY Invariance, PTL DEF IInv

(* A CONNACK that mqtt_tcpclient_recv waits for finds the CONNECT pending. *)
THEOREM ConnacksFindTheirConnect == Spec => []ConnackFindsConnect
  BY Invariance, PTL DEF IInv

(* With a numeric host, a deleted client never starts another connection,  *)
(* whatever its links still report.                                        *)
THEOREM DeletedStaysDeleted ==
    ASSUME HostIsIP
    PROVE  Spec => NoReconnectAfterDelete
  <1>1. IInv /\ [Next]_vars =>
          [\A c \in Clients :
             deleted[c] /\ connState'[c] # connState[c] => connState'[c] # "TCP_CONNECTING"]_vars
    <2> SUFFICES ASSUME IInv, Next, NEW d \in Clients, deleted[d],
                        connState'[d] # connState[d]
                 PROVE  connState'[d] # "TCP_CONNECTING"
      OBVIOUS
    <2> USE DEF IInv, SessionTypeOK
    <2>0. ~mqttTimer[d] /\ dns[d] = {} /\ connState[d] # "TCP_RECONNECT"
      BY DEF DeletedIsQuiet, TimerDiscipline
    <2>1. ASSUME NEW c \in Clients, Application(c) PROVE connState'[d] # "TCP_CONNECTING"
      BY <2>0, <2>1 DEF Application, AppConnect, MQTT_Connect, MQTT_Disconnect,
                        MQTT_DeleteClient, MQTT_Publish
    <2>2. ASSUME NEW c \in Clients, mqtt_timer(c) PROVE connState'[d] # "TCP_CONNECTING"
      BY <2>0, <2>2 DEF mqtt_timer, TimerInData, TimerInReconnectReq, TimerElsewhere
    <2>3. ASSUME NEW c \in Clients, NEW l \in Links, Espconn(c, l)
          PROVE  connState'[d] # "TCP_CONNECTING"
      <3>1. CASE mqtt_tcpclient_connect_cb(c, l) \/ mqtt_tcpclient_sent_cb(c, l)
        BY <3>1 DEF mqtt_tcpclient_connect_cb, mqtt_tcpclient_sent_cb
      <3>2. CASE \E seg \in Segments : mqtt_tcpclient_recv(c, l, seg)
        BY <3>2 DEF mqtt_tcpclient_recv, RecvInConnectSending, RecvInData, RecvElsewhere
      <3>3. CASE mqtt_tcpclient_discon_cb(c, l) \/ mqtt_tcpclient_recon_cb(c, l)
        BY <3>3 DEF mqtt_tcpclient_discon_cb, mqtt_tcpclient_recon_cb, AfterDisconnect
      <3>4. CASE mqtt_dns_found(c, l)
        BY <2>0, <3>4 DEF mqtt_dns_found
      <3>5. CASE PeerCloses(c, l) \/ LinkFails(c, l)
        BY <3>5 DEF PeerCloses, LinkFails
      <3>6. QED BY <2>3, <3>1, <3>2, <3>3, <3>4, <3>5 DEF Espconn
    <2>4. CASE MQTT_Task
      <3>1. Head(taskQueue) \in Clients
        BY <2>4, TakeType DEF MQTT_Task
      <3>2. QED BY <2>0, <2>4, <3>1 DEF MQTT_Task, TaskReconnect, TaskDisconnect,
                   TaskDisconnected, TaskDeleted, TaskSend, TaskIdle, MQTT_Connect
    <2>5. QED BY <2>1, <2>2, <2>3, <2>4 DEF Next
  <1>2. QED BY <1>1, Invariance, PTL DEF Spec, NoReconnectAfterDelete
-----------------------------------------------------------------------------
(* With one client, an event queue that holds anything holds its event.    *)
LEMMA OneClientIsPosted ==
    ASSUME \A c, d \in Clients : c = d,
           taskQueue' \in Seq(Clients), Len(taskQueue') > 0
    PROVE  NoLostWakeup'
  <1>1. \A c \in Clients : taskQueue'[1] = c
    OBVIOUS
  <1>2. 1 \in 1 .. Len(taskQueue')
    OBVIOUS
  <1>3. QED BY <1>1, <1>2 DEF NoLostWakeup, Posted

(* Handlers that post: the event they post is a wake-up.                   *)
LEMMA PostingWakes ==
    ASSUME IInv, \A c, d \in Clients : c = d,
           NEW e \in Clients, taskQueue' = Post(taskQueue, e)
    PROVE  NoLostWakeup'
  <1>1. Post(taskQueue, e) \in Seq(Clients) /\ Len(Post(taskQueue, e)) > 0
    BY PostType DEF IInv, SessionTypeOK
  <1>2. QED BY <1>1, OneClientIsPosted

(* Handlers that leave the event queue alone give MQTT_Task no new work.   *)
LEMMA NoNewWork ==
    ASSUME IInv, NoLostWakeup, UNCHANGED taskQueue,
           \A c \in Clients : NeedsTask(c)' => NeedsTask(c)
    PROVE  NoLostWakeup'
  BY DEF NoLostWakeup, Posted

(* The application's calls post, or change nothing MQTT_Task waits for.    *)
LEMMA ApplicationWakes ==
    ASSUME IInv, NoLostWakeup, \A c, d \in Clients : c = d,
           NEW e \in Clients, Application(e)
    PROVE  NoLostWakeup'
  <1>1. CASE taskQueue' = Post(taskQueue, e)
    BY <1>1, PostingWakes
  <1>2. CASE UNCHANGED <<connState, pCon, link, heap, taskQueue>>
    BY <1>2, NoNewWork DEF NeedsTask
  <1>3. QED BY <1>1, <1>2 DEF Application, AppConnect, MQTT_Disconnect,
                              MQTT_DeleteClient,
               MQTT_Publish, net

(* The timer posts with the work it leaves to MQTT_Task.                   *)
LEMMA TimerWakes ==
    ASSUME IInv, NoLostWakeup, \A c, d \in Clients : c = d,
           NEW e \in Clients, mqtt_timer(e)
    PROVE  NoLostWakeup'
  <1> USE DEF mqtt_timer, TimerInData, TimerInReconnectReq, TimerElsewhere
  <1>1. CASE taskQueue' = Post(taskQueue, e)
    BY <1>1, PostingWakes
  <1>2. CASE taskQueue' # Post(taskQueue, e)
    <2>1. UNCHANGED <<pCon, link, heap, taskQueue>>
      BY <1>2
    <2>2. \A c \in Clients : connState'[c] = connState[c] \/ connState'[c] = "TCP_RECONNECT_REQ"
      BY <1>2 DEF IInv, SessionTypeOK
    <2>3. QED BY <2>1, <2>2, NoNewWork DEF NeedsTask
  <1>3. QED BY <1>1, <1>2

(* So do espconn's callbacks.                                              *)
LEMMA EspconnWakes ==
    ASSUME IInv, NoLostWakeup, \A c, d \in Clients : c = d,
           NEW e \in Clients, NEW l \in Links, Espconn(e, l)
    PROVE  NoLostWakeup'
  <1> USE DEF IInv, SessionTypeOK
  <1>1. CASE taskQueue' = Post(taskQueue, e)
    BY <1>1, PostingWakes
  <1>2. CASE mqtt_tcpclient_sent_cb(e, l) /\ taskQueue' # Post(taskQueue, e)
    BY <1>2, NoNewWork DEF mqtt_tcpclient_sent_cb, NeedsTask
  <1>3. CASE mqtt_tcpclient_discon_cb(e, l) /\ taskQueue' # Post(taskQueue, e)
    <2>1. /\ UNCHANGED <<connState, pCon, heap, taskQueue>>
          /\ link' = [link EXCEPT ![e][l] = "idle"]
      BY <1>3 DEF mqtt_tcpclient_discon_cb
    <2>2. QED BY <2>1, NoNewWork DEF NeedsTask
  <1>4. CASE mqtt_dns_found(e, l) /\ taskQueue' # Post(taskQueue, e)
    <2>1. /\ UNCHANGED <<pCon, heap, link, taskQueue>>
          /\ connState' = [connState EXCEPT ![e] = "TCP_RECONNECT_REQ"]
      BY <1>4 DEF mqtt_dns_found
    <2>2. QED BY <2>1, NoNewWork DEF NeedsTask
  <1>5. CASE PeerCloses(e, l) \/ LinkFails(e, l)
    <2>1. /\ UNCHANGED <<connState, pCon, heap, taskQueue>>
          /\ link' = [link EXCEPT ![e][l] = "closing"] \/ link' = [link EXCEPT ![e][l] = "failed"]
      BY <1>5 DEF PeerCloses, LinkFails
    <2>2. QED BY <2>1, NoNewWork DEF NeedsTask
  <1>6. QED BY <1>1, <1>2, <1>3, <1>4, <1>5 DEF Espconn, mqtt_tcpclient_connect_cb,
               mqtt_tcpclient_recv, mqtt_tcpclient_recon_cb

(* MQTT_Task consumes the event, and does the work it announced.           *)
LEMMA TaskWakes ==
    ASSUME IInv, NoLostWakeup, \A c, d \in Clients : c = d, MQTT_Task
    PROVE  NoLostWakeup'
  <1> USE DEF IInv, SessionTypeOK
  <1>e. PICK e \in Clients : e = Head(taskQueue)
    BY TakeType DEF MQTT_Task
  <1>t. Tail(taskQueue) \in Seq(Clients) /\ Len(Tail(taskQueue)) <= MQTT_TASK_QUEUE_SIZE
    BY TakeType DEF MQTT_Task
  <1>o. \A c \in Clients : c = e
    OBVIOUS
  <1>s. \/ TaskReconnect(e) \/ TaskDisconnect(e) \/ TaskDisconnected(e)
        \/ TaskDeleted(e) \/ TaskSend(e) \/ TaskIdle(e)
    BY <1>e DEF MQTT_Task
  <1>1. CASE TaskReconnect(e)
    <2>1. Post(Tail(taskQueue), e) \in Seq(Clients) /\ Len(Post(Tail(taskQueue), e)) > 0
      BY <1>t, PostType
    <2>2. QED BY <1>1, <2>1, OneClientIsPosted DEF TaskReconnect
  <1>2. CASE TaskDisconnect(e)
    <2>1. ~NeedsTask(e)'
      BY <1>2, <1>t, LinkAssumption DEF TaskDisconnect, espconn_disconnect, NeedsTask
    <2>2. QED BY <2>1, <1>o DEF NoLostWakeup
  <1>3. CASE TaskDisconnected(e)
    <2>1. ~NeedsTask(e)'
      BY <1>3, <1>t DEF TaskDisconnected, mqtt_tcpclient_delete, NeedsTask
    <2>2. QED BY <2>1, <1>o DEF NoLostWakeup
  <1>4. CASE TaskDeleted(e)
    <2>1. ~NeedsTask(e)'
      BY <1>4, <1>t DEF TaskDeleted, mqtt_tcpclient_delete, NeedsTask
    <2>2. QED BY <2>1, <1>o DEF NoLostWakeup
  <1>5. CASE TaskSend(e) \/ TaskIdle(e)
    <2>1. ~NeedsTask(e)'
      BY <1>5, <1>t DEF TaskSend, MaySend, TaskIdle, NeedsTask
    <2>2. QED BY <2>1, <1>o DEF NoLostWakeup
  <1>6. QED BY <1>s, <1>1, <1>2, <1>3, <1>4, <1>5

(* One client never loses a wake-up to the one-slot event queue: a refused *)
(* post means its event is already there.  (Two clients do: the run        *)
(* MqttTwoClients.)                                                        *)
THEOREM OneClientWakes ==
    ASSUME \A c, d \in Clients : c = d
    PROVE  Spec => []NoLostWakeup
  <1>1. Init => NoLostWakeup
    BY DEF Init, NoLostWakeup, NeedsTask, HeapObjects
  <1>2. IInv /\ NoLostWakeup /\ [Next]_vars => NoLostWakeup'
    <2> SUFFICES ASSUME IInv, NoLostWakeup, [Next]_vars PROVE NoLostWakeup'
      OBVIOUS
    <2>1. CASE UNCHANGED vars
      BY <2>1, NoNewWork DEF vars, net, NeedsTask
    <2>2. CASE Next
      BY <2>2, ApplicationWakes, TimerWakes, EspconnWakes, TaskWakes DEF Next
    <2>3. QED BY <2>1, <2>2
  <1>3. QED BY <1>1, <1>2, Invariance, PTL DEF Spec
=============================================================================
