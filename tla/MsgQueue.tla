------------------------------ MODULE MsgQueue ------------------------------
(***************************************************************************)
(* The outgoing message queue of the MQTT client: queue.c and the framing  *)
(* of proto.c over the bounded byte FIFO that RingBuf is proved to         *)
(* implement, with the callers' loops of mqtt.c.                           *)
(*                                                                         *)
(* A message is a sequence of bytes.  PROTO_AddRb frames it as BEG, its    *)
(* escaped bytes, END, and stops where the ring fills up: what it wrote by *)
(* then stays in the ring as a partial frame.                              *)
(***************************************************************************)
EXTENDS Integers, Sequences

CONSTANTS Size,        \* QUEUE_BUFFER_SIZE
          BufSize,     \* MQTT_BUF_SIZE: where QUEUE_Gets truncates
          Byte,        \* values of a byte
          Msg,         \* the messages the client queues
          NoMsg

BEG == 126   \* 0x7E
END == 127   \* 0x7F
ESC == 125   \* 0x7D

\* c ^ 0x20
Xor20(c) == IF (c \div 32) % 2 = 1 THEN c - 32 ELSE c + 32

\* The escaping of one byte in PROTO_AddRb.
EscapeByte(c) == IF c \in {ESC, BEG, END} THEN <<ESC, Xor20(c)>> ELSE <<c>>

\* The escaping of a whole message.
Escaped(m) ==
    LET upTo[i \in 0 .. Len(m)] ==
          IF i = 0 THEN <<>> ELSE upTo[i - 1] \o EscapeByte(m[i])
    IN upTo[Len(m)]

ASSUME SizeAssumption == Size \in Nat /\ Size >= 2

\* Messages are built in out_buffer, which is as long as where they are cut.
ASSUME MsgAssumption ==
    /\ BufSize \in Nat
    /\ \A m \in Msg : m \in Seq(Byte) /\ Len(m) <= BufSize

ASSUME ByteAssumption ==
    \A c \in {BEG, END, ESC} : c \in Byte /\ Xor20(c) \in Byte

ASSUME NoMsgAssumption == NoMsg \notin Msg

VARIABLES ring,    \* the bytes in the ring, oldest first
          pc,      \* where the loop of MQTT_Publish is: "idle", "puts", "gets"
          job,     \* the message that loop is queueing
          taken    \* the message QUEUE_Gets last handed to MQTT_Task

vars == <<ring, pc, job, taken>>

-----------------------------------------------------------------------------
(* proto.c *)

Frame(m) == <<BEG>> \o Escaped(m) \o <<END>>

\* What PROTO_AddRb leaves in a ring holding r: the whole frame, or the part
\* that was written when RINGBUF_Put first returned -1.
Fits_ForgetsEnd(r, m) == Len(r) + Len(Frame(m)) <= Size + 1
Fits(r, m) == Len(r) + Len(Frame(m)) <= Size

Written(r, m) == IF Fits(r, m) THEN Frame(m) ELSE SubSeq(Frame(m), 1, Size - Len(r))

PROTO_AddRb_NoBegin(r, m) == r \o (IF r = <<>> THEN Written(r, m) ELSE Tail(Written(r, m)))
PROTO_AddRb(r, m) == r \o Written(r, m)

\* PROTO_ParseByte on a parser record; `done' is its return of 0.
PROTO_ParseByte_NoReset(p, c) ==
    CASE c = ESC -> [p EXCEPT !.isEsc = 1]
      [] c = BEG -> [p EXCEPT !.isBegin = 1]
      [] c = END -> [p EXCEPT !.isBegin = 0, !.done = TRUE]
      [] OTHER ->
           IF p.isBegin = 0 THEN p
           ELSE [p EXCEPT !.isEsc = 0,
                          !.data = IF Len(@) < BufSize
                                   THEN Append(@, IF p.isEsc = 1 THEN Xor20(c) ELSE c)
                                   ELSE @]
PROTO_ParseByte(p, c) ==
    CASE c = ESC -> [p EXCEPT !.isEsc = 1]
      [] c = BEG -> [p EXCEPT !.data = <<>>, !.isEsc = 0, !.isBegin = 1]
      [] c = END -> [p EXCEPT !.isBegin = 0, !.done = TRUE]
      [] OTHER ->
           IF p.isBegin = 0 THEN p
           ELSE [p EXCEPT !.isEsc = 0,
                          !.data = IF Len(@) < BufSize
                                   THEN Append(@, IF p.isEsc = 1 THEN Xor20(c) ELSE c)
                                   ELSE @]

\* PROTO_Init sets every field but isBegin, which is stack garbage.
PROTO_Init(garbage) ==
    [data |-> <<>>, isEsc |-> 0, isBegin |-> garbage, done |-> FALSE]

Parse(bytes, garbage) ==
    LET after[i \in 0 .. Len(bytes)] ==
          IF i = 0 THEN PROTO_Init(garbage) ELSE PROTO_ParseByte(after[i - 1], bytes[i])
    IN after[Len(bytes)]

\* k is the first END of r: PROTO_ParseRb reads up to it.
FirstEnd(r, k) ==
    /\ k \in 1 .. Len(r)
    /\ r[k] = END
    /\ \A i \in 1 .. k - 1 : r[i] # END

\* PROTO_ParseRb found no END: it has read the ring empty and returns -1.
NoEnd(r) == \A i \in 1 .. Len(r) : r[i] # END

Rest_KeepsEnd(r, k) == SubSeq(r, k, Len(r))
Rest_Peek(r, k) == r
Rest(r, k) == SubSeq(r, k + 1, Len(r))

-----------------------------------------------------------------------------
(* mqtt.c: the callers.  Handlers run to completion, so nothing else       *)
(* happens while pc is not "idle".                                         *)

Init ==
    /\ ring = <<>>
    /\ pc = "idle"
    /\ job = NoMsg
    /\ taken = NoMsg

\* MQTT_Publish, MQTT_Subscribe and MQTT_Ping, up to their loop.
MQTT_Publish(m) ==
    /\ pc = "idle"
    /\ job' = m
    /\ pc' = "puts"
    /\ UNCHANGED <<ring, taken>>

\* QUEUE_Puts in the loop: the message is queued, or a partial frame is left.
QUEUE_Puts ==
    /\ pc = "puts"
    /\ ring' = PROTO_AddRb(ring, job)
    /\ IF Fits(ring, job)
       THEN pc' = "idle" /\ job' = NoMsg
       ELSE pc' = "gets" /\ job' = job
    /\ UNCHANGED taken

\* QUEUE_Gets in the loop: the oldest message makes room.
EvictOldest ==
    /\ pc = "gets"
    /\ \E k \in 1 .. Len(ring) : FirstEnd(ring, k) /\ ring' = Rest(ring, k)
    /\ pc' = "puts"
    /\ UNCHANGED <<job, taken>>

\* QUEUE_Gets failed: "Serious buffer error", the publisher gets FALSE.
SeriousBufferError ==
    /\ pc = "gets"
    /\ NoEnd(ring)
    /\ ring' = <<>>
    /\ pc' = "idle"
    /\ job' = NoMsg
    /\ UNCHANGED taken

\* The answers of mqtt_tcpclient_recv: one QUEUE_Puts, dropped on -1.
QueueAnswer(m) ==
    /\ pc = "idle"
    /\ ring' = PROTO_AddRb(ring, m)
    /\ UNCHANGED <<pc, job, taken>>

\* MQTT_Task in MQTT_DATA: QUEUE_Gets on a queue that is not empty.
TakeMessage ==
    /\ pc = "idle"
    /\ \E k \in 1 .. Len(ring), garbage \in {0, 1} :
          /\ FirstEnd(ring, k)
          /\ taken' = Parse(SubSeq(ring, 1, k), garbage).data
          /\ ring' = Rest(ring, k)
    /\ UNCHANGED <<pc, job>>

TakeFails ==
    /\ pc = "idle"
    /\ ring # <<>>      \* QUEUE_IsEmpty
    /\ NoEnd(ring)
    /\ ring' = <<>>
    /\ UNCHANGED <<pc, job, taken>>

Loop == QUEUE_Puts \/ EvictOldest \/ SeriousBufferError

Next ==
    \/ \E m \in Msg : MQTT_Publish(m) \/ QueueAnswer(m)
    \/ Loop
    \/ TakeMessage
    \/ TakeFails

Spec == Init /\ [][Next]_vars /\ WF_vars(Loop)

-----------------------------------------------------------------------------
(* Types: the ring never holds more than Size bytes.                       *)
TypeOK ==
    /\ ring \in Seq(Byte)
    /\ Len(ring) <= Size
    /\ pc \in {"idle", "puts", "gets"}
    /\ job \in Msg \cup {NoMsg}
    /\ pc = "idle" <=> job = NoMsg

(* The oldest byte is always a frame start, whatever partial frames were   *)
(* left behind and whatever was evicted: no parse ever depends on the      *)
(* isBegin flag PROTO_Init leaves uninitialised.                           *)
HeadIsFrameStart == ring # <<>> => ring[1] = BEG

(* The next frame starts where one ends: a partial frame never runs into   *)
(* the one queued after it.                                                *)
EndsAreFollowedByStarts ==
    \A i \in 1 .. Len(ring) - 1 : ring[i] = END => ring[i + 1] = BEG

\* What a reader of frames makes of one more byte: a BEG starts a message
\* anew, whatever was left of one before, and an END completes it.
ReadByte(r, c) ==
    CASE c = BEG -> [r EXCEPT !.body = <<>>, !.isEsc = 0]
      [] c = END -> [messages |-> Append(r.messages, r.body), body |-> <<>>, isEsc |-> 0]
      [] c = ESC -> [r EXCEPT !.isEsc = 1]
      [] OTHER   -> [r EXCEPT !.body = Append(@, IF r.isEsc = 1 THEN Xor20(c) ELSE c),
                              !.isEsc = 0]

ReadFrom(r, bytes) ==
    LET after[i \in 0 .. Len(bytes)] ==
          IF i = 0 THEN r ELSE ReadByte(after[i - 1], bytes[i])
    IN after[Len(bytes)]

NothingRead == [messages |-> <<>>, body |-> <<>>, isEsc |-> 0]

\* The messages whose frames are complete in the ring, oldest first.
Messages == ReadFrom(NothingRead, ring).messages

Fifo == INSTANCE LossyFifo WITH queue <- Messages

(* The framed ring implements the lossy FIFO of messages: what MQTT_Task   *)
(* sends is a message some caller queued, whole, in order and at most      *)
(* once, although the ring fills up in the middle of frames.               *)
ImplementsLossyFifo == Fifo!Spec

(* The retry loop of MQTT_Publish comes to an end, although every failed   *)
(* attempt leaves a partial frame that takes up the room it freed.         *)
PublishReturns == pc # "idle" ~> pc = "idle"
=============================================================================
