----------------------------- MODULE LossyFifo -----------------------------
(***************************************************************************)
(* What the outgoing message queue of the MQTT client promises: messages   *)
(* leave it whole, in the order they were accepted, each at most once.  A  *)
(* publisher may evict the oldest ones to make room; it is refused only    *)
(* when nothing is left to evict.  An answer to the broker is dropped when *)
(* it does not fit.                                                        *)
(***************************************************************************)
EXTENDS Sequences

CONSTANTS Msg, NoMsg

VARIABLES queue,      \* messages accepted and not yet taken, oldest first
          job,        \* the message a publisher is queueing, or NoMsg
          taken       \* the message last handed to the sender, or NoMsg

vars == <<queue, job, taken>>

Init == queue = <<>> /\ job = NoMsg /\ taken = NoMsg

Begin(m) ==
    /\ job = NoMsg
    /\ job' = m
    /\ UNCHANGED <<queue, taken>>

Accept ==
    /\ job # NoMsg
    /\ queue' = Append(queue, job)
    /\ job' = NoMsg
    /\ UNCHANGED taken

EvictOldest ==
    /\ job # NoMsg /\ queue # <<>>
    /\ queue' = Tail(queue)
    /\ UNCHANGED <<job, taken>>

Refuse ==
    /\ job # NoMsg /\ queue = <<>>
    /\ job' = NoMsg
    /\ UNCHANGED <<queue, taken>>

Answer(m) ==
    /\ job = NoMsg
    /\ queue' \in {queue, Append(queue, m)}
    /\ UNCHANGED <<job, taken>>

Take ==
    /\ job = NoMsg /\ queue # <<>>
    /\ taken' = Head(queue)
    /\ queue' = Tail(queue)
    /\ UNCHANGED job

Next ==
    \/ \E m \in Msg : Begin(m) \/ Answer(m)
    \/ Accept
    \/ EvictOldest
    \/ Refuse
    \/ Take

Spec == Init /\ [][Next]_vars
=============================================================================
