------------------------------ MODULE ByteFifo ------------------------------
(***************************************************************************)
(* What a RINGBUF promises its caller: a queue of at most Size bytes whose *)
(* put fails (-1) exactly when it is full and whose get fails exactly when *)
(* it is empty.  `last' is what the caller saw of the latest call.         *)
(***************************************************************************)
EXTENDS Integers, Sequences

CONSTANTS Size,     \* capacity in bytes
          Byte      \* the values a byte takes

VARIABLES q,        \* the bytes held, oldest first
          last      \* [op, rc, byte] of the latest call

vars == <<q, last>>

NoCall == [op |-> "none", rc |-> 0, byte |-> 0]

Init == q = <<>> /\ last = NoCall

Put(c) ==
    /\ Len(q) < Size
    /\ q' = Append(q, c)
    /\ last' = [op |-> "put", rc |-> 0, byte |-> c]

PutFull(c) ==
    /\ Len(q) = Size
    /\ q' = q
    /\ last' = [op |-> "put", rc |-> -1, byte |-> c]

Get ==
    /\ q # <<>>
    /\ q' = Tail(q)
    /\ last' = [op |-> "get", rc |-> 0, byte |-> Head(q)]

GetEmpty ==
    /\ q = <<>>
    /\ q' = q
    /\ last' = [op |-> "get", rc |-> -1, byte |-> 0]

Next ==
    \/ \E c \in Byte : Put(c) \/ PutFull(c)
    \/ Get
    \/ GetEmpty

Spec == Init /\ [][Next]_vars
=============================================================================
