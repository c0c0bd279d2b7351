------------------------------- MODULE RingBuf -------------------------------
(***************************************************************************)
(* lib/mqtt/ringbuf.c: a byte ring with a read pointer, a write pointer    *)
(* and a count of filled slots.  Pointers are offsets from p_o.            *)
(***************************************************************************)
EXTENDS Integers, Sequences

CONSTANTS Size, Byte

\* RINGBUF_Init refuses a size below 2.
ASSUME SizeAssumption == Size \in Nat /\ Size >= 2

VARIABLES buf,        \* the caller's array
          p_r, p_w,   \* read and write offsets
          fill_cnt,   \* filled slots
          last        \* [op, rc, byte] of the latest call, as the caller saw it

vars == <<buf, p_r, p_w, fill_cnt, last>>

Slot == 0 .. Size - 1

\* Stepping a pointer, and the test for a free slot.  A name with a suffix, as
\* Wrap_LateRollback, is a faulty variant of the operator it precedes.
Wrap_LateRollback(p) == IF p > Size THEN 0 ELSE p
Wrap(p) == IF p >= Size THEN 0 ELSE p

HasRoom_OffByOne == fill_cnt <= Size
HasRoom_OneFree == fill_cnt < Size - 1
HasRoom == fill_cnt < Size

\* RINGBUF_Init leaves the array as the caller handed it over.
Init ==
    /\ buf \in [Slot -> Byte]
    /\ p_r = 0 /\ p_w = 0
    /\ fill_cnt = 0
    /\ last = [op |-> "none", rc |-> 0, byte |-> 0]

RINGBUF_Put(c) ==
    \/ /\ ~HasRoom
       /\ last' = [op |-> "put", rc |-> -1, byte |-> c]
       /\ UNCHANGED <<buf, p_r, p_w, fill_cnt>>
    \/ /\ HasRoom
       /\ fill_cnt' = fill_cnt + 1
       /\ buf' = [buf EXCEPT ![p_w] = c]
       /\ p_w' = Wrap(p_w + 1)
       /\ last' = [op |-> "put", rc |-> 0, byte |-> c]
       /\ UNCHANGED p_r

RINGBUF_Get ==
    \/ /\ fill_cnt <= 0
       /\ last' = [op |-> "get", rc |-> -1, byte |-> 0]
       /\ UNCHANGED <<buf, p_r, p_w, fill_cnt>>
    \/ /\ fill_cnt > 0
       /\ fill_cnt' = fill_cnt - 1
       /\ last' = [op |-> "get", rc |-> 0, byte |-> buf[p_r]]
       /\ p_r' = Wrap(p_r + 1)
       /\ UNCHANGED <<buf, p_w>>

Next == (\E c \in Byte : RINGBUF_Put(c)) \/ RINGBUF_Get

Spec == Init /\ [][Next]_vars

-----------------------------------------------------------------------------
(* Types: both pointers stay inside the array and the count inside its     *)
(* size, so neither handler reads or writes past the caller's buffer.      *)
TypeOK ==
    /\ buf \in [Slot -> Byte]
    /\ p_r \in Slot /\ p_w \in Slot
    /\ fill_cnt \in 0 .. Size
    /\ last \in [op : {"none", "put", "get"}, rc : {0, -1}, byte : Byte \cup {0}]

\* The array read from p_r, without the division the wrap could hide behind.
At(i) == IF p_r + i >= Size THEN p_r + i - Size ELSE p_r + i

(* The write pointer is always fill_cnt slots ahead of the read pointer:   *)
(* the three fields ringbuf.c keeps, and updates separately, agree.        *)
PointersAgree == p_w = IF fill_cnt = Size THEN p_r ELSE At(fill_cnt)

Content == [i \in 1 .. fill_cnt |-> buf[At(i - 1)]]

Fifo == INSTANCE ByteFifo WITH q <- Content

(* RINGBUF_Put and RINGBUF_Get implement the bounded FIFO of bytes that    *)
(* proto.c relies on, with its return codes.                               *)
ImplementsFifo == Fifo!Spec
=============================================================================
