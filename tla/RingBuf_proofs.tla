--------------------------- MODULE RingBuf_proofs ---------------------------
(***************************************************************************)
(* Proofs about RingBuf for every Size and every set of bytes.             *)
(***************************************************************************)
EXTENDS RingBuf, SequenceTheorems, TLAPS

\* A read offset step wraps exactly where the array ends.
LEMMA WrapIsSlot ==
    ASSUME NEW p \in Slot
    PROVE  /\ Wrap(p + 1) \in Slot
           /\ Wrap(p + 1) = IF p = Size - 1 THEN 0 ELSE p + 1
BY SizeAssumption DEF Wrap, Slot

\* Every offset Content reads lies in the array.
LEMMA AtIsSlot ==
    ASSUME p_r \in Slot, NEW i \in 0 .. Size - 1
    PROVE  At(i) \in Slot
BY SizeAssumption DEF At, Slot

\* The typed state in which the pointers agree: the inductive invariant.
IInv == TypeOK /\ PointersAgree

\* The ring starts empty, with both pointers in it.
LEMMA InitIInv == Init => IInv
BY SizeAssumption DEF Init, IInv, TypeOK, PointersAgree, Slot, At

\* RINGBUF_Put, accepted or refused, keeps the pointers in the ring.
LEMMA PutKeepsIInv ==
    ASSUME IInv, NEW c \in Byte, RINGBUF_Put(c)
    PROVE  IInv'
<1>1. CASE ~HasRoom
  BY <1>1 DEF IInv, RINGBUF_Put, HasRoom, TypeOK, PointersAgree, At
<1>2. CASE HasRoom
  <2>1. /\ fill_cnt' = fill_cnt + 1
        /\ buf' = [buf EXCEPT ![p_w] = c]
        /\ p_w' = Wrap(p_w + 1)
        /\ last' = [op |-> "put", rc |-> 0, byte |-> c]
        /\ p_r' = p_r
    BY <1>2 DEF RINGBUF_Put
  <2>2. /\ fill_cnt \in 0 .. Size /\ fill_cnt < Size
        /\ p_r \in Slot /\ p_w \in Slot
    BY <1>2 DEF IInv, TypeOK, HasRoom
  <2>3. TypeOK'
    BY <2>1, <2>2, WrapIsSlot, SizeAssumption DEF IInv, TypeOK
  <2>4. PointersAgree'
    <3>1. p_w = At(fill_cnt)
      BY <2>2, SizeAssumption DEF IInv, PointersAgree
    <3>2. p_w' = IF p_w = Size - 1 THEN 0 ELSE p_w + 1
      BY <2>1, <2>2, WrapIsSlot
    <3>3. CASE fill_cnt + 1 = Size
      BY <3>1, <3>2, <3>3, <2>1, <2>2, SizeAssumption DEF PointersAgree, At, Slot
    <3>4. CASE fill_cnt + 1 < Size
      BY <3>1, <3>2, <3>4, <2>1, <2>2, SizeAssumption DEF PointersAgree, At, Slot
    <3> QED BY <3>3, <3>4, <2>2, SizeAssumption
  <2> QED BY <2>3, <2>4 DEF IInv
<1> QED BY <1>1, <1>2

\* So does RINGBUF_Get.
LEMMA GetKeepsIInv ==
    ASSUME IInv, RINGBUF_Get
    PROVE  IInv'
<1>1. CASE fill_cnt <= 0
  BY <1>1 DEF IInv, RINGBUF_Get, TypeOK, PointersAgree, At
<1>2. CASE fill_cnt > 0
  <2>1. /\ fill_cnt' = fill_cnt - 1
        /\ last' = [op |-> "get", rc |-> 0, byte |-> buf[p_r]]
        /\ p_r' = Wrap(p_r + 1)
        /\ p_w' = p_w /\ buf' = buf
    BY <1>2, SizeAssumption DEF RINGBUF_Get, IInv, TypeOK
  <2>2. /\ fill_cnt \in 0 .. Size /\ fill_cnt > 0
        /\ p_r \in Slot /\ p_w \in Slot
    BY <1>2 DEF IInv, TypeOK
  <2>3. TypeOK'
    <3>1. buf[p_r] \in Byte
      BY <2>2 DEF IInv, TypeOK
    <3> QED BY <3>1, <2>1, <2>2, WrapIsSlot, SizeAssumption DEF IInv, TypeOK
  <2>4. PointersAgree'
    BY <2>1, <2>2, WrapIsSlot, SizeAssumption DEF IInv, PointersAgree, At, Slot
  <2> QED BY <2>3, <2>4 DEF IInv
<1> QED BY <1>1, <1>2, SizeAssumption DEF IInv, TypeOK

\* So every call does.
LEMMA NextKeepsIInv == IInv /\ [Next]_vars => IInv'
<1> SUFFICES ASSUME IInv, [Next]_vars PROVE IInv'
  OBVIOUS
<1>1. CASE \E c \in Byte : RINGBUF_Put(c)
  BY <1>1, PutKeepsIInv
<1>2. CASE RINGBUF_Get
  BY <1>2, GetKeepsIInv
<1>3. CASE UNCHANGED vars
  BY <1>3 DEF vars, IInv, TypeOK, PointersAgree, At
<1> QED BY <1>1, <1>2, <1>3 DEF Next

\* The count and both pointers stay in range and agree with one another:
\* RINGBUF_Put and RINGBUF_Get never index outside the array.
THEOREM PointersCorrect == Spec => []TypeOK /\ []PointersAgree
<1>1. Spec => []IInv
  BY InitIInv, NextKeepsIInv, PTL DEF Spec
<1>2. IInv => TypeOK /\ PointersAgree
  BY DEF IInv
<1> QED BY <1>1, <1>2, PTL

-----------------------------------------------------------------------------
(* Refinement: Content behaves as the abstract queue.                      *)

\* What the ring holds is a sequence of bytes, as long as the fill count.
LEMMA ContentIsSeq ==
    ASSUME IInv
    PROVE  Content \in Seq(Byte) /\ Len(Content) = fill_cnt
<1>1. fill_cnt \in Nat /\ \A i \in 1 .. fill_cnt : buf[At(i - 1)] \in Byte
  BY AtIsSlot, SizeAssumption DEF IInv, TypeOK
<1> QED BY <1>1 DEF Content

\* Storing at p_w appends to Content.
LEMMA PutAppends ==
    ASSUME IInv, NEW c \in Byte, RINGBUF_Put(c), HasRoom
    PROVE  Content' = Append(Content, c)
<1>1. /\ fill_cnt' = fill_cnt + 1
      /\ buf' = [buf EXCEPT ![p_w] = c]
      /\ p_r' = p_r
  BY DEF RINGBUF_Put
<1>2. /\ fill_cnt \in Nat /\ fill_cnt < Size /\ p_r \in Slot /\ p_w \in Slot
      /\ buf \in [Slot -> Byte]
      /\ p_w = At(fill_cnt)
  BY SizeAssumption DEF IInv, TypeOK, HasRoom, PointersAgree
<1>3. /\ Content \in Seq(Byte) /\ Len(Content) = fill_cnt
  BY ContentIsSeq
<1>4. /\ Content' = [i \in 1 .. fill_cnt + 1 |-> buf'[At(i - 1)]]
      /\ \A i \in 1 .. fill_cnt + 1 : buf'[At(i - 1)] \in Byte
  <2>1. Content' = [i \in 1 .. fill_cnt + 1 |-> buf'[At(i - 1)]]
    BY <1>1 DEF Content, At
  <2>2. ASSUME NEW i \in 1 .. fill_cnt + 1
        PROVE  buf'[At(i - 1)] \in Byte
    <3>1. At(i - 1) \in Slot
      BY <1>2, AtIsSlot, SizeAssumption
    <3> QED BY <3>1, <1>1, <1>2
  <2> QED BY <2>1, <2>2
<1>5. ASSUME NEW i \in 1 .. fill_cnt + 1
      PROVE  Content'[i] = Append(Content, c)[i]
  <2>1. Content'[i] = buf'[At(i - 1)]
    BY <1>4
  <2>2. CASE i = fill_cnt + 1
    <3>1. At(i - 1) = p_w
      BY <2>2, <1>2
    <3>2. buf'[p_w] = c
      BY <1>1, <1>2
    <3>3. Append(Content, c)[i] = c
      BY <2>2, <1>3
    <3> QED BY <3>1, <3>2, <3>3, <2>1
  <2>3. CASE i \in 1 .. fill_cnt
    <3>1. At(i - 1) # p_w /\ At(i - 1) \in Slot
      BY <2>3, <1>2, SizeAssumption DEF At, Slot
    <3>2. buf'[At(i - 1)] = buf[At(i - 1)]
      BY <3>1, <1>1, <1>2
    <3>3. Append(Content, c)[i] = Content[i]
      BY <1>3, <2>3
    <3>4. Content[i] = buf[At(i - 1)]
      BY <2>3 DEF Content
    <3> QED BY <3>2, <3>3, <3>4, <2>1
  <2>4. fill_cnt \in Nat
    BY <1>2
  <2>5. i = fill_cnt + 1 \/ i \in 1 .. fill_cnt
    BY <2>4
  <2> QED BY <2>2, <2>3, <2>5
<1>6. Content' \in Seq(Byte) /\ Len(Content') = fill_cnt + 1
  BY <1>4, <1>2
<1>7. Append(Content, c) \in Seq(Byte) /\ Len(Append(Content, c)) = fill_cnt + 1
  BY <1>3
<1> HIDE DEF Content
<1> QED BY <1>5, <1>6, <1>7, SeqEqual

\* Advancing p_r drops the head of Content.
LEMMA GetTakesHead ==
    ASSUME IInv, RINGBUF_Get, fill_cnt > 0
    PROVE  /\ Content # <<>>
           /\ buf[p_r] = Head(Content)
           /\ Content' = Tail(Content)
<1>1. /\ fill_cnt' = fill_cnt - 1
      /\ p_r' = Wrap(p_r + 1)
      /\ buf' = buf
  BY SizeAssumption DEF RINGBUF_Get, IInv, TypeOK
<1>2. /\ fill_cnt \in 1 .. Size /\ p_r \in Slot
  BY SizeAssumption DEF IInv, TypeOK
<1>3. /\ Content \in Seq(Byte) /\ Len(Content) = fill_cnt
  BY ContentIsSeq
<1>4. Content # <<>> /\ buf[p_r] = Head(Content)
  <2>1. At(0) = p_r
    BY <1>2, SizeAssumption DEF At, Slot
  <2>2. Content[1] = buf[At(0)]
    BY <1>2 DEF Content
  <2> QED BY <2>1, <2>2, <1>2, <1>3
<1>5. /\ Content' \in Seq(Byte) /\ Len(Content') = fill_cnt - 1
      /\ \A i \in 1 .. fill_cnt - 1 : Content'[i] = buf[At(i)]
  <2>1. ASSUME NEW i \in 1 .. fill_cnt - 1
        PROVE  /\ At(i - 1)' = At(i)
               /\ buf[At(i)] \in Byte
    <3>1. At(i - 1)' = At(i)
      BY <1>1, <1>2, WrapIsSlot, SizeAssumption DEF At, Slot
    <3>2. At(i) \in Slot
      BY <1>2, AtIsSlot, SizeAssumption
    <3> QED BY <3>1, <3>2 DEF IInv, TypeOK
  <2>2. Content' = [i \in 1 .. fill_cnt - 1 |-> buf[At(i - 1)']]
    BY <1>1 DEF Content
  <2>3. Content' = [i \in 1 .. fill_cnt - 1 |-> buf[At(i)]]
    BY <2>1, <2>2
  <2> QED BY <2>1, <2>3, <1>2
<1>6. ASSUME NEW i \in 1 .. fill_cnt - 1
      PROVE  Tail(Content)[i] = buf[At(i)]
  <2>1. Tail(Content)[i] = Content[i + 1]
    BY <1>2, <1>3
  <2>2. Content[i + 1] = buf[At(i)]
    BY <1>2 DEF Content
  <2> QED BY <2>1, <2>2
<1>7. Tail(Content) \in Seq(Byte) /\ Len(Tail(Content)) = fill_cnt - 1
  BY <1>2, <1>3, <1>4
<1>8. Content' = Tail(Content)
  <2> HIDE DEF Content
  <2> QED BY <1>5, <1>6, <1>7, SeqEqual
<1> QED BY <1>4, <1>8

\* Every call of the ring is a call of the FIFO with the same return code.
LEMMA NextImplementsFifo ==
    IInv /\ IInv' /\ [Next]_vars => [Fifo!Next]_(Fifo!vars)
<1> SUFFICES ASSUME IInv, IInv', [Next]_vars
             PROVE  [Fifo!Next]_(Fifo!vars)
  OBVIOUS
<1>0. /\ Content \in Seq(Byte) /\ Len(Content) = fill_cnt /\ fill_cnt \in 0 .. Size
  BY ContentIsSeq DEF IInv, TypeOK
<1>1. ASSUME NEW c \in Byte, RINGBUF_Put(c)
      PROVE  Fifo!Put(c) \/ Fifo!PutFull(c)
  <2>1. CASE ~HasRoom
    <3>1. Content' = Content /\ last' = [op |-> "put", rc |-> -1, byte |-> c]
      BY <1>1, <2>1 DEF RINGBUF_Put, Content, At
    <3>2. Len(Content) = Size
      BY <2>1, <1>0, SizeAssumption DEF HasRoom
    <3> QED BY <3>1, <3>2 DEF Fifo!PutFull
  <2>2. CASE HasRoom
    BY <1>1, <2>2, <1>0, PutAppends DEF RINGBUF_Put, HasRoom, Fifo!Put
  <2> QED BY <2>1, <2>2
<1>2. ASSUME RINGBUF_Get
      PROVE  Fifo!Get \/ Fifo!GetEmpty
  <2>1. CASE fill_cnt <= 0
    <3>1. Content' = Content /\ last' = [op |-> "get", rc |-> -1, byte |-> 0]
      BY <1>2, <2>1, <1>0, SizeAssumption DEF RINGBUF_Get, Content, At
    <3>2. Content = <<>>
      BY <2>1, <1>0
    <3> QED BY <3>1, <3>2 DEF Fifo!GetEmpty
  <2>2. CASE fill_cnt > 0
    <3>1. last' = [op |-> "get", rc |-> 0, byte |-> buf[p_r]]
      BY <1>2, <2>2, <1>0 DEF RINGBUF_Get
    <3>2. /\ Content # <<>>
          /\ buf[p_r] = Head(Content)
          /\ Content' = Tail(Content)
      BY <1>2, <2>2, GetTakesHead
    <3> QED BY <3>1, <3>2 DEF Fifo!Get
  <2> QED BY <2>1, <2>2, <1>0
<1>3. ASSUME UNCHANGED vars
      PROVE  UNCHANGED Fifo!vars
  BY <1>3 DEF vars, Fifo!vars, Content, At
<1> QED BY <1>1, <1>2, <1>3 DEF Next, Fifo!Next

\* The pointer ring implements the bounded FIFO of bytes, for every size and
\* every sequence of calls.
THEOREM RingImplementsFifo == Spec => ImplementsFifo
<1>1. Init => Fifo!Init
  <2>1. Init => Content = <<>>
    BY DEF Init, Content
  <2> QED BY <2>1 DEF Init, Fifo!Init, Fifo!NoCall
<1>2. Spec => []IInv
  BY InitIInv, NextKeepsIInv, PTL DEF Spec
<1> QED BY <1>1, <1>2, NextImplementsFifo, PTL DEF Spec, ImplementsFifo, Fifo!Spec

\* Types alone: the fill count never exceeds the size, and neither pointer
\* leaves the array.
THEOREM PointersInRange == Spec => []TypeOK
BY PointersCorrect, PTL
=============================================================================
