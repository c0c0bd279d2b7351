-------------------------- MODULE MsgQueue_proofs --------------------------
(***************************************************************************)
(* Proofs about MsgQueue, for every ring size, every buffer and every set  *)
(* of messages that fit the buffer: frames stay apart in the ring, and the *)
(* ring implements the lossy FIFO of messages.                             *)
(***************************************************************************)
EXTENDS MsgQueue, SequenceTheorems, WellFoundedInduction, TLAPS

-----------------------------------------------------------------------------
(* A set of natural numbers has a least element ...                        *)
LEMMA Least ==
    ASSUME NEW T \in SUBSET Nat, T # {}
    PROVE  \E m \in T : \A n \in T : m <= n
<1>1. \A x, y \in Nat : x < y => <<x, y>> \in OpToRel(<, Nat)
  BY Zenon DEF OpToRel
<1>2. \E x \in T : \A y \in T : ~ (<<y, x>> \in OpToRel(<, Nat))
  BY WFMin, NatLessThanWellFounded, Zenon
<1>3. \E x \in T : \A y \in T : ~ (y < x)
  BY <1>1, <1>2, Zenon
<1> QED BY <1>3

(* ... so one that holds 0 and each successor holds all of them.           *)
LEMMA Induction ==
    ASSUME NEW S, 0 \in S, \A n \in Nat : n \in S => n + 1 \in S
    PROVE  Nat \subseteq S
<1>1. CASE Nat \ S # {}
  <2>1. PICK m \in Nat \ S : \A n \in Nat \ S : m <= n
    BY <1>1, Least
  <2>2. m - 1 \in Nat /\ m - 1 \in S
    BY <2>1
  <2> QED BY <2>1, <2>2
<1> QED BY <1>1

(* A set of sequences that is closed under Append and holds the empty one  *)
(* holds all of them.                                                      *)
LEMMA SequenceInduction ==
    ASSUME NEW T, NEW S, <<>> \in S,
           \A b \in Seq(T) : \A c \in T : b \in S => Append(b, c) \in S
    PROVE  Seq(T) \subseteq S
<1> DEFINE N == {n \in Nat : \A b \in Seq(T) : Len(b) = n => b \in S}
<1>1. 0 \in N
  <2>1. \A b \in Seq(T) : Len(b) = 0 => b = <<>>
    OBVIOUS
  <2> QED BY <2>1
<1>2. ASSUME NEW n \in Nat, n \in N PROVE n + 1 \in N
  <2> SUFFICES ASSUME NEW b \in Seq(T), Len(b) = n + 1 PROVE b \in S
    OBVIOUS
  <2> DEFINE f == SubSeq(b, 1, n)
             c == b[n + 1]
  <2>1. f \in Seq(T) /\ Len(f) = n /\ c \in T /\ (\A i \in 1 .. n : f[i] = b[i])
    BY SubSeqProperties
  <2>2. f \in S
    BY <1>2, <2>1
  <2>3. Append(f, c) = b
    <3> HIDE DEF f, c
    <3>1. Append(f, c) \in Seq(T) /\ Len(Append(f, c)) = n + 1
      BY <2>1
    <3>2. ASSUME NEW i \in 1 .. n + 1 PROVE Append(f, c)[i] = b[i]
      <4>1. CASE i = n + 1
        BY <4>1, <2>1 DEF c
      <4>2. CASE i \in 1 .. n
        BY <4>2, <2>1
      <4>3. i = n + 1 \/ i \in 1 .. n
        OBVIOUS
      <4> QED BY <4>1, <4>2, <4>3, Zenon
    <3> QED BY <3>1, <3>2, SeqEqual
  <2> QED BY <2>1, <2>2, <2>3
<1>3. Nat \subseteq N
  <2> HIDE DEF N
  <2> QED BY <1>1, <1>2, Induction
<1> QED BY <1>3

-----------------------------------------------------------------------------
(* Recursion along a sequence.  f starts at s and takes the step F for each *)
(* element of b; the condition is what is known of a recursive function     *)
(* before it is known to stay in D.                                         *)
Runs(D, F, s, b, f) ==
    /\ f[0] = s
    /\ \A i \in 1 .. Len(b) : f[i - 1] \in D => f[i] = F[<<f[i - 1], b[i]>>]

\* F steps within D along sequences over T.
Steps(D, T, F) == F \in [D \X T -> D]

(* There is such a function.                                               *)
LEMMA RunExists ==
    ASSUME NEW D, NEW T, NEW F, Steps(D, T, F), NEW s \in D, NEW b \in Seq(T)
    PROVE  \E f \in [0 .. Len(b) -> D] :
              /\ f[0] = s
              /\ \A i \in 1 .. Len(b) : f[i] = F[<<f[i - 1], b[i]>>]
<1> USE DEF Steps
<1> DEFINE S == {k \in Nat : k <= Len(b) =>
                   \E f \in [0 .. k -> D] :
                      /\ f[0] = s
                      /\ \A i \in 1 .. k : f[i] = F[<<f[i - 1], b[i]>>]}
<1>1. 0 \in S
  <2>1. [i \in 0 .. 0 |-> s] \in [0 .. 0 -> D] /\ [i \in 0 .. 0 |-> s][0] = s
    OBVIOUS
  <2>2. \A i \in 1 .. 0 : FALSE
    OBVIOUS
  <2> QED BY <2>1, <2>2
<1>2. ASSUME NEW k \in Nat, k \in S PROVE k + 1 \in S
  <2> SUFFICES ASSUME k + 1 <= Len(b)
               PROVE  \E f \in [0 .. k + 1 -> D] :
                         /\ f[0] = s
                         /\ \A i \in 1 .. k + 1 : f[i] = F[<<f[i - 1], b[i]>>]
    OBVIOUS
  <2>1. PICK f \in [0 .. k -> D] :
               /\ f[0] = s
               /\ \A i \in 1 .. k : f[i] = F[<<f[i - 1], b[i]>>]
    BY <1>2
  <2> DEFINE x == F[<<f[k], b[k + 1]>>]
             g == [i \in 0 .. k + 1 |-> IF i <= k THEN f[i] ELSE x]
  <2>2. x \in D
    BY <2>1
  <2>3. g[k + 1] = x /\ \A i \in 0 .. k : g[i] = f[i]
    OBVIOUS
  <2>4. g \in [0 .. k + 1 -> D]
    <3> HIDE DEF x
    <3> QED BY <2>1, <2>2
  <2> HIDE DEF g
  <2>5. \A i \in 1 .. k + 1 : g[i] = F[<<g[i - 1], b[i]>>]
    <3> SUFFICES ASSUME NEW i \in 1 .. k + 1 PROVE g[i] = F[<<g[i - 1], b[i]>>]
      OBVIOUS
    <3>1. CASE i = k + 1
      <4>1. i - 1 = k /\ k \in 0 .. k
        BY <3>1
      <4> QED BY <3>1, <4>1, <2>3
    <3>2. CASE i # k + 1
      <4>1. i \in 1 .. k /\ i \in 0 .. k /\ i - 1 \in 0 .. k
        BY <3>2
      <4> QED BY <4>1, <2>1, <2>3
    <3> QED BY <3>1, <3>2
  <2>6. g[0] = s
    BY <2>1, <2>3
  <2> QED BY <2>4, <2>5, <2>6
<1>3. Nat \subseteq S
  <2> HIDE DEF S
  <2> QED BY <1>1, <1>2, Induction
<1> QED BY <1>3

\* f runs along a, and g along b, which is a with more behind it.
TwoRuns(D, T, F, s, a, b, f, g) ==
    /\ F \in [D \X T -> D] /\ s \in D /\ a \in Seq(T) /\ b \in Seq(T)
    /\ Runs(D, F, s, a, f) /\ Runs(D, F, s, b, g)
    /\ Len(a) <= Len(b) /\ \A i \in 1 .. Len(a) : b[i] = a[i]

(* f never leaves D, and g agrees with it as far as a goes.                *)
LEMMA RunsAgree ==
    ASSUME NEW D, NEW T, NEW F, NEW s, NEW a, NEW b, NEW f, NEW g,
           TwoRuns(D, T, F, s, a, b, f, g)
    PROVE  \A i \in 0 .. Len(a) : f[i] \in D /\ g[i] = f[i]
<1> USE DEF TwoRuns
<1> DEFINE S == {k \in Nat : k <= Len(a) => f[k] \in D /\ g[k] = f[k]}
<1>1. 0 \in S
  BY DEF Runs
<1>2. ASSUME NEW k \in Nat, k \in S PROVE k + 1 \in S
  <2> SUFFICES ASSUME k + 1 <= Len(a) PROVE f[k + 1] \in D /\ g[k + 1] = f[k + 1]
    OBVIOUS
  <2>0. Len(a) <= Len(b) /\ \A i \in 1 .. Len(a) : b[i] = a[i]
    OBVIOUS
  <2>1. /\ f[k] \in D /\ g[k] = f[k]
        /\ k + 1 \in 1 .. Len(a) /\ k + 1 \in 1 .. Len(b) /\ (k + 1) - 1 = k
    BY <1>2, <2>0
  <2>2. f[k + 1] = F[<<f[k], a[k + 1]>>]
    BY <2>1 DEF Runs
  <2>3. g[k + 1] = F[<<f[k], b[k + 1]>>]
    BY <2>1 DEF Runs
  <2>4. a[k + 1] \in T /\ b[k + 1] = a[k + 1]
    BY <2>0, <2>1
  <2> QED BY <2>1, <2>2, <2>3, <2>4
<1>3. Nat \subseteq S
  <2> HIDE DEF S
  <2> QED BY <1>1, <1>2, Induction
<1> QED BY <1>3

(* One more element is one more step.                                      *)
LEMMA RunsGoOn ==
    ASSUME NEW D, NEW T, NEW F, Steps(D, T, F), NEW s \in D,
           NEW a \in Seq(T), NEW c \in T, NEW f, NEW g,
           Runs(D, F, s, a, f), Runs(D, F, s, Append(a, c), g)
    PROVE  f[Len(a)] \in D /\ g[Len(a) + 1] = F[<<f[Len(a)], c>>]
<1> DEFINE b == Append(a, c)
<1>1. /\ b \in Seq(T) /\ Len(b) = Len(a) + 1 /\ Len(a) \in Nat
      /\ b[Len(a) + 1] = c /\ \A i \in 1 .. Len(a) : b[i] = a[i]
  OBVIOUS
<1>2. Runs(D, F, s, b, g)
  OBVIOUS
<1> HIDE DEF b
<1>3. \A i \in 0 .. Len(a) : f[i] \in D /\ g[i] = f[i]
  <2>1. TwoRuns(D, T, F, s, a, b, f, g)
    BY <1>1, <1>2 DEF TwoRuns, Steps
  <2> QED BY <2>1, RunsAgree
<1>4. Len(a) \in 0 .. Len(a) /\ Len(a) + 1 \in 1 .. Len(b) /\ (Len(a) + 1) - 1 = Len(a)
  BY <1>1
<1>5. f[Len(a)] \in D /\ g[Len(a)] = f[Len(a)]
  BY <1>3, <1>4
<1>6. g[Len(a) + 1] = F[<<g[Len(a)], b[Len(a) + 1]>>]
  BY <1>2, <1>4, <1>5 DEF Runs
<1> QED BY <1>1, <1>5, <1>6

-----------------------------------------------------------------------------
(* The three recursions of MsgQueue, one byte at a time: escaping, parsing *)
(* and reading.                                                            *)

\* A byte, or what a flipped bit makes of one.
Plain == Byte \cup {Xor20(c) : c \in Byte}

Parser == [data : Seq(Plain), isEsc : {0, 1}, isBegin : {0, 1}, done : BOOLEAN]

Reader == [messages : Seq(Seq(Plain)), body : Seq(Plain), isEsc : {0, 1}]

(* A byte is escaped as one byte or two.                                   *)
LEMMA EscapeByteType == \A c \in Byte : EscapeByte(c) \in Seq(Byte)
<1> SUFFICES ASSUME NEW c \in Byte PROVE EscapeByte(c) \in Seq(Byte)
  OBVIOUS
<1>1. CASE c \in {ESC, BEG, END}
  <2>1. ESC \in Byte /\ Xor20(c) \in Byte
    BY <1>1, ByteAssumption
  <2> DEFINE x == Xor20(c)
             e == ESC
  <2>2. EscapeByte(c) = <<e, x>>
    BY <1>1 DEF EscapeByte
  <2>3. e \in Byte /\ x \in Byte
    BY <2>1
  <2> HIDE DEF x, e
  <2> QED BY <2>2, <2>3
<1>2. CASE c \notin {ESC, BEG, END}
  BY <1>2 DEF EscapeByte
<1> QED BY <1>1, <1>2

(* The three bytes that mean something are distinct.                       *)
LEMMA Distinct == BEG # END /\ BEG # ESC /\ END # ESC
BY DEF BEG, END, ESC

\* What a byte of a message stands for, after an ESC or not.
Meant(isEsc, c) == IF isEsc = 1 THEN Xor20(c) ELSE c

(* A byte stands for itself or for the byte with one bit flipped.          *)
LEMMA MeantType == \A e, c : c \in Byte => Meant(e, c) \in Plain
BY DEF Meant, Plain

(* What each kind of byte does to a parser ...                             *)
LEMMA ParserCases ==
    ASSUME NEW p \in Parser, NEW c \in Byte
    PROVE  /\ c = ESC => PROTO_ParseByte(p, c) = [p EXCEPT !.isEsc = 1]
           /\ c = BEG => PROTO_ParseByte(p, c) = [p EXCEPT !.data = <<>>, !.isEsc = 0, !.isBegin = 1]
           /\ c = END => PROTO_ParseByte(p, c) = [p EXCEPT !.isBegin = 0, !.done = TRUE]
           /\ c \notin {ESC, BEG, END} /\ p.isBegin = 0 => PROTO_ParseByte(p, c) = p
           /\ c \notin {ESC, BEG, END} /\ p.isBegin # 0 /\ Len(p.data) < BufSize =>
                PROTO_ParseByte(p, c) =
                  [p EXCEPT !.isEsc = 0, !.data = Append(p.data, Meant(p.isEsc, c))]
           /\ c \notin {ESC, BEG, END} /\ p.isBegin # 0 /\ ~(Len(p.data) < BufSize) =>
                PROTO_ParseByte(p, c) = [p EXCEPT !.isEsc = 0, !.data = p.data]
<1>1. c = ESC => PROTO_ParseByte(p, c) = [p EXCEPT !.isEsc = 1]
  BY Distinct, Zenon DEF PROTO_ParseByte
<1>2. c = BEG => PROTO_ParseByte(p, c) = [p EXCEPT !.data = <<>>, !.isEsc = 0, !.isBegin = 1]
  BY Distinct, Zenon DEF PROTO_ParseByte
<1>3. c = END => PROTO_ParseByte(p, c) = [p EXCEPT !.isBegin = 0, !.done = TRUE]
  BY Distinct, Zenon DEF PROTO_ParseByte
<1>4. c \notin {ESC, BEG, END} /\ p.isBegin = 0 => PROTO_ParseByte(p, c) = p
  BY Zenon DEF PROTO_ParseByte
<1>5. c \notin {ESC, BEG, END} /\ p.isBegin # 0 =>
        PROTO_ParseByte(p, c) =
          [p EXCEPT !.isEsc = 0,
                    !.data = IF Len(@) < BufSize THEN Append(@, Meant(p.isEsc, c)) ELSE @]
  BY Zenon DEF PROTO_ParseByte, Meant
<1> QED BY <1>1, <1>2, <1>3, <1>4, <1>5, Zenon

(* ... and to a reader.                                                    *)
LEMMA ReaderCases ==
    ASSUME NEW r \in Reader, NEW c \in Byte
    PROVE  /\ c = ESC => ReadByte(r, c) = [r EXCEPT !.isEsc = 1]
           /\ c = BEG => ReadByte(r, c) = [r EXCEPT !.body = <<>>, !.isEsc = 0]
           /\ c = END => ReadByte(r, c) = [messages |-> Append(r.messages, r.body),
                                          body |-> <<>>, isEsc |-> 0]
           /\ c \notin {ESC, BEG, END} =>
                ReadByte(r, c) = [r EXCEPT !.body = Append(r.body, Meant(r.isEsc, c)), !.isEsc = 0]
<1>1. c = ESC => ReadByte(r, c) = [r EXCEPT !.isEsc = 1]
  BY Distinct, Zenon DEF ReadByte
<1>2. c = BEG => ReadByte(r, c) = [r EXCEPT !.body = <<>>, !.isEsc = 0]
  BY Distinct, Zenon DEF ReadByte
<1>3. c = END => ReadByte(r, c) = [messages |-> Append(r.messages, r.body),
                                   body |-> <<>>, isEsc |-> 0]
  BY Distinct, Zenon DEF ReadByte
<1>4. c \notin {ESC, BEG, END} =>
        ReadByte(r, c) = [r EXCEPT !.body = Append(@, Meant(r.isEsc, c)), !.isEsc = 0]
  BY Zenon DEF ReadByte, Meant
<1> QED BY <1>1, <1>2, <1>3, <1>4, Zenon

(* The parser stays a parser.                                              *)
LEMMA ParseByteType ==
    \A p \in Parser, c \in Byte : PROTO_ParseByte(p, c) \in Parser
<1> SUFFICES ASSUME NEW p \in Parser, NEW c \in Byte
             PROVE  PROTO_ParseByte(p, c) \in Parser
  OBVIOUS
<1> DEFINE x == Meant(p.isEsc, c)
<1>1. x \in Plain
  BY MeantType, Zenon
<1>2. PICK q : q = PROTO_ParseByte(p, c)
  OBVIOUS
<1>3. /\ c = ESC => q = [p EXCEPT !.isEsc = 1]
      /\ c = BEG => q = [p EXCEPT !.data = <<>>, !.isEsc = 0, !.isBegin = 1]
      /\ c = END => q = [p EXCEPT !.isBegin = 0, !.done = TRUE]
      /\ c \notin {ESC, BEG, END} /\ p.isBegin = 0 => q = p
      /\ c \notin {ESC, BEG, END} /\ p.isBegin # 0 /\ Len(p.data) < BufSize =>
           q = [p EXCEPT !.isEsc = 0, !.data = Append(p.data, x)]
      /\ c \notin {ESC, BEG, END} /\ p.isBegin # 0 /\ ~(Len(p.data) < BufSize) =>
           q = [p EXCEPT !.isEsc = 0, !.data = p.data]
  BY <1>2, ParserCases, Zenon
<1> HIDE DEF x
<1>4. q \in Parser
  <2>1. CASE c \in {ESC, BEG, END}
    <3>1. CASE c = ESC
      BY <1>3, <3>1 DEF Parser
    <3>2. CASE c = BEG
      <4> DEFINE e == <<>>
      <4>1. q = [p EXCEPT !.data = e, !.isEsc = 0, !.isBegin = 1] /\ e \in Seq(Plain)
        BY <1>3, <3>2
      <4> HIDE DEF e
      <4> QED BY <4>1 DEF Parser
    <3>3. CASE c = END
      BY <1>3, <3>3 DEF Parser
    <3> QED BY <2>1, <3>1, <3>2, <3>3, Zenon
  <2>2. CASE c \notin {ESC, BEG, END} /\ p.isBegin = 0
    BY <1>3, <2>2
  <2>3. CASE c \notin {ESC, BEG, END} /\ p.isBegin # 0 /\ Len(p.data) < BufSize
    <3>1. Append(p.data, x) \in Seq(Plain)
      BY <1>1 DEF Parser
    <3> DEFINE d == Append(p.data, x)
    <3>2. q = [p EXCEPT !.isEsc = 0, !.data = d]
      BY <1>3, <2>3
    <3> HIDE DEF d
    <3> QED BY <3>1, <3>2 DEF Parser, d
  <2>4. CASE c \notin {ESC, BEG, END} /\ p.isBegin # 0 /\ ~(Len(p.data) < BufSize)
    BY <1>3, <2>4 DEF Parser
  <2> QED BY <2>1, <2>2, <2>3, <2>4, Zenon
<1> QED BY <1>2, <1>4

(* The reader stays a reader.                                              *)
LEMMA ReadByteType ==
    \A r \in Reader, c \in Byte : ReadByte(r, c) \in Reader
<1> SUFFICES ASSUME NEW r \in Reader, NEW c \in Byte
             PROVE  ReadByte(r, c) \in Reader
  OBVIOUS
<1> DEFINE x == Meant(r.isEsc, c)
<1>1. x \in Plain
  BY MeantType, Zenon
<1>2. PICK q : q = ReadByte(r, c)
  OBVIOUS
<1>3. /\ c = ESC => q = [r EXCEPT !.isEsc = 1]
      /\ c = BEG => q = [r EXCEPT !.body = <<>>, !.isEsc = 0]
      /\ c = END => q = [messages |-> Append(r.messages, r.body),
                        body |-> <<>>, isEsc |-> 0]
      /\ c \notin {ESC, BEG, END} =>
           q = [r EXCEPT !.body = Append(r.body, x), !.isEsc = 0]
  BY <1>2, ReaderCases, Zenon
<1> HIDE DEF x
<1>4. q \in Reader
  <2> DEFINE d == Append(r.body, x)
             n == Append(r.messages, r.body)
             e == <<>>
  <2>1. d \in Seq(Plain) /\ n \in Seq(Seq(Plain)) /\ e \in Seq(Plain)
    BY <1>1 DEF Reader
  <2>2. /\ c = END => q = [messages |-> n, body |-> e, isEsc |-> 0]
        /\ c = BEG => q = [r EXCEPT !.body = e, !.isEsc = 0]
        /\ c \notin {ESC, BEG, END} => q = [r EXCEPT !.body = d, !.isEsc = 0]
    BY <1>3
  <2> HIDE DEF d, n, e
  <2>3. CASE c = ESC
    BY <1>3, <2>3 DEF Reader
  <2>4. CASE c = BEG
    BY <2>1, <2>2, <2>4 DEF Reader
  <2>5. CASE c = END
    BY <2>1, <2>2, <2>5 DEF Reader
  <2>6. CASE c \notin {ESC, BEG, END}
    BY <2>1, <2>2, <2>6 DEF Reader
  <2> QED BY <2>3, <2>4, <2>5, <2>6, Zenon
<1> QED BY <1>2, <1>4

\* The step of the parser and of the reader as functions.
ParseStep == [x \in Parser \X Byte |-> PROTO_ParseByte(x[1], x[2])]
ReadStep == [x \in Reader \X Byte |-> ReadByte(x[1], x[2])]

(* A byte steps a parser to a parser and a reader to a reader.             *)
LEMMA StepsAreSteps ==
    /\ Steps(Parser, Byte, ParseStep) /\ Steps(Reader, Byte, ReadStep)
    /\ \A p \in Parser, c \in Byte : ParseStep[<<p, c>>] = PROTO_ParseByte(p, c)
    /\ \A r \in Reader, c \in Byte : ReadStep[<<r, c>>] = ReadByte(r, c)
<1> DEFINE P(x, c) == PROTO_ParseByte(x, c)
           R(x, c) == ReadByte(x, c)
<1>1. \A p \in Parser, c \in Byte : P(p, c) \in Parser
  BY ParseByteType
<1>2. \A r \in Reader, c \in Byte : R(r, c) \in Reader
  BY ReadByteType
<1>3. ParseStep = [x \in Parser \X Byte |-> P(x[1], x[2])]
  BY DEF ParseStep
<1>4. ReadStep = [x \in Reader \X Byte |-> R(x[1], x[2])]
  BY DEF ReadStep
<1> HIDE DEF P, R, Parser, Reader
<1>5. Steps(Parser, Byte, ParseStep) /\ Steps(Reader, Byte, ReadStep)
  BY <1>1, <1>2, <1>3, <1>4 DEF Steps
<1>6. /\ \A p \in Parser, c \in Byte : ParseStep[<<p, c>>] = P(p, c)
      /\ \A r \in Reader, c \in Byte : ReadStep[<<r, c>>] = R(r, c)
  BY <1>3, <1>4
<1> QED BY <1>5, <1>6 DEF P, R

(* ReadFrom runs its step along the bytes.                                 *)
LEMMA ReadRuns ==
    ASSUME NEW r \in Reader, NEW b \in Seq(Byte)
    PROVE  \E f : ReadFrom(r, b) = f[Len(b)] /\ Runs(Reader, ReadStep, r, b, f)
<1> DEFINE D == Reader
           Body(f) == [i \in 0 .. Len(b) |->
                         IF i = 0 THEN r ELSE ReadByte(f[i - 1], b[i])]
<1>0. Steps(D, Byte, ReadStep) /\ r \in D
  BY StepsAreSteps
<1> HIDE DEF D
<1>1. PICK g \in [0 .. Len(b) -> D] :
            /\ g[0] = r
            /\ \A i \in 1 .. Len(b) : g[i] = ReadStep[<<g[i - 1], b[i]>>]
  BY <1>0, RunExists
<1>2. ASSUME NEW i \in 0 .. Len(b)
      PROVE  g[i] = IF i = 0 THEN r ELSE ReadByte(g[i - 1], b[i])
  <2>1. CASE i = 0
    BY <1>1, <2>1
  <2>2. CASE i # 0
    <3>1. i \in 1 .. Len(b) /\ i - 1 \in 0 .. Len(b)
      BY <2>2
    <3>2. g[i - 1] \in D /\ b[i] \in Byte
      BY <1>1, <3>1
    <3>3. ReadStep[<<g[i - 1], b[i]>>] = ReadByte(g[i - 1], b[i])
      BY <3>2, StepsAreSteps, Zenon DEF D
    <3> QED BY <1>1, <2>2, <3>1, <3>3, Zenon
  <2> QED BY <2>1, <2>2
<1>3. g = Body(g)
  <2>1. g = [i \in 0 .. Len(b) |-> g[i]]
    BY <1>1
  <2> QED BY <2>1, <1>2, Zenon
<1>4. \E f : f = Body(f) /\ ReadFrom(r, b) = f[Len(b)]
  BY <1>3, Zenon DEF ReadFrom
<1>5. PICK f : f = Body(f) /\ ReadFrom(r, b) = f[Len(b)]
  BY <1>4
<1>6. \A i \in 0 .. Len(b) : f[i] = IF i = 0 THEN r ELSE ReadByte(f[i - 1], b[i])
  BY <1>5, Zenon
<1> HIDE DEF Body
<1>7. ASSUME NEW i \in 1 .. Len(b), f[i - 1] \in Reader
      PROVE  f[i] = ReadStep[<<f[i - 1], b[i]>>]
  <2>1. i \in 0 .. Len(b) /\ i # 0 /\ b[i] \in Byte
    OBVIOUS
  <2>2. f[i] = ReadByte(f[i - 1], b[i])
    BY <1>6, <2>1, Zenon
  <2> QED BY <1>7, <2>1, <2>2, StepsAreSteps, Zenon
<1>8. f[0] = r
  <2>1. 0 \in 0 .. Len(b)
    OBVIOUS
  <2> QED BY <1>6, <2>1, Zenon
<1> QED BY <1>5, <1>7, <1>8, Zenon DEF Runs

(* Reading nothing ...                                                     *)
LEMMA ReadNothing == \A r \in Reader : ReadFrom(r, <<>>) = r
<1> SUFFICES ASSUME NEW r \in Reader PROVE ReadFrom(r, <<>>) = r
  OBVIOUS
<1>1. <<>> \in Seq(Byte) /\ Len(<<>>) = 0
  OBVIOUS
<1>2. PICK f : ReadFrom(r, <<>>) = f[Len(<<>>)] /\ Runs(Reader, ReadStep, r, <<>>, f)
  BY <1>1, ReadRuns
<1> QED BY <1>1, <1>2 DEF Runs

(* ... and one byte more.                                                  *)
LEMMA ReadOneMore ==
    ASSUME NEW r \in Reader, NEW b \in Seq(Byte), NEW c \in Byte
    PROVE  /\ ReadFrom(r, b) \in Reader
           /\ ReadFrom(r, Append(b, c)) = ReadByte(ReadFrom(r, b), c)
<1> DEFINE a == Append(b, c)
           D == Reader
<1>1. a \in Seq(Byte) /\ Len(a) = Len(b) + 1
  OBVIOUS
<1>2. PICK f : ReadFrom(r, b) = f[Len(b)] /\ Runs(D, ReadStep, r, b, f)
  BY ReadRuns
<1>3. PICK g : ReadFrom(r, a) = g[Len(a)] /\ Runs(D, ReadStep, r, a, g)
  <2> HIDE DEF a
  <2> QED BY <1>1, ReadRuns
<1>4. r \in D /\ Steps(D, Byte, ReadStep)
  BY StepsAreSteps
<1> HIDE DEF D
<1>5. f[Len(b)] \in D /\ g[Len(b) + 1] = ReadStep[<<f[Len(b)], c>>]
  BY <1>2, <1>3, <1>4, RunsGoOn
<1>6. ReadStep[<<f[Len(b)], c>>] = ReadByte(f[Len(b)], c)
  BY <1>5, StepsAreSteps, Zenon DEF D
<1>7. ReadFrom(r, a) = ReadByte(ReadFrom(r, b), c) /\ ReadFrom(r, b) \in Reader
  BY <1>1, <1>2, <1>3, <1>5, <1>6, Zenon DEF D
<1> QED BY <1>7

(* PROTO_Init makes a parser, whatever isBegin was.                        *)
LEMMA ParserInit == \A garbage \in {0, 1} : PROTO_Init(garbage) \in Parser
BY DEF PROTO_Init, Parser

(* Parse runs its step along the bytes.                                    *)
LEMMA ParseRuns ==
    ASSUME NEW garbage \in {0, 1}, NEW b \in Seq(Byte)
    PROVE  \E f : Parse(b, garbage) = f[Len(b)] /\ Runs(Parser, ParseStep, PROTO_Init(garbage), b, f)
<1> DEFINE D == Parser
           Body(f) == [i \in 0 .. Len(b) |->
                         IF i = 0 THEN PROTO_Init(garbage) ELSE PROTO_ParseByte(f[i - 1], b[i])]
<1>0. Steps(D, Byte, ParseStep) /\ PROTO_Init(garbage) \in D
  BY StepsAreSteps, ParserInit
<1> HIDE DEF D
<1>1. PICK g \in [0 .. Len(b) -> D] :
            /\ g[0] = PROTO_Init(garbage)
            /\ \A i \in 1 .. Len(b) : g[i] = ParseStep[<<g[i - 1], b[i]>>]
  BY <1>0, RunExists
<1>2. ASSUME NEW i \in 0 .. Len(b)
      PROVE  g[i] = IF i = 0 THEN PROTO_Init(garbage) ELSE PROTO_ParseByte(g[i - 1], b[i])
  <2>1. CASE i = 0
    BY <1>1, <2>1
  <2>2. CASE i # 0
    <3>1. i \in 1 .. Len(b) /\ i - 1 \in 0 .. Len(b)
      BY <2>2
    <3>2. g[i - 1] \in D /\ b[i] \in Byte
      BY <1>1, <3>1
    <3>3. ParseStep[<<g[i - 1], b[i]>>] = PROTO_ParseByte(g[i - 1], b[i])
      BY <3>2, StepsAreSteps, Zenon DEF D
    <3> QED BY <1>1, <2>2, <3>1, <3>3, Zenon
  <2> QED BY <2>1, <2>2
<1>3. g = Body(g)
  <2>1. g = [i \in 0 .. Len(b) |-> g[i]]
    BY <1>1
  <2> QED BY <2>1, <1>2, Zenon
<1>4. \E f : f = Body(f) /\ Parse(b, garbage) = f[Len(b)]
  BY <1>3, Zenon DEF Parse
<1>5. PICK f : f = Body(f) /\ Parse(b, garbage) = f[Len(b)]
  BY <1>4
<1>6. \A i \in 0 .. Len(b) : f[i] = IF i = 0 THEN PROTO_Init(garbage) ELSE PROTO_ParseByte(f[i - 1], b[i])
  BY <1>5, Zenon
<1> HIDE DEF Body
<1>7. ASSUME NEW i \in 1 .. Len(b), f[i - 1] \in Parser
      PROVE  f[i] = ParseStep[<<f[i - 1], b[i]>>]
  <2>1. i \in 0 .. Len(b) /\ i # 0 /\ b[i] \in Byte
    OBVIOUS
  <2>2. f[i] = PROTO_ParseByte(f[i - 1], b[i])
    BY <1>6, <2>1, Zenon
  <2> QED BY <1>7, <2>1, <2>2, StepsAreSteps, Zenon
<1>8. f[0] = PROTO_Init(garbage)
  <2>1. 0 \in 0 .. Len(b)
    OBVIOUS
  <2> QED BY <1>6, <2>1, Zenon
<1> QED BY <1>5, <1>7, <1>8, Zenon DEF Runs

(* Parsing nothing ...                                                     *)
LEMMA ParseNothing == \A garbage \in {0, 1} : Parse(<<>>, garbage) = PROTO_Init(garbage)
<1> SUFFICES ASSUME NEW garbage \in {0, 1} PROVE Parse(<<>>, garbage) = PROTO_Init(garbage)
  OBVIOUS
<1>1. <<>> \in Seq(Byte) /\ Len(<<>>) = 0
  OBVIOUS
<1>2. PICK f : Parse(<<>>, garbage) = f[Len(<<>>)] /\ Runs(Parser, ParseStep, PROTO_Init(garbage), <<>>, f)
  BY <1>1, ParseRuns
<1> QED BY <1>1, <1>2 DEF Runs

(* ... and one byte more.                                                  *)
LEMMA ParseOneMore ==
    ASSUME NEW garbage \in {0, 1}, NEW b \in Seq(Byte), NEW c \in Byte
    PROVE  /\ Parse(b, garbage) \in Parser
           /\ Parse(Append(b, c), garbage) = PROTO_ParseByte(Parse(b, garbage), c)
<1> DEFINE a == Append(b, c)
           D == Parser
<1>1. a \in Seq(Byte) /\ Len(a) = Len(b) + 1
  OBVIOUS
<1>2. PICK f : Parse(b, garbage) = f[Len(b)] /\ Runs(D, ParseStep, PROTO_Init(garbage), b, f)
  BY ParseRuns
<1>3. PICK g : Parse(a, garbage) = g[Len(a)] /\ Runs(D, ParseStep, PROTO_Init(garbage), a, g)
  <2> HIDE DEF a
  <2> QED BY <1>1, ParseRuns
<1>4. PROTO_Init(garbage) \in D /\ Steps(D, Byte, ParseStep)
  BY StepsAreSteps, ParserInit
<1> HIDE DEF D
<1>5. f[Len(b)] \in D /\ g[Len(b) + 1] = ParseStep[<<f[Len(b)], c>>]
  BY <1>2, <1>3, <1>4, RunsGoOn
<1>6. ParseStep[<<f[Len(b)], c>>] = PROTO_ParseByte(f[Len(b)], c)
  BY <1>5, StepsAreSteps, Zenon DEF D
<1>7. Parse(a, garbage) = PROTO_ParseByte(Parse(b, garbage), c) /\ Parse(b, garbage) \in Parser
  BY <1>1, <1>2, <1>3, <1>5, <1>6, Zenon DEF D
<1> QED BY <1>7

\* The step of Escaped as a function.
EscapeStep == [x \in Seq(Byte) \X Byte |-> x[1] \o EscapeByte(x[2])]

(* What is escaped stays a sequence of bytes.                              *)
LEMMA EscapeIsStep == Steps(Seq(Byte), Byte, EscapeStep)
<1>1. \A a \in Seq(Byte), c \in Byte : a \o EscapeByte(c) \in Seq(Byte)
  BY EscapeByteType, ConcatProperties
<1> QED BY <1>1 DEF EscapeStep, Steps

(* Escaped runs its step along the message.                                *)
LEMMA EscapedRuns ==
    ASSUME NEW m \in Seq(Byte)
    PROVE  \E f : /\ Escaped(m) = f[Len(m)]
                  /\ Runs(Seq(Byte), EscapeStep, <<>>, m, f)
<1> DEFINE Body(f) == [i \in 0 .. Len(m) |->
                         IF i = 0 THEN <<>> ELSE f[i - 1] \o EscapeByte(m[i])]
<1>1. PICK g \in [0 .. Len(m) -> Seq(Byte)] :
            /\ g[0] = <<>>
            /\ \A i \in 1 .. Len(m) : g[i] = EscapeStep[<<g[i - 1], m[i]>>]
  <2>1. <<>> \in Seq(Byte)
    OBVIOUS
  <2> DEFINE D == Seq(Byte)
  <2>2. Steps(D, Byte, EscapeStep) /\ <<>> \in D
    BY EscapeIsStep, <2>1
  <2> HIDE DEF D
  <2>3. \E g \in [0 .. Len(m) -> D] :
            /\ g[0] = <<>>
            /\ \A i \in 1 .. Len(m) : g[i] = EscapeStep[<<g[i - 1], m[i]>>]
    BY <2>2, RunExists
  <2> QED BY <2>3 DEF D
<1>2. \A i \in 1 .. Len(m) : g[i] = g[i - 1] \o EscapeByte(m[i])
  <2> SUFFICES ASSUME NEW i \in 1 .. Len(m)
               PROVE  g[i] = g[i - 1] \o EscapeByte(m[i])
    OBVIOUS
  <2>1. g[i - 1] \in Seq(Byte) /\ m[i] \in Byte
    BY <1>1
  <2> DEFINE h == g[i - 1]
             c == m[i]
  <2>2. h \in Seq(Byte) /\ c \in Byte /\ g[i] = EscapeStep[<<h, c>>]
    BY <1>1, <2>1
  <2> HIDE DEF h, c
  <2>3. g[i] = h \o EscapeByte(c)
    BY <2>2 DEF EscapeStep
  <2> QED BY <2>3 DEF h, c
<1>3. g = Body(g)
  <2>1. g = [i \in 0 .. Len(m) |-> g[i]]
    BY <1>1
  <2>2. ASSUME NEW i \in 0 .. Len(m)
        PROVE  g[i] = IF i = 0 THEN <<>> ELSE g[i - 1] \o EscapeByte(m[i])
    <3>1. i # 0 => i \in 1 .. Len(m)
      OBVIOUS
    <3> QED BY <1>1, <1>2, <3>1, Zenon
  <2> QED BY <2>1, <2>2, Zenon
<1>4. \E f : f = Body(f) /\ Escaped(m) = f[Len(m)]
  BY <1>3, Zenon DEF Escaped
<1>5. PICK f : f = Body(f) /\ Escaped(m) = f[Len(m)]
  BY <1>4
<1>6. \A i \in 0 .. Len(m) : f[i] = IF i = 0 THEN <<>> ELSE f[i - 1] \o EscapeByte(m[i])
  BY <1>5, Zenon
<1> HIDE DEF Body
<1>7. f[0] = <<>> /\ \A i \in 1 .. Len(m) : f[i] = f[i - 1] \o EscapeByte(m[i])
  <2>1. 0 \in 0 .. Len(m) /\ \A i \in 1 .. Len(m) : i \in 0 .. Len(m) /\ i # 0
    OBVIOUS
  <2> QED BY <1>6, <2>1, Zenon
<1>8. \A h \in Seq(Byte), c \in Byte : EscapeStep[<<h, c>>] = h \o EscapeByte(c)
  BY DEF EscapeStep
<1>9. \A i \in 1 .. Len(m) : f[i - 1] \in Seq(Byte) => f[i] = EscapeStep[<<f[i - 1], m[i]>>]
  <2>1. \A i \in 1 .. Len(m) : m[i] \in Byte
    OBVIOUS
  <2> QED BY <1>7, <1>8, <2>1, Zenon
<1> QED BY <1>5, <1>7, <1>9, Zenon DEF Runs

(* Escaping nothing ...                                                    *)
LEMMA EscapedNothing == Escaped(<<>>) = <<>>
<1>1. <<>> \in Seq(Byte) /\ Len(<<>>) = 0
  OBVIOUS
<1>2. PICK f : Escaped(<<>>) = f[Len(<<>>)] /\ Runs(Seq(Byte), EscapeStep, <<>>, <<>>, f)
  BY <1>1, EscapedRuns
<1> QED BY <1>1, <1>2 DEF Runs

(* ... and one byte more.                                                  *)
LEMMA EscapedOneMore ==
    ASSUME NEW m \in Seq(Byte), NEW c \in Byte
    PROVE  /\ Escaped(m) \in Seq(Byte)
           /\ Escaped(Append(m, c)) = Escaped(m) \o EscapeByte(c)
<1> DEFINE a == Append(m, c)
           D == Seq(Byte)
           e == <<>>
<1>1. a \in Seq(Byte) /\ Len(a) = Len(m) + 1
  OBVIOUS
<1>2. PICK f : Escaped(m) = f[Len(m)] /\ Runs(D, EscapeStep, e, m, f)
  BY EscapedRuns
<1>3. PICK g : Escaped(a) = g[Len(a)] /\ Runs(D, EscapeStep, e, a, g)
  <2> HIDE DEF a
  <2> QED BY <1>1, EscapedRuns
<1>4. e \in D /\ Steps(D, Byte, EscapeStep)
  BY EscapeIsStep
<1> HIDE DEF D, e
<1>5. f[Len(m)] \in D /\ g[Len(m) + 1] = EscapeStep[<<f[Len(m)], c>>]
  BY <1>2, <1>3, <1>4, RunsGoOn
<1>6. \A h \in D : EscapeStep[<<h, c>>] = h \o EscapeByte(c)
  BY DEF EscapeStep, D
<1>7. Escaped(a) = Escaped(m) \o EscapeByte(c) /\ Escaped(m) \in Seq(Byte)
  BY <1>1, <1>2, <1>3, <1>5, <1>6, Zenon DEF D
<1> QED BY <1>7

-----------------------------------------------------------------------------
\* No frame delimiter in s.
Clean(s) == s \in Seq(Byte) /\ \A i \in 1 .. Len(s) : s[i] \notin {BEG, END}

(* Escaping leaves no delimiter, and flips a bit that flipping again       *)
(* restores.                                                               *)
LEMMA EscapeByteShape ==
    ASSUME NEW c \in Byte
    PROVE  /\ Clean(EscapeByte(c))
           /\ c \in {ESC, BEG, END} =>
                /\ EscapeByte(c) = <<ESC, Xor20(c)>> /\ Xor20(c) \in Byte
                /\ Xor20(c) \notin {ESC, BEG, END} /\ Xor20(Xor20(c)) = c
           /\ c \notin {ESC, BEG, END} => EscapeByte(c) = <<c>>
<1>1. CASE c \in {ESC, BEG, END}
  <2>1. Xor20(ESC) = 93 /\ Xor20(BEG) = 94 /\ Xor20(END) = 95
    BY DEF Xor20, ESC, BEG, END
  <2>2. Xor20(93) = ESC /\ Xor20(94) = BEG /\ Xor20(95) = END
    BY DEF Xor20, ESC, BEG, END
  <2>3. Xor20(c) \notin {ESC, BEG, END} /\ Xor20(Xor20(c)) = c
    <3>1. /\ 93 \notin {ESC, BEG, END} /\ 94 \notin {ESC, BEG, END}
          /\ 95 \notin {ESC, BEG, END}
      BY DEF ESC, BEG, END
    <3>2. CASE c = ESC
      BY <2>1, <2>2, <3>1, <3>2
    <3>3. CASE c = BEG
      BY <2>1, <2>2, <3>1, <3>3
    <3>4. CASE c = END
      BY <2>1, <2>2, <3>1, <3>4
    <3> QED BY <1>1, <3>2, <3>3, <3>4, Zenon
  <2> DEFINE x == Xor20(c)
             e == ESC
  <2>4. e \in Byte /\ x \in Byte /\ e \notin {BEG, END} /\ x \notin {BEG, END}
    BY <1>1, <2>3, ByteAssumption, Distinct
  <2>5. EscapeByte(c) = <<e, x>>
    BY <1>1 DEF EscapeByte
  <2> HIDE DEF x, e
  <2>6. Clean(<<e, x>>)
    <3> DEFINE s == <<e, x>>
    <3>1. s \in Seq(Byte) /\ Len(s) = 2 /\ s[1] = e /\ s[2] = x
      BY <2>4
    <3> HIDE DEF s
    <3>2. \A i \in 1 .. Len(s) : s[i] \notin {BEG, END}
      BY <2>4, <3>1
    <3>3. Clean(s)
      BY <3>1, <3>2 DEF Clean
    <3> QED BY <3>3 DEF s
  <2> QED BY <1>1, <2>3, <2>4, <2>5, <2>6, Zenon DEF x, e
<1>2. CASE c \notin {ESC, BEG, END}
  <2>1. EscapeByte(c) = <<c>>
    BY <1>2 DEF EscapeByte
  <2>2. Clean(<<c>>)
    BY <1>2 DEF Clean
  <2> QED BY <1>2, <2>1, <2>2, Zenon
<1> QED BY <1>1, <1>2, Zenon

(* Sequences without delimiters make one without.                          *)
LEMMA CleanConcat ==
    ASSUME NEW a, NEW b, Clean(a), Clean(b) PROVE Clean(a \o b)
<1>1. /\ a \o b \in Seq(Byte) /\ Len(a \o b) = Len(a) + Len(b)
      /\ Len(a) \in Nat /\ Len(b) \in Nat
      /\ \A i \in 1 .. Len(a) + Len(b) :
           (a \o b)[i] = IF i <= Len(a) THEN a[i] ELSE b[i - Len(a)]
  BY ConcatProperties DEF Clean
<1> DEFINE s == a \o b
<1> HIDE DEF s
<1>2. ASSUME NEW i \in 1 .. Len(s) PROVE s[i] \notin {BEG, END}
  <2>1. CASE i <= Len(a)
    BY <1>1, <2>1 DEF Clean, s
  <2>2. CASE ~(i <= Len(a))
    <3>1. i - Len(a) \in 1 .. Len(b)
      BY <1>1, <2>2 DEF s
    <3> QED BY <1>1, <2>2, <3>1 DEF Clean, s
  <2> QED BY <2>1, <2>2
<1> QED BY <1>1, <1>2 DEF Clean, s

(* No frame delimiter is left inside an escaped message.                   *)
LEMMA EscapedIsClean == \A m \in Seq(Byte) : Clean(Escaped(m))
<1> DEFINE S == {m \in Seq(Byte) : Clean(Escaped(m))}
<1>1. <<>> \in S
  <2>1. Clean(<<>>) /\ <<>> \in Seq(Byte)
    BY DEF Clean
  <2> QED BY <2>1, EscapedNothing, Zenon
<1>2. ASSUME NEW m \in Seq(Byte), NEW c \in Byte, m \in S PROVE Append(m, c) \in S
  <2>1. Escaped(Append(m, c)) = Escaped(m) \o EscapeByte(c)
    BY EscapedOneMore
  <2>2. Clean(Escaped(m) \o EscapeByte(c))
    BY <1>2, EscapeByteShape, CleanConcat
  <2>3. Append(m, c) \in Seq(Byte)
    OBVIOUS
  <2> QED BY <2>1, <2>2, <2>3
<1>3. Seq(Byte) \subseteq S
  <2> HIDE DEF S
  <2> QED BY <1>1, <1>2, SequenceInduction
<1> QED BY <1>3

-----------------------------------------------------------------------------
(* A byte read, field by field.                                            *)
LEMMA ReadByteFields ==
    ASSUME NEW r \in Reader, NEW c \in Byte
    PROVE  /\ ReadByte(r, c) \in Reader
           /\ c = END => ReadByte(r, c).messages = Append(r.messages, r.body)
           /\ c # END => ReadByte(r, c).messages = r.messages
           /\ c \in {BEG, END} => ReadByte(r, c).body = <<>>
           /\ c = ESC => ReadByte(r, c).body = r.body
           /\ c \notin {ESC, BEG, END} =>
                ReadByte(r, c).body = Append(r.body, Meant(r.isEsc, c))
           /\ c = ESC => ReadByte(r, c).isEsc = 1
           /\ c # ESC => ReadByte(r, c).isEsc = 0
<1> DEFINE x == Append(r.body, Meant(r.isEsc, c))
           n == Append(r.messages, r.body)
           e == <<>>
<1>1. PICK q : q = ReadByte(r, c)
  OBVIOUS
<1>2. /\ c = ESC => q = [r EXCEPT !.isEsc = 1]
      /\ c = BEG => q = [r EXCEPT !.body = e, !.isEsc = 0]
      /\ c = END => q = [messages |-> n, body |-> e, isEsc |-> 0]
      /\ c \notin {ESC, BEG, END} => q = [r EXCEPT !.body = x, !.isEsc = 0]
  BY <1>1, ReaderCases, Zenon
<1>3. q \in Reader
  BY <1>1, ReadByteType
<1> HIDE DEF x, n, e
<1>4. CASE c = ESC
  BY <1>1, <1>2, <1>3, <1>4, Distinct DEF Reader
<1>5. CASE c = BEG
  <2>1. q.messages = r.messages /\ q.body = e /\ q.isEsc = 0
    BY <1>2, <1>5 DEF Reader
  <2> QED BY <1>1, <1>3, <1>5, <2>1, Distinct DEF e
<1>6. CASE c = END
  <2>1. q.messages = n /\ q.body = e /\ q.isEsc = 0
    BY <1>2, <1>6
  <2> QED BY <1>1, <1>3, <1>6, <2>1, Distinct DEF e, n
<1>7. CASE c \notin {ESC, BEG, END}
  <2>1. q.messages = r.messages /\ q.body = x /\ q.isEsc = 0
    BY <1>2, <1>7 DEF Reader
  <2> QED BY <1>1, <1>3, <1>7, <2>1, Zenon DEF x
<1> QED BY <1>4, <1>5, <1>6, <1>7, Zenon

(* Reading on: the bytes of b after those of a.                            *)
LEMMA ReadOn ==
    ASSUME NEW r \in Reader, NEW a \in Seq(Byte)
    PROVE  \A b \in Seq(Byte) : ReadFrom(r, a \o b) = ReadFrom(ReadFrom(r, a), b)
<1> DEFINE ra == ReadFrom(r, a)
           S == {b \in Seq(Byte) : ReadFrom(r, a \o b) = ReadFrom(ra, b)}
<1>0. ra \in Reader
  <2>1. CASE Byte = {}
    BY <2>1, ByteAssumption
  <2>2. CASE Byte # {}
    BY <2>2, ReadOneMore
  <2> QED BY <2>1, <2>2
<1>1. <<>> \in S
  <2>1. a \o <<>> = a /\ <<>> \in Seq(Byte)
    OBVIOUS
  <2>2. ReadFrom(ra, <<>>) = ra
    BY <1>0, ReadNothing
  <2> QED BY <2>1, <2>2
<1>2. ASSUME NEW b \in Seq(Byte), NEW c \in Byte, b \in S PROVE Append(b, c) \in S
  <2>1. a \o Append(b, c) = Append(a \o b, c) /\ a \o b \in Seq(Byte)
    OBVIOUS
  <2>2. ReadFrom(r, Append(a \o b, c)) = ReadByte(ReadFrom(r, a \o b), c)
    BY <2>1, ReadOneMore
  <2>3. ReadFrom(ra, Append(b, c)) = ReadByte(ReadFrom(ra, b), c)
    BY <1>0, ReadOneMore
  <2>4. Append(b, c) \in Seq(Byte)
    OBVIOUS
  <2> HIDE DEF ra
  <2> QED BY <1>2, <2>1, <2>2, <2>3, <2>4, Zenon
<1>3. Seq(Byte) \subseteq S
  <2> HIDE DEF S
  <2> QED BY <1>1, <1>2, SequenceInduction
<1> QED BY <1>3

(* Without an END no message is completed.                                 *)
LEMMA ReadWithoutEnd ==
    ASSUME NEW r \in Reader
    PROVE  \A b \in Seq(Byte) : NoEnd(b) => ReadFrom(r, b).messages = r.messages
<1> DEFINE S == {b \in Seq(Byte) : NoEnd(b) => ReadFrom(r, b).messages = r.messages}
<1>1. <<>> \in S
  BY ReadNothing
<1>2. ASSUME NEW b \in Seq(Byte), NEW c \in Byte, b \in S PROVE Append(b, c) \in S
  <2>1. /\ Append(b, c) \in Seq(Byte) /\ Len(Append(b, c)) = Len(b) + 1
        /\ Append(b, c)[Len(b) + 1] = c /\ \A i \in 1 .. Len(b) : Append(b, c)[i] = b[i]
    OBVIOUS
  <2> SUFFICES ASSUME NoEnd(Append(b, c))
               PROVE  ReadFrom(r, Append(b, c)).messages = r.messages
    BY <2>1
  <2>2. NoEnd(b) /\ c # END
    <3> DEFINE a == Append(b, c)
    <3>1. NoEnd(a)
      OBVIOUS
    <3>2. Len(a) = Len(b) + 1 /\ a[Len(b) + 1] = c /\ \A i \in 1 .. Len(b) : a[i] = b[i]
      BY <2>1
    <3> HIDE DEF a
    <3> QED BY <3>1, <3>2 DEF NoEnd
  <2> DEFINE q == ReadFrom(r, b)
  <2>3. q \in Reader /\ q.messages = r.messages
    BY <1>2, <2>2, ReadOneMore
  <2>4. ReadFrom(r, Append(b, c)) = ReadByte(q, c)
    BY ReadOneMore
  <2> HIDE DEF q
  <2>5. ReadByte(q, c).messages = q.messages
    BY <2>2, <2>3, ReadByteFields
  <2> QED BY <2>3, <2>4, <2>5
<1>3. Seq(Byte) \subseteq S
  <2> HIDE DEF S
  <2> QED BY <1>1, <1>2, SequenceInduction
<1> QED BY <1>3

-----------------------------------------------------------------------------
(* Frames in the ring.                                                     *)

\* A frame is a sequence of bytes that starts with BEG and has its only END
\* at its end.
LEMMA FrameShape ==
    ASSUME NEW m \in Msg
    PROVE  /\ Frame(m) \in Seq(Byte)
           /\ Len(Frame(m)) = Len(Escaped(m)) + 2
           /\ Len(Frame(m)) \in Nat /\ Len(Frame(m)) >= 2
           /\ Frame(m)[1] = BEG
           /\ \A i \in 1 .. Len(Frame(m)) : Frame(m)[i] = END => i = Len(Frame(m))
<1> DEFINE e == Escaped(m)
<1>1. /\ e \in Seq(Byte) /\ Len(e) \in Nat
      /\ \A i \in 1 .. Len(e) : e[i] \notin {BEG, END}
  BY MsgAssumption, EscapedIsClean DEF Clean
<1>2. <<BEG>> \in Seq(Byte) /\ <<END>> \in Seq(Byte)
  BY ByteAssumption
<1> HIDE DEF e
<1>3. /\ <<BEG>> \o e \in Seq(Byte) /\ Len(<<BEG>> \o e) = Len(e) + 1
      /\ (<<BEG>> \o e)[1] = BEG
      /\ \A i \in 2 .. Len(e) + 1 : (<<BEG>> \o e)[i] = e[i - 1]
  BY <1>1, <1>2
<1>4. ASSUME NEW f, f = (<<BEG>> \o e) \o <<END>>
      PROVE  /\ f \in Seq(Byte) /\ Len(f) = Len(e) + 2
             /\ f[1] = BEG
             /\ \A i \in 2 .. Len(e) + 1 : f[i] = e[i - 1]
  BY <1>1, <1>2, <1>3, <1>4
<1>5. Frame(m) = (<<BEG>> \o e) \o <<END>>
  BY DEF Frame, e
<1>6. /\ Frame(m) \in Seq(Byte) /\ Len(Frame(m)) = Len(e) + 2
      /\ Frame(m)[1] = BEG
      /\ \A i \in 2 .. Len(e) + 1 : Frame(m)[i] = e[i - 1]
  BY <1>4, <1>5
<1>7. ASSUME NEW i \in 1 .. Len(Frame(m)), Frame(m)[i] = END
      PROVE  i = Len(Frame(m))
  <2>1. i # 1
    BY <1>6, <1>7 DEF BEG, END
  <2>2. i \notin 2 .. Len(e) + 1
    BY <1>1, <1>6, <1>7
  <2> QED BY <2>1, <2>2, <1>1, <1>6
<1> QED BY <1>1, <1>6, <1>7 DEF e

\* What PROTO_AddRb writes fits, starts with BEG and ends at its only END.
LEMMA WrittenShape ==
    ASSUME NEW r \in Seq(Byte), Len(r) <= Size, NEW m \in Msg
    PROVE  /\ Written(r, m) \in Seq(Byte)
           /\ Len(r) + Len(Written(r, m)) <= Size
           /\ Written(r, m) # <<>> => Written(r, m)[1] = BEG
           /\ \A i \in 1 .. Len(Written(r, m)) - 1 : Written(r, m)[i] # END
<1>1. /\ Frame(m) \in Seq(Byte) /\ Len(Frame(m)) \in Nat /\ Len(Frame(m)) >= 2
      /\ Frame(m)[1] = BEG
      /\ \A i \in 1 .. Len(Frame(m)) : Frame(m)[i] = END => i = Len(Frame(m))
  BY FrameShape
<1>2. CASE Fits(r, m)
  BY <1>1, <1>2 DEF Written, Fits
<1>3. CASE ~Fits(r, m)
  <2> DEFINE n == Size - Len(r)
             w == SubSeq(Frame(m), 1, n)
  <2>1. Written(r, m) = w
    BY <1>3 DEF Written
  <2>2. n \in Nat /\ n < Len(Frame(m))
    BY <1>1, <1>3, SizeAssumption DEF Fits
  <2> HIDE DEF n
  <2>3. /\ w \in Seq(Byte) /\ Len(w) = n
        /\ \A i \in 1 .. n : w[i] = Frame(m)[i]
    BY <1>1, <2>2, SubSeqProperties
  <2>4. \A i \in 1 .. n : w[i] # END
    BY <1>1, <2>2, <2>3
  <2>5. Len(r) + n <= Size
    BY SizeAssumption DEF n
  <2>6. w # <<>> => w[1] = BEG
    BY <1>1, <2>2, <2>3
  <2> HIDE DEF w
  <2> QED BY <2>1, <2>2, <2>3, <2>4, <2>5, <2>6
<1> QED BY <1>2, <1>3

-----------------------------------------------------------------------------
\* Frame boundaries: the strengthening that makes HeadIsFrameStart inductive.
Boundaries(r) ==
    /\ r # <<>> => r[1] = BEG
    /\ \A i \in 1 .. Len(r) - 1 : r[i] = END => r[i + 1] = BEG

IInv == TypeOK /\ Boundaries(ring)

\* Writing a frame, or the part of it that fits, keeps the boundaries.
LEMMA AddKeepsBoundaries ==
    ASSUME NEW r \in Seq(Byte), Len(r) <= Size, Boundaries(r), NEW m \in Msg
    PROVE  /\ PROTO_AddRb(r, m) \in Seq(Byte)
           /\ Len(PROTO_AddRb(r, m)) <= Size
           /\ Boundaries(PROTO_AddRb(r, m))
<1> DEFINE w == Written(r, m)
<1>1. /\ w \in Seq(Byte) /\ Len(r) + Len(w) <= Size
      /\ w # <<>> => w[1] = BEG
      /\ \A i \in 1 .. Len(w) - 1 : w[i] # END
  BY WrittenShape
<1> HIDE DEF w
<1>2. ASSUME NEW s, s = r \o w
      PROVE  s \in Seq(Byte) /\ Len(s) <= Size /\ Boundaries(s)
  <2>1. /\ s \in Seq(Byte) /\ Len(s) = Len(r) + Len(w)
        /\ Len(r) \in Nat /\ Len(w) \in Nat
        /\ \A i \in 1 .. Len(r) : s[i] = r[i]
        /\ \A i \in Len(r) + 1 .. Len(r) + Len(w) : s[i] = w[i - Len(r)]
    BY <1>1, <1>2, ConcatProperties
  <2>2. s # <<>> => s[1] = BEG
    <3>1. CASE r = <<>>
      BY <3>1, <2>1, <1>1
    <3>2. CASE r # <<>>
      BY <3>2, <2>1 DEF Boundaries
    <3> QED BY <3>1, <3>2
  <2>3. ASSUME NEW i \in 1 .. Len(s) - 1, s[i] = END
        PROVE  s[i + 1] = BEG
    <3>1. CASE i < Len(r)
      <4>1. i \in 1 .. Len(r) - 1 /\ i + 1 \in 1 .. Len(r) /\ i \in 1 .. Len(r)
        BY <3>1, <2>1
      <4>2. s[i] = r[i] /\ s[i + 1] = r[i + 1]
        BY <4>1, <2>1
      <4> QED BY <4>1, <4>2, <2>3 DEF Boundaries
    <3>2. CASE i = Len(r)
      <4>1. Len(w) > 0 /\ i + 1 \in Len(r) + 1 .. Len(r) + Len(w) /\ i + 1 - Len(r) = 1
        <5>1. Len(s) = Len(r) + Len(w) /\ Len(r) \in Nat /\ Len(w) \in Nat
          BY <2>1
        <5>2. i + 1 <= Len(s) /\ i = Len(r)
          BY <3>2, <5>1
        <5> QED BY <5>1, <5>2
      <4>2. s[i + 1] = w[1]
        BY <4>1, <2>1
      <4>3. w # <<>>
        BY <4>1
      <4> QED BY <4>2, <4>3, <1>1
    <3>3. CASE i > Len(r)
      <4>1. i - Len(r) \in 1 .. Len(w) - 1 /\ s[i] = w[i - Len(r)]
        BY <3>3, <2>1
      <4> QED BY <4>1, <1>1, <2>3
    <3> QED BY <3>1, <3>2, <3>3, <2>1
  <2> QED BY <1>1, <2>1, <2>2, <2>3 DEF Boundaries
<1> QED BY <1>2 DEF PROTO_AddRb, w

\* Reading up to and including the first END keeps the boundaries.
LEMMA RestKeepsBoundaries ==
    ASSUME NEW r \in Seq(Byte), Len(r) <= Size, Boundaries(r),
           NEW k \in 1 .. Len(r), FirstEnd(r, k)
    PROVE  /\ Rest(r, k) \in Seq(Byte)
           /\ Len(Rest(r, k)) <= Size
           /\ Boundaries(Rest(r, k))
<1>1. ASSUME NEW s, s = SubSeq(r, k + 1, Len(r))
      PROVE  s \in Seq(Byte) /\ Len(s) <= Size /\ Boundaries(s)
  <2>1. Len(r) \in Nat /\ k \in Nat /\ r[k] = END
    BY DEF FirstEnd
  <2>2. /\ s \in Seq(Byte) /\ Len(s) = Len(r) - k
        /\ \A i \in 1 .. Len(s) : s[i] = r[k + i]
    BY <1>1, <2>1, SubSeqProperties
  <2>3. s # <<>> => s[1] = BEG
    <3>1. CASE s # <<>>
      <4>1. k \in 1 .. Len(r) - 1 /\ s[1] = r[k + 1]
        BY <3>1, <2>1, <2>2
      <4> QED BY <4>1, <2>1 DEF Boundaries
    <3> QED BY <3>1
  <2>4. ASSUME NEW i \in 1 .. Len(s) - 1, s[i] = END
        PROVE  s[i + 1] = BEG
    <3>1. /\ i \in 1 .. Len(s) /\ i + 1 \in 1 .. Len(s)
          /\ k + i \in 1 .. Len(r) - 1 /\ k + (i + 1) = (k + i) + 1
      BY <2>1, <2>2
    <3>2. s[i] = r[k + i] /\ s[i + 1] = r[(k + i) + 1]
      BY <3>1, <2>2
    <3> QED BY <3>1, <3>2, <2>4 DEF Boundaries
  <2> QED BY <2>1, <2>2, <2>3, <2>4, SizeAssumption DEF Boundaries
<1> QED BY <1>1 DEF Rest

\* The empty ring satisfies the invariant.
LEMMA InitIInv == Init => IInv
BY SizeAssumption DEF Init, IInv, TypeOK, Boundaries

\* Every step of the publisher and of the task keeps it.
LEMMA NextKeepsIInv == IInv /\ [Next]_vars => IInv'
<1> SUFFICES ASSUME IInv, [Next]_vars PROVE IInv'
  OBVIOUS
<1>0. /\ ring \in Seq(Byte) /\ Len(ring) <= Size /\ Boundaries(ring)
      /\ pc \in {"idle", "puts", "gets"}
      /\ job \in Msg \cup {NoMsg} /\ (pc = "idle" <=> job = NoMsg)
  BY DEF IInv, TypeOK
<1> DEFINE RingOK(r) == r \in Seq(Byte) /\ Len(r) <= Size /\ Boundaries(r)
<1>a. RingOK(<<>>)
  BY SizeAssumption DEF Boundaries
<1>b. SUFFICES /\ RingOK(ring')
               /\ pc' \in {"idle", "puts", "gets"}
               /\ job' \in Msg \cup {NoMsg} /\ (pc' = "idle" <=> job' = NoMsg)
  BY DEF IInv, TypeOK
<1>1. ASSUME NEW m \in Msg, MQTT_Publish(m)
      PROVE  /\ RingOK(ring')
             /\ pc' \in {"idle", "puts", "gets"}
             /\ job' \in Msg \cup {NoMsg} /\ (pc' = "idle" <=> job' = NoMsg)
  BY <1>0, <1>1, NoMsgAssumption DEF MQTT_Publish
<1>2. ASSUME NEW m \in Msg, QueueAnswer(m)
      PROVE  RingOK(ring') /\ pc' = pc /\ job' = job
  BY <1>0, <1>2, AddKeepsBoundaries DEF QueueAnswer
<1>3. ASSUME QUEUE_Puts
      PROVE  /\ RingOK(ring')
             /\ pc' \in {"idle", "puts", "gets"}
             /\ job' \in Msg \cup {NoMsg} /\ (pc' = "idle" <=> job' = NoMsg)
  <2>1. job \in Msg
    BY <1>0, <1>3 DEF QUEUE_Puts
  <2>2. RingOK(ring')
    BY <1>0, <1>3, <2>1, AddKeepsBoundaries DEF QUEUE_Puts
  <2> QED BY <1>3, <2>1, <2>2, NoMsgAssumption DEF QUEUE_Puts
<1>4. ASSUME EvictOldest
      PROVE  RingOK(ring') /\ pc' = "puts" /\ job' = job /\ job # NoMsg
  <2>1. PICK k \in 1 .. Len(ring) : FirstEnd(ring, k) /\ ring' = Rest(ring, k)
    BY <1>4 DEF EvictOldest
  <2>2. RingOK(ring')
    BY <1>0, <2>1, RestKeepsBoundaries
  <2> QED BY <1>0, <1>4, <2>2 DEF EvictOldest
<1>5. ASSUME SeriousBufferError
      PROVE  RingOK(ring') /\ pc' = "idle" /\ job' = NoMsg
  BY <1>a, <1>5 DEF SeriousBufferError
<1>6. ASSUME TakeMessage
      PROVE  RingOK(ring') /\ pc' = pc /\ job' = job
  <2>1. PICK k \in 1 .. Len(ring) : FirstEnd(ring, k) /\ ring' = Rest(ring, k)
    BY <1>6 DEF TakeMessage
  <2>2. RingOK(ring')
    BY <1>0, <2>1, RestKeepsBoundaries
  <2> QED BY <1>6, <2>2 DEF TakeMessage
<1>7. ASSUME TakeFails
      PROVE  RingOK(ring') /\ pc' = pc /\ job' = job
  BY <1>a, <1>7 DEF TakeFails
<1>8. ASSUME UNCHANGED vars
      PROVE  ring' = ring /\ pc' = pc /\ job' = job
  BY <1>8 DEF vars
<1> QED BY <1>0, <1>1, <1>2, <1>3, <1>4, <1>5, <1>6, <1>7, <1>8 DEF Next, Loop

-----------------------------------------------------------------------------
(* Appending to a concatenation appends to its second part.                *)
LEMMA AppendToConcat ==
    ASSUME NEW T, NEW a \in Seq(T), NEW b \in Seq(T), NEW c \in T
    PROVE  a \o Append(b, c) = Append(a \o b, c)
OBVIOUS

(* Reading a single byte ...                                               *)
LEMMA ReadOneByte ==
    ASSUME NEW r \in Reader, NEW c \in Byte
    PROVE  ReadFrom(r, <<c>>) = ReadByte(r, c)
<1>1. <<>> \in Seq(Byte) /\ <<c>> = Append(<<>>, c)
  OBVIOUS
<1>2. ReadFrom(r, Append(<<>>, c)) = ReadByte(ReadFrom(r, <<>>), c)
  BY <1>1, ReadOneMore
<1>3. ReadFrom(r, <<>>) = r
  BY ReadNothing
<1> QED BY <1>1, <1>2, <1>3, Zenon

(* ... and two.                                                            *)
LEMMA ReadTwoBytes ==
    ASSUME NEW r \in Reader, NEW c \in Byte, NEW d \in Byte
    PROVE  ReadFrom(r, <<c, d>>) = ReadByte(ReadByte(r, c), d)
<1>1. <<c>> \in Seq(Byte) /\ <<c, d>> = Append(<<c>>, d)
  OBVIOUS
<1>2. ReadFrom(r, Append(<<c>>, d)) = ReadByte(ReadFrom(r, <<c>>), d)
  BY <1>1, ReadOneMore
<1> QED BY <1>1, <1>2, ReadOneByte, Zenon

\* Two readers in the same frame, the first of which has read q before.
Ahead(r1, r2, q) ==
    /\ r1.messages = q \o r2.messages /\ r1.body = r2.body /\ r1.isEsc = r2.isEsc

(* What was read before does not change what is read next.                 *)
LEMMA ReadAhead ==
    ASSUME NEW r1 \in Reader, NEW r2 \in Reader, NEW q \in Seq(Seq(Plain)), Ahead(r1, r2, q)
    PROVE  \A b \in Seq(Byte) : Ahead(ReadFrom(r1, b), ReadFrom(r2, b), q)
<1> DEFINE S == {b \in Seq(Byte) : Ahead(ReadFrom(r1, b), ReadFrom(r2, b), q)}
<1>1. <<>> \in S
  <2>1. <<>> \in Seq(Byte)
    OBVIOUS
  <2> QED BY <2>1, ReadNothing, Zenon
<1>2. ASSUME NEW b \in Seq(Byte), NEW c \in Byte, b \in S PROVE Append(b, c) \in S
  <2>1. Append(b, c) \in Seq(Byte)
    OBVIOUS
  <2>2. PICK s1 \in Reader, s2 \in Reader : s1 = ReadFrom(r1, b) /\ s2 = ReadFrom(r2, b)
    BY ReadOneMore
  <2>3. PICK t1 \in Reader, t2 \in Reader : t1 = ReadByte(s1, c) /\ t2 = ReadByte(s2, c)
    BY ReadByteType
  <2>4. Ahead(s1, s2, q)
    BY <1>2, <2>2, Zenon
  <2>5. /\ c = END => t1.messages = Append(s1.messages, s1.body)
        /\ c # END => t1.messages = s1.messages
        /\ c \in {BEG, END} => t1.body = <<>>
        /\ c = ESC => t1.body = s1.body
        /\ c \notin {ESC, BEG, END} => t1.body = Append(s1.body, Meant(s1.isEsc, c))
        /\ c = ESC => t1.isEsc = 1
        /\ c # ESC => t1.isEsc = 0
    BY <2>3, ReadByteFields, Zenon
  <2>6. /\ c = END => t2.messages = Append(s2.messages, s2.body)
        /\ c # END => t2.messages = s2.messages
        /\ c \in {BEG, END} => t2.body = <<>>
        /\ c = ESC => t2.body = s2.body
        /\ c \notin {ESC, BEG, END} => t2.body = Append(s2.body, Meant(s2.isEsc, c))
        /\ c = ESC => t2.isEsc = 1
        /\ c # ESC => t2.isEsc = 0
    BY <2>3, ReadByteFields, Zenon
  <2>7. t1.body = t2.body /\ t1.isEsc = t2.isEsc
    <3>1. s1.body = s2.body /\ s1.isEsc = s2.isEsc
      BY <2>4 DEF Ahead
    <3>2. c = ESC \/ c \in {BEG, END} \/ c \notin {ESC, BEG, END}
      BY Zenon
    <3> QED BY <2>5, <2>6, <3>1, <3>2, Distinct, Zenon
  <2>8. t1.messages = q \o t2.messages
    <3>1. CASE c = END
      <4> DEFINE m == s2.messages
                 d == s2.body
      <4>1. m \in Seq(Seq(Plain)) /\ d \in Seq(Plain)
        BY DEF Reader
      <4>2. s1.messages = q \o m /\ s1.body = d
        BY <2>4 DEF Ahead
      <4>3. t1.messages = Append(q \o m, d) /\ t2.messages = Append(m, d)
        BY <2>5, <2>6, <3>1, <4>2, Zenon
      <4> HIDE DEF m, d
      <4> DEFINE T == Seq(Plain)
      <4>4. q \in Seq(T) /\ m \in Seq(T) /\ d \in T
        BY <4>1
      <4> HIDE DEF T
      <4>5. q \o Append(m, d) = Append(q \o m, d)
        BY <4>4, AppendToConcat
      <4> QED BY <4>3, <4>5
    <3>2. CASE c # END
      BY <2>4, <2>5, <2>6, <3>2, Zenon DEF Ahead
    <3> QED BY <3>1, <3>2
  <2>9. ReadFrom(r1, Append(b, c)) = t1 /\ ReadFrom(r2, Append(b, c)) = t2
    BY <2>2, <2>3, ReadOneMore, Zenon
  <2>10. Ahead(t1, t2, q)
    BY <2>7, <2>8 DEF Ahead
  <2> QED BY <2>1, <2>9, <2>10, Zenon
<1>3. Seq(Byte) \subseteq S
  <2> HIDE DEF S
  <2> QED BY <1>1, <1>2, SequenceInduction
<1> QED BY <1>3

-----------------------------------------------------------------------------
\* What r is after a message m was read from a reader with messages q.
Inside(r, q, m) == r \in Reader /\ r.messages = q /\ r.body = m /\ r.isEsc = 0

(* Reading what a byte was escaped to yields the byte.                     *)
LEMMA ReadEscapedByte ==
    ASSUME NEW r, NEW q, NEW m, Inside(r, q, m), NEW c \in Byte
    PROVE  Inside(ReadFrom(r, EscapeByte(c)), q, Append(m, c))
<1>0. /\ r \in Reader /\ r.messages = q /\ r.body = m /\ r.isEsc = 0
      /\ <<>> \in Seq(Byte) /\ ReadFrom(r, <<>>) = r
  BY ReadNothing DEF Inside
<1>1. CASE c \in {ESC, BEG, END}
  <2> DEFINE x == Xor20(c)
             e == ESC
  <2>1. /\ EscapeByte(c) = <<e, x>> /\ x \in Byte /\ e \in Byte
        /\ x \notin {ESC, BEG, END} /\ Xor20(x) = c
    BY <1>1, EscapeByteShape, ByteAssumption
  <2>2. PICK s \in Reader : s = ReadByte(r, e)
    BY <1>0, <2>1, ReadByteType
  <2>3. s.messages = q /\ s.body = m /\ s.isEsc = 1
    BY <1>0, <2>1, <2>2, ReadByteFields, Distinct
  <2>4. PICK t \in Reader : t = ReadByte(s, x)
    BY <2>1, ReadByteType
  <2>5. t.messages = q /\ t.body = Append(m, Meant(1, x)) /\ t.isEsc = 0
    <3>1. x # END /\ x # ESC
      BY <2>1, Zenon
    <3>2. /\ t.messages = s.messages /\ t.body = Append(s.body, Meant(s.isEsc, x))
          /\ t.isEsc = 0
      <4> HIDE DEF x
      <4> QED BY <2>1, <2>4, <3>1, ReadByteFields, Zenon
    <3> QED BY <2>3, <3>2, Zenon
  <2>6. Meant(1, x) = c
    BY <2>1, Zenon DEF Meant
  <2> HIDE DEF x, e
  <2>9. ReadFrom(r, <<e, x>>) = t
    BY <1>0, <2>1, <2>2, <2>4, ReadTwoBytes, Zenon
  <2> QED BY <2>1, <2>5, <2>6, <2>9, Zenon DEF Inside
<1>2. CASE c \notin {ESC, BEG, END}
  <2>1. EscapeByte(c) = Append(<<>>, c)
    BY <1>2, EscapeByteShape
  <2>2. PICK t \in Reader : t = ReadByte(r, c)
    BY <1>0, ReadByteType
  <2>3. t.messages = q /\ t.body = Append(m, Meant(0, c)) /\ t.isEsc = 0
    BY <1>0, <1>2, <2>2, ReadByteFields, Zenon
  <2>4. Meant(0, c) = c
    BY DEF Meant
  <2>5. ReadFrom(r, Append(<<>>, c)) = t
    <3>1. ReadFrom(r, Append(<<>>, c)) = ReadByte(ReadFrom(r, <<>>), c)
      BY <1>0, ReadOneMore
    <3>2. QED BY <1>0, <2>2, <3>1, Zenon
  <2> QED BY <2>1, <2>3, <2>4, <2>5, Zenon DEF Inside
<1> QED BY <1>1, <1>2

(* Reading an escaped message yields the message.                          *)
LEMMA ReadEscaped ==
    ASSUME NEW r, NEW q, Inside(r, q, <<>>)
    PROVE  \A m \in Seq(Byte) : Inside(ReadFrom(r, Escaped(m)), q, m)
<1> DEFINE S == {m \in Seq(Byte) : Inside(ReadFrom(r, Escaped(m)), q, m)}
<1>0. r \in Reader
  BY DEF Inside
<1>1. <<>> \in S
  <2>1. <<>> \in Seq(Byte)
    OBVIOUS
  <2> QED BY <1>0, <2>1, ReadNothing, EscapedNothing, Zenon
<1>2. ASSUME NEW m \in Seq(Byte), NEW c \in Byte, m \in S PROVE Append(m, c) \in S
  <2>1. /\ Append(m, c) \in Seq(Byte) /\ Escaped(m) \in Seq(Byte)
        /\ Escaped(Append(m, c)) = Escaped(m) \o EscapeByte(c)
        /\ EscapeByte(c) \in Seq(Byte)
    BY EscapedOneMore, EscapeByteType
  <2>2. ReadFrom(r, Escaped(Append(m, c))) = ReadFrom(ReadFrom(r, Escaped(m)), EscapeByte(c))
    BY <1>0, <2>1, ReadOn
  <2>3. Inside(ReadFrom(r, Escaped(m)), q, m)
    BY <1>2
  <2>4. Inside(ReadFrom(ReadFrom(r, Escaped(m)), EscapeByte(c)), q, Append(m, c))
    BY <2>3, ReadEscapedByte, Zenon
  <2> QED BY <2>1, <2>2, <2>4
<1>3. Seq(Byte) \subseteq S
  <2> HIDE DEF S
  <2> QED BY <1>1, <1>2, SequenceInduction
<1> QED BY <1>3

(* Reading a frame adds its message, whatever was left of one before.      *)
LEMMA ReadFrame ==
    ASSUME NEW r \in Reader, NEW m \in Seq(Byte)
    PROVE  Inside(ReadFrom(r, Frame(m)), Append(r.messages, m), <<>>)
<1> DEFINE e == Escaped(m)
           b == BEG
           z == END
<1>1. e \in Seq(Byte) /\ b \in Byte /\ z \in Byte
  BY EscapedIsClean, ByteAssumption DEF Clean
<1>2. PICK s \in Reader : s = ReadByte(r, b)
  BY <1>1, ReadByteType
<1>3. Inside(s, r.messages, <<>>)
  BY <1>1, <1>2, ReadByteFields, Distinct DEF Inside
<1>4. PICK t : t = ReadFrom(s, e)
  OBVIOUS
<1>5. Inside(t, r.messages, m)
  BY <1>3, <1>4, ReadEscaped
<1>6. PICK u \in Reader : u = ReadByte(t, z)
  BY <1>1, <1>5, ReadByteType DEF Inside
<1>7. Inside(u, Append(r.messages, m), <<>>)
  <2>1. t \in Reader /\ t.messages = r.messages /\ t.body = m
    BY <1>5 DEF Inside
  <2>2. z = END /\ z \in {BEG, END} /\ z # ESC
    BY Distinct
  <2> HIDE DEF z
  <2>3. /\ u.messages = Append(t.messages, t.body) /\ u.body = <<>> /\ u.isEsc = 0
    BY <1>1, <1>6, <2>1, <2>2, ReadByteFields, Zenon
  <2> QED BY <1>6, <2>1, <2>3 DEF Inside
<1>8. Frame(m) = (<<b>> \o e) \o <<z>>
  BY DEF Frame
<1> HIDE DEF e, b, z
<1>9. /\ <<b>> \in Seq(Byte) /\ <<b>> \o e \in Seq(Byte) /\ <<>> \in Seq(Byte)
      /\ <<b>> = Append(<<>>, b) /\ (<<b>> \o e) \o <<z>> = Append(<<b>> \o e, z)
  BY <1>1
<1>10. ReadFrom(r, <<b>>) = s
  BY <1>1, <1>2, ReadOneByte, Zenon
<1>11. ReadFrom(r, <<b>> \o e) = t
  BY <1>1, <1>4, <1>9, <1>10, ReadOn
<1>12. ReadFrom(r, Append(<<b>> \o e, z)) = u
  BY <1>1, <1>6, <1>9, <1>11, ReadOneMore, Zenon
<1> QED BY <1>7, <1>8, <1>9, <1>12, Zenon

\* A parser and a reader of the same bytes, which hold no END so far: the
\* parser has what the reader has, as long as it fits the buffer.
Alike(p, r, b) ==
    /\ p \in Parser /\ r \in Reader
    /\ p.isEsc = r.isEsc
    /\ b # <<>> => p.isBegin = 1
    /\ Len(r.body) <= BufSize => p.data = r.body

(* One byte keeps them alike.                                              *)
LEMMA AlikeGoesOn ==
    ASSUME NEW p, NEW r, NEW b \in Seq(Byte), Alike(p, r, b), NEW c \in Byte,
           c # END, b = <<>> => c = BEG
    PROVE  Alike(PROTO_ParseByte(p, c), ReadByte(r, c), Append(b, c))
<1>0. /\ p \in Parser /\ r \in Reader /\ p.isEsc = r.isEsc
      /\ (b # <<>> => p.isBegin = 1) /\ (Len(r.body) <= BufSize => p.data = r.body)
  BY DEF Alike
<1>1. PICK p1 \in Parser, r1 \in Reader : p1 = PROTO_ParseByte(p, c) /\ r1 = ReadByte(r, c)
  BY <1>0, ParseByteType, ReadByteType
<1>2. /\ c = ESC => r1.body = r.body /\ r1.isEsc = 1
      /\ c = BEG => r1.body = <<>> /\ r1.isEsc = 0
      /\ c \notin {ESC, BEG, END} => r1.body = Append(r.body, Meant(r.isEsc, c)) /\ r1.isEsc = 0
  <2>1. c \notin {ESC, BEG, END} => c # ESC
    BY Zenon
  <2> QED BY <1>0, <1>1, <2>1, ReadByteFields, Distinct
<1>3. CASE c = ESC
  <2>1. p1 = [p EXCEPT !.isEsc = 1] /\ p.isBegin = 1
    BY <1>0, <1>1, <1>3, ParserCases, Distinct
  <2>2. p1.isEsc = 1 /\ p1.isBegin = 1 /\ p1.data = p.data
    BY <1>0, <2>1 DEF Parser
  <2> QED BY <1>0, <1>1, <1>2, <1>3, <2>2, Zenon DEF Alike
<1>4. CASE c = BEG
  <2>1. p1 = [p EXCEPT !.data = <<>>, !.isEsc = 0, !.isBegin = 1]
    BY <1>0, <1>1, <1>4, ParserCases, Zenon
  <2>2. p1.isEsc = 0 /\ p1.isBegin = 1 /\ p1.data = <<>>
    <3> DEFINE e == <<>>
    <3>1. p1 = [p EXCEPT !.data = e, !.isEsc = 0, !.isBegin = 1]
      BY <2>1
    <3> HIDE DEF e
    <3>2. p1.isEsc = 0 /\ p1.isBegin = 1 /\ p1.data = e
      BY <1>0, <3>1 DEF Parser
    <3> QED BY <3>2 DEF e
  <2> QED BY <1>0, <1>1, <1>2, <1>4, <2>2, Zenon DEF Alike
<1>5. CASE c \notin {ESC, BEG, END}
  <2> DEFINE x == Meant(p.isEsc, c)
  <2>0. b # <<>> /\ p.isBegin # 0 /\ p.isBegin = 1
    BY <1>0, <1>5
  <2>1. /\ Len(p.data) < BufSize => p1 = [p EXCEPT !.isEsc = 0, !.data = Append(p.data, x)]
        /\ ~(Len(p.data) < BufSize) => p1 = [p EXCEPT !.isEsc = 0, !.data = p.data]
    BY <1>0, <1>1, <1>5, <2>0, ParserCases, Zenon
  <2>2. r1.body = Append(r.body, x) /\ r1.isEsc = 0 /\ x \in Plain
    BY <1>0, <1>2, <1>5, MeantType, Zenon
  <2> HIDE DEF x
  <2>3. /\ p1.isEsc = 0 /\ p1.isBegin = 1
        /\ Len(p.data) < BufSize => p1.data = Append(p.data, x)
    <3> DEFINE d == Append(p.data, x)
    <3>1. /\ Len(p.data) < BufSize => p1 = [p EXCEPT !.isEsc = 0, !.data = d]
          /\ ~(Len(p.data) < BufSize) => p1 = [p EXCEPT !.isEsc = 0, !.data = p.data]
      BY <2>1
    <3> HIDE DEF d
    <3>2. p1.isEsc = 0 /\ p1.isBegin = 1 /\ (Len(p.data) < BufSize => p1.data = d)
      BY <1>0, <2>0, <3>1 DEF Parser
    <3> QED BY <3>2 DEF d
  <2>4. Len(r1.body) <= BufSize => p1.data = r1.body
    <3>1. r.body \in Seq(Plain) /\ Len(r.body) \in Nat
      BY <1>0 DEF Reader
    <3>2. Len(r1.body) = Len(r.body) + 1
      BY <2>2, <3>1
    <3>3. Len(r1.body) <= BufSize => Len(r.body) <= BufSize /\ Len(r.body) < BufSize
      BY <3>1, <3>2, MsgAssumption
    <3> QED BY <1>0, <2>2, <2>3, <3>3, Zenon
  <2> QED BY <1>1, <2>2, <2>3, <2>4, Zenon DEF Alike
<1>6. c = ESC \/ c = BEG \/ c \notin {ESC, BEG, END}
  OBVIOUS
<1> QED BY <1>3, <1>4, <1>5, <1>6, Zenon

(* A reader that has read nothing is outside any message.                  *)
LEMMA NothingReadType == NothingRead \in Reader /\ Inside(NothingRead, <<>>, <<>>)
<1> DEFINE e == <<>>
<1>1. e \in Seq(Plain) /\ e \in Seq(Seq(Plain))
  OBVIOUS
<1>2. NothingRead = [messages |-> e, body |-> e, isEsc |-> 0]
  BY DEF NothingRead
<1> HIDE DEF e
<1>3. NothingRead \in Reader /\ Inside(NothingRead, e, e)
  BY <1>1, <1>2 DEF Reader, Inside
<1> QED BY <1>3 DEF e

(* Whatever isBegin was, a parser that starts at a BEG reads what a reader *)
(* does.                                                                   *)
LEMMA ParsedAsRead ==
    ASSUME NEW garbage \in {0, 1}
    PROVE  \A b \in Seq(Byte) :
             NoEnd(b) /\ (b # <<>> => b[1] = BEG) =>
               Alike(Parse(b, garbage), ReadFrom(NothingRead, b), b)
<1> DEFINE Starts(b) == NoEnd(b) /\ (b # <<>> => b[1] = BEG)
           S == {b \in Seq(Byte) : Starts(b) =>
                   Alike(Parse(b, garbage), ReadFrom(NothingRead, b), b)}
<1>1. <<>> \in S
  <2>1. <<>> \in Seq(Byte)
    OBVIOUS
  <2> DEFINE e == <<>>
  <2>2. PROTO_Init(garbage).data = e /\ PROTO_Init(garbage).isEsc = 0
    BY DEF PROTO_Init
  <2>3. Alike(PROTO_Init(garbage), NothingRead, e)
    BY <2>2, ParserInit, NothingReadType, Zenon DEF Alike, Inside
  <2>4. Parse(<<>>, garbage) = PROTO_Init(garbage) /\ ReadFrom(NothingRead, <<>>) = NothingRead
    BY ParseNothing, ReadNothing, NothingReadType, Zenon
  <2> QED BY <2>1, <2>3, <2>4, Zenon
<1>2. ASSUME NEW b \in Seq(Byte), NEW c \in Byte, b \in S PROVE Append(b, c) \in S
  <2>1. Append(b, c) \in Seq(Byte)
    OBVIOUS
  <2> SUFFICES ASSUME Starts(Append(b, c))
               PROVE  Alike(Parse(Append(b, c), garbage), ReadFrom(NothingRead, Append(b, c)),
                            Append(b, c))
    BY <2>1
  <2>2. Starts(b) /\ c # END /\ (b = <<>> => c = BEG)
    <3> DEFINE a == Append(b, c)
    <3>1. /\ Len(a) = Len(b) + 1 /\ a[Len(b) + 1] = c /\ a # <<>>
          /\ \A i \in 1 .. Len(b) : a[i] = b[i]
      OBVIOUS
    <3>2. NoEnd(a) /\ (a # <<>> => a[1] = BEG)
      OBVIOUS
    <3> HIDE DEF a
    <3>3. NoEnd(b) /\ c # END
      BY <3>1, <3>2 DEF NoEnd
    <3>4. b # <<>> => b[1] = a[1]
      BY <3>1
    <3>5. b = <<>> => c = a[1]
      BY <3>1
    <3> QED BY <3>1, <3>2, <3>3, <3>4, <3>5
  <2>3. Alike(Parse(b, garbage), ReadFrom(NothingRead, b), b)
    BY <1>2, <2>2
  <2>4. Alike(PROTO_ParseByte(Parse(b, garbage), c), ReadByte(ReadFrom(NothingRead, b), c),
              Append(b, c))
    BY <2>2, <2>3, AlikeGoesOn, Zenon
  <2>5. /\ Parse(Append(b, c), garbage) = PROTO_ParseByte(Parse(b, garbage), c)
        /\ ReadFrom(NothingRead, Append(b, c)) = ReadByte(ReadFrom(NothingRead, b), c)
    BY NothingReadType, ParseOneMore, ReadOneMore
  <2> QED BY <2>4, <2>5, Zenon
<1>3. Seq(Byte) \subseteq S
  <2> HIDE DEF S
  <2> QED BY <1>1, <1>2, SequenceInduction
<1> QED BY <1>3

\* The messages of a ring that holds r.
MessagesOf(r) == ReadFrom(NothingRead, r).messages

(* The refinement mapping reads the ring.                                  *)
LEMMA MessagesAreMessagesOf == Messages = MessagesOf(ring)
BY DEF Messages, MessagesOf

(* Writing a whole frame adds its message, writing part of one none.       *)
LEMMA AddMessages ==
    ASSUME NEW r \in Seq(Byte), Len(r) <= Size, NEW m \in Msg
    PROVE  /\ Fits(r, m) => MessagesOf(PROTO_AddRb(r, m)) = Append(MessagesOf(r), m)
           /\ ~Fits(r, m) => MessagesOf(PROTO_AddRb(r, m)) = MessagesOf(r)
<1>0. /\ Frame(m) \in Seq(Byte) /\ Len(Frame(m)) \in Nat
      /\ \A i \in 1 .. Len(Frame(m)) : Frame(m)[i] = END => i = Len(Frame(m))
      /\ m \in Seq(Byte)
  BY FrameShape, MsgAssumption
<1>1. PICK s \in Reader : s = ReadFrom(NothingRead, r)
  <2>1. BEG \in Byte
    BY ByteAssumption
  <2> QED BY <2>1, NothingReadType, ReadOneMore
<1>2. CASE Fits(r, m)
  <2>1. PROTO_AddRb(r, m) = r \o Frame(m)
    BY <1>2 DEF PROTO_AddRb, Written
  <2>2. ReadFrom(NothingRead, r \o Frame(m)) = ReadFrom(s, Frame(m))
    BY <1>0, <1>1, NothingReadType, ReadOn
  <2>3. Inside(ReadFrom(s, Frame(m)), Append(s.messages, m), <<>>)
    BY <1>0, ReadFrame
  <2> QED BY <1>1, <1>2, <2>1, <2>2, <2>3, Zenon DEF MessagesOf, Inside
<1>3. CASE ~Fits(r, m)
  <2> DEFINE n == Size - Len(r)
             w == SubSeq(Frame(m), 1, n)
  <2>1. PROTO_AddRb(r, m) = r \o w
    BY <1>3 DEF PROTO_AddRb, Written
  <2>2. n \in Nat /\ n < Len(Frame(m))
    BY <1>0, <1>3, SizeAssumption DEF Fits
  <2> HIDE DEF n
  <2>3. w \in Seq(Byte) /\ Len(w) = n /\ \A i \in 1 .. n : w[i] = Frame(m)[i]
    BY <1>0, <2>2, SubSeqProperties
  <2> HIDE DEF w
  <2>4. NoEnd(w)
    BY <1>0, <2>2, <2>3 DEF NoEnd
  <2>5. ReadFrom(NothingRead, r \o w) = ReadFrom(s, w)
    BY <1>1, <2>3, NothingReadType, ReadOn
  <2>6. ReadFrom(s, w).messages = s.messages
    BY <2>3, <2>4, ReadWithoutEnd
  <2> QED BY <1>1, <1>3, <2>1, <2>5, <2>6, Zenon DEF MessagesOf
<1> QED BY <1>2, <1>3, Zenon

(* Without an END the ring holds no message.                               *)
LEMMA NoMessages == \A r \in Seq(Byte) : NoEnd(r) => MessagesOf(r) = <<>>
<1>1. NothingRead.messages = <<>>
  BY NothingReadType DEF Inside
<1> QED BY <1>1, NothingReadType, ReadWithoutEnd DEF MessagesOf

(* The elements of a concatenation.                                        *)
LEMMA ConcatShape ==
    ASSUME NEW T, NEW a \in Seq(T), NEW b \in Seq(T)
    PROVE  /\ a \o b \in Seq(T) /\ Len(a \o b) = Len(a) + Len(b)
           /\ \A i \in 1 .. Len(a) : (a \o b)[i] = a[i]
           /\ \A i \in Len(a) + 1 .. Len(a) + Len(b) : (a \o b)[i] = b[i - Len(a)]
BY ConcatProperties

(* Up to the first END there is one message, the oldest; it is what the    *)
(* parser returns.                                                         *)
LEMMA TakeMessages ==
    ASSUME NEW r \in Seq(Byte), Boundaries(r), NEW k \in 1 .. Len(r), FirstEnd(r, k)
    PROVE  \E m \in Seq(Plain) :
             /\ MessagesOf(r) = <<m>> \o MessagesOf(Rest(r, k))
             /\ MessagesOf(Rest(r, k)) \in Seq(Seq(Plain))
             /\ Len(m) <= BufSize =>
                  \A garbage \in {0, 1} : Parse(SubSeq(r, 1, k), garbage).data = m
<1> DEFINE b == SubSeq(r, 1, k - 1)
           h == SubSeq(r, 1, k)
           t == SubSeq(r, k + 1, Len(r))
<1>1. /\ Len(r) \in Nat /\ k \in Nat /\ k >= 1 /\ k <= Len(r) /\ r[k] = END
      /\ \A i \in 1 .. k - 1 : r[i] # END
  BY DEF FirstEnd
<1>2. /\ b \in Seq(Byte) /\ Len(b) = k - 1 /\ \A i \in 1 .. k - 1 : b[i] = r[i]
  BY <1>1, SubSeqProperties
<1>3. /\ h \in Seq(Byte) /\ Len(h) = k /\ \A i \in 1 .. k : h[i] = r[i]
  BY <1>1, SubSeqProperties
<1>4. t \in Seq(Byte) /\ Len(t) = Len(r) - k /\ \A i \in 1 .. Len(r) - k : t[i] = r[k + i]
  BY <1>1, SubSeqProperties
<1> HIDE DEF b, h, t
<1>5. h = Append(b, END)
  <2> DEFINE a == Append(b, END)
  <2>1. /\ END \in Byte /\ a \in Seq(Byte) /\ Len(a) = k /\ a[k] = END
        /\ \A i \in 1 .. k - 1 : a[i] = b[i]
    BY <1>1, <1>2, ByteAssumption
  <2> HIDE DEF a
  <2>2. \A i \in 1 .. k : a[i] = h[i]
    BY <1>1, <1>2, <1>3, <2>1
  <2>3. a = h
    BY <1>1, <1>3, <2>1, <2>2, SeqEqual
  <2> QED BY <2>3 DEF a
<1>6. ASSUME NEW a, a = h \o t
      PROVE  r = a
  <2>0. Len(h) = k /\ Len(h) \in Nat /\ Len(t) = Len(r) - k /\ Len(t) \in Nat
    BY <1>1, <1>3, <1>4
  <2>1. /\ a \in Seq(Byte) /\ Len(a) = Len(h) + Len(t)
        /\ \A i \in 1 .. Len(h) : a[i] = h[i]
        /\ \A i \in Len(h) + 1 .. Len(h) + Len(t) : a[i] = t[i - Len(h)]
    <3>1. h \in Seq(Byte) /\ t \in Seq(Byte)
      BY <1>3, <1>4
    <3>2. /\ h \o t \in Seq(Byte) /\ Len(h \o t) = Len(h) + Len(t)
          /\ \A i \in 1 .. Len(h) : (h \o t)[i] = h[i]
          /\ \A i \in Len(h) + 1 .. Len(h) + Len(t) : (h \o t)[i] = t[i - Len(h)]
      BY <3>1, ConcatShape, Zenon
    <3> QED BY <1>6, <3>2
  <2>2. ASSUME NEW i \in 1 .. Len(r) PROVE a[i] = r[i]
    <3>1. CASE i <= k
      BY <1>1, <1>3, <2>0, <2>1, <3>1
    <3>2. CASE ~(i <= k)
      <4>1. i - k \in 1 .. Len(r) - k /\ k + (i - k) = i
        BY <1>1, <3>2
      <4>2. a[i] = t[i - k] /\ t[i - k] = r[k + (i - k)]
        BY <1>1, <1>4, <2>0, <2>1, <3>2, <4>1
      <4> QED BY <4>1, <4>2
    <3> QED BY <3>1, <3>2
  <2> QED BY <1>1, <2>0, <2>1, <2>2, SeqEqual
<1>7. NoEnd(b) /\ (b # <<>> => b[1] = BEG)
  <2>1. NoEnd(b)
    BY <1>1, <1>2 DEF NoEnd
  <2>2. ASSUME b # <<>> PROVE b[1] = BEG
    <3>1. 1 \in 1 .. k - 1
      BY <1>1, <1>2, <2>2
    <3>2. r # <<>> /\ b[1] = r[1]
      BY <1>1, <1>2, <3>1
    <3> QED BY <3>2 DEF Boundaries
  <2> QED BY <2>1, <2>2
<1>8. NothingRead \in Reader /\ END \in Byte /\ NothingRead.messages = <<>>
  BY NothingReadType, ByteAssumption DEF Inside
<1>9. PICK s \in Reader : s = ReadFrom(NothingRead, b)
  BY <1>2, <1>8, ReadOneMore
<1>10. s.messages = <<>>
  BY <1>2, <1>7, <1>8, <1>9, ReadWithoutEnd
<1>11. PICK u \in Reader : u = ReadByte(s, END)
  BY <1>8, ReadByteType
<1>12. u.messages = <<s.body>> /\ u.body = <<>> /\ u.isEsc = 0
  <2>1. u.messages = Append(s.messages, s.body) /\ u.body = <<>> /\ u.isEsc = 0
    BY <1>8, <1>11, ReadByteFields, Distinct
  <2> QED BY <1>10, <2>1
<1>13. u = ReadFrom(NothingRead, h)
  BY <1>2, <1>5, <1>8, <1>9, <1>11, ReadOneMore
<1>14. MessagesOf(r) = ReadFrom(u, t).messages
  <2>1. r = h \o t
    BY <1>6
  <2> QED BY <1>3, <1>4, <1>8, <1>13, <2>1, ReadOn DEF MessagesOf
<1> DEFINE m == s.body
           q == <<m>>
<1>15. m \in Seq(Plain)
  BY DEF Reader
<1>16. q \in Seq(Seq(Plain))
  BY <1>15
<1>17. Ahead(u, NothingRead, q)
  <2>1. q \o <<>> = q
    BY <1>16
  <2>2. NothingRead.body = <<>> /\ NothingRead.isEsc = 0
    BY NothingReadType DEF Inside
  <2> QED BY <1>8, <1>12, <2>1, <2>2, Zenon DEF Ahead
<1>18. ReadFrom(u, t).messages = q \o ReadFrom(NothingRead, t).messages
  BY <1>4, <1>8, <1>16, <1>17, ReadAhead DEF Ahead
<1>19. MessagesOf(r) = q \o MessagesOf(Rest(r, k))
  BY <1>14, <1>18, Zenon DEF MessagesOf, Rest, t
<1>20. MessagesOf(Rest(r, k)) \in Seq(Seq(Plain))
  <2>1. ReadFrom(NothingRead, t) \in Reader
    BY <1>4, <1>8, ReadOneMore
  <2>2. ReadFrom(NothingRead, t).messages \in Seq(Seq(Plain))
    BY <2>1 DEF Reader
  <2> QED BY <2>2 DEF MessagesOf, Rest, t
<1>21. ASSUME Len(m) <= BufSize, NEW garbage \in {0, 1}
       PROVE  Parse(SubSeq(r, 1, k), garbage).data = m
  <2>1. Alike(Parse(b, garbage), s, b)
    BY <1>2, <1>7, <1>9, ParsedAsRead
  <2>2. PICK p \in Parser : p = Parse(b, garbage) /\ p.data = m
    BY <1>21, <2>1 DEF Alike
  <2>3. Parse(h, garbage) = PROTO_ParseByte(p, END)
    BY <1>2, <1>5, <1>8, <2>2, ParseOneMore
  <2>4. PROTO_ParseByte(p, END) = [p EXCEPT !.isBegin = 0, !.done = TRUE]
    BY <1>8, ParserCases
  <2>5. [p EXCEPT !.isBegin = 0, !.done = TRUE].data = p.data
    BY DEF Parser
  <2> QED BY <2>2, <2>3, <2>4, <2>5 DEF h
<1> QED BY <1>15, <1>19, <1>20, <1>21

-----------------------------------------------------------------------------
\* What is complete in the ring was queued: no frame is cut when it is parsed.
QueuedOnly == Messages \in Seq(Msg)

RInv == IInv /\ QueuedOnly

(* The empty ring holds no message.                                        *)
LEMMA InitRefines == Init => RInv /\ Fifo!Init
<1> SUFFICES ASSUME Init PROVE RInv /\ Fifo!Init
  OBVIOUS
<1>1. ring = <<>> /\ <<>> \in Seq(Byte) /\ NoEnd(<<>>)
  BY DEF Init, NoEnd
<1>2. Messages = <<>>
  BY <1>1, NoMessages, MessagesAreMessagesOf
<1>3. <<>> \in Seq(Msg)
  OBVIOUS
<1>4. QueuedOnly
  BY <1>2, <1>3 DEF QueuedOnly
<1> QED BY <1>2, <1>4, InitIInv DEF RInv, Init, Fifo!Init

(* Every step of the publishers and of the task is a step of the lossy     *)
(* FIFO, or none; and what it leaves complete in the ring was queued.      *)
LEMMA StepRefines == RInv /\ [Next]_vars => QueuedOnly' /\ [Fifo!Next]_(Fifo!vars)
<1> SUFFICES ASSUME RInv, [Next]_vars PROVE QueuedOnly' /\ [Fifo!Next]_(Fifo!vars)
  OBVIOUS
<1>1. /\ ring \in Seq(Byte) /\ Len(ring) <= Size /\ Boundaries(ring)
      /\ pc \in {"idle", "puts", "gets"}
      /\ job \in Msg \cup {NoMsg} /\ (pc = "idle" <=> job = NoMsg)
  BY DEF RInv, IInv, TypeOK
<1>2. /\ Messages = MessagesOf(ring) /\ Messages' = MessagesOf(ring')
      /\ Messages \in Seq(Msg)
  BY DEF Messages, MessagesOf, RInv, QueuedOnly
<1>3. ASSUME NEW m \in Msg, MQTT_Publish(m)
      PROVE  QueuedOnly' /\ Fifo!Begin(m)
  <2>1. ring' = ring /\ job = NoMsg /\ job' = m /\ taken' = taken
    BY <1>1, <1>3 DEF MQTT_Publish
  <2>2. Messages' = Messages
    BY <1>2, <2>1
  <2> QED BY <1>2, <2>1, <2>2 DEF QueuedOnly, Fifo!Begin
<1>4. ASSUME NEW m \in Msg, QueueAnswer(m)
      PROVE  QueuedOnly' /\ Fifo!Answer(m)
  <2>1. ring' = PROTO_AddRb(ring, m) /\ job = NoMsg /\ job' = job /\ taken' = taken
    BY <1>1, <1>4 DEF QueueAnswer
  <2>2. Messages' = Messages \/ Messages' = Append(Messages, m)
    BY <1>1, <1>2, <2>1, AddMessages
  <2>3. Messages' \in Seq(Msg)
    BY <1>2, <2>2
  <2> QED BY <2>1, <2>2, <2>3 DEF QueuedOnly, Fifo!Answer
<1>5. ASSUME QUEUE_Puts
      PROVE  QueuedOnly' /\ (Fifo!Accept \/ UNCHANGED Fifo!vars)
  <2>1. /\ job \in Msg /\ job # NoMsg /\ ring' = PROTO_AddRb(ring, job) /\ taken' = taken
        /\ IF Fits(ring, job) THEN job' = NoMsg ELSE job' = job
    BY <1>1, <1>5, NoMsgAssumption DEF QUEUE_Puts
  <2>2. CASE Fits(ring, job)
    <3>1. Messages' = Append(Messages, job)
      BY <1>1, <1>2, <2>1, <2>2, AddMessages
    <3>2. Messages' \in Seq(Msg)
      BY <1>2, <2>1, <3>1
    <3> QED BY <2>1, <2>2, <3>1, <3>2 DEF QueuedOnly, Fifo!Accept
  <2>3. CASE ~Fits(ring, job)
    <3>1. Messages' = Messages
      BY <1>1, <1>2, <2>1, <2>3, AddMessages
    <3> QED BY <1>2, <2>1, <2>3, <3>1 DEF QueuedOnly, Fifo!vars
  <2> QED BY <2>2, <2>3
<1>6. ASSUME NEW k \in 1 .. Len(ring), FirstEnd(ring, k), ring' = Rest(ring, k)
      PROVE  /\ Messages # <<>> /\ Messages' = Tail(Messages) /\ QueuedOnly'
             /\ \A garbage \in {0, 1} :
                  Parse(SubSeq(ring, 1, k), garbage).data = Head(Messages)
  <2>1. PICK m \in Seq(Plain) :
          /\ MessagesOf(ring) = <<m>> \o MessagesOf(Rest(ring, k))
          /\ MessagesOf(Rest(ring, k)) \in Seq(Seq(Plain))
          /\ Len(m) <= BufSize =>
               \A garbage \in {0, 1} : Parse(SubSeq(ring, 1, k), garbage).data = m
    BY <1>1, <1>6, TakeMessages
  <2>2. PICK t \in Seq(Seq(Plain)) : t = MessagesOf(Rest(ring, k))
    BY <2>1
  <2>3. Messages = <<m>> \o t /\ Messages' = t
    BY <1>2, <1>6, <2>1, <2>2
  <2>4. /\ Messages # <<>> /\ Head(Messages) = m /\ Tail(Messages) = t
    <3> DEFINE T == Seq(Plain)
    <3>1. t \in Seq(T) /\ m \in T
      OBVIOUS
    <3> HIDE DEF T
    <3>2. <<m>> \o t # <<>> /\ Head(<<m>> \o t) = m /\ Tail(<<m>> \o t) = t
      BY <3>1
    <3> QED BY <2>3, <3>2
  <2>5. m \in Msg /\ t \in Seq(Msg)
    <3>1. PICK q \in Seq(Msg) : q = Messages
      BY <1>2
    <3>2. q # <<>> /\ Head(q) = m /\ Tail(q) = t
      BY <2>4, <3>1
    <3> QED BY <3>2, HeadTailProperties
  <2>6. \A garbage \in {0, 1} : Parse(SubSeq(ring, 1, k), garbage).data = m
    BY <2>1, <2>5, MsgAssumption
  <2> QED BY <2>3, <2>4, <2>5, <2>6 DEF QueuedOnly
<1>7. ASSUME EvictOldest
      PROVE  QueuedOnly' /\ Fifo!EvictOldest
  <2>1. PICK k \in 1 .. Len(ring) : FirstEnd(ring, k) /\ ring' = Rest(ring, k)
    BY <1>7 DEF EvictOldest
  <2>2. job # NoMsg /\ job' = job /\ taken' = taken
    BY <1>1, <1>7 DEF EvictOldest
  <2> QED BY <1>6, <2>1, <2>2 DEF Fifo!EvictOldest
<1>8. ASSUME NoEnd(ring), ring' = <<>>
      PROVE  Messages = <<>> /\ Messages' = <<>> /\ QueuedOnly'
  <2>1. <<>> \in Seq(Byte) /\ NoEnd(<<>>) /\ <<>> \in Seq(Msg)
    BY DEF NoEnd
  <2>2. Messages = <<>> /\ Messages' = <<>>
    BY <1>1, <1>2, <1>8, <2>1, NoMessages
  <2> QED BY <2>1, <2>2 DEF QueuedOnly
<1>9. ASSUME SeriousBufferError
      PROVE  QueuedOnly' /\ Fifo!Refuse
  <2>1. job # NoMsg /\ job' = NoMsg /\ taken' = taken /\ NoEnd(ring) /\ ring' = <<>>
    BY <1>1, <1>9 DEF SeriousBufferError
  <2> QED BY <1>8, <2>1 DEF Fifo!Refuse
<1>10. ASSUME TakeMessage
       PROVE  QueuedOnly' /\ Fifo!Take
  <2>1. PICK k \in 1 .. Len(ring), garbage \in {0, 1} :
          /\ FirstEnd(ring, k)
          /\ taken' = Parse(SubSeq(ring, 1, k), garbage).data
          /\ ring' = Rest(ring, k)
    BY <1>10 DEF TakeMessage
  <2>2. job = NoMsg /\ job' = job
    BY <1>1, <1>10 DEF TakeMessage
  <2>3. /\ Messages # <<>> /\ Messages' = Tail(Messages) /\ QueuedOnly'
        /\ taken' = Head(Messages)
    BY <1>6, <2>1
  <2> QED BY <2>2, <2>3 DEF Fifo!Take
<1>11. ASSUME TakeFails
       PROVE  QueuedOnly' /\ UNCHANGED Fifo!vars
  <2>1. job' = job /\ taken' = taken /\ NoEnd(ring) /\ ring' = <<>>
    BY <1>11 DEF TakeFails
  <2> QED BY <1>8, <2>1 DEF Fifo!vars
<1>12. ASSUME UNCHANGED vars
       PROVE  QueuedOnly' /\ UNCHANGED Fifo!vars
  <2>1. ring' = ring /\ job' = job /\ taken' = taken
    BY <1>12 DEF vars
  <2>2. Messages' = Messages
    BY <1>2, <2>1
  <2> QED BY <1>2, <2>1, <2>2 DEF QueuedOnly, Fifo!vars
<1> QED BY <1>3, <1>4, <1>5, <1>7, <1>9, <1>10, <1>11, <1>12 DEF Next, Loop, Fifo!Next

(* For every ring size, every buffer and all messages that fit the buffer: *)
(* the framed ring with its uninitialised parser, its partial frames and   *)
(* its evictions implements the lossy FIFO of messages.                    *)
THEOREM QueueImplementsLossyFifo == Spec => ImplementsLossyFifo
<1>1. RInv /\ [Next]_vars => RInv'
  BY NextKeepsIInv, StepRefines DEF RInv
<1>2. Spec => []RInv
  BY <1>1, InitRefines, PTL DEF Spec
<1> QED BY <1>2, InitRefines, StepRefines, PTL DEF Spec, ImplementsLossyFifo, Fifo!Spec

-----------------------------------------------------------------------------
\* For every ring size and message set: no parse starts in the middle of a
\* frame, so the uninitialised isBegin flag is never read, and the ring stays
\* within its size.
THEOREM ParsesStartAtFrames ==
    Spec => [](TypeOK /\ HeadIsFrameStart /\ EndsAreFollowedByStarts)
<1>1. Spec => []IInv
  BY InitIInv, NextKeepsIInv, PTL DEF Spec
<1>2. IInv => TypeOK /\ HeadIsFrameStart /\ EndsAreFollowedByStarts
  BY DEF IInv, Boundaries, HeadIsFrameStart, EndsAreFollowedByStarts
<1> QED BY <1>1, <1>2, PTL

\* What follows a frame end in the ring is the start of the next frame, or of
\* what was written of it.
THEOREM FramesStayApart == Spec => []EndsAreFollowedByStarts
BY ParsesStartAtFrames, PTL

\* Types alone: no sequence of writes and parses overfills the ring.
THEOREM RingNeverOverfills == Spec => []TypeOK
BY ParsesStartAtFrames, PTL
=============================================================================
