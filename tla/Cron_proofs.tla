---------------------------- MODULE Cron_proofs ----------------------------
(***************************************************************************)
(* Proofs about Cron, for every heap, all periods, delays and timeout      *)
(* names, and whatever the functions cron calls do to the lists while it   *)
(* walks them, as long as the application frees neither the last job or    *)
(* timeout of a list nor the one whose function is running: the theorems   *)
(* assume ~TailRemovals and ~OwnRemovals, and the run with tail removals   *)
(* shows that the first is needed.                                         *)
(*                                                                         *)
(* The invariant CInv says of some pair of sequences L that they are the   *)
(* two lists on the heap (Shape), that what a tick has still to serve lies *)
(* ahead of the timer function's pointer (Walking), and how long the jobs  *)
(* that are not due can have waited, given the counter (InTime).           *)
(***************************************************************************)
EXTENDS Cron, FiniteSetTheorems, TLAPS

-----------------------------------------------------------------------------
(* Least and greatest elements, and induction.                             *)

(* A set of natural numbers has a least element.                           *)
LEMMA Least ==
    ASSUME NEW T \in SUBSET Nat, T # {}
    PROVE  \E m \in T : \A n \in T : m <= n
  <1>1. \A x, y \in Nat : x < y => <<x, y>> \in OpToRel(<, Nat)
    BY Zenon DEF OpToRel
  <1>2. \E x \in T : \A y \in T : ~ (<<y, x>> \in OpToRel(<, Nat))
    BY WFMin, NatLessThanWellFounded, Zenon
  <1>3. \E x \in T : \A y \in T : ~ (y < x)
    BY <1>1, <1>2, Zenon
  <1>4. QED BY <1>3

(* Induction over the natural numbers, the property being a set.           *)
LEMMA Induction ==
    ASSUME NEW S, 0 \in S, \A n \in Nat : n \in S => n + 1 \in S
    PROVE  Nat \subseteq S
  <1>1. CASE Nat \ S # {}
    <2>1. PICK m \in Nat \ S : \A n \in Nat \ S : m <= n
      BY <1>1, Least
    <2>2. m - 1 \in Nat /\ m - 1 \in S
      BY <2>1
    <2>3. QED BY <2>1, <2>2
  <1>2. QED BY <1>1

(* What SelectInSeq finds: the least index.                                *)
LEMMA MinIsLeast ==
    ASSUME NEW I \in SUBSET Nat, I # {}
    PROVE  Min(I) \in I /\ \A i \in I : Min(I) <= i
  <1>1. \E m \in I : \A n \in I : m <= n
    BY Least
  <1>2. QED BY <1>1, Zenon DEF Min

(* A finite set of natural numbers has a greatest element.                 *)
LEMMA MaxIsGreatest ==
    ASSUME NEW S \in SUBSET Nat, S # {}, IsFiniteSet(S)
    PROVE  Max(S) \in S /\ \A s \in S : s <= Max(S)
  <1>0. PICK n \in Nat : ExistsSurjection(1 .. n, S)
    BY FS_NatSurjection
  <1>1. PICK f \in Surjection(1 .. n, S) : TRUE
    BY <1>0 DEF ExistsSurjection
  <1>2. f \in [1 .. n -> S] /\ \A s \in S : \E i \in 1 .. n : f[i] = s
    BY <1>1 DEF Surjection
  <1>n. \A i \in 1 .. n : f[i] \in S /\ f[i] \in Nat
    BY <1>2
  <1> DEFINE B == {k \in Nat : k <= n => \E b \in Nat : \A i \in 1 .. k : f[i] <= b}
  <1>3. 0 \in B
    OBVIOUS
  <1>4. ASSUME NEW k \in Nat, k \in B PROVE k + 1 \in B
    <2> SUFFICES ASSUME k + 1 <= n PROVE \E b \in Nat : \A i \in 1 .. k + 1 : f[i] <= b
      OBVIOUS
    <2>1. PICK b \in Nat : \A i \in 1 .. k : f[i] <= b
      BY <1>4
    <2>2. k + 1 \in 1 .. n
      OBVIOUS
    <2>f. f[k + 1] \in Nat
      BY <1>n, <2>2
    <2> DEFINE c == IF f[k + 1] <= b THEN b ELSE f[k + 1]
    <2>3. c \in Nat /\ c >= b /\ c >= f[k + 1]
      BY <2>f
    <2> HIDE DEF c
    <2>4. \A i \in 1 .. k + 1 : f[i] <= c
      <3> SUFFICES ASSUME NEW i \in 1 .. k + 1 PROVE f[i] <= c
        OBVIOUS
      <3>1. CASE i = k + 1
        BY <3>1, <2>3
      <3>2. CASE i \in 1 .. k
        <4>1. f[i] <= b /\ i \in 1 .. n
          BY <3>2, <2>1
        <4>2. f[i] \in Nat
          BY <4>1, <1>n
        <4>3. QED BY <4>1, <4>2, <2>3
      <3>3. QED BY <3>1, <3>2
    <2>5. QED BY <2>3, <2>4
  <1>5. Nat \subseteq B
    <2> HIDE DEF B
    <2> QED BY <1>3, <1>4, Induction
  <1>6. PICK b \in Nat : \A i \in 1 .. n : f[i] <= b
    <2>1. n \in B
      BY <1>5
    <2>2. QED BY <2>1
  <1> DEFINE U == {u \in Nat : \A s \in S : s <= u}
  <1>7. b \in U
    BY <1>2, <1>6
  <1>8. PICK m \in U : \A u \in U : m <= u
    <2>1. U \in SUBSET Nat /\ U # {}
      BY <1>7
    <2> HIDE DEF U
    <2>2. QED BY <2>1, Least
  <1>9. m \in S
    <2> SUFFICES ASSUME m \notin S PROVE FALSE
      OBVIOUS
    <2>0. m \in Nat /\ \A s \in S : s <= m
      BY <1>8
    <2> HIDE DEF U
    <2>1. ASSUME NEW s \in S PROVE m - 1 \in Nat /\ s <= m - 1
      <3>1. s \in Nat /\ s <= m /\ s # m
        BY <2>0
      <3>2. QED BY <3>1, <2>0
    <2>2. m - 1 \in Nat /\ \A s \in S : s <= m - 1
      BY <2>1
    <2>u. m - 1 \in U
      BY <2>2 DEF U
    <2>3. QED BY <2>u, <1>8, <2>0
  <1>10. \A s \in S : m >= s
    BY <1>8
  <1>11. QED
    <2>1. \E x \in S : \A y \in S : x >= y
      BY <1>9, <1>10
    <2>2. Max(S) \in S /\ \A y \in S : Max(S) >= y
      BY <2>1, Zenon DEF Max
    <2>3. QED BY <2>2

(* The longest period and the longest delay.                               *)
LEMMA Longest ==
    /\ MaxPeriod \in Nat \ {0} /\ \A p \in Periods : p \in Nat \ {0} /\ p <= MaxPeriod
    /\ Max(Delays) \in Nat /\ \A d \in Delays : d \in 0 .. Max(Delays)
    /\ Wrapped \in Nat
  <1>1. MaxPeriod \in Periods /\ \A p \in Periods : p <= MaxPeriod
    BY MaxIsGreatest, CronAssumption DEF MaxPeriod
  <1>2. Max(Delays) \in Delays /\ \A d \in Delays : d <= Max(Delays)
    BY MaxIsGreatest, CronAssumption
  <1>3. MaxPeriod \in Nat /\ Max(Delays) \in Nat
    BY <1>1, <1>2, CronAssumption
  <1>4. Wrapped \in Nat
    BY <1>3 DEF Wrapped
  <1>5. QED BY <1>1, <1>2, <1>3, <1>4, CronAssumption

-----------------------------------------------------------------------------
(* Remainders, for any period.                                             *)

(* Quotient and remainder.                                                 *)
LEMMA Dividing ==
    ASSUME NEW P \in Nat \ {0}, NEW k \in Nat
    PROVE  /\ k = (P * (k \div P)) + (k % P)
           /\ k \div P \in Nat /\ k % P \in 0 .. P - 1
           /\ k < P => k % P = k
           /\ P % P = 0
  OBVIOUS

(* Counting on by one adds one to the remainder or makes it zero.          *)
LEMMA NextRemainder ==
    ASSUME NEW P \in Nat \ {0}, NEW k \in Nat
    PROVE  (k + 1) % P = IF k % P = P - 1 THEN 0 ELSE (k % P) + 1
  <1> DEFINE q == k \div P
             u == (k + 1) \div P
             r == k % P
             s == (k + 1) % P
             d == u - q
  <1>1. /\ k = P * q + r /\ k + 1 = P * u + s
        /\ q \in Int /\ u \in Int /\ r \in 0 .. P - 1 /\ s \in 0 .. P - 1
    BY Dividing
  <1> HIDE DEF q, u, r, s
  <1>2. P * d = P * u - P * q /\ P * u \in Int /\ P * q \in Int
    BY <1>1
  <1>3. P * d = 1 + r - s /\ d \in Int
    BY <1>1, <1>2
  <1> HIDE DEF d
  <1>4. d \in {0, 1}
    <2>1. d >= 2 => P * d >= 2 * P
      BY <1>3
    <2>2. d <= -1 => P * d <= -P
      BY <1>3
    <2>3. QED BY <1>1, <1>3, <2>1, <2>2
  <1>5. s = IF r = P - 1 THEN 0 ELSE r + 1
    <2>1. CASE d = 0
      BY <2>1, <1>1, <1>3
    <2>2. CASE d = 1
      BY <2>2, <1>1, <1>3
    <2>3. QED BY <1>4, <2>1, <2>2
  <1>6. QED BY <1>5 DEF s, r

-----------------------------------------------------------------------------
(* The lists, for any heap: c is the list from fst to lst over the nodes   *)
(* nd.                                                                     *)

Elems(c) == {c[i] : i \in 1 .. Len(c)}

Linked(nd, fst, lst, c) ==
    /\ c \in Seq(Addr)
    /\ \A i, j \in 1 .. Len(c) : c[i] = c[j] => i = j
    /\ c = <<>> => fst = NULL /\ lst = NULL
    /\ c # <<>> => fst = c[1] /\ lst = c[Len(c)]
    /\ \A i \in 1 .. Len(c) : nd[c[i]].next = IF i = Len(c) THEN NULL ELSE c[i + 1]

\* Chain, with the heap and the first pointer as parameters.
PathFrom(nd, fst) ==
    LET upTo[n \in 0 .. Cardinality(Addr)] ==
          IF n = 0 THEN <<>>
          ELSE LET c == upTo[n - 1]
                   a == IF c = <<>> THEN fst ELSE nd[Last(c)].next
               IN  IF a = NULL THEN c ELSE Append(c, a)
    IN  upTo[Cardinality(Addr)]

\* One step along the chain.
Further(nd, fst, c) ==
    LET a == IF c = <<>> THEN fst ELSE nd[Last(c)].next
    IN  IF a = NULL THEN c ELSE Append(c, a)

(* An initial segment of a sequence and its next element.                  *)
LEMMA SegmentsOfSeq ==
    ASSUME NEW S, NEW c \in Seq(S), NEW n \in 0 .. Len(c)
    PROVE  /\ SubSeq(c, 1, n) \in Seq(S) /\ Len(SubSeq(c, 1, n)) = n
           /\ \A i \in 1 .. n : SubSeq(c, 1, n)[i] = c[i]
           /\ n = 0 => SubSeq(c, 1, n) = <<>>
           /\ n = Len(c) => SubSeq(c, 1, n) = c
           /\ n < Len(c) => Append(SubSeq(c, 1, n), c[n + 1]) = SubSeq(c, 1, n + 1)
  OBVIOUS

(* A list does not visit a node twice, so it is no longer than the heap.   *)
LEMMA NoLongerThanTheHeap ==
    ASSUME NEW nd, NEW fst, NEW lst, NEW c, Linked(nd, fst, lst, c)
    PROVE  Cardinality(Addr) \in Nat /\ Len(c) \in 0 .. Cardinality(Addr)
  <1>1. c \in Injection(1 .. Len(c), Addr)
    BY DEF Linked, Injection, IsInjective
  <1>2. Cardinality(1 .. Len(c)) = Len(c) /\ Len(c) \in Nat
    <2>1. Len(c) \in Nat
      BY DEF Linked
    <2> DEFINE n == Len(c)
    <2> HIDE DEF n
    <2>2. n \in Nat /\ n \in Int /\ 1 \in Int
      BY <2>1 DEF n
    <2>3. Cardinality(1 .. n) = IF 1 > n THEN 0 ELSE n - 1 + 1
      BY <2>2, FS_Interval, Zenon
    <2>4. Cardinality(1 .. n) = n
      BY <2>2, <2>3
    <2>5. QED BY <2>2, <2>4 DEF n
  <1>3. Cardinality(Addr) \in Nat /\ Cardinality(1 .. Len(c)) <= Cardinality(Addr)
    BY <1>1, CronAssumption, FS_Injection, FS_CardinalityType
  <1>4. QED BY <1>2, <1>3

(* Following next from the first node visits the list.                     *)
LEMMA FurtherAlong ==
    ASSUME NEW nd, NEW fst, NEW lst, NEW c, Linked(nd, fst, lst, c),
           NEW n \in 0 .. Len(c)
    PROVE  Further(nd, fst, SubSeq(c, 1, n)) =
             SubSeq(c, 1, IF n = Len(c) THEN n ELSE n + 1)
  <1> DEFINE p == SubSeq(c, 1, n)
  <1>0. c \in Seq(Addr) /\ Len(c) \in Nat /\ n \in Nat
    BY DEF Linked
  <1>1. /\ p \in Seq(Addr) /\ Len(p) = n
        /\ \A i \in 1 .. n : p[i] = c[i]
        /\ n = 0 => p = <<>>
        /\ n = Len(c) => p = c
        /\ n < Len(c) => Append(p, c[n + 1]) = SubSeq(c, 1, n + 1)
    BY <1>0, SegmentsOfSeq
  <1> HIDE DEF p
  <1> DEFINE a == IF p = <<>> THEN fst ELSE nd[Last(p)].next
  <1>2. a = IF n = Len(c) THEN NULL ELSE c[n + 1]
    <2>1. CASE n = 0
      BY <2>1, <1>0, <1>1 DEF Linked
    <2>2. CASE n > 0
      <3>1. p # <<>> /\ Last(p) = c[n]
        BY <2>2, <1>1 DEF Last
      <3>2. n \in 1 .. Len(c)
        BY <2>2
      <3>3. QED BY <3>1, <3>2 DEF Linked
    <2>3. QED BY <2>1, <2>2, <1>0
  <1>3. n < Len(c) => c[n + 1] \in Addr /\ c[n + 1] # NULL
    BY <1>0, CronAssumption
  <1>4. Further(nd, fst, p) = IF a = NULL THEN p ELSE Append(p, a)
    BY DEF Further
  <1> HIDE DEF a
  <1>5. QED
    <2>1. CASE n = Len(c)
      BY <2>1, <1>2, <1>4, <1>1 DEF p
    <2>2. CASE n < Len(c)
      <3>1. a = c[n + 1] /\ a # NULL /\ n # Len(c)
        BY <2>2, <1>2, <1>3
      <3>2. QED BY <3>1, <2>2, <1>4, <1>1 DEF p
    <2>3. QED BY <2>1, <2>2, <1>0

(* So it is the only list over this heap that begins there.                *)
LEMMA PathIsTheList ==
    ASSUME NEW nd, NEW fst, NEW lst, NEW c, Linked(nd, fst, lst, c)
    PROVE  PathFrom(nd, fst) = c
  <1> DEFINE N == Cardinality(Addr)
             Seen(n) == SubSeq(c, 1, IF n <= Len(c) THEN n ELSE Len(c))
             g == [n \in 0 .. N |-> Seen(n)]
             Body(f) == [n \in 0 .. N |->
                IF n = 0 THEN <<>>
                ELSE LET q == f[n - 1]
                         a == IF q = <<>> THEN fst ELSE nd[Last(q)].next
                     IN  IF a = NULL THEN q ELSE Append(q, a)]
  <1>a. N \in Nat /\ Len(c) \in 0 .. N
    BY NoLongerThanTheHeap
  <1>b. c \in Seq(Addr)
    BY DEF Linked
  <1>0. N \in Nat /\ Len(c) \in 0 .. N /\ c \in Seq(Addr)
    BY <1>a, <1>b
  <1>1. Seen(0) = <<>> /\ Seen(N) = c
    <2>1. (IF 0 <= Len(c) THEN 0 ELSE Len(c)) = 0 /\ (IF N <= Len(c) THEN N ELSE Len(c)) = Len(c)
      BY <1>0
    <2>2. SubSeq(c, 1, 0) = <<>> /\ SubSeq(c, 1, Len(c)) = c
      BY <1>0
    <2>3. QED BY <2>1, <2>2
  <1>2. ASSUME NEW n \in 1 .. N PROVE Seen(n) = Further(nd, fst, Seen(n - 1))
    <2> DEFINE m == IF n - 1 <= Len(c) THEN n - 1 ELSE Len(c)
    <2>1. m \in 0 .. Len(c)
          /\ (IF m = Len(c) THEN m ELSE m + 1) = IF n <= Len(c) THEN n ELSE Len(c)
      BY <1>0
    <2> HIDE DEF m
    <2>2. Further(nd, fst, SubSeq(c, 1, m)) = SubSeq(c, 1, IF m = Len(c) THEN m ELSE m + 1)
      BY <2>1, FurtherAlong
    <2>3. QED BY <2>1, <2>2 DEF m
  <1> HIDE DEF Seen
  <1>3. g = Body(g)
    <2>1. \A n \in 0 .. N : g[n] = IF n = 0 THEN <<>> ELSE Further(nd, fst, g[n - 1])
      <3> SUFFICES ASSUME NEW n \in 0 .. N
                   PROVE  g[n] = IF n = 0 THEN <<>> ELSE Further(nd, fst, g[n - 1])
        OBVIOUS
      <3>1. CASE n = 0
        BY <3>1, <1>1
      <3>2. CASE n # 0
        <4>1. n \in 1 .. N /\ n - 1 \in 0 .. N
          BY <3>2, <1>0
        <4>2. QED BY <4>1, <1>2, <3>2
      <3>3. QED BY <3>1, <3>2
    <2>2. g = [n \in 0 .. N |-> g[n]]
      OBVIOUS
    <2> HIDE DEF g, N
    <2>3. QED BY <2>1, <2>2, Zenon DEF Further
  <1>4. \E f : f = Body(f) /\ PathFrom(nd, fst) = f[N]
    BY <1>3, Zenon DEF PathFrom
  <1>5. PICK f : f = Body(f) /\ PathFrom(nd, fst) = f[N]
    BY <1>4
  <1>6. \A n \in 0 .. N : f[n] = IF n = 0 THEN <<>> ELSE Further(nd, fst, f[n - 1])
    BY <1>5, Zenon DEF Further
  <1> HIDE DEF Body, g
  <1> DEFINE S == {n \in Nat : n <= N => f[n] = Seen(n)}
  <1>7. 0 \in S
    BY <1>0, <1>1, <1>6
  <1>8. ASSUME NEW n \in Nat, n \in S PROVE n + 1 \in S
    <2> SUFFICES ASSUME n + 1 <= N PROVE f[n + 1] = Seen(n + 1)
      OBVIOUS
    <2>1. n + 1 \in 0 .. N /\ n + 1 \in 1 .. N /\ n + 1 # 0 /\ (n + 1) - 1 = n /\ n <= N
      BY <1>0
    <2>2. f[n + 1] = Further(nd, fst, f[n])
      BY <1>6, <2>1
    <2>3. Seen(n + 1) = Further(nd, fst, Seen(n))
      BY <1>2, <2>1
    <2>4. QED BY <2>1, <2>2, <2>3, <1>8
  <1>9. Nat \subseteq S
    <2> HIDE DEF S
    <2> QED BY <1>7, <1>8, Induction
  <1>10. f[N] = Seen(N)
    <2>1. N \in S
      BY <1>0, <1>9
    <2>2. QED BY <2>1, <1>0
  <1>11. QED BY <1>1, <1>5, <1>10

-----------------------------------------------------------------------------
(* What the calls of the application make of a list.                       *)

Inserted(c, k, a) ==
    [i \in 1 .. Len(c) + 1 |-> IF i < k THEN c[i] ELSE IF i = k THEN a ELSE c[i - 1]]

Removed(c, k) == [i \in 1 .. Len(c) - 1 |-> IF i < k THEN c[i] ELSE c[i + 1]]

\* The nodes the walk has still to visit, standing at cur: that one too,
\* unless its function is running.
Ahead(c, cur, fn) ==
    {c[i] : i \in {k \in 1 .. Len(c) :
        \E p \in 1 .. Len(c) : c[p] = cur /\ (p < k \/ (p = k /\ ~fn))}}

(* Nodes of other lists may change.                                        *)
LEMMA LinkedElsewhere ==
    ASSUME NEW nd, NEW fst, NEW lst, NEW c, Linked(nd, fst, lst, c),
           NEW nd2, \A a \in Elems(c) : nd2[a].next = nd[a].next
    PROVE  Linked(nd2, fst, lst, c)
  BY DEF Linked, Elems

(* A list of one node.                                                     *)
LEMMA LinkedOnly ==
    ASSUME NEW nd, NEW a \in Addr, nd[a].next = NULL
    PROVE  Linked(nd, a, a, <<a>>) /\ Elems(<<a>>) = {a}
  BY DEF Linked, Elems

(* The empty list.                                                         *)
LEMMA LinkedEmpty ==
    ASSUME NEW nd
    PROVE  Linked(nd, NULL, NULL, <<>>) /\ Elems(<<>>) = {}
  BY DEF Linked, Elems

(* A node linked behind the last one.                                      *)
LEMMA LinkedLast ==
    ASSUME NEW nd, NEW fst, NEW lst, NEW c, Linked(nd, fst, lst, c), c # <<>>,
           NEW a \in Addr \ Elems(c), NEW nd2,
           nd2[a].next = NULL, nd2[lst].next = a,
           \A b \in Elems(c) \ {lst} : nd2[b].next = nd[b].next
    PROVE  Linked(nd2, fst, a, Append(c, a))
  <1> DEFINE d == Append(c, a)
  <1>1. c \in Seq(Addr) /\ Len(c) \in Nat \ {0} /\ lst = c[Len(c)] /\ fst = c[1]
    BY DEF Linked
  <1>2. /\ d \in Seq(Addr) /\ Len(d) = Len(c) + 1 /\ d[Len(c) + 1] = a
        /\ \A i \in 1 .. Len(c) : d[i] = c[i]
    BY <1>1
  <1> HIDE DEF d
  <1>3. \A i \in 1 .. Len(c) : c[i] \in Elems(c) /\ c[i] # a
    BY DEF Elems
  <1>4. \A i, j \in 1 .. Len(d) : d[i] = d[j] => i = j
    <2> SUFFICES ASSUME NEW i \in 1 .. Len(d), NEW j \in 1 .. Len(d), d[i] = d[j] PROVE i = j
      OBVIOUS
    <2>1. CASE i \in 1 .. Len(c) /\ j \in 1 .. Len(c)
      BY <2>1, <1>2 DEF Linked
    <2>2. CASE i = Len(c) + 1 \/ j = Len(c) + 1
      BY <2>2, <1>1, <1>2, <1>3
    <2>3. QED BY <1>1, <1>2, <2>1, <2>2
  <1>5. ASSUME NEW i \in 1 .. Len(d)
        PROVE  nd2[d[i]].next = IF i = Len(d) THEN NULL ELSE d[i + 1]
    <2>1. CASE i = Len(c) + 1
      BY <2>1, <1>1, <1>2
    <2>2. CASE i = Len(c)
      BY <2>2, <1>1, <1>2
    <2>3. CASE i \in 1 .. Len(c) - 1
      <3>1. i \in 1 .. Len(c) /\ i + 1 \in 1 .. Len(c) /\ i # Len(c) /\ Len(c) \in 1 .. Len(c)
        BY <2>3, <1>1
      <3>2. c[i] # lst
        BY <1>1, <3>1 DEF Linked
      <3>3. nd2[c[i]].next = c[i + 1]
        BY <1>3, <3>1, <3>2 DEF Linked
      <3>4. QED BY <1>1, <1>2, <3>1, <3>3
    <2>4. QED BY <1>1, <1>2, <2>1, <2>2, <2>3
  <1>6. d # <<>> /\ fst = d[1] /\ a = d[Len(d)]
    BY <1>1, <1>2
  <1>7. Linked(nd2, fst, a, d)
    BY <1>2, <1>4, <1>5, <1>6 DEF Linked
  <1>8. QED BY <1>7 DEF d

(* What is in the new lists, and what lies ahead.                          *)
LEMMA ElemsOfAppended ==
    ASSUME NEW c \in Seq(Addr), NEW a \in Addr
    PROVE  /\ Elems(Append(c, a)) = Elems(c) \cup {a}
           /\ \A cur, fn : Ahead(c, cur, fn) \subseteq Ahead(Append(c, a), cur, fn)
  <1> DEFINE d == Append(c, a)
  <1>1. /\ d \in Seq(Addr) /\ Len(d) = Len(c) + 1 /\ d[Len(c) + 1] = a
        /\ \A i \in 1 .. Len(c) : d[i] = c[i]
    OBVIOUS
  <1>2. Len(c) \in Nat
    OBVIOUS
  <1> HIDE DEF d
  <1>3. 1 .. Len(d) = 1 .. Len(c) \cup {Len(c) + 1}
    BY <1>1, <1>2
  <1>4. Elems(d) = Elems(c) \cup {a}
    BY <1>1, <1>3 DEF Elems
  <1>5. \A cur, fn : Ahead(c, cur, fn) \subseteq Ahead(d, cur, fn)
    BY <1>1, <1>3 DEF Ahead
  <1>6. QED BY <1>4, <1>5 DEF d

(* The same for a node linked in front of the k-th one.                    *)
LEMMA ElemsOfInserted ==
    ASSUME NEW c \in Seq(Addr), NEW k \in 1 .. Len(c), NEW a \in Addr
    PROVE  /\ Elems(Inserted(c, k, a)) = Elems(c) \cup {a}
           /\ \A cur, fn : Ahead(c, cur, fn) \subseteq Ahead(Inserted(c, k, a), cur, fn)
           /\ Inserted(c, k, a) \in Seq(Addr) /\ Len(Inserted(c, k, a)) = Len(c) + 1
  <1> DEFINE d == Inserted(c, k, a)
             at(i) == IF i < k THEN i ELSE i + 1
  <1>0. Len(c) \in Nat /\ k \in Nat
    OBVIOUS
  <1>1. \A i \in 1 .. Len(c) + 1 : d[i] = IF i < k THEN c[i] ELSE IF i = k THEN a ELSE c[i - 1]
    BY DEF Inserted
  <1>2. DOMAIN d = 1 .. Len(c) + 1
    BY DEF Inserted
  <1>3. \A i \in 1 .. Len(c) + 1 : d[i] \in Addr
    BY <1>0, <1>1
  <1>4. d \in Seq(Addr) /\ Len(d) = Len(c) + 1
    <2>1. d \in [1 .. Len(c) + 1 -> Addr]
      BY <1>3 DEF Inserted
    <2> HIDE DEF d
    <2>2. QED BY <2>1, <1>0
  <1> HIDE DEF d
  <1>5. \A i \in 1 .. Len(c) : at(i) \in 1 .. Len(d) /\ d[at(i)] = c[i]
    <2> SUFFICES ASSUME NEW i \in 1 .. Len(c) PROVE at(i) \in 1 .. Len(d) /\ d[at(i)] = c[i]
      OBVIOUS
    <2>1. CASE i < k
      BY <2>1, <1>0, <1>1, <1>4
    <2>2. CASE i >= k
      <3>1. i + 1 \in 1 .. Len(c) + 1 /\ ~(i + 1 < k) /\ i + 1 # k /\ i + 1 - 1 = i /\ ~(i < k)
        BY <2>2, <1>0
      <3>2. QED BY <3>1, <1>1, <1>4
    <2>3. QED BY <1>0, <2>1, <2>2
  <1>6. \A i, j \in 1 .. Len(c) : i < j => at(i) < at(j)
    BY <1>0
  <1>7. d[k] = a /\ k \in 1 .. Len(d)
    BY <1>0, <1>1, <1>4
  <1>8. \A i \in 1 .. Len(d) : i # k => d[i] \in Elems(c)
    BY <1>0, <1>1, <1>4 DEF Elems
  <1> HIDE DEF at
  <1>9. Elems(d) = Elems(c) \cup {a}
    <2>1. Elems(c) \subseteq Elems(d)
      BY <1>5 DEF Elems
    <2>2. a \in Elems(d)
      BY <1>7 DEF Elems
    <2>3. \A x \in Elems(d) : x \in Elems(c) \/ x = a
      <3> TAKE x \in Elems(d)
      <3>1. PICK i \in 1 .. Len(d) : x = d[i]
        BY DEF Elems
      <3>2. QED BY <1>7, <1>8, <3>1
    <2>4. QED BY <2>1, <2>2, <2>3
  <1>10. \A cur, fn : Ahead(c, cur, fn) \subseteq Ahead(d, cur, fn)
    BY <1>5, <1>6 DEF Ahead
  <1>11. QED BY <1>4, <1>9, <1>10 DEF d

(* The same for the k-th node taken out; cur is another one.               *)
LEMMA ElemsOfRemoved ==
    ASSUME NEW nd, NEW fst, NEW lst, NEW c, Linked(nd, fst, lst, c),
           NEW k \in 1 .. Len(c) - 1
    PROVE  /\ Elems(Removed(c, k)) = Elems(c) \ {c[k]}
           /\ \A cur, fn : cur # c[k] =>
                 Ahead(c, cur, fn) \ {c[k]} \subseteq Ahead(Removed(c, k), cur, fn)
           /\ Removed(c, k) \in Seq(Addr) /\ Len(Removed(c, k)) = Len(c) - 1
  <1> DEFINE d == Removed(c, k)
             at(i) == IF i < k THEN i ELSE i - 1
  <1>0. Len(c) \in Nat /\ k \in Nat /\ c \in Seq(Addr)
    BY DEF Linked
  <1>1. \A i \in 1 .. Len(c) - 1 : d[i] = IF i < k THEN c[i] ELSE c[i + 1]
    BY DEF Removed
  <1>3. \A i \in 1 .. Len(c) - 1 : d[i] \in Addr
    BY <1>0, <1>1
  <1>4. d \in Seq(Addr) /\ Len(d) = Len(c) - 1
    <2>1. d \in [1 .. Len(c) - 1 -> Addr]
      BY <1>3 DEF Removed
    <2>2. Len(c) - 1 \in Nat
      BY <1>0
    <2> HIDE DEF d
    <2>3. QED BY <2>1, <2>2
  <1> HIDE DEF d
  <1>5. \A i \in 1 .. Len(c) : i # k => at(i) \in 1 .. Len(d) /\ d[at(i)] = c[i]
    <2> SUFFICES ASSUME NEW i \in 1 .. Len(c), i # k PROVE at(i) \in 1 .. Len(d) /\ d[at(i)] = c[i]
      OBVIOUS
    <2>1. CASE i < k
      BY <2>1, <1>0, <1>1, <1>4
    <2>2. CASE i > k
      <3>1. i - 1 \in 1 .. Len(c) - 1 /\ ~(i - 1 < k) /\ i - 1 + 1 = i /\ ~(i < k)
        BY <2>2, <1>0
      <3>2. QED BY <3>1, <1>1, <1>4
    <2>3. QED BY <1>0, <2>1, <2>2
  <1>6. \A i, j \in 1 .. Len(c) : i # k /\ j # k /\ i < j => at(i) < at(j)
    BY <1>0
  <1>7. \A i \in 1 .. Len(d) : \E j \in 1 .. Len(c) : j # k /\ d[i] = c[j]
    <2> SUFFICES ASSUME NEW i \in 1 .. Len(d) PROVE \E j \in 1 .. Len(c) : j # k /\ d[i] = c[j]
      OBVIOUS
    <2>1. CASE i < k
      <3>1. i \in 1 .. Len(c) /\ i # k /\ d[i] = c[i]
        BY <2>1, <1>0, <1>1, <1>4
      <3>2. QED BY <3>1
    <2>2. CASE i >= k
      <3>1. i + 1 \in 1 .. Len(c) /\ i + 1 # k /\ d[i] = c[i + 1]
        BY <2>2, <1>0, <1>1, <1>4
      <3>2. QED BY <3>1
    <2>3. QED BY <1>0, <1>4, <2>1, <2>2
  <1>k. k \in 1 .. Len(c)
    BY <1>0
  <1>8. \A j \in 1 .. Len(c) : j # k => c[j] # c[k]
    BY <1>k DEF Linked
  <1> HIDE DEF at
  <1>9. Elems(d) = Elems(c) \ {c[k]}
    <2>1. \A x \in Elems(c) \ {c[k]} : x \in Elems(d)
      <3> TAKE x \in Elems(c) \ {c[k]}
      <3>1. PICK i \in 1 .. Len(c) : x = c[i]
        BY DEF Elems
      <3>2. i # k
        BY <3>1
      <3>3. QED BY <1>5, <3>1, <3>2 DEF Elems
    <2>2. \A x \in Elems(d) : x \in Elems(c) \ {c[k]}
      <3> TAKE x \in Elems(d)
      <3>1. PICK i \in 1 .. Len(d) : x = d[i]
        BY DEF Elems
      <3>2. PICK j \in 1 .. Len(c) : j # k /\ d[i] = c[j]
        BY <1>7
      <3>3. QED BY <1>8, <3>1, <3>2 DEF Elems
    <2>3. QED BY <2>1, <2>2
  <1>10. \A cur, fn : cur # c[k] =>
            \A x \in Ahead(c, cur, fn) \ {c[k]} : x \in Ahead(d, cur, fn)
    <2> TAKE cur, fn
    <2> HAVE cur # c[k]
    <2> TAKE x \in Ahead(c, cur, fn) \ {c[k]}
    <2>1. PICK i \in 1 .. Len(c) : x = c[i] /\ \E p \in 1 .. Len(c) : c[p] = cur /\ (p < i \/ (p = i /\ ~fn))
      BY DEF Ahead
    <2>2. PICK p \in 1 .. Len(c) : c[p] = cur /\ (p < i \/ (p = i /\ ~fn))
      BY <2>1
    <2>3. i # k /\ p # k
      BY <2>1, <2>2
    <2>4. /\ at(i) \in 1 .. Len(d) /\ d[at(i)] = x /\ at(p) \in 1 .. Len(d) /\ d[at(p)] = cur
          /\ at(p) < at(i) \/ (at(p) = at(i) /\ ~fn)
      BY <1>5, <1>6, <2>1, <2>2, <2>3
    <2>5. QED BY <2>4 DEF Ahead
  <1>11. QED BY <1>4, <1>9, <1>10 DEF d

(* A node linked in front of the k-th one.                                 *)
LEMMA LinkedInserted ==
    ASSUME NEW nd, NEW fst, NEW lst, NEW c, Linked(nd, fst, lst, c),
           NEW k \in 1 .. Len(c), NEW a \in Addr \ Elems(c), NEW nd2,
           nd2[a].next = c[k],
           k > 1 => nd2[c[k - 1]].next = a,
           \A i \in 1 .. Len(c) : i # k - 1 => nd2[c[i]].next = nd[c[i]].next
    PROVE  Linked(nd2, IF k = 1 THEN a ELSE fst, lst, Inserted(c, k, a))
  <1> DEFINE d == Inserted(c, k, a)
  <1>0. Len(c) \in Nat /\ k \in Nat /\ c \in Seq(Addr) /\ lst = c[Len(c)] /\ fst = c[1]
    BY DEF Linked
  <1>1. \A i \in 1 .. Len(c) + 1 : d[i] = IF i < k THEN c[i] ELSE IF i = k THEN a ELSE c[i - 1]
    BY DEF Inserted
  <1>2. d \in Seq(Addr) /\ Len(d) = Len(c) + 1
    BY <1>0, ElemsOfInserted
  <1> HIDE DEF d
  <1>3. \A i \in 1 .. Len(c) : c[i] # a
    BY DEF Elems
  <1>4. ASSUME NEW i \in 1 .. Len(d), NEW j \in 1 .. Len(d), d[i] = d[j] PROVE i = j
    <2> DEFINE of(n) == IF n < k THEN n ELSE n - 1
    <2>1. \A n \in 1 .. Len(d) : n # k => of(n) \in 1 .. Len(c) /\ d[n] = c[of(n)] /\ d[n] # a
      <3> TAKE n \in 1 .. Len(d)
      <3> HAVE n # k
      <3>1. CASE n < k
        BY <3>1, <1>0, <1>1, <1>2, <1>3
      <3>2. CASE n > k
        <4>1. n - 1 \in 1 .. Len(c) /\ ~(n < k) /\ n \in 1 .. Len(c) + 1
          BY <3>2, <1>0, <1>2
        <4>2. QED BY <4>1, <1>1, <1>3
      <3>3. QED BY <1>0, <1>2, <3>1, <3>2
    <2>2. d[k] = a
      BY <1>0, <1>1
    <2>3. CASE i = k \/ j = k
      BY <2>3, <2>1, <2>2, <1>4
    <2>4. CASE i # k /\ j # k
      <3>1. /\ of(i) \in 1 .. Len(c) /\ of(j) \in 1 .. Len(c)
            /\ d[i] = c[of(i)] /\ d[j] = c[of(j)] /\ c[of(i)] = c[of(j)]
        BY <2>4, <2>1, <1>4
      <3>2. of(i) = of(j)
        <4> HIDE DEF of
        <4> QED BY <3>1 DEF Linked
      <3>3. QED BY <3>2, <2>4, <1>0, <1>2
    <2>5. QED BY <2>3, <2>4
  <1>5. ASSUME NEW i \in 1 .. Len(d)
        PROVE  nd2[d[i]].next = IF i = Len(d) THEN NULL ELSE d[i + 1]
    <2>1. CASE i = k
      <3>1. d[i] = a /\ i # Len(d) /\ i + 1 \in 1 .. Len(c) + 1 /\ ~(i + 1 < k) /\ i + 1 # k
            /\ i + 1 - 1 = k
        BY <2>1, <1>0, <1>1, <1>2
      <3>2. d[i + 1] = c[k]
        BY <3>1, <1>1
      <3>3. QED BY <3>1, <3>2
    <2>2. CASE i = k - 1
      <3>1. d[i] = c[k - 1] /\ i # Len(d) /\ d[i + 1] = a /\ k > 1
        BY <2>2, <1>0, <1>1, <1>2
      <3>2. QED BY <3>1
    <2>3. CASE i < k - 1
      <3>1. /\ d[i] = c[i] /\ i # Len(d) /\ d[i + 1] = c[i + 1]
            /\ i \in 1 .. Len(c) /\ i # Len(c) /\ i # k - 1
        BY <2>3, <1>0, <1>1, <1>2
      <3>2. nd2[c[i]].next = c[i + 1]
        BY <3>1 DEF Linked
      <3>3. QED BY <3>1, <3>2
    <2>4. CASE i > k
      <3> DEFINE m == i - 1
      <3>0. i \in Int /\ i <= Len(c) + 1 /\ Len(d) = Len(c) + 1
        BY <1>2
      <3>a. m \in 1 .. Len(c) /\ m # k - 1
        BY <2>4, <3>0, <1>0
      <3>b. (i = Len(d)) <=> (m = Len(c))
        BY <3>0, <1>0
      <3>c. i \in 1 .. Len(c) + 1 /\ ~(i < k) /\ i # k
        BY <2>4, <3>0, <1>0
      <3>d. d[i] = c[m]
        BY <3>c, <1>1
      <3>1. /\ d[i] = c[m] /\ m \in 1 .. Len(c) /\ m # k - 1
            /\ (i = Len(d)) <=> (m = Len(c))
        BY <3>a, <3>b, <3>d
      <3>2. i # Len(d) => d[i + 1] = c[m + 1]
        <4> SUFFICES ASSUME i # Len(d) PROVE d[i + 1] = c[m + 1]
          OBVIOUS
        <4>1. i + 1 \in 1 .. Len(c) + 1 /\ ~(i + 1 < k) /\ i + 1 # k /\ i + 1 - 1 = m + 1
          BY <2>4, <3>0, <1>0
        <4>2. QED BY <4>1, <1>1
      <3> HIDE DEF m
      <3>3. nd2[c[m]].next = IF m = Len(c) THEN NULL ELSE c[m + 1]
        BY <3>1 DEF Linked
      <3>4. QED BY <3>1, <3>2, <3>3
    <2>5. QED BY <1>0, <1>2, <2>1, <2>2, <2>3, <2>4
  <1>6. d # <<>> /\ (IF k = 1 THEN a ELSE fst) = d[1] /\ lst = d[Len(d)]
    <2>1. d[1] = IF k = 1 THEN a ELSE fst
      BY <1>0, <1>1
    <2>2. /\ Len(c) + 1 \in 1 .. Len(c) + 1 /\ ~(Len(c) + 1 < k) /\ Len(c) + 1 # k
          /\ Len(c) + 1 - 1 = Len(c)
      BY <1>0
    <2>3. d[Len(c) + 1] = lst
      BY <2>2, <1>0, <1>1
    <2>4. QED BY <1>0, <1>2, <2>1, <2>3
  <1>7. Linked(nd2, IF k = 1 THEN a ELSE fst, lst, d)
    BY <1>2, <1>4, <1>5, <1>6 DEF Linked
  <1>8. QED BY <1>7 DEF d

(* The k-th node, not the last one, taken out.                             *)
LEMMA LinkedRemoved ==
    ASSUME NEW nd, NEW fst, NEW lst, NEW c, Linked(nd, fst, lst, c),
           NEW k \in 1 .. Len(c) - 1, NEW nd2,
           k > 1 => nd2[c[k - 1]].next = nd[c[k]].next,
           \A i \in 1 .. Len(c) : i # k - 1 => nd2[c[i]].next = nd[c[i]].next
    PROVE  Linked(nd2, IF k = 1 THEN nd[c[k]].next ELSE fst, lst, Removed(c, k))
  <1> DEFINE d == Removed(c, k)
  <1>0. /\ Len(c) \in Nat /\ k \in Nat /\ c \in Seq(Addr) /\ lst = c[Len(c)] /\ fst = c[1]
        /\ k + 1 \in 1 .. Len(c) /\ k \in 1 .. Len(c) /\ k # Len(c)
    BY DEF Linked
  <1>1. \A i \in 1 .. Len(c) - 1 : d[i] = IF i < k THEN c[i] ELSE c[i + 1]
    BY DEF Removed
  <1>2. d \in Seq(Addr) /\ Len(d) = Len(c) - 1
    BY ElemsOfRemoved
  <1>n. nd[c[k]].next = c[k + 1]
    BY <1>0 DEF Linked
  <1> HIDE DEF d
  <1>4. ASSUME NEW i \in 1 .. Len(d), NEW j \in 1 .. Len(d), d[i] = d[j] PROVE i = j
    <2> DEFINE of(n) == IF n < k THEN n ELSE n + 1
    <2>1. of(i) \in 1 .. Len(c) /\ of(j) \in 1 .. Len(c) /\ d[i] = c[of(i)] /\ d[j] = c[of(j)]
      BY <1>0, <1>1, <1>2
    <2>2. of(i) = of(j)
      <3> HIDE DEF of
      <3>1. \A x, y \in 1 .. Len(c) : c[x] = c[y] => x = y
        BY Zenon DEF Linked
      <3>2. QED BY <2>1, <3>1, <1>4, Zenon
    <2>3. i \in Nat /\ j \in Nat /\ k \in Nat
      BY <1>0, <1>2
    <2>4. QED BY <2>2, <2>3
  <1>5. ASSUME NEW i \in 1 .. Len(d)
        PROVE  nd2[d[i]].next = IF i = Len(d) THEN NULL ELSE d[i + 1]
    <2>1. CASE i < k - 1
      <3>1. /\ i \in 1 .. Len(c) - 1 /\ i + 1 \in 1 .. Len(c) - 1 /\ i < k /\ i + 1 < k
            /\ i # Len(d) /\ i \in 1 .. Len(c) /\ i # Len(c) /\ i # k - 1
        BY <2>1, <1>0, <1>2
      <3>e. d[i] = c[i] /\ d[i + 1] = c[i + 1]
        BY <3>1, <1>1
      <3>2. nd2[c[i]].next = c[i + 1]
        BY <3>1 DEF Linked
      <3>3. QED BY <3>1, <3>e, <3>2
    <2>2. CASE i = k - 1
      <3>1. d[i] = c[k - 1] /\ i # Len(d) /\ d[i + 1] = c[k + 1] /\ k > 1
        BY <2>2, <1>0, <1>1, <1>2
      <3>2. QED BY <3>1, <1>n
    <2>3. CASE i >= k
      <3> DEFINE m == i + 1
      <3>1. /\ i \in 1 .. Len(c) - 1 /\ ~(i < k) /\ m \in 1 .. Len(c) /\ m # k - 1
            /\ (i = Len(d)) <=> (m = Len(c))
            /\ i # Len(d) => i + 1 \in 1 .. Len(c) - 1 /\ ~(i + 1 < k) /\ (i + 1) + 1 = m + 1
        <4> DEFINE n == Len(c)  u == Len(d)
        <4>1. n \in Nat /\ u = n - 1 /\ i \in 1 .. u /\ k \in Nat /\ k <= i
          BY <2>3, <1>0, <1>2
        <4> HIDE DEF n, u
        <4>2. /\ i \in 1 .. n - 1 /\ ~(i < k) /\ m \in 1 .. n /\ m # k - 1
              /\ (i = u) <=> (m = n)
              /\ i # u => i + 1 \in 1 .. n - 1 /\ ~(i + 1 < k) /\ (i + 1) + 1 = m + 1
          BY <4>1
        <4>3. QED BY <4>2 DEF n, u
      <3>e. d[i] = c[m]
        BY <3>1, <1>1
      <3>2. i # Len(d) => d[i + 1] = c[m + 1]
        BY <3>1, <1>1
      <3> HIDE DEF m
      <3>3. nd2[c[m]].next = IF m = Len(c) THEN NULL ELSE c[m + 1]
        BY <3>1 DEF Linked
      <3>4. QED BY <3>1, <3>e, <3>2, <3>3
    <2>4. QED BY <1>0, <1>2, <2>1, <2>2, <2>3
  <1>6. d # <<>> /\ (IF k = 1 THEN nd[c[k]].next ELSE fst) = d[1] /\ lst = d[Len(d)]
    <2>1. d[1] = IF k = 1 THEN nd[c[k]].next ELSE fst
      BY <1>0, <1>1, <1>n
    <2>2. Len(c) - 1 \in 1 .. Len(c) - 1 /\ ~(Len(c) - 1 < k) /\ Len(c) - 1 + 1 = Len(c)
      BY <1>0
    <2>3. d[Len(c) - 1] = lst
      BY <2>2, <1>0, <1>1
    <2>4. QED BY <1>0, <1>2, <2>1, <2>3
  <1>7. Linked(nd2, IF k = 1 THEN nd[c[k]].next ELSE fst, lst, d)
    BY <1>2, <1>4, <1>5, <1>6 DEF Linked
  <1>8. QED BY <1>7 DEF d

(* The walk.  It starts with the whole list ahead, and ends with nothing.  *)
LEMMA WalkStarts ==
    ASSUME NEW nd, NEW fst, NEW lst, NEW c, Linked(nd, fst, lst, c)
    PROVE  Elems(c) \subseteq Ahead(c, fst, FALSE) /\ fst \in Elems(c) \cup {NULL}
  <1>0. Len(c) \in Nat /\ c \in Seq(Addr)
    BY DEF Linked
  <1>1. CASE c = <<>>
    BY <1>1 DEF Linked, Elems
  <1>2. CASE c # <<>>
    <2>1. fst = c[1] /\ 1 \in 1 .. Len(c)
      BY <1>0, <1>2 DEF Linked
    <2>2. \A i \in 1 .. Len(c) : \E p \in 1 .. Len(c) : c[p] = fst /\ (p < i \/ (p = i /\ ~FALSE))
      BY <2>1, <1>0
    <2>3. QED BY <2>1, <2>2 DEF Elems, Ahead
  <1>3. QED BY <1>1, <1>2

(* Serving the current node leaves the rest ahead, and next leads to it.   *)
LEMMA WalkGoesOn ==
    ASSUME NEW nd, NEW fst, NEW lst, NEW c, Linked(nd, fst, lst, c),
           NEW cur \in Elems(c)
    PROVE  /\ nd[cur].next \in Elems(c) \cup {NULL}
           /\ Ahead(c, cur, FALSE) \ {cur} \subseteq Ahead(c, cur, TRUE)
           /\ Ahead(c, cur, TRUE) \subseteq Ahead(c, nd[cur].next, FALSE)
  <1>0. Len(c) \in Nat /\ c \in Seq(Addr)
    BY DEF Linked
  <1>1. PICK p \in 1 .. Len(c) : c[p] = cur
    BY DEF Elems
  <1>2. \A q \in 1 .. Len(c) : c[q] = cur => q = p
    BY <1>1 DEF Linked
  <1>3. nd[cur].next = IF p = Len(c) THEN NULL ELSE c[p + 1]
    BY <1>1 DEF Linked
  <1>4. nd[cur].next \in Elems(c) \cup {NULL}
    <2>1. p # Len(c) => p + 1 \in 1 .. Len(c)
      BY <1>0
    <2>2. QED BY <1>3, <2>1 DEF Elems
  <1>5. \A x \in Ahead(c, cur, FALSE) \ {cur} : x \in Ahead(c, cur, TRUE)
    BY <1>0, <1>1, <1>2 DEF Ahead
  <1>6. \A x \in Ahead(c, cur, TRUE) : x \in Ahead(c, nd[cur].next, FALSE)
    <2> TAKE x \in Ahead(c, cur, TRUE)
    <2>1. PICK i \in 1 .. Len(c) : x = c[i] /\ p < i
      BY <1>1, <1>2 DEF Ahead
    <2>2. p # Len(c) /\ p + 1 \in 1 .. Len(c) /\ (p + 1 < i \/ (p + 1 = i /\ ~FALSE))
      BY <1>0, <2>1
    <2>3. c[p + 1] = nd[cur].next
      BY <1>3, <2>2
    <2>4. QED BY <2>1, <2>2, <2>3 DEF Ahead
  <1>7. QED BY <1>4, <1>5, <1>6

(* At the end of the list, or nowhere in it, nothing is ahead.             *)
LEMMA WalkEnds ==
    ASSUME NEW c \in Seq(Addr), NEW fn
    PROVE  Ahead(c, NULL, fn) = {}
  BY CronAssumption DEF Ahead

-----------------------------------------------------------------------------
(* The order of the jobs.                                                  *)

SortedBy(nd, c) == \A i, j \in 1 .. Len(c) : i < j => nd[c[i]].ms <= nd[c[j]].ms

(* In front of the first job with as long a period is the right place.     *)
LEMMA SortedInserted ==
    ASSUME NEW nd, NEW c \in Seq(Addr), SortedBy(nd, c),
           \A i \in 1 .. Len(c) : nd[c[i]].ms \in Nat,
           NEW k \in 1 .. Len(c), NEW a, NEW nd2, nd2[a].ms \in Nat,
           \A i \in 1 .. Len(c) : nd2[c[i]].ms = nd[c[i]].ms,
           nd2[a].ms <= nd[c[k]].ms,
           \A i \in 1 .. Len(c) : i < k => nd[c[i]].ms <= nd2[a].ms
    PROVE  SortedBy(nd2, Inserted(c, k, a))
  <1> DEFINE d == Inserted(c, k, a)
             v == [i \in 1 .. Len(c) |-> nd[c[i]].ms]
             w == [i \in 1 .. Len(c) + 1 |-> nd2[d[i]].ms]
  <1>0. Len(c) \in Nat /\ k \in Nat
    OBVIOUS
  <1>1. \A i \in 1 .. Len(c) + 1 : d[i] = IF i < k THEN c[i] ELSE IF i = k THEN a ELSE c[i - 1]
    BY DEF Inserted
  <1>2. Len(d) = Len(c) + 1
    <2>1. DOMAIN d = 1 .. Len(c) + 1
      BY DEF Inserted
    <2>2. d = [i \in 1 .. Len(c) + 1 |-> d[i]]
      BY DEF Inserted
    <2> HIDE DEF d
    <2>3. QED BY <1>0, <2>2, ElemsOfInserted DEF d
  <1> HIDE DEF d
  <1>3. \A i \in 1 .. Len(c) : v[i] \in Nat
    OBVIOUS
  <1>4. \A i, j \in 1 .. Len(c) : i <= j => v[i] <= v[j]
    BY <1>3 DEF SortedBy
  <1>5. \A i \in 1 .. Len(c) : nd2[c[i]].ms = v[i]
    OBVIOUS
  <1>6. w[k] \in Nat /\ w[k] <= v[k] /\ (\A i \in 1 .. Len(c) : i < k => v[i] <= w[k])
    BY <1>0, <1>1
  <1>7. \A i \in 1 .. Len(c) + 1 : i < k => i \in 1 .. Len(c) /\ w[i] = v[i]
    BY <1>0, <1>1, <1>5
  <1>8. \A i \in 1 .. Len(c) + 1 : i > k => i - 1 \in 1 .. Len(c) /\ w[i] = v[i - 1]
    <2> TAKE i \in 1 .. Len(c) + 1
    <2> HAVE i > k
    <2>1. i - 1 \in 1 .. Len(c) /\ ~(i < k) /\ i # k
      BY <1>0
    <2>2. QED BY <2>1, <1>1, <1>5
  <1> HIDE DEF v, w
  <1>9. ASSUME NEW i \in 1 .. Len(c) + 1, NEW j \in 1 .. Len(c) + 1, i < j
        PROVE  w[i] <= w[j]
    <2>0. i \in Int /\ j \in Int /\ k \in 1 .. Len(c)
      OBVIOUS
    <2>1. CASE j < k
      BY <2>0, <2>1, <1>0, <1>4, <1>7, <1>9
    <2>2. CASE j = k
      <3>1. i < k
        BY <2>2, <1>9
      <3>2. QED BY <3>1, <2>2, <1>6, <1>7
    <2>3. CASE j > k /\ i < k
      <3>1. j - 1 \in 1 .. Len(c) /\ i \in 1 .. Len(c) /\ i <= j - 1 /\ w[i] = v[i] /\ w[j] = v[j - 1]
        BY <2>0, <2>3, <1>7, <1>8
      <3>2. QED BY <3>1, <1>4
    <2>4. CASE j > k /\ i = k
      <3>1. j - 1 \in 1 .. Len(c) /\ k <= j - 1 /\ w[j] = v[j - 1]
        BY <2>0, <2>4, <1>0, <1>8
      <3>2. v[k] <= v[j - 1] /\ v[k] \in Nat /\ v[j - 1] \in Nat
        BY <3>1, <1>3, <1>4
      <3>3. QED BY <3>1, <3>2, <1>6, <2>4
    <2>5. CASE j > k /\ i > k
      <3>1. /\ j - 1 \in 1 .. Len(c) /\ i - 1 \in 1 .. Len(c)
            /\ w[j] = v[j - 1] /\ w[i] = v[i - 1]
        BY <2>5, <1>8
      <3>2. i - 1 <= j - 1
        BY <2>0, <1>9
      <3>3. QED BY <3>1, <3>2, <1>4
    <2>6. QED BY <2>0, <1>0, <1>9, <2>1, <2>2, <2>3, <2>4, <2>5
  <1>10. \A i \in 1 .. Len(d) : w[i] = nd2[d[i]].ms
    BY <1>2 DEF w
  <1>11. SortedBy(nd2, d)
    BY <1>2, <1>9, <1>10 DEF SortedBy
  <1>12. QED BY <1>11 DEF d

(* A job longer than the last one goes to the end.                         *)
LEMMA SortedAppended ==
    ASSUME NEW nd, NEW c \in Seq(Addr), SortedBy(nd, c), c # <<>>,
           \A i \in 1 .. Len(c) : nd[c[i]].ms \in Nat,
           NEW a, NEW nd2, nd2[a].ms \in Nat,
           \A i \in 1 .. Len(c) : nd2[c[i]].ms = nd[c[i]].ms,
           nd[c[Len(c)]].ms <= nd2[a].ms
    PROVE  SortedBy(nd2, Append(c, a))
  <1> DEFINE d == Append(c, a)
             v == [i \in 1 .. Len(c) |-> nd[c[i]].ms]
  <1>0. Len(c) \in Nat /\ Len(c) \in 1 .. Len(c)
    OBVIOUS
  <1>1. Len(d) = Len(c) + 1 /\ d[Len(c) + 1] = a /\ \A i \in 1 .. Len(c) : d[i] = c[i]
    OBVIOUS
  <1> HIDE DEF d
  <1>2. \A i \in 1 .. Len(c) : v[i] \in Nat /\ nd2[d[i]].ms = v[i]
    BY <1>1
  <1>3. \A i, j \in 1 .. Len(c) : i <= j => v[i] <= v[j]
    BY <1>2 DEF SortedBy
  <1>4. v[Len(c)] <= nd2[a].ms
    BY <1>0
  <1> HIDE DEF v
  <1>5. ASSUME NEW i \in 1 .. Len(d), NEW j \in 1 .. Len(d), i < j
        PROVE  nd2[d[i]].ms <= nd2[d[j]].ms
    <2>1. i \in 1 .. Len(c) /\ i <= Len(c)
      BY <1>0, <1>1, <1>5
    <2>2. CASE j \in 1 .. Len(c)
      BY <2>1, <2>2, <1>2, <1>3, <1>5
    <2>3. CASE j = Len(c) + 1
      <3>1. v[i] <= v[Len(c)] /\ v[i] \in Nat /\ v[Len(c)] \in Nat
        BY <2>1, <1>0, <1>2, <1>3
      <3>2. v[i] <= nd2[a].ms
        BY <3>1, <1>4
      <3>3. QED BY <3>2, <2>1, <2>3, <1>1, <1>2
    <2>4. QED BY <1>0, <1>1, <2>2, <2>3
  <1>6. SortedBy(nd2, d)
    BY <1>5 DEF SortedBy
  <1>7. QED BY <1>6 DEF d

(* Taking a job out leaves the others in order.                            *)
LEMMA SortedRemoved ==
    ASSUME NEW nd, NEW c \in Seq(Addr), SortedBy(nd, c),
           NEW k \in 1 .. Len(c) - 1, NEW nd2,
           \A i \in 1 .. Len(c) : nd2[c[i]].ms = nd[c[i]].ms,
           Len(Removed(c, k)) = Len(c) - 1
    PROVE  SortedBy(nd2, Removed(c, k))
  <1> DEFINE d == Removed(c, k)
             of(n) == IF n < k THEN n ELSE n + 1
  <1>0. Len(c) \in Nat /\ k \in Nat
    OBVIOUS
  <1>1. \A i \in 1 .. Len(c) - 1 : of(i) \in 1 .. Len(c) /\ d[i] = c[of(i)]
    <2>1. \A i \in 1 .. Len(c) - 1 : d[i] = IF i < k THEN c[i] ELSE c[i + 1]
      BY DEF Removed
    <2> HIDE DEF d
    <2>2. QED BY <1>0, <2>1
  <1>2. \A i, j \in 1 .. Len(c) - 1 : i < j => of(i) < of(j)
    BY <1>0
  <1> HIDE DEF of, d
  <1>3. \A i \in 1 .. Len(c) - 1 : nd2[d[i]].ms = nd[c[of(i)]].ms
    BY <1>1
  <1>4. \A i, j \in 1 .. Len(c) - 1 : i < j => nd2[d[i]].ms <= nd2[d[j]].ms
    BY <1>1, <1>2, <1>3 DEF SortedBy
  <1>5. SortedBy(nd2, d)
    BY <1>4 DEF SortedBy, d
  <1>6. QED BY <1>5 DEF d

(* The same order on a heap with the same periods.                         *)
LEMMA SortedElsewhere ==
    ASSUME NEW nd, NEW c, SortedBy(nd, c), NEW nd2,
           \A a \in Elems(c) : nd2[a].ms = nd[a].ms
    PROVE  SortedBy(nd2, c)
  BY DEF SortedBy, Elems

-----------------------------------------------------------------------------
(* The ticks since a job was called.                                       *)

\* A job that is not due was called at the last multiple of its period, or,
\* when the counter has not reached the period since it restarted, at the
\* last one before the restart.
Bound(n, P, k) == IF k < P THEN n <= P - 1 + k ELSE n <= k % P

(* A job whose turn a tick is not stays within its bound: the counter goes *)
(* on to k + 1, stays where it is (then no job is longer), or restarts.    *)
LEMMA BoundKept ==
    ASSUME NEW P \in Nat \ {0}, NEW k \in Nat, NEW n \in Nat, Bound(n, P, k),
           NEW k2 \in Nat, k2 % P # 0,
           k2 = k + 1 \/ (k2 = 1 /\ P <= k),
           NEW n2 \in Nat, n2 <= n + 1
    PROVE  Bound(n2, P, k2)
  <1> DEFINE r == k % P
             s == k2 % P
  <1>1. r \in 0 .. P - 1
    BY Dividing
  <1>2. k2 < P => s = k2
    BY Dividing
  <1>3. P % P = 0
    BY Dividing
  <1>4. CASE k2 = k + 1
    <2>1. s = IF r = P - 1 THEN 0 ELSE r + 1
      BY <1>4, NextRemainder
    <2>2. k2 # P
      BY <1>3
    <2>3. (k < P => n <= P - 1 + k) /\ (k >= P => n <= r)
      BY DEF Bound
    <2>4. s # 0
      OBVIOUS
    <2> HIDE DEF r, s
    <2>5. (k2 < P => n2 <= P - 1 + k2) /\ (k2 >= P => n2 <= s)
      BY <2>1, <2>2, <2>3, <2>4, <1>1, <1>4
    <2>6. QED BY <2>5 DEF Bound, s
  <1>5. CASE k2 = 1 /\ P <= k
    <2>1. n <= r
      BY <1>5 DEF Bound
    <2>2. P # 1
      BY <1>3, <1>5
    <2> HIDE DEF r, s
    <2>3. k2 < P /\ n2 <= P - 1 + k2
      BY <2>1, <2>2, <1>1, <1>5
    <2>4. QED BY <2>3 DEF Bound
  <1>6. QED BY <1>4, <1>5

(* A job that was just added or called, and what the bound comes to.       *)
LEMMA BoundAtZero ==
    ASSUME NEW P \in Nat \ {0}, NEW k \in Nat
    PROVE  Bound(0, P, k)
  <1>1. k % P \in 0 .. P - 1
    BY Dividing
  <1>2. QED BY <1>1 DEF Bound

(* Within its bound a job has waited less than twice its period.           *)
LEMMA BoundIsTwicePeriod ==
    ASSUME NEW P \in Nat \ {0}, NEW k \in Nat, NEW n \in Nat, Bound(n, P, k)
    PROVE  n < 2 * P
  <1>1. k % P \in 0 .. P - 1
    BY Dividing
  <1>2. CASE k < P
    BY <1>2 DEF Bound
  <1>3. CASE k >= P
    <2>1. n <= k % P
      BY <1>3 DEF Bound
    <2> DEFINE r == k % P
    <2>2. r \in 0 .. P - 1 /\ n <= r
      BY <1>1, <2>1
    <2> HIDE DEF r
    <2>3. QED BY <2>2
  <1>4. QED BY <1>2, <1>3

-----------------------------------------------------------------------------
(* The invariant.  Shape is about the two lists on the heap, Walking about *)
(* the timer function's pointer into one of them, InTime about the jobs    *)
(* this tick does not call.                                                *)

Counts == (0 .. Max(Delays)) \cup {Wrapped}
Node == [id : TimeoutIds \cup {NULL}, next : Pointer, ms : Periods \cup Counts]

Values(l) == IF l = "jobs" THEN Periods ELSE Counts
Other(l)  == IF l = "jobs" THEN "timeouts" ELSE "jobs"

Shape(nd, al, fst, lst, L) ==
    /\ nd \in [Addr -> Node]
    /\ fst \in [Lists -> Pointer] /\ lst \in [Lists -> Pointer]
    /\ L \in [Lists -> Seq(Addr)]
    /\ \A l \in Lists : Linked(nd, fst[l], lst[l], L[l])
    /\ Elems(L["jobs"]) \cap Elems(L["timeouts"]) = {}
    /\ al = Elems(L["jobs"]) \cup Elems(L["timeouts"])
    /\ \A a \in Elems(L["jobs"]) : nd[a].ms \in Periods
    /\ \A a \in Elems(L["timeouts"]) : nd[a].ms \in Counts
    /\ SortedBy(nd, L["jobs"])

Walking(nd, L, k, w, cur, fn, du) ==
    /\ w = "none" => ~fn /\ cur = NULL /\ du = {}
    /\ w \in Lists => cur \in Elems(L[w]) \cup {NULL} /\ du \subseteq Ahead(L[w], cur, fn)
    /\ w = "jobs" => k > 0 /\ \A a \in du : k % nd[a].ms = 0
    /\ fn => cur # NULL

InTime(nd, L, k, si, du) ==
    \A a \in Elems(L["jobs"]) \ du : Bound(si[a], nd[a].ms, k)

InRange ==
    /\ ms \in 0 .. MaxPeriod + 1 /\ walk \in Lists \cup {"none"} /\ inFn \in BOOLEAN
    /\ since \in [Addr -> 0 .. 2 * MaxPeriod]

Holds(L) ==
    /\ Shape(node, allocated, first, last, L)
    /\ Walking(node, L, ms, walk, current, inFn, due)
    /\ InTime(node, L, ms, since, due)

CInv == InRange /\ \E L \in [Lists -> Seq(Addr)] : Holds(L)

(* What is ahead is in the list.                                           *)
LEMMA AheadInList ==
    ASSUME NEW c, NEW cur, NEW fn
    PROVE  Ahead(c, cur, fn) \subseteq Elems(c)
  BY DEF Ahead, Elems

\* The list l is replaced by K[l]; the other list and its nodes stay.
Replaced(nd, fst, lst, L, l, nd2, al2, fst2, lst2, K) ==
    LET m == Other(l)
    IN  /\ nd2 \in [Addr -> Node]
        /\ fst2 \in [Lists -> Pointer] /\ lst2 \in [Lists -> Pointer]
        /\ K \in [Lists -> Seq(Addr)] /\ Linked(nd2, fst2[l], lst2[l], K[l])
        /\ K[m] = L[m] /\ fst2[m] = fst[m] /\ lst2[m] = lst[m]
        /\ Elems(K[l]) \cap Elems(L[m]) = {} /\ al2 = Elems(K[l]) \cup Elems(L[m])
        /\ \A a \in Elems(L[m]) : nd2[a] = nd[a]
        /\ \A a \in Elems(K[l]) : nd2[a].ms \in Values(l)
        /\ l = "jobs" => SortedBy(nd2, K[l])

(* The new pair of lists is well formed.                                   *)
LEMMA ShapeReplaced ==
    ASSUME NEW nd, NEW al, NEW fst, NEW lst, NEW L, Shape(nd, al, fst, lst, L),
           NEW l \in Lists, NEW nd2, NEW al2, NEW fst2, NEW lst2, NEW K,
           Replaced(nd, fst, lst, L, l, nd2, al2, fst2, lst2, K)
    PROVE  Shape(nd2, al2, fst2, lst2, K)
  <1> DEFINE m == Other(l)
  <1>1. /\ nd2 \in [Addr -> Node]
        /\ fst2 \in [Lists -> Pointer] /\ lst2 \in [Lists -> Pointer]
        /\ K \in [Lists -> Seq(Addr)] /\ Linked(nd2, fst2[l], lst2[l], K[l])
        /\ K[m] = L[m] /\ fst2[m] = fst[m] /\ lst2[m] = lst[m]
        /\ Elems(K[l]) \cap Elems(L[m]) = {} /\ al2 = Elems(K[l]) \cup Elems(L[m])
        /\ \A a \in Elems(L[m]) : nd2[a] = nd[a]
        /\ \A a \in Elems(K[l]) : nd2[a].ms \in Values(l)
        /\ l = "jobs" => SortedBy(nd2, K[l])
    BY Zenon DEF Replaced
  <1>0. m \in Lists /\ m # l /\ Lists = {l, m} /\ {l, m} = {"jobs", "timeouts"}
    BY DEF m, Other, Lists
  <1> HIDE DEF m
  <1>2. Linked(nd2, fst2[m], lst2[m], L[m])
    <2>1. Linked(nd, fst[m], lst[m], L[m])
      BY <1>0 DEF Shape
    <2>2. \A a \in Elems(L[m]) : nd2[a].next = nd[a].next
      BY <1>1
    <2>3. Linked(nd2, fst[m], lst[m], L[m])
      BY <2>1, <2>2, LinkedElsewhere
    <2>4. QED BY <2>3, <1>1
  <1>3. \A i \in Lists : Linked(nd2, fst2[i], lst2[i], K[i])
    BY <1>0, <1>1, <1>2
  <1>4. \A a \in Elems(L[m]) : nd2[a].ms = nd[a].ms
    BY <1>1
  <1>5. CASE l = "jobs"
    <2>1. m = "timeouts"
      BY <1>5 DEF m, Other
    <2>2. \A a \in Elems(K["timeouts"]) : nd2[a].ms \in Counts
      BY <1>1, <1>4, <2>1 DEF Shape
    <2>3. \A a \in Elems(K["jobs"]) : nd2[a].ms \in Periods
      BY <1>1, <1>5 DEF Values
    <2>4. /\ Elems(K["jobs"]) \cap Elems(K["timeouts"]) = {}
          /\ al2 = Elems(K["jobs"]) \cup Elems(K["timeouts"])
          /\ SortedBy(nd2, K["jobs"])
      BY <1>1, <1>5, <2>1
    <2>5. QED BY <1>1, <1>3, <2>2, <2>3, <2>4, Zenon DEF Shape
  <1>6. CASE l = "timeouts"
    <2>1. m = "jobs"
      BY <1>6 DEF m, Other
    <2>2. \A a \in Elems(K["jobs"]) : nd2[a].ms \in Periods
      BY <1>1, <1>4, <2>1 DEF Shape
    <2>3. \A a \in Elems(K["timeouts"]) : nd2[a].ms \in Counts
      BY <1>1, <1>6 DEF Values
    <2>4. /\ Elems(K["jobs"]) \cap Elems(K["timeouts"]) = {}
          /\ al2 = Elems(K["jobs"]) \cup Elems(K["timeouts"])
      BY <1>1, <1>6, <2>1
    <2>5. SortedBy(nd2, K["jobs"])
      BY <1>1, <1>4, <2>1, SortedElsewhere DEF Shape
    <2>6. QED BY <1>1, <1>3, <2>2, <2>3, <2>4, <2>5, Zenon DEF Shape
  <1>7. QED BY <1>5, <1>6 DEF Lists

(* The walk goes on when what is ahead in the list is ahead in the new one.*)
LEMMA WalkingReplaced ==
    ASSUME NEW nd, NEW L, NEW k, NEW w, NEW cur, NEW fn, NEW du,
           Walking(nd, L, k, w, cur, fn, du),
           NEW l \in Lists, NEW K, \A i \in Lists : i # l => K[i] = L[i],
           NEW nd2, NEW du2 \in SUBSET du,
           w = l => cur \in Elems(K[l]) \cup {NULL} /\ du2 \subseteq Ahead(K[l], cur, fn),
           w = "jobs" => \A a \in du2 : nd2[a].ms = nd[a].ms
    PROVE  Walking(nd2, K, k, w, cur, fn, du2)
  <1>1. w = "none" => ~fn /\ cur = NULL /\ du2 = {}
    BY DEF Walking
  <1>2. w \in Lists => cur \in Elems(K[w]) \cup {NULL} /\ du2 \subseteq Ahead(K[w], cur, fn)
    <2>1. CASE w = l
      BY <2>1
    <2>2. CASE w # l
      BY <2>2 DEF Walking
    <2>3. QED BY <2>1, <2>2
  <1>3. w = "jobs" => k > 0 /\ \A a \in du2 : k % nd2[a].ms = 0
    BY DEF Walking
  <1>4. fn => cur # NULL
    BY DEF Walking
  <1>5. QED BY <1>1, <1>2, <1>3, <1>4, Zenon DEF Walking

(* The bounds of the jobs a call leaves alone.                             *)
LEMMA InTimeReplaced ==
    ASSUME NEW nd, NEW L, NEW k, NEW si, NEW du, InTime(nd, L, k, si, du),
           NEW K, NEW nd2, NEW si2, NEW du2,
           \A a \in Elems(K["jobs"]) \ du2 :
              \/ a \in Elems(L["jobs"]) \ du /\ nd2[a].ms = nd[a].ms /\ si2[a] = si[a]
              \/ Bound(si2[a], nd2[a].ms, k)
    PROVE  InTime(nd2, K, k, si2, du2)
  BY Zenon DEF InTime

-----------------------------------------------------------------------------
(* Chain and Listed, for the lists of the invariant.                       *)
LEMMA ListsAre ==
    ASSUME NEW L, Shape(node, allocated, first, last, L), NEW l \in Lists
    PROVE  Chain(l) = L[l] /\ Listed(l) = Elems(L[l])
  <1>1. Linked(node, first[l], last[l], L[l])
    BY DEF Shape
  <1>2. Chain(l) = PathFrom(node, first[l])
    BY Zenon DEF Chain, PathFrom
  <1>3. PathFrom(node, first[l]) = L[l]
    BY <1>1, PathIsTheList
  <1>4. \A c : ToSet(c) = Elems(c)
    <2> TAKE c
    <2>1. ToSet(c) = {c[i] : i \in DOMAIN c}
      BY DEF ToSet
    <2>2. QED BY <2>1 DEF ToSet, Elems
  <1>5. QED BY <1>2, <1>3, <1>4 DEF Listed

(* What the search for a node finds.                                       *)
LEMMA PlaceOf ==
    ASSUME NEW c \in Seq(Addr), NEW a,
           NEW k, k = SelectInSeq(c, LAMBDA b : b = a), k > 0
    PROVE  k \in 1 .. Len(c) /\ c[k] = a
  <1> DEFINE I == {i \in 1 .. Len(c) : c[i] = a}
  <1>1. k = IF I # {} THEN Min(I) ELSE 0
    BY DEF SelectInSeq
  <1>2. I # {}
    BY <1>1
  <1>3. Min(I) \in I
    <2>1. I \in SUBSET Nat
      OBVIOUS
    <2> HIDE DEF I
    <2>2. QED BY <2>1, <1>2, MinIsLeast
  <1>4. QED BY <1>1, <1>2, <1>3

(* What the search for the first job with as long a period finds.          *)
LEMMA PlaceBefore ==
    ASSUME NEW c \in Seq(Addr), NEW p
    PROVE  /\ Before(c, p) = 0 => \A i \in 1 .. Len(c) : ~(p <= node[c[i]].ms)
           /\ Before(c, p) # 0 => /\ Before(c, p) \in 1 .. Len(c)
                                  /\ p <= node[c[Before(c, p)]].ms
                                  /\ \A i \in 1 .. Len(c) :
                                        i < Before(c, p) => ~(p <= node[c[i]].ms)
  <1> DEFINE I == {i \in 1 .. Len(c) : p <= node[c[i]].ms}
             k == Before(c, p)
  <1>1. k = IF I # {} THEN Min(I) ELSE 0
    BY DEF Before, SelectInSeq
  <1> HIDE DEF k
  <1>2. CASE I = {}
    BY <1>1, <1>2 DEF k
  <1>3. CASE I # {}
    <2>1. Min(I) \in I /\ \A i \in I : Min(I) <= i
      <3>1. I \in SUBSET Nat
        OBVIOUS
      <3> HIDE DEF I
      <3>2. QED BY <3>1, <1>3, MinIsLeast
    <2>2. k \in I /\ \A i \in I : k <= i
      BY <1>1, <1>3, <2>1
    <2>3. k \in 1 .. Len(c) /\ p <= node[c[k]].ms
      BY <2>2
    <2>4. \A i \in 1 .. Len(c) : i < k => ~(p <= node[c[i]].ms)
      <3> SUFFICES ASSUME NEW i \in 1 .. Len(c), i < k, p <= node[c[i]].ms PROVE FALSE
        OBVIOUS
      <3>1. i \in I
        OBVIOUS
      <3>2. QED BY <3>1, <2>2, <2>3
    <2>5. QED BY <2>3, <2>4 DEF k
  <1>4. QED BY <1>2, <1>3

(* What the search for a timeout by its name finds.                        *)
LEMMA PlaceNamed ==
    ASSUME NEW L, Shape(node, allocated, first, last, L), NEW id
    PROVE  /\ Named(id) \in 0 .. Len(L["timeouts"])
           /\ Named(id) > 0 => Chain("timeouts")[Named(id)] \in Elems(L["timeouts"])
  <1> DEFINE c == L["timeouts"]
             I == {i \in 1 .. Len(c) : node[c[i]].id = id}
  <1>1. Chain("timeouts") = c /\ c \in Seq(Addr)
    BY ListsAre DEF Shape, Lists
  <1> HIDE DEF c
  <1>2. Named(id) = IF I # {} THEN Min(I) ELSE 0
    BY <1>1 DEF Named, SelectInSeq
  <1>3. I # {} => Min(I) \in I
    <2>1. I \in SUBSET Nat
      OBVIOUS
    <2> HIDE DEF I
    <2>2. QED BY <2>1, MinIsLeast
  <1>4. Len(c) \in Nat
    BY <1>1
  <1>5. I = {} => Named(id) = 0
    BY <1>2
  <1>6. I # {} => Named(id) \in 1 .. Len(c)
    BY <1>2, <1>3
  <1>7. Named(id) \in 0 .. Len(c) /\ (Named(id) > 0 => Named(id) \in 1 .. Len(c))
    BY <1>4, <1>5, <1>6
  <1>8. QED BY <1>1, <1>7 DEF Elems, c

-----------------------------------------------------------------------------
(* The calls of the application keep the invariant.                        *)

\* A write to one node.
PutNext(nd, b, p) == [nd EXCEPT ![b].next = p]
PutMs(nd, b, p)   == [nd EXCEPT ![b].ms = p]

(* Writing next keeps the periods, and every other node.                   *)
LEMMA NextWritten ==
    ASSUME NEW nd \in [Addr -> Node], NEW b \in Addr, NEW p \in Pointer
    PROVE  /\ PutNext(nd, b, p) \in [Addr -> Node] /\ PutNext(nd, b, p)[b].next = p
           /\ \A x \in Addr : PutNext(nd, b, p)[x].ms = nd[x].ms
           /\ \A x \in Addr \ {b} : PutNext(nd, b, p)[x] = nd[x]
  <1>1. nd[b] \in Node
    OBVIOUS
  <1>2. [nd[b] EXCEPT !.next = p] \in Node /\ [nd[b] EXCEPT !.next = p].ms = nd[b].ms
        /\ [nd[b] EXCEPT !.next = p].next = p
    BY <1>1 DEF Node
  <1> HIDE DEF Node
  <1>3. QED BY <1>2 DEF PutNext

(* Writing ms_left keeps the chain, and every other node.                  *)
LEMMA MsWritten ==
    ASSUME NEW nd \in [Addr -> Node], NEW b \in Addr, NEW p \in Periods \cup Counts
    PROVE  /\ PutMs(nd, b, p) \in [Addr -> Node] /\ PutMs(nd, b, p)[b].ms = p
           /\ \A x \in Addr : PutMs(nd, b, p)[x].next = nd[x].next
           /\ \A x \in Addr \ {b} : PutMs(nd, b, p)[x] = nd[x]
  <1>1. nd[b] \in Node
    OBVIOUS
  <1>2. [nd[b] EXCEPT !.ms = p] \in Node /\ [nd[b] EXCEPT !.ms = p].ms = p
        /\ [nd[b] EXCEPT !.ms = p].next = nd[b].next
    BY <1>1 DEF Node
  <1> HIDE DEF Node
  <1>3. QED BY <1>2 DEF PutMs

(* free() of a node that is neither the last of its list nor current.      *)
LEMMA UnlinkKeepsInvariant ==
    ASSUME ~OwnRemovals, ~TailRemovals, InRange, NEW L, Holds(L),
           NEW l \in Lists, NEW a, AppRuns, MayFree({a}, l), Unlink(l, a),
           due' = due \ {a}, UNCHANGED <<timer, since>>
    PROVE  CInv'
  <1> DEFINE c == L[l]
             k == SelectInSeq(c, LAMBDA b : b = a)
             m == Other(l)
  <1>0. Shape(node, allocated, first, last, L)
    BY DEF Holds
  <1>1. /\ c \in Seq(Addr) /\ Linked(node, first[l], last[l], c) /\ Chain(l) = c
        /\ node \in [Addr -> Node] /\ first \in [Lists -> Pointer] /\ last \in [Lists -> Pointer]
        /\ L \in [Lists -> Seq(Addr)] /\ allocated = Elems(c) \cup Elems(L[m])
        /\ Elems(c) \cap Elems(L[m]) = {} /\ m \in Lists /\ m # l
    <2>1. Chain(l) = c
      BY <1>0, ListsAre
    <2>2. CASE l = "jobs"
      <3>1. m = "timeouts" /\ m \in Lists
        BY <2>2 DEF Other, Lists
      <3> HIDE DEF m
      <3>2. QED BY <2>1, <2>2, <3>1, <1>0 DEF Shape
    <2>3. CASE l = "timeouts"
      <3>1. m = "jobs" /\ m \in Lists
        BY <2>3 DEF Other, Lists
      <3> HIDE DEF m
      <3>2. QED BY <2>1, <2>3, <3>1, <1>0 DEF Shape
    <2>4. QED BY <2>2, <2>3 DEF Lists
  <1>2. /\ k > 0
        /\ IF k = 1
           THEN first' = [first EXCEPT ![l] = node[a].next] /\ UNCHANGED node
           ELSE node' = [node EXCEPT ![c[k - 1]].next = node[a].next] /\ UNCHANGED first
        /\ allocated' = allocated \ {a}
        /\ last' = last
    BY <1>1 DEF Unlink
  <1>3. k \in 1 .. Len(c) /\ c[k] = a
    BY <1>1, <1>2, PlaceOf
  <1> HIDE DEF k, c, m
  <1>4. Len(c) \in Nat /\ a \in Addr /\ a \in Elems(c) /\ node[a].next \in Pointer
    <2>1. Len(c) \in Nat /\ a \in Addr /\ a \in Elems(c)
      BY <1>1, <1>3 DEF Elems
    <2>2. QED BY <2>1, <1>1 DEF Node
  <1>5. k \in 1 .. Len(c) - 1
    <2>1. last[l] # a
      BY DEF MayFree
    <2>2. last[l] = c[Len(c)]
      BY <1>1, <1>3, <1>4 DEF Linked
    <2>3. QED BY <2>1, <2>2, <1>3, <1>4
  <1>6. k > 1 => c[k - 1] \in Elems(c) /\ c[k - 1] \in Addr
    <2>1. k > 1 => k - 1 \in 1 .. Len(c)
      BY <1>3, <1>4
    <2>2. QED BY <2>1, <1>1 DEF Elems
  <1>7. /\ node' \in [Addr -> Node]
        /\ \A x \in Addr : node'[x].ms = node[x].ms
        /\ k > 1 => node'[c[k - 1]].next = node[a].next
        /\ \A x \in Addr : (k > 1 => x # c[k - 1]) => node'[x] = node[x]
    <2>1. CASE k = 1
      BY <2>1, <1>1, <1>2
    <2>2. CASE k # 1
      <3>1. k > 1
        BY <2>2, <1>3
      <3>2. node' = PutNext(node, c[k - 1], node[a].next)
        BY <2>2, <1>2 DEF PutNext
      <3>3. /\ node' \in [Addr -> Node] /\ node'[c[k - 1]].next = node[a].next
            /\ \A x \in Addr : node'[x].ms = node[x].ms
            /\ \A x \in Addr \ {c[k - 1]} : node'[x] = node[x]
        BY <3>1, <3>2, <1>1, <1>4, <1>6, NextWritten
      <3>4. QED BY <3>1, <3>3
    <2>3. QED BY <2>1, <2>2
  <1>8. Linked(node', IF k = 1 THEN node[c[k]].next ELSE first[l], last[l], Removed(c, k))
    <2>1. \A i \in 1 .. Len(c) : i # k - 1 => node'[c[i]].next = node[c[i]].next
      <3> SUFFICES ASSUME NEW i \in 1 .. Len(c), i # k - 1
                   PROVE  node'[c[i]].next = node[c[i]].next
        OBVIOUS
      <3>1. c[i] \in Addr
        BY <1>1
      <3>2. k > 1 => c[i] # c[k - 1]
        <4>1. k > 1 => k - 1 \in 1 .. Len(c)
          BY <1>3, <1>4
        <4>2. QED BY <4>1, <1>1 DEF Linked
      <3>3. QED BY <3>1, <3>2, <1>7
    <2> DEFINE f == first[l]
               z == last[l]
               g == node'
    <2>2. Linked(node, f, z, c) /\ (k > 1 => g[c[k - 1]].next = node[c[k]].next)
          /\ \A i \in 1 .. Len(c) : i # k - 1 => g[c[i]].next = node[c[i]].next
      BY <2>1, <1>1, <1>3, <1>7
    <2> HIDE DEF f, z, g
    <2>3. Linked(g, IF k = 1 THEN node[c[k]].next ELSE f, z, Removed(c, k))
      BY <2>2, <1>5, LinkedRemoved
    <2>4. QED BY <2>3 DEF f, z, g
  <1>9. /\ first' \in [Lists -> Pointer] /\ last' \in [Lists -> Pointer]
        /\ first'[l] = (IF k = 1 THEN node[c[k]].next ELSE first[l]) /\ last'[l] = last[l]
        /\ first'[m] = first[m] /\ last'[m] = last[m]
    BY <1>1, <1>2, <1>3, <1>4
  <1>10. /\ Elems(Removed(c, k)) = Elems(c) \ {a} /\ Removed(c, k) \in Seq(Addr)
         /\ Len(Removed(c, k)) = Len(c) - 1
         /\ current # a => Ahead(c, current, inFn) \ {a} \subseteq Ahead(Removed(c, k), current, inFn)
    BY <1>1, <1>3, <1>5, ElemsOfRemoved
  <1> DEFINE d == Removed(c, k)
             K == [L EXCEPT ![l] = d]
  <1>k. K \in [Lists -> Seq(Addr)] /\ K[l] = d /\ K[m] = L[m] /\ \A i \in Lists : i # l => K[i] = L[i]
    BY <1>1, <1>10
  <1>11. \A b \in Elems(L[m]) : b \in Addr /\ b # a /\ node'[b] = node[b]
    <2>1. \A b \in Elems(L[m]) : b \in Addr
      BY <1>1 DEF Elems
    <2>2. QED BY <2>1, <1>1, <1>4, <1>6, <1>7
  <1>12. \A b \in Elems(d) : node'[b].ms \in Values(l)
    <2>1. \A b \in Elems(c) : b \in Addr /\ node[b].ms \in Values(l)
      <3>1. \A b \in Elems(c) : b \in Addr
        BY <1>1 DEF Elems
      <3>2. QED BY <3>1, <1>0 DEF Shape, Lists, Values, c
    <2>2. QED BY <2>1, <1>7, <1>10
  <1>13. l = "jobs" => SortedBy(node', d)
    <2> SUFFICES ASSUME l = "jobs" PROVE SortedBy(node', d)
      OBVIOUS
    <2>1. SortedBy(node, c)
      BY <1>0 DEF Shape, c
    <2>2. \A i \in 1 .. Len(c) : node'[c[i]].ms = node[c[i]].ms
      BY <1>1, <1>7
    <2>3. QED BY <2>1, <2>2, <1>1, <1>5, <1>10, SortedRemoved
  <1>14. allocated' = Elems(d) \cup Elems(L[m])
    <2>1. a \notin Elems(L[m])
      BY <1>11
    <2>2. QED BY <2>1, <1>1, <1>2, <1>10
  <1>15. Shape(node', allocated', first', last', K)
    <2>1. Linked(node', first'[l], last'[l], d)
      BY <1>8, <1>9
    <2>2. Elems(d) \cap Elems(L[m]) = {} /\ d \in Seq(Addr)
      BY <1>1, <1>10
    <2>3. \A b \in Elems(L[m]) : node'[b] = node[b]
      BY <1>11
    <2> HIDE DEF d, K
    <2>4. Replaced(node, first, last, L, l, node', allocated', first', last', K)
      BY <2>1, <2>2, <2>3, <1>k, <1>7, <1>9, <1>12, <1>13, <1>14 DEF m, Replaced
    <2>5. QED BY <2>4, <1>0, ShapeReplaced
  <1>16. ms' = ms /\ walk' = walk /\ current' = current /\ inFn' = inFn /\ since' = since
    BY DEF timer
  <1>17. Walking(node', K, ms', walk', current', inFn', due')
    <2>0. Walking(node, L, ms, walk, current, inFn, due)
      BY DEF Holds
    <2>1. walk = l => current \in Elems(d) \cup {NULL} /\ due' \subseteq Ahead(d, current, inFn)
      <3> SUFFICES ASSUME walk = l
                   PROVE  current \in Elems(d) \cup {NULL} /\ due' \subseteq Ahead(d, current, inFn)
        OBVIOUS
      <3>1. inFn
        BY DEF AppRuns, Lists
      <3>2. current # a
        BY <3>1 DEF MayFree
      <3>3. current \in Elems(c) \cup {NULL} /\ due \subseteq Ahead(c, current, inFn)
        BY <2>0 DEF Walking, c
      <3>4. QED BY <3>2, <3>3, <1>10
    <2>2. walk = "jobs" => \A b \in due' : node'[b].ms = node[b].ms
      <3> SUFFICES ASSUME walk = "jobs", NEW b \in due' PROVE node'[b].ms = node[b].ms
        OBVIOUS
      <3>1. b \in Ahead(L["jobs"], current, inFn)
        BY <2>0 DEF Walking, Lists
      <3>2. b \in Elems(L["jobs"])
        BY <3>1, AheadInList
      <3>3. b \in Addr
        BY <3>2, <1>0 DEF Shape, Lists, Elems
      <3>4. QED BY <3>3, <1>7
    <2>3. due' \in SUBSET due
      OBVIOUS
    <2> HIDE DEF d, K
    <2>4. Walking(node', K, ms, walk, current, inFn, due')
      BY <2>0, <2>1, <2>2, <2>3, <1>k, WalkingReplaced
    <2>5. QED BY <2>4, <1>16
  <1>18. InTime(node', K, ms', since', due')
    <2>0. InTime(node, L, ms, since, due)
      BY DEF Holds
    <2>1. Elems(K["jobs"]) \subseteq Elems(L["jobs"]) \ {a}
      <3>1. CASE l = "jobs"
        <4>1. K["jobs"] = d
          BY <3>1, <1>1
        <4>2. QED BY <3>1, <4>1, <1>10 DEF c
      <3>2. CASE l = "timeouts"
        <4>1. K["jobs"] = L["jobs"] /\ m = "jobs"
          BY <3>2, <1>1 DEF m, Other
        <4>2. QED BY <4>1, <1>11
      <3>3. QED BY <3>1, <3>2 DEF Lists
    <2>2. \A b \in Elems(L["jobs"]) : node'[b].ms = node[b].ms
      <3>1. \A b \in Elems(L["jobs"]) : b \in Addr
        BY <1>0 DEF Shape, Lists, Elems
      <3>2. QED BY <3>1, <1>7
    <2> HIDE DEF K
    <2>3. \A b \in Elems(K["jobs"]) \ due' :
            b \in Elems(L["jobs"]) \ due /\ node'[b].ms = node[b].ms /\ since'[b] = since[b]
      BY <2>1, <2>2, <1>16
    <2>4. InTime(node', K, ms, since', due')
      BY <2>0, <2>3, InTimeReplaced
    <2>5. QED BY <2>4, <1>16
  <1>20. InRange'
    BY <1>16 DEF InRange
  <1> HIDE DEF K
  <1>21. QED BY <1>15, <1>17, <1>18, <1>k, <1>20 DEF CInv, Holds

(* cron_remove_job frees a node of the jobs.                               *)
LEMMA RemoveJobKeepsInvariant ==
    ASSUME ~OwnRemovals, ~TailRemovals, CInv, NEW a \in Addr, cron_remove_job(a)
    PROVE  CInv'
  <1>1. PICK L \in [Lists -> Seq(Addr)] : Holds(L)
    BY DEF CInv
  <1>2. InRange /\ "jobs" \in Lists
    BY DEF CInv, Lists
  <1>3. QED BY <1>1, <1>2, UnlinkKeepsInvariant DEF cron_remove_job

(* cron_remove_timeout frees a node of the timeouts.                       *)
LEMMA RemoveTimeoutKeepsInvariant ==
    ASSUME ~OwnRemovals, ~TailRemovals, CInv, NEW id, cron_remove_timeout(id)
    PROVE  CInv'
  <1>1. PICK L \in [Lists -> Seq(Addr)] : Holds(L)
    BY DEF CInv
  <1>2. InRange /\ "timeouts" \in Lists
    BY DEF CInv, Lists
  <1> DEFINE a == Chain("timeouts")[Named(id)]
  <1>3. /\ AppRuns /\ MayFree({a}, "timeouts") /\ Unlink("timeouts", a) /\ due' = due \ {a}
        /\ UNCHANGED <<timer, since>>
    BY DEF cron_remove_timeout
  <1>4. QED BY <1>1, <1>2, <1>3, UnlinkKeepsInvariant

(* A new node h[a] linked behind the last one, or as the only one.         *)
LEMMA NewAtTheEnd ==
    ASSUME NEW nd, NEW al, NEW fst, NEW lst, NEW L, Shape(nd, al, fst, lst, L),
           NEW l \in Lists, NEW a \in Addr \ al, NEW h \in [Addr -> Node],
           h[a].next = NULL, h[a].ms \in Values(l),
           \A x \in Addr \ {a} : h[x] = nd[x],
           l = "jobs" /\ lst[l] # NULL => nd[lst[l]].ms <= h[a].ms,
           NEW nd2, nd2 = IF lst[l] = NULL THEN h ELSE PutNext(h, lst[l], a),
           NEW fst2, fst2 = IF lst[l] = NULL THEN [fst EXCEPT ![l] = a] ELSE fst
    PROVE  Shape(nd2, al \cup {a}, fst2, [lst EXCEPT ![l] = a],
                 [L EXCEPT ![l] = Append(L[l], a)])
  <1> DEFINE c == L[l]
             m == Other(l)
             d == Append(c, a)
             lst2 == [lst EXCEPT ![l] = a]
             K == [L EXCEPT ![l] = d]
  <1>0. /\ c \in Seq(Addr) /\ Linked(nd, fst[l], lst[l], c)
        /\ nd \in [Addr -> Node] /\ fst \in [Lists -> Pointer] /\ lst \in [Lists -> Pointer]
        /\ L \in [Lists -> Seq(Addr)] /\ al = Elems(c) \cup Elems(L[m])
        /\ Elems(c) \cap Elems(L[m]) = {} /\ m \in Lists /\ m # l
        /\ \A b \in Elems(c) : nd[b].ms \in Values(l)
        /\ l = "jobs" => SortedBy(nd, c)
    <2>1. CASE l = "jobs"
      <3>1. m = "timeouts" /\ m \in Lists
        BY <2>1 DEF Other, Lists
      <3> HIDE DEF m
      <3>2. QED BY <2>1, <3>1 DEF Shape, Values
    <2>2. CASE l = "timeouts"
      <3>1. m = "jobs" /\ m \in Lists
        BY <2>2 DEF Other, Lists
      <3> HIDE DEF m
      <3>2. QED BY <2>2, <3>1 DEF Shape, Values
    <2>3. QED BY <2>1, <2>2 DEF Lists
  <1> HIDE DEF c, m
  <1>1. /\ Elems(d) = Elems(c) \cup {a} /\ d \in Seq(Addr)
        /\ a \notin Elems(c) /\ a \notin Elems(L[m])
        /\ a \in Pointer
    BY <1>0, ElemsOfAppended DEF Pointer
  <1>e. /\ \A b \in Elems(c) : b \in Addr /\ b # a
        /\ \A b \in Elems(L[m]) : b \in Addr /\ b # a
    <2>1. \A s \in Seq(Addr) : \A b \in Elems(s) : b \in Addr
      BY DEF Elems
    <2>2. c \in Seq(Addr) /\ L[m] \in Seq(Addr)
      BY <1>0
    <2>3. QED BY <2>1, <2>2, <1>1
  <1>2. c = <<>> <=> lst[l] = NULL
    <2>1. c # <<>> => lst[l] \in Addr
      BY <1>0 DEF Linked
    <2>2. c = <<>> => lst[l] = NULL
      BY <1>0 DEF Linked
    <2>3. QED BY <2>1, <2>2, CronAssumption
  <1>3. c # <<>> => lst[l] \in Elems(c) /\ lst[l] \in Addr /\ lst[l] = c[Len(c)]
    <2>1. c # <<>> => Len(c) \in 1 .. Len(c)
      BY <1>0
    <2>2. QED BY <2>1, <1>0 DEF Linked, Elems
  <1>4. /\ nd2 \in [Addr -> Node]
        /\ \A x \in Addr \ {a} : nd2[x].ms = nd[x].ms
        /\ \A x \in Addr \ {a, lst[l]} : nd2[x] = nd[x]
        /\ nd2[a].next = NULL /\ nd2[a].ms = h[a].ms
        /\ c # <<>> => nd2[lst[l]].next = a
    <2>1. CASE lst[l] = NULL
      BY <2>1, <1>2
    <2>2. CASE lst[l] # NULL
      <3>1. nd2 = PutNext(h, lst[l], a) /\ lst[l] \in Addr /\ lst[l] # a
        BY <2>2, <1>1, <1>2, <1>3
      <3>2. /\ nd2 \in [Addr -> Node] /\ nd2[lst[l]].next = a
            /\ \A x \in Addr : nd2[x].ms = h[x].ms
            /\ \A x \in Addr \ {lst[l]} : nd2[x] = h[x]
        BY <3>1, <1>1, NextWritten
      <3>3. QED BY <3>1, <3>2
    <2>3. QED BY <2>1, <2>2
  <1>5. Linked(nd2, fst2[l], lst2[l], d)
    <2>0. lst2[l] = a
      BY <1>0
    <2>1. CASE c = <<>>
      <3>1. fst2[l] = a /\ d = <<a>>
        BY <2>1, <1>0, <1>2
      <3>2. Linked(nd2, a, a, <<a>>)
        BY <1>4, LinkedOnly
      <3>3. QED BY <2>0, <3>1, <3>2
    <2>2. CASE c # <<>>
      <3>1. fst2[l] = fst[l]
        BY <2>2, <1>2
      <3>2. \A b \in Elems(c) \ {lst[l]} : nd2[b].next = nd[b].next
        BY <1>4, <1>e
      <3> DEFINE f == fst[l]
                 z == lst[l]
      <3>3. /\ Linked(nd, f, z, c) /\ nd2[a].next = NULL /\ nd2[z].next = a
            /\ \A b \in Elems(c) \ {z} : nd2[b].next = nd[b].next
            /\ a \in Addr \ Elems(c)
        BY <2>2, <3>2, <1>0, <1>1, <1>4
      <3> HIDE DEF f, z
      <3>4. Linked(nd2, f, a, d)
        BY <2>2, <3>3, LinkedLast
      <3>5. QED BY <2>0, <3>1, <3>4 DEF f
    <2>3. QED BY <2>1, <2>2
  <1>6. l = "jobs" => SortedBy(nd2, d)
    <2> SUFFICES ASSUME l = "jobs" PROVE SortedBy(nd2, d)
      OBVIOUS
    <2>1. \A i \in 1 .. Len(c) : c[i] \in Elems(c)
      BY DEF Elems
    <2>2. \A p \in Periods : p \in Nat
      BY Longest
    <2>3. /\ nd2[a].ms \in Nat /\ \A i \in 1 .. Len(c) : nd[c[i]].ms \in Nat
          /\ \A i \in 1 .. Len(c) : nd2[c[i]].ms = nd[c[i]].ms
      BY <2>1, <2>2, <1>0, <1>e, <1>4 DEF Values
    <2>4. CASE c = <<>>
      <3>1. d = <<a>>
        BY <2>4, <1>0
      <3>2. QED BY <3>1 DEF SortedBy
    <2>5. CASE c # <<>>
      <3>1. nd[c[Len(c)]].ms <= nd2[a].ms
        BY <2>5, <1>2, <1>3, <1>4
      <3>2. SortedBy(nd, c) /\ c \in Seq(Addr)
        BY <1>0
      <3>3. QED BY <2>3, <2>5, <3>1, <3>2, SortedAppended
    <2>6. QED BY <2>4, <2>5
  <1>7. /\ fst2 \in [Lists -> Pointer] /\ lst2 \in [Lists -> Pointer] /\ K \in [Lists -> Seq(Addr)]
        /\ K[l] = d /\ K[m] = L[m] /\ fst2[m] = fst[m] /\ lst2[m] = lst[m]
    BY <1>0, <1>1
  <1>8. /\ Elems(d) \cap Elems(L[m]) = {} /\ al \cup {a} = Elems(d) \cup Elems(L[m])
        /\ \A b \in Elems(L[m]) : nd2[b] = nd[b]
        /\ \A b \in Elems(d) : nd2[b].ms \in Values(l)
    <2>1. \A b \in Elems(L[m]) : nd2[b] = nd[b]
      <3>1. \A b \in Elems(L[m]) : b # lst[l]
        <4>1. \A b \in Elems(L[m]) : b # NULL
          BY <1>e, CronAssumption
        <4>2. QED BY <4>1, <1>0, <1>2, <1>3
      <3>2. QED BY <3>1, <1>e, <1>4
    <2>2. \A b \in Elems(d) : nd2[b].ms \in Values(l)
      BY <1>0, <1>1, <1>e, <1>4
    <2>3. Elems(d) \cap Elems(L[m]) = {} /\ al \cup {a} = Elems(d) \cup Elems(L[m])
      BY <1>0, <1>1
    <2>4. QED BY <2>1, <2>2, <2>3
  <1> HIDE DEF d, K, lst2
  <1>9. Replaced(nd, fst, lst, L, l, nd2, al \cup {a}, fst2, lst2, K)
    BY <1>4, <1>5, <1>6, <1>7, <1>8 DEF Replaced, m
  <1>10. Shape(nd2, al \cup {a}, fst2, lst2, K)
    BY <1>9, ShapeReplaced
  <1>11. QED BY <1>10 DEF K, d, lst2, c

\* The heap and the first pointer after a new job h[a] was linked in front
\* of the k-th one.
HeapInFront(h, c, k, a) ==
    IF k = 1 THEN PutNext(h, a, c[1]) ELSE PutNext(PutNext(h, a, c[k]), c[k - 1], a)
FirstInFront(fst, k, a) == IF k = 1 THEN [fst EXCEPT !["jobs"] = a] ELSE fst

\* The place is right: h is the heap nd but for the new job h[a].
RightPlace(nd, c, h, k, a) ==
    /\ k \in 1 .. Len(c)
    /\ h \in [Addr -> Node] /\ \A x \in Addr \ {a} : h[x] = nd[x]
    /\ h[a].ms \in Periods /\ h[a].ms <= nd[c[k]].ms
    /\ \A i \in 1 .. Len(c) : i < k => nd[c[i]].ms <= h[a].ms

(* A new job in front of the k-th one leaves well-formed lists.            *)
LEMMA NewInFront ==
    ASSUME NEW nd, NEW al, NEW fst, NEW lst, NEW L, Shape(nd, al, fst, lst, L),
           NEW a \in Addr \ al, NEW h, NEW k, RightPlace(nd, L["jobs"], h, k, a)
    PROVE  Shape(HeapInFront(h, L["jobs"], k, a), al \cup {a}, FirstInFront(fst, k, a), lst,
                 [L EXCEPT !["jobs"] = Inserted(L["jobs"], k, a)])
  <1> DEFINE c == L["jobs"]
             nd2 == HeapInFront(h, c, k, a)
             fst2 == FirstInFront(fst, k, a)
  <1>h. /\ k \in 1 .. Len(c)
        /\ h \in [Addr -> Node] /\ \A x \in Addr \ {a} : h[x] = nd[x]
        /\ h[a].ms \in Periods /\ h[a].ms <= nd[c[k]].ms
        /\ \A i \in 1 .. Len(c) : i < k => nd[c[i]].ms <= h[a].ms
    BY DEF RightPlace
  <1>n. nd2 = HeapInFront(h, c, k, a) /\ fst2 = FirstInFront(fst, k, a)
    OBVIOUS
  <1> HIDE DEF nd2, fst2
  <1> DEFINE d == Inserted(c, k, a)
             t == L["timeouts"]
             K == [L EXCEPT !["jobs"] = d]
  <1>0. /\ c \in Seq(Addr) /\ Linked(nd, fst["jobs"], lst["jobs"], c)
        /\ nd \in [Addr -> Node] /\ fst \in [Lists -> Pointer] /\ lst \in [Lists -> Pointer]
        /\ L \in [Lists -> Seq(Addr)] /\ al = Elems(c) \cup Elems(t)
        /\ Elems(c) \cap Elems(t) = {} /\ "jobs" \in Lists /\ "timeouts" \in Lists
        /\ t \in Seq(Addr)
        /\ \A b \in Elems(c) : nd[b].ms \in Periods
        /\ SortedBy(nd, c)
    BY DEF Shape, Lists
  <1> HIDE DEF t, c
  <1>1. /\ Elems(d) = Elems(c) \cup {a} /\ d \in Seq(Addr) /\ a \notin Elems(c) /\ a \notin Elems(t)
        /\ a \in Pointer
    BY <1>0, <1>h, ElemsOfInserted DEF Pointer
  <1>e. /\ \A b \in Elems(c) : b \in Addr /\ b # a /\ b \in Pointer
        /\ \A b \in Elems(t) : b \in Addr /\ b # a /\ b \notin Elems(c)
        /\ \A i \in 1 .. Len(c) : c[i] \in Elems(c)
    <2>1. \A b \in Elems(c) : b \in Addr
      BY <1>0 DEF Elems
    <2>2. \A b \in Elems(t) : b \in Addr
      BY <1>0 DEF Elems
    <2>3. \A i \in 1 .. Len(c) : c[i] \in Elems(c)
      BY DEF Elems
    <2>4. QED BY <2>1, <2>2, <2>3, <1>0, <1>1 DEF Pointer
  <1>k. Len(c) \in Nat /\ k \in Nat /\ (k > 1 => k - 1 \in 1 .. Len(c))
    BY <1>0, <1>h
  <1>2. /\ nd2 \in [Addr -> Node]
        /\ \A x \in Addr : nd2[x].ms = h[x].ms
        /\ nd2[a].next = c[k]
        /\ k > 1 => nd2[c[k - 1]].next = a
        /\ \A x \in Addr \ {a} : (k > 1 => x # c[k - 1]) => nd2[x] = nd[x]
    <2> DEFINE g == PutNext(h, a, c[k])
    <2>1. /\ g \in [Addr -> Node] /\ g[a].next = c[k]
          /\ \A x \in Addr : g[x].ms = h[x].ms
          /\ \A x \in Addr \ {a} : g[x] = h[x]
      BY <1>h, <1>e, NextWritten
    <2>2. CASE k = 1
      <3>1. nd2 = g
        BY <2>2, <1>n DEF HeapInFront
      <3> HIDE DEF g
      <3>2. QED BY <2>1, <2>2, <3>1, <1>h
    <2>3. CASE k # 1
      <3>1. nd2 = PutNext(g, c[k - 1], a) /\ k > 1 /\ c[k - 1] \in Addr /\ c[k - 1] # a
        BY <2>3, <1>n, <1>h, <1>e, <1>k DEF HeapInFront
      <3> HIDE DEF g
      <3>2. /\ nd2 \in [Addr -> Node] /\ nd2[c[k - 1]].next = a
            /\ \A x \in Addr : nd2[x].ms = g[x].ms
            /\ \A x \in Addr \ {c[k - 1]} : nd2[x] = g[x]
        BY <2>1, <3>1, <1>1, NextWritten
      <3>3. QED BY <2>1, <3>1, <3>2, <1>h
    <2>4. QED BY <2>2, <2>3
  <1>3. Linked(nd2, IF k = 1 THEN a ELSE fst["jobs"], lst["jobs"], d)
    <2>1. \A i \in 1 .. Len(c) : i # k - 1 => nd2[c[i]].next = nd[c[i]].next
      <3> SUFFICES ASSUME NEW i \in 1 .. Len(c), i # k - 1 PROVE nd2[c[i]].next = nd[c[i]].next
        OBVIOUS
      <3>1. k > 1 => c[i] # c[k - 1]
        BY <1>0, <1>k DEF Linked
      <3>2. c[i] \in Addr \ {a}
        BY <1>e
      <3>3. QED BY <3>1, <3>2, <1>h, <1>2
    <2> DEFINE f == fst["jobs"]
               z == lst["jobs"]
    <2>2. Linked(nd, f, z, c)
      BY <1>0
    <2> HIDE DEF f, z
    <2>3. nd2[a].next = c[k] /\ (k > 1 => nd2[c[k - 1]].next = a) /\ a \in Addr \ Elems(c)
      BY <1>1, <1>2
    <2>4. Linked(nd2, IF k = 1 THEN a ELSE f, z, Inserted(c, k, a))
      <3> HIDE DEF d
      <3> QED BY <2>1, <2>2, <2>3, <1>h, LinkedInserted
    <2>5. QED BY <2>4 DEF f, z
  <1>4. SortedBy(nd2, d)
    <2>2. \A p \in Periods : p \in Nat
      BY Longest
    <2>3. /\ nd2[a].ms \in Nat /\ \A i \in 1 .. Len(c) : nd[c[i]].ms \in Nat
          /\ \A i \in 1 .. Len(c) : nd2[c[i]].ms = nd[c[i]].ms
          /\ nd2[a].ms = h[a].ms
      BY <2>2, <1>h, <1>0, <1>e, <1>2
    <2>4. SortedBy(nd, c) /\ c \in Seq(Addr)
      BY <1>0
    <2>5. QED BY <2>3, <2>4, <1>h, SortedInserted
  <1>5. /\ fst2 \in [Lists -> Pointer] /\ K \in [Lists -> Seq(Addr)]
        /\ K["jobs"] = d /\ K["timeouts"] = t /\ fst2["timeouts"] = fst["timeouts"]
        /\ fst2["jobs"] = IF k = 1 THEN a ELSE fst["jobs"]
    BY <1>0, <1>1, <1>n DEF t, c, FirstInFront
  <1>6. /\ Elems(d) \cap Elems(t) = {} /\ al \cup {a} = Elems(d) \cup Elems(t)
        /\ \A b \in Elems(t) : nd2[b] = nd[b]
        /\ \A b \in Elems(d) : nd2[b].ms \in Values("jobs")
    <2>1. \A b \in Elems(t) : nd2[b] = nd[b]
      <3>1. k > 1 => c[k - 1] \in Elems(c)
        BY <1>e, <1>k
      <3>2. QED BY <3>1, <1>h, <1>e, <1>2
    <2>2. \A b \in Elems(d) : nd2[b].ms \in Values("jobs")
      BY <1>h, <1>0, <1>1, <1>e, <1>2 DEF Values
    <2>3. Elems(d) \cap Elems(t) = {} /\ al \cup {a} = Elems(d) \cup Elems(t)
      BY <1>0, <1>1
    <2>4. QED BY <2>1, <2>2, <2>3
  <1> HIDE DEF d, K
  <1>7. Other("jobs") = "timeouts"
    BY DEF Other
  <1>8. Replaced(nd, fst, lst, L, "jobs", nd2, al \cup {a}, fst2, lst, K)
    BY <1>0, <1>2, <1>3, <1>4, <1>5, <1>6, <1>7 DEF Replaced, t
  <1>9. Shape(nd2, al \cup {a}, fst2, lst, K)
    BY <1>0, <1>8, ShapeReplaced
  <1>10. QED BY <1>9, <1>n DEF K, d, c

(* A call that takes no node away and does not touch the jobs there were.  *)
LEMMA GrownKeepsInvariant ==
    ASSUME InRange, NEW L \in [Lists -> Seq(Addr)], Holds(L),
           NEW K \in [Lists -> Seq(Addr)],
           Shape(node', allocated', first', last', K),
           \A l \in Lists : /\ Elems(L[l]) \subseteq Elems(K[l])
                            /\ \A cur, fn : Ahead(L[l], cur, fn) \subseteq Ahead(K[l], cur, fn),
           \A b \in Elems(L["jobs"]) : node'[b].ms = node[b].ms /\ since'[b] = since[b],
           \A b \in Elems(K["jobs"]) \ Elems(L["jobs"]) : since'[b] = 0,
           since' \in [Addr -> 0 .. 2 * MaxPeriod],
           UNCHANGED <<timer, due>>
    PROVE  CInv'
  <1>1. /\ Walking(node, L, ms, walk, current, inFn, due) /\ InTime(node, L, ms, since, due)
        /\ ms' = ms /\ walk' = walk /\ current' = current /\ inFn' = inFn /\ due' = due
        /\ "jobs" \in Lists /\ "timeouts" \in Lists
    BY DEF Holds, timer, Lists
  <1>2. Walking(node', K, ms, walk, current, inFn, due)
    <2>1. walk = "none" => ~inFn /\ current = NULL /\ due = {}
      BY <1>1 DEF Walking
    <2>2. walk \in Lists => /\ current \in Elems(K[walk]) \cup {NULL}
                            /\ due \subseteq Ahead(K[walk], current, inFn)
      <3>1. walk \in Lists => /\ current \in Elems(L[walk]) \cup {NULL}
                              /\ due \subseteq Ahead(L[walk], current, inFn)
        BY <1>1 DEF Walking
      <3>2. QED BY <3>1
    <2>3. walk = "jobs" => ms > 0 /\ \A a \in due : ms % node'[a].ms = 0
      <3> SUFFICES ASSUME walk = "jobs" PROVE ms > 0 /\ \A a \in due : ms % node'[a].ms = 0
        OBVIOUS
      <3>1. due \subseteq Elems(L["jobs"])
        <4>1. due \subseteq Ahead(L["jobs"], current, inFn)
          BY <1>1 DEF Walking
        <4>2. QED BY <4>1, AheadInList
      <3>2. ms > 0 /\ \A a \in due : ms % node[a].ms = 0
        BY <1>1 DEF Walking
      <3>3. QED BY <3>1, <3>2
    <2>4. inFn => current # NULL
      BY <1>1 DEF Walking
    <2>5. QED BY <2>1, <2>2, <2>3, <2>4, Zenon DEF Walking
  <1>3. InTime(node', K, ms, since', due)
    <2>1. ASSUME NEW b \in Elems(K["jobs"]) \ Elems(L["jobs"])
          PROVE  Bound(since'[b], node'[b].ms, ms)
      <3>1. node'[b].ms \in Nat \ {0}
        BY Longest DEF Shape
      <3>2. ms \in Nat /\ since'[b] = 0
        BY Longest DEF InRange
      <3>3. QED BY <3>1, <3>2, BoundAtZero
    <2>2. \A b \in Elems(K["jobs"]) \ due :
            \/ b \in Elems(L["jobs"]) \ due /\ node'[b].ms = node[b].ms /\ since'[b] = since[b]
            \/ Bound(since'[b], node'[b].ms, ms)
      BY <2>1
    <2>3. QED BY <1>1, <2>2, Zenon DEF InTime
  <1>4. InRange'
    BY <1>1 DEF InRange
  <1>5. Holds(K)'
    BY <1>1, <1>2, <1>3 DEF Holds
  <1>6. QED BY <1>4, <1>5 DEF CInv

(* cron_add_job: the only job, one at the end, or one in front of another. *)
LEMMA AddJobKeepsInvariant ==
    ASSUME CInv, NEW p \in Periods, cron_add_job(p)
    PROVE  CInv'
  <1>1. PICK L \in [Lists -> Seq(Addr)] : Holds(L)
    BY DEF CInv
  <1> DEFINE c == L["jobs"]
             z == last["jobs"]
  <1>2. /\ Shape(node, allocated, first, last, L) /\ InRange /\ "jobs" \in Lists /\ "timeouts" \in Lists
        /\ UNCHANGED <<timer, due>>
    BY <1>1 DEF Holds, CInv, Lists, cron_add_job
  <1> DEFINE H(a) == [node EXCEPT ![a] = [@ EXCEPT !.ms = p, !.next = NULL]]
  <1>3. PICK a \in Addr \ allocated :
          /\ allocated' = allocated \cup {a}
          /\ since' = [since EXCEPT ![a] = 0]
          /\ IF z = NULL THEN LinkOnly(H(a), "jobs", a)
             ELSE IF H(a)[z].ms < p THEN LinkLast(H(a), "jobs", a)
             ELSE LinkSorted(H(a), a, p)
    BY DEF cron_add_job
  <1> DEFINE h == H(a)
  <1>4. /\ h \in [Addr -> Node] /\ h[a].ms = p /\ h[a].next = NULL
        /\ \A x \in Addr \ {a} : h[x] = node[x]
    <2>1. node \in [Addr -> Node] /\ node[a] \in Node
      BY <1>2 DEF Shape
    <2>2. LET r == [node[a] EXCEPT !.ms = p, !.next = NULL]
          IN  r \in Node /\ r.ms = p /\ r.next = NULL
      BY <2>1 DEF Node, Pointer
    <2> HIDE DEF Node
    <2>3. QED BY <2>1, <2>2
  <1>5. IF z = NULL THEN LinkOnly(h, "jobs", a)
        ELSE IF h[z].ms < p THEN LinkLast(h, "jobs", a)
        ELSE LinkSorted(h, a, p)
    BY <1>3
  <1> HIDE DEF H, h
  <1>6. /\ c \in Seq(Addr) /\ Linked(node, first["jobs"], z, c) /\ Chain("jobs") = c
        /\ a \notin Elems(c) /\ node \in [Addr -> Node] /\ Elems(c) \subseteq Addr
    <2>1. Chain("jobs") = c
      BY <1>2, ListsAre
    <2>2. /\ c \in Seq(Addr) /\ Linked(node, first["jobs"], z, c) /\ node \in [Addr -> Node]
          /\ a \notin Elems(c)
      BY <1>2 DEF Shape
    <2> HIDE DEF c
    <2>3. QED BY <2>1, <2>2 DEF Elems
  <1>7. z # NULL => z \in Elems(c) /\ z \in Addr /\ z # a /\ h[z] = node[z] /\ z = c[Len(c)]
                    /\ Len(c) \in 1 .. Len(c)
    <2>1. c = <<>> => z = NULL
      BY <1>6 DEF Linked
    <2>2. c # <<>> => Len(c) \in 1 .. Len(c) /\ z = c[Len(c)]
      BY <1>6 DEF Linked
    <2>3. z # NULL => z \in Elems(c) /\ z = c[Len(c)] /\ Len(c) \in 1 .. Len(c)
      BY <2>1, <2>2 DEF Elems
    <2>4. QED BY <2>3, <1>4, <1>6
  <1>8. \A b \in Elems(c) : node[b].ms \in Nat /\ p \in Nat
    BY <1>2, Longest DEF Shape
  <1>m. \A b \in Elems(c) : h[b].ms = node[b].ms
    BY <1>4, <1>6
  <1>s. /\ since' \in [Addr -> 0 .. 2 * MaxPeriod] /\ since'[a] = 0
        /\ \A b \in Elems(c) : since'[b] = since[b]
    <2>1. since \in [Addr -> 0 .. 2 * MaxPeriod] /\ 0 \in 0 .. 2 * MaxPeriod
      BY <1>2, Longest DEF InRange
    <2>2. QED BY <2>1, <1>3, <1>6
  <1>9. ASSUME NEW d \in Seq(Addr), Elems(d) = Elems(c) \cup {a},
               \A cur, fn : Ahead(c, cur, fn) \subseteq Ahead(d, cur, fn),
               Shape(node', allocated', first', last', [L EXCEPT !["jobs"] = d]),
               \A b \in Elems(c) : node'[b].ms = node[b].ms
        PROVE  CInv'
    <2> DEFINE K == [L EXCEPT !["jobs"] = d]
    <2>1. K \in [Lists -> Seq(Addr)] /\ K["jobs"] = d /\ K["timeouts"] = L["timeouts"]
      BY <1>2
    <2>2. Shape(node', allocated', first', last', K)
      BY <1>9
    <2> HIDE DEF K
    <2>3. \A l \in Lists : /\ Elems(L[l]) \subseteq Elems(K[l])
                           /\ \A cur, fn : Ahead(L[l], cur, fn) \subseteq Ahead(K[l], cur, fn)
      BY <2>1, <1>9 DEF Lists
    <2>4. \A b \in Elems(K["jobs"]) \ Elems(L["jobs"]) : since'[b] = 0
      BY <2>1, <1>9, <1>s
    <2>5. \A b \in Elems(L["jobs"]) : node'[b].ms = node[b].ms /\ since'[b] = since[b]
      BY <1>9, <1>s
    <2>6. QED BY <2>1, <2>2, <2>3, <2>4, <2>5, <1>1, <1>2, <1>s, GrownKeepsInvariant
  <1>10. CASE z = NULL \/ h[z].ms < p
    <2> DEFINE nd2 == IF z = NULL THEN h ELSE PutNext(h, z, a)
               fst2 == IF z = NULL THEN [first EXCEPT !["jobs"] = a] ELSE first
    <2>1. node' = nd2 /\ first' = fst2 /\ last' = [last EXCEPT !["jobs"] = a]
      BY <1>5, <1>10 DEF LinkOnly, LinkLast, PutNext
    <2>2. z # NULL => node[z].ms <= h[a].ms
      BY <1>4, <1>7, <1>8, <1>10
    <2>3. h[a].ms \in Values("jobs")
      BY <1>4 DEF Values
    <2>4. Shape(nd2, allocated \cup {a}, fst2, [last EXCEPT !["jobs"] = a],
                [L EXCEPT !["jobs"] = Append(L["jobs"], a)])
      <3> HIDE DEF nd2, fst2
      <3>1. nd2 = (IF last["jobs"] = NULL THEN h ELSE PutNext(h, last["jobs"], a))
            /\ fst2 = IF last["jobs"] = NULL THEN [first EXCEPT !["jobs"] = a] ELSE first
        BY DEF nd2, fst2
      <3>2. QED BY <3>1, <2>2, <2>3, <1>2, <1>4, NewAtTheEnd
    <2>5. Shape(node', allocated', first', last', [L EXCEPT !["jobs"] = Append(c, a)])
      <3> HIDE DEF nd2, fst2
      <3> QED BY <2>1, <2>4, <1>3
    <2>6. /\ Append(c, a) \in Seq(Addr) /\ Elems(Append(c, a)) = Elems(c) \cup {a}
          /\ \A cur, fn : Ahead(c, cur, fn) \subseteq Ahead(Append(c, a), cur, fn)
      BY <1>6, ElemsOfAppended
    <2>7. \A b \in Elems(c) : node'[b].ms = node[b].ms
      <3>1. CASE z = NULL
        BY <3>1, <2>1, <1>m
      <3>2. CASE z # NULL
        <4>1. node' = PutNext(h, z, a) /\ z \in Addr /\ a \in Pointer
          BY <3>2, <2>1, <1>7 DEF Pointer
        <4>2. \A x \in Addr : node'[x].ms = h[x].ms
          BY <4>1, <1>4, NextWritten
        <4>3. QED BY <4>2, <1>6, <1>m
      <3>3. QED BY <3>1, <3>2
    <2> HIDE DEF nd2, fst2, c
    <2>8. QED BY <2>5, <2>6, <2>7, <1>9
  <1>11. CASE z # NULL /\ ~(h[z].ms < p)
    <2> DEFINE k == Before(c, p)
    <2>1. p <= node[c[Len(c)]].ms /\ Len(c) \in 1 .. Len(c)
      BY <1>7, <1>8, <1>11
    <2>2. /\ k \in 1 .. Len(c) /\ p <= node[c[k]].ms
          /\ \A i \in 1 .. Len(c) : i < k => ~(p <= node[c[i]].ms)
      <3>1. k # 0
        BY <2>1, <1>6, PlaceBefore
      <3>2. QED BY <3>1, <1>6, PlaceBefore
    <2>3. /\ node' = IF k = 0 THEN h ELSE IF k = 1 THEN PutNext(h, a, c[1])
                     ELSE PutNext(PutNext(h, a, c[k]), c[k - 1], a)
          /\ first' = IF k = 1 THEN [first EXCEPT !["jobs"] = a] ELSE first
          /\ last' = last
      <3>1. LinkSorted(h, a, p)
        BY <1>5, <1>11
      <3>2. k > 1 => PutNext(PutNext(h, a, c[k]), c[k - 1], a) =
                       [h EXCEPT ![a].next = c[k], ![c[k - 1]].next = a]
        BY DEF PutNext
      <3>3. k \in Nat
        BY <2>2
      <3> HIDE DEF k
      <3>4. QED BY <3>1, <3>2, <3>3, <1>6 DEF LinkSorted, PutNext, k
    <2>4. k \in Nat \ {0}
      BY <2>2
    <2> HIDE DEF k
    <2>5. \A i \in 1 .. Len(c) : i < k => node[c[i]].ms <= h[a].ms
      <3>1. \A i \in 1 .. Len(c) : c[i] \in Elems(c)
        BY DEF Elems
      <3>2. QED BY <2>2, <3>1, <1>4, <1>8
    <2>6. Shape(node', allocated \cup {a}, first', last, [L EXCEPT !["jobs"] = Inserted(c, k, a)])
      <3>1. node' = HeapInFront(h, c, k, a) /\ first' = FirstInFront(first, k, a)
        BY <2>3, <2>4 DEF HeapInFront, FirstInFront
      <3>2. RightPlace(node, c, h, k, a)
        BY <1>4, <2>2, <2>5 DEF RightPlace
      <3>3. QED BY <3>1, <3>2, <1>2, NewInFront
    <2>7. Shape(node', allocated', first', last', [L EXCEPT !["jobs"] = Inserted(c, k, a)])
      BY <2>3, <2>6, <1>3
    <2>8. /\ Inserted(c, k, a) \in Seq(Addr) /\ Elems(Inserted(c, k, a)) = Elems(c) \cup {a}
          /\ \A cur, fn : Ahead(c, cur, fn) \subseteq Ahead(Inserted(c, k, a), cur, fn)
      BY <1>6, <2>2, ElemsOfInserted
    <2>9. \A b \in Elems(c) : node'[b].ms = node[b].ms
      <3>1. \A i \in 1 .. Len(c) : c[i] \in Addr /\ c[i] \in Pointer
        BY <1>6 DEF Pointer
      <3> DEFINE g == PutNext(h, a, c[k])
      <3>2. g \in [Addr -> Node] /\ \A x \in Addr : g[x].ms = h[x].ms
        BY <3>1, <2>2, <1>4, NextWritten
      <3>3. CASE k = 1
        <4>1. node' = g
          BY <3>3, <2>3
        <4> HIDE DEF g
        <4>2. QED BY <4>1, <3>2, <1>6, <1>m
      <3>4. CASE k # 1
        <4>1. node' = PutNext(g, c[k - 1], a) /\ c[k - 1] \in Addr /\ a \in Pointer
          <5>1. k - 1 \in 1 .. Len(c)
            BY <3>4, <2>2
          <5>2. QED BY <5>1, <3>1, <3>4, <2>3, <2>4 DEF Pointer
        <4> HIDE DEF g
        <4>2. \A x \in Addr : node'[x].ms = g[x].ms
          BY <4>1, <3>2, NextWritten
        <4>3. QED BY <4>2, <3>2, <1>6, <1>m
      <3>5. QED BY <3>3, <3>4
    <2> HIDE DEF c
    <2>10. QED BY <2>7, <2>8, <2>9, <1>9
  <1>12. QED BY <1>10, <1>11

(* cron_set_timeout under a new name: at the end of the timeouts.          *)
LEMMA NewTimeoutKeepsInvariant ==
    ASSUME CInv, NEW id \in TimeoutIds, NEW p \in Delays, NewTimeout(id, p),
           UNCHANGED <<timer, since, due>>
    PROVE  CInv'
  <1>1. PICK L \in [Lists -> Seq(Addr)] : Holds(L)
    BY DEF CInv
  <1> DEFINE c == L["timeouts"]
             z == last["timeouts"]
             H(a) == [node EXCEPT ![a] = [id |-> id, ms |-> p, next |-> NULL]]
  <1>2. /\ Shape(node, allocated, first, last, L) /\ InRange /\ "jobs" \in Lists /\ "timeouts" \in Lists
    BY <1>1 DEF Holds, CInv, Lists
  <1>3. PICK a \in Addr \ allocated :
          /\ allocated' = allocated \cup {a}
          /\ IF z = NULL THEN LinkOnly(H(a), "timeouts", a)
             ELSE LinkLast(H(a), "timeouts", a)
    BY DEF NewTimeout
  <1> DEFINE h == H(a)
  <1>p. p \in Counts
    BY Longest DEF Counts
  <1>4. /\ h \in [Addr -> Node] /\ h[a].ms = p /\ h[a].next = NULL
        /\ \A x \in Addr \ {a} : h[x] = node[x]
    <2>1. node \in [Addr -> Node]
      BY <1>2 DEF Shape
    <2>2. [id |-> id, ms |-> p, next |-> NULL] \in Node
      BY <1>p DEF Node, Pointer
    <2> HIDE DEF Node
    <2>3. QED BY <2>1, <2>2
  <1>5. IF z = NULL THEN LinkOnly(h, "timeouts", a) ELSE LinkLast(h, "timeouts", a)
    BY <1>3
  <1> HIDE DEF H, h
  <1>6. /\ c \in Seq(Addr) /\ Linked(node, first["timeouts"], z, c)
        /\ Elems(c) \subseteq Addr
        /\ \A b \in Elems(L["jobs"]) : b \in Addr \ {a}
    <2>1. c \in Seq(Addr) /\ L["jobs"] \in Seq(Addr) /\ Linked(node, first["timeouts"], z, c)
          /\ a \notin Elems(L["jobs"])
      BY <1>2 DEF Shape
    <2>2. \A s \in Seq(Addr) : \A b \in Elems(s) : b \in Addr
      BY DEF Elems
    <2>3. QED BY <2>1, <2>2
  <1>7. z # NULL => z \in Addr
    <2>1. c # <<>> => Len(c) \in 1 .. Len(c) /\ z = c[Len(c)]
      BY <1>6 DEF Linked
    <2>2. QED BY <2>1, <1>6 DEF Linked
  <1> DEFINE nd2 == IF z = NULL THEN h ELSE PutNext(h, z, a)
             fst2 == IF z = NULL THEN [first EXCEPT !["timeouts"] = a] ELSE first
             d == Append(c, a)
             K == [L EXCEPT !["timeouts"] = d]
  <1>8. node' = nd2 /\ first' = fst2 /\ last' = [last EXCEPT !["timeouts"] = a]
    BY <1>5 DEF LinkOnly, LinkLast, PutNext
  <1>9. Shape(nd2, allocated \cup {a}, fst2, [last EXCEPT !["timeouts"] = a],
              [L EXCEPT !["timeouts"] = Append(L["timeouts"], a)])
    <2>1. h[a].ms \in Values("timeouts")
      BY <1>4, <1>p DEF Values
    <2> HIDE DEF nd2, fst2
    <2>2. nd2 = (IF last["timeouts"] = NULL THEN h ELSE PutNext(h, last["timeouts"], a))
          /\ fst2 = IF last["timeouts"] = NULL THEN [first EXCEPT !["timeouts"] = a] ELSE first
      BY DEF nd2, fst2
    <2>3. QED BY <2>1, <2>2, <1>2, <1>4, NewAtTheEnd
  <1>10. Shape(node', allocated', first', last', K)
    <2> HIDE DEF nd2, fst2
    <2> QED BY <1>8, <1>9, <1>3
  <1>11. /\ d \in Seq(Addr) /\ Elems(d) = Elems(c) \cup {a}
         /\ \A cur, fn : Ahead(c, cur, fn) \subseteq Ahead(d, cur, fn)
    BY <1>6, ElemsOfAppended
  <1>12. \A x \in Addr \ {a} : node'[x].ms = node[x].ms
    <2>1. CASE z = NULL
      BY <2>1, <1>4, <1>8
    <2>2. CASE z # NULL
      <3>1. node' = PutNext(h, z, a) /\ z \in Addr /\ a \in Pointer
        BY <2>2, <1>7, <1>8 DEF Pointer
      <3>2. \A x \in Addr : node'[x].ms = h[x].ms
        BY <3>1, <1>4, NextWritten
      <3>3. QED BY <3>2, <1>4
    <2>3. QED BY <2>1, <2>2
  <1> HIDE DEF d
  <1>13. K \in [Lists -> Seq(Addr)] /\ K["jobs"] = L["jobs"] /\ K["timeouts"] = d
    BY <1>2, <1>11
  <1> HIDE DEF K
  <1>14. \A l \in Lists : /\ Elems(L[l]) \subseteq Elems(K[l])
                          /\ \A cur, fn : Ahead(L[l], cur, fn) \subseteq Ahead(K[l], cur, fn)
    BY <1>11, <1>13 DEF Lists
  <1>15. \A b \in Elems(L["jobs"]) : node'[b].ms = node[b].ms /\ since'[b] = since[b]
    BY <1>6, <1>12
  <1>16. \A b \in Elems(K["jobs"]) \ Elems(L["jobs"]) : since'[b] = 0
    BY <1>13
  <1>17. since' \in [Addr -> 0 .. 2 * MaxPeriod] /\ UNCHANGED <<timer, due>>
    BY <1>2 DEF InRange
  <1>18. QED
    BY <1>1, <1>2, <1>10, <1>13, <1>14, <1>15, <1>16, <1>17, GrownKeepsInvariant

(* cron_set_timeout under a known name: only ms_left changes.              *)
LEMMA ResetTimeoutKeepsInvariant ==
    ASSUME CInv, NEW id \in TimeoutIds, NEW p \in Delays, ResetTimeout(id, p),
           UNCHANGED <<timer, since, due>>
    PROVE  CInv'
  <1>1. PICK L \in [Lists -> Seq(Addr)] : Holds(L)
    BY DEF CInv
  <1> DEFINE a == Chain("timeouts")[Named(id)]
  <1>2. /\ Shape(node, allocated, first, last, L) /\ InRange /\ "jobs" \in Lists /\ "timeouts" \in Lists
    BY <1>1 DEF Holds, CInv, Lists
  <1>3. a \in Elems(L["timeouts"])
    BY <1>2, PlaceNamed DEF ResetTimeout
  <1>4. /\ node' = PutMs(node, a, p) /\ allocated' = allocated /\ first' = first /\ last' = last
    BY DEF ResetTimeout, PutMs
  <1> HIDE DEF a
  <1>5. /\ node \in [Addr -> Node] /\ a \in Addr /\ p \in Counts /\ p \in Periods \cup Counts
    <2>1. node \in [Addr -> Node] /\ L["timeouts"] \in Seq(Addr)
      BY <1>2 DEF Shape
    <2>2. a \in Addr
      BY <1>3, <2>1 DEF Elems
    <2>3. QED BY <2>1, <2>2, Longest DEF Counts
  <1>6. /\ node' \in [Addr -> Node] /\ node'[a].ms = p
        /\ \A x \in Addr : node'[x].next = node[x].next
        /\ \A x \in Addr \ {a} : node'[x] = node[x]
    BY <1>4, <1>5, MsWritten
  <1>7. /\ \A b \in Elems(L["jobs"]) : b \in Addr \ {a} /\ node'[b] = node[b]
        /\ \A b \in Elems(L["timeouts"]) : b \in Addr /\ node'[b].next = node[b].next
    <2>1. \A s \in Seq(Addr) : \A b \in Elems(s) : b \in Addr
      BY DEF Elems
    <2>2. L["jobs"] \in Seq(Addr) /\ L["timeouts"] \in Seq(Addr) /\ a \notin Elems(L["jobs"])
      BY <1>2, <1>3 DEF Shape
    <2>3. QED BY <2>1, <2>2, <1>6
  <1>8. Shape(node', allocated', first', last', L)
    <2>1. Linked(node', first["timeouts"], last["timeouts"], L["timeouts"])
      BY <1>2, <1>7, LinkedElsewhere DEF Shape
    <2>2. \A b \in Elems(L["timeouts"]) : node'[b].ms \in Values("timeouts")
      BY <1>2, <1>5, <1>6, <1>7 DEF Shape, Values
    <2>3. Other("timeouts") = "jobs"
      BY DEF Other
    <2>4. /\ first \in [Lists -> Pointer] /\ last \in [Lists -> Pointer]
          /\ Elems(L["timeouts"]) \cap Elems(L["jobs"]) = {}
          /\ allocated = Elems(L["timeouts"]) \cup Elems(L["jobs"])
      BY <1>2 DEF Shape
    <2>5. Replaced(node, first, last, L, "timeouts", node', allocated, first, last, L)
      BY <2>1, <2>2, <2>3, <2>4, <1>6, <1>7 DEF Replaced
    <2>6. QED BY <2>5, <1>2, <1>4, ShapeReplaced
  <1>9. since' \in [Addr -> 0 .. 2 * MaxPeriod] /\ UNCHANGED <<timer, due>>
    BY <1>2 DEF InRange
  <1>10. \A b \in Elems(L["jobs"]) : node'[b].ms = node[b].ms /\ since'[b] = since[b]
    BY <1>7
  <1>11. QED
    BY <1>1, <1>2, <1>8, <1>9, <1>10, GrownKeepsInvariant

(* cron_clear frees every job and empties the list.                        *)
LEMMA ClearKeepsInvariant ==
    ASSUME ~OwnRemovals, CInv, cron_clear
    PROVE  CInv'
  <1>1. PICK L \in [Lists -> Seq(Addr)] : Holds(L)
    BY DEF CInv
  <1> DEFINE K == [L EXCEPT !["jobs"] = <<>>]
             t == L["timeouts"]
  <1>2. /\ Shape(node, allocated, first, last, L) /\ InRange /\ "jobs" \in Lists /\ "timeouts" \in Lists
        /\ Listed("jobs") = Elems(L["jobs"])
    <2>1. /\ Shape(node, allocated, first, last, L) /\ InRange /\ "jobs" \in Lists /\ "timeouts" \in Lists
      BY <1>1 DEF Holds, CInv, Lists
    <2>2. QED BY <2>1, ListsAre
  <1>3. /\ walk # "jobs" /\ allocated' = allocated \ Elems(L["jobs"])
        /\ first' = [first EXCEPT !["jobs"] = NULL] /\ last' = [last EXCEPT !["jobs"] = NULL]
        /\ due' = due \ Elems(L["jobs"]) /\ node' = node /\ UNCHANGED <<timer, since>>
    BY <1>2 DEF cron_clear
  <1>4. K \in [Lists -> Seq(Addr)] /\ K["jobs"] = <<>> /\ K["timeouts"] = t
    BY <1>2
  <1> HIDE DEF K, t
  <1>5. Elems(<<>>) = {}
    BY DEF Elems
  <1>6. Shape(node', allocated', first', last', K)
    <2>1. /\ Linked(node, NULL, NULL, <<>>) /\ SortedBy(node, <<>>)
      BY LinkedEmpty DEF SortedBy
    <2>2. /\ node \in [Addr -> Node] /\ first \in [Lists -> Pointer] /\ last \in [Lists -> Pointer]
          /\ Elems(L["jobs"]) \cap Elems(t) = {} /\ allocated = Elems(L["jobs"]) \cup Elems(t)
      BY <1>2 DEF Shape, t
    <2>3. /\ first' \in [Lists -> Pointer] /\ last' \in [Lists -> Pointer]
          /\ first'["jobs"] = NULL /\ last'["jobs"] = NULL
          /\ first'["timeouts"] = first["timeouts"] /\ last'["timeouts"] = last["timeouts"]
      BY <1>2, <1>3, <2>2 DEF Pointer
    <2>4. allocated' = Elems(t)
      BY <1>3, <2>2
    <2>5. Other("jobs") = "timeouts"
      BY DEF Other
    <2>6. Replaced(node, first, last, L, "jobs", node', allocated', first', last', K)
      BY <2>1, <2>2, <2>3, <2>4, <2>5, <1>3, <1>4, <1>5 DEF Replaced, t
    <2>7. QED BY <2>6, <1>2, ShapeReplaced
  <1>7. ms' = ms /\ walk' = walk /\ current' = current /\ inFn' = inFn /\ since' = since
    BY <1>3 DEF timer
  <1>8. Walking(node', K, ms', walk', current', inFn', due')
    <2>1. Walking(node, L, ms, walk, current, inFn, due) /\ due' \in SUBSET due
      BY <1>1, <1>3 DEF Holds
    <2>2. \A i \in Lists : i # "jobs" => K[i] = L[i]
      BY <1>4 DEF Lists, t
    <2>3. /\ walk = "jobs" => /\ current \in Elems(K["jobs"]) \cup {NULL}
                              /\ due' \subseteq Ahead(K["jobs"], current, inFn)
          /\ walk = "jobs" => \A a \in due' : node[a].ms = node[a].ms
      BY <1>3
    <2>4. "jobs" \in Lists
      BY <1>2
    <2>5. Walking(node, K, ms, walk, current, inFn, due')
      BY <2>1, <2>2, <2>3, <2>4, WalkingReplaced
    <2>6. QED BY <2>5, <1>3, <1>7
  <1>9. InTime(node', K, ms', since', due')
    BY <1>4, <1>5 DEF InTime
  <1>10. InRange'
    BY <1>2, <1>7 DEF InRange
  <1>11. QED BY <1>4, <1>6, <1>8, <1>9, <1>10 DEF CInv, Holds

-----------------------------------------------------------------------------
(* The timer function keeps the invariant.                                 *)

(* Periods along the list: none is longer than the last, none shorter than *)
(* the first, and none before the current job's is ahead of it.            *)
LEMMA PeriodsAlong ==
    ASSUME NEW L, Shape(node, allocated, first, last, L), NEW a \in Elems(L["jobs"])
    PROVE  /\ node[a].ms \in Nat \ {0} /\ node[a].ms <= MaxPeriod /\ a \in Addr
           /\ first["jobs"] \in Elems(L["jobs"]) /\ node[first["jobs"]].ms <= node[a].ms
           /\ last["jobs"] \in Elems(L["jobs"]) /\ node[a].ms <= node[last["jobs"]].ms
           /\ first["jobs"] # NULL
           /\ \A b : a \in Ahead(L["jobs"], b, FALSE) => node[b].ms <= node[a].ms
  <1> DEFINE c == L["jobs"]
  <1>1. /\ c \in Seq(Addr) /\ Linked(node, first["jobs"], last["jobs"], c) /\ SortedBy(node, c)
        /\ \A x \in Elems(c) : node[x].ms \in Periods
    BY DEF Shape, Lists
  <1>2. PICK i \in 1 .. Len(c) : a = c[i]
    BY DEF Elems
  <1> HIDE DEF c
  <1>3. \A x \in 1 .. Len(c) : c[x] \in Elems(c) /\ c[x] \in Addr /\ node[c[x]].ms \in Nat \ {0}
                               /\ node[c[x]].ms <= MaxPeriod
    BY <1>1, Longest DEF Elems
  <1>4. Len(c) \in Nat /\ 1 \in 1 .. Len(c) /\ Len(c) \in 1 .. Len(c) /\ c # <<>>
    BY <1>1, <1>2
  <1>5. first["jobs"] = c[1] /\ last["jobs"] = c[Len(c)]
    BY <1>1, <1>4 DEF Linked
  <1>6. \A x, y \in 1 .. Len(c) : x <= y => node[c[x]].ms <= node[c[y]].ms
    BY <1>1, <1>3 DEF SortedBy
  <1>7. node[c[1]].ms <= node[a].ms /\ node[a].ms <= node[c[Len(c)]].ms
    BY <1>2, <1>4, <1>6
  <1>8. ASSUME NEW b, a \in Ahead(c, b, FALSE) PROVE node[b].ms <= node[a].ms
    <2>1. PICK x \in 1 .. Len(c) : a = c[x] /\ \E p \in 1 .. Len(c) : c[p] = b /\ p <= x
      BY <1>8 DEF Ahead
    <2>2. QED BY <2>1, <1>6
  <1>9. c[1] # NULL
    BY <1>3, <1>4, CronAssumption
  <1>10. QED BY <1>2, <1>3, <1>4, <1>5, <1>7, <1>8, <1>9 DEF c

(* The walk in a list, taken apart.                                        *)
LEMMA WalkInList ==
    ASSUME NEW nd, NEW L, NEW k, NEW w \in Lists, NEW cur, NEW fn, NEW du,
           Walking(nd, L, k, w, cur, fn, du), fn = TRUE \/ fn = FALSE
    PROVE  /\ cur \in Elems(L[w]) \cup {NULL} /\ du \subseteq Ahead(L[w], cur, fn)
           /\ w = "jobs" => k > 0 /\ \A a \in du : k % nd[a].ms = 0
           /\ fn = TRUE => cur # NULL
  BY Zenon DEF Walking

(* And put together.                                                       *)
LEMMA WalkIsSound ==
    ASSUME NEW nd, NEW L, NEW k, NEW w \in Lists, NEW cur, NEW fn, NEW du,
           cur \in Elems(L[w]) \cup {NULL}, du \subseteq Ahead(L[w], cur, fn),
           w = "jobs" => k > 0 /\ \A a \in du : k % nd[a].ms = 0,
           fn => cur # NULL
    PROVE  Walking(nd, L, k, w, cur, fn, du)
  <1>1. w # "none"
    BY DEF Lists
  <1>2. QED BY <1>1, Zenon DEF Walking

(* When the heap is left alone the lists are the same.                     *)
LEMMA SameLists ==
    ASSUME NEW L \in [Lists -> Seq(Addr)], Holds(L), UNCHANGED heap, InRange',
           Walking(node, L, ms', walk', current', inFn', due'),
           InTime(node, L, ms', since', due')
    PROVE  CInv'
  <1>1. node' = node /\ allocated' = allocated /\ first' = first /\ last' = last
    BY DEF heap
  <1>2. Holds(L)'
    BY <1>1 DEF Holds
  <1>3. QED BY <1>2 DEF CInv

(* A tick.  The jobs it calls are in due, the others stay in their bounds. *)
LEMMA TickKeepsInvariant ==
    ASSUME CInv, cron_timerfunc
    PROVE  CInv'
  <1>1. PICK L \in [Lists -> Seq(Addr)] : Holds(L)
    BY DEF CInv
  <1> DEFINE c == L["jobs"]
             t == L["timeouts"]
  <1>2. /\ Shape(node, allocated, first, last, L) /\ InRange /\ "jobs" \in Lists /\ "timeouts" \in Lists
        /\ Walking(node, L, ms, walk, current, inFn, due) /\ InTime(node, L, ms, since, due)
        /\ walk = "none" /\ "none" \notin Lists
    BY <1>1 DEF Holds, CInv, Lists, cron_timerfunc
  <1>3. due = {} /\ inFn = FALSE /\ current = NULL
    <2>1. due = {} /\ ~inFn /\ current = NULL
      BY <1>2 DEF Walking
    <2>2. inFn \in BOOLEAN
      BY <1>2 DEF InRange
    <2>3. QED BY <2>1, <2>2
  <1>4. Listed("jobs") = Elems(c) /\ Listed("timeouts") = Elems(t)
    BY <1>2, ListsAre
  <1>5. /\ IF first["jobs"] = NULL \/ Ticked < node[first["jobs"]].ms
           THEN ms' = Ticked /\ WalkTimeouts
           ELSE /\ ms' = IF Restarts(Ticked) THEN 1 ELSE Ticked
                /\ walk' = "jobs" /\ current' = first["jobs"]
                /\ due' = {a \in Listed("jobs") : ms' % node[a].ms = 0}
        /\ since' = [a \in Addr |-> IF a \in Listed("jobs") /\ since[a] < 2 * MaxPeriod
                                    THEN since[a] + 1 ELSE since[a]]
        /\ UNCHANGED heap /\ inFn' = inFn
    BY DEF cron_timerfunc
  <1>6. MaxPeriod \in Nat \ {0} /\ ms \in Nat /\ ms <= MaxPeriod + 1
        /\ since \in [Addr -> 0 .. 2 * MaxPeriod]
    BY <1>2, Longest DEF InRange
  <1>7. /\ Ticked \in Nat \ {0} /\ Ticked <= MaxPeriod + 1 /\ Ticked <= ms + 1
        /\ Ticked <= MaxPeriod => Ticked = ms + 1
    BY <1>6 DEF Ticked
  <1> HIDE DEF c, t
  <1>8. /\ since' \in [Addr -> 0 .. 2 * MaxPeriod]
        /\ \A a \in Addr : since'[a] \in Nat /\ since[a] \in Nat /\ since'[a] <= since[a] + 1
    BY <1>5, <1>6
  <1>w. /\ Elems(c) \subseteq Ahead(c, first["jobs"], FALSE) /\ first["jobs"] \in Elems(c) \cup {NULL}
        /\ Elems(t) \subseteq Ahead(t, first["timeouts"], FALSE)
        /\ first["timeouts"] \in Elems(t) \cup {NULL}
    <2>1. /\ Linked(node, first["jobs"], last["jobs"], c)
          /\ Linked(node, first["timeouts"], last["timeouts"], t)
      BY <1>2 DEF Shape, c, t
    <2>2. QED BY <2>1, WalkStarts
  <1>9. \A a \in Elems(c) : /\ node[a].ms \in Nat \ {0} /\ node[a].ms <= MaxPeriod /\ a \in Addr
                            /\ first["jobs"] # NULL
                            /\ node[first["jobs"]].ms \in Nat /\ node[last["jobs"]].ms \in Nat
                            /\ node[first["jobs"]].ms <= node[a].ms
                            /\ node[a].ms <= node[last["jobs"]].ms
                            /\ node[last["jobs"]].ms <= MaxPeriod
                            /\ Bound(since[a], node[a].ms, ms)
    <2> TAKE a \in Elems(c)
    <2>1. Bound(since[a], node[a].ms, ms)
      BY <1>2, <1>3 DEF InTime, c
    <2>2. /\ node[a].ms \in Nat \ {0} /\ node[a].ms <= MaxPeriod /\ a \in Addr
          /\ first["jobs"] \in Elems(L["jobs"]) /\ node[first["jobs"]].ms <= node[a].ms
          /\ last["jobs"] \in Elems(L["jobs"]) /\ node[a].ms <= node[last["jobs"]].ms
          /\ first["jobs"] # NULL
      BY <1>2, PeriodsAlong DEF c
    <2>3. node[first["jobs"]].ms \in Nat /\ node[last["jobs"]].ms \in Nat
          /\ node[last["jobs"]].ms <= MaxPeriod
      BY <2>2, <1>2, PeriodsAlong
    <2>4. QED BY <2>1, <2>2, <2>3
  <1>10. CASE first["jobs"] = NULL \/ Ticked < node[first["jobs"]].ms
    <2>1. ms' = Ticked /\ walk' = "timeouts" /\ current' = first["timeouts"] /\ due' = Elems(t)
      BY <1>3, <1>4, <1>5, <1>10 DEF WalkTimeouts
    <2>2. ASSUME NEW a \in Elems(c) PROVE Bound(since'[a], node[a].ms, ms')
      <3> DEFINE P == node[a].ms
      <3>a. first["jobs"] # NULL /\ node[first["jobs"]].ms \in Nat
            /\ node[first["jobs"]].ms <= P /\ P \in Nat \ {0} /\ P <= MaxPeriod
            /\ Bound(since[a], P, ms)
        BY <1>9
      <3> HIDE DEF P
      <3>1. P \in Nat \ {0} /\ Ticked < P /\ Ticked = ms + 1 /\ Bound(since[a], P, ms)
        BY <3>a, <1>6, <1>7, <1>10
      <3>2. ms < P /\ since[a] <= P - 1 + ms
        BY <3>1, <1>6 DEF Bound
      <3>3. since'[a] <= P - 1 + Ticked
        BY <3>1, <3>2, <1>6, <1>8, <1>9
      <3>4. QED BY <3>1, <3>3, <2>1 DEF Bound, P
    <2>3. InTime(node, L, ms', since', due')
      BY <2>2 DEF InTime, c
    <2>4. Walking(node, L, ms', walk', current', inFn', due')
      <3>1. inFn' = FALSE
        BY <1>3, <1>5
      <3>2. /\ walk' \in Lists /\ walk' # "jobs" /\ current' \in Elems(L[walk']) \cup {NULL}
            /\ due' \subseteq Ahead(L[walk'], current', FALSE)
        BY <2>1, <1>2, <1>w DEF t
      <3>3. Walking(node, L, ms', walk', current', FALSE, due')
        BY <3>2, WalkIsSound
      <3>4. QED BY <3>1, <3>3
    <2>5. InRange'
      BY <2>1, <1>2, <1>5, <1>6, <1>7, <1>8 DEF InRange
    <2>6. QED BY <2>3, <2>4, <2>5, <1>1, <1>5, SameLists
  <1>11. CASE ~(first["jobs"] = NULL \/ Ticked < node[first["jobs"]].ms)
    <2>1. /\ ms' = IF Restarts(Ticked) THEN 1 ELSE Ticked
          /\ walk' = "jobs" /\ current' = first["jobs"]
          /\ due' = {a \in Elems(c) : ms' % node[a].ms = 0}
      BY <1>4, <1>5, <1>11
    <2>2. ms' \in 1 .. MaxPeriod + 1
      BY <2>1, <1>6, <1>7
    <2>3. ASSUME NEW a \in Elems(c) \ due' PROVE Bound(since'[a], node[a].ms, ms')
      <3> DEFINE P == node[a].ms
                 n == since[a]
                 n2 == since'[a]
                 k2 == ms'
      <3>1. P \in Nat \ {0} /\ Bound(n, P, ms) /\ k2 \in Nat /\ k2 % P # 0
            /\ n \in Nat /\ n2 \in Nat /\ n2 <= n + 1 /\ ms \in Nat
        BY <2>1, <2>2, <1>6, <1>8, <1>9
      <3>2. k2 = ms + 1 \/ (k2 = 1 /\ P <= ms)
        BY <2>1, <1>6, <1>7, <1>9 DEF Restarts
      <3> HIDE DEF P, n, n2, k2
      <3>3. Bound(n2, P, k2)
        BY <3>1, <3>2, BoundKept
      <3>4. QED BY <3>3 DEF P, n2, k2
    <2>4. InTime(node, L, ms', since', due')
      BY <2>3 DEF InTime, c
    <2>5. Walking(node, L, ms', walk', current', inFn', due')
      <3>1. inFn' = FALSE
        BY <1>3, <1>5
      <3>2. /\ walk' \in Lists /\ current' \in Elems(L[walk']) \cup {NULL}
            /\ due' \subseteq Ahead(L[walk'], current', FALSE)
        BY <2>1, <1>2, <1>w DEF c
      <3>3. walk' = "jobs" => ms' > 0 /\ \A a \in due' : ms' % node[a].ms = 0
        BY <2>1, <2>2, <1>6
      <3>4. Walking(node, L, ms', walk', current', FALSE, due')
        BY <3>2, <3>3, WalkIsSound
      <3>5. QED BY <3>1, <3>4
    <2>6. InRange'
      BY <2>1, <2>2, <1>2, <1>5, <1>8 DEF InRange
    <2>7. QED BY <2>4, <2>5, <2>6, <1>1, <1>5, SameLists
  <1>12. QED BY <1>10, <1>11

(* A job is called: it is no longer due, and its wait starts again.        *)
LEMMA CallJobKeepsInvariant ==
    ASSUME CInv, CallJob
    PROVE  CInv'
  <1>1. PICK L \in [Lists -> Seq(Addr)] : Holds(L)
    BY DEF CInv
  <1> DEFINE c == L["jobs"]
  <1>2. /\ Shape(node, allocated, first, last, L) /\ InRange /\ "jobs" \in Lists
        /\ Walking(node, L, ms, walk, current, inFn, due) /\ InTime(node, L, ms, since, due)
        /\ walk = "jobs" /\ inFn = FALSE /\ current # NULL
        /\ inFn' = TRUE /\ since' = [since EXCEPT ![current] = 0] /\ due' = due \ {current}
        /\ UNCHANGED heap /\ ms' = ms /\ walk' = walk /\ current' = current
    BY <1>1 DEF Holds, CInv, InRange, Lists, CallJob, AtJob
  <1>3. current \in Elems(c) /\ due \subseteq Ahead(c, current, FALSE) /\ ms > 0
        /\ \A a \in due : ms % node[a].ms = 0
    BY <1>2, WalkInList
  <1>4. Ahead(c, current, FALSE) \ {current} \subseteq Ahead(c, current, TRUE)
    BY <1>2, <1>3, WalkGoesOn DEF Shape
  <1>5. \A a \in Elems(c) : node[a].ms \in Nat \ {0} /\ a \in Addr
    BY <1>2, PeriodsAlong
  <1>6. /\ ms \in Nat /\ since \in [Addr -> 0 .. 2 * MaxPeriod] /\ 0 \in 0 .. 2 * MaxPeriod
    BY <1>2, Longest DEF InRange
  <1>7. Bound(0, node[current].ms, ms)
    BY <1>3, <1>5, <1>6, BoundAtZero
  <1> HIDE DEF c
  <1>8. since' \in [Addr -> 0 .. 2 * MaxPeriod] /\ since'[current] = 0
        /\ \A a \in Addr \ {current} : since'[a] = since[a]
    BY <1>2, <1>3, <1>5, <1>6
  <1>9. InTime(node, L, ms', since', due')
    <2>1. \A a \in Elems(c) \ due : Bound(since[a], node[a].ms, ms)
      BY <1>2 DEF InTime, c
    <2>2. \A a \in Elems(c) \ due' : Bound(since'[a], node[a].ms, ms)
      <3> TAKE a \in Elems(c) \ due'
      <3>1. CASE a = current
        BY <3>1, <1>7, <1>8
      <3>2. CASE a # current
        <4>1. since'[a] = since[a] /\ a \notin due
          BY <3>2, <1>2, <1>5, <1>8
        <4>2. QED BY <4>1, <2>1
      <3>3. QED BY <3>1, <3>2
    <2>3. QED BY <2>2, <1>2 DEF InTime, c
  <1>10. Walking(node, L, ms', walk', current', inFn', due')
    <2>1. due' \subseteq Ahead(c, current, TRUE)
      BY <1>2, <1>3, <1>4
    <2>2. Walking(node, L, ms, "jobs", current, TRUE, due')
      BY <2>1, <1>2, <1>3, WalkIsSound DEF c
    <2>3. QED BY <2>2, <1>2
  <1>11. InRange'
    BY <1>2, <1>8 DEF InRange
  <1>12. QED BY <1>1, <1>2, <1>9, <1>10, <1>11, SameLists

(* A job that is not due is passed.                                        *)
LEMMA PassJobKeepsInvariant ==
    ASSUME CInv, PassJob
    PROVE  CInv'
  <1>1. PICK L \in [Lists -> Seq(Addr)] : Holds(L)
    BY DEF CInv
  <1> DEFINE c == L["jobs"]
  <1>2. /\ Shape(node, allocated, first, last, L) /\ InRange /\ "jobs" \in Lists
        /\ Walking(node, L, ms, walk, current, inFn, due) /\ InTime(node, L, ms, since, due)
        /\ walk = "jobs" /\ inFn = FALSE /\ current # NULL /\ ms % node[current].ms # 0
        /\ current' = node[current].next
        /\ UNCHANGED <<heap, ms, walk, inFn, since, due>>
    BY <1>1 DEF Holds, CInv, InRange, Lists, PassJob, AtJob
  <1>3. current \in Elems(c) /\ due \subseteq Ahead(c, current, FALSE) /\ ms > 0
        /\ \A a \in due : ms % node[a].ms = 0
    <2>1. Walking(node, L, ms, "jobs", current, FALSE, due) /\ "jobs" \in Lists
      BY <1>2
    <2>2. /\ current \in Elems(L["jobs"]) \cup {NULL}
          /\ due \subseteq Ahead(L["jobs"], current, FALSE)
          /\ ms > 0 /\ \A a \in due : ms % node[a].ms = 0
      BY <2>1, WalkInList
    <2>3. QED BY <2>2, <1>2
  <1>4. /\ Ahead(c, current, FALSE) \ {current} \subseteq Ahead(c, current, TRUE)
        /\ Ahead(c, current, TRUE) \subseteq Ahead(c, node[current].next, FALSE)
        /\ node[current].next \in Elems(c) \cup {NULL}
    BY <1>2, <1>3, WalkGoesOn DEF Shape
  <1>5. current \notin due
    BY <1>2, <1>3
  <1>6. due \subseteq Ahead(c, node[current].next, FALSE)
    BY <1>3, <1>4, <1>5
  <1>7. Walking(node, L, ms', walk', current', inFn', due')
    <2>1. Walking(node, L, ms, "jobs", node[current].next, FALSE, due)
      BY <1>2, <1>3, <1>4, <1>6, WalkIsSound
    <2>2. QED BY <2>1, <1>2
  <1>8. InTime(node, L, ms', since', due')
    BY <1>2
  <1>9. InRange'
    BY <1>2 DEF InRange
  <1>10. QED BY <1>1, <1>2, <1>7, <1>8, <1>9, SameLists

(* The walk of the jobs ends at a job longer than the counter: all the     *)
(* others ahead are longer too, and none of them is due.                   *)
LEMMA ExecuteTimeoutKeepsInvariant ==
    ASSUME CInv, cron_execute_timeout
    PROVE  CInv'
  <1>1. PICK L \in [Lists -> Seq(Addr)] : Holds(L)
    BY DEF CInv
  <1> DEFINE c == L["jobs"]
             t == L["timeouts"]
  <1>2. /\ Shape(node, allocated, first, last, L) /\ InRange /\ "jobs" \in Lists /\ "timeouts" \in Lists
        /\ Walking(node, L, ms, walk, current, inFn, due) /\ InTime(node, L, ms, since, due)
        /\ walk = "jobs" /\ inFn = FALSE /\ (current = NULL \/ ~(node[current].ms <= ms))
        /\ WalkTimeouts
        /\ UNCHANGED <<heap, ms, inFn, since>>
    BY <1>1 DEF Holds, CInv, InRange, Lists, cron_execute_timeout, AtJob
  <1>3. /\ current \in Elems(c) \cup {NULL} /\ due \subseteq Ahead(c, current, FALSE) /\ ms > 0
        /\ \A a \in due : ms % node[a].ms = 0
    BY <1>2, WalkInList
  <1>4. due = {}
    <2>1. CASE current = NULL
      BY <2>1, <1>2, <1>3, WalkEnds
    <2>2. CASE current # NULL
      <3> SUFFICES ASSUME NEW a \in due PROVE FALSE
        OBVIOUS
      <3>1. a \in Ahead(c, current, FALSE) /\ a \in Elems(c)
        BY <1>3, AheadInList
      <3>2. node[current].ms <= node[a].ms /\ node[a].ms \in Nat \ {0}
        BY <3>1, <1>2, PeriodsAlong
      <3>3. node[current].ms \in Nat
        BY <2>2, <1>2, <1>3, PeriodsAlong
      <3>4. ms \in Nat
        BY <1>2, Longest DEF InRange
      <3>5. ms < node[a].ms
        BY <2>2, <3>2, <3>3, <3>4, <1>2
      <3> DEFINE P == node[a].ms
      <3>6. P \in Nat \ {0} /\ ms < P /\ ms % P = 0
        BY <3>2, <3>5, <1>3
      <3> HIDE DEF P
      <3>7. ms % P = ms
        BY <3>4, <3>6, Dividing
      <3>8. QED BY <3>6, <3>7, <1>3
    <2>3. QED BY <2>1, <2>2
  <1>5. /\ Elems(t) \subseteq Ahead(t, first["timeouts"], FALSE)
        /\ first["timeouts"] \in Elems(t) \cup {NULL}
    BY <1>2, WalkStarts DEF Shape
  <1>6. due' = Elems(t) /\ walk' = "timeouts" /\ current' = first["timeouts"]
    <2>1. Listed("timeouts") = Elems(t)
      BY <1>2, ListsAre
    <2>2. QED BY <2>1, <1>2, <1>4 DEF WalkTimeouts
  <1>7. Walking(node, L, ms', walk', current', inFn', due')
    <2>1. Walking(node, L, ms, "timeouts", first["timeouts"], FALSE, Elems(t))
      BY <1>2, <1>5, WalkIsSound
    <2>2. QED BY <2>1, <1>2, <1>6
  <1>8. InTime(node, L, ms', since', due')
    BY <1>2, <1>4 DEF InTime
  <1>9. InRange'
    BY <1>2, <1>6 DEF InRange
  <1>10. QED BY <1>1, <1>2, <1>7, <1>8, <1>9, SameLists

(* ms_left after a tick.                                                   *)
LEMMA DownType ==
    ASSUME NEW p \in Counts
    PROVE  Down(p) \in Counts
  <1>1. Max(Delays) \in Nat /\ Wrapped \in Nat
    BY Longest
  <1>2. QED BY <1>1 DEF Down, Counts

(* A timeout counts down, and its function may be called.                  *)
LEMMA CountDownKeepsInvariant ==
    ASSUME CInv, CountDown
    PROVE  CInv'
  <1>1. PICK L \in [Lists -> Seq(Addr)] : Holds(L)
    BY DEF CInv
  <1> DEFINE t == L["timeouts"]
             p == Down(node[current].ms)
  <1>2. /\ Shape(node, allocated, first, last, L) /\ InRange /\ "jobs" \in Lists /\ "timeouts" \in Lists
        /\ Walking(node, L, ms, walk, current, inFn, due) /\ InTime(node, L, ms, since, due)
        /\ walk = "timeouts" /\ inFn = FALSE /\ current # NULL
        /\ node' = PutMs(node, current, p)
        /\ IF node'[current].ms = 0 THEN inFn' = TRUE /\ current' = current
           ELSE current' = node[current].next /\ inFn' = inFn
        /\ due' = due \ {current}
        /\ allocated' = allocated /\ first' = first /\ last' = last /\ ms' = ms /\ walk' = walk
        /\ since' = since
    BY <1>1 DEF Holds, CInv, InRange, Lists, CountDown, PutMs
  <1>3. current \in Elems(t) /\ due \subseteq Ahead(t, current, FALSE)
    <2>1. Walking(node, L, ms, "timeouts", current, FALSE, due) /\ "timeouts" \in Lists
      BY <1>2
    <2>2. current \in Elems(L["timeouts"]) \cup {NULL}
          /\ due \subseteq Ahead(L["timeouts"], current, FALSE)
      BY <2>1, WalkInList, Zenon
    <2>3. current # NULL
      BY <1>2
    <2>4. QED BY <2>2, <2>3
  <1>4. /\ node \in [Addr -> Node] /\ t \in Seq(Addr) /\ L["jobs"] \in Seq(Addr)
        /\ Linked(node, first["timeouts"], last["timeouts"], t)
        /\ \A b \in Elems(t) : node[b].ms \in Counts
        /\ Elems(t) \cap Elems(L["jobs"]) = {} /\ allocated = Elems(t) \cup Elems(L["jobs"])
        /\ first \in [Lists -> Pointer] /\ last \in [Lists -> Pointer]
    BY <1>2 DEF Shape
  <1>5. p \in Counts /\ p \in Periods \cup Counts
    BY <1>3, <1>4, DownType
  <1> HIDE DEF t, p
  <1>6. /\ \A b \in Elems(t) : b \in Addr
        /\ \A b \in Elems(L["jobs"]) : b \in Addr \ {current}
    <2>1. \A c \in Seq(Addr) : \A b \in Elems(c) : b \in Addr
      BY DEF Elems
    <2>2. current \notin Elems(L["jobs"])
      BY <1>3, <1>4
    <2>3. QED BY <2>1, <2>2, <1>4
  <1>7. /\ node' \in [Addr -> Node] /\ node'[current].ms = p
        /\ \A x \in Addr : node'[x].next = node[x].next
        /\ \A x \in Addr \ {current} : node'[x] = node[x]
    <2>0. node \in [Addr -> Node] /\ current \in Addr /\ p \in Periods \cup Counts
      BY <1>3, <1>4, <1>5, <1>6
    <2>1. node' = PutMs(node, current, p)
      BY <1>2
    <2>2. /\ PutMs(node, current, p) \in [Addr -> Node] /\ PutMs(node, current, p)[current].ms = p
          /\ \A x \in Addr : PutMs(node, current, p)[x].next = node[x].next
          /\ \A x \in Addr \ {current} : PutMs(node, current, p)[x] = node[x]
      BY <2>0, MsWritten
    <2>3. QED BY <2>1, <2>2
  <1>8. Shape(node', allocated', first', last', L)
    <2>1. Linked(node', first["timeouts"], last["timeouts"], t)
      <3>1. \A b \in Elems(t) : node'[b].next = node[b].next
        BY <1>6, <1>7
      <3>2. QED BY <3>1, <1>4, LinkedElsewhere
    <2>2. \A b \in Elems(t) : node'[b].ms \in Values("timeouts")
      BY <1>4, <1>5, <1>6, <1>7 DEF Values
    <2>3. Other("timeouts") = "jobs"
      BY DEF Other
    <2>4. Replaced(node, first, last, L, "timeouts", node', allocated, first, last, L)
      BY <2>1, <2>2, <2>3, <1>4, <1>6, <1>7 DEF Replaced, t
    <2>5. QED BY <2>4, <1>2, ShapeReplaced
  <1>9. /\ Ahead(t, current, FALSE) \ {current} \subseteq Ahead(t, current, TRUE)
        /\ Ahead(t, current, TRUE) \subseteq Ahead(t, node[current].next, FALSE)
        /\ node[current].next \in Elems(t) \cup {NULL}
    BY <1>3, <1>4, WalkGoesOn
  <1>10. Walking(node', L, ms', walk', current', inFn', due')
    <2>1. due' \subseteq Ahead(t, current, TRUE)
      BY <1>2, <1>3, <1>9
    <2>2. Walking(node', L, ms, "timeouts", current, TRUE, due')
      BY <2>1, <1>2, <1>3, WalkIsSound DEF t
    <2>3. due' \subseteq Ahead(t, node[current].next, FALSE)
      BY <2>1, <1>9
    <2>4. Walking(node', L, ms, "timeouts", node[current].next, FALSE, due')
      BY <2>3, <1>2, <1>9, WalkIsSound DEF t
    <2>5. QED BY <2>2, <2>4, <1>2
  <1>11. InTime(node', L, ms', since', due')
    <2>1. \A b \in Elems(L["jobs"]) \ due' : b \in Elems(L["jobs"]) \ due /\ node'[b].ms = node[b].ms
      BY <1>2, <1>6, <1>7
    <2>2. InTime(node', L, ms, since, due')
      BY <2>1, <1>2 DEF InTime
    <2>3. QED BY <2>2, <1>2
  <1>12. InRange'
    BY <1>2 DEF InRange
  <1>13. QED BY <1>1, <1>8, <1>10, <1>11, <1>12 DEF CInv, Holds

(* The walk goes on from the node whose function ran.                      *)
LEMMA FnReturnsKeepsInvariant ==
    ASSUME CInv, FnReturns
    PROVE  CInv'
  <1>1. PICK L \in [Lists -> Seq(Addr)] : Holds(L)
    BY DEF CInv
  <1>2. /\ Shape(node, allocated, first, last, L) /\ InRange
        /\ Walking(node, L, ms, walk, current, inFn, due) /\ InTime(node, L, ms, since, due)
        /\ inFn = TRUE /\ inFn' = FALSE /\ current' = node[current].next
        /\ UNCHANGED <<heap, ms, walk, since, due>>
    BY <1>1 DEF Holds, CInv, InRange, FnReturns
  <1>3. walk \in Lists
    BY <1>2 DEF Walking, InRange
  <1> DEFINE c == L[walk]
  <1>4. current \in Elems(c) /\ due \subseteq Ahead(c, current, TRUE)
        /\ (walk = "jobs" => ms > 0 /\ \A a \in due : ms % node[a].ms = 0)
    <2>1. Walking(node, L, ms, walk, current, TRUE, due)
      BY <1>2
    <2>2. QED BY <2>1, <1>3, WalkInList
  <1>5. /\ Ahead(c, current, TRUE) \subseteq Ahead(c, node[current].next, FALSE)
        /\ node[current].next \in Elems(c) \cup {NULL}
    <2>1. Linked(node, first[walk], last[walk], c)
      BY <1>2, <1>3 DEF Shape
    <2>2. QED BY <2>1, <1>4, WalkGoesOn
  <1>6. Walking(node, L, ms, walk, node[current].next, FALSE, due)
    BY <1>3, <1>4, <1>5, WalkIsSound
  <1>7. Walking(node, L, ms', walk', current', inFn', due') /\ InTime(node, L, ms', since', due')
    BY <1>2, <1>6
  <1>8. InRange'
    BY <1>2 DEF InRange
  <1>9. QED BY <1>1, <1>2, <1>7, <1>8, SameLists

(* The walk of the timeouts ends with the list, and nothing is left over.  *)
LEMMA TimerReturnsKeepsInvariant ==
    ASSUME CInv, TimerReturns
    PROVE  CInv'
  <1>1. PICK L \in [Lists -> Seq(Addr)] : Holds(L)
    BY DEF CInv
  <1>2. /\ Shape(node, allocated, first, last, L) /\ InRange
        /\ Walking(node, L, ms, walk, current, inFn, due) /\ InTime(node, L, ms, since, due)
        /\ walk = "timeouts" /\ inFn = FALSE /\ current = NULL /\ walk' = "none" /\ "timeouts" \in Lists
        /\ UNCHANGED <<heap, ms, current, inFn, since, due>>
    BY <1>1 DEF Holds, CInv, InRange, Lists, TimerReturns
  <1>3. due = {}
    <2>1. Walking(node, L, ms, "timeouts", NULL, FALSE, due)
      BY <1>2
    <2>2. due \subseteq Ahead(L["timeouts"], NULL, FALSE)
      BY <2>1, <1>2, WalkInList
    <2>3. L["timeouts"] \in Seq(Addr)
      BY <1>2 DEF Shape
    <2>4. QED BY <2>2, <2>3, WalkEnds
  <1>4. Walking(node, L, ms', walk', current', inFn', due')
    <2>1. "none" \notin Lists
      BY DEF Lists
    <2>2. Walking(node, L, ms, "none", NULL, FALSE, {})
      BY <2>1 DEF Walking
    <2>3. QED BY <2>2, <1>2, <1>3
  <1>5. InTime(node, L, ms', since', due') /\ InRange'
    BY <1>2 DEF InRange
  <1>6. QED BY <1>1, <1>2, <1>4, <1>5, SameLists

-----------------------------------------------------------------------------
(* The invariant, for every application that frees neither the last job or *)
(* timeout of a list nor the one whose function runs.                      *)

(* Both lists are empty at the start.                                      *)
LEMMA InitHasInvariant ==
    ASSUME Init
    PROVE  CInv
  <1> DEFINE L == [l \in Lists |-> <<>>]
  <1>1. L \in [Lists -> Seq(Addr)] /\ L["jobs"] = <<>> /\ L["timeouts"] = <<>>
        /\ "jobs" \in Lists /\ "timeouts" \in Lists /\ "none" \notin Lists
    BY DEF Lists
  <1>2. Elems(<<>>) = {} /\ SortedBy(node, <<>>) /\ Linked(node, NULL, NULL, <<>>)
    BY LinkedEmpty DEF SortedBy
  <1>3. \A l \in Lists : L[l] = <<>>
    OBVIOUS
  <1> HIDE DEF L
  <1>4. node \in [Addr -> Node]
    <2>1. 0 \in Counts
      BY Longest DEF Counts
    <2>2. [id |-> NULL, ms |-> 0, next |-> NULL] \in Node
      BY <2>1 DEF Node, Pointer
    <2> HIDE DEF Node
    <2>3. QED BY <2>2 DEF Init
  <1>5. /\ first \in [Lists -> Pointer] /\ last \in [Lists -> Pointer]
        /\ \A l \in Lists : first[l] = NULL /\ last[l] = NULL
    BY DEF Init, Pointer
  <1>6. Shape(node, allocated, first, last, L)
    <2>1. \A l \in Lists : Linked(node, first[l], last[l], L[l])
      BY <1>2, <1>3, <1>5
    <2>2. allocated = {}
      BY DEF Init
    <2>3. QED BY <2>1, <2>2, <1>1, <1>2, <1>4, <1>5 DEF Shape
  <1>7. Walking(node, L, ms, walk, current, inFn, due)
    BY <1>1 DEF Init, Walking
  <1>8. InTime(node, L, ms, since, due)
    BY <1>1, <1>2 DEF InTime
  <1>9. InRange
    <2>1. MaxPeriod \in Nat /\ 0 \in 0 .. MaxPeriod + 1 /\ 0 \in 0 .. 2 * MaxPeriod
      BY Longest
    <2> HIDE DEF MaxPeriod
    <2>2. since \in [Addr -> 0 .. 2 * MaxPeriod]
      BY <2>1 DEF Init
    <2>3. QED BY <2>1, <2>2 DEF Init, InRange
  <1>10. QED BY <1>1, <1>6, <1>7, <1>8, <1>9 DEF CInv, Holds

(* Every call and every step of the timer function keeps the invariant.    *)
LEMMA NextKeepsInvariant ==
    ASSUME ~OwnRemovals, ~TailRemovals, CInv, [Next]_vars
    PROVE  CInv'
  <1>1. ASSUME NEW p \in Periods, cron_add_job(p) PROVE CInv'
    BY <1>1, AddJobKeepsInvariant
  <1>2. ASSUME NEW a \in Addr, cron_remove_job(a) PROVE CInv'
    BY <1>2, RemoveJobKeepsInvariant
  <1>3. CASE cron_clear
    BY <1>3, ClearKeepsInvariant
  <1>4. ASSUME NEW id \in TimeoutIds, cron_remove_timeout(id) PROVE CInv'
    BY <1>4, RemoveTimeoutKeepsInvariant
  <1>5. ASSUME NEW id \in TimeoutIds, NEW d \in Delays, cron_set_timeout(id, d) PROVE CInv'
    BY <1>5, NewTimeoutKeepsInvariant, ResetTimeoutKeepsInvariant DEF cron_set_timeout
  <1>6. CASE cron_timerfunc
    BY <1>6, TickKeepsInvariant
  <1>7. CASE CallJob
    BY <1>7, CallJobKeepsInvariant
  <1>8. CASE PassJob
    BY <1>8, PassJobKeepsInvariant
  <1>9. CASE cron_execute_timeout
    BY <1>9, ExecuteTimeoutKeepsInvariant
  <1>10. CASE CountDown
    BY <1>10, CountDownKeepsInvariant
  <1>11. CASE FnReturns
    BY <1>11, FnReturnsKeepsInvariant
  <1>12. CASE TimerReturns
    BY <1>12, TimerReturnsKeepsInvariant
  <1>13. CASE UNCHANGED vars
    <2>1. PICK L \in [Lists -> Seq(Addr)] : Holds(L)
      BY DEF CInv
    <2>2. /\ node' = node /\ allocated' = allocated /\ first' = first /\ last' = last /\ ms' = ms
          /\ walk' = walk /\ current' = current /\ inFn' = inFn /\ since' = since /\ due' = due
      BY <1>13 DEF vars, heap, timer
    <2>3. Holds(L)' /\ InRange'
      BY <2>1, <2>2 DEF Holds, InRange, CInv
    <2>4. QED BY <2>3 DEF CInv
  <1>14. QED
    BY <1>1, <1>2, <1>3, <1>4, <1>5, <1>6, <1>7, <1>8, <1>9, <1>10, <1>11, <1>12, <1>13
       DEF Next, App

(* So it holds in every state.                                             *)
LEMMA InvariantHolds ==
    ASSUME ~OwnRemovals, ~TailRemovals
    PROVE  Spec => []CInv
  <1>1. Init => CInv
    BY InitHasInvariant
  <1>2. CInv /\ [Next]_vars => CInv'
    BY NextKeepsInvariant
  <1>3. QED BY <1>1, <1>2, PTL DEF Spec

-----------------------------------------------------------------------------

(* Types: the counter and the history stay in their ranges, a job keeps a  *)
(* period and a timeout a count, and the walk's pointer is a node of the   *)
(* list it walks or NULL.                                                  *)
THEOREM CountersAndPointersAreInRange ==
    ASSUME ~OwnRemovals, ~TailRemovals
    PROVE  Spec => []TypeOK
  <1>1. CInv => TypeOK
    <2> SUFFICES ASSUME CInv PROVE TypeOK
      OBVIOUS
    <2>1. PICK L \in [Lists -> Seq(Addr)] : Holds(L)
      BY DEF CInv
    <2>2. /\ Shape(node, allocated, first, last, L) /\ InRange
          /\ Walking(node, L, ms, walk, current, inFn, due)
      BY <2>1 DEF Holds, CInv
    <2>3. node \in [Addr -> [id : TimeoutIds \cup {NULL}, next : Pointer,
                             ms : Periods \cup (0 .. Max(Delays)) \cup {Wrapped}]]
      <3>1. Node = [id : TimeoutIds \cup {NULL}, next : Pointer,
                    ms : Periods \cup (0 .. Max(Delays)) \cup {Wrapped}]
        <4>1. Periods \cup Counts = Periods \cup (0 .. Max(Delays)) \cup {Wrapped}
          BY DEF Counts
        <4>2. QED BY <4>1 DEF Node
      <3>2. QED BY <3>1, <2>2 DEF Shape
    <2>4. \A c \in Seq(Addr) : Elems(c) \subseteq Addr
      BY DEF Elems
    <2>5. allocated \subseteq Addr
      <3>1. /\ L["jobs"] \in Seq(Addr) /\ L["timeouts"] \in Seq(Addr)
            /\ allocated = Elems(L["jobs"]) \cup Elems(L["timeouts"])
        BY <2>2 DEF Shape, Lists
      <3>2. QED BY <3>1, <2>4
    <2>6. first \in [Lists -> Pointer] /\ last \in [Lists -> Pointer]
      BY <2>2 DEF Shape
    <2>7. current \in Pointer /\ due \subseteq Addr
      <3>1. CASE walk = "none"
        BY <3>1, <2>2 DEF Walking, Pointer
      <3>2. CASE walk \in Lists
        <4>1. current \in Elems(L[walk]) \cup {NULL} /\ due \subseteq Ahead(L[walk], current, inFn)
          BY <3>2, <2>2, Zenon DEF Walking
        <4>2. Elems(L[walk]) \subseteq Addr
          BY <3>2, <2>4
        <4>3. QED BY <4>1, <4>2, AheadInList DEF Pointer
      <3>3. QED BY <3>1, <3>2, <2>2 DEF InRange
    <2>8. QED BY <2>2, <2>3, <2>5, <2>6, <2>7 DEF TypeOK, InRange
  <1>2. QED BY <1>1, InvariantHolds, PTL

(* Whatever is added and removed, between two ticks and by the functions   *)
(* cron calls, each list ends at the node last points to and visits no     *)
(* node twice, and the jobs stay sorted.                                   *)
THEOREM ListsStayChains ==
    ASSUME ~OwnRemovals, ~TailRemovals
    PROVE  Spec => []ListsAreChains
  <1>1. CInv => ListsAreChains
    <2> SUFFICES ASSUME CInv PROVE ListsAreChains
      OBVIOUS
    <2>1. PICK L \in [Lists -> Seq(Addr)] : Holds(L)
      BY DEF CInv
    <2>2. Shape(node, allocated, first, last, L)
      BY <2>1 DEF Holds
    <2>3. ASSUME NEW l \in Lists
          PROVE  LET c == Chain(l)
                 IN  /\ IsInjective(c)
                     /\ IF c = <<>> THEN last[l] = NULL
                        ELSE Last(c) = last[l] /\ node[last[l]].next = NULL
      <3> DEFINE c == L[l]
      <3>1. Chain(l) = c
        BY <2>2, <2>3, ListsAre
      <3>2. c \in Seq(Addr) /\ Linked(node, first[l], last[l], c)
        BY <2>2 DEF Shape
      <3> HIDE DEF c
      <3>3. IsInjective(c)
        BY <3>2 DEF Linked, IsInjective
      <3>4. c = <<>> => last[l] = NULL
        BY <3>2 DEF Linked
      <3>5. c # <<>> => Last(c) = last[l] /\ node[last[l]].next = NULL
        <4>1. c # <<>> => Len(c) \in 1 .. Len(c)
          BY <3>2
        <4>2. QED BY <4>1, <3>2 DEF Linked, Last
      <3>6. QED BY <3>1, <3>3, <3>4, <3>5
    <2>4. Sorted(Chain("jobs"))
      <3>1. Chain("jobs") = L["jobs"] /\ L["jobs"] \in Seq(Addr)
        BY <2>2, ListsAre DEF Lists, Shape
      <3> DEFINE c == L["jobs"]
      <3>2. SortedBy(node, c) /\ DOMAIN c = 1 .. Len(c)
        BY <3>1, <2>2 DEF Shape
      <3> HIDE DEF c
      <3>3. Sorted(c)
        BY <3>2, Zenon DEF Sorted, SortedBy
      <3>4. QED BY <3>1, <3>3 DEF c
    <2>5. QED BY <2>3, <2>4 DEF ListsAreChains
  <1>2. QED BY <1>1, InvariantHolds, PTL

(* cron_add_job and cron_set_timeout lose nothing: the nodes that were     *)
(* added and not removed are those of the two lists, each in one of them.  *)
THEOREM AddedNodesAreListed ==
    ASSUME ~OwnRemovals, ~TailRemovals
    PROVE  Spec => []NothingLost
  <1>1. CInv => NothingLost
    <2> SUFFICES ASSUME CInv PROVE NothingLost
      OBVIOUS
    <2>1. PICK L \in [Lists -> Seq(Addr)] : Holds(L)
      BY DEF CInv
    <2>2. Shape(node, allocated, first, last, L) /\ "jobs" \in Lists /\ "timeouts" \in Lists
      BY <2>1 DEF Holds, Lists
    <2>3. Listed("jobs") = Elems(L["jobs"]) /\ Listed("timeouts") = Elems(L["timeouts"])
      BY <2>2, ListsAre
    <2>4. QED BY <2>2, <2>3 DEF NothingLost, Shape
  <1>2. QED BY <1>1, InvariantHolds, PTL

(* A tick calls every job whose period divides the counter and counts down *)
(* every timeout, however the functions it calls change the lists.         *)
THEOREM TicksServeAllThatIsDue ==
    ASSUME ~OwnRemovals, ~TailRemovals
    PROVE  Spec => []DueAreServed
  <1>1. CInv => DueAreServed
    BY DEF CInv, Holds, Walking, DueAreServed
  <1>2. QED BY <1>1, InvariantHolds, PTL

(* No job waits for twice its period, whatever the others' periods are and *)
(* however often jobs are added and removed.                               *)
THEOREM JobsAreCalledInTime ==
    ASSUME ~OwnRemovals, ~TailRemovals
    PROVE  Spec => []CalledInTime
  <1>1. CInv => CalledInTime
    <2> SUFFICES ASSUME CInv, walk = "none", NEW a \in Listed("jobs")
                 PROVE  since[a] < 2 * node[a].ms
      BY DEF CalledInTime
    <2>1. PICK L \in [Lists -> Seq(Addr)] : Holds(L)
      BY DEF CInv
    <2>2. /\ Shape(node, allocated, first, last, L) /\ InRange /\ InTime(node, L, ms, since, due)
          /\ Walking(node, L, ms, walk, current, inFn, due)
      BY <2>1 DEF Holds, CInv
    <2>3. due = {} /\ a \in Elems(L["jobs"])
      BY <2>2, ListsAre DEF Walking, Lists
    <2>4. Bound(since[a], node[a].ms, ms) /\ node[a].ms \in Nat \ {0} /\ a \in Addr
      BY <2>2, <2>3, PeriodsAlong DEF InTime
    <2>5. since[a] \in Nat /\ ms \in Nat
      BY <2>2, <2>4, Longest DEF InRange
    <2>6. QED BY <2>4, <2>5, BoundIsTwicePeriod
  <1>2. QED BY <1>1, InvariantHolds, PTL
=============================================================================
