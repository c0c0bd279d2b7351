-------------------------- MODULE RbootWrite_proofs --------------------------
(***************************************************************************)
(* rboot_write_flash puts the image whole into erased flash, for every     *)
(* geometry, as long as no chunk is as long as a sector.                   *)
(*                                                                         *)
(* The code erases one sector per chunk, the one the chunk finishes in.    *)
(* That is enough because the rest of the current sector is always blank   *)
(* (BlankAhead), and a chunk of whole words never reaches past the next    *)
(* one.                                                                    *)
(*                                                                         *)
(* What is held back and which cells are touched does not depend on what   *)
(* was erased: that part (Progress) holds for chunks of any length.        *)
(***************************************************************************)
EXTENDS RbootWrite, SequenceTheorems, TLAPS

S == SECTOR_SIZE

\* The bytes held back are the next ones of the image.
HeldBack ==
    /\ start_addr - Begin + Len(extra_bytes) = offered
    /\ \A i \in 1 .. Len(extra_bytes) : extra_bytes[i] = start_addr - Begin + i

\* Nothing written yet, or the rest of the current sector is blank.
BlankAhead ==
    \/ last_sector_erased = 0 /\ start_addr = Begin /\ extra_bytes = <<>>
    \/ /\ last_sector_erased = start_addr \div S
       /\ \A a \in 0 .. FlashSize - 1 :
            a >= start_addr /\ a \div S = start_addr \div S => flash[a] = BLANK

\* Nothing is touched below the image or behind the sector in which what has
\* been received ends.
Inside ==
    \A a \in DOMAIN flash :
      a < Begin \/ a \div S > (Begin + offered) \div S => flash[a] = STALE

\* What holds for chunks of any length.
Progress ==
    /\ start_addr \in Begin .. Begin + ImageLen
    /\ extra_bytes \in Seq(Int) /\ Len(extra_bytes) < Word
    /\ offered \in 0 .. ImageLen
    /\ ok \in BOOLEAN
    /\ ok => HeldBack

WInv ==
    /\ Progress
    /\ flash \in [0 .. FlashSize - 1 -> Int]
    /\ last_sector_erased \in Int
    /\ ImageInFlash
    /\ ok => BlankAhead

-----------------------------------------------------------------------------
(* Sectors *)

(* A sector holds the SECTOR_SIZE addresses from its first one on.         *)
LEMMA SectorBounds ==
    ASSUME NEW a \in Nat
    PROVE  /\ a \div S \in Nat
           /\ (a \div S) * S <= a
           /\ a < (a \div S) * S + S
  <1>1. S \in Nat \ {0}
    BY GeometryAssumption DEF S
  <1>2. a \div S \in Int
    BY <1>1
  <1>3. (a \div S) * S <= a /\ a < (a \div S) * S + S
    BY <1>1
  <1>4. a \div S >= 0
    <2>1. SUFFICES ASSUME a \div S <= -1 PROVE FALSE
      BY <1>2
    <2>2. (a \div S) * S <= (-1) * S
      BY <1>1, <1>2, <2>1
    <2>3. QED BY <1>1, <1>2, <1>3, <2>2
  <1>5. QED BY <1>2, <1>3, <1>4

(* Sectors follow the order of addresses.                                  *)
LEMMA SectorMonotonic ==
    ASSUME NEW a \in Nat, NEW b \in Nat, a <= b
    PROVE  a \div S <= b \div S
  <1>1. S \in Nat \ {0}
    BY GeometryAssumption DEF S
  <1> DEFINE p == a \div S  q == b \div S
  <1>2. p \in Nat /\ q \in Nat /\ p * S <= a /\ b < q * S + S
    BY SectorBounds
  <1>3. p * S < q * S + S
    <2>1. p * S \in Int /\ q * S \in Int
      BY <1>1, <1>2
    <2> HIDE DEF p, q
    <2>2. QED BY <1>1, <1>2, <2>1
  <1> HIDE DEF p, q
  <1>4. p <= q
    BY <1>1, <1>2, <1>3
  <1>5. QED BY <1>4 DEF p, q

(* At most a sector further on is the same sector or the next one.         *)
LEMMA SameOrNextSector ==
    ASSUME NEW a \in Nat, NEW w \in Nat, w <= S
    PROVE  (a + w) \div S \in {a \div S, a \div S + 1}
  <1>1. S \in Nat \ {0}
    BY GeometryAssumption DEF S
  <1> DEFINE p == a \div S  q == (a + w) \div S
  <1>2. p \in Nat /\ q \in Nat /\ a < p * S + S /\ q * S <= a + w
    BY SectorBounds
  <1>3. p <= q
    BY SectorMonotonic
  <1> HIDE DEF p, q
  <1>4. q * S < p * S + 2 * S
    <2>1. p * S \in Int /\ q * S \in Int
      BY <1>1, <1>2
    <2>2. QED BY <1>1, <1>2, <2>1
  <1>5. q < p + 2
    <2>1. q * S < (p + 2) * S
      BY <1>1, <1>2, <1>4
    <2>2. QED BY <1>1, <1>2, <2>1
  <1>6. QED BY <1>2, <1>3, <1>5 DEF p, q

(* Less than a sector from its start is still the same sector.             *)
LEMMA SameSector ==
    ASSUME NEW a \in Nat, a % S = 0, NEW w \in Nat, w < S
    PROVE  (a + w) \div S = a \div S
  <1>1. S \in Nat \ {0}
    BY GeometryAssumption DEF S
  <1> DEFINE p == a \div S  q == (a + w) \div S
  <1>2. p \in Nat /\ q \in Nat /\ q * S <= a + w
    BY SectorBounds
  <1>3. a = S * p
    BY <1>1
  <1>4. p <= q
    BY SectorMonotonic
  <1> HIDE DEF p, q
  <1>5. q * S < (p + 1) * S
    <2>1. q * S < S * p + S
      <3>1. S * p \in Int /\ q * S \in Int
        BY <1>1, <1>2
      <3>2. QED BY <1>1, <1>2, <1>3, <3>1
    <2>2. QED BY <1>1, <1>2, <2>1
  <1>6. q < p + 1
    BY <1>1, <1>2, <1>5
  <1>7. QED BY <1>2, <1>4, <1>6 DEF p, q

(* The image starts on a sector of its own, which is not sector 0.         *)
LEMMA FirstSector == Begin \div S \in Nat \ {0}
  <1>1. S \in Nat \ {0} /\ Begin \in Nat \ {0} /\ Begin % S = 0
    BY GeometryAssumption DEF S
  <1>2. Begin \div S \in Nat /\ Begin = S * (Begin \div S)
    BY <1>1, SectorBounds
  <1>3. Begin \div S # 0
    BY <1>1, <1>2
  <1>4. QED BY <1>2, <1>3

-----------------------------------------------------------------------------
(* One chunk *)

(* The buffer, and the whole words of it.                                  *)
LEMMA BufferWords ==
    ASSUME Progress, NEW len \in 1 .. MaxLen
    PROVE  /\ Buffer(len) \in Seq(Int)
           /\ Len(Buffer(len)) = Len(extra_bytes) + len
           /\ WholeWords(len) \in 0 .. Len(Buffer(len))
           /\ Len(Buffer(len)) - WholeWords(len) < Word
           /\ \E k \in Int : WholeWords(len) = Word * k
  <1>1. Word \in Nat \ {0} /\ MaxLen \in Nat
    BY GeometryAssumption
  <1>2. extra_bytes \in Seq(Int) /\ Len(extra_bytes) \in Nat /\ offered \in Int /\ len \in Nat
    BY <1>1 DEF Progress
  <1> DEFINE new == [i \in 1 .. len |-> offered + i]
  <1>3. new \in Seq(Int) /\ Len(new) = len
    BY <1>2
  <1>4. Buffer(len) \in Seq(Int) /\ Len(Buffer(len)) = Len(extra_bytes) + len
    BY <1>2, <1>3 DEF Buffer
  <1> DEFINE total == Len(Buffer(len))  words == total \div Word
  <1>5. total \in Nat
    BY <1>2, <1>4
  <1>6. /\ words \in Int /\ Word * words <= total /\ total < Word * words + Word
        /\ WholeWords(len) = Word * words
    <2>1. WholeWords(len) = total - (total % Word)
      BY DEF WholeWords
    <2> HIDE DEF total
    <2>2. QED BY <1>1, <1>5, <2>1
  <1> HIDE DEF total, words
  <1>7. words >= 0
    <2>1. SUFFICES ASSUME words <= -1 PROVE FALSE
      BY <1>6
    <2>2. Word * words <= Word * (-1)
      BY <1>1, <1>6, <2>1
    <2>3. QED BY <1>1, <1>5, <1>6, <2>2
  <1>8. Word * words \in Nat
    BY <1>1, <1>6, <1>7
  <1>9. QED BY <1>1, <1>4, <1>5, <1>6, <1>8 DEF total

(* A chunk shorter than a sector fills at most a sector with whole words.  *)
LEMMA WordsFit ==
    ASSUME MaxLen < S, WInv, NEW len \in 1 .. MaxLen
    PROVE  /\ Buffer(len) \in Seq(Int)
           /\ Len(Buffer(len)) = Len(extra_bytes) + len
           /\ WholeWords(len) \in 0 .. Len(Buffer(len))
           /\ Len(Buffer(len)) - WholeWords(len) < Word
           /\ WholeWords(len) <= S
  <1>1. Word \in Nat \ {0} /\ S \in Nat \ {0} /\ S % Word = 0 /\ MaxLen \in Nat
    BY GeometryAssumption DEF S
  <1>2. /\ Buffer(len) \in Seq(Int)
        /\ Len(Buffer(len)) = Len(extra_bytes) + len
        /\ WholeWords(len) \in 0 .. Len(Buffer(len))
        /\ Len(Buffer(len)) - WholeWords(len) < Word
        /\ \E k \in Int : WholeWords(len) = Word * k
    BY BufferWords DEF WInv
  <1>3. PICK words \in Int : WholeWords(len) = Word * words
    BY <1>2
  <1>4. PICK n \in Int : S = Word * n
    <2>1. S \div Word \in Int /\ S = Word * (S \div Word)
      BY <1>1
    <2>2. QED BY <2>1
  <1>5. Len(extra_bytes) \in Nat /\ Len(extra_bytes) < Word /\ len < S /\ len \in Nat
    BY <1>1 DEF WInv, Progress
  <1>6. Word * words < Word * n + Word /\ Word * words \in Int /\ Word * n \in Int
    <2>1. Word * words \in Int /\ Word * n \in Int
      BY <1>1
    <2>2. PICK w \in Nat : w = WholeWords(len)
      BY <1>2, <1>5
    <2>3. PICK b \in Nat : b = Len(Buffer(len))
      BY <1>2, <1>5
    <2>4. w <= b /\ b < Word + S /\ w = Word * words
      BY <1>1, <1>2, <1>3, <1>5, <2>2, <2>3
    <2>5. QED BY <1>1, <1>4, <2>1, <2>4
  <1>7. words <= n
    BY <1>1, <1>6
  <1>8. Word * words <= Word * n
    BY <1>1, <1>7
  <1>9. QED BY <1>2, <1>3, <1>4, <1>8

(* The buffer is the part of the image that follows the write position.    *)
LEMMA BufferContinuesImage ==
    ASSUME Progress, HeldBack, NEW len \in 1 .. MaxLen
    PROVE  \A i \in 1 .. Len(extra_bytes) + len :
             Buffer(len)[i] = start_addr - Begin + i
  <1>1. MaxLen \in Nat /\ Begin \in Int /\ start_addr \in Int /\ offered \in Int
    BY GeometryAssumption DEF WInv, Progress
  <1>2. extra_bytes \in Seq(Int) /\ Len(extra_bytes) \in Nat
    BY DEF WInv, Progress
  <1> DEFINE new == [i \in 1 .. len |-> offered + i]
  <1>3. new \in Seq(Int) /\ Len(new) = len
    BY <1>1
  <1>4. TAKE i \in 1 .. Len(extra_bytes) + len
  <1>5. CASE i <= Len(extra_bytes)
    <2>1. Buffer(len)[i] = extra_bytes[i]
      BY <1>2, <1>3, <1>5 DEF Buffer
    <2>2. QED BY <1>2, <1>5, <2>1 DEF HeldBack
  <1>6. CASE i > Len(extra_bytes)
    <2>1. i - Len(extra_bytes) \in 1 .. len
      BY <1>1, <1>2, <1>6
    <2>2. Buffer(len)[i] = new[i - Len(extra_bytes)]
      BY <1>2, <1>3, <1>6, <2>1 DEF Buffer
    <2>3. Buffer(len)[i] = offered + (i - Len(extra_bytes))
      BY <2>1, <2>2
    <2>4. start_addr - Begin + Len(extra_bytes) = offered /\ i \in Int
      BY <1>1, <1>2 DEF HeldBack
    <2>5. QED BY <1>1, <1>2, <2>3, <2>4
  <1>7. QED BY <1>1, <1>2, <1>5, <1>6

(* After the erase, what is left of the current sector and the sector the  *)
(* write finishes in are blank, and the image so far is still there.       *)
LEMMA EraseMakesRoom ==
    ASSUME MaxLen < S, WInv, BlankAhead, NEW len \in 1 .. MaxLen
    PROVE  /\ EraseAhead(len) \in [0 .. FlashSize - 1 -> Int]
           /\ (IF NeedsErase(len) THEN FinishesIn(len) ELSE last_sector_erased)
              = FinishesIn(len)
           /\ FinishesIn(len) \in {start_addr \div S, start_addr \div S + 1}
           /\ \A a \in 0 .. FlashSize - 1 :
                a >= start_addr /\ a \div S \in {start_addr \div S, FinishesIn(len)}
                => EraseAhead(len)[a] = BLANK
           /\ \A a \in Begin .. start_addr - 1 : EraseAhead(len)[a] = flash[a]
  <1>1. /\ WholeWords(len) \in Nat /\ WholeWords(len) <= S
        /\ WholeWords(len) <= Len(extra_bytes) + len
    <2>1. /\ Len(Buffer(len)) = Len(extra_bytes) + len
          /\ WholeWords(len) \in 0 .. Len(Buffer(len))
          /\ WholeWords(len) <= S
      BY WordsFit
    <2>2. Len(extra_bytes) \in Nat /\ len \in Nat
      BY GeometryAssumption DEF WInv, Progress
    <2>3. QED BY <2>1, <2>2
  <1>2. /\ Begin \in Nat /\ ImageLen \in Nat /\ start_addr \in Nat
        /\ FlashSize \in Nat /\ start_addr <= FlashSize /\ MaxLen \in Nat /\ S \in Nat
    BY GeometryAssumption DEF WInv, Progress, S
  <1>3. FinishesIn(len) = (start_addr + WholeWords(len)) \div S
    BY DEF FinishesIn, S
  <1>4. FinishesIn(len) \in {start_addr \div S, start_addr \div S + 1}
    BY <1>1, <1>2, <1>3, SameOrNextSector
  <1>5. NeedsErase(len) <=> last_sector_erased # FinishesIn(len)
    BY <1>1 DEF NeedsErase, S
  <1>6. start_addr \div S \in Nat
    BY <1>2, SectorBounds
  <1>7. flash \in [0 .. FlashSize - 1 -> Int] /\ DOMAIN flash = 0 .. FlashSize - 1
    BY DEF WInv, Progress
  <1>8. EraseAhead(len) \in [0 .. FlashSize - 1 -> Int]
    BY <1>7 DEF EraseAhead, Erased, BLANK
  <1>9. \A a \in 0 .. FlashSize - 1 :
          EraseAhead(len)[a] = IF NeedsErase(len) /\ a \div S = FinishesIn(len)
                               THEN BLANK ELSE flash[a]
    BY <1>7 DEF EraseAhead, Erased, S
  <1>10. CASE last_sector_erased = 0 /\ start_addr = Begin /\ extra_bytes = <<>>
    <2>1. WholeWords(len) < S
      BY <1>1, <1>2, <1>10
    <2>2. Begin % S = 0
      BY GeometryAssumption DEF S
    <2>3. FinishesIn(len) = start_addr \div S
      BY <1>1, <1>2, <1>3, <1>10, <2>1, <2>2, SameSector
    <2>4. NeedsErase(len)
      BY <1>5, <1>10, <2>3, FirstSector
    <2>5. \A a \in Begin .. start_addr - 1 : FALSE
      BY <1>2, <1>10
    <2>6. QED BY <1>4, <1>8, <1>9, <2>3, <2>4, <2>5
  <1>11. CASE /\ last_sector_erased = start_addr \div S
              /\ \A a \in 0 .. FlashSize - 1 :
                   a >= start_addr /\ a \div S = start_addr \div S => flash[a] = BLANK
    <2>1. ASSUME NEW a \in Begin .. start_addr - 1
          PROVE  EraseAhead(len)[a] = flash[a]
      <3>1. a \in 0 .. FlashSize - 1 /\ a \in Nat /\ a <= start_addr
        BY <1>2
      <3>2. a \div S <= start_addr \div S /\ a \div S \in Nat
        BY <1>2, <3>1, SectorMonotonic, SectorBounds
      <3>3. a \div S = FinishesIn(len) => ~ NeedsErase(len)
        BY <1>4, <1>5, <1>6, <1>11, <3>2
      <3>4. QED BY <1>9, <3>1, <3>3
    <2>2. ASSUME NEW a \in 0 .. FlashSize - 1, a >= start_addr,
                 a \div S \in {start_addr \div S, FinishesIn(len)}
          PROVE  EraseAhead(len)[a] = BLANK
      BY <1>5, <1>9, <1>11, <2>2
    <2>3. (IF NeedsErase(len) THEN FinishesIn(len) ELSE last_sector_erased) = FinishesIn(len)
      BY <1>5
    <2>4. QED BY <1>4, <1>8, <2>1, <2>2, <2>3
  <1>12. QED BY <1>10, <1>11 DEF BlankAhead

(* However many of the words are written, each lands on blank flash, in    *)
(* the place of the image that it comes from, and nothing else changes.    *)
LEMMA WriteExtendsImage ==
    ASSUME MaxLen < S, WInv, HeldBack, BlankAhead,
           NEW len \in 1 .. MaxLen, NEW n \in 0 .. WholeWords(len), NEW after,
           after = WrittenAt(EraseAhead(len), start_addr, SubSeq(Buffer(len), 1, n))
    PROVE  /\ after \in [0 .. FlashSize - 1 -> Int]
           /\ \A a \in Begin .. start_addr + n - 1 : after[a] = a - Begin + 1
           /\ \A a \in 0 .. FlashSize - 1 :
                a >= start_addr + n => after[a] = EraseAhead(len)[a]
  <1>1. /\ Buffer(len) \in Seq(Int)
        /\ WholeWords(len) \in 0 .. Len(Buffer(len)) /\ WholeWords(len) <= S
        /\ Len(Buffer(len)) = Len(extra_bytes) + len
    BY WordsFit
  <1>2. /\ Begin \in Nat /\ ImageLen \in Nat /\ start_addr \in Nat /\ start_addr >= Begin
        /\ FlashSize \in Nat /\ S \in Nat
    BY GeometryAssumption DEF WInv, Progress, S
  <1>3. n \in Nat /\ n <= WholeWords(len) /\ n <= Len(Buffer(len)) /\ WholeWords(len) \in Nat
    BY <1>1
  <1>4. start_addr + WholeWords(len) <= FlashSize
    <2>1. start_addr <= Begin + ImageLen
      BY GeometryAssumption DEF WInv, Progress
    <2>2. Begin + ImageLen + MaxLen + S <= FlashSize /\ MaxLen \in Nat
      BY GeometryAssumption DEF S
    <2>3. QED BY <1>1, <1>2, <1>3, <2>1, <2>2
  <1> DEFINE bytes == SubSeq(Buffer(len), 1, n)
  <1>5. bytes \in Seq(Int) /\ Len(bytes) = n /\ \A i \in 1 .. n : bytes[i] = Buffer(len)[i]
    BY <1>1, <1>3
  <1> DEFINE g == EraseAhead(len)
  <1>6. g \in [0 .. FlashSize - 1 -> Int]
    BY EraseMakesRoom
  <1>7. \A a \in 0 .. FlashSize - 1 :
          after[a] = IF a \in start_addr .. start_addr + n - 1
                     THEN IF g[a] = BLANK THEN bytes[a - start_addr + 1] ELSE STALE
                     ELSE g[a]
    <2> HIDE DEF bytes, g
    <2>1. after = WrittenAt(g, start_addr, bytes)
      BY DEF bytes, g
    <2>2. QED BY <1>5, <1>6, <2>1 DEF WrittenAt
  <1>8. after \in [0 .. FlashSize - 1 -> Int]
    <2> HIDE DEF bytes, g
    <2>1. after = WrittenAt(g, start_addr, bytes)
      BY DEF bytes, g
    <2>2. \A a \in start_addr .. start_addr + n - 1 : bytes[a - start_addr + 1] \in Int
      BY <1>2, <1>3, <1>5
    <2>3. after = [a \in 0 .. FlashSize - 1 |->
                     IF a \in start_addr .. start_addr + n - 1
                     THEN IF g[a] = BLANK THEN bytes[a - start_addr + 1] ELSE STALE
                     ELSE g[a]]
      BY <1>5, <1>6, <2>1 DEF WrittenAt
    <2>4. ASSUME NEW a \in 0 .. FlashSize - 1
          PROVE  (IF a \in start_addr .. start_addr + n - 1
                  THEN IF g[a] = BLANK THEN bytes[a - start_addr + 1] ELSE STALE
                  ELSE g[a]) \in Int
      BY <1>6, <2>2 DEF STALE
    <2>5. QED BY <2>3, <2>4
  <1>9. ASSUME NEW a \in Begin .. start_addr + n - 1
        PROVE  after[a] = a - Begin + 1
    <2>1. a \in Nat /\ a \in 0 .. FlashSize - 1
      BY <1>2, <1>3, <1>4
    <2>2. CASE a < start_addr
      <3>1. a \in Begin .. start_addr - 1
        BY <1>2, <2>1, <2>2
      <3>2. g[a] = flash[a]
        BY <3>1, EraseMakesRoom
      <3>3. flash[a] = a - Begin + 1
        BY <3>1 DEF WInv, Progress, ImageInFlash
      <3>4. QED
        <4> HIDE DEF g, bytes
        <4>1. a \notin start_addr .. start_addr + n - 1
          BY <1>2, <2>1, <2>2
        <4>2. QED BY <1>7, <2>1, <3>2, <3>3, <4>1
    <2>3. CASE a >= start_addr
      <3>1. a <= start_addr + WholeWords(len)
        BY <1>2, <1>3, <2>1
      <3>2. a \div S <= FinishesIn(len)
        <4>1. FinishesIn(len) = (start_addr + WholeWords(len)) \div S
          BY DEF FinishesIn, S
        <4>2. start_addr + WholeWords(len) \in Nat
          BY <1>2, <1>3
        <4>3. QED BY <2>1, <3>1, <4>1, <4>2, SectorMonotonic
      <3>3. start_addr \div S <= a \div S
        BY <1>2, <2>1, <2>3, SectorMonotonic
      <3>4. a \div S \in Nat /\ start_addr \div S \in Nat
        BY <1>2, <2>1, SectorBounds
      <3>5. FinishesIn(len) \in {start_addr \div S, start_addr \div S + 1}
        BY EraseMakesRoom
      <3>6. a \div S \in {start_addr \div S, FinishesIn(len)}
        BY <3>2, <3>3, <3>4, <3>5
      <3>7. g[a] = BLANK
        BY <2>1, <2>3, <3>6, EraseMakesRoom
      <3> DEFINE i == a - start_addr + 1
      <3>8. i \in 1 .. n /\ a \in start_addr .. start_addr + n - 1
        BY <1>2, <1>3, <2>1, <2>3
      <3>9. after[a] = bytes[i]
        <4> HIDE DEF g, bytes
        <4>1. QED BY <1>7, <2>1, <3>7, <3>8
      <3>10. bytes[i] = Buffer(len)[i]
        BY <1>5, <3>8
      <3>11. Buffer(len)[i] = start_addr - Begin + i
        <4>1. i \in 1 .. Len(extra_bytes) + len
          BY <1>1, <1>3, <3>8
        <4> HIDE DEF i
        <4>2. QED BY <4>1, BufferContinuesImage DEF WInv
      <3>12. i = a - start_addr + 1
        OBVIOUS
      <3>13. after[a] = start_addr - Begin + i
        BY <3>9, <3>10, <3>11
      <3> HIDE DEF i, bytes, g
      <3>14. QED BY <1>2, <2>1, <3>12, <3>13
    <2>4. QED BY <1>2, <2>1, <2>2, <2>3
  <1>10. ASSUME NEW a \in 0 .. FlashSize - 1, a >= start_addr + n
         PROVE  after[a] = g[a]
    <2> HIDE DEF g, bytes
    <2>1. a \notin start_addr .. start_addr + n - 1
      BY <1>2, <1>3, <1>10
    <2>2. QED BY <1>7, <2>1
  <1>11. QED BY <1>8, <1>9, <1>10

-----------------------------------------------------------------------------
(* The specification *)

(* A fresh status has an empty image behind it and nothing held back.      *)
LEMMA InitInv == Init => WInv
  <1>1. SUFFICES ASSUME Init PROVE WInv
    OBVIOUS
  <1>2. /\ Begin \in Nat /\ ImageLen \in Nat /\ FlashSize \in Nat /\ Word \in Nat \ {0}
    BY GeometryAssumption
  <1>3. flash \in [0 .. FlashSize - 1 -> Int]
    BY <1>1 DEF Init, STALE
  <1>4. extra_bytes \in Seq(Int) /\ Len(extra_bytes) = 0
    BY <1>1 DEF Init
  <1>5. ImageInFlash
    BY <1>1, <1>2 DEF Init, ImageInFlash
  <1>6. HeldBack /\ BlankAhead
    BY <1>1, <1>2, <1>4 DEF Init, HeldBack, BlankAhead
  <1>7. QED BY <1>1, <1>2, <1>3, <1>4, <1>5, <1>6 DEF Init, WInv, Progress

(* A new attempt starts as the first one did.                              *)
LEMMA RestartKeepsInv == WInv /\ rboot_write_init => WInv'
  <1>1. SUFFICES ASSUME WInv, rboot_write_init PROVE WInv'
    OBVIOUS
  <1>2. /\ Begin \in Nat /\ ImageLen \in Nat /\ FlashSize \in Nat /\ Word \in Nat \ {0}
    BY GeometryAssumption
  <1>3. flash' \in [0 .. FlashSize - 1 -> Int]
    BY <1>1 DEF rboot_write_init, WInv, Progress, STALE
  <1>4. extra_bytes' \in Seq(Int) /\ Len(extra_bytes') = 0
    BY <1>1 DEF rboot_write_init
  <1>5. ImageInFlash'
    BY <1>1, <1>2 DEF rboot_write_init, ImageInFlash
  <1>6. HeldBack' /\ BlankAhead'
    BY <1>1, <1>2, <1>4 DEF rboot_write_init, HeldBack, BlankAhead
  <1>7. QED BY <1>1, <1>2, <1>3, <1>4, <1>5, <1>6 DEF rboot_write_init, WInv, Progress

(* A chunk of any length, written whole or in part, moves on by its whole  *)
(* words and holds the rest back.                                          *)
LEMMA ChunkGoesOn ==
    ASSUME Progress, NEW len \in 1 .. MaxLen, rboot_write_flash(len)
    PROVE  Progress'
  <1>1. ok /\ HeldBack
    BY DEF rboot_write_flash, Progress
  <1>2. /\ Buffer(len) \in Seq(Int)
        /\ Len(Buffer(len)) = Len(extra_bytes) + len
        /\ WholeWords(len) \in 0 .. Len(Buffer(len))
        /\ Len(Buffer(len)) - WholeWords(len) < Word
    BY BufferWords
  <1>3. /\ Begin \in Nat /\ ImageLen \in Nat /\ MaxLen \in Nat
        /\ start_addr \in Nat /\ start_addr >= Begin
        /\ offered \in Nat /\ len \in Nat /\ Len(extra_bytes) \in Nat
    BY GeometryAssumption DEF Progress
  <1>4. /\ offered' = offered + len /\ offered + len <= ImageLen
        /\ extra_bytes' = SubSeq(Buffer(len), WholeWords(len) + 1, Len(Buffer(len)))
    BY DEF rboot_write_flash
  <1>5. /\ extra_bytes' \in Seq(Int)
        /\ Len(extra_bytes') = Len(Buffer(len)) - WholeWords(len)
        /\ \A i \in 1 .. Len(extra_bytes') :
             extra_bytes'[i] = Buffer(len)[WholeWords(len) + i]
    <2> DEFINE b == Buffer(len)  w == WholeWords(len)
    <2>1. b \in Seq(Int) /\ w \in 0 .. Len(b) /\ extra_bytes' = SubSeq(b, w + 1, Len(b))
      BY <1>2, <1>4
    <2> HIDE DEF b, w
    <2>2. /\ extra_bytes' \in Seq(Int) /\ Len(extra_bytes') = Len(b) - w
          /\ \A i \in 1 .. Len(extra_bytes') : extra_bytes'[i] = b[w + i]
      BY <2>1
    <2>3. QED BY <2>2 DEF b, w
  <1>6. offered' \in 0 .. ImageLen /\ Len(extra_bytes') < Word
    BY <1>2, <1>3, <1>4, <1>5
  <1>7. CASE start_addr' = start_addr + WholeWords(len) /\ ok' = TRUE
    <2>n. PICK n \in Nat : n = WholeWords(len)
      BY <1>2, <1>3
    <2>1. start_addr' = start_addr + n /\ start_addr' \in Nat
      BY <1>3, <1>7, <2>n
    <2>2. start_addr - Begin + Len(extra_bytes) = offered
      BY <1>1 DEF HeldBack
    <2>3. start_addr' - Begin + Len(extra_bytes') = offered'
      <3>1. Len(extra_bytes') = Len(extra_bytes) + len - n
        BY <1>2, <1>5, <2>n
      <3>2. offered' = offered + len
        BY <1>4
      <3>3. QED BY <1>3, <2>1, <2>2, <3>1, <3>2
    <2>4. ASSUME NEW i \in 1 .. Len(extra_bytes')
          PROVE  extra_bytes'[i] = start_addr' - Begin + i
      <3>1. n + i \in 1 .. Len(extra_bytes) + len /\ i \in Nat
        BY <1>2, <1>3, <1>5, <2>n
      <3>2. Buffer(len)[n + i] = start_addr - Begin + (n + i)
        BY <1>1, <3>1, BufferContinuesImage
      <3>3. extra_bytes'[i] = Buffer(len)[n + i]
        BY <1>5, <2>n
      <3>4. QED BY <1>3, <2>n, <2>1, <3>1, <3>2, <3>3
    <2>5. start_addr' \in Begin .. Begin + ImageLen
      <3>1. n <= Len(extra_bytes) + len
        BY <1>2, <2>n
      <3>2. start_addr' <= Begin + offered'
        BY <1>3, <1>4, <2>1, <2>2, <3>1
      <3>3. QED BY <1>3, <1>4, <1>6, <2>1, <3>2
    <2>6. HeldBack'
      BY <2>3, <2>4 DEF HeldBack
    <2>7. QED BY <1>5, <1>6, <1>7, <2>5, <2>6 DEF Progress
  <1>8. CASE ok' = FALSE /\ UNCHANGED start_addr
    BY <1>5, <1>6, <1>8 DEF Progress
  <1>9. QED BY <1>7, <1>8 DEF rboot_write_flash

(* A chunk shorter than a sector, written whole or in part, keeps the      *)
(* image in the flash.                                                     *)
LEMMA ChunkKeepsInv ==
    ASSUME MaxLen < S, WInv, NEW len \in 1 .. MaxLen, rboot_write_flash(len)
    PROVE  WInv'
  <1>1. ok /\ HeldBack /\ BlankAhead
    BY DEF rboot_write_flash, WInv, Progress
  <1>2. /\ Buffer(len) \in Seq(Int)
        /\ Len(Buffer(len)) = Len(extra_bytes) + len
        /\ WholeWords(len) \in 0 .. Len(Buffer(len))
        /\ Len(Buffer(len)) - WholeWords(len) < Word
        /\ WholeWords(len) <= S
    BY WordsFit
  <1>3. /\ Begin \in Nat /\ ImageLen \in Nat /\ FlashSize \in Nat /\ Word \in Nat \ {0}
        /\ MaxLen \in Nat /\ start_addr \in Nat /\ start_addr >= Begin
        /\ offered \in Nat /\ len \in Nat
    BY GeometryAssumption DEF WInv, Progress
  <1>4. /\ offered' = offered + len /\ offered + len <= ImageLen
        /\ extra_bytes' = SubSeq(Buffer(len), WholeWords(len) + 1, Len(Buffer(len)))
        /\ last_sector_erased' = IF NeedsErase(len) THEN FinishesIn(len)
                                                    ELSE last_sector_erased
    BY DEF rboot_write_flash
  <1>5. last_sector_erased' = FinishesIn(len) /\ FinishesIn(len) \in Int
    <2>1. last_sector_erased' = FinishesIn(len)
      BY <1>1, <1>4, EraseMakesRoom
    <2>2. FinishesIn(len) \in {start_addr \div S, start_addr \div S + 1}
      BY <1>1, EraseMakesRoom
    <2>3. start_addr \div S \in Nat
      BY <1>3, SectorBounds
    <2>4. QED BY <2>1, <2>2, <2>3
  <1>6. Progress'
    BY ChunkGoesOn DEF WInv
  <1>8. CASE /\ flash' = WrittenAt(EraseAhead(len), start_addr,
                                   SubSeq(Buffer(len), 1, WholeWords(len)))
             /\ start_addr' = start_addr + WholeWords(len)
             /\ ok' = TRUE
    <2>n. PICK n \in Nat : n = WholeWords(len)
      BY <1>2, <1>3
    <2>1. n \in 0 .. WholeWords(len) /\ n \in Nat
      BY <2>n
    <2>2. /\ flash' \in [0 .. FlashSize - 1 -> Int]
          /\ \A a \in Begin .. start_addr + n - 1 : flash'[a] = a - Begin + 1
          /\ \A a \in 0 .. FlashSize - 1 :
               a >= start_addr + n => flash'[a] = EraseAhead(len)[a]
      BY <1>1, <1>8, <2>1, <2>n, WriteExtendsImage
    <2>3. start_addr' = start_addr + n /\ start_addr' \in Nat
      BY <1>3, <1>8, <2>n
    <2>4. ImageInFlash'
      <3>1. start_addr' - 1 = start_addr + n - 1
        BY <1>3, <2>1, <2>3
      <3>2. QED BY <2>2, <3>1 DEF ImageInFlash
    <2>8. BlankAhead'
      <3>1. FinishesIn(len) = start_addr' \div S
        BY <2>3, <2>n DEF FinishesIn, S
      <3>2. ASSUME NEW a \in 0 .. FlashSize - 1, a >= start_addr',
                   a \div S = start_addr' \div S
            PROVE  flash'[a] = BLANK
        <4>1. a >= start_addr
          BY <1>3, <2>1, <2>3, <3>2
        <4>2. EraseAhead(len)[a] = BLANK
          BY <1>1, <3>1, <3>2, <4>1, EraseMakesRoom
        <4>3. QED BY <2>2, <2>3, <3>2, <4>2
      <3>3. last_sector_erased' = start_addr' \div S
        BY <1>5, <3>1
      <3>4. QED BY <3>2, <3>3 DEF BlankAhead, S
    <2>9. QED BY <1>5, <1>6, <2>2, <2>4, <2>8 DEF WInv
  <1>9. CASE /\ \E n \in 0 .. WholeWords(len) \div Word :
                  flash' = WrittenAt(EraseAhead(len), start_addr,
                                     SubSeq(Buffer(len), 1, n * Word))
             /\ ok' = FALSE
             /\ UNCHANGED start_addr
    <2>1. PICK k \in 0 .. WholeWords(len) \div Word :
                 flash' = WrittenAt(EraseAhead(len), start_addr,
                                    SubSeq(Buffer(len), 1, k * Word))
      BY <1>9
    <2>2. k * Word \in 0 .. WholeWords(len)
      <3> DEFINE w == WholeWords(len)  q == w \div Word
      <3>1. w \in Nat
        BY <1>2, <1>3
      <3>2. q \in Int /\ q * Word <= w
        <4> HIDE DEF w
        <4>1. QED BY <1>3, <3>1
      <3>3. k \in Nat /\ k <= q
        BY <3>2
      <3> HIDE DEF w, q
      <3>4. k * Word <= q * Word /\ k * Word \in Nat
        BY <1>3, <3>2, <3>3
      <3>5. QED BY <1>3, <3>1, <3>2, <3>4 DEF w
    <2>3. /\ flash' \in [0 .. FlashSize - 1 -> Int]
          /\ \A a \in Begin .. start_addr + k * Word - 1 : flash'[a] = a - Begin + 1
      BY <1>1, <2>1, <2>2, WriteExtendsImage
    <2>4. ImageInFlash'
      <3>1. \A a \in Begin .. start_addr - 1 : a \in Begin .. start_addr + k * Word - 1
        <4>1. k * Word \in Nat
          BY <1>2, <2>2
        <4>2. QED BY <1>3, <4>1
      <3>2. QED BY <1>9, <2>3, <3>1 DEF ImageInFlash
    <2>5. QED BY <1>5, <1>6, <1>9, <2>3, <2>4 DEF WInv
  <1>10. QED BY <1>8, <1>9 DEF rboot_write_flash

(* If every chunk is shorter than a sector, the flash holds the image up   *)
(* to the write position, with no byte lost, moved or written over         *)
(* anything but erased flash, whatever the lengths of the chunks, and      *)
(* after a write that failed half way too.                                 *)
THEOREM ImageIsWritten ==
    ASSUME MaxLen < SECTOR_SIZE
    PROVE  Spec => []ImageInFlash
  <1>1. MaxLen < S
    BY DEF S
  <1>2. WInv /\ [Next]_vars => WInv'
    <2>1. SUFFICES ASSUME WInv, [Next]_vars PROVE WInv'
      OBVIOUS
    <2>2. ASSUME NEW len \in 1 .. MaxLen, rboot_write_flash(len) PROVE WInv'
      BY <1>1, <2>1, <2>2, ChunkKeepsInv
    <2>3. CASE rboot_write_init
      BY <2>1, <2>3, RestartKeepsInv
    <2>4. CASE UNCHANGED vars
      BY <2>1, <2>4 DEF WInv, Progress, HeldBack, BlankAhead, ImageInFlash, vars, status
    <2>5. QED BY <2>1, <2>2, <2>3, <2>4 DEF Next
  <1>3. WInv => ImageInFlash
    BY DEF WInv
  <1>4. QED BY <1>2, <1>3, InitInv, PTL DEF Spec

-----------------------------------------------------------------------------
(* What is around the image *)

(* A sequence is one over any set that holds its elements.                 *)
LEMMA SeqOfItsElements ==
    ASSUME NEW A, NEW B, NEW s \in Seq(A), \A i \in 1 .. Len(s) : s[i] \in B
    PROVE  s \in Seq(B)
  <1>1. Len(s) \in Nat /\ s = [i \in 1 .. Len(s) |-> s[i]]
    OBVIOUS
  <1>2. s \in [1 .. Len(s) -> B]
    BY <1>1
  <1>3. QED BY <1>1, <1>2, SeqDef

(* A part of a sequence over a set is one over that set.                   *)
LEMMA PartOfSeq ==
    ASSUME NEW A, NEW s \in Seq(A), NEW m \in Nat \ {0}, NEW n \in Nat, n <= Len(s)
    PROVE  /\ SubSeq(s, m, n) \in Seq(A)
           /\ Len(SubSeq(s, m, n)) = IF m <= n THEN n - m + 1 ELSE 0
           /\ \A i \in 1 .. Len(SubSeq(s, m, n)) : SubSeq(s, m, n)[i] \in A
  <1>1. \A i \in m .. n : s[i] \in A
    <2>1. TAKE i \in m .. n
    <2>2. i \in 1 .. Len(s)
      OBVIOUS
    <2>3. QED BY <2>2, ElementOfSeq
  <1>2. /\ SubSeq(s, m, n) \in Seq(A)
        /\ Len(SubSeq(s, m, n)) = IF m <= n THEN n - m + 1 ELSE 0
    BY <1>1, SubSeqProperties
  <1>3. QED BY <1>2, ElementOfSeq

(* A multiple of the word is on a word.                                    *)
LEMMA OnAWord ==
    ASSUME NEW a \in Nat, NEW k \in Int, a = Word * k
    PROVE  a % Word = 0
  <1>1. Word \in Nat \ {0}
    BY GeometryAssumption
  <1> DEFINE q == a \div Word  r == a % Word
  <1>2. q \in Int /\ r \in 0 .. Word - 1 /\ a = Word * q + r
    BY <1>1
  <1> HIDE DEF q, r
  <1>3. Word * (k - q) = r /\ r \in Int
    <2>1. Word * (k - q) = Word * k - Word * q
      BY <1>1, <1>2
    <2>2. Word * k \in Int /\ Word * q \in Int
      BY <1>1, <1>2
    <2>3. QED BY <1>2, <2>1, <2>2
  <1>4. k - q = 0
    <2>1. k - q < 1 /\ k - q > -1
      BY <1>1, <1>2, <1>3
    <2>2. QED BY <1>2, <2>1
  <1>5. r = 0
    BY <1>1, <1>3, <1>4
  <1>6. QED BY <1>5 DEF r

(* The image starts on a word.                                             *)
LEMMA BeginOnAWord == \E k \in Int : Begin = Word * k
  <1>1. /\ Word \in Nat \ {0} /\ S \in Nat \ {0} /\ S % Word = 0
        /\ Begin \in Nat \ {0} /\ Begin % S = 0
    BY GeometryAssumption DEF S
  <1> DEFINE p == Begin \div S  q == S \div Word
  <1>2. p \in Int /\ q \in Int /\ Begin = S * p /\ S = Word * q
    BY <1>1
  <1> HIDE DEF p, q
  <1>3. Begin = Word * (q * p) /\ q * p \in Int
    BY <1>1, <1>2
  <1>4. QED BY <1>3

(* An address below the image is in an earlier sector.                     *)
LEMMA BelowTheImage ==
    ASSUME NEW a \in Nat, a < Begin
    PROVE  a \div S < Begin \div S
  <1>1. S \in Nat \ {0} /\ Begin \in Nat /\ Begin % S = 0
    BY GeometryAssumption DEF S
  <1> DEFINE p == a \div S  q == Begin \div S
  <1>2. p \in Nat /\ p * S <= a /\ q \in Nat /\ Begin = S * q
    BY <1>1, SectorBounds
  <1> HIDE DEF p, q
  <1>3. p * S < q * S
    BY <1>1, <1>2
  <1>4. p < q
    BY <1>1, <1>2, <1>3
  <1>5. QED BY <1>4 DEF p, q

(* The bytes of the buffer are bytes of the image.                         *)
LEMMA BufferIsImage ==
    ASSUME Progress, HeldBack, NEW len \in 1 .. MaxLen, offered + len <= ImageLen
    PROVE  /\ Buffer(len) \in Seq(1 .. ImageLen)
           /\ start_addr + WholeWords(len) <= Begin + offered + len
  <1>1. /\ Begin \in Nat /\ MaxLen \in Nat /\ ImageLen \in Nat /\ start_addr \in Nat
        /\ start_addr >= Begin /\ offered \in Nat /\ len \in Nat /\ Len(extra_bytes) \in Nat
    BY GeometryAssumption DEF Progress
  <1>2. /\ Buffer(len) \in Seq(Int) /\ Len(Buffer(len)) = Len(extra_bytes) + len
        /\ WholeWords(len) \in 0 .. Len(Buffer(len))
    BY BufferWords
  <1>3. start_addr - Begin + Len(extra_bytes) = offered
    BY DEF HeldBack
  <1>4. ASSUME NEW i \in 1 .. Len(Buffer(len))
        PROVE  Buffer(len)[i] \in 1 .. ImageLen
    <2>1. Buffer(len)[i] = start_addr - Begin + i
      BY <1>2, BufferContinuesImage
    <2>2. i \in Nat /\ i >= 1 /\ i <= Len(extra_bytes) + len
      BY <1>1, <1>2
    <2>3. QED BY <1>1, <1>3, <2>1, <2>2
  <1>5. Buffer(len) \in Seq(1 .. ImageLen)
    BY <1>2, <1>4, SeqOfItsElements
  <1>6. start_addr + WholeWords(len) <= Begin + offered + len
    BY <1>1, <1>2, <1>3
  <1>7. QED BY <1>5, <1>6

(* However many of the words are written, a cell is erased, holds a byte   *)
(* of the image or is stale, and the cells before the image and behind the *)
(* sector in which it ends so far are as they were.                        *)
LEMMA WriteStaysInside ==
    ASSUME Progress, TypeOK, Inside, HeldBack,
           NEW len \in 1 .. MaxLen, offered + len <= ImageLen,
           NEW n \in 0 .. WholeWords(len), NEW after,
           after = WrittenAt(EraseAhead(len), start_addr, SubSeq(Buffer(len), 1, n))
    PROVE  /\ after \in [0 .. FlashSize - 1 -> Cell]
           /\ \A a \in 0 .. FlashSize - 1 :
                a < Begin \/ a \div S > (Begin + (offered + len)) \div S => after[a] = STALE
  <1>1. /\ Buffer(len) \in Seq(1 .. ImageLen)
        /\ WholeWords(len) \in 0 .. Len(Buffer(len)) /\ WholeWords(len) \in Nat
        /\ start_addr + WholeWords(len) <= Begin + offered + len
    BY BufferWords, BufferIsImage
  <1>2. /\ Begin \in Nat /\ MaxLen \in Nat /\ ImageLen \in Nat /\ start_addr \in Nat
        /\ start_addr >= Begin /\ offered \in Nat /\ len \in Nat /\ FlashSize \in Nat
    BY GeometryAssumption DEF Progress
  <1>3. n \in Nat /\ n <= WholeWords(len) /\ n <= Len(Buffer(len))
    BY <1>1
  <1> DEFINE bytes == SubSeq(Buffer(len), 1, n)
             g     == EraseAhead(len)
  <1>4. /\ Len(bytes) = n
        /\ \A i \in 1 .. n : bytes[i] \in 1 .. ImageLen
    <2> DEFINE b == Buffer(len)  img == 1 .. ImageLen
    <2>1. b \in Seq(img) /\ n <= Len(b) /\ 1 \in Nat \ {0} /\ (IF 1 <= n THEN n - 1 + 1 ELSE 0) = n
      BY <1>1, <1>3
    <2> HIDE DEF b, img
    <2>2. /\ Len(SubSeq(b, 1, n)) = (IF 1 <= n THEN n - 1 + 1 ELSE 0)
          /\ \A i \in 1 .. Len(SubSeq(b, 1, n)) : SubSeq(b, 1, n)[i] \in img
      BY <1>3, <2>1, PartOfSeq
    <2>3. QED BY <2>1, <2>2 DEF b, img
  <1>5. flash \in [0 .. FlashSize - 1 -> Cell] /\ DOMAIN flash = 0 .. FlashSize - 1
    BY DEF TypeOK
  <1>6. \A a \in 0 .. FlashSize - 1 :
          g[a] = IF NeedsErase(len) /\ a \div S = FinishesIn(len) THEN BLANK ELSE flash[a]
    BY <1>5 DEF EraseAhead, Erased, S
  <1>7. g \in [0 .. FlashSize - 1 -> Cell]
    BY <1>5 DEF EraseAhead, Erased, BLANK, Cell
  <1>8. after = WrittenAt(g, start_addr, bytes)
    OBVIOUS
  <1> HIDE DEF bytes, g
  <1>9. after = [a \in 0 .. FlashSize - 1 |->
                   IF a \in start_addr .. start_addr + n - 1
                   THEN IF g[a] = BLANK THEN bytes[a - start_addr + 1] ELSE STALE
                   ELSE g[a]]
    BY <1>4, <1>7, <1>8 DEF WrittenAt
  <1>10. \A a \in start_addr .. start_addr + n - 1 : bytes[a - start_addr + 1] \in Cell
    <2>1. ASSUME NEW a \in start_addr .. start_addr + n - 1
          PROVE  bytes[a - start_addr + 1] \in 1 .. ImageLen
      <3>1. a - start_addr + 1 \in 1 .. Len(bytes)
        BY <1>2, <1>3, <1>4
      <3>2. QED BY <1>4, <3>1
    <2>2. QED BY <2>1 DEF Cell
  <1>11. after \in [0 .. FlashSize - 1 -> Cell]
    <2>1. STALE \in Cell
      BY DEF Cell
    <2>2. QED BY <1>7, <1>9, <1>10, <2>1
  <1>12. ASSUME NEW a \in 0 .. FlashSize - 1,
                a < Begin \/ a \div S > (Begin + (offered + len)) \div S
         PROVE  after[a] = STALE
    <2> DEFINE fin == FinishesIn(len)  last == (Begin + (offered + len)) \div S
    <2>1. a \in Nat /\ a \div S \in Nat /\ last \in Nat
      BY <1>2, SectorBounds
    <2>2. fin = (start_addr + WholeWords(len)) \div S /\ fin \in Nat
      BY <1>1, <1>2, SectorBounds DEF FinishesIn, S
    <2>3. fin <= last
      BY <1>1, <1>2, <2>2, SectorMonotonic
    <2>4. Begin \div S <= fin /\ Begin \div S \in Nat
      <3>1. Begin \div S <= (start_addr + WholeWords(len)) \div S
        <4>1. start_addr + WholeWords(len) \in Nat /\ Begin <= start_addr + WholeWords(len)
          BY <1>1, <1>2
        <4> DEFINE b == start_addr + WholeWords(len)
        <4> HIDE DEF b
        <4>2. b \in Nat /\ Begin <= b => Begin \div S <= b \div S
          BY <1>2, SectorMonotonic
        <4>3. QED BY <4>1, <4>2 DEF b
      <3>2. QED BY <1>2, <2>2, <3>1, SectorBounds
    <2>5. a \div S # fin
      <3>1. CASE a < Begin
        BY <2>1, <2>2, <2>4, <3>1, BelowTheImage
      <3>2. CASE a \div S > last
        BY <2>1, <2>2, <2>3, <3>2
      <3>3. QED BY <1>12, <3>1, <3>2
    <2>6. flash[a] = STALE
      <3>1. (Begin + offered) \div S <= last /\ (Begin + offered) \div S \in Nat
        BY <1>2, SectorMonotonic, SectorBounds
      <3>2. a < Begin \/ a \div S > (Begin + offered) \div S
        <4> HIDE DEF last
        <4>1. CASE a < Begin
          BY <4>1
        <4>2. CASE a \div S > last
          BY <2>1, <3>1, <4>2
        <4>3. QED BY <1>12, <4>1, <4>2 DEF last
      <3>3. QED BY <1>5, <3>2 DEF Inside, S
    <2>7. g[a] = STALE
      BY <1>6, <2>5, <2>6
    <2>8. a \notin start_addr .. start_addr + n - 1
      <3>1. CASE a < Begin
        BY <1>2, <2>1, <3>1
      <3>2. CASE a \div S > last
        <4>1. ~ (a <= Begin + (offered + len))
          BY <1>2, <2>1, <3>2, SectorMonotonic
        <4>2. QED BY <1>1, <1>2, <1>3, <2>1, <4>1
      <3>3. QED BY <1>12, <3>1, <3>2
    <2>9. QED BY <1>9, <2>7, <2>8
  <1>13. QED BY <1>11, <1>12

(* A chunk keeps the types and touches nothing behind its last sector.     *)
LEMMA ChunkStaysInside ==
    ASSUME Progress, TypeOK, Inside,
           NEW len \in 1 .. MaxLen, rboot_write_flash(len)
    PROVE  TypeOK' /\ Inside'
  <1>1. ok /\ HeldBack /\ Progress'
    BY ChunkGoesOn DEF rboot_write_flash, Progress
  <1>2. /\ offered' = offered + len /\ offered + len <= ImageLen
        /\ extra_bytes' = SubSeq(Buffer(len), WholeWords(len) + 1, Len(Buffer(len)))
        /\ last_sector_erased' \in {FinishesIn(len), last_sector_erased}
    BY <1>1 DEF rboot_write_flash
  <1>3. /\ Begin \in Nat /\ MaxLen \in Nat /\ ImageLen \in Nat /\ start_addr \in Nat
        /\ FlashSize \in Nat /\ Word \in Nat \ {0} /\ S \in Nat
        /\ offered \in Nat /\ len \in Nat /\ start_addr + WholeWords(len) <= Begin + ImageLen
        /\ WholeWords(len) \in 0 .. Len(Buffer(len)) /\ WholeWords(len) \in Nat
        /\ Buffer(len) \in Seq(1 .. ImageLen)
    <2>1. /\ Begin \in Nat /\ MaxLen \in Nat /\ ImageLen \in Nat /\ start_addr \in Nat
          /\ FlashSize \in Nat /\ Word \in Nat \ {0} /\ S \in Nat
          /\ offered \in Nat /\ len \in Nat
      BY GeometryAssumption DEF Progress, S
    <2>2. /\ WholeWords(len) \in 0 .. Len(Buffer(len)) /\ WholeWords(len) \in Nat
          /\ Buffer(len) \in Seq(1 .. ImageLen)
          /\ start_addr + WholeWords(len) <= Begin + offered + len
      BY <1>1, <1>2, BufferWords, BufferIsImage
    <2>3. QED BY <1>2, <2>1, <2>2
  <1>4. PICK n \in 0 .. WholeWords(len) :
          flash' = WrittenAt(EraseAhead(len), start_addr, SubSeq(Buffer(len), 1, n))
    <2>1. CASE flash' = WrittenAt(EraseAhead(len), start_addr,
                                  SubSeq(Buffer(len), 1, WholeWords(len)))
      BY <1>3, <2>1
    <2>2. ASSUME NEW k \in 0 .. WholeWords(len) \div Word
          PROVE  k * Word \in 0 .. WholeWords(len)
      <3> DEFINE w == WholeWords(len)  q == w \div Word
      <3>1. q \in Int /\ q * Word <= w /\ k \in Nat /\ k <= q /\ w \in Nat
        <4> HIDE DEF w
        <4>1. w \in Nat
          BY <1>3 DEF w
        <4>2. w \div Word \in Int /\ (w \div Word) * Word <= w
          BY <1>3, <4>1
        <4>3. QED BY <4>1, <4>2 DEF w
      <3> HIDE DEF w, q
      <3>2. k * Word <= q * Word /\ k * Word \in Nat
        BY <1>3, <3>1
      <3>3. q * Word \in Int
        BY <1>3, <3>1
      <3>4. QED BY <3>1, <3>2, <3>3 DEF w
    <2>3. CASE \E k \in 0 .. WholeWords(len) \div Word :
                 flash' = WrittenAt(EraseAhead(len), start_addr,
                                    SubSeq(Buffer(len), 1, k * Word))
      BY <2>2, <2>3
    <2>4. QED BY <2>1, <2>3 DEF rboot_write_flash
  <1>5. /\ flash' \in [0 .. FlashSize - 1 -> Cell]
        /\ \A a \in 0 .. FlashSize - 1 :
             a < Begin \/ a \div S > (Begin + (offered + len)) \div S => flash'[a] = STALE
    BY <1>1, <1>2, <1>4, WriteStaysInside
  <1>6. Inside'
    BY <1>2, <1>5 DEF Inside, S
  <1>7. extra_bytes' \in Seq(1 .. ImageLen)
    <2> DEFINE b == Buffer(len)  w == WholeWords(len)
    <2>1. b \in Seq(1 .. ImageLen) /\ w \in 0 .. Len(b) /\ extra_bytes' = SubSeq(b, w + 1, Len(b))
      BY <1>2, <1>3
    <2> HIDE DEF b, w
    <2>2. w + 1 \in Nat \ {0} /\ Len(b) \in Nat
      BY <2>1
    <2> DEFINE img == 1 .. ImageLen
    <2>3. b \in Seq(img)
      BY <2>1
    <2> HIDE DEF img
    <2>4. extra_bytes' \in Seq(img)
      BY <2>1, <2>2, <2>3, PartOfSeq
    <2>5. QED BY <2>4 DEF img
  <1>8. last_sector_erased' \in 0 .. FlashSize \div SECTOR_SIZE
    <2>1. start_addr + WholeWords(len) <= FlashSize
      BY <1>3, GeometryAssumption DEF S
    <2>2. FinishesIn(len) = (start_addr + WholeWords(len)) \div S
      BY DEF FinishesIn, S
    <2> DEFINE b == start_addr + WholeWords(len)
    <2>b. b \in Nat
      BY <1>3
    <2>c. FinishesIn(len) = b \div S /\ b <= FlashSize
      BY <2>1, <2>2
    <2> HIDE DEF b
    <2>3. FinishesIn(len) <= FlashSize \div S /\ FinishesIn(len) \in Nat /\ FlashSize \div S \in Nat
      BY <1>3, <2>b, <2>c, SectorMonotonic, SectorBounds
    <2>4. QED BY <1>2, <2>3 DEF S, TypeOK
  <1>9. start_addr' % Word = 0
    <2>1. start_addr' \in {start_addr, start_addr + WholeWords(len)}
      BY DEF rboot_write_flash
    <2>2. PICK k \in Int : WholeWords(len) = Word * k
      BY BufferWords
    <2>3. start_addr \div Word \in Int /\ start_addr = Word * (start_addr \div Word)
      BY <1>3 DEF TypeOK
    <2> DEFINE m == start_addr \div Word
    <2> HIDE DEF m
    <2>4. m \in Int /\ start_addr = Word * m
      BY <2>3 DEF m
    <2>5. start_addr + WholeWords(len) = Word * (m + k)
      <3>1. Word * (m + k) = Word * m + Word * k
        BY <1>3, <2>4
      <3>2. QED BY <2>2, <2>4, <3>1
    <2>6. (start_addr + WholeWords(len)) % Word = 0
      <3> DEFINE a == start_addr + WholeWords(len)
      <3>1. a \in Nat /\ m + k \in Int /\ a = Word * (m + k)
        BY <1>3, <2>4, <2>5
      <3> HIDE DEF a
      <3>2. a % Word = 0
        BY <3>1, OnAWord
      <3>3. QED BY <3>2 DEF a
    <2>7. QED BY <2>1, <2>6 DEF TypeOK
  <1>10. QED BY <1>1, <1>5, <1>6, <1>7, <1>8, <1>9 DEF TypeOK, Progress

(* A fresh status, the first or a later one.                               *)
LEMMA FreshIsTyped ==
    /\ Init => TypeOK /\ Inside
    /\ TypeOK /\ rboot_write_init => TypeOK' /\ Inside'
  <1>1. /\ Begin \in Nat /\ ImageLen \in Nat /\ FlashSize \in Nat /\ Word \in Nat \ {0}
        /\ FlashSize \div SECTOR_SIZE \in Nat
    BY GeometryAssumption, SectorBounds DEF S
  <1>2. Begin % Word = 0
    BY <1>1, BeginOnAWord, OnAWord
  <1>3. <<>> \in Seq(1 .. ImageLen) /\ Len(<<>>) = 0
    OBVIOUS
  <1>4. Init => TypeOK /\ Inside
    <2>1. SUFFICES ASSUME Init PROVE TypeOK /\ Inside
      OBVIOUS
    <2>2. flash \in [0 .. FlashSize - 1 -> Cell]
      BY <2>1 DEF Init, Cell
    <2>3. Inside
      BY <2>1 DEF Init, Inside
    <2>4. QED BY <1>1, <1>2, <1>3, <2>1, <2>2, <2>3 DEF Init, TypeOK
  <1>5. TypeOK /\ rboot_write_init => TypeOK' /\ Inside'
    <2>1. SUFFICES ASSUME TypeOK, rboot_write_init PROVE TypeOK' /\ Inside'
      OBVIOUS
    <2>2. flash' = [a \in 0 .. FlashSize - 1 |-> STALE]
      BY <2>1 DEF rboot_write_init, TypeOK
    <2>3. flash' \in [0 .. FlashSize - 1 -> Cell] /\ Inside'
      BY <2>2 DEF Cell, Inside
    <2>4. QED BY <1>1, <1>2, <1>3, <2>1, <2>3 DEF rboot_write_init, TypeOK
  <1>6. QED BY <1>4, <1>5

(* What lies behind the sector the image ends in so far is outside the     *)
(* slot, but for the sector behind a slot that is full.                    *)
LEMMA InsideTheSlot ==
    ASSUME TypeOK, Inside
    PROVE  NeighboursUntouched
  <1>1. /\ S \in Nat \ {0} /\ Begin \in Nat /\ SlotSize \in Nat /\ ImageLen \in Nat
        /\ Begin % S = 0 /\ SlotSize % S = 0 /\ ImageLen <= SlotSize
        /\ offered \in Nat /\ offered <= SlotSize
        /\ DOMAIN flash = 0 .. FlashSize - 1
    BY GeometryAssumption DEF TypeOK, S
  <1>2. PICK m \in Int : Begin + SlotSize = S * m
    <2>1. /\ Begin \div S \in Int /\ Begin = S * (Begin \div S)
          /\ SlotSize \div S \in Int /\ SlotSize = S * (SlotSize \div S)
      BY <1>1
    <2> DEFINE b == Begin \div S  l == SlotSize \div S
    <2> HIDE DEF b, l
    <2>2. b \in Int /\ l \in Int /\ Begin = S * b /\ SlotSize = S * l
      BY <2>1 DEF b, l
    <2>3. S * (b + l) = S * b + S * l
      BY <1>1, <2>2
    <2>4. b + l \in Int /\ Begin + SlotSize = S * (b + l)
      BY <2>2, <2>3
    <2>5. QED BY <2>4
  <1>3. SUFFICES ASSUME NEW a \in DOMAIN flash, flash[a] # STALE
                 PROVE  /\ Begin <= a
                        /\ \/ a < Begin + SlotSize
                           \/ offered = SlotSize /\ a < Begin + SlotSize + S
    BY DEF NeighboursUntouched, S
  <1> DEFINE q == a \div S  e == Begin + offered  last == e \div S
  <1>4. a \in Nat /\ e \in Nat /\ FlashSize \in Nat
    BY <1>1, <1>3, GeometryAssumption
  <1>5. ~(a < Begin) /\ ~(q > last)
    BY <1>3 DEF Inside
  <1>6. /\ q \in Nat /\ a < q * S + S
        /\ last \in Nat /\ last * S <= e
    BY <1>4, SectorBounds
  <1>7. e <= S * m
    BY <1>1, <1>2
  <1>8. e = S * m <=> offered = SlotSize
    BY <1>1, <1>2
  <1> HIDE DEF q, last, e
  <1>9. a < last * S + S
    <2>1. q * S <= last * S
      BY <1>1, <1>5, <1>6
    <2>2. q * S \in Int /\ last * S \in Int
      BY <1>1, <1>6
    <2>3. QED BY <1>1, <1>4, <1>6, <2>1, <2>2
  <1>10. CASE e = S * m
    <2>1. a < S * m + S
      <3>1. last * S \in Int /\ S * m \in Int
        BY <1>1, <1>2, <1>6
      <3>2. QED BY <1>1, <1>4, <1>6, <1>9, <1>10, <3>1
    <2>2. QED BY <1>1, <1>2, <1>4, <1>5, <1>8, <1>10, <2>1
  <1>11. CASE e < S * m
    <2>1. last * S < S * m
      BY <1>1, <1>2, <1>4, <1>6, <1>11
    <2>2. last < m
      BY <1>1, <1>2, <1>6, <2>1
    <2>3. (last + 1) * S <= m * S
      BY <1>1, <1>2, <1>6, <2>2
    <2>4. (last + 1) * S = last * S + S /\ m * S = S * m
      BY <1>1, <1>2, <1>6
    <2>5. a < S * m
      <3>1. last * S \in Int /\ S * m \in Int /\ (last + 1) * S \in Int /\ m * S \in Int
        BY <1>1, <1>2, <1>6
      <3>2. QED BY <1>1, <1>4, <1>9, <2>3, <2>4, <3>1
    <2>6. QED BY <1>1, <1>2, <1>4, <1>5, <2>5
  <1>12. QED BY <1>1, <1>2, <1>4, <1>7, <1>10, <1>11

(* Types and neighbours hold together, for chunks of any length: which     *)
(* sector an erase takes depends on the bytes held back.                   *)
LEMMA StaysInside == Spec => [](TypeOK /\ NeighboursUntouched /\ NothingLost)
  <1> DEFINE I == Progress /\ TypeOK /\ Inside
  <1>1. I /\ [Next]_vars => I'
    <2>1. SUFFICES ASSUME I, [Next]_vars PROVE I'
      OBVIOUS
    <2>2. ASSUME NEW len \in 1 .. MaxLen, rboot_write_flash(len) PROVE I'
      BY <2>1, <2>2, ChunkGoesOn, ChunkStaysInside
    <2>3. CASE rboot_write_init
      <3>1. TypeOK' /\ Inside'
        BY <2>1, <2>3, FreshIsTyped
      <3>2. HeldBack' /\ ok' = TRUE /\ extra_bytes' = <<>>
        BY <2>3, GeometryAssumption DEF rboot_write_init, HeldBack
      <3>3. Progress'
        BY <3>1, <3>2 DEF TypeOK, Progress
      <3>4. QED BY <3>1, <3>3
    <2>4. CASE UNCHANGED vars
      BY <2>1, <2>4 DEF Progress, HeldBack, TypeOK, Inside, vars, status
    <2>5. QED BY <2>1, <2>2, <2>3, <2>4 DEF Next
  <1>2. Init => I
    BY InitInv, FreshIsTyped DEF WInv
  <1>3. I => NothingLost
    BY DEF Progress, HeldBack, NothingLost
  <1>4. I => NeighboursUntouched
    BY InsideTheSlot
  <1>5. QED BY <1>1, <1>2, <1>3, <1>4, PTL DEF Spec

(* Every cell is blank, stale or a byte of the image, and every write      *)
(* starts on a word, as spi_flash_write demands (rboot-api.c, 179-215),    *)
(* whatever the lengths of the chunks.                                     *)
THEOREM WritesStartOnWords == Spec => []TypeOK
  BY StaysInside, PTL

(* No byte that was passed is lost between two chunks of any length: it    *)
(* has been written or is held back for the next one.                      *)
THEOREM NoByteIsLost == Spec => []NothingLost
  BY StaysInside, PTL

(* Chunks of any length erase and write nothing outside the slot, after a  *)
(* failed write too; only an image that fills the slot to its last byte    *)
(* has the first sector behind it erased, and no other.                    *)
THEOREM NeighboursAreSpared == Spec => []NeighboursUntouched
  BY StaysInside, PTL
=============================================================================
