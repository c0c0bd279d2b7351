----------------------------- MODULE RbootWrite -----------------------------
(***************************************************************************)
(* rboot_write_flash of rBoot's application code: an image arrives in      *)
(* chunks of any length and is written from a sector boundary on, in whole *)
(* words, erasing each sector just before the first write into it.         *)
(*                                                                         *)
(* A byte is its position in the image, so a cell of the flash is erased,  *)
(* holds a byte of the image being written, or holds anything else: the    *)
(* previous content, or the AND of two writes (STALE).                   *)
(***************************************************************************)
EXTENDS Integers, Sequences

CONSTANTS
    SECTOR_SIZE,
    Word,          \* flash is written in words: 4 bytes
    Begin,         \* the address passed to rboot_write_init
    FlashSize,
    MaxLen,        \* longest chunk the caller passes
    ImageLen,
    SlotSize       \* what there is for an image at Begin: roms[1] - roms[0]

ASSUME GeometryAssumption ==
    /\ Word \in Nat \ {0} /\ SECTOR_SIZE \in Nat \ {0} /\ SECTOR_SIZE % Word = 0
    /\ Begin \in Nat \ {0} /\ Begin % SECTOR_SIZE = 0
    /\ MaxLen \in Nat \ {0} /\ ImageLen \in Nat
    /\ SlotSize \in Nat /\ SlotSize % SECTOR_SIZE = 0 /\ ImageLen <= SlotSize
    /\ FlashSize \in Nat /\ FlashSize % SECTOR_SIZE = 0
    /\ Begin + ImageLen + MaxLen + SECTOR_SIZE <= FlashSize

STALE == -1
BLANK == 0
Cell == {STALE, BLANK} \cup (1 .. ImageLen)

VARIABLES
    flash,
    start_addr, last_sector_erased, extra_bytes,    \* rboot_write_status
    offered,        \* bytes of the image the caller has passed
    ok              \* the latest rboot_write_flash returned true

status == <<start_addr, last_sector_erased, extra_bytes>>
vars   == <<flash, status, offered, ok>>

-----------------------------------------------------------------------------
(* The flash *)

Erased(f, sector) ==
    [a \in DOMAIN f |-> IF a \div SECTOR_SIZE = sector THEN BLANK ELSE f[a]]

\* A write can only clear bits: a cell that is not erased ends up stale.
WrittenAt(f, addr, bytes) ==
    [a \in DOMAIN f |->
       IF a \in addr .. addr + Len(bytes) - 1
       THEN IF f[a] = BLANK THEN bytes[a - addr + 1] ELSE STALE
       ELSE f[a]]

-----------------------------------------------------------------------------
\* rboot_write_init: a zeroed status.
Init ==
    /\ flash = [a \in 0 .. FlashSize - 1 |-> STALE]
    /\ start_addr = Begin /\ last_sector_erased = 0 /\ extra_bytes = <<>>
    /\ offered = 0 /\ ok = TRUE

\* A new attempt, with another image, after a failure or a restart.
rboot_write_init ==
    /\ offered > 0
    /\ flash' = [a \in DOMAIN flash |-> STALE]
    /\ start_addr' = Begin /\ last_sector_erased' = 0 /\ extra_bytes' = <<>>
    /\ offered' = 0 /\ ok' = TRUE

\* What is written this time: the bytes left over from last time and the new
\* ones, in whole words.
Buffer_NewOnly(len) == [i \in 1 .. len |-> offered + i]
Buffer(len) == extra_bytes \o [i \in 1 .. len |-> offered + i]

WholeWords_All(len) == Len(Buffer(len))
WholeWords(len) == Len(Buffer(len)) - (Len(Buffer(len)) % Word)

\* "check if the sector the write finishes in has been erased yet"
FinishesIn_Next(len) == (start_addr + WholeWords(len)) \div SECTOR_SIZE + 1
FinishesIn(len) == (start_addr + WholeWords(len)) \div SECTOR_SIZE

NeedsErase_StartSector(len) ==
    WholeWords(len) <= SECTOR_SIZE /\ last_sector_erased # start_addr \div SECTOR_SIZE
NeedsErase(len) ==
    WholeWords(len) <= SECTOR_SIZE /\ last_sector_erased # FinishesIn(len)

EraseAhead(len) ==
    IF NeedsErase(len) THEN Erased(flash, FinishesIn(len)) ELSE flash

\* When os_zalloc fails nothing has changed: a stuttering step.
\* A write that fails, or that a power failure interrupts, has written some
\* of the words.
rboot_write_flash(len) ==
    /\ ok /\ offered + len <= ImageLen
    /\ last_sector_erased' = IF NeedsErase(len) THEN FinishesIn(len) ELSE last_sector_erased
    /\ extra_bytes' = SubSeq(Buffer(len), WholeWords(len) + 1, Len(Buffer(len)))
    /\ offered' = offered + len
    /\ \/ /\ flash' = WrittenAt(EraseAhead(len), start_addr, SubSeq(Buffer(len), 1, WholeWords(len)))
          /\ start_addr' = start_addr + WholeWords(len)
          /\ ok' = TRUE
       \/ /\ \E n \in 0 .. WholeWords(len) \div Word :
               flash' = WrittenAt(EraseAhead(len), start_addr, SubSeq(Buffer(len), 1, n * Word))
          /\ ok' = FALSE
          /\ UNCHANGED start_addr

Next ==
    \/ \E len \in 1 .. MaxLen : rboot_write_flash(len)
    \/ rboot_write_init

Spec == Init /\ [][Next]_vars

-----------------------------------------------------------------------------
(* Types; the write position stays on a word.                              *)
TypeOK ==
    /\ flash \in [0 .. FlashSize - 1 -> Cell]
    /\ start_addr \in Begin .. Begin + ImageLen /\ start_addr % Word = 0
    /\ last_sector_erased \in 0 .. FlashSize \div SECTOR_SIZE
    /\ extra_bytes \in Seq(1 .. ImageLen) /\ Len(extra_bytes) < Word
    /\ offered \in 0 .. ImageLen /\ ok \in BOOLEAN

(* The flash holds the image up to the write position: no byte was lost,   *)
(* doubled or moved between chunks, none was written over anything but     *)
(* erased flash and no later erase took it away.                           *)
ImageInFlash ==
    \A a \in Begin .. start_addr - 1 : flash[a] = a - Begin + 1

(* What has been passed and is not in the flash yet is in extra_bytes.     *)
NothingLost == ok => start_addr - Begin + Len(extra_bytes) = offered

(* Nothing is erased or written outside the slot, unless the image fills   *)
(* it to its last byte: then the write "finishes" in the sector behind it,  *)
(* and that one is erased, be it the neighbour's first.                    *)
NeighboursUntouched ==
    \A a \in DOMAIN flash :
      flash[a] # STALE =>
        /\ Begin <= a
        /\ \/ a < Begin + SlotSize
           \/ offered = SlotSize /\ a < Begin + SlotSize + SECTOR_SIZE
=============================================================================
