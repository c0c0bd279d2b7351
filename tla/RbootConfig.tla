----------------------------- MODULE RbootConfig -----------------------------
(***************************************************************************)
(* rBoot with the two-rom layout of its default config: find_image of the  *)
(* boot loader and rboot_set_config of the application share one flash     *)
(* sector, which each rewrites by erasing and then writing it.  The power  *)
(* may fail at any point, also in the middle of a write.                   *)
(*                                                                         *)
(* The sector is what a write of `words' words left of a buffer: word 1    *)
(* holds magic, version, mode and current_rom, word 2 gpio_rom and count,  *)
(* words 3 and 4 the rom addresses, word 5 the checksum; the rest is user  *)
(* data.  What was not written reads as 0xff.                              *)
(***************************************************************************)
EXTENDS Integers

CONSTANTS
    Builds,               \* values of the build option BOOT_CONFIG_CHKSUM
    Modes,                \* modes the application configures
    ErasedByte,           \* what an unwritten byte field reads as: 0xff
    MaxCuts,              \* bound on power failures
    NoRom

Roms == 0 .. 1
Counts == 0 .. 2    \* what the application may configure

ASSUME ConfigAssumption ==
    /\ Builds \subseteq BOOLEAN
    /\ Modes \subseteq {"MODE_STANDARD", "MODE_GPIO_ROM"}
    /\ ErasedByte \in Nat /\ ErasedByte > 2
    /\ MaxCuts \in Nat
    /\ NoRom \notin Int

Full == 6    \* a sector written to its end

Config == [mode : {"MODE_STANDARD", "MODE_GPIO_ROM"}, current_rom : Roms,
           gpio_rom : Roms \cup {ErasedByte}, count : Counts \cup {ErasedByte},
           roms : SUBSET Roms, user : BOOLEAN]

VARIABLES
    chksum,           \* the build has BOOT_CONFIG_CHKSUM; never changes
    words, sector,    \* the config sector: how much of which buffer it holds
    buffer,           \* the RAM copy of find_image or rboot_set_config
    image,            \* whether the image in each slot passes check_image
    pc,               \* where find_image or rboot_set_config is
    romToBoot, gpio_boot, updateConfig,    \* locals of find_image
    running,          \* the rom that was started
    changed,          \* rboot_set_current_rom has been called since
    ota,              \* the slot an update is being written to
    cuts              \* power failures so far

flash  == <<chksum, words, sector, image>>
locals == <<romToBoot, gpio_boot, updateConfig>>
app    == <<running, changed, ota>>
vars   == <<flash, buffer, pc, locals, app, cuts>>

-----------------------------------------------------------------------------
(* The sector *)

\* What SPIRead of the sector returns, once its magic is there.
Read == [ mode        |-> sector.mode,
          current_rom |-> sector.current_rom,
          gpio_rom    |-> IF words >= 2 THEN sector.gpio_rom ELSE ErasedByte,
          count       |-> IF words >= 2 THEN sector.count ELSE ErasedByte,
          roms        |-> {r \in sector.roms : words >= r + 3},
          user        |-> sector.user /\ words = Full ]

\* Magic and version match, and the checksum if the build has one.
ConfigAccepted_NoChksum == words >= 1
ConfigAccepted == words >= IF chksum THEN 5 ELSE 1

\* The default config; the rest of the sector keeps what was read.
DefaultConfig(user) ==
    [mode |-> "MODE_STANDARD", current_rom |-> 0, gpio_rom |-> 0, count |-> 2,
     roms |-> Roms, user |-> user]

\* check_image: an address of 0xffffffff is refused like a bad image.  So is
\* what there is before the roms, and past a count that was never written.
check_image(r) == r \in buffer.roms /\ image[r]

EraseThen(erase, write) ==
    /\ pc = erase
    /\ words' = 0
    /\ pc' = write
    /\ UNCHANGED <<chksum, sector, image, buffer, locals, app, cuts>>

-----------------------------------------------------------------------------
(* find_image *)

\* A flashed device: no config yet, and some slot with a good image.
Init ==
    /\ chksum \in Builds
    /\ words = 0
    /\ sector = DefaultConfig(FALSE)
    /\ buffer = sector
    /\ image \in [Roms -> BOOLEAN] /\ \E r \in Roms : image[r]
    /\ pc = "read"
    /\ romToBoot = 0 /\ gpio_boot = FALSE /\ updateConfig = FALSE
    /\ running = NoRom /\ changed = FALSE /\ ota = NoRom
    /\ cuts = 0

ReadConfig ==
    /\ pc = "read"
    /\ gpio_boot' = FALSE /\ updateConfig' = FALSE /\ romToBoot' = 0
    /\ IF ConfigAccepted
       THEN buffer' = Read /\ pc' = "select"
       ELSE buffer' = DefaultConfig(Read.user) /\ pc' = "default-erase"
    /\ UNCHANGED <<flash, app, cuts>>

DefaultErase == EraseThen("default-erase", "default-write")

DefaultWrite ==
    /\ pc = "default-write"
    /\ words' = Full /\ sector' = buffer
    /\ pc' = "select"
    /\ UNCHANGED <<chksum, image, buffer, locals, app, cuts>>

\* gpio_low: the level of GPIO16, read only in the gpio mode.
SelectRom(gpio_low) ==
    /\ pc = "select"
    /\ IF buffer.mode = "MODE_GPIO_ROM" /\ gpio_low
       THEN romToBoot' = buffer.gpio_rom /\ gpio_boot' = TRUE
            /\ UNCHANGED <<buffer, updateConfig>>
       ELSE IF buffer.current_rom >= buffer.count
       THEN romToBoot' = 0 /\ buffer' = [buffer EXCEPT !.current_rom = 0]
            /\ updateConfig' = TRUE /\ UNCHANGED gpio_boot
       ELSE romToBoot' = buffer.current_rom /\ UNCHANGED <<buffer, gpio_boot, updateConfig>>
    /\ pc' = "try"
    /\ UNCHANGED <<flash, app, cuts>>

Previous_Unchecked(r) == r - 1
Previous_NoWrap(r) == IF r <= 0 THEN 0 ELSE r - 1
Previous(r) == IF r <= 0 THEN buffer.count - 1 ELSE r - 1

\* "re-write config, if required"
MustSave_Never == FALSE
MustSave == updateConfig

TryGood ==
    /\ pc = "try" /\ check_image(romToBoot)
    /\ IF MustSave
       THEN /\ buffer' = [buffer EXCEPT !.current_rom = romToBoot]
            /\ pc' = "save-erase"
            /\ UNCHANGED running
       ELSE pc' = "app" /\ running' = romToBoot /\ UNCHANGED buffer
    /\ UNCHANGED <<flash, locals, changed, ota, cuts>>

TryBad ==
    /\ pc = "try" /\ ~check_image(romToBoot)
    /\ IF gpio_boot
       THEN pc' = "failed" /\ UNCHANGED <<romToBoot, updateConfig>>
       ELSE /\ romToBoot' = Previous(romToBoot)
            /\ updateConfig' = TRUE
            /\ pc' = IF romToBoot' = buffer.current_rom THEN "failed" ELSE "try"
    /\ UNCHANGED <<flash, buffer, gpio_boot, app, cuts>>

SaveErase == EraseThen("save-erase", "save-write")

SaveWrite ==
    /\ pc = "save-write"
    /\ words' = Full /\ sector' = buffer
    /\ pc' = "app" /\ running' = romToBoot
    /\ UNCHANGED <<chksum, image, buffer, locals, changed, ota, cuts>>

-----------------------------------------------------------------------------
(* The application and rboot-api.c: it updates the slot it does not run    *)
(* from, going by rboot_get_current_rom, and restarts into it.             *)

rboot_get_current_rom == Read.current_rom

OtaBegin ==
    /\ pc = "app" /\ ota = NoRom /\ ~changed
    /\ ota' = 1 - rboot_get_current_rom
    /\ image' = [image EXCEPT ![ota'] = FALSE]
    /\ UNCHANGED <<chksum, words, sector, buffer, pc, locals, running, changed, cuts>>

\* rboot_set_config up to its erase: the whole sector is read first.  Without
\* the memory for it nothing happens.
SetConfigFrom_ConfOnly(conf) ==
    /\ buffer' = [conf EXCEPT !.user = FALSE]
    /\ pc' = "set-erase"
SetConfigFrom(conf) ==
    /\ buffer' = conf
    /\ pc' = "set-erase"

\* Refused when the config has no such rom, or when memory is short.
rboot_set_current_rom(rom) ==
    \/ /\ rom < Read.count
       /\ SetConfigFrom([Read EXCEPT !.current_rom = rom])
       /\ changed' = TRUE
    \/ UNCHANGED <<buffer, pc, changed>>

OtaDone ==
    /\ pc = "app" /\ ota # NoRom
    /\ image' = [image EXCEPT ![ota] = TRUE]
    /\ rboot_set_current_rom(ota)
    /\ ota' = NoRom
    /\ UNCHANGED <<chksum, words, sector, locals, running, cuts>>

\* What rboot_get_config returned, with other values, is set.
SetConfig(mode, rom, count) ==
    /\ pc = "app"
    /\ SetConfigFrom([Read EXCEPT !.mode = mode, !.gpio_rom = rom, !.count = count])
    /\ UNCHANGED <<flash, locals, app, cuts>>

\* The application's own data goes to the rest of the sector, likewise.
SaveUserData ==
    /\ pc = "app"
    /\ buffer' = [Read EXCEPT !.user = TRUE]
    /\ pc' = "set-erase"
    /\ UNCHANGED <<flash, locals, app, cuts>>

SetErase == EraseThen("set-erase", "set-write")

SetWrite ==
    /\ pc = "set-write"
    /\ words' = Full /\ sector' = buffer
    /\ pc' = "app"
    /\ UNCHANGED <<chksum, image, buffer, locals, app, cuts>>

Reset ==
    /\ pc' = "read"
    /\ running' = NoRom /\ changed' = FALSE /\ ota' = NoRom
    /\ UNCHANGED <<chksum, image, buffer, locals>>

Restart ==
    /\ pc = "app"
    /\ Reset
    /\ UNCHANGED <<words, sector, cuts>>

\* An interrupted erase may have blanked the sector; an interrupted write
\* leaves the words it got to.
PowerFails ==
    /\ cuts < MaxCuts
    /\ cuts' = cuts + 1
    /\ Reset
    /\ CASE pc \in {"default-erase", "save-erase", "set-erase"} ->
              words' \in {0, words} /\ UNCHANGED sector
         [] pc \in {"default-write", "save-write", "set-write"} ->
              words' \in 0 .. Full /\ sector' = buffer
         [] OTHER -> UNCHANGED <<words, sector>>

FindImage ==
    \/ ReadConfig \/ DefaultErase \/ DefaultWrite
    \/ \E gpio_low \in BOOLEAN : SelectRom(gpio_low)
    \/ TryGood \/ TryBad \/ SaveErase \/ SaveWrite

Next ==
    \/ FindImage
    \/ OtaBegin \/ OtaDone \/ SaveUserData \/ SetErase \/ SetWrite
    \/ \E mode \in Modes, rom \in Roms, count \in Counts : SetConfig(mode, rom, count)
    \/ Restart
    \/ PowerFails

\* The boot loader runs as long as the power stays on.
Spec == Init /\ [][Next]_vars /\ WF_vars(FindImage)

-----------------------------------------------------------------------------
(* Types.  With a checksum romToBoot is an index of the config's roms      *)
(* throughout the search, if the config has any; without one a count that  *)
(* was never written takes it past them.                                   *)
TypeOK ==
    /\ chksum \in Builds /\ words \in 0 .. Full /\ sector \in Config /\ buffer \in Config
    /\ image \in [Roms -> BOOLEAN]
    /\ pc \in {"read", "default-erase", "default-write", "select", "try", "save-erase",
               "save-write", "app", "set-erase", "set-write", "failed"}
    /\ romToBoot \in -1 .. ErasedByte /\ gpio_boot \in BOOLEAN /\ updateConfig \in BOOLEAN
    /\ chksum /\ pc = "try" /\ buffer.count > 0 => romToBoot \in Roms
    /\ running \in Roms \cup {NoRom} /\ changed \in BOOLEAN
    /\ ota \in Roms \cup {NoRom} /\ cuts \in 0 .. MaxCuts

(* With a checksum on the config no power failure, in an update or in any  *)
(* rewrite of the sector, keeps the boot loader from finding a rom: it     *)
(* gives up only on a rom the gpio forced on it, or when the application   *)
(* took one of the two out of the count.                                   *)
NeverBricked == chksum /\ pc = "failed" => gpio_boot \/ buffer.count < 2

(* An update never overwrites the rom that is running, unless the gpio     *)
(* chose that rom: rboot_get_current_rom does not tell of it.              *)
RunningIsIntact == running # NoRom /\ ~gpio_boot => image[running]

(* readme-api.txt: rboot_get_current_rom returns "the currently running    *)
(* rom, as long as you haven't changed it since boot", after a boot that   *)
(* the gpio did not decide; whatever power failures left in the sector.    *)
CurrentIsRunning ==
    pc = "app" /\ ~changed /\ ~gpio_boot => rboot_get_current_rom = running

(* readme-api.txt: a rewrite of the config maintains "the contents of the  *)
(* rest of the sector": only a power failure loses them, whichever of the  *)
(* rewrites of both programs follow one another.                           *)
UserData ==
    \/ Read.user
    \/ pc \in {"default-write", "save-write", "set-write"} /\ buffer.user

UserDataKept == [][UserData /\ cuts' = cuts => UserData']_vars

(* find_image comes to an end: it starts a rom or gives up.  But for a     *)
(* config without roms: if the rom it tries first is bad it counts down    *)
(* from none for ever.                                                     *)
FindImageEnds ==
    pc = "read" ~> \/ pc \in {"app", "failed"}
                   \/ pc = "try" /\ buffer.count = 0 /\ romToBoot = -1
=============================================================================
