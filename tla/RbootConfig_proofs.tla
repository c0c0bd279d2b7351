------------------------- MODULE RbootConfig_proofs -------------------------
(* Proofs about RbootConfig, for any number of power failures, either      *)
(* build and whatever an erased byte reads as.                             *)
EXTENDS RbootConfig, TLAPS

Booting == {"select", "try"}
Saving  == {"save-erase", "save-write"}
Setting == {"set-erase", "set-write"}
AppPhase == {"app"} \cup Setting

\* From the config to the rom that is started.
Boot ==
    /\ pc = "select" => /\ buffer.current_rom = sector.current_rom
                        /\ buffer.mode = sector.mode
    /\ pc \in {"default-erase", "default-write", "select"} => ~gpio_boot /\ ~updateConfig
    /\ pc = "try" /\ gpio_boot => sector.mode = "MODE_GPIO_ROM" /\ ~updateConfig
    /\ pc = "try" /\ ~gpio_boot /\ ~updateConfig =>
          romToBoot = buffer.current_rom /\ romToBoot = sector.current_rom
    /\ pc \in Saving => /\ romToBoot \in Roms /\ image[romToBoot] /\ ~gpio_boot
                        /\ buffer.current_rom = romToBoot

\* From the rom that was started to the config it leaves.
Run ==
    /\ running # NoRom <=> pc \in AppPhase
    /\ pc \in AppPhase /\ ~gpio_boot => image[running]
    /\ pc = "app" /\ ~changed /\ ~gpio_boot => sector.current_rom = running
    /\ pc \in Setting /\ ~changed /\ ~gpio_boot => buffer.current_rom = running

Valid(c) == c.roms = Roms /\ c.count \in Counts /\ c.gpio_rom \in Roms

\* With the checksum a rom is always left: a config that is accepted has the
\* addresses of both, and the gpio can pass over its current rom only if that
\* is good.  Once the search left its current rom that one is bad.
Recoverable ==
    /\ \E r \in Roms : image[r]
    /\ words >= 5 => /\ Valid(sector)
                     /\ sector.mode = "MODE_GPIO_ROM" => image[sector.current_rom]
    /\ pc \in {"select", "try", "save-erase", "app", "set-erase"} => words >= 5
    /\ pc \in {"default-erase", "default-write"} => Valid(buffer) /\ buffer.mode = "MODE_STANDARD"
    /\ pc \in Booting \cup Saving \cup Setting => Valid(buffer)
    /\ pc = "try" /\ ~gpio_boot =>
          /\ buffer.count = 0 => buffer.current_rom = 0 /\ romToBoot \in -1 .. 0
          /\ buffer.count = 1 => buffer.current_rom = 0 /\ romToBoot = 0
          /\ romToBoot # buffer.current_rom => ~image[buffer.current_rom]
    /\ pc = "app" => image[sector.current_rom]
    /\ pc \in Setting => image[buffer.current_rom]

IInv == TypeOK /\ Boot /\ Run /\ (chksum => Recoverable) /\ NeverBricked

-----------------------------------------------------------------------------
(* What is read has the type of a config; its first word is there as soon  *)
(* as it is accepted, all of its fields once the checksum is.              *)
LEMMA ReadIsConfig ==
    ASSUME TypeOK
    PROVE  /\ Read \in Config
           /\ Read.mode = sector.mode /\ Read.current_rom = sector.current_rom
           /\ words >= 5 => /\ Read.roms = sector.roms /\ Read.count = sector.count
                            /\ Read.gpio_rom = sector.gpio_rom
  <1>1. sector \in Config /\ words \in 0 .. Full
    BY DEF TypeOK
  <1>2. Read \in Config /\ Read.mode = sector.mode /\ Read.current_rom = sector.current_rom
    BY <1>1 DEF Read, Config
  <1>3. ASSUME words >= 5
        PROVE  /\ Read.roms = sector.roms /\ Read.count = sector.count
               /\ Read.gpio_rom = sector.gpio_rom
    <2>1. \A r \in Roms : words >= r + 3
      BY <1>1, <1>3 DEF Roms
    <2>2. Read.roms = sector.roms
      BY <1>1, <2>1 DEF Read, Config
    <2>3. Read.count = sector.count /\ Read.gpio_rom = sector.gpio_rom
      BY <1>1, <1>3 DEF Read, Config
    <2>4. QED BY <2>2, <2>3
  <1>4. QED BY <1>2, <1>3

LEMMA DefaultIsConfig ==
    ASSUME NEW user \in BOOLEAN
    PROVE  /\ DefaultConfig(user) \in Config /\ Valid(DefaultConfig(user))
           /\ DefaultConfig(user).mode = "MODE_STANDARD"
           /\ DefaultConfig(user).current_rom = 0
  BY DEF DefaultConfig, Config, Valid, Roms, Counts

LEMMA InitHolds == Init => IInv
  <1> SUFFICES ASSUME Init PROVE IInv
    OBVIOUS
  <1>1. /\ sector \in Config /\ Valid(sector) /\ sector.mode = "MODE_STANDARD"
        /\ buffer = sector
    BY DefaultIsConfig DEF Init
  <1>2. TypeOK
    <2>1. 0 \in 0 .. Full /\ 0 \in -1 .. ErasedByte /\ 0 \in 0 .. MaxCuts
      BY ConfigAssumption DEF Full
    <2>2. QED BY <1>1, <2>1 DEF Init, TypeOK
  <1>3. Boot /\ Run /\ NeverBricked
    BY DEF Init, Boot, Run, NeverBricked, Saving, Setting, AppPhase
  <1>4. Recoverable
    BY <1>1 DEF Init, Recoverable, Saving, Setting, Booting
  <1>5. QED BY <1>2, <1>3, <1>4 DEF IInv

-----------------------------------------------------------------------------
(* The boot loader                                                         *)

LEMMA ReadKeeps == ASSUME IInv, ReadConfig PROVE IInv'
  <1> USE DEF flash, app
  <1>1. /\ pc = "read" /\ running = NoRom /\ UNCHANGED <<flash, app, cuts>>
        /\ gpio_boot' = FALSE /\ updateConfig' = FALSE /\ romToBoot' = 0
    BY DEF ReadConfig, IInv, Run, AppPhase, Setting
  <1>2. TypeOK /\ Read \in Config /\ Read.mode = sector.mode
        /\ Read.current_rom = sector.current_rom
        /\ (words >= 5 => /\ Read.roms = sector.roms /\ Read.count = sector.count
                          /\ Read.gpio_rom = sector.gpio_rom)
    BY ReadIsConfig DEF IInv
  <1>3. 0 \in -1 .. ErasedByte
    BY ConfigAssumption
  <1>4. CASE ConfigAccepted /\ buffer' = Read /\ pc' = "select"
    <2>1. TypeOK'
      BY <1>1, <1>2, <1>3, <1>4 DEF TypeOK
    <2>2. Boot' /\ Run' /\ NeverBricked'
      BY <1>1, <1>2, <1>4 DEF IInv, Boot, Run, NeverBricked, Saving, Setting, AppPhase
    <2>3. ASSUME chksum PROVE Recoverable'
      <3>1. words >= 5 /\ Valid(Read)
        BY <1>2, <1>4, <2>3 DEF ConfigAccepted, IInv, Recoverable, Valid
      <3>2. QED BY <1>1, <1>4, <2>3, <3>1 DEF IInv, Recoverable, Booting, Saving, Setting, Valid
    <2>4. QED BY <1>1, <2>1, <2>2, <2>3 DEF IInv
  <1>5. CASE buffer' = DefaultConfig(Read.user) /\ pc' = "default-erase"
    <2>1. Read.user \in BOOLEAN
      BY <1>2 DEF Config
    <2>2. buffer' \in Config /\ Valid(buffer') /\ buffer'.mode = "MODE_STANDARD"
      BY <1>5, <2>1, DefaultIsConfig
    <2>3. TypeOK'
      BY <1>1, <1>2, <1>3, <1>5, <2>2 DEF TypeOK
    <2>4. Boot' /\ Run' /\ NeverBricked'
      BY <1>1, <1>5 DEF IInv, Boot, Run, NeverBricked, Saving, Setting, AppPhase
    <2>5. ASSUME chksum PROVE Recoverable'
      BY <1>1, <1>5, <2>2, <2>5 DEF IInv, Recoverable, Booting, Saving, Setting, Valid
    <2>6. QED BY <1>1, <2>3, <2>4, <2>5 DEF IInv
  <1>6. QED BY <1>4, <1>5 DEF ReadConfig

(* An erase leaves all but the words as they are.                          *)
LEMMA EraseKeeps ==
    ASSUME IInv, DefaultErase \/ SaveErase \/ SetErase
    PROVE  IInv'
  <1> USE DEF locals, app
  <1>1. /\ words' = 0 /\ UNCHANGED <<chksum, sector, image, buffer, locals, app, cuts>>
        /\ \/ pc = "default-erase" /\ pc' = "default-write"
           \/ pc = "save-erase" /\ pc' = "save-write"
           \/ pc = "set-erase" /\ pc' = "set-write"
    BY DEF DefaultErase, SaveErase, SetErase, EraseThen
  <1>2. TypeOK'
    BY <1>1 DEF IInv, TypeOK, Full
  <1>3. Boot' /\ NeverBricked'
    BY <1>1 DEF IInv, Boot, NeverBricked, Saving
  <1>4. Run'
    BY <1>1 DEF IInv, Run, AppPhase, Setting
  <1>5. ASSUME chksum PROVE Recoverable'
    BY <1>1, <1>5 DEF IInv, Recoverable, Booting, Saving, Setting, Valid
  <1>6. QED BY <1>1, <1>2, <1>3, <1>4, <1>5 DEF IInv

(* A write that comes to its end leaves the buffer in the sector.          *)
LEMMA WriteKeeps ==
    ASSUME IInv, DefaultWrite \/ SaveWrite \/ SetWrite
    PROVE  IInv'
  <1> USE DEF locals, app
  <1>1. /\ words' = Full /\ sector' = buffer
        /\ UNCHANGED <<chksum, image, buffer, locals, changed, ota, cuts>>
        /\ \/ pc = "default-write" /\ pc' = "select" /\ UNCHANGED running
           \/ pc = "save-write" /\ pc' = "app" /\ running' = romToBoot
           \/ pc = "set-write" /\ pc' = "app" /\ UNCHANGED running
    BY DEF DefaultWrite, SaveWrite, SetWrite
  <1>2. Full >= 5 /\ Full \in 0 .. Full
    BY DEF Full
  <1>3. TypeOK'
    BY <1>1, <1>2 DEF IInv, TypeOK, Boot, Saving
  <1>4. CASE pc = "default-write"
    <2>1. Boot' /\ Run' /\ NeverBricked'
      BY <1>1, <1>4 DEF IInv, Boot, Run, NeverBricked, Saving, Setting, AppPhase
    <2>2. ASSUME chksum PROVE Recoverable'
      BY <1>1, <1>2, <1>4, <2>2 DEF IInv, Recoverable, Booting, Saving, Setting, Valid
    <2>3. QED BY <1>1, <1>3, <2>1, <2>2 DEF IInv
  <1>5. CASE pc = "save-write"
    <2>1. romToBoot # NoRom
      BY <1>5, ConfigAssumption DEF IInv, Boot, Saving, Roms
    <2>2. Boot' /\ Run' /\ NeverBricked'
      BY <1>1, <1>5, <2>1 DEF IInv, Boot, Run, NeverBricked, Saving, Setting, AppPhase
    <2>3. ASSUME chksum PROVE Recoverable'
      BY <1>1, <1>2, <1>5, <2>3 DEF IInv, Boot, Recoverable, Booting, Saving, Setting, Valid
    <2>4. QED BY <1>1, <1>3, <2>2, <2>3 DEF IInv
  <1>6. CASE pc = "set-write"
    <2>1. Boot' /\ Run' /\ NeverBricked'
      BY <1>1, <1>6 DEF IInv, Boot, Run, NeverBricked, Saving, Setting, AppPhase
    <2>2. ASSUME chksum PROVE Recoverable'
      BY <1>1, <1>2, <1>6, <2>2 DEF IInv, Recoverable, Booting, Saving, Setting, Valid
    <2>3. QED BY <1>1, <1>3, <2>1, <2>2 DEF IInv
  <1>7. QED BY <1>1, <1>4, <1>5, <1>6

LEMMA SelectKeeps ==
    ASSUME IInv, NEW gpio_low \in BOOLEAN, SelectRom(gpio_low)
    PROVE  IInv'
  <1> USE DEF flash, app
  <1>1. /\ pc = "select" /\ pc' = "try" /\ UNCHANGED <<flash, app, cuts>>
        /\ buffer \in Config /\ ~gpio_boot /\ ~updateConfig /\ TypeOK
        /\ buffer.current_rom = sector.current_rom /\ buffer.mode = sector.mode
    BY DEF SelectRom, IInv, TypeOK, Boot
  <1>2. /\ buffer.gpio_rom \in 0 .. ErasedByte /\ buffer.current_rom \in Roms
        /\ buffer.count \in Counts \cup {ErasedByte}
    BY <1>1, ConfigAssumption DEF Config, Roms
  <1>3. chksum => Valid(buffer)
    BY <1>1 DEF IInv, Recoverable, Booting
  <1>4. Run'
    BY <1>1 DEF IInv, Run, AppPhase, Setting
  <1>5. CASE buffer.mode = "MODE_GPIO_ROM" /\ gpio_low
    <2>1. romToBoot' = buffer.gpio_rom /\ gpio_boot' = TRUE /\ UNCHANGED <<buffer, updateConfig>>
      BY <1>5 DEF SelectRom
    <2>2. TypeOK'
      BY <1>1, <1>2, <1>3, <2>1 DEF TypeOK, Valid
    <2>3. Boot' /\ NeverBricked'
      BY <1>1, <1>5, <2>1 DEF Boot, NeverBricked, Saving
    <2>4. ASSUME chksum PROVE Recoverable'
      BY <1>1, <2>1, <2>4 DEF IInv, Recoverable, Booting, Saving, Setting, Valid
    <2>5. QED BY <1>1, <1>4, <2>2, <2>3, <2>4 DEF IInv
  <1>6. CASE /\ ~(buffer.mode = "MODE_GPIO_ROM" /\ gpio_low)
             /\ ~(buffer.current_rom >= buffer.count)
    <2>1. romToBoot' = buffer.current_rom /\ UNCHANGED <<buffer, gpio_boot, updateConfig>>
      BY <1>6 DEF SelectRom
    <2>2. romToBoot' \in -1 .. ErasedByte
      BY <1>2, <2>1, ConfigAssumption DEF Roms
    <2>3. TypeOK'
      BY <1>1, <1>2, <2>1, <2>2 DEF TypeOK
    <2>4. Boot' /\ NeverBricked'
      BY <1>1, <2>1 DEF Boot, NeverBricked, Saving
    <2>5. ASSUME chksum PROVE Recoverable'
      <3>1. buffer.count # 0 /\ (buffer.count = 1 => buffer.current_rom = 0)
        BY <1>2, <1>6 DEF Roms
      <3>2. QED
        BY <1>1, <1>2, <2>1, <2>5, <3>1 DEF IInv, Recoverable, Booting, Saving, Setting, Valid
    <2>6. QED BY <1>1, <1>4, <2>3, <2>4, <2>5 DEF IInv
  <1>7. CASE /\ ~(buffer.mode = "MODE_GPIO_ROM" /\ gpio_low)
             /\ buffer.current_rom >= buffer.count
    <2>1. /\ romToBoot' = 0 /\ buffer' = [buffer EXCEPT !.current_rom = 0]
          /\ updateConfig' = TRUE /\ UNCHANGED gpio_boot
      BY <1>7 DEF SelectRom
    <2>2. /\ buffer' \in Config /\ buffer'.current_rom = 0 /\ buffer'.count = buffer.count
          /\ buffer'.roms = buffer.roms /\ buffer'.gpio_rom = buffer.gpio_rom
          /\ buffer'.mode = buffer.mode
      BY <1>1, <2>1 DEF Config, Roms
    <2>3. 0 \in -1 .. ErasedByte /\ 0 \in Roms
      BY ConfigAssumption DEF Roms
    <2>4. TypeOK'
      BY <1>1, <2>1, <2>2, <2>3 DEF TypeOK
    <2>5. Boot' /\ NeverBricked'
      BY <1>1, <2>1 DEF Boot, NeverBricked, Saving
    <2>6. ASSUME chksum PROVE Recoverable'
      BY <1>1, <2>1, <2>2, <2>6 DEF IInv, Recoverable, Booting, Saving, Setting, Valid
    <2>7. QED BY <1>1, <1>4, <2>4, <2>5, <2>6 DEF IInv
  <1>8. QED BY <1>5, <1>6, <1>7

(* The rom that passes check_image is started, or saved first.             *)
LEMMA GoodKeeps == ASSUME IInv, TryGood PROVE IInv'
  <1> USE DEF flash, locals
  <1>1. /\ pc = "try" /\ romToBoot \in buffer.roms /\ image[romToBoot]
        /\ UNCHANGED <<flash, locals, changed, ota, cuts>>
        /\ buffer \in Config /\ TypeOK
    BY DEF TryGood, check_image, IInv, TypeOK
  <1>2. romToBoot \in Roms /\ romToBoot # NoRom
    BY <1>1, ConfigAssumption DEF Config, Roms
  <1>3. CASE updateConfig
    <2>1. /\ buffer' = [buffer EXCEPT !.current_rom = romToBoot]
          /\ pc' = "save-erase" /\ UNCHANGED running
      BY <1>3 DEF TryGood, MustSave
    <2>2. /\ buffer' \in Config /\ buffer'.current_rom = romToBoot
          /\ buffer'.roms = buffer.roms /\ buffer'.count = buffer.count
          /\ buffer'.gpio_rom = buffer.gpio_rom
      BY <1>1, <1>2, <2>1 DEF Config
    <2>3. TypeOK'
      BY <1>1, <2>1, <2>2 DEF TypeOK
    <2>4. Boot' /\ Run' /\ NeverBricked'
      BY <1>1, <1>2, <1>3, <2>1, <2>2
         DEF IInv, Boot, Run, NeverBricked, Saving, Setting, AppPhase
    <2>5. ASSUME chksum PROVE Recoverable'
      BY <1>1, <2>1, <2>2, <2>5 DEF IInv, Recoverable, Booting, Saving, Setting, Valid
    <2>6. QED BY <1>1, <2>3, <2>4, <2>5 DEF IInv
  <1>4. CASE ~updateConfig
    <2>1. pc' = "app" /\ running' = romToBoot /\ UNCHANGED buffer
      BY <1>4 DEF TryGood, MustSave
    <2>2. TypeOK'
      BY <1>1, <1>2, <2>1 DEF TypeOK
    <2>3. Boot' /\ Run' /\ NeverBricked'
      BY <1>1, <1>2, <1>4, <2>1 DEF IInv, Boot, Run, NeverBricked, Saving, Setting, AppPhase
    <2>4. ASSUME chksum PROVE Recoverable'
      <3>1. image[sector.current_rom]
        BY <1>1, <1>4, <2>4 DEF IInv, Boot, Recoverable
      <3>2. QED BY <1>1, <2>1, <2>4, <3>1 DEF IInv, Recoverable, Booting, Saving, Setting, Valid
    <2>5. QED BY <1>1, <2>2, <2>3, <2>4 DEF IInv
  <1>5. QED BY <1>3, <1>4

(* With both roms in the config and one of them good, the search finds it  *)
(* before it is back where it started; with one it is back at once, with   *)
(* none never.                                                             *)
LEMMA BadKeeps == ASSUME IInv, TryBad PROVE IInv'
  <1> USE DEF flash, app
  <1>1. /\ pc = "try" /\ ~check_image(romToBoot)
        /\ UNCHANGED <<flash, buffer, gpio_boot, app, cuts>>
        /\ buffer \in Config /\ TypeOK
    BY DEF TryBad, IInv, TypeOK
  <1>2. CASE gpio_boot
    <2>1. pc' = "failed" /\ UNCHANGED <<romToBoot, updateConfig>>
      BY <1>2 DEF TryBad
    <2>2. TypeOK'
      BY <1>1, <2>1 DEF TypeOK
    <2>3. Boot' /\ Run' /\ NeverBricked'
      BY <1>1, <1>2, <2>1 DEF IInv, Boot, Run, NeverBricked, Saving, Setting, AppPhase
    <2>4. ASSUME chksum PROVE Recoverable'
      BY <1>1, <2>1, <2>4 DEF IInv, Recoverable, Booting, Saving, Setting, Valid
    <2>5. QED BY <1>1, <2>2, <2>3, <2>4 DEF IInv
  <1>3. CASE ~gpio_boot
    <2>1. /\ romToBoot' = Previous(romToBoot) /\ updateConfig' = TRUE
          /\ pc' = IF romToBoot' = buffer.current_rom THEN "failed" ELSE "try"
      BY <1>3 DEF TryBad
    <2>2. romToBoot' \in -1 .. ErasedByte
      BY <1>1, <2>1, ConfigAssumption DEF TypeOK, Previous, Config, Counts
    <2>3. Boot' /\ Run'
      BY <1>1, <1>3, <2>1 DEF IInv, Boot, Run, Saving, Setting, AppPhase
    <2>4. ASSUME chksum
          PROVE  /\ Valid(buffer) /\ ~image[buffer.current_rom] /\ buffer.current_rom \in Roms
                 /\ buffer.count = 0 => buffer.current_rom = 0 /\ romToBoot' = -1
                 /\ buffer.count = 1 => buffer.current_rom = 0 /\ romToBoot' = 0
                 /\ buffer.count = 2 => romToBoot' \in Roms /\ pc' = "try"
      <3>1. /\ Valid(buffer) /\ (romToBoot \in Roms => ~image[romToBoot])
            /\ buffer.count > 0 => romToBoot \in Roms
            /\ buffer.count = 0 => buffer.current_rom = 0 /\ romToBoot \in -1 .. 0
            /\ buffer.count = 1 => buffer.current_rom = 0 /\ romToBoot = 0
            /\ romToBoot # buffer.current_rom => ~image[buffer.current_rom]
            /\ \E r \in Roms : image[r]
            /\ buffer.current_rom \in Roms
        BY <1>1, <1>3, <2>4 DEF IInv, TypeOK, Recoverable, check_image, Valid, Config, Booting
      <3>2. buffer.count \in 0 .. 2
        BY <3>1 DEF Valid, Counts
      <3>3. ~image[buffer.current_rom]
        BY <3>1
      <3>4. buffer.count = 0 => romToBoot' = -1
        BY <2>1, <3>1 DEF Previous
      <3>5. buffer.count = 1 => romToBoot' = 0
        BY <2>1, <3>1 DEF Previous
      <3>6. ASSUME buffer.count = 2 PROVE romToBoot' \in Roms /\ pc' = "try"
        <4>1. romToBoot \in Roms /\ ~image[romToBoot]
          BY <3>1, <3>6
        <4>2. romToBoot' = 1 - romToBoot /\ romToBoot' \in Roms
          BY <2>1, <3>6, <4>1 DEF Previous, Roms
        <4>3. romToBoot = buffer.current_rom
          <5>1. SUFFICES ASSUME romToBoot # buffer.current_rom
                         PROVE  FALSE
            OBVIOUS
          <5>2. \A r \in Roms : r = romToBoot \/ r = buffer.current_rom
            BY <3>1, <4>1, <5>1 DEF Roms
          <5>3. QED BY <3>1, <3>3, <4>1, <5>2
        <4>4. romToBoot' # buffer.current_rom
          BY <4>1, <4>2, <4>3 DEF Roms
        <4>5. QED BY <2>1, <4>2, <4>4
      <3>7. QED BY <3>1, <3>3, <3>4, <3>5, <3>6
    <2>5. chksum /\ buffer.count > 0 => romToBoot' \in Roms
      BY <2>4 DEF Valid, Counts, Roms
    <2>6. TypeOK'
      BY <1>1, <2>1, <2>2, <2>5 DEF TypeOK
    <2>7. NeverBricked'
      BY <1>1, <2>1, <2>4 DEF NeverBricked, Valid, Counts
    <2>8. ASSUME chksum PROVE Recoverable'
      BY <1>1, <1>3, <2>1, <2>4, <2>8 DEF IInv, Recoverable, Booting, Saving, Setting, Valid
    <2>9. QED BY <1>1, <2>3, <2>6, <2>7, <2>8 DEF IInv
  <1>4. QED BY <1>2, <1>3

-----------------------------------------------------------------------------
(* The application and the loss of power                                   *)

(* The slot an update begins to overwrite is not the current rom, which    *)
(* is the running one after a normal boot.                                 *)
LEMMA OtaBeginKeeps == ASSUME IInv, OtaBegin PROVE IInv'
  <1>1. /\ pc = "app" /\ ~changed /\ TypeOK
        /\ ota' = 1 - sector.current_rom /\ image' = [image EXCEPT ![ota'] = FALSE]
        /\ UNCHANGED <<chksum, words, sector, buffer, pc, locals, running, changed, cuts>>
    BY ReadIsConfig DEF OtaBegin, IInv, rboot_get_current_rom
  <1> USE DEF locals
  <1>2. sector.current_rom \in Roms /\ ota' \in Roms /\ ota' # sector.current_rom
    BY <1>1 DEF TypeOK, Config, Roms
  <1>3. image' \in [Roms -> BOOLEAN] /\ image'[sector.current_rom] = image[sector.current_rom]
    BY <1>1, <1>2 DEF TypeOK
  <1>4. TypeOK'
    BY <1>1, <1>2, <1>3 DEF TypeOK
  <1>5. Boot' /\ Run' /\ NeverBricked'
    BY <1>1, <1>3 DEF IInv, Boot, Run, NeverBricked, Saving, Setting, AppPhase
  <1>6. ASSUME chksum PROVE Recoverable'
    BY <1>1, <1>2, <1>3, <1>6 DEF IInv, Recoverable, Booting, Saving, Setting, Valid
  <1>7. QED BY <1>1, <1>4, <1>5, <1>6 DEF IInv

(* A config that rboot_set_config is called with is whole if the sector is *)
(* and its current rom is good.                                            *)
LEMMA SetKeeps ==
    ASSUME IInv, pc = "app", buffer' \in Config, pc' = "set-erase",
           image' \in [Roms -> BOOLEAN], \A r \in Roms : image[r] => image'[r],
           changed' \in BOOLEAN, ota' \in Roms \cup {NoRom},
           UNCHANGED <<chksum, words, sector, locals, running, cuts>>,
           buffer'.roms = Read.roms, Valid(Read) => Valid(buffer'),
           \/ buffer'.current_rom = sector.current_rom /\ UNCHANGED changed
           \/ image'[buffer'.current_rom] /\ changed'
    PROVE  IInv'
  <1> USE DEF locals
  <1>1. TypeOK'
    BY DEF IInv, TypeOK
  <1>2. running # NoRom => running \in Roms
    BY DEF IInv, TypeOK
  <1>3. Boot' /\ Run' /\ NeverBricked'
    BY <1>2 DEF IInv, Boot, Run, NeverBricked, Saving, Setting, AppPhase
  <1>4. ASSUME chksum PROVE Recoverable'
    <2>1. /\ words >= 5 /\ Valid(sector) /\ sector \in Config
          /\ image[sector.current_rom] /\ sector.current_rom \in Roms
      BY <1>4 DEF IInv, Recoverable, TypeOK, Config
    <2>2. Valid(buffer')
      BY <2>1, ReadIsConfig DEF IInv, Valid
    <2>3. image'[sector.current_rom] /\ image'[buffer'.current_rom]
      BY <2>1
    <2>4. QED BY <1>4, <2>1, <2>2, <2>3 DEF Recoverable, Booting, Saving, Setting, Valid
  <1>5. QED BY <1>1, <1>3, <1>4 DEF IInv

LEMMA OtaDoneKeeps == ASSUME IInv, OtaDone PROVE IInv'
  <1>1. /\ pc = "app" /\ ota \in Roms /\ TypeOK /\ ota' = NoRom
        /\ image' = [image EXCEPT ![ota] = TRUE] /\ rboot_set_current_rom(ota)
        /\ UNCHANGED <<chksum, words, sector, locals, running, cuts>>
    BY DEF OtaDone, IInv, TypeOK
  <1>2. /\ image' \in [Roms -> BOOLEAN] /\ image'[ota]
        /\ \A r \in Roms : image[r] => image'[r]
    BY <1>1 DEF TypeOK
  <1>3. Read \in Config
    BY <1>1, ReadIsConfig
  <1>4. CASE buffer' = [Read EXCEPT !.current_rom = ota] /\ pc' = "set-erase" /\ changed' = TRUE
    <2>1. /\ buffer' \in Config /\ buffer'.current_rom = ota
          /\ buffer'.roms = Read.roms /\ (Valid(Read) => Valid(buffer'))
      BY <1>1, <1>3, <1>4 DEF Config, Valid
    <2>2. QED BY <1>1, <1>2, <1>4, <2>1, SetKeeps
  <1>5. CASE UNCHANGED <<buffer, pc, changed>>
    <2>1. TypeOK'
      BY <1>1, <1>2, <1>5 DEF TypeOK, locals
    <2>2. running \in Roms
      BY <1>1 DEF IInv, Run, TypeOK, AppPhase
    <2>3. Boot' /\ Run' /\ NeverBricked'
      BY <1>1, <1>2, <1>5, <2>2
         DEF IInv, Boot, Run, NeverBricked, Saving, Setting, AppPhase, locals
    <2>4. ASSUME chksum PROVE Recoverable'
      <3>1. sector.current_rom \in Roms
        BY <1>1 DEF TypeOK, Config
      <3>2. QED
        BY <1>1, <1>2, <1>5, <2>4, <3>1
           DEF IInv, Recoverable, Booting, Saving, Setting, Valid, locals
    <2>5. QED BY <1>1, <2>1, <2>3, <2>4 DEF IInv
  <1>6. QED BY <1>1, <1>4, <1>5 DEF rboot_set_current_rom, SetConfigFrom

LEMMA SettingsKeep ==
    ASSUME IInv,
           \/ SaveUserData
           \/ \E mode \in Modes, rom \in Roms, count \in Counts : SetConfig(mode, rom, count)
    PROVE  IInv'
  <1>1. Read \in Config /\ Read.current_rom = sector.current_rom /\ TypeOK
    BY ReadIsConfig DEF IInv
  <1>2. /\ pc = "app" /\ pc' = "set-erase" /\ UNCHANGED <<flash, locals, app, cuts>>
        /\ \/ buffer' = [Read EXCEPT !.user = TRUE]
           \/ \E mode \in Modes, rom \in Roms, count \in Counts :
                buffer' = [Read EXCEPT !.mode = mode, !.gpio_rom = rom, !.count = count]
    BY DEF SaveUserData, SetConfig, SetConfigFrom
  <1>3. /\ buffer' \in Config /\ buffer'.current_rom = sector.current_rom
        /\ buffer'.roms = Read.roms /\ (Valid(Read) => Valid(buffer'))
    <2>1. CASE buffer' = [Read EXCEPT !.user = TRUE]
      BY <1>1, <2>1 DEF Config, Valid
    <2>2. ASSUME NEW mode \in Modes, NEW rom \in Roms, NEW count \in Counts,
                 buffer' = [Read EXCEPT !.mode = mode, !.gpio_rom = rom, !.count = count]
          PROVE  /\ buffer' \in Config /\ buffer'.current_rom = sector.current_rom
                 /\ buffer'.roms = Read.roms /\ (Valid(Read) => Valid(buffer'))
      <3>1. mode \in {"MODE_STANDARD", "MODE_GPIO_ROM"}
        BY ConfigAssumption
      <3>2. QED BY <1>1, <2>2, <3>1 DEF Config, Valid
    <2>3. QED BY <1>2, <2>1, <2>2
  <1>4. QED BY <1>1, <1>2, <1>3, SetKeeps DEF flash, app, TypeOK

(* A restart, or a loss of power between or inside erase and write: what   *)
(* the sector then holds is a config that was, or was to be, in force.     *)
LEMMA RestartKeeps == ASSUME IInv, Restart \/ PowerFails PROVE IInv'
  <1> USE DEF locals
  <1>1. /\ pc' = "read" /\ running' = NoRom /\ changed' = FALSE /\ ota' = NoRom
        /\ UNCHANGED <<chksum, image, buffer, locals>> /\ TypeOK
    BY DEF Restart, PowerFails, Reset, IInv
  <1>2. cuts' \in 0 .. MaxCuts
    BY ConfigAssumption DEF Restart, PowerFails, IInv, TypeOK
  <1>3. /\ words' \in 0 .. Full
        /\ \/ sector' = sector /\ words' \in {0, words}
           \/ sector' = buffer /\ pc \in {"default-write", "save-write", "set-write"}
    BY <1>1 DEF Restart, PowerFails, TypeOK, Full
  <1>4. TypeOK'
    BY <1>1, <1>2, <1>3 DEF TypeOK
  <1>5. Boot' /\ Run' /\ NeverBricked'
    BY <1>1 DEF Boot, Run, NeverBricked, Saving, Setting, AppPhase
  <1>6. ASSUME chksum PROVE Recoverable'
    <2>1. CASE sector' = sector /\ words' \in {0, words}
      BY <1>1, <1>6, <2>1 DEF IInv, Recoverable, Booting, Saving, Setting, Valid
    <2>2. CASE sector' = buffer /\ pc \in {"default-write", "save-write", "set-write"}
      BY <1>1, <1>6, <2>2 DEF IInv, Boot, Recoverable, Booting, Saving, Setting, Valid
    <2>3. QED BY <1>3, <2>1, <2>2
  <1>7. QED BY <1>1, <1>4, <1>5, <1>6 DEF IInv

LEMMA StepKeeps == IInv /\ [Next]_vars => IInv'
  <1> SUFFICES ASSUME IInv, [Next]_vars PROVE IInv'
    OBVIOUS
  <1>1. CASE UNCHANGED vars
    BY <1>1 DEF vars, flash, locals, app, IInv, TypeOK, Boot, Run, Recoverable, NeverBricked
  <1>2. CASE FindImage
    BY <1>2, ReadKeeps, EraseKeeps, WriteKeeps, SelectKeeps, GoodKeeps, BadKeeps DEF FindImage
  <1>3. CASE Next /\ ~FindImage
    BY <1>3, OtaBeginKeeps, OtaDoneKeeps, SettingsKeep, EraseKeeps, WriteKeeps, RestartKeeps
       DEF Next
  <1>4. QED BY <1>1, <1>2, <1>3

LEMMA Inductive == Spec => []IInv
  BY InitHolds, StepKeeps, PTL DEF Spec

-----------------------------------------------------------------------------
(* However often the power fails, and wherever, a build with the checksum  *)
(* finds a rom to start, unless the gpio insists on one that is bad or the *)
(* application's count leaves one out.                                     *)
THEOREM BootLoaderRecovers == Spec => []TypeOK /\ []NeverBricked
  <1>1. IInv => TypeOK /\ NeverBricked
    BY DEF IInv
  <1>2. QED BY <1>1, Inductive, PTL

(* Without the checksum too, the rom that runs after a normal boot is the  *)
(* current one and an update leaves it alone.                              *)
THEOREM UpdatesSpareTheRunningRom == Spec => []RunningIsIntact /\ []CurrentIsRunning
  <1>1. IInv => RunningIsIntact /\ CurrentIsRunning
    <2> SUFFICES ASSUME IInv PROVE RunningIsIntact /\ CurrentIsRunning
      OBVIOUS
    <2>1. Read.current_rom = sector.current_rom
      BY ReadIsConfig DEF IInv
    <2>2. QED
      BY <2>1 DEF IInv, Run, RunningIsIntact, CurrentIsRunning, rboot_get_current_rom, AppPhase
  <1>2. QED BY <1>1, Inductive, PTL

(* rboot_get_current_rom names the running rom, as readme-api.txt says,    *)
(* but after a gpio boot.                                                  *)
THEOREM CurrentRomRuns == Spec => []CurrentIsRunning
  BY UpdatesSpareTheRunningRom, PTL

-----------------------------------------------------------------------------
(* The rest of the sector                                                  *)

(* User data that is in the sector is in the buffer too, from when the     *)
(* sector was read until it is written again.                              *)
UInv == pc \notin {"read", "app", "failed"} => (Read.user => buffer.user)

(* In the boot loader and between the steps of a rewrite the buffer keeps  *)
(* what the sector held.                                                   *)
LEMMA RewritesKeepUserData ==
    ASSUME TypeOK, UInv, Next, cuts' = cuts
    PROVE  UInv' /\ (UserData => UserData')
  <1>1. /\ Read.user <=> sector.user /\ words = Full
        /\ Read'.user <=> sector'.user /\ words' = Full
    BY DEF Read
  <1>2. buffer \in Config /\ Read \in Config
    BY ReadIsConfig DEF TypeOK
  <1>3. CASE ReadConfig
    <2>1. /\ pc = "read" /\ UNCHANGED <<words, sector>>
          /\ \/ buffer' = Read /\ pc' = "select"
             \/ buffer' = DefaultConfig(Read.user) /\ pc' = "default-erase"
      BY <1>3 DEF ReadConfig, flash
    <2>2. buffer'.user = Read.user
      BY <2>1 DEF DefaultConfig
    <2>3. QED BY <1>1, <2>1, <2>2 DEF UInv, UserData
  <1>4. CASE DefaultErase \/ SaveErase \/ SetErase
    <2>1. /\ words' = 0 /\ UNCHANGED <<sector, buffer>>
          /\ pc' \in {"default-write", "save-write", "set-write"}
          /\ pc \in {"default-erase", "save-erase", "set-erase"}
      BY <1>4 DEF DefaultErase, SaveErase, SetErase, EraseThen
    <2>2. QED BY <1>1, <2>1 DEF UInv, UserData, Full
  <1>5. CASE DefaultWrite \/ SaveWrite \/ SetWrite
    <2>1. /\ words' = Full /\ sector' = buffer /\ UNCHANGED buffer
          /\ pc \in {"default-write", "save-write", "set-write"}
          /\ pc' \in {"select", "app"}
      BY <1>5 DEF DefaultWrite, SaveWrite, SetWrite
    <2>2. QED BY <1>1, <2>1 DEF UInv, UserData
  <1>6. CASE (\E gpio_low \in BOOLEAN : SelectRom(gpio_low)) \/ TryGood \/ TryBad
    <2>1. /\ UNCHANGED <<words, sector>>
          /\ pc \in {"select", "try"} /\ pc' \in {"try", "save-erase", "app", "failed"}
      BY <1>6 DEF SelectRom, TryGood, TryBad, flash
    <2>2. \/ UNCHANGED buffer
          \/ \E r : buffer' = [buffer EXCEPT !.current_rom = r]
      BY <1>6 DEF SelectRom, TryGood, TryBad
    <2>3. buffer'.user = buffer.user
      BY <1>2, <2>2 DEF Config
    <2>4. QED BY <1>1, <2>1, <2>3 DEF UInv, UserData
  <1>7. CASE OtaDone
    <2>1. /\ pc = "app" /\ UNCHANGED <<words, sector>>
          /\ \/ UNCHANGED <<buffer, pc>>
             \/ buffer' = [Read EXCEPT !.current_rom = ota] /\ pc' = "set-erase"
      BY <1>7 DEF OtaDone, rboot_set_current_rom, SetConfigFrom
    <2>2. pc' = pc \/ buffer'.user = Read.user
      BY <1>2, <2>1 DEF Config
    <2>3. QED BY <1>1, <2>1, <2>2 DEF UInv, UserData
  <1>8. CASE \/ \E mode \in Modes, rom \in Roms, count \in Counts : SetConfig(mode, rom, count)
             \/ SaveUserData
    <2>1. /\ pc = "app" /\ UNCHANGED <<words, sector>> /\ pc' = "set-erase"
      BY <1>8 DEF SetConfig, SaveUserData, SetConfigFrom, flash
    <2>2. Read.user => buffer'.user
      <3>1. CASE SaveUserData
        <4>1. buffer' = [Read EXCEPT !.user = TRUE]
          BY <3>1 DEF SaveUserData, SetConfigFrom
        <4>2. QED BY <1>2, <4>1 DEF Config
      <3>2. ASSUME NEW mode \in Modes, NEW rom \in Roms, NEW count \in Counts,
                   SetConfig(mode, rom, count)
            PROVE  buffer'.user = Read.user
        <4>1. buffer' = [Read EXCEPT !.mode = mode, !.gpio_rom = rom, !.count = count]
          BY <3>2 DEF SetConfig, SetConfigFrom
        <4>2. QED BY <1>2, <4>1 DEF Config
      <3>3. QED BY <1>8, <3>1, <3>2
    <2>3. QED BY <1>1, <2>1, <2>2 DEF UInv, UserData
  <1>9. CASE OtaBegin \/ Restart
    <2>1. /\ pc = "app" /\ UNCHANGED <<words, sector>> /\ pc' \in {"app", "read"}
      BY <1>9 DEF OtaBegin, Restart, Reset
    <2>2. QED BY <1>1, <2>1 DEF UInv, UserData
  <1>10. CASE PowerFails
    <2>1. cuts' = cuts + 1 /\ cuts \in Int
      BY <1>10 DEF PowerFails, TypeOK
    <2>2. QED BY <2>1
  <1>11. QED BY <1>3, <1>4, <1>5, <1>6, <1>7, <1>8, <1>9, <1>10 DEF Next, FindImage

LEMMA CutsLeaveNothingPending == ASSUME TypeOK, Next, cuts' # cuts PROVE UInv'
  <1>1. PowerFails
    BY DEF Next, FindImage, ReadConfig, DefaultErase, DefaultWrite, SelectRom, TryGood, TryBad,
           SaveErase, SaveWrite, SetErase, SetWrite, EraseThen, OtaBegin, OtaDone, SaveUserData,
           SetConfig, Restart
  <1>2. QED BY <1>1 DEF PowerFails, Reset, UInv

(* readme-api.txt: whatever rewrites of the config sector follow one       *)
(* another, those of the boot loader and those of the application, only a  *)
(* power failure loses the rest of the sector.                             *)
THEOREM RewritesSpareTheUserData == Spec => UserDataKept
  <1>1. Init => UInv
    BY DEF Init, UInv
  <1>2. TypeOK /\ UInv /\ [Next]_vars => UInv'
    <2>1. SUFFICES ASSUME TypeOK, UInv, [Next]_vars PROVE UInv'
      OBVIOUS
    <2>2. CASE Next
      BY <2>1, <2>2, RewritesKeepUserData, CutsLeaveNothingPending
    <2>3. CASE UNCHANGED vars
      BY <2>1, <2>3 DEF vars, flash, UInv, Read
    <2>4. QED BY <2>1, <2>2, <2>3
  <1>3. TypeOK /\ UInv /\ [Next]_vars => [UserData /\ cuts' = cuts => UserData']_vars
    BY RewritesKeepUserData
  <1>4. Spec => []TypeOK
    BY Inductive, PTL DEF IInv
  <1>5. QED BY <1>1, <1>2, <1>3, <1>4, PTL DEF Spec, UserDataKept

(* Types.  With the checksum what find_image tries (rboot.c, 297-315) is   *)
(* always one of the config's two roms, however far a rewrite had got when *)
(* the power failed and whatever count the application configured, but     *)
(* none.                                                                   *)
THEOREM RomsAreInTheConfig == Spec => []TypeOK
  BY Inductive, PTL DEF IInv
=============================================================================
