------------------------------- MODULE Upgrade -------------------------------
(***************************************************************************)
(* The end of board_init_r in uboot/lib_mips/board.c: the button and the    *)
(* menu choose what to do, an image is downloaded, burned into the SPI      *)
(* flash and started, and the board resets.  The power may fail at any      *)
(* moment.                                                                  *)
(*                                                                          *)
(* The flash is made of units: the boot loader's, one of environment, one   *)
(* of factory settings, and the area of the firmware.  A firmware image is  *)
(* a kernel with its header, which bootm checks, and a root file system     *)
(* behind it, which it does not.  Tftp, Kermit and SpiFlash are the details *)
(* of the downloads and of the burning; WifiConfig is option c, EnvStore    *)
(* what saveenv does to the environment's sector.                           *)
(***************************************************************************)
EXTENDS Integers

CONSTANTS
  LoaderUnits, \* CFG_BOOTLOADER_SIZE, 0x30000
  AreaUnits,   \* the chip without boot loader, environment and factory settings
  UsbLimit,    \* 0xfb0000 + flash_base
  Loaders,     \* boot loader files: records with kind, ver, size
  Firmwares,   \* firmware files: records with kind, ver, size, kernel
  Shipped,     \* what the board leaves the factory with: a loader and a firmware
  HoldTimes,   \* bound: for how many seconds the button may be held
  MfgMac,      \* the factory settings hold the address of a board in manufacture
  MaxRuns,     \* bound: menu choices other than to start the system
  MaxFaults    \* bound: calls of raspi_erase_write and saveenv that fail

FlashUnits == LoaderUnits + 2 + AreaUnits
KernBase == LoaderUnits + 2
EnvUnit == LoaderUnits
FactoryUnit == LoaderUnits + 1
Files == Loaders \union Firmwares
NoFile == [kind |-> "none", ver |-> 0, size |-> 0]
NotHeld == -1
Lost == -1

ASSUME UpgradeAssumption ==
  /\ LoaderUnits \in Nat \ {0} /\ AreaUnits \in Nat \ {0} /\ UsbLimit \in Nat
  /\ HoldTimes \subseteq Nat
  /\ MfgMac \in BOOLEAN /\ MaxRuns \in Nat /\ MaxFaults \in Nat
  /\ \A f \in Loaders : f.kind = "ldr" /\ f.ver \in Nat /\ f.size \in Nat \ {0}
  /\ \A f \in Firmwares : /\ f.kind = "fw" /\ f.ver \in Nat /\ f.size \in Nat
                          /\ f.kernel \in 1..f.size
  /\ Shipped.loader \in Loaders /\ Shipped.loader.size <= LoaderUnits
  /\ Shipped.fw \in Firmwares /\ Shipped.fw.size <= AreaUnits

VARIABLES
  flash,    \* what every unit holds
  pc,       \* where board_init_r is: see UTypeOK
  boot,     \* BootType
  held,     \* timer1: the seconds the button was held, or NotHeld
  file,     \* the file that was asked for
  size,     \* NetBootFileXferSize
  sound,    \* up to where memory has what the file has
  at,       \* the unit raspi_erase_write is at
  runs, faults,
  good,     \* history: what upgrades and saves that went well have put into the flash
  aborted   \* history: the user stopped the download

bootVars == <<boot, held, file, size, sound, aborted>>
upgradeVars == <<flash, pc, bootVars, at, runs, faults, good>>

\* What a unit may hold: part of a file, the environment as it was saved in the
\* run v, the factory settings, nothing, or what belongs nowhere.
Cells == {"ldr", "fw", "env", "factory", "blank", "junk"} \X Nat \X Nat
Piece(f, i) == <<f.kind, f.ver, i>>
Env(v) == <<"env", v, 0>>
Factory == <<"factory", 0, 0>>
Blank == <<"blank", 0, 0>>
Junk == <<"junk", 0, 0>>

ToLoader == {"7", "9", "b"}
ToKernel == {"0", "2", "5"}
ToRam == {"1", "m", "8"}
Options == ToLoader \union ToKernel \union ToRam \union {"3", "4", "c"}

\* The units from base on hold the first n units of the file.
Holds(base, f, n) == \A i \in 0..n - 1 : flash[base + i] = Piece(f, i)
LoaderWhole(f) == f.size <= LoaderUnits /\ Holds(0, f, f.size)
FirmwareWhole(f) == f.size <= AreaUnits /\ Holds(KernBase, f, f.size)

UInit ==
  /\ flash = [u \in 0..FlashUnits - 1 |->
                IF u < Shipped.loader.size THEN Piece(Shipped.loader, u)
                ELSE IF u = EnvUnit THEN Env(0)
                ELSE IF u = FactoryUnit THEN Factory
                ELSE IF u \in KernBase..KernBase + Shipped.fw.size - 1
                  THEN Piece(Shipped.fw, u - KernBase) ELSE Blank]
  /\ pc = "reset" /\ boot = "3" /\ held = NotHeld
  /\ file = NoFile /\ size = 0 /\ sound = 0 /\ at = 0
  /\ runs = 0 /\ faults = 0 /\ aborted = FALSE
  /\ good = [loader |-> Shipped.loader, fw |-> Shipped.fw, env |-> 0, factory |-> TRUE]

-----------------------------------------------------------------------------
(* Reset and menu.                                                          *)

\* The processor starts what is at the start of the flash.
Reset ==
  /\ pc = "reset"
  /\ pc' = IF \E f \in Loaders : LoaderWhole(f) THEN "menu" ELSE "brick"
  /\ boot' = "3" /\ held' = NotHeld /\ file' = NoFile /\ size' = 0 /\ sound' = 0
  /\ at' = 0 /\ aborted' = FALSE
  /\ UNCHANGED <<flash, runs, faults, good>>

\* The button held for t seconds.
ByButton(t) == IF t < 3 THEN "c" ELSE IF t < 18 THEN "5" ELSE "b"

\* BootType without a button and without a key.
ByDefault ==
  IF MfgMac /\ flash[FactoryUnit] = Factory THEN "m" ELSE "3"

\* BootType as it is when the menu is shown.
ByItself(t) == IF t = NotHeld THEN ByDefault ELSE ByButton(t)

\* Mutant: a key that is no option is taken as it is.
Choices_AnyKey(t) == {ByItself(t), "other"} \union Options

\* Mutant: timer1 is left at the time the button was held.
Choices_KeyAlways(t) == {ByItself(t)} \union Options

\* A key counts unless the button was held for three seconds; any other key is 3.
Choices(t) == {ByItself(t)} \union (IF t < 3 THEN Options ELSE {})

Choose(t) ==
  /\ pc = "menu"
  /\ held' = t
  /\ boot' \in Choices(t)
  /\ boot' # ByDefault => runs < MaxRuns
  /\ runs' = IF boot' = ByDefault THEN runs ELSE runs + 1
  /\ pc' = IF boot' = "3" THEN "bootm" ELSE IF boot' = "4" THEN "cli" ELSE "load"
  /\ UNCHANGED <<flash, file, size, sound, aborted, at, faults, good>>

-----------------------------------------------------------------------------
(* Downloads.                                                               *)

\* The file the option is for.
Wanted == IF boot \in ToLoader \union {"8"} THEN Loaders ELSE Firmwares

\* Options 2 and 9 answered with anything but y, no stick, no such file on it, or
\* nothing in lks7688.cfg that can be taken over.
NotLoaded ==
  /\ pc = "load"
  /\ boot \in {"2", "9", "5", "b", "c"}
  /\ pc' = "reset"
  /\ UNCHANGED <<flash, bootVars, at, runs, faults, good>>

\* What follows when option 1, m or 8 has its image in memory, and what follows
\* saveenv.  do_bootm jumps to the address option 8 loads to; an image it refuses
\* leads to the reset behind the menu.
Onwards == CASE boot = "8" -> {"menu"}
             [] boot = "c" -> {"reset"}
             [] boot = "4" -> {"cli"}
             [] OTHER -> {"linux", "reset"}

\* do_tftpb: got is how much of the file was stored.  What it returns counts
\* for the options that start the image from memory and for no other.  Before
\* options 1 and 8 start it, netboot_common saves the environment if the user has
\* entered another address or file name.
TftpLoad(f, got, stopped) ==
  /\ pc = "load"
  /\ boot \in {"1", "m", "8", "2", "9"}
  /\ f \in Wanted
  /\ ~stopped => got = f.size
  /\ file' = f /\ size' = got /\ sound' = got /\ aborted' = stopped
  /\ pc' \in IF boot \in {"2", "9"} THEN {"loaded"}
            ELSE IF stopped THEN {"reset"}
            ELSE Onwards \union (IF boot = "m" THEN {} ELSE {"erasenv"})
  /\ UNCHANGED <<flash, boot, held, at, runs, faults, good>>

\* do_load_serial_bin: a download that is stopped has size 0.  After damage to the
\* head of a packet (Kermit: HeadError) blocks may be missing or come twice.
SerialLoad(f, got, whole) ==
  /\ pc = "load"
  /\ boot \in {"7", "0"}
  /\ f \in Wanted
  /\ whole <= got
  /\ file' = f /\ size' = got /\ sound' = whole /\ aborted' = (got = 0)
  /\ pc' = "loaded"
  /\ UNCHANGED <<flash, boot, held, at, runs, faults, good>>

\* do_fat_fsload: get_contents takes an invalid FAT entry for the file's end.
UsbLoad(f, got) ==
  /\ pc = "load"
  /\ boot \in {"5", "b"}
  /\ f \in Wanted
  /\ file' = f /\ size' = got /\ sound' = got
  /\ pc' = "loaded"
  /\ UNCHANGED <<flash, boot, held, aborted, at, runs, faults, good>>

\* Option c has found a name or a key in lks7688.cfg.
ConfigLoad ==
  /\ pc = "load"
  /\ boot = "c"
  /\ pc' = "erasenv"
  /\ UNCHANGED <<flash, bootVars, at, runs, faults, good>>

-----------------------------------------------------------------------------
(* Burning.                                                                 *)

\* Mutant: option b burns the boot loader where the kernel belongs.
Base_NotB == IF boot \in ToLoader \ {"b"} THEN 0 ELSE KernBase

Base == IF boot \in ToLoader THEN 0 ELSE KernBase

\* What follows raspi_erase_write, whatever it returned.
Afterwards == IF boot = "2" THEN "bootm" ELSE "reset"

\* Mutant: the menu does not look at the size of a boot loader.
MenuFits_NoLoaderLimit == boot = "5" => size <= UsbLimit

\* The limits of the menu: options 7, 9 and b, and option 5.
MenuFits == /\ boot \in ToLoader => size <= LoaderUnits
            /\ boot = "5" => size <= UsbLimit

\* Mutant: raspi_erase_write does not look at the size.
ChipFits_NoLimit == size >= 0

\* The limit of raspi_erase_write.
ChipFits == size <= AreaUnits

Fits == MenuFits /\ ChipFits

Burn ==
  /\ pc = "loaded"
  /\ pc' = IF Fits /\ size > 0 THEN "erase" ELSE Afterwards
  /\ at' = 0
  /\ UNCHANGED <<flash, bootVars, runs, faults, good>>

\* The chip drops the part of an address that is beyond its end.
Unit(i) == (Base + i) % FlashUnits

\* The file in the part of the flash being burned is no longer, or now, whole.
Note(f) == IF boot \in ToLoader THEN [good EXCEPT !.loader = f]
           ELSE [good EXCEPT !.fw = f]

Erase ==
  /\ pc = "erase"
  /\ flash' = [flash EXCEPT ![Unit(at)] = Blank]
  /\ good' = Note(NoFile)
  /\ IF at + 1 < size THEN pc' = pc /\ at' = at + 1 ELSE pc' = "write" /\ at' = 0
  /\ UNCHANGED <<bootVars, runs, faults>>

\* The unit of memory at i.
Loaded(i) == IF i < sound THEN Piece(file, i) ELSE Junk

Write ==
  /\ pc = "write"
  /\ flash' = [flash EXCEPT ![Unit(at)] = Loaded(at)]
  /\ IF at + 1 < size THEN pc' = pc /\ at' = at + 1 ELSE pc' = Afterwards /\ at' = 0
  /\ good' = IF at + 1 = size /\ {size, sound} = {file.size} THEN Note(file) ELSE good
  /\ UNCHANGED <<bootVars, runs, faults>>

\* No memory, a chip that does not answer, or what is read back is not what was
\* written; the unit that comes next may or may not have changed.
BurnFails ==
  /\ pc \in {"erase", "write"}
  /\ faults < MaxFaults
  /\ faults' = faults + 1
  /\ flash' \in {flash, [flash EXCEPT ![Unit(at)] = Blank]}
  /\ good' = Note(NoFile)
  /\ pc' = Afterwards /\ at' = 0
  /\ UNCHANGED <<bootVars, runs>>

-----------------------------------------------------------------------------
(* saveenv.  Nobody looks at what it returns.                               *)

EraseEnv ==
  /\ pc = "erasenv"
  /\ flash' = [flash EXCEPT ![EnvUnit] = Blank]
  /\ good' = [good EXCEPT !.env = Lost]
  /\ pc' = "writenv"
  /\ UNCHANGED <<bootVars, at, runs, faults>>

WriteEnv ==
  /\ pc = "writenv"
  /\ flash' = [flash EXCEPT ![EnvUnit] = Env(runs)]
  /\ good' = [good EXCEPT !.env = runs]
  /\ pc' \in Onwards
  /\ UNCHANGED <<bootVars, at, runs, faults>>

\* The sector is still there, erased, or programmed in part.
SaveFails ==
  /\ pc \in {"erasenv", "writenv"}
  /\ faults < MaxFaults
  /\ faults' = faults + 1
  /\ \E c \in {flash[EnvUnit], Blank, Junk} : flash' = [flash EXCEPT ![EnvUnit] = c]
  /\ good' = [good EXCEPT !.env = Lost]
  /\ pc' \in Onwards
  /\ UNCHANGED <<bootVars, at, runs>>

-----------------------------------------------------------------------------
(* Starting, the command line, and the end.                                 *)

\* do_bootm: the checksums of header and kernel are those of a firmware.
Bootable(f) == f.kernel <= AreaUnits /\ Holds(KernBase, f, f.kernel)

\* When do_bootm returns, option 2 resets and option 3 leaves board_init_r.
Bootm ==
  /\ pc = "bootm"
  /\ pc' = IF \E f \in Firmwares : Bootable(f) THEN "linux"
           ELSE IF boot = "3" THEN "returned" ELSE "reset"
  /\ UNCHANGED <<flash, bootVars, at, runs, faults, good>>

\* The command line's saveenv.
CliSave ==
  /\ pc = "cli"
  /\ pc' = "erasenv"
  /\ UNCHANGED <<flash, bootVars, at, runs, faults, good>>

\* The command line's erase.
CliErase(part) ==
  /\ pc = "cli"
  /\ flash' = [u \in DOMAIN flash |->
                 IF \/ part = "all"
                    \/ part = "uboot" /\ u < LoaderUnits
                    \/ part = "linux" /\ u >= KernBase
                 THEN Blank ELSE flash[u]]
  /\ good' = [loader |-> IF part = "linux" THEN good.loader ELSE NoFile,
              fw |-> IF part = "uboot" THEN good.fw ELSE NoFile,
              env |-> IF part = "all" THEN Lost ELSE good.env,
              factory |-> good.factory /\ part # "all"]
  /\ UNCHANGED <<pc, bootVars, at, runs, faults>>

\* The power fails, the user presses reset, or Linux restarts.
PowerFails ==
  /\ pc \notin {"reset", "brick"}
  /\ pc' = "reset"
  /\ UNCHANGED <<flash, bootVars, at, runs, faults, good>>

UNext ==
  \/ Reset \/ NotLoaded \/ ConfigLoad
  \/ \E t \in HoldTimes \union {NotHeld} : Choose(t)
  \/ \E f \in Files, stopped \in BOOLEAN :
       \E got \in 0..f.size : TftpLoad(f, got, stopped)
  \/ \E f \in Files :
       \E got \in 0..f.size + 1, whole \in 0..f.size : SerialLoad(f, got, whole)
  \/ \E f \in Files : \E got \in 0..f.size : UsbLoad(f, got)
  \/ Burn \/ Erase \/ Write \/ BurnFails
  \/ EraseEnv \/ WriteEnv \/ SaveFails
  \/ Bootm \/ CliSave
  \/ \E part \in {"linux", "uboot", "all"} : CliErase(part)
  \/ PowerFails

USpec == UInit /\ [][UNext]_upgradeVars

-----------------------------------------------------------------------------
(* Properties.                                                              *)

\* The variables have their types.  board_init_r is past reset at the menu, in a
\* download, about to burn, burning, in bootm, at the command line, in Linux,
\* or has returned; a board without a boot loader is a brick.  Whatever key is
\* pressed, BootType is one of the options (board.c:2084-2099).
UTypeOK ==
  /\ flash \in [0..FlashUnits - 1 -> Cells]
  /\ pc \in {"reset", "menu", "load", "loaded", "erase", "write", "erasenv", "writenv",
             "bootm", "cli", "linux", "returned", "brick"}
  /\ boot \in Options /\ held \in HoldTimes \union {NotHeld}
  /\ file \in Files \union {NoFile} /\ size \in 0..file.size + 1
  /\ sound \in 0..file.size /\ sound <= size /\ at \in Nat
  /\ runs \in 0..MaxRuns /\ faults \in 0..MaxFaults /\ aborted \in BOOLEAN
  /\ good \in [loader : Loaders \union {NoFile}, fw : Firmwares \union {NoFile},
               env : Nat \union {Lost}, factory : BOOLEAN]

\* Between the two parts that are upgraded lie the environment and the factory
\* settings.  No upgrade, of any size, by any option, that stops or fails anywhere,
\* reaches them (board.c:2268, 2329, 2411, 2529; spi_flash.c:1178): the factory settings
\* are lost to the command erase all only, and the environment is the one saved last,
\* by option 1, 8 or c or by command, unless that saveenv failed or was cut off
\* (cmd_net.c:227, board.c:2500, cmd_nvedit.c:591).
SettingsKept ==
  /\ good.env # Lost => flash[EnvUnit] = Env(good.env)
  /\ good.factory => flash[FactoryUnit] = Factory

\* What an upgrade has put into the flash stays there whole until the next upgrade
\* of the same part begins to erase it, whatever options run, fail or are cut
\* off in between (board.c:2181, 2278, 2341, 2378, 2416, 2533).
UpgradeLasts ==
  /\ good.loader # NoFile => LoaderWhole(good.loader)
  /\ good.fw # NoFile => FirmwareWhole(good.fw)

\* The board is dead, or falls out of board_init_r, only after an upgrade of the
\* part in question that stopped half way or an erase command: no way round
\* through the menu gets there from upgrades that went well (board.c:2122-2128).
DeadOnlyAfterFailure ==
  /\ pc = "brick" => good.loader = NoFile
  /\ pc = "returned" => good.fw = NoFile

\* Once the button has been held for three seconds, no key can change what happens to
\* the flash (board.c:2061-2070): up to 17 seconds nothing but the firmware changes, from
\* 18 on, two before the LED says so (board.c:2055), nothing but the boot loader.
ButtonDecides ==
  [][held >= 3 =>
       /\ flash'[EnvUnit] = flash[EnvUnit] /\ flash'[FactoryUnit] = flash[FactoryUnit]
       /\ IF held < 18 THEN \A u \in 0..LoaderUnits - 1 : flash'[u] = flash[u]
          ELSE \A u \in KernBase..FlashUnits - 1 : flash'[u] = flash[u]]_upgradeVars

\* "Abort if ctrl-c was pressed." (net.c:503), and "Abort: Bootloader is too big or
\* download aborted!" (board.c:2269): a download the user stopped is not burned.
AbortedNotBurned == pc \in {"erase", "write"} => ~aborted

\* "NOTREACHED - no way out of command loop except booting" (board.c:2553).
NotReached == pc # "returned"
=============================================================================
