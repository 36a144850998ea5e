---------------------------- MODULE UpgradeProofs ----------------------------
(***************************************************************************)
(* Proofs about Upgrade for flashes, files and numbers of attempts of any   *)
(* size.                                                                    *)
(***************************************************************************)
EXTENDS Upgrade, TLAPS

Goods == [loader : Loaders \union {NoFile}, fw : Firmwares \union {NoFile},
          env : Nat \union {Lost}, factory : BOOLEAN]
Settings == {EnvUnit, FactoryUnit}
Part == IF boot \in ToLoader THEN good.loader ELSE good.fw

\* An option that burns has a file of its own kind, of a size that stays
\* inside the part of the flash that is its own.
LoadOK ==
  /\ pc = "load" => boot \in ToLoader \union ToKernel \union ToRam \union {"c"}
  /\ pc \in {"loaded", "erase", "write"} =>
       /\ boot \in ToLoader \union ToKernel
       /\ file \in Wanted

BurnOK ==
  /\ pc \in {"erase", "write"} => Fits /\ at < size
  /\ pc = "write" => /\ Part = NoFile
                      /\ \A i \in 0..at - 1 : flash[Base + i] = Loaded(i)

\* A button held for three seconds has chosen the option.
ButtonOK ==
  held >= 3 => /\ pc \notin {"cli", "erasenv", "writenv"}
               /\ pc \in {"load", "loaded", "erase", "write"} => boot = ByButton(held)

\* While raspi_erase_write has not touched anything the file may still be there.
UInv == UTypeOK /\ LoadOK /\ BurnOK /\ ButtonOK
        /\ SettingsKept /\ UpgradeLasts /\ DeadOnlyAfterFailure

-----------------------------------------------------------------------------
(* Addresses.                                                               *)

LEMMA SmallMod ==
  ASSUME NEW n \in Nat \ {0}, NEW x \in 0..n - 1 PROVE x % n = x
  BY Z3

\* Between the limits no address is dropped, and it lies in the option's own part.
LEMMA UnitInPart ==
  ASSUME UTypeOK, Fits, boot \in ToLoader \union ToKernel,
         NEW i \in Nat, i < size
  PROVE  /\ Unit(i) = Base + i
         /\ boot \in ToLoader => Unit(i) \in 0..LoaderUnits - 1
         /\ boot \notin ToLoader => Unit(i) \in KernBase..FlashUnits - 1
         /\ Unit(i) \in 0..FlashUnits - 1
         /\ Unit(i) \notin Settings
<1>1. size \in Nat
  BY UpgradeAssumption DEF UTypeOK, Files, NoFile
<1>2. Base + i \in 0..FlashUnits - 1 /\ FlashUnits \in Nat \ {0}
  BY <1>1, UpgradeAssumption DEF Fits, MenuFits, ChipFits, Base, KernBase, FlashUnits
<1>3. Unit(i) = Base + i
  BY <1>2, SmallMod DEF Unit
<1>4. QED
  BY <1>1, <1>3, UpgradeAssumption DEF Fits, MenuFits, ChipFits, Base, KernBase, FlashUnits, Settings, EnvUnit, FactoryUnit

LEMMA FileFacts ==
  /\ \A f \in Files : /\ f.kind \in {"ldr", "fw"} /\ f.ver \in Nat /\ f.size \in Nat \ {0}
                      /\ f # NoFile
  /\ \A f \in Loaders : f \notin Firmwares
  /\ NoFile.size = 0
BY UpgradeAssumption DEF Files, NoFile

LEMMA SizeFacts == UTypeOK => size \in Nat /\ file.size \in Nat /\ size <= file.size + 1
                              /\ sound \in Nat /\ sound <= size
BY FileFacts DEF UTypeOK, Files, NoFile

LEMMA HeldFacts == UTypeOK => held \in Int
BY UpgradeAssumption DEF UTypeOK, NotHeld

-----------------------------------------------------------------------------
(* A step that changes the unit raspi_erase_write is at, and no other.      *)

OneUnit ==
  /\ flash' \in [0..FlashUnits - 1 -> Cells]
  /\ \A u \in 0..FlashUnits - 1 : u # Unit(at) => flash'[u] = flash[u]

Burning == pc \in {"erase", "write"}

LEMMA Addresses ==
  ASSUME UInv, Burning
  PROVE  /\ Unit(at) = Base + at
         /\ boot \in ToLoader => Unit(at) \in 0..LoaderUnits - 1
         /\ boot \notin ToLoader => Unit(at) \in KernBase..FlashUnits - 1
         /\ Unit(at) \in 0..FlashUnits - 1
         /\ Unit(at) \notin Settings
BY UnitInPart DEF UInv, UTypeOK, LoadOK, BurnOK, Burning

\* The settings, and the part of the flash the option is not for, stay as they are.
LEMMA OtherPart ==
  ASSUME UInv, Burning, OneUnit
  PROVE  /\ \A u \in Settings : flash'[u] = flash[u]
         /\ boot \in ToLoader =>
              \A u \in KernBase..FlashUnits - 1 : flash'[u] = flash[u]
         /\ boot \notin ToLoader =>
              \A u \in 0..LoaderUnits - 1 : flash'[u] = flash[u]
<1>1. Settings \subseteq 0..FlashUnits - 1
  BY UpgradeAssumption DEF Settings, EnvUnit, FactoryUnit, FlashUnits
<1>2. /\ KernBase..FlashUnits - 1 \subseteq 0..FlashUnits - 1
      /\ 0..LoaderUnits - 1 \subseteq 0..FlashUnits - 1
      /\ \A u \in KernBase..FlashUnits - 1 : u \notin 0..LoaderUnits - 1
  BY UpgradeAssumption DEF KernBase, FlashUnits
<1>3. \A u \in Settings : flash'[u] = flash[u]
  BY <1>1, Addresses DEF OneUnit
<1>4. ASSUME boot \in ToLoader
      PROVE  \A u \in KernBase..FlashUnits - 1 : flash'[u] = flash[u]
  BY <1>2, <1>4, Addresses DEF OneUnit
<1>5. ASSUME boot \notin ToLoader
      PROVE  \A u \in 0..LoaderUnits - 1 : flash'[u] = flash[u]
  BY <1>2, <1>5, Addresses DEF OneUnit
<1>6. QED
  BY <1>3, <1>4, <1>5

LEMMA WholeKept ==
  ASSUME UTypeOK, flash' \in [0..FlashUnits - 1 -> Cells]
  PROVE  /\ (\A u \in 0..LoaderUnits - 1 : flash'[u] = flash[u]) =>
              \A f \in Loaders : LoaderWhole(f) => LoaderWhole(f)'
         /\ (\A u \in KernBase..FlashUnits - 1 : flash'[u] = flash[u]) =>
              \A f \in Firmwares : FirmwareWhole(f) => FirmwareWhole(f)'
<1>1. ASSUME \A u \in 0..LoaderUnits - 1 : flash'[u] = flash[u],
             NEW f \in Loaders, LoaderWhole(f)
      PROVE  LoaderWhole(f)'
  <2>1. f.size \in Nat /\ f.size <= LoaderUnits /\ LoaderUnits \in Nat
    BY <1>1, UpgradeAssumption DEF LoaderWhole
  <2>2. ASSUME NEW i \in 0..f.size - 1
        PROVE  flash'[0 + i] = Piece(f, i)
    <3>1. i \in 0..LoaderUnits - 1 /\ 0 + i = i
      BY <2>1
    <3>2. QED
      BY <1>1, <3>1 DEF LoaderWhole, Holds
  <2>3. QED
    BY <2>1, <2>2 DEF LoaderWhole, Holds
<1>2. ASSUME \A u \in KernBase..FlashUnits - 1 : flash'[u] = flash[u],
             NEW f \in Firmwares, FirmwareWhole(f)
      PROVE  FirmwareWhole(f)'
  <2>1. /\ f.size \in Nat /\ f.size <= AreaUnits
        /\ AreaUnits \in Nat /\ LoaderUnits \in Nat
    BY <1>2, UpgradeAssumption DEF FirmwareWhole
  <2>2. ASSUME NEW i \in 0..f.size - 1
        PROVE  flash'[KernBase + i] = Piece(f, i)
    <3>1. KernBase + i \in KernBase..FlashUnits - 1
      BY <2>1 DEF KernBase, FlashUnits
    <3>2. QED
      BY <1>2, <3>1 DEF FirmwareWhole, Holds
  <2>3. QED
    BY <2>1, <2>2 DEF FirmwareWhole, Holds
<1>3. QED
  BY <1>1, <1>2

\* After such a step the upgrades noted are still whole, if the part being burned
\* is noted as NoFile.
LEMMA BurnStep ==
  ASSUME UInv, Burning, OneUnit, good' = Note(NoFile)
  PROVE  SettingsKept' /\ UpgradeLasts'
<1>1. good \in Goods
  BY DEF UInv, UTypeOK, Goods
<1>2. /\ good'.env = good.env /\ good'.factory = good.factory
      /\ boot \in ToLoader => good'.loader = NoFile /\ good'.fw = good.fw
      /\ boot \notin ToLoader => good'.fw = NoFile /\ good'.loader = good.loader
  BY <1>1 DEF Note, Goods
<1>3. SettingsKept'
  BY <1>2, OtherPart DEF UInv, SettingsKept, Settings, EnvUnit, FactoryUnit, Env
<1>4. UpgradeLasts'
  BY <1>1, <1>2, OtherPart, WholeKept DEF UInv, UpgradeLasts, OneUnit, Goods
<1>5. QED
  BY <1>3, <1>4

LEMMA BurnsOneUnit == ASSUME UInv, Erase \/ Write \/ BurnFails PROVE OneUnit
<1>1. Burning /\ Unit(at) \in 0..FlashUnits - 1
  BY Addresses DEF Erase, Write, BurnFails, Burning
<1>2. Blank \in Cells
  BY DEF Blank, Cells
<1>3. ASSUME Write PROVE Loaded(at) \in Cells
  BY <1>1, FileFacts
     DEF UInv, UTypeOK, LoadOK, Wanted, Files, Burning, Loaded, Piece, Junk, Cells
<1>4. \E c \in Cells : flash' = flash \/ flash' = [flash EXCEPT ![Unit(at)] = c]
  BY <1>2, <1>3 DEF Erase, Write, BurnFails
<1>5. QED
  BY <1>1, <1>4 DEF UInv, UTypeOK, OneUnit

LEMMA NoteType ==
  ASSUME UTypeOK, NEW f, f = NoFile \/ f \in Wanted,
         boot \in ToLoader \union ToKernel
  PROVE  /\ Note(f) \in Goods
         /\ Note(f).env = good.env /\ Note(f).factory = good.factory
         /\ boot \in ToLoader => Note(f).loader = f /\ Note(f).fw = good.fw
         /\ boot \notin ToLoader => Note(f).fw = f /\ Note(f).loader = good.loader
BY DEF UTypeOK, Goods, Note, Wanted, ToLoader, ToKernel

-----------------------------------------------------------------------------
(* The invariant holds from the start ...                                   *)

LEMMA UInitInv == ASSUME UInit PROVE UInv
<1>1. UTypeOK
  <2>1. "3" \in Options /\ 0 \in 0..NoFile.size /\ 0 \in 0..NoFile.size + 1
    BY FileFacts DEF Options
  <2>2. Shipped.loader \in Loaders /\ Shipped.fw \in Firmwares
    BY UpgradeAssumption
  <2>3. /\ Shipped.loader.kind = "ldr" /\ Shipped.loader.ver \in Nat
        /\ Shipped.fw.kind = "fw" /\ Shipped.fw.ver \in Nat /\ Shipped.fw.size \in Nat
        /\ LoaderUnits \in Nat /\ AreaUnits \in Nat
    BY <2>2, UpgradeAssumption
  <2>4. flash \in [0..FlashUnits - 1 -> Cells]
    BY <2>3 DEF UInit, Piece, Env, Factory, Blank, Cells, KernBase, FlashUnits
  <2>5. good \in Goods
    BY <2>2 DEF UInit, Goods
  <2>6. runs \in 0..MaxRuns /\ faults \in 0..MaxFaults /\ at \in Nat
    BY UpgradeAssumption DEF UInit
  <2>7. /\ size \in 0..file.size + 1 /\ sound \in 0..file.size /\ sound <= size
        /\ file \in Files \union {NoFile}
    BY <2>1 DEF UInit
  <2>8. QED
    BY <2>1, <2>4, <2>5, <2>6, <2>7 DEF UInit, UTypeOK, Goods
<1>2. SettingsKept
  <2>1. /\ {EnvUnit, FactoryUnit} \subseteq 0..FlashUnits - 1 /\ EnvUnit # FactoryUnit
        /\ ~(EnvUnit < Shipped.loader.size) /\ ~(FactoryUnit < Shipped.loader.size)
    BY UpgradeAssumption DEF EnvUnit, FactoryUnit, FlashUnits
  <2>2. flash[EnvUnit] = Env(0) /\ flash[FactoryUnit] = Factory
    BY <2>1 DEF UInit
  <2>3. QED
    BY <2>2 DEF UInit, SettingsKept
<1>3. LoaderWhole(Shipped.loader)
  <2>1. ASSUME NEW i \in 0..Shipped.loader.size - 1
        PROVE  flash[0 + i] = Piece(Shipped.loader, i)
    <3>1. i \in 0..FlashUnits - 1 /\ i < Shipped.loader.size /\ 0 + i = i
      BY UpgradeAssumption DEF FlashUnits
    <3>2. QED
      BY <3>1 DEF UInit
  <2>2. QED
    BY <2>1, UpgradeAssumption DEF LoaderWhole, Holds
<1>4. FirmwareWhole(Shipped.fw)
  <2>1. ASSUME NEW i \in 0..Shipped.fw.size - 1
        PROVE  flash[KernBase + i] = Piece(Shipped.fw, i)
    <3>1. /\ KernBase + i \in 0..FlashUnits - 1 /\ ~(KernBase + i < Shipped.loader.size)
          /\ KernBase + i \in KernBase..KernBase + Shipped.fw.size - 1
          /\ (KernBase + i) - KernBase = i /\ KernBase + i \notin Settings
      BY UpgradeAssumption DEF FlashUnits, KernBase, Settings, EnvUnit, FactoryUnit
    <3>2. ASSUME NEW u \in 0..FlashUnits - 1, ~(u < Shipped.loader.size),
                 u \notin Settings, u \in KernBase..KernBase + Shipped.fw.size - 1
          PROVE  flash[u] = Piece(Shipped.fw, u - KernBase)
      BY <3>2 DEF UInit, Settings
    <3>3. flash[KernBase + i] = Piece(Shipped.fw, (KernBase + i) - KernBase)
      BY <3>1, <3>2, Zenon
    <3>4. QED
      BY <3>1, <3>3
  <2>2. QED
    BY <2>1, UpgradeAssumption DEF FirmwareWhole, Holds
<1>5. QED
  BY <1>1, <1>2, <1>3, <1>4
     DEF UInit, UInv, LoadOK, BurnOK, ButtonOK, UpgradeLasts, DeadOnlyAfterFailure

-----------------------------------------------------------------------------
(* ... and every step preserves it.  First the steps that leave the flash   *)
(* alone.                                                                   *)

LEMMA SameFlash ==
  ASSUME UInv, flash' = flash, good' = good
  PROVE  SettingsKept' /\ UpgradeLasts'
BY DEF UInv, SettingsKept, UpgradeLasts, LoaderWhole, FirmwareWhole, Holds

LEMMA ResetInv == ASSUME UInv, Reset PROVE UInv'
<1>1. UTypeOK'
  <2>1. "3" \in Options /\ 0 \in 0..NoFile.size /\ 0 \in 0..NoFile.size + 1
    BY FileFacts DEF Options
  <2>2. /\ size' \in 0..file'.size + 1 /\ sound' \in 0..file'.size /\ sound' <= size'
        /\ file' \in Files \union {NoFile}
    BY <2>1 DEF Reset
  <2>3. QED
    BY <2>1, <2>2 DEF UInv, UTypeOK, Reset
<1>2. (pc' = "brick") => good'.loader = NoFile
  <2>1. good.loader # NoFile => \E f \in Loaders : LoaderWhole(f)
    BY DEF UInv, UTypeOK, UpgradeLasts
  <2>2. QED
    BY <2>1 DEF Reset
<1>3. QED
  BY <1>1, <1>2, SameFlash DEF UInv, Reset, LoadOK, BurnOK, ButtonOK, NotHeld, DeadOnlyAfterFailure

LEMMA ChooseInv ==
  ASSUME UInv, NEW t \in HoldTimes \union {NotHeld}, Choose(t)
  PROVE  UInv'
<1>1. boot' \in Options /\ (t >= 3 => boot' = ByButton(t) /\ boot' \in {"5", "b"})
  <2>1. t \in Int /\ (t >= 3 => t # NotHeld)
    BY UpgradeAssumption DEF NotHeld
  <2>2. ByButton(t) \in Options /\ (t >= 3 => ByButton(t) \in {"5", "b"})
    BY <2>1 DEF ByButton, Options, ToLoader, ToKernel
  <2>3. ByDefault \in Options
    BY DEF ByDefault, Options, ToRam
  <2>4. QED
    BY <2>1, <2>2, <2>3 DEF Choose, Choices, ByItself
<1>2. UTypeOK'
  BY <1>1, UpgradeAssumption DEF UInv, UTypeOK, Choose
<1>3. LoadOK' /\ BurnOK' /\ DeadOnlyAfterFailure'
  BY <1>1 DEF Choose, LoadOK, BurnOK, DeadOnlyAfterFailure, Options
<1>4. ButtonOK'
  BY <1>1 DEF Choose, ButtonOK, ByButton
<1>5. QED
  BY <1>2, <1>3, <1>4, SameFlash DEF UInv, Choose

\* Where options 1, m, 8 and c and the command line go.
LEMMA OnwardsFacts ==
  /\ Onwards \subseteq {"menu", "reset", "cli", "linux"}
  /\ "cli" \in Onwards => boot = "4"
BY DEF Onwards

\* A step that goes to the menu, a reset, the command line or Linux.
LEMMA Leaves ==
  ASSUME UInv, pc' \in {"menu", "reset", "cli", "linux"}, pc' = "cli" => ~(held' >= 3)
  PROVE  LoadOK' /\ BurnOK' /\ ButtonOK' /\ DeadOnlyAfterFailure'
BY DEF LoadOK, BurnOK, ButtonOK, DeadOnlyAfterFailure

LEMMA NotLoadedInv == ASSUME UInv, NotLoaded PROVE UInv'
<1>1. UTypeOK'
  BY DEF UInv, UTypeOK, NotLoaded, bootVars
<1>2. QED
  BY <1>1, SameFlash, Leaves DEF UInv, NotLoaded

LEMMA ConfigLoadInv == ASSUME UInv, ConfigLoad PROVE UInv'
<1>1. UTypeOK'
  BY DEF UInv, UTypeOK, ConfigLoad, bootVars
<1>2. ~(held >= 3)
  <2>1. held \in Int
    BY HeldFacts DEF UInv
  <2>2. QED
    BY <2>1 DEF UInv, ButtonOK, ByButton, ConfigLoad
<1>3. LoadOK' /\ BurnOK' /\ ButtonOK' /\ DeadOnlyAfterFailure'
  BY <1>2 DEF ConfigLoad, bootVars, LoadOK, BurnOK, ButtonOK, DeadOnlyAfterFailure
<1>4. QED
  BY <1>1, <1>3, SameFlash DEF UInv, ConfigLoad

LEMMA TftpLoadInv ==
  ASSUME UInv, NEW f \in Files, NEW stopped \in BOOLEAN, NEW got \in 0..f.size,
         TftpLoad(f, got, stopped)
  PROVE  UInv'
<1>1. pc' \in {"loaded", "menu", "reset", "cli", "linux", "erasenv"}
  BY OnwardsFacts DEF TftpLoad
<1>2. UTypeOK'
  BY <1>1, FileFacts DEF UInv, UTypeOK, TftpLoad
<1>3. ~(held >= 3)
  <2>1. held \in Int
    BY HeldFacts DEF UInv
  <2>2. QED
    BY <2>1 DEF UInv, ButtonOK, ByButton, TftpLoad
<1>4. LoadOK' /\ BurnOK' /\ ButtonOK' /\ DeadOnlyAfterFailure'
  <2>1. pc' = "loaded" => boot \in {"2", "9"}
    BY OnwardsFacts DEF TftpLoad
  <2>2. QED
    BY <1>1, <1>3, <2>1
       DEF UInv, TftpLoad, LoadOK, BurnOK, ButtonOK, DeadOnlyAfterFailure, Wanted, ToLoader, ToKernel
<1>5. QED
  BY <1>2, <1>4, SameFlash DEF UInv, TftpLoad

LEMMA SerialLoadInv ==
  ASSUME UInv, NEW f \in Files, NEW got \in 0..f.size + 1, NEW whole \in 0..f.size,
         SerialLoad(f, got, whole)
  PROVE  UInv'
<1>1. UTypeOK'
  BY FileFacts DEF UInv, UTypeOK, SerialLoad
<1>2. QED
  BY <1>1, SameFlash
     DEF UInv, SerialLoad, LoadOK, BurnOK, ButtonOK, DeadOnlyAfterFailure, Wanted, ToLoader, ToKernel

LEMMA UsbLoadInv ==
  ASSUME UInv, NEW f \in Files, NEW got \in 0..f.size, UsbLoad(f, got)
  PROVE  UInv'
<1>1. UTypeOK'
  BY FileFacts DEF UInv, UTypeOK, UsbLoad
<1>2. QED
  BY <1>1, SameFlash
     DEF UInv, UsbLoad, LoadOK, BurnOK, ButtonOK, DeadOnlyAfterFailure, Wanted, ToLoader, ToKernel

LEMMA BurnInv == ASSUME UInv, Burn PROVE UInv'
<1>1. UTypeOK'
  BY DEF UInv, UTypeOK, Burn, bootVars, Afterwards
<1>2. LoadOK' /\ BurnOK' /\ DeadOnlyAfterFailure'
  BY SizeFacts
     DEF UInv, Burn, bootVars, Afterwards, LoadOK, BurnOK, DeadOnlyAfterFailure, Fits,
         MenuFits, ChipFits, Wanted
<1>3. ButtonOK'
  BY DEF UInv, Burn, bootVars, Afterwards, ButtonOK, ByButton
<1>4. QED
  BY <1>1, <1>2, <1>3, SameFlash DEF UInv, Burn

LEMMA BootmInv == ASSUME UInv, Bootm PROVE UInv'
<1>1. UTypeOK'
  BY DEF UInv, UTypeOK, Bootm, bootVars
<1>2. ASSUME good.fw # NoFile PROVE \E f \in Firmwares : Bootable(f)
  <2>1. good.fw \in Firmwares /\ FirmwareWhole(good.fw)
    BY <1>2 DEF UInv, UTypeOK, UpgradeLasts
  <2>2. good.fw.kernel <= AreaUnits /\ Holds(KernBase, good.fw, good.fw.kernel)
    BY <2>1, UpgradeAssumption DEF FirmwareWhole, Holds
  <2>3. QED
    BY <2>1, <2>2 DEF Bootable
<1>3. LoadOK' /\ BurnOK' /\ DeadOnlyAfterFailure' /\ ButtonOK'
  BY <1>2 DEF Bootm, LoadOK, BurnOK, DeadOnlyAfterFailure, ButtonOK
<1>4. QED
  BY <1>1, <1>3, SameFlash DEF UInv, Bootm

LEMMA CliSaveInv == ASSUME UInv, CliSave PROVE UInv'
<1>1. UTypeOK'
  BY DEF UInv, UTypeOK, CliSave, bootVars
<1>2. LoadOK' /\ BurnOK' /\ ButtonOK' /\ DeadOnlyAfterFailure'
  BY DEF UInv, CliSave, bootVars, LoadOK, BurnOK, ButtonOK, DeadOnlyAfterFailure
<1>3. QED
  BY <1>1, <1>2, SameFlash DEF UInv, CliSave

LEMMA PowerFailsInv == ASSUME UInv, PowerFails PROVE UInv'
<1>1. UTypeOK'
  BY DEF UInv, UTypeOK, PowerFails, bootVars
<1>2. QED
  BY <1>1, SameFlash, Leaves DEF UInv, PowerFails

-----------------------------------------------------------------------------
(* Now the steps of raspi_erase_write, and erase.                           *)

LEMMA EraseInv == ASSUME UInv, Erase PROVE UInv'
<1>1. Burning /\ boot \in ToLoader \union ToKernel /\ file \in Wanted
  BY DEF UInv, LoadOK, Erase, Burning
<1>2. OneUnit
  BY BurnsOneUnit
<1>3. SettingsKept' /\ UpgradeLasts'
  BY <1>1, <1>2, BurnStep DEF Erase
<1>4. UTypeOK'
  BY <1>1, <1>2, NoteType DEF UInv, UTypeOK, Erase, OneUnit, bootVars, Goods
<1>5. Part' = NoFile
  BY <1>1, NoteType DEF UInv, Erase, Part, bootVars
<1>6. BurnOK'
  <2>1. Fits' /\ at' < size'
    BY SizeFacts DEF UInv, UTypeOK, BurnOK, Erase, Fits, MenuFits, ChipFits, bootVars
  <2>2. ASSUME pc' = "write" PROVE \A i \in 0..at' - 1 : flash'[Base' + i] = Loaded(i)'
    BY <2>2 DEF Erase
  <2>3. QED
    BY <1>5, <2>1, <2>2 DEF BurnOK
<1>7. LoadOK' /\ ButtonOK' /\ DeadOnlyAfterFailure'
  BY <1>1 DEF UInv, Erase, LoadOK, ButtonOK, ByButton, DeadOnlyAfterFailure, bootVars, Wanted
<1>8. QED
  BY <1>3, <1>4, <1>6, <1>7 DEF UInv

LEMMA WriteInv == ASSUME UInv, Write PROVE UInv'
<1>1. Burning /\ boot \in ToLoader \union ToKernel /\ file \in Wanted /\ Part = NoFile
  BY DEF UInv, LoadOK, BurnOK, Write, Burning
<1>2. file \in Files /\ size \in Nat /\ at \in Nat /\ at < size
  BY <1>1, SizeFacts DEF Wanted, Files, UInv, UTypeOK, BurnOK, Burning
<1>3. OneUnit /\ flash'[Unit(at)] = Loaded(at)
  BY <1>1, Addresses, BurnsOneUnit DEF UInv, UTypeOK, Write
<1>4. /\ \A i \in 0..at : flash'[Base + i] = Loaded(i)
      /\ Base' = Base /\ file' = file /\ \A i : Loaded(i)' = Loaded(i)
  <2>1. (\A i \in 0..at - 1 : flash[Base + i] = Loaded(i)) /\ Unit(at) = Base + at /\ Base \in Nat
    BY <1>1, Addresses, UpgradeAssumption DEF UInv, BurnOK, Write, Base, KernBase
  <2>2. ASSUME NEW i \in 0..at PROVE flash'[Base + i] = Loaded(i)
    <3>1. CASE i = at
      BY <1>3, <2>1, <3>1
    <3>2. CASE i # at
      <4>1. i \in 0..at - 1 /\ i \in Nat /\ i < size /\ Base + i # Unit(at)
        BY <1>2, <2>1, <3>2
      <4>2. Base + i \in 0..FlashUnits - 1
        BY <1>1, <4>1, UnitInPart DEF UInv, BurnOK, Burning
      <4>3. QED
        BY <1>3, <2>1, <4>1, <4>2 DEF OneUnit
    <3>3. QED
      BY <3>1, <3>2
  <2>3. Base' = Base /\ file' = file /\ \A i : Loaded(i)' = Loaded(i)
    BY DEF Write, bootVars, Base, Loaded
  <2>4. QED
    BY <2>2, <2>3
<1>5. /\ SettingsKept'
      /\ boot \in ToLoader => \A f \in Firmwares : FirmwareWhole(f) => FirmwareWhole(f)'
      /\ boot \notin ToLoader => \A f \in Loaders : LoaderWhole(f) => LoaderWhole(f)'
  <2>1. good'.env = good.env /\ good'.factory = good.factory
    BY <1>1, NoteType DEF UInv, Write
  <2>2. SettingsKept'
    BY <1>1, <1>3, <2>1, OtherPart DEF UInv, SettingsKept, Settings, EnvUnit, FactoryUnit, Env
  <2>3. QED
    BY <1>1, <1>3, <2>2, OtherPart, WholeKept DEF UInv, OneUnit
<1>6. good' \in Goods
  <2>1. CASE at + 1 = size /\ {size, sound} = {file.size}
    BY <1>1, <2>1, NoteType DEF UInv, Write
  <2>2. CASE ~(at + 1 = size /\ {size, sound} = {file.size})
    BY <2>2 DEF UInv, UTypeOK, Write, Goods
  <2>3. QED
    BY <2>1, <2>2
<1>7. UTypeOK'
  <2>1. at' \in Nat
    BY <1>2 DEF Write
  <2>2. pc' \in {"write", "bootm", "reset"}
    BY DEF Write, Afterwards
  <2>3. QED
    BY <1>3, <1>6, <2>1, <2>2 DEF UInv, UTypeOK, Write, OneUnit, bootVars, Goods
<1>8. UpgradeLasts'
  <2>1. CASE ~(at + 1 = size /\ {size, sound} = {file.size})
    <3>1. good' = good
      BY <2>1 DEF Write
    <3>2. QED
      BY <1>1, <1>5, <3>1 DEF UInv, UTypeOK, UpgradeLasts, Part
  <2>2. CASE at + 1 = size /\ {size, sound} = {file.size}
    <3>1. /\ boot \in ToLoader => good'.loader = file /\ good'.fw = good.fw
          /\ boot \notin ToLoader => good'.fw = file /\ good'.loader = good.loader
      BY <1>1, <2>2, NoteType DEF UInv, Write
    <3>7. size = file.size /\ sound = file.size
      BY <2>2
    <3>2. \A i \in 0..file.size - 1 : flash'[Base + i] = Piece(file, i)
      BY <1>2, <1>4, <2>2, <3>7 DEF Loaded
    <3>3. Fits
      BY <1>1 DEF UInv, BurnOK, Burning
    <3>4. ASSUME boot \in ToLoader PROVE LoaderWhole(file)'
      BY <1>4, <3>7, <3>2, <3>3, <3>4 DEF LoaderWhole, Holds, Fits, MenuFits, Base
    <3>5. ASSUME boot \notin ToLoader PROVE FirmwareWhole(file)'
      BY <1>4, <3>7, <3>2, <3>3, <3>5 DEF FirmwareWhole, Holds, Fits, ChipFits, Base
    <3>6. QED
      BY <1>4, <1>5, <3>1, <3>4, <3>5 DEF UInv, UTypeOK, UpgradeLasts
  <2>3. QED
    BY <2>1, <2>2
<1>9. BurnOK'
  <2>1. CASE at + 1 < size
    <3>1. /\ pc' = "write" /\ at' = at + 1 /\ good' = good /\ boot' = boot /\ size' = size
          /\ at' < size'
      BY <1>2, <2>1 DEF Write, bootVars
    <3>2. \A i \in 0..at' - 1 : flash'[Base' + i] = Loaded(i)'
      BY <1>2, <1>4, <3>1
    <3>3. QED
      BY <1>1, <3>1, <3>2 DEF UInv, BurnOK, Write, Fits, MenuFits, ChipFits, Part
  <2>2. CASE ~(at + 1 < size)
    BY <2>2 DEF Write, Afterwards, BurnOK
  <2>3. QED
    BY <2>1, <2>2
<1>10. LoadOK' /\ ButtonOK' /\ DeadOnlyAfterFailure'
  BY <1>1, <1>7 DEF UInv, Write, LoadOK, ButtonOK, ByButton, DeadOnlyAfterFailure, bootVars,
                    Wanted, Afterwards
<1>11. QED
  BY <1>5, <1>7, <1>8, <1>9, <1>10 DEF UInv

LEMMA BurnFailsInv == ASSUME UInv, BurnFails PROVE UInv'
<1>1. Burning /\ boot \in ToLoader \union ToKernel
  BY DEF UInv, LoadOK, BurnFails, Burning
<1>2. OneUnit
  BY BurnsOneUnit
<1>3. SettingsKept' /\ UpgradeLasts'
  BY <1>1, <1>2, BurnStep DEF BurnFails
<1>4. UTypeOK'
  <2>1. faults' \in 0..MaxFaults
    BY UpgradeAssumption DEF UInv, UTypeOK, BurnFails
  <2>2. QED
    BY <1>1, <1>2, <2>1, NoteType
       DEF UInv, UTypeOK, BurnFails, OneUnit, bootVars, Afterwards, Goods
<1>5. LoadOK' /\ BurnOK' /\ ButtonOK' /\ DeadOnlyAfterFailure'
  BY DEF BurnFails, LoadOK, BurnOK, ButtonOK, DeadOnlyAfterFailure, Afterwards
<1>6. QED
  BY <1>3, <1>4, <1>5 DEF UInv

LEMMA CliEraseInv ==
  ASSUME UInv, NEW part \in {"linux", "uboot", "all"}, CliErase(part)
  PROVE  UInv'
<1>1. flash \in [0..FlashUnits - 1 -> Cells]
  BY DEF UInv, UTypeOK
<1>2. /\ flash' \in [0..FlashUnits - 1 -> Cells]
      /\ \A u \in 0..FlashUnits - 1 :
           flash'[u] = IF \/ part = "all"
                          \/ part = "uboot" /\ u < LoaderUnits
                          \/ part = "linux" /\ u >= KernBase
                       THEN Blank ELSE flash[u]
  BY <1>1 DEF CliErase, Blank, Cells
<1>3. good.loader \in Loaders \union {NoFile} /\ good.fw \in Firmwares \union {NoFile}
      /\ good.env \in Nat \union {Lost} /\ good.factory \in BOOLEAN
  BY DEF UInv, UTypeOK
<1>4. /\ good' \in Goods
      /\ good'.loader = IF part = "linux" THEN good.loader ELSE NoFile
      /\ good'.fw = IF part = "uboot" THEN good.fw ELSE NoFile
      /\ good'.env # Lost => good'.env = good.env /\ part # "all"
      /\ good'.factory => good.factory /\ part # "all"
  BY <1>3 DEF CliErase, Goods
<1>5. SettingsKept'
  <2>1. ASSUME NEW u \in Settings
        PROVE u \in 0..FlashUnits - 1 /\ ~(u < LoaderUnits) /\ ~(u >= KernBase)
    BY UpgradeAssumption DEF Settings, EnvUnit, FactoryUnit, KernBase, FlashUnits
  <2>2. ASSUME part # "all", NEW u \in Settings PROVE flash'[u] = flash[u]
    BY <1>2, <2>1, <2>2
  <2>3. QED
    BY <1>4, <2>2 DEF UInv, SettingsKept, Settings, EnvUnit, FactoryUnit, Env
<1>6. ASSUME part = "linux" PROVE \A u \in 0..LoaderUnits - 1 : flash'[u] = flash[u]
  <2>1. ASSUME NEW u \in 0..LoaderUnits - 1
        PROVE u \in 0..FlashUnits - 1 /\ ~(u >= KernBase)
    BY UpgradeAssumption DEF KernBase, FlashUnits
  <2>2. QED
    BY <1>2, <1>6, <2>1
<1>7. ASSUME part = "uboot" PROVE \A u \in KernBase..FlashUnits - 1 : flash'[u] = flash[u]
  <2>1. ASSUME NEW u \in KernBase..FlashUnits - 1
        PROVE u \in 0..FlashUnits - 1 /\ ~(u < LoaderUnits)
    BY UpgradeAssumption DEF KernBase, FlashUnits
  <2>2. QED
    BY <1>2, <1>7, <2>1
<1>8. UpgradeLasts'
  BY <1>2, <1>3, <1>4, <1>6, <1>7, WholeKept DEF UInv, UpgradeLasts
<1>9. UTypeOK'
  BY <1>2, <1>4 DEF UInv, UTypeOK, CliErase, bootVars, Goods
<1>10. LoadOK' /\ BurnOK' /\ ButtonOK' /\ DeadOnlyAfterFailure'
  BY DEF UInv, CliErase, bootVars, LoadOK, BurnOK, ButtonOK, DeadOnlyAfterFailure
<1>11. QED
  BY <1>5, <1>8, <1>9, <1>10 DEF UInv

-----------------------------------------------------------------------------
(* saveenv.                                                                 *)

\* A step that changes the unit of the environment, and no other.
EnvOnly ==
  /\ flash' \in [0..FlashUnits - 1 -> Cells]
  /\ \A u \in 0..FlashUnits - 1 : u # EnvUnit => flash'[u] = flash[u]

LEMMA EnvStep ==
  ASSUME UInv, EnvOnly, NEW v \in Nat \union {Lost}, good' = [good EXCEPT !.env = v],
         v # Lost => flash'[EnvUnit] = Env(v)
  PROVE  good' \in Goods /\ SettingsKept' /\ UpgradeLasts'
<1>1. /\ good' \in Goods /\ good'.env = v /\ good'.factory = good.factory
      /\ good'.loader = good.loader /\ good'.fw = good.fw
  BY DEF UInv, UTypeOK, Goods
<1>2. /\ FactoryUnit \in 0..FlashUnits - 1 /\ FactoryUnit # EnvUnit
      /\ \A u \in 0..LoaderUnits - 1 : u \in 0..FlashUnits - 1 /\ u # EnvUnit
      /\ \A u \in KernBase..FlashUnits - 1 : u \in 0..FlashUnits - 1 /\ u # EnvUnit
  BY UpgradeAssumption DEF FactoryUnit, EnvUnit, KernBase, FlashUnits
<1>3. SettingsKept'
  BY <1>1, <1>2 DEF UInv, SettingsKept, EnvOnly, Env
<1>4. UpgradeLasts'
  BY <1>1, <1>2, WholeKept DEF UInv, UpgradeLasts, EnvOnly, Goods
<1>5. QED
  BY <1>1, <1>3, <1>4

LEMMA EnvOnlyStep ==
  ASSUME UInv, NEW c \in Cells, flash' = [flash EXCEPT ![EnvUnit] = c]
  PROVE  EnvOnly /\ flash'[EnvUnit] = c
<1>1. EnvUnit \in 0..FlashUnits - 1
  BY UpgradeAssumption DEF EnvUnit, FlashUnits
<1>2. QED
  BY <1>1 DEF UInv, UTypeOK, EnvOnly

\* After saveenv the board goes on as after Onwards, with the button not held.
LEMMA SavedLeaves ==
  ASSUME UInv, pc \in {"erasenv", "writenv"}, pc' \in Onwards, UNCHANGED bootVars
  PROVE  LoadOK' /\ BurnOK' /\ ButtonOK' /\ DeadOnlyAfterFailure'
<1>1. ~(held' >= 3)
  BY DEF UInv, ButtonOK, bootVars
<1>2. QED
  BY <1>1, OnwardsFacts, Leaves

LEMMA EraseEnvInv == ASSUME UInv, EraseEnv PROVE UInv'
<1>1. Blank \in Cells
  BY DEF Blank, Cells
<1>2. good' \in Goods /\ SettingsKept' /\ UpgradeLasts' /\ flash' \in [0..FlashUnits - 1 -> Cells]
  BY <1>1, EnvOnlyStep, EnvStep DEF EraseEnv, EnvOnly
<1>3. UTypeOK'
  BY <1>2 DEF UInv, UTypeOK, EraseEnv, bootVars, Goods
<1>4. LoadOK' /\ BurnOK' /\ ButtonOK' /\ DeadOnlyAfterFailure'
  BY DEF UInv, EraseEnv, bootVars, LoadOK, BurnOK, ButtonOK, DeadOnlyAfterFailure
<1>5. QED
  BY <1>2, <1>3, <1>4 DEF UInv

LEMMA WriteEnvInv == ASSUME UInv, WriteEnv PROVE UInv'
<1>1. runs \in Nat /\ Env(runs) \in Cells
  BY UpgradeAssumption DEF UInv, UTypeOK, Env, Cells
<1>2. good' \in Goods /\ SettingsKept' /\ UpgradeLasts' /\ flash' \in [0..FlashUnits - 1 -> Cells]
  BY <1>1, EnvOnlyStep, EnvStep DEF WriteEnv, EnvOnly
<1>3. UTypeOK'
  BY <1>2, OnwardsFacts DEF UInv, UTypeOK, WriteEnv, bootVars, Goods
<1>4. QED
  BY <1>2, <1>3, SavedLeaves DEF UInv, WriteEnv

LEMMA SaveFailsInv == ASSUME UInv, SaveFails PROVE UInv'
<1>1. PICK c \in {flash[EnvUnit], Blank, Junk} : flash' = [flash EXCEPT ![EnvUnit] = c]
  BY DEF SaveFails
<1>2. c \in Cells
  <2>1. EnvUnit \in 0..FlashUnits - 1
    BY UpgradeAssumption DEF EnvUnit, FlashUnits
  <2>2. QED
    BY <2>1 DEF UInv, UTypeOK, Blank, Junk, Cells
<1>3. good' \in Goods /\ SettingsKept' /\ UpgradeLasts' /\ flash' \in [0..FlashUnits - 1 -> Cells]
  BY <1>1, <1>2, EnvOnlyStep, EnvStep DEF SaveFails, EnvOnly
<1>4. faults' \in 0..MaxFaults
  BY UpgradeAssumption DEF UInv, UTypeOK, SaveFails
<1>5. UTypeOK'
  BY <1>3, <1>4, OnwardsFacts DEF UInv, UTypeOK, SaveFails, bootVars, Goods
<1>6. QED
  BY <1>3, <1>5, SavedLeaves DEF UInv, SaveFails

-----------------------------------------------------------------------------
LEMMA UStutter == ASSUME UInv, UNCHANGED upgradeVars PROVE UInv'
<1>1. SettingsKept' /\ UpgradeLasts'
  BY SameFlash DEF upgradeVars
<1>2. UTypeOK' /\ LoadOK' /\ BurnOK' /\ ButtonOK' /\ DeadOnlyAfterFailure'
  BY DEF UInv, UTypeOK, LoadOK, BurnOK, ButtonOK, ByButton, DeadOnlyAfterFailure, upgradeVars,
         bootVars, Wanted, Fits, MenuFits, ChipFits, Part, Loaded, Base
<1>3. QED
  BY <1>1, <1>2 DEF UInv

\* The invariant of the proofs holds in every reachable state.
THEOREM UpgradeInvariant == USpec => []UInv
<1>1. UInit => UInv
  BY UInitInv
<1>2. UInv /\ [UNext]_upgradeVars => UInv'
  BY UStutter, ResetInv, ChooseInv, NotLoadedInv, ConfigLoadInv, TftpLoadInv, SerialLoadInv,
     UsbLoadInv, BurnInv, EraseInv, WriteInv, BurnFailsInv, EraseEnvInv, WriteEnvInv,
     SaveFailsInv, BootmInv, CliSaveInv, CliEraseInv, PowerFailsInv
     DEF UNext
<1>3. QED
  BY <1>1, <1>2, PTL DEF USpec

\* Type correctness.
THEOREM UTypeCorrect == USpec => []UTypeOK
BY UpgradeInvariant, PTL DEF UInv

\* For every size of flash and file, no upgrade reaches environment or factory settings:
\* the environment is the one saved last, unless saveenv itself failed or was cut off.
THEOREM UpgradeSettingsKept == USpec => []SettingsKept
BY UpgradeInvariant, PTL DEF UInv

\* An upgrade that went well is undone by nothing but the next one of its part.
THEOREM UpgradeWholeLasts == USpec => []UpgradeLasts
BY UpgradeInvariant, PTL DEF UInv

\* A board that does not start has had an upgrade cut off, or an erase command.
THEOREM DeadBoards == USpec => []DeadOnlyAfterFailure
BY UpgradeInvariant, PTL DEF UInv

-----------------------------------------------------------------------------
(* What the button decides.                                                 *)

\* The steps that change the flash: one unit of the option's part, the
\* environment, or what the command line erases.
LEMMA ButtonStep ==
  ASSUME UInv, [UNext]_upgradeVars, held >= 3
  PROVE  /\ flash'[EnvUnit] = flash[EnvUnit] /\ flash'[FactoryUnit] = flash[FactoryUnit]
         /\ IF held < 18 THEN \A u \in 0..LoaderUnits - 1 : flash'[u] = flash[u]
            ELSE \A u \in KernBase..FlashUnits - 1 : flash'[u] = flash[u]
<1>1. CASE flash' = flash
  BY <1>1
<1>2. CASE Erase \/ Write \/ BurnFails
  <2>1. Burning /\ boot = ByButton(held)
    BY <1>2 DEF UInv, ButtonOK, Erase, Write, BurnFails, Burning
  <2>2. OneUnit
    BY <1>2, <2>1, BurnsOneUnit
  <2>3. held \in Int
    BY HeldFacts DEF UInv
  <2>4. boot \in ToLoader <=> ~(held < 18)
    BY <2>1, <2>3, held >= 3 DEF ByButton, ToLoader
  <2>5. QED
    BY <2>1, <2>2, <2>4, OtherPart DEF Settings
<1>3. CASE EraseEnv \/ WriteEnv \/ SaveFails \/ \E part \in {"linux", "uboot", "all"} : CliErase(part)
  BY <1>3 DEF UInv, ButtonOK, EraseEnv, WriteEnv, SaveFails, CliErase
<1>4. CASE Reset \/ NotLoaded \/ ConfigLoad \/ Burn \/ Bootm \/ CliSave \/ PowerFails
           \/ UNCHANGED upgradeVars
  BY <1>1, <1>4 DEF Reset, NotLoaded, ConfigLoad, Burn, Bootm, CliSave, PowerFails, upgradeVars
<1>5. CASE \E t \in HoldTimes \union {NotHeld} : Choose(t)
  BY <1>1, <1>5 DEF Choose
<1>6. CASE \E f \in Files, stopped \in BOOLEAN : \E got \in 0..f.size : TftpLoad(f, got, stopped)
  BY <1>1, <1>6 DEF TftpLoad
<1>7. CASE \E f \in Files :
             \E got \in 0..f.size + 1, whole \in 0..f.size : SerialLoad(f, got, whole)
  BY <1>1, <1>7 DEF SerialLoad
<1>8. CASE \E f \in Files : \E got \in 0..f.size : UsbLoad(f, got)
  BY <1>1, <1>8 DEF UsbLoad
<1>9. QED
  BY <1>2, <1>3, <1>4, <1>5, <1>6, <1>7, <1>8 DEF UNext

\* For flashes and files of every size, a button held for three seconds leaves boot
\* loader and settings alone up to the 17th second, and firmware and settings after it.
THEOREM ButtonAlwaysDecides == USpec => ButtonDecides
<1>1. UInv /\ [UNext]_upgradeVars =>
        [held >= 3 =>
           /\ flash'[EnvUnit] = flash[EnvUnit] /\ flash'[FactoryUnit] = flash[FactoryUnit]
           /\ IF held < 18 THEN \A u \in 0..LoaderUnits - 1 : flash'[u] = flash[u]
              ELSE \A u \in KernBase..FlashUnits - 1 : flash'[u] = flash[u]]_upgradeVars
  BY ButtonStep
<1>2. QED
  BY <1>1, UpgradeInvariant, PTL DEF USpec, ButtonDecides
=============================================================================
