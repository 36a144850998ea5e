# Verification of the IOT7688 platform

The repository is the software of a small Wi-Fi board with an MT7688 processor: a boot
loader (`uboot/`, U-Boot as adapted by Ralink and for this board), an OpenWrt tree with
the LinkIt feed (`openwrt/`), and test programs (`eclipse_openwrt/`). This directory has
TLA+ models of the parts where state, failure and timing meet, TLC runs over small
instances, and TLAPS proofs of the main properties for instances of every size.

All lines are those of the files under `src/`; `PROJECT.json` maps each definition to them.

## 1. Inventory

| Part | State | Operations | Interacts with | What is hard | What makes it correct |
|---|---|---|---|---|---|
| TFTP client (`uboot/net/tftp.c`) | protocol state, ports, block numbers, wrap offset, timeout count | start, packet handler, timeout | called by NetLoop, writes memory at load_addr | lost, repeated, late packets; retries; restarts; 16-bit block number | a reported success is the whole file; an acknowledged block is stored; it ends |
| NetLoop and ARP (`uboot/net/net.c`) | NetState, packet and time handler, pending ARP request | one iteration: receive, Ctrl-C, ARP timeout, timer, act on NetState; NetStartAgain | Ethernet driver (`drivers/rt2880_eth.c`), TFTP | handlers replaced while packets arrive; ARP reply that sends a packet of its own | late packets of an abandoned transfer do nothing |
| Kermit receiver (`common/cmd_load.c`) | place in memory, checkpoint, last sequence number | k_recv, load_serial_bin | serial line, boot menu | data is stored before its checksum is known; repetitions; no timer of its own | a size returned is that of the whole image; what was acknowledged is kept; it returns |
| Environment in RAM (`common/cmd_nvedit.c`, `env_common.c`) | names and values, checksum | setenv, delete, getenv, default | saveenv, menu, scripts through `fw_printenv` | room runs out after the old value is gone | never grows over its room; the checksum is that of the data |
| Environment in flash (`common/env_spi.c`) | one 64 KB sector | saveenv, spi_env_init, env_relocate | SPI flash driver | power failure between erase and program; pages that fail | a start finds the last environment, the one before, or none |
| SPI flash (`drivers/spi_flash.c`) | sectors | erase, write, read, raspi_erase_write | environment, upgrades | partly covered sectors, errors, power failure | success means the flash holds the image and its neighbours are kept |
| Boot menu (`lib_mips/board.c`) | boot type, button time | TFTP, serial and USB upgrades, Wi-Fi configuration, boot | all of the above | ignored results, thresholds | the boot loader, environment and factory sectors change only when asked for |
| LinkIt scripts (`openwrt/feeds/linkit/mtk-linkit/files/etc`) | UCI settings, first-start mark | first start, sync, factory reset, Wi-Fi mode | environment | two counters in two stores, reset at different times | settings that were stored come into force |
| Wi-Fi client daemon (`feeds/linkit/mtk-sdk-wifi/src/ap_client.c`) | scan table, counters, LED | scan, find, set up, watch | driver ioctls, access points | scans that fail, tables and settings of before, results not looked at | no open network with a key; beacon and LED follow; it comes back to the network |
| ioTest (`eclipse_openwrt/ioTest`) | console, serial ports, saved terminal settings, GPIO cache, tick | main, TestUart, TestAllGpio; open, close; setup, set, get | kernel, cable, other processes | one variable for all ports; remembered levels; a tick that wraps around | every port and the console have their own settings back; a passed test lost nothing; no wait is cut short |
| genMacAddr | none kept | reads two MAC EEPROMs and the factory partition, fills in random addresses, writes `/tmp/mtd2.bin` | I2C, `/dev/mtd2` | sequential; offsets of hardware and a file | the addresses written are those of the EEPROMs, or valid ones |
| other utilities | none | conversions, PID file | files | called by no program | - |

Everything else (the other boards of U-Boot, OpenWrt's build system, packages and kernel
patches, the Docker image, helloWorld, register-setting tools) is third-party, generated or
has no state of its own; it is listed in `PROJECT.json` with the reason.

The build options that matter, from `uboot/.config` and `include/configs/rt2880.h`: SPI
flash, environment in SPI flash (sector at 0x30000, 4 KB used of 64), no redundant
environment, no `CONFIG_NET_MULTI`, no direct TFTP to flash, `CONFIG_ENV_OVERWRITE`
undefined (`ethaddr` and `serial#` are write-once).

## 2. Plan

1. `Tftp` and `Download`, the abstract specification of a download: done, proved.
2. `EnvStore`: done, proved. `WifiConfig`, which composes the environment with the boot
   menu's option c and the OpenWrt scripts: done, proved.
3. `Kermit`, the other way an image reaches the board; `SpiFlash`, what puts it into the
   flash; and `Upgrade`, the menu that composes downloads, burning and `bootm`: done, proved.
4. `ApClient`: done, proved.
5. `Serial`, `Gpio` and `IoTest`, which composes them: done, proved.

The most important behaviour comes first: a download or a save that reports success while
the data is not there is what makes a board stop working.

## 3. Modules

### Tftp, Download

`Tftp` models `tftp.c` whole, and of `net.c` what a TFTP transfer uses: `NetLoop`,
`NetStartAgain`, `startAgainHandler` and `startAgainTimeout`, `NetSendUDPPacket`,
`ArpTimeoutCheck`, ARP replies in `NetReceive`, and `eth_halt`.

NetLoop is a single thread. `pc` names the part of an iteration that comes next:
`"eth_rx"` (any number of packets, each one `Receive` step), then Ctrl-C (`CtrlC`),
`"ArpTimeoutCheck"`, `"timeHandler"`, `"switch"` on NetState, `"returned"`. The order is that
of net.c:496-563.

| Code | Model |
|---|---|
| `TftpSend` | `TftpPacket`, sent by `NetSendUDPPacket` |
| `TftpHandler`: OACK, first block, same block, next block, error, refused packets | `RecvOack`, `RecvFirstBlock`, `RecvSameBlock`, `RecvNextBlock`, `RecvError`, `Drop` |
| `store_block` | `store_block`; `mem` maps the cells of 512 bytes to blocks |
| `TftpTimeout`, `TftpStart` | the same names; `Restart` is the `goto restart` |
| `NetStartAgain` | the same name: fails after `eth_halt` when `netretry` is "no", otherwise changes handler and arms the ten seconds. The constant `netretry` is the set of values the environment variable may have |
| ARP | `RecvArpReply`, `ArpInTime`, `ArpTimeout`; a packet for an unknown address is replaced by a request, and the reply calls TftpSend |

The server and the network are not part of the repository. The server opens a session on a
port of its own for each request, sends the next block when it is acknowledged and the last
packet again when nothing comes; it may give up with an ERROR. With `Duplicating` the set
`net` only grows: each packet may be received at any time, any number of times, or never.
Without it, a packet is received at most once and at most `MaxLoss` are lost.

Timers are not clocked. With `EarlyTimers` an armed timer may run out in any iteration;
without, only when nothing is in transit and each waiting session has sent again, because a
round trip is shorter than the three seconds of `TIMEOUT`, which the client also asks the
server to use (tftp.c:128-130).

`Download` is the promise: the image grows block by block in the order of the file, and at
the end the transfer reports either the size of the whole file or a failure.

### EnvStore

`env` and `crc` are the copy in RAM, `flash` the pages of the sector. A checksum is
represented by the environment it was computed of (CRC-32 is taken to be free of
collisions), so `Stored(flash)`, what a start finds, is the environment whose pages are all
there and whose checksum is its own. `setenv`, `unsetenv` are `_do_setenv` in
its order: refuse write-once names, delete the old entry, look for room, append, update the
checksum. `saveenv` copies to its buffer; `Erase`, `WritePage` and their failures are
`raspi_erase` and `raspi_write` one page at a time, `WriteEnds` the comparison of the count.
`PowerFail` may come between any two steps; during an erase any set of pages may be gone.
`Boot` and `BootReadFails` are `spi_env_init`, whose result is ignored, and `env_relocate`.

Left out: saveenv does not read back what it wrote, so a chip that reports success and has
not erased or programmed is outside the model; a second read, in `env_relocate_spec`, that
fails after the first one succeeded; stale bytes behind the last entry, which the checksum
covers but nothing reads; the length of an entry depends on its value only, not on its name.

### WifiConfig

Extends `EnvStore`. `MenuC` is option c of the boot menu: it reads `lks7688.cfg` from the
stick, takes over name and key of the network, counts `wifi_seq` up, saves and resets. A
file whose last line has '=' and no newline makes the parser go on at address 0: it may
come to its end there (`MenuC`) or not (`MenuCHangs`). `linkit_config` is
`uci-defaults/51_linkit_config` with the mark that 54_linkit_version sets; `linkit_start` is
`init.d/linkit`; `FactoryReset` the button held for more than 20 seconds. Left out: the
variables `autostart` and `filesize` that option c sets on the way, an empty name of a
network, and a power failure between two of the uci-defaults scripts. The LinkIt scripts
are in images built with the LinkIt 7688 profile.

### Kermit

`k_recv` reads packet by packet and stores data while it reads. `data` is memory up to
`os_data_addr`, `saved` up to the checkpoint. A step is one packet: read whole
(`ReceivePacket`) or with an error at one of the places that make a difference - before the
sequence number (`HeadError`), a wrong sequence number (`WrongSequence`), behind it
(`BodyError`), or broken off, so that k_recv waits inside the packet and takes the start of
the next one for an error (`CutInHead`, `CutInBody`, `ReceiveInside`). The sender is an
external Kermit program, stop and wait, that knows that a refusal of the next packet
acknowledges this one. With `EarlyTimers` it may send again while an answer is on its way.
Left out: the escaping of characters within a packet, errors the one-byte checksum does not
find, the parameters of the S packet.

### SpiFlash

`raspi_erase_write` at the granularity of its effects: one step per sector erased, page
programmed and sector compared. An address is sector and page, `<<sec, piece>>` is `offs`,
and the end of the range stands for `count`. Partly covered sectors go through `block`
(`ReadPiece`), whole ones are all erased, then all written, then all compared
(`StartAligned`). Commands fail with an error (`EraseFails`, `WriteSkips`, `WriteStops`),
or without (`EraseUnnoticed`, `WriteUnnoticed`: the status register is not looked at), and
`PowerFail` spoils what is being erased or programmed. The build has
`RALINK_SPI_UPGRADE_CHECK`. Left out: reads that silently return wrong data, the four-byte
address mode, and the two buffers that the error paths do not free.

### Upgrade

The end of `board_init_r`. `Choose` is button and menu: a key counts only if the button was
held for less than three seconds or not at all (`Choices`); `held` is the time. `TftpLoad`,
`SerialLoad`, `UsbLoad` are the outcomes of the downloads (`Tftp` and `Kermit` have the
details): `size` is what `NetBootFileXferSize` says and `sound` how much of it is what the file
has, since a Kermit download may lack a block or have one twice after an error in a head.
`Burn` is the tests of the size, by the menu (`MenuFits`) and by `raspi_erase_write`
(`ChipFits`); `Erase`, `Write`, `BurnFails` are the outcome of the latter unit by unit
(`SpiFlash` has the details), `Bootm` the two checksums of `do_bootm`.

The environment's unit is rewritten by `saveenv` (`EraseEnv`, `WriteEnv`, `SaveFails`;
`EnvStore` has the details), which is called by option c (`ConfigLoad`), by the command line
(`CliSave`) and, if the user has entered another address or file name, by `netboot_common`
before options 1 and 8 start what they have loaded (cmd_net.c:219-229). `CliErase` is the
command line's erase. `PowerFails` may come at any step.

The flash has units for the boot loader, one each for environment and factory settings, and
the area of the firmware; a firmware is a kernel, which the checksums cover, and a root file
system, which they do not: Linux may well be started with a file system that was cut off.
`good` and `aborted` are history. Left out: `verify=n` in the environment, which turns the
second checksum off; `cp` and `tftpboot` at the command line; a `setenv` of `filesize` that
fails because the environment is full; an erase command that is interrupted; and a file that
is not for this board.

### ApClient

One step per call of `assoc_loop` that reads or changes something others see: `Check`,
`Scan`, `Find`, `Start` (up to the early return of `wifi_repeater_start`), `Enable`, `Sleep`.
`Answers` has every answer when the ioctl of `check_assoc` fails, since `wrq` is not
initialised; `ScanFails` keeps the table of before. The driver and the access points are
external: the station associates when the settings fit an access point that is on
(`Associate`), and loses the association when the access point changes (`AirChanges`) or
`ApCliEnable=0` is set. `led_set_trigger` is meant to do nothing when the LED is already as it
should be, but its last line assigns `led_state` to `blink` and not the other way round
(ap_client.c:66): the LED is set by every call, as here, where it blinks or does not.

### Serial, Gpio, IoTest

`Serial` has the objects of class CSerial, the terminals, and the one variable `gOldTio`, as
a set that is empty for NULL. Flags are sets of bit numbers of the MIPS `termbits.h`, and the
configuration string is searched as the code does it, as substrings in the order of the
tables. Each object uses a port of its own, as in ioTest. `Gpio` has `setup`, `set` and the
destructor as operators on the remembered state and the pins; the writes whose outcome
the code does not look at, of a direction or a level, may fail.

`IoTest` extends both. `Main` and `Exit` are the raw mode of the console; either call of
tcsetattr may fail (`SetConsole`, `refused`), and always does when `stdin` is not a terminal.
`restore` of main is not initialised: if it was never set, `Exit` may go either way.
`TestUart` and `TestAllGpio` are the two tests, with early returns that run the destructors in
their order (`Fail`, `destroy1`, `destroy0`). Between two changes of the LEDs the program reads
keys: the read returns at once from a raw terminal or a file, and may wait (`GetKey`,
`KeyComes`) on a pipe or on a terminal that could not be made raw. `Abort` is ESC.
`TimePasses` counts the tick, `ClockIsSet` is somebody who sets the time of day, `Lose` and
`Noise` are the cable, `OtherWrites` another process, which changes direction and level of
pins. The 4096 random bytes of a transfer are represented by a few that are all different;
noise is a byte like one of them, which `chance` records, or another. `since`, `lost`,
`chance`, `refused` and `steps` are history. `TickElapsed` is one too small across a
wraparound, which makes waits longer by a millisecond and never shorter.

## 4. Runs

| Run | Expect | Shows |
|---|---|---|
| tftp_dup | pass | with unbounded duplication, reordering and delay, early timers, server errors, Ctrl-C, a restart, and `netretry` "yes" or "no": a success is the whole file, acknowledged blocks are stored, nothing stored is overwritten, a late last block may make a success of a failure but the file is whole then, `Download` is implemented |
| tftp_loss | pass | with up to four losses in a file whose block number wraps around twice: as many as `TIMEOUT_COUNT` are survived without a restart, the file is whole as long as nothing is lost, and NetLoop returns |
| tftp_wrap_resend | violation | a block numbered 0 that is sent again, because its acknowledgement was lost, is counted as another wraparound |
| env_store | pass | the environment fits, a start never finds a mixture, and finds what saveenv reported as written |
| wifi_later | pass | the second and later configurations come into force while the environment is not lost |
| wifi_first | violation | the first one does not, when it comes after the first start |
| kermit | pass | with packets lost, damaged anywhere or cut off: k_recv returns, the image is whole and nothing acknowledged is taken back as long as the heads of the packets arrive; an error in a head costs one block at most; `Download` is implemented until then |
| spi_flash | pass | 0 means that image and neighbours are in the flash; failures cost the neighbours one sector at most; finished sectors are never touched again |
| upgrade | pass | factory settings, the saved environment and whole upgrades last, the board dies only of upgrades that were cut off or erase commands, and a long press of the button decides what may change, whatever keys are pressed |
| upgrade_aborted | violation | a TFTP download that was stopped is burned as far as it came |
| ap_client | pass | no open network with a key, no mixture of settings, beacon and LED follow, and the station comes back to the network for good |
| io_test | pass | the console is given back unless tcsetattr fails, open ports keep their settings, what is saved belongs to the port opened last, a passed test lost nothing unless noise looked like it, waits are whole unless the clock is set, LEDs are written, the program ends unless it waits for a key on a pipe or on a terminal that is not raw |

The violations are the findings of `PROJECT.json`, each with the line that says otherwise.

Further configurations, to be run by hand (`tlc -config X.cfg M`), show where the
assumptions of the runs and of the proofs are needed, and what the code does without them:

| Configuration | Module | Result |
|---|---|---|
| TftpSamePort | MCTftp | `SuccessMeansWholeFile` fails: a restart on the same port, made from the timer (tftp.c:373), may take blocks of the transfer before and end with one missing |
| TftpOnce | MCTftp | `OnceIsNotRetried` fails: without `CONFIG_NET_MULTI`, `netretry=once` retries like "yes" |
| EnvOverflow | MCEnvStore | `SaveenvPersists` fails: after an overflow (cmd_nvedit.c:318) the checksum is the old one, saveenv reports success and the next start finds nothing |
| WifiLost | MCWifiConfig | `RenumberedConfigApplied` fails: after the environment is lost, new configurations are passed over |
| KermitEarly | MCKermit | `WholeImage` fails for a sender whose timer runs out while the answer is on its way: a damaged second copy takes back the block of the first one |
| UpgradeReturns | MCUpgrade | `NotReached` fails: with no kernel in the flash, option 3 runs out of board_init_r (board.c:2127) |
| Serial | MCSerial | `KeepsOwn`, `SavedIsLast` hold for two objects that open and close two ports in any order |
| SerialTables | MCSerial | `SetAsAsked` holds for all 8 rates with a constant in all 24 modes |
| SerialOdd | MCSerial | `SetAsAsked` fails for 14400 and 28800, which are in the table as plain numbers (serial.cpp:55) |
| SerialLines | MCSerial | `LinesAsAsked` fails: turning off DTR turns off RTS (serial.cpp:354) |
| IoTestPorts | MCIoTest | `PortsRestored` fails: after the program, a UART does not have its settings back (serial.cpp:172) |

Bounds. Three blocks give a first, a middle and a last one, which is all `TftpHandler` tells
apart; sequence numbers run to 4, so that there is no wraparound, except in tftp_loss (3, with
seven blocks, so that it comes twice) and tftp_wrap_resend (3, with four blocks). One retry and one restart suffice to have packets of two
transfers in transit at once; the retry limit is 2 and the losses 4 in tftp_loss, so that the
limit is met, passed, and met again after a restart. Two sessions let an answer to a repeated
request compete with the first one; tftp_loss has six, so that a request is never left
unanswered for want of one. For the environment: three names, one of them write-once, values
of two lengths and one that is refused, room beside the default for two short entries or
one long one, so that overflows with and without an old entry occur; two pages, the least
that can be mixed. WifiConfig needs one page (mixtures are EnvStore's subject), two networks,
two keys and up to four configurations. `MaxRestarts` and `MaxSeq` are bounds of
the model, not of the code: at the bound, `startAgainTimeout` and option c are disabled.
Terminates is therefore about transfers with at most `MaxRestarts` restarts' worth of losses;
a server that is never there keeps the code retrying for ever, as it is meant to.

Kermit: six blocks and six sequence numbers, so that the numbers go round within the image,
and five faults, so that each packet of a repetition may be hit again. SpiFlash: four sectors of two pages, calls with a
partly covered sector in front, whole sectors and a partly covered one behind, none of them,
and one page too many; two calls, so that the second finds what a failure of the first has
left. Upgrade: a boot loader of two units, an area of three, and files from one unit to one
too many for each; the button held for times on either side of each threshold; two options
one after the other and one burn or save that fails. ApClient: two
access points of one name in a table of one entry, so that the limit is met; two changes, one
failed ioctl. IoTest: one pin, transfers of two bytes in either direction, a tick of five
values, so that every wait crosses the wraparound from some start, two faults, which is what
it takes to make up the number of a lost byte; setting the clock is one of them.

Fairness. In tftp_loss: NetLoop runs on (weak fairness of `Loop`: it is one thread that
never blocks), a packet that is not lost is received and an armed timer runs out in the end
(strong, because each is only enabled in its part of the iteration, which comes round again
and again), and the server answers (weak; the server is an assumption). Nothing is assumed of
Ctrl-C or of losses. In kermit: k_recv reads what arrives, and the sender, an assumption,
reads answers and sends again; faults are finite by their bound, so that Returns is about
lines that work again in the end. In ap_client: the daemon runs on (weak), and the
driver, if it can associate in sleep after sleep, does so in one of them (strong): an
association that always takes longer than ten seconds would be undone by each round. In
io_test: time, the cable and what the program does by itself (`Goes`) go on (weak); no driver
has to fail, no key has to come, and nothing is assumed of the clock.

Deadlock is not checked where the system may stop: ioTest ends; an Upgrade ends with a dead
board; SpiFlash ends with the bound of calls.

Each property of a passing run has a mutant, a definition changed as a plausible mistake
would change the code (a limit not counted, the handler left in place, an overflow overlooked by one, a checksum not updated, ...) under which TLC finds the
property violated.

## 5. Proofs

The eight modules `*Proofs`, checked by TLAPS, for every value of the constants that the
`ASSUME`s of the modules admit.

* `TypeCorrect`: `Spec => []TypeOK`. The timeout count is bounded only because a transfer that
  has been given up never arms its timer again; `LimitsOK` says so and is proved along.
* `WholeFile`, `AckedStored`, `NothingOverwritten`, `Refinement`, under `Regular`: the block
  number does not wrap around, and each start of the transfer has a port of its own. Both are
  needed, as TftpWrapResend and TftpSamePort show, and the code guarantees neither: they
  are what a user has to see to (files below 32 MB; the ports are drawn from a timer).
  The invariant is `TransferInv`. SuccessMeansWholeFile is not inductive: that the last
  block completes the file depends on what can be in transit. So `PacketOK` says that a block
  is in transit only when all blocks before it are in memory, and an acknowledgement only when
  its block is; `SessionOK` says the same of the server, `ClientOK` of what the client would
  acknowledge next, and `PortOK` that nobody knows the port of a restarted transfer before its
  request has left, which is why a late packet cannot be taken for one of the new transfer.
  `MemInOrder` (memory is an initial part of the file) gives the refinement mapping:
  `image <- mem`, `status` from `pc` and `ret`.
* `LossesRetried`, under `Orderly`: packets come at most once, timers run out only when nothing
  is in transit, the server does not give up and has a session to open. These are the
  conditions of tftp_loss, but files have any length and block numbers may wrap
  around. That a timeout was spent for each loss is not visible in the client alone; `RetryInv` adds
  that at most one packet is on its way (`OneOnTheWay`), that there were no more timeouts than
  losses and, when there were as many, the answer the client waits for is still to come
  (`LossesCounted`), and how far each session is from the client (`SessionsInStep`).
* `WholeFileWraps`, under `Orderly`: as long as nothing was lost, a success is the whole file
  for any number of wraparounds, which `WholeFile` leaves out (`WholeUnlessLost`). `TurnsInv` says whose
  turn it is: a request, the next block, its acknowledgement or nothing is on its way, and the
  first n blocks are stored, with the offset n - n % 2^16. The condition on losses is needed,
  as TftpWrapResend shows.
* `EnvTypeCorrect`, `NeverAMixture`, `SaveFound`: for environments of any names and values and
  any number of pages. The invariant is `EnvInv`: until the erase the sector holds what was
  there before, after it only pages of the block being written, all of those counted
  (`SectorOK`); the checksum is behind only after an overflow (`ChecksumOK`).
* `AlwaysFits`: for the same, with the default environment small enough (`DefaultAssumption`,
  which env_common.c:242 checks). `RoomInv` says of every environment that can come back, in
  RAM, in the buffer of saveenv or from before the save, that it fits; `NoMixture` says that
  nothing else can be found in the flash.
* `LaterApplied`: for any files on the stick and any size of the environment, so that it may
  run full in option c, and a power failure between any two steps. `WifiInv` relates the
  environment in RAM, the one a start would find, and the sequence number UCI has taken over
  last, stage by stage (`FlashInStep`, `NothingYet`, `LoadedIsStored`). `WifiAssumption` says
  that nothing of the Wi-Fi settings is write-once or in the default environment.
* `KTypeCorrect`, without any condition, and `KermitWholeImage`, `KermitAcknowledgedKept`, under
  `Patient`: the sender does not send while something is on the line. This is needed, as
  KermitEarly shows, and so is the condition of the properties that no head was damaged: an
  error before the sequence number goes back to the checkpoint of the packet before. The
  invariant `KSound` says that, until then, `KInv` holds: at most one packet or answer is on
  the line, which is the sender's current one, and memory and checkpoint go with whether it
  has been read before.
* `KermitErrorCostsOneBlock`, under `Patient`, whatever is damaged: `CostInv` bounds, place by
  place, how far memory and checkpoint are from what the sender has sent by the number of faults.
* `KermitRefinement`, under `Patient`: until a head is damaged, the Kermit download implements
  `Download`, as the TFTP download does. Memory itself is taken back when a packet turns
  out to be damaged, also one that has been read whole before and is repeated, so the mapping
  is `image <- Acknowledged`, the part of memory the sender knows of. `KInv`, and that the sender
  is at its end or hears no more once k_recv has returned (`Over`), give the steps.
* `FlashTypeCorrect`, `ImageWritten`, `OthersKept`, `DoneKept`: for chips, offsets and images of
  any size. `FInv` says, for each phase of the loop, which pages hold what they have to
  hold: those before `offs` the final content, those outside the range the old one except in
  the sector being rewritten, whose old content is in `block`; what has been compared so far
  matches. Nothing about the erase or write phase is needed for the return of 0, since the
  comparison alone decides: this is why unnoticed failures do no harm.
* `UTypeCorrect`, `UpgradeSettingsKept`, `UpgradeWholeLasts`, `DeadBoards`, `ButtonAlwaysDecides`: for
  flashes and files of any size. `UInv` adds to the properties that what is burned was found to
  fit (`BurnOK`), is of the option's kind (`LoadOK`), and that the units burned so far hold it.
  ButtonDecides is about steps; `ButtonOK` says that after a long press what is loaded and burned
  is what the button has chosen, and that the board comes neither to the command line nor to
  saveenv.
* `ApTypeCorrect`, `ApNeverOpen`, `ApBeacon`: for any number of access points, channels and
  failures. `DaemonInv` adds what the driver's settings are between `Start` and `Enable`
  (`OffOK`).
* `PortsKeepOwn`, `SavedBelongsToLast`: for any number of objects and ports (`SerialInv`), opened
  and closed in any order; `ProgramKeepsPorts`: for ioTest, whose tests and destructors open and
  close them, along the same invariant.
* `AllIsCarried`, `BufferHasRoom`: for transfers of any number, size and chunking. CarriedAll
  speaks of the end of TestUart only; `CarryInv` says that each transfer begins with silent
  lines and, of the bytes of a transfer (`Transfer`), that those on the line are in ascending
  order and behind those that have come: a byte that was lost is nowhere else, so that the
  comparison with what was sent finds it, whatever noise came in its place, as long as that was
  not a byte like those sent (`chance`).
* `ConsoleIsKept`, unless tcsetattr fails, `LedsAlwaysFollow`, for writes that work on pins that are
  outputs, and `WaitsAreWhole`, as long as nobody has set the clock: for any number of pins,
  transfers, faults and range of the tick. `WaitsAreWhole` needs that what
  TickElapsed returns is never more than what has passed, `LedsAlwaysFollow` that the
  remembered level of a pin is unknown or the one of the phase before.

Induction over data. The library's induction theorems, which take an operator, are not usable
here, but the one on minimal elements of a well-founded relation (`WFMin`) is a first-order
fact: `LeastNatural` in `EnvStoreProofs` says that a nonempty set of numbers has a least
element, and `SubsetInduction` that a family of subsets of a finite set holds all of them when no
subset outside the family is a smallest one outside. The sums behind `Fits` rest on both.

Only model-checked: `Terminates`, `Returns`, `Reconnects` and `Ends` (liveness under fairness is
out of the prover's reach), and `SetAsAsked` (two fixed tables, checked entry by entry).

## 6. Not modelled

BOOTP, RARP, NFS and PING in `net.c`, S-records in `cmd_load.c`, the `cp` command, the descriptor
rings of the Ethernet driver and the SPI bus commands (hardware access), the contents of
images, genMacAddr (a sequential tool that is run once), and the utilities no program calls.

By far the most of the repository's 600 000 lines of C is third-party: U-Boot with drivers and
boards that this one does not have (NAND, SD cards, other CPUs), OpenWrt's packages and
kernel files for other processors (Lantiq, yaffs2), and headers. None of it is changed for or
called on this board by what the repository adds; modelling it would say nothing about this
system. The lines mapped here are those that decide whether the board starts, what
is in its flash, and what the programs of this repository do. `PROJECT.json` lists the
parts left out, each with its reason.
