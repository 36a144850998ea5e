------------------------------- MODULE IoTest -------------------------------
(***************************************************************************)
(* The program ioTest (eclipse_openwrt/ioTest/src/main.cpp), which composes *)
(* the serial ports of module Serial and the pins of module Gpio: main puts *)
(* the terminal of stdin into raw mode, Go runs TestUart, where the two     *)
(* UARTs send to each other through a crossed cable, and TestAllGpio, which *)
(* blinks LEDs, and main gives the terminal back.  Time is read with        *)
(* GetTick and TickElapsed of utils.cpp, from a counter that wraps around.  *)
(***************************************************************************)
EXTENDS Serial, Gpio

CONSTANTS
  NPins,      \* pins in gpio_list
  Loops,      \* transfers in each direction: 5 in the code
  Size,       \* bytes of tx_buf: 4096
  Chunk,      \* bytes of buf: 128
  TickRange,  \* values of the tick: 2^32
  Timeout,    \* milliseconds without data: 1000
  Wait,       \* milliseconds between two changes of a LED: 500 or 1000
  MaxLag,     \* bound: the most that passes, by the clock, before the program looks at it
  MaxFaults   \* bound: bytes lost or added by the cable and settings of the clock, together

ASSUME IoTestAssumption ==
  /\ Objects = {"uart0", "uart1"} /\ Ports = {"ttyS0", "ttyS1", "stdin"} /\ Pins = 1..NPins
  /\ {NPins, Loops, Size, Chunk, Wait, Timeout} \subseteq Nat \ {0}
  /\ {MaxFaults, TickRange, MaxLag} \subseteq Nat
  /\ Wait < MaxLag /\ Timeout + 1 < MaxLag /\ MaxLag + 1 < TickRange

VARIABLES
  pc,        \* where the program is
  stdin,     \* what stdin is: a terminal, a pipe, or what can be read without waiting
  refused,   \* history: the calls of tcsetattr for a terminal that have failed
  restore,   \* has main set its variable of that name, which it does not initialise?
  clock,     \* what GetTick returns
  tick,      \* tick_rx or tick_wait
  since,     \* history: time that has really passed since tick was read, up to MaxLag
  loop,      \* transfers done, in both directions
  queue,     \* the bytes that wait to be read at each port
  flight,    \* the bytes on their way to each port
  rx_buf,    \* the bytes received
  faults,    \* what MaxFaults counts
  steps,     \* history: times the clock was set
  lost,      \* history: has a byte of a transfer been lost?
  chance,    \* history: has noise looked like a byte of a transfer to the receiver?
  phase,     \* which change of the LEDs is being made
  i          \* the pin it has come to

Console == "stdin"

utilVars == <<clock, tick, since, steps>>
wireVars == <<queue, flight, faults, lost, chance>>
rxVars == <<loop, rx_buf>>
mainVars == <<stdin, restore, refused>>
ledVars == <<phase, i>>
vars == <<serialVars, gpioVars, utilVars, wireVars, rxVars, mainVars, ledVars, pc>>

Raw == <<"raw", Console>>
IsTty == stdin = "terminal"
Wires == {"ttyS0", "ttyS1"}

\* "115200 N81"
UartCfg == <<"1", "1", "5", "2", "0", "0", " ", "N", "8", "1">>

IoInit ==
  /\ SerialInit /\ GpioInit
  /\ pc = "main" /\ stdin \in {"terminal", "pipe", "file"}
  /\ restore = FALSE /\ refused = {}
  /\ clock \in 0..(TickRange - 1) /\ tick = clock /\ since = 0 /\ steps = 0
  /\ loop = 0 /\ rx_buf = <<>>
  /\ queue = [p \in Wires |-> <<>>] /\ flight = queue /\ faults = 0
  /\ lost = FALSE /\ chance = FALSE
  /\ phase = 1 /\ i = 1

-----------------------------------------------------------------------------
(* Time: utils.cpp.                                                         *)

\* Mutant: the wraparound of the counter is not thought of.
TickElapsed_Zero(aTick) == IF clock >= aTick THEN clock - aTick ELSE 0

\* Mutant: the two ticks are swapped when the counter has wrapped around.
TickElapsed_Swapped(aTick) ==
  IF clock >= aTick THEN clock - aTick ELSE (TickRange - 1) - clock + aTick

\* On this 32-bit processor unsigned long has as many values as the tick.
TickElapsed(aTick) ==
  IF clock >= aTick THEN clock - aTick ELSE (TickRange - 1) - aTick + clock

ReadTick == tick' = clock /\ since' = 0 /\ UNCHANGED <<clock, steps>>

\* Time that passes where the program does not look at the clock makes no difference:
\* the clock may start at any value.
TimePasses ==
  /\ pc \in {"recv", "wait", "key"}
  /\ TickElapsed(tick) < MaxLag
  /\ clock' = (clock + 1) % TickRange
  /\ since' = IF since < MaxLag THEN since + 1 ELSE since
  /\ UNCHANGED <<serialVars, gpioVars, wireVars, rxVars, mainVars, ledVars, pc, tick, steps>>

\* GetTick uses gettimeofday: the clock is set by ntpd or by hand.
ClockIsSet ==
  /\ pc \in {"recv", "wait", "key"}
  /\ faults < MaxFaults /\ faults' = faults + 1 /\ steps' = steps + 1
  /\ clock' \in 0..(TickRange - 1)
  /\ UNCHANGED <<serialVars, gpioVars, rxVars, mainVars, ledVars, pc, tick, since,
                 queue, flight, lost, chance>>

-----------------------------------------------------------------------------
(* main and Go.                                                             *)

\* Mutant: restore is never set.
Restoring_Never == FALSE

Restoring == IsTty

\* tcsetattr of the terminal of stdin, which may fail; the program says so and goes on.
\* It always fails when stdin is no terminal.
SetConsole(call, t) ==
  \/ /\ IsTty
     /\ tio' = [tio EXCEPT ![Console] = t] /\ UNCHANGED refused
  \/ /\ refused' = IF IsTty THEN refused \union {call} ELSE refused
     /\ UNCHANGED tio

Main ==
  /\ pc = "main" /\ pc' = "go"
  /\ restore' = Restoring
  /\ SetConsole("apply", Raw)
  /\ UNCHANGED <<gpioVars, utilVars, wireVars, rxVars, ledVars, stdin,
                 fdComPort, gOldTio, modem, cfg, asked, found, last>>

\* ExtractParam fails or asks for the version only, or the tests start.
Go ==
  /\ pc = "go" /\ pc' \in {"open0", "exit"}
  /\ UNCHANGED <<serialVars, gpioVars, utilVars, wireVars, rxVars, mainVars, ledVars>>

\* A variable restore that was never set may have either value.
Exit ==
  /\ pc = "exit" /\ pc' = "done"
  /\ \/ SetConsole("restore", Orig(Console))
     \/ ~restore /\ UNCHANGED <<tio, refused>>
  /\ UNCHANGED <<gpioVars, utilVars, wireVars, rxVars, ledVars, stdin, restore,
                 fdComPort, gOldTio, modem, cfg, asked, found, last>>

-----------------------------------------------------------------------------
(* TestUart.                                                                *)

\* The UART that sends now, the port it sends to and the port that should be silent.
Sender == IF loop % 2 = 0 THEN "uart0" ELSE "uart1"
Receiver == IF loop % 2 = 0 THEN "ttyS1" ELSE "ttyS0"
Other == IF loop % 2 = 0 THEN "ttyS0" ELSE "ttyS1"

\* The end of a test: nothing reads what has come or still comes.
Discard == rx_buf' = <<>> /\ queue' = [p \in Wires |-> <<>>] /\ flight' = queue'

\* return -1: the destructors run, uart1's first.
Fail(at) ==
  /\ pc = at /\ pc' = "destroy1" /\ Discard
  /\ UNCHANGED <<serialVars, gpioVars, utilVars, mainVars, ledVars, loop, faults, lost, chance>>

Open(at, o, p, next) ==
  /\ pc = at /\ pc' = next
  /\ openPort(o, p, UartCfg)
  /\ UNCHANGED <<gpioVars, utilVars, wireVars, rxVars, mainVars, ledVars>>

\* Both ports send a few bytes; after 50 ms, when they have come, what was received is
\* thrown away.
Dummy ==
  /\ pc = "dummy" /\ pc' = "flush"
  /\ flight' = [p \in Wires |-> <<0>>]
  /\ UNCHANGED <<serialVars, gpioVars, utilVars, rxVars, mainVars, ledVars, queue, faults, lost, chance>>

Flush ==
  /\ pc = "flush" /\ pc' = "send"
  /\ \A p \in Wires : flight[p] = <<>>
  /\ queue' = [p \in Wires |-> <<>>]
  /\ UNCHANGED <<serialVars, gpioVars, utilVars, rxVars, mainVars, ledVars, flight, faults, lost, chance>>

\* writePort: a short write is a failure.
Send ==
  /\ pc = "send" /\ pc' = "recv"
  /\ flight' = [flight EXCEPT ![Receiver] = @ \o [k \in 1..Size |-> k]]
  /\ rx_buf' = <<>> /\ ReadTick
  /\ UNCHANGED <<serialVars, gpioVars, mainVars, ledVars, loop, queue, faults, lost, chance>>

\* readPort returns some of the bytes that wait.  rx_buf has room for Size + Chunk.
Recv ==
  /\ pc = "recv" /\ Len(rx_buf) < Size /\ pc' = pc
  /\ \E n \in 1..Chunk :
       /\ n <= Len(queue[Receiver])
       /\ rx_buf' = rx_buf \o SubSeq(queue[Receiver], 1, n)
       /\ queue' = [queue EXCEPT ![Receiver] = SubSeq(@, n + 1, Len(@))]
  /\ ReadTick
  /\ UNCHANGED <<serialVars, gpioVars, mainVars, ledVars, loop, flight, faults, lost, chance>>

RxTimeout ==
  /\ Len(rx_buf) < Size /\ queue[Receiver] = <<>>
  /\ TickElapsed(tick) > Timeout
  /\ Fail("recv")

\* Mutant: only the first byte is compared.
Verified_First == rx_buf[1] = 1

\* memcmp of what was sent with as much of what was received.
Verified == SubSeq(rx_buf, 1, Size) = [k \in 1..Size |-> k]

\* The transfer has come through and the sender's own port has received nothing.
Passed ==
  /\ pc = "recv" /\ Len(rx_buf) >= Size /\ Verified
  /\ queue[Other] = <<>>
  /\ loop' = loop + 1
  /\ pc' = IF loop + 1 = 2 * Loops THEN "close0" ELSE "send"
  /\ UNCHANGED <<serialVars, gpioVars, utilVars, wireVars, mainVars, ledVars, rx_buf>>

\* readPort returns -1, for the port that receives or for the one that should be silent.
ReadFails == (Len(rx_buf) >= Size => Verified) /\ Fail("recv")

NotPassed ==
  /\ Len(rx_buf) >= Size /\ (~Verified \/ queue[Other] # <<>>)
  /\ Fail("recv")

\* closePort, by the program or by the destructor: does nothing if the port is closed.
Close(at, o, next) ==
  /\ pc = at /\ pc' = next
  /\ IF Opened(o) THEN closePort(o) ELSE UNCHANGED serialVars
  /\ Discard
  /\ UNCHANGED <<gpioVars, utilVars, mainVars, ledVars, loop, faults, lost, chance>>

\* What the drivers may refuse, and what the program does otherwise.
UartFails == Fail("open0") \/ Fail("open1") \/ Fail("send") \/ ReadFails

UartGoes ==
  \/ Open("open0", "uart0", "ttyS0", "open1")
  \/ Open("open1", "uart1", "ttyS1", "dummy")
  \/ Dummy \/ Flush \/ Send
  \/ Recv \/ RxTimeout \/ Passed \/ NotPassed
  \/ Close("close0", "uart0", "close1") \/ Close("close1", "uart1", "setup")
  \/ Close("destroy1", "uart1", "destroy0") \/ Close("destroy0", "uart0", "exit")

TestUart == UartGoes \/ UartFails

-----------------------------------------------------------------------------
(* The cable, and whoever else uses the pins.                               *)

Deliver(p) ==
  /\ flight[p] # <<>>
  /\ flight' = [flight EXCEPT ![p] = Tail(@)]
  /\ queue' = [queue EXCEPT ![p] = Append(@, Head(flight[p]))]
  /\ UNCHANGED <<serialVars, gpioVars, utilVars, rxVars, mainVars, ledVars, pc, faults, lost, chance>>

\* Errors on the cable.  What comes before the ports are flushed is thrown away.
Lose(p) ==
  /\ pc = "recv" /\ flight[p] # <<>> /\ faults < MaxFaults
  /\ flight' = [flight EXCEPT ![p] = Tail(@)]
  /\ faults' = faults + 1 /\ lost' = TRUE
  /\ UNCHANGED <<serialVars, gpioVars, utilVars, rxVars, mainVars, ledVars, pc, queue, chance>>

\* The byte that noise makes may be one that was never sent, 0 here, or one that was:
\* tx_buf holds random bytes, the model a different one in each place.
Noise(p) ==
  /\ pc = "recv" /\ faults < MaxFaults
  /\ \E b \in 0..Size :
       /\ queue' = [queue EXCEPT ![p] = Append(@, b)]
       /\ chance' = (chance \/ (b # 0 /\ p = Receiver))
  /\ faults' = faults + 1
  /\ UNCHANGED <<serialVars, gpioVars, utilVars, rxVars, mainVars, ledVars, pc, flight, lost>>

\* Another process changes the direction or the level of a pin, before it is set up or
\* later.  A change during a wait is the same as one at its end.
OtherWrites(n) ==
  /\ pc \in {"setup", "set"}
  /\ \E dir \in {"in", "out"}, level \in {0, 1} :
       pin' = [pin EXCEPT ![n] = [dir |-> dir, level |-> level]]
  /\ UNCHANGED <<serialVars, utilVars, wireVars, rxVars, mainVars, ledVars, pc, gpioInfo>>

-----------------------------------------------------------------------------
(* TestAllGpio: all LEDs on and off twice, then one after the other.        *)

Phases == 4 + 2 * NPins
FirstPin(k) == IF k <= 4 THEN 1 ELSE ((k - 3) \div 2)
LastPin(k) == IF k <= 4 THEN NPins ELSE FirstPin(k)
Level(k) == IF k % 2 = 1 THEN 1 ELSE 0

Setup ==
  /\ pc = "setup"
  /\ setup(i, TRUE)
  /\ IF i < NPins THEN i' = i + 1 /\ pc' = pc ELSE i' = 1 /\ pc' = "set"
  /\ UNCHANGED <<serialVars, utilVars, wireVars, rxVars, mainVars, phase>>

SetupFails ==
  /\ pc = "setup" /\ pc' = "leave"
  /\ setupFails(i, TRUE)
  /\ UNCHANGED <<serialVars, utilVars, wireVars, rxVars, mainVars, ledVars>>

\* set returns -1 for no pin that has been set up.
SetPinBy(written) ==
  /\ pc = "set"
  /\ set(i, Level(phase), written)
  /\ IF i < LastPin(phase)
     THEN i' = i + 1 /\ UNCHANGED <<pc, utilVars>>
     ELSE pc' = "wait" /\ ReadTick /\ UNCHANGED i
  /\ UNCHANGED <<serialVars, wireVars, rxVars, mainVars, phase>>

SetPin == \E written \in BOOLEAN : SetPinBy(written)

WaitEnds ==
  /\ pc = "wait" /\ TickElapsed(tick) >= Wait
  /\ IF phase < Phases
     THEN phase' = phase + 1 /\ i' = FirstPin(phase + 1) /\ pc' = "set"
     ELSE pc' = "leave" /\ UNCHANGED <<phase, i>>
  /\ UNCHANGED <<serialVars, gpioVars, utilVars, wireVars, rxVars, mainVars>>

\* A read of stdin waits for a line when the terminal is not raw, and for a byte when
\* stdin is a pipe; otherwise it returns at once.
MayBlock == stdin = "pipe" \/ (IsTty /\ tio[Console] # Raw)

\* GetKey waits in read.
GetKey ==
  /\ pc = "wait" /\ TickElapsed(tick) < Wait /\ MayBlock /\ pc' = "key"
  /\ UNCHANGED <<serialVars, gpioVars, utilVars, wireVars, rxVars, mainVars, ledVars>>

\* A key other than ESC, or the end of the input.
KeyComes ==
  /\ pc = "key" /\ pc' = "wait"
  /\ UNCHANGED <<serialVars, gpioVars, utilVars, wireVars, rxVars, mainVars, ledVars>>

\* GetKey returns ESC.
Abort ==
  /\ pc = "key" \/ (pc = "wait" /\ TickElapsed(tick) < Wait)
  /\ pc' = "leave"
  /\ UNCHANGED <<serialVars, gpioVars, utilVars, wireVars, rxVars, mainVars, ledVars>>

\* The destructor of gpio.
Leave ==
  /\ pc = "leave" /\ pc' = "exit" /\ closeGpio
  /\ UNCHANGED <<serialVars, utilVars, wireVars, rxVars, mainVars, ledVars>>

GpioGoes == Setup \/ SetPin \/ WaitEnds \/ GetKey \/ Leave

TestAllGpio == GpioGoes \/ SetupFails \/ KeyComes \/ Abort

-----------------------------------------------------------------------------
\* What the program does by itself: nothing here is an error of a driver or a key.
Goes == Main \/ Go \/ UartGoes \/ GpioGoes \/ Exit

Program == Main \/ Go \/ TestUart \/ TestAllGpio \/ Exit

IoNext ==
  \/ Program
  \/ TimePasses \/ ClockIsSet
  \/ \E p \in Wires : Deliver(p) \/ Lose(p) \/ Noise(p)
  \/ \E n \in Pins : OtherWrites(n)

IoSpec == IoInit /\ [][IoNext]_vars

\* The program runs, time goes on and the cable carries what it does not lose.  No driver
\* has to fail and no key has to come.
IoFairSpec ==
  IoSpec /\ WF_vars(Goes) /\ WF_vars(TimePasses)
         /\ \A p \in Wires : WF_vars(Deliver(p))

-----------------------------------------------------------------------------
(* Properties.                                                              *)

\* The terminal of stdin is raw while the program waits for keys, so that GetKey does
\* not block (main.cpp:78-81), and has its own settings at every exit, whichever
\* test fails and however the ports of TestUart are closed, unless tcsetattr itself
\* fails; and when only the first one fails, the second does no harm.
ConsoleKept ==
  IsTty => /\ pc = "wait" /\ "apply" \notin refused => tio[Console] = Raw
           /\ pc = "done" /\ "restore" \notin refused => tio[Console] = Orig(Console)

\* "Save Term" (serial.cpp:171): when the program has ended, the two ports have the
\* settings back that they had before it.
PortsRestored == pc = "done" => \A p \in Wires : tio[p] = Orig(p)

\* When TestUart succeeds, every transfer has been made, and a byte of one has been lost
\* only if noise has by chance put a byte like those that were sent on the same line: any
\* other byte does not make up for one that is missing, and no transfer is passed over.
CarriedAll ==
  pc \in {"close0", "close1", "setup", "set", "wait", "key"} =>
    (lost => chance) /\ loop = 2 * Loops

\* "Wait 1s" (main.cpp:228) and "Rx timeout" (:400): no wait ends, and no transfer is
\* given up, before its time has passed, also when the tick wraps around meanwhile,
\* as long as nobody sets the clock.
WaitsWhole ==
  [][steps = 0 => (WaitEnds => since >= Wait) /\ (RxTimeout => since > Timeout)]_vars

\* Every time a LED is to be turned on or off (main.cpp:216-298) its level is written,
\* even when another process has changed it: the state remembered by gpio.cpp:204
\* never stands in the way.  So the level is right whenever the write works and the pin
\* is an output.
LedsFollow ==
  [][SetPinBy(TRUE) /\ pin[i].dir = "out" => pin'[i].level = Level(phase)]_vars

\* Every run of the program ends, whatever the cable loses and however the tick wraps
\* around or is set: no loop of TestUart (main.cpp:388-415) or TestAllGpio
\* (:228-239) goes on for ever.  It hangs only in GetKey (:175), and there only if stdin
\* is a pipe or its terminal could not be made raw.
Ends ==
  <>(pc = "done") \/ <>[](pc = "key" /\ (stdin = "pipe" \/ "apply" \in refused))
=============================================================================
