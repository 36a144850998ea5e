---------------------------- MODULE IoTestProofs ----------------------------
(***************************************************************************)
(* For every number of pins and transfers, every size of the buffers and    *)
(* every range of the tick.  The lemmas about the serial ports do not cite  *)
(* IoTestAssumption: they hold for any objects, ports and configurations.   *)
(***************************************************************************)
EXTENDS IoTest, TLAPS

-----------------------------------------------------------------------------
(* The serial ports.                                                        *)

Shape ==
  /\ fdComPort \in [Objects -> Ports \union {NoPort}]
  /\ tio = [p \in Ports |-> tio[p]]
  /\ cfg = [o \in Objects |-> cfg[o]]
  /\ found = [o \in Objects |-> found[o]]

\* No two objects have the same port open.
OwnPorts ==
  \A o, q \in Objects : o # q /\ Opened(o) => fdComPort[o] # fdComPort[q]

SerialInv == Shape /\ OwnPorts /\ KeepsOwn /\ SavedIsLast

\* Nothing is open at the start.
LEMMA SerialInitInv == SerialInit => SerialInv
  BY DEF SerialInit, SerialInv, Shape, OwnPorts, KeepsOwn, SavedIsLast, Opened

\* Opening a port that nobody has open changes no other one.
LEMMA OpenInv ==
  ASSUME SerialInv, NEW o \in Objects, NEW p \in Ports, NEW s,
         \A q \in Objects : fdComPort[q] # p, openPort(o, p, s)
  PROVE  SerialInv'
  <1> USE SerialAssumption DEF Shape, Opened, openPort, SerialInv
  <1>1. Shape'
    OBVIOUS
  <1>2. OwnPorts'
    BY DEF OwnPorts
  <1>3. KeepsOwn'
    <2> SUFFICES ASSUME NEW q \in Objects, fdComPort'[q] # NoPort
                 PROVE  tio'[fdComPort'[q]] = Ours(cfg'[q].flags)
      BY DEF KeepsOwn
    <2>1. CASE q = o
      BY <2>1
    <2>2. CASE q # o
      BY <2>2 DEF KeepsOwn
    <2> QED BY <2>1, <2>2
  <1>4. SavedIsLast'
    BY DEF SavedIsLast
  <1> QED BY <1>1, <1>2, <1>3, <1>4

\* Closing gives settings back to the port that is closed and to no other.
LEMMA CloseInv ==
  ASSUME SerialInv, NEW o \in Objects, closePort(o)
  PROVE  SerialInv'
  <1> USE SerialAssumption DEF Shape, Opened, closePort, ClosedPort, AfterClose, SerialInv
  <1>1. Shape'
    OBVIOUS
  <1>2. OwnPorts'
    BY DEF OwnPorts
  <1>3. KeepsOwn'
    <2> SUFFICES ASSUME NEW q \in Objects, fdComPort'[q] # NoPort
                 PROVE  tio'[fdComPort'[q]] = Ours(cfg'[q].flags)
      BY DEF KeepsOwn
    <2>1. q # o /\ fdComPort'[q] = fdComPort[q] /\ cfg'[q] = cfg[q]
      OBVIOUS
    <2>2. fdComPort[q] # fdComPort[o]
      BY <2>1 DEF OwnPorts
    <2> QED BY <2>1, <2>2 DEF KeepsOwn
  <1>4. SavedIsLast'
    BY DEF SavedIsLast
  <1> QED BY <1>1, <1>2, <1>3, <1>4

\* Every step keeps the invariant.
LEMMA SerialNextInv == SerialInv /\ [SerialNext]_serialVars => SerialInv'
  <1> SUFFICES ASSUME SerialInv, [SerialNext]_serialVars PROVE SerialInv'
    OBVIOUS
  <1>1. ASSUME NEW o \in Objects, NEW p \in Ports, NEW s \in Configs,
               \A q \in Objects : fdComPort[q] # p, openPort(o, p, s)
        PROVE  SerialInv'
    BY <1>1, OpenInv
  <1>2. ASSUME NEW o \in Objects, closePort(o) PROVE SerialInv'
    BY <1>2, CloseInv
  <1>3. ASSUME NEW o \in Objects, NEW line, NEW on, setLine(o, line, on) PROVE SerialInv'
    BY <1>3 DEF setLine, SerialInv, Shape, OwnPorts, KeepsOwn, SavedIsLast, Opened
  <1>4. CASE UNCHANGED serialVars
    BY <1>4 DEF serialVars, SerialInv, Shape, OwnPorts, KeepsOwn, SavedIsLast, Opened
  <1> QED BY <1>1, <1>2, <1>3, <1>4 DEF SerialNext

\* The invariant holds throughout.
THEOREM SerialInvariant == SerialSpec => []SerialInv
  BY SerialInitInv, SerialNextInv, PTL DEF SerialSpec

\* An open port keeps the settings of the object that opened it (serial.cpp:211, 227).
THEOREM PortsKeepOwn == SerialSpec => []KeepsOwn
  BY SerialInvariant, PTL DEF SerialInv

\* What gOldTio points to belongs to the object opened last, which is still open
\* (serial.cpp:172, 225-230).
THEOREM SavedBelongsToLast == SerialSpec => []SavedIsLast
  BY SerialInvariant, PTL DEF SerialInv

\* In the program each UART has an object of its own: uart0 is closed when it is opened,
\* uart1 too, and the terminal of stdin belongs to neither, so that what main does to it
\* touches no open port.
PortsInv ==
  /\ SerialInv
  /\ fdComPort["uart0"] \in {"ttyS0", NoPort} /\ fdComPort["uart1"] \in {"ttyS1", NoPort}
  /\ pc \in {"main", "go", "open0"} => fdComPort["uart0"] = NoPort
  /\ pc \in {"main", "go", "open0", "open1"} => fdComPort["uart1"] = NoPort

\* Steps that leave the ports alone.
LEMMA PortsElsewhere ==
  ASSUME PortsInv, UNCHANGED serialVars,
         \/ pc' = pc \/ pc' \notin {"main", "go", "open0", "open1"}
         \/ pc \in {"main", "go"} /\ pc' \in {"go", "open0"}
  PROVE  PortsInv'
  BY DEF PortsInv, serialVars, SerialInv, Shape, OwnPorts, KeepsOwn, SavedIsLast, Opened

\* main and its end change the terminal of stdin, which no object has open.
LEMMA PortsConsole ==
  ASSUME PortsInv, tio' = tio \/ \E t : tio' = [tio EXCEPT ![Console] = t],
         UNCHANGED <<fdComPort, gOldTio, cfg, found, last>>,
         (pc = "main" /\ pc' = "go") \/ pc' = "done"
  PROVE  PortsInv'
  <1> USE IoTestAssumption, SerialAssumption DEF PortsInv, SerialInv, Console
  <1>1. Shape'
    BY DEF Shape
  <1>2. OwnPorts' /\ SavedIsLast'
    BY DEF OwnPorts, SavedIsLast, Opened
  <1>3. \A o \in Objects : fdComPort[o] # Console
    OBVIOUS
  <1>4. KeepsOwn'
    BY <1>3 DEF KeepsOwn, Shape, Opened
  <1> QED BY <1>1, <1>2, <1>4

\* Opening a UART, which nothing else has open.
LEMMA PortsOpen ==
  ASSUME PortsInv,
         \/ Open("open0", "uart0", "ttyS0", "open1") \/ Open("open1", "uart1", "ttyS1", "dummy")
  PROVE  PortsInv'
  <1> USE IoTestAssumption, SerialAssumption
  <1>1. CASE Open("open0", "uart0", "ttyS0", "open1")
    <2>1. SerialInv'
      BY <1>1, OpenInv DEF Open, PortsInv
    <2> QED BY <1>1, <2>1 DEF Open, openPort, PortsInv, SerialInv, Shape
  <1>2. CASE Open("open1", "uart1", "ttyS1", "dummy")
    <2>1. SerialInv'
      BY <1>2, OpenInv DEF Open, PortsInv
    <2> QED BY <1>2, <2>1 DEF Open, openPort, PortsInv, SerialInv, Shape
  <1> QED BY <1>1, <1>2

\* Closing a UART, open or not.
LEMMA PortsClose ==
  ASSUME PortsInv, NEW at, NEW next, next \notin {"main", "go", "open0", "open1"},
         NEW o \in Objects, Close(at, o, next)
  PROVE  PortsInv'
  <1> USE IoTestAssumption, SerialAssumption
  <1>1. CASE Opened(o)
    <2>1. closePort(o) /\ pc' = next
      BY <1>1 DEF Close
    <2>2. SerialInv'
      BY <2>1, CloseInv DEF PortsInv
    <2>3. fdComPort' = [fdComPort EXCEPT ![o] = NoPort]
      BY <2>1 DEF closePort
    <2> QED BY <2>1, <2>2, <2>3 DEF PortsInv, SerialInv, Shape
  <1>2. CASE ~Opened(o)
    BY <1>2, PortsElsewhere DEF Close
  <1> QED BY <1>1, <1>2

\* Every step of the program keeps the invariant of the ports.
LEMMA PortsNext == PortsInv /\ [IoNext]_vars => PortsInv'
  <1> SUFFICES ASSUME PortsInv, [IoNext]_vars PROVE PortsInv'
    OBVIOUS
  <1>1. CASE Main
    <2>1. tio' = tio \/ tio' = [tio EXCEPT ![Console] = Raw]
      BY <1>1 DEF Main, SetConsole
    <2>2. UNCHANGED <<fdComPort, gOldTio, cfg, found, last>> /\ pc = "main" /\ pc' = "go"
      BY <1>1 DEF Main
    <2> QED BY <2>1, <2>2, PortsConsole
  <1>2. CASE Exit
    <2>1. tio' = tio \/ tio' = [tio EXCEPT ![Console] = Orig(Console)]
      BY <1>2 DEF Exit, SetConsole
    <2>2. UNCHANGED <<fdComPort, gOldTio, cfg, found, last>> /\ pc' = "done"
      BY <1>2 DEF Exit
    <2> QED BY <2>1, <2>2, PortsConsole
  <1>3. CASE Go
    BY <1>3, PortsElsewhere DEF Go
  <1>4. CASE \/ Open("open0", "uart0", "ttyS0", "open1") \/ Open("open1", "uart1", "ttyS1", "dummy")
             \/ Close("close0", "uart0", "close1") \/ Close("close1", "uart1", "setup")
             \/ Close("destroy1", "uart1", "destroy0") \/ Close("destroy0", "uart0", "exit")
    <2>1. "uart0" \in Objects /\ "uart1" \in Objects
      BY IoTestAssumption
    <2> QED BY <1>4, <2>1, PortsOpen, PortsClose
  <1>5. CASE \/ Fail("open0") \/ Fail("open1") \/ Fail("send") \/ ReadFails \/ RxTimeout
             \/ NotPassed
    BY <1>5, PortsElsewhere DEF Fail, ReadFails, RxTimeout, NotPassed
  <1>6. CASE Dummy \/ Flush \/ Send \/ Recv \/ Passed
    BY <1>6, PortsElsewhere DEF Dummy, Flush, Send, Recv, Passed
  <1>7. CASE TestAllGpio
    <2>1. UNCHANGED serialVars /\ pc' \notin {"main", "go", "open0", "open1"}
      BY <1>7 DEF TestAllGpio, GpioGoes, Setup, SetupFails, SetPin, SetPinBy, WaitEnds, GetKey, KeyComes,
            Abort, Leave
    <2> QED BY <2>1, PortsElsewhere
  <1>8. CASE TimePasses \/ ClockIsSet \/ \E n \in Pins : OtherWrites(n)
    BY <1>8, PortsElsewhere DEF TimePasses, ClockIsSet, OtherWrites
  <1>9. CASE \E p \in Wires : Deliver(p) \/ Lose(p) \/ Noise(p)
    BY <1>9, PortsElsewhere DEF Deliver, Lose, Noise
  <1>10. CASE UNCHANGED vars
    BY <1>10, PortsElsewhere DEF vars
  <1> QED
    BY <1>1, <1>2, <1>3, <1>4, <1>5, <1>6, <1>7, <1>8, <1>9, <1>10
    DEF IoNext, Program, TestUart, UartGoes, UartFails

\* The same two facts in the program, where main changes the terminal of stdin beside
\* the two UARTs: at every step an open UART has its own settings, and what gOldTio
\* points to belongs to the port opened last (main.cpp:78-104, serial.cpp:172, 211-230).
THEOREM ProgramKeepsPorts == IoSpec => [](KeepsOwn /\ SavedIsLast)
  <1>1. IoInit => PortsInv
    BY SerialInitInv, IoTestAssumption DEF IoInit, SerialInit, PortsInv
  <1>2. PortsInv => KeepsOwn /\ SavedIsLast
    BY DEF PortsInv, SerialInv
  <1> QED BY <1>1, <1>2, PortsNext, PTL DEF IoSpec

-----------------------------------------------------------------------------
(* The terminal of stdin.                                                   *)

\* The objects use the two UARTs, never the terminal of stdin, whose settings follow
\* from where the program is.
ConsoleInv ==
  /\ fdComPort \in [Objects -> {"ttyS0", "ttyS1", NoPort}]
  /\ tio = [p \in Ports |-> tio[p]]
  /\ pc = "main" => refused = {}
  /\ IsTty =>
       /\ pc = "main" => tio[Console] = Orig(Console)
       /\ pc \notin {"main", "done"} =>
            /\ tio[Console] = IF "apply" \in refused THEN Orig(Console) ELSE Raw
            /\ restore = TRUE
       /\ pc = "done" /\ "restore" \notin refused => tio[Console] = Orig(Console)

\* Opening one of the UARTs, or closing it, leaves the terminal of stdin alone.
LEMMA UartConsole ==
  ASSUME ConsoleInv, NEW o \in Objects,
         openPort(o, "ttyS0", UartCfg) \/ openPort(o, "ttyS1", UartCfg) \/ closePort(o)
  PROVE  /\ fdComPort' \in [Objects -> {"ttyS0", "ttyS1", NoPort}]
         /\ tio' = [p \in Ports |-> tio'[p]]
         /\ tio'[Console] = tio[Console]
  <1> USE IoTestAssumption, SerialAssumption DEF ConsoleInv, Console
  <1>1. CASE closePort(o)
    BY <1>1 DEF closePort, ClosedPort, Opened
  <1>2. CASE openPort(o, "ttyS0", UartCfg) \/ openPort(o, "ttyS1", UartCfg)
    BY <1>2 DEF openPort
  <1> QED BY <1>1, <1>2

\* TestUart keeps the invariant: it never is in main, and never ends the program.
LEMMA TestUartConsole == ASSUME ConsoleInv, TestUart PROVE ConsoleInv'
  <1>1. ASSUME NEW o \in Objects, NEW p \in {"ttyS0", "ttyS1"}, NEW at, NEW next,
               Open(at, o, p, next), at \notin {"main", "done"}, next \notin {"main", "done"}
        PROVE  ConsoleInv'
    BY <1>1, UartConsole DEF Open, ConsoleInv, IsTty, mainVars
  <1>2. ASSUME NEW o \in Objects, NEW at, NEW next,
               Close(at, o, next), at \notin {"main", "done"}, next \notin {"main", "done"}
        PROVE  ConsoleInv'
    <2>1. CASE Opened(o)
      BY <1>2, <2>1, UartConsole DEF Close, ConsoleInv, IsTty, mainVars
    <2>2. CASE ~Opened(o)
      BY <1>2, <2>2 DEF Close, ConsoleInv, IsTty, mainVars, serialVars
    <2> QED BY <2>1, <2>2
  <1>3. ASSUME NEW at, Fail(at), at \notin {"main", "done"} PROVE ConsoleInv'
    BY <1>3 DEF Fail, ConsoleInv, IsTty, mainVars, serialVars
  <1>4. CASE Dummy \/ Flush \/ Send
    BY <1>4 DEF Dummy, Flush, Send, ConsoleInv, IsTty, mainVars, serialVars
  <1>5. CASE Recv \/ Passed
    BY <1>5 DEF Recv, Passed, ConsoleInv, IsTty, mainVars, serialVars
  <1>6. CASE ReadFails \/ RxTimeout \/ NotPassed
    BY <1>3, <1>6 DEF ReadFails, RxTimeout, NotPassed
  <1>7. "uart0" \in Objects /\ "uart1" \in Objects
    BY IoTestAssumption
  <1>8. CASE Open("open0", "uart0", "ttyS0", "open1") \/ Open("open1", "uart1", "ttyS1", "dummy")
    BY <1>1, <1>7, <1>8
  <1>9. CASE \/ Close("close0", "uart0", "close1") \/ Close("close1", "uart1", "setup")
             \/ Close("destroy1", "uart1", "destroy0") \/ Close("destroy0", "uart0", "exit")
    BY <1>2, <1>7, <1>9
  <1>10. CASE Fail("open0") \/ Fail("open1") \/ Fail("send")
    BY <1>3, <1>10
  <1> QED BY <1>4, <1>5, <1>6, <1>8, <1>9, <1>10 DEF TestUart, UartGoes, UartFails

\* Every step keeps the invariant.
LEMMA ConsoleNext == ConsoleInv /\ [IoNext]_vars => ConsoleInv'
  <1> SUFFICES ASSUME ConsoleInv, [IoNext]_vars PROVE ConsoleInv'
    OBVIOUS
  <1>1. CASE Main
    BY <1>1, IoTestAssumption DEF Main, SetConsole, Restoring, ConsoleInv, IsTty, Console
  <1>2. CASE Go
    BY <1>2 DEF Go, ConsoleInv, IsTty, mainVars, serialVars
  <1>3. CASE Exit
    BY <1>3, IoTestAssumption DEF Exit, SetConsole, ConsoleInv, IsTty, Console
  <1>4. CASE TestUart
    BY <1>4, TestUartConsole
  <1>5. CASE Setup \/ SetupFails \/ SetPin
    <2>1. pc \notin {"main", "done"} /\ pc' \notin {"main", "done"}
      BY <1>5 DEF Setup, SetupFails, SetPin, SetPinBy
    <2>2. UNCHANGED <<serialVars, mainVars>>
      BY <1>5 DEF Setup, SetupFails, SetPin, SetPinBy
    <2> QED BY <2>1, <2>2 DEF ConsoleInv, IsTty, mainVars, serialVars
  <1>6. CASE WaitEnds \/ GetKey \/ KeyComes \/ Abort \/ Leave
    BY <1>6 DEF WaitEnds, GetKey, KeyComes, Abort, Leave, ConsoleInv, IsTty, mainVars, serialVars
  <1>7. CASE TimePasses \/ ClockIsSet
    BY <1>7 DEF TimePasses, ClockIsSet, ConsoleInv, IsTty, mainVars, serialVars
  <1>8. CASE \E p \in Wires : Deliver(p) \/ Lose(p) \/ Noise(p)
    BY <1>8 DEF Deliver, Lose, Noise, ConsoleInv, IsTty, mainVars, serialVars
  <1>9. CASE \E n \in Pins : OtherWrites(n)
    BY <1>9 DEF OtherWrites, ConsoleInv, IsTty, mainVars, serialVars
  <1>10. CASE UNCHANGED vars
    BY <1>10 DEF vars, ConsoleInv, IsTty, mainVars, serialVars
  <1> QED
    BY <1>1, <1>2, <1>3, <1>4, <1>5, <1>6, <1>7, <1>8, <1>9, <1>10
    DEF IoNext, Program, TestAllGpio, GpioGoes

\* stdin is raw while the program waits for keys and has its settings back at every
\* exit, unless tcsetattr itself has failed (main.cpp:78-104).
THEOREM ConsoleIsKept == IoSpec => []ConsoleKept
  <1>1. IoInit => ConsoleInv
    BY IoTestAssumption DEF IoInit, SerialInit, ConsoleInv, IsTty, Console
  <1>2. ConsoleInv => ConsoleKept
    BY DEF ConsoleInv, ConsoleKept
  <1> QED BY <1>1, <1>2, ConsoleNext, PTL DEF IoSpec

-----------------------------------------------------------------------------
(* Waits.                                                                   *)

\* As long as nobody has set the clock, the tick has moved on by the time that has
\* passed, once around at most; since stops counting at MaxLag.
LagInv ==
  /\ clock \in 0..(TickRange - 1) /\ tick \in 0..(TickRange - 1) /\ since \in 0..MaxLag
  /\ steps \in Nat
  /\ steps = 0 => \/ since = MaxLag
                  \/ clock >= tick /\ since = clock - tick
                  \/ clock < tick /\ since = TickRange - tick + clock

\* What TickElapsed returns is never more than what has passed.
LEMMA ElapsedBound ==
  ASSUME LagInv, steps = 0 PROVE since = MaxLag \/ TickElapsed(tick) <= since
  BY IoTestAssumption DEF LagInv, TickElapsed

\* Every step keeps the invariant.
LEMMA LagNext ==
  ASSUME LagInv, [IoNext]_vars PROVE LagInv'
  <1> USE DEF LagInv
  <1>1. CASE TimePasses
    <2>1. TickRange \in Nat /\ MaxLag \in Nat /\ MaxLag + 1 < TickRange
      BY IoTestAssumption
    <2>2. clock' = IF clock + 1 = TickRange THEN 0 ELSE clock + 1
      BY <1>1, <2>1 DEF TimePasses
    <2>3. tick' = tick /\ steps' = steps /\ since' = IF since < MaxLag THEN since + 1 ELSE since
      BY <1>1 DEF TimePasses
    <2> QED BY <2>1, <2>2, <2>3
  <1>2. ASSUME ReadTick PROVE LagInv'
    BY <1>2, IoTestAssumption DEF ReadTick
  <1>3. ASSUME UNCHANGED utilVars PROVE LagInv'
    BY <1>3 DEF utilVars
  <1>4. CASE ClockIsSet
    <2>1. steps' = steps + 1 /\ clock' \in 0..(TickRange - 1) /\ UNCHANGED <<tick, since>>
      BY <1>4 DEF ClockIsSet
    <2>2. steps' \in Nat /\ steps' # 0
      BY <2>1
    <2> QED BY <2>1, <2>2
  <1>5. CASE TestUart
    <2>1. CASE Send \/ Recv
      BY <1>2, <2>1 DEF Send, Recv
    <2>2. CASE ReadFails \/ RxTimeout \/ NotPassed \/ Passed
      BY <1>3, <2>2 DEF ReadFails, RxTimeout, NotPassed, Passed, Fail
    <2>3. CASE TestUart /\ ~(Send \/ Recv \/ ReadFails \/ RxTimeout \/ NotPassed \/ Passed)
      BY <1>3, <2>3 DEF TestUart, UartGoes, UartFails, Open, Close, Fail, Dummy, Flush
    <2> QED BY <1>5, <2>1, <2>2, <2>3
  <1>6. CASE SetPin
    <2>1. ReadTick \/ UNCHANGED utilVars
      BY <1>6 DEF SetPin, SetPinBy
    <2> QED BY <1>2, <1>3, <2>1
  <1>7. CASE Setup \/ SetupFails \/ WaitEnds \/ GetKey \/ KeyComes \/ Abort \/ Leave
    BY <1>3, <1>7 DEF Setup, SetupFails, WaitEnds, GetKey, KeyComes, Abort, Leave
  <1>8. CASE Main \/ Go \/ Exit
    BY <1>3, <1>8 DEF Main, Go, Exit
  <1>9. CASE \E p \in Wires : Deliver(p) \/ Lose(p) \/ Noise(p)
    BY <1>3, <1>9 DEF Deliver, Lose, Noise
  <1>10. CASE \E n \in Pins : OtherWrites(n)
    BY <1>3, <1>10 DEF OtherWrites
  <1>11. CASE UNCHANGED vars
    BY <1>3, <1>11 DEF vars
  <1> QED
    BY <1>1, <1>4, <1>5, <1>6, <1>7, <1>8, <1>9, <1>10, <1>11
    DEF IoNext, Program, TestAllGpio, GpioGoes

\* As long as nobody has set the clock, no wait and no timeout (main.cpp:228-239, 398)
\* is cut short, wherever the tick wraps around.
THEOREM WaitsAreWhole == IoSpec => WaitsWhole
  <1>1. IoInit => LagInv
    BY IoTestAssumption DEF IoInit, LagInv
  <1>2. LagInv /\ [IoNext]_vars => LagInv'
    BY LagNext
  <1>3. LagInv => [steps = 0 => (WaitEnds => since >= Wait) /\ (RxTimeout => since > Timeout)]_vars
    <2> SUFFICES ASSUME LagInv, steps = 0
                 PROVE  (WaitEnds => since >= Wait) /\ (RxTimeout => since > Timeout)
      OBVIOUS
    <2>1. since \in Int /\ TickElapsed(tick) \in Int
      BY IoTestAssumption DEF LagInv, TickElapsed
    <2>2. ASSUME TickElapsed(tick) >= Wait PROVE since >= Wait
      BY <2>1, <2>2, ElapsedBound, IoTestAssumption
    <2>3. ASSUME TickElapsed(tick) > Timeout PROVE since > Timeout
      BY <2>1, <2>3, ElapsedBound, IoTestAssumption
    <2> QED BY <2>2, <2>3 DEF WaitEnds, RxTimeout
  <1> QED BY <1>1, <1>2, <1>3, PTL DEF IoSpec, WaitsWhole

-----------------------------------------------------------------------------
(* LEDs.                                                                    *)

Ready(n) == gpioInfo[n].fd /\ gpioInfo[n].isOutput

\* The state remembered for each pin: what the last change left, except for the pins
\* the current change has reached.
Remembered(n) ==
  /\ pc = "set" =>
       gpioInfo[n].state = IF phase > 4 THEN (IF n = i THEN 1 - Level(phase) ELSE 0)
                           ELSE IF n < i THEN Level(phase)
                           ELSE IF phase = 1 THEN -1 ELSE 1 - Level(phase)
  /\ pc \in {"wait", "key"} =>
       gpioInfo[n].state = IF phase > 4 THEN (IF n = i THEN Level(phase) ELSE 0)
                           ELSE Level(phase)

LedInv ==
  /\ gpioInfo \in [Pins -> [fd : BOOLEAN, state : {-1, 0, 1}, isOutput : BOOLEAN]]
  /\ pin \in [Pins -> [dir : {"in", "out"}, level : {0, 1}]]
  /\ phase \in 1..Phases /\ i \in Pins
  /\ pc \notin {"setup", "set", "wait", "key", "leave", "exit", "done"} =>
       phase = 1 /\ i = 1 /\ \A n \in Pins : ~gpioInfo[n].fd
  /\ pc = "setup" =>
       /\ phase = 1
       /\ \A n \in Pins : IF n < i THEN Ready(n) /\ gpioInfo[n].state = -1 ELSE ~gpioInfo[n].fd
  /\ pc \in {"set", "wait", "key"} =>
       /\ \A n \in Pins : Ready(n) /\ Remembered(n)
       /\ phase > 4 => i = FirstPin(phase)
       /\ pc \in {"wait", "key"} => i = LastPin(phase)

\* Arithmetic of the changes: which pins each one is about.
LEMMA PhaseFacts ==
  ASSUME NEW k \in 1..Phases
  PROVE  /\ Level(k) \in {0, 1}
         /\ FirstPin(k) \in Pins /\ LastPin(k) \in Pins
         /\ k < Phases => Level(k + 1) = 1 - Level(k)
         /\ k > 4 /\ Level(k) = 1 /\ k < Phases => FirstPin(k + 1) = FirstPin(k)
         /\ k <= 4 => FirstPin(k) = 1 /\ LastPin(k) = NPins
         /\ k > 4 => LastPin(k) = FirstPin(k)
         /\ k = 1 => Level(k) = 1
         /\ k = 4 => Level(k) = 0
  <1>1. NPins \in Nat \ {0} /\ Pins = 1..NPins /\ k \in Nat /\ k >= 1 /\ k <= 4 + 2 * NPins
    BY IoTestAssumption DEF Phases
  <1>2. PICK m \in Nat : k = 2 * m \/ k = 2 * m + 1
    <2>1. k \div 2 \in Nat /\ (k = 2 * (k \div 2) \/ k = 2 * (k \div 2) + 1)
      BY <1>1
    <2> QED BY <2>1
  <1>3. Level(k) \in {0, 1} /\ Level(k + 1) = 1 - Level(k) /\ (Level(k) = 1 <=> k = 2 * m + 1)
    BY <1>1, <1>2 DEF Level
  <1>4. k > 4 => FirstPin(k) = (IF k = 2 * m THEN m - 2 ELSE m - 1) /\ LastPin(k) = FirstPin(k)
    BY <1>1, <1>2 DEF FirstPin, LastPin
  <1>5. k > 4 /\ k = 2 * m + 1 => FirstPin(k + 1) = m - 1
    BY <1>1, <1>2 DEF FirstPin
  <1>6. k <= 4 => FirstPin(k) = 1 /\ LastPin(k) = NPins
    BY <1>1 DEF FirstPin, LastPin
  <1>7. FirstPin(k) \in Pins /\ LastPin(k) \in Pins
    BY <1>1, <1>2, <1>4, <1>6
  <1>8. (k = 1 => Level(k) = 1) /\ (k = 4 => Level(k) = 0)
    BY DEF Level
  <1> QED BY <1>1, <1>2, <1>3, <1>4, <1>5, <1>6, <1>7, <1>8

\* Steps that leave the pins alone and do not enter the test of the LEDs.
LEMMA LedElsewhere ==
  ASSUME LedInv, UNCHANGED <<gpioVars, ledVars>>,
         \/ pc' = pc
         \/ pc \notin {"setup", "set", "wait", "key", "leave", "exit", "done"} /\ pc' \notin {"set", "wait", "key"}
         \/ pc' \in {"leave", "exit", "done"}
         \/ pc \in {"wait", "key"} /\ pc' \in {"wait", "key"}
  PROVE  LedInv'
  <1> USE IoTestAssumption DEF LedInv, Ready, Remembered, gpioVars, ledVars
  <1>1. CASE pc' = pc
    BY <1>1
  <1>2. CASE pc \notin {"setup", "set", "wait", "key", "leave", "exit", "done"} /\ pc' \notin {"set", "wait", "key"}
    BY <1>2
  <1>3. CASE pc' \in {"leave", "exit", "done"}
    BY <1>3
  <1>4. CASE pc \in {"wait", "key"} /\ pc' \in {"wait", "key"}
    BY <1>4
  <1> QED BY <1>1, <1>2, <1>3, <1>4

\* Whether or not the direction could be written.
LEMMA DirectionWritten ==
  ASSUME NEW n \in Pins, WriteDirection(n, TRUE),
         pin \in [Pins -> [dir : {"in", "out"}, level : {0, 1}]]
  PROVE  pin' \in [Pins -> [dir : {"in", "out"}, level : {0, 1}]]
  BY DEF WriteDirection, Directed, GPIO_STATE_LOW

\* A pin is set up.
LEMMA LedSetup == ASSUME LedInv, Setup PROVE LedInv'
  <1> USE IoTestAssumption DEF LedInv, Ready, Remembered
  <1>1. pc = "setup" /\ phase = 1 /\ phase' = phase /\ i \in Pins /\ ~gpioInfo[i].fd
    BY DEF Setup
  <1>2. /\ WriteDirection(i, TRUE)
        /\ gpioInfo' = [gpioInfo EXCEPT ![i] = [fd |-> TRUE, state |-> -1, isOutput |-> TRUE]]
    BY <1>1 DEF Setup, setup, SetupState, GPIO_STATE_UNKNOWN
  <1>3. pin' \in [Pins -> [dir : {"in", "out"}, level : {0, 1}]]
    BY <1>1, <1>2, DirectionWritten
  <1>4. gpioInfo' \in [Pins -> [fd : BOOLEAN, state : {-1, 0, 1}, isOutput : BOOLEAN]]
    BY <1>1, <1>2
  <1>5. \A n \in Pins : n < i + 1 => Ready(n)' /\ gpioInfo'[n].state = -1
    BY <1>1, <1>2
  <1>6. \A n \in Pins : n > i => ~gpioInfo'[n].fd
    BY <1>1, <1>2
  <1>7. CASE i < NPins
    <2>1. i' = i + 1 /\ pc' = "setup"
      BY <1>1, <1>7 DEF Setup
    <2> QED BY <1>1, <1>3, <1>4, <1>5, <1>6, <1>7, <2>1
  <1>8. CASE ~(i < NPins)
    <2>1. i' = 1 /\ pc' = "set"
      BY <1>8 DEF Setup
    <2>2. \A n \in Pins : n < i + 1
      BY <1>8
    <2>3. 1 \in Pins
      OBVIOUS
    <2> QED BY <1>1, <1>3, <1>4, <1>5, <2>1, <2>2, <2>3
  <1> QED BY <1>7, <1>8

\* A pin that is to be changed is open, an output, and remembered in another state: its
\* level is written.
LEMMA LedWritten ==
  ASSUME LedInv, NEW written \in BOOLEAN, SetPinBy(written)
  PROVE  /\ gpioInfo' = [gpioInfo EXCEPT ![i].state = Level(phase)]
         /\ pin' = IF written /\ pin[i].dir = "out"
                   THEN [pin EXCEPT ![i].level = Level(phase)] ELSE pin
  <1>1. Ready(i) /\ gpioInfo[i].state # Level(phase)
    BY PhaseFacts, IoTestAssumption DEF LedInv, SetPinBy, Remembered
  <1> QED BY <1>1 DEF SetPinBy, set, setOk, Differs, Ready

\* A pin is changed.
LEMMA LedSet == ASSUME LedInv, SetPin PROVE LedInv'
  <1> USE IoTestAssumption DEF LedInv
  <1>0. PICK written \in BOOLEAN : SetPinBy(written)
    BY DEF SetPin
  <1>1. pc = "set" /\ phase' = phase /\ Level(phase) \in {0, 1}
    BY <1>0, PhaseFacts DEF SetPinBy
  <1>2. /\ gpioInfo' \in [Pins -> [fd : BOOLEAN, state : {-1, 0, 1}, isOutput : BOOLEAN]]
        /\ pin' \in [Pins -> [dir : {"in", "out"}, level : {0, 1}]]
        /\ \A n \in Pins : Ready(n)'
        /\ \A n \in Pins : gpioInfo'[n].state = IF n = i THEN Level(phase) ELSE gpioInfo[n].state
    <2>1. /\ gpioInfo' = [gpioInfo EXCEPT ![i].state = Level(phase)]
          /\ pin' = pin \/ pin' = [pin EXCEPT ![i].level = Level(phase)]
      BY <1>0, LedWritten
    <2>2. gpioInfo' \in [Pins -> [fd : BOOLEAN, state : {-1, 0, 1}, isOutput : BOOLEAN]]
      BY <1>1, <2>1
    <2>3. pin' \in [Pins -> [dir : {"in", "out"}, level : {0, 1}]]
      BY <1>1, <2>1
    <2>4. \A n \in Pins : Ready(n)
      BY <1>1
    <2>5. \A n \in Pins : Ready(n)'
      BY <2>1, <2>4 DEF Ready
    <2> QED BY <2>1, <2>2, <2>3, <2>5
  <1>3. CASE i < LastPin(phase)
    <2>1. i' = i + 1 /\ pc' = "set" /\ phase <= 4 /\ i' \in Pins
      BY <1>0, <1>1, <1>3, PhaseFacts DEF SetPinBy
    <2>2. \A n \in Pins : Remembered(n)'
      BY <1>1, <1>2, <2>1 DEF Remembered, Level
    <2> QED BY <1>1, <1>2, <2>1, <2>2
  <1>4. CASE ~(i < LastPin(phase))
    <2>1. pc' = "wait" /\ i' = i
      BY <1>0, <1>4 DEF SetPinBy
    <2>2. i = LastPin(phase)
      BY <1>1, <1>4, PhaseFacts
    <2>3. \A n \in Pins : Remembered(n)'
      <3>1. CASE phase > 4
        BY <1>1, <1>2, <2>1, <3>1 DEF Remembered, Level
      <3>2. CASE phase <= 4
        <4>1. \A n \in Pins : n = i \/ n < i
          BY <2>2, <3>2, PhaseFacts
        <4> QED BY <1>1, <1>2, <2>1, <3>2, <4>1 DEF Remembered, Level
      <3> QED BY <3>1, <3>2
    <2> QED BY <1>1, <1>2, <2>1, <2>2, <2>3
  <1> QED BY <1>3, <1>4

\* The next change begins.
LEMMA LedWaitEnds == ASSUME LedInv, WaitEnds PROVE LedInv'
  <1> USE IoTestAssumption DEF LedInv
  <1>1. CASE ~(phase < Phases)
    BY <1>1, LedElsewhere DEF WaitEnds, ledVars
  <1>2. CASE phase < Phases
    <2>1. /\ pc = "wait" /\ phase' = phase + 1 /\ i' = FirstPin(phase + 1) /\ pc' = "set"
          /\ UNCHANGED gpioVars
      BY <1>2 DEF WaitEnds
    <2>2. phase + 1 \in 1..Phases
      BY <1>2 DEF Phases
    <2>3. i' \in Pins
      BY <2>1, <2>2, PhaseFacts
    <2>4. Level(phase + 1) = 1 - Level(phase) /\ Level(phase) \in {0, 1}
      BY <1>2, PhaseFacts
    <2>5. \A n \in Pins : Remembered(n)'
      <3> SUFFICES ASSUME NEW n \in Pins PROVE Remembered(n)'
        OBVIOUS
      <3>1. gpioInfo' = gpioInfo
        BY <2>1 DEF gpioVars
      <3>2. gpioInfo[n].state = IF phase > 4 THEN (IF n = i THEN Level(phase) ELSE 0) ELSE Level(phase)
        BY <2>1 DEF Remembered
      <3>3. CASE phase < 4
        <4>1. i' = 1
          BY <2>1, <2>2, <3>3, PhaseFacts
        <4> QED BY <2>1, <2>4, <3>1, <3>2, <3>3, <4>1 DEF Remembered, Level
      <3>4. CASE phase = 4
        BY <2>1, <2>4, <3>1, <3>2, <3>4, PhaseFacts DEF Remembered, Level
      <3>5. CASE phase > 4 /\ Level(phase) = 1
        <4>1. i' = i
          BY <1>2, <2>1, <3>5, PhaseFacts
        <4> QED BY <2>1, <2>4, <3>1, <3>2, <3>5, <4>1 DEF Remembered, Level
      <3>6. CASE phase > 4 /\ Level(phase) = 0
        BY <2>1, <2>4, <3>1, <3>2, <3>6 DEF Remembered, Level
      <3> QED BY <2>4, <3>3, <3>4, <3>5, <3>6
    <2> QED BY <2>1, <2>2, <2>3, <2>5 DEF gpioVars, Ready
  <1> QED BY <1>1, <1>2

\* Every step keeps the invariant.
LEMMA LedNext == LedInv /\ [IoNext]_vars => LedInv'
  <1> SUFFICES ASSUME LedInv, [IoNext]_vars PROVE LedInv'
    OBVIOUS
  <1>1. CASE Main \/ Go \/ Exit
    BY <1>1, LedElsewhere DEF Main, Go, Exit
  <1>2. CASE TestUart
    <2>1. UNCHANGED <<gpioVars, ledVars>>
      BY <1>2 DEF TestUart, UartGoes, UartFails, Open, Close, Fail, Dummy, Flush, Send, Recv,
                  ReadFails, RxTimeout, Passed, NotPassed
    <2>2. pc \notin {"setup", "set", "wait", "key", "leave", "exit", "done"} /\ pc' \notin {"set", "wait", "key"}
      BY <1>2 DEF TestUart, UartGoes, UartFails, Open, Close, Fail, Dummy, Flush, Send, Recv,
                  ReadFails, RxTimeout, Passed, NotPassed
    <2> QED BY <2>1, <2>2, LedElsewhere
  <1>3. CASE Setup
    BY <1>3, LedSetup
  <1>4. CASE SetupFails
    <2>1. pc' = "leave" /\ gpioInfo' = gpioInfo /\ phase' = phase /\ i' = i
      BY <1>4 DEF SetupFails, setupFails, ledVars
    <2>3. pin' \in [Pins -> [dir : {"in", "out"}, level : {0, 1}]]
      BY <1>4, DirectionWritten DEF SetupFails, setupFails, LedInv
    <2> QED BY <2>1, <2>3 DEF LedInv
  <1>5. CASE SetPin
    BY <1>5, LedSet
  <1>6. CASE WaitEnds
    BY <1>6, LedWaitEnds
  <1>7. CASE GetKey \/ KeyComes \/ Abort
    BY <1>7, LedElsewhere DEF GetKey, KeyComes, Abort
  <1>8. CASE Leave
    <2>1. pc' = "exit" /\ pin' = pin /\ phase' = phase /\ i' = i
      BY <1>8 DEF Leave, closeGpio, ledVars
    <2>2. gpioInfo' \in [Pins -> [fd : BOOLEAN, state : {-1, 0, 1}, isOutput : BOOLEAN]]
      BY <1>8 DEF Leave, closeGpio, LedInv
    <2> QED BY <2>1, <2>2 DEF LedInv
  <1>9. CASE TimePasses \/ ClockIsSet
    BY <1>9, LedElsewhere DEF TimePasses, ClockIsSet
  <1>10. CASE \E p \in Wires : Deliver(p) \/ Lose(p) \/ Noise(p)
    BY <1>10, LedElsewhere DEF Deliver, Lose, Noise
  <1>11. ASSUME NEW n \in Pins, OtherWrites(n) PROVE LedInv'
    <2>1. pc' = pc /\ gpioInfo' = gpioInfo /\ phase' = phase /\ i' = i
      BY <1>11 DEF OtherWrites, ledVars
    <2>2. pin' \in [Pins -> [dir : {"in", "out"}, level : {0, 1}]]
      BY <1>11 DEF OtherWrites, LedInv
    <2> QED BY <2>1, <2>2 DEF LedInv, Ready, Remembered
  <1>12. CASE UNCHANGED vars
    BY <1>12, LedElsewhere DEF vars
  <1> QED
    BY <1>1, <1>2, <1>3, <1>4, <1>5, <1>6, <1>7, <1>8, <1>9, <1>10, <1>11, <1>12
    DEF IoNext, Program, TestAllGpio, GpioGoes

\* Whenever a LED is to be turned on or off its level is written, whatever another
\* process has done to the pin (main.cpp:214-314, gpio.cpp:204): it is right if the write
\* works and the pin is an output.
THEOREM LedsAlwaysFollow == IoSpec => LedsFollow
  <1>1. IoInit => LedInv
    <2> SUFFICES ASSUME IoInit PROVE LedInv
      OBVIOUS
    <2>1. 1 \in 1..Phases /\ 1 \in Pins
      BY IoTestAssumption DEF Phases
    <2> QED BY <2>1 DEF IoInit, GpioInit, SetupState, GPIO_STATE_UNKNOWN, GPIO_STATE_LOW,
                       LedInv
  <1>2. LedInv => [SetPinBy(TRUE) /\ pin[i].dir = "out" => pin'[i].level = Level(phase)]_vars
    <2> SUFFICES ASSUME LedInv, SetPinBy(TRUE), pin[i].dir = "out"
                 PROVE  pin'[i].level = Level(phase)
      OBVIOUS
    <2>1. pin' = [pin EXCEPT ![i].level = Level(phase)]
      BY LedWritten
    <2> QED BY <2>1 DEF LedInv
  <1> QED BY <1>1, <1>2, LedNext, PTL DEF IoSpec, LedsFollow

-----------------------------------------------------------------------------
(* Transfers.                                                               *)

Bytes(s) == {s[k] : k \in 1..Len(s)}
Ascending(s) == \A a, b \in 1..Len(s) : a < b => s[a] < s[b]

\* What a byte added to a sequence, a sequence behind another, a part taken from the
\* front and the loss of the first byte do to the bytes a sequence holds.
LEMMA BytesAppend ==
  ASSUME NEW S, NEW s \in Seq(S), NEW e PROVE Bytes(Append(s, e)) = Bytes(s) \union {e}
  <1>1. Len(Append(s, e)) = Len(s) + 1 /\ Len(s) \in Nat
    OBVIOUS
  <1>2. \A k \in 1..(Len(s) + 1) : Append(s, e)[k] = IF k = Len(s) + 1 THEN e ELSE s[k]
    OBVIOUS
  <1> QED BY <1>1, <1>2 DEF Bytes

LEMMA BytesConcat ==
  ASSUME NEW S, NEW s \in Seq(S), NEW t \in Seq(S)
  PROVE  s \o t \in Seq(S) /\ Bytes(s \o t) = Bytes(s) \union Bytes(t)
  <1>1. Len(s \o t) = Len(s) + Len(t) /\ Len(s) \in Nat /\ Len(t) \in Nat
    OBVIOUS
  <1>2. \A k \in 1..(Len(s) + Len(t)) : (s \o t)[k] = IF k <= Len(s) THEN s[k] ELSE t[k - Len(s)]
    OBVIOUS
  <1>3. \A k \in 1..Len(t) : k + Len(s) \in 1..(Len(s) + Len(t)) /\ (s \o t)[k + Len(s)] = t[k]
    BY <1>1, <1>2
  <1>4. Bytes(s \o t) \subseteq Bytes(s) \union Bytes(t)
    BY <1>1, <1>2 DEF Bytes
  <1>5. Bytes(s) \subseteq Bytes(s \o t)
    BY <1>1, <1>2 DEF Bytes
  <1>6. Bytes(t) \subseteq Bytes(s \o t)
    BY <1>1, <1>3 DEF Bytes
  <1> QED BY <1>4, <1>5, <1>6

LEMMA BytesSplit ==
  ASSUME NEW S, NEW s \in Seq(S), NEW n \in 1..Len(s)
  PROVE  /\ SubSeq(s, 1, n) \in Seq(S) /\ Len(SubSeq(s, 1, n)) = n
         /\ SubSeq(s, n + 1, Len(s)) \in Seq(S)
         /\ Bytes(SubSeq(s, 1, n)) \union Bytes(SubSeq(s, n + 1, Len(s))) = Bytes(s)
  <1>1. Len(s) \in Nat /\ \A k \in 1..Len(s) : s[k] \in S
    OBVIOUS
  <1>2. SubSeq(s, 1, n) \in Seq(S) /\ Len(SubSeq(s, 1, n)) = n
        /\ \A k \in 1..n : SubSeq(s, 1, n)[k] = s[k]
    BY <1>1
  <1>3. SubSeq(s, n + 1, Len(s)) \in Seq(S) /\ Len(SubSeq(s, n + 1, Len(s))) = Len(s) - n
        /\ \A k \in 1..(Len(s) - n) : SubSeq(s, n + 1, Len(s))[k] = s[n + k]
    BY <1>1
  <1>4. \A k \in 1..Len(s) : k > n => k - n \in 1..(Len(s) - n) /\ SubSeq(s, n + 1, Len(s))[k - n] = s[k]
    BY <1>1, <1>3
  <1>5. Bytes(SubSeq(s, 1, n)) \subseteq Bytes(s)
    BY <1>1, <1>2 DEF Bytes
  <1>6. Bytes(SubSeq(s, n + 1, Len(s))) \subseteq Bytes(s)
    BY <1>1, <1>3 DEF Bytes
  <1>7. Bytes(s) \subseteq Bytes(SubSeq(s, 1, n)) \union Bytes(SubSeq(s, n + 1, Len(s)))
    <2> SUFFICES ASSUME NEW k \in 1..Len(s)
                 PROVE  s[k] \in Bytes(SubSeq(s, 1, n)) \union Bytes(SubSeq(s, n + 1, Len(s)))
      BY DEF Bytes
    <2>1. CASE k <= n
      <3>1. k \in 1..n
        BY <1>1, <2>1
      <3>2. s[k] \in Bytes(SubSeq(s, 1, n))
        BY <1>2, <3>1 DEF Bytes
      <3> QED BY <3>2
    <2>2. CASE k > n
      <3>1. s[k] \in Bytes(SubSeq(s, n + 1, Len(s)))
        BY <1>3, <1>4, <2>2 DEF Bytes
      <3> QED BY <3>1
    <2> QED BY <1>1, <2>1, <2>2
  <1> QED BY <1>2, <1>3, <1>5, <1>6, <1>7

LEMMA FirstAndRest ==
  ASSUME NEW S, NEW s \in Seq(S), s # <<>> PROVE Tail(s) \in Seq(S) /\ Head(s) \in S
  OBVIOUS

LEMMA BytesTail ==
  ASSUME NEW S, S \subseteq Int, NEW s \in Seq(S), s # <<>>, Ascending(s)
  PROVE  /\ Tail(s) \in Seq(S) /\ Head(s) \in S
         /\ Bytes(s) = Bytes(Tail(s)) \union {Head(s)}
         /\ Ascending(Tail(s)) /\ \A y \in Bytes(Tail(s)) : Head(s) < y
  <1>1. Len(s) \in Nat /\ Len(s) > 0 /\ \A k \in 1..Len(s) : s[k] \in S
    OBVIOUS
  <1>2. Head(s) = s[1] /\ Tail(s) \in Seq(S) /\ Len(Tail(s)) = Len(s) - 1
        /\ \A k \in 1..(Len(s) - 1) : Tail(s)[k] = s[k + 1]
    BY <1>1
  <1>3. \A k \in 1..Len(s) : k # 1 => k - 1 \in 1..(Len(s) - 1) /\ Tail(s)[k - 1] = s[k]
    BY <1>1, <1>2
  <1>4. Bytes(s) = Bytes(Tail(s)) \union {Head(s)}
    BY <1>1, <1>2, <1>3 DEF Bytes
  <1>5. Ascending(Tail(s))
    BY <1>1, <1>2 DEF Ascending
  <1>6. \A y \in Bytes(Tail(s)) : Head(s) < y
    BY <1>1, <1>2 DEF Bytes, Ascending
  <1> QED BY <1>1, <1>2, <1>4, <1>5, <1>6

CarryShape ==
  /\ loop \in 0..(2 * Loops) /\ lost \in BOOLEAN /\ chance \in BOOLEAN
  /\ rx_buf \in Seq(0..Size)
  /\ queue \in [Wires -> Seq(0..Size)] /\ flight \in [Wires -> Seq(0..Size)]

Before == {"main", "go", "open0", "open1", "dummy", "flush"}
After == {"close0", "close1", "setup", "set", "wait", "key"}

\* Which transfers have been done.
CarryCount ==
  /\ pc \in Before => loop = 0
  /\ pc \in {"send", "recv"} => loop < 2 * Loops
  /\ pc \in After => loop = 2 * Loops

\* Each begins with silent lines, and no byte was lost in those before it.
CarryPlace ==
  /\ pc \in Before \union After => ~lost
  /\ pc = "send" => /\ ~lost /\ queue[Receiver] = <<>>
                    /\ \A p \in Wires : flight[p] = <<>>

\* The bytes that have come to the receiver.
Come == Bytes(rx_buf) \union Bytes(queue[Receiver])

\* During a transfer only the receiver's line carries bytes, in ascending order and all
\* of them behind those that have come; so a byte that is lost is nowhere else.
Transfer ==
  pc = "recv" =>
    /\ flight[Other] = <<>> /\ Ascending(flight[Receiver])
    /\ Bytes(flight[Receiver]) \subseteq 1..Size
    /\ \A x \in Come, y \in Bytes(flight[Receiver]) : x < y
    /\ lost => \E k \in 1..Size : k \notin Come /\ k \notin Bytes(flight[Receiver])

\* Once noise has put a byte that could have been sent on the receiver's line, a transfer
\* may be passed while its bytes are still under way, and only the count is sure.
CarryInv == CarryShape /\ CarryCount /\ (~chance => CarryPlace /\ Transfer)

\* The receiver and the other port are the two ports, and change places.
LEMMA Directions ==
  ASSUME loop \in Nat
  PROVE  /\ Receiver \in Wires /\ Other \in Wires /\ Receiver # Other
         /\ \A p \in Wires : p = Receiver \/ p = Other
         /\ loop' = loop => Receiver' = Receiver /\ Other' = Other
         /\ loop' = loop + 1 => Receiver' = Other /\ Other' = Receiver
  <1>1. loop % 2 \in {0, 1} /\ ((loop + 1) % 2 = 0 <=> loop % 2 = 1)
    OBVIOUS
  <1> QED BY <1>1 DEF Receiver, Other, Wires

\* Steps that leave the lines, the buffer and the count of transfers alone.
LEMMA CarryElsewhere ==
  ASSUME CarryInv, UNCHANGED <<queue, flight, lost, chance, rxVars>>,
         \/ pc' = pc
         \/ pc' \in {"leave", "exit", "done", "destroy0", "destroy1"}
         \/ pc \in Before \ {"flush"} /\ pc' \in Before
         \/ pc \in After /\ pc' \in After
  PROVE  CarryInv'
  <1> USE DEF CarryInv, rxVars
  <1>1. loop \in Nat
    BY IoTestAssumption DEF CarryShape
  <1>2. Receiver' = Receiver /\ Other' = Other
    BY <1>1, Directions
  <1>3. CarryShape'
    BY DEF CarryShape
  <1>4. CarryCount'
    BY DEF CarryCount, Before, After
  <1>5. CarryPlace => CarryPlace'
    BY <1>2 DEF CarryPlace, Before, After
  <1>6. Transfer => Transfer'
    BY <1>2 DEF Transfer, Come, Bytes, Ascending, Before, After
  <1> QED BY <1>3, <1>4, <1>5, <1>6

\* What is thrown away at the end of the test.
LEMMA CarryDiscard ==
  ASSUME CarryInv, Discard, UNCHANGED <<loop, lost, chance>>,
         \/ pc' \in {"exit", "destroy0", "destroy1"}
         \/ pc \in After /\ pc' \in After
  PROVE  CarryInv'
  <1>1. rx_buf' = <<>> /\ queue' = [p \in Wires |-> <<>>] /\ flight' = [p \in Wires |-> <<>>]
    BY DEF Discard
  <1>2. CarryShape'
    BY <1>1 DEF CarryInv, CarryShape
  <1>3. CarryCount'
    BY DEF CarryInv, CarryCount, Before, After
  <1>4. ~chance => CarryPlace' /\ Transfer'
    BY DEF CarryInv, CarryPlace, Transfer, Before, After
  <1> QED BY <1>2, <1>3, <1>4 DEF CarryInv

\* The first bytes on the lines, and their removal.
LEMMA CarryStart == ASSUME CarryInv, Dummy \/ Flush PROVE CarryInv'
  <1> USE IoTestAssumption DEF CarryInv, Before, After
  <1>0. 0 \in 0..Size
    OBVIOUS
  <1>1. CASE Dummy
    <2>1. pc = "dummy" /\ pc' = "flush" /\ UNCHANGED <<queue, lost, chance, loop, rx_buf>>
          /\ flight' = [p \in Wires |-> <<0>>]
      BY <1>1 DEF Dummy, rxVars
    <2>2. CarryShape'
      <3>1. <<0>> \in Seq(0..Size)
        BY <1>0
      <3> QED BY <2>1, <3>1 DEF CarryShape
    <2> QED BY <2>1, <2>2 DEF CarryCount, CarryPlace, Transfer
  <1>2. CASE Flush
    <2>1. pc = "flush" /\ pc' = "send" /\ UNCHANGED <<flight, loop, rx_buf, lost, chance>>
          /\ queue' = [p \in Wires |-> <<>>]
          /\ \A p \in Wires : flight[p] = <<>>
      BY <1>2 DEF Flush, rxVars
    <2>2. CarryShape'
      BY <2>1 DEF CarryShape
    <2>3. loop = 0 /\ Receiver' \in Wires
      BY <2>1, Directions DEF CarryCount
    <2>4. CarryCount'
      BY <2>1, <2>3 DEF CarryCount
    <2>5. ~chance => CarryPlace' /\ Transfer'
      BY <2>1, <2>3 DEF CarryPlace, Transfer
    <2> QED BY <2>1, <2>2, <2>4, <2>5
  <1> QED BY <1>1, <1>2

\* A transfer begins on a line that is empty.
LEMMA CarrySend == ASSUME CarryInv, Send PROVE CarryInv'
  <1> USE IoTestAssumption DEF CarryInv, Before, After
  <1> DEFINE sent == [k \in 1..Size |-> k]
  <1>1. /\ pc = "send" /\ pc' = "recv" /\ UNCHANGED <<queue, lost, chance, loop>> /\ rx_buf' = <<>>
        /\ flight' = [flight EXCEPT ![Receiver] = @ \o sent]
    BY DEF Send
  <1>2. loop \in Nat /\ Size \in Nat
    BY DEF CarryShape
  <1>3. Receiver \in Wires /\ Other \in Wires /\ Receiver # Other
        /\ Receiver' = Receiver /\ Other' = Other
    BY <1>1, <1>2, Directions
  <1>4. sent \in Seq(0..Size) /\ Len(sent) = Size /\ <<>> \o sent = sent
    BY <1>2
  <1>5. CarryShape'
    <2>1. flight[Receiver] \in Seq(0..Size)
      BY <1>3 DEF CarryShape
    <2>2. flight[Receiver] \o sent \in Seq(0..Size)
      <3> HIDE DEF sent
      <3> QED BY <1>4, <2>1, BytesConcat
    <2>3. <<>> \in Seq(0..Size)
      OBVIOUS
    <2> HIDE DEF sent
    <2> QED BY <1>1, <1>3, <2>2, <2>3 DEF CarryShape
  <1>6. CarryCount'
    BY <1>1 DEF CarryCount
  <1>7. ASSUME ~chance PROVE CarryPlace' /\ Transfer'
    <2>1. ~lost /\ queue[Receiver] = <<>> /\ flight[Receiver] = <<>> /\ flight[Other] = <<>>
      BY <1>1, <1>3, <1>7 DEF CarryPlace
    <2>2. flight'[Receiver] = sent /\ flight'[Other] = <<>>
      BY <1>1, <1>3, <1>4, <2>1 DEF CarryShape
    <2>3. Ascending(sent) /\ Bytes(sent) = 1..Size
      BY <1>2, <1>4 DEF Ascending, Bytes
    <2>4. Come' = {}
      BY <1>1, <1>3, <2>1 DEF Come, Bytes
    <2>5. Transfer'
      BY <1>1, <1>3, <2>1, <2>2, <2>3, <2>4 DEF Transfer
    <2>6. CarryPlace'
      BY <1>1 DEF CarryPlace
    <2> QED BY <2>5, <2>6
  <1> QED BY <1>1, <1>5, <1>6, <1>7

\* Reading moves bytes from the queue to the buffer.
LEMMA CarryRecv == ASSUME CarryInv, Recv PROVE CarryInv'
  <1> USE IoTestAssumption DEF CarryInv, Before, After
  <1>1. loop \in Nat /\ Size \in Nat
    BY DEF CarryShape
  <1>2. PICK n \in 1..Chunk :
          /\ n <= Len(queue[Receiver])
          /\ rx_buf' = rx_buf \o SubSeq(queue[Receiver], 1, n)
          /\ queue' = [queue EXCEPT ![Receiver] = SubSeq(@, n + 1, Len(@))]
    BY DEF Recv
  <1>3. pc = "recv" /\ pc' = "recv" /\ UNCHANGED <<flight, lost, chance, loop>>
    BY DEF Recv
  <1>4. Receiver \in Wires /\ Receiver' = Receiver /\ Other' = Other
    BY <1>1, <1>3, Directions
  <1> DEFINE q == queue[Receiver]
             got == SubSeq(q, 1, n)
             left == SubSeq(q, n + 1, Len(q))
  <1>5. q \in Seq(0..Size) /\ rx_buf \in Seq(0..Size)
    BY <1>4 DEF CarryShape
  <1>6. n \in 1..Len(q)
    BY <1>2, <1>5
  <1>7. got \in Seq(0..Size) /\ left \in Seq(0..Size) /\ Bytes(got) \union Bytes(left) = Bytes(q)
    BY <1>5, <1>6, BytesSplit
  <1>8. rx_buf' \in Seq(0..Size) /\ Bytes(rx_buf') = Bytes(rx_buf) \union Bytes(got)
    <2> HIDE DEF q, got
    <2>1. rx_buf' = rx_buf \o got
      BY <1>2 DEF q, got
    <2> QED BY <1>5, <1>7, <2>1, BytesConcat
  <1>9. queue'[Receiver] = left /\ queue' \in [Wires -> Seq(0..Size)]
    BY <1>2, <1>4, <1>7 DEF CarryShape
  <1>10. Come' = Come
    BY <1>4, <1>7, <1>8, <1>9 DEF Come
  <1>11. CarryShape'
    BY <1>3, <1>8, <1>9 DEF CarryShape
  <1>12. CarryCount'
    BY <1>3 DEF CarryCount
  <1>13. CarryPlace'
    BY <1>3 DEF CarryPlace
  <1>14. Transfer => Transfer'
    BY <1>3, <1>4, <1>10 DEF Transfer
  <1> QED BY <1>3, <1>11, <1>12, <1>13, <1>14

\* A transfer that is passed has, unless noise helped, brought every byte, and leaves both
\* lines empty.
LEMMA CarryPassed == ASSUME CarryInv, Passed PROVE CarryInv'
  <1> USE IoTestAssumption DEF CarryInv, Before, After
  <1>1. /\ pc = "recv" /\ Len(rx_buf) >= Size /\ Verified /\ queue[Other] = <<>>
        /\ loop' = loop + 1 /\ pc' = IF loop + 1 = 2 * Loops THEN "close0" ELSE "send"
        /\ UNCHANGED <<queue, flight, lost, chance, rx_buf>>
    BY DEF Passed, wireVars
  <1>2. loop \in Nat /\ Size \in Nat \ {0} /\ Loops \in Nat /\ loop < 2 * Loops
    BY <1>1 DEF CarryShape, CarryCount
  <1>3. Receiver \in Wires /\ Other \in Wires /\ Receiver # Other
        /\ Receiver' = Other /\ Other' = Receiver /\ \A p \in Wires : p = Receiver \/ p = Other
    BY <1>1, <1>2, Directions
  <1>4. 1..Size \subseteq Bytes(rx_buf)
    <2>1. rx_buf \in Seq(0..Size)
      BY DEF CarryShape
    <2>2. \A k \in 1..Size : SubSeq(rx_buf, 1, Size)[k] = rx_buf[k] /\ k \in 1..Len(rx_buf)
      BY <1>1, <1>2, <2>1
    <2>3. \A k \in 1..Size : SubSeq(rx_buf, 1, Size)[k] = k
      BY <1>1 DEF Verified
    <2> QED BY <2>2, <2>3 DEF Bytes
  <1>5. CarryShape'
    BY <1>1, <1>2 DEF CarryShape
  <1>6. CarryCount'
    BY <1>1, <1>2 DEF CarryCount
  <1>7. ASSUME ~chance PROVE CarryPlace' /\ Transfer'
    <2>1. ~lost
      BY <1>1, <1>4, <1>7 DEF Transfer, Come
    <2>2. flight[Receiver] = <<>>
      <3> SUFFICES ASSUME flight[Receiver] # <<>> PROVE FALSE
        OBVIOUS
      <3>1. flight[Receiver] \in Seq(0..Size)
        BY <1>3 DEF CarryShape
      <3>2. 1 \in 1..Len(flight[Receiver])
        BY <3>1
      <3>3. flight[Receiver][1] \in Bytes(flight[Receiver])
        BY <3>2 DEF Bytes
      <3>4. flight[Receiver][1] \in 1..Size /\ Size \in Come
        BY <1>1, <1>2, <1>4, <1>7, <3>3 DEF Transfer, Come
      <3>5. Size < flight[Receiver][1]
        BY <1>1, <1>7, <3>3, <3>4 DEF Transfer
      <3> QED BY <1>2, <3>4, <3>5
    <2>3. \A p \in Wires : flight'[p] = <<>>
      BY <1>1, <1>3, <1>7, <2>2 DEF Transfer
    <2>4. CarryPlace'
      BY <1>1, <1>3, <2>1, <2>3 DEF CarryPlace
    <2> QED BY <1>1, <2>4 DEF Transfer
  <1> QED BY <1>1, <1>5, <1>6, <1>7

\* The cable carries a byte.
LEMMA CarryDeliver == ASSUME CarryInv, NEW p \in Wires, Deliver(p) PROVE CarryInv'
  <1> USE IoTestAssumption DEF CarryInv, Before, After
  <1>1. loop \in Nat /\ Size \in Nat /\ 0..Size \subseteq Int
    BY DEF CarryShape
  <1>2. /\ flight[p] # <<>> /\ flight' = [flight EXCEPT ![p] = Tail(@)]
        /\ queue' = [queue EXCEPT ![p] = Append(@, Head(flight[p]))]
        /\ UNCHANGED <<pc, loop, rx_buf, lost, chance>>
    BY DEF Deliver, rxVars
  <1>3. flight[p] \in Seq(0..Size) /\ queue[p] \in Seq(0..Size)
    BY DEF CarryShape
  <1>4. Tail(flight[p]) \in Seq(0..Size) /\ Append(queue[p], Head(flight[p])) \in Seq(0..Size)
    <2>1. Tail(flight[p]) \in Seq(0..Size) /\ Head(flight[p]) \in 0..Size
      BY <1>2, <1>3, FirstAndRest
    <2> QED BY <1>3, <2>1
  <1>5. CarryShape'
    BY <1>2, <1>4 DEF CarryShape
  <1>6. CarryCount'
    BY <1>2 DEF CarryCount
  <1>7. CarryPlace => CarryPlace'
    BY <1>2 DEF CarryPlace
  <1>8. Transfer => Transfer'
    <2> SUFFICES ASSUME Transfer, pc = "recv" PROVE Transfer'
      BY <1>2 DEF Transfer
    <2>1. Receiver \in Wires /\ Other \in Wires /\ Receiver # Other
          /\ Receiver' = Receiver /\ Other' = Other /\ p = Receiver
      BY <1>1, <1>2, Directions DEF Transfer
    <2>2. flight'[Other] = <<>> /\ flight'[p] = Tail(flight[p])
          /\ queue'[p] = Append(queue[p], Head(flight[p]))
      BY <1>2, <2>1 DEF CarryShape, Transfer
    <2>3. Ascending(flight[p])
      BY <2>1 DEF Transfer
    <2>4. /\ Bytes(flight[p]) = Bytes(Tail(flight[p])) \union {Head(flight[p])}
          /\ Ascending(Tail(flight[p])) /\ \A y \in Bytes(Tail(flight[p])) : Head(flight[p]) < y
      BY <1>1, <1>2, <1>3, <2>3, BytesTail
    <2>5. Bytes(queue'[p]) = Bytes(queue[p]) \union {Head(flight[p])}
      BY <1>3, <2>2, BytesAppend
    <2>6. Come' = Come \union {Head(flight[p])}
      BY <1>2, <2>1, <2>5 DEF Come
    <2>7. flight'[Other'] = <<>> /\ Ascending(flight'[Receiver'])
      BY <2>1, <2>2, <2>4
    <2>8. Bytes(flight'[Receiver']) = Bytes(Tail(flight[p]))
      BY <2>1, <2>2
    <2>9. Bytes(flight'[Receiver']) \subseteq 1..Size
      BY <2>1, <2>4, <2>8 DEF Transfer
    <2>10. \A x \in Come', y \in Bytes(flight'[Receiver']) : x < y
      BY <2>1, <2>4, <2>6, <2>8 DEF Transfer
    <2>11. lost' => \E k \in 1..Size : k \notin Come' /\ k \notin Bytes(flight'[Receiver'])
      BY <1>2, <2>1, <2>4, <2>6, <2>8 DEF Transfer
    <2> QED BY <1>2, <2>7, <2>9, <2>10, <2>11 DEF Transfer
  <1> QED BY <1>2, <1>5, <1>6, <1>7, <1>8

\* The cable loses a byte: it is missing from then on.
LEMMA CarryLose == ASSUME CarryInv, NEW p \in Wires, Lose(p) PROVE CarryInv'
  <1> USE IoTestAssumption DEF CarryInv, Before, After
  <1>1. loop \in Nat /\ Size \in Nat /\ 0..Size \subseteq Int
    BY DEF CarryShape
  <1>2. /\ pc = "recv" /\ flight[p] # <<>> /\ flight' = [flight EXCEPT ![p] = Tail(@)]
        /\ UNCHANGED <<pc, loop, rx_buf, queue, chance>> /\ lost' = TRUE
    BY DEF Lose, rxVars
  <1>3. flight[p] \in Seq(0..Size)
    BY DEF CarryShape
  <1>4. Tail(flight[p]) \in Seq(0..Size)
    BY <1>2, <1>3, FirstAndRest
  <1>5. CarryShape'
    BY <1>2, <1>4 DEF CarryShape
  <1>6. CarryCount' /\ CarryPlace'
    BY <1>2 DEF CarryCount, CarryPlace
  <1>7. ASSUME Transfer PROVE Transfer'
    <2>1. Receiver \in Wires /\ Other \in Wires /\ Receiver # Other
          /\ Receiver' = Receiver /\ Other' = Other /\ p = Receiver
      BY <1>1, <1>2, <1>7, Directions DEF Transfer
    <2>2. flight'[Other] = <<>> /\ flight'[p] = Tail(flight[p])
      BY <1>2, <1>7, <2>1 DEF CarryShape, Transfer
    <2>3. Ascending(flight[p])
      BY <1>2, <1>7, <2>1 DEF Transfer
    <2>4. /\ Bytes(flight[p]) = Bytes(Tail(flight[p])) \union {Head(flight[p])}
          /\ Ascending(Tail(flight[p])) /\ \A y \in Bytes(Tail(flight[p])) : Head(flight[p]) < y
      BY <1>1, <1>2, <1>3, <2>3, BytesTail
    <2>5. Come' = Come
      BY <1>2, <2>1 DEF Come
    <2>6. Bytes(flight'[Receiver']) = Bytes(Tail(flight[p])) /\ Ascending(flight'[Receiver'])
      BY <2>1, <2>2, <2>4
    <2>7. Head(flight[p]) \in 1..Size /\ Head(flight[p]) \notin Come
          /\ Head(flight[p]) \notin Bytes(flight'[Receiver'])
      <3>1. Head(flight[p]) \in 1..Size /\ \A x \in Come : x < Head(flight[p])
        BY <1>2, <1>7, <2>1, <2>4 DEF Transfer
      <3>2. ~(Head(flight[p]) < Head(flight[p]))
        BY <3>1
      <3> QED BY <2>4, <2>6, <3>1, <3>2
    <2> QED BY <1>2, <1>7, <2>1, <2>2, <2>4, <2>5, <2>6, <2>7 DEF Transfer
  <1> QED BY <1>2, <1>5, <1>6, <1>7

\* Noise brings a byte that is less than any that was sent, comes on the other line, or
\* counts as chance.
LEMMA CarryNoise == ASSUME CarryInv, NEW p \in Wires, Noise(p) PROVE CarryInv'
  <1> USE IoTestAssumption DEF CarryInv, Before, After
  <1>1. loop \in Nat /\ Size \in Nat
    BY DEF CarryShape
  <1>2. PICK b \in 0..Size :
          /\ queue' = [queue EXCEPT ![p] = Append(@, b)]
          /\ chance' = (chance \/ (b # 0 /\ p = Receiver))
    BY DEF Noise
  <1>3. pc = "recv" /\ UNCHANGED <<pc, loop, rx_buf, flight, lost>>
    BY DEF Noise, rxVars
  <1>4. queue[p] \in Seq(0..Size)
    BY DEF CarryShape
  <1>5. Append(queue[p], b) \in Seq(0..Size) /\ Bytes(Append(queue[p], b)) = Bytes(queue[p]) \union {b}
    BY <1>4, BytesAppend
  <1>6. CarryShape'
    BY <1>2, <1>3, <1>5 DEF CarryShape
  <1>7. CarryCount' /\ CarryPlace'
    BY <1>3 DEF CarryCount, CarryPlace
  <1>8. ASSUME ~chance' PROVE Transfer'
    <2>1. Receiver' = Receiver /\ Other' = Other /\ Receiver \in Wires
      BY <1>1, <1>3, Directions
    <2>2. ~chance /\ (p = Receiver => b = 0)
      BY <1>2, <1>8
    <2>3. Come' \subseteq Come \union {0}
      <3>1. queue'[Receiver] = IF p = Receiver THEN Append(queue[p], b) ELSE queue[Receiver]
        BY <1>2, <2>1 DEF CarryShape
      <3> QED BY <1>3, <1>5, <2>1, <2>2, <3>1 DEF Come
    <2> QED BY <1>3, <2>1, <2>2, <2>3 DEF Transfer
  <1> QED BY <1>6, <1>7, <1>8

\* Every step keeps the invariant.
LEMMA CarryNext == CarryInv /\ [IoNext]_vars => CarryInv'
  <1> SUFFICES ASSUME CarryInv, [IoNext]_vars PROVE CarryInv'
    OBVIOUS
  <1> USE DEF wireVars
  <1>1. CASE Main \/ Go \/ Exit
    BY <1>1, CarryElsewhere DEF Main, Go, Exit, Before
  <1>2. CASE Open("open0", "uart0", "ttyS0", "open1") \/ Open("open1", "uart1", "ttyS1", "dummy")
    BY <1>2, CarryElsewhere DEF Open, Before
  <1>3. CASE \/ Close("close0", "uart0", "close1") \/ Close("close1", "uart1", "setup")
             \/ Close("destroy1", "uart1", "destroy0") \/ Close("destroy0", "uart0", "exit")
    BY <1>3, CarryDiscard DEF Close, After
  <1>4. CASE Fail("open0") \/ Fail("open1") \/ Fail("send") \/ ReadFails \/ RxTimeout \/ NotPassed
    BY <1>4, CarryDiscard DEF ReadFails, RxTimeout, NotPassed, Fail
  <1>5. CASE Dummy \/ Flush \/ Send \/ Recv \/ Passed
    BY <1>5, CarryStart, CarrySend, CarryRecv, CarryPassed
  <1>6. CASE TestAllGpio
    <2>1. UNCHANGED <<queue, flight, lost, chance, rxVars>>
      BY <1>6 DEF TestAllGpio, GpioGoes, Setup, SetupFails, SetPin, SetPinBy, WaitEnds, GetKey,
                  KeyComes, Abort, Leave
    <2>2. pc' \in {"leave", "exit"} \/ (pc \in After /\ pc' \in After)
      BY <1>6 DEF TestAllGpio, GpioGoes, Setup, SetupFails, SetPin, SetPinBy, WaitEnds, GetKey,
                  KeyComes, Abort, Leave, After
    <2> QED BY <2>1, <2>2, CarryElsewhere
  <1>7. CASE TimePasses \/ ClockIsSet \/ \E n \in Pins : OtherWrites(n)
    BY <1>7, CarryElsewhere DEF TimePasses, ClockIsSet, OtherWrites
  <1>8. CASE \E p \in Wires : Deliver(p) \/ Lose(p) \/ Noise(p)
    BY <1>8, CarryDeliver, CarryLose, CarryNoise
  <1>9. CASE UNCHANGED vars
    BY <1>9, CarryElsewhere DEF vars
  <1> QED
    BY <1>1, <1>2, <1>3, <1>4, <1>5, <1>6, <1>7, <1>8, <1>9
    DEF IoNext, Program, TestUart, UartGoes, UartFails

\* Nothing has been sent at the start.
LEMMA CarryInit == IoInit => CarryInv
  <1> SUFFICES ASSUME IoInit PROVE CarryInv
    OBVIOUS
  <1>1. CarryShape
    <2>1. Loops \in Nat /\ 0 \in 0..(2 * Loops)
      BY IoTestAssumption
    <2>2. <<>> \in Seq(0..Size)
      OBVIOUS
    <2> QED BY <2>1, <2>2 DEF IoInit, CarryShape
  <1> QED BY <1>1 DEF IoInit, CarryInv, CarryCount, CarryPlace, Transfer, Before, After

\* When TestUart succeeds, every transfer has been made, and a byte of one was lost only
\* if noise had by chance put a byte like those that were sent on the same line, however
\* many bytes the cable loses or adds and however they are read (main.cpp:376-447).
THEOREM AllIsCarried == IoSpec => []CarriedAll
  <1>1. IoInit => CarryInv
    BY CarryInit
  <1>2. CarryInv => CarriedAll
    BY DEF CarryInv, CarryShape, CarryCount, CarryPlace, CarriedAll, After
  <1> QED BY <1>1, <1>2, CarryNext, PTL DEF IoSpec

LEMMA LenConcat ==
  ASSUME NEW S, NEW s \in Seq(S), NEW t \in Seq(S)
  PROVE  Len(s \o t) = Len(s) + Len(t) /\ Len(s) \in Nat
  OBVIOUS

\* What has been received never outgrows what the loop was waiting for by more than one
\* chunk.
Room == Len(rx_buf) < Size + Chunk

\* The check "Rxed data too large" (main.cpp:407, 482) never fires: a transfer is read in
\* chunks of buf until Size bytes have come, and rx_buf has room for one chunk more.
THEOREM BufferHasRoom == IoSpec => []Room
  <1> USE IoTestAssumption DEF Room
  <1>1. IoInit => CarryInv /\ Room
    <2> SUFFICES ASSUME IoInit PROVE CarryInv /\ Room
      OBVIOUS
    <2>1. CarryInv
      BY CarryInit
    <2> QED BY <2>1 DEF IoInit
  <1>2. CarryInv /\ Room /\ [IoNext]_vars => Room'
    <2> SUFFICES ASSUME CarryInv, Room, [IoNext]_vars PROVE Room'
      OBVIOUS
    <2>1. ASSUME rx_buf' = <<>> \/ rx_buf' = rx_buf PROVE Room'
      BY <2>1
    <2>2. CASE Recv
      <3>1. PICK n \in 1..Chunk : /\ n <= Len(queue[Receiver])
                                  /\ rx_buf' = rx_buf \o SubSeq(queue[Receiver], 1, n)
        BY <2>2 DEF Recv
      <3>2. rx_buf \in Seq(0..Size) /\ Len(rx_buf) < Size
        BY <2>2 DEF Recv, CarryInv, CarryShape
      <3>3. queue[Receiver] \in Seq(0..Size)
        BY Directions DEF CarryInv, CarryShape
      <3>4. SubSeq(queue[Receiver], 1, n) \in Seq(0..Size)
            /\ Len(SubSeq(queue[Receiver], 1, n)) = n
        <4>1. n \in 1..Len(queue[Receiver])
          BY <3>1, <3>3
        <4> QED BY <3>3, <4>1, BytesSplit
      <3>5. Len(rx_buf') = Len(rx_buf) + n /\ Len(rx_buf) \in Nat
        <4> DEFINE got == SubSeq(queue[Receiver], 1, n)
        <4>1. rx_buf' = rx_buf \o got /\ got \in Seq(0..Size) /\ Len(got) = n
          BY <3>1, <3>4
        <4>2. n \in Nat
          BY <3>1
        <4> HIDE DEF got
        <4>3. Len(rx_buf \o got) = Len(rx_buf) + Len(got) /\ Len(rx_buf) \in Nat
          BY <3>2, <4>1, LenConcat, Zenon
        <4> QED BY <4>1, <4>2, <4>3
      <3> QED BY <3>2, <3>5
    <2>3. CASE \/ Fail("open0") \/ Fail("open1") \/ Fail("send") \/ ReadFails \/ RxTimeout
               \/ NotPassed \/ Send
      BY <2>1, <2>3 DEF Fail, Discard, ReadFails, RxTimeout, NotPassed, Send
    <2>4. CASE Main \/ Go \/ Exit \/ TestAllGpio \/ Dummy \/ Flush \/ Passed
      BY <2>1, <2>4 DEF Main, Go, Exit, TestAllGpio, GpioGoes, Setup, SetupFails, SetPin, SetPinBy,
                        WaitEnds, GetKey, KeyComes, Abort, Leave, Dummy, Flush, Passed, rxVars
    <2>5. CASE \/ Open("open0", "uart0", "ttyS0", "open1") \/ Open("open1", "uart1", "ttyS1", "dummy")
               \/ Close("close0", "uart0", "close1") \/ Close("close1", "uart1", "setup")
               \/ Close("destroy1", "uart1", "destroy0") \/ Close("destroy0", "uart0", "exit")
      BY <2>1, <2>5 DEF Open, Close, Discard, rxVars
    <2>6. CASE \/ TimePasses \/ ClockIsSet \/ \E n \in Pins : OtherWrites(n)
               \/ \E p \in Wires : Deliver(p) \/ Lose(p) \/ Noise(p)
      BY <2>1, <2>6 DEF TimePasses, ClockIsSet, OtherWrites, Deliver, Lose, Noise, rxVars
    <2>7. CASE UNCHANGED vars
      BY <2>1, <2>7 DEF vars, rxVars
    <2> QED BY <2>2, <2>3, <2>4, <2>5, <2>6, <2>7
         DEF IoNext, Program, TestUart, UartGoes, UartFails
  <1> QED BY <1>1, <1>2, CarryNext, PTL DEF IoSpec
=============================================================================
