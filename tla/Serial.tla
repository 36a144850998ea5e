------------------------------- MODULE Serial -------------------------------
(***************************************************************************)
(* CSerial of eclipse_openwrt/ioTest/src/serial.cpp: objects that open a    *)
(* serial port, save its terminal settings, put their own in place and give *)
(* the old ones back when they close it.  All objects save them in the one  *)
(* variable gOldTio.                                                        *)
(*                                                                          *)
(* The flags of c_cflag are sets of bit numbers, as in the termbits.h of    *)
(* MIPS; a configuration string is the tuple of its characters, for openPort*)
(* looks for the entries of its tables anywhere in it.                      *)
(***************************************************************************)
EXTENDS Integers, Sequences

CONSTANTS
  Objects,   \* CSerial objects
  Ports,     \* the terminals
  NoPort,    \* INVALID_HANDLE_VALUE
  Configs    \* the configuration strings asked for

ASSUME SerialAssumption == NoPort \notin Ports

VARIABLES
  fdComPort, \* the port each object has open
  tio,       \* the settings of each terminal
  gOldTio,   \* the saved settings, as a set: empty for NULL
  modem,     \* the lines among DTR and RTS that are on at each port
  cfg,       \* history: the configuration each object was opened with, and its flags
  asked,     \* history: the lines as last asked for
  found,     \* history: the settings each open object found in its port
  last       \* history: the object opened last

serialVars == <<fdComPort, tio, gOldTio, modem, cfg, asked, found, last>>

\* Settings of a terminal: its own, or those a program has given it.
Orig(p) == <<"original", p>>
Ours(flags) == <<"ours", flags>>

BaudTable == <<
  [str |-> <<"1", "2", "0", "0">>,           value |-> {0, 3}],
  [str |-> <<"2", "4", "0", "0">>,           value |-> {0, 1, 3}],
  [str |-> <<"4", "8", "0", "0">>,           value |-> {2, 3}],
  [str |-> <<"9", "6", "0", "0">>,           value |-> {0, 2, 3}],
  [str |-> <<"1", "4", "4", "0", "0">>,      value |-> {6, 11, 12, 13}],
  [str |-> <<"1", "9", "2", "0", "0">>,      value |-> {1, 2, 3}],
  [str |-> <<"2", "8", "8", "0", "0">>,      value |-> {7, 12, 13, 14}],
  [str |-> <<"3", "8", "4", "0", "0">>,      value |-> {0, 1, 2, 3}],
  [str |-> <<"5", "7", "6", "0", "0">>,      value |-> {0, 12}],
  [str |-> <<"1", "1", "5", "2", "0", "0">>, value |-> {1, 12}]>>

\* CS7 or CS8, PARENB and PARODD, CSTOPB.
ModeFlags(par, data, stop) ==
  {5} \union (IF data = "8" THEN {4} ELSE {}) \union (IF par = "N" THEN {} ELSE {8})
    \union (IF par = "O" THEN {9} ELSE {}) \union (IF stop = "2" THEN {6} ELSE {})

\* Twelve modes written like N81, then the same twelve like 8N1.
ModeTable ==
  [i \in 1..24 |->
    LET par  == <<"N", "E", "O">>[((i - 1) % 3) + 1]
        data == <<"8", "7">>[(((i - 1) \div 3) % 2) + 1]
        stop == <<"1", "2">>[(((i - 1) \div 6) % 2) + 1]
    IN [str |-> IF i <= 12 THEN <<par, data, stop>> ELSE <<data, par, stop>>,
        value |-> ModeFlags(par, data, stop)]]

\* strstr finds t in s.
searchCfg(s, t) == \E k \in 0..(Len(s) - Len(t)) : SubSeq(s, k + 1, k + Len(t)) = t

\* The value of the first entry of the table that occurs in the string.
Extract(table, s, default) ==
  LET hits == {i \in DOMAIN table : searchCfg(s, table[i].str)}
  IN IF hits = {} THEN default
     ELSE table[CHOOSE i \in hits : \A j \in hits : i <= j].value

CFlags(s) ==
  Extract(BaudTable, s, {0, 2, 3}) \union Extract(ModeTable, s, {4, 5}) \union {7, 11}

Opened(o) == fdComPort[o] # NoPort

NoConfig == [str |-> <<>>, flags |-> {}]

SerialInit ==
  /\ fdComPort = [o \in Objects |-> NoPort]
  /\ tio = [p \in Ports |-> Orig(p)]
  /\ gOldTio = {}
  /\ modem = [p \in Ports |-> {"DTR", "RTS"}] /\ asked = modem
  /\ cfg = [o \in Objects |-> NoConfig]
  /\ found = [o \in Objects |-> {}]
  /\ last = NoPort

\* An object that has a port open already, or whose port cannot be opened, stays as
\* it is.
openPort(o, p, s) ==
  /\ ~Opened(o)
  /\ fdComPort' = [fdComPort EXCEPT ![o] = p]
  /\ gOldTio' = {tio[p]}
  /\ tio' = [tio EXCEPT ![p] = Ours(CFlags(s))]
  /\ cfg' = [cfg EXCEPT ![o] = [str |-> s, flags |-> CFlags(s)]]
  /\ found' = [found EXCEPT ![o] = {tio[p]}]
  /\ last' = o
  /\ UNCHANGED <<modem, asked>>

\* Mutant: gOldTio still points to what was deleted.
AfterClose_Dangling == gOldTio

AfterClose == {}

\* Mutant: the settings are put back through the port they came from.
ClosedPort_Last(o) == IF Opened(last) THEN fdComPort[last] ELSE fdComPort[o]

ClosedPort(o) == fdComPort[o]

\* Also what the destructor does.
closePort(o) ==
  /\ Opened(o)
  /\ tio' = [tio EXCEPT ![ClosedPort(o)] =
                IF gOldTio = {} THEN @ ELSE CHOOSE t \in gOldTio : TRUE]
  /\ gOldTio' = AfterClose
  /\ fdComPort' = [fdComPort EXCEPT ![o] = NoPort]
  /\ found' = [found EXCEPT ![o] = {}] /\ cfg' = [cfg EXCEPT ![o] = NoConfig]
  /\ UNCHANGED <<modem, asked, last>>

\* dtr and rts: to turn a line off, status &= (!TIOCM_DTR) keeps no bit at all.
setLine(o, line, on) ==
  /\ Opened(o)
  /\ modem' = [modem EXCEPT ![fdComPort[o]] = IF on THEN @ \union {line} ELSE {}]
  /\ asked' = [asked EXCEPT ![fdComPort[o]] = IF on THEN @ \union {line} ELSE @ \ {line}]
  /\ UNCHANGED <<fdComPort, tio, gOldTio, cfg, found, last>>

\* Every object uses a port that no other one has open, as those of ioTest do.
SerialNext ==
  \E o \in Objects :
    \/ \E p \in Ports, s \in Configs :
         (\A q \in Objects : fdComPort[q] # p) /\ openPort(o, p, s)
    \/ closePort(o)
    \/ \E line \in {"DTR", "RTS"}, on \in BOOLEAN : setLine(o, line, on)

SerialSpec == SerialInit /\ [][SerialNext]_serialVars

-----------------------------------------------------------------------------
(* Properties.                                                              *)

\* How the kernel reads c_cflag: the index of the speed among the constants Bxxx of
\* the table (none for 14400 and 28800), and the mode.
SpeedOf(flags) ==
  {i \in (DOMAIN BaudTable) \ {5, 7} : BaudTable[i].value = flags \intersect {0, 1, 2, 3, 12}}
ModeOf(flags) ==
  <<IF 8 \notin flags THEN "N" ELSE IF 9 \in flags THEN "O" ELSE "E",
    IF 4 \in flags THEN "8" ELSE "7",
    IF 6 \in flags THEN "2" ELSE "1">>

\* The speed and the mode a configuration string names, written mode last: N81 or 8N1.
AsksFor(s, flags) ==
  LET n == Len(s)
      m == IF s[n - 2] \in {"N", "E", "O"} THEN <<s[n - 2], s[n - 1], s[n]>>
                                           ELSE <<s[n - 1], s[n - 2], s[n]>>
  IN /\ ModeOf(flags) = m
     /\ \E i \in SpeedOf(flags) : BaudTable[i].str = SubSeq(s, 1, n - 4)

\* An open port runs at the speed and in the mode its configuration string names: no
\* entry of the tables (serial.cpp:49-91) shadows another one in the search, and the
\* flags of speed and mode do not overlap.
SetAsAsked ==
  \A o \in Objects : Opened(o) => AsksFor(cfg[o].str, tio[fdComPort[o]][2])

\* As long as an object has its port open, the port keeps the settings that object gave
\* it, whatever the other ones open and close: what closePort gives back reaches no
\* port but its own (serial.cpp:227).
KeepsOwn ==
  \A o \in Objects : Opened(o) => tio[fdComPort[o]] = Ours(cfg[o].flags)

\* What gOldTio points to are the settings that the object opened last found, and
\* that object is still open: closing it first gives its port back what it had,
\* and nothing is given back that was deleted (serial.cpp:225-230).
SavedIsLast == gOldTio # {} => last \in Objects /\ Opened(last) /\ gOldTio = found[last]

\* "Control DTR signal", "Control RTS signal" (serial.cpp:341, 377): each sets its
\* line and no other.
LinesAsAsked == modem = asked
=============================================================================
