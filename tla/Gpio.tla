-------------------------------- MODULE Gpio --------------------------------
(***************************************************************************)
(* CGpio of eclipse_openwrt/ioTest/src/gpio.cpp and the pins it drives      *)
(* through /sys/class/gpio.  The level last written is remembered, and the  *)
(* same level is not written twice.                                         *)
(***************************************************************************)
EXTENDS Integers

CONSTANTS Pins   \* the GPIOs in range

GPIO_STATE_UNKNOWN == -1
GPIO_STATE_LOW == 0
GPIO_STATE_HIGH == 1

VARIABLES
  gpioInfo,  \* per pin: is its value file open, the state remembered, isOutput
  pin        \* per pin: its direction and its level

gpioVars == <<gpioInfo, pin>>

\* Mutant: what the record happens to hold stays as the state.
SetupState_Left == GPIO_STATE_HIGH

SetupState == GPIO_STATE_UNKNOWN

\* The state of a pin that is not open is not looked at.
GpioInit ==
  /\ gpioInfo = [n \in Pins |-> [fd |-> FALSE, state |-> SetupState, isOutput |-> FALSE]]
  /\ pin = [n \in Pins |-> [dir |-> "in", level |-> GPIO_STATE_LOW]]

\* The kernel makes an output low when "out" is written to its direction.
Directed(n, asOutput) ==
  [pin[n] EXCEPT !.dir = IF asOutput THEN "out" ELSE "in",
                 !.level = IF asOutput THEN GPIO_STATE_LOW ELSE @]

\* The outcome of the write to the direction, which is not looked at: it may fail.
WriteDirection(n, asOutput) ==
  pin' \in {pin, [pin EXCEPT ![n] = Directed(n, asOutput)]}

\* Returns 0.  A pin that is open already is left as it is.
setup(n, asOutput) ==
  IF gpioInfo[n].fd
  THEN UNCHANGED gpioVars
  ELSE /\ WriteDirection(n, asOutput)
       /\ gpioInfo' = [gpioInfo EXCEPT ![n] = [fd |-> TRUE, state |-> SetupState, isOutput |-> asOutput]]

\* Returns -1: the export file, the direction or, after the direction is written, the
\* value cannot be opened.  An export that fails is noticed when the direction is opened.
setupFails(n, asOutput) ==
  /\ ~gpioInfo[n].fd
  /\ WriteDirection(n, asOutput)
  /\ UNCHANGED gpioInfo

Differs(n, state) == gpioInfo[n].state # state

\* set returns 0 for an open output; otherwise -1, and nothing changes.  The state is
\* remembered before it is written, and the write's outcome is not looked at: it may
\* fail, and the kernel refuses to write the level of an input.
setOk(n) == gpioInfo[n].fd /\ gpioInfo[n].isOutput

set(n, state, written) ==
  IF setOk(n) /\ Differs(n, state)
  THEN /\ gpioInfo' = [gpioInfo EXCEPT ![n].state = state]
       /\ pin' = IF written /\ pin[n].dir = "out" THEN [pin EXCEPT ![n].level = state] ELSE pin
  ELSE UNCHANGED gpioVars

\* The destructor.
closeGpio ==
  /\ gpioInfo' = [n \in Pins |-> [gpioInfo[n] EXCEPT !.fd = FALSE]]
  /\ UNCHANGED pin
=============================================================================
