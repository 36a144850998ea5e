--------------------------- MODULE ApClientProofs ---------------------------
(***************************************************************************)
(* Proofs about ApClient for any number of access points, channels, changes *)
(* and failing ioctls.                                                      *)
(***************************************************************************)
EXTENDS ApClient, FiniteSetTheorems, TLAPS

\* Between wifi_repeater_start's two halves the station is off, and there is an
\* entry of the table it is being set up for.
OffOK == pc = "enable" => ~drv.enable /\ assoc = Any

DaemonInv == ApTypeOK /\ OffOK /\ NeverOpen /\ BeaconFollows

-----------------------------------------------------------------------------
(* The table.                                                               *)

LEMMA LineTypes ==
  ASSUME air \in [APs -> OnAir], NEW lines \in Lines
  PROVE  lines \in Seq(Entry)
<1> DEFINE on == {a \in APs : air[a] # {}}
           n == Cardinality(on)
           line(a) == LET c == CHOOSE x \in air[a] : TRUE
                      IN [ap |-> a, channel |-> c[1], sec |-> c[2]]
<1>1. n \in Nat
  BY ApAssumption, FS_Subset, FS_CardinalityType
<1>2. ASSUME NEW a \in on PROVE line(a) \in Entry
  <2>1. (CHOOSE x \in air[a] : TRUE) \in Channels \X Secs
    BY <1>2 DEF OnAir
  <2>2. QED
    BY <2>1, <1>2 DEF Entry
<1>3. PICK f \in [1..n -> on] : lines = [i \in 1..n |-> line(f[i])]
  BY DEF Lines
<1> HIDE DEF line, on, n
<1>4. lines \in [1..n -> Entry]
  BY <1>2, <1>3
<1>5. QED
  BY <1>1, <1>4

LEMMA SurveyTypes ==
  ASSUME NEW lines \in Seq(Entry)
  PROVE  Survey(lines) \in Seq(Entry) /\ Len(Survey(lines)) <= MaxTable
<1>1. MaxTable \in Nat \ {0} /\ Len(lines) \in Nat
  BY BoundAssumption
<1>2. CASE Len(lines) > MaxTable
  <2>1. /\ SubSeq(lines, 1, MaxTable) \in Seq(Entry)
        /\ Len(SubSeq(lines, 1, MaxTable)) = MaxTable
    BY <1>1, <1>2
  <2>2. QED
    BY <1>1, <1>2, <2>1 DEF Survey, UpTo
<1>3. CASE ~(Len(lines) > MaxTable)
  BY <1>1, <1>3 DEF Survey, UpTo
<1>4. QED
  BY <1>2, <1>3

LEMMA FirstTypes ==
  ASSUME NEW tab \in Seq(Entry)
  PROVE  First(tab) \subseteq Entry /\ \A x, y \in First(tab) : x = y
<1> DEFINE fit == {i \in DOMAIN tab : Bssid \in {tab[i].ap, Any}}
<1>1. fit \subseteq Nat /\ \A i \in fit : tab[i] \in Entry
  OBVIOUS
<1>2. \A j, k \in fit : (\A i \in fit : j <= i) /\ (\A i \in fit : k <= i) => j = k
  BY <1>1
<1>3. QED
  BY <1>1, <1>2 DEF First

-----------------------------------------------------------------------------
(* The invariant.                                                           *)

LEMMA ApInitInv == ASSUME ApInit PROVE DaemonInv
<1>1. ApTypeOK
  <2>1. drv \in DriverSettings
    BY DEF ApInit, Off, DriverSettings
  <2>2. table \in Seq(Entry) /\ Len(table) = 0
    BY DEF ApInit
  <2>3. QED
    BY <2>1, <2>2, BoundAssumption DEF ApInit, ApTypeOK
<1>2. drv.enable = FALSE /\ ~(count > 0) /\ pc = "check"
  <2>1. drv = Off /\ count = 0 /\ pc = "check"
    BY DEF ApInit
  <2>2. Off.enable = FALSE
    BY DEF Off
  <2>3. QED
    BY <2>1, <2>2
<1>3. QED
  BY <1>1, <1>2 DEF DaemonInv, OffOK, NeverOpen, BeaconFollows

LEMMA CheckInv == ASSUME DaemonInv, Check PROVE DaemonInv'
<1> PICK yes \in Answers :
      /\ NotAssociated(yes) \/ Associated(yes)
      /\ errors' = IF yes = (assoc # Any) THEN errors ELSE errors + 1
      /\ UNCHANGED <<air, table, found, drv, assoc, changes>>
  BY DEF Check
<1>1. OffOK' /\ NeverOpen'
  BY DEF DaemonInv, OffOK, NeverOpen, NotAssociated, Associated
<1>2. errors' \in 0..MaxErrors
  BY BoundAssumption DEF DaemonInv, ApTypeOK, Answers
<1>3. CASE NotAssociated(yes)
  BY <1>1, <1>2, <1>3 DEF NotAssociated, BeaconFollows, DaemonInv, ApTypeOK
<1>4. CASE Associated(yes)
  <2>1. count' \in 0..2 /\ pc' = "sleep"
    BY <1>4 DEF Associated, DaemonInv, ApTypeOK
  <2>2. beacon' = TRUE /\ led' = FALSE
    <3>1. CASE count = 0
      BY <1>4, <3>1 DEF Associated
    <3>2. CASE count # 0
      <4>1. beacon' = beacon /\ led' = led
        BY <1>4, <3>2 DEF Associated
      <4>2. count > 0 /\ pc = "check"
        BY <1>4, <3>2 DEF Associated, DaemonInv, ApTypeOK
      <4>3. beacon \in BOOLEAN /\ led \in BOOLEAN /\ beacon /\ ~led
        BY <4>2 DEF DaemonInv, ApTypeOK, BeaconFollows
      <4>4. QED
        BY <4>1, <4>3
    <3>3. QED
      BY <3>1, <3>2
  <2>3. QED
    BY <1>1, <1>2, <2>1, <2>2 DEF BeaconFollows, DaemonInv, ApTypeOK
<1>5. QED
  BY <1>3, <1>4

LEMMA ScanInv == ASSUME DaemonInv, Scan PROVE DaemonInv'
<1>1. table' \in Seq(Entry) /\ Len(table') <= MaxTable
  BY LineTypes, SurveyTypes DEF Scan, DaemonInv, ApTypeOK
<1>2. QED
  BY <1>1 DEF DaemonInv, ApTypeOK, OffOK, NeverOpen, BeaconFollows, Scan

LEMMA ScanFailsInv == ASSUME DaemonInv, ScanFails PROVE DaemonInv'
BY BoundAssumption DEF DaemonInv, ApTypeOK, OffOK, NeverOpen, BeaconFollows, ScanFails

LEMMA FindInv == ASSUME DaemonInv, Find PROVE DaemonInv'
<1>1. found' \subseteq Entry /\ \A x, y \in found' : x = y
  BY FirstTypes DEF Find, DaemonInv, ApTypeOK
<1>2. QED
  BY <1>1 DEF DaemonInv, ApTypeOK, OffOK, NeverOpen, BeaconFollows, Find, CountLost

LEMMA StartInv == ASSUME DaemonInv, Start PROVE DaemonInv'
<1>1. PICK e \in found :
        /\ drv' = [drv EXCEPT !.channel = e.channel, !.enable = FALSE]
        /\ pc' = IF Auth(e.sec) = {} THEN "sleep" ELSE "enable"
  BY DEF Start
<1>2. e.channel \in Channels
  BY DEF DaemonInv, ApTypeOK, Entry
<1>3. drv' \in DriverSettings /\ drv'.enable = FALSE
  BY <1>1, <1>2 DEF DaemonInv, ApTypeOK, DriverSettings
<1>4. QED
  BY <1>1, <1>3 DEF DaemonInv, ApTypeOK, OffOK, NeverOpen, BeaconFollows, Start

LEMMA EnableInv == ASSUME DaemonInv, Enable PROVE DaemonInv'
<1>0. PICK e \in found : \E auth \in Auth(e.sec) :
        drv' = [drv EXCEPT !.enable = TRUE, !.auth = auth,
                           !.encryp = Encryp(e.sec, drv.encryp), !.bssid = Bssid]
  BY DEF Enable
<1>1. PICK auth \in Auth(e.sec) :
        drv' = [drv EXCEPT !.enable = TRUE, !.auth = auth,
                           !.encryp = Encryp(e.sec, drv.encryp), !.bssid = Bssid]
  BY <1>0
<1>2. auth \in {"NONE", "WEP", "WPAPSK", "WPA2PSK"}
  BY DEF Auth
<1>3. Encryp(e.sec, drv.encryp) \in {"none yet", "WEP", "AES", "TKIP"}
  BY DEF Encryp, DaemonInv, ApTypeOK, DriverSettings
<1>4. drv' \in DriverSettings /\ drv'.auth = auth /\ drv'.encryp = Encryp(e.sec, drv.encryp)
  BY <1>1, <1>2, <1>3, ApAssumption DEF DaemonInv, ApTypeOK, DriverSettings
<1>5. ASSUME HasKey
      PROVE  /\ auth # "NONE"
             /\ auth \in {"WPAPSK", "WPA2PSK"} <=>
                  Encryp(e.sec, drv.encryp) \in {"AES", "TKIP"}
  BY <1>5 DEF Auth, Encryp, IsWpa
<1>6. assoc' = Any
  BY DEF Enable, DaemonInv, OffOK
<1>7. QED
  BY <1>4, <1>5, <1>6 DEF DaemonInv, ApTypeOK, OffOK, NeverOpen, BeaconFollows, Enable

LEMMA SleepInv == ASSUME DaemonInv, Sleep PROVE DaemonInv'
BY DEF DaemonInv, ApTypeOK, OffOK, NeverOpen, BeaconFollows, Sleep

LEMMA AirInv == ASSUME DaemonInv, AirChanges PROVE DaemonInv'
<1>1. PICK a \in APs, on \in OnAir :
        /\ air' = [air EXCEPT ![a] = on]
        /\ assoc' = IF assoc = a THEN Any ELSE assoc
  BY DEF AirChanges
<1>2. ApTypeOK'
  <2>2. air' \in [APs -> OnAir]
    BY <1>1 DEF DaemonInv, ApTypeOK
  <2>3. changes' \in 0..MaxChanges
    BY BoundAssumption DEF DaemonInv, ApTypeOK, AirChanges
  <2>4. QED
    BY <1>1, <2>2, <2>3 DEF DaemonInv, ApTypeOK, AirChanges
<1>3. assoc' # Any => assoc' = assoc /\ air'[assoc] = air[assoc]
  BY <1>1 DEF DaemonInv, ApTypeOK
<1>4. QED
  BY <1>1, <1>2, <1>3 DEF DaemonInv, OffOK, NeverOpen, BeaconFollows, AirChanges

LEMMA AssociateInv == ASSUME DaemonInv, Associate PROVE DaemonInv'
<1>1. assoc' \in APs /\ Accepts(assoc', drv)
  BY DEF Associate
<1>2. ApTypeOK'
  BY <1>1 DEF DaemonInv, ApTypeOK, Associate
<1>3. ASSUME HasKey PROVE \A c \in air[assoc'] : c[2].enc # "NONE"
  <2>1. drv.auth # "NONE"
    BY <1>3 DEF DaemonInv, NeverOpen, Associate
  <2>2. PICK c \in air[assoc'] : c[2].enc # "NONE"
    BY <1>1, <2>1 DEF Accepts
  <2>3. air[assoc'] = {c}
    BY <1>1, <2>2 DEF DaemonInv, ApTypeOK, OnAir
  <2>4. QED
    BY <2>2, <2>3
<1>4. QED
  BY <1>2, <1>3 DEF DaemonInv, OffOK, NeverOpen, BeaconFollows, Associate

LEMMA ApStutter == ASSUME DaemonInv, UNCHANGED apVars PROVE DaemonInv'
BY DEF DaemonInv, ApTypeOK, OffOK, NeverOpen, BeaconFollows, apVars

\* The invariant of the proofs.
THEOREM ApInvariant == ApSpec => []DaemonInv
<1>1. ApInit => DaemonInv
  BY ApInitInv
<1>2. DaemonInv /\ [ApNext]_apVars => DaemonInv'
  BY ApStutter, CheckInv, ScanInv, ScanFailsInv, FindInv, StartInv, EnableInv, SleepInv,
     AirInv, AssociateInv
     DEF ApNext, Daemon
<1>3. QED
  BY <1>1, <1>2, PTL DEF ApSpec

\* Type correctness: among others, the table of scan results keeps its limit.
THEOREM ApTypeCorrect == ApSpec => []ApTypeOK
BY ApInvariant, PTL DEF DaemonInv

\* A daemon with a key never joins an open network, whatever scans, ioctls and access
\* points do.
THEOREM ApNeverOpen == ApSpec => []NeverOpen
BY ApInvariant, PTL DEF DaemonInv

\* Beacons are on and the LED is still while the daemon takes itself for associated.
THEOREM ApBeacon == ApSpec => []BeaconFollows
BY ApInvariant, PTL DEF DaemonInv
=============================================================================
