------------------------------ MODULE ApClient ------------------------------
(***************************************************************************)
(* The Wi-Fi client daemon ap_client.c (openwrt/feeds/linkit/mtk-sdk-wifi):  *)
(* every ten seconds it looks whether the station interface is associated;  *)
(* if not, it scans, looks for its network in the results and sets the      *)
(* driver up for it.  Access points come, go and change while it does, and  *)
(* the driver associates and loses the association by itself.               *)
(***************************************************************************)
EXTENDS Integers, Sequences, FiniteSets

CONSTANTS
  APs,        \* access points with the SSID the daemon was started with
  Bssid,      \* the one it was told to take, or Any
  Any,
  HasKey,     \* it was given a key
  Channels,
  Secs,       \* what a scan says of an access point: records with enc, crypto
  MaxTable,   \* entries of st, 64
  MaxChanges, \* bound: changes of the access points
  MaxErrors   \* bound: ioctls that fail

ASSUME ApAssumption ==
  /\ IsFiniteSet(APs) /\ Bssid \in APs \union {Any} /\ Any \notin APs
  /\ HasKey \in BOOLEAN
  /\ Secs \subseteq [enc : {"NONE", "WEP", "WPAPSK", "WPA2PSK", "WPAPSKWPA2PSK"},
                     crypto : {"", "AES", "TKIP", "TKIPAES"}]

ASSUME BoundAssumption ==
  MaxTable \in Nat \ {0} /\ MaxChanges \in Nat /\ MaxErrors \in Nat

VARIABLES
  air,      \* which access points are on, and their channel and security
  pc,       \* "check", "scan", "find", "start", "enable" or "sleep"
  table,    \* st[0 .. survey_count - 1]
  found,    \* what wifi_find_ap returned, as a set
  drv,      \* the settings in the driver
  assoc,    \* the access point the station is associated with, or Any for none
  count,    \* assoc_count, which only ever is compared with 0 and 1
  beacon,   \* the access point interface sends beacons
  led,      \* the LED blinks
  changes, errors

apVars == <<air, pc, table, found, drv, assoc, count, beacon, led, changes, errors>>

\* An access point is off, or on a channel with a security.
OnAir == {{}} \union {{c} : c \in Channels \X Secs}
Entry == [ap : APs, channel : Channels, sec : Secs]
Off == [channel |-> 0, enable |-> FALSE, auth |-> "none yet", encryp |-> "none yet", bssid |-> Any]

ApInit ==
  /\ air \in [APs -> OnAir]
  /\ pc = "check" /\ table = <<>> /\ found = {} /\ drv = Off /\ assoc = Any
  /\ count = 0 /\ beacon \in BOOLEAN /\ led = TRUE /\ changes = 0 /\ errors = 0

-----------------------------------------------------------------------------
(* Access points and driver.                                                *)

\* An access point that takes the driver's settings; the key, if any, is the right
\* one.
Accepts(a, d) ==
  \E c \in air[a] :
    /\ c[1] = d.channel
    /\ d.bssid \in {a, Any}
    /\ c[2].enc = "NONE" \/ HasKey
    /\ \/ c[2].enc = d.auth /\ d.auth \in {"NONE", "WEP"}
       \/ /\ d.auth \in {"WPAPSK", "WPA2PSK"} /\ c[2].enc \in {d.auth, "WPAPSKWPA2PSK"}
          /\ c[2].crypto \in {d.encryp, "TKIPAES"}

\* An access point is switched on or off, or moves to another channel or security.
AirChanges ==
  /\ changes < MaxChanges
  /\ changes' = changes + 1
  /\ \E a \in APs, on \in OnAir :
       /\ on # air[a]
       /\ air' = [air EXCEPT ![a] = on]
       /\ assoc' = IF assoc = a THEN Any ELSE assoc
  /\ UNCHANGED <<pc, table, found, drv, count, beacon, led, errors>>

Associate ==
  /\ drv.enable /\ assoc = Any
  /\ assoc' \in {a \in APs : Accepts(a, drv)}
  /\ UNCHANGED <<air, pc, table, found, drv, count, beacon, led, changes, errors>>

-----------------------------------------------------------------------------
(* assoc_loop.                                                              *)

\* check_assoc: the answer is not initialised, and is read even if the ioctl fails.
Answers == {assoc # Any} \union IF errors < MaxErrors THEN BOOLEAN ELSE {}

NotAssociated(yes) ==
  /\ pc = "check" /\ ~yes
  /\ led' = TRUE /\ beacon' = FALSE
  /\ pc' = "scan"
  /\ UNCHANGED count

Associated(yes) ==
  /\ pc = "check" /\ yes
  /\ IF count = 0 THEN beacon' = TRUE /\ led' = FALSE ELSE UNCHANGED <<beacon, led>>
  /\ count' = IF count < 2 THEN count + 1 ELSE count
  /\ pc' = "sleep"

Check ==
  \E yes \in Answers :
    /\ NotAssociated(yes) \/ Associated(yes)
    /\ errors' = IF yes = (assoc # Any) THEN errors ELSE errors + 1
    /\ UNCHANGED <<air, table, found, drv, assoc, changes>>

UpTo(n, s) == IF Len(s) > n THEN SubSeq(s, 1, n) ELSE s

\* Mutant: the results of a scan come after those of the one before.
Survey_Append(lines) == UpTo(MaxTable, table \o lines)

\* Mutant: the limit of the table is not looked at.
Survey_NoLimit(lines) == lines

\* wifi_site_survey: what the scan finds replaces the table.
Survey(lines) == UpTo(MaxTable, lines)

\* The access points that are on, in any order.
Lines ==
  LET on == {a \in APs : air[a] # {}}
      line(a) == LET c == CHOOSE x \in air[a] : TRUE
                 IN [ap |-> a, channel |-> c[1], sec |-> c[2]]
  IN {[i \in 1..Cardinality(on) |-> line(f[i])] :
        f \in {g \in [1..Cardinality(on) -> on] : \A i, j \in DOMAIN g : g[i] = g[j] => i = j}}

Scan ==
  /\ pc = "scan"
  /\ \E lines \in Lines : table' = Survey(lines)
  /\ pc' = "find"
  /\ UNCHANGED <<air, found, drv, assoc, count, beacon, led, changes, errors>>

\* An ioctl that fails leaves the table of the scan before.
ScanFails ==
  /\ pc = "scan"
  /\ errors < MaxErrors
  /\ errors' = errors + 1
  /\ pc' = "find"
  /\ UNCHANGED <<air, table, found, drv, assoc, count, beacon, led, changes>>

\* wifi_find_ap.
First(tab) ==
  LET fit == {i \in DOMAIN tab : Bssid \in {tab[i].ap, Any}}
  IN {tab[i] : i \in {j \in fit : \A k \in fit : j <= k}}

\* Mutant: a connection that is lost does not start the count again.
CountLost_Kept == count

CountLost == 0

Find ==
  /\ pc = "find"
  /\ found' = First(table)
  /\ count' = CountLost
  /\ pc' = IF found' = {} THEN "sleep" ELSE "start"
  /\ UNCHANGED <<air, table, drv, assoc, beacon, led, changes, errors>>

\* ApCliAuthMode for what the scan said; none: leave the station off.
IsWpa(sec) == sec.enc \in {"WPAPSK", "WPA2PSK", "WPAPSKWPA2PSK"}

\* Mutant: an open network is taken although there is a key.
Auth_OpenToo(sec) ==
  IF sec.enc \in {"WPA2PSK", "WPAPSKWPA2PSK"} THEN {"WPA2PSK"} ELSE {sec.enc}

\* The daemon is always given a key, if an empty one.
Auth(sec) ==
  IF sec.enc \in {"WPA2PSK", "WPAPSKWPA2PSK"} THEN {"WPA2PSK"}
  ELSE IF sec.enc \in {"WPAPSK", "WEP"} THEN {sec.enc}
  ELSE IF HasKey THEN {} ELSE {"NONE"}

Encryp(sec, old) ==
  IF IsWpa(sec) THEN IF sec.crypto \in {"AES", "TKIPAES"} THEN "AES" ELSE "TKIP"
  ELSE IF sec.enc = "WEP" THEN "WEP" ELSE old

\* wifi_repeater_start up to its early return: the station goes off.
Start ==
  /\ pc = "start"
  /\ \E e \in found :
       /\ drv' = [drv EXCEPT !.channel = e.channel, !.enable = FALSE]
       /\ pc' = IF Auth(e.sec) = {} THEN "sleep" ELSE "enable"
  /\ assoc' = Any
  /\ UNCHANGED <<air, table, found, count, beacon, led, changes, errors>>

\* The rest of it.
Enable ==
  /\ pc = "enable"
  /\ \E e \in found : \E auth \in Auth(e.sec) :
       drv' = [drv EXCEPT !.enable = TRUE, !.auth = auth,
                          !.encryp = Encryp(e.sec, drv.encryp), !.bssid = Bssid]
  /\ pc' = "sleep"
  /\ UNCHANGED <<air, table, found, assoc, count, beacon, led, changes, errors>>

Sleep ==
  /\ pc = "sleep"
  /\ pc' = "check"
  /\ UNCHANGED <<air, table, found, drv, assoc, count, beacon, led, changes, errors>>

Daemon == Check \/ Scan \/ ScanFails \/ Find \/ Start \/ Enable \/ Sleep
ApNext == Daemon \/ AirChanges \/ Associate

ApSpec == ApInit /\ [][ApNext]_apVars

\* The daemon runs on, and the driver, given one sleep of ten seconds after another
\* to associate in, uses one.  An association that always takes longer is undone
\* by the ApCliEnable=0 that follows the next scan.
ApFairSpec ==
  ApSpec /\ WF_apVars(Daemon) /\ SF_apVars(pc = "sleep" /\ Associate)

-----------------------------------------------------------------------------
(* Properties.                                                              *)

DriverSettings ==
  [channel : Channels \union {0}, enable : BOOLEAN, bssid : APs \union {Any},
   auth : {"none yet", "NONE", "WEP", "WPAPSK", "WPA2PSK"},
   encryp : {"none yet", "WEP", "AES", "TKIP"}]

\* The variables have their types, and the table its limit (ap_client.c:133).
ApTypeOK ==
  /\ air \in [APs -> OnAir]
  /\ pc \in {"check", "scan", "find", "start", "enable", "sleep"}
  /\ table \in Seq(Entry) /\ Len(table) <= MaxTable
  /\ found \subseteq Entry /\ \A x, y \in found : x = y
  /\ drv \in DriverSettings
  /\ assoc \in APs \union {Any} /\ count \in 0..2
  /\ beacon \in BOOLEAN /\ led \in BOOLEAN
  /\ changes \in 0..MaxChanges /\ errors \in 0..MaxErrors

\* Whatever the scans and the ioctls said before, the board does not join an open
\* network when it was given a key, and what it has set up for the cipher goes
\* with what it has set up for authentication: a network that changes its
\* security leaves no mixture in the driver (ap_client.c:189-212).
NeverOpen ==
  HasKey /\ drv.enable =>
    /\ drv.auth # "NONE"
    /\ drv.auth \in {"WPAPSK", "WPA2PSK"} <=> drv.encryp \in {"AES", "TKIP"}
    /\ assoc # Any => \A c \in air[assoc] : c[2].enc # "NONE"

\* While the daemon takes the station for associated, beacons are on and the LED
\* does not blink, also after associations lost and found again
\* (ap_client.c:244-276).
BeaconFollows == count > 0 /\ pc \notin {"scan", "find"} => beacon /\ ~led

\* There is a network to join, and none of its name the key is not for.
Joinable ==
  LET there == {a \in APs : air[a] # {} /\ Bssid \in {a, Any}}
  IN there # {} /\ \A a \in there : \A c \in air[a] : HasKey <=> c[2].enc # "NONE"

\* Once the access points stay as they are, with one to join, the station is
\* associated for good, with beacons on, in spite of scans that failed and of
\* tables and settings from before the last change (ap_client.c:117-123, 239-278).
Reconnects == <>[](Joinable => assoc # Any /\ beacon /\ ~led)
=============================================================================
