----------------------------- MODULE WifiConfig -----------------------------
(***************************************************************************)
(* How Wi-Fi settings get from a USB stick into the running system: the    *)
(* boot loader's menu option c (uboot/lib_mips/board.c) stores them in its  *)
(* environment and counts wifi_seq up; when OpenWrt starts, its LinkIt      *)
(* scripts take them over into UCI if wifi_seq is ahead of the number UCI   *)
(* remembers (feeds/linkit/mtk-linkit/files/etc).                           *)
(*                                                                          *)
(* EnvStore is the environment in between, with its power failures.         *)
(***************************************************************************)
EXTENDS EnvStore

CONSTANTS
  Ssids, Keys, \* values of wifi_ssid and of wifi_key
  MaxSeq,      \* bound: configurations stored
  ImageUci,    \* the UCI settings the firmware image comes with
  DefaultSsid, \* LinkIt_Smart_7688_ and the MAC address
  Failures     \* the power may fail, and the flash refuse to work, during saveenv

\* setenv refuses nothing of the kind, and default_environment has none of it.
ASSUME WifiAssumption ==
  /\ Names = {"wifi_ssid", "wifi_key", "wifi_seq"}
  /\ Values = Ssids \union Keys \union 1..MaxSeq
  /\ OnceNames = {} /\ Unsupported = {} /\ DOMAIN DefaultEnv = {}
  /\ ImageUci \in [ssid : Ssids, key : Keys, seq : 0..MaxSeq]
  /\ DefaultSsid \in Ssids
  /\ Failures \in BOOLEAN

VARIABLES
  stage,   \* "uboot", "menu" (option c is done), "hung", "uci-defaults", "start", "up"
  uci,     \* wireless.ap
  first,   \* linkit_firstboot is not set
  configs, \* configurations stored so far
  lost     \* history: a start came up with the default environment after that

wifiVars == <<envVars, stage, uci, first, configs, lost>>

\* A variable's value as a set, for fw_printenv and getenv may find none.
Var(e, n) == IF n \in DOMAIN e THEN {e[n]} ELSE {}
OrElse(found, other) == IF found = {} THEN other ELSE CHOOSE x \in found : TRUE

-----------------------------------------------------------------------------
(* Boot loader.                                                             *)

\* lks7688.cfg: a name may be given twice, and other names are passed over.
CfgLine == [name : {"wifi_ssid"}, val : Ssids \union {"wrong length"}]
           \union [name : {"wifi_key"}, val : Keys \union {"wrong length"}]
           \union [name : {"other", "noequals"}, val : {"any"}]

\* The last value of n in the lines up to the first one without '='; when its
\* length is wrong there is none.
Given(lines, n) ==
  LET read == {i \in DOMAIN lines :
                 /\ lines[i].name = n
                 /\ \A j \in 1..i : lines[j].name # "noequals"}
  IN IF read = {} THEN {} ELSE {lines[Max(read)].val} \ {"wrong length"}

NextSeq(ram) == OrElse(Var(ram.env, "wifi_seq"), 0) + 1

\* setenv for each setting that is there.
Take(ram, n, found) == IF found = {} THEN ram ELSE Assign(ram, n, OrElse(found, DefaultSsid))

\* Option c: take the settings over and save the environment, then reset.
MenuC(lines) ==
  LET ssid == Given(lines, "wifi_ssid")
      key == Given(lines, "wifi_key")
      taken == Take(Take(Ram, "wifi_ssid", ssid), "wifi_key", key)
      ram == Assign(taken, "wifi_seq", NextSeq(taken))
  IN /\ stage = "uboot" /\ pc = "ready"
     /\ stage' = "menu"
     /\ \/ /\ ssid \union key = {}
           /\ UNCHANGED <<envVars, configs>>
        \/ /\ ssid \union key # {}
           /\ configs < MaxSeq
           /\ SetRam(ram)
           /\ BeginSave(ram)
           /\ configs' = configs + 1
           /\ UNCHANGED flash
     /\ UNCHANGED <<uci, first, lost>>

\* When the last line has '=' and no newline, the parser goes on at address 0:
\* it may find a zero there (MenuC) or never come back.
MenuCHangs(lines) ==
  /\ stage = "uboot" /\ pc = "ready"
  /\ \A i \in DOMAIN lines : lines[i].name # "noequals"
  /\ stage' = "hung"
  /\ UNCHANGED <<envVars, uci, first, configs, lost>>

SaveAction ==
  /\ Erase \/ WritePage \/ WriteEnds \/ (Failures /\ (EraseFails \/ WritePageFails \/ WriteStops))
  /\ UNCHANGED <<stage, uci, first, configs, lost>>

\* do_reset, when option c is done.
Reset ==
  /\ stage = "menu" /\ pc = "ready"
  /\ pc' = "off"
  /\ stage' = "uboot"
  /\ UNCHANGED <<ramVars, flash, saveVars, uci, first, configs, lost>>

LosePower ==
  /\ Failures \/ pc = "ready"
  /\ PowerFail
  /\ stage' = "uboot"
  /\ UNCHANGED <<uci, first, configs, lost>>

PowerOn ==
  /\ Boot \/ (Failures /\ BootReadFails)
  /\ lost' = (lost \/ (configs > 0 /\ env' = DefaultEnv))
  /\ UNCHANGED <<stage, uci, first, configs>>

-----------------------------------------------------------------------------
(* OpenWrt.                                                                 *)

\* fw_printenv reads the flash and checks the checksum itself.
FwEnv == OrElse(Stored(flash), DefaultEnv)

StartLinux ==
  /\ stage = "uboot" /\ pc = "ready"
  /\ stage' = IF first THEN "uci-defaults" ELSE "start"
  /\ UNCHANGED <<envVars, uci, first, configs, lost>>

\* 51_linkit_config, on the first start of an image; 54_linkit_version marks it done.
linkit_config ==
  /\ stage = "uci-defaults"
  /\ uci' = [ssid |-> OrElse(Var(FwEnv, "wifi_ssid"), DefaultSsid),
             key |-> OrElse(Var(FwEnv, "wifi_key"), uci.key),
             seq |-> OrElse(Var(FwEnv, "wifi_seq"), 1)]
  /\ first' = FALSE
  /\ stage' = "start"
  /\ UNCHANGED <<envVars, configs, lost>>

\* Mutant: the number has to be ahead by two.
Newer_ByTwo(seq) == uci.seq + 1 < seq

Newer(seq) == uci.seq < seq

\* start() of init.d/linkit.
linkit_start ==
  /\ stage = "start"
  /\ stage' = "up"
  /\ LET seq == OrElse(Var(FwEnv, "wifi_seq"), 0)
     IN uci' = IF Newer(seq)
                 THEN [ssid |-> OrElse(Var(FwEnv, "wifi_ssid"), uci.ssid),
                       key |-> OrElse(Var(FwEnv, "wifi_key"), uci.key),
                       seq |-> seq]
                 ELSE uci
  /\ UNCHANGED <<envVars, first, configs, lost>>

\* rc.button/wps, pressed for more than 20 seconds.
FactoryReset ==
  /\ stage = "up"
  /\ uci' = ImageUci
  /\ first' = TRUE
  /\ stage' = "uboot"
  /\ pc' = "off"
  /\ UNCHANGED <<ramVars, flash, saveVars, configs, lost>>

-----------------------------------------------------------------------------
WifiInit ==
  /\ Init
  /\ stage = "uboot"
  /\ uci = ImageUci
  /\ first = TRUE
  /\ configs = 0
  /\ lost = FALSE

WifiNext ==
  \/ \E a, b \in CfgLine : MenuC(<<a, b>>) \/ MenuCHangs(<<a, b>>)
  \/ SaveAction
  \/ Reset \/ LosePower \/ PowerOn
  \/ StartLinux \/ linkit_config \/ linkit_start \/ FactoryReset

WifiSpec == WifiInit /\ [][WifiNext]_wifiVars

\* UCI has the settings that are in the boot loader's environment.
Applied ==
  /\ \A s \in Var(FwEnv, "wifi_ssid") : uci.ssid = s
  /\ \A k \in Var(FwEnv, "wifi_key") : uci.key = k

\* The second and every later configuration is in force once the system is up,
\* as long as the environment has not been lost on the way.
LaterConfigApplied ==
  stage = "up" /\ ~lost /\ OrElse(Var(FwEnv, "wifi_seq"), 0) >= 2 => Applied

\* "sync the uboot envs wifi config with the uci wifi config" (init.d/linkit:14):
\* once the system is up, UCI has the settings stored in the environment.
ConfigApplied == stage = "up" => Applied

\* The same line, of every configuration but the first one, whatever failed.
RenumberedConfigApplied ==
  stage = "up" /\ OrElse(Var(FwEnv, "wifi_seq"), 0) >= 2 => Applied
=============================================================================
