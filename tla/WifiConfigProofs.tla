-------------------------- MODULE WifiConfigProofs --------------------------
(***************************************************************************)
(* Proofs about WifiConfig, for every set of names and keys, every room for *)
(* the environment, every number of its pages and of configurations.        *)
(***************************************************************************)
EXTENDS WifiConfig, EnvStoreProofs

-----------------------------------------------------------------------------
(* The inductive invariant.                                                 *)

SeqOf(e) == OrElse(Var(e, "wifi_seq"), 0)

AppliedOf(e) ==
  /\ \A s \in Var(e, "wifi_ssid") : uci.ssid = s
  /\ \A k \in Var(e, "wifi_key") : uci.key = k

(* UCI is not ahead of the environment, and the two agree when they have the *)
(* same number.  51_linkit_config makes up the number 1 when there is none,  *)
(* so nothing is said of the number 1.                                       *)
InStep(e) ==
  /\ "wifi_seq" \in DOMAIN e => e["wifi_seq"] \in Nat \ {0}
  /\ ~first => /\ uci.seq \in Nat
               /\ uci.seq <= 1 \/ uci.seq <= SeqOf(e)
               /\ SeqOf(e) >= 2 /\ uci.seq = SeqOf(e) => AppliedOf(e)

(* What is in flash, and what is being written to it, is in step.            *)
FlashInStep ==
  /\ \A e \in Stored(flash) : InStep(e)
  /\ pc \in {"erase", "write"} /\ block.crc = block.data => InStep(block.data)

(* Before the first configuration there is nothing in flash.                 *)
NothingYet == configs = 0 => Stored(flash) = {} /\ InStep(DefaultEnv)

(* The boot loader and Linux work with what is in flash.                     *)
LoadedIsStored ==
  pc = "ready" /\ stage # "menu" =>
    /\ env = FwEnv /\ crc = env
    /\ Stored(flash) = {} => configs = 0

(* The stages and the parts of saveenv that go together.                     *)
StagesOK ==
  /\ configs \in Nat
  /\ DOMAIN flash = Pages
  /\ pc \in {"erase", "write"} => stage = "menu" /\ configs # 0
  /\ pc = "write" => \A i \in Pages : flash[i] \subseteq {block}
  /\ stage \notin {"uboot", "menu"} => pc = "ready"
  /\ stage \in {"start", "up"} => ~first

SettingsInv == ~lost => FlashInStep /\ NothingYet /\ LoadedIsStored

WifiInv == StagesOK /\ SettingsInv /\ LaterConfigApplied

-----------------------------------------------------------------------------
(* Variables, and what the flash holds of them.                             *)

LEMMA OrElseDef ==
  /\ \A other : OrElse({}, other) = other
  /\ \A x, other : OrElse({x}, other) = x
BY DEF OrElse

LEMMA SeqOfDef ==
  ASSUME NEW e
  PROVE  /\ "wifi_seq" \in DOMAIN e => Var(e, "wifi_seq") = {e["wifi_seq"]} /\ SeqOf(e) = e["wifi_seq"]
         /\ "wifi_seq" \notin DOMAIN e => Var(e, "wifi_seq") = {} /\ SeqOf(e) = 0
<1>1. CASE "wifi_seq" \in DOMAIN e
  <2>1. Var(e, "wifi_seq") = {e["wifi_seq"]}
    BY <1>1 DEF Var
  <2> QED BY <1>1, <2>1, OrElseDef DEF SeqOf
<1>2. CASE "wifi_seq" \notin DOMAIN e
  <2>1. Var(e, "wifi_seq") = {}
    BY <1>2 DEF Var
  <2> QED BY <1>2, <2>1, OrElseDef DEF SeqOf
<1> QED BY <1>1, <1>2

(* fw_printenv finds what is in flash, or the default.                       *)
LEMMA FwEnvCases ==
  \/ Stored(flash) = {} /\ FwEnv = DefaultEnv
  \/ Stored(flash) = {FwEnv}
<1>1. CASE Stored(flash) = {}
  BY <1>1, OrElseDef DEF FwEnv
<1>2. CASE Stored(flash) # {}
  <2>1. PICK d : d \in Stored(flash)
    BY <1>2
  <2>2. PICK b \in flash[1] : b.data = d /\ \A i \in Pages : flash[i] = {b}
    BY <2>1, StoredDef
  <2>3. \A i \in Pages : flash[i] \subseteq {b}
    BY <2>2
  <2>4. Stored(flash) \subseteq {b.data}
    BY <2>3, StoredOne
  <2>5. Stored(flash) = {d}
    BY <2>1, <2>2, <2>4
  <2> QED BY <2>5, OrElseDef DEF FwEnv
<1> QED BY <1>1, <1>2

(* Setting another variable leaves the number alone, in the environment and  *)
(* in the one its checksum was computed of.                                  *)
LEMMA AssignOther ==
  ASSUME NEW e, NEW c, NEW o, Var(c, "wifi_seq") = Var(e, "wifi_seq"),
         NEW n, n # "wifi_seq", NEW v,
         NEW r, r = Assign([env |-> e, crc |-> c, overflow |-> o], n, v)
  PROVE  /\ r = [env |-> r.env, crc |-> r.crc, overflow |-> r.overflow]
         /\ Var(r.env, "wifi_seq") = Var(e, "wifi_seq")
         /\ Var(r.crc, "wifi_seq") = Var(e, "wifi_seq")
<1> DEFINE rest == Without(e, n)
           new == With(rest, n, v)
<1>1. Var(rest, "wifi_seq") = Var(e, "wifi_seq")
  BY DEF Var, Without
<1>2. Var(new, "wifi_seq") = Var(rest, "wifi_seq")
  BY DEF Var, With
<1>3. \/ r = [env |-> e, crc |-> c, overflow |-> o]
      \/ \E p : r = [env |-> rest, crc |-> c, overflow |-> p]
      \/ r = [env |-> new, crc |-> new, overflow |-> FALSE]
  BY DEF Assign
<1> HIDE DEF rest, new
<1>4. ASSUME NEW x, NEW y, NEW p, r = [env |-> x, crc |-> y, overflow |-> p]
      PROVE  r = [env |-> r.env, crc |-> r.crc, overflow |-> r.overflow] /\ r.env = x /\ r.crc = y
  <2>1. r.env = x /\ r.crc = y
    BY <1>4
  <2>2. r.overflow = p
    BY <1>4
  <2> QED BY <1>4, <2>1, <2>2, Zenon
<1>5. CASE r = [env |-> e, crc |-> c, overflow |-> o]
  BY <1>4, <1>5, Zenon
<1>6. CASE \E p : r = [env |-> rest, crc |-> c, overflow |-> p]
  BY <1>1, <1>4, <1>6, Zenon
<1>7. CASE r = [env |-> new, crc |-> new, overflow |-> FALSE]
  BY <1>1, <1>2, <1>4, <1>7, Zenon
<1> QED BY <1>3, <1>5, <1>6, <1>7

LEMMA TakeOther ==
  ASSUME NEW e, NEW c, NEW o, Var(c, "wifi_seq") = Var(e, "wifi_seq"),
         NEW n, n # "wifi_seq", NEW found,
         NEW r, r = Take([env |-> e, crc |-> c, overflow |-> o], n, found)
  PROVE  /\ r = [env |-> r.env, crc |-> r.crc, overflow |-> r.overflow]
         /\ Var(r.env, "wifi_seq") = Var(e, "wifi_seq")
         /\ Var(r.crc, "wifi_seq") = Var(e, "wifi_seq")
<1>1. CASE found = {}
  BY <1>1 DEF Take
<1>2. CASE found # {}
  <2>1. r = Assign([env |-> e, crc |-> c, overflow |-> o], n, OrElse(found, DefaultSsid))
    BY <1>2 DEF Take
  <2> QED BY <2>1, AssignOther
<1> QED BY <1>1, <1>2

(* Setting the number: it is set; or there is no room, and then there was    *)
(* none or the checksum shows that it is missing.                            *)
LEMMA AssignSeq ==
  ASSUME NEW e, NEW c, NEW o, Var(c, "wifi_seq") = Var(e, "wifi_seq"), NEW v,
         NEW r, r = Assign([env |-> e, crc |-> c, overflow |-> o], "wifi_seq", v)
  PROVE  \/ "wifi_seq" \in DOMAIN r.env /\ r.env["wifi_seq"] = v
         \/ "wifi_seq" \notin DOMAIN r.env /\ "wifi_seq" \notin DOMAIN e
         \/ r.crc # r.env
<1> DEFINE rest == Without(e, "wifi_seq")
           new == With(rest, "wifi_seq", v)
<1>1. "wifi_seq" \notin DOMAIN rest
  BY DEF Without
<1>2. "wifi_seq" \in DOMAIN new /\ new["wifi_seq"] = v
  BY DEF With
<1>3. \/ \E p : r = [env |-> rest, crc |-> c, overflow |-> p]
      \/ r = [env |-> new, crc |-> new, overflow |-> FALSE]
  BY WifiAssumption DEF Assign
<1> HIDE DEF rest, new
<1>4. CASE r = [env |-> new, crc |-> new, overflow |-> FALSE]
  BY <1>2, <1>4
<1>5. CASE \E p : r = [env |-> rest, crc |-> c, overflow |-> p]
  <2>1. r.env = rest /\ r.crc = c
    BY <1>5
  <2>2. "wifi_seq" \in DOMAIN e => "wifi_seq" \in DOMAIN c
    BY SeqOfDef
  <2> QED BY <1>1, <2>1, <2>2
<1> QED BY <1>3, <1>4, <1>5

-----------------------------------------------------------------------------
(* The boot loader.                                                         *)

(* Option c numbers the settings one higher than those the system has got.   *)
LEMMA MenuCNumbers ==
  ASSUME env = FwEnv, crc = env, InStep(env), NEW ssid, NEW key, NEW taken, NEW ram,
         taken = Take(Take(Ram, "wifi_ssid", ssid), "wifi_key", key),
         ram = Assign(taken, "wifi_seq", NextSeq(taken)), ram.crc = ram.env
  PROVE  InStep(ram.env)
<1> DEFINE one == Take(Ram, "wifi_ssid", ssid)
<1>1. /\ one = [env |-> one.env, crc |-> one.crc, overflow |-> one.overflow]
      /\ Var(one.env, "wifi_seq") = Var(env, "wifi_seq")
      /\ Var(one.crc, "wifi_seq") = Var(env, "wifi_seq")
  BY TakeOther DEF Ram
<1> HIDE DEF one
<1>2. /\ taken = [env |-> taken.env, crc |-> taken.crc, overflow |-> taken.overflow]
      /\ Var(taken.env, "wifi_seq") = Var(env, "wifi_seq")
      /\ Var(taken.crc, "wifi_seq") = Var(env, "wifi_seq")
  <2>1. taken = Take([env |-> one.env, crc |-> one.crc, overflow |-> one.overflow], "wifi_key", key)
    BY <1>1 DEF one
  <2> QED BY <1>1, <2>1, TakeOther
<1>3. NextSeq(taken) = SeqOf(env) + 1
  BY <1>2 DEF NextSeq, SeqOf
<1>4. SeqOf(env) \in Nat
  BY SeqOfDef DEF InStep
<1>5. \/ "wifi_seq" \in DOMAIN ram.env /\ ram.env["wifi_seq"] = SeqOf(env) + 1
      \/ "wifi_seq" \notin DOMAIN ram.env /\ "wifi_seq" \notin DOMAIN taken.env
  <2>1. ram = Assign([env |-> taken.env, crc |-> taken.crc, overflow |-> taken.overflow],
                     "wifi_seq", SeqOf(env) + 1)
    BY <1>2, <1>3
  <2> QED BY <1>2, <2>1, AssignSeq
<1>6. CASE "wifi_seq" \in DOMAIN ram.env /\ ram.env["wifi_seq"] = SeqOf(env) + 1
  <2>1. SeqOf(ram.env) = SeqOf(env) + 1
    BY <1>6, SeqOfDef
  <2> QED BY <1>4, <1>6, <2>1 DEF InStep
<1>7. CASE "wifi_seq" \notin DOMAIN ram.env /\ "wifi_seq" \notin DOMAIN taken.env
  <2>1. "wifi_seq" \notin DOMAIN env
    BY <1>2, <1>7, SeqOfDef
  <2>2. SeqOf(env) = 0 /\ SeqOf(ram.env) = 0
    BY <1>7, <2>1, SeqOfDef
  <2> QED BY <1>7, <2>2 DEF InStep
<1> QED BY <1>5, <1>6, <1>7

(* What is in step stays so while UCI is left alone.                         *)
LEMMA SameStep ==
  ASSUME UNCHANGED <<uci, first>>
  PROVE  \A e : InStep(e)' = InStep(e)
BY DEF InStep, AppliedOf

(* Linux starts with settings that are in step.                              *)
LEMMA StartsInStep ==
  ASSUME SettingsInv, ~lost, pc = "ready", stage # "menu"
  PROVE  env = FwEnv /\ crc = env /\ InStep(env)
BY FwEnvCases DEF SettingsInv, FlashInStep, NothingYet, LoadedIsStored

LEMMA MenuCStep ==
  ASSUME WifiInv, NEW lines, MenuC(lines)
  PROVE  WifiInv'
<1> USE DEF WifiInv
<1>1. /\ stage = "uboot" /\ pc = "ready" /\ stage' = "menu" /\ UNCHANGED <<uci, first, lost>>
  BY DEF MenuC
<1>2. \A e : InStep(e)' = InStep(e)
  BY <1>1, SameStep
<1>3. LaterConfigApplied'
  BY <1>1 DEF LaterConfigApplied
<1>4. CASE UNCHANGED <<envVars, configs>>
  <2>1. UNCHANGED <<flash, pc, block, configs, env, crc>>
    BY <1>4 DEF envVars, ramVars, saveVars
  <2>2. StagesOK'
    BY <1>1, <2>1 DEF StagesOK, Pages
  <2>3. SettingsInv'
    BY <1>1, <1>2, <2>1 DEF SettingsInv, FlashInStep, NothingYet, LoadedIsStored, Stored, Pages
  <2> QED BY <1>3, <2>2, <2>3
<1>5. CASE ~UNCHANGED <<envVars, configs>>
  <2> DEFINE ssid == Given(lines, "wifi_ssid")
             key == Given(lines, "wifi_key")
             taken == Take(Take(Ram, "wifi_ssid", ssid), "wifi_key", key)
             ram == Assign(taken, "wifi_seq", NextSeq(taken))
  <2>1. configs' = configs + 1 /\ flash' = flash /\ BeginSave(ram)
    BY <1>5 DEF MenuC
  <2> HIDE DEF ssid, key
  <2>2. block' = [data |-> ram.env, crc |-> ram.crc] /\ pc' = "erase"
    BY <2>1 DEF BeginSave, Block
  <2>3. ~lost /\ ram.crc = ram.env => InStep(ram.env)
    <3> SUFFICES ASSUME ~lost, ram.crc = ram.env PROVE InStep(ram.env)
      OBVIOUS
    <3>1. env = FwEnv /\ crc = env /\ InStep(env)
      BY <1>1, StartsInStep
    <3> QED BY <3>1, MenuCNumbers
  <2> HIDE DEF taken, ram
  <2>4. StagesOK'
    BY <1>1, <2>1, <2>2 DEF StagesOK, Pages
  <2>5. SettingsInv'
    <3> SUFFICES ASSUME ~lost PROVE FlashInStep' /\ NothingYet' /\ LoadedIsStored'
      BY <1>1 DEF SettingsInv
    <3>1. Stored(flash)' = Stored(flash)
      BY <2>1 DEF Stored, Pages
    <3>2. FlashInStep'
      BY <1>2, <2>2, <2>3, <3>1 DEF FlashInStep, SettingsInv
    <3>3. NothingYet'
      BY <2>1 DEF NothingYet, StagesOK
    <3>4. LoadedIsStored'
      BY <2>2 DEF LoadedIsStored
    <3> QED BY <3>2, <3>3, <3>4
  <2> QED BY <1>3, <2>4, <2>5
<1> QED BY <1>4, <1>5

(* Nothing that matters is changed in the middle of saveenv but the flash,    *)
(* which then holds the block being saved or nothing.                         *)
LEMMA SaveActionStep ==
  ASSUME WifiInv, SaveAction
  PROVE  WifiInv'
<1> USE DEF WifiInv
<1>1. /\ UNCHANGED <<stage, uci, first, configs, lost, block>>
      /\ pc \in {"erase", "write"} /\ pc' \in {"ready", "erase", "write"}
  BY DEF SaveAction, Erase, WritePage, WriteEnds, EraseFails, WritePageFails, WriteStops, saveVars
<1>2. stage = "menu" /\ configs # 0
  BY <1>1 DEF StagesOK
<1>3. /\ DOMAIN flash' = Pages
      /\ flash' = flash \/ \A i \in Pages : flash'[i] \subseteq {block}
      /\ pc' = "write" => \A i \in Pages : flash'[i] \subseteq {block}
  <2>1. CASE Erase
    BY <2>1 DEF Erase
  <2>2. CASE WritePage
    BY <2>2 DEF WritePage, StagesOK
  <2>3. CASE ~Erase /\ ~WritePage
    BY <2>3 DEF SaveAction, WriteEnds, EraseFails, WritePageFails, WriteStops, StagesOK
  <2> QED BY <2>1, <2>2, <2>3
<1>4. StagesOK'
  BY <1>1, <1>2, <1>3 DEF StagesOK
<1>5. LaterConfigApplied'
  BY <1>1, <1>2 DEF LaterConfigApplied
<1>6. SettingsInv'
  <2> SUFFICES ASSUME ~lost PROVE FlashInStep' /\ NothingYet' /\ LoadedIsStored'
    BY <1>1 DEF SettingsInv
  <2>1. FlashInStep /\ \A e : InStep(e)' = InStep(e)
    BY <1>1, SameStep DEF SettingsInv
  <2>2. \A e \in Stored(flash') : InStep(e)
    <3>1. CASE flash' = flash
      BY <2>1, <3>1 DEF FlashInStep
    <3>2. CASE \A i \in Pages : flash'[i] \subseteq {block}
      <4> SUFFICES ASSUME NEW e \in Stored(flash') PROVE InStep(e)
        OBVIOUS
      <4>1. PICK b \in flash'[1] : b.crc = b.data /\ b.data = e
        BY StoredDef
      <4>2. 1 \in Pages
        BY EnvAssumption DEF Pages
      <4>3. b = block
        BY <3>2, <4>1, <4>2
      <4> QED BY <1>1, <2>1, <4>1, <4>3 DEF FlashInStep
    <3> QED BY <1>3, <3>1, <3>2
  <2>3. FlashInStep'
    BY <1>1, <2>1, <2>2 DEF FlashInStep, Stored, Pages
  <2>4. NothingYet' /\ LoadedIsStored'
    BY <1>1, <1>2 DEF NothingYet, LoadedIsStored
  <2> QED BY <2>3, <2>4
<1> QED BY <1>4, <1>5, <1>6

(* Steps to a device that is off.                                            *)
LEMMA OffStep ==
  ASSUME WifiInv, pc' = "off", stage' = "uboot", UNCHANGED <<configs, lost>>,
         DOMAIN flash' = Pages, Stored(flash') \subseteq Stored(flash),
         first' \/ UNCHANGED <<uci, first>>
  PROVE  WifiInv'
<1> USE DEF WifiInv
<1>1. StagesOK' /\ LaterConfigApplied'
  BY DEF StagesOK, LaterConfigApplied
<1>2. \A e : InStep(e) => InStep(e)'
  BY SameStep DEF InStep
<1>3. SettingsInv'
  <2> SUFFICES ASSUME ~lost PROVE FlashInStep' /\ NothingYet' /\ LoadedIsStored'
    BY DEF SettingsInv
  <2>1. Stored(flash)' = Stored(flash')
    BY DEF Stored, Pages
  <2> QED BY <1>2, <2>1 DEF SettingsInv, FlashInStep, NothingYet, LoadedIsStored
<1> QED BY <1>1, <1>3

LEMMA LosePowerStep ==
  ASSUME WifiInv, LosePower
  PROVE  WifiInv'
<1>1. pc' = "off" /\ stage' = "uboot" /\ UNCHANGED <<configs, lost, uci, first>>
  BY DEF LosePower, PowerFail
<1>2. DOMAIN flash' = Pages /\ \A i \in Pages : flash'[i] = flash[i] \/ flash'[i] = {}
  <2>1. CASE flash' = flash
    BY <2>1 DEF WifiInv, StagesOK
  <2>2. CASE \E torn \in SUBSET Pages :
               flash' = [i \in Pages |-> IF i \in torn THEN {} ELSE flash[i]]
    BY <2>2
  <2> QED BY <2>1, <2>2 DEF LosePower, PowerFail
<1>3. Stored(flash') \subseteq Stored(flash)
  BY <1>2, StoredShrinks
<1> QED BY <1>1, <1>2, <1>3, OffStep

(* A start that comes up with the default environment is noticed.            *)
LEMMA PowerOnStep ==
  ASSUME WifiInv, PowerOn
  PROVE  WifiInv'
<1> USE DEF WifiInv
<1>1. /\ pc = "off" /\ pc' = "ready" /\ UNCHANGED <<flash, block, stage, uci, first, configs>>
      /\ lost' = (lost \/ (configs > 0 /\ env' = DefaultEnv))
  BY DEF PowerOn, Boot, BootReadFails, saveVars
<1>2. \/ \E e \in Stored(flash) : env' = e /\ crc' = e
      \/ env' = DefaultEnv /\ crc' = DefaultEnv
  BY DEF PowerOn, Boot, BootReadFails, Load
<1>3. stage \in {"uboot", "menu"}
  BY <1>1 DEF StagesOK
<1>4. StagesOK' /\ LaterConfigApplied'
  BY <1>1, <1>3 DEF StagesOK, LaterConfigApplied
<1>5. SettingsInv'
  <2> SUFFICES ASSUME ~lost' PROVE FlashInStep' /\ NothingYet' /\ LoadedIsStored'
    BY DEF SettingsInv
  <2>1. ~lost /\ (env' = DefaultEnv => configs = 0)
    <3>1. ~lost /\ ~(configs > 0 /\ env' = DefaultEnv)
      BY <1>1, Zenon
    <3>2. configs \in Nat
      BY DEF StagesOK
    <3>3. ~(configs > 0) => configs = 0
      BY <3>2
    <3> QED BY <3>1, <3>3, Zenon
  <2>2. Stored(flash)' = Stored(flash) /\ FwEnv' = FwEnv
    BY <1>1 DEF FwEnv, Stored, Pages
  <2>3. \A e : InStep(e)' = InStep(e)
    BY <1>1, SameStep
  <2>4. FlashInStep' /\ NothingYet'
    BY <1>1, <2>1, <2>2, <2>3 DEF SettingsInv, FlashInStep, NothingYet
  <2>5. env' = FwEnv /\ crc' = env' /\ (Stored(flash) = {} => configs = 0)
    <3>1. CASE \E e \in Stored(flash) : env' = e /\ crc' = e
      BY <3>1, FwEnvCases
    <3>2. CASE env' = DefaultEnv /\ crc' = DefaultEnv
      BY <2>1, <3>2, FwEnvCases DEF SettingsInv, NothingYet
    <3> QED BY <1>2, <3>1, <3>2
  <2> QED BY <1>1, <2>2, <2>4, <2>5 DEF LoadedIsStored
<1> QED BY <1>4, <1>5

-----------------------------------------------------------------------------
(* Linux.                                                                   *)

(* A step of the scripts: the flash is as it was, and UCI is in step with it. *)
LEMMA LinuxStep ==
  ASSUME WifiInv, pc = "ready", stage # "menu", UNCHANGED <<envVars, configs, lost>>,
         stage' \notin {"menu", "uboot"}, stage' \in {"start", "up"} => ~first',
         ~lost => \A e : e = FwEnv => InStep(e)',
         LaterConfigApplied'
  PROVE  WifiInv'
<1> USE DEF WifiInv
<1>1. UNCHANGED <<env, crc, flash, pc, block>>
  BY DEF envVars, ramVars, saveVars
<1>2. StagesOK'
  BY <1>1 DEF StagesOK
<1>3. SettingsInv'
  <2> SUFFICES ASSUME ~lost PROVE FlashInStep' /\ NothingYet' /\ LoadedIsStored'
    BY DEF SettingsInv
  <2>1. Stored(flash)' = Stored(flash) /\ FwEnv' = FwEnv
    BY <1>1 DEF FwEnv, Stored, Pages
  <2>2. FlashInStep'
    BY <1>1, <2>1, FwEnvCases DEF FlashInStep
  <2>3. NothingYet'
    BY <2>1, FwEnvCases DEF SettingsInv, NothingYet
  <2>4. LoadedIsStored'
    BY <1>1, <2>1 DEF SettingsInv, LoadedIsStored
  <2> QED BY <2>2, <2>3, <2>4
<1> QED BY <1>2, <1>3

(* What the scripts take over, they have taken over.                         *)
LEMMA TakenOver ==
  ASSUME NEW e, NEW other1, NEW other2,
         uci'.ssid = OrElse(Var(e, "wifi_ssid"), other1),
         uci'.key = OrElse(Var(e, "wifi_key"), other2)
  PROVE  AppliedOf(e)'
BY OrElseDef DEF AppliedOf, Var

LEMMA ConfigStep ==
  ASSUME WifiInv, linkit_config
  PROVE  WifiInv'
<1>1. /\ stage = "uci-defaults" /\ first' = FALSE /\ stage' = "start" /\ UNCHANGED <<envVars, configs, lost>>
      /\ uci' = [ssid |-> OrElse(Var(FwEnv, "wifi_ssid"), DefaultSsid),
                 key |-> OrElse(Var(FwEnv, "wifi_key"), uci.key),
                 seq |-> OrElse(Var(FwEnv, "wifi_seq"), 1)]
  BY DEF linkit_config
<1>2. pc = "ready"
  BY <1>1 DEF WifiInv, StagesOK
<1>3. LaterConfigApplied'
  BY <1>1 DEF LaterConfigApplied
<1>4. ASSUME ~lost, NEW e, e = FwEnv
      PROVE  InStep(e)'
  <2>1. InStep(e)
    BY <1>1, <1>2, <1>4, StartsInStep DEF WifiInv
  <2>2. AppliedOf(e)'
    BY <1>1, <1>4, TakenOver
  <2>3. "wifi_seq" \in DOMAIN e => uci'.seq = e["wifi_seq"]
    BY <1>1, <1>4, SeqOfDef, OrElseDef
  <2>4. "wifi_seq" \notin DOMAIN e => uci'.seq = 1
    BY <1>1, <1>4, SeqOfDef, OrElseDef
  <2> QED BY <1>1, <2>1, <2>2, <2>3, <2>4, SeqOfDef DEF InStep
<1> QED BY <1>1, <1>2, <1>3, <1>4, LinuxStep

LEMMA StartStep ==
  ASSUME WifiInv, linkit_start
  PROVE  WifiInv'
<1> DEFINE seq == SeqOf(FwEnv)
<1>1. /\ stage = "start" /\ stage' = "up" /\ UNCHANGED <<envVars, first, configs, lost>>
      /\ uci' = IF uci.seq < seq
                  THEN [ssid |-> OrElse(Var(FwEnv, "wifi_ssid"), uci.ssid),
                        key |-> OrElse(Var(FwEnv, "wifi_key"), uci.key),
                        seq |-> seq]
                  ELSE uci
  BY DEF linkit_start, Newer, SeqOf
<1> HIDE DEF seq
<1>2. pc = "ready" /\ ~first /\ ~first'
  BY <1>1 DEF WifiInv, StagesOK
<1>3. ASSUME ~lost, NEW e, e = FwEnv
      PROVE  InStep(e)' /\ (seq >= 2 => AppliedOf(e)')
  <2>1. InStep(e) /\ seq = SeqOf(e)
    BY <1>1, <1>2, <1>3, StartsInStep DEF WifiInv, seq
  <2>2. seq \in Nat
    BY <2>1, SeqOfDef DEF InStep
  <2>3. CASE uci.seq < seq
    <3>1. AppliedOf(e)' /\ uci'.seq = seq
      BY <1>1, <1>3, <2>3, TakenOver
    <3> QED BY <1>2, <2>1, <2>2, <3>1 DEF InStep
  <2>4. CASE ~(uci.seq < seq)
    <3>1. uci' = uci
      BY <1>1, <2>4
    <3>2. InStep(e)' = InStep(e) /\ AppliedOf(e)' = AppliedOf(e)
      BY <1>1, <3>1, SameStep DEF AppliedOf
    <3>3. seq >= 2 => AppliedOf(e)
      BY <1>2, <2>1, <2>2, <2>4 DEF InStep
    <3> QED BY <2>1, <3>2, <3>3
  <2> QED BY <2>3, <2>4
<1>4. LaterConfigApplied'
  <2>1. FwEnv' = FwEnv
    BY <1>1 DEF envVars, FwEnv, Stored, Pages
  <2>2. Applied' = AppliedOf(FwEnv)'
    BY DEF Applied, AppliedOf
  <2>3. SeqOf(FwEnv)' = seq
    BY <2>1 DEF SeqOf, seq
  <2>4. \A e : e = FwEnv => AppliedOf(e)' = AppliedOf(FwEnv)'
    BY <2>1 DEF AppliedOf
  <2> QED BY <1>1, <1>3, <2>1, <2>2, <2>3, <2>4 DEF LaterConfigApplied, SeqOf
<1> QED BY <1>1, <1>2, <1>3, <1>4, LinuxStep

-----------------------------------------------------------------------------
(* The invariant and the theorem.                                           *)

LEMMA WifiInitially == WifiInit => WifiInv
<1> SUFFICES ASSUME WifiInit PROVE WifiInv
  OBVIOUS
<1> USE DEF WifiInit, Init
<1>1. 1 \in Pages
  BY EnvAssumption DEF Pages
<1>2. Stored(flash) = {}
  BY <1>1, StoredDef
<1>3. FwEnv = DefaultEnv
  BY <1>2, FwEnvCases
<1>4. InStep(DefaultEnv)
  BY WifiAssumption DEF InStep
<1>5. StagesOK
  BY DEF StagesOK
<1>6. SettingsInv
  BY <1>2, <1>3, <1>4 DEF SettingsInv, FlashInStep, NothingYet, LoadedIsStored
<1>7. LaterConfigApplied
  BY DEF LaterConfigApplied
<1> QED BY <1>5, <1>6, <1>7 DEF WifiInv

LEMMA WifiInductive == WifiInv /\ [WifiNext]_wifiVars => WifiInv'
<1> SUFFICES ASSUME WifiInv, [WifiNext]_wifiVars PROVE WifiInv'
  OBVIOUS
<1>1. ASSUME NEW lines, MenuC(lines) \/ MenuCHangs(lines)
      PROVE  WifiInv'
  <2>1. CASE MenuCHangs(lines)
    <3>1. /\ pc = "ready" /\ stage = "uboot" /\ stage' = "hung"
          /\ UNCHANGED <<envVars, configs, lost, uci, first>>
      BY <2>1 DEF MenuCHangs
    <3>2. ~lost => \A e : e = FwEnv => InStep(e)'
      BY <3>1, StartsInStep, SameStep DEF WifiInv
    <3>3. LaterConfigApplied'
      BY <3>1 DEF LaterConfigApplied
    <3> QED BY <3>1, <3>2, <3>3, LinuxStep
  <2> QED BY <1>1, <2>1, MenuCStep
<1>2. CASE Reset \/ FactoryReset
  <2>1. /\ pc' = "off" /\ stage' = "uboot" /\ UNCHANGED <<configs, lost, flash>>
        /\ first' \/ UNCHANGED <<uci, first>>
    BY <1>2 DEF Reset, FactoryReset
  <2>2. DOMAIN flash' = Pages /\ Stored(flash') = Stored(flash)
    BY <2>1 DEF WifiInv, StagesOK
  <2> QED BY <2>1, <2>2, OffStep
<1>3. CASE StartLinux
  <2>1. /\ pc = "ready" /\ stage = "uboot" /\ UNCHANGED <<envVars, configs, lost, uci, first>>
        /\ stage' = IF first THEN "uci-defaults" ELSE "start"
    BY <1>3 DEF StartLinux
  <2>2. ~lost => \A e : e = FwEnv => InStep(e)'
    BY <2>1, StartsInStep, SameStep DEF WifiInv
  <2>3. LaterConfigApplied'
    BY <2>1 DEF LaterConfigApplied
  <2> QED BY <2>1, <2>2, <2>3, LinuxStep
<1>4. CASE UNCHANGED wifiVars
  <2>1. UNCHANGED <<env, crc, flash, pc, block, stage, uci, first, configs, lost>>
    BY <1>4 DEF wifiVars, envVars, ramVars, saveVars
  <2>2. FwEnv' = FwEnv /\ Stored(flash)' = Stored(flash)
    BY <2>1 DEF FwEnv, Stored, Pages
  <2>3. \A e : InStep(e)' = InStep(e)
    BY <2>1, SameStep
  <2>4. StagesOK' /\ SettingsInv'
    BY <2>1, <2>2, <2>3 DEF WifiInv, StagesOK, SettingsInv, FlashInStep, NothingYet, LoadedIsStored
  <2>5. LaterConfigApplied'
    BY <2>1, <2>2 DEF WifiInv, LaterConfigApplied, Applied
  <2> QED BY <2>4, <2>5 DEF WifiInv
<1> QED BY <1>1, <1>2, <1>3, <1>4, SaveActionStep, LosePowerStep, PowerOnStep, ConfigStep, StartStep
        DEF WifiNext

(* Whatever fails while settings are stored (a torn erase or write, a flash   *)
(* that cannot be read, no room left in the environment), the second and      *)
(* every later configuration is in force once the system is up, as long as    *)
(* the environment has not been lost on the way: option c of the boot menu    *)
(* and init.d/linkit together.                                                *)
THEOREM LaterApplied == WifiSpec => []LaterConfigApplied
<1>1. WifiInv => LaterConfigApplied
  BY DEF WifiInv
<1> QED BY <1>1, WifiInitially, WifiInductive, PTL DEF WifiSpec
=============================================================================
