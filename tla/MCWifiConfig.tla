---------------------------- MODULE MCWifiConfig ----------------------------
(* Constants for model checking WifiConfig: two names, two keys, and the    *)
(* settings of openwrt/files/etc/config/wireless.                           *)
EXTENDS WifiConfig, TLC

CONSTANTS s0, s1, k0, k1

MCSsids == {s0, s1}
MCKeys == {k0, k1}
MCValues == MCSsids \union MCKeys \union 1..MaxSeq
MCLen == [v \in MCValues |-> 1]
MCDefault == [n \in {} |-> s0]
MCImageUci == [ssid |-> s0, key |-> k0, seq |-> 1]
=============================================================================
