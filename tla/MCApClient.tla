----------------------------- MODULE MCApClient -----------------------------
(* A small instance of ApClient for TLC. *)
EXTENDS ApClient

MCSecs == {[enc |-> "NONE", crypto |-> ""], [enc |-> "WEP", crypto |-> ""],
           [enc |-> "WPAPSK", crypto |-> "TKIP"],
           [enc |-> "WPAPSKWPA2PSK", crypto |-> "TKIPAES"]}
=============================================================================
