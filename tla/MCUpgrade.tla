------------------------------ MODULE MCUpgrade ------------------------------
(* Two loaders that fit and one that does not, firmware that fits, fills the *)
(* area, and is one unit too big.                                            *)
EXTENDS Upgrade

MCLoaders == {[kind |-> "ldr", ver |-> v, size |-> v] : v \in 1..4}
MCFirmwares == {[kind |-> "fw", ver |-> 1, size |-> 2, kernel |-> 1],
                [kind |-> "fw", ver |-> 2, size |-> 3, kernel |-> 2],
                [kind |-> "fw", ver |-> 3, size |-> 4, kernel |-> 2]}
MCShipped == [loader |-> [kind |-> "ldr", ver |-> 2, size |-> 2],
              fw |-> [kind |-> "fw", ver |-> 2, size |-> 3, kernel |-> 2]]
=============================================================================
