------------------------------ MODULE MCKermit ------------------------------
(* Small instances of Kermit for TLC. *)
EXTENDS Kermit

\* Errors that leave the sequence number alone.
BehindHead == Damages \ HeadDamages
=============================================================================
