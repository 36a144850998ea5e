------------------------------ MODULE MCIoTest ------------------------------
(* IoTest for TLC. *)
EXTENDS IoTest
=============================================================================
