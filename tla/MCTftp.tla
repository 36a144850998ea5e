------------------------------- MODULE MCTftp -------------------------------
(* Small instances of Tftp for TLC. *)
EXTENDS Tftp

\* The timer gave every start a port of its own, or always the same one.
DistinctPorts == [i \in 0..MaxRestarts |-> 1024 + i]
SamePort == [i \in 0..MaxRestarts |-> 1024]
=============================================================================
